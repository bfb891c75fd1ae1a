------------------------------- MODULE Broker -------------------------------
(***************************************************************************)
(* The capability broker of src/src/broker.rs: Broker::handle_execute over *)
(* the kernel, the persisted journal and a supervisor process that writes  *)
(* the destination file.  The broker serves one connection at a time; a    *)
(* step of the model ends where the outside can see or change something:   *)
(* at every save of the journal, at the launch and while waiting.          *)
(*                                                                         *)
(* Requests that are refused before admission change nothing and are       *)
(* stuttering steps, except the two refusals that freeze the broker.       *)
(***************************************************************************)
EXTENDS KernelOps, Functions

CONSTANTS
    Dest,         \* Dest[r]: the destination path of request r
    MaxFaults,    \* bound on errors of saves, removals and waits
    MaxRestarts   \* bound on crashes of the broker

ASSUME BrokerConstants ==
    /\ DOMAIN Dest = Proposals
    /\ MaxFaults \in Nat
    /\ MaxRestarts \in Nat

Requests == Proposals
Dests == {Dest[r] : r \in Requests}
Policy == CHOOSE policy \in Policies : TRUE

VARIABLES
    pc,         \* where the broker is: "down", "idle", or a step of handle_execute
    current,    \* Option: the request being handled
    kernel,     \* the kernel, new in every process
    journal,    \* BrokerJournal in memory
    frozen,     \* Broker.frozen
    disk,       \* the journal file: primary and complete temporary file, each an
                \* Option, and whether there is a torn temporary file
    file,       \* file[d]: Option of the request whose output is at d
    supervisor, \* supervisor[r]: the state of r's supervisor process
    launched,   \* history: the requests launched, in order
    completed,  \* history: requests answered with Completed
    stuck,      \* history: requests whose output could not be removed, or whose
                \* supervisor was left running after a failed wait
    faults,
    restarts

memory == <<pc, current, kernel, journal, frozen>>
workspace == <<file, supervisor>>
history == <<launched, completed, stuck>>
vars == <<memory, disk, workspace, history, faults, restarts>>

-----------------------------------------------------------------------------
(* BrokerJournal.                                                          *)

NewJournal == [frozen |-> FALSE, entries |-> <<>>]

(* BrokerJournal::status: the status of the latest entry for r.            *)
Status(j, r) ==
    LET of == {i \in DOMAIN j.entries : j.entries[i].request = r}
    IN  IF of = {} THEN "None" ELSE j.entries[CHOOSE i \in of : \A k \in of : k <= i].status

InFlight(j) == {r \in Requests : Status(j, r) \in {"Admitted", "Executing"}}

SameNonce(q, r) == ReplayKey[q] = ReplayKey[r]

(* replay_status.                                                          *)
NonceSeen(j, r) == \E i \in DOMAIN j.entries : SameNonce(j.entries[i].request, r)

AppendTo(j, r, status) ==
    [j EXCEPT !.entries = Append(@, [request |-> r, status |-> status])]

(* The transitions BrokerJournal::validate allows.                         *)
Allowed ==
    [None |-> {"Admitted", "Rejected", "Quarantined"},
     Admitted |-> {"Executing", "Quarantined"},
     Executing |-> {"Committed", "RolledBack", "Quarantined"},
     Committed |-> {}, RolledBack |-> {}, Rejected |-> {}, Quarantined |-> {}]

ValidJournal(j) ==
    \A i \in DOMAIN j.entries :
        LET e == j.entries[i]
            before == [j EXCEPT !.entries = SubSeq(@, 1, i - 1)]
        IN  /\ e.status \in Allowed[Status(before, e.request)]
            /\ \A k \in 1 .. i - 1 :
                  SameNonce(j.entries[k].request, e.request)
                     => j.entries[k].request = e.request

(* checker::validate_broker_journal repeats the equations of the journal   *)
(* and adds that a frozen journal holds nothing in flight.                 *)
CheckBrokerJournal(j) ==
    /\ ValidJournal(j)
    /\ j.frozen => InFlight(j) = {}

(* BrokerJournal::save, through the snapshot store: it succeeds, or fails  *)
(* with nothing written, with a torn or a complete temporary file left     *)
(* behind, or after the rename.  A temporary file makes every save fail.   *)
Refused(d, j) == ~ValidJournal(j) \/ d.torn \/ d.tmp # {}

SaveOutcomes(d, j) ==
    LET written == [d EXCEPT !.primary = {j}]
        pending == [d EXCEPT !.tmp = {j}]
        torn == [d EXCEPT !.torn = TRUE]
    IN  IF Refused(d, j) THEN {<<d, FALSE>>}
        ELSE {<<written, TRUE>>} \cup
             (IF faults = MaxFaults THEN {}
              ELSE {d, written, pending, torn} \X {FALSE})

SaveFrom(d, j, ok) ==
    /\ \E outcome \in SaveOutcomes(d, j) : disk' = outcome[1] /\ ok = outcome[2]
    /\ faults' = IF ok \/ Refused(d, j) THEN faults ELSE faults + 1

Save(j, ok) == SaveFrom(disk, j, ok)

(* BrokerJournal::recover prefers a pending journal to the primary.        *)
Durable ==
    CHOOSE j \in IF disk.tmp # {} THEN disk.tmp
                 ELSE IF disk.primary # {} THEN disk.primary ELSE {NewJournal} : TRUE

-----------------------------------------------------------------------------

Init ==
    /\ pc = "idle"
    /\ current = {}
    /\ kernel = NewKernel(Policy)
    /\ journal = NewJournal
    /\ frozen = FALSE
    /\ disk = [primary |-> {}, tmp |-> {}, torn |-> FALSE]
    /\ file = [d \in Dests |-> {}]
    /\ supervisor = [r \in Requests |-> "none"]
    /\ launched = <<>>
    /\ completed = {}
    /\ stuck = {}
    /\ faults = 0
    /\ restarts = 0

(* remove_file(destination); an error is ignored.                          *)
RemoveOutput(r, removed) ==
    /\ ~removed => faults < MaxFaults
    /\ faults' = IF removed THEN faults ELSE faults + 1
    /\ file' = IF removed THEN [file EXCEPT ![Dest[r]] = {}] ELSE file
    /\ stuck' = IF removed THEN stuck ELSE stuck \cup {r}

(* A lifecycle event whose refusal is ignored.                             *)
TryEvent(k, r, event) == IF CanApply(k, r, event) THEN WithEvent(k, r, event) ELSE k

-----------------------------------------------------------------------------
(* handle_execute.                                                         *)

(* The checks in front of admission.                                       *)
Admissible(r) ==
    /\ pc = "idle"
    /\ ~frozen
    /\ ~NonceSeen(journal, r)
    /\ file[Dest[r]] = {}
    /\ CanAdmit(kernel, r, 0)

(* Not accepted, or no receipt could be issued: only the kernel remembers. *)
AdmitInVain(r) ==
    /\ Admissible(r)
    /\ kernel' = AfterAdmit(kernel, r, 0)
    /\ UNCHANGED <<pc, current, journal, frozen, disk, workspace, history, faults, restarts>>

Admit(r) ==
    /\ Admissible(r)
    /\ Verdict(kernel, r, 0) = "Accepted"
    /\ kernel' = AfterAdmit(kernel, r, 0)
    /\ journal' = AppendTo(journal, r, "Admitted")
    /\ pc' = "save_admitted"
    /\ current' = {r}
    /\ UNCHANGED <<frozen, disk, workspace, history, faults, restarts>>

(* Saved: the capability is consumed and Executing is recorded.            *)
SaveAdmitted(r, ok) ==
    /\ pc = "save_admitted"
    /\ Save(journal, ok)
    /\ IF ok /\ CanConsume(kernel, r, kernel.issuances[r].decision, 0)
       THEN /\ kernel' = AfterConsume(kernel, r)
            /\ journal' = AppendTo(journal, r, "Executing")
            /\ pc' = "save_executing"
       ELSE pc' = "freeze" /\ UNCHANGED <<kernel, journal>>
    /\ UNCHANGED <<current, frozen, workspace, history, restarts>>

(* Mutant: a failed save is not noticed.                                   *)
ExecuteUnsaved(r, ok) ==
    /\ pc = "save_executing"
    /\ Save(journal, ok)
    /\ pc' = "launch"
    /\ UNCHANGED <<current, kernel, journal, frozen, workspace, history, restarts>>

SaveExecuting(r, ok) ==
    /\ pc = "save_executing"
    /\ Save(journal, ok)
    /\ pc' = IF ok THEN "launch" ELSE "freeze"
    /\ UNCHANGED <<current, kernel, journal, frozen, workspace, history, restarts>>

(* No launch token: freeze.  The destination exists, or the job cannot be  *)
(* written or the process not started: undo.                               *)
LaunchFails(r) ==
    /\ pc = "launch"
    /\ pc' \in {"freeze", "undo"}
    /\ UNCHANGED <<current, kernel, journal, frozen, disk, workspace, history, faults, restarts>>

Launch(r) ==
    /\ pc = "launch"
    /\ file[Dest[r]] = {}
    /\ supervisor' = [supervisor EXCEPT ![r] = "started"]
    /\ launched' = Append(launched, r)
    /\ pc' = "wait"
    /\ UNCHANGED <<current, kernel, journal, frozen, disk, file, completed, stuck, faults, restarts>>

(* Mutant: the broker waits for ever.                                      *)
NoTimeout(r) == FALSE /\ UNCHANGED vars

(* run_supervisor: the deadline passes and the process is killed.          *)
Timeout(r) ==
    /\ pc = "wait"
    /\ supervisor' = [supervisor EXCEPT ![r] = "gone"]
    /\ pc' = "undo"
    /\ UNCHANGED <<current, kernel, journal, frozen, disk, file, history, faults, restarts>>

(* The process ended in failure, or a check of its result fails.           *)
WaitFindsFailure(r) ==
    /\ pc = "wait"
    /\ supervisor[r] \in {"failed", "renamed"}
    /\ supervisor' = [supervisor EXCEPT ![r] = "gone"]
    /\ pc' = "undo"
    /\ UNCHANGED <<current, kernel, journal, frozen, disk, file, history, faults, restarts>>

(* try_wait returns an error: the process is left running.                 *)
WaitFails(r) ==
    /\ pc = "wait"
    /\ faults < MaxFaults
    /\ faults' = faults + 1
    /\ stuck' = stuck \cup {r}
    /\ pc' = "undo"
    /\ UNCHANGED <<current, kernel, journal, frozen, disk, workspace, launched, completed, restarts>>

WaitSucceeds(r) ==
    /\ pc = "wait"
    /\ supervisor[r] = "renamed"
    /\ file[Dest[r]] = {r}
    /\ supervisor' = [supervisor EXCEPT ![r] = "gone"]
    /\ pc' = "complete"
    /\ UNCHANGED <<current, kernel, journal, frozen, disk, file, history, faults, restarts>>

(* Mutant: the destination is left in place.                               *)
UndoRecordOnly(r, removed) ==
    /\ pc = "undo"
    /\ removed
    /\ kernel' = TryEvent(kernel, r, "Rollback")
    /\ journal' = AppendTo(journal, r, "RolledBack")
    /\ pc' = "save_rolled_back"
    /\ UNCHANGED <<current, frozen, disk, supervisor, file, stuck, faults, launched, completed, restarts>>

Undo(r, removed) ==
    /\ pc = "undo"
    /\ RemoveOutput(r, removed)
    /\ kernel' = TryEvent(kernel, r, "Rollback")
    /\ journal' = AppendTo(journal, r, "RolledBack")
    /\ pc' = "save_rolled_back"
    /\ UNCHANGED <<current, frozen, disk, supervisor, launched, completed, restarts>>

SaveRolledBack(r, ok) ==
    /\ pc = "save_rolled_back"
    /\ Save(journal, ok)
    /\ pc' = "freeze"
    /\ UNCHANGED <<current, kernel, journal, frozen, workspace, history, restarts>>

(* The execution receipt cannot be issued, and the kernel rolls back; or   *)
(* the kernel refuses to complete, and stays as it is.                     *)
CompletionFails(r, removed) ==
    /\ pc = "complete"
    /\ RemoveOutput(r, removed)
    /\ kernel' \in {TryEvent(kernel, r, "Rollback")}
                      \cup (IF CanApply(kernel, r, "Complete") THEN {} ELSE {kernel})
    /\ pc' = "freeze"
    /\ UNCHANGED <<current, journal, frozen, disk, supervisor, launched, completed, restarts>>

Complete(r) ==
    /\ pc = "complete"
    /\ CanApply(kernel, r, "Complete")
    /\ kernel' = WithEvent(kernel, r, "Complete")
    /\ journal' = AppendTo(journal, r, "Committed")
    /\ pc' = "save_committed"
    /\ UNCHANGED <<current, frozen, disk, workspace, history, faults, restarts>>

SaveCommitted(r, ok) ==
    /\ pc = "save_committed"
    /\ Save(journal, ok)
    /\ pc' = IF ok THEN "respond" ELSE "revoke"
    /\ UNCHANGED <<current, kernel, journal, frozen, workspace, history, restarts>>

(* commit_record_failed: the entry stays in the journal in memory.         *)
RevokeCommit(r, removed) ==
    /\ pc = "revoke"
    /\ RemoveOutput(r, removed)
    /\ kernel' = TryEvent(kernel, r, "Rollback")
    /\ pc' = "freeze"
    /\ UNCHANGED <<current, journal, frozen, disk, supervisor, launched, completed, restarts>>

(* handle_connection writes the answer; an error there freezes the broker. *)
Respond(r, delivered) ==
    /\ pc = "respond"
    /\ completed' = IF delivered THEN completed \cup {r} ELSE completed
    /\ pc' = IF delivered THEN "idle" ELSE "freeze"
    /\ current' = IF delivered THEN {} ELSE current
    /\ UNCHANGED <<kernel, journal, frozen, disk, workspace, launched, stuck, faults, restarts>>

(* Telemetry is missing, or a connection fails.                            *)
FreezeRequested ==
    /\ pc = "idle"
    /\ pc' = "freeze"
    /\ UNCHANGED <<current, kernel, journal, frozen, disk, workspace, history, faults, restarts>>

(* Broker::freeze; the error of its save is ignored.                       *)
Freeze(ok) ==
    /\ pc = "freeze"
    /\ journal' = [journal EXCEPT !.frozen = TRUE]
    /\ Save(journal', ok)
    /\ frozen' = TRUE
    /\ kernel' = FreezeAll(kernel)
    /\ pc' = "idle"
    /\ current' = {}
    /\ UNCHANGED <<workspace, history, restarts>>

-----------------------------------------------------------------------------
(* run_supervisor_job, in a process of its own that may outlive the broker *)
(* and may hang in any of its states.                                      *)

Stage(r) ==
    /\ supervisor[r] = "started"
    /\ file[Dest[r]] = {}
    /\ supervisor' = [supervisor EXCEPT ![r] = "staged"]
    /\ UNCHANGED <<memory, disk, file, history, faults, restarts>>

Recheck(r) ==
    /\ supervisor[r] = "staged"
    /\ file[Dest[r]] = {}
    /\ supervisor' = [supervisor EXCEPT ![r] = "checked"]
    /\ UNCHANGED <<memory, disk, file, history, faults, restarts>>

Rename(r) ==
    /\ supervisor[r] = "checked"
    /\ file' = [file EXCEPT ![Dest[r]] = {r}]
    /\ supervisor' = [supervisor EXCEPT ![r] = "renamed"]
    /\ UNCHANGED <<memory, disk, history, faults, restarts>>

SupervisorFails(r) ==
    /\ supervisor[r] \in {"started", "staged", "checked", "renamed"}
    /\ supervisor' = [supervisor EXCEPT ![r] = "failed"]
    /\ UNCHANGED <<memory, disk, file, history, faults, restarts>>

-----------------------------------------------------------------------------
(* Crash and Broker::new.                                                  *)

Crash ==
    /\ pc # "down"
    /\ restarts < MaxRestarts
    /\ restarts' = restarts + 1
    /\ pc' = "down"
    /\ current' = {}
    /\ kernel' = NewKernel(Policy)
    /\ journal' = NewJournal
    /\ frozen' = FALSE
    /\ UNCHANGED <<disk, workspace, history, faults>>

(* The pending journal is promoted; what was in flight is quarantined, in  *)
(* some order.                                                             *)
Promoted == [disk EXCEPT !.primary = IF disk.tmp # {} THEN disk.tmp ELSE @, !.tmp = {}]

Listed(S, N) == CHOOSE s \in UNION {Bijection(1 .. n, S) : n \in 0 .. N} : TRUE

Quarantine(j) ==
    [frozen |-> TRUE,
     entries |-> j.entries \o
        Listed({[request |-> r, status |-> "Quarantined"] : r \in InFlight(j)}, Len(j.entries))]

(* Mutant: only transactions that were executing are looked for.           *)
RestartLeavesAdmitted ==
    /\ pc = "down"
    /\ ~disk.torn
    /\ {r \in InFlight(Durable) : Status(Durable, r) = "Executing"} = {}
    /\ disk' = Promoted
    /\ journal' = Durable
    /\ frozen' = Durable.frozen
    /\ pc' = "idle"
    /\ UNCHANGED <<current, kernel, workspace, history, faults, restarts>>

RestartClean ==
    /\ pc = "down"
    /\ ~disk.torn
    /\ InFlight(Durable) = {}
    /\ disk' = Promoted
    /\ journal' = Durable
    /\ frozen' = Durable.frozen
    /\ pc' = "idle"
    /\ UNCHANGED <<current, kernel, workspace, history, faults, restarts>>

(* The outputs are removed and the quarantine saved; when either fails     *)
(* Broker::new returns an error and the process ends.                      *)
Cleared ==
    [d \in Dests |-> IF \E r \in InFlight(Durable) : Dest[r] = d THEN {} ELSE file[d]]

RestartInFlight(ok) ==
    /\ pc = "down"
    /\ ~disk.torn
    /\ InFlight(Durable) # {}
    /\ SaveFrom(Promoted, Quarantine(Durable), ok)
    /\ file' = Cleared
    /\ journal' = IF ok THEN Quarantine(Durable) ELSE journal
    /\ frozen' = ok
    /\ pc' = IF ok THEN "idle" ELSE "down"
    /\ UNCHANGED <<current, kernel, supervisor, history, restarts>>

RestartCannotRemove ==
    /\ pc = "down"
    /\ ~disk.torn
    /\ InFlight(Durable) # {}
    /\ faults < MaxFaults
    /\ faults' = faults + 1
    /\ disk' = Promoted
    /\ UNCHANGED <<memory, workspace, history, restarts>>

-----------------------------------------------------------------------------

Handle(r) ==
    \/ \E ok \in BOOLEAN :
          SaveAdmitted(r, ok) \/ SaveExecuting(r, ok) \/ SaveRolledBack(r, ok) \/ SaveCommitted(r, ok)
    \/ LaunchFails(r)
    \/ Launch(r)
    \/ Timeout(r)
    \/ WaitFindsFailure(r)
    \/ WaitSucceeds(r)
    \/ \E removed \in BOOLEAN :
          Undo(r, removed) \/ CompletionFails(r, removed) \/ RevokeCommit(r, removed)
    \/ Complete(r)
    \/ \E delivered \in BOOLEAN : Respond(r, delivered)

Supervise(r) ==
    Stage(r) \/ Recheck(r) \/ Rename(r) \/ SupervisorFails(r)

Next ==
    \/ \E r \in Requests : AdmitInVain(r) \/ Admit(r)
    \/ \E r \in current : Handle(r) \/ WaitFails(r)
    \/ FreezeRequested
    \/ \E ok \in BOOLEAN : Freeze(ok)
    \/ \E r \in Requests : Supervise(r)
    \/ Crash
    \/ RestartClean
    \/ \E ok \in BOOLEAN : RestartInFlight(ok)
    \/ RestartCannotRemove

Spec == Init /\ [][Next]_vars

(* The broker keeps running; supervisors may hang and nothing obliges a    *)
(* client to call or an operator to restart.                               *)
FairSpec ==
    Spec /\ WF_vars((\E r \in current : Handle(r)) \/ \E ok \in BOOLEAN : Freeze(ok))

-----------------------------------------------------------------------------

Running == {"started", "staged", "checked", "renamed"}

(* The record precedes the effect: while a supervisor can still write, the *)
(* journal that a restart would read says more of its request than         *)
(* Admitted, so that the restart knows there may be an output.  And it     *)
(* outlives it: no (agent, nonce) pair is launched twice, in one process   *)
(* or across restarts, whichever saves of the journal failed.              *)
WriteAhead ==
    /\ \A r \in Requests :
          supervisor[r] \in Running => Status(Durable, r) \notin {"None", "Admitted"}
    /\ \A i, j \in DOMAIN launched :
          ReplayKey[launched[i]] = ReplayKey[launched[j]] => i = j

(* A broker that is open and idle has nothing half done: no transaction is *)
(* in flight, no capability is executing, a restart would read exactly the *)
(* journal it holds in memory, and the independent checker accepts it.  An *)
(* output that was not committed is only ever found behind a frozen        *)
(* broker, unless the broker could not remove it or could not wait for its *)
(* supervisor; this covers supervisors that outlive a crashed broker.      *)
(* What a client was told is Completed is in place and recorded for ever.  *)
OpenMeansSettled ==
    /\ pc = "idle" /\ ~frozen =>
          /\ Durable = journal
          /\ InFlight(journal) = {}
          /\ CheckBrokerJournal(journal)
          /\ \A r \in DOMAIN kernel.lifecycles : StateOf(kernel, r) # "Executing"
          /\ \A d \in Dests : \A r \in file[d] \ stuck : Status(journal, r) = "Committed"
    /\ \A r \in completed :
          /\ Status(Durable, r) = "Committed"
          /\ file[Dest[r]] # {} /\ file[Dest[r]] \subseteq {r} \cup stuck

Log == INSTANCE TransactionLog
    WITH NonceOf <- ReplayKey, status <- [r \in Requests |-> Status(Durable, r)]

(* What Broker::new would read of the journal after a crash behaves as     *)
(* TransactionLog: admitted once, one in flight, outcomes final.           *)
DurableLog == Log!Spec

(* Every request that is being handled is answered, also when its          *)
(* supervisor hangs: the deadline of run_supervisor fires.                 *)
EveryRequestAnswered == pc \notin {"idle", "down"} ~> pc \in {"idle", "down"}

(* docs/broker-v1.md: a journal failure removes the destination and        *)
(* records rollback, so a durable Committed has its output.                *)
CommittedHasOutput ==
    pc = "idle" =>
        \A r \in Requests : Status(Durable, r) = "Committed" => file[Dest[r]] = {r}
=============================================================================
