------------------------- MODULE MaintenanceProcess --------------------------
(***************************************************************************)
(* src/src/maintenance_process.rs: one file of a private checkout is       *)
(* replaced under durable intent, and put back when anything goes wrong.   *)
(* Broker configurations with state directories of their own share the     *)
(* checkout and its lock file.  The lock file of a broker that died stays  *)
(* until the operator removes it, and a broker that finds one gives up at  *)
(* once, so at most one run is ever in progress.                           *)
(*                                                                         *)
(* A step ends at every write.  A write that fails may have taken effect   *)
(* and may leave its temporary file behind; a crash inside a write is a    *)
(* write that fails, followed by a crash.                                  *)
(***************************************************************************)
EXTENDS Naturals, Sequences

CONSTANTS
    Dirs,        \* state directories
    Requests,
    NonceOf,     \* NonceOf[r]
    Before,      \* Before[r]: content of the file that r replaces
    After,       \* After[r]
    Lease,       \* Lease[r]: lease_expires_at
    Normalized,  \* requests whose After is the fixed transformation of Before
    Original,    \* content of the file at the start
    MaxTime,     \* bound on the clock
    MaxFaults,   \* bound on failing writes and on third-party changes
    MaxCrashes   \* bound on crashes

ASSUME ProcessConstants ==
    /\ DOMAIN NonceOf = Requests /\ DOMAIN Before = Requests /\ DOMAIN After = Requests
    /\ \A r \in Requests : Before[r] # After[r]
    /\ \A r \in Requests : "foreign" \notin {Before[r], After[r]}
    /\ Lease \in [Requests -> Nat]
    /\ Normalized \subseteq Requests
    /\ {MaxTime, MaxFaults, MaxCrashes} \subseteq Nat

VARIABLES
    disk,       \* disk[d]: DurableState in directory d
    pending,    \* directories with a leftover temporary state file
    backups,    \* pairs <<d, r>> with a backup file
    target,     \* content of the file
    extras,     \* leftover temporary files in the checkout: pairs <<kind, r>>
    neighbour,  \* some other file of the checkout was changed
    lock,       \* the lock file exists
    run,        \* the run in progress
    cancelled,
    now,
    answered,   \* history: <<d, r, status>> that a run returned
    replaced,   \* history: <<d, nonce>> of every replacement of the file
    raced,      \* history: the checkout was changed where a run does not look again
    faults,
    crashes

checkout == <<target, extras, neighbour>>
state == <<disk, pending, backups>>
world == <<cancelled, now, crashes>>
history == <<answered, replaced, raced>>
vars == <<state, checkout, lock, run, world, history, faults>>

NoState == [frozen |-> FALSE, consumed |-> {}, in_flight |-> {}]
Idle == [pc |-> "idle"]

Init ==
    /\ disk = [d \in Dirs |-> NoState]
    /\ pending = {}
    /\ backups = {}
    /\ target = Original
    /\ extras = {}
    /\ neighbour = FALSE
    /\ lock = FALSE
    /\ run = Idle
    /\ cancelled = FALSE
    /\ now = 0
    /\ answered = {}
    /\ replaced = <<>>
    /\ raced = FALSE
    /\ faults = 0
    /\ crashes = 0

At(pc) == run.pc = pc

Goto(pc) == run' = [run EXCEPT !.pc = pc] /\ UNCHANGED lock
Return == run' = Idle /\ lock' = FALSE
Answer(status) == answered' = answered \cup {<<run.dir, run.request, status>>}

Fault(ok) == (~ok => faults < MaxFaults) /\ faults' = IF ok THEN faults ELSE faults + 1

Closed(r) == cancelled \/ now >= Lease[r]

(* checkout_baseline_digest covers every file of the checkout.             *)
IsBaseline(r) == target = Before[r] /\ extras = {} /\ ~neighbour

(* save_state: atomic_write creates the temporary file anew, so a leftover *)
(* one fails every later save of the directory.  A save may also fail      *)
(* before there is a temporary file.                                       *)
SaveState(s, ok) ==
    LET d == run.dir
    IN  IF d \in pending THEN ~ok /\ UNCHANGED <<disk, pending, faults>>
        ELSE /\ Fault(ok)
             /\ \/ disk' = [disk EXCEPT ![d] = s] /\ UNCHANGED pending
                \/ ~ok /\ pending' = pending \cup {d} /\ UNCHANGED disk
                \/ ~ok /\ UNCHANGED <<disk, pending>>

-----------------------------------------------------------------------------
(* run, up to the durable intent.  A run that finds an intent recovers it  *)
(* and leaves its own request alone.                                       *)

Start(d, r, ok) ==
    /\ At("idle")
    /\ ~lock
    /\ Fault(ok)
    /\ lock' = TRUE
    /\ run' = IF ~ok THEN Idle
              ELSE [pc |-> IF disk[d].in_flight = {} THEN "admit" ELSE "recover",
                    dir |-> d, state |-> disk[d], recovering |-> disk[d].in_flight # {},
                    request |-> IF disk[d].in_flight = {} THEN r
                                ELSE CHOOSE i \in disk[d].in_flight : TRUE]
    /\ UNCHANGED <<state, checkout, world, history>>

Admits(s, r) ==
    /\ ~s.frozen
    /\ NonceOf[r] \notin s.consumed
    /\ ~Closed(r)
    /\ IsBaseline(r)

Quarantine ==
    /\ \/ At("admit") /\ ~Admits(run.state, run.request)
       \/ At("evaluate")
       \/ At("backup") /\ (Closed(run.request) \/ ~IsBaseline(run.request))
    /\ Return
    /\ UNCHANGED <<state, checkout, world, history, faults>>

Admit ==
    /\ At("admit")
    /\ Admits(run.state, run.request)
    /\ Goto("evaluate")
    /\ UNCHANGED <<state, checkout, world, history, faults>>

(* invoke_evaluator may fail at any time (Quarantine); the evaluator signs *)
(* nothing but the fixed transformation.                                   *)
Evaluate ==
    /\ At("evaluate")
    /\ run.request \in Normalized
    /\ ~Closed(run.request)
    /\ Goto("backup")
    /\ UNCHANGED <<state, checkout, world, history, faults>>

Backup(ok) ==
    /\ At("backup")
    /\ ~Closed(run.request) /\ IsBaseline(run.request)
    /\ Fault(ok)
    /\ \/ backups' = backups \cup {<<run.dir, run.request>>}
       \/ ~ok /\ UNCHANGED backups
    /\ IF ok THEN Goto("intent") ELSE Return
    /\ UNCHANGED <<disk, pending, checkout, world, history>>

(* Mutant: the nonce is consumed when the request completes.               *)
IntentWithoutNonce(s, r) == [s EXCEPT !.in_flight = {r}]

WithIntent(s, r) == [s EXCEPT !.consumed = @ \cup {NonceOf[r]}, !.in_flight = {r}]

SaveIntent(ok) ==
    /\ At("intent")
    /\ SaveState(WithIntent(run.state, run.request), ok)
    /\ IF ok THEN run' = [run EXCEPT !.pc = "write", !.state = disk'[run.dir]] /\ UNCHANGED lock
       ELSE Return
    /\ UNCHANGED <<backups, checkout, world, history>>

-----------------------------------------------------------------------------
(* run, from the durable intent to completion.                             *)

Candidate == <<"candidate", run.request>>
Rollback == <<"rollback", run.request>>
Unfinished == <<"unfinished rollback", run.request>>

WriteCandidate(ok) ==
    /\ At("write")
    /\ ~Closed(run.request)
    /\ Fault(ok)
    /\ \/ extras' = extras \cup {Candidate}
       \/ ~ok /\ UNCHANGED extras
    /\ Goto(IF ok THEN "replace" ELSE "rollback")
    /\ UNCHANGED <<state, target, neighbour, world, history>>

Replace(ok) ==
    /\ At("replace")
    /\ Fault(ok)
    /\ \/ /\ target' = After[run.request]
          /\ extras' = extras \ {Candidate}
          /\ replaced' = Append(replaced, <<run.dir, NonceOf[run.request]>>)
       \/ ~ok /\ UNCHANGED <<target, extras, replaced>>
    /\ Goto(IF ok THEN "check" ELSE "rollback")
    /\ UNCHANGED <<state, neighbour, world, answered, raced>>

(* Authorization and content are checked before the write (authorization   *)
(* alone), after it and before completion.                                 *)
Holds == ~Closed(run.request) /\ (~At("write") => target = After[run.request])

Check ==
    /\ At("check")
    /\ Holds
    /\ Goto("final")
    /\ UNCHANGED <<state, checkout, world, history, faults>>

FinalCheck ==
    /\ At("final")
    /\ Holds
    /\ Goto("complete")
    /\ UNCHANGED <<state, checkout, world, history, faults>>

CheckFails ==
    /\ At("write") \/ At("check") \/ At("final")
    /\ ~Holds
    /\ Goto("rollback")
    /\ UNCHANGED <<state, checkout, world, history, faults>>

WithoutIntent(s) == [s EXCEPT !.in_flight = {}]

Complete(ok) ==
    /\ At("complete")
    /\ SaveState(WithoutIntent(run.state), ok)
    /\ IF ok THEN Return /\ Answer("Applied") ELSE Goto("rollback") /\ UNCHANGED answered
    /\ backups' = IF ok THEN backups \ {<<run.dir, run.request>>} ELSE backups
    /\ UNCHANGED <<checkout, world, replaced, raced>>

-----------------------------------------------------------------------------
(* rollback of the run's own change, and recover of an earlier intent.     *)

Ours == {Before[run.request], After[run.request]}

(* recover cannot go on: run freezes the state and returns the error.      *)
Fails == Goto(IF run.recovering THEN "freeze_last" ELSE "freeze")

(* Mutant: the content that is there is not looked at.                     *)
InspectNothing ==
    /\ At("rollback") \/ At("recover")
    /\ Goto("restore")
    /\ UNCHANGED <<state, checkout, world, history, faults>>

(* recover also wants the backup, which BackupCovers says is there.        *)
Inspect ==
    /\ At("rollback") \/ At("recover")
    /\ Goto(IF target \notin Ours THEN "freeze"
            ELSE IF target = Before[run.request] THEN "verify" ELSE "restore")
    /\ UNCHANGED <<state, checkout, world, history, faults>>

(* restore_atomic: atomic_write to a rollback file, then a rename.         *)
WriteRollback(ok) ==
    /\ At("restore")
    /\ IF Unfinished \in extras THEN ~ok /\ UNCHANGED <<extras, faults>>
       ELSE /\ Fault(ok)
            /\ extras' \in {extras \cup {Rollback}}
                  \cup IF ok THEN {} ELSE {extras, extras \cup {Unfinished}}
    /\ IF ok THEN Goto("rename") ELSE Fails
    /\ UNCHANGED <<state, target, neighbour, world, history>>

RenameRollback(ok) ==
    /\ At("rename")
    /\ Fault(ok)
    /\ \/ target' = Before[run.request] /\ extras' = extras \ {Rollback}
       \/ ~ok /\ UNCHANGED <<target, extras>>
    /\ IF ok THEN Goto("verify") ELSE Fails
    /\ UNCHANGED <<state, neighbour, world, history>>

(* Mutant: the target alone is compared.                                   *)
VerifyTarget ==
    /\ At("verify")
    /\ IF target = Before[run.request]
       THEN run' = [run EXCEPT !.pc = "settle", !.state.in_flight = {},
                               !.state.frozen = @ \/ run.recovering]
       ELSE run' = [run EXCEPT !.pc = "freeze"]
    /\ UNCHANGED <<lock, state, checkout, world, history, faults>>

Verify ==
    /\ At("verify")
    /\ IF IsBaseline(run.request)
       THEN run' = [run EXCEPT !.pc = "settle", !.state.in_flight = {},
                               !.state.frozen = @ \/ run.recovering]
       ELSE run' = [run EXCEPT !.pc = "freeze"]
    /\ UNCHANGED <<lock, state, checkout, world, history, faults>>

Settle(ok) ==
    /\ At("settle")
    /\ SaveState(run.state, ok)
    /\ backups' = IF ok THEN backups \ {<<run.dir, run.request>>} ELSE backups
    /\ IF ok THEN Return /\ Answer("RolledBack")
       ELSE /\ IF run.recovering THEN Goto("freeze_last") ELSE Return
            /\ UNCHANGED answered
    /\ UNCHANGED <<checkout, world, replaced, raced>>

Freeze(ok) ==
    /\ At("freeze") \/ At("freeze_last")
    /\ SaveState([run.state EXCEPT !.frozen = TRUE], ok)
    /\ IF ~ok /\ At("freeze") /\ run.recovering THEN Goto("freeze_last") ELSE Return
    /\ UNCHANGED <<backups, checkout, world, history>>

-----------------------------------------------------------------------------

Crash ==
    /\ ~At("idle")
    /\ crashes < MaxCrashes
    /\ crashes' = crashes + 1
    /\ run' = Idle
    /\ UNCHANGED <<state, checkout, lock, cancelled, now, history, faults>>

RemoveLock ==
    /\ At("idle") /\ lock
    /\ lock' = FALSE
    /\ UNCHANGED <<state, checkout, run, world, history, faults>>

Cancel ==
    /\ cancelled' = ~cancelled
    /\ UNCHANGED <<state, checkout, lock, run, now, crashes, history, faults>>

Tick ==
    /\ now < MaxTime
    /\ now' = now + 1
    /\ UNCHANGED <<state, checkout, lock, run, cancelled, crashes, history, faults>>

(* Between these places and the write or the answer that follows them the  *)
(* code does not look at the checkout again.                               *)
Unlooked == run.pc \in {"intent", "write", "replace", "restore", "rename", "settle"}

(* Another program writes the file, or another file of the checkout.       *)
Change ==
    /\ Fault(FALSE)
    /\ \/ target' = "foreign" /\ UNCHANGED neighbour
       \/ neighbour' = ~neighbour /\ UNCHANGED target
    /\ raced' = (raced \/ Unlooked)
    /\ UNCHANGED <<state, extras, lock, run, world, answered, replaced>>

Next ==
    \/ \E d \in Dirs, r \in Requests, ok \in BOOLEAN : Start(d, r, ok)
    \/ Quarantine \/ Admit \/ Evaluate \/ Check \/ FinalCheck \/ CheckFails
    \/ Inspect \/ Verify
    \/ \E ok \in BOOLEAN :
          \/ Backup(ok) \/ SaveIntent(ok) \/ WriteCandidate(ok) \/ Replace(ok)
          \/ Complete(ok) \/ WriteRollback(ok) \/ RenameRollback(ok)
          \/ Settle(ok) \/ Freeze(ok)
    \/ Crash \/ RemoveLock \/ Cancel \/ Tick \/ Change

Spec == Init /\ [][Next]_vars

-----------------------------------------------------------------------------
(* Properties.                                                             *)

(* A directory replaces the file at most once for each nonce, across       *)
(* restarts: the nonce is durable before the file changes.  A frozen       *)
(* directory stays frozen and replaces nothing.                            *)
ReplacedOnce ==
    [][\A d \in Dirs :
          /\ disk[d].frozen => disk'[d].frozen
          /\ \A r \in Requests : replaced' = Append(replaced, <<d, NonceOf[r]>>) =>
                /\ ~disk[d].frozen
                /\ \A i \in DOMAIN replaced : replaced[i] # <<d, NonceOf[r]>>]_vars

(* A change that another program makes, while no broker runs or during a   *)
(* run, is not overwritten by a request, a rollback or a recovery, unless  *)
(* it falls between the last look of a run and the rename that follows.    *)
KeepsForeign == [][target = "foreign" /\ ~raced => target' = "foreign"]_vars

(* What run and recover answer is true and stays true: rolled_back is      *)
(* reported only when the checkout as a whole is the baseline the request  *)
(* was made for, unless it changed since the last look; after Applied no   *)
(* recovery finds the intent and undoes the change; and a durable intent   *)
(* always has the backup its recovery needs.                               *)
AnswersHold ==
    [][\A d \in Dirs, r \in Requests :
          /\ <<d, r, "RolledBack">> \in answered' \ answered => IsBaseline(r) \/ raced
          /\ <<d, r, "Applied">> \in answered =>
                r \notin disk'[d].in_flight /\ <<d, r, "RolledBack">> \notin answered'
          /\ r \in disk'[d].in_flight => <<d, r>> \in backups']_vars

-----------------------------------------------------------------------------
(* A property that the code does not have.                                 *)

(* Where no write failed and nothing else touched the checkout, recovery   *)
(* restores the baseline and closes the intent.                            *)
RecoveryRestores ==
    \A d \in Dirs : disk[d].frozen /\ disk[d].in_flight # {} => faults > 0
=============================================================================
