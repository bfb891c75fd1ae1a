----------------------- MODULE MaintenanceTransaction -----------------------
(***************************************************************************)
(* src/src/maintenance_transaction.rs: patch transactions over immutable   *)
(* generations.  prepare_candidate, commit_candidate and recover run in    *)
(* any number of processes under an advisory lock that the operating       *)
(* system releases when its holder dies; they share the state file, the    *)
(* generations and the current pointer.  A step ends at every write to one *)
(* of the three, where the process may crash or the write may fail.        *)
(*                                                                         *)
(* A request stands for its digest and for the generation it prepares; a   *)
(* generation's content stands for its manifest digest.  A call that fails *)
(* before its first write only gives the lock back.                        *)
(***************************************************************************)
EXTENDS Naturals, Sequences, FiniteSets

CONSTANTS
    Callers,       \* processes
    Requests,      \* request digests
    NonceOf,       \* NonceOf[r]
    Baseline,      \* Baseline[r]: the content r replaces
    After,         \* After[r]: the content of r's candidate
    Lease,         \* Lease[r]: lease_expires_at
    First,         \* the initial generation
    FirstContent,  \* and its content
    MaxAge,        \* MAX_EVALUATION_AGE_SECS
    MaxCompleted,  \* MAX_COMPLETED_TRANSACTIONS
    MaxTime,       \* bound on the clock
    MaxFaults,     \* bound on failing writes and on third-party changes
    MaxCrashes     \* bound on crashes

ASSUME TransactionConstants ==
    /\ DOMAIN NonceOf = Requests /\ DOMAIN Baseline = Requests /\ DOMAIN After = Requests
    /\ Lease \in [Requests -> Nat]
    /\ First \notin Requests
    /\ {MaxAge, MaxCompleted, MaxTime, MaxFaults, MaxCrashes} \subseteq Nat

VARIABLES
    disk,        \* DurableState in the state file
    current,     \* the generation the current pointer names
    tree,        \* tree[g]: content of generation g, "none" or "partial"
    lock,        \* Option: the process that holds the lock
    proc,        \* the call each process is in
    receipts,    \* signed evaluation receipts; callers keep them
    cancelled,   \* the cancellation file exists
    now,
    published,   \* history: what commit_candidate pointed current at
    faults,
    crashes

call == <<lock, proc>>
world == <<receipts, cancelled, now, crashes>>
vars == <<disk, current, tree, call, world, published, faults>>

Generations == Requests \cup {First}
NoState == [frozen |-> FALSE, used |-> {}, in_flight |-> {}, completed |-> <<>>]
Idle == [pc |-> "idle", op |-> "none", request |-> First, since |-> 0,
         receipt |-> {}, intent |-> {}, state |-> NoState]

Init ==
    /\ disk = NoState
    /\ current = First
    /\ tree = [g \in Generations |-> IF g = First THEN FirstContent ELSE "none"]
    /\ lock = {}
    /\ proc = [c \in Callers |-> Idle]
    /\ receipts = {}
    /\ cancelled = FALSE
    /\ now = 0
    /\ published = <<>>
    /\ faults = 0
    /\ crashes = 0

At(c, pc) == proc[c].pc = pc
Become(c, p) == proc' = [proc EXCEPT ![c] = p]
Goto(c, pc, state) == Become(c, [proc[c] EXCEPT !.pc = pc, !.state = state]) /\ UNCHANGED lock
Return(c) == Become(c, Idle) /\ lock' = lock \ {c}

Fault(ok) == (~ok => faults < MaxFaults) /\ faults' = IF ok THEN faults ELSE faults + 1

(* save_state: an error may come before or after the rename.  A temporary  *)
(* file it leaves behind is discarded by the next save.                    *)
SaveState(state, ok) ==
    /\ Fault(ok)
    /\ disk' \in IF ok THEN {state} ELSE {disk, state}

(* create_active_link.                                                     *)
PointTo(g, ok) ==
    /\ Fault(ok)
    /\ current' \in IF ok THEN {g} ELSE {current, g}

-----------------------------------------------------------------------------
(* Calls and the workspace lock.  The time is read before the lock.        *)

Call(c, op, r, receipt) ==
    /\ At(c, "idle")
    /\ op # "recover" => now < Lease[r]
    /\ Become(c, [Idle EXCEPT !.pc = "lock", !.op = op, !.request = r, !.receipt = receipt,
                              !.since = IF op = "commit" THEN now ELSE 0])
    /\ UNCHANGED <<disk, current, tree, lock, world, published, faults>>

(* Mutant: the lock is shared.                                             *)
AcquireShared(c) ==
    /\ At(c, "lock")
    /\ lock' = {c}
    /\ Become(c, [proc[c] EXCEPT !.pc = proc[c].op, !.intent = disk.in_flight, !.state = disk])
    /\ UNCHANGED <<disk, current, tree, world, published, faults>>

(* acquire_workspace_lock, then load_state.                                *)
Acquire(c) ==
    /\ At(c, "lock")
    /\ lock = {}
    /\ lock' = {c}
    /\ Become(c, [proc[c] EXCEPT !.pc = proc[c].op, !.intent = disk.in_flight, !.state = disk])
    /\ UNCHANGED <<disk, current, tree, world, published, faults>>

LockTimesOut(c) ==
    /\ At(c, "lock")
    /\ lock # {}
    /\ Return(c)
    /\ UNCHANGED <<disk, current, tree, world, published, faults>>

-----------------------------------------------------------------------------
(* prepare_candidate.                                                      *)

CanPrepare(s, r) ==
    /\ ~s.frozen
    /\ NonceOf[r] \notin s.used
    /\ s.in_flight = {}
    /\ tree[current] = Baseline[r]
    /\ tree[r] = "none"

Intent(r, old, phase) == [request |-> r, old |-> old, phase |-> phase]

InPhase(s, phase) == [s EXCEPT !.in_flight = {[i EXCEPT !.phase = phase] : i \in @}]

SaveIntent(c, ok) ==
    LET r == proc[c].request
        state == [proc[c].state EXCEPT !.in_flight = {Intent(r, current, "Preparing")}]
    IN  /\ At(c, "prepare")
        /\ CanPrepare(proc[c].state, r)
        /\ SaveState(state, ok)
        /\ IF ok THEN Goto(c, "stage", state) ELSE Return(c)
        /\ UNCHANGED <<current, tree, world, published>>

Stage(c) ==
    /\ At(c, "stage")
    /\ tree' = [tree EXCEPT ![proc[c].request] = "partial"]
    /\ Goto(c, "copy", proc[c].state)
    /\ UNCHANGED <<disk, current, world, published, faults>>

FinishStaging(c) ==
    LET r == proc[c].request
    IN  /\ At(c, "copy")
        /\ tree[current] = Baseline[r]
        /\ tree' = [tree EXCEPT ![r] = After[r]]
        /\ Goto(c, "save_last", InPhase(proc[c].state, "Prepared"))
        /\ UNCHANGED <<disk, current, world, published, faults>>

(* Spent: the transaction is over without a receipt.                       *)
Spent(s, r) == [s EXCEPT !.frozen = TRUE, !.in_flight = {}, !.used = @ \cup {NonceOf[r]}]

StagingFails(c) ==
    LET r == proc[c].request
    IN  /\ At(c, "stage") \/ At(c, "copy")
        /\ Fault(tree[current] # Baseline[r])
        /\ \E left \in {"none", tree[r]} : tree' = [tree EXCEPT ![r] = left]
        /\ Goto(c, "save_last", Spent(proc[c].state, r))
        /\ UNCHANGED <<disk, current, world, published>>

(* The last save of a call.  Its error changes the answer, nothing else.   *)
SaveLast(c, ok) ==
    /\ At(c, "save_last")
    /\ SaveState(proc[c].state, ok)
    /\ Return(c)
    /\ UNCHANGED <<current, tree, world, published>>

-----------------------------------------------------------------------------
(* The evaluator signs a receipt for a candidate that is the baseline with *)
(* the request's changes applied.                                          *)

Least(x, y) == IF x <= y THEN x ELSE y

Evaluate(r) ==
    /\ now < Lease[r]
    /\ tree[current] = Baseline[r]
    /\ tree[r] = After[r]
    /\ receipts' = receipts \cup {[request |-> r, evaluated_at |-> now,
                                  expires_at |-> Least(Lease[r], now + MaxAge)]}
    /\ UNCHANGED <<disk, current, tree, call, cancelled, now, crashes, published, faults>>

-----------------------------------------------------------------------------
(* commit_candidate.                                                       *)

(* validate_evaluation: t is the time the call began.                      *)
ValidEvaluation(receipt, r, t) ==
    receipt.request = r /\ receipt.evaluated_at <= t /\ t < receipt.expires_at

CanCommit(s, r, receipt, t) ==
    /\ ~s.frozen
    /\ NonceOf[r] \notin s.used
    /\ r \notin DOMAIN s.completed
    /\ \E i \in s.in_flight : i = Intent(r, current, "Prepared")
    /\ tree[r] = After[r]
    /\ ValidEvaluation(receipt, r, t)
    /\ ~cancelled
    /\ tree[current] = Baseline[r]

(* Mutant: CommitStarted is not saved before the pointer moves.            *)
BeginUnsaved(c, ok) ==
    /\ At(c, "commit")
    /\ \E e \in proc[c].receipt : CanCommit(proc[c].state, proc[c].request, e, proc[c].since)
    /\ Fault(ok)
    /\ IF ok THEN Goto(c, "recheck", InPhase(proc[c].state, "CommitStarted")) ELSE Return(c)
    /\ UNCHANGED <<disk, current, tree, world, published>>

BeginCommit(c, ok) ==
    LET state == InPhase(proc[c].state, "CommitStarted")
    IN  /\ At(c, "commit")
        /\ \E e \in proc[c].receipt : CanCommit(proc[c].state, proc[c].request, e, proc[c].since)
        /\ SaveState(state, ok)
        /\ IF ok THEN Goto(c, "recheck", state) ELSE Return(c)
        /\ UNCHANGED <<current, tree, world, published>>

(* Cancellation and lease are looked at again once the intent is durable;   *)
(* what happens between this look and the replacement goes unnoticed.       *)
MayPublish(r) == ~cancelled /\ now < Lease[r]

GoAhead(c) ==
    /\ At(c, "recheck")
    /\ MayPublish(proc[c].request)
    /\ Goto(c, "publish", proc[c].state)
    /\ UNCHANGED <<disk, current, tree, world, published, faults>>

CallOff(c) ==
    /\ At(c, "recheck")
    /\ ~MayPublish(proc[c].request)
    /\ Goto(c, "save_last", InPhase(proc[c].state, "Prepared"))
    /\ UNCHANGED <<disk, current, tree, world, published, faults>>

Publish(c, ok) ==
    LET r == proc[c].request
    IN  /\ At(c, "publish")
        /\ PointTo(r, ok)
        /\ published' = IF current' = r THEN Append(published, r) ELSE published
        /\ IF ok THEN Goto(c, "check", proc[c].state) ELSE Return(c)
        /\ UNCHANGED <<disk, tree, world>>

CheckFails(c, ok) ==
    /\ At(c, "check")
    /\ tree[current] # After[proc[c].request]
    /\ \E i \in proc[c].intent : PointTo(i.old, ok)
    /\ Goto(c, "save_last", [proc[c].state EXCEPT !.frozen = TRUE])
    /\ UNCHANGED <<disk, tree, world, published>>

Full(s) == Cardinality(DOMAIN s.completed) >= MaxCompleted

(* Mutant: the receipt is kept and the nonce is not.                       *)
TerminalReusable(s, r, status) ==
    [s EXCEPT !.in_flight = {},
              !.completed = [q \in DOMAIN @ \cup {r} |-> IF q = r THEN status ELSE @[q]]]

Terminal(s, r, status) ==
    [s EXCEPT !.used = @ \cup {NonceOf[r]}, !.in_flight = {},
              !.completed = [q \in DOMAIN @ \cup {r} |-> IF q = r THEN status ELSE @[q]]]

CheckPasses(c) ==
    LET r == proc[c].request
    IN  /\ At(c, "check")
        /\ tree[current] = After[r]
        /\ IF Full(proc[c].state) THEN Return(c)
           ELSE Goto(c, "save_terminal", Terminal(proc[c].state, r, "Applied"))
        /\ UNCHANGED <<disk, current, tree, world, published, faults>>

SaveTerminal(c, ok) ==
    /\ At(c, "save_terminal")
    /\ SaveState(proc[c].state, ok)
    /\ IF ok THEN Return(c) ELSE Goto(c, "undo", proc[c].state)
    /\ UNCHANGED <<current, tree, world, published>>

(* The pointer goes back to the old version; the state is loaded again,    *)
(* frozen and saved, whatever the failed save left.                        *)
UndoPublish(c, restored) ==
    LET r == proc[c].request
    IN  /\ At(c, "undo")
        /\ \E i \in proc[c].intent : PointTo(i.old, restored)
        /\ Goto(c, "save_last", IF restored THEN Spent(disk, r) ELSE [disk EXCEPT !.frozen = TRUE])
        /\ UNCHANGED <<disk, tree, world, published>>

-----------------------------------------------------------------------------
(* recover.                                                                *)

Verified(i) == current \in {i.request, i.old} /\ tree[i.old] = Baseline[i.request]

(* The rest of recover once the pointer has been dealt with.               *)
Record(c, i, status) ==
    IF Full(proc[c].state) THEN Return(c)
    ELSE Goto(c, "save_last",
              [Terminal(proc[c].state, i.request, status) EXCEPT !.frozen = TRUE])

Restore(c, ok) ==
    /\ At(c, "recover")
    /\ \E i \in proc[c].intent :
          /\ Verified(i)
          /\ PointTo(i.old, ok)
          /\ IF ok THEN Record(c, i, "RolledBack") ELSE Return(c)
    /\ UNCHANGED <<disk, tree, world, published>>

CannotRestore(c) ==
    /\ At(c, "recover")
    /\ \E i \in proc[c].intent : ~Verified(i) /\ Record(c, i, "Frozen")
    /\ UNCHANGED <<disk, current, tree, world, published, faults>>

-----------------------------------------------------------------------------

(* A call whose checks fail gives the lock back.                           *)
Reject(c) ==
    /\ \/ At(c, "prepare") /\ ~CanPrepare(proc[c].state, proc[c].request)
       \/ /\ At(c, "commit")
          /\ ~\E e \in proc[c].receipt :
                 CanCommit(proc[c].state, proc[c].request, e, proc[c].since)
       \/ At(c, "recover") /\ proc[c].intent = {}
    /\ Return(c)
    /\ UNCHANGED <<disk, current, tree, world, published, faults>>

Crash(c) ==
    /\ ~At(c, "idle")
    /\ crashes < MaxCrashes
    /\ crashes' = crashes + 1
    /\ Return(c)
    /\ UNCHANGED <<disk, current, tree, receipts, cancelled, now, published, faults>>

Cancel ==
    /\ cancelled' = ~cancelled
    /\ UNCHANGED <<disk, current, tree, call, receipts, now, crashes, published, faults>>

Tick ==
    /\ now < MaxTime
    /\ now' = now + 1
    /\ UNCHANGED <<disk, current, tree, call, receipts, cancelled, crashes, published, faults>>

(* A program that ignores the lock writes into a generation.               *)
Change(g) ==
    /\ tree[g] \notin {"none", "changed"}
    /\ Fault(FALSE)
    /\ tree' = [tree EXCEPT ![g] = "changed"]
    /\ UNCHANGED <<disk, current, call, world, published>>

Step(c) ==
    \/ \E r \in Requests : Call(c, "prepare", r, {})
    \/ \E r \in Requests, e \in receipts : Call(c, "commit", r, {e})
    \/ Call(c, "recover", First, {})
    \/ Acquire(c) \/ LockTimesOut(c) \/ Reject(c)
    \/ Stage(c) \/ FinishStaging(c) \/ StagingFails(c)
    \/ GoAhead(c) \/ CallOff(c) \/ CheckPasses(c) \/ CannotRestore(c)
    \/ \E ok \in BOOLEAN :
          \/ SaveIntent(c, ok) \/ SaveLast(c, ok)
          \/ BeginCommit(c, ok) \/ Publish(c, ok) \/ CheckFails(c, ok)
          \/ SaveTerminal(c, ok) \/ UndoPublish(c, ok)
          \/ Restore(c, ok)

Next ==
    \/ \E c \in Callers : Step(c) \/ Crash(c)
    \/ \E r \in Requests : Evaluate(r)
    \/ \E g \in Generations : Change(g)
    \/ Cancel
    \/ Tick

Spec == Init /\ [][Next]_vars

-----------------------------------------------------------------------------
(* Properties.                                                             *)

(* Whatever crashes and failing writes come between, the durable state     *)
(* loads, since save_state does not validate and a state that              *)
(* validate_durable_state refuses would close the workspace for good; and  *)
(* it explains the pointer, which names the initial generation, one whose  *)
(* terminal record is Applied or Frozen and not RolledBack, or the one a   *)
(* durable CommitStarted intent lets recover undo.                         *)
PointerExplained ==
    /\ Cardinality(DOMAIN disk.completed) <= MaxCompleted
    /\ \A i \in disk.in_flight :
          NonceOf[i.request] \notin disk.used /\ i.request \notin DOMAIN disk.completed
    /\ \/ current = First
       \/ \E status \in {"Applied", "Frozen"} :
             current \in DOMAIN disk.completed /\ disk.completed[current] = status
       \/ \E i \in disk.in_flight : i.request = current /\ i.phase = "CommitStarted"

(* commit_candidate publishes at most one generation for a nonce, however  *)
(* often it is called, interrupted and recovered.                          *)
PublishedOnce ==
    \A i, j \in DOMAIN published : i # j => NonceOf[published[i]] # NonceOf[published[j]]

(* commit_candidate decides on what it read under the lock and moves the   *)
(* pointer several writes later.  When it does, whatever other processes   *)
(* did, died or failed at in between, the state file still holds its own   *)
(* CommitStarted intent in a workspace that is not frozen, with a nonce    *)
(* not used and a receipt signed for the candidate, and the pointer it     *)
(* replaces is the version that recover would go back to.  Nothing thaws   *)
(* a frozen workspace.                                                     *)
PublishWarranted ==
    [][/\ disk.frozen => disk'.frozen
       /\ \A r \in Requests : published' = Append(published, r) =>
             /\ disk.in_flight = {Intent(r, current, "CommitStarted")}
             /\ ~disk.frozen
             /\ NonceOf[r] \notin disk.used
             /\ \E e \in receipts : e.request = r]_vars

-----------------------------------------------------------------------------
(* A property that the code does not have.                                 *)

(* An expired evaluation receipt cannot publish a generation: the last      *)
(* look that commit_candidate takes before the replacement finds a receipt  *)
(* that is still valid.                                                     *)
ExpiredCannotPublish ==
    [][\A c \in Callers : At(c, "recheck") /\ proc'[c].pc = "publish" =>
          \E e \in proc[c].receipt : now < e.expires_at]_vars
=============================================================================
