------------------------------ MODULE Contract ------------------------------
(***************************************************************************)
(* The frozen contract of src/src/contract.rs: the lifecycle transition    *)
(* table and the failure budget, as operators without state.               *)
(*                                                                         *)
(* An Option<T> is a set with at most one element: None is {}, Some(x) is  *)
(* {x}.                                                                    *)
(***************************************************************************)
EXTENDS Naturals, Sequences, FiniteSets

-----------------------------------------------------------------------------
(* Lifecycle of one proposal.                                              *)

LifecycleState ==
    {"Proposal", "Quarantined", "Rejected", "Admitted", "Executing",
     "Completed", "RolledBack", "Frozen", "Killed"}

LifecycleEvent ==
    {"Quarantine", "Reject", "Admit", "BeginExecution", "Complete",
     "Rollback", "Freeze", "Kill"}

Shutdown == {"Frozen", "Killed"}

(* In the transition table the state reached depends on the event alone;   *)
(* the state left only decides whether the event is accepted.              *)
Target ==
    [Quarantine |-> "Quarantined", Reject |-> "Rejected",
     Admit |-> "Admitted", BeginExecution |-> "Executing",
     Complete |-> "Completed", Rollback |-> "RolledBack",
     Freeze |-> "Frozen", Kill |-> "Killed"]

Sources ==
    [Quarantine |-> {"Proposal", "Admitted"},
     Reject |-> {"Proposal", "Quarantined"},
     Admit |-> {"Proposal", "Quarantined", "RolledBack"},
     BeginExecution |-> {"Admitted"},
     Complete |-> {"Executing"},
     Rollback |-> {"Executing", "Completed"},
     Freeze |-> LifecycleState \ Shutdown,
     Kill |-> LifecycleState \ {"Killed"}]

Lifecycle == [state : LifecycleState, events : Seq(LifecycleEvent)]

NewLifecycle == [state |-> "Proposal", events |-> <<>>]

(* Lifecycle::apply. The revision is the length of the event history.      *)
Accepts(lifecycle, event) == lifecycle.state \in Sources[event]

Apply(lifecycle, event) ==
    [state |-> Target[event], events |-> Append(lifecycle.events, event)]

(* Lifecycle::validate: the history replays from Proposal to the state.    *)
ValidLifecycle(lifecycle) ==
    LET past(i) == IF i = 0 THEN "Proposal" ELSE Target[lifecycle.events[i]]
    IN  /\ \A i \in 1 .. Len(lifecycle.events) :
              past(i - 1) \in Sources[lifecycle.events[i]]
        /\ lifecycle.state = past(Len(lifecycle.events))

-----------------------------------------------------------------------------
(* Failure budget.                                                         *)

FailureKind == {"Rejection", "Quarantine", "Rollback"}

(* FailureBudget: a ceiling per kind, one for a run of failures, one for   *)
(* the window of recent failures, and the size of that window.             *)
ValidBudget(budget) ==
    /\ budget.window_size > 0
    /\ budget.max_window <= budget.window_size

FailureBudget ==
    [max : [FailureKind -> Nat], max_consecutive : Nat, max_window : Nat,
     window_size : Nat]

FailureTracker ==
    [budget : FailureBudget, count : [FailureKind -> Nat],
     consecutive : Nat, recent : Nat]

NewTracker(budget) ==
    [budget |-> budget, count |-> [kind \in FailureKind |-> 0],
     consecutive |-> 0, recent |-> 0]

(* Mutant: the ceilings are exclusive.                                     *)
OverOnly(observed, limit) == observed > 0 /\ observed > limit

AtOrOver(observed, limit) == observed > 0 /\ observed >= limit

Exhausted(tracker) ==
    \/ \E kind \in FailureKind :
          AtOrOver(tracker.count[kind], tracker.budget.max[kind])
    \/ AtOrOver(tracker.consecutive, tracker.budget.max_consecutive)
    \/ AtOrOver(tracker.recent, tracker.budget.max_window)

Failures(tracker) ==
    tracker.count["Rejection"] + tracker.count["Quarantine"]
        + tracker.count["Rollback"]

ValidTracker(tracker) ==
    /\ ValidBudget(tracker.budget)
    /\ tracker.recent <= tracker.budget.window_size
    /\ tracker.consecutive <= Failures(tracker)
    /\ tracker.recent = 0 => tracker.consecutive = 0

(* FailureTracker::record_failure. Only the length of the recent window is *)
(* ever read; it holds failures only, and record_success leaves it alone.  *)
RecordFailure(tracker, kind) ==
    [tracker EXCEPT
        !.count[kind] = @ + 1,
        !.consecutive = @ + 1,
        !.recent = IF @ = tracker.budget.window_size THEN @ ELSE @ + 1]

RecordSuccess(tracker) == [tracker EXCEPT !.consecutive = 0]
=============================================================================
