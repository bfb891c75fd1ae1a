------------------------------- MODULE Kernel -------------------------------
(***************************************************************************)
(* The public interface of Kernel (src/src/lib.rs) called in any order by  *)
(* callers that keep every decision they were given, with the kernel's     *)
(* snapshot saved and restored across restarts.  &mut self and the         *)
(* SharedKernel mutex make each method one atomic step.                    *)
(*                                                                         *)
(* A call that returns an error or Ok(false) without changing the kernel   *)
(* is a stuttering step and has no action.                                 *)
(***************************************************************************)
EXTENDS KernelOps

CONSTANTS
    Budgets,      \* failure budgets a caller may configure
    MaxTime,      \* bound on the callers' clock
    MaxRestarts   \* bound on restarts from the snapshot

ASSUME KernelBounds ==
    /\ Budgets \subseteq FailureBudget
    /\ MaxTime \in Nat
    /\ MaxRestarts \in Nat

VARIABLES
    kernel,     \* the kernel in memory
    decisions,  \* every decision admit has returned; callers keep them
    now,        \* the time callers pass to admit and consume
    disk,       \* Option: the saved kernel snapshot
    epoch,      \* number of restarts so far
    inherited,  \* history: the candidates journaled in the snapshot of this epoch
    reserved    \* history: reserved[e] is the sequence of candidates whose
                \* consume returned Ok(true) in epoch e

vars == <<kernel, decisions, now, disk, epoch, inherited, reserved>>

Epochs == 0 .. MaxRestarts

Init ==
    /\ \E policy \in Policies : kernel = NewKernel(policy)
    /\ decisions = {}
    /\ now = 0
    /\ disk = {}
    /\ epoch = 0
    /\ inherited = {}
    /\ reserved = [e \in Epochs |-> <<>>]

-----------------------------------------------------------------------------

Admit(p) ==
    /\ CanAdmit(kernel, p, now)
    /\ kernel' = AfterAdmit(kernel, p, now)
    /\ decisions' = decisions \cup {DecisionOn(kernel, p, now)}
    /\ UNCHANGED <<now, disk, epoch, inherited, reserved>>

(* consume that reserves the capability and begins execution.              *)
Consume(p, decision) ==
    /\ CanConsume(kernel, p, decision, now)
    /\ kernel' = AfterConsume(kernel, p)
    /\ reserved' = [reserved EXCEPT ![epoch] = Append(@, p)]
    /\ UNCHANGED <<decisions, now, disk, epoch, inherited>>

(* consume that finds the policy changed since the decision.               *)
ConsumeStale(p, decision) ==
    /\ FindsStalePolicy(kernel, p, decision)
    /\ kernel' = WithEvent(kernel, p, "Quarantine")
    /\ UNCHANGED <<decisions, now, disk, epoch, inherited, reserved>>

(* complete, rollback, quarantine, freeze and kill of one proposal: none   *)
(* of them looks at the kernel-wide flags.                                 *)
ApplyLifecycleEvent(p, event) ==
    /\ event \in {"Complete", "Rollback", "Quarantine", "Freeze", "Kill"}
    /\ CanApply(kernel, p, event)
    /\ kernel' = WithEvent(kernel, p, event)
    /\ UNCHANGED <<decisions, now, disk, epoch, inherited, reserved>>

freeze_all ==
    /\ kernel' = FreezeAll(kernel)
    /\ UNCHANGED <<decisions, now, disk, epoch, inherited, reserved>>

kill_all ==
    /\ kernel' = KillAll(kernel)
    /\ UNCHANGED <<decisions, now, disk, epoch, inherited, reserved>>

configure_failure_budget(budget) ==
    /\ ~Closed(kernel)
    /\ ValidBudget(budget)
    /\ kernel' = [kernel EXCEPT !.tracker = {NewTracker(budget)}]
    /\ UNCHANGED <<decisions, now, disk, epoch, inherited, reserved>>

observe_failure(kind) ==
    /\ ~FailureRefused(kernel)
    /\ kernel' = ObserveFailure(kernel, kind)
    /\ UNCHANGED <<decisions, now, disk, epoch, inherited, reserved>>

observe_success ==
    /\ kernel' = ObserveSuccess(kernel)
    /\ UNCHANGED <<decisions, now, disk, epoch, inherited, reserved>>

(* Kernel.policy is a public field that callers replace between calls.     *)
ReplacePolicy(policy) ==
    /\ kernel' = [kernel EXCEPT !.policy = policy]
    /\ UNCHANGED <<decisions, now, disk, epoch, inherited, reserved>>

save_snapshot ==
    /\ ValidSnapshot(kernel)
    /\ disk' = {Snapshot(kernel)}
    /\ UNCHANGED <<kernel, decisions, now, epoch, inherited, reserved>>

(* The process ends and a new one loads the snapshot that was saved last.  *)
load_snapshot ==
    /\ epoch < MaxRestarts
    /\ \E snapshot \in disk :
          /\ ValidSnapshot(snapshot)
          /\ kernel' = snapshot
          /\ inherited' = Journaled(snapshot)
    /\ epoch' = epoch + 1
    /\ UNCHANGED <<decisions, now, disk, reserved>>

Tick ==
    /\ now < MaxTime
    /\ now' = now + 1
    /\ UNCHANGED <<kernel, decisions, disk, epoch, inherited, reserved>>

Next ==
    \/ \E p \in Proposals : Admit(p)
    \/ \E p \in Proposals, d \in decisions : Consume(p, d)
    \/ \E p \in Proposals, d \in decisions : ConsumeStale(p, d)
    \/ \E p \in Proposals, e \in LifecycleEvent : ApplyLifecycleEvent(p, e)
    \/ freeze_all
    \/ kill_all
    \/ \E b \in Budgets : configure_failure_budget(b)
    \/ \E kind \in FailureKind : observe_failure(kind)
    \/ observe_success
    \/ \E q \in Policies : ReplacePolicy(q)
    \/ save_snapshot
    \/ load_snapshot
    \/ Tick

Spec == Init /\ [][Next]_vars

-----------------------------------------------------------------------------

(* The kernel in memory and on disk, the decisions callers hold and the    *)
(* history of reservations are well formed.                                *)
TypeOK ==
    /\ IsKernel(kernel)
    /\ \A snapshot \in disk : IsKernel(snapshot)
    /\ decisions \subseteq Decision
    /\ now \in Nat
    /\ epoch \in Epochs
    /\ inherited \subseteq Proposals
    /\ reserved \in [Epochs -> Seq(Proposals)]

(* Kernel::consume reserves a capability at most once in the life of a     *)
(* kernel: no (agent, nonce) pair occurs twice among the successful        *)
(* reservations of one epoch, whatever decisions, policies and clocks the  *)
(* callers combine.                                                        *)
SingleUse ==
    \A e \in Epochs : \A i, j \in DOMAIN reserved[e] :
        ReplayKey[reserved[e][i]] = ReplayKey[reserved[e][j]] => i = j

(* from_snapshot drops the private issuances, so a kernel restored from a  *)
(* snapshot never reserves a candidate, or an (agent, nonce) pair, that    *)
(* the snapshot already records, even though the snapshot may show it      *)
(* Admitted and the caller still holds the accepted decision.              *)
RestartRevivesNothing ==
    \A i \in DOMAIN reserved[epoch], p \in inherited :
        ReplayKey[reserved[epoch][i]] # ReplayKey[p]

(* The strengthening of the two properties above that every call           *)
(* preserves.  The journal holds exactly the candidates with a lifecycle   *)
(* and no two of them share an (agent, nonce) pair; issuances are for      *)
(* candidates admitted in this epoch; a reserved candidate is in a state   *)
(* from which none of the kernel's methods leads back to Admitted.         *)
Spent == {"Executing", "Completed", "RolledBack", "Frozen", "Killed"}

Coherent(k) ==
    /\ DOMAIN k.lifecycles = Journaled(k)
    /\ DOMAIN k.issuances \subseteq Journaled(k)
    /\ \A p, q \in Journaled(k) : ReplayKey[p] = ReplayKey[q] => p = q

ReservationInv ==
    /\ Coherent(kernel)
    /\ \A snapshot \in disk :
          Coherent(snapshot) /\ DOMAIN snapshot.issuances = {}
    /\ inherited \subseteq Journaled(kernel)
    /\ inherited \cap DOMAIN kernel.issuances = {}
    /\ \A i \in DOMAIN reserved[epoch] :
          LET p == reserved[epoch][i]
          IN  /\ p \in Journaled(kernel) \ inherited
              /\ StateOf(kernel, p) \in Spent
    /\ \A e \in Epochs : e > epoch => reserved[e] = <<>>
    /\ SingleUse

(* At the moment consume succeeds the authority is still warranted, not    *)
(* only at admission: the policy in force permits the proposal, and        *)
(* neither the proposal nor its last qualifying claim has expired.         *)
WarrantedAtUse ==
    [][\A p \in Proposals :
          reserved'[epoch] = Append(reserved[epoch], p) =>
             /\ p \in Permits[kernel.policy] \ DirectAuthority
             /\ now < ExpiresAt[p]
             /\ Qualifying(p, now) # {}]_vars

(* Every ceiling of the failure budget is inclusive and final: a counter   *)
(* never passes max(1, its ceiling), and since successes never empty the   *)
(* recent window, neither does the number of failures of all kinds pass    *)
(* max(1, max_window_failures).                                            *)
CeilingsHold(t) ==
    LET ceiling(limit) == IF limit = 0 THEN 1 ELSE limit
    IN  /\ \A kind \in FailureKind :
              t.count[kind] <= ceiling(t.budget.max[kind])
        /\ t.consecutive <= ceiling(t.budget.max_consecutive)
        /\ Failures(t) <= ceiling(t.budget.max_window)

(* Whatever the mix of failures, successes, shutdowns and restarts, every  *)
(* ceiling of the budget holds; an exhausted budget, freeze_all and        *)
(* kill_all leave no live lifecycle behind, and none appears afterwards;   *)
(* and KernelSnapshot::validate accepts the kernel: save_snapshot never    *)
(* refuses one the interface can reach, and what it wrote can be loaded.   *)
BudgetHolds ==
    \A k \in {kernel} \cup disk :
        /\ ValidSnapshot(k)
        /\ \A t \in k.tracker : CeilingsHold(t)
        /\ \A p \in DOMAIN k.lifecycles :
              /\ k.frozen => StateOf(k, p) \in Shutdown
              /\ k.killed => StateOf(k, p) = "Killed"
=============================================================================
