------------------------------ MODULE Workflow ------------------------------
(***************************************************************************)
(* The coordinator of src/src/integration.rs: evidence, admission,         *)
(* execution and observation composed over one kernel that several         *)
(* runtimes share.  A coordinator call holds &mut Kernel and &mut Runtime, *)
(* so it is one step; each way a call can end is an action.                *)
(*                                                                         *)
(* A call that fails before it changes anything (admission closed, a       *)
(* replayed candidate, an expired proposal) is a stuttering step.  The     *)
(* verdicts of the artifact, custody and receipt checks are inputs.        *)
(***************************************************************************)
EXTENDS KernelOps, Functions

CONSTANTS
    Runtimes,     \* runtimes sharing the kernel
    EvidenceIds,  \* identities of evidence records
    Registries,   \* evidence registries the process may load at the start
    Submitted,    \* evidence records that callers submit
    Roles,        \* operator, validator and reviewer identities
    WriteKey,     \* WriteKey[p]: Option of the key that p writes; None: p reads
    Executable,   \* proposals whose action and payload the runtime accepts
    Budgets,      \* failure budgets; the kernel starts with one or with none
    MaxTime       \* bound on the clock of the observations

ASSUME WorkflowConstants ==
    /\ DOMAIN WriteKey = Proposals
    /\ Executable \subseteq Proposals
    /\ \A budget \in Budgets : budget \in FailureBudget /\ ValidBudget(budget)

VARIABLES
    kernel,    \* the shared kernel
    runtimes,  \* the runtime of each caller
    evidence,  \* EvidenceRegistry: map from identity to record
    now

vars == <<kernel, runtimes, evidence, now>>

-----------------------------------------------------------------------------
(* Runtime of src/src/lib.rs.                                              *)

NewRuntime ==
    [state |-> EmptyMap, checkpoints |-> <<>>, audit |-> <<>>,
     frozen |-> FALSE, killed |-> FALSE]

Entry(event, candidate) == [event |-> event, candidate |-> candidate]

(* The state after p's write, or the same state after a read.              *)
Written(state, p) ==
    IF WriteKey[p] = {} THEN state
    ELSE Insert(state, CHOOSE key \in WriteKey[p] : TRUE, p)

CanExecute(rt, p) == ~rt.frozen /\ ~rt.killed /\ p \in Executable

Executed(rt, p) ==
    [rt EXCEPT
        !.checkpoints = Append(@, rt.state),
        !.state = Written(@, p),
        !.audit = Append(@, Entry("execute", {p}))]

RtFreeze(rt) ==
    IF rt.frozen \/ rt.killed THEN rt
    ELSE [rt EXCEPT !.frozen = TRUE, !.audit = Append(@, Entry("freeze", {}))]

RtKill(rt) ==
    IF rt.killed THEN rt
    ELSE [rt EXCEPT !.frozen = TRUE, !.killed = TRUE,
                    !.audit = Append(@, Entry("kill", {}))]

(* Mutant: a rollback that does nothing.                                   *)
RtNoRollback(rt) == rt

(* Mutant: the checkpoint is dropped but not restored.                     *)
RtForget(rt) ==
    IF rt.frozen \/ rt.killed \/ rt.checkpoints = <<>> THEN rt
    ELSE [rt EXCEPT !.checkpoints = SubSeq(@, 1, Len(@) - 1),
                    !.audit = Append(@, Entry("rollback", {}))]

RtRollback(rt) ==
    IF rt.frozen \/ rt.killed \/ rt.checkpoints = <<>> THEN rt
    ELSE [rt EXCEPT !.state = rt.checkpoints[Len(rt.checkpoints)],
                    !.checkpoints = SubSeq(@, 1, Len(@) - 1),
                    !.audit = Append(@, Entry("rollback", {}))]

-----------------------------------------------------------------------------
(* Evidence and EvidenceRegistry of src/src/lib.rs.                        *)

(* Evidence::validate: an accepted record names a reviewer, and the roles  *)
(* it names are pairwise distinct.                                         *)
ValidEvidence(e) ==
    /\ e.operator # e.validator
    /\ e.accepted <=> e.reviewer # {}
    /\ e.reviewer \cap {e.operator, e.validator} = {}

Evidence ==
    [subject : Proposals, operator : Roles, validator : Roles,
     reviewer : {{}} \cup {{role} : role \in Roles}, valid_until : Nat,
     accepted : BOOLEAN, revoked : BOOLEAN]

(* EvidenceRegistry::load validates what it reads; insert validates what   *)
(* callers submit.                                                         *)
ASSUME EvidenceConstants ==
    /\ Submitted \subseteq Evidence
    /\ \A registry \in Registries : \A id \in DOMAIN registry :
          registry[id] \in Evidence /\ ValidEvidence(registry[id])

(* Evidence::valid, which looks at the roles again.                        *)
EvidenceIsValid(id, subject) ==
    /\ id \in DOMAIN evidence
    /\ LET e == evidence[id]
       IN  /\ e.accepted
           /\ ~e.revoked
           /\ e.valid_until > now
           /\ e.subject = subject
           /\ e.operator # e.validator
           /\ e.reviewer # {} /\ e.reviewer \cap {e.operator, e.validator} = {}

InsertEvidence(id, e) ==
    /\ id \notin DOMAIN evidence
    /\ ValidEvidence(e)
    /\ evidence' = Insert(evidence, id, e)
    /\ UNCHANGED <<kernel, runtimes, now>>

(* Mutant: any reviewer will do.                                           *)
AcceptByAnyone(id, reviewer) ==
    /\ id \in DOMAIN evidence
    /\ ~evidence[id].revoked
    /\ ~evidence[id].accepted
    /\ evidence' = [evidence EXCEPT ![id].reviewer = {reviewer},
                                    ![id].accepted = TRUE]
    /\ UNCHANGED <<kernel, runtimes, now>>

AcceptEvidence(id, reviewer) ==
    /\ id \in DOMAIN evidence
    /\ ~evidence[id].revoked
    /\ ~evidence[id].accepted
    /\ reviewer \notin {evidence[id].operator, evidence[id].validator}
    /\ evidence' = [evidence EXCEPT ![id].reviewer = {reviewer},
                                    ![id].accepted = TRUE]
    /\ UNCHANGED <<kernel, runtimes, now>>

RevokeEvidence(id) ==
    /\ id \in DOMAIN evidence
    /\ ~evidence[id].revoked
    /\ evidence' = [evidence EXCEPT ![id].revoked = TRUE]
    /\ UNCHANGED <<kernel, runtimes, now>>

-----------------------------------------------------------------------------
(* integration::observe_failure: kernel and runtime freeze together when   *)
(* the budget is spent, or was spent before.                               *)

Observed(k, rt, kind) ==
    IF FailureRefused(k)
    THEN [kernel |-> FreezeAll(k), runtime |-> RtFreeze(rt)]
    ELSE [kernel |-> ObserveFailure(k, kind),
          runtime |-> IF FreezeRequired(k, kind) THEN RtFreeze(rt) ELSE rt]

EndsWith(r, outcome) ==
    /\ kernel' = outcome.kernel
    /\ runtimes' = [runtimes EXCEPT ![r] = outcome.runtime]
    /\ UNCHANGED <<evidence, now>>

(* Evidence, artifact or custody is not in order and nothing is admitted.  *)
(* The evidence identity is the caller's: it may name no record at all, so *)
(* a call can always end here.                                             *)
QuarantineUnproven(r) ==
    EndsWith(r, Observed(kernel, runtimes[r], "Quarantine"))

Admits(p, id) == EvidenceIsValid(id, p) /\ CanAdmit(kernel, p, now)

RejectProposal(r, p, id) ==
    /\ Admits(p, id)
    /\ Verdict(kernel, p, now) # "Accepted"
    /\ EndsWith(r, Observed(AfterAdmit(kernel, p, now), runtimes[r], "Rejection"))

Accepted(p, id) == Admits(p, id) /\ Verdict(kernel, p, now) = "Accepted"

Quarantined(r, p) ==
    Observed(WithEvent(AfterAdmit(kernel, p, now), p, "Quarantine"),
             runtimes[r], "Quarantine")

(* run_with_receipt: the receipt does not verify.                          *)
QuarantineReceipt(r, p, id) ==
    /\ Accepted(p, id)
    /\ EndsWith(r, Quarantined(r, p))

(* Mutant: a failed execution leaves the lifecycle Admitted.               *)
FailLeavesAdmitted(r, p, id) ==
    /\ Accepted(p, id)
    /\ ~CanExecute(runtimes[r], p)
    /\ EndsWith(r, Observed(AfterAdmit(kernel, p, now), runtimes[r], "Quarantine"))

(* complete_admitted: Runtime::execute returns an error before consuming.  *)
FailExecution(r, p, id) ==
    /\ Accepted(p, id)
    /\ ~CanExecute(runtimes[r], p)
    /\ EndsWith(r, Quarantined(r, p))

(* The kernel after admission and consumption.                             *)
Begun(p) == AfterConsume(AfterAdmit(kernel, p, now), p)

(* complete_admitted: executed, then observed unhealthy, without telemetry *)
(* or with a kill request.                                                 *)
RollBack(r, p, id, kill) ==
    /\ Accepted(p, id)
    /\ CanExecute(runtimes[r], p)
    /\ LET undone == WithEvent(Begun(p), p, "Rollback")
           after == Observed(undone, RtRollback(Executed(runtimes[r], p)), "Rollback")
           last == IF kill THEN "Kill" ELSE "Freeze"
       IN  EndsWith(r,
             [kernel |-> IF ~kill /\ FreezeRequired(undone, "Rollback")
                         THEN after.kernel
                         ELSE WithEvent(after.kernel, p, last),
              runtime |-> IF kill THEN RtKill(after.runtime)
                          ELSE RtFreeze(after.runtime)])

(* complete_admitted: executed and observed healthy.                       *)
Complete(r, p, id) ==
    /\ Accepted(p, id)
    /\ CanExecute(runtimes[r], p)
    /\ EndsWith(r,
         [kernel |-> ObserveSuccess(WithEvent(Begun(p), p, "Complete")),
          runtime |-> Executed(runtimes[r], p)])

-----------------------------------------------------------------------------
(* Shutdown by the operator, policy changes and time.                      *)

FreezeKernel ==
    kernel' = FreezeAll(kernel) /\ UNCHANGED <<runtimes, evidence, now>>

KillKernel ==
    kernel' = KillAll(kernel) /\ UNCHANGED <<runtimes, evidence, now>>

FreezeRuntime(r) ==
    /\ runtimes' = [runtimes EXCEPT ![r] = RtFreeze(@)]
    /\ UNCHANGED <<kernel, evidence, now>>

KillRuntime(r) ==
    /\ runtimes' = [runtimes EXCEPT ![r] = RtKill(@)]
    /\ UNCHANGED <<kernel, evidence, now>>

ReplacePolicy(policy) ==
    /\ kernel' = [kernel EXCEPT !.policy = policy]
    /\ UNCHANGED <<runtimes, evidence, now>>

Tick ==
    /\ now < MaxTime
    /\ now' = now + 1
    /\ UNCHANGED <<kernel, runtimes, evidence>>

Init ==
    /\ \E policy \in Policies :
          \E tracker \in {{}} \cup {{NewTracker(b)} : b \in Budgets} :
             kernel = [NewKernel(policy) EXCEPT !.tracker = tracker]
    /\ runtimes = [r \in Runtimes |-> NewRuntime]
    /\ evidence \in Registries
    /\ now = 0

Coordinate(r, p, id) ==
    \/ RejectProposal(r, p, id)
    \/ QuarantineReceipt(r, p, id)
    \/ FailExecution(r, p, id)
    \/ \E kill \in BOOLEAN : RollBack(r, p, id, kill)
    \/ Complete(r, p, id)

Next ==
    \/ \E r \in Runtimes : QuarantineUnproven(r)
    \/ \E r \in Runtimes, p \in Proposals, id \in EvidenceIds : Coordinate(r, p, id)
    \/ \E id \in EvidenceIds \ DOMAIN evidence :
          \E e \in Submitted : InsertEvidence(id, e)
    \/ \E id \in EvidenceIds, role \in Roles : AcceptEvidence(id, role)
    \/ \E id \in EvidenceIds : RevokeEvidence(id)
    \/ FreezeKernel
    \/ KillKernel
    \/ \E r \in Runtimes : FreezeRuntime(r)
    \/ \E r \in Runtimes : KillRuntime(r)
    \/ \E policy \in Policies : ReplacePolicy(policy)
    \/ Tick

Spec == Init /\ [][Next]_vars

-----------------------------------------------------------------------------

(* The positions of p's executions in the audit of r, and whether the      *)
(* entry at i was undone: rollback follows execution in the same call.     *)
Executions(r, p) ==
    {i \in DOMAIN runtimes[r].audit : runtimes[r].audit[i] = Entry("execute", {p})}

Undone(r, i) ==
    i < Len(runtimes[r].audit) /\ runtimes[r].audit[i + 1].event = "rollback"

(* The kernel's account of a candidate agrees with the runtimes': its      *)
(* lifecycle was completed exactly when some runtime executed it and kept  *)
(* the effect, and was rolled back exactly when the effect was undone.     *)
(* Whichever of the runtimes sharing the kernel are called, no candidate   *)
(* is executed twice and no two of them reuse one (agent, nonce).          *)
LifecycleTellsEffect ==
    /\ \A p \in DOMAIN kernel.lifecycles :
          LET history == Range(kernel.lifecycles[p].events)
          IN  /\ "Complete" \in history <=>
                    \E r \in Runtimes : \E i \in Executions(r, p) : ~Undone(r, i)
              /\ "Rollback" \in history <=>
                    \E r \in Runtimes : \E i \in Executions(r, p) : Undone(r, i)
    /\ \A r, s \in Runtimes, p, q \in Proposals :
          \A i \in Executions(r, p), j \in Executions(s, q) :
              ReplayKey[p] = ReplayKey[q] => r = s /\ i = j

(* A coordinator call never leaves its candidate half way: whether it      *)
(* completed, failed or was rolled back, no lifecycle is Admitted or       *)
(* Executing once the call has returned, and if it spent the failure       *)
(* budget, both the kernel and the runtime that was called are frozen.     *)
NothingStranded ==
    /\ \A p \in DOMAIN kernel.lifecycles :
          StateOf(kernel, p) \notin {"Proposal", "Admitted", "Executing"}
    /\ (\E t \in kernel.tracker : Exhausted(t)) =>
          kernel.frozen /\ \E r \in Runtimes : runtimes[r].frozen

(* The audit explains the state: the executions that were not undone,      *)
(* applied in the order of the audit, give the state of the runtime.       *)
AuditExplainsState ==
    \A r \in Runtimes :
        LET kept(i) == /\ runtimes[r].audit[i].event = "execute"
                       /\ ~Undone(r, i)
            replay[i \in 0 .. Len(runtimes[r].audit)] ==
                IF i = 0 THEN EmptyMap
                ELSE IF kept(i)
                THEN Written(replay[i - 1],
                             CHOOSE p \in runtimes[r].audit[i].candidate : TRUE)
                ELSE replay[i - 1]
        IN  runtimes[r].state = replay[Len(runtimes[r].audit)]

(* An execution happens only on accepted, unrevoked, current evidence for  *)
(* exactly that candidate.  Three distinct roles stand behind every record *)
(* once it is accepted, so that the look at the roles in Evidence::valid   *)
(* finds nothing that load, insert and accept let pass, and from then on   *)
(* a record may only be revoked, for good.                                 *)
BackedByEvidence ==
    [][/\ \A r \in Runtimes, p \in Proposals :
             (\E i \in DOMAIN runtimes'[r].audit :
                 i > Len(runtimes[r].audit)
                 /\ runtimes'[r].audit[i] = Entry("execute", {p})) =>
             \E id \in DOMAIN evidence :
                LET e == evidence[id]
                IN  /\ e.subject = p /\ e.accepted /\ ~e.revoked
                    /\ now < e.valid_until
       /\ \A id \in DOMAIN evidence' :
             LET e == evidence'[id]
             IN  e.accepted => Cardinality({e.operator, e.validator} \cup e.reviewer) = 3
       /\ \A id \in DOMAIN evidence :
             evidence[id].accepted =>
                /\ [evidence'[id] EXCEPT !.revoked = evidence[id].revoked] = evidence[id]
                /\ evidence[id].revoked => evidence'[id].revoked]_vars
=============================================================================
