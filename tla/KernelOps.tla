----------------------------- MODULE KernelOps ------------------------------
(***************************************************************************)
(* The admission kernel of src/src/lib.rs as operators on a kernel value:  *)
(* one operator for each method of Kernel that changes it, returning the   *)
(* kernel afterwards.  Kernel.tla drives the methods one call at a time;   *)
(* Workflow.tla composes them the way src/src/integration.rs does.         *)
(*                                                                         *)
(* Digests are the values they are digests of: a proposal stands for its   *)
(* candidate digest, a policy for its policy digest.                       *)
(***************************************************************************)
EXTENDS Contract

CONSTANTS
    Proposals,        \* candidate digests
    Policies,         \* policy digests; every one passes Policy::validate
    ReplayKey,        \* ReplayKey[p]: the digest of (agent_id, nonce)
    ExpiresAt,        \* ExpiresAt[p]: the proposal's own expiry
    ClaimsUntil,      \* ClaimsUntil[p]: valid_until of its PolicyCompliance claims
    DirectAuthority,  \* proposals that request direct authority
    Permits,          \* Permits[q]: proposals within the allowlists and budget of q
    TokenTtl          \* TokenTtl[q]: lifetime of a capability under q

ASSUME KernelConstants ==
    /\ DOMAIN ReplayKey = Proposals
    /\ ExpiresAt \in [Proposals -> Nat]
    /\ ClaimsUntil \in [Proposals -> SUBSET Nat]
    /\ DirectAuthority \subseteq Proposals
    /\ Permits \in [Policies -> SUBSET Proposals]
    /\ TokenTtl \in [Policies -> Nat \ {0}]

-----------------------------------------------------------------------------

Capability == [issued_at : Nat, expires_at : Nat]

DecisionKind == {"Accepted", "Rejected", "Quarantined"}

Decision ==
    [candidate : Proposals, kind : DecisionKind, policy : Policies,
     capability : SUBSET Capability]

Issuance == [decision : Decision, consumed : BOOLEAN]

(* A map (BTreeMap) from members of S to members of T.                     *)
IsMap(f, S, T) == f \in [DOMAIN f -> T] /\ DOMAIN f \subseteq S

IsKernel(k) ==
    /\ k = [policy |-> k.policy, journal |-> k.journal,
            issuances |-> k.issuances, lifecycles |-> k.lifecycles,
            tracker |-> k.tracker, frozen |-> k.frozen, killed |-> k.killed]
    /\ k.policy \in Policies
    /\ k.journal \in Seq(Proposals)
    /\ IsMap(k.issuances, Proposals, Issuance)
    /\ IsMap(k.lifecycles, Proposals, Lifecycle)
    /\ k.tracker \subseteq FailureTracker
    /\ k.frozen \in BOOLEAN
    /\ k.killed \in BOOLEAN

EmptyMap == [x \in {} |-> x]

NewKernel(policy) ==
    [policy |-> policy, journal |-> <<>>, issuances |-> EmptyMap,
     lifecycles |-> EmptyMap, tracker |-> {}, frozen |-> FALSE, killed |-> FALSE]

Closed(k) == k.frozen \/ k.killed

Journaled(k) == {k.journal[i] : i \in DOMAIN k.journal}

StateOf(k, p) == k.lifecycles[p].state

(* f with key bound to value: BTreeMap::insert.                            *)
Insert(f, key, value) ==
    [x \in DOMAIN f \cup {key} |-> IF x = key THEN value ELSE f[x]]

-----------------------------------------------------------------------------
(* Kernel::admit and Kernel::record.                                       *)

Qualifying(p, now) == {until \in ClaimsUntil[p] : until > now}

(* The earliest of the proposal's expiry, the token lifetime and the       *)
(* qualifying claims bounds the capability: the least of the bounds, as an *)
(* Option.                                                                 *)
Bounds(k, p, now) ==
    {ExpiresAt[p], now + TokenTtl[k.policy]} \cup Qualifying(p, now)

CapabilityExpiry(k, p, now) ==
    {t \in Bounds(k, p, now) : \A u \in Bounds(k, p, now) : t <= u}

Verdict(k, p, now) ==
    IF p \in DirectAuthority \/ p \notin Permits[k.policy] THEN "Rejected"
    ELSE IF Qualifying(p, now) = {} THEN "Quarantined"
    ELSE "Accepted"

(* ReplayJournal::append refuses a candidate or a nonce it has seen.       *)
Fresh(k, p) ==
    /\ p \notin Journaled(k)
    /\ \A q \in Journaled(k) : ReplayKey[q] # ReplayKey[p]

(* Admission is open and the proposal has the shape validate_shape wants.  *)
CanAdmit(k, p, now) == ~Closed(k) /\ ExpiresAt[p] > now /\ Fresh(k, p)

VerdictEvent ==
    [Accepted |-> "Admit", Rejected |-> "Reject", Quarantined |-> "Quarantine"]

DecisionOn(k, p, now) ==
    [candidate |-> p, kind |-> Verdict(k, p, now), policy |-> k.policy,
     capability |->
        IF Verdict(k, p, now) = "Accepted"
        THEN {[issued_at |-> now, expires_at |-> t] :
                 t \in CapabilityExpiry(k, p, now)}
        ELSE {}]

Recorded(k, p, decision) ==
    [k EXCEPT
        !.journal = Append(@, p),
        !.lifecycles =
            Insert(@, p, Apply(NewLifecycle, VerdictEvent[decision.kind])),
        !.issuances =
            IF decision.capability = {} THEN @
            ELSE Insert(@, p, [decision |-> decision, consumed |-> FALSE])]

AfterAdmit(k, p, now) == Recorded(k, p, DecisionOn(k, p, now))

-----------------------------------------------------------------------------
(* Kernel::consume.                                                        *)

(* The early returns in front of the policy check.                         *)
Reaches(k, p) ==
    /\ ~Closed(k)
    /\ p \in DOMAIN k.lifecycles
    /\ StateOf(k, p) = "Admitted"
    /\ p \in DOMAIN k.issuances

(* Mutant: the decision is only compared with the issuance.                *)
StaleIssuance(k, p, decision) ==
    decision.policy # k.issuances[p].decision.policy

PolicyStale(k, p, decision) ==
    decision.policy # k.issuances[p].decision.policy \/ decision.policy # k.policy

Matches(k, p, decision, now) ==
    /\ ~k.issuances[p].consumed
    /\ decision = k.issuances[p].decision
    /\ \E c \in decision.capability : c.issued_at <= now /\ now < c.expires_at

CanConsume(k, p, decision, now) ==
    /\ Reaches(k, p)
    /\ ~PolicyStale(k, p, decision)
    /\ Matches(k, p, decision, now)

FindsStalePolicy(k, p, decision) ==
    Reaches(k, p) /\ PolicyStale(k, p, decision)

(* apply_lifecycle_event: complete, rollback, quarantine, freeze and kill. *)
CanApply(k, p, event) ==
    p \in DOMAIN k.lifecycles /\ Accepts(k.lifecycles[p], event)

WithEvent(k, p, event) ==
    [k EXCEPT !.lifecycles[p] = Apply(@, event)]

(* Mutant: what consume found is not recorded.                             *)
ConsumeUnrecorded(k, p) == k

AfterConsume(k, p) ==
    [WithEvent(k, p, "BeginExecution") EXCEPT !.issuances[p].consumed = TRUE]

-----------------------------------------------------------------------------
(* Kernel-wide shutdown.                                                   *)

FreezeAll(k) ==
    [k EXCEPT
        !.lifecycles = [p \in DOMAIN @ |->
            IF @[p].state \in Shutdown THEN @[p] ELSE Apply(@[p], "Freeze")],
        !.frozen = TRUE]

KillAll(k) ==
    [k EXCEPT
        !.lifecycles = [p \in DOMAIN @ |->
            IF @[p].state = "Killed" THEN @[p] ELSE Apply(@[p], "Kill")],
        !.frozen = TRUE, !.killed = TRUE]

-----------------------------------------------------------------------------
(* Failure budget of the kernel.                                           *)

(* observe_failure returns an error, and changes nothing, on a tracker that *)
(* is already exhausted.                                                   *)
FailureRefused(k) == \E t \in k.tracker : Exhausted(t)

Counted(k, kind) ==
    [k EXCEPT !.tracker = {RecordFailure(t, kind) : t \in @}]

FreezeRequired(k, kind) == \E t \in Counted(k, kind).tracker : Exhausted(t)

ObserveFailure(k, kind) ==
    IF FreezeRequired(k, kind) THEN FreezeAll(Counted(k, kind))
    ELSE Counted(k, kind)

ObserveSuccess(k) ==
    IF Closed(k) THEN k
    ELSE [k EXCEPT !.tracker = {RecordSuccess(t) : t \in @}]

-----------------------------------------------------------------------------
(* KernelSnapshot: issuances are not serialized.                           *)

(* Mutant: issuances survive in the snapshot.                              *)
SnapshotWithIssuances(k) == k

Snapshot(k) == [k EXCEPT !.issuances = EmptyMap]

(* KernelSnapshot::validate.                                               *)
ValidSnapshot(k) ==
    /\ \A i, j \in DOMAIN k.journal :
          i # j => ReplayKey[k.journal[i]] # ReplayKey[k.journal[j]]
    /\ k.killed => k.frozen
    /\ \A t \in k.tracker : ValidTracker(t) /\ (Exhausted(t) => k.frozen)
    /\ DOMAIN k.lifecycles = Journaled(k)
    /\ \A p \in DOMAIN k.lifecycles :
          /\ StateOf(k, p) # "Proposal"
          /\ ValidLifecycle(k.lifecycles[p])
=============================================================================
