---------------------------- MODULE KernelProofs ----------------------------
(***************************************************************************)
(* Proofs about Kernel.tla for every set of proposals and policies and     *)
(* every bound.  First one lemma per kernel method: what it changes, what  *)
(* it leaves alone and that the result is a kernel.  The theorems only     *)
(* use those lemmas.                                                       *)
(***************************************************************************)
EXTENDS Kernel, TLAPS

(* Target and Sources are records over the events.                         *)
LEMMA TargetType == \A e \in LifecycleEvent : Target[e] \in LifecycleState
  BY DEF LifecycleEvent, LifecycleState, Target

(* Lifecycle::apply returns a lifecycle in the target state.               *)
LEMMA ApplyType ==
  ASSUME NEW l \in Lifecycle, NEW e \in LifecycleEvent
  PROVE  Apply(l, e) \in Lifecycle /\ Apply(l, e).state = Target[e]
  BY TargetType DEF Apply, Lifecycle

(* One more entry in the journal is one more journaled candidate.          *)
LEMMA JournalAppend ==
  ASSUME NEW s \in Seq(Proposals), NEW p \in Proposals
  PROVE  LET t == Append(s, p)
         IN  /\ t \in Seq(Proposals)
             /\ {t[i] : i \in DOMAIN t} = {s[i] : i \in DOMAIN s} \cup {p}
  <1>1. Append(s, p) \in Seq(Proposals)
    OBVIOUS
  <1>2. /\ DOMAIN s = 1 .. Len(s)
        /\ DOMAIN Append(s, p) = 1 .. Len(s) + 1
        /\ Len(s) \in Nat
        /\ \A i \in 1 .. Len(s) : Append(s, p)[i] = s[i]
        /\ Append(s, p)[Len(s) + 1] = p
    OBVIOUS
  <1>3. \A i \in 1 .. Len(s) + 1 : i \in 1 .. Len(s) \/ i = Len(s) + 1
    BY <1>2
  <1>4. \A i \in 1 .. Len(s) : i \in 1 .. Len(s) + 1
    BY <1>2
  <1>5. Len(s) + 1 \in 1 .. Len(s) + 1
    BY <1>2
  <1> QED
    BY <1>1, <1>2, <1>3, <1>4, <1>5, Zenon

(* apply_lifecycle_event moves one lifecycle and nothing else.             *)
LEMMA WithEventProperties ==
  ASSUME NEW k, IsKernel(k), NEW p \in DOMAIN k.lifecycles,
         NEW e \in LifecycleEvent
  PROVE  LET m == WithEvent(k, p, e)
         IN  /\ IsKernel(m)
             /\ m.policy = k.policy
             /\ m.journal = k.journal
             /\ m.issuances = k.issuances
             /\ m.tracker = k.tracker
             /\ m.frozen = k.frozen
             /\ m.killed = k.killed
             /\ DOMAIN m.lifecycles = DOMAIN k.lifecycles
             /\ m.lifecycles[p].state = Target[e]
             /\ \A q \in DOMAIN k.lifecycles :
                   q # p => m.lifecycles[q] = k.lifecycles[q]
  <1>1. k.lifecycles[p] \in Lifecycle
    BY DEF IsKernel, IsMap
  <1>2. /\ Apply(k.lifecycles[p], e) \in Lifecycle
        /\ Apply(k.lifecycles[p], e).state = Target[e]
    BY <1>1, ApplyType
  <1> DEFINE f == [k.lifecycles EXCEPT ![p] = Apply(k.lifecycles[p], e)]
  <1>3. /\ IsMap(f, Proposals, Lifecycle)
        /\ DOMAIN f = DOMAIN k.lifecycles
        /\ f[p] = Apply(k.lifecycles[p], e)
        /\ \A q \in DOMAIN k.lifecycles : q # p => f[q] = k.lifecycles[q]
    BY <1>2 DEF IsKernel, IsMap
  <1> HIDE DEF f
  <1>4. WithEvent(k, p, e) = [k EXCEPT !.lifecycles = f]
    BY DEF WithEvent, f
  <1> QED
    BY <1>2, <1>3, <1>4 DEF IsKernel

(* The expiry admit gives a capability is a time, and is bounded by the    *)
(* proposal's own expiry and by every claim that qualified.                *)
LEMMA ExpiryProperties ==
  ASSUME NEW k, IsKernel(k), NEW p \in Proposals, NEW t \in Nat,
         NEW e \in CapabilityExpiry(k, p, t)
  PROVE  /\ e \in Nat
         /\ e <= ExpiresAt[p]
         /\ \A u \in Qualifying(p, t) : e <= u
  <1>1. Bounds(k, p, t) \subseteq Nat
    BY KernelConstants DEF IsKernel, Qualifying, Bounds
  <1>2. ExpiresAt[p] \in Bounds(k, p, t) /\ Qualifying(p, t) \subseteq Bounds(k, p, t)
    BY DEF Bounds
  <1> QED
    BY <1>1, <1>2 DEF CapabilityExpiry

(* Kernel::admit returns a well-formed decision.                           *)
LEMMA DecisionType ==
  ASSUME NEW k, IsKernel(k), NEW p \in Proposals, NEW t \in Nat
  PROVE  DecisionOn(k, p, t) \in Decision
  <1>1. Verdict(k, p, t) \in DecisionKind
    BY DEF Verdict, DecisionKind
  <1>2. k.policy \in Policies
    BY DEF IsKernel
  <1>3. \A e \in CapabilityExpiry(k, p, t) :
          [issued_at |-> t, expires_at |-> e] \in Capability
    BY ExpiryProperties DEF Capability
  <1> QED
    BY <1>1, <1>2, <1>3 DEF DecisionOn, Decision

(* Kernel::record journals the candidate, gives it a lifecycle and, for an *)
(* accepted decision, an issuance.                                         *)
LEMMA RecordedProperties ==
  ASSUME NEW k, IsKernel(k), NEW p \in Proposals, NEW d \in Decision
  PROVE  LET m == Recorded(k, p, d)
         IN  /\ IsKernel(m)
             /\ m.policy = k.policy
             /\ m.tracker = k.tracker
             /\ m.frozen = k.frozen
             /\ m.killed = k.killed
             /\ Journaled(m) = Journaled(k) \cup {p}
             /\ DOMAIN m.lifecycles = DOMAIN k.lifecycles \cup {p}
             /\ \A q \in DOMAIN k.lifecycles :
                   q # p => m.lifecycles[q] = k.lifecycles[q]
             /\ DOMAIN m.issuances \subseteq DOMAIN k.issuances \cup {p}
             /\ \A q \in DOMAIN m.issuances :
                   \/ q \in DOMAIN k.issuances /\ m.issuances[q] = k.issuances[q]
                   \/ q = p /\ m.issuances[q].decision = d
  <1> DEFINE l == Apply(NewLifecycle, VerdictEvent[d.kind])
             f == Insert(k.lifecycles, p, l)
             i == [decision |-> d, consumed |-> FALSE]
             g == IF d.capability = {} THEN k.issuances
                  ELSE Insert(k.issuances, p, i)
             j == Append(k.journal, p)
  <1>1. VerdictEvent[d.kind] \in LifecycleEvent
    BY DEF Decision, DecisionKind, VerdictEvent, LifecycleEvent
  <1>2. NewLifecycle \in Lifecycle
    BY DEF NewLifecycle, Lifecycle, LifecycleState
  <1>3. l \in Lifecycle
    BY <1>1, <1>2, ApplyType
  <1>4. i \in Issuance
    BY DEF Issuance
  <1>5. /\ IsMap(k.lifecycles, Proposals, Lifecycle)
        /\ IsMap(k.issuances, Proposals, Issuance)
        /\ k.journal \in Seq(Proposals)
    BY DEF IsKernel
  <1> HIDE DEF l, i
  <1>6. /\ IsMap(f, Proposals, Lifecycle)
        /\ DOMAIN f = DOMAIN k.lifecycles \cup {p}
        /\ \A q \in DOMAIN k.lifecycles : q # p => f[q] = k.lifecycles[q]
    BY <1>3, <1>5 DEF IsMap, Insert
  <1>7. /\ IsMap(g, Proposals, Issuance)
        /\ DOMAIN g \subseteq DOMAIN k.issuances \cup {p}
        /\ \A q \in DOMAIN g :
              \/ q \in DOMAIN k.issuances /\ g[q] = k.issuances[q]
              \/ q = p /\ g[q].decision = d
    <2>1. CASE d.capability = {}
      BY <2>1, <1>5
    <2>2. CASE d.capability # {}
      <3>1. g = Insert(k.issuances, p, i)
        BY <2>2
      <3> QED
        BY <3>1, <1>4, <1>5 DEF IsMap, Insert, i
    <2> QED
      BY <2>1, <2>2
  <1>8. /\ j \in Seq(Proposals)
        /\ {j[n] : n \in DOMAIN j}
             = {k.journal[n] : n \in DOMAIN k.journal} \cup {p}
    BY <1>5, JournalAppend
  <1>9. Recorded(k, p, d)
          = [k EXCEPT !.journal = j, !.lifecycles = f, !.issuances = g]
    BY DEF Recorded, l, i
  <1> HIDE DEF f, g, j
  <1>10. LET m == Recorded(k, p, d)
         IN  /\ IsKernel(m)
             /\ m.policy = k.policy /\ m.tracker = k.tracker
             /\ m.frozen = k.frozen /\ m.killed = k.killed
             /\ m.journal = j /\ m.lifecycles = f /\ m.issuances = g
    BY <1>6, <1>7, <1>8, <1>9 DEF IsKernel
  <1>11. Journaled(Recorded(k, p, d)) = Journaled(k) \cup {p}
    BY <1>8, <1>10 DEF Journaled
  <1> QED
    BY <1>6, <1>7, <1>10, <1>11

(* Kernel::consume marks the issuance and begins execution.                *)
LEMMA AfterConsumeProperties ==
  ASSUME NEW k, IsKernel(k), NEW p \in DOMAIN k.lifecycles,
         p \in DOMAIN k.issuances
  PROVE  LET m == AfterConsume(k, p)
         IN  /\ IsKernel(m)
             /\ m.policy = k.policy
             /\ m.journal = k.journal
             /\ m.tracker = k.tracker
             /\ m.frozen = k.frozen
             /\ m.killed = k.killed
             /\ DOMAIN m.issuances = DOMAIN k.issuances
             /\ \A q \in DOMAIN k.issuances :
                   m.issuances[q].decision = k.issuances[q].decision
             /\ DOMAIN m.lifecycles = DOMAIN k.lifecycles
             /\ m.lifecycles[p].state = "Executing"
             /\ \A q \in DOMAIN k.lifecycles :
                   q # p => m.lifecycles[q] = k.lifecycles[q]
  <1> DEFINE w == WithEvent(k, p, "BeginExecution")
             g == [w.issuances EXCEPT ![p].consumed = TRUE]
  <1>1. "BeginExecution" \in LifecycleEvent /\ Target["BeginExecution"] = "Executing"
    BY DEF LifecycleEvent, Target
  <1>2. /\ IsKernel(w)
        /\ w.policy = k.policy /\ w.journal = k.journal
        /\ w.issuances = k.issuances /\ w.tracker = k.tracker
        /\ w.frozen = k.frozen /\ w.killed = k.killed
        /\ DOMAIN w.lifecycles = DOMAIN k.lifecycles
        /\ w.lifecycles[p].state = "Executing"
        /\ \A q \in DOMAIN k.lifecycles :
              q # p => w.lifecycles[q] = k.lifecycles[q]
    BY <1>1, WithEventProperties
  <1> HIDE DEF w
  <1>3. /\ IsMap(g, Proposals, Issuance)
        /\ DOMAIN g = DOMAIN k.issuances
        /\ \A q \in DOMAIN k.issuances : g[q].decision = k.issuances[q].decision
    BY <1>2 DEF IsKernel, IsMap, Issuance
  <1>4. AfterConsume(k, p) = [w EXCEPT !.issuances = g]
    BY DEF AfterConsume, w
  <1> HIDE DEF g
  <1> QED
    BY <1>2, <1>3, <1>4 DEF IsKernel

(* What every method but record does to the journal, to the set of         *)
(* issuances and to a lifecycle that is past Admitted: nothing.            *)
Keeps(k, m) ==
    /\ IsKernel(m)
    /\ m.journal = k.journal
    /\ DOMAIN m.issuances = DOMAIN k.issuances
    /\ DOMAIN m.lifecycles = DOMAIN k.lifecycles
    /\ \A p \in DOMAIN k.lifecycles :
          StateOf(k, p) \in Spent => StateOf(m, p) \in Spent

(* No lifecycle method leads from a spent state to a state that is not.    *)
LEMMA SpentStaysSpent ==
  ASSUME NEW s \in Spent, NEW e \in LifecycleEvent, s \in Sources[e], e # "Admit"
  PROVE  Target[e] \in Spent
  BY DEF Spent, LifecycleEvent, Sources, Target, LifecycleState, Shutdown

(* complete, rollback, quarantine, freeze and kill of one proposal.        *)
LEMMA WithEventKeeps ==
  ASSUME NEW k, IsKernel(k), NEW p, NEW e \in LifecycleEvent, e # "Admit",
         CanApply(k, p, e)
  PROVE  Keeps(k, WithEvent(k, p, e))
  <1>1. p \in DOMAIN k.lifecycles /\ StateOf(k, p) \in Sources[e]
    BY DEF CanApply, Accepts, StateOf
  <1> DEFINE m == WithEvent(k, p, e)
  <1>2. /\ IsKernel(m)
        /\ m.journal = k.journal
        /\ m.issuances = k.issuances
        /\ DOMAIN m.lifecycles = DOMAIN k.lifecycles
        /\ m.lifecycles[p].state = Target[e]
        /\ \A q \in DOMAIN k.lifecycles :
              q # p => m.lifecycles[q] = k.lifecycles[q]
    BY <1>1, WithEventProperties
  <1>3. StateOf(k, p) \in Spent => Target[e] \in Spent
    BY <1>1, SpentStaysSpent
  <1> HIDE DEF m
  <1> QED
    BY <1>2, <1>3 DEF Keeps, StateOf, m

(* freeze_all and kill_all.                                                *)
LEMMA FreezeAllKeeps ==
  ASSUME NEW k, IsKernel(k)
  PROVE  Keeps(k, FreezeAll(k))
  <1> DEFINE f == [p \in DOMAIN k.lifecycles |->
                     IF k.lifecycles[p].state \in Shutdown THEN k.lifecycles[p]
                     ELSE Apply(k.lifecycles[p], "Freeze")]
  <1>1. /\ "Freeze" \in LifecycleEvent
        /\ Target["Freeze"] \in Spent
    BY DEF LifecycleEvent, Target, Spent
  <1>2. \A p \in DOMAIN k.lifecycles :
          /\ k.lifecycles[p] \in Lifecycle
          /\ Apply(k.lifecycles[p], "Freeze") \in Lifecycle
          /\ Apply(k.lifecycles[p], "Freeze").state \in Spent
    BY <1>1, ApplyType DEF IsKernel, IsMap
  <1>3. /\ IsMap(f, Proposals, Lifecycle)
        /\ DOMAIN f = DOMAIN k.lifecycles
        /\ \A p \in DOMAIN k.lifecycles :
              k.lifecycles[p].state \in Spent => f[p].state \in Spent
    BY <1>2 DEF IsKernel, IsMap
  <1>4. FreezeAll(k) = [k EXCEPT !.lifecycles = f, !.frozen = TRUE]
    BY DEF FreezeAll
  <1> HIDE DEF f
  <1> QED
    BY <1>3, <1>4 DEF IsKernel, Keeps, StateOf

LEMMA KillAllKeeps ==
  ASSUME NEW k, IsKernel(k)
  PROVE  Keeps(k, KillAll(k))
  <1> DEFINE f == [p \in DOMAIN k.lifecycles |->
                     IF k.lifecycles[p].state = "Killed" THEN k.lifecycles[p]
                     ELSE Apply(k.lifecycles[p], "Kill")]
  <1>1. /\ "Kill" \in LifecycleEvent
        /\ Target["Kill"] \in Spent
    BY DEF LifecycleEvent, Target, Spent
  <1>2. \A p \in DOMAIN k.lifecycles :
          /\ k.lifecycles[p] \in Lifecycle
          /\ Apply(k.lifecycles[p], "Kill") \in Lifecycle
          /\ Apply(k.lifecycles[p], "Kill").state \in Spent
    BY <1>1, ApplyType DEF IsKernel, IsMap
  <1>3. /\ IsMap(f, Proposals, Lifecycle)
        /\ DOMAIN f = DOMAIN k.lifecycles
        /\ \A p \in DOMAIN k.lifecycles :
              k.lifecycles[p].state \in Spent => f[p].state \in Spent
    BY <1>2 DEF IsKernel, IsMap
  <1>4. KillAll(k)
          = [k EXCEPT !.lifecycles = f, !.frozen = TRUE, !.killed = TRUE]
    BY DEF KillAll
  <1> HIDE DEF f
  <1> QED
    BY <1>3, <1>4 DEF IsKernel, Keeps, StateOf

(* Failure accounting touches the tracker, and may freeze the kernel.      *)
LEMMA TrackerKeeps ==
  ASSUME NEW k, IsKernel(k), NEW T, T \subseteq FailureTracker
  PROVE  Keeps(k, [k EXCEPT !.tracker = T])
  BY DEF IsKernel, Keeps, StateOf

LEMMA KeepsTransitive ==
  ASSUME NEW k, NEW l, NEW m, Keeps(k, l), Keeps(l, m)
  PROVE  Keeps(k, m)
  BY DEF Keeps

(* record_failure returns a tracker.                                       *)
LEMMA RecordFailureType ==
  ASSUME NEW t \in FailureTracker, NEW kind \in FailureKind
  PROVE  RecordFailure(t, kind) \in FailureTracker
  <1> DEFINE c == [t.count EXCEPT ![kind] = t.count[kind] + 1]
             r == IF t.recent = t.budget.window_size THEN t.recent
                  ELSE t.recent + 1
  <1>1. /\ t.count \in [FailureKind -> Nat]
        /\ t.consecutive + 1 \in Nat
        /\ t.recent \in Nat
    BY DEF FailureTracker
  <1>2. c \in [FailureKind -> Nat]
    BY <1>1
  <1>3. r \in Nat
    BY <1>1
  <1>4. RecordFailure(t, kind)
          = [t EXCEPT !.count = c, !.consecutive = t.consecutive + 1,
                      !.recent = r]
    BY DEF RecordFailure
  <1> HIDE DEF c, r
  <1> QED
    BY <1>1, <1>2, <1>3, <1>4 DEF FailureTracker

LEMMA ObserveFailureKeeps ==
  ASSUME NEW k, IsKernel(k), NEW kind \in FailureKind
  PROVE  Keeps(k, ObserveFailure(k, kind))
  <1>1. \A t \in FailureTracker : RecordFailure(t, kind) \in FailureTracker
    BY RecordFailureType
  <1>2. k.tracker \subseteq FailureTracker
    BY DEF IsKernel
  <1>3. {RecordFailure(t, kind) : t \in k.tracker} \subseteq FailureTracker
    BY <1>1, <1>2
  <1>4. Keeps(k, Counted(k, kind))
    BY <1>3, TrackerKeeps DEF Counted
  <1>5. IsKernel(Counted(k, kind))
    BY <1>4 DEF Keeps
  <1>6. Keeps(Counted(k, kind), FreezeAll(Counted(k, kind)))
    BY <1>5, FreezeAllKeeps
  <1>7. Keeps(k, FreezeAll(Counted(k, kind)))
    BY <1>4, <1>6, KeepsTransitive
  <1> QED
    BY <1>4, <1>7 DEF ObserveFailure

LEMMA ObserveSuccessKeeps ==
  ASSUME NEW k, IsKernel(k)
  PROVE  Keeps(k, ObserveSuccess(k))
  <1>1. \A t \in FailureTracker : RecordSuccess(t) \in FailureTracker
    BY DEF RecordSuccess, FailureTracker
  <1>2. {RecordSuccess(t) : t \in k.tracker} \subseteq FailureTracker
    BY <1>1 DEF IsKernel
  <1>3. Keeps(k, [k EXCEPT !.tracker = {RecordSuccess(t) : t \in k.tracker}])
    BY <1>2, TrackerKeeps
  <1>4. Keeps(k, k)
    BY DEF Keeps
  <1> QED
    BY <1>3, <1>4 DEF ObserveSuccess

-----------------------------------------------------------------------------

(* A snapshot is a kernel without issuances.                               *)
LEMMA SnapshotProperties ==
  ASSUME NEW k, IsKernel(k)
  PROVE  /\ IsKernel(Snapshot(k))
         /\ Snapshot(k).journal = k.journal
         /\ Snapshot(k).lifecycles = k.lifecycles
         /\ DOMAIN Snapshot(k).issuances = {}
  <1>1. DOMAIN EmptyMap = {} /\ IsMap(EmptyMap, Proposals, Issuance)
    BY DEF EmptyMap, IsMap
  <1> QED
    BY <1>1 DEF Snapshot, IsKernel

(* A new kernel is a kernel with nothing in it.                            *)
LEMMA NewKernelProperties ==
  ASSUME NEW q \in Policies
  PROVE  /\ IsKernel(NewKernel(q))
         /\ Journaled(NewKernel(q)) = {}
         /\ DOMAIN NewKernel(q).lifecycles = {}
         /\ DOMAIN NewKernel(q).issuances = {}
  <1>1. DOMAIN EmptyMap = {} /\ IsMap(EmptyMap, Proposals, Issuance)
                            /\ IsMap(EmptyMap, Proposals, Lifecycle)
    BY DEF EmptyMap, IsMap
  <1>2. <<>> \in Seq(Proposals) /\ DOMAIN <<>> = {}
    OBVIOUS
  <1> QED
    BY <1>1, <1>2 DEF NewKernel, IsKernel, Journaled

(* The calls that neither admit, reserve, save nor restart.                *)
Settles ==
    /\ Keeps(kernel, kernel')
    /\ UNCHANGED <<disk, epoch, inherited, reserved>>

(* Every step of the specification is one of five kinds.                   *)
LEMMA StepKinds ==
  ASSUME TypeOK, Next
  PROVE  \/ \E p \in Proposals : Admit(p)
         \/ \E p \in Proposals, d \in decisions : Consume(p, d)
         \/ save_snapshot
         \/ load_snapshot
         \/ Settles /\ decisions' = decisions /\ now' \in Nat
  <1>1. IsKernel(kernel) /\ now \in Nat
    BY DEF TypeOK
  <1>2. ASSUME NEW p \in Proposals, NEW d \in decisions, ConsumeStale(p, d)
        PROVE  Settles
    <2>1. "Quarantine" \in LifecycleEvent /\ "Quarantine" # "Admit"
      BY DEF LifecycleEvent
    <2>2. CanApply(kernel, p, "Quarantine")
      BY <1>2 DEF ConsumeStale, FindsStalePolicy, Reaches, CanApply, Accepts,
                  StateOf, Sources
    <2>3. Keeps(kernel, WithEvent(kernel, p, "Quarantine"))
      BY <1>1, <2>1, <2>2, WithEventKeeps
    <2> QED
      BY <1>2, <2>3 DEF ConsumeStale, Settles
  <1>3. ASSUME NEW p \in Proposals, NEW e \in LifecycleEvent,
               ApplyLifecycleEvent(p, e)
        PROVE  Settles
    <2>1. e # "Admit" /\ CanApply(kernel, p, e)
      BY <1>3 DEF ApplyLifecycleEvent
    <2>2. Keeps(kernel, WithEvent(kernel, p, e))
      BY <1>1, <2>1, WithEventKeeps
    <2> QED
      BY <1>3, <2>2 DEF ApplyLifecycleEvent, Settles
  <1>4. freeze_all => Settles
    BY <1>1, FreezeAllKeeps DEF freeze_all, Settles
  <1>5. kill_all => Settles
    BY <1>1, KillAllKeeps DEF kill_all, Settles
  <1>6. ASSUME NEW b \in Budgets, configure_failure_budget(b)
        PROVE  Settles
    <2>1. {NewTracker(b)} \subseteq FailureTracker
      BY KernelBounds DEF NewTracker, FailureTracker
    <2>2. Keeps(kernel, [kernel EXCEPT !.tracker = {NewTracker(b)}])
      BY <1>1, <2>1, TrackerKeeps
    <2> QED
      BY <1>6, <2>2 DEF configure_failure_budget, Settles
  <1>7. ASSUME NEW kind \in FailureKind, observe_failure(kind)
        PROVE  Settles
    BY <1>1, <1>7, ObserveFailureKeeps DEF observe_failure, Settles
  <1>8. observe_success => Settles
    BY <1>1, ObserveSuccessKeeps DEF observe_success, Settles
  <1>9. ASSUME NEW q \in Policies, ReplacePolicy(q)
        PROVE  Settles
    <2>1. Keeps(kernel, [kernel EXCEPT !.policy = q])
      BY <1>1 DEF IsKernel, Keeps, StateOf
    <2> QED
      BY <1>9, <2>1 DEF ReplacePolicy, Settles
  <1>10. Tick => Settles /\ now' \in Nat
    BY <1>1 DEF Tick, Settles, Keeps
  <1>11. \/ \E p \in Proposals, d \in decisions : ConsumeStale(p, d)
         \/ \E p \in Proposals, e \in LifecycleEvent : ApplyLifecycleEvent(p, e)
         \/ freeze_all \/ kill_all \/ observe_success
         \/ \E b \in Budgets : configure_failure_budget(b)
         \/ \E kind \in FailureKind : observe_failure(kind)
         \/ \E q \in Policies : ReplacePolicy(q)
         => decisions' = decisions /\ now' = now
    BY DEF ConsumeStale, ApplyLifecycleEvent, freeze_all, kill_all,
           observe_success, configure_failure_budget, observe_failure,
           ReplacePolicy
  <1>12. Tick => decisions' = decisions
    BY DEF Tick
  <1> QED
    BY <1>1, <1>2, <1>3, <1>4, <1>5, <1>6, <1>7, <1>8, <1>9, <1>10, <1>11,
       <1>12 DEF Next

(* Type correctness: whatever the callers do, the kernel in memory, the    *)
(* snapshot, the decisions and the history keep their types.               *)
THEOREM TypeCorrect == Spec => []TypeOK
  <1>1. Init => TypeOK
    <2> SUFFICES ASSUME Init PROVE TypeOK
      OBVIOUS
    <2>1. IsKernel(kernel)
      BY NewKernelProperties DEF Init
    <2>2. 0 \in Epochs /\ reserved \in [Epochs -> Seq(Proposals)]
      BY KernelBounds DEF Epochs, Init
    <2> QED
      BY <2>1, <2>2 DEF Init, TypeOK
  <1>2. TypeOK /\ [Next]_vars => TypeOK'
    <2> SUFFICES ASSUME TypeOK, [Next]_vars PROVE TypeOK'
      OBVIOUS
    <2> USE DEF TypeOK
    <2>1. ASSUME NEW p \in Proposals, Admit(p)
          PROVE  TypeOK'
      <3>1. DecisionOn(kernel, p, now) \in Decision
        BY DecisionType
      <3>2. IsKernel(kernel')
        BY <2>1, <3>1, RecordedProperties DEF Admit, AfterAdmit
      <3> QED
        BY <2>1, <3>1, <3>2 DEF Admit
    <2>2. ASSUME NEW p \in Proposals, NEW d \in decisions, Consume(p, d)
          PROVE  TypeOK'
      <3>1. p \in DOMAIN kernel.lifecycles /\ p \in DOMAIN kernel.issuances
        BY <2>2 DEF Consume, CanConsume, Reaches
      <3>2. IsKernel(kernel')
        BY <2>2, <3>1, AfterConsumeProperties DEF Consume
      <3>3. Append(reserved[epoch], p) \in Seq(Proposals)
        OBVIOUS
      <3> QED
        BY <2>2, <3>2, <3>3 DEF Consume
    <2>3. CASE save_snapshot
      BY <2>3, SnapshotProperties DEF save_snapshot
    <2>4. CASE load_snapshot
      <3>1. PICK s \in disk : kernel' = s /\ inherited' = Journaled(s)
        BY <2>4 DEF load_snapshot
      <3>2. IsKernel(s)
        OBVIOUS
      <3>3. Journaled(s) \subseteq Proposals
        BY <3>2 DEF IsKernel, Journaled
      <3>4. epoch + 1 \in Epochs
        BY <2>4, KernelBounds DEF load_snapshot, Epochs
      <3> QED
        BY <2>4, <3>1, <3>2, <3>3, <3>4 DEF load_snapshot
    <2>5. CASE Settles /\ decisions' = decisions /\ now' \in Nat
      BY <2>5 DEF Settles, Keeps
    <2>6. CASE UNCHANGED vars
      BY <2>6 DEF vars
    <2> QED
      BY <2>1, <2>2, <2>3, <2>4, <2>5, <2>6, StepKinds
  <1> QED
    BY <1>1, <1>2, PTL DEF Spec

(* A kernel that keeps the journal, the issuances and the spent states of  *)
(* a coherent kernel is coherent.                                          *)
LEMMA KeepsCoherent ==
  ASSUME NEW k, NEW m, Coherent(k), Keeps(k, m)
  PROVE  Coherent(m) /\ Journaled(m) = Journaled(k)
  BY DEF Coherent, Keeps, Journaled

(* The inductive step: each kind of step preserves the strengthened        *)
(* invariant.                                                              *)
LEMMA ReservationStep ==
  ASSUME TypeOK, ReservationInv, [Next]_vars
  PROVE  ReservationInv'
  <1>0. /\ IsKernel(kernel)
        /\ reserved \in [Epochs -> Seq(Proposals)]
        /\ epoch \in Epochs
        /\ Epochs \subseteq Nat
        /\ Coherent(kernel)
    BY DEF TypeOK, ReservationInv, Epochs
  <1>1. ASSUME NEW p \in Proposals, Admit(p)
        PROVE  ReservationInv'
    <2> DEFINE d == DecisionOn(kernel, p, now)
    <2>1. d \in Decision
      BY DecisionType DEF TypeOK
    <2>2. kernel' = Recorded(kernel, p, d)
      BY <1>1 DEF Admit, AfterAdmit
    <2> HIDE DEF d
    <2>3. /\ Journaled(kernel') = Journaled(kernel) \cup {p}
          /\ DOMAIN kernel'.lifecycles = DOMAIN kernel.lifecycles \cup {p}
          /\ \A q \in DOMAIN kernel.lifecycles :
                q # p => kernel'.lifecycles[q] = kernel.lifecycles[q]
          /\ DOMAIN kernel'.issuances \subseteq DOMAIN kernel.issuances \cup {p}
      BY <1>0, <2>1, <2>2, RecordedProperties
    <2>4. /\ p \notin Journaled(kernel)
          /\ \A q \in Journaled(kernel) : ReplayKey[q] # ReplayKey[p]
      BY <1>1 DEF Admit, CanAdmit, Fresh
    <2>5. UNCHANGED <<disk, epoch, inherited, reserved>>
      BY <1>1 DEF Admit
    <2>6. Coherent(kernel')
      BY <1>0, <2>3, <2>4 DEF Coherent
    <2>7. \A i \in DOMAIN reserved[epoch] :
            /\ reserved[epoch][i] \in Journaled(kernel)
            /\ reserved[epoch][i] # p
            /\ StateOf(kernel', reserved[epoch][i])
                 = StateOf(kernel, reserved[epoch][i])
      BY <1>0, <2>3, <2>4 DEF ReservationInv, Coherent, StateOf
    <2> QED
      BY <2>3, <2>4, <2>5, <2>6, <2>7 DEF ReservationInv, SingleUse
  <1>2. ASSUME NEW p \in Proposals, NEW d \in decisions, Consume(p, d)
        PROVE  ReservationInv'
    <2>1. /\ p \in DOMAIN kernel.lifecycles
          /\ p \in DOMAIN kernel.issuances
          /\ StateOf(kernel, p) = "Admitted"
      BY <1>2 DEF Consume, CanConsume, Reaches
    <2>2. /\ kernel' = AfterConsume(kernel, p)
          /\ reserved' = [reserved EXCEPT ![epoch] = Append(reserved[epoch], p)]
          /\ UNCHANGED <<disk, epoch, inherited>>
      BY <1>2 DEF Consume
    <2>3. /\ kernel'.journal = kernel.journal
          /\ DOMAIN kernel'.issuances = DOMAIN kernel.issuances
          /\ DOMAIN kernel'.lifecycles = DOMAIN kernel.lifecycles
          /\ kernel'.lifecycles[p].state = "Executing"
          /\ \A q \in DOMAIN kernel.lifecycles :
                q # p => kernel'.lifecycles[q] = kernel.lifecycles[q]
      BY <1>0, <2>1, <2>2, AfterConsumeProperties
    <2>4. Coherent(kernel') /\ Journaled(kernel') = Journaled(kernel)
      BY <1>0, <2>3 DEF Coherent, Journaled
    <2>5. p \in Journaled(kernel) \ inherited
      BY <1>0, <2>1 DEF ReservationInv, Coherent
    <2> DEFINE r == reserved[epoch]
    <2>6. /\ r \in Seq(Proposals)
          /\ reserved'[epoch] = Append(r, p)
          /\ \A e \in Epochs : e # epoch => reserved'[e] = reserved[e]
      BY <1>0, <2>2
    <2>7. \A i \in DOMAIN r :
            /\ r[i] \in Journaled(kernel) \ inherited
            /\ StateOf(kernel, r[i]) \in Spent
            /\ r[i] # p
      BY <2>1 DEF ReservationInv, Spent
    <2> HIDE DEF r
    <2>8. \A i \in DOMAIN r :
            StateOf(kernel', r[i]) \in Spent /\ ReplayKey[r[i]] # ReplayKey[p]
      BY <1>0, <2>3, <2>5, <2>7 DEF StateOf, Coherent
    <2>9. \A i \in DOMAIN Append(r, p) :
            \/ i \in DOMAIN r /\ Append(r, p)[i] = r[i]
            \/ i = Len(r) + 1 /\ Append(r, p)[i] = p
      BY <2>6
    <2>10. \A i \in DOMAIN Append(r, p) :
             /\ Append(r, p)[i] \in Journaled(kernel') \ inherited
             /\ StateOf(kernel', Append(r, p)[i]) \in Spent
      BY <2>3, <2>4, <2>5, <2>7, <2>8, <2>9 DEF StateOf, Spent
    <2>11. \A i, j \in DOMAIN r : ReplayKey[r[i]] = ReplayKey[r[j]] => i = j
      BY <1>0 DEF ReservationInv, SingleUse, r
    <2>12. \A i, j \in DOMAIN Append(r, p) :
             ReplayKey[Append(r, p)[i]] = ReplayKey[Append(r, p)[j]] => i = j
      BY <2>8, <2>9, <2>11
    <2>13. SingleUse'
      BY <2>6, <2>12 DEF ReservationInv, SingleUse
    <2>14. \A e \in Epochs : e > epoch => reserved'[e] = <<>>
      BY <1>0, <2>6 DEF ReservationInv
    <2> QED
      BY <2>2, <2>3, <2>4, <2>6, <2>10, <2>13, <2>14 DEF ReservationInv
  <1>3. CASE save_snapshot
    <2>1. /\ disk' = {Snapshot(kernel)}
          /\ UNCHANGED <<kernel, epoch, inherited, reserved>>
      BY <1>3 DEF save_snapshot
    <2>2. Coherent(Snapshot(kernel)) /\ DOMAIN Snapshot(kernel).issuances = {}
      BY <1>0, SnapshotProperties DEF Coherent, Journaled
    <2> QED
      BY <2>1, <2>2 DEF ReservationInv, SingleUse
  <1>4. CASE load_snapshot
    <2>1. PICK s \in disk : kernel' = s /\ inherited' = Journaled(s)
      BY <1>4 DEF load_snapshot
    <2>2. epoch' = epoch + 1 /\ epoch + 1 \in Epochs /\ UNCHANGED <<disk, reserved>>
      BY <1>4, KernelBounds, <1>0 DEF load_snapshot, Epochs
    <2>3. reserved[epoch + 1] = <<>>
      BY <1>0, <2>2 DEF ReservationInv
    <2>4. Coherent(s) /\ DOMAIN s.issuances = {}
      BY DEF ReservationInv
    <2>5. \A e \in Epochs : e > epoch + 1 => reserved[e] = <<>>
      BY <1>0 DEF ReservationInv
    <2>6. DOMAIN reserved'[epoch'] = {}
      BY <2>2, <2>3
    <2> QED
      BY <2>1, <2>2, <2>4, <2>5, <2>6 DEF ReservationInv, SingleUse
  <1>5. CASE Settles
    <2>1. /\ Keeps(kernel, kernel')
          /\ UNCHANGED <<disk, epoch, inherited, reserved>>
      BY <1>5 DEF Settles
    <2>2. Coherent(kernel') /\ Journaled(kernel') = Journaled(kernel)
      BY <1>0, <2>1, KeepsCoherent
    <2>3. \A q \in Journaled(kernel) :
            StateOf(kernel, q) \in Spent => StateOf(kernel', q) \in Spent
      BY <1>0, <2>1 DEF Keeps, Coherent
    <2>4. DOMAIN kernel'.issuances = DOMAIN kernel.issuances
      BY <2>1 DEF Keeps
    <2> QED
      BY <2>1, <2>2, <2>3, <2>4 DEF ReservationInv, SingleUse
  <1>6. CASE UNCHANGED vars
    BY <1>6 DEF vars, ReservationInv, SingleUse
  <1> QED
    BY <1>1, <1>2, <1>3, <1>4, <1>5, <1>6, StepKinds

(* The strengthened invariant holds in every reachable state.              *)
THEOREM ReservationInvariant == Spec => []ReservationInv
  <1>1. Init => ReservationInv
    <2> SUFFICES ASSUME Init PROVE ReservationInv
      OBVIOUS
    <2>1. /\ Journaled(kernel) = {}
          /\ DOMAIN kernel.lifecycles = {}
          /\ DOMAIN kernel.issuances = {}
      BY NewKernelProperties DEF Init
    <2>2. \A e \in Epochs : reserved[e] = <<>> /\ DOMAIN reserved[e] = {}
      BY DEF Init
    <2>3. disk = {} /\ inherited = {} /\ epoch \in Epochs
      BY KernelBounds DEF Init, Epochs
    <2> QED
      BY <2>1, <2>2, <2>3 DEF ReservationInv, Coherent, SingleUse
  <1>2. TypeOK /\ ReservationInv /\ [Next]_vars => ReservationInv'
    BY ReservationStep
  <1> QED
    BY <1>1, <1>2, TypeCorrect, PTL DEF Spec

(* Kernel::consume never reserves an (agent, nonce) pair twice in one life *)
(* of the kernel.                                                          *)
THEOREM ConsumeIsSingleUse == Spec => []SingleUse
  <1>1. ReservationInv => SingleUse
    BY DEF ReservationInv
  <1> QED
    BY <1>1, ReservationInvariant, PTL

(* A kernel restored from a snapshot never reserves what the snapshot      *)
(* records.                                                                *)
THEOREM RestartIsSafe == Spec => []RestartRevivesNothing
  <1>1. ReservationInv => RestartRevivesNothing
    BY DEF ReservationInv, RestartRevivesNothing, Coherent
  <1> QED
    BY <1>1, ReservationInvariant, PTL

-----------------------------------------------------------------------------
(* The failure budget and shutdown.  BudgetHolds needs two facts more: the *)
(* recent window holds every failure so far, because the budget is         *)
(* exhausted before the window is full, and a tracker that is exhausted    *)
(* has frozen its kernel.                                                  *)

Accounted(t) ==
    /\ ValidBudget(t.budget)
    /\ t.recent = Failures(t)
    /\ t.recent <= t.budget.window_size
    /\ t.consecutive <= Failures(t)
    /\ CeilingsHold(t)

LivesOn(l, k) ==
    /\ l.state # "Proposal" /\ ValidLifecycle(l)
    /\ k.frozen => l.state \in Shutdown
    /\ k.killed => l.state = "Killed"

DistinctKeys(j) == \A a, b \in DOMAIN j : a # b => ReplayKey[j[a]] # ReplayKey[j[b]]

(* What holds of a kernel before its budget is looked at.                  *)
Counting(k) ==
    /\ IsKernel(k)
    /\ DistinctKeys(k.journal)
    /\ k.killed => k.frozen
    /\ DOMAIN k.lifecycles = Journaled(k)
    /\ \A p \in DOMAIN k.lifecycles : LivesOn(k.lifecycles[p], k)
    /\ \A t \in k.tracker : Accounted(t)

Heeded(k) == \A t \in k.tracker : Exhausted(t) => k.frozen

BudgetInv == \A k \in {kernel} \cup disk : Counting(k) /\ Heeded(k)

LEMMA ApplyValid ==
  ASSUME NEW l \in Lifecycle, ValidLifecycle(l), NEW e \in LifecycleEvent, Accepts(l, e)
  PROVE  ValidLifecycle(Apply(l, e)) /\ Apply(l, e).state = Target[e] /\ Target[e] # "Proposal"
  <1> DEFINE n == Len(l.events)
             m == Apply(l, e)
             f == m.events
  <1>1. l.events \in Seq(LifecycleEvent) /\ n \in Nat
    BY DEF Lifecycle
  <1>2. m.state = Target[e] /\ f = Append(l.events, e)
    BY DEF Apply
  <1>3. Len(f) = n + 1 /\ f[n + 1] = e /\ \A i \in 1 .. n : f[i] = l.events[i]
    BY <1>1, <1>2
  <1>4. /\ \A i \in 1 .. n : (IF i - 1 = 0 THEN "Proposal" ELSE Target[l.events[i - 1]]) \in Sources[l.events[i]]
        /\ l.state = IF n = 0 THEN "Proposal" ELSE Target[l.events[n]]
    BY DEF ValidLifecycle
  <1>5. l.state \in Sources[e]
    BY DEF Accepts
  <1>6. Target[e] # "Proposal"
    BY DEF Target, LifecycleEvent
  <1> HIDE DEF n, m, f
  <1>7. ASSUME NEW i \in 1 .. n + 1
        PROVE  (IF i - 1 = 0 THEN "Proposal" ELSE Target[f[i - 1]]) \in Sources[f[i]]
    <2>1. CASE i \in 1 .. n
      <3>1. f[i] = l.events[i] /\ (i - 1 # 0 => f[i - 1] = l.events[i - 1])
        BY <1>1, <1>3, <2>1
      <3> QED
        BY <1>4, <2>1, <3>1
    <2>2. CASE i = n + 1
      <3>1. i - 1 = n /\ f[i] = e /\ (n # 0 => f[n] = l.events[n])
        BY <1>1, <1>3, <2>2
      <3> QED
        BY <1>4, <1>5, <3>1
    <2> QED
      BY <1>1, <2>1, <2>2
  <1>8. m.state = IF n + 1 = 0 THEN "Proposal" ELSE Target[f[n + 1]]
    BY <1>1, <1>2, <1>3
  <1>9. ValidLifecycle(m)
    BY <1>3, <1>7, <1>8 DEF ValidLifecycle, f
  <1> QED
    BY <1>2, <1>6, <1>9 DEF m

(* record_failure on a tracker that is not exhausted.                      *)
LEMMA FailureAccounted ==
  ASSUME NEW t \in FailureTracker, Accounted(t), ~Exhausted(t), NEW kind \in FailureKind
  PROVE  Accounted(RecordFailure(t, kind))
  <1> DEFINE u == RecordFailure(t, kind)
             c == [t.count EXCEPT ![kind] = t.count[kind] + 1]
             b == t.budget
  <1>1. /\ t.count \in [FailureKind -> Nat] /\ t.consecutive \in Nat /\ t.recent \in Nat
        /\ b.max \in [FailureKind -> Nat] /\ b.max_consecutive \in Nat
        /\ b.max_window \in Nat /\ b.window_size \in Nat
    BY DEF FailureTracker, FailureBudget
  <1>2. /\ u.budget = b /\ u.count = c /\ u.consecutive = t.consecutive + 1
        /\ u.recent = IF t.recent = b.window_size THEN t.recent ELSE t.recent + 1
    BY DEF RecordFailure, FailureTracker
  <1>3. /\ c[kind] = t.count[kind] + 1
        /\ \A other \in FailureKind \ {kind} : c[other] = t.count[other]
        /\ c \in [FailureKind -> Nat]
    BY <1>1
  <1>4. /\ \A some \in FailureKind : ~(t.count[some] > 0 /\ t.count[some] >= b.max[some])
        /\ ~(t.consecutive > 0 /\ t.consecutive >= b.max_consecutive)
        /\ ~(t.recent > 0 /\ t.recent >= b.max_window)
    BY DEF Exhausted, AtOrOver
  <1>5. /\ b.window_size > 0 /\ b.max_window <= b.window_size /\ t.recent <= b.window_size
        /\ t.recent = Failures(t) /\ t.consecutive <= Failures(t) /\ ValidBudget(b)
    BY DEF Accounted, ValidBudget
  <1>6. \A some \in FailureKind : t.count[some] <= IF b.max[some] = 0 THEN 1 ELSE b.max[some]
    BY DEF Accounted, CeilingsHold
  <1> HIDE DEF u, c, b
  <1>7. Failures(u) = Failures(t) + 1 /\ Failures(t) \in Nat
    <2>1. t.count["Rejection"] \in Nat /\ t.count["Quarantine"] \in Nat /\ t.count["Rollback"] \in Nat
      BY <1>1 DEF FailureKind
    <2>2. CASE kind = "Rejection"
      BY <1>2, <1>3, <2>1, <2>2 DEF Failures, FailureKind
    <2>3. CASE kind = "Quarantine"
      BY <1>2, <1>3, <2>1, <2>3 DEF Failures, FailureKind
    <2>4. CASE kind = "Rollback"
      BY <1>2, <1>3, <2>1, <2>4 DEF Failures, FailureKind
    <2> QED
      BY <2>2, <2>3, <2>4 DEF FailureKind
  <1>8. t.recent # b.window_size /\ u.recent = t.recent + 1
    BY <1>1, <1>2, <1>4, <1>5
  <1>9. \A some \in FailureKind : u.count[some] <= IF b.max[some] = 0 THEN 1 ELSE b.max[some]
    <2> TAKE some \in FailureKind
    <2>1. t.count[some] \in Nat /\ b.max[some] \in Nat
      BY <1>1
    <2>2. CASE some = kind
      BY <1>2, <1>3, <1>4, <2>1, <2>2
    <2>3. CASE some # kind
      BY <1>2, <1>3, <1>6, <2>3
    <2> QED
      BY <2>2, <2>3
  <1>10. u.consecutive <= IF b.max_consecutive = 0 THEN 1 ELSE b.max_consecutive
    BY <1>1, <1>2, <1>4
  <1>11. Failures(u) <= IF b.max_window = 0 THEN 1 ELSE b.max_window
    BY <1>1, <1>4, <1>5, <1>7
  <1>12. /\ ValidBudget(u.budget) /\ u.recent = Failures(u) /\ u.recent <= b.window_size
         /\ u.consecutive <= Failures(u)
    BY <1>1, <1>2, <1>5, <1>7, <1>8
  <1> QED
    BY <1>2, <1>9, <1>10, <1>11, <1>12 DEF Accounted, CeilingsHold, u

(* Shutdown is never left, and only kill leads on.                         *)
LEMMA ShutdownStays ==
  ASSUME NEW e \in LifecycleEvent, NEW s \in Shutdown, s \in Sources[e]
  PROVE  s # "Killed" /\ Target[e] \in Shutdown
  BY DEF Shutdown, Sources, Target, LifecycleEvent, LifecycleState

(* freeze_all freezes what is alive.                                       *)
LEMMA FreezeAllCounting ==
  ASSUME NEW k, Counting(k)
  PROVE  Counting(FreezeAll(k)) /\ Heeded(FreezeAll(k))
  <1> DEFINE m == FreezeAll(k)
             f == [p \in DOMAIN k.lifecycles |->
                     IF k.lifecycles[p].state \in Shutdown THEN k.lifecycles[p]
                     ELSE Apply(k.lifecycles[p], "Freeze")]
  <1>1. IsKernel(k) /\ IsKernel(m) /\ m.journal = k.journal
    BY FreezeAllKeeps DEF Keeps, Counting
  <1>2. m.lifecycles = f /\ m.tracker = k.tracker
    BY <1>1 DEF FreezeAll, IsKernel
  <1>3. m.frozen
    BY <1>1 DEF FreezeAll, IsKernel
  <1>4. m.killed => k.killed
    BY <1>1 DEF FreezeAll, IsKernel
  <1> HIDE DEF m
  <1>5. ASSUME NEW p \in DOMAIN k.lifecycles PROVE LivesOn(f[p], m)
    <2> DEFINE l == k.lifecycles[p]
    <2>1. l \in Lifecycle /\ LivesOn(l, k)
      BY <1>1 DEF Counting, IsKernel, IsMap
    <2>2. f[p] = IF l.state \in Shutdown THEN l ELSE Apply(l, "Freeze")
      OBVIOUS
    <2> HIDE DEF l, f
    <2>3. CASE l.state \in Shutdown
      BY <1>3, <1>4, <2>1, <2>2, <2>3 DEF LivesOn
    <2>4. CASE l.state \notin Shutdown
      <3>1. "Freeze" \in LifecycleEvent /\ Accepts(l, "Freeze") /\ Target["Freeze"] \in Shutdown
        BY <2>1, <2>4 DEF LifecycleEvent, Accepts, Sources, Lifecycle, Target, Shutdown
      <3>2. /\ ValidLifecycle(Apply(l, "Freeze")) /\ Apply(l, "Freeze").state \in Shutdown
            /\ Apply(l, "Freeze").state # "Proposal"
        BY <2>1, <3>1, ApplyValid DEF LivesOn
      <3>3. ~k.killed
        BY <2>1, <2>4 DEF LivesOn, Shutdown
      <3> QED
        BY <1>4, <2>2, <2>4, <3>2, <3>3 DEF LivesOn
    <2> QED
      BY <2>3, <2>4
  <1>6. DOMAIN f = DOMAIN k.lifecycles
    OBVIOUS
  <1> HIDE DEF f
  <1>7. Journaled(m) = Journaled(k)
    BY <1>1 DEF Journaled
  <1>8. Counting(m)
    BY <1>1, <1>2, <1>3, <1>5, <1>6, <1>7 DEF Counting
  <1> QED
    BY <1>3, <1>8 DEF Heeded, m

LEMMA KillAllCounting ==
  ASSUME NEW k, Counting(k)
  PROVE  Counting(KillAll(k)) /\ Heeded(KillAll(k))
  <1> DEFINE m == KillAll(k)
             f == [p \in DOMAIN k.lifecycles |->
                     IF k.lifecycles[p].state = "Killed" THEN k.lifecycles[p]
                     ELSE Apply(k.lifecycles[p], "Kill")]
  <1>1. IsKernel(k) /\ IsKernel(m) /\ m.journal = k.journal
    BY KillAllKeeps DEF Keeps, Counting
  <1>2. m.lifecycles = f /\ m.tracker = k.tracker
    BY <1>1 DEF KillAll, IsKernel
  <1>3. m.frozen
    BY <1>1 DEF KillAll, IsKernel
  <1> HIDE DEF m
  <1>5. ASSUME NEW p \in DOMAIN k.lifecycles PROVE LivesOn(f[p], m)
    <2> DEFINE l == k.lifecycles[p]
    <2>1. l \in Lifecycle /\ LivesOn(l, k)
      BY <1>1 DEF Counting, IsKernel, IsMap
    <2>2. f[p] = IF l.state = "Killed" THEN l ELSE Apply(l, "Kill")
      OBVIOUS
    <2> HIDE DEF l, f
    <2>3. CASE l.state = "Killed"
      BY <2>1, <2>2, <2>3 DEF LivesOn, Shutdown
    <2>4. CASE l.state # "Killed"
      <3>1. "Kill" \in LifecycleEvent /\ Accepts(l, "Kill") /\ Target["Kill"] = "Killed"
        BY <2>1, <2>4 DEF LifecycleEvent, Accepts, Sources, Lifecycle, Target
      <3>2. ValidLifecycle(Apply(l, "Kill")) /\ Apply(l, "Kill").state = "Killed"
        BY <2>1, <3>1, ApplyValid DEF LivesOn
      <3> QED
        BY <2>2, <2>4, <3>2 DEF LivesOn, Shutdown
    <2> QED
      BY <2>3, <2>4
  <1>6. DOMAIN f = DOMAIN k.lifecycles
    OBVIOUS
  <1> HIDE DEF f
  <1>7. Journaled(m) = Journaled(k)
    BY <1>1 DEF Journaled
  <1>8. Counting(m)
    BY <1>1, <1>2, <1>3, <1>5, <1>6, <1>7 DEF Counting
  <1> QED
    BY <1>3, <1>8 DEF Heeded, m

(* A lifecycle event that is accepted.  Begin of execution and admission   *)
(* are only for a kernel that is open.                                     *)
LEMMA WithEventCounting ==
  ASSUME NEW k, Counting(k), Heeded(k), NEW p, NEW e \in LifecycleEvent, CanApply(k, p, e)
  PROVE  Counting(WithEvent(k, p, e)) /\ Heeded(WithEvent(k, p, e))
  <1> DEFINE m == WithEvent(k, p, e)
             l == k.lifecycles[p]
  <1>1. p \in DOMAIN k.lifecycles /\ Accepts(l, e) /\ IsKernel(k)
    BY DEF CanApply, Counting
  <1>2. /\ IsKernel(m) /\ m.journal = k.journal /\ m.tracker = k.tracker
        /\ DOMAIN m.lifecycles = DOMAIN k.lifecycles
        /\ \A q \in DOMAIN k.lifecycles : q # p => m.lifecycles[q] = k.lifecycles[q]
    BY <1>1, WithEventProperties
  <1>3. (m.frozen => k.frozen) /\ (k.frozen => m.frozen) /\ (m.killed => k.killed)
    BY <1>1, WithEventProperties
  <1>4. m.lifecycles[p] = Apply(l, e)
    BY <1>1 DEF WithEvent, IsKernel, IsMap
  <1>5. l \in Lifecycle /\ LivesOn(l, k)
    BY <1>1 DEF Counting, IsKernel, IsMap
  <1> HIDE DEF m, l
  <1>6. LivesOn(Apply(l, e), m)
    <2>1. ValidLifecycle(Apply(l, e)) /\ Apply(l, e).state = Target[e] /\ Target[e] # "Proposal"
      BY <1>1, <1>5, ApplyValid DEF LivesOn
    <2>2. k.frozen => l.state # "Killed" /\ Target[e] \in Shutdown
      BY <1>1, <1>5, ShutdownStays DEF LivesOn, Accepts
    <2>3. k.killed => k.frozen /\ l.state = "Killed"
      BY <1>5 DEF LivesOn, Counting
    <2> QED
      BY <1>3, <2>1, <2>2, <2>3 DEF LivesOn
  <1>7. \A q \in DOMAIN m.lifecycles : LivesOn(m.lifecycles[q], m)
    <2> TAKE q \in DOMAIN m.lifecycles
    <2>1. CASE q = p
      BY <1>4, <1>6, <2>1
    <2>2. CASE q # p
      <3>1. LivesOn(k.lifecycles[q], k) /\ m.lifecycles[q] = k.lifecycles[q]
        BY <1>2, <2>2 DEF Counting
      <3> QED
        BY <1>3, <3>1 DEF LivesOn
    <2> QED
      BY <2>1, <2>2
  <1>8. Journaled(m) = Journaled(k)
    BY <1>2 DEF Journaled
  <1>9. Counting(m)
    BY <1>2, <1>3, <1>7, <1>8 DEF Counting
  <1> QED
    BY <1>2, <1>3, <1>9 DEF Heeded, m

(* Two kernels that differ in policy, issuances and tracker only.          *)
SameLives(k, m) ==
    /\ IsKernel(m) /\ m.journal = k.journal /\ m.lifecycles = k.lifecycles
    /\ m.frozen => k.frozen
    /\ k.frozen => m.frozen
    /\ m.killed => k.killed

LEMMA SameLivesCounting ==
  ASSUME NEW k, Counting(k), NEW m, SameLives(k, m), \A t \in m.tracker : Accounted(t)
  PROVE  Counting(m)
  <1>1. Journaled(m) = Journaled(k)
    BY DEF SameLives, Journaled
  <1>2. \A p \in DOMAIN k.lifecycles : LivesOn(k.lifecycles[p], m)
    BY DEF Counting, LivesOn, SameLives
  <1> QED
    BY <1>1, <1>2 DEF Counting, SameLives

LEMMA SameTracker ==
  ASSUME NEW k, Counting(k), Heeded(k), NEW m, SameLives(k, m), m.tracker = k.tracker
  PROVE  Counting(m) /\ Heeded(m)
  <1>1. \A t \in m.tracker : Accounted(t)
    BY DEF Counting
  <1>2. Counting(m)
    BY <1>1, SameLivesCounting
  <1> QED
    BY <1>2 DEF Heeded, SameLives

LEMMA TrackerSame ==
  ASSUME NEW k, IsKernel(k), NEW T, T \subseteq FailureTracker
  PROVE  SameLives(k, [k EXCEPT !.tracker = T]) /\ [k EXCEPT !.tracker = T].tracker = T
  BY DEF IsKernel, SameLives

(* consume, a new policy and the snapshot leave the accounts alone.        *)
LEMMA ConsumeCounting ==
  ASSUME NEW k, Counting(k), Heeded(k), NEW p, Reaches(k, p)
  PROVE  Counting(AfterConsume(k, p)) /\ Heeded(AfterConsume(k, p))
  <1> DEFINE w == WithEvent(k, p, "BeginExecution")
             m == AfterConsume(k, p)
  <1>1. "BeginExecution" \in LifecycleEvent /\ CanApply(k, p, "BeginExecution")
    BY DEF LifecycleEvent, CanApply, Accepts, Sources, Reaches, StateOf
  <1>2. Counting(w) /\ Heeded(w)
    BY <1>1, WithEventCounting
  <1>3. p \in DOMAIN k.lifecycles /\ p \in DOMAIN k.issuances /\ IsKernel(k)
    BY DEF Reaches, Counting
  <1>4. IsKernel(m)
    BY <1>3, AfterConsumeProperties
  <1>5. IsKernel(w)
    BY <1>2 DEF Counting
  <1>6. SameLives(w, m) /\ m.tracker = w.tracker
    <2>1. m = [w EXCEPT !.issuances[p].consumed = TRUE]
      BY DEF AfterConsume
    <2> HIDE DEF w, m
    <2> QED
      BY <1>4, <1>5, <2>1 DEF IsKernel, SameLives
  <1> HIDE DEF w
  <1> QED
    BY <1>2, <1>6, SameTracker

LEMMA PolicyCounting ==
  ASSUME NEW k, Counting(k), Heeded(k), NEW q \in Policies
  PROVE  Counting([k EXCEPT !.policy = q]) /\ Heeded([k EXCEPT !.policy = q])
  <1> DEFINE m == [k EXCEPT !.policy = q]
  <1>1. SameLives(k, m) /\ m.tracker = k.tracker
    BY DEF Counting, IsKernel, SameLives
  <1> HIDE DEF m
  <1> QED
    BY <1>1, SameTracker DEF m

LEMMA SnapshotCounting ==
  ASSUME NEW k, Counting(k), Heeded(k)
  PROVE  Counting(Snapshot(k)) /\ Heeded(Snapshot(k))
  <1> DEFINE m == Snapshot(k)
  <1>1. IsKernel(k) /\ IsKernel(m)
    BY SnapshotProperties DEF Counting
  <1>2. SameLives(k, m) /\ m.tracker = k.tracker
    BY <1>1 DEF Snapshot, IsKernel, SameLives
  <1> HIDE DEF m
  <1> QED
    BY <1>2, SameTracker DEF m

(* A new tracker has counted nothing.                                      *)
LEMMA NewTrackerCounting ==
  ASSUME NEW k, Counting(k), ~Closed(k), NEW b \in FailureBudget, ValidBudget(b)
  PROVE  LET m == [k EXCEPT !.tracker = {NewTracker(b)}] IN Counting(m) /\ Heeded(m)
  <1> DEFINE t == NewTracker(b)
             m == [k EXCEPT !.tracker = {t}]
  <1>1. /\ t \in FailureTracker /\ t.budget = b /\ t.consecutive = 0 /\ t.recent = 0
        /\ \A kind \in FailureKind : t.count[kind] = 0
    BY DEF NewTracker, FailureTracker
  <1>2. /\ b.max \in [FailureKind -> Nat] /\ b.max_consecutive \in Nat
        /\ b.max_window \in Nat /\ b.window_size \in Nat
    BY DEF FailureBudget
  <1> HIDE DEF t
  <1>3. Failures(t) = 0
    BY <1>1 DEF Failures, FailureKind
  <1>4. \A kind \in FailureKind : t.count[kind] <= IF b.max[kind] = 0 THEN 1 ELSE b.max[kind]
    BY <1>1, <1>2
  <1>5. Accounted(t)
    BY <1>1, <1>2, <1>3, <1>4 DEF Accounted, CeilingsHold
  <1>6. ~Exhausted(t)
    BY <1>1 DEF Exhausted, AtOrOver
  <1>7. SameLives(k, m) /\ m.tracker = {t}
    BY <1>1, TrackerSame DEF Counting
  <1> HIDE DEF m
  <1>8. Counting(m)
    BY <1>5, <1>7, SameLivesCounting
  <1> QED
    BY <1>6, <1>7, <1>8 DEF Heeded, m, t

(* observe_failure freezes the kernel when the failure exhausts the        *)
(* budget, and only then.                                                  *)
LEMMA FailureCounting ==
  ASSUME NEW k, Counting(k), NEW kind \in FailureKind, ~FailureRefused(k)
  PROVE  Counting(ObserveFailure(k, kind)) /\ Heeded(ObserveFailure(k, kind))
  <1> DEFINE T == {RecordFailure(t, kind) : t \in k.tracker}
             m == Counted(k, kind)
  <1>1. IsKernel(k) /\ k.tracker \subseteq FailureTracker
    BY DEF Counting, IsKernel
  <1>2. \A t \in k.tracker : RecordFailure(t, kind) \in FailureTracker
    BY <1>1, RecordFailureType
  <1>3. \A t \in k.tracker : Accounted(RecordFailure(t, kind))
    BY <1>1, FailureAccounted DEF Counting, FailureRefused
  <1>4. SameLives(k, m) /\ m.tracker = T
    BY <1>1, <1>2, TrackerSame DEF Counted
  <1> HIDE DEF m
  <1>5. Counting(m)
    BY <1>3, <1>4, SameLivesCounting
  <1>6. Counting(FreezeAll(m)) /\ Heeded(FreezeAll(m))
    BY <1>5, FreezeAllCounting
  <1>7. CASE FreezeRequired(k, kind)
    BY <1>6, <1>7 DEF ObserveFailure, m
  <1>8. CASE ~FreezeRequired(k, kind)
    BY <1>5, <1>8 DEF ObserveFailure, FreezeRequired, m, Heeded
  <1> QED
    BY <1>7, <1>8

(* A success resets the run of failures and nothing else.                  *)
LEMMA SuccessCounting ==
  ASSUME NEW k, Counting(k), Heeded(k)
  PROVE  Counting(ObserveSuccess(k)) /\ Heeded(ObserveSuccess(k))
  <1> DEFINE T == {RecordSuccess(t) : t \in k.tracker}
             m == [k EXCEPT !.tracker = T]
  <1>1. IsKernel(k) /\ k.tracker \subseteq FailureTracker
    BY DEF Counting, IsKernel
  <1>2. ASSUME NEW t \in k.tracker
        PROVE  /\ RecordSuccess(t) \in FailureTracker /\ Accounted(RecordSuccess(t))
               /\ Exhausted(RecordSuccess(t)) => Exhausted(t)
    <2> DEFINE u == RecordSuccess(t)
    <2>1. t \in FailureTracker /\ Accounted(t)
      BY <1>1 DEF Counting
    <2>2. u \in FailureTracker /\ u.budget = t.budget /\ u.count = t.count
          /\ u.recent = t.recent /\ u.consecutive = 0
      BY <2>1 DEF RecordSuccess, FailureTracker
    <2> HIDE DEF u
    <2>3. /\ \A kind \in FailureKind : t.count[kind] \in Nat
          /\ t.budget.max_consecutive \in Nat
      BY <2>1 DEF FailureTracker, FailureBudget
    <2>4. Failures(u) = Failures(t) /\ 0 <= Failures(t)
      BY <2>2, <2>3 DEF Failures, FailureKind
    <2>5. Accounted(u)
      BY <2>1, <2>2, <2>3, <2>4 DEF Accounted, CeilingsHold
    <2>6. Exhausted(u) => Exhausted(t)
      BY <2>2 DEF Exhausted, AtOrOver
    <2> QED
      BY <2>2, <2>5, <2>6 DEF u
  <1>3. SameLives(k, m) /\ m.tracker = T
    BY <1>1, <1>2, TrackerSame
  <1> HIDE DEF m
  <1>4. Counting(m)
    BY <1>2, <1>3, SameLivesCounting
  <1>5. Heeded(m)
    BY <1>2, <1>3 DEF Heeded, SameLives
  <1> QED
    BY <1>4, <1>5 DEF ObserveSuccess, m

(* record journals a fresh candidate under the lifecycle of its verdict.   *)
LEMMA RecordedCounting ==
  ASSUME NEW k, Counting(k), Heeded(k), ~Closed(k),
         NEW p \in Proposals, NEW d \in Decision, Fresh(k, p)
  PROVE  Counting(Recorded(k, p, d)) /\ Heeded(Recorded(k, p, d))
  <1> DEFINE m == Recorded(k, p, d)
             l == Apply(NewLifecycle, VerdictEvent[d.kind])
             j == Append(k.journal, p)
             n == Len(k.journal)
  <1>1. IsKernel(k) /\ k.journal \in Seq(Proposals) /\ n \in Nat
    BY DEF Counting, IsKernel
  <1>2. /\ IsKernel(m) /\ m.tracker = k.tracker
        /\ Journaled(m) = Journaled(k) \cup {p}
        /\ DOMAIN m.lifecycles = DOMAIN k.lifecycles \cup {p}
        /\ \A q \in DOMAIN k.lifecycles : q # p => m.lifecycles[q] = k.lifecycles[q]
    BY <1>1, RecordedProperties
  <1>3. ~m.frozen /\ ~m.killed
    BY <1>1, RecordedProperties DEF Closed
  <1>4. m.journal = j /\ m.lifecycles[p] = l
    BY <1>1 DEF Recorded, Insert, IsKernel
  <1>5. LivesOn(l, m)
    <2>1. VerdictEvent[d.kind] \in LifecycleEvent /\ Accepts(NewLifecycle, VerdictEvent[d.kind])
      BY DEF Decision, DecisionKind, VerdictEvent, LifecycleEvent, NewLifecycle, Accepts, Sources
    <2>2. NewLifecycle \in Lifecycle /\ ValidLifecycle(NewLifecycle)
      BY DEF NewLifecycle, Lifecycle, LifecycleState, ValidLifecycle
    <2>3. ValidLifecycle(l) /\ l.state # "Proposal"
      BY <2>1, <2>2, ApplyValid
    <2> QED
      BY <1>3, <2>3 DEF LivesOn
  <1> HIDE DEF m, l
  <1>6. DistinctKeys(j)
    <2>1. /\ DOMAIN k.journal = 1 .. n /\ DOMAIN j = 1 .. n + 1
          /\ \A i \in 1 .. n : j[i] = k.journal[i]
          /\ j[n + 1] = p
      BY <1>1
    <2>2. \A i \in 1 .. n : ReplayKey[k.journal[i]] # ReplayKey[p]
      BY <2>1 DEF Fresh, Journaled
    <2>3. \A a, b \in 1 .. n : a # b => ReplayKey[k.journal[a]] # ReplayKey[k.journal[b]]
      BY <2>1 DEF Counting, DistinctKeys
    <2>4. \A a \in 1 .. n + 1 : a \in 1 .. n \/ a = n + 1
      BY <1>1
    <2> HIDE DEF j, n
    <2> QED
      BY <2>1, <2>2, <2>3, <2>4 DEF DistinctKeys
  <1>7. \A q \in DOMAIN m.lifecycles : LivesOn(m.lifecycles[q], m)
    <2> TAKE q \in DOMAIN m.lifecycles
    <2>1. CASE q = p
      BY <1>4, <1>5, <2>1
    <2>2. CASE q # p
      <3>1. LivesOn(k.lifecycles[q], k) /\ m.lifecycles[q] = k.lifecycles[q]
        BY <1>2, <2>2 DEF Counting
      <3> QED
        BY <1>3, <3>1 DEF LivesOn
    <2> QED
      BY <2>1, <2>2
  <1>8. DOMAIN m.lifecycles = Journaled(m)
    BY <1>2 DEF Counting
  <1> HIDE DEF j
  <1>9. Counting(m)
    BY <1>2, <1>3, <1>4, <1>6, <1>7, <1>8 DEF Counting
  <1>10. Heeded(m)
    BY <1>2 DEF Heeded, Closed
  <1> QED
    BY <1>9, <1>10 DEF m

LEMMA BudgetStep ==
  ASSUME TypeOK, BudgetInv, [Next]_vars
  PROVE  BudgetInv'
  <1>1. Counting(kernel) /\ Heeded(kernel)
    BY DEF BudgetInv
  <1>2. \A s \in disk : Counting(s) /\ Heeded(s)
    BY DEF BudgetInv
  <1>3. ASSUME Counting(kernel') /\ Heeded(kernel'), disk' = disk
        PROVE  BudgetInv'
    <2>1. \A k \in {kernel'} \cup disk' : Counting(k) /\ Heeded(k)
      BY <1>2, <1>3
    <2> QED
      BY <2>1 DEF BudgetInv
  <1>4. ASSUME NEW p \in Proposals, Admit(p) PROVE BudgetInv'
    <2>1. DecisionOn(kernel, p, now) \in Decision
      BY DecisionType DEF TypeOK
    <2>2. ~Closed(kernel) /\ Fresh(kernel, p)
      BY <1>4 DEF Admit, CanAdmit
    <2>3. Counting(AfterAdmit(kernel, p, now)) /\ Heeded(AfterAdmit(kernel, p, now))
      BY <1>1, <2>1, <2>2, RecordedCounting DEF AfterAdmit
    <2> QED
      BY <1>3, <1>4, <2>3 DEF Admit
  <1>5. ASSUME NEW p \in Proposals, NEW d \in decisions, Consume(p, d) PROVE BudgetInv'
    BY <1>1, <1>3, <1>5, ConsumeCounting DEF Consume, CanConsume
  <1>6. ASSUME NEW p \in Proposals, NEW d \in decisions, ConsumeStale(p, d) PROVE BudgetInv'
    <2>1. "Quarantine" \in LifecycleEvent /\ CanApply(kernel, p, "Quarantine")
      BY <1>6 DEF ConsumeStale, FindsStalePolicy, Reaches, CanApply, Accepts,
                  StateOf, Sources, LifecycleEvent
    <2> QED
      BY <1>1, <1>3, <1>6, <2>1, WithEventCounting DEF ConsumeStale
  <1>7. ASSUME NEW p \in Proposals, NEW e \in LifecycleEvent, ApplyLifecycleEvent(p, e)
        PROVE  BudgetInv'
    BY <1>1, <1>3, <1>7, WithEventCounting DEF ApplyLifecycleEvent
  <1>8. CASE freeze_all
    BY <1>1, <1>3, <1>8, FreezeAllCounting DEF freeze_all
  <1>9. CASE kill_all
    BY <1>1, <1>3, <1>9, KillAllCounting DEF kill_all
  <1>10. ASSUME NEW b \in Budgets, configure_failure_budget(b) PROVE BudgetInv'
    <2>1. b \in FailureBudget /\ ~Closed(kernel) /\ ValidBudget(b)
      BY <1>10, KernelBounds DEF configure_failure_budget
    <2> QED
      BY <1>1, <1>3, <1>10, <2>1, NewTrackerCounting DEF configure_failure_budget
  <1>11. ASSUME NEW kind \in FailureKind, observe_failure(kind) PROVE BudgetInv'
    BY <1>1, <1>3, <1>11, FailureCounting DEF observe_failure
  <1>12. CASE observe_success
    BY <1>1, <1>3, <1>12, SuccessCounting DEF observe_success
  <1>13. ASSUME NEW q \in Policies, ReplacePolicy(q) PROVE BudgetInv'
    BY <1>1, <1>3, <1>13, PolicyCounting DEF ReplacePolicy
  <1>14. CASE save_snapshot
    <2>1. Counting(Snapshot(kernel)) /\ Heeded(Snapshot(kernel))
      BY <1>1, SnapshotCounting
    <2>2. \A k \in {kernel'} \cup disk' : Counting(k) /\ Heeded(k)
      BY <1>1, <1>14, <2>1 DEF save_snapshot
    <2> QED
      BY <2>2 DEF BudgetInv
  <1>15. CASE load_snapshot
    BY <1>2, <1>3, <1>15 DEF load_snapshot
  <1>16. CASE Tick
    BY <1>1, <1>3, <1>16 DEF Tick
  <1>17. CASE UNCHANGED vars
    BY <1>1, <1>3, <1>17 DEF vars
  <1> QED
    BY <1>4, <1>5, <1>6, <1>7, <1>8, <1>9, <1>10, <1>11, <1>12, <1>13, <1>14, <1>15, <1>16,
       <1>17 DEF Next

(* The accounts of a kernel imply what BudgetHolds says of it.             *)
LEMMA AccountsAreSound ==
  ASSUME NEW k, Counting(k), Heeded(k)
  PROVE  /\ ValidSnapshot(k)
         /\ \A t \in k.tracker : CeilingsHold(t)
         /\ \A p \in DOMAIN k.lifecycles :
               /\ k.frozen => StateOf(k, p) \in Shutdown
               /\ k.killed => StateOf(k, p) = "Killed"
  <1>1. ASSUME NEW t \in k.tracker PROVE ValidTracker(t)
    <2>1. t \in FailureTracker /\ Accounted(t)
      BY DEF Counting, IsKernel
    <2>2. t.consecutive \in Nat
      BY <2>1 DEF FailureTracker
    <2> QED
      BY <2>1, <2>2 DEF Accounted, ValidTracker
  <1>2. \A p \in DOMAIN k.lifecycles : LivesOn(k.lifecycles[p], k)
    BY DEF Counting
  <1>3. ValidSnapshot(k)
    BY <1>1, <1>2 DEF Counting, Heeded, LivesOn, DistinctKeys, ValidSnapshot, StateOf
  <1>4. \A t \in k.tracker : CeilingsHold(t)
    BY DEF Counting, Accounted
  <1> QED
    BY <1>2, <1>3, <1>4 DEF LivesOn, StateOf

(* Every ceiling of the failure budget is final, an exhausted budget,      *)
(* freeze_all and kill_all leave nothing alive, and KernelSnapshot::       *)
(* validate accepts every kernel the interface can reach.                  *)
THEOREM BudgetsAreFinal == Spec => []BudgetHolds
  <1>1. Init => BudgetInv
    <2> SUFFICES ASSUME Init PROVE BudgetInv
      OBVIOUS
    <2>1. PICK q \in Policies : kernel = NewKernel(q)
      BY DEF Init
    <2>2. /\ IsKernel(kernel) /\ Journaled(kernel) = {} /\ DOMAIN kernel.lifecycles = {}
      BY <2>1, NewKernelProperties
    <2>3. kernel.tracker = {} /\ kernel.killed = FALSE /\ kernel.journal = <<>>
      BY <2>1 DEF NewKernel
    <2>4. Counting(kernel) /\ Heeded(kernel)
      BY <2>2, <2>3 DEF Counting, Heeded, DistinctKeys
    <2> QED
      BY <2>4 DEF BudgetInv, Init
  <1>2. TypeOK /\ BudgetInv /\ [Next]_vars => BudgetInv'
    BY BudgetStep
  <1>3. BudgetInv => BudgetHolds
    BY AccountsAreSound DEF BudgetInv, BudgetHolds
  <1> QED
    BY <1>1, <1>2, <1>3, TypeCorrect, PTL DEF Spec

-----------------------------------------------------------------------------
(* What the private issuances remember of the admission.                   *)

WarrantedBy(p, d) ==
    \A c \in d.capability :
        /\ c.expires_at \in Nat
        /\ p \in Permits[d.policy] \ DirectAuthority
        /\ c.expires_at <= ExpiresAt[p]
        /\ \E until \in ClaimsUntil[p] : c.expires_at <= until

WarrantInv ==
    \A k \in {kernel} \cup disk : \A p \in DOMAIN k.issuances :
        WarrantedBy(p, k.issuances[p].decision)

(* The decision of admit is warranted by the policy and the claims.        *)
LEMMA DecisionIsWarranted ==
  ASSUME NEW k, IsKernel(k), NEW p \in Proposals, NEW t \in Nat
  PROVE  WarrantedBy(p, DecisionOn(k, p, t))
  <1> SUFFICES ASSUME NEW c \in DecisionOn(k, p, t).capability
               PROVE  /\ c.expires_at \in Nat
                      /\ p \in Permits[DecisionOn(k, p, t).policy] \ DirectAuthority
                      /\ c.expires_at <= ExpiresAt[p]
                      /\ \E until \in ClaimsUntil[p] : c.expires_at <= until
    BY DEF WarrantedBy
  <1>1. /\ Verdict(k, p, t) = "Accepted" /\ DecisionOn(k, p, t).policy = k.policy
        /\ \E e \in CapabilityExpiry(k, p, t) : c = [issued_at |-> t, expires_at |-> e]
    BY DEF DecisionOn
  <1>2. p \in Permits[k.policy] \ DirectAuthority /\ Qualifying(p, t) # {}
    BY <1>1, KernelConstants DEF Verdict, IsKernel
  <1>3. PICK e \in CapabilityExpiry(k, p, t) : c = [issued_at |-> t, expires_at |-> e]
    BY <1>1
  <1>4. e \in Nat /\ e <= ExpiresAt[p] /\ \A u \in Qualifying(p, t) : e <= u
    BY ExpiryProperties
  <1>5. PICK until \in Qualifying(p, t) : TRUE
    BY <1>2
  <1>6. until \in ClaimsUntil[p] /\ e <= until
    BY <1>4, <1>5 DEF Qualifying
  <1> QED
    BY <1>1, <1>2, <1>3, <1>4, <1>6

(* Only admit, consume and a restart touch the issuances.                  *)
LEMMA IssuancesStand ==
  ASSUME TypeOK, Next
  PROVE  \/ \E p \in Proposals : Admit(p)
         \/ \E p \in Proposals, d \in decisions : Consume(p, d)
         \/ save_snapshot
         \/ load_snapshot
         \/ kernel'.issuances = kernel.issuances /\ disk' = disk /\ reserved' = reserved
  <1>1. IsKernel(kernel)
    BY DEF TypeOK
  <1>2. \A p, e : WithEvent(kernel, p, e).issuances = kernel.issuances
    BY <1>1 DEF WithEvent, IsKernel
  <1>3. /\ FreezeAll(kernel).issuances = kernel.issuances
        /\ KillAll(kernel).issuances = kernel.issuances
        /\ ObserveSuccess(kernel).issuances = kernel.issuances
    BY <1>1 DEF FreezeAll, KillAll, ObserveSuccess, IsKernel
  <1>4. /\ \A T : [kernel EXCEPT !.tracker = T].issuances = kernel.issuances
        /\ \A q : [kernel EXCEPT !.policy = q].issuances = kernel.issuances
    BY <1>1 DEF IsKernel
  <1>5. ASSUME NEW kind \in FailureKind
        PROVE  ObserveFailure(kernel, kind).issuances = kernel.issuances
    <2>1. IsKernel(Counted(kernel, kind)) /\ Counted(kernel, kind).issuances = kernel.issuances
      <3>1. \A t \in kernel.tracker : RecordFailure(t, kind) \in FailureTracker
        BY <1>1, RecordFailureType DEF IsKernel
      <3>2. {RecordFailure(t, kind) : t \in kernel.tracker} \subseteq FailureTracker
        BY <3>1
      <3>3. Keeps(kernel, Counted(kernel, kind))
        BY <1>1, <3>2, TrackerKeeps DEF Counted
      <3> QED
        BY <1>4, <3>3 DEF Keeps, Counted
    <2>2. FreezeAll(Counted(kernel, kind)).issuances = Counted(kernel, kind).issuances
      BY <2>1 DEF FreezeAll, IsKernel
    <2> QED
      BY <2>1, <2>2 DEF ObserveFailure
  <1> DEFINE Stands == kernel'.issuances = kernel.issuances /\ disk' = disk /\ reserved' = reserved
  <1>6. ASSUME NEW p \in Proposals, NEW d \in decisions, ConsumeStale(p, d) PROVE Stands
    BY <1>2, <1>6 DEF ConsumeStale
  <1>7. ASSUME NEW p \in Proposals, NEW e \in LifecycleEvent, ApplyLifecycleEvent(p, e)
        PROVE  Stands
    BY <1>2, <1>7 DEF ApplyLifecycleEvent
  <1>8. ASSUME freeze_all \/ kill_all \/ observe_success PROVE Stands
    BY <1>3, <1>8 DEF freeze_all, kill_all, observe_success
  <1>9. ASSUME NEW b \in Budgets, configure_failure_budget(b) PROVE Stands
    BY <1>4, <1>9 DEF configure_failure_budget
  <1>10. ASSUME NEW kind \in FailureKind, observe_failure(kind) PROVE Stands
    BY <1>5, <1>10 DEF observe_failure
  <1>11. ASSUME NEW q \in Policies, ReplacePolicy(q) PROVE Stands
    BY <1>4, <1>11 DEF ReplacePolicy
  <1>12. ASSUME Tick PROVE Stands
    BY <1>12 DEF Tick
  <1> QED
    BY <1>6, <1>7, <1>8, <1>9, <1>10, <1>11, <1>12 DEF Next

LEMMA WarrantStep ==
  ASSUME TypeOK, WarrantInv, [Next]_vars
  PROVE  WarrantInv'
  <1> DEFINE Fine(k) == \A p \in DOMAIN k.issuances : WarrantedBy(p, k.issuances[p].decision)
  <1>1. Fine(kernel) /\ \A s \in disk : Fine(s)
    BY DEF WarrantInv
  <1>2. IsKernel(kernel) /\ now \in Nat
    BY DEF TypeOK
  <1>3. ASSUME Fine(kernel'), disk' = disk PROVE WarrantInv'
    <2>1. \A k \in {kernel'} \cup disk' : Fine(k)
      BY <1>1, <1>3
    <2> QED
      BY <2>1 DEF WarrantInv
  <1>4. ASSUME NEW p \in Proposals, Admit(p) PROVE WarrantInv'
    <2> DEFINE d == DecisionOn(kernel, p, now)
    <2>1. d \in Decision /\ WarrantedBy(p, d)
      BY <1>2, DecisionType, DecisionIsWarranted
    <2>2. kernel' = Recorded(kernel, p, d) /\ disk' = disk
      BY <1>4 DEF Admit, AfterAdmit
    <2> HIDE DEF d
    <2>3. \A q \in DOMAIN kernel'.issuances :
             \/ q \in DOMAIN kernel.issuances /\ kernel'.issuances[q] = kernel.issuances[q]
             \/ q = p /\ kernel'.issuances[q].decision = d
      BY <1>2, <2>1, <2>2, RecordedProperties
    <2>4. Fine(kernel')
      BY <1>1, <2>1, <2>3
    <2> QED
      BY <1>3, <2>2, <2>4
  <1>5. ASSUME NEW p \in Proposals, NEW d \in decisions, Consume(p, d) PROVE WarrantInv'
    <2>1. p \in DOMAIN kernel.lifecycles /\ p \in DOMAIN kernel.issuances
      BY <1>5 DEF Consume, CanConsume, Reaches
    <2>2. kernel' = AfterConsume(kernel, p) /\ disk' = disk
      BY <1>5 DEF Consume
    <2>3. /\ DOMAIN kernel'.issuances = DOMAIN kernel.issuances
          /\ \A q \in DOMAIN kernel.issuances :
                kernel'.issuances[q].decision = kernel.issuances[q].decision
      BY <1>2, <2>1, <2>2, AfterConsumeProperties
    <2>4. Fine(kernel')
      BY <1>1, <2>3
    <2> QED
      BY <1>3, <2>2, <2>4
  <1>6. CASE save_snapshot
    <2>1. Fine(Snapshot(kernel))
      BY <1>2, SnapshotProperties
    <2>2. \A k \in {kernel'} \cup disk' : Fine(k)
      BY <1>1, <1>6, <2>1 DEF save_snapshot
    <2> QED
      BY <2>2 DEF WarrantInv
  <1>7. CASE load_snapshot
    BY <1>1, <1>3, <1>7 DEF load_snapshot
  <1>8. CASE kernel'.issuances = kernel.issuances /\ disk' = disk
    BY <1>1, <1>3, <1>8
  <1>9. CASE UNCHANGED vars
    BY <1>1, <1>3, <1>9 DEF vars
  <1> QED
    BY <1>4, <1>5, <1>6, <1>7, <1>8, <1>9, IssuancesStand

(* What one call may reserve.                                              *)
Reserves ==
    \A p \in Proposals :
        reserved'[epoch] = Append(reserved[epoch], p) =>
           /\ p \in Permits[kernel.policy] \ DirectAuthority
           /\ now < ExpiresAt[p]
           /\ Qualifying(p, now) # {}

(* consume succeeds only while the policy in force permits the proposal    *)
(* and neither the proposal nor its last qualifying claim has expired.     *)
THEOREM AuthorityIsWarranted == Spec => WarrantedAtUse
  <1>1. Init => WarrantInv
    BY NewKernelProperties DEF Init, WarrantInv
  <1>2. TypeOK /\ WarrantInv /\ [Next]_vars => WarrantInv'
    BY WarrantStep
  <1>3. TypeOK /\ WarrantInv /\ [Next]_vars => [Reserves]_vars
    <2> SUFFICES ASSUME TypeOK, WarrantInv, Next, NEW p \in Proposals,
                        reserved'[epoch] = Append(reserved[epoch], p)
                 PROVE  /\ p \in Permits[kernel.policy] \ DirectAuthority
                        /\ now < ExpiresAt[p]
                        /\ Qualifying(p, now) # {}
      BY DEF Reserves
    <2>1. reserved[epoch] \in Seq(Proposals) /\ now \in Nat /\ IsKernel(kernel) /\ epoch \in Epochs
      BY DEF TypeOK
    <2>2. reserved'[epoch] # reserved[epoch]
      <3>1. Len(reserved'[epoch]) = Len(reserved[epoch]) + 1 /\ Len(reserved[epoch]) \in Nat
        BY <2>1
      <3> QED
        BY <3>1
    <2>3. PICK q \in Proposals, d \in decisions : Consume(q, d)
      BY <2>2, IssuancesStand DEF Admit, save_snapshot, load_snapshot
    <2>4. reserved'[epoch] = Append(reserved[epoch], q)
      BY <2>1, <2>3 DEF Consume, TypeOK
    <2>5. q = p
      <3>1. /\ Append(reserved[epoch], q)[Len(reserved[epoch]) + 1] = q
            /\ Append(reserved[epoch], p)[Len(reserved[epoch]) + 1] = p
        BY <2>1
      <3> QED
        BY <2>4, <3>1
    <2>6. /\ p \in DOMAIN kernel.issuances /\ d = kernel.issuances[p].decision
          /\ d.policy = kernel.policy
          /\ \E c \in d.capability : now < c.expires_at
      BY <2>3, <2>5 DEF Consume, CanConsume, Reaches, PolicyStale, Matches
    <2>7. PICK c \in d.capability : now < c.expires_at
      BY <2>6
    <2>8. /\ c.expires_at \in Nat /\ p \in Permits[d.policy] \ DirectAuthority
          /\ c.expires_at <= ExpiresAt[p]
          /\ \E until \in ClaimsUntil[p] : c.expires_at <= until
      BY <2>6, <2>7 DEF WarrantInv, WarrantedBy
    <2>9. PICK until \in ClaimsUntil[p] : c.expires_at <= until
      BY <2>8
    <2>10. ExpiresAt[p] \in Nat /\ until \in Nat
      BY KernelConstants
    <2> QED
      BY <2>1, <2>6, <2>7, <2>8, <2>9, <2>10 DEF Qualifying
  <1>4. Spec => [][Reserves]_vars
    BY <1>1, <1>2, <1>3, TypeCorrect, PTL DEF Spec
  <1> QED
    BY <1>4 DEF WarrantedAtUse, Reserves
=============================================================================
