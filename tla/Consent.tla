------------------------------- MODULE Consent -------------------------------
(***************************************************************************)
(* src/src/specialist.rs, routing.rs and memory.rs: callers with handles   *)
(* of their own share a consent file and a memory file, each under a lock  *)
(* file.  A gated access holds the consent lock while it waits for, and    *)
(* works under, the memory lock.                                           *)
(*                                                                         *)
(* A grant is named by its digest and binds its specialist, resources and  *)
(* window; the memory of one tenant is modelled, a record being the grant  *)
(* it is bound to.  A file is the snapshot under its name and an Option of *)
(* the temporary file beside it.  persistence.rs is taken up in            *)
(* SnapshotStore; here a write is one step with an outcome.                *)
(***************************************************************************)
EXTENDS Naturals, FiniteSets

CONSTANTS
    Callers,     \* processes, each with its own handles
    Grants,
    SpecialistOf,  \* SpecialistOf[g]
    Scope,       \* Scope[g]: resource_ids, "*" standing for all
    Issued,      \* Issued[g]
    Expires,     \* Expires[g]
    Resources,
    MaxCalls,    \* bound on the calls made
    MaxTime,     \* bound on the clock
    MaxFaults,   \* bound on failing writes
    MaxCrashes   \* bound on crashes

Specialists == {SpecialistOf[g] : g \in Grants}

(* ConsentGrant::validate, which the digest check makes a property of the  *)
(* grant and not of the moment.                                            *)
ValidGrant(g) == Issued[g] < Expires[g] /\ Scope[g] # {}

ASSUME ConsentConstants ==
    /\ Issued \in [Grants -> Nat] /\ Expires \in [Grants -> Nat]
    /\ "dead" \notin Callers
    /\ {MaxCalls, MaxTime, MaxFaults, MaxCrashes} \subseteq Nat

VARIABLES
    consent,    \* the consent file
    consentLock,  \* its lock file: an Option of the caller that created it
    memory,     \* the memory file
    memoryLock,
    handle,     \* handle[c]: an Option of the registry that c has opened
    detached,   \* callers whose registry has no persistence_path
    view,       \* view[c]: the records of c's memory handle
    known,      \* known[c]: c's SpecialistRegistry
    decision,   \* decision[c]: an Option of the last RoutingDecision of c
    call,       \* call[c]: the call c is in
    now,
    acked,      \* history: grants whose revoke returned Ok
    calls,
    faults,
    crashes

handles == <<handle, detached, view, known, decision>>
world == <<now, acked, calls, faults, crashes>>
vars == <<consent, consentLock, memory, memoryLock, handles, call, world>>

NoGrant == [grants |-> {}, revoked |-> {}]
NoRecord == {}
Unregistered == [identities |-> {}, revoked |-> {}]
Idle == [pc |-> "idle"]

(* There is no consent file yet, or an earlier process has left one with   *)
(* every grant in it; the callers have just opened what there is.          *)
Init ==
    /\ \E grants \in {{}, Grants} :
          consent = [doc |-> IF grants = {} THEN {} ELSE {[grants |-> grants, revoked |-> {}]},
                     tmp |-> {}]
    /\ consentLock = {}
    /\ memory = [doc |-> {[k \in Resources |-> NoRecord]}, tmp |-> {}]
    /\ view = [c \in Callers |-> [k \in Resources |-> NoRecord]]
    /\ memoryLock = {}
    /\ handle = [c \in Callers |-> consent.doc]
    /\ detached = {}
    /\ known = [c \in Callers |-> [identities |-> {<<s, 1>> : s \in Specialists}, revoked |-> {}]]
    /\ decision = [c \in Callers |-> {}]
    /\ call = [c \in Callers |-> Idle]
    /\ now = 0
    /\ acked = {}
    /\ calls = 0
    /\ faults = 0
    /\ crashes = 0

-----------------------------------------------------------------------------
(* Snapshots.                                                              *)

(* recover_locked: a temporary file that loads is the snapshot and is      *)
(* renamed; one that does not load is an error.                            *)
Loaded(file) ==
    IF file.tmp # {} THEN {t.doc : t \in {x \in file.tmp : x.whole}} ELSE file.doc
Promoted(file) ==
    IF Loaded(file) # {} THEN [doc |-> Loaded(file), tmp |-> {}] ELSE file

(* What a reader will find once the temporary file is promoted.            *)
Latest(file) ==
    IF \E t \in file.tmp : t.whole THEN Loaded(file) ELSE file.doc

Save(doc) == [doc |-> {doc}, tmp |-> {}]
Fault(ok) == (~ok => faults < MaxFaults) /\ faults' = IF ok THEN faults ELSE faults + 1

(* write_consent_snapshot and save_atomic_snapshot_locked.  The failing    *)
(* call may have left a temporary file, whole or not, or have done its     *)
(* work but for the last sync.                                             *)
Written(file, doc, ok) ==
    IF ok THEN {Save(doc)}
    ELSE {file, Save(doc)} \cup
         {[file EXCEPT !.tmp = {[doc |-> doc, whole |-> w]}] : w \in BOOLEAN}

-----------------------------------------------------------------------------
(* The registries as values.                                               *)

(* ConsentRegistry::validate.                                              *)
Valid(reg) == reg.grants \cap reg.revoked = {} /\ \A g \in reg.grants : ValidGrant(g)

(* grant_in_memory and revoke_in_memory.  An empty result is a refusal.    *)
GrantIn(reg, g) ==
    IF g \in reg.revoked \/ ~ValidGrant(g) THEN {} ELSE {[reg EXCEPT !.grants = @ \cup {g}]}

RevokeIn(reg, g) ==
    IF g \in reg.revoked \/ g \notin reg.grants THEN {}
    ELSE {[grants |-> reg.grants \ {g}, revoked |-> reg.revoked \cup {g}]}

Active(g, t) == ValidGrant(g) /\ Issued[g] <= t /\ t < Expires[g]
ContainsActive(reg, g, t) == Valid(reg) /\ g \in reg.grants /\ Active(g, t)
Allows(g, k) == k \in Scope[g] \/ "*" \in Scope[g]

(* SpecialistRegistry.  An identity is a pair of specialist and version,   *)
(* a specialist keeping the version it was registered with.                *)
ValidSpecialists(reg) == reg.revoked \subseteq {id[1] : id \in reg.identities}
Register(reg, id) ==
    IF id[1] \in reg.revoked \/ \E old \in reg.identities : old[1] = id[1] /\ old # id
    THEN {} ELSE {r \in {[reg EXCEPT !.identities = @ \cup {id}]} : ValidSpecialists(r)}
RevokeSpecialist(reg, s) ==
    IF s \in reg.revoked \/ ~\E id \in reg.identities : id[1] = s
    THEN {} ELSE {[reg EXCEPT !.revoked = @ \cup {s}]}
Resolve(reg, s) == {id \in reg.identities : id[1] = s /\ s \notin reg.revoked}

-----------------------------------------------------------------------------
(* Calls and locks.                                                        *)

Stored == {"put", "get", "delete"}
Gated == Stored \cup {"lookup"}
Routed == {"route", "validate"}
Timed == Gated \cup Routed      \* the caller passes the time
Openers == {"open", "recover", "save_initial"}
Loaders == Openers \cup {"load"}

At(c, pc) == call[c].pc = pc
Op(c) == call[c].op
Become(c, p) == call' = [call EXCEPT ![c] = p]
Goto(c, pc) == Become(c, [call[c] EXCEPT !.pc = pc])
Finish(c, ok) ==
    Become(c, [pc |-> "unlock", op |-> Op(c), grant |-> call[c].grant, late |-> call[c].late,
               ok |-> ok])

Call(c, op, g, k) ==
    /\ At(c, "idle")
    /\ op \in Loaders \/ handle[c] # {}
    /\ op = "validate" => \E d \in decision[c] : d.grant = g
    /\ Become(c, [pc |-> CASE op = "save_memory" -> "memory"
                           [] op = "validate" -> "resolve"
                           [] op = "load" -> "inside"
                           [] OTHER -> "consent",
                  op |-> op, grant |-> g, key |-> k,
                  now |-> IF op \in Timed THEN now ELSE 0,
                  late |-> op \in Timed /\ g \in acked, draft |-> {}, ok |-> FALSE])
    /\ calls < MaxCalls
    /\ calls' = calls + 1
    /\ UNCHANGED <<consent, consentLock, memory, memoryLock, handles, now, acked, faults, crashes>>

(* A call on a registry without a path takes no lock; open, recover and    *)
(* save always do.                                                         *)
Locked(c) == Op(c) \in Openers \/ c \notin detached

TakeConsent(c) ==
    /\ At(c, "consent")
    /\ Locked(c) => consentLock = {}
    /\ consentLock' = IF Locked(c) THEN {c} ELSE consentLock
    /\ Goto(c, "inside")
    /\ UNCHANGED <<consent, memory, memoryLock, handles, world>>

TakeMemory(c) ==
    /\ At(c, "memory")
    /\ memoryLock = {}
    /\ memoryLock' = {c}
    /\ Goto(c, "access")
    /\ UNCHANGED <<consent, consentLock, memory, handles, world>>

(* Mutant: a caller that holds the consent lock waits without a limit.     *)
GiveUpConsent(c) ==
    /\ At(c, "consent") /\ Locked(c) /\ consentLock # {}
    /\ Finish(c, FALSE)
    /\ UNCHANGED <<consent, consentLock, memory, memoryLock, handles, world>>

(* acquire_file_lock after its last attempt.                               *)
GiveUp(c) ==
    /\ \/ At(c, "consent") /\ Locked(c) /\ consentLock # {}
       \/ At(c, "memory") /\ memoryLock # {}
    /\ Finish(c, FALSE)
    /\ UNCHANGED <<consent, consentLock, memory, memoryLock, handles, world>>

(* The locks are dropped, the memory lock first, and the call returns.     *)
Unlock(c) ==
    /\ At(c, "unlock")
    /\ IF memoryLock = {c}
       THEN memoryLock' = {} /\ UNCHANGED <<consentLock, call, acked>>
       ELSE /\ consentLock' = consentLock \ {c}
            /\ acked' = IF call[c].ok /\ Op(c) = "revoke" /\ Locked(c)
                        THEN acked \cup {call[c].grant} ELSE acked
            /\ Become(c, Idle)
            /\ UNCHANGED memoryLock
    /\ UNCHANGED <<consent, memory, handles, now, calls, faults, crashes>>

-----------------------------------------------------------------------------
(* Under the consent lock.                                                 *)

(* open creates the file where there is none, recover does not; save puts  *)
(* down an in-memory registry where there is neither file yet.             *)
Opened(c) ==
    CASE Op(c) = "save_initial" ->
            IF consent.doc \cup consent.tmp # {} THEN {}
            ELSE IF c \in detached THEN handle[c] ELSE GrantIn(NoGrant, call[c].grant)
      [] Op(c) = "open" /\ consent.doc \cup consent.tmp = {} -> {NoGrant}
      [] OTHER -> Loaded(consent)

Open(c, ok) ==
    /\ At(c, "inside")
    /\ Op(c) \in Openers
    /\ IF Opened(c) = {} THEN ok /\ UNCHANGED <<consent, faults>> /\ Finish(c, FALSE)
                              /\ UNCHANGED <<handle, detached>>
       ELSE \E reg \in Opened(c) :
               /\ Fault(ok)
               /\ consent' \in IF consent.doc \cup consent.tmp = {} THEN Written(consent, reg, ok)
                               ELSE {Promoted(consent)} \cup IF ok THEN {} ELSE {consent}
               /\ Finish(c, ok)
               /\ IF ok /\ Op(c) # "save_initial"
                  THEN handle' = [handle EXCEPT ![c] = {reg}] /\ detached' = detached \ {c}
                  ELSE UNCHANGED <<handle, detached>>
    /\ UNCHANGED <<consentLock, memory, memoryLock, view, known, decision, now, acked, calls, crashes>>

Updated(reg, c) ==
    IF Op(c) = "grant" THEN GrantIn(reg, call[c].grant) ELSE RevokeIn(reg, call[c].grant)

(* load reads the file, without the lock, into a registry that has no      *)
(* path.                                                                   *)
Load(c) ==
    /\ At(c, "inside")
    /\ Op(c) = "load"
    /\ Finish(c, consent.doc # {})
    /\ IF consent.doc = {} THEN UNCHANGED <<handle, detached>>
       ELSE handle' = [handle EXCEPT ![c] = consent.doc] /\ detached' = detached \cup {c}
    /\ UNCHANGED <<consent, consentLock, memory, memoryLock, view, known, decision, world>>

(* Mutant: the handle's own copy is updated and written.                   *)
UpdateStale(c, ok) ==
    /\ At(c, "inside")
    /\ Op(c) \in {"grant", "revoke"} /\ Locked(c)
    /\ LET new == UNION {Updated(reg, c) : reg \in handle[c]}
       IN  IF new = {} THEN /\ ok /\ Finish(c, FALSE)
                            /\ consent' = Promoted(consent)
                            /\ UNCHANGED <<handle, faults>>
           ELSE \E reg \in new : /\ Fault(ok)
                                 /\ consent' \in Written(Promoted(consent), reg, ok)
                                 /\ handle' = IF ok THEN [handle EXCEPT ![c] = {reg}] ELSE handle
                                 /\ Finish(c, ok)
    /\ UNCHANGED <<consentLock, memory, memoryLock, detached, view, known, decision, now, acked, calls, crashes>>

(* update_persistent without a path changes the caller's copy.             *)
UpdateInMemory(c) ==
    /\ At(c, "inside")
    /\ Op(c) \in {"grant", "revoke"} /\ ~Locked(c)
    /\ LET new == UNION {Updated(reg, c) : reg \in handle[c]}
       IN  /\ Finish(c, new # {})
           /\ handle' = IF new = {} THEN handle ELSE [handle EXCEPT ![c] = new]
    /\ UNCHANGED <<consent, consentLock, memory, memoryLock, detached, view, known, decision, world>>

(* update_persistent: the snapshot is read again under the lock.           *)
UpdatePersistent(c, ok) ==
    /\ At(c, "inside")
    /\ Op(c) \in {"grant", "revoke"} /\ Locked(c)
    /\ LET new == UNION {Updated(reg, c) : reg \in Loaded(consent)}
       IN  IF new = {} THEN /\ ok /\ Finish(c, FALSE)
                            /\ consent' = Promoted(consent)
                            /\ UNCHANGED <<handle, faults>>
           ELSE \E reg \in new : /\ Fault(ok)
                                 /\ consent' \in Written(Promoted(consent), reg, ok)
                                 /\ handle' = IF ok THEN [handle EXCEPT ![c] = {reg}] ELSE handle
                                 /\ Finish(c, ok)
    /\ UNCHANGED <<consentLock, memory, memoryLock, detached, view, known, decision, now, acked, calls, crashes>>

(* The registry that a check looks at, and the file after it.              *)
Consulted(c) == IF Locked(c) THEN Loaded(consent) ELSE handle[c]
AfterCheck(c) == IF Locked(c) THEN Promoted(consent) ELSE consent

HasActiveGrant(c) ==
    \E reg \in Consulted(c) : ContainsActive(reg, call[c].grant, call[c].now)

CheckConsent(c) ==
    Allows(call[c].grant, call[c].key) /\ Resolve(known[c], SpecialistOf[call[c].grant]) # {}

(* Mutant: the consent lock goes back once the grant is checked.           *)
GateAndUnlock(c) ==
    /\ At(c, "inside")
    /\ Op(c) \in Stored
    /\ consent' = AfterCheck(c)
    /\ consentLock' = consentLock \ {c}
    /\ IF HasActiveGrant(c) /\ CheckConsent(c) THEN Goto(c, "memory") ELSE Finish(c, FALSE)
    /\ UNCHANGED <<memory, memoryLock, handles, world>>

(* with_active_grant and the check that opens its effect.                  *)
Gate(c) ==
    /\ At(c, "inside")
    /\ Op(c) \in Stored
    /\ consent' = AfterCheck(c)
    /\ IF HasActiveGrant(c) /\ CheckConsent(c) THEN Goto(c, "memory") ELSE Finish(c, FALSE)
    /\ UNCHANGED <<consentLock, memory, memoryLock, handles, world>>

(* TenantRetrieval::retrieve reads the caller's own map.                   *)
Lookup(c) ==
    /\ At(c, "inside")
    /\ Op(c) = "lookup"
    /\ consent' = AfterCheck(c)
    /\ Finish(c, HasActiveGrant(c) /\ CheckConsent(c))
    /\ UNCHANGED <<consentLock, memory, memoryLock, handles, world>>

(* RoutingDecision::route asks has_active_grant, which lets the lock go,   *)
(* resolves the specialist and then validates, which asks again.  The      *)
(* request is one for this grant that outlives it.                         *)
Route(c) ==
    /\ At(c, "inside")
    /\ Op(c) \in Routed
    /\ consent' = AfterCheck(c)
    /\ IF HasActiveGrant(c) /\ call[c].draft = {}
       THEN consentLock' = consentLock \ {c} /\ Goto(c, "resolve") /\ UNCHANGED decision
       ELSE /\ Finish(c, HasActiveGrant(c))
            /\ decision' = IF HasActiveGrant(c)
                           THEN [decision EXCEPT ![c] = call[c].draft] ELSE decision
            /\ UNCHANGED consentLock
    /\ UNCHANGED <<memory, memoryLock, handle, detached, view, known, world>>

Drafts(c) ==
    LET g == call[c].grant
        found == Resolve(known[c], SpecialistOf[g])
    IN  IF Op(c) = "route"
        THEN {[grant |-> g, identity |-> id, issued |-> call[c].now] : id \in found}
        ELSE {d \in decision[c] : /\ d.identity \in found
                                  /\ d.issued <= call[c].now /\ call[c].now < Expires[g]}

ResolveForRoute(c) ==
    /\ At(c, "resolve")
    /\ IF Drafts(c) = {} THEN Finish(c, FALSE)
       ELSE Become(c, [call[c] EXCEPT !.pc = "consent", !.draft = Drafts(c)])
    /\ UNCHANGED <<consent, consentLock, memory, memoryLock, handles, world>>

-----------------------------------------------------------------------------
(* Under the memory lock: put, retrieve, delete and save of                *)
(* PersistentMemory.  Each reads the file again.                           *)

(* The records after the call; an empty result is a refusal.  A record is  *)
(* read and deleted under the grant it is bound to, and overwritten under  *)
(* any that covers its resource.                                           *)
Put(records, g, k) == {[records EXCEPT ![k] = {g}]}
Retrieve(records, g, k) == IF records[k] = {g} THEN {records} ELSE {}
Delete(records, g, k) ==
    IF records[k] \in {{}, {g}} THEN {[records EXCEPT ![k] = {}]} ELSE {}

Accessed(c, records) ==
    LET g == call[c].grant  k == call[c].key
    IN  CASE Op(c) = "put" -> Put(records, g, k)
          [] Op(c) = "delete" -> Delete(records, g, k)
          [] Op(c) = "get" -> Retrieve(records, g, k)
          [] Op(c) = "save_memory" -> {records}

Saves(c, records, new) == Op(c) \in {"put", "save_memory"} \/ new # records

(* Mutant: the handle's last view is changed and saved.                    *)
AccessView(c, ok) ==
    /\ At(c, "access")
    /\ LET records == view[c]  new == Accessed(c, records)
       IN  IF new = {} THEN ok /\ memory' = Promoted(memory) /\ UNCHANGED <<view, faults>>
                            /\ Finish(c, FALSE)
           ELSE \E r \in new :
                   /\ Fault(ok)
                   /\ memory' \in IF Saves(c, records, r) THEN Written(Promoted(memory), r, ok)
                                  ELSE {Promoted(memory)}
                   /\ view' = IF ok THEN [view EXCEPT ![c] = r] ELSE view
                   /\ Finish(c, ok)
    /\ UNCHANGED <<consent, consentLock, memoryLock, handle, detached, known, decision, now, acked, calls, crashes>>

Access(c, ok) ==
    /\ At(c, "access")
    /\ IF Loaded(memory) = {} THEN ok /\ Finish(c, FALSE) /\ UNCHANGED <<memory, view, faults>>
       ELSE \E records \in Loaded(memory) :
          LET new == Accessed(c, records)
          IN  IF new = {} THEN ok /\ memory' = Promoted(memory) /\ UNCHANGED <<view, faults>>
                               /\ Finish(c, FALSE)
              ELSE \E r \in new :
                      /\ Fault(ok)
                      /\ memory' \in IF Saves(c, records, r)
                                     THEN Written(Promoted(memory), r, ok)
                                     ELSE {Promoted(memory)}
                      /\ view' = IF ok /\ Op(c) # "get" THEN [view EXCEPT ![c] = r] ELSE view
                      /\ Finish(c, ok)
    /\ UNCHANGED <<consent, consentLock, memoryLock, handle, detached, known, decision, now, acked, calls, crashes>>

-----------------------------------------------------------------------------
(* The callers' own registries, and the environment.  A registry that a    *)
(* call borrows cannot change before the call returns.                     *)

ChangeSpecialists(c) ==
    /\ At(c, "idle")
    /\ calls < MaxCalls
    /\ calls' = calls + 1
    /\ \E s \in Specialists, v \in 1 .. 2 :
          \E reg \in Register(known[c], <<s, v>>) \cup RevokeSpecialist(known[c], s) :
             reg # known[c] /\ known' = [known EXCEPT ![c] = reg]
    /\ UNCHANGED <<consent, consentLock, memory, memoryLock, handle, detached, view, decision, call, now, acked, faults, crashes>>

(* The lock file of a process that died holds a token nobody has.          *)
Orphaned(lock, c) == IF lock = {c} THEN {"dead"} ELSE lock

Crash(c) ==
    /\ ~At(c, "idle")
    /\ crashes < MaxCrashes
    /\ crashes' = crashes + 1
    /\ consentLock' = Orphaned(consentLock, c)
    /\ memoryLock' = Orphaned(memoryLock, c)
    /\ handle' = [handle EXCEPT ![c] = {}]
    /\ detached' = detached \ {c}
    /\ view' = [view EXCEPT ![c] = [k \in Resources |-> NoRecord]]
    /\ known' = [known EXCEPT ![c] = Unregistered]
    /\ decision' = [decision EXCEPT ![c] = {}]
    /\ Become(c, Idle)
    /\ UNCHANGED <<consent, memory, now, acked, calls, faults>>

OperatorRemovesLock ==
    /\ "dead" \in consentLock \cup memoryLock
    /\ consentLock' = consentLock \ {"dead"}
    /\ memoryLock' = memoryLock \ {"dead"}
    /\ UNCHANGED <<consent, memory, handles, call, world>>

Tick ==
    /\ now < MaxTime
    /\ now' = now + 1
    /\ UNCHANGED <<consent, consentLock, memory, memoryLock, handles, call, acked, calls, faults, crashes>>

Step(c) ==
    \/ TakeConsent(c) \/ TakeMemory(c) \/ GiveUp(c) \/ Unlock(c)
    \/ Gate(c) \/ Lookup(c) \/ Route(c) \/ ResolveForRoute(c)
    \/ Load(c) \/ UpdateInMemory(c)
    \/ \E ok \in BOOLEAN : Open(c, ok) \/ UpdatePersistent(c, ok) \/ Access(c, ok)

(* The operations that take no grant; only the gated ones take a resource. *)
Plain == {"open", "recover", "load", "save_memory"}
Operations == Loaders \cup Timed \cup {"grant", "revoke", "save_memory"}

Next ==
    \/ \E c \in Callers, op \in Operations :
          \E g \in IF op \in Plain THEN {CHOOSE x \in Grants : TRUE} ELSE Grants,
             k \in IF op \in Gated THEN Resources ELSE {CHOOSE x \in Resources : TRUE} :
             Call(c, op, g, k)
    \/ \E c \in Callers : Step(c) \/ ChangeSpecialists(c) \/ Crash(c)
    \/ OperatorRemovesLock
    \/ Tick

Spec == Init /\ [][Next]_vars

-----------------------------------------------------------------------------
(* Properties.                                                             *)

(* with_active_grant holds the registry through the effect: from the check *)
(* of the grant to the end of the memory access no revocation of it, by    *)
(* this or another process, comes between.  A registry without a path is   *)
(* the caller's own and answers for itself only.                           *)
ConsentOutlivesEffect ==
    \A c \in Callers :
        call[c].pc \in {"memory", "access"} /\ Op(c) \in Stored /\ Locked(c) =>
            \E reg \in Latest(consent) : call[c].grant \in reg.grants

(* "Revocation is terminal for a grant ID": once revoke returned Ok on an  *)
(* opened registry, no stale handle, loaded copy, failed write or recovery *)
(* brings the grant back, and no access or routing decision that is asked  *)
(* for later through an opened registry succeeds under it.                 *)
RevocationIsTerminal ==
    /\ \A reg \in Latest(consent) : acked \cap reg.grants = {}
    /\ \A c \in Callers :
          ~At(c, "idle") /\ Op(c) \in Timed /\ Locked(c) /\ call[c].ok =>
              ~call[c].late

(* A record changes only through a put or delete of that resource: saves   *)
(* of stale handles, promotions of pending files and accesses to other     *)
(* resources lose nothing.                                                 *)
MemoryLosesNothing ==
    [][\A k \in Resources, old \in Latest(memory), new \in Latest(memory') :
          old[k] # new[k] =>
              \E c \in Callers : At(c, "access") /\ Op(c) \in {"put", "delete"} /\ call[c].key = k]_vars

(* Nobody is stuck: put, retrieve and delete wait for the memory lock with *)
(* the consent lock in hand, and the lock of a dead process stays, yet     *)
(* every caller in a call can go on without help, and a call has no loop.  *)
NobodyIsStuck == \A c \in Callers : ~At(c, "idle") => ENABLED Step(c)
=============================================================================
