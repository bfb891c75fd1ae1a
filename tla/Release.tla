------------------------------- MODULE Release -------------------------------
(***************************************************************************)
(* src/src/claims.rs, governance.rs and adaptation_market.rs over the      *)
(* evidence registry of src/src/lib.rs: claims are backed by accepted      *)
(* evidence, met, and put into release packets, and packets carry a        *)
(* candidate from Shadow to Canary to ReleasedLocal.  Processes hold       *)
(* copies of the release registry and save them to one file, beside one    *)
(* that runs revalidate_and_save, which needs no copy.                     *)
(*                                                                         *)
(* The digest of an evidence record is the pair of its identity and its    *)
(* status, the digest of a packet the packet.  The indexes used_evidence   *)
(* and packets of the registry are one sequence of packets.                *)
(***************************************************************************)
EXTENDS Naturals, Sequences, FiniteSets, FiniteSetsExt

CONSTANTS
    Procs,
    EvidenceIds,
    SubjectOf,      \* SubjectOf[i]: source_digest of evidence i
    EvidenceUntil,  \* EvidenceUntil[i]: its valid_until
    Claims,         \* names of the claims that are drafted
    Ceiling,        \* Ceiling[c]
    Guarantees,     \* Guarantees[c]
    Excludes,       \* Excludes[c]
    ClaimUntil,     \* ClaimUntil[c]
    Cites,          \* Cites[c]: the evidence claim c refers to
    Candidates,     \* identities of release candidates
    Priority,       \* Priority[c]
    Conclusive,     \* candidates whose EvidenceAnchor is LocalOnly
    AnchorFrom,     \* AnchorFrom[c]: observed_at of the anchor
    AnchorUntil,    \* AnchorUntil[c]: valid_until of the anchor
    MaxPackets,     \* bound on the packets made
    MaxClaims,      \* bound on the claims of a packet
    MaxReleaseTime  \* bound on the clock

ASSUME ReleaseConstants ==
    /\ "pass" \notin Procs
    /\ \A i \in EvidenceIds : EvidenceUntil[i] \in Nat
    /\ \A c \in Claims : ClaimUntil[c] \in Nat /\ Cites[c] \subseteq EvidenceIds

VARIABLES
    evidence,   \* evidence[i]: "new", "accepted" or "revoked"
    envelopes,  \* ClaimEnvelopes at hand
    packets,    \* AggregateReleasePackets made
    plan,       \* Option of the AdaptationPlan: <<candidate, packet digest>>
    registry,   \* registry[p]: Option of p's copy of the ReleaseRegistry
    released,   \* the release registry file
    pass,       \* Option: what revalidate_and_save has between load and save
    missed,     \* history: the freezes written to the file since a copy was read
    clock

copies == <<registry, released, pass, missed>>
releaseVars == <<evidence, envelopes, packets, plan, copies, clock>>

NoRelease == [c \in {} |-> "none"]

ReleaseInit ==
    /\ evidence = [i \in EvidenceIds |-> "new"]
    /\ envelopes = {}
    /\ packets = {}
    /\ plan = {}
    /\ registry = [p \in Procs |-> {NoRelease}]
    /\ released = NoRelease
    /\ pass = {}
    /\ missed = [p \in Procs \cup {"pass"} |-> {}]
    /\ clock = 1

-----------------------------------------------------------------------------
(* EvidenceRegistry.                                                       *)

Accept(i) ==
    /\ evidence[i] = "new"
    /\ evidence' = [evidence EXCEPT ![i] = "accepted"]
    /\ UNCHANGED <<envelopes, packets, plan, copies, clock>>

Revoke(i) ==
    /\ evidence[i] # "revoked"
    /\ evidence' = [evidence EXCEPT ![i] = "revoked"]
    /\ UNCHANGED <<envelopes, packets, plan, copies, clock>>

RecordDigest(i) == <<i, evidence[i]>>
IsValid(i, t, subject) ==
    evidence[i] = "accepted" /\ EvidenceUntil[i] > t /\ SubjectOf[i] = subject

(* accepted_digest_for and has_valid_digest_for_subject.                   *)
AcceptedFor(i, t, subject, until) ==
    until > t /\ IsValid(i, t, subject) /\ until <= EvidenceUntil[i]
HasValidDigest(d, t, subject) ==
    \E i \in EvidenceIds : IsValid(i, t, subject) /\ RecordDigest(i) = d

-----------------------------------------------------------------------------
(* ClaimEnvelope.  "from" is history: the claims an envelope was met from. *)

ValidEnvelope(e) == e.guarantees \cap e.excludes = {}
ValidAt(e, t) == ValidEnvelope(e) /\ e.until > t

Drafted(c) ==
    [from |-> {c}, ceiling |-> Ceiling[c], guarantees |-> Guarantees[c],
     excludes |-> Excludes[c], until |-> ClaimUntil[c],
     digests |-> {RecordDigest(i) : i \in Cites[c]}]

(* Mutant: guarantees are joined, as the exclusions are.                   *)
MeetJoining(a, b) ==
    [from |-> a.from \cup b.from, ceiling |-> a.ceiling,
     guarantees |-> (a.guarantees \cup b.guarantees) \ (a.excludes \cup b.excludes),
     excludes |-> a.excludes \cup b.excludes,
     until |-> Min({a.until, b.until}), digests |-> a.digests \cup b.digests]

Meet(a, b) ==
    [from |-> a.from \cup b.from, ceiling |-> a.ceiling,
     guarantees |-> a.guarantees \cap b.guarantees,
     excludes |-> a.excludes \cup b.excludes,
     until |-> Min({a.until, b.until}), digests |-> a.digests \cup b.digests]

(* Claims are drafted from accepted evidence: from_envelopes refuses a     *)
(* digest of any other.                                                    *)
Draft(c) ==
    /\ \A i \in Cites[c] : evidence[i] = "accepted"
    /\ envelopes' = envelopes \cup {Drafted(c)}
    /\ ValidEnvelope(Drafted(c))
    /\ UNCHANGED <<evidence, packets, plan, copies, clock>>

MeetClaims(a, b) ==
    /\ a.ceiling = b.ceiling
    /\ ValidEnvelope(Meet(a, b))
    /\ envelopes' = envelopes \cup {Meet(a, b)}
    /\ UNCHANGED <<evidence, packets, plan, copies, clock>>

-----------------------------------------------------------------------------
(* AggregateReleasePacket.  The bindings give each claim its subject and   *)
(* its evidence; the identity of a packet is fresh.                        *)

Subjects == {SubjectOf[i] : i \in EvidenceIds}

ValidateCurrent(packet, t) ==
    /\ t >= packet.generated_at
    /\ \A e \in DOMAIN packet.subject :
          /\ ValidAt(e, t)
          /\ \A d \in e.digests : HasValidDigest(d, t, packet.subject[e])

FromEnvelopes(claims, subject) ==
    LET packet == [packet_id |-> Cardinality(packets) + 1,
                   subject |-> subject, generated_at |-> clock]
    IN  /\ claims # {}
        /\ Cardinality(claims) <= MaxClaims
        /\ Cardinality({e.ceiling : e \in claims}) = 1
        /\ \A e \in claims :
              /\ ValidAt(e, clock)
              /\ \E ids \in SUBSET EvidenceIds \ {{}} :
                    /\ \A i \in ids : AcceptedFor(i, clock, subject[e], e.until)
                    /\ {RecordDigest(i) : i \in ids} = e.digests
        /\ ValidateCurrent(packet, clock)
        /\ Cardinality(packets) < MaxPackets
        /\ packets' = packets \cup {packet}
        /\ UNCHANGED <<evidence, envelopes, plan, copies, clock>>

-----------------------------------------------------------------------------
(* ReleaseRegistry as a value.                                             *)

(* validate: what a state requires of the packets behind it.               *)
ValidRelease(reg) ==
    \A c \in DOMAIN reg :
        LET r == reg[c]
        IN  /\ CASE r.state = "Shadow" -> Len(r.packets) = 0
                 [] r.state = "Canary" -> Len(r.packets) = 1
                 [] r.state = "ReleasedLocal" -> Len(r.packets) = 2
                 [] OTHER -> Len(r.packets) <= 2
            /\ \A i, j \in DOMAIN r.packets : i # j => r.packets[i] # r.packets[j]
            /\ r.packets # <<>> => r.packets[1] = r.evidence_digest

With(reg, c, r) == [x \in DOMAIN reg \cup {c} |-> IF x = c THEN r ELSE reg[x]]

(* Mutant: a candidate identity may be proposed again.                     *)
ProposedAgain(reg, c, packet) ==
    {With(reg, c, [state |-> "Shadow", evidence_digest |-> packet, packets |-> <<>>])}

Proposed(reg, c, packet) ==
    IF c \in DOMAIN reg THEN {}
    ELSE {With(reg, c, [state |-> "Shadow", evidence_digest |-> packet, packets |-> <<>>])}

(* advance_digest: the candidate's own packet first, then one not used.    *)
Advanced(reg, c, packet) ==
    IF \/ c \notin DOMAIN reg
       \/ reg[c].state \notin {"Shadow", "Canary"}
       \/ reg[c].state = "Shadow" /\ packet # reg[c].evidence_digest
    THEN {}
    ELSE LET next == With(reg, c, [reg[c] EXCEPT
                        !.state = IF @ = "Shadow" THEN "Canary" ELSE "ReleasedLocal",
                        !.packets = Append(@, packet)])
         IN  {n \in {next} : ValidRelease(n)}

Freeze(reg, c) ==
    IF c \notin DOMAIN reg \/ reg[c].state = "Frozen" THEN {}
    ELSE {With(reg, c, [reg[c] EXCEPT !.state = "Frozen"])}

Stale(reg, t) ==
    {c \in DOMAIN reg : /\ reg[c].state \in {"Canary", "ReleasedLocal"}
                        /\ \E i \in DOMAIN reg[c].packets : ~ValidateCurrent(reg[c].packets[i], t)}

Revalidated(reg, t) ==
    [c \in DOMAIN reg |-> IF c \in Stale(reg, t) THEN [reg[c] EXCEPT !.state = "Frozen"] ELSE reg[c]]

-----------------------------------------------------------------------------
(* Plans of the adaptation market and the processes.                       *)

(* select_plan: the usable candidate of highest priority.                  *)
SelectPlan(offered, packet) ==
    LET eligible == {c \in offered \cap Conclusive : AnchorFrom[c] <= clock /\ clock < AnchorUntil[c]}
    IN  \E c \in eligible :
            /\ plan = {}
            /\ \A d \in eligible : Priority[d] <= Priority[c]
            /\ plan' = {[candidate |-> c, evidence_digest |-> packet]}
            /\ UNCHANGED <<evidence, envelopes, packets, copies, clock>>

(* A call on p's copy that returned the registry in "result".              *)
Apply(p, result) ==
    /\ \E r \in result : registry' = [registry EXCEPT ![p] = {r}]
    /\ UNCHANGED <<evidence, envelopes, packets, plan, released, pass, missed, clock>>

Propose(p, c, packet) == \E r \in registry[p] : Apply(p, Proposed(r, c, packet))
StageShadow(p) ==
    \E r \in registry[p], a \in plan : Apply(p, Proposed(r, a.candidate, a.evidence_digest))
AdvanceWithPacket(p, c, packet) ==
    \E r \in registry[p] : ValidateCurrent(packet, clock) /\ Apply(p, Advanced(r, c, packet))
FreezeCandidate(p, c) == \E r \in registry[p] : Apply(p, Freeze(r, c))
RevalidateEvidence(p) == \E r \in registry[p] : Apply(p, {Revalidated(r, clock)})

FrozenIn(reg) == {c \in DOMAIN reg : reg[c].state = "Frozen"}

(* "of" has written its copy: it is up to date, and the others miss the    *)
(* freezes in it that were not in the file before.                         *)
WriteBack(of, reg) ==
    /\ released' = reg
    /\ missed' = [x \in DOMAIN missed |->
                     IF x = of THEN {} ELSE missed[x] \cup (FrozenIn(reg) \ FrozenIn(released))]

Load(p) ==
    /\ registry' = [registry EXCEPT ![p] = {released}]
    /\ missed' = [missed EXCEPT ![p] = {}]
    /\ UNCHANGED <<evidence, envelopes, packets, plan, released, pass, clock>>

Save(p) ==
    /\ \E r \in registry[p] : ValidRelease(r) /\ WriteBack(p, r)
    /\ UNCHANGED <<evidence, envelopes, packets, plan, registry, pass, clock>>

(* revalidate_and_save: load and revalidate, then save and report.         *)
BeginPass ==
    /\ pass = {}
    /\ pass' = {Revalidated(released, clock)}
    /\ missed' = [missed EXCEPT !["pass"] = {}]
    /\ UNCHANGED <<evidence, envelopes, packets, plan, registry, released, clock>>

EndPass ==
    /\ \E r \in pass : WriteBack("pass", r)
    /\ pass' = {}
    /\ UNCHANGED <<evidence, envelopes, packets, plan, registry, clock>>

ReleaseTick ==
    /\ clock < MaxReleaseTime
    /\ clock' = clock + 1
    /\ UNCHANGED <<evidence, envelopes, packets, plan, copies>>

ReleaseNext ==
    \/ \E i \in EvidenceIds : Accept(i) \/ Revoke(i)
    \/ \E c \in Claims : Draft(c)
    \/ \E a, b \in envelopes : MeetClaims(a, b)
    \/ \E claims \in SUBSET envelopes : \E subject \in [claims -> Subjects] :
          FromEnvelopes(claims, subject)
    \/ \E offered \in SUBSET Candidates, packet \in packets : SelectPlan(offered, packet)
    \/ \E p \in Procs :
          \/ \E c \in Candidates :
                \/ \E packet \in packets : Propose(p, c, packet) \/ AdvanceWithPacket(p, c, packet)
                \/ FreezeCandidate(p, c)
          \/ StageShadow(p) \/ RevalidateEvidence(p)
          \/ Load(p) \/ Save(p)
    \/ BeginPass \/ EndPass
    \/ ReleaseTick

ReleaseSpec == ReleaseInit /\ [][ReleaseNext]_releaseVars

-----------------------------------------------------------------------------
(* However claims were drafted and met, a claim in a packet promises only  *)
(* what every claim it was made from promises, nothing that one of them    *)
(* excludes, for no longer than any of them and than the evidence under    *)
(* it (meet, from_envelopes and accepted_digest_for of claims.rs).         *)
PacketPromisesNoMore ==
    \A packet \in packets : \A e \in DOMAIN packet.subject : \A c \in e.from :
        /\ e.guarantees \subseteq Guarantees[c] \ Excludes[c]
        /\ e.until <= ClaimUntil[c]
        /\ \A i \in Cites[c] : e.until <= EvidenceUntil[i] /\ SubjectOf[i] = packet.subject[e]

(* Frozen is terminal in the file too, but for one way: load and save take *)
(* no common lock, so that a process that has read the file before the     *)
(* freeze was written (with load, or at the start of revalidate_and_save)  *)
(* can save the release as it knows it.  No later copy brings it back, by  *)
(* whatever calls of propose, stage_shadow and advance_with_packet.        *)
FreezeLostOnlyToOlder ==
    [][\A c \in FrozenIn(released) \ FrozenIn(released') :
          \/ \E p \in Procs : c \in missed[p] /\ released' \in registry[p]
          \/ c \in missed["pass"] /\ released' \in pass]_releaseVars
=============================================================================
