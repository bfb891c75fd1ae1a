----------------------------- MODULE Coordinator -----------------------------
(***************************************************************************)
(* src/src/maintenance.rs: the in-memory coordinator that applies an       *)
(* accepted one-file patch through a caller's executor and undoes it when  *)
(* the write fails or does not read back.  A digest is what it is a digest *)
(* of; times of calls come from the caller.                                *)
(***************************************************************************)
EXTENDS Naturals, FiniteSets

CONSTANTS
    Packets,        \* set of [proposal, evaluation]
    Acceptances,    \* set of [packet, reviewer_role, accepted_at, expires_at]
    Requirements,   \* the coordinator's test roster, a set of test identities
    EvaluatorRole,
    ReviewerRole,
    Contents,       \* contents of the target
    MaxApplies,     \* bound on the calls of apply
    MaxApplyTime    \* bound on their times

VARIABLES
    target,     \* Option of the content of the executor's file
    consumed,   \* packets of consumed acceptances
    frozen,
    outcome,    \* [status, reason, packet] of the last apply
    tried,      \* history: the packets that apply began to write
    twice,      \* history: the packets that it began to write again
    applies

coordinatorVars == <<target, consumed, frozen, outcome, tried, twice, applies>>

CoordinatorInit ==
    /\ target \in {{}} \cup {{c} : c \in Contents}
    /\ consumed = {}
    /\ frozen = FALSE
    /\ outcome = [status |-> "none", reason |-> "none"]
    /\ tried = {}
    /\ twice = {}
    /\ applies = 0

-----------------------------------------------------------------------------
(* The validity of a packet and of its acceptance.                         *)

ValidProposal(p, t) ==
    /\ p.before # p.after
    /\ p.proposed_at <= t
    /\ p.expires_at > p.proposed_at
    /\ p.expires_at > t

ValidEvaluation(e, p, t) ==
    /\ e.evaluator_role # p.proposer_role
    /\ e.evaluated_at <= t
    /\ e.evaluated_at >= p.proposed_at
    /\ e.expires_at > e.evaluated_at
    /\ e.expires_at > t
    /\ e.requirements = p.requirements
    /\ e.proposal = p
    /\ e.accepted
    /\ e.passed = p.requirements

ValidAcceptance(a, packet, t) ==
    /\ a.packet = packet
    /\ a.accepted_at <= t
    /\ a.expires_at > a.accepted_at
    /\ a.accepted_at >= packet.evaluation.evaluated_at
    /\ a.expires_at > t
    /\ a.reviewer_role \notin {packet.proposal.proposer_role, packet.evaluation.evaluator_role}

(* Why apply quarantines, in the order of its checks; {} when it does not. *)
Refusal(packet, acceptance, t) ==
    LET p == packet.proposal
        e == packet.evaluation
    IN  CASE p.expires_at <= t \/ e.expires_at <= t -> {"ExpiredEvidence"}
          [] \/ p.requirements # Requirements \/ e.requirements # Requirements
             \/ e.evaluator_role # EvaluatorRole
             \/ \E a \in acceptance : a.reviewer_role # ReviewerRole -> {"MismatchedEvidence"}
          [] ~ValidProposal(p, t) \/ ~ValidEvaluation(e, p, t) -> {"InvalidEvidence"}
          [] acceptance = {} -> {"MissingAcceptance"}
          [] \E a \in acceptance : a.packet \in consumed -> {"ReplayedAcceptance"}
          [] \E a \in acceptance : a.expires_at <= t -> {"ExpiredEvidence"}
          [] \E a \in acceptance : ~ValidAcceptance(a, packet, t) -> {"MismatchedEvidence"}
          [] target = {} -> {"MissingTarget"}
          [] target # {p.before} -> {"BeforeDigestMismatch"}
          [] OTHER -> {}

-----------------------------------------------------------------------------
(* The executor: a write may fail, with or without an effect, or succeed   *)
(* and leave other bytes; a read may fail and else tells the content.      *)
Write(bytes) == {[ok |-> TRUE, content |-> c] : c \in Contents \cup {bytes}}
                  \cup {[ok |-> FALSE, content |-> c] : c \in Contents}

Outcome(status, reason) == outcome' = [status |-> status, reason |-> reason]

(* write and read back, the answer of the rollback, an outcome of "w".     *)
ReadsBack(w, bytes, readable) == w.ok /\ readable /\ w.content = bytes

Consume(packet) == consumed' = consumed \cup {packet}

Answer(status, reason) ==
    /\ Outcome(status, reason)
    /\ UNCHANGED <<target, consumed, frozen, tried, twice>>

(* Mutant: the rollback trusts the result of its write.                    *)
RestoredUnread(w, bytes, readable) == w.ok

Restored(w, bytes, readable) == ReadsBack(w, bytes, readable)

(* The change and, when it fails or does not read back, the rollback.      *)
Change(packet) ==
    LET p == packet.proposal
    IN  /\ tried' = tried \cup {packet}
        /\ twice' = twice \cup (tried \cap {packet})
        /\ \E w \in Write(p.after), readable \in BOOLEAN :
             \/ /\ ReadsBack(w, p.after, readable)
                /\ target' = {w.content}
                /\ Outcome("Applied", "none")
                /\ UNCHANGED frozen
             \/ /\ ~ReadsBack(w, p.after, readable)
                /\ \E u \in Write(p.before), again \in BOOLEAN :
                      /\ target' = {u.content}
                      /\ frozen' = ~Restored(u, p.before, again)
                      /\ IF frozen' THEN Outcome("Frozen", "RollbackFailed")
                         ELSE Outcome("RolledBack", IF w.ok THEN "PostcheckFailed" ELSE "WriteFailed")
        /\ Consume(packet)

(* apply.                                                                  *)
ApplyPatch(packet, acceptance, t) ==
    /\ applies < MaxApplies
    /\ applies' = applies + 1
    /\ IF frozen THEN Answer("Frozen", "RollbackFailed")
       ELSE IF Refusal(packet, acceptance, t) # {}
       THEN \E why \in Refusal(packet, acceptance, t) : Answer("Quarantined", why)
       ELSE \/ Answer("Quarantined", "MissingTarget")   \* the first read fails
            \/ Change(packet)

CoordinatorNext ==
    \E packet \in Packets, t \in 1..MaxApplyTime,
       acceptance \in {{}} \cup {{a} : a \in Acceptances} : ApplyPatch(packet, acceptance, t)

CoordinatorSpec == CoordinatorInit /\ [][CoordinatorNext]_coordinatorVars

-----------------------------------------------------------------------------
(* The answer of apply tells what is in the file, for any executor:        *)
(* Applied the packet's new bytes, RolledBack and Quarantined the bytes    *)
(* from before the call; only Frozen leaves them open, and then no later   *)
(* apply touches the file.  No acceptance lets a packet be written twice,  *)
(* also after the first attempt was rolled back and when other packets     *)
(* have brought back the bytes it expects (consumed_acceptances).          *)
AnswerTellsFile ==
    [][/\ outcome'.status = "Applied" =>
             \E p \in tried' \ tried :
                target = {p.proposal.before} /\ target' = {p.proposal.after}
       /\ outcome'.status \in {"RolledBack", "Quarantined"} => target' = target
       /\ frozen => frozen' /\ target' = target
       /\ twice' = {}]_coordinatorVars
=============================================================================
