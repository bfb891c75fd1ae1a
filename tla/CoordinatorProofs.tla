-------------------------- MODULE CoordinatorProofs --------------------------
(* The answers of the patch coordinator, for any packets, acceptances,     *)
(* contents and number of calls, and any executor.                         *)
EXTENDS Coordinator, TLAPS

(* What apply keeps: a packet that was tried is consumed, and was tried    *)
(* once.                                                                   *)
TriedOnce ==
    /\ frozen \in BOOLEAN
    /\ tried \subseteq consumed
    /\ twice = {}

(* A packet that apply does not refuse has an acceptance that was not      *)
(* consumed, and the target has the bytes it expects.                      *)
LEMMA NotRefused ==
    ASSUME NEW packet \in Packets, NEW t,
           NEW acceptance \in {{}} \cup {{a} : a \in Acceptances},
           Refusal(packet, acceptance, t) = {}
    PROVE  packet \notin consumed /\ target = {packet.proposal.before}
<1> DEFINE p == packet.proposal
           e == packet.evaluation
<1>1. /\ acceptance # {}
      /\ \A a \in acceptance : a.packet \notin consumed
      /\ \A a \in acceptance : ValidAcceptance(a, packet, t)
      /\ target = {p.before}
  BY DEF Refusal
<1>2. PICK a \in acceptance : TRUE
  BY <1>1
<1>3. a.packet = packet
  BY <1>1 DEF ValidAcceptance
<1> QED
  BY <1>1, <1>2, <1>3

(* The step of the action property AnswerTellsFile.                        *)
Tells ==
    /\ outcome'.status = "Applied" =>
          \E p \in tried' \ tried :
             target = {p.proposal.before} /\ target' = {p.proposal.after}
    /\ outcome'.status \in {"RolledBack", "Quarantined"} => target' = target
    /\ frozen => frozen' /\ target' = target
    /\ twice' = {}

(* An answer without a change: Frozen or Quarantined.                      *)
LEMMA AnswerStep ==
    ASSUME TriedOnce, NEW status \in {"Frozen", "Quarantined"}, NEW reason, Answer(status, reason)
    PROVE  TriedOnce' /\ Tells
BY DEF TriedOnce, Tells, Answer, Outcome

(* A change and its rollback, of a packet that was not refused.            *)
LEMMA ChangeStep ==
    ASSUME TriedOnce, ~frozen, NEW packet \in Packets, packet \notin consumed,
           target = {packet.proposal.before}, Change(packet)
    PROVE  TriedOnce' /\ Tells
<1> DEFINE p == packet.proposal
<1>1. /\ tried' = tried \cup {packet}
      /\ twice' = twice \cup (tried \cap {packet})
      /\ consumed' = consumed \cup {packet}
  BY DEF Change, Consume
<1>2. packet \in tried' \ tried
  BY <1>1 DEF TriedOnce
<1>3. tried' \subseteq consumed' /\ twice' = {}
  BY <1>1, <1>2 DEF TriedOnce
<1>4. CASE \E w \in Write(p.after), readable \in BOOLEAN :
              /\ ReadsBack(w, p.after, readable)
              /\ target' = {w.content}
              /\ Outcome("Applied", "none")
              /\ UNCHANGED frozen
  <2>1. target' = {p.after} /\ outcome'.status = "Applied" /\ frozen' = frozen
    BY <1>4 DEF ReadsBack, Outcome
  <2> QED
    BY <1>2, <1>3, <2>1 DEF TriedOnce, Tells
<1>5. CASE \E w \in Write(p.after), u \in Write(p.before), again \in BOOLEAN :
              /\ target' = {u.content}
              /\ frozen' = ~Restored(u, p.before, again)
              /\ IF frozen' THEN Outcome("Frozen", "RollbackFailed")
                 ELSE Outcome("RolledBack", IF w.ok THEN "PostcheckFailed" ELSE "WriteFailed")
  <2>1. PICK w \in Write(p.after), u \in Write(p.before), again \in BOOLEAN :
              /\ target' = {u.content}
              /\ frozen' = ~Restored(u, p.before, again)
              /\ IF frozen' THEN Outcome("Frozen", "RollbackFailed")
                 ELSE Outcome("RolledBack", IF w.ok THEN "PostcheckFailed" ELSE "WriteFailed")
    BY <1>5
  <2>2. frozen' \in BOOLEAN
    BY <2>1
  <2>3. CASE frozen'
    <3>1. outcome'.status = "Frozen"
      BY <2>1, <2>3 DEF Outcome
    <3> QED
      BY <1>3, <2>2, <3>1 DEF TriedOnce, Tells
  <2>4. CASE ~frozen'
    <3>1. outcome'.status = "RolledBack"
      BY <2>1, <2>4 DEF Outcome
    <3>2. target' = target
      BY <2>1, <2>4 DEF Restored, ReadsBack
    <3> QED
      BY <1>3, <2>2, <3>1, <3>2 DEF TriedOnce, Tells
  <2> QED
    BY <2>2, <2>3, <2>4
<1> QED
  BY <1>4, <1>5 DEF Change

(* Every call keeps TriedOnce and answers truly.                           *)
LEMMA ApplyStep ==
    ASSUME TriedOnce, CoordinatorNext
    PROVE  TriedOnce' /\ Tells
<1>1. PICK packet \in Packets, t \in 1..MaxApplyTime,
           acceptance \in {{}} \cup {{a} : a \in Acceptances} : ApplyPatch(packet, acceptance, t)
  BY DEF CoordinatorNext
<1>2. CASE frozen
  BY <1>1, <1>2, AnswerStep DEF ApplyPatch
<1>3. CASE ~frozen /\ Refusal(packet, acceptance, t) # {}
  BY <1>1, <1>3, AnswerStep DEF ApplyPatch
<1>4. CASE ~frozen /\ Refusal(packet, acceptance, t) = {}
  <2>1. Answer("Quarantined", "MissingTarget") \/ Change(packet)
    BY <1>1, <1>4 DEF ApplyPatch
  <2>2. packet \notin consumed /\ target = {packet.proposal.before}
    BY <1>4, NotRefused
  <2> QED
    BY <1>4, <2>1, <2>2, AnswerStep, ChangeStep
<1> QED
  BY <1>2, <1>3, <1>4

(* A packet is tried at most once, for every instance: the invariant that  *)
(* consumed_acceptances keeps in apply.                                    *)
THEOREM TriedAtMostOnce == CoordinatorSpec => []TriedOnce
<1>1. ASSUME CoordinatorInit PROVE TriedOnce
  BY <1>1 DEF CoordinatorInit, TriedOnce
<1>2. TriedOnce /\ [CoordinatorNext]_coordinatorVars => TriedOnce'
  <2>1. ASSUME TriedOnce, CoordinatorNext PROVE TriedOnce'
    BY <2>1, ApplyStep
  <2>2. ASSUME TriedOnce, UNCHANGED coordinatorVars PROVE TriedOnce'
    BY <2>2 DEF TriedOnce, coordinatorVars
  <2> QED
    BY <2>1, <2>2
<1> QED
  BY <1>1, <1>2, PTL DEF CoordinatorSpec

(* The answer of apply tells what is in the file, for every instance and   *)
(* every executor (AnswerTellsFile).                                       *)
THEOREM AnswersAreTrue == CoordinatorSpec => AnswerTellsFile
<1>1. TriedOnce /\ [CoordinatorNext]_coordinatorVars => [Tells]_coordinatorVars
  BY ApplyStep
<1>2. CoordinatorSpec => [][Tells]_coordinatorVars
  BY <1>1, TriedAtMostOnce, PTL DEF CoordinatorSpec
<1> QED
  BY <1>2 DEF AnswerTellsFile, Tells
=============================================================================
