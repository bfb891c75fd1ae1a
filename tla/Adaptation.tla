------------------------------ MODULE Adaptation ------------------------------
(***************************************************************************)
(* src/src/adaptation.rs: the record of one candidate, carried by evidence *)
(* from Shadow to ReleasedLocal, and its file.  A method changes the       *)
(* record before it validates it: a call that fails can leave a record in  *)
(* memory that validates no more.  save writes path.tmp and renames it;    *)
(* recover takes path.tmp only when there is no file.                      *)
(***************************************************************************)
EXTENDS Naturals, FiniteSets

CONSTANTS
    Proofs,    \* evidence and approval digests
    Unhealthy  \* those of evidence with healthy = false, or of a wrong role

VARIABLES
    adaptation,  \* Option of the AdaptationRecord in memory
    saved,       \* the file: Option of a record
    temporary    \* path.tmp: Option of a record or Torn

adaptationVars == <<adaptation, saved, temporary>>

NewAdaptation ==
    [state |-> "Shadow", shadow |-> {}, canary |-> {}, promotion |-> {}, reason |-> FALSE]

Torn == [state |-> "torn"]

AdaptationInit ==
    /\ adaptation = {NewAdaptation}
    /\ saved = {}
    /\ temporary = {}

-----------------------------------------------------------------------------
(* Evidence each state requires and excludes.                              *)
PhasesFit(r) ==
    CASE r.state = "Shadow" -> r.shadow = {} /\ r.canary = {} /\ r.promotion = {}
      [] r.state = "Canary" -> r.shadow # {} /\ r.canary = {} /\ r.promotion = {}
      [] r.state = "CandidateApproved" -> r.shadow # {} /\ r.canary # {} /\ r.promotion = {}
      [] r.state = "ReleasedLocal" -> r.shadow # {} /\ r.canary # {} /\ r.promotion # {}
      [] OTHER -> r.reason

(* Mutant: evidence of one phase may serve another.                        *)
ValidateReuse(r) == PhasesFit(r)

Validate(r) ==
    /\ PhasesFit(r)
    /\ Cardinality(r.shadow) + Cardinality(r.canary) + Cardinality(r.promotion)
         = Cardinality(r.shadow \cup r.canary \cup r.promotion)

RecordShadow(r, d) ==
    IF r.state # "Shadow" \/ d \in Unhealthy THEN {}
    ELSE {[r EXCEPT !.shadow = {d}, !.state = "Canary"]}

RecordCanary(r, d) ==
    IF r.state # "Canary" \/ d \in Unhealthy \/ r.shadow = {d} THEN {}
    ELSE {[r EXCEPT !.canary = {d}, !.state = "CandidateApproved"]}

Promote(r, d) ==
    IF r.state # "CandidateApproved" THEN {}
    ELSE {[r EXCEPT !.promotion = {d}, !.state = "ReleasedLocal"]}

Rollback(r) ==
    IF r.state \in {"RolledBack", "Frozen"} THEN {}
    ELSE {[r EXCEPT !.reason = TRUE, !.state = "RolledBack"]}

FreezeRecord(r) ==
    IF r.state = "Frozen" THEN {}
    ELSE {[r EXCEPT !.reason = TRUE, !.state = "Frozen"]}

-----------------------------------------------------------------------------
(* A method call: the record is changed whether or not it then validates.  *)
Method(results) ==
    /\ results # {}
    /\ adaptation' = results
    /\ UNCHANGED <<saved, temporary>>

(* The two steps of save, the write of path.tmp possibly torn by a crash.  *)
WriteTemporary ==
    /\ \E r \in adaptation : Validate(r) /\ temporary' = {r}
    /\ UNCHANGED <<adaptation, saved>>

RenameTemporary ==
    /\ adaptation # {}
    /\ temporary = adaptation
    /\ saved' = temporary
    /\ temporary' = {}
    /\ UNCHANGED adaptation

CrashAdaptation ==
    /\ adaptation # {}
    /\ adaptation' = {}
    /\ \/ UNCHANGED temporary
       \/ \E r \in adaptation : Validate(r) /\ temporary' = {Torn}
    /\ UNCHANGED saved

RecoverAdaptation ==
    /\ adaptation = {}
    /\ LET found == IF saved # {} THEN saved ELSE temporary \ {Torn}
       IN  /\ found # {}
           /\ \A r \in found : Validate(r)
           /\ adaptation' = found
           /\ saved' = found
           /\ temporary' = IF saved # {} THEN temporary ELSE {}

AdaptationNext ==
    \/ \E r \in adaptation :
          \/ \E d \in Proofs : \/ Method(RecordShadow(r, d))
                               \/ Method(RecordCanary(r, d))
                               \/ Method(Promote(r, d))
          \/ Method(Rollback(r))
          \/ Method(FreezeRecord(r))
    \/ WriteTemporary \/ RenameTemporary \/ CrashAdaptation \/ RecoverAdaptation

AdaptationSpec == AdaptationInit /\ [][AdaptationNext]_adaptationVars

-----------------------------------------------------------------------------
(* No two phases share evidence, the first two rest on healthy evidence,   *)
(* and a release rests on three pieces.                                    *)
Sound(r) ==
    /\ r.shadow \cap r.canary = {} /\ (r.shadow \cup r.canary) \cap r.promotion = {}
    /\ (r.shadow \cup r.canary) \cap Unhealthy = {}
    /\ r.state = "ReleasedLocal" =>
          Cardinality(r.shadow \cup r.canary \cup r.promotion) = 3

(* s has lost nothing of r: neither a stop nor evidence.                   *)
Keeps(r, s) ==
    /\ r.state = "Frozen" => s.state = "Frozen"
    /\ r.state = "RolledBack" => s.state \in {"RolledBack", "Frozen"}
    /\ r.shadow \subseteq s.shadow /\ r.canary \subseteq s.canary
    /\ r.promotion \subseteq s.promotion

(* Whatever failed calls left in memory, the file and a whole temporary    *)
(* hold no record whose phases share evidence, and a release only on three *)
(* pieces of evidence, the first two healthy (promote changes the record   *)
(* before validate_body looks at it; save validates).  And the file never  *)
(* loses a stop: frozen stays, a rollback can only become a freeze, and    *)
(* evidence once saved is kept, through crashes and recoveries.            *)
FileIsSound ==
    [][/\ \A r \in saved' \cup (temporary' \ {Torn}) : Sound(r)
       /\ \A r \in saved : \E s \in saved' : Keeps(r, s)]_adaptationVars
=============================================================================
