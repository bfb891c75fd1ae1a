------------------------------- MODULE Assurance -------------------------------
(***************************************************************************)
(* src/src/artifacts.rs and custody.rs, and the check that integration.rs  *)
(* makes of both before a run: an accepted artifact in its retention       *)
(* interval, an active custody record bound to it, and the bytes of the    *)
(* local file, read in pieces while another process may write the file.    *)
(*                                                                         *)
(* The two registries are values: a process holds them in memory and saves *)
(* them.  A digest is what it is a digest of; the file is a sequence of    *)
(* pieces and a stamp, which stands for the fields of                      *)
(* local_file_fingerprint and differs after every write.                   *)
(***************************************************************************)
EXTENDS Naturals, FiniteSets, Sequences

CONSTANTS
    Artifacts,      \* artifact and custody identities
    Subject,        \* Subject[a]: the subject_digest, a sequence of pieces
    RetentionStart, \* RetentionStart[a]
    RetentionUntil, \* RetentionUntil[a]
    CustodyExpires, \* CustodyExpires[a]: expires_at of the root
    RawUntils,      \* raw_retention_until of the roots that callers declare
    MaxRetention,   \* MAX_RAW_RETENTION_SECONDS
    Roles,          \* role assertions of artifact records
    CustodyRoles,   \* role assertions of custody records
    Pieces,         \* contents of a piece of a file
    MaxBytes,       \* pieces max_bytes allows
    MaxWrites,      \* bound on the writes of the other process
    MaxAssuranceTime

VARIABLES
    artifacts,  \* ArtifactRegistry in memory: Option of [id -> record]
    custody,    \* CustodyRegistry in memory: Option of [id -> record]
    kept,       \* the files of both: [artifacts, custody]
    bytes,      \* the local file: [pieces, stamp]
    reading,    \* the check in progress: Option of a record; history whole: the file
                \* held the artifact's bytes at a moment of the check
    passed,     \* history: [artifact, whole] of the checks that succeeded
    assuranceTime

assuranceVars == <<artifacts, custody, kept, bytes, reading, passed, assuranceTime>>
world == <<bytes, reading, passed, assuranceTime>>

None == [a \in {} |-> "none"]

AssuranceInit ==
    /\ artifacts = {None}
    /\ custody = {None}
    /\ kept = [artifacts |-> None, custody |-> None]
    /\ bytes \in {[pieces |-> s, stamp |-> 0] : s \in [1..2 -> Pieces]}
    /\ reading = {}
    /\ passed = {}
    /\ assuranceTime = 1

Put(reg, a, r) == [x \in DOMAIN reg \cup {a} |-> IF x = a THEN r ELSE reg[x]]

-----------------------------------------------------------------------------
(* ArtifactRegistry as a value.  Custody root and manifest share the       *)
(* identity of the artifact.                                               *)

ActiveManifest(a, t) == RetentionStart[a] <= t /\ t < RetentionUntil[a]
DistinctRoles(operator, validator) == operator # validator

ValidArtifacts(reg) ==
    \A a \in DOMAIN reg :
        LET r == reg[a]
        IN  /\ DistinctRoles(r.operator, r.validator)
            /\ CASE r.status = "Quarantined" -> r.reviewer = {} /\ r.accepted_at = {} /\ r.revoked_at = {}
                 [] r.status = "Accepted" ->
                      /\ r.reviewer # {} /\ r.reviewer \cap {r.operator, r.validator} = {}
                      /\ r.accepted_at # {} /\ \A t \in r.accepted_at : ActiveManifest(a, t)
                      /\ r.revoked_at = {}
                 [] r.status = "Revoked" ->
                      /\ r.revoked_at # {}
                      /\ (r.accepted_at = {}) = (r.reviewer = {})
                      /\ r.reviewer \cap {r.operator, r.validator} = {}
                      /\ \A t \in r.accepted_at : ActiveManifest(a, t) /\ \A u \in r.revoked_at : t <= u

QuarantineIn(reg, a, operator, validator) ==
    IF a \in DOMAIN reg \/ ~DistinctRoles(operator, validator) THEN {}
    ELSE {Put(reg, a, [operator |-> operator, validator |-> validator, reviewer |-> {},
                       status |-> "Quarantined", accepted_at |-> {}, revoked_at |-> {}])}

AcceptIn(reg, a, reviewer, t) ==
    IF \/ a \notin DOMAIN reg \/ reg[a].status # "Quarantined" \/ ~ActiveManifest(a, t)
       \/ reviewer \in {reg[a].operator, reg[a].validator} THEN {}
    ELSE {Put(reg, a, [reg[a] EXCEPT !.reviewer = {reviewer}, !.accepted_at = {t}, !.status = "Accepted"])}

RevokeArtifactIn(reg, a, t) ==
    IF \/ a \notin DOMAIN reg \/ reg[a].status = "Revoked"
       \/ \E u \in reg[a].accepted_at : t < u THEN {}
    ELSE {r \in {Put(reg, a, [reg[a] EXCEPT !.status = "Revoked", !.revoked_at = {t}])} : ValidArtifacts(r)}

RequireValid(reg, a, subject, t) ==
    /\ a \in DOMAIN reg
    /\ reg[a].status = "Accepted"
    /\ ActiveManifest(a, t)
    /\ Subject[a] = subject
    /\ reg[a].reviewer # {} /\ reg[a].reviewer \cap {reg[a].operator, reg[a].validator} = {}

-----------------------------------------------------------------------------
(* CustodyRegistry as a value; a root is created at 1.                     *)

ActiveRoot(a, t) == 1 <= t /\ t < CustodyExpires[a]
RawRetentionActive(r, t) == 1 <= t /\ t < r.raw_until
ValidRoot(a, raw) ==
    /\ 1 < CustodyExpires[a]
    /\ raw \in 1..CustodyExpires[a]
    /\ raw - 1 <= MaxRetention

DeclareIn(reg, a, owner, validator, raw) ==
    IF a \in DOMAIN reg \/ owner = validator \/ ~ValidRoot(a, raw) THEN {}
    ELSE {Put(reg, a, [owner |-> owner, validator |-> validator, raw_until |-> raw,
                       status |-> "Active"])}

MarkDeletedIn(reg, a, owner) ==
    IF a \notin DOMAIN reg \/ reg[a].status # "Active" \/ reg[a].owner # owner THEN {}
    ELSE {Put(reg, a, [reg[a] EXCEPT !.status = "Deleted"])}

RequireArtifact(reg, c, a, t) ==
    /\ c \in DOMAIN reg
    /\ reg[c].status = "Active" /\ ActiveRoot(c, t) /\ RawRetentionActive(reg[c], t)
    /\ Subject[c] = Subject[a]
    /\ c = a

-----------------------------------------------------------------------------
(* Calls on the registries in memory, none while a check borrows them.     *)

OnArtifacts(result(_)) ==
    /\ reading = {}
    /\ \E reg \in artifacts : result(reg) # {} /\ artifacts' = result(reg)
    /\ UNCHANGED <<custody, kept, world>>

OnCustody(result(_)) ==
    /\ reading = {}
    /\ \E reg \in custody : result(reg) # {} /\ custody' = result(reg)
    /\ UNCHANGED <<artifacts, kept, world>>

QuarantineArtifact(a, operator, validator) ==
    OnArtifacts(LAMBDA reg : QuarantineIn(reg, a, operator, validator))
AcceptArtifact(a, reviewer) == OnArtifacts(LAMBDA reg : AcceptIn(reg, a, reviewer, assuranceTime))
RevokeArtifact(a) == OnArtifacts(LAMBDA reg : RevokeArtifactIn(reg, a, assuranceTime))
Declare(a, owner, validator, raw) ==
    OnCustody(LAMBDA reg : DeclareIn(reg, a, owner, validator, raw))
MarkDeleted(a, owner) == OnCustody(LAMBDA reg : MarkDeletedIn(reg, a, owner))

SaveArtifacts ==
    /\ reading = {}
    /\ \E reg \in artifacts : ValidArtifacts(reg) /\ kept' = [kept EXCEPT !.artifacts = reg]
    /\ UNCHANGED <<artifacts, custody, world>>

SaveCustody ==
    /\ reading = {}
    /\ \E reg \in custody : kept' = [kept EXCEPT !.custody = reg]
    /\ UNCHANGED <<artifacts, custody, world>>

CrashAssurance ==
    /\ artifacts # {}
    /\ artifacts' = {} /\ custody' = {} /\ reading' = {}
    /\ UNCHANGED <<kept, bytes, passed, assuranceTime>>

RecoverAssurance ==
    /\ artifacts = {}
    /\ ValidArtifacts(kept.artifacts)
    /\ artifacts' = {kept.artifacts} /\ custody' = {kept.custody}
    /\ UNCHANGED <<kept, world>>

-----------------------------------------------------------------------------
(* local_artifact_custody_is_valid: the registries, then the open file is  *)
(* read piece by piece between two looks at its metadata.                  *)

BeginCheck(a, c, subject) ==
    /\ reading = {}
    /\ \E reg \in artifacts : RequireValid(reg, a, subject, assuranceTime)
    /\ \E reg \in custody : RequireArtifact(reg, c, a, assuranceTime)
    /\ Len(bytes.pieces) <= MaxBytes
    /\ reading' = {[artifact |-> a, stamp |-> bytes.stamp, len |-> Len(bytes.pieces),
                    got |-> <<>>, whole |-> bytes.pieces = Subject[a]]}
    /\ UNCHANGED <<artifacts, custody, kept, bytes, passed, assuranceTime>>

ReadPiece ==
    /\ \E r \in reading :
          /\ Len(r.got) < Len(bytes.pieces)
          /\ reading' = IF Len(r.got) = MaxBytes THEN {}
                        ELSE {[r EXCEPT !.got = Append(@, bytes.pieces[Len(@) + 1])]}
    /\ UNCHANGED <<artifacts, custody, kept, bytes, passed, assuranceTime>>

(* Mutant: the second look at the metadata compares the length only.       *)
UnchangedLength(r) == Len(r.got) = r.len /\ Len(bytes.pieces) = r.len

UnchangedFile(r) ==
    Len(r.got) = r.len /\ Len(bytes.pieces) = r.len /\ bytes.stamp = r.stamp

EndCheck ==
    /\ \E r \in reading :
          /\ Len(r.got) >= Len(bytes.pieces)
          /\ passed' = IF UnchangedFile(r) /\ r.got = Subject[r.artifact]
                       THEN passed \cup {[artifact |-> r.artifact, whole |-> r.whole]} ELSE passed
    /\ reading' = {}
    /\ UNCHANGED <<artifacts, custody, kept, bytes, assuranceTime>>

(* Another process changes the file.                                       *)
Rewritten(new) ==
    /\ bytes.stamp < MaxWrites
    /\ bytes' = [pieces |-> new, stamp |-> bytes.stamp + 1]
    /\ reading' = {[r EXCEPT !.whole = @ \/ new = Subject[r.artifact]] : r \in reading}
    /\ UNCHANGED <<artifacts, custody, kept, passed, assuranceTime>>

(* It writes over a piece, appends one, or cuts the last one off.          *)
WritePiece(i, piece) ==
    /\ i \in DOMAIN bytes.pieces
    /\ Rewritten([bytes.pieces EXCEPT ![i] = piece])

AppendPiece(piece) == Rewritten(Append(bytes.pieces, piece))

CutPiece ==
    /\ bytes.pieces # <<>>
    /\ Rewritten(SubSeq(bytes.pieces, 1, Len(bytes.pieces) - 1))

AssuranceTick ==
    /\ assuranceTime < MaxAssuranceTime
    /\ assuranceTime' = assuranceTime + 1
    /\ UNCHANGED <<artifacts, custody, kept, bytes, reading, passed>>

AssuranceNext ==
    \/ \E a \in Artifacts :
          \/ \E r, s \in Roles : QuarantineArtifact(a, r, s)
          \/ \E r, s \in CustodyRoles, raw \in RawUntils : Declare(a, r, s, raw)
          \/ \E r \in Roles : AcceptArtifact(a, r)
          \/ \E r \in CustodyRoles : MarkDeleted(a, r)
          \/ RevokeArtifact(a)
          \/ \E c \in Artifacts, s \in {Subject[x] : x \in Artifacts} : BeginCheck(a, c, s)
    \/ SaveArtifacts \/ SaveCustody \/ CrashAssurance \/ RecoverAssurance
    \/ ReadPiece \/ EndCheck
    \/ \E i \in DOMAIN bytes.pieces, piece \in Pieces : WritePiece(i, piece)
    \/ \E piece \in Pieces : AppendPiece(piece)
    \/ CutPiece
    \/ AssuranceTick

AssuranceSpec == AssuranceInit /\ [][AssuranceNext]_assuranceVars

-----------------------------------------------------------------------------
(* Every record of the registry old that is in this final status has it in *)
(* the registry new.                                                       *)
StaysEnded(old, new, status) ==
    \A a \in DOMAIN old : old[a].status = status => a \in DOMAIN new /\ new[a].status = status

(* A check of the local bytes succeeds only if the whole file held the     *)
(* artifact's bytes at one moment of the check: a file that is written     *)
(* while it is read is not accepted for pieces of two versions             *)
(* (verify_open_local_artifact).  And a saved revocation of an artifact or *)
(* deletion from custody outlives every later call, crash and recovery     *)
(* ("Revocation is terminal for this local record").                       *)
CheckedBytesExisted ==
    [][/\ \A r \in passed' : r.whole
       /\ StaysEnded(kept.artifacts, kept'.artifacts, "Revoked")
       /\ StaysEnded(kept.custody, kept'.custody, "Deleted")]_assuranceVars
=============================================================================
