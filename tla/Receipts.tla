------------------------------- MODULE Receipts -------------------------------
(***************************************************************************)
(* src/src/receipts.rs: capability receipts for accepted decisions and     *)
(* execution receipts under them, signed, and verified once; the checks of *)
(* src/src/checker.rs that repeat the verification, without a verifier's   *)
(* memory, for accept_broker_completion in src/src/integration.rs.         *)
(*                                                                         *)
(* A decision stands for the proposal, policy and capability it binds; a   *)
(* binding for the evidence, input and operation of an execution, whose    *)
(* output is OutputOf it.  A signature is the pair of the signing key and  *)
(* what was signed.                                                        *)
(***************************************************************************)
EXTENDS Naturals, FiniteSets

CONSTANTS
    Decisions,     \* set of [id, kind, issued_at, expires_at]
    ReceiptSubjects,
    Bindings,
    Outputs,
    OutputOf,      \* OutputOf[b]: transform_output of the input of binding b
    Keys,          \* signing keys
    KeyIds,        \* issuer key identities
    MaxIssued,     \* bound on the receipts made
    MaxReceiptTime

ASSUME ReceiptConstants ==
    /\ \A d \in Decisions : d.issued_at \in Nat /\ d.expires_at \in Nat
    /\ MaxReceiptTime \in Nat

VARIABLES
    capabilityReceipts,
    executionReceipts,
    trust,        \* Option of the verifier in memory: [keys, verified]
    trustFile,    \* its file
    granted,      \* history: acceptances [by, receipt, at, saved]
    receiptTime

receiptVars == <<capabilityReceipts, executionReceipts, trust, trustFile, granted, receiptTime>>

NoTrust == [keys |-> [k \in {} |-> "none"], verified |-> {}]

ReceiptsInit ==
    /\ capabilityReceipts = {}
    /\ executionReceipts = {}
    /\ trust = {NoTrust}
    /\ trustFile = NoTrust
    /\ granted = {}
    /\ receiptTime = 1

-----------------------------------------------------------------------------
(* ReceiptSigner: a key and the identity it signs under.                   *)

Signed(body, key) == [body |-> body, signature |-> <<key, body>>]
Issued(receipt, at) == receipt.body.issued_at <= at /\ at < receipt.body.expires_at
Room == Cardinality(capabilityReceipts) + Cardinality(executionReceipts) < MaxIssued

IssueAt(key, id, d, subject, from, until) ==
    /\ Room
    /\ d.kind = "Accepted"
    /\ from >= d.issued_at /\ until <= d.expires_at /\ from < until
    /\ capabilityReceipts' = capabilityReceipts \cup
         {Signed([decision |-> d, subject |-> subject, issuer_key_id |-> id,
                  issued_at |-> from, expires_at |-> until], key)}
    /\ UNCHANGED <<executionReceipts, trust, trustFile, granted, receiptTime>>

(* issue_execution: the decision is the caller's, not the receipt's.       *)
IssueExecution(key, id, c, d, binding, output) ==
    /\ Room
    /\ Issued(c, receiptTime)
    /\ executionReceipts' = executionReceipts \cup
         {Signed([capability |-> c.body, decision |-> d, subject |-> c.body.subject,
                  binding |-> binding, output |-> output, issuer_key_id |-> id,
                  issued_at |-> receiptTime, expires_at |-> c.body.expires_at], key)}
    /\ UNCHANGED <<capabilityReceipts, trust, trustFile, granted, receiptTime>>

(* A receipt whose window was altered after it was signed.                 *)
AlterWindow(c, until) ==
    /\ Room
    /\ capabilityReceipts' = capabilityReceipts \cup {[c EXCEPT !.body.expires_at = until]}
    /\ UNCHANGED <<executionReceipts, trust, trustFile, granted, receiptTime>>

-----------------------------------------------------------------------------
(* ReceiptVerifier.                                                        *)

RegisterKey(id, key) ==
    /\ \E v \in trust :
          /\ id \notin DOMAIN v.keys
          /\ trust' = {[v EXCEPT !.keys = [i \in DOMAIN @ \cup {id} |-> IF i = id THEN key ELSE @[i]]]}
    /\ UNCHANGED <<capabilityReceipts, executionReceipts, trustFile, granted, receiptTime>>

(* Mutant: the key is looked up and the signature not verified.            *)
KnownIssuer(v, r) == r.body.issuer_key_id \in DOMAIN v.keys

VerifySignature(v, r) ==
    /\ r.body.issuer_key_id \in DOMAIN v.keys
    /\ r.signature = <<v.keys[r.body.issuer_key_id], r.body>>

Binds(r, subject, d, t) ==
    /\ r.body.subject = subject
    /\ Issued(r, t)
    /\ d.kind = "Accepted"
    /\ r.body.decision = d
    /\ r.body.issued_at >= d.issued_at /\ r.body.expires_at <= d.expires_at

Links(e, c, binding, d, t) ==
    /\ Issued(e, t)
    /\ e.body.capability = c.body
    /\ e.body.subject = c.body.subject
    /\ e.body.issuer_key_id = c.body.issuer_key_id
    /\ e.body.binding = binding
    /\ e.body.decision = d

Verified(v, r) == IF r.body \in v.verified THEN {} ELSE {[v EXCEPT !.verified = @ \cup {r.body}]}

Record(v, r) ==
    /\ Verified(v, r) # {}
    /\ trust' = Verified(v, r)
    /\ granted' = granted \cup {[by |-> "verifier", receipt |-> r, at |-> receiptTime, saved |-> FALSE]}
    /\ UNCHANGED <<capabilityReceipts, executionReceipts, trustFile, receiptTime>>

VerifyReceipt(c, subject, d) ==
    \E v \in trust : Binds(c, subject, d, receiptTime) /\ VerifySignature(v, c) /\ Record(v, c)

VerifyExecution(e, c, binding, d) ==
    \E v \in trust :
        /\ Links(e, c, binding, d, receiptTime)
        /\ VerifySignature(v, c) /\ VerifySignature(v, e)
        /\ Record(v, e)

SaveTrust ==
    /\ \E v \in trust : trustFile' = v
    /\ granted' = {[g EXCEPT !.saved = TRUE] : g \in granted}
    /\ UNCHANGED <<capabilityReceipts, executionReceipts, trust, receiptTime>>

(* A crash loses the memory, and the acceptances no saved verifier knows.  *)
CrashTrust ==
    /\ trust # {}
    /\ trust' = {}
    /\ granted' = {g \in granted : g.saved}
    /\ UNCHANGED <<capabilityReceipts, executionReceipts, trustFile, receiptTime>>

RecoverTrust ==
    /\ trust = {}
    /\ trust' = {trustFile}
    /\ UNCHANGED <<capabilityReceipts, executionReceipts, trustFile, granted, receiptTime>>

ReceiptTick ==
    /\ receiptTime < MaxReceiptTime
    /\ receiptTime' = receiptTime + 1
    /\ UNCHANGED <<capabilityReceipts, executionReceipts, trust, trustFile, granted>>

-----------------------------------------------------------------------------
(* checker.rs, with the public key its caller has pinned.                  *)

CheckSignature(r, key) == r.signature = <<key, r.body>>

CheckCapabilityReceipt(r, subject, d, key, t) ==
    /\ d.kind = "Accepted"
    /\ r.body.subject = subject
    /\ r.body.issued_at < r.body.expires_at
    /\ r.body.issued_at >= d.issued_at
    /\ r.body.expires_at <= d.expires_at
    /\ r.body.issued_at <= t /\ t < r.body.expires_at
    /\ r.body.decision = d
    /\ CheckSignature(r, key)

CheckExecutionReceipt(e, c, binding, d, key, t) ==
    /\ e.body.issued_at < e.body.expires_at
    /\ e.body.issued_at <= t /\ t < e.body.expires_at
    /\ e.body.capability = c.body
    /\ e.body.subject = c.body.subject
    /\ e.body.issuer_key_id = c.body.issuer_key_id
    /\ e.body.binding = binding
    /\ e.body.decision = d
    /\ CheckSignature(e, key)

(* accept_broker_completion, of a request with this subject, binding and   *)
(* decision, the pinned issuer and the bytes found in the workspace: the   *)
(* source is still the input and the output is computed again.  A request  *)
(* or evidence that is no longer valid is refused like the rest and keeps  *)
(* no record of that.                                                      *)
AcceptCompletion(c, e, subject, binding, d, id, key, source, found) ==
    /\ c.body.issuer_key_id = id /\ e.body.issuer_key_id = id
    /\ CheckCapabilityReceipt(c, subject, d, key, receiptTime)
    /\ CheckExecutionReceipt(e, c, binding, d, key, receiptTime)
    /\ source = binding
    /\ found = OutputOf[source]
    /\ e.body.output = found
    /\ granted' = granted \cup {[by |-> "checker", receipt |-> r, at |-> receiptTime, saved |-> TRUE]
                                  : r \in {c, e}}
    /\ UNCHANGED <<capabilityReceipts, executionReceipts, trust, trustFile, receiptTime>>

ReceiptsNext ==
    \/ \E key \in Keys, id \in KeyIds :
          \/ RegisterKey(id, key)
          \/ \E d \in Decisions, s \in ReceiptSubjects, i, j \in 1..MaxReceiptTime + 1 :
                IssueAt(key, id, d, s, i, j)
          \/ \E c \in capabilityReceipts, d \in Decisions, b \in Bindings, o \in Outputs :
                IssueExecution(key, id, c, d, b, o)
    \/ \E c \in capabilityReceipts :
          \/ \E until \in 2..MaxReceiptTime + 1 : AlterWindow(c, until)
          \/ \E d \in Decisions : \/ \E s \in ReceiptSubjects : VerifyReceipt(c, s, d)
                                  \/ \E e \in executionReceipts, b \in Bindings : VerifyExecution(e, c, b, d)
          \/ \E e \in executionReceipts, s \in ReceiptSubjects, b, source \in Bindings,
                d \in Decisions, id \in KeyIds, key \in Keys, found \in Outputs :
                AcceptCompletion(c, e, s, b, d, id, key, source, found)
    \/ SaveTrust \/ CrashTrust \/ RecoverTrust \/ ReceiptTick

ReceiptsSpec == ReceiptsInit /\ [][ReceiptsNext]_receiptVars

-----------------------------------------------------------------------------
(* A verifier that lives on through its file accepts no receipt twice; and *)
(* what it accepts, or accept_broker_completion with a pinned key, was     *)
(* signed as it stands, within the window of the decision behind it.  That *)
(* holds for an execution receipt too, although verify_execution looks     *)
(* neither at that decision nor at whether the capability receipt was      *)
(* verified (verify, verify_execution, issue_execution and recover of      *)
(* receipts.rs, the two receipt checks of checker.rs).                     *)
GrantedOnceInWindow ==
    /\ \A g, h \in granted :
          g.by = "verifier" /\ h.by = "verifier" /\ g.receipt.body = h.receipt.body => g = h
    /\ \A g \in granted :
          LET body == g.receipt.body
              d == IF "capability" \in DOMAIN body THEN body.capability.decision ELSE body.decision
          IN  d.issued_at <= g.at /\ g.at < d.expires_at /\ g.receipt.signature[2] = body
=============================================================================
