------------------------------ MODULE Settlement ------------------------------
(***************************************************************************)
(* src/src/crypto_adapters.rs: intents derived from accepted evidence, dry *)
(* runs, reconciliations with observations and payout proposals, recorded  *)
(* in a journal that its caller saves; and the check of that journal in    *)
(* src/src/checker.rs.                                                     *)
(*                                                                         *)
(* One settled market proposal is modelled, with several requests for it.  *)
(* The records between intent and payout are functions of their inputs and *)
(* are built where they are used; a digest is what it is a digest of, the  *)
(* hash chain the sequence of events, and all times come from the caller.  *)
(***************************************************************************)
EXTENDS Naturals, Sequences, FiniteSets, Functions

CONSTANTS
    Requests,       \* set of SettlementRequests: [payment_id, beneficiary, chain, created_at, expires_at]
    LongIds,        \* the payment ids of more than 256 bytes
    Chains,         \* the chains that there are adapters for
    Provider,       \* the provider of the market proposal
    Beneficiaries,  \* beneficiaries an observation may name
    CompletedAt,    \* completed_at of the market receipt
    Deadline,       \* deadline of its job
    EvidenceEnd,    \* end of the evidence and of the artifact's retention
    MaxIntents,     \* bound on the intents made
    MaxEvents,      \* bound on the events of the journal
    MaxSettleTime   \* bound on the times of calls

ASSUME SettlementConstants ==
    /\ \A r \in Requests : r.created_at \in Nat /\ r.expires_at \in Nat
    /\ MaxSettleTime \in Nat

VARIABLES
    accepted,    \* the registry records that are accepted and not revoked
    intents,     \* SettlementIntents made
    journal,     \* Option of the CryptoJournal in memory
    journalFile, \* Option of its file
    journalTmp,  \* Option of the temporary file
    given        \* history: payout events that were in a journal when it was saved

settlementVars == <<accepted, intents, journal, journalFile, journalTmp, given>>

(* Evidence and artifact of the market receipt have been accepted.         *)
SettlementInit ==
    /\ accepted = {"evidence", "artifact"}
    /\ intents = {}
    /\ journal = {<<>>}
    /\ journalFile = {}
    /\ journalTmp = {}
    /\ given = {}

-----------------------------------------------------------------------------
(* Intents.                                                                *)

(* AcceptedSettlementEvidence::from_registries.                            *)
Eligible(t) ==
    /\ CompletedAt <= t /\ t < Deadline
    /\ accepted = {"evidence", "artifact"} /\ t < EvidenceEnd

FromMarketProposal(r) ==
    /\ Cardinality(intents \cup {r}) <= MaxIntents
    /\ r.expires_at > r.created_at
    /\ Eligible(r.created_at)
    /\ r.beneficiary = Provider
    /\ r.created_at >= CompletedAt
    /\ r.expires_at <= Deadline
    /\ intents' = intents \cup {r}
    /\ UNCHANGED <<accepted, journal, journalFile, journalTmp, given>>

(* EvidenceRegistry::revoke.                                               *)
RevokeSettledEvidence ==
    /\ "evidence" \in accepted
    /\ accepted' = accepted \ {"evidence"}
    /\ UNCHANGED <<intents, journal, journalFile, journalTmp, given>>

(* ArtifactRegistry::revoke, for the artifact's own subject, at a time not *)
(* before its acceptance.                                                  *)
RevokeSettledArtifact ==
    /\ "artifact" \in accepted
    /\ accepted' = accepted \ {"artifact"}
    /\ UNCHANGED <<intents, journal, journalFile, journalTmp, given>>

-----------------------------------------------------------------------------
(* Records derived from an intent; an empty result is a refusal.           *)

(* DryRunAdapter::prepare.                                                 *)
PrepareDryRun(i, chain, t) ==
    IF chain = i.chain /\ i.created_at <= t /\ t < i.expires_at
    THEN {[intent |-> i, prepared_at |-> t]} ELSE {}

ObservationMatches(i, o) ==
    /\ o.intent = i /\ o.beneficiary = i.beneficiary
    /\ i.created_at <= o.observed_at /\ o.observed_at < i.expires_at

Reconcile(i, o) ==
    IF ObservationMatches(i, o) /\ o.status = "Observed"
    THEN {[intent |-> i, observation |-> o]} ELSE {}

ResolutionFrom(i, o) == {[intent |-> i, reconciliation |-> r] : r \in Reconcile(i, o)}

(* PayoutProposal::from_resolution looks at the shape of the resolution    *)
(* and not at the intent that it is of.                                    *)
PayoutFrom(i, resolution) == [intent |-> i, resolution |-> resolution]

Observations ==
    [intent : intents, beneficiary : Beneficiaries, status : {"NotFound", "Observed", "Ambiguous"},
     observed_at : 1..MaxSettleTime]

-----------------------------------------------------------------------------
(* CryptoJournal.                                                          *)

Transition(current, next) ==
    <<current, next>> \in {<<{}, "Proposed">>, <<{"Proposed"}, "DryRunPrepared">>,
        <<{"Proposed"}, "Quarantined">>, <<{"DryRunPrepared"}, "Reconciled">>,
        <<{"DryRunPrepared"}, "Quarantined">>, <<{"Reconciled"}, "PayoutProposed">>}

(* The state of an intent after events, an Option: the kind of its last    *)
(* event.                                                                  *)
StateOf(events, i) ==
    LET own == {n \in DOMAIN events : events[n].intent = i}
    IN  {events[n].kind : n \in {n \in own : \A m \in own : m <= n}}

(* Mutant: a key may serve another intent.                                 *)
KeepsKey(events, e) ==
    \A m \in DOMAIN events : events[m].intent = e.intent => events[m].key = e.key

(* A key belongs to one intent and an intent has one key.                  *)
OwnKey(events, e) ==
    \A m \in DOMAIN events : (events[m].key = e.key) = (events[m].intent = e.intent)

ValidCryptoJournal(events) ==
    \A n \in DOMAIN events :
        LET e == events[n]
        IN  /\ n > 1 => events[n - 1].recorded_at <= e.recorded_at
            /\ OwnKey(SubSeq(events, 1, n - 1), e)
            /\ \A m \in 1..n - 1 : <<events[m].intent, events[m].kind, events[m].subject>>
                                     # <<e.intent, e.kind, e.subject>>
            /\ Transition(StateOf(SubSeq(events, 1, n - 1), e.intent), e.kind)

(* append_event: the same event again changes nothing; one that does not   *)
(* pass the final validation is taken back.                                *)
Appended(events, e) ==
    IF \/ \E n \in DOMAIN events : events[n].intent = e.intent /\ events[n].kind = e.kind
       \/ ~OwnKey(events, e)
       \/ events # <<>> /\ e.recorded_at < events[Len(events)].recorded_at
       \/ ~Transition(StateOf(events, e.intent), e.kind)
       \/ ~ValidCryptoJournal(Append(events, e))
    THEN {} ELSE {Append(events, e)}

AppendEvent(i, kind, subject, t) ==
    LET e == [intent |-> i, key |-> i.payment_id, kind |-> kind, subject |-> subject, recorded_at |-> t]
    IN  /\ \E events \in journal :
              /\ Len(events) < MaxEvents
              /\ \E longer \in Appended(events, e) : journal' = {longer}
        /\ UNCHANGED <<accepted, intents, journalFile, journalTmp, given>>

AppendProposed(i, t) == AppendEvent(i, "Proposed", i, t)
AppendPrepared(i, chain, at, t) ==
    \E r \in PrepareDryRun(i, chain, at) : AppendEvent(i, "DryRunPrepared", r, t)
AppendReconciled(i, r, t) == AppendEvent(i, "Reconciled", r, t)
AppendPayoutProposed(i, resolution, t) ==
    AppendEvent(i, "PayoutProposed", PayoutFrom(i, resolution), t)
AppendQuarantined(i, t) == AppendEvent(i, "Quarantined", [intent |-> i], t)

(* The two steps of save.  A write that is cut off leaves a file that      *)
(* recover refuses and save overwrites, as if there were none.             *)
WriteJournal ==
    /\ \E events \in journal : ValidCryptoJournal(events) /\ journalTmp' \in {{events}, {}}
    /\ UNCHANGED <<accepted, intents, journal, journalFile, given>>

Payouts(events) == {e \in Range(events) : e.kind = "PayoutProposed"}

RenameJournal ==
    /\ journal # {} /\ journalTmp = journal
    /\ journalFile' = journal
    /\ journalTmp' = {}
    /\ given' = given \cup UNION {Payouts(events) : events \in journal}
    /\ UNCHANGED <<accepted, intents, journal>>

(* A temporary file beside a file is never read again: recover passes it   *)
(* over and the next save overwrites it.                                   *)
CrashJournal ==
    /\ journal # {}
    /\ journal' = {}
    /\ journalTmp' = IF journalFile # {} THEN {} ELSE journalTmp
    /\ UNCHANGED <<accepted, intents, journalFile, given>>

(* recover: the temporary file only where there is no other.               *)
RecoverJournal ==
    /\ journal = {}
    /\ LET found == IF journalFile # {} THEN journalFile ELSE journalTmp
       IN  /\ found # {}
           /\ \A events \in found : ValidCryptoJournal(events)
           /\ journal' = found /\ journalFile' = found
           /\ journalTmp' = {}
           /\ given' = given \cup UNION {Payouts(events) : events \in found}
    /\ UNCHANGED <<accepted, intents>>

SettlementNext ==
    \/ RevokeSettledEvidence \/ RevokeSettledArtifact
    \/ \E r \in Requests : FromMarketProposal(r)
    \/ \E i \in intents, t \in 1..MaxSettleTime :
          \/ AppendProposed(i, t)
          \/ AppendQuarantined(i, t)
          \/ \E chain \in Chains, at \in 1..MaxSettleTime : AppendPrepared(i, chain, at, t)
          \/ \E r \in UNION {Reconcile(i, o) : o \in Observations} : AppendReconciled(i, r, t)
          \/ \E r \in UNION {ResolutionFrom(j, o) : j \in intents, o \in Observations} :
                AppendPayoutProposed(i, r, t)
    \/ WriteJournal \/ RenameJournal \/ CrashJournal \/ RecoverJournal

SettlementSpec == SettlementInit /\ [][SettlementNext]_settlementVars

-----------------------------------------------------------------------------
(* validate_crypto_journal of checker.rs, which keeps maps of its own.     *)
(* Its valid_text takes 256 bytes; the one of crypto_adapters.rs has no    *)
(* limit.                                                                  *)
CheckEvent(acc, e) ==
    LET current == IF e.intent \in DOMAIN acc.states THEN {acc.states[e.intent]} ELSE {}
    IN  [ok |-> /\ acc.ok
                /\ e.key \notin LongIds
                /\ e.recorded_at >= acc.last
                /\ \A p \in acc.keys : (p[1] = e.key) = (p[2] = e.intent)
                /\ <<e.intent, e.kind, e.subject>> \notin acc.seen
                /\ \/ current = {} /\ e.kind = "Proposed"
                   \/ current = {"Proposed"} /\ e.kind \in {"DryRunPrepared", "Quarantined"}
                   \/ current = {"DryRunPrepared"} /\ e.kind \in {"Reconciled", "Quarantined"}
                   \/ current = {"Reconciled"} /\ e.kind = "PayoutProposed",
         last |-> e.recorded_at,
         keys |-> acc.keys \cup {<<e.key, e.intent>>},
         seen |-> acc.seen \cup {<<e.intent, e.kind, e.subject>>},
         states |-> [i \in DOMAIN acc.states \cup {e.intent} |->
                       IF i = e.intent THEN e.kind ELSE acc.states[i]]]

CheckStart == [ok |-> TRUE, last |-> 0, keys |-> {}, seen |-> {}, states |-> [i \in {} |-> ""]]

CheckCryptoJournal(events) ==
    LET acc[n \in 0..Len(events)] ==
            IF n = 0 THEN CheckStart ELSE CheckEvent(acc[n - 1], events[n])
    IN  acc[Len(events)].ok

(* A payment gets one payout proposal: of the proposals in journals that   *)
(* were saved, through crashes, stale temporary files and requests that    *)
(* name a payment again, no two share a payment.  In each saved journal a  *)
(* proposal follows a reconciliation of its intent with an observation     *)
(* inside the intent's window, and the independent checker refuses the     *)
(* journal exactly if it has a key that is too long for the checker        *)
(* (append_event, save, recover; validate_crypto_journal).                 *)
PaidOnce ==
    /\ \A e, f \in given : e.key = f.key => e = f
    /\ \A events \in journalFile :
          /\ CheckCryptoJournal(events) <=> \A e \in Range(events) : e.key \notin LongIds
          /\ \A n \in DOMAIN events : events[n].kind = "PayoutProposed" =>
                \E m \in 1..n - 1 :
                   LET e == events[m]
                   IN  /\ e.intent = events[n].intent /\ e.kind = "Reconciled"
                       /\ e.subject.observation.status = "Observed"
                       /\ e.subject.observation.observed_at \in
                             e.intent.created_at..e.intent.expires_at - 1
=============================================================================
