-------------------------------- MODULE Market --------------------------------
(***************************************************************************)
(* src/src/market.rs: a fixed integer-sum job is offered, executed, its    *)
(* receipt verified once, and one settlement proposed per job.  The        *)
(* verifier is in memory until its caller saves it; a caller hands a       *)
(* proposal out once the verifier that reserved it is saved.               *)
(*                                                                         *)
(* Every call takes its time from the caller, so that times of calls are   *)
(* in no order.  A digest is what it is a digest of.                       *)
(***************************************************************************)
EXTENDS Naturals, FiniteSets, Sequences

CONSTANTS
    Jobs,        \* set of [id, requester, inputs, deadline, max_price]
    Offers,      \* set of [job, offer_id, provider, price, submitted_at, expires_at]
    MaxU64,      \* the largest value of the integers that are summed
    MaxReceipts, \* bound on the receipts made
    MaxJobTime   \* bound on the times of calls

ASSUME MarketConstants ==
    /\ MaxU64 \in Nat
    /\ \A j \in Jobs : j.inputs \in Seq(Nat)
    /\ \A o \in Offers : o.job \in Jobs

VARIABLES
    receipts,   \* the SumReceipts made
    verifier,   \* Option of the ReceiptVerifier: [verified, reserved]
    ledger,     \* the verifier file
    proposals   \* SettlementProposals: <<receipt, "memory" or "saved">>

marketVars == <<receipts, verifier, ledger, proposals>>
NoReceipts == [verified |-> {}, reserved |-> {}]

MarketInit ==
    /\ receipts = {}
    /\ verifier = {NoReceipts}
    /\ ledger = NoReceipts
    /\ proposals = {}

-----------------------------------------------------------------------------
(* checked_sum: try_fold over checked_add, an Option.                      *)
CheckedSum(inputs) ==
    LET total[n \in 0..Len(inputs)] ==
            IF n = 0 THEN {0}
            ELSE {t + inputs[n] : t \in {t \in total[n - 1] : t + inputs[n] <= MaxU64}}
    IN  total[Len(inputs)]

ValidJob(j) == Len(j.inputs) > 0 /\ j.deadline > 0 /\ CheckedSum(j.inputs) # {}

ValidOffer(o, j, t) ==
    /\ ValidJob(j) /\ o.job = j
    /\ o.provider # j.requester
    /\ o.price <= j.max_price
    /\ o.submitted_at <= t
    /\ o.expires_at > o.submitted_at
    /\ o.expires_at <= j.deadline

ValidReceipt(r, j, t) ==
    /\ ValidJob(j) /\ r.job = j
    /\ r.provider # j.requester
    /\ r.completed_at <= t
    /\ t < j.deadline
    /\ {r.output} = CheckedSum(j.inputs)
    /\ r.price <= j.max_price

(* select_offer: the cheapest offer that has not expired, unless one is    *)
(* malformed or two eligible ones share an identity.                       *)
SelectOffer(j, offers, t) ==
    LET eligible == {o \in offers : t < o.expires_at}
    IN  IF (\E o \in offers : ~ValidOffer(o, j, t))
           \/ (\E o, p \in eligible : o # p /\ o.offer_id = p.offer_id)
        THEN {}
        ELSE {o \in eligible : \A p \in eligible :
                \/ o.price < p.price
                \/ o.price = p.price /\ o.provider < p.provider
                \/ o.price = p.price /\ o.provider = p.provider /\ o.offer_id <= p.offer_id}

Receipt(j, id, provider, price, output, t) ==
    [job |-> j, offer_id |-> id, provider |-> provider, price |-> price,
     output |-> output, completed_at |-> t]

Make(new) ==
    /\ new # {}
    /\ Cardinality(receipts \cup new) <= MaxReceipts
    /\ receipts' = receipts \cup new
    /\ UNCHANGED <<verifier, ledger, proposals>>

(* Offer 0 and provider 0 are "local-direct-v1" and "local-sum".           *)
ExecuteLocal(j, t) ==
    /\ ValidJob(j) /\ t < j.deadline
    /\ Make({Receipt(j, 0, 0, 0, out, t) : out \in CheckedSum(j.inputs)})

ExecuteLocalWithOffer(o, t) ==
    /\ ValidOffer(o, o.job, t) /\ t < o.job.deadline /\ t < o.expires_at
    /\ Make({Receipt(o.job, o.offer_id, o.provider, o.price, out, t) : out \in CheckedSum(o.job.inputs)})

(* A receipt a provider states without the runtime, about any output.      *)
ClaimReceipt(o, output, t) ==
    Make({Receipt(o.job, o.offer_id, o.provider, o.price, output, t)})

-----------------------------------------------------------------------------
Verify(r, t) ==
    /\ ValidReceipt(r, r.job, t)
    /\ \E v \in verifier : verifier' = {[v EXCEPT !.verified = @ \cup {r}]}
    /\ UNCHANGED <<receipts, ledger, proposals>>

(* Mutant: the receipt is reserved, not its job.                           *)
ReserveReceipt(v, r) ==
    IF r \in v.verified /\ r \notin v.reserved
    THEN {[v EXCEPT !.reserved = @ \cup {r}]} ELSE {}

Reserve(v, r) ==
    IF r \in v.verified /\ r.job \notin v.reserved
    THEN {[v EXCEPT !.reserved = @ \cup {r.job}]} ELSE {}

(* propose_settlement_inner.                                               *)
ProposeInner(r, t) ==
    /\ ValidReceipt(r, r.job, t)
    /\ \E v \in verifier : Reserve(v, r) # {} /\ verifier' = Reserve(v, r)
    /\ proposals' = proposals \cup {<<r, "memory">>}
    /\ UNCHANGED <<receipts, ledger>>

ProposeSettlement(r, t) == r.offer_id = 0 /\ ProposeInner(r, t)

ProposeSettlementForOffer(r, o, t) ==
    /\ ValidOffer(o, r.job, t)
    /\ r.offer_id = o.offer_id
    /\ r.completed_at >= o.submitted_at
    /\ r.completed_at < o.expires_at
    /\ r.provider = o.provider
    /\ r.price = o.price
    /\ ProposeInner(r, t)

SaveVerifier ==
    /\ \E v \in verifier : ledger' = v
    /\ proposals' = {<<p[1], "saved">> : p \in proposals}
    /\ UNCHANGED <<receipts, verifier>>

(* What was not saved is gone: the verifier's memory and the proposals no  *)
(* saved verifier knows.                                                   *)
CrashVerifier ==
    /\ verifier' = {}
    /\ proposals' = {p \in proposals : p[2] = "saved"}
    /\ UNCHANGED <<receipts, ledger>>

RecoverVerifier ==
    /\ verifier = {}
    /\ verifier' = {ledger}
    /\ UNCHANGED <<receipts, ledger, proposals>>

MarketNext ==
    \/ \E t \in 1..MaxJobTime :
          \/ \E j \in Jobs :
                \/ ExecuteLocal(j, t)
                \/ \E offers \in SUBSET Offers : \E o \in SelectOffer(j, offers, t) :
                      ExecuteLocalWithOffer(o, t)
          \/ \E o \in Offers, output \in 0..MaxU64 : ClaimReceipt(o, output, t)
          \/ \E r \in receipts :
                \/ Verify(r, t) \/ ProposeSettlement(r, t)
                \/ \E o \in Offers : ProposeSettlementForOffer(r, o, t)
    \/ SaveVerifier \/ CrashVerifier \/ RecoverVerifier

MarketSpec == MarketInit /\ [][MarketNext]_marketVars

-----------------------------------------------------------------------------
(* The sum of the inputs as integers of any size.                          *)
IntegerSum(inputs) ==
    LET total[n \in 0..Len(inputs)] == IF n = 0 THEN 0 ELSE total[n - 1] + inputs[n]
    IN  total[Len(inputs)]

(* Of the proposals that survive their process, and those of the running   *)
(* one, no two are for one job, whichever receipts, saves, crashes and     *)
(* recoveries come between.  Each is for the sum of the job's inputs as    *)
(* integers, never for a sum that left the width, and when it names an     *)
(* offer it was made by that offer's provider, at its price, in its window *)
(* (checked_sum, SumReceipt::validate, propose_settlement_for_offer,       *)
(* reserved in propose_settlement_inner, save and recover).                *)
EarnedOnce ==
    /\ \A p, q \in proposals : p[1].job = q[1].job => p[1] = q[1]
    /\ \A p \in proposals :
        /\ p[1].output = IntegerSum(p[1].job.inputs)
        /\ p[1].offer_id # 0 =>
              \E o \in Offers :
                 /\ o.job = p[1].job /\ o.offer_id = p[1].offer_id
                 /\ o.provider = p[1].provider /\ o.price = p[1].price
                 /\ p[1].completed_at >= o.submitted_at /\ p[1].completed_at < o.expires_at
=============================================================================
