------------------------------- MODULE MCRecords -------------------------------
(***************************************************************************)
(* Instances of the record components, which share no state: one behaviour *)
(* is a behaviour of one of them, and the others keep their initial state. *)
(***************************************************************************)
EXTENDS Release, Market, Adaptation, Coordinator, Assurance, Receipts, Settlement,
        TrimSpaces, TLC

VARIABLE part  \* the component that moves

recordVars == <<part, releaseVars, marketVars, adaptationVars, coordinatorVars,
                assuranceVars, receiptVars, settlementVars, text>>

RecordsInit ==
    /\ part \in {"release", "market", "adaptation", "coordinator", "assurance", "receipts",
             "settlement", "trim"}
    /\ ReleaseInit /\ MarketInit /\ AdaptationInit /\ CoordinatorInit
    /\ part # "coordinator" => target = {}
    /\ AssuranceInit
    /\ bytes.pieces = Subject["a1"] \/ (part = "assurance" /\ bytes.pieces = <<"x", "x">>)
    /\ ReceiptsInit /\ SettlementInit /\ Init

RecordsNext ==
    \/ part = "release" /\ ReleaseNext /\ UNCHANGED
         <<part, marketVars, adaptationVars, coordinatorVars, assuranceVars,
           receiptVars, settlementVars, text>>
    \/ part = "market" /\ MarketNext /\ UNCHANGED
         <<part, releaseVars, adaptationVars, coordinatorVars, assuranceVars,
           receiptVars, settlementVars, text>>
    \/ part = "adaptation" /\ AdaptationNext /\ UNCHANGED
         <<part, releaseVars, marketVars, coordinatorVars, assuranceVars,
           receiptVars, settlementVars, text>>
    \/ part = "coordinator" /\ CoordinatorNext /\ UNCHANGED
         <<part, releaseVars, marketVars, adaptationVars, assuranceVars,
           receiptVars, settlementVars, text>>
    \/ part = "assurance" /\ AssuranceNext /\ UNCHANGED
         <<part, releaseVars, marketVars, adaptationVars, coordinatorVars,
           receiptVars, settlementVars, text>>
    \/ part = "receipts" /\ ReceiptsNext /\ UNCHANGED
         <<part, releaseVars, marketVars, adaptationVars, coordinatorVars,
           assuranceVars, settlementVars, text>>
    \/ part = "settlement" /\ SettlementNext /\ UNCHANGED
         <<part, releaseVars, marketVars, adaptationVars, coordinatorVars,
           assuranceVars, receiptVars, text>>
    \/ part = "trim" /\ Next /\ UNCHANGED
         <<part, releaseVars, marketVars, adaptationVars, coordinatorVars,
           assuranceVars, receiptVars, settlementVars>>

RecordsSpec == RecordsInit /\ [][RecordsNext]_recordVars

-----------------------------------------------------------------------------
(* Release: claim c2 is narrower than c1 and rests on evidence that ends.  *)
MCSubjectOf == [i \in EvidenceIds |-> "s"]
MCEvidenceUntil == "e1" :> 3 @@ "e2" :> 2
MCCeiling == [c \in Claims |-> "local"]
MCGuarantees == "c1" :> {"g", "h"} @@ "c2" :> {"g"}
MCExcludes == "c1" :> {} @@ "c2" :> {"x"}
MCClaimUntil == "c1" :> 3 @@ "c2" :> 2
MCCites == "c1" :> {"e1"} @@ "c2" :> {"e1", "e2"}
MCPriority == [c \in Candidates |-> 1]
MCAnchorFrom == [c \in Candidates |-> 2]
MCAnchorUntil == [c \in Candidates |-> 3]

(* Market: the sum of the second job does not fit.                         *)
MCJob(i, inputs) == [id |-> i, requester |-> 9, inputs |-> inputs, deadline |-> 3, max_price |-> 2]
MCJobs == {MCJob(1, <<1, 2>>), MCJob(2, <<3, 1>>)}
MCOffer(j, i, p, price) ==
    [job |-> j, offer_id |-> i, provider |-> p, price |-> price, submitted_at |-> 1, expires_at |-> 2]
MCOffers == {MCOffer(MCJob(1, <<1, 2>>), 1, 5, 1), MCOffer(MCJob(1, <<1, 2>>), 2, 6, 2),
             MCOffer(MCJob(2, <<3, 1>>), 3, 5, 1)}

(* Coordinator: a change, its reverse, and three with a deficient          *)
(* evaluation, one of them that of the reverse.                            *)
MCProposal(b, a) ==
    [before |-> b, after |-> a, proposer_role |-> "proposer",
     requirements |-> {"t1", "t2"}, proposed_at |-> 1, expires_at |-> 3]
MCPacket(b, a, until) ==
    [proposal |-> MCProposal(b, a),
     evaluation |-> [evaluator_role |-> "evaluator", proposal |-> MCProposal(b, a),
                     requirements |-> {"t1", "t2"},
                     passed |-> {"t1", "t2"}, accepted |-> TRUE,
                     evaluated_at |-> 1, expires_at |-> until]]
MCPackets == {MCPacket("x", "y", 3), MCPacket("y", "x", 3),
              [MCPacket("x", "y", 2) EXCEPT !.evaluation.passed = {"t1"}],
              [MCPacket("x", "y", 2) EXCEPT !.evaluation.requirements = {"t1"}],
              [MCPacket("x", "y", 2) EXCEPT !.evaluation.proposal = MCProposal("y", "x")]}
MCAcceptances == [packet : MCPackets, reviewer_role : {"reviewer", "other"},
                  accepted_at : {1, 2}, expires_at : {3}]

(* Assurance: raw retention ends before the artifact's own.                *)
MCAt(t) == [a \in Artifacts |-> t]
MCSubject == [a \in Artifacts |-> <<"x", "y">>]
MCStart == MCAt(1)
MCUntil == MCAt(3)

(* Receipts: an accepted and a rejected decision.                          *)
MCDecisions == {[id |-> 1, kind |-> "Accepted", issued_at |-> 1, expires_at |-> 3],
                [id |-> 2, kind |-> "Rejected", issued_at |-> 1, expires_at |-> 3]}
MCOutputOf == [b \in Bindings |-> "o"]

(* Settlement: two requests for one payment, on two chains, one with a     *)
(* long id and no adapter, and one for another provider.                   *)
MCRequest(payment, chain) ==
    [payment_id |-> payment, beneficiary |-> "p", chain |-> chain, created_at |-> 1, expires_at |-> 2]
MCRequests == {MCRequest("m", "c"), MCRequest("m", "d"), MCRequest("long", "none"),
               [MCRequest("n", "c") EXCEPT !.beneficiary = "q"]}
=============================================================================
