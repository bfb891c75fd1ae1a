--------------------------- MODULE TransactionLog ---------------------------
(***************************************************************************)
(* What the broker promises of its durable record, whatever fails and      *)
(* however often it restarts: a request is admitted once, under an         *)
(* (agent, nonce) pair no other request has used, never while another one  *)
(* is in flight, and its outcome is final.                                 *)
(***************************************************************************)
CONSTANTS
    Requests,  \* request digests
    NonceOf    \* NonceOf[r]: the (agent, nonce) pair of r

VARIABLE status  \* status[r]: the latest TransactionStatus, or "None"

InFlight == {r \in Requests : status[r] \in {"Admitted", "Executing"}}

Init == status = [r \in Requests |-> "None"]

Admit(r) ==
    /\ InFlight = {}
    /\ \A q \in Requests : status[q] # "None" => NonceOf[q] # NonceOf[r]
    /\ status' = [status EXCEPT ![r] = "Admitted"]

Execute(r) ==
    /\ status[r] = "Admitted"
    /\ status' = [status EXCEPT ![r] = "Executing"]

Finish(r, outcome) ==
    /\ \/ status[r] = "Executing"
       \/ status[r] = "Admitted" /\ outcome = "Quarantined"
    /\ status' = [status EXCEPT ![r] = outcome]

Next ==
    \E r \in Requests :
        \/ Admit(r)
        \/ Execute(r)
        \/ \E outcome \in {"Committed", "RolledBack", "Quarantined"} : Finish(r, outcome)

Spec == Init /\ [][Next]_status
=============================================================================
