--------------------------- MODULE MCTransaction ----------------------------
(* first replaces the initial content; second and third replace what first *)
(* leaves, third under the nonce that first used.                          *)
EXTENDS MaintenanceTransaction, TLC

CONSTANTS c1, c2, first, second, third, initial

MCRequests == {first, second, third}
MCNonceOf == [r \in MCRequests |-> IF r = second THEN 2 ELSE 1]
MCBaseline == [r \in MCRequests |-> IF r = first THEN "A" ELSE "B"]
MCAfter == [r \in MCRequests |-> IF r = first THEN "B" ELSE "C"]
CallerSymmetry == Permutations(Callers)
MCLease == [r \in MCRequests |-> 2]
=============================================================================
