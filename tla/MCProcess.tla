----------------------------- MODULE MCProcess ------------------------------
(* trim and again replace A by B; next replaces B by C under trim's nonce; *)
(* wrong is not the fixed transformation.                                  *)
EXTENDS MaintenanceProcess, TLC

CONSTANTS d1, d2, trim, again, next, wrong

MCNonceOf == [r \in Requests |-> IF r \in {trim, next} THEN 1 ELSE 2]
MCBefore == [r \in Requests |-> IF r = next THEN "B" ELSE "A"]
MCAfter == [r \in Requests |-> IF r \in {next, wrong} THEN "C" ELSE "B"]
MCLease == [r \in Requests |-> 1]

DirSymmetry == Permutations(Dirs)
=============================================================================
