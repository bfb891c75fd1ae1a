------------------------------ MODULE MCConsent ------------------------------
(* One grant covers the first resource, the other both by the wildcard and *)
(* for a shorter time, through the same specialist.                        *)
EXTENDS Consent, TLC

CONSTANTS c1, c2, narrow, wide, specialist, resource, other

MCSpecialistOf == [g \in Grants |-> specialist]
MCScope == [g \in Grants |-> IF g = wide THEN {"*"} ELSE {resource}]
MCIssued == [g \in Grants |-> 0]
MCExpires == [g \in Grants |-> IF g = wide THEN 1 ELSE 2]

CallerSymmetry == Permutations(Callers)
=============================================================================
