--------------------------- MODULE MCReplication ----------------------------
(* The frozen request trims A to B.  Two hosts, which report in any order. *)
EXTENDS Replication

MCNonceOf == [r \in Requests |-> 1]
MCBefore == [r \in Requests |-> IF r = "stale" THEN "Z" ELSE "A"]
MCAfter == [r \in Requests |-> "B"]
MCLease == [frozen |-> 1, stale |-> 1, expired |-> 0, short |-> 1]

MCSpec(h, o, host_key, operator_key, role) ==
    [host |-> h, operator |-> o, host_key |-> host_key, operator_key |-> operator_key,
     evaluator_key |-> "e", revision |-> "v", role |-> role]
MCSpecs ==
    {MCSpec("h1", "o1", "k1", "k2", "Winner"), MCSpec("h2", "o2", "k3", "k4", "Contender")}
=============================================================================
