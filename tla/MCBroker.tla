------------------------------ MODULE MCBroker ------------------------------
(* Three requests: retry reuses the nonce of trim with another destination *)
(* and clash aims at the destination of trim under a nonce of its own.     *)
EXTENDS Broker

CONSTANTS trim, retry, clash, policy

MCReplayKey == [r \in Proposals |-> IF r = clash THEN "n2" ELSE "n1"]
MCDest == [r \in Proposals |-> IF r = retry THEN "b.md" ELSE "a.md"]
MCExpiresAt == [r \in Proposals |-> 2]
MCClaimsUntil == [r \in Proposals |-> {2}]
MCPermits == [q \in Policies |-> Proposals]
MCTokenTtl == [q \in Policies |-> 1]
=============================================================================
