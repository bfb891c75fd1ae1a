----------------------------- MODULE MCWorkflow -----------------------------
(* Three proposals: two that reuse one (agent, nonce) pair, of which one   *)
(* only reads, and a third that writes the                                 *)
(* same key under another nonce and that one of the policies forbids.      *)
EXTENDS Workflow, TLC

CONSTANTS write, reuse, other, lax, strict, r1, r2, e1, e2, a, b, c

MCReplayKey == [p \in Proposals |-> IF p = other THEN "n2" ELSE "n1"]
MCExpiresAt == [p \in Proposals |-> 2]
MCClaimsUntil == [p \in Proposals |-> IF p = reuse THEN {1} ELSE {2}]
MCPermits ==
    [q \in Policies |-> IF q = strict THEN Proposals \ {other} ELSE Proposals]
MCTokenTtl == [q \in Policies |-> 1]
MCWriteKey == [p \in Proposals |-> IF p = reuse THEN {} ELSE {"key"}]

MCBudgets ==
    {[max |-> [Rejection |-> 2, Quarantine |-> 2, Rollback |-> 1],
      max_consecutive |-> 2, max_window |-> 2, window_size |-> 2]}

(* At the start write has an accepted record.  reuse gets a record that is *)
(* still to be reviewed, other one already accepted that expires at 1.     *)
Record(p, reviewer, until) ==
    [subject |-> p, operator |-> a, validator |-> b, reviewer |-> reviewer,
     valid_until |-> until, accepted |-> reviewer # {}, revoked |-> FALSE]
MCRegistries == {e1 :> Record(write, {c}, MaxTime + 1)}
MCSubmitted == {Record(reuse, {}, MaxTime + 1), Record(other, {c}, 1)}

RuntimeSymmetry == Permutations(Runtimes)
=============================================================================
