------------------------------ MODULE MCKernel ------------------------------
(* Two proposals that reuse one (agent, nonce) pair and a third of its     *)
(* own, under two policies, the stricter of which permits only one of      *)
(* them.  One claim expires before its proposal, one proposal asks for     *)
(* direct authority.                                                       *)
EXTENDS Kernel, TLC

CONSTANTS first, reuse, direct, strict, lax

MCReplayKey == [p \in Proposals |-> IF p = direct THEN "n2" ELSE "n1"]
MCExpiresAt == [p \in Proposals |-> IF p = reuse THEN 2 ELSE 3]
MCClaimsUntil == [p \in Proposals |-> IF p = first THEN {1, 3} ELSE {2}]
MCPermits ==
    [q \in Policies |-> IF q = strict THEN Proposals \ {first} ELSE Proposals]
MCTokenTtl == [q \in Policies |-> IF q = strict THEN 1 ELSE 2]

SmallBudgets ==
    {[max |-> [Rejection |-> 2, Quarantine |-> 0, Rollback |-> 2],
      max_consecutive |-> 2, max_window |-> 2, window_size |-> 3],
     [max |-> [Rejection |-> 2, Quarantine |-> 2, Rollback |-> 2],
      max_consecutive |-> 1, max_window |-> 2, window_size |-> 2]}

(* The bound on failure budgets: once one is configured, or saved, the     *)
(* instance is explored further only with one proposal, the lax policy and *)
(* a clock that stands still.                                              *)
BudgetBound ==
    \A k \in {kernel} \cup disk : k.tracker # {} =>
        now = 0 /\ k.policy = lax /\ Journaled(k) \subseteq {first}
=============================================================================
