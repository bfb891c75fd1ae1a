\* Authority across restarts and policy changes, and failure budgets.
SPECIFICATION Spec
CONSTANTS
    first = first
    reuse = reuse
    direct = direct
    strict = strict
    lax = lax
    Proposals = {first, reuse}
    Policies = {strict, lax}
    DirectAuthority = {}
    ReplayKey <- MCReplayKey
    ExpiresAt <- MCExpiresAt
    ClaimsUntil <- MCClaimsUntil
    Permits <- MCPermits
    TokenTtl <- MCTokenTtl
    Budgets <- SmallBudgets
    MaxTime = 2
    MaxRestarts = 1
INVARIANTS SingleUse RestartRevivesNothing BudgetHolds
PROPERTIES WarrantedAtUse
CONSTRAINT BudgetBound
