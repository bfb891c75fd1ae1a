SPECIFICATION Spec
CONSTANTS
    write = write
    reuse = reuse
    other = other
    lax = lax
    strict = strict
    r1 = r1
    r2 = r2
    e1 = e1
    e2 = e2
    a = a
    b = b
    c = c
    Proposals = {write, reuse, other}
    Policies = {lax, strict}
    DirectAuthority = {}
    ReplayKey <- MCReplayKey
    ExpiresAt <- MCExpiresAt
    ClaimsUntil <- MCClaimsUntil
    Permits <- MCPermits
    TokenTtl <- MCTokenTtl
    Runtimes = {r1, r2}
    EvidenceIds = {e1, e2}
    Registries <- MCRegistries
    Submitted <- MCSubmitted
    Roles = {a, b, c}
    WriteKey <- MCWriteKey
    Executable = {write, reuse, other}
    Budgets <- MCBudgets
    MaxTime = 1
SYMMETRY RuntimeSymmetry
INVARIANTS LifecycleTellsEffect NothingStranded AuditExplainsState
PROPERTIES BackedByEvidence
