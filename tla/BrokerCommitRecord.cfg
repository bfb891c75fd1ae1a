SPECIFICATION Spec
CONSTANTS
    trim = trim
    retry = retry
    clash = clash
    policy = policy
    Proposals = {trim, retry}
    Policies = {policy}
    DirectAuthority = {}
    ReplayKey <- MCReplayKey
    ExpiresAt <- MCExpiresAt
    ClaimsUntil <- MCClaimsUntil
    Permits <- MCPermits
    TokenTtl <- MCTokenTtl
    Dest <- MCDest
    MaxFaults = 1
    MaxRestarts = 0
CHECK_DEADLOCK FALSE
INVARIANTS CommittedHasOutput
