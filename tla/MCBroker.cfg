SPECIFICATION FairSpec
CONSTANTS
    trim = trim
    retry = retry
    clash = clash
    policy = policy
    Proposals = {trim, retry, clash}
    Policies = {policy}
    DirectAuthority = {}
    ReplayKey <- MCReplayKey
    ExpiresAt <- MCExpiresAt
    ClaimsUntil <- MCClaimsUntil
    Permits <- MCPermits
    TokenTtl <- MCTokenTtl
    Dest <- MCDest
    MaxFaults = 2
    MaxRestarts = 1
CHECK_DEADLOCK FALSE
INVARIANTS WriteAhead OpenMeansSettled
PROPERTIES DurableLog EveryRequestAnswered
