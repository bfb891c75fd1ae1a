CONSTANTS
    Dirs = {"state", "state-two"}
    Requests = {"frozen", "stale", "expired", "short"}
    NonceOf <- MCNonceOf
    Before <- MCBefore
    After <- MCAfter
    Lease <- MCLease
    Normalized = {"frozen", "stale", "expired", "short"}
    Original = "A"
    MaxTime = 1
    MaxFaults = 1
    MaxCrashes = 1
    Specs <- MCSpecs
    Frozen = "frozen"
    Stale = "stale"
    Expired = "expired"
    Short = "short"
    MaxSlips = 2
    MaxReports = 2
CHECK_DEADLOCK FALSE
SPECIFICATION ReplicationSpec
INVARIANTS ResultIsTrue CleanRunReports
