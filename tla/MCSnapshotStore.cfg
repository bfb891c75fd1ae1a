SPECIFICATION FairSpec
CONSTANTS
    Callers = {c1, c2}
    MaxSaves = 2
    MaxTries = 2
INVARIANTS MutualExclusion PendingIsNewer AcknowledgedStays
PROPERTIES PendingIsKept EveryCallReturns
