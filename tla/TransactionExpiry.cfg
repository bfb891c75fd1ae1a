CONSTANTS
    c1 = c1
    c2 = c2
    first = first
    second = second
    third = third
    initial = initial
    Callers = {c1, c2}
    Requests <- MCRequests
    NonceOf <- MCNonceOf
    Baseline <- MCBaseline
    After <- MCAfter
    Lease <- MCLease
    First = initial
    FirstContent = "A"
    MaxAge = 1
    MaxCompleted = 2
    MaxTime = 2
    MaxFaults = 0
    MaxCrashes = 0
SYMMETRY CallerSymmetry
SPECIFICATION Spec
PROPERTIES ExpiredCannotPublish
