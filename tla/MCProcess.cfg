CONSTANTS
    d1 = d1
    d2 = d2
    trim = trim
    again = again
    next = next
    wrong = wrong
    Dirs = {d1, d2}
    Requests = {trim, again, next, wrong}
    NonceOf <- MCNonceOf
    Before <- MCBefore
    After <- MCAfter
    Lease <- MCLease
    Normalized = {trim, again, next}
    Original = "A"
    MaxTime = 1
    MaxFaults = 1
    MaxCrashes = 1
SYMMETRY DirSymmetry
SPECIFICATION Spec
PROPERTIES ReplacedOnce KeepsForeign AnswersHold
