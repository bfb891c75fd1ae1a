CHECK_DEADLOCK FALSE
CONSTANTS
    c1 = c1
    c2 = c2
    narrow = narrow
    wide = wide
    specialist = specialist
    resource = resource
    other = other
    Callers = {c1, c2}
    Grants = {narrow, wide}
    SpecialistOf <- MCSpecialistOf
    Scope <- MCScope
    Issued <- MCIssued
    Expires <- MCExpires
    Resources = {resource, other}
    MaxCalls = 3
    MaxTime = 1
    MaxFaults = 1
    MaxCrashes = 1
SYMMETRY CallerSymmetry
SPECIFICATION Spec
INVARIANTS ConsentOutlivesEffect RevocationIsTerminal NobodyIsStuck
PROPERTIES MemoryLosesNothing
