CONSTANTS
    Procs = {p1}
    EvidenceIds = {"e1", "e2"}
    Claims = {"c1", "c2"}
    Candidates = {"k1"}
    Conclusive = {"k1"}
    MaxPackets = 2
    MaxClaims = 2
    MaxReleaseTime = 2
    SubjectOf <- MCSubjectOf
    EvidenceUntil <- MCEvidenceUntil
    Ceiling <- MCCeiling
    Guarantees <- MCGuarantees
    Excludes <- MCExcludes
    ClaimUntil <- MCClaimUntil
    Cites <- MCCites
    Priority <- MCPriority
    AnchorFrom <- MCAnchorFrom
    AnchorUntil <- MCAnchorUntil
    Jobs <- MCJobs
    Offers <- MCOffers
    MaxU64 = 3
    MaxReceipts = 2
    MaxJobTime = 3
    Proofs = {"a", "b", "c", "u"}
    Unhealthy = {"u"}
    Packets <- MCPackets
    Acceptances <- MCAcceptances
    Requirements = {"t1", "t2"}
    EvaluatorRole = "evaluator"
    ReviewerRole = "reviewer"
    Contents = {"x", "y", "z"}
    MaxApplies = 4
    MaxApplyTime = 3
    Artifacts = {"a1"}
    Subject <- MCSubject
    RetentionStart <- MCStart
    RetentionUntil <- MCUntil
    CustodyExpires <- MCUntil
    RawUntils = {2, 3}
    MaxRetention = 1
    Roles = {"r1", "r2", "r3"}
    CustodyRoles = {"o", "k"}
    Pieces = {"x", "y"}
    MaxBytes = 2
    MaxWrites = 2
    MaxAssuranceTime = 2
    Decisions <- MCDecisions
    ReceiptSubjects = {"s"}
    Bindings = {"b"}
    Outputs = {"o", "other"}
    OutputOf <- MCOutputOf
    Keys = {"k1", "k2"}
    KeyIds = {"i1"}
    MaxIssued = 3
    MaxReceiptTime = 3
    Requests <- MCRequests
    LongIds = {"long"}
    Chains = {"c", "d"}
    Provider = "p"
    Beneficiaries = {"p"}
    CompletedAt = 1
    Deadline = 3
    EvidenceEnd = 3
    MaxIntents = 2
    MaxEvents = 8
    MaxSettleTime = 2
    MaxLen = 6
SPECIFICATION RecordsSpec
CHECK_DEADLOCK FALSE
INVARIANTS
    PacketPromisesNoMore
    EarnedOnce
    GrantedOnceInWindow
    PaidOnce
    TrimIsExact
PROPERTIES
    FreezeLostOnlyToOlder
    FileIsSound
    AnswerTellsFile
    CheckedBytesExisted
