SPECIFICATION DiligentSpec
CONSTANTS
    Verifiers = {v1, v2, v3}
    QuorumThreshold = 2
    VerifierStake = 1
    MilestoneAmounts <- OneAmount
    MilestoneDeadlines <- OneDeadline
    Amount = 7
    WorkerStake = 3
    SubmissionDeadline = 1
    ReviewPeriod = 1
    DisputePeriod = 1
    ArbitratorTimeout = 1
    BackupExtension = 1
    HasBackup = TRUE
    HighAssurance = FALSE
    HasZKVerifier = TRUE
    IsToken = TRUE
    FeeBps = 3000
    Awards = {0, 5000, 10000}
    Rejecting = {"worker"}
    MaxTime = 7
INVARIANTS
    NoStrandedStake
PROPERTIES
    ForfeitOnlyWhenOutvoted
    FrozenBuyerRecovers
CHECK_DEADLOCK FALSE
