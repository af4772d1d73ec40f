SPECIFICATION DiligentSpec
CONSTANTS
    Verifiers = {v1, v2}
    QuorumThreshold = 2
    VerifierStake = 1
    MilestoneAmounts <- TwoAmounts
    MilestoneDeadlines <- ShortDeadlines
    Amount = 7
    WorkerStake = 3
    SubmissionDeadline = 2
    ReviewPeriod = 1
    DisputePeriod = 1
    ArbitratorTimeout = 1
    BackupExtension = 1
    HasBackup = TRUE
    HighAssurance = TRUE
    HasZKVerifier = FALSE
    IsToken = FALSE
    FeeBps = 3000
    Awards = {5000}
    Rejecting = {}
    MaxTime = 8
PROPERTIES
    ImplementsLifecycle
    BuyerRecovers
    HighAssuranceNeedsQuorum
CHECK_DEADLOCK FALSE
