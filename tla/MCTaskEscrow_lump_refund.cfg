SPECIFICATION Spec
CONSTANTS
    Verifiers = {v1, v2}
    QuorumThreshold = 1
    VerifierStake = 2
    MilestoneAmounts <- TwoAmounts
    MilestoneDeadlines <- TwoDeadlines
    Amount = 7
    WorkerStake = 0
    SubmissionDeadline = 3
    ReviewPeriod = 1
    DisputePeriod = 1
    ArbitratorTimeout = 1
    BackupExtension = 1
    HasBackup = TRUE
    HighAssurance = FALSE
    HasZKVerifier = TRUE
    IsToken = TRUE
    FeeBps = 3000
    Awards = {0, 5000}
    Rejecting = {}
    MaxTime = 5
SYMMETRY Symmetry
INVARIANTS
    PaidWithinDeposit
