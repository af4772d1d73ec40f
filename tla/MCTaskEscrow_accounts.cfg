SPECIFICATION Spec
CONSTANTS
    Verifiers = {v1, v2}
    QuorumThreshold = 2
    VerifierStake = 1
    MilestoneAmounts <- TwoAmounts
    MilestoneDeadlines <- ShortDeadlines
    Amount = 7
    WorkerStake = 3
    SubmissionDeadline = 2
    ReviewPeriod = 1
    DisputePeriod = 1
    ArbitratorTimeout = 1
    BackupExtension = 1
    HasBackup = TRUE
    HighAssurance = FALSE
    HasZKVerifier = TRUE
    IsToken = TRUE
    FeeBps = 3000
    Awards = {0, 5000}
    Rejecting = {}
    MaxTime = 7
SYMMETRY Symmetry
INVARIANTS
    Conservation
    VotesInForce
    OutcomeTruthful
PROPERTIES
    FrozenPaysOnlyBuyer
CHECK_DEADLOCK FALSE
