SPECIFICATION MCSpec
CONSTANTS
    Addresses <- Everyone
    Nobody = "nobody"
    Deployer = "ann"
    Casts <- FeeCasts
    Suspects = {}
    Heirs = {"bob"}
    TierChoices = {0}
    Amounts = {1}
    FeeChoices = {0, 6000}
    Windows = {0, 1}
    MaxStreak = 1
    MaxEscrows = 4
    Moving = {}
    MaxTime = 2
INVARIANTS
    FeePolicyConsistent
    ReputationMatchesOutcomes
PROPERTIES
    BurstNeverForgotten
CHECK_DEADLOCK FALSE
