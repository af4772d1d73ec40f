SPECIFICATION FairSpec
CONSTANTS
    poller = poller
    request = request
    w1 = w1
    m1 = m1
    Transactions = {"create", "fund", "timeout", "bar"}
    MilestoneCounts = {1}
    MaxBlocks = 3
    Passes = {poller, request}
    Poller = poller
    Hooks = {w1}
    Minters = {}
    StartBlock = 0
    Lookback = 10
    MaxFailures = 2
    Disruptions = {"request", "delivery", "fault", "crash"}
    MaxDisruptions = 1
INVARIANTS FactoryCovered OutcomesCounted
PROPERTY PollerCatchesUp
CHECK_DEADLOCK FALSE
