SPECIFICATION Spec
CONSTANTS
    poller = poller
    request = request
    w1 = w1
    m1 = m1
    Transactions = {"create", "fund", "submit", "approve"}
    MilestoneCounts = {1}
    MaxBlocks = 4
    Passes = {poller, request}
    Poller = poller
    Hooks = {}
    Minters = {}
    StartBlock = 0
    Lookback = 10
    MaxFailures = 2
    Disruptions = {"request"}
    MaxDisruptions = 1
PROPERTY TerminalKept
CHECK_DEADLOCK FALSE
