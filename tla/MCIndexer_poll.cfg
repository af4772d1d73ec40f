SPECIFICATION Spec
CONSTANTS
    poller = poller
    request = request
    w1 = w1
    m1 = m1
    Transactions = {"create", "fund", "stake", "cancel", "submit", "approve", "dispute", "silence", "resolve", "timeout", "idle", "backup", "freeze", "unfreeze", "emergency", "abort", "bar", "unbar"}
    MilestoneCounts = {1, 2}
    MaxBlocks = 5
    Passes = {poller}
    Poller = poller
    Hooks = {}
    Minters = {m1}
    StartBlock = 0
    Lookback = 10
    MaxFailures = 2
    Disruptions = {}
    MaxDisruptions = 0
INVARIANTS CursorCovers Reconciled StreamInOrder
PROPERTY TerminalKept
CHECK_DEADLOCK FALSE
