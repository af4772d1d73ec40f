SPECIFICATION Spec
CONSTANTS
    r1 = r1
    b1 = b1
    b2 = b2
    n1 = n1
    n2 = n2
    q1 = q1
    q2 = q2
    RFQs = {r1}
    Bidders = {b1, b2}
    Nonces = {n1, n2}
    Requests = {q1, q2}
    Terms <- ThreeTerms
    None = None
    Modes = {"sealed", "open"}
    Demands = {FALSE}
    Parents = {FALSE}
    CommitTime = 1
    RevealTime = 1
    OpenTime = 4
    Cooldowns <- GrowingCooldowns
    RebidCooldown = 1
    CommitLimit = 2
    CommitWindow = 1
    LastPublished = 0
    MaxTime = 2
    MaxCommits = 2
    MaxEscrows = 2
    MaxFailures = 1
SYMMETRY Symmetry
INVARIANTS WinnerIsBest OnlyWinnerPaid StrikesFair
PROPERTIES OutcomeStays
CHECK_DEADLOCK FALSE
