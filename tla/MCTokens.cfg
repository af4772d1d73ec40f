SPECIFICATION FocusSpec
SYMMETRY Interchangeable
CONSTANTS
    Principals = {buyer, owner}
    Anonymous = anonymous
    Buyer = buyer
    FactoryOwner = owner
    NamedIssuers = {}
    Grants <- SomeGrants
    TokenRequests = {q1}
    Revocations = {v1}
    MaxRoots = 1
    MaxTokens = 3
    MaxClock = 1
    Responders = {r1, r2}
    Poller = poller
    MaxTransactions = 2
INVARIANTS
    ChainAttenuates
    VerdictsCurrent
    RowFollowsChain
PROPERTIES
    RevokedForGood
CHECK_DEADLOCK FALSE
