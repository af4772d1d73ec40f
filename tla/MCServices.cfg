SPECIFICATION ServicesSpec
SYMMETRY Interchangeable
CONSTANTS
    Agreements <- SomeAgreements
    CallRequests = {q1, q2}
    Mandates <- TwoEnvelopes
    Children = {c1}
    MaxPool = 1
    Processes = {p1, p2}
    Shoppers = {r1, r2}
    Keys = {k1}
    NoKey = nokey
    Reached = {"funded", "submitted", "settled", "refunded"}
    MaxSent = 1
    Requests <- SomeRequests
    ServerFloor = 2
    ChainFloor = 1
    Now = 5
    IntMax = 20
    Planners = {r1, r2}
    Proposals <- SomeProposals
    Panels = {0, 1, 2}
    NoParent = noparent
    A2AAgents = {r1, r2}
    TaskIDs = {t1}
INVARIANTS
    NoFalseRefusal
    MandateSentOnce
    OneAnswerPerKey
    RefusedForCause
    SameIntentAtEveryDoor
    LeavesOffered
    TaskAcceptedOnce
PROPERTIES
    AnsweredKeySpent
CHECK_DEADLOCK FALSE
