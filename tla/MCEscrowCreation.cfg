SPECIFICATION FairSpec
CONSTANTS
    c1 = c1
    c2 = c2
    t1 = t1
    t2 = t2
    Callers = {c1, c2}
    Creates = {t1, t2}
    Other = Other
    NoTx = NoTx
    MaxNonce = 3
    MaxStops = 1
INVARIANTS OneEscrowPerIntent RecordedTxKept
PROPERTIES FinalizedForGood ResumeCompletes
CHECK_DEADLOCK FALSE
