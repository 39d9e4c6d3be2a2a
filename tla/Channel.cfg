CONSTANTS
    r1 = r1
    c1 = c1
    c2 = c2
    t1 = t1
    t2 = t2
    Readers <- OneReader
    Callbacks <- OneCallback
    Runs <- TwoRuns
    Replay = 2
    Backlog = 2
    MaxSeq = 3
SPECIFICATION FairSpec
INVARIANTS
    NewestKept
    HonestLoss
    DeliveryTrue
PROPERTIES
    PublishReturns
    CloseEndsReaders
CHECK_DEADLOCK FALSE
