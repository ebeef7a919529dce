CONSTANTS
    p1 = p1
    p2 = p2
    w1 = w1
    w2 = w2
    m1 = m1
    m2 = m2
    Producers <- MCProducers
    Workers <- MCWorkers
    Msgs <- MCMsgs
    NoMsg = NoMsg
    NoThread = NoThread
    Retry = 3

SPECIFICATION FairSpec

INVARIANTS
    TypeOK
    LockInv
    HeldOnce

PROPERTIES
    ImplementsWorkQueue
    CommitWakesSleeper
    

