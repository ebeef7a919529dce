CONSTANTS
    c1 = c1
    c2 = c2
    Clients <- OneClient
    RetryTimes = 3
    RefreshEvery = 5
    OnlineLimit = 10
    LoseSeconds = 10
    MaxLose = 3
    MonitorEvery = 20
    Limits <- GoodNetwork
    MaxLogins = 4
    MaxMoves = 1
    Inputs = TRUE

SPECIFICATION Spec

INVARIANTS
    TypeOK
    HealthySession
    


    
