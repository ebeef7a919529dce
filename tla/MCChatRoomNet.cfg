CONSTANTS
    c1 = c1
    c2 = c2
    Clients <- TwoClients
    RetryTimes = 2
    RefreshEvery = 1
    OnlineLimit = 1
    LoseSeconds = 1
    MaxLose = 1
    MonitorEvery = 1
    Limits <- BadNetwork
    MaxLogins = 2
    MaxMoves = 0
    Inputs = FALSE

SPECIFICATION FairSpec

INVARIANTS
    HandlerReloginIsDoomed
    

PROPERTY
    ForgottenFindsOut
