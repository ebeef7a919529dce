CONSTANTS
    h1 = h1
    h2 = h2
    Handlers <- MCHandlers
    Monitor = Monitor
    NoThread = NoThread
    MaxNow = 2
    RandomIds <- MCRandomIds
    MaxLogins = 2
    MaxLoseTimes = 3

SPECIFICATION Spec

INVARIANT
    CountIsSize

CHECK_DEADLOCK FALSE
