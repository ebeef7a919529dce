CONSTANTS
    h1 = h1
    h2 = h2
    Handlers <- MCHandlers
    Monitor = Monitor
    NoThread = NoThread
    MaxNow = 2
    RandomIds <- MCRandomIds
    MaxLogins = 2
    MaxLoseTimes = 2

SPECIFICATION FairSpec

INVARIANTS
    TypeOK
    NoStrikeWhileHeard
    OneDeparture

PROPERTIES
    DriftOnlyByRaces
    SilentAreEvicted

CHECK_DEADLOCK FALSE
