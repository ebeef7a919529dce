CONSTANTS
    r1 = r1
    r2 = r2
    pg = pg
    doc = doc
    Doc = doc
    Requests <- MCRequests
    Deferreds <- MCDeferreds
    Lists <- MCLists
    Flags <- MCFlags
    Page = pg
    Hooks = {"ready", "prefilter", "ajaxStart", "ajaxSend"}
    Given <- MCGiven
    Timed = {r1}
    Sync = {r2}
    NoTransport = {}
    DataTypes <- MCDataTypes
    Responses <- MCResponses
    InitialList <- MCInitialList
    MaxMoves = 2

SPECIFICATION MCFairSpec

INVARIANTS
    TypeOK
    ListsCallExactly
    CountersAgree

PROPERTIES
    ImplementsPromises
    EveryRequestEnds

CHECK_DEADLOCK FALSE
