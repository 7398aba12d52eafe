SPECIFICATION FairSpec
CONSTANTS
    AuctionType = "REVERSE"
    StartPrice = 6
    Step = 2
    Amounts = {4, 1}
    Start = 1
    End = 3
    ClientLag = 1
    Window = 1
    MaxMine = 2
    MaxOther = 1
    MaxClock = 5
    MaxEvents = 2
    Events = {"drop", "publish", "redis", "grpc"}
INVARIANTS
    LeaderIsPrice
    CatchesUp
    DecidedIsNotPending
PROPERTIES
    OpensOnTime
CHECK_DEADLOCK FALSE
