SPECIFICATION FairSpec
CONSTANTS
    Pages = {page}
    Cards = {card}
    Deadline = 1
    Start = 2
    End = 3
    MaxClock = 2
    MaxJoins = 1
    MaxLeaves = 1
    MaxReads = 2
    MaxEvents = 1
    Events = {"bit", "cache", "count", "db", "reply", "restart", "focus"}
INVARIANTS
    SuccessHasAccess
    CatalogueFresh
PROPERTIES
    RegisteredEntersRoom
CHECK_DEADLOCK FALSE
