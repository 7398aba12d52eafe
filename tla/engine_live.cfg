SPECIFICATION FairSpec
CONSTANTS
    Engines = {e1}
    Nobody = Nobody
    Bids <- ReverseBids
    AuctionType = "REVERSE"
    StartPrice = 10
    Step = 2
    Reserve = 0
    MaxPrice = 20
    QueueCapacity = 1
    RetryCapacity = 1
    MaxLog = 2
    Faults = {"redis", "kafka", "commit"}
    MaxFaults = 1
INVARIANTS
    NoBidLost
PROPERTIES
    EveryBidSettles
    PublishedWhileOpen
CHECK_DEADLOCK FALSE
