SPECIFICATION Spec
CONSTANTS
    Engines = {e1, e2}
    Nobody = Nobody
    Bids <- ReverseBids
    AuctionType = "REVERSE"
    StartPrice = 10
    Step = 2
    Reserve = 0
    MaxPrice = 20
    QueueCapacity = 1
    RetryCapacity = 1
    MaxLog = 2
    Faults = {"rebalance"}
    MaxFaults = 1
INVARIANT PriceImproves
CHECK_DEADLOCK FALSE
