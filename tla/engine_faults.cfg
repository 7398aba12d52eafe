SPECIFICATION Spec
CONSTANTS
    Engines = {e1, e2}
    Nobody = Nobody
    Bids <- OneGoodOneBad
    AuctionType = "REVERSE"
    StartPrice = 10
    Step = 2
    Reserve = 0
    MaxPrice = 20
    QueueCapacity = 1
    RetryCapacity = 1
    MaxLog = 1
    Faults = {"rebalance", "crash", "redis", "reply_lost", "read", "kafka", "commit", "commit_lost", "unhydrated"}
    MaxFaults = 1
SYMMETRY EngineSymmetry
INVARIANTS
    TypeOK
    OneTaskOutstanding
    NoBidLost
    AcceptedOnce
PROPERTIES
    NoDecisionDropped
CHECK_DEADLOCK FALSE
