SPECIFICATION FairSpec
CONSTANTS
    Bids <- ReverseBids
    Nobody = Nobody
    AuctionType = "REVERSE"
    StartPrice = 10
    Step = 2
    Reserve = 0
    MaxPrice = 20
    MaxAttempts = 3
    Foreign = {"other"}
    MaxSync = 6
    Faults = {"worker", "read", "kafka", "commit", "expire", "config"}
    MaxFaults = 2
PROPERTIES
    RedisReleased
CHECK_DEADLOCK FALSE
