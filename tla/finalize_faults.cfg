SPECIFICATION FairSpec
CONSTANTS
    Bids <- ForwardBids
    Nobody = Nobody
    AuctionType = "FORWARD"
    StartPrice = 4
    Step = 2
    Reserve = 7
    MaxPrice = 20
    MaxAttempts = 3
    Foreign = {"bad"}
    MaxSync = 3
    Faults = {"engine", "worker", "redis", "read", "slow", "db", "kafka", "commit"}
    MaxFaults = 2
INVARIANTS
    TypeOK
    NoAcceptedBidLost
    FinalOutcome
PROPERTIES
    EveryEndedAuctionFinalised
CHECK_DEADLOCK FALSE
