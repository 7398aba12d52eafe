SPECIFICATION Spec
CONSTANTS
    Engines = {e1}
    Nobody = Nobody
    Bids <- ForwardBids
    AuctionType = "FORWARD"
    StartPrice = 4
    Step = 2
    Reserve = 8
    MaxPrice = 20
    QueueCapacity = 1
    RetryCapacity = 1
    MaxLog = 3
    Faults = {"crash", "redis", "kafka", "commit", "commit_lost"}
    MaxFaults = 1
INVARIANTS
    PriceImproves
    AuditMatchesLedger
    AnnouncedWinnerIsBest
PROPERTIES
    LedgerFinalAfterSync
    ImplementsLedger
CHECK_DEADLOCK FALSE
