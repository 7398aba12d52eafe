SPECIFICATION Spec
CONSTANTS
    Kinds = {"shipment", "forward", "auction", "listing"}
    Entries <- FormEntries
    Durations = {10}
    Sections = {"details"}
    MaxFiles = 2
    MaxClock = 1
    MaxSubmits = 2
    MaxEdits = 1
    Faults = {"upload", "create", "reply", "route"}
INVARIANTS
    PublishedAsSubmitted
    ConfirmedIsPublished
    NoUrlLeak
PROPERTIES
    SubmissionSettles
CHECK_DEADLOCK FALSE
