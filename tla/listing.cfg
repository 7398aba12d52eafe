SPECIFICATION Spec
CONSTANTS
    Admins = {a1, a2}
    MaxEdits = 2
    MaxReviews = 2
    MaxSchedules = 2
    Events = {"reply", "update", "history"}
SYMMETRY AdminSymmetry
INVARIANTS
    ScheduledAsApproved
    SellerIsTold
PROPERTIES
    DecisionsAreFinal
CHECK_DEADLOCK FALSE
