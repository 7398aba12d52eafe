SPECIFICATION Spec
CONSTANTS
    MaxMounts = 3
    Events = {"drop", "ticket", "refused"}
    MaxEvents = 2
INVARIANTS
    TicketsUsedOnce
    PageHearsItsSocket
PROPERTIES
    StaysConnected
CHECK_DEADLOCK FALSE
