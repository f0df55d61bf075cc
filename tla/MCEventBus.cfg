CONSTANTS
    BusCalls = {1, 2}
    BusEnabled = {TRUE}
SPECIFICATION BusSpec
INVARIANTS
    StopClosesTheConnection
CHECK_DEADLOCK FALSE
