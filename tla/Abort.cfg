SPECIFICATION ServerSpec
CONSTANTS
    Clients = {"c1"}
    Countdowns = {"k1", "k2"}
    Marks = 0
    NoCountdown = "none"
INVARIANT AbortHolds
CHECK_DEADLOCK FALSE
