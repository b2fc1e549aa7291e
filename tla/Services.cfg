SPECIFICATION ServicesSpec
CONSTANTS
    p1 = p1  p2 = p2  e1 = e1  e2 = e2  NoEvent = NoEvent
    Publishers <- TwoPublishers
    Events <- TwoEvents  MaxSubs = 2  QueueCap = 2
    Clients = {"c1"}
    Countdowns = {"k1", "k2"}
    Marks = 0
    NoCountdown = "none"
INVARIANTS
    OncePerHandler
    RebootIsAsked
PROPERTIES
    BusDelivers
    StopEnds
CHECK_DEADLOCK FALSE
