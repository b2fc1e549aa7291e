SPECIFICATION EitherSpec
CONSTANTS
    c1 = c1  c2 = c2  m1 = m1  t1 = t1  NoOne = NoOne
    x1 = x1
    Chars <- TwoChars  Mobs <- OneMob  Pulses <- OnePulse  Scripts = {}
    HPMax = 1  MaxInputs = 2
    Guests = {}
    FlowSteps = {"colour","shade","wares","which","sure","commit"}
    KindOf <- MCKinds
    Releases <- MCReleases
    BranchOn = "colour"
    Wares = {"str","dex"}
    Prices <- MCPrices
    Lowest = 0
    Budget = 1
    MaxMoves = 6
PROPERTIES
    QueuedActionResolves
CHECK_DEADLOCK FALSE
