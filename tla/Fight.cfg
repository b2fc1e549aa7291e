SPECIFICATION EitherSpec
CONSTANTS
    c1 = c1  c2 = c2  m1 = m1  t1 = t1  x1 = x1  NoOne = NoOne
    Chars <- TwoChars  Mobs <- OneMob  Pulses <- OnePulse  Scripts <- OneScript
    HPMax = 1  MaxInputs = 3
    Guests = {"g1","g2"}
    FlowSteps = {"colour","shade","wares","which","sure","commit"}
    KindOf <- MCKinds
    Releases <- MCReleases
    BranchOn = "colour"
    Wares = {"str","dex"}
    Prices <- MCPrices
    Lowest = 0
    Budget = 1
    MaxMoves = 6
INVARIANTS
    DeathsHandled
    CommitIsWhole
PROPERTIES
    FightGoesOn
CHECK_DEADLOCK FALSE
