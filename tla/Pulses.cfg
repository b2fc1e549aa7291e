SPECIFICATION EitherSpec
CONSTANTS
    AffectSources = {"potion", "staff"}
    AffectNames = {"venom"}
    TickDamage <- VenomHurts
    Lasts = {1, 2}
    MaxPerName = 1
    HealthMax = 2
    StaminaMax = 2
    ActionStamina = 1
    StaminaRegen = 1
    HeavyArmor = TRUE
    Swings = 2
    Doses = 1
    MaxApplied = 1
    MaxUnwritten = 1
    Mobs = {"wolf"}
    WanderPulses = {"p1", "p2"}
    Places = {"a", "b", "c", "x"}
    Passages = {"ab", "ba", "bc", "cb", "cx", "xc"}
    Leaves <- MCLeaves
    Reaches <- MCReaches
    Doorways = {"bc"}
    ZoneOf <- MCZoneOf
    Home <- MCHome
    Templates <- MCTemplates
    HopCap = 3
    Nowhere = "nowhere"
    Walkers = {"ann", "ben"}
    Admins = {"ann"}
    Fighting = "fighting"
    Halls = {"hall", "yard"}
    Ways = {"out", "ring"}
    Near <- MCNear
    Far <- MCFar
    Gates = {"out"}
    Aloft = {}
    NoTeleport = {}
    Entry <- MCEntry
    Unrelated = {}
    MaxFollowDepth = 2
    Nobody = "nobody"
    Sources = {"g1", "g2"}
    PoolSize = 1
    CallTimeout = 2
    FaultThreshold = 2
    MaxOutstandingWaits = 1
    Deferred = {"d1"}
INVARIANTS
    KeepsToItsZone
    SlotsBalance
PROPERTIES
    ScriptsEnd
    CalmRestores
    ChasesEnd
    EveryStepEnds
CHECK_DEADLOCK FALSE
