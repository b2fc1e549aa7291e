SPECIFICATION EntrySpec
CONSTANTS
    s1 = s1  s2 = s2  a1 = a1  a2 = a2  None = None
    Conns <- TwoConns  Accounts <- TwoAccounts
    InboxCap = 1  MaxFaults = 1  MaxPanics = 1
    Names = {"rand"}
    NoPick = NoPick
    Races <- TwoRaces
    Backgrounds <- TwoBackgrounds
    Classes <- TwoClasses
    Feats <- OneFeat
    Skills <- TwoSkills
    Powers <- TwoPowers
    Weaves <- TwoWeaves
    RaceOf <- Race
    FeatsOf <- FeatChoice
    KitsOf <- KitChoice
    Channelers = {"initiate"}
    Barred = {"ogier"}
    SkillsOf <- SkillChoice
    PointsOf <- Points
    CoinOf <- Coin
    PowerOf <- Power
    Wearable = {"weapon", "armor"}
    Abilities = {"int", "str"}
    MinScore = 9
    MaxScore = 10
    Cost <- ScoreCost
    PointBuy = 1
    Mind = "int"
    RankCap = 1
    LevelOneFactor = 1
    AffinityCount = 1
    WeaveCount = 1
INVARIANTS
    BindingsHold
    CreatedSound
PROPERTY LoserEnds
CHECK_DEADLOCK FALSE
