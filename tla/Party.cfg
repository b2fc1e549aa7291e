SPECIFICATION EitherSpec
CONSTANTS
    ann = ann  bob = bob  cyn = cyn  dan = dan
    walk = walk  pulse = pulse  hunt = hunt  errand = errand
    None = None
    NoQuest = NoQuest
    Dispatchers <- Walk
    Pulses = {pulse}
    Killers <- Both
    Quests = {hunt, errand}
    Steps <- TwoQuests
    RewardXP = 2
    Award = 2
    DeathDelta = 1
    Teams = {{walk}, {walk, pulse}}
    MaxXP <- XPs
    MaxDebt <- Debts
    MaxFaults <- Faults
    Chars <- MCChars
    MaxGroupSize = 2
    Callings <- TwoCallings
    FirstCalling = "armsman"
    HitDie <- Dice
    BaseAttack <- Bab
    SkillGain <- Gain
    Weaving = {"initiate"}
    CallingSkills <- OfClass
    Talents = {"duelist"}
    SkillIDs = {"lore"}
    Lore = {"spark"}
    LoreCost <- TwoPoints
    TopLevel = 4
    FirstScore = 11
    ScoreCap = 12
    FirstWeaves = 0
    SlotMax = 1
    MadnessMax = 0
    RanksPerCall = 1
    Words <- SevenWords
    Begins <- BeginsOf
    NoVerb = 0
    Builtins <- BuiltinLook
    Mute = {}
    SocialFiles <- FourFiles
    TopicFiles <- TwoFiles
    Admins = {"amy", "ned"}
    Players = {"zed"}
    Level <- PlayerLevels
    Lines <- TwoLines
    Shorthands = {1, 6}
    Macros <- ThreeMacros
    MaxSegmentsPerLine = 2
    MaxAliasDepth = 2
    Span = 128
INVARIANTS
    VerbsResolve
    RegistrySound
    LogAndLedger
    SheetIsEarned
PROPERTY
    CompletedForever
CHECK_DEADLOCK FALSE
