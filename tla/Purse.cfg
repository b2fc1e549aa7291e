SPECIFICATION EitherSpec
CONSTANTS
    rand = rand  mat = mat  tick = tick  h1 = h1  h2 = h2
    None = None
    Chars <- TwoChars
    Tickers <- OneTicker
    Piles <- TwoPiles
    Amounts <- One
    InitCoin = 1
    MaxAmount = 2
    MaxFaults = 1
    MaxVersion = 2
    plaza = plaza  vault = vault  inward = inward  outward = outward
    brass = brass  ann = ann  bo = bo  root = root
    Rooms = {plaza, vault}
    Exits = {inward, outward}
    Keys = {brass}
    Players = {ann, bo}
    From <- MCFrom
    Authored <- MCAuthored
    FirstKey <- MCFirstKey
    Builders = {bo}
    Admins = {ann}
    Texts = {"old", "new"}
    Narrow = {"a", " "}
    Wide = {"W"}
    Completions <- MCCompletions
    Remembered <- MCRemembered
    InboxCap = 1
    MaxLine = 3
    MaxPages = 1
    Listeners = {"l1", "l2"}
    Beat = 2
    Quarter = 2
    PhaseEvery = 2
    SaveEvery = 6
    Baseline = 3
    Pulses = {1, 2}
    Horizon = 12
    Limit = 2500
    ErrOverflow = ErrOverflow
    ErrInsufficientFunds = ErrInsufficientFunds
    ErrInvalidFormat = ErrInvalidFormat
    ErrEmpty = ErrEmpty
SYMMETRY SymmTwo
INVARIANTS
    Accounted
    MatchMeansCurrent
    LockedIsClosed
    TimeIsKept
PROPERTIES
    DelicateWritesExact
    DoorTurnsByHand
    RowFollowsLine
CHECK_DEADLOCK FALSE
