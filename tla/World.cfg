SPECIFICATION EitherSpec
CONSTANTS
    plaza = plaza
    vault = vault
    annex = annex
    town = town
    wild = wild
    rat = rat
    cat = cat
    key = key
    gate = gate
    Rooms = {plaza, vault, annex}
    Zones = {town, wild}
    Mobs = {rat, cat}
    Things = {key}
    Doors = {gate}
    Players = {"ann"}
    Texts = {"old", "new"}
    DoorStates = {"open", "locked"}
    Editions <- MCEditions
    Interval = 2
    Passes = {"p1"}
    a = a  b = b  i1 = i1  i2 = i2
    None = None  Unborn = Unborn  Ground = Ground  Gone = Gone
    Chars <- TwoBuyers  Items <- TwoItems
    QtyMax = 1  BuyPrice = 2  SellPrice = 1
    InitCoin = 2  MaxVersion = 2  MaxFaults = 1
INVARIANTS
    TillBalances
    OneMobEach
PROPERTIES
    BootsKeepTheWorld
    ComesBack
    Refilled
CHECK_DEADLOCK FALSE
