SPECIFICATION EntrySpec
CONSTANTS
    c1 = c1  c2 = c2  a1 = a1  k1 = k1  k2 = k2  i1 = i1  p1 = p1  color = color
    None = None
    Conns <- TwoConns
    Accounts <- OneAccount
    Chars <- TwoChars
    Items <- OneItem
    Passwords <- OnePassword
    Keys <- OneKey
    Threshold = 2
    TypesAhead = FALSE
    MaxLines = 1
    MaxFailed = 3
    MaxFaults = 1
    Values = {v1, v2}
    Nothing = Nothing
    EventsCap = 2
SYMMETRY Symm
INVARIANTS
    PasswordsKept
    LockoutBinds
    CascadeIsWhole
    DisplayCatchesUp
CHECK_DEADLOCK FALSE
