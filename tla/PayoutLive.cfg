SPECIFICATION LiveSpec
CONSTANTS
    c1 = c1 c2 = c2 p1 = p1 p2 = p2 k1 = k1 k2 = k2
    None = None
    Ids = {p1, p2}
    Calls = {c1, c2}
    Keys = {k1}
    Gross = 1
    Fees = {0}
    Window = 0
    MaxLive = 1
    MaxFunds = 2
    MaxSeq = 2
    MaxGen = 3
    MaxTime = 1
    MaxFaults = 1
CHECK_DEADLOCK FALSE
PROPERTIES
    PayoutCompletes
