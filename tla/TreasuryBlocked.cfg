SPECIFICATION LiveSpec
CONSTANTS
    p1 = p1 p2 = p2 h1 = h1 h2 = h2 e1 = e1
    None = None
    Proposals = {p1, p2}
    Calls = {h1, h2}
    Earnings = {e1}
    Fees = {1}
    Amount <- MCAmount
    Share <- MCShare
    Opening = 7
    OpeningFee = 1
    MaxFaults = 1
CHECK_DEADLOCK FALSE
PROPERTY
    WithdrawalResolves
