SPECIFICATION PlanSpec
CONSTANTS
    m1 = m1
    m2 = m2
    m3 = m3
    m4 = m4
    m5 = m5
    MEMBERS <- FiveMembers
    EPSILON = 1
    BALANCES <- ThreeAgainstTwo
INVARIANT
    MinimalTransfers
