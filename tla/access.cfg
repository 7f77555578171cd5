SPECIFICATION PartSpec
CONSTANTS
    p1 = p1
    p2 = p2
    s1 = s1
    s2 = s2
    t1 = t1
    t2 = t2
    t3 = t3
    r1 = r1
    r2 = r2
    a1 = a1
    a2 = a2
    None = None
    Tenants = {"east", "west", "north"}
    Tenants0 = {"east", "west"}
    People = {"amy", "ben", "cal", "dot"}
    Accounts0 <- Staff
    Rows0 <- Kept
    Requests = {r1, r2}
    Exercised <- Routes
    MaxArrivals = 2
INVARIANTS AccountsHold LimitsHold AuthorityHolds
PROPERTY StaysOff
SYMMETRY Symmetry
CHECK_DEADLOCK FALSE
