SPECIFICATION PartSpec
CONSTANTS
    c1 = c1  c2 = c2  d1 = d1  d2 = d2  d3 = d3  r1 = r1  r2 = r2  r3 = r3  r4 = r4  o1 = o1
    k1 = k1  k2 = k2  n1 = n1  n2 = n2  NoOne = NoOne
    Calls = {c1, c2, d1, d2, d3}
    Ids = {r1, r2, r3, r4}
    Ops = {o1}
    IdOf <- IdUsed
    KindOf <- Kinds
    TargetOf <- Targets
    EpochOf <- FirstEntry
    ActionOf <- Requests
    Asker = {"watchdog", "resume"}
    NoId = NoId
    MaxBirths = 3  MaxCrashes = 1  MaxEpoch = 1
INVARIANTS ResetRunsOnce ResolvedMeansGone EntryKept
PROPERTY WithdrawnNeverRuns RestoreWhole
SYMMETRY Symmetry
CHECK_DEADLOCK FALSE
