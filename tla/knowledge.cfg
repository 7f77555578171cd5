SPECIFICATION MCSpec
CONSTANTS
    d1 = d1
    t1 = t1
    t2 = t2
    t3 = t3
    g1 = g1
    g2 = g2
    i1 = i1
    i2 = i2
    Docs <- MCDocs
    Tasks <- MCTasks
    Readers <- MCReaders
    Identities <- MCIdentities
    Legacy = {}
    Kinds = {"upload", "reindex", "delete"}
    Faults = {"crash", "vectors", "late"}
    MaxEpoch = 6
INVARIANTS IndexWhole GroundedFromEpoch
PROPERTY ChangesFenced
SYMMETRY Symmetry
CHECK_DEADLOCK FALSE
