SPECIFICATION Spec
CONSTANTS
    None = None
    adm1 = adm1
    adm2 = adm2
    hb1 = hb1
INVARIANTS PassHonest LoadsAccounted RehearsalHonest
PROPERTY EditsKept WeightsPinned
CHECK_DEADLOCK FALSE
