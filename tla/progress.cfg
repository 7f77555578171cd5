SPECIFICATION Spec
CONSTANTS
    None = None  NoRun = NoRun  Absent = Absent
PROPERTIES WorkEnds RequestsEnd Converges
CHECK_DEADLOCK FALSE
