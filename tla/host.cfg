SPECIFICATION Spec
CONSTANTS
    NoRun = NoRun
    Absent = Absent
    None = None
INVARIANTS BackupsRestore SuccessIsWhole
PROPERTY RecordsKept
CHECK_DEADLOCK FALSE
