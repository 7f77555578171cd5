SPECIFICATION Spec
CONSTANTS
    None = None
    r1 = r1
    r2 = r2
    c1 = c1
INVARIANTS AnswerWhole PromptHonest SummariesHonest
SYMMETRY Symmetry
CHECK_DEADLOCK FALSE
