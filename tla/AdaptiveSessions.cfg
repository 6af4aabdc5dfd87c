SPECIFICATION Spec
CONSTANTS
    Attempts = {a1, a2}
    Keys = {k1}
    Sessions = {s1, s2}
    Answers = {x, y}
    Goals = {g}
    Gaps <- AnyGaps
    Learners = {TRUE, FALSE}
    MaxTurns = 2
    LeaseSeconds = 1
    TtlSeconds = 2
    MaxTime = 3
    None = None
    InitialTables <- SomeTables
SYMMETRY Interchangeable
INVARIANTS RepliesAgree MemoryIsCanonical OnePath
PROPERTIES PromiseSpec
CHECK_DEADLOCK FALSE
