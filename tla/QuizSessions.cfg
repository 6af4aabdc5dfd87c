SPECIFICATION Spec
CONSTANTS
    Attempts = {a1, a2}
    Keys = {k1}
    Sessions = {q1, q2}
    Total = 2
    TotalStages = 1
    LeaseSeconds = 1
    TtlSeconds = 2
    MaxTime = 3
    None = None
    InitialTables <- SomeTables
SYMMETRY Interchangeable
INVARIANTS AnswersAgree MemoryIsCanonical StageByItsGrade
PROPERTIES LeaseEndsByItsOwner WorkIsKept
CHECK_DEADLOCK FALSE
