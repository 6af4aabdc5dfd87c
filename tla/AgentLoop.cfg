SPECIFICATION Spec
CONSTANTS
    Grades = {g1, g2}
    MaxRounds = 3
    MaxChatRounds = 2
    MaxBatch = 2
    MaxReservations = 2
    None = None
INVARIANTS EachGradeIsWrittenOnce TranscriptIsWhole
PROPERTIES OnlyAllowedHandlersStart RunsEnd
CHECK_DEADLOCK FALSE
