SPECIFICATION Spec
CONSTANTS
    Attempts = {a1, a2, a3}
    Bindings = {b1, b2}
    Responses = {r1, r2}
    Keys = {k1}
    LeaseSeconds = 2
    MaxTime = 4
    MaxFaults = 1
    None = None
SYMMETRY Interchangeable
INVARIANTS EffectsOfOneAttempt AnswersAgree CleanAbortMeansNoEffect
PROPERTIES CancelledBeginLetsGo PromiseSpec
CHECK_DEADLOCK FALSE
