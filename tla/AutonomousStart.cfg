SPECIFICATION Spec
CONSTANTS
    Attempts = {a1, a2, a3}
    LeaseSeconds = 1
    MaxTime = 3
    MaxFaults = 1
    None = None
SYMMETRY Interchangeable
INVARIANTS AnswersAgree EffectsMatchTheAnswer
PROPERTY NoEffectAfterAnAnswer
CHECK_DEADLOCK FALSE
