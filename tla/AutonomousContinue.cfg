SPECIFICATION Spec
CONSTANTS
    Attempts = {a1, a2}
    Keys = {k1, k2}
    Replies = {r1, r2}
    LeaseSeconds = 1
    OperationLeaseSeconds = 1
    TtlSeconds = 2
    MaxTime = 4
    MaxFaults = 1
    None = None
SYMMETRY Interchangeable
INVARIANTS OneOutcome NeverOfferedAgain
PROPERTY NothingRunsAfterTheOutcome
CHECK_DEADLOCK FALSE
