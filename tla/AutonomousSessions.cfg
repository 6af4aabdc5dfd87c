SPECIFICATION Spec
CONSTANTS
    Conversations = {k1, k2}
    Attempts = {a1, a2}
    Fingerprints = {f1, f2}
    Responses = {r1, r2}
    TtlSeconds = 3
    OperationLeaseSeconds = 2
    MaxCount = 1
    MaxTime = 4
    MaxFaults = 1
    None = None
SYMMETRY Interchangeable
INVARIANTS OutcomeOfTheSameReply WithinCapacity
PROPERTIES PromiseSpec PausesEndRightly
CHECK_DEADLOCK FALSE
