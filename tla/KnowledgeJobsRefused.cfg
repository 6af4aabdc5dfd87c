SPECIFICATION Spec
CONSTANTS
    Documents = {d1, d2}
    MaxVersions = 2
    MaxJobs = 4
    MaxFixes = 0
    MaxRevision = 0
    Configs = {g1}
    Faults = {"provider", "refusal"}
    MaxFaults = 2
    RetriesAnyJob = FALSE
    Gone = Gone
    Unavailable = Unavailable
INVARIANT ReadyIsWhole
CHECK_DEADLOCK FALSE
