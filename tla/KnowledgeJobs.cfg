SPECIFICATION Spec
CONSTANTS
    Documents = {d1, d2}
    MaxVersions = 3
    MaxJobs = 3
    MaxFixes = 1
    MaxRevision = 1
    Configs = {g1, g2}
    Faults = {"crash", "provider", "database", "files", "refusal"}
    MaxFaults = 1
    RetriesAnyJob = FALSE
    Gone = Gone
    Unavailable = Unavailable
SYMMETRY Interchangeable
INVARIANTS ReadyIsWhole FilesMatchRows
PROPERTIES PromiseSpec
CHECK_DEADLOCK FALSE
