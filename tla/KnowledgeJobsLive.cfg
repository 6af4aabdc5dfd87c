SPECIFICATION Spec
CONSTANTS
    Documents = {d1}
    MaxVersions = 2
    MaxJobs = 3
    MaxFixes = 1
    MaxRevision = 0
    Configs = {g1}
    Faults = {"crash", "provider", "database", "files", "refusal", "lost begin", "lost finish"}
    MaxFaults = 2
    RetriesAnyJob = FALSE
    Gone = Gone
    Unavailable = Unavailable
PROPERTIES AcceptedJobsEnd DeletionsFinish
CHECK_DEADLOCK FALSE
