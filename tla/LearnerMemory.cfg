SPECIFICATION Spec
CONSTANTS
    Attempts = {a1, a2}
    Processes = {p1, p2}
    Sessions = {s1, s2}
    Tutored = {s2}
    OldSessions = {o1, o2, o3}
    s1 = s1
    s2 = s2
    o1 = o1
    o2 = o2
    o3 = o3
    ArchiveThreshold = 1
    None = None
    Report <- ThisReport
    InitialStores <- SomeStores
SYMMETRY Interchangeable
INVARIANTS MarkedIsDurable EachSessionCountsOnce OneThreadPerProcess
PROPERTIES NothingDurableIsForgotten
