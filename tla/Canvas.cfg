\* Canvas directories, states of a lecture, change requests.
SPECIFICATION CanvasSpec
CONSTANTS
    t1 = t1
    t2 = t2
    t3 = t3
    worker = worker
    other = other
    Pair = {x1, x2}
    R1 = r1
    R2 = r2
    S1 = s1
    S2 = s2
    Requests = {r1, r2}
    Sections = {s1, s2}
    Named <- NamedOrSelected
    MaxSelected = 2
    MaxAttempts = 2
    MaxGoals = 2
    MaxDrafts = 2
    MaxSources = 2
    MaxDesigns = 2
    MaxCrashes = 1
    Nobody = nobody
    Absent = absent
    Processes = {worker, other}
    File = file
    None = none
    Threads = {t1, t2, t3}
    ProcessOf <- TwoAndOne
    Paths = {1, 2}
    LockSet <- DraftAndPublished
    PlainReads = {2}
    Faults = {"build", "rename", "sync", "crash"}
    MaxWrites = 4
    MaxFaults = 3
SYMMETRY Symmetry
INVARIANTS
    OneToRestore
    LocksHold
    OfferedIsPossible
PROPERTIES
    Replaces
    ReadersFindThePublication
    
CHECK_DEADLOCK FALSE
