\* Two workers, two staged updates and a clean-up of one source.
SPECIFICATION Spec
CONSTANTS
    Workers = {w1, w2}
    Updates = {u1, u2}
    Prunes = {p1}
    Sources = {s1}
    Workspace = workspace
    Routing = routing
    Manifests = {}
    Edits = {e1}
    Initial = initial
    Absent = absent
    None = none
    MaxFaults = 2
    CommitSyncMayFail = FALSE
SYMMETRY Symmetry
INVARIANTS
    Recoverable
PROPERTIES
    ImplementsAtomicUpdate
    CommittedStays
    MarkedUploadsStay
