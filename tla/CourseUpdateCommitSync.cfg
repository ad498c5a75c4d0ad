\* Two workers, one staged update of two files and one source clean-up.
SPECIFICATION Spec
CONSTANTS
    Workers = {w1, w2}
    Updates = {u1}
    Prunes = {p1}
    Sources = {s1, s2}
    Workspace = workspace
    Routing = routing
    Manifests = {}
    Edits = {e1}
    Initial = initial
    Absent = absent
    None = none
    MaxFaults = 1
    CommitSyncMayFail = TRUE
PROPERTIES
    CommittedStays
