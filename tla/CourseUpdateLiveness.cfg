\* One update and one clean-up under fairness; failures stop after the second.
SPECIFICATION FairSpec
CONSTANTS
    Workers = {w1, w2}
    Updates = {u1}
    Prunes = {p1}
    Sources = {s1}
    Workspace = workspace
    Routing = routing
    Manifests = {}
    Edits = {e1}
    Initial = initial
    Absent = absent
    None = none
    MaxFaults = 2
    CommitSyncMayFail = TRUE
PROPERTIES
    InterruptedIsSettled
    LockIsReleased
