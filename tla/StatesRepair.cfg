\* A generation repairs the teaching tasks and then fails.
SPECIFICATION Spec
CONSTANTS
    Jobs = {j1, j2}
    MaxSources = 2
    MaxDesigns = 2
    MaxDrafts = 2
    MaxCrashes = 0
    Repairs = TRUE
    Absent = absent
PROPERTIES
    FailureHidesNothing
CHECK_DEADLOCK FALSE
