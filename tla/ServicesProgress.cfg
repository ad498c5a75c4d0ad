\* What sign-in, practice exams and model calls must bring to an end.
SPECIFICATION FairServices
CONSTANTS
    None = none
    Nothing = nothing
    Absent = absent
    Pair = {x1, x2}
    Key = k1
    Claims = {r1, r2, r3}
    Tasks = {g1, g2, g3}
    Fixed = {g1}
PROPERTIES
    ServicesEnd
CHECK_DEADLOCK FALSE
