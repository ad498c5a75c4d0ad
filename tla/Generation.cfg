\* Two requests with keys of their own, while sources and design change. The lecture is at rest when the claims are used up.
SPECIFICATION Spec
CONSTANTS
    Keys = {k1, k2}
    Runs = {r1, r2}
    None = none
    Slots = 1
    Retained = 1
    MaxRevisions = 1
    MaxFaults = 2
SYMMETRY Symmetry
CHECK_DEADLOCK FALSE
INVARIANTS
    RecordsAreTrue
PROPERTIES
    OwnershipHolds
    DraftsInOrder
    EndedStays
    ImplementsRegister
