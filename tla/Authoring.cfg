\* Goals, markers, teaching tasks, sections, review and publication in two languages.
SPECIFICATION Spec
CONSTANTS
    Pair = {x1, x2}
    Goals = {g1, g2, g3}
    Fixed = {g1}
    NoDesign = none
    Unreadable = unreadable
    Nothing = nothing
    Nobody = nobody
    Drafts = {d1, d2}
    Generated = generated
    ByHand = by_hand
    Lease = 4
    Delay = 1
    Languages = {"de", "en"}
    MaxSource = 2
    MaxPractice = 2
    MaxVersion = 2
    MaxTexts = 2
    MaxFaults = 1
    Contents = {"before", "after"}
    Before = "before"
    Supports <- BeforeAndAfter
    MaxChanges = 1
    MaxApprovals = 2
    MaxDesigns = 2
    Concurrency = 2
    Attempts = 3
    MaxRetries = 1
    MaxInputs = 1
    MaxWrites = 3
    MaxRestarts = 2
SYMMETRY Symmetry
INVARIANTS
    WaitingIsProposing
    ApprovalsAreOfTheDraft
PROPERTIES
    ApprovalsAreKnowing
    TasksAreReviewed
    SectionsAreAccepted
    PublishedIsReviewed
    VariantsFollowThePublication
CHECK_DEADLOCK FALSE
