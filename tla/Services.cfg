\* Sign-in, sessions, access, quota, requests to models, practice exams.
SPECIFICATION Spec
CONSTANTS
    None = none
    Clients = {x1, x2, x3}
    Pair = {y1, y2}
    Passwords = {p1, p2}
    Tokens = {t1, t2}
    Editors = {e1, e2}
    Editor = e1
    Student = u1
    Nobody = nobody
    NoCourse = no_course
    NoFile = no_file
    NoRule = no_rule
    Ttl = 4
    Lifetimes = {5, 9}
    LongLifetime = 9
    MaxTime = 11
    Connections = 2
    TurnsPerDay = 2
    TokensPerDay = 3
    ImagesPerDay = 1
    ConcurrentTurns = 1
    Reservations = {1, 2}
    Reported = {2}
    LastDay = 1
    ImageDays = 2
    MaxCrashes = 1
    MaxAttempts = 2
    RequestLimit = 3
    TokenLimit = 2
    Amounts = {1}
    Budgets = {1, 2}
    Slots = 1
    MaxTerminal = 1
    MaxRuns = 2
SYMMETRY Symmetry
INVARIANTS
    QuotaIsAccounted
    RequestsAreBudgeted
    RunsAreOwned
PROPERTIES
    CredentialsAreCurrent
    SessionsEnd
    
    ResultsAreFinal
CHECK_DEADLOCK FALSE
