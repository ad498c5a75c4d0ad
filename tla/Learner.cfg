\* The records of a learner: coaching, readiness, quizzes, practice exams, notes.
SPECIFICATION Spec
CONSTANTS
    None = none
    Nothing = nothing
    Pair = {x1, x2}
    Ids = {i1, i2}
    Asked = {q1, q2}
    Texts = {t1, t2, t3}
    Taught = {l1}
    Answers = {a, b}
    Valid = {a}
    Renders = {w1}
    Docs = {d1, d2}
    Limit = 1
    MaxVersion = 2
    MaxResets = 1
    ExitTasks <- TwoExits
    DelayedTasks <- TwoDelayed
    OnlyTask = "delayed-transfer"
    Hints <- OneHint
    MoreHints <- TwoHints
    Evidence = {"c1"}
    Supports <- Targeted
    ReviewAfter = 1
    MaxInterval = 4
    MaxDay = 2
    MaxTurns = 5
    MaxIssues = 8
    NumLectures = 3
    MaxQuestions = 4
    MaxChoice = 1
    MaxPublish = 1
    MaxRecorded = 2
SYMMETRY Symmetry
INVARIANTS
    CoachingIsIndependent
    ChecksAreFair
    QuizAnswersAreLogged
    SubmissionsAreKept
    ExamsAreVerified

    
CHECK_DEADLOCK FALSE
