----------------------------- MODULE MCServices -----------------------------
\* Sign-in, sessions, access to lectures, the usage quota, the requests to
\* models and the runs of practice exams on small instances. The components
\* share no state, so one of them runs in each behaviour while the others stay
\* as they began.
EXTENDS Integers, Sequences, FiniteSets, TLC

CONSTANTS
    None, Clients, Pair, Passwords, Tokens, Editors, Editor, Student, Nobody,
    NoCourse, NoFile, NoRule, Ttl, Lifetimes, LongLifetime, MaxTime,
    Connections, TurnsPerDay, TokensPerDay, ImagesPerDay, ConcurrentTurns,
    Reservations, Reported, LastDay, ImageDays, MaxCrashes, MaxAttempts,
    RequestLimit, TokenLimit, Amounts, Budgets, Slots, MaxTerminal, MaxRuns

VARIABLES
    component,  \* the one that runs
    credential, enabled, challenge, mailed, session, locked, accountPc, wish,
    now, lifetime, expires, revoked, cookie, used, sessionPc, read,
    db, enrolled, file, rest, lock, op, joining, req, day, created, inForce,
    mixed,
    today, counter, quotaPc, turn, imageDay, crashes, lost, settled, images,
    callPc, attempt, active, limit, blocked, notifying, requests, tokens,
    known, total, events, sent, charged,
    job, ended, exams, started, run, examPc, thread, settler

Rule(policy, mode, at) == [policy |-> policy, mode |-> mode, at |-> at]
Dated == [policy |-> "enrolled", mode |-> "date"]
Defaults == {Dated, [policy |-> "public", mode |-> "hidden"]}
Now == Rule("public", "now", 0)
Open == Rule("public", "custom", 2)
Closed == Rule("enrolled", "hidden", 0)

\* The server that is never reconfigured has a configurable lifetime.
ASSUME LifetimesAssumption == LongLifetime \in Lifetimes

SignIn == INSTANCE Accounts WITH
    Requests <- Pair, pc <- accountPc
Renewals == INSTANCE Sessions WITH
    Requests <- Pair, pc <- sessionPc
LongSessions == INSTANCE Sessions WITH
    Requests <- Pair, Lifetimes <- {LongLifetime}, pc <- sessionPc
Edits == INSTANCE CourseAccess WITH
    Learners <- {}, CourseRules <- Defaults, Overrides <- {Open, Closed},
    LectureDay <- 1, LastDay <- 2, CourseEdits <- TRUE, Setups <- FALSE,
    CanCrash <- FALSE
Answers == INSTANCE CourseAccess WITH
    Editors <- {Editor}, Learners <- {Student}, CourseRules <- {Dated},
    Overrides <- {Now, Closed}, LectureDay <- 1, LastDay <- 1,
    CourseEdits <- TRUE, Setups <- FALSE, CanCrash <- FALSE
Quota == INSTANCE UsageQuota WITH
    Turns <- Clients, pc <- quotaPc
Images == INSTANCE UsageQuota WITH
    Turns <- Pair, TokensPerDay <- 9, Reservations <- {1}, Reported <- {0},
    LastDay <- ImageDays, pc <- quotaPc
ModelCalls == INSTANCE ModelRequests WITH
    Calls <- Clients, pc <- callPc
Exams == INSTANCE PracticeExams WITH
    Keys <- Pair, pc <- examPc

ASSUME SignInAssumption == SignIn!AccountsAssumption
ASSUME RenewalsAssumption == Renewals!SessionsAssumption
ASSUME EditsAssumption == Edits!CourseAccessAssumption
ASSUME AnswersAssumption == Answers!CourseAccessAssumption
ASSUME QuotaAssumption == Quota!QuotaAssumption
ASSUME ImagesAssumption == Images!QuotaAssumption
ASSUME ModelCallsAssumption == ModelCalls!RequestsAssumption
ASSUME ExamsAssumption == Exams!ExamsAssumption

AccountsVars == <<credential, enabled, challenge, mailed, session, locked,
    accountPc, wish>>
SessionsVars == <<now, lifetime, expires, revoked, cookie, used, sessionPc,
    read>>
CourseAccessVars == <<db, enrolled, file, rest, lock, op, joining, req, day,
    created, inForce, mixed>>
UsageQuotaVars == <<today, counter, quotaPc, turn, imageDay, crashes, lost,
    settled, images>>
ModelRequestsVars == <<callPc, attempt, active, limit, blocked, notifying,
    requests, tokens, known, total, events, sent, charged>>
PracticeExamsVars == <<job, ended, exams, started, run, examPc, thread, settler>>
vars == <<component, AccountsVars, SessionsVars, CourseAccessVars,
    UsageQuotaVars, ModelRequestsVars, PracticeExamsVars>>

Begin ==
    /\ component \in {"accounts", "sessions", "long sessions",
                     "edits of access", "answers", "quota", "images",
                     "requests", "exams"}
    /\ SignIn!Init
    /\ IF component = "sessions" THEN Renewals!Init
       ELSE LongSessions!Init
    /\ component \notin {"sessions", "long sessions"} => lifetime = LongLifetime
    /\ IF component = "edits of access" THEN Edits!Init
       ELSE Answers!Init
    /\ IF component = "quota" THEN Quota!Init
       ELSE Images!Init
    /\ ModelCalls!Init
    /\ Exams!Init

Step ==
    /\ UNCHANGED component
    /\ \/ /\ component = "accounts" /\ SignIn!Next
          /\ UNCHANGED <<SessionsVars, CourseAccessVars, UsageQuotaVars,
                        ModelRequestsVars, PracticeExamsVars>>
       \/ /\ component = "sessions" /\ Renewals!Next
          /\ UNCHANGED <<AccountsVars, CourseAccessVars, UsageQuotaVars,
                        ModelRequestsVars, PracticeExamsVars>>
       \/ /\ component = "long sessions" /\ LongSessions!Next
          /\ UNCHANGED <<AccountsVars, CourseAccessVars, UsageQuotaVars,
                        ModelRequestsVars, PracticeExamsVars>>
       \/ /\ component = "edits of access" /\ Edits!Next
          /\ UNCHANGED <<AccountsVars, SessionsVars, UsageQuotaVars, ModelRequestsVars,
                        PracticeExamsVars>>
       \/ /\ component = "answers" /\ Answers!Next
          /\ UNCHANGED <<AccountsVars, SessionsVars, UsageQuotaVars, ModelRequestsVars,
                        PracticeExamsVars>>
       \/ /\ component = "quota" /\ Quota!Next
          /\ UNCHANGED <<AccountsVars, SessionsVars, CourseAccessVars, ModelRequestsVars,
                        PracticeExamsVars>>
       \/ /\ component = "images" /\ Images!Next
          /\ UNCHANGED <<AccountsVars, SessionsVars, CourseAccessVars, ModelRequestsVars,
                        PracticeExamsVars>>
       \/ /\ component = "requests" /\ ModelCalls!Next
          /\ UNCHANGED <<AccountsVars, SessionsVars, CourseAccessVars, UsageQuotaVars,
                        PracticeExamsVars>>
       \/ /\ component = "exams" /\ Exams!Next
          /\ UNCHANGED <<AccountsVars, SessionsVars, CourseAccessVars, UsageQuotaVars,
                        ModelRequestsVars>>

\* One component runs.
Spec ==
    /\ Begin /\ [][Step]_vars

\* A session was opened with the password in force, a link is spent with the
\* password it brought, and no other password comes with it.
CredentialsAreCurrent ==
    /\ []SignIn!TypeOK
    /\ []SignIn!SessionsHaveThePassword
    /\ []SignIn!LinksAreSpent
    /\ SignIn!LinkBringsItsPassword

\* No answer is given to a session past its lifetime, a revoked session stays
\* revoked, and one in use is not lost before its lifetime.
SessionsEnd ==
    /\ []Renewals!TypeOK
    /\ Renewals!NoneAfterLifetime
    /\ Renewals!RevocationStays
    /\ [](component = "long sessions" => LongSessions!ActiveSessionsLive)

\* The access rules in the database and in the course file agree, nothing is
\* left of a deleted course, and a learner is answered by rules that were in
\* force together.
AccessFollowsTheRules ==
    /\ [](component = "edits of access" =>
         /\ Edits!TypeOK
         /\ Edits!RowAndFileAgree
         /\ Edits!DeletedCourseIsGone)
    /\ [][component = "answers" => Answers!RuledAnswer(Student)]_vars

\* Slots, tokens, turns and images in use are those of the turns under way,
\* across crashes and midnight, and no day has more than its share.
QuotaIsAccounted ==
    /\ component = "quota" =>
         /\ Quota!TypeOK
         /\ Quota!SlotsAreAccounted
         /\ Quota!TokensAreAccounted
         /\ Quota!TurnsOfADay
    /\ component = "images" => Images!ImagesOfADay

\* No call waits for a slot that is free, no budget is exceeded, and every
\* request to a model is recorded with a total that is exact where it is
\* known.
RequestsAreBudgeted ==
    /\ ModelCalls!TypeOK
    /\ ModelCalls!NoLostWakeUp
    /\ ModelCalls!RequestBudgetHolds
    /\ ModelCalls!KnownTotalsAreExact
    /\ ModelCalls!EveryRequestIsRecorded

\* The record of a run is ended by the run that owns it, none is left without
\* a run, and a completed one has its exam.
RunsAreOwned ==
    /\ Exams!TypeOK
    /\ Exams!EndedByItsOwner
    /\ Exams!NoRecordIsAbandoned
    /\ Exams!CompletedHasItsExam

\* A record that ended stays as it ended until it is pruned behind MaxTerminal
\* newer ones.
ResultsAreFinal ==
    /\ Exams!ResultsAreFinal

\* What is alike may be exchanged.
Symmetry ==
    Permutations(Clients)
    \cup Permutations(Pair)
==============================================================================
