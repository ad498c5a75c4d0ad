----------------------------- MODULE MCProgress -----------------------------
\* What must come to an end, on small instances: generations and the requests
\* that poll them, proposals, teaching tasks, waiting lectures, practice
\* exams, sign-in and requests to models. The components share no state, so
\* one of them runs in each behaviour while the others rest, with none of
\* their fair actions enabled.
EXTENDS Integers, Sequences, FiniteSets, TLC

CONSTANTS
    None, Nothing, Absent, Pair, Key, Claims, Tasks, Fixed

VARIABLES
    component,  \* the one that runs
    generationStatus, generationRun, lapsed, key, gen, stage, awaits, outcome,
    generationThread, call, generationTask, lectureTask, beats, polling,
    cancelling, generationOwner, revoked, sequence, seq, source,
    generationDesign, approved, bound, generationDraft, faults,
    marker, age, markerTask, pending, result, touch, since, asleep,
    target, review, progress, phase, batch, warm, before, teachingAttempt,
    restarts,
    src, routing, stateDesign, revs, proposing, stateDraft, publication,
    drafts, stateStatus, stateTask, holder, stateOwner, recent, crashes, shown,
    job, ended, exams, started, examRun, examPc, examThread, settler,
    credential, enabled, challenge, mailed, session, locked, accountPc, wish,
    callPc, callAttempt, active, limit, blocked, notifying, requests, tokens,
    known, total, events, sent, charged

\* A job none of whose calls goes on.
NoCalls ==
    /\ callPc = [c \in Pair |-> "done"]
    /\ callAttempt = [c \in Pair |-> 1]
    /\ active = 0 /\ limit = 0
    /\ blocked = FALSE /\ notifying = FALSE
    /\ requests = 0 /\ tokens = 0
    /\ known = [c \in Pair |-> TRUE]
    /\ total = [c \in Pair |-> 0]
    /\ events = [c \in Pair |-> 0]
    /\ sent = [c \in Pair |-> 0]
    /\ charged = [c \in Pair |-> 0]

Generation == INSTANCE GenerationJobs WITH
    Keys <- {Key}, Runs <- Claims, Slots <- 1, Retained <- 1,
    MaxRevisions <- 0, MaxFaults <- 1, status <- generationStatus,
    run <- generationRun, thread <- generationThread, task <- generationTask,
    owner <- generationOwner, design <- generationDesign,
    draft <- generationDraft
Markers == INSTANCE GoalMarkers WITH
    Lectures <- Pair, Lease <- 4, Delay <- 1, task <- markerTask
Teaching == INSTANCE TeachingImplementation WITH
    Goals <- Tasks, Concurrency <- 1, Attempts <- 1, MaxRestarts <- 1,
    attempt <- teachingAttempt
States == INSTANCE LectureStates WITH
    Jobs <- Pair, MaxSources <- 1, MaxDesigns <- 2, MaxDrafts <- 1,
    MaxCrashes <- 1, Repairs <- TRUE, design <- stateDesign,
    draft <- stateDraft, status <- stateStatus, task <- stateTask,
    owner <- stateOwner
Exams == INSTANCE PracticeExams WITH
    Keys <- Pair, Slots <- 1, MaxTerminal <- 1, MaxRuns <- 2, run <- examRun,
    pc <- examPc, thread <- examThread
SignIn == INSTANCE Accounts WITH
    Requests <- Pair, Passwords <- {"p"}, Tokens <- {1, 2}, Connections <- 2,
    pc <- accountPc
ModelCalls == INSTANCE ModelRequests WITH
    Calls <- Pair, MaxAttempts <- 2, RequestLimit <- 3, TokenLimit <- 3,
    Amounts <- {1}, Budgets <- {1}, pc <- callPc, attempt <- callAttempt

GenerationJobsVars == <<generationStatus, generationRun, lapsed, key, gen, stage,
    awaits, outcome, generationThread, call, generationTask,
    lectureTask, beats, polling, cancelling,
    generationOwner, revoked, sequence, seq, source,
    generationDesign, approved, bound, generationDraft,
    faults>>
GoalMarkersVars == <<marker, age, markerTask, pending, result, touch, since,
    asleep>>
TeachingImplementationVars == <<target, review, progress, phase, batch, warm, before,
    teachingAttempt, restarts>>
LectureStatesVars == <<src, routing, stateDesign, revs, proposing, stateDraft,
    publication, drafts, stateStatus, stateTask, holder,
    stateOwner, recent, crashes, shown>>
PracticeExamsVars == <<job, ended, exams, started, examRun, examPc, examThread,
    settler>>
AccountsVars == <<credential, enabled, challenge, mailed, session, locked,
    accountPc, wish>>
ModelRequestsVars == <<callPc, callAttempt, active, limit, blocked, notifying,
    requests, tokens, known, total, events, sent, charged>>
vars == <<component, GenerationJobsVars, GoalMarkersVars,
    TeachingImplementationVars, LectureStatesVars, PracticeExamsVars,
    AccountsVars, ModelRequestsVars>>

AuthoringBegins ==
    /\ component \in {"generations", "markers", "teaching tasks", "lectures"}
    /\ Generation!Init
    /\ Markers!Init
    /\ Teaching!Init
    /\ component # "teaching tasks" => review = Nothing /\ \A g \in Tasks : target[g] = 1
    /\ States!Init
    /\ Exams!Init
    /\ SignIn!Init
    /\ NoCalls

AuthoringGoesOn ==
    /\ UNCHANGED component
    /\ \/ /\ component = "generations" /\ Generation!Next
          /\ UNCHANGED <<GoalMarkersVars, TeachingImplementationVars, LectureStatesVars,
                        PracticeExamsVars, AccountsVars, ModelRequestsVars>>
       \/ /\ component = "markers" /\ Markers!Next
          /\ UNCHANGED <<GenerationJobsVars, TeachingImplementationVars,
                        LectureStatesVars, PracticeExamsVars, AccountsVars,
                        ModelRequestsVars>>
       \/ /\ component = "teaching tasks" /\ Teaching!Next
          /\ UNCHANGED <<GenerationJobsVars, GoalMarkersVars, LectureStatesVars,
                        PracticeExamsVars, AccountsVars, ModelRequestsVars>>
       \/ /\ component = "lectures" /\ States!Next
          /\ UNCHANGED <<GenerationJobsVars, GoalMarkersVars, TeachingImplementationVars,
                        PracticeExamsVars, AccountsVars, ModelRequestsVars>>

\* A component of the authoring runs, fairly.
FairAuthoring ==
    /\ AuthoringBegins /\ [][AuthoringGoesOn]_vars
    /\ Generation!Fairness
    /\ Markers!Fairness
    /\ Teaching!Fairness
    /\ States!Fairness

\* Tasks end and the requests that poll them are answered; a proposal, a call
\* for a teaching task and the wait of a lecture come to an end.
AuthoringEnds ==
    /\ Generation!TaskEnds
    /\ Generation!DuplicateIsAnswered
    /\ Markers!ProposingEnds
    /\ Teaching!AttemptEnds
    /\ States!WaitEnds

ServicesBegin ==
    /\ component \in {"exams", "accounts", "model calls"}
    /\ Generation!Init
    /\ Markers!Init
    /\ Teaching!Init
    /\ review = Nothing /\ \A g \in Tasks : target[g] = 1
    /\ States!Init
    /\ Exams!Init
    /\ SignIn!Init
    /\ IF component = "model calls" THEN ModelCalls!Init
       ELSE NoCalls

ServicesGoOn ==
    /\ UNCHANGED component
    /\ \/ /\ component = "exams" /\ Exams!Next
          /\ UNCHANGED <<GenerationJobsVars, GoalMarkersVars, TeachingImplementationVars,
                        LectureStatesVars, AccountsVars, ModelRequestsVars>>
       \/ /\ component = "accounts" /\ SignIn!Next
          /\ UNCHANGED <<GenerationJobsVars, GoalMarkersVars, TeachingImplementationVars,
                        LectureStatesVars, PracticeExamsVars, ModelRequestsVars>>
       \/ /\ component = "model calls" /\ ModelCalls!Next
          /\ UNCHANGED <<GenerationJobsVars, GoalMarkersVars, TeachingImplementationVars,
                        LectureStatesVars, PracticeExamsVars, AccountsVars>>

\* A component that serves a learner runs, fairly.
FairServices ==
    /\ ServicesBegin /\ [][ServicesGoOn]_vars
    /\ Exams!Fairness
    /\ SignIn!Fairness
    /\ ModelCalls!Fairness

\* Runs of practice exams, requests that sign in and calls of models come to
\* an end.
ServicesEnd ==
    /\ Exams!RunsEnd
    /\ SignIn!RequestsEnd
    /\ ModelCalls!CallsEnd

==============================================================================
