----------------------------- MODULE MCLearner -----------------------------
\* Coaching, exam readiness, quizzes, the making and the submission of
\* practice exams and the notes of a learner on small instances. The
\* components share no state, so one of them runs in each behaviour while the
\* others stay as they began.
EXTENDS Integers, Sequences, FiniteSets, TLC

CONSTANTS
    None, Nothing, Pair, Ids, Asked, Texts, Taught, Answers, Valid, Renders,
    Docs, Limit, MaxVersion, MaxResets, ExitTasks, DelayedTasks, OnlyTask,
    Hints, MoreHints, Evidence, Supports, ReviewAfter, MaxInterval, MaxDay,
    MaxTurns, MaxIssues, NumLectures, MaxQuestions, MaxChoice, MaxPublish,
    MaxRecorded

VARIABLES
    component,  \* the one that runs
    pending, exposed, supported, answered, hints, turns, goal, review, passed,
    tab, day, issues,
    offers, page, readinessAttempt, events, tasks, readinessResets,
    readinessPublished, recorded,
    version, quiz, attempts, log, quizResets, quizPc, ask, answer,
    files, saved, lock, sent, render, confirmed, withdrawn, deletion,
    stage, planAttempt, candidate, rejected, exam, kept, blind, sheet,
    notePublished, noteAttempt, prediction, note, notePc, snapshot, wish

TwoExits == <<"independent-exit", "exit-2">>
TwoDelayed == <<"delayed-transfer", "delayed-2">>
OneHint == <<"cue">>
TwoHints == <<"prompt", "cue">>
Targeted == [h \in {"prompt", "cue"} |-> IF h = "cue" THEN {"c1"} ELSE {}]

\* The approved delay is below the cap of the interval, as most are.
ASSUME DelayAssumption == ReviewAfter <= MaxInterval

Gate == INSTANCE Coaching WITH
    Tabs <- Pair, Practice <- TRUE
Resumption == INSTANCE Coaching WITH
    Tabs <- Pair, Practice <- TRUE, DelayedTasks <- <<OnlyTask>>,
    Hints <- MoreHints
Readiness == INSTANCE ExamReadiness WITH
    Attempts <- Pair, attempt <- readinessAttempt, resets <- readinessResets,
    published <- readinessPublished
Quizzes == INSTANCE QuizAnswers WITH
    Requests <- Pair, resets <- quizResets, pc <- quizPc
Submitting == INSTANCE PracticeSubmissions WITH
    Submissions <- Pair
Planning == INSTANCE ExamPlanning WITH
    Questions <- Asked, Lectures <- Taught, attempt <- planAttempt
Comments == INSTANCE LearnerNotes WITH
    Requests <- Pair, Notes <- Ids, published <- notePublished,
    attempt <- noteAttempt, pc <- notePc
Predictions == INSTANCE LearnerNotes WITH
    Requests <- Pair, Notes <- Ids, MaxVersion <- 1,
    published <- notePublished, attempt <- noteAttempt, pc <- notePc

ASSUME GateAssumption == Gate!CoachingAssumption
ASSUME ResumptionAssumption == Resumption!CoachingAssumption
ASSUME ReadinessAssumption == Readiness!ReadinessAssumption
ASSUME QuizzesAssumption == Quizzes!QuizAssumption
ASSUME SubmittingAssumption == Submitting!SubmissionsAssumption
ASSUME PlanningAssumption == Planning!PlanningAssumption
ASSUME CommentsAssumption == Comments!NotesAssumption

CoachingVars == <<pending, exposed, supported, answered, hints, turns, goal,
    review, passed, tab, day, issues>>
ExamReadinessVars == <<offers, page, readinessAttempt, events, tasks,
    readinessResets, readinessPublished, recorded>>
QuizAnswersVars == <<version, quiz, attempts, log, quizResets, quizPc, ask,
    answer>>
PracticeSubmissionsVars == <<files, saved, lock, sent, render, confirmed, withdrawn,
    deletion>>
ExamPlanningVars == <<stage, planAttempt, candidate, rejected, exam, kept, blind,
    sheet>>
LearnerNotesVars == <<notePublished, noteAttempt, prediction, note, notePc,
    snapshot, wish>>
vars == <<component, CoachingVars, ExamReadinessVars, QuizAnswersVars,
    PracticeSubmissionsVars, ExamPlanningVars, LearnerNotesVars>>

Begin ==
    /\ component \in {"coaching", "resumption", "checks", "attempts",
                     "quizzes", "submissions", "planning", "comments",
                     "predictions"}
    /\ IF component = "coaching" THEN Gate!Init
       ELSE Resumption!Init
    /\ Readiness!Init
    /\ component # "checks" => \A l \in DOMAIN offers : offers[l] = [kind \in Readiness!Kinds |-> 1]
    /\ Quizzes!Init
    /\ Submitting!Init
    /\ Planning!Init
    /\ IF component = "comments" THEN Comments!Init
       ELSE Predictions!Init

Step ==
    /\ UNCHANGED component
    /\ \/ /\ component = "coaching" /\ Gate!Next
          /\ UNCHANGED <<ExamReadinessVars, QuizAnswersVars, PracticeSubmissionsVars,
                        ExamPlanningVars, LearnerNotesVars>>
       \/ /\ component = "resumption" /\ Resumption!Next
          /\ UNCHANGED <<ExamReadinessVars, QuizAnswersVars, PracticeSubmissionsVars,
                        ExamPlanningVars, LearnerNotesVars>>
       \/ /\ component = "checks" /\ Readiness!OpenPage
          /\ UNCHANGED <<CoachingVars, QuizAnswersVars, PracticeSubmissionsVars,
                        ExamPlanningVars, LearnerNotesVars>>
       \/ /\ component = "attempts" /\ Readiness!Next
          /\ UNCHANGED <<CoachingVars, QuizAnswersVars, PracticeSubmissionsVars,
                        ExamPlanningVars, LearnerNotesVars>>
       \/ /\ component = "quizzes" /\ Quizzes!Next
          /\ UNCHANGED <<CoachingVars, ExamReadinessVars, PracticeSubmissionsVars,
                        ExamPlanningVars, LearnerNotesVars>>
       \/ /\ component = "submissions" /\ Submitting!Next
          /\ UNCHANGED <<CoachingVars, ExamReadinessVars, QuizAnswersVars,
                        ExamPlanningVars, LearnerNotesVars>>
       \/ /\ component = "planning" /\ Planning!Next
          /\ UNCHANGED <<CoachingVars, ExamReadinessVars, QuizAnswersVars,
                        PracticeSubmissionsVars, LearnerNotesVars>>
       \/ /\ component = "comments" /\ Comments!Next
          /\ UNCHANGED <<CoachingVars, ExamReadinessVars, QuizAnswersVars,
                        PracticeSubmissionsVars, ExamPlanningVars>>
       \/ /\ component = "predictions" /\ Predictions!Next
          /\ UNCHANGED <<CoachingVars, ExamReadinessVars, QuizAnswersVars,
                        PracticeSubmissionsVars, ExamPlanningVars>>

\* One component runs.
Spec ==
    /\ Begin /\ [][Step]_vars

\* As the documentation has it, a passed review schedules the next one at
\* twice the interval; the learner can go on with a state that has it.
NextReviewIsResumable == component = "coaching" => Gate!NextReviewIsResumable

\* A task a learner answers alone was not shown before, every check is
\* assessed once and as it was shown, no delayed answer comes before its day,
\* the stored state can be resumed, and a pass rests on its evidence.
CoachingIsIndependent ==
    /\ component = "coaching" =>
         /\ Gate!TypeOK
         /\ Gate!IndependentAnswersAreFresh
         /\ Gate!AssessedOnceAsShown
         /\ Gate!DelayedAnswersWaited
    /\ component = "resumption" =>
         /\ Resumption!StateIsResumable
         /\ Resumption!PassHasItsEvidence

\* A readiness check covers every lecture in a balanced mix; one attempt at
\* most counts as the first try, and the open tasks are those of the last
\* recorded attempt.
ChecksAreFair ==
    /\ component \in {"checks", "attempts"} =>
         /\ Readiness!TypeOK
         /\ Readiness!EveryLectureIsCovered
         /\ Readiness!CheckIsBalanced
         /\ Readiness!OneFirstTry
         /\ Readiness!TasksAreOfTheLastAttempt

\* Each accepted answer to a quiz is in the log of events once, valid, and all
\* summaries made of the log agree.
QuizAnswersAreLogged ==
    /\ Quizzes!TypeOK
    /\ Quizzes!EventsAreValid
    /\ Quizzes!AcceptedAnswersAreLogged
    /\ Quizzes!SummariesAgree

\* What a learner was told is saved stays until the exam is deleted, and
\* nothing is kept or rendered of a deleted exam.
SubmissionsAreKept ==
    /\ Submitting!TypeOK
    /\ Submitting!ConfirmedAnswersAreKept
    /\ Submitting!DeletedExamKeepsNoAnswers
    /\ Submitting!NothingRenderedOfADeletedExam

\* Each question of a finished practice exam passed both reviews as it stands;
\* a repair takes no question that passed, and only a repair gives up
\* questions.
ExamsAreVerified ==
    /\ Planning!TypeOK
    /\ Planning!ActiveQuestionsAreVerified
    /\ Planning!PassingQuestionsAreKept
    /\ Planning!OnlyARepairIsInvalidated

\* No edit of a comment is lost to one that did not see it, comments stay with
\* the passage they were written for, and the first prediction stays.
NotesAreNotLost ==
    /\ []Comments!TypeOK
    /\ Comments!CommentsStayWithTheirPassage
    /\ Comments!NoLostEdit
    /\ [][component = "predictions" => Predictions!AnswerIsKept]_vars

\* What is alike may be exchanged.
Symmetry ==
    Permutations(Pair)
    \cup Permutations(Ids)
    \cup Permutations(Docs)
==============================================================================
