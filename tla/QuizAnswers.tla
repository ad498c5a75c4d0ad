--------------------------- MODULE QuizAnswers ---------------------------
(***************************************************************************)
(* One learner answers one published quiz from several tabs.  A request    *)
(* reads the publication, records the answer in the learner's quiz file    *)
(* and then appends an outcome to the log of the lecture: three steps      *)
(* under three locks.  The server may stop between them; the page then     *)
(* sends the same attempt ID again, or is loaded anew and makes a new one. *)
(***************************************************************************)
EXTENDS Integers, Sequences

CONSTANTS
    Requests,
    Ids,         \* attempt IDs the pages make
    None,
    MaxVersion,  \* bound: publications
    MaxResets    \* bound: resets of the learner's progress

\* What the learner's file holds of an answer, and what a request asks for.
States == [version : 1..MaxVersion, correct : BOOLEAN, index : Nat \ {0}, first : BOOLEAN,
           correction : {"not_needed", "needed", "corrected"}]
Asks == [id : Ids, version : 1..MaxVersion, correct : BOOLEAN]

\* What the constants are assumed to be.
QuizAssumption ==
    /\ MaxVersion \in Nat \ {0}
    /\ MaxResets \in Nat
    /\ None \notin States

VARIABLES
    version,   \* of the published lecture
    quiz,      \* the current state of the quiz, or None
    attempts,  \* attempts[id]: the state recorded for it, or None
    log,       \* the outcome events in the order of their lines
    resets,
    pc,        \* pc[r]: where request r is
    ask,       \* ask[r]: attempt ID, version and whether the option is the key
    answer     \* answer[r]: the state the quiz file gave, or None

vars == <<version, quiz, attempts, log, resets, pc, ask, answer>>

----------------------------------------------------------------------------
Publish ==
    /\ version < MaxVersion
    /\ version' = version + 1
    /\ UNCHANGED <<quiz, attempts, log, resets, pc, ask, answer>>

\* The reset removes quizzes.json; the log of the lecture is not the learner's.
Reset ==
    /\ resets < MaxResets
    /\ resets' = resets + 1
    /\ quiz' = None
    /\ attempts' = [id \in Ids |-> None]
    /\ UNCHANGED <<version, log, pc, ask, answer>>

\* An answer or its repetition; after an error the page lets the learner choose
\* another option under the same attempt ID.
Send(r, id, correct) ==
    /\ pc[r] \in {"idle", "done"}
    /\ pc' = [pc EXCEPT ![r] = "sent"]
    /\ ask' = [ask EXCEPT ![r] = [id |-> id, version |-> version, correct |-> correct]]
    /\ answer' = [answer EXCEPT ![r] = None]
    /\ UNCHANGED <<version, quiz, attempts, log, resets>>

\* A page that shows another publication is told to load again.
ReadPublication(r) ==
    /\ pc[r] = "sent"
    /\ IF ask[r].version = version
       THEN pc' = [pc EXCEPT ![r] = "read"] /\ UNCHANGED ask
       ELSE pc' = [pc EXCEPT ![r] = "idle"] /\ ask' = [ask EXCEPT ![r] = None]
    /\ UNCHANGED <<version, quiz, attempts, log, resets, answer>>

----------------------------------------------------------------------------
CurrentQuizState(v) == IF quiz # None /\ quiz.version = v THEN quiz ELSE None

CorrectionState(previous, correct) ==
    IF ~correct THEN "needed"
    ELSE IF previous # None /\ ~previous.first THEN "corrected" ELSE "not_needed"

NextState(r) ==
    LET previous == CurrentQuizState(ask[r].version)
        correct == ask[r].correct
    IN [version |-> ask[r].version,
        correct |-> correct,
        index |-> IF previous = None THEN 1 ELSE previous.index + 1,
        first |-> IF previous = None THEN correct ELSE previous.first,
        correction |-> CorrectionState(previous, correct)]

\* An attempt ID stands for one option of one publication.
Bound(r) ==
    LET prior == attempts[ask[r].id]
    IN prior # None => prior.version = ask[r].version /\ prior.correct = ask[r].correct

Solved(r) ==
    LET previous == CurrentQuizState(ask[r].version)
    IN previous # None /\ previous.correct

RecordNew(r) ==
    /\ attempts[ask[r].id] = None
    /\ ~Solved(r)
    /\ quiz' = NextState(r)
    /\ attempts' = [attempts EXCEPT ![ask[r].id] = NextState(r)]
    /\ answer' = [answer EXCEPT ![r] = NextState(r)]
    /\ pc' = [pc EXCEPT ![r] = "recorded"]

\* A mutant: a repeated attempt is answered at once.
ReturnAtOnce(r) ==
    LET prior == attempts[ask[r].id]
    IN /\ prior # None \/ Solved(r)
       /\ answer' = [answer EXCEPT ![r] =
                       IF prior # None THEN prior ELSE CurrentQuizState(ask[r].version)]
       /\ pc' = [pc EXCEPT ![r] = "done"]
       /\ UNCHANGED <<quiz, attempts>>

\* The repetition of an attempt, and any answer to a solved quiz, get the state
\* recorded before.
ReturnPrior(r) ==
    LET prior == attempts[ask[r].id]
    IN /\ prior # None \/ Solved(r)
       /\ answer' = [answer EXCEPT ![r] =
                       IF prior # None THEN prior ELSE CurrentQuizState(ask[r].version)]
       /\ pc' = [pc EXCEPT ![r] = "recorded"]
       /\ UNCHANGED <<quiz, attempts>>

RecordQuizAnswer(r) ==
    /\ pc[r] = "read"
    /\ IF Bound(r) THEN RecordNew(r) \/ ReturnPrior(r)
       ELSE /\ pc' = [pc EXCEPT ![r] = "idle"]
            /\ UNCHANGED <<quiz, attempts, answer>>
    /\ ask' = [ask EXCEPT ![r] = None]
    /\ UNCHANGED <<version, log, resets>>

\* outcome_event_id
EventId(event) == <<event.version, event.index>>

AppendOnce(r) ==
    /\ pc[r] = "recorded"
    /\ log' = IF \E i \in 1..Len(log) : EventId(log[i]) = EventId(answer[r])
              THEN log ELSE Append(log, answer[r])
    /\ pc' = [pc EXCEPT ![r] = "done"]
    /\ UNCHANGED <<version, quiz, attempts, resets, ask, answer>>

\* The server stops, or the log cannot be written.
Fail(r) ==
    /\ pc[r] \in {"sent", "read", "recorded"}
    /\ pc' = [pc EXCEPT ![r] = "idle"]
    /\ ask' = [ask EXCEPT ![r] = None]
    /\ answer' = [answer EXCEPT ![r] = None]
    /\ UNCHANGED <<version, quiz, attempts, log, resets>>

----------------------------------------------------------------------------
Init ==
    /\ version = 1
    /\ quiz = None
    /\ attempts = [id \in Ids |-> None]
    /\ log = <<>>
    /\ resets = 0
    /\ pc = [r \in Requests |-> "idle"]
    /\ ask = [r \in Requests |-> None]
    /\ answer = [r \in Requests |-> None]

Next ==
    \/ Publish
    \/ Reset
    \/ \E r \in Requests :
         \/ \E id \in Ids, correct \in BOOLEAN : Send(r, id, correct)
         \/ ReadPublication(r)
         \/ RecordQuizAnswer(r)
         \/ AppendOnce(r)
         \/ Fail(r)

Spec == Init /\ [][Next]_vars

----------------------------------------------------------------------------
\* The two summaries of the log: of a lecture, and of a course.  `index' 0
\* stands for a learner without an answer.
Unseen == [index |-> 0, correct |-> FALSE, corrected |-> FALSE]

LectureRecord(event, learner) ==
    IF learner.index = 0
    THEN [index |-> event.index, correct |-> event.correct,
          corrected |-> event.correction = "corrected"]
    ELSE IF event.index < learner.index
    THEN [index |-> event.index, correct |-> event.correct,
          corrected |-> learner.corrected \/ learner.correct]
    ELSE [learner EXCEPT !.corrected = @ \/ (event.index > learner.index /\ event.correct)]

CourseRecord(event, learner) ==
    IF learner.index = 0 \/ event.index < learner.index
    THEN [index |-> event.index, correct |-> event.correct,
          corrected |-> learner.corrected \/ learner.correct]
    ELSE [learner EXCEPT !.corrected = @ \/ (event.index > learner.index /\ event.correct)]

LectureSummary(v) ==
    LET after[i \in 0..Len(log)] ==
            IF i = 0 THEN Unseen
            ELSE IF log[i].version = v THEN LectureRecord(log[i], after[i - 1]) ELSE after[i - 1]
    IN  after[Len(log)]

CourseSummary(v) ==
    LET after[i \in 0..Len(log)] ==
            IF i = 0 THEN Unseen
            ELSE IF log[i].version = v THEN CourseRecord(log[i], after[i - 1]) ELSE after[i - 1]
    IN  after[Len(log)]

\* What the page of a professor shows of one learner.
Shown(learner) ==
    [first |-> learner.correct, corrected |-> learner.index > 0 /\ ~learner.correct /\ learner.corrected]

----------------------------------------------------------------------------
Logged(v) == {log[i] : i \in {j \in 1..Len(log) : log[j].version = v}}

TypeOK ==
    /\ version \in 1..MaxVersion
    /\ quiz \in States \cup {None}
    /\ attempts \in [Ids -> States \cup {None}]
    /\ log \in Seq(States)
    /\ \A i, j \in 1..Len(log) : i # j => EventId(log[i]) # EventId(log[j])
    /\ resets \in 0..MaxResets
    /\ pc \in [Requests -> {"idle", "sent", "read", "recorded", "done"}]
    /\ ask \in [Requests -> Asks \cup {None}]
    /\ answer \in [Requests -> States \cup {None}]
    /\ \A r \in Requests : pc[r] \in {"sent", "read"} => ask[r] \in Asks
    /\ \A r \in Requests : pc[r] \in {"recorded", "done"} => answer[r] \in States

\* What is accepted by QuizOutcomeEvent.validate_outcome.
IsValid(e) ==
    /\ e.index = 1 => e.first = e.correct
    /\ e.first => e.correct /\ e.correction = "not_needed"
    /\ ~e.first => e.correction = (IF e.correct THEN "corrected" ELSE "needed")

\* What a request is about to log is an event the log accepts: the readers of
\* the log refuse all of it otherwise (QuizOutcomeEvent.validate_outcome).
EventsAreValid == \A r \in Requests : pc[r] = "recorded" => IsValid(answer[r])

\* An answer the learner saw accepted has an event in the log, also when the
\* server stopped between the two files and the page sent the attempt again
\* (AnalyticsStore._append_once after LearnerStateStore.record_quiz_answer).
AcceptedAnswersAreLogged ==
    \A r \in Requests : pc[r] = "done" =>
        \E i \in 1..Len(log) : EventId(log[i]) = EventId(answer[r])

\* Both summaries show the earliest attempt of the log and whether a later one
\* was right, in whatever order the lines were written
\* (QuizMetricsAccumulator.record and _Aggregate._record_quiz).
SummariesAgree ==
    \A v \in 1..MaxVersion :
        LET events == Logged(v)
            earliest == CHOOSE e \in events : \A f \in events : e.index <= f.index
        IN events # {} =>
             /\ Shown(LectureSummary(v)) = Shown(CourseSummary(v))
             /\ Shown(CourseSummary(v)) =
                  [first |-> earliest.correct,
                   corrected |-> ~earliest.correct /\ \E e \in events : e.correct]

\* What every step preserves: the states of the file and the lines of the log
\* are valid events as well.
Inv ==
    /\ TypeOK /\ EventsAreValid /\ AcceptedAnswersAreLogged
    /\ quiz # None => IsValid(quiz)
    /\ \A id \in Ids : attempts[id] # None => IsValid(attempts[id])
    /\ \A i \in 1..Len(log) : IsValid(log[i])

\* What test_quiz_attempt_review_fixes.py says: a scored success is terminal
\* for new attempt IDs.  A request that read the publication before it was
\* replaced writes its own version over the success in the new one.
SuccessIsTerminal ==
    [][quiz # None /\ quiz.correct /\ quiz.version = version /\ resets' = resets /\ version' = version
          => quiz' = quiz]_vars

\* What professor-dashboard.md says the overview shows: the correctness of the
\* first attempt.  An event lost between the two files makes the correction of
\* it the first attempt.
FirstAttemptIsShown ==
    quiz # None /\ (\A r \in Requests : pc[r] \in {"idle", "done"}) /\ Logged(quiz.version) # {}
        => Shown(CourseSummary(quiz.version)).first = quiz.first
=============================================================================
