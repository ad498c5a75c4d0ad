--------------------------- MODULE ExamReadiness ---------------------------
(***************************************************************************)
(* The readiness check of a course: questions picked from the published    *)
(* lectures, a multiple choice first, then attempts at them.  The server   *)
(* rebuilds the check when an attempt arrives, has the open answers graded *)
(* without a lock and appends the attempt to progress.json under one.      *)
(* Lectures are published, and other attempts recorded, meanwhile.         *)
(***************************************************************************)
EXTENDS Integers, FiniteSets, Sequences

CONSTANTS
    NumLectures,   \* lectures 1..NumLectures, in the order of the course
    MaxQuestions,  \* 10 in the code
    MaxChoice,     \* 6 in the code: multiple choice questions wanted at most
    Attempts,      \* requests that submit answers
    MaxPublish, MaxRecorded,  \* bounds
    None

Lectures == 1..NumLectures

\* A lecture offers at most two questions of each kind.
Kinds == {"choice", "open"}
Offers == [Kinds -> 0..2]
Question(l, kind, i) == [lecture |-> l, kind |-> kind, n |-> i]
AllQuestions == [lecture : Lectures, kind : Kinds, n : 1..2]

\* What an attempt on its way and a recorded answer hold.
AttemptRecords ==
    [asked : SUBSET AllQuestions, wrong : SUBSET AllQuestions, before : SUBSET AllQuestions]
EventRecords ==
    [question : AllQuestions, wrong : BOOLEAN, index : Nat, firstTry : BOOLEAN]

\* What the constants are assumed to be.
ReadinessAssumption ==
    /\ NumLectures \in Nat \ {0} /\ MaxChoice \in Nat /\ MaxQuestions \in Nat
    /\ None \notin AttemptRecords

VARIABLES
    offers,    \* offers[l]: what the published canvas of l has
    page,      \* the questions the learner was given
    attempt,   \* attempt[a]: an attempt on its way, or None
    events,    \* the recorded answers
    tasks,     \* the questions of the open revision tasks
    resets, published, recorded  \* counters

vars == <<offers, page, attempt, events, tasks, resets, published, recorded>>

----------------------------------------------------------------------------
(* The choice of questions.                                                *)

Group(l) == UNION {{Question(l, kind, i) : i \in 1..offers[l][kind]} : kind \in Kinds}
Offering(last) == {l \in 1..last : Group(l) # {}}

ToSet(s) == {s[i] : i \in DOMAIN s}
Choices(s) == Cardinality({i \in DOMAIN s : s[i].kind = "choice"})

\* One question of each lecture, multiple choice while the budget lasts.
Cover(l, chosen) ==
    IF offers[l]["choice"] > 0 /\ (Choices(chosen) < MaxChoice \/ offers[l]["open"] = 0)
    THEN Question(l, "choice", 1) ELSE Question(l, "open", 1)

Coverage ==
    LET upTo[l \in 0..NumLectures] ==
            IF l = 0 THEN <<>>
            ELSE LET before == upTo[l - 1] IN
                 IF Group(l) = {} THEN before ELSE Append(before, Cover(l, before))
    IN  upTo[NumLectures]

\* The first question left of each lecture, then the second of each.
Left(l, kind, round, covered) ==
    Question(l, kind, IF Question(l, kind, 1) \in ToSet(covered) THEN round + 1 ELSE round)
Turn(kind, p, covered) ==
    IF p <= NumLectures THEN Left(p, kind, 1, covered)
    ELSE Left(p - NumLectures, kind, 2, covered)

RoundRobin(kind, covered, limit) ==
    LET upTo[p \in 0..2 * NumLectures] ==
            IF p = 0 THEN <<>>
            ELSE LET before == upTo[p - 1]
                     next == Turn(kind, p, covered)
                 IN  IF Len(before) < limit /\ next \in Group(next.lecture)
                     THEN Append(before, next) ELSE before
    IN  upTo[2 * NumLectures]

\* Then open questions, then multiple choice within the budget.
Mixed(limit) ==
    LET covered == Coverage
        open == RoundRobin("open", covered, limit - Len(covered))
        room == limit - Len(covered) - Len(open)
        budget == MaxChoice - Choices(covered)
        choice == RoundRobin("choice", covered, IF budget < room THEN budget ELSE room)
    IN  covered \o open \o choice

QuestionLimit ==
    LET offering == Cardinality(Offering(NumLectures))
    IN  IF offering > MaxQuestions THEN offering ELSE MaxQuestions
Questions == Mixed(QuestionLimit)

----------------------------------------------------------------------------
(* Attempts.                                                               *)

Publish(l, offer) ==
    /\ published < MaxPublish /\ published' = published + 1
    /\ offers' = [offers EXCEPT ![l] = offer]
    /\ UNCHANGED <<page, attempt, events, tasks, resets, recorded>>

OpenPage ==
    /\ Questions # <<>>
    /\ page' = ToSet(Questions)
    /\ UNCHANGED <<offers, attempt, events, tasks, resets, published, recorded>>

\* Every question of the check as it is now has an answer and no other has;
\* wrong are the answers that will be found wrong.
Submit(a, wrong) ==
    /\ attempt[a] = None /\ recorded < MaxRecorded
    /\ page # {} /\ page = ToSet(Questions)
    /\ wrong \subseteq {q \in page : q.kind = "choice"}
    /\ attempt' = [attempt EXCEPT ![a] = [asked |-> page, wrong |-> wrong,
                                          before |-> {e.question : e \in events}]]
    /\ UNCHANGED <<offers, page, events, tasks, resets, published, recorded>>

GradingFails(a) ==
    /\ attempt[a] # None
    /\ attempt' = [attempt EXCEPT ![a] = None]
    /\ UNCHANGED <<offers, page, events, tasks, resets, published, recorded>>

\* Mutant: the earlier attempts are those read before the grading.
RecordStale(a) ==
    /\ attempt[a] # None
    /\ recorded' = recorded + 1
    /\ events' = events \cup
           {[question |-> q, wrong |-> q \in attempt[a].wrong, index |-> recorded',
             firstTry |-> q \notin attempt[a].before] : q \in attempt[a].asked}
    /\ tasks' = attempt[a].wrong
    /\ attempt' = [attempt EXCEPT ![a] = None]
    /\ UNCHANGED <<offers, page, resets, published>>

\* The index and the first tries are taken from the record under its lock.
Record(a) ==
    /\ attempt[a] # None
    /\ recorded' = Cardinality({e.index : e \in events}) + 1
    /\ events' = events \cup
           {[question |-> q, wrong |-> q \in attempt[a].wrong, index |-> recorded',
             firstTry |-> \A e \in events : e.question # q] : q \in attempt[a].asked}
    /\ tasks' = attempt[a].wrong
    /\ attempt' = [attempt EXCEPT ![a] = None]
    /\ UNCHANGED <<offers, page, resets, published>>

\* The learner resets the progress.
Reset ==
    /\ resets = 0 /\ events # {}
    /\ resets' = 1
    /\ events' = {} /\ tasks' = {} /\ recorded' = 0
    /\ UNCHANGED <<offers, page, attempt, published>>

----------------------------------------------------------------------------
Init ==
    /\ offers \in [Lectures -> Offers]
    /\ page = {} /\ attempt = [a \in Attempts |-> None]
    /\ events = {} /\ tasks = {}
    /\ resets = 0 /\ published = 0 /\ recorded = 0

Next ==
    \/ \E l \in Lectures, offer \in Offers : Publish(l, offer)
    \/ OpenPage \/ Reset
    \/ \E a \in Attempts :
          \/ \E wrong \in SUBSET page : Submit(a, wrong)
          \/ GradingFails(a) \/ Record(a)

Spec == Init /\ [][Next]_vars

----------------------------------------------------------------------------
\* Every recorded answer and attempt has its type, and indices have no gaps.
TypeOK ==
    /\ offers \in [Lectures -> Offers]
    /\ page \subseteq AllQuestions
    /\ attempt \in [Attempts -> AttemptRecords \cup {None}]
    /\ events \subseteq EventRecords
    /\ recorded \in Nat /\ {e.index : e \in events} = 1..recorded
    /\ tasks \subseteq {q \in AllQuestions : q.kind = "choice"}

\* Every published lecture that has a question is in the check, however many
\* lectures there are and whatever kinds they offer.
EveryLectureIsCovered ==
    \A l \in Offering(NumLectures) :
        \E i \in DOMAIN Questions : Questions[i].lecture = l

\* The check has no question twice, is as long as the limit allows, leaves
\* out no open question while there is room, and takes multiple choice beyond
\* the budget only for lectures that offer nothing else.
CheckIsBalanced ==
    LET chosen == ToSet(Questions)
        count == Cardinality({q \in chosen : q.kind = "choice"})
        offered == UNION {Group(l) : l \in Lectures}
        extra == {q \in chosen : q.kind = "choice" /\ offers[q.lecture]["open"] = 0}
    IN  /\ Cardinality(chosen) = Len(Questions) /\ Len(Questions) <= QuestionLimit
        /\ Len(Questions) < QuestionLimit => \A q \in offered \ chosen : q.kind = "choice" /\ count >= MaxChoice
        /\ count > MaxChoice => extra # {}

\* Of all attempts at a question exactly one counts as the first try, the
\* earliest recorded, whatever attempts were graded at the same time.
OneFirstTry ==
    \A e \in events :
        e.firstTry <=> ~\E d \in events : d.question = e.question /\ d.index < e.index

\* The open tasks are those of the attempt recorded last.
TasksAreOfTheLastAttempt ==
    recorded > 0 => tasks = {e.question : e \in {d \in events : d.index = recorded /\ d.wrong}}

\* What every step preserves: an attempt under way asks something, and what
\* will be found wrong are multiple choices it asks.
Inv ==
    /\ TypeOK /\ OneFirstTry /\ TasksAreOfTheLastAttempt
    /\ \A a \in Attempts : attempt[a] # None =>
          /\ attempt[a].asked # {}
          /\ attempt[a].wrong \subseteq {q \in attempt[a].asked : q.kind = "choice"}
=============================================================================
