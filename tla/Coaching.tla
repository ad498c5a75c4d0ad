------------------------------ MODULE Coaching ------------------------------
(***************************************************************************)
(* A learner's work at one gate of a lecture: a diagnostic, supported      *)
(* retries, an independent exit and delayed reviews.  The coaching state   *)
(* (tutor-state.json) binds one pending check; a turn reads it, asks the   *)
(* model, and records the assessment under the lock of that state.  The    *)
(* decision that passes the gate is written to a second file afterwards.   *)
(* The same learner works in several tabs, and the server may die.         *)
(***************************************************************************)
EXTENDS Integers, Sequences, SequencesExt

CONSTANTS
    Tabs,          \* requests the learner has open at once
    Practice,      \* TRUE of a gate with a practice target
    ExitTasks,     \* the reviewed tasks of the independent exit, in order
    DelayedTasks,  \* the reviewed tasks of the delayed review, in order
    Hints,         \* the approved hints, in order
    Evidence,      \* the required criteria of the gate
    Supports,      \* Supports[h]: the criteria hint h is bound to
    ReviewAfter,   \* the approved delay, in days
    MaxInterval,   \* 60 days in the code
    MaxDay, MaxTurns, MaxIssues,  \* bounds
    Nothing

\* Each stage with the bank its tasks come from, and its supported form.
BaseStage ==
    [diagnostic |-> "diagnostic", diagnostic_support |-> "diagnostic",
     independent_exit |-> "independent_exit", exit_support |-> "independent_exit",
     delayed_transfer |-> "delayed_transfer", delayed_support |-> "delayed_transfer"]

SupportStage ==
    [diagnostic |-> "diagnostic_support", independent_exit |-> "exit_support",
     delayed_transfer |-> "delayed_support"]

Bank == [diagnostic |-> <<"baseline">>, independent_exit |-> ExitTasks,
         delayed_transfer |-> DelayedTasks]

Stages == DOMAIN BaseStage
Independent == {"independent_exit", "delayed_transfer"}
Supported == {"diagnostic_support", "exit_support", "delayed_support"}
Tasks == UNION {ToSet(Bank[s]) : s \in DOMAIN Bank}
InitialStage == IF Practice THEN "diagnostic" ELSE "independent_exit"
AttemptKind(stage) == IF stage \in Supported THEN "supported_retry" ELSE stage

\* What a check, a review and a turn hold.
CheckRecords ==
    [stage : Stages, task : Tasks, prompt : Tasks, hint : ToSet(Hints) \cup {Nothing},
     bankOut : BOOLEAN, supportOut : BOOLEAN, issued : Nat]
ReviewRecords ==
    [task : ToSet(DelayedTasks), prompt : ToSet(DelayedTasks), interval : Nat, due : Nat,
     from : Nat, attempted : BOOLEAN, completed : BOOLEAN, failed : BOOLEAN]
TurnRecords ==
    [kind : Independent \cup {"diagnostic", "supported_retry"}, task : Tasks,
     missing : SUBSET Evidence, issued : Nat, seen : Nat, fresh : BOOLEAN, waited : Int]

\* What the constants are assumed to be: the reviewed tasks have names of their
\* own, as the validation of a practice target requires.
CoachingAssumption ==
    /\ Practice \in BOOLEAN
    /\ ExitTasks \in Seq(ToSet(ExitTasks)) \ {<<>>}
    /\ DelayedTasks \in Seq(ToSet(DelayedTasks)) \ {<<>>}
    /\ ToSet(ExitTasks) \cap ToSet(DelayedTasks) = {}
    /\ "baseline" \notin ToSet(ExitTasks) \cup ToSet(DelayedTasks)
    /\ Hints \in Seq(ToSet(Hints))
    /\ ReviewAfter \in Nat \ {0} /\ MaxInterval \in Nat \ {0} /\ MaxDay \in Nat
    /\ Nothing \notin CheckRecords \cup ReviewRecords \cup ToSet(Hints)

VARIABLES
    pending,   \* the pending check, or Nothing
    exposed, supported, answered,  \* tasks seen, seen with help, answered
    hints,     \* the hints that were given
    turns,     \* the assessed turns
    goal,      \* the evidence shown to the learner
    review,    \* the delayed review, or Nothing
    passed,    \* gates.json records a pass
    tab,       \* tab[t]: a request in progress
    day, issues

state == <<pending, exposed, supported, answered, hints, turns, goal, review>>
vars == <<state, passed, tab, day, issues>>

NoGoal == [supported |-> FALSE, independent |-> FALSE, delayed |-> FALSE]
Idle == [at |-> "idle", issued |-> 0]

----------------------------------------------------------------------------
(* What follows an assessment.                                             *)

PlainRetry(p) ==
    ~Practice /\ Hints = <<>> /\ p.stage = "independent_exit" /\ p.hint = Nothing

\* The first of some places of a sequence.
First(s, places) == s[CHOOSE i \in places : \A j \in places : i <= j]

\* Where a bank has tasks that were not seen yet, and the first of them.
Fresh(bank) ==
    {i \in DOMAIN Bank[bank] :
        Bank[bank][i] \notin exposed /\ (pending # Nothing => Bank[bank][i] # pending.task)}
NextFresh(bank) == First(Bank[bank], Fresh(bank))

NextHint(missing) ==
    LET open == {i \in DOMAIN Hints : Hints[i] \notin hints}
        targeted == {i \in open : Supports[Hints[i]] \cap missing # {}}
        general == {i \in open : Supports[Hints[i]] = {}}
    IN  IF targeted # {} THEN First(Hints, targeted)
        ELSE IF general # {} THEN First(Hints, general)
        ELSE Nothing

Check(stage, task, hint, bankOut, supportOut) ==
    [stage |-> stage, task |-> task, prompt |-> task, hint |-> hint,
     bankOut |-> bankOut, supportOut |-> supportOut, issued |-> issues + 1]

\* After a pass: a fresh independent task, or more practice with the same
\* one; a supported pass of a review waits for the next date.
AfterPass(p) ==
    LET stage == IF p.stage = "delayed_support" THEN "delayed_transfer" ELSE "independent_exit"
    IN  IF p.stage \in Independent \/ (p.stage = "delayed_support" /\ Fresh(stage) # {})
        THEN Nothing
        ELSE IF Fresh(stage) # {}
        THEN Check(stage, NextFresh(stage), Nothing, FALSE, FALSE)
        ELSE Check(SupportStage[BaseStage[p.stage]], p.task, Nothing, TRUE, FALSE)

AfterFailure(p, missing) ==
    LET hint == NextHint(missing)
        out == BaseStage[p.stage] # "diagnostic" /\ Fresh(BaseStage[p.stage]) = {}
        allGiven == Hints # <<>> /\ ToSet(Hints) \subseteq hints /\ hint = Nothing
        plain == ~Practice /\ Hints = <<>> /\ p.stage = "independent_exit"
    IN  Check(IF plain THEN p.stage ELSE SupportStage[BaseStage[p.stage]],
              p.task, hint, out /\ ~plain, allGiven)

GoalAfter(kind, missing) ==
    IF missing # {}
    THEN IF kind \in Independent
         THEN [goal EXCEPT !.independent = FALSE, !.delayed = FALSE]
         ELSE goal
    ELSE [goal EXCEPT !.supported = @ \/ kind = "supported_retry",
                      !.independent = @ \/ kind = "independent_exit",
                      !.delayed = @ \/ kind = "delayed_transfer"]

----------------------------------------------------------------------------
(* The delayed review.                                                     *)

Scheduled(task, prompt, days, failed) ==
    [task |-> task, prompt |-> prompt, interval |-> days, due |-> day + days, from |-> day,
     attempted |-> FALSE, completed |-> FALSE, failed |-> failed]

\* A passed review: the next fresh task at twice the interval, or the end.
Advanced(r) ==
    LET doubled == IF r.interval * 2 > ReviewAfter THEN r.interval * 2 ELSE ReviewAfter
        capped == IF doubled < MaxInterval THEN doubled ELSE MaxInterval
        next == NextFresh("delayed_transfer")
    IN  IF Fresh("delayed_transfer") = {} THEN [r EXCEPT !.completed = TRUE]
        ELSE Scheduled(next, next, IF r.failed THEN ReviewAfter ELSE capped, FALSE)

\* A supported pass: another task after the same delay.
Rescheduled(r) ==
    IF Fresh("delayed_transfer") = {} THEN r
    ELSE Scheduled(NextFresh("delayed_transfer"), r.prompt, r.interval, TRUE)

ReviewAfterTurn(p, missing) ==
    LET attempted == [review EXCEPT !.attempted = TRUE]
    IN  IF p.stage = "independent_exit" /\ missing = {}
        THEN IF review = Nothing /\ Practice
             THEN Scheduled(Head(DelayedTasks), Head(DelayedTasks), ReviewAfter, FALSE)
             ELSE review
        ELSE IF p.stage = "delayed_transfer"
        THEN IF missing = {} THEN Advanced(attempted) ELSE [attempted EXCEPT !.failed = TRUE]
        ELSE IF p.stage = "delayed_support" /\ missing = {} THEN Rescheduled(review)
        ELSE review

----------------------------------------------------------------------------
(* What the preflight of a turn, of help and of the lesson page accepts.   *)

PendingIsValid ==
    pending # Nothing =>
        /\ pending.task \in ToSet(Bank[BaseStage[pending.stage]])
        /\ pending.prompt = pending.task
        /\ pending.stage \in Independent /\ ~PlainRetry(pending) =>
               /\ pending.task \notin supported \cup answered
               /\ \A i \in DOMAIN turns :
                     ~(turns[i].kind = pending.stage /\ turns[i].task = pending.task)
        /\ pending.hint # Nothing => pending.hint \in hints
        /\ BaseStage[pending.stage] = "delayed_transfer" => review # Nothing /\ ~review.completed

ReviewIsValid ==
    review # Nothing =>
        /\ review.prompt = Head(DelayedTasks) /\ review.interval = ReviewAfter
        /\ review.attempted /\ ~review.completed =>
               pending # Nothing /\ BaseStage[pending.stage] = "delayed_transfer"

Resumable == PendingIsValid /\ ReviewIsValid

----------------------------------------------------------------------------
(* A turn that answers the check.                                          *)

\* The check that becomes pending counts as seen, with help in its
\* supported stages.
Bind(p) ==
    /\ issues < MaxIssues
    /\ issues' = issues + 1
    /\ pending' = p
    /\ exposed' = exposed \cup {p.task}
    /\ supported' = IF p.stage \in Supported THEN supported \cup {p.task} ELSE supported

Preflight(t) ==
    /\ tab[t] = Idle
    /\ Resumable
    /\ tab' = [tab EXCEPT ![t].at = "checked"]
    /\ UNCHANGED <<state, passed, day, issues>>

\* The state is read again; without a pending check the gate is bound.
Prepare(t) ==
    /\ tab[t].at = "checked"
    /\ IF pending # Nothing
       THEN ~pending.supportOut /\ UNCHANGED <<state, issues>>
       ELSE /\ Bind(Check(InitialStage, Bank[InitialStage][1], Nothing, FALSE, FALSE))
            /\ UNCHANGED <<answered, hints, turns, goal, review>>
    /\ tab' = [tab EXCEPT ![t] = [at |-> "assess", issued |-> pending'.issued]]
    /\ UNCHANGED <<passed, day>>

\* Mutant: the answer is recorded for whatever check is pending.
BoundToAny(t) == pending # Nothing

Bound(t) == pending # Nothing /\ pending.issued = tab[t].issued

\* The assessment is bound to the issue the learner was shown; with missing
\* criteria the gate needs evidence.
Record(t, missing) ==
    /\ tab[t].at = "assess" /\ Len(turns) < MaxTurns
    /\ Bound(t) /\ ~pending.supportOut
    /\ LET p == pending
           kind == AttemptKind(p.stage)
           next == IF missing = {} THEN AfterPass(p) ELSE AfterFailure(p, missing)
       IN  /\ turns' = Append(turns, [kind |-> kind, task |-> p.task, missing |-> missing,
                                      issued |-> p.issued, seen |-> tab[t].issued,
                                      fresh |-> p.task \notin supported \cup answered,
                                      waited |-> IF review = Nothing THEN 0 ELSE day - review.from])
           /\ goal' = GoalAfter(kind, missing)
           /\ review' = ReviewAfterTurn(p, missing)
           /\ answered' = answered \cup {p.task}
           /\ hints' = IF next # Nothing /\ next.hint # Nothing THEN hints \cup {next.hint} ELSE hints
           /\ IF next # Nothing THEN Bind(next)
              ELSE pending' = Nothing /\ UNCHANGED <<exposed, supported, issues>>
           /\ tab' = [tab EXCEPT ![t].at = IF missing = {} /\ kind = "independent_exit"
                                           THEN "recorded" ELSE "done"]
    /\ UNCHANGED <<passed, day>>

\* gates.json: only a passed independent exit.
WriteGate(t) ==
    /\ tab[t].at = "recorded"
    /\ passed' = TRUE
    /\ tab' = [tab EXCEPT ![t] = Idle]
    /\ UNCHANGED <<state, day, issues>>

\* The answer was recorded, or refused, or the model failed.
Finish(t) ==
    /\ tab[t].at \in {"checked", "assess", "done"}
    /\ tab' = [tab EXCEPT ![t] = Idle]
    /\ UNCHANGED <<state, passed, day, issues>>

----------------------------------------------------------------------------
(* Other requests, each under the lock of the state.                       *)

\* Help turns the pending task into supported practice before it is shown.
RequestSupport ==
    /\ Resumable
    /\ pending # Nothing /\ pending.stage \notin Supported /\ Hints # <<>>
    /\ LET out == pending.stage # "diagnostic" /\ Fresh(pending.stage) = {}
       IN  Bind([pending EXCEPT !.stage = SupportStage[pending.stage], !.hint = Head(Hints),
                                !.bankOut = out, !.issued = issues + 1])
    /\ hints' = hints \cup {Head(Hints)}
    /\ UNCHANGED <<answered, turns, goal, review, passed, tab, day>>

\* Opening one that is already pending changes nothing.
OpenReview ==
    /\ review # Nothing /\ ~review.completed /\ ~review.attempted
    /\ pending = Nothing /\ review.due <= day
    /\ Bind([Check("delayed_transfer", review.task, Nothing, FALSE, FALSE)
                EXCEPT !.prompt = review.prompt])
    /\ UNCHANGED <<answered, hints, turns, goal, review, passed, tab, day>>

Emptied ==
    /\ pending' = Nothing /\ review' = Nothing
    /\ exposed' = {} /\ supported' = {} /\ answered' = {} /\ hints' = {}
    /\ turns' = <<>> /\ goal' = NoGoal

\* Recovery clears the gate first; the process may die before it empties
\* the state.
Recover ==
    /\ ~Resumable
    /\ passed' = FALSE
    /\ Emptied \/ UNCHANGED state
    /\ UNCHANGED <<tab, day, issues>>

Crash ==
    /\ tab' = [t \in Tabs |-> Idle]
    /\ tab' # tab
    /\ UNCHANGED <<state, passed, day, issues>>

\* No request is between its two writes for a day.
Tick ==
    /\ day < MaxDay
    /\ \A t \in Tabs : tab[t].at # "recorded"
    /\ day' = day + 1
    /\ UNCHANGED <<state, passed, tab, issues>>

----------------------------------------------------------------------------
Init ==
    /\ pending = Nothing /\ review = Nothing
    /\ exposed = {} /\ supported = {} /\ answered = {} /\ hints = {}
    /\ turns = <<>> /\ goal = NoGoal /\ passed = FALSE
    /\ tab = [t \in Tabs |-> Idle] /\ day = 0 /\ issues = 0

Next ==
    \/ \E t \in Tabs :
          \/ Preflight(t) \/ Prepare(t) \/ WriteGate(t) \/ Finish(t)
          \/ \E missing \in SUBSET Evidence : Record(t, missing)
    \/ RequestSupport \/ OpenReview \/ Recover \/ Crash \/ Tick

Spec == Init /\ [][Next]_vars

----------------------------------------------------------------------------
\* The state has its type, and a check that shows a hint is supported study.
TypeOK ==
    /\ pending # Nothing =>
           /\ pending.stage \in Stages /\ pending.task \in Tasks /\ pending.issued \in 1..issues
           /\ pending.hint # Nothing \/ pending.bankOut => pending.stage \in Supported
    /\ supported \cup answered \subseteq exposed /\ exposed \subseteq Tasks
    /\ hints \subseteq ToSet(Hints)
    /\ \A i \in DOMAIN turns : turns[i].kind \in Independent \cup {"diagnostic", "supported_retry"}
    /\ goal \in [supported : BOOLEAN, independent : BOOLEAN, delayed : BOOLEAN]
    /\ review # Nothing => review.task \in ToSet(DelayedTasks) /\ review.interval > 0
    /\ passed \in BOOLEAN /\ day \in 0..MaxDay
    /\ \A t \in Tabs : tab[t].at \in {"idle", "checked", "assess", "recorded", "done"}

\* Independent and delayed evidence comes from a task the learner had neither
\* had help with nor answered before, in whichever tab and order.
IndependentAnswersAreFresh ==
    \A i \in DOMAIN turns : turns[i].kind \in Independent => turns[i].fresh

\* An assessment is recorded for the check its turn was shown, and a check
\* is assessed once, however many tabs send an answer to it.
AssessedOnceAsShown ==
    \A i \in DOMAIN turns :
        /\ turns[i].issued = turns[i].seen
        /\ \A j \in DOMAIN turns : turns[j].issued = turns[i].issued => i = j

\* A delayed review is answered only after its whole interval.
DelayedAnswersWaited ==
    \A i \in DOMAIN turns : turns[i].kind = "delayed_transfer" => turns[i].waited >= ReviewAfter

ExitIsRecorded ==
    \E i \in DOMAIN turns : turns[i].kind = "independent_exit" /\ turns[i].missing = {}

\* A gate that is passed has the passed independent exit in the coaching
\* state, through crashes and rejected answers.
PassHasItsEvidence == passed => ExitIsRecorded

\* Whatever the order of answers, help, reviews and crashes, the state can
\* be resumed: a learner is never sent to the recovery that empties it.
StateIsResumable == Resumable

\* What the variables hold.
Shapes ==
    /\ pending \in CheckRecords \cup {Nothing} /\ review \in ReviewRecords \cup {Nothing}
    /\ turns \in Seq(TurnRecords)
    /\ tab \in [Tabs -> [at : {"idle", "checked", "assess", "recorded", "done"}, issued : Nat]]
    /\ supported \subseteq exposed /\ answered \subseteq exposed /\ issues \in Nat

\* The task of the check was seen, and in an independent stage neither helped
\* with nor answered; a check of a review shows the task of the review.
CheckIsOfItsStage ==
    pending # Nothing =>
        /\ pending.task \in ToSet(Bank[BaseStage[pending.stage]]) \cap exposed
        /\ pending.stage \in Independent => pending.task \notin supported \cup answered
        /\ BaseStage[pending.stage] = "delayed_transfer" =>
              review # Nothing /\ ~review.completed /\ review.task = pending.task
        /\ pending.stage = "delayed_transfer" => review.due <= day

\* Turns were about earlier checks than the pending one, and are answers.
TurnsAreEarlier ==
    \A i \in DOMAIN turns :
        /\ turns[i].task \in answered /\ turns[i].issued <= issues
        /\ pending # Nothing => turns[i].issued < pending.issued

\* The task of a review that waits to be opened was not seen before.
ReviewIsFresh ==
    /\ review = Nothing => ToSet(DelayedTasks) \cap exposed = {}
    /\ review # Nothing =>
          /\ review.due = review.from + review.interval /\ review.interval >= ReviewAfter
          /\ ~review.attempted /\ ~review.completed =>
                \/ review.task \notin exposed
                \/ pending # Nothing /\ pending.task = review.task

\* What every step preserves at a gate with a practice target ...
Inv ==
    /\ TypeOK /\ Shapes /\ CheckIsOfItsStage /\ TurnsAreEarlier /\ ReviewIsFresh
    /\ IndependentAnswersAreFresh /\ AssessedOnceAsShown /\ DelayedAnswersWaited

\* ... and if it has one delayed task: a review that failed is being practised,
\* and whoever is about to record a pass has its evidence.
ReviewGoesOn ==
    /\ pending # Nothing => pending.prompt = pending.task /\ pending.hint \in hints \cup {Nothing}
    /\ review # Nothing =>
          /\ review.interval = ReviewAfter
          /\ review.attempted /\ ~review.completed =>
                pending # Nothing /\ BaseStage[pending.stage] = "delayed_transfer"
    /\ (\E t \in Tabs : tab[t].at = "recorded") => ExitIsRecorded
ResumableInv == Inv /\ ReviewGoesOn /\ PassHasItsEvidence

\* As the documentation has it, a passed review schedules the next one at
\* twice the interval; the learner can go on with a state that has it.
NextReviewIsResumable ==
    review # Nothing /\ pending = Nothing /\ ~review.failed => Resumable

\* As the documentation has it, another task is required after a supported
\* attempt: the opened review shows the prompt of the task it records.
OpenedTaskHasItsPrompt == pending # Nothing => pending.prompt = pending.task

\* As the documentation has it, the cap of the interval gives way to a longer
\* approved one.
IntervalIsAtLeastApproved == review # Nothing => review.interval >= ReviewAfter

=============================================================================
