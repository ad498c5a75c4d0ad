----------------------------- MODULE GoalMarkers -----------------------------
(***************************************************************************)
(* The markers of background goal proposals: an update marks its new       *)
(* lectures as running, one task proposes their goals in turn, and a       *)
(* heartbeat renews the markers from a worker thread beside the thread     *)
(* that records each result.  Time is counted in heartbeat periods, as the *)
(* age of each marker.                                                     *)
(***************************************************************************)
EXTENDS Integers, FiniteSets

CONSTANTS
    Lectures,  \* the new lectures of one update
    Lease,     \* periods after which a marker is no longer believed
    Delay      \* bound: periods a heartbeat's thread takes to write

\* What the constants are assumed to be.
LeaseAssumption == Lease \in Nat /\ Delay \in Nat /\ 2 * Delay + 2 <= Lease

VARIABLES
    marker,   \* builder/goal-proposals/<lecture>.json
    age,      \* its updated_at, as periods since
    task,     \* "idle", "marked", "running", "done" or "dead"
    pending,  \* the task's list of lectures it has not proposed yet
    result,   \* what the task has to record, and has recorded
    touch,    \* the heartbeat's thread: lectures to renew, the one it read
    since,    \* periods since the heartbeat last woke up
    asleep    \* periods since it went to sleep
vars == <<marker, age, task, pending, result, touch, since, asleep>>

Old == Lease + 1
NoTouch == [todo |-> {}, read |-> {}]
Touches == [todo : SUBSET Lectures, read : SUBSET Lectures]
Results == [status : {"none", "completed", "failed"}, recorded : BOOLEAN]
Proposing(l) == marker[l] = "running" /\ age[l] <= Lease

-----------------------------------------------------------------------------
Mark ==
    /\ task = "idle"
    /\ task' = "marked"
    /\ marker' = [l \in Lectures |-> "running"]
    /\ age' = [l \in Lectures |-> 0]
    /\ UNCHANGED <<pending, result, touch, since, asleep>>

Start ==
    /\ task = "marked"
    /\ task' = "running"
    /\ pending' = Lectures /\ since' = 0 /\ asleep' = 0
    /\ UNCHANGED <<marker, age, result, touch>>

\* A proposal ends; the lecture leaves the list before its result is recorded.
Propose(l) ==
    /\ task = "running" /\ l \in pending
    /\ \A other \in Lectures : result[other].recorded \/ result[other].status = "none"
    /\ pending' = pending \ {l}
    /\ \E status \in {"completed", "failed"} :
           result' = [result EXCEPT ![l].status = status]
    /\ UNCHANGED <<marker, age, task, touch, since, asleep>>

Record(l) ==
    /\ task = "running" /\ result[l].status # "none" /\ ~result[l].recorded
    /\ result' = [result EXCEPT ![l].recorded = TRUE]
    /\ marker' = [marker EXCEPT ![l] = result[l].status]
    /\ age' = [age EXCEPT ![l] = 0]
    /\ UNCHANGED <<task, pending, touch, since, asleep>>

\* Leaving the task cancels the heartbeat; its thread goes on.
End ==
    /\ task = "running" /\ pending = {}
    /\ \A l \in Lectures : result[l].recorded
    /\ task' = "done"
    /\ UNCHANGED <<marker, age, pending, result, touch, since, asleep>>

-----------------------------------------------------------------------------
\* Mutant: only one lecture, the one in work, is renewed.
BeatOne ==
    /\ task = "running" /\ asleep >= 1 /\ touch = NoTouch
    /\ touch' \in {[todo |-> {l}, read |-> {}] : l \in pending}
    /\ since' = 0 /\ asleep' = 0
    /\ UNCHANGED <<marker, age, task, pending, result>>

Beat ==
    /\ task = "running" /\ asleep >= 1 /\ touch = NoTouch
    /\ touch' = [todo |-> pending, read |-> {}]
    /\ since' = 0 /\ asleep' = 0
    /\ UNCHANGED <<marker, age, task, pending, result>>

TouchRead(l) ==
    /\ l \in touch.todo /\ touch.read = {}
    /\ touch' = IF marker[l] = "running" THEN [touch EXCEPT !.read = {l}]
                ELSE [touch EXCEPT !.todo = @ \ {l}]
    /\ UNCHANGED <<marker, age, task, pending, result, since, asleep>>

\* The copy that was read is written back with the time of the heartbeat.
TouchWrite(l) ==
    /\ l \in touch.read
    /\ touch' = [todo |-> touch.todo \ {l}, read |-> {}]
    /\ marker' = [marker EXCEPT ![l] = "running"]
    /\ age' = [age EXCEPT ![l] = since]
    /\ UNCHANGED <<task, pending, result, since, asleep>>

\* The server stops: markers stay, the task and its threads are gone.
Crash ==
    /\ task \in {"marked", "running"}
    /\ task' = "dead"
    /\ touch' = NoTouch
    /\ UNCHANGED <<marker, age, pending, result, since, asleep>>

\* A period passes: a task starts at once, its heartbeat sleeps for a period
\* and is at most one late, and its thread has written within Delay periods.
Tick ==
    /\ task # "marked"
    /\ IF touch = NoTouch THEN task = "running" => asleep < 2 ELSE since < Delay
    /\ age' = [l \in Lectures |-> IF age[l] = Old THEN Old ELSE age[l] + 1]
    /\ IF touch # NoTouch THEN since' = since + 1 /\ UNCHANGED asleep
       ELSE IF task = "running" THEN since' = since + 1 /\ asleep' = asleep + 1
       ELSE UNCHANGED <<since, asleep>>
    /\ UNCHANGED <<marker, task, pending, result, touch>>

Init ==
    /\ marker = [l \in Lectures |-> "none"] /\ age = [l \in Lectures |-> Old]
    /\ task = "idle" /\ pending = {} /\ touch = NoTouch /\ since = 0 /\ asleep = 0
    /\ result = [l \in Lectures |-> [status |-> "none", recorded |-> FALSE]]

Next ==
    \/ Mark \/ Start \/ End \/ Beat \/ Crash \/ Tick
    \/ \E l \in Lectures : Propose(l) \/ Record(l) \/ TouchRead(l) \/ TouchWrite(l)

Spec == Init /\ [][Next]_vars

\* A model call has a deadline; threads run; time passes.
Fairness ==
    /\ WF_vars(Tick) /\ WF_vars(Beat) /\ WF_vars(Start) /\ WF_vars(End)
    /\ \A l \in Lectures :
           /\ WF_vars(Propose(l)) /\ WF_vars(Record(l))
           /\ WF_vars(TouchRead(l)) /\ WF_vars(TouchWrite(l))
FairSpec == Spec /\ Fairness

-----------------------------------------------------------------------------
\* The state has its types, and a thread holds only markers it was asked for.
TypeOK ==
    /\ marker \in [Lectures -> {"none", "running", "completed", "failed"}]
    /\ age \in [Lectures -> 0..Old]
    /\ task \in {"idle", "marked", "running", "done", "dead"}
    /\ pending \subseteq Lectures
    /\ result \in [Lectures -> Results]
    /\ touch \in Touches /\ touch.read \subseteq touch.todo
    /\ since \in 0..Lease /\ asleep \in 0..2

\* How old the marker of a waiting lecture may be: as old as the last heartbeat
\* that reached it, which is the one before while the thread is on its way.
AgeBound(l) == IF l \in touch.todo THEN since + Delay + 2 ELSE since

\* What the steps keep: a heartbeat comes in time, and it renews the markers of
\* the lectures that wait, which have no result.
Inv ==
    /\ TypeOK
    /\ since <= Delay + asleep
    /\ touch # NoTouch => asleep = 0
    /\ task \in {"idle", "marked"} =>
           /\ touch = NoTouch
           /\ \A l \in Lectures : result[l].status = "none"
    /\ task = "marked" => \A l \in Lectures : marker[l] = "running" /\ age[l] = 0
    /\ task = "running" => \A l \in pending :
           /\ result[l].status = "none"
           /\ marker[l] = "running" /\ age[l] <= AgeBound(l)

\* A lecture that waits for its turn is reported as proposing however long the
\* lectures before it take (GOAL_PROPOSAL_LEASE against the heartbeat).
WaitingIsProposing ==
    task = "running" => \A l \in pending : Proposing(l)

\* course-updates.md: "failures are recorded".  What the task has recorded is
\* what the marker says when everything has ended.
ResultsAreRecorded ==
    task = "done" => \A l \in Lectures : marker[l] = result[l].status

\* A marker stops saying that goals are being proposed, whether the task ends,
\* its result is overwritten, or the server stops in the middle.
ProposingEnds ==
    \A l \in Lectures : Proposing(l) ~> ~Proposing(l)

=============================================================================
