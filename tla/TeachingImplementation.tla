----------------------- MODULE TeachingImplementation -----------------------
(***************************************************************************)
(* The job that writes the teaching of approved goals: one model call per  *)
(* missing goal, one review of the lecture, one repair per flagged goal.   *)
(* Calls run side by side, the first failure cancels the others, and what  *)
(* is saved is resumed: within the request up to Attempts times, after a   *)
(* crash or an explicit retry from the same directory.                     *)
(***************************************************************************)
EXTENDS Integers, FiniteSets

CONSTANTS
    Goals,        \* the goals of the approved intent
    Fixed,        \* goals whose task the professor owns
    Concurrency,  \* TEACHING_CONCURRENCY
    Attempts,     \* IMPLEMENTATION_ATTEMPTS
    Nothing,      \* no review, no list of flagged goals yet
    MaxRestarts   \* bound: crashes and explicit retries

Reviews == [of : [Goals -> Nat], defects : SUBSET Goals, adopted : BOOLEAN]

\* What the constants are assumed to be.
JobAssumption ==
    /\ Fixed \subseteq Goals
    /\ Concurrency \in Nat \ {0} /\ Attempts \in Nat \ {0}
    /\ MaxRestarts \in Nat
    /\ Nothing \notin Reviews /\ \A goals \in SUBSET Goals : goals # Nothing

VARIABLES
    target,    \* draft.json: the version of each goal's teaching, 0 is missing
    review,    \* draft.json: the review and the teaching it is about
    progress,  \* progress.json: the flagged goals and the repaired ones
    phase,     \* what the running attempt does
    batch,     \* its goals to do: still waiting, in a model call, written by it
    warm,      \* the batch's first call has ended
    before,    \* the teaching when the attempt began
    attempt, restarts
vars == <<target, review, progress, phase, batch, warm, before, attempt, restarts>>

Missing == {g \in Goals : target[g] = 0}
Batch(goals) == [todo |-> goals, called |-> {}, written |-> {}]
Busy == phase \in {"write", "review", "flag", "save", "repair"}
Calling == phase = "review" \/ batch.called # {}
Finished == batch = Batch({})

Enter(next, goals) ==
    /\ phase' = next
    /\ batch' = Batch(goals)
    /\ warm' = (Cardinality(goals) <= 1)

-----------------------------------------------------------------------------
Begin ==
    /\ phase = "idle" /\ attempt < Attempts
    /\ attempt' = attempt + 1
    /\ before' = target
    /\ Enter("write", Missing)
    /\ UNCHANGED <<target, review, progress, restarts>>

\* The first call alone, then as many as the semaphore lets through.
Call(g) ==
    /\ phase \in {"write", "repair"} /\ g \in batch.todo
    /\ Cardinality(batch.called) < (IF warm THEN Concurrency ELSE 1)
    /\ batch' = [batch EXCEPT !.todo = @ \ {g}, !.called = @ \cup {g}]
    /\ UNCHANGED <<target, review, progress, phase, warm, before, attempt, restarts>>

\* The output validator saves the teaching while the call is still running.
Write(g) ==
    /\ g \in batch.called \ batch.written
    /\ target' = [target EXCEPT ![g] = @ + 1]
    /\ batch' = [batch EXCEPT !.written = @ \cup {g}]
    /\ UNCHANGED <<review, progress, phase, warm, before, attempt, restarts>>

Return(g) ==
    /\ g \in batch.written
    /\ batch' = [batch EXCEPT !.called = @ \ {g}, !.written = @ \ {g}]
    /\ warm' = TRUE
    /\ progress' = IF phase = "repair" THEN [progress EXCEPT !.repaired = @ \cup {g}]
                   ELSE progress
    /\ UNCHANGED <<target, review, phase, before, attempt, restarts>>

-----------------------------------------------------------------------------
Pending == progress.flagged \ progress.repaired

\* Mutant: the repairs of an earlier attempt are reviewed with the rest.
WrittenReviewed ==
    /\ phase = "write" /\ Finished
    /\ Enter("review", {})
    /\ UNCHANGED <<target, review, progress, before, attempt, restarts>>

Written ==
    /\ phase = "write" /\ Finished
    /\ IF progress.flagged = Nothing THEN Enter("review", {}) ELSE Enter("save", {})
    /\ UNCHANGED <<target, review, progress, before, attempt, restarts>>

\* The review is saved with the digest of what it saw, and not asked again.
Review ==
    /\ phase = "review"
    /\ review' \in IF review # Nothing /\ review.of = target THEN {review}
                   ELSE {[of |-> target, defects |-> goals, adopted |-> FALSE] : goals \in SUBSET Goals}
    /\ phase' = "flag"
    /\ UNCHANGED <<target, progress, batch, warm, before, attempt, restarts>>

\* The defects of a new review; the goals that a repair request or a design
\* conflict names, which alone count for a review that was adopted.
Flag ==
    /\ phase = "flag"
    /\ \E named \in SUBSET Goals :
           progress' = [flagged |-> (named \cup IF review.adopted THEN {} ELSE review.defects) \ Fixed, repaired |-> {}]
    /\ phase' = "save"
    /\ UNCHANGED <<target, review, batch, warm, before, attempt, restarts>>

Repair ==
    /\ phase = "save"
    /\ Enter("repair", Pending)
    /\ UNCHANGED <<target, review, progress, before, attempt, restarts>>

Complete ==
    /\ phase = "repair" /\ Finished
    /\ phase' = "done"
    /\ UNCHANGED <<target, review, progress, batch, warm, before, attempt, restarts>>

-----------------------------------------------------------------------------
\* A call or a check of the ownership fails and cancels the other calls; what
\* they wrote stays.  After an exhausted budget an attempt follows if there was
\* progress, after a provider's error in any case.
Fail ==
    /\ Busy
    /\ Enter("idle", {})
    /\ \E kind \in {"budget", "provider", "other"} :
           LET resumable == Calling /\ kind # "other" /\ (kind = "budget" => before # target)
           IN attempt' = IF resumable THEN attempt ELSE Attempts
    /\ UNCHANGED <<target, review, progress, before, restarts>>

\* The server stops, or the professor retries a request that has failed.
Restart ==
    /\ restarts < MaxRestarts /\ phase # "done"
    /\ restarts' = restarts + 1
    /\ attempt' = 0
    /\ Enter("idle", {})
    /\ UNCHANGED <<target, review, progress, before>>

InitProposed ==
    /\ \E present \in SUBSET Goals :
           /\ Fixed \subseteq present
           /\ target = [g \in Goals |-> IF g \in present THEN 1 ELSE 0]
    /\ review = Nothing
    /\ progress = [flagged |-> Nothing, repaired |-> {}]
    /\ phase = "idle" /\ batch = Batch({}) /\ warm = TRUE
    /\ before = target /\ attempt = 0 /\ restarts = 0

\* A conflict with a reviewed implementation starts from its review.
InitAdopted ==
    /\ target = [g \in Goals |-> 1]
    /\ \E goals \in SUBSET Goals : review = [of |-> target, defects |-> goals, adopted |-> TRUE]
    /\ progress = [flagged |-> Nothing, repaired |-> {}]
    /\ phase = "idle" /\ batch = Batch({}) /\ warm = TRUE
    /\ before = target /\ attempt = 0 /\ restarts = 0

Init == InitProposed \/ InitAdopted

Next ==
    \/ Begin \/ Written \/ Review \/ Flag \/ Repair \/ Complete \/ Fail \/ Restart
    \/ \E g \in Goals : Call(g) \/ Write(g) \/ Return(g)

Spec == Init /\ [][Next]_vars

\* Calls return: each has a provider's timeout, each attempt a deadline.
Fairness ==
    /\ WF_vars(Written \/ Review \/ Flag \/ Repair \/ Complete)
    /\ \A g \in Goals : WF_vars(Call(g)) /\ WF_vars(Write(g)) /\ WF_vars(Return(g))
FairSpec == Spec /\ Fairness

-----------------------------------------------------------------------------
\* The state has its types; calls are bounded by the semaphore.
TypeOK ==
    /\ target \in [Goals -> Nat]
    /\ progress.repaired \subseteq Goals \ Fixed
    /\ batch.written \subseteq batch.called
    /\ batch.todo \cap batch.called = {}
    /\ Cardinality(batch.called) <= Concurrency
    /\ attempt \in 0..Attempts

\* A professor's task is never written by the job.
FixedIsReadOnly == [][\A g \in Fixed : target'[g] = target[g]]_vars

\* Completed teaching is what the single review saw, but for the goals that are
\* labelled as repaired after it (repaired_review).
UnlabelledIsReviewed ==
    phase = "done" =>
        \A g \in Goals \ progress.repaired : review.of[g] = target[g]

\* A finding is labelled "Repaired once, not re-checked" only when the teaching
\* did change after the review.
LabelledWasRepaired ==
    \A g \in progress.repaired : review.of[g] # target[g]

\* A resumed job never asks for a second review of teaching that it has partly
\* repaired.
ReviewIsSingle == [][review # Nothing => review' = review]_vars

\* What each phase has done: before the review every task exists, none is
\* rewritten between the review and the choice of what it flagged, and then
\* only flagged ones are, each until its call returned.
PhaseInv ==
    /\ phase \notin {"write", "repair"} => Finished
    /\ phase = "write" => Missing \subseteq batch.todo \cup (batch.called \ batch.written)
    /\ phase \notin {"idle", "write"} \/ review # Nothing => Missing = {}
    /\ phase = "write" /\ review # Nothing => Finished
    /\ phase \in {"review", "flag"} => progress.flagged = Nothing
    /\ phase \in {"save", "repair", "done"} => progress.flagged # Nothing
    /\ phase = "flag" \/ progress.flagged # Nothing => review # Nothing
    /\ phase = "repair" => batch.todo \cup batch.called = Pending
    /\ phase = "done" => Pending = {}
ReviewInv ==
    /\ progress.flagged = Nothing => progress.repaired = {}
    /\ review # Nothing => \A g \in Goals :
          \/ review.of[g] = target[g] /\ g \notin progress.repaired \cup batch.written
          \/ /\ review.of[g] < target[g]
             /\ progress.flagged # Nothing /\ g \in progress.flagged
TypesInv ==
    /\ TypeOK
    /\ review \in Reviews \cup {Nothing}
    /\ progress \in [flagged : (SUBSET (Goals \ Fixed)) \cup {Nothing}, repaired : SUBSET Goals]
    /\ progress.flagged # Nothing => progress.repaired \subseteq progress.flagged
    /\ batch \in [todo : SUBSET (Goals \ Fixed), called : SUBSET (Goals \ Fixed),
                  written : SUBSET (Goals \ Fixed)]
    /\ IsFiniteSet(batch.called) /\ warm \in BOOLEAN
    /\ phase \in {"idle", "write", "review", "flag", "save", "repair", "done"}
    /\ \A g \in Fixed : target[g] > 0
Inv == TypesInv /\ PhaseInv /\ ReviewInv

\* An attempt ends: no batch waits for a place that nobody gives back.
AttemptEnds == Busy ~> ~Busy

\* teaching_design_job.py: "one lecture review and at most one targeted repair
\* per flagged goal".
RepairedOnce ==
    review # Nothing => \A g \in Goals : target[g] <= review.of[g] + 1

=============================================================================
