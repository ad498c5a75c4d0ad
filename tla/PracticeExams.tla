--------------------------- MODULE PracticeExams ---------------------------
(***************************************************************************)
(* The generation of practice exams for one student of a course.  A        *)
(* request names an idempotency key; its durable record is owned by one    *)
(* run at a time, which renews a lease from worker threads while it waits  *)
(* for a generation slot and plans, then writes the exam and completes the *)
(* record.  A run may stall past its lease, be cancelled, or die with the  *)
(* process; a repeated request then reclaims the record for a new run.     *)
(* Records that ended are pruned, so a key may come back as a new one.     *)
(***************************************************************************)
EXTENDS Naturals, Sequences, FiniteSets, SequencesExt

CONSTANTS
    Keys,          \* idempotency keys
    None,
    Slots,         \* runs that generate at a time
    MaxTerminal,   \* records that ended and are kept
    MaxRuns        \* bound: runs

Runs == 1..MaxRuns
Terminal == {"completed", "failed"}
Threads == {"renew", "write", "complete"}
Records == [generation : Runs, attempt : Runs, status : Terminal \cup {"running"},
            exam : Runs \cup {None}, expired : BOOLEAN]
Owners == [key : Keys, generation : Runs, attempt : Runs]

\* What the constants are assumed to be.
ExamsAssumption ==
    /\ {Slots, MaxTerminal, MaxRuns} \subseteq Nat \ {0}
    /\ None \notin Nat /\ None \notin Records /\ None \notin Owners

VARIABLES
    job,      \* job[k]: the record of key k, or None
    ended,    \* the keys whose records ended, oldest update first
    exams,    \* exams written; an exam is named after its run
    started,  \* number of runs started
    run,      \* run[r]: the key, generation and attempt it owns
    pc,       \* pc[r]: where run r is
    thread,   \* thread[r]: calls handed to worker threads and not made yet
    settler   \* history: settler[k]: the run that ended the record of k

vars == <<job, ended, exams, started, run, pc, thread, settler>>

Working == {"waiting", "planning"}
Alive(r) == pc[r] \notin {"idle", "over", "dead"}
IsTerminal(k) == job[k] # None /\ job[k].status \in Terminal
\* Run r holds the record of its key.
Owns(r) ==
    /\ job[run[r].key] # None
    /\ job[run[r].key].generation = run[r].generation
    /\ job[run[r].key].attempt = run[r].attempt

----------------------------------------------------------------------------
\* A run is numbered, and a generation takes the number of its first run.
StartRun(k, generation, attempt) ==
    /\ started < MaxRuns
    /\ started' = started + 1
    /\ job' = [job EXCEPT ![k] = [generation |-> generation, attempt |-> attempt, status |-> "running",
                                  exam |-> None, expired |-> FALSE]]
    /\ run' = [run EXCEPT ![started + 1] =
                  [key |-> k, generation |-> generation, attempt |-> attempt]]
    /\ pc' = [pc EXCEPT ![started + 1] = "waiting"]
    /\ UNCHANGED <<ended, exams, thread, settler>>

BeginNew(k) ==
    /\ job[k] = None
    /\ StartRun(k, started + 1, 1)

\* A repeated request takes over a record whose lease ran out.  It only reads
\* any other record, and is refused when it asks for something else.
Reclaim(k) ==
    /\ job[k] # None
    /\ job[k].status = "running" /\ job[k].expired
    /\ StartRun(k, job[k].generation, job[k].attempt + 1)

Begin(k) == BeginNew(k) \/ Reclaim(k)

\* The lease passes without a renewal: the process is down or stalls.
Expire(k) ==
    /\ job[k] # None /\ job[k].status = "running" /\ ~job[k].expired
    /\ job' = [job EXCEPT ![k].expired = TRUE]
    /\ UNCHANGED <<ended, exams, started, run, pc, thread, settler>>

----------------------------------------------------------------------------
\* Mutant: a record that ended is written again.
ActiveOwner(r) == Owns(r)

Active(r) == Owns(r) /\ job[run[r].key].status = "running"

\* The newest MaxTerminal - 1 other records stay.
Pruned(keys) ==
    LET cut == IF Len(keys) < MaxTerminal THEN 0 ELSE Len(keys) - MaxTerminal + 1 IN
    [others |-> SubSeq(keys, 1, cut), kept |-> SubSeq(keys, cut + 1, Len(keys))]

\* The write of a terminal status, with the pruning behind it. The record was
\* running, so it is not among the others.
Settle(r, status, exam) ==
    LET k == run[r].key
        gone == ToSet(Pruned(ended).others)
    IN
    /\ job' = [key \in Keys |->
          IF key = k THEN [job[k] EXCEPT !.status = status, !.exam = exam]
          ELSE IF key \in gone THEN None ELSE job[key]]
    /\ ended' = Append(Pruned(ended).kept, k)
    /\ settler' = [settler EXCEPT ![k] = r]

\* A renewal is handed to a thread, every third of the lease and at its end.
AskRenewal(r) ==
    /\ pc[r] \in Working
    /\ thread[r] = {}
    /\ thread' = [thread EXCEPT ![r] = {"renew"}]
    /\ UNCHANGED <<job, ended, exams, started, run, pc, settler>>

\* The thread renews, also when its run has gone on.  A renewal that finds
\* the run inactive ends the lease, which cancels the body.
Renew(r) ==
    /\ "renew" \in thread[r]
    /\ thread' = [thread EXCEPT ![r] = @ \ {"renew"}]
    /\ \/ /\ Active(r)
          /\ job' = [job EXCEPT ![run[r].key].status = "running",
                                ![run[r].key].expired = FALSE, ![run[r].key].exam = None]
          /\ UNCHANGED pc
       \/ /\ ~Active(r)
          /\ pc' = [pc EXCEPT ![r] = IF @ \in Working THEN "finally" ELSE @]
          /\ UNCHANGED job
    /\ UNCHANGED <<ended, exams, started, run, settler>>

TakeSlot(r) ==
    /\ pc[r] = "waiting"
    /\ Cardinality({q \in Runs : pc[q] = "planning"}) < Slots
    /\ pc' = [pc EXCEPT ![r] = "planning"]
    /\ UNCHANGED <<job, ended, exams, started, run, thread, settler>>

\* The lease ends with a renewal of its own; a renewal in a thread may still
\* be to come.
PlanDone(r) ==
    /\ pc[r] = "planning"
    /\ IF Active(r)
       THEN /\ job' = [job EXCEPT ![run[r].key].expired = FALSE]
            /\ pc' = [pc EXCEPT ![r] = "write"]
            /\ thread' = [thread EXCEPT ![r] = @ \cup {"write"}]
       ELSE /\ pc' = [pc EXCEPT ![r] = "finally"]
            /\ UNCHANGED <<job, thread>>
    /\ UNCHANGED <<ended, exams, started, run, settler>>

\* The sources, the quota, the provider or the validation fail.
PlanFails(r) ==
    /\ pc[r] = "planning"
    /\ pc' = [pc EXCEPT ![r] = "finally"]
    /\ UNCHANGED <<job, ended, exams, started, run, thread, settler>>

WriteExam(r) ==
    /\ "write" \in thread[r]
    /\ exams' = exams \cup {r}
    /\ thread' = [thread EXCEPT ![r] = (@ \ {"write"}) \cup IF pc[r] = "write" THEN {"complete"} ELSE {}]
    /\ pc' = [pc EXCEPT ![r] = IF @ = "write" THEN "complete" ELSE @]
    /\ UNCHANGED <<job, ended, started, run, settler>>

\* Mutant: the call is repeated until the record is the run's own.
CompleteWhenActive(r) ==
    /\ "complete" \in thread[r]
    /\ Active(r) /\ Settle(r, "completed", r)
    /\ thread' = [thread EXCEPT ![r] = @ \ {"complete"}]
    /\ pc' = [pc EXCEPT ![r] = IF @ = "complete" THEN "finally" ELSE @]
    /\ UNCHANGED <<exams, started, run>>

Complete(r) ==
    /\ "complete" \in thread[r]
    /\ thread' = [thread EXCEPT ![r] = @ \ {"complete"}]
    /\ \/ Active(r) /\ Settle(r, "completed", r)
       \/ ~Active(r) /\ UNCHANGED <<job, ended, settler>>
    /\ pc' = [pc EXCEPT ![r] = IF @ = "complete" THEN "finally" ELSE @]
    /\ UNCHANGED <<exams, started, run>>

\* The event loop shuts down and cancels the run, not its threads.
Cancel(r) ==
    /\ pc[r] \in Working \cup {"write", "complete"}
    /\ pc' = [pc EXCEPT ![r] = "finally"]
    /\ UNCHANGED <<job, ended, exams, started, run, thread, settler>>

\* The finally reads the record, without comparing the generation ...
ReadRecord(r) ==
    /\ pc[r] = "finally"
    /\ LET current == job[run[r].key] IN
       pc' = [pc EXCEPT ![r] =
           IF current # None /\ current.status = "running" /\ current.attempt = run[r].attempt
           THEN "failing" ELSE "over"]
    /\ UNCHANGED <<job, ended, exams, started, run, thread, settler>>

\* ... and fails it in a second call, which does.
FailRecord(r) ==
    /\ pc[r] = "failing"
    /\ \/ Active(r) /\ Settle(r, "failed", None)
       \/ ~Active(r) /\ UNCHANGED <<job, ended, settler>>
    /\ pc' = [pc EXCEPT ![r] = "over"]
    /\ UNCHANGED <<exams, started, run, thread>>

\* The process dies and comes back without its tasks and threads.
Crash ==
    /\ \E r \in Runs : Alive(r)
    /\ pc' = [r \in Runs |-> IF Alive(r) THEN "dead" ELSE pc[r]]
    /\ thread' = [r \in Runs |-> {}]
    /\ UNCHANGED <<job, ended, exams, started, run, settler>>

----------------------------------------------------------------------------
Init ==
    /\ job = [k \in Keys |-> None]
    /\ ended = <<>> /\ exams = {} /\ started = 0
    /\ run = [r \in Runs |-> None]
    /\ pc = [r \in Runs |-> "idle"]
    /\ thread = [r \in Runs |-> {}]
    /\ settler = [k \in Keys |-> None]

RunStep(r) ==
    \/ AskRenewal(r) \/ Renew(r) \/ TakeSlot(r) \/ PlanDone(r) \/ PlanFails(r)
    \/ WriteExam(r) \/ Complete(r) \/ ReadRecord(r) \/ FailRecord(r)

Next ==
    \/ \E k \in Keys : Expire(k) \/ Begin(k)
    \/ \E r \in 1..started : RunStep(r) \/ Cancel(r)
    \/ Crash

Spec == Init /\ [][Next]_vars

\* Planning ends by the deadline, threads and tasks that can run do, and the
\* slots are granted in order.
Fairness ==
    /\ \A r \in Runs :
          /\ SF_vars(TakeSlot(r))
          /\ WF_vars(Renew(r)) /\ WF_vars(PlanDone(r) \/ PlanFails(r))
          /\ WF_vars(WriteExam(r)) /\ WF_vars(Complete(r))
          /\ WF_vars(ReadRecord(r)) /\ WF_vars(FailRecord(r))
FairSpec == Spec /\ Fairness

----------------------------------------------------------------------------
\* Records, runs and threads have their types, and the list of ended records
\* names exactly the records with a terminal status, once each.
TypeOK ==
    /\ job \in [Keys -> Records \cup {None}]
    /\ ended \in Seq(Keys)
    /\ ToSet(ended) = {k \in Keys : IsTerminal(k)}
    /\ IsInjective(ended)
    /\ started \in 0..MaxRuns
    /\ exams \subseteq 1..started
    /\ run \in [Runs -> Owners \cup {None}]
    /\ \A r \in 1..started : run[r] # None
    /\ pc \in [Runs -> {"idle", "waiting", "planning", "write", "complete", "finally", "failing",
                        "over", "dead"}]
    /\ thread \in [Runs -> SUBSET Threads]
    /\ settler \in [Keys -> Runs \cup {None}]

\* A record is ended only by the run that owns it, whichever older runs of
\* the key are still at work, and a record that a key lost to pruning is not
\* taken for the one it has now.
EndedByItsOwner ==
    \A k \in Keys : IsTerminal(k) => run[settler[k]].key = k /\ Owns(settler[k])

\* A completed record names an exam that its own run wrote before, so that a
\* repeated request can always be answered with it.
CompletedHasItsExam ==
    \A k \in Keys : job[k] # None /\ job[k].status = "completed" =>
        job[k].exam = settler[k] /\ job[k].exam \in exams

\* What a client was told about a generation that ended stays true: its
\* record is only ever pruned, and only behind MaxTerminal newer ones.
ResultStays(k) ==
    \/ job'[k] = job[k]
    \/ /\ job'[k] = None
       /\ Cardinality({i \in 1..Len(ended') : ended'[i] # k}) >= MaxTerminal
       /\ \A i, j \in 1..Len(ended) : ended[i] = k /\ ended[j] \in ToSet(ended') => i < j
ResultsAreFinal == [][\A k \in Keys : IsTerminal(k) => ResultStays(k)]_vars

\* A run that was not killed leaves no record running behind it: a retry
\* with the key never has to wait for a lease nobody holds.
NoRecordIsAbandoned == \A r \in 1..started : pc[r] = "over" => ~Active(r)

\* The attempts of a record and of the runs that held it go up.
AttemptsRise ==
    /\ \A k \in Keys : job[k] # None => job[k].generation + job[k].attempt <= started + 1
    /\ \A r \in 1..started :
          /\ run[r].generation <= started
          /\ LET record == job[run[r].key] IN
             record # None /\ record.generation = run[r].generation =>
                 run[r].attempt <= record.attempt

\* Why all of this holds: the run that ended a record has begun, a run that
\* goes on to complete its record has written its exam.
Inv ==
    /\ TypeOK /\ EndedByItsOwner /\ CompletedHasItsExam /\ NoRecordIsAbandoned
    /\ AttemptsRise
    /\ \A k \in Keys : settler[k] # None => settler[k] \in 1..started
    /\ \A k \in Keys : IsTerminal(k) => settler[k] # None
    /\ \A r \in Runs : "complete" \in thread[r] => r \in exams

\* Every run ends, whatever becomes of its lease.
RunsEnd ==
    \A r \in Runs : pc[r] = "waiting" ~> pc[r] \in {"over", "dead"}

============================================================================
