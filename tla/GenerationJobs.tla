-------------------------- MODULE GenerationJobs --------------------------
(***************************************************************************)
(* Background canvas generation for one lecture.  An HTTP request claims a *)
(* durable record under its idempotency key, cancels the task that works   *)
(* for the lecture, waits for that to end and starts a task of its own.    *)
(* The task waits for a slot, has a thread parse the sources and take      *)
(* ownership of the lecture's draft, authors, and has a thread write the   *)
(* draft; a heartbeat renews the lease of its record meanwhile.            *)
(*                                                                         *)
(* Tasks and requests share one event loop: a step here is what runs       *)
(* between two awaits.  A cancelled task stops waiting for its thread, but *)
(* nothing stops the thread.  Records, ownership and draft survive a crash *)
(* of the process, everything else is lost with it.                        *)
(***************************************************************************)
EXTENDS Naturals, FiniteSets

CONSTANTS
    Keys,         \* idempotency keys, each of one user, used for the lecture
    Runs,         \* bound: claims of a record (generation id and attempt)
    None,         \* no claim
    Slots,        \* BACKGROUND_GENERATION_SLOTS
    Retained,     \* MAX_TERMINAL_GENERATION_RECORDS
    MaxRevisions, \* bound: revisions of the sources and of the design
    MaxFaults     \* bound: crashes, cancelled requests and failing store calls

ASSUME GenerationAssumption ==
    /\ None \notin Runs
    /\ Slots \in Nat \ {0}
    /\ Retained \in Nat \ {0}
    /\ MaxRevisions \in Nat
    /\ MaxFaults \in Nat

VARIABLES
    status,     \* status[k]: status of the record of key k, "none" if no record
    run,        \* run[k]: the claim the record belongs to
    lapsed,     \* lapsed[k]: the lease has not been renewed in time
    key,        \* key[r]: the key of claim r
    gen,        \* gen[r]: the first claim of r's record (its generation_id)
    stage,      \* stage[r]: what the request, then the task of r is at
    awaits,     \* awaits[r]: the superseded task the request of r waits for
    outcome,    \* outcome[r]: how the task of r is about to end
    thread,     \* thread[r]: what a worker thread still does for r
    call,       \* call[r]: a store call for r still in the thread pool
    task,       \* task[g]: the task registered last under generation g
    lectureTask, \* the task registered last for the lecture
    beats,      \* tasks whose heartbeat has not raised
    polling,    \* keys whose duplicate request polls the record
    cancelling, \* generations whose record was cancelled, not yet their task
    owner,      \* claim named by the ownership file
    revoked,    \* the owner's token has been replaced
    sequence,   \* sequence number of the ownership file
    seq,        \* seq[r]: the sequence r owned with, 0 if it never did
    source,     \* revision of the lecture's sources
    design,     \* revision of the practice design
    approved,   \* the source revision the approved design is for
    bound,      \* bound[r]: the source and design revision r works for
    draft,      \* claim that wrote the draft
    faults

record == <<status, run, lapsed>>
request == <<key, gen, awaits>>
registry == <<task, lectureTask>>
ownership == <<owner, revoked, sequence, seq>>
course == <<source, design, approved>>
vars == <<status, run, lapsed, key, gen, awaits, polling, cancelling, stage, outcome,
          thread, call, task, lectureTask, beats, owner, revoked, sequence, seq, source,
          design, approved, bound, draft, faults>>

-----------------------------------------------------------------------------
Terminal  == {"completed", "failed", "cancelled"}
Statuses  == {"none", "running"} \cup Terminal
InSlot    == {"preparing", "authoring", "saving", "writing", "written"}
Working   == {"queued"} \cup InSlot
Storing   == {"failing", "interrupting", "completing"}
Active    == {"created", "closing"} \cup Working \cup Storing
Ended     == {"done", "raised", "stopped"}
Claimed   == {"claimed", "waiting"}
Stages    == {"unused", "lost", "crashed"} \cup Claimed \cup Active \cup Ended

Beating == {"queued", "failing", "interrupting"} \cup InSlot

IsActive(r) == r \in Runs /\ stage[r] \in Active
\* Mutant of Current that does not compare the attempt.
CurrentAnyAttempt(r) == key[r] # None /\ status[key[r]] = "running"

\* Mutant of Current that does not look at the status.
CurrentAnyStatus(r) == key[r] # None /\ run[key[r]] = r

Current(r) == key[r] # None /\ run[key[r]] = r /\ status[key[r]] = "running"
Owns(r) == owner = r /\ ~revoked

\* require_approved: the design is approved for these sources.
Approved(s, d) == approved = s /\ design = d

Fault == faults < MaxFaults /\ faults' = faults + 1

\* Where task.cancel() leaves the task of r: before its first step its body
\* never runs; the await of its heartbeat swallows the cancellation; nothing
\* handles one that arrives in the last call to the store.
CancelledStage(r) ==
    IF stage[r] \in {"created", "completing"} THEN "stopped"
    ELSE IF stage[r] \in Working THEN "interrupting"
    ELSE IF stage[r] \in {"failing", "interrupting"} THEN "closing"
    ELSE stage[r]
CancelledCall(r) == IF stage[r] \in Working THEN "interrupt" ELSE call[r]
CancelledOutcome(r) ==
    IF stage[r] \in Working \cup {"failing", "interrupting"} THEN "stopped" ELSE outcome[r]

\* The task of s is cancelled.
Cancelled(s) ==
    /\ stage' = [stage EXCEPT ![s] = CancelledStage(s)]
    /\ call' = [call EXCEPT ![s] = CancelledCall(s)]
    /\ outcome' = [outcome EXCEPT ![s] = CancelledOutcome(s)]

Moves(r, to) == stage' = [stage EXCEPT ![r] = to]

Init ==
    /\ status = [k \in Keys |-> "none"]
    /\ run = [k \in Keys |-> None]
    /\ lapsed = [k \in Keys |-> FALSE]
    /\ key = [r \in Runs |-> None]
    /\ gen = [r \in Runs |-> None]
    /\ stage = [r \in Runs |-> "unused"]
    /\ awaits = [r \in Runs |-> None]
    /\ outcome = [r \in Runs |-> "none"]
    /\ thread = [r \in Runs |-> "none"]
    /\ call = [r \in Runs |-> "none"]
    /\ task = [r \in Runs |-> None]
    /\ lectureTask = None
    /\ beats = {}
    /\ polling = {}
    /\ cancelling = {}
    /\ owner = None
    /\ revoked = FALSE
    /\ sequence = 0
    /\ seq = [r \in Runs |-> 0]
    /\ source = 0
    /\ design = 0
    /\ approved = 0
    /\ bound = [r \in Runs |-> <<0, 0>>]
    /\ draft = None
    /\ faults = 0

-----------------------------------------------------------------------------
(* The store of records; every operation runs under its lock.              *)

\* begin: a new record, or the next attempt of one whose lease lapsed.
Begun(k, r) ==
    /\ stage[r] = "unused"
    /\ status[k] = "none" \/ (status[k] = "running" /\ lapsed[k])
    /\ status' = [status EXCEPT ![k] = "running"]
    /\ run' = [run EXCEPT ![k] = r]
    /\ lapsed' = [lapsed EXCEPT ![k] = FALSE]
    /\ key' = [key EXCEPT ![r] = k]
    /\ gen' = [gen EXCEPT ![r] = IF status[k] = "none" THEN r ELSE gen[run[k]]]

\* _prune_terminal_records: finished records beyond the newest Retained go,
\* except those whose file cannot be removed.
Surplus(k) ==
    LET others == {q \in Keys \ {k} : status[q] \in Terminal} IN
    {gone \in SUBSET others : gone = {} \/ Cardinality(others \ gone) >= Retained - 1}

\* _finish: the record of k ends.
Finish(k, how) ==
    \E gone \in Surplus(k) :
       /\ status' = [q \in Keys |-> IF q = k THEN how
                                     ELSE IF q \in gone THEN "none" ELSE status[q]]
       /\ run' = [q \in Keys |-> IF q \in gone THEN None ELSE run[q]]
       /\ lapsed' = [lapsed EXCEPT ![k] = FALSE]

\* Nobody renewed the lease in time: there is no task left to do it, or the
\* event loop or the thread pool is held up for long.
Lapse(k) ==
    /\ status[k] = "running" /\ ~lapsed[k]
    /\ lapsed' = [lapsed EXCEPT ![k] = TRUE]
    /\ IF stage[run[k]] \in Claimed \cup Active THEN Fault ELSE UNCHANGED faults
    /\ UNCHANGED <<status, run, request, polling, cancelling, stage, outcome, thread, call,
                   registry, beats, ownership, course, bound, draft>>

-----------------------------------------------------------------------------
(* Requests for a generation.                                              *)

\* create_task and its registration.
Creates(r, g) ==
    /\ stage' = [stage EXCEPT ![r] = "created"]
    /\ task' = [task EXCEPT ![g] = r]
    /\ lectureTask' = r
    /\ awaits' = [awaits EXCEPT ![r] = None]
    /\ UNCHANGED <<outcome, call>>

\* The lecture's task is cancelled, and the request waits for it to end.
Supersedes(r) ==
    LET s == lectureTask IN
    /\ stage' = [stage EXCEPT ![s] = CancelledStage(s), ![r] = "waiting"]
    /\ call' = [call EXCEPT ![s] = CancelledCall(s)]
    /\ outcome' = [outcome EXCEPT ![s] = CancelledOutcome(s)]
    /\ awaits' = [awaits EXCEPT ![r] = s]
    /\ UNCHANGED registry

Dispatch(r, g) == IF IsActive(lectureTask) THEN Supersedes(r) ELSE Creates(r, g)

\* A request claims the record and goes on to its task without an await.
Claim(k, r) ==
    /\ Begun(k, r)
    /\ Dispatch(r, gen'[r])
    /\ UNCHANGED <<polling, cancelling, thread, beats, ownership, course, bound, draft, faults>>

\* A duplicate of a running request finds no task to wait for, and polls.
StartPolling(k) ==
    /\ status[k] = "running" /\ ~lapsed[k]
    /\ ~IsActive(task[gen[run[k]]])
    /\ polling' = polling \cup {k}
    /\ UNCHANGED <<record, request, cancelling, stage, outcome, thread, call, registry, beats,
                   ownership, course, bound, draft, faults>>

\* A poll claims the record in a thread; the request goes on later.
PollClaim(k, r) ==
    /\ k \in polling
    /\ Begun(k, r)
    /\ Moves(r, "claimed")
    /\ polling' = polling \ {k}
    /\ UNCHANGED <<awaits, cancelling, outcome, thread, call, registry, beats, ownership,
                   course, bound, draft, faults>>

PollAnswered(k) ==
    /\ k \in polling
    /\ status[k] \in Terminal
    /\ polling' = polling \ {k}
    /\ UNCHANGED <<record, request, cancelling, stage, outcome, thread, call, registry, beats,
                   ownership, course, bound, draft, faults>>

\* The request takes the claim of its poll, or its superseded task has ended.
Proceed(r) ==
    /\ \/ stage[r] = "claimed" /\ Dispatch(r, gen[r])
       \/ /\ stage[r] = "waiting" /\ stage[awaits[r]] \in {"done", "stopped"}
          /\ Creates(r, gen[r])
    /\ UNCHANGED <<record, key, gen, polling, cancelling, thread, beats, ownership, course,
                   bound, draft, faults>>

\* The superseded task ends with an error of its own, which ends the request.
SupersededRaised(r) ==
    /\ stage[r] = "waiting" /\ stage[awaits[r]] = "raised"
    /\ Moves(r, "lost")
    /\ awaits' = [awaits EXCEPT ![r] = None]
    /\ UNCHANGED <<record, key, gen, polling, cancelling, outcome, thread, call, registry, beats,
                   ownership, course, bound, draft, faults>>

\* The request is cancelled before it takes the claim of its poll.
RequestCancelled(r) ==
    /\ stage[r] = "claimed"
    /\ Fault
    /\ Moves(r, "lost")
    /\ UNCHANGED <<record, request, polling, cancelling, outcome, thread, call, registry, beats,
                   ownership, course, bound, draft>>

\* Cancelling a request that waits for a superseded task cancels that task
\* once more; the request itself goes on.
WaiterCancelled(r) ==
    /\ stage[r] = "waiting" /\ IsActive(awaits[r])
    /\ Fault
    /\ Cancelled(awaits[r])
    /\ UNCHANGED <<record, request, polling, cancelling, thread, registry, beats, ownership,
                   course, bound, draft>>

-----------------------------------------------------------------------------
(* Cancelling a generation: its record under the course lock, then the     *)
(* task, if the process has one.                                           *)

CancelRecord(k) ==
    /\ status[k] = "running"
    /\ Finish(k, "cancelled")
    /\ revoked' = (revoked \/ owner = run[k])
    /\ cancelling' = cancelling \cup {gen[run[k]]}
    /\ UNCHANGED <<request, polling, stage, outcome, thread, call, registry, beats, owner,
                   sequence, seq, course, bound, draft, faults>>

CancelTask(g) ==
    /\ g \in cancelling
    /\ cancelling' = cancelling \ {g}
    /\ IF IsActive(task[g]) THEN Cancelled(task[g]) ELSE UNCHANGED <<stage, call, outcome>>
    /\ UNCHANGED <<record, request, polling, thread, registry, beats, ownership, course, bound,
                   draft, faults>>

-----------------------------------------------------------------------------
(* The task of a claim.                                                    *)

TaskOnly == UNCHANGED <<record, request, polling, cancelling, registry, ownership, course,
                        draft, faults>>

\* The first step of the task starts its heartbeat.
Begin(r) ==
    /\ stage[r] = "created"
    /\ Moves(r, "queued")
    /\ beats' = beats \cup {r}
    /\ UNCHANGED <<outcome, thread, call, bound>> /\ TaskOnly

\* A slot is free: a thread starts to parse the sources.
Start(r) ==
    /\ stage[r] = "queued"
    /\ Cardinality({q \in Runs : stage[q] \in InSlot}) < Slots
    /\ Moves(r, "preparing")
    /\ thread' = [thread EXCEPT ![r] = "prepare"]
    /\ UNCHANGED <<outcome, call, beats, bound>> /\ TaskOnly

\* begin_owned_generation_source: the thread has parsed, the sources have an
\* approved design, and the claim becomes the owner of the draft.
TakeOwnership(r) ==
    /\ thread[r] = "prepare"
    /\ approved = source
    /\ owner' = r
    /\ revoked' = FALSE
    /\ sequence' = sequence + 1
    /\ seq' = [seq EXCEPT ![r] = sequence']
    /\ bound' = [bound EXCEPT ![r] = <<source, design>>]
    /\ thread' = [thread EXCEPT ![r] = "none"]
    /\ Moves(r, IF stage[r] = "preparing" THEN "authoring" ELSE stage[r])
    /\ UNCHANGED <<record, request, polling, cancelling, outcome, call, registry, beats, course,
                   draft, faults>>

\* Authoring hands a blocking operation to a thread.
Hands(r, waiting, work) ==
    /\ stage[r] = "authoring"
    /\ Moves(r, waiting)
    /\ thread' = [thread EXCEPT ![r] = work]
    /\ UNCHANGED <<outcome, call, beats, bound>> /\ TaskOnly

StartSave(r) == design < MaxRevisions /\ Hands(r, "saving", "save")
StartWrite(r) == Hands(r, "writing", "write")

\* Mutant of SaveImplementation that does not check the ownership.
SaveOvertaken(r) ==
    /\ thread[r] = "save"
    /\ bound[r] = <<source, design>>
    /\ design < MaxRevisions
    /\ design' = design + 1
    /\ bound' = [bound EXCEPT ![r] = <<source, design'>>]
    /\ thread' = [thread EXCEPT ![r] = "none"]
    /\ Moves(r, IF stage[r] = "saving" THEN "authoring" ELSE stage[r])
    /\ UNCHANGED <<record, request, polling, cancelling, outcome, call, registry, beats,
                   ownership, source, approved, draft, faults>>

\* save_implementation and replace_generation_design, under the course lock.
SaveImplementation(r) ==
    /\ thread[r] = "save"
    /\ Owns(r)
    /\ bound[r] = <<source, design>>
    /\ design < MaxRevisions
    /\ design' = design + 1
    /\ bound' = [bound EXCEPT ![r] = <<source, design'>>]
    /\ thread' = [thread EXCEPT ![r] = "none"]
    /\ Moves(r, IF stage[r] = "saving" THEN "authoring" ELSE stage[r])
    /\ UNCHANGED <<record, request, polling, cancelling, outcome, call, registry, beats,
                   ownership, source, approved, draft, faults>>

\* Mutant of WriteDraft that does not check the ownership.
WriteUnfenced(r) ==
    /\ thread[r] = "write"
    /\ bound[r][1] = source
    /\ Approved(bound[r][1], bound[r][2])
    /\ draft' = r
    /\ thread' = [thread EXCEPT ![r] = "none"]
    /\ Moves(r, IF stage[r] = "writing" THEN "written" ELSE stage[r])
    /\ UNCHANGED <<record, request, polling, cancelling, outcome, call, registry, beats,
                   ownership, course, bound, faults>>

\* Mutant of WriteDraft that does not compare its inputs with the course.
WriteStale(r) ==
    /\ thread[r] = "write"
    /\ Owns(r)
    /\ draft' = r
    /\ thread' = [thread EXCEPT ![r] = "none"]
    /\ Moves(r, IF stage[r] = "writing" THEN "written" ELSE stage[r])
    /\ UNCHANGED <<record, request, polling, cancelling, outcome, call, registry, beats,
                   ownership, course, bound, faults>>

\* write_current_draft, under the course lock.
WriteDraft(r) ==
    /\ thread[r] = "write"
    /\ bound[r][1] = source
    /\ Owns(r)
    /\ Approved(bound[r][1], bound[r][2])
    /\ draft' = r
    /\ thread' = [thread EXCEPT ![r] = "none"]
    /\ Moves(r, IF stage[r] = "writing" THEN "written" ELSE stage[r])
    /\ UNCHANGED <<record, request, polling, cancelling, outcome, call, registry, beats,
                   ownership, course, bound, faults>>

\* An exception of the work sends the task to its handler, which fails the
\* record in a thread.
Handles(r) ==
    /\ Moves(r, "failing")
    /\ call' = [call EXCEPT ![r] = "fail"]

\* The thread's operation raises: unreadable or changed sources, no approved
\* design, ownership lost.
ThreadRaises(r) ==
    /\ thread[r] # "none"
    /\ thread' = [thread EXCEPT ![r] = "none"]
    /\ IF stage[r] \in {"preparing", "saving", "writing"}
       THEN Handles(r) ELSE UNCHANGED <<stage, call>>
    /\ UNCHANGED <<outcome, beats, bound>> /\ TaskOnly

\* The model or a check of authoring fails, or the note kept after the draft.
WorkRaises(r) ==
    /\ stage[r] \in {"authoring", "written"}
    /\ Handles(r)
    /\ UNCHANGED <<outcome, thread, beats, bound>> /\ TaskOnly

Return(r) ==
    /\ stage[r] = "written"
    /\ Moves(r, "closing")
    /\ outcome' = [outcome EXCEPT ![r] = "done"]
    /\ UNCHANGED <<thread, call, beats, bound>> /\ TaskOnly

\* The heartbeat has ended; a canvas remains to be stored.
Close(r) ==
    /\ stage[r] = "closing"
    /\ IF outcome[r] = "done"
       THEN Moves(r, "completing") /\ call' = [call EXCEPT ![r] = "complete"]
       ELSE Moves(r, outcome[r]) /\ UNCHANGED call
    /\ outcome' = [outcome EXCEPT ![r] = "none"]
    /\ beats' = beats \ {r}
    /\ UNCHANGED <<thread, bound>> /\ TaskOnly

\* What the end of its store call makes of a task that waits for it.
Returned(r, how) ==
    /\ call' = [call EXCEPT ![r] = "none"]
    /\ Moves(r, IF stage[r] = "completing" THEN how
                ELSE IF stage[r] \in {"failing", "interrupting"} THEN "closing"
                ELSE stage[r])
    /\ outcome' = [outcome EXCEPT ![r] = IF stage[r] \in {"failing", "interrupting"}
                                         THEN how ELSE outcome[r]]

\* Mutant of StoreCall whose task never hears that its attempt is over.
StoreCallSilent(r) ==
    /\ call[r] # "none"
    /\ Current(r)
    /\ Returned(r, IF call[r] = "interrupt" THEN "stopped"
                   ELSE IF call[r] = "complete" THEN "done" ELSE "raised")
    /\ Finish(key[r], IF call[r] = "complete" THEN "completed" ELSE "failed")
    /\ UNCHANGED <<request, polling, cancelling, thread, registry, beats, ownership, course,
                   bound, draft, faults>>

\* complete and fail: only the current attempt of a running record ends it.
StoreCall(r) ==
    LET done == call[r] = "complete"
        how  == IF call[r] = "interrupt" THEN "stopped"
                ELSE IF done /\ Current(r) THEN "done" ELSE "raised" IN
    /\ call[r] # "none"
    /\ Returned(r, how)
    /\ IF Current(r) THEN Finish(key[r], IF done THEN "completed" ELSE "failed")
       ELSE UNCHANGED record
    /\ UNCHANGED <<request, polling, cancelling, thread, registry, beats, ownership, course,
                   bound, draft, faults>>

\* The record cannot be written.
StoreCallFails(r) ==
    /\ call[r] # "none"
    /\ Fault
    /\ Returned(r, "raised")
    /\ UNCHANGED <<record, request, polling, cancelling, thread, registry, beats, ownership,
                   course, bound, draft>>

\* A call still queued in the pool goes with its cancelled task, unless shielded.
CallDropped(r) ==
    /\ call[r] \in {"fail", "complete"}
    /\ stage[r] \notin Storing
    /\ call' = [call EXCEPT ![r] = "none"]
    /\ UNCHANGED <<stage, outcome, thread, beats, bound>> /\ TaskOnly

\* touch: a heartbeat in time renews the lease.
Touch(r) ==
    /\ r \in beats /\ stage[r] \in Beating
    /\ Current(r) /\ lapsed[key[r]]
    /\ lapsed' = [lapsed EXCEPT ![key[r]] = FALSE]
    /\ UNCHANGED <<status, run, request, polling, cancelling, stage, outcome, thread, call,
                   registry, beats, ownership, course, bound, draft, faults>>

\* touch raises: the record is no longer this attempt's.  The task is cancelled.
HeartbeatRaises(r) ==
    /\ r \in beats /\ stage[r] \in Beating
    /\ ~Current(r)
    /\ beats' = beats \ {r}
    /\ Cancelled(r)
    /\ UNCHANGED <<thread, bound>> /\ TaskOnly

-----------------------------------------------------------------------------
(* The course changes, and the process dies.                               *)

EditSources ==
    /\ source < MaxRevisions
    /\ source' = source + 1
    /\ UNCHANGED <<record, request, polling, cancelling, stage, outcome, thread, call, registry,
                   beats, ownership, design, approved, bound, draft, faults>>

ApproveDesign ==
    /\ design < MaxRevisions
    /\ design' = design + 1
    /\ approved' = source
    /\ UNCHANGED <<record, request, polling, cancelling, stage, outcome, thread, call, registry,
                   beats, ownership, source, bound, draft, faults>>

Crash ==
    /\ Fault
    /\ stage' = [r \in Runs |-> IF stage[r] \in Active \cup Claimed THEN "crashed" ELSE stage[r]]
    /\ outcome' = [r \in Runs |-> "none"]
    /\ thread' = [r \in Runs |-> "none"]
    /\ call' = [r \in Runs |-> "none"]
    /\ awaits' = [r \in Runs |-> None]
    /\ task' = [r \in Runs |-> None]
    /\ lectureTask' = None
    /\ beats' = {}
    /\ polling' = {}
    /\ cancelling' = {}
    /\ UNCHANGED <<record, key, gen, ownership, course, bound, draft>>

-----------------------------------------------------------------------------
Request(k) ==
    \/ StartPolling(k) \/ PollAnswered(k) \/ CancelRecord(k) \/ Lapse(k)
    \/ \E r \in Runs : Claim(k, r) \/ PollClaim(k, r)

Handle(r) ==
    \/ Proceed(r) \/ SupersededRaised(r) \/ CancelTask(r)

Work(r) ==
    \/ Begin(r) \/ Start(r) \/ TakeOwnership(r) \/ StartSave(r) \/ SaveImplementation(r)
    \/ StartWrite(r) \/ WriteDraft(r) \/ ThreadRaises(r) \/ WorkRaises(r) \/ Return(r)
    \/ Close(r) \/ StoreCall(r) \/ CallDropped(r) \/ Touch(r) \/ HeartbeatRaises(r)

Fails(r) == RequestCancelled(r) \/ WaiterCancelled(r) \/ StoreCallFails(r)

Next ==
    \/ \E k \in Keys : Request(k)
    \/ \E r \in Runs : Handle(r) \/ Work(r) \/ Fails(r)
    \/ EditSources \/ ApproveDesign \/ Crash

Spec == Init /\ [][Next]_vars

\* The event loop and the thread pool run what they were given, and time
\* passes for a record nobody works for.
Advance(r) ==
    \/ Proceed(r) \/ SupersededRaised(r) \/ Begin(r) \/ Start(r) \/ TakeOwnership(r)
    \/ StartSave(r) \/ SaveImplementation(r) \/ StartWrite(r) \/ WriteDraft(r)
    \/ ThreadRaises(r) \/ WorkRaises(r) \/ Return(r) \/ Close(r) \/ StoreCall(r)
Abandoned(k) == status[k] = "running" /\ stage[run[k]] \notin Claimed \cup Active
Fairness ==
    /\ \A r \in Runs : WF_vars(Advance(r))
    /\ \A k \in Keys : /\ WF_vars(Abandoned(k) /\ Lapse(k))
                       /\ WF_vars(PollAnswered(k) \/ \E r \in Runs : PollClaim(k, r))
FairSpec == Spec /\ Fairness

-----------------------------------------------------------------------------
(* Properties.                                                             *)

TypeOK ==
    /\ status \in [Keys -> Statuses]
    /\ run \in [Keys -> Runs \cup {None}]
    /\ lapsed \in [Keys -> BOOLEAN]
    /\ key \in [Runs -> Keys \cup {None}]
    /\ gen \in [Runs -> Runs \cup {None}]
    /\ stage \in [Runs -> Stages]
    /\ awaits \in [Runs -> Runs \cup {None}]
    /\ outcome \in [Runs -> {"none"} \cup Ended]
    /\ thread \in [Runs -> {"none", "prepare", "save", "write"}]
    /\ call \in [Runs -> {"none", "fail", "interrupt", "complete"}]
    /\ task \in [Runs -> Runs \cup {None}]
    /\ lectureTask \in Runs \cup {None}
    /\ beats \in SUBSET Runs
    /\ polling \in SUBSET Keys
    /\ cancelling \in SUBSET Runs
    /\ owner \in Runs \cup {None}
    /\ revoked \in BOOLEAN
    /\ sequence \in Nat
    /\ seq \in [Runs -> 0 .. sequence]
    /\ source \in 0 .. MaxRevisions
    /\ design \in 0 .. MaxRevisions
    /\ approved \in 0 .. source
    /\ bound \in [Runs -> (0 .. source) \X (0 .. design)]
    /\ draft \in Runs \cup {None}
    /\ faults \in 0 .. MaxFaults

\* A generation that was overtaken never replaces the draft of its successor,
\* whatever its threads still do: drafts change in the order of ownership.
DraftsInOrder ==
    [][draft' # draft /\ draft # None => seq[draft'] > seq[draft]]_vars

\* A record reports a canvas only if its attempt wrote the draft, and nothing
\* but a later owner has replaced it since.
CompletedHasDraft ==
    \A k \in Keys : status[k] = "completed" =>
        draft = run[k] \/ (draft # None /\ seq[draft] > seq[run[k]] /\ seq[run[k]] > 0)

\* A record that ended keeps its outcome and its attempt until it is pruned:
\* late answers of superseded or reclaimed attempts change nothing.
EndedStays ==
    [][\A k \in Keys : status[k] \in Terminal =>
          \/ UNCHANGED <<status[k], run[k]>>
          \/ status'[k] = "none"]_vars

\* While a generation owns the draft, only the professor's approval and new
\* sources make the design it works for stale: a generation that was overtaken
\* does not replace the teaching implementation under its successor.
OwnerStaysBound ==
    [][\A r \in Runs :
          Owns(r) /\ Owns(r)' /\ bound[r] = <<source, design>>
          => bound'[r] = <<source, design>>' \/ EditSources \/ ApproveDesign]_vars

\* A generation that was cancelled while it owned the draft is out: it neither
\* writes the draft nor gets its ownership back.
RevokedStaysOut ==
    [][\A r \in Runs : owner = r /\ revoked => ~Owns(r)' /\ (draft' = draft \/ draft' # r)]_vars

\* What a record reports is so (complete in course_canvas_generation_jobs.py).
RecordsAreTrue == TypeOK /\ CompletedHasDraft

\* The draft belongs to one generation (course_canvas_generation_ownership.py):
\* the owner stays bound to its inputs, and one that was cancelled stays out.
OwnershipHolds == OwnerStaysBound /\ RevokedStaysOut

\* Threads that outlive their tasks, cancelled and reclaimed attempts and
\* crashes do not show: the lecture has one draft with fenced owners, written
\* from approved inputs, and a canvas is reported only if it was written.
Reported == {run[k] : k \in {q \in Keys : status[q] = "completed"}}
Register == INSTANCE DraftRegister WITH
    Generations <- Runs, turn <- seq, fenced <- revoked, inputs <- <<source, design>>,
    approval <- (approved = source), basis <- bound, reported <- Reported
ImplementsRegister == Register!Spec

\* A generation whose record was cancelled does not take over the draft.
CancelledIsFenced ==
    [][\A k \in Keys : status[k] = "cancelled" /\ owner' # owner => owner' # run[k]]_vars

\* No request leaves a running record whose claim it never turned into a task.
NoClaimIsLost ==
    \A k \in Keys : status[k] = "running" => stage[run[k]] # "lost"

\* Every task ends: it gets a slot, and whatever is cancelled, fails or lapses
\* lets go of it.
TaskEnds == \A r \in Runs : IsActive(r) ~> ~IsActive(r)

\* A duplicate request that polls a record does not poll for ever, even if the
\* attempt it waits for is gone.
DuplicateIsAnswered == \A k \in Keys : k \in polling ~> k \notin polling

\* Source parsing stays within the slots.
ParsingWithinSlots ==
    Cardinality({r \in Runs : thread[r] = "prepare"}) <= Slots
============================================================================
