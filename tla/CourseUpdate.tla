--------------------------- MODULE CourseUpdate ---------------------------
(***************************************************************************)
(* The staged course update of the API: professors stage files beside a    *)
(* live course, and one apply copies them over the live files, rewrites    *)
(* the course metadata and commits, with a journal on disk that undoes an  *)
(* interrupted apply.  Source clean-up runs the same transaction to delete *)
(* files.  Workers (threads, possibly of different processes) serialise on *)
(* the course lock; readers of the workspace do not wait for it.           *)
(*                                                                         *)
(* Every step is one durable file-system operation, so that a crash, a     *)
(* failing call or a reader can come between any two of them.  An          *)
(* operation that lands and then raises (a failing fsync) is the           *)
(* operation followed by the failure of the step after it.                 *)
(***************************************************************************)
EXTENDS Naturals, FiniteSets

CONSTANTS
    Workers,    \* threads that serve requests
    Updates,    \* ids of staged updates, never reused (uuid4)
    Prunes,     \* ids of source clean-ups, never reused
    Sources,    \* paths under source/uploads
    Workspace,  \* builder/course-workspace.json
    Routing,    \* the source routing manifest
    Manifests,  \* the lecture source manifests
    Edits,      \* contents written by routes other than an update
    Initial,    \* the content of a file before any of this
    Absent,     \* the file does not exist
    None,       \* no worker, no update
    MaxFaults,  \* bound: how many calls fail or processes crash
    CommitSyncMayFail \* can the commit marker land and its fsync then fail?

Ids == Updates \cup Prunes
Metadata == {Workspace, Routing} \cup Manifests
Files == Sources \cup Metadata
Contents == Ids \cup Edits \cup {Initial, Absent}

ASSUME ConstantsAssumption ==
    /\ MaxFaults \in Nat
    /\ CommitSyncMayFail \in BOOLEAN
    /\ None \notin Workers \cup Ids
    /\ Updates \cap Prunes = {}
    /\ Ids \cap (Edits \cup {Initial, Absent}) = {}
    /\ Absent \notin Edits \cup {Initial}
    /\ Sources \cap Metadata = {}
    /\ Workspace # Routing
    /\ {Workspace, Routing} \cap Manifests = {}

VARIABLES
    live,       \* live[f]: content of the live file f
    root,       \* root[u]: where the directory of u is
    staged,     \* staged[u]: files uploaded to u
    applying,   \* applying[u]: u/.applying exists
    committed,  \* committed[u]: u/.committed exists
    journal,    \* journal[u]: operations of u/recovery/*/recovery.json; {} if none
    backup,     \* backup[u][f]: copy saved beside the journal, Absent if none
    lock,       \* holder of the course lock
    pc,         \* pc[w]: what worker w does next
    job,        \* job[w]: the update whose transaction or recovery w is running
    plan,       \* plan[w]: the files the request is to change
    tracked,    \* tracked[w]: files whose old content the transaction saved
    todo,       \* todo[w]: files the current phase still has to do
    failed,     \* failed[w]: some file could not be rolled back
    faults      \* failures and crashes so far

disk == <<live, root, staged, applying, committed, journal, backup>>
task == <<job, plan, tracked, todo, failed>>
vars == <<live, root, staged, applying, committed, journal, backup,
          lock, pc, job, plan, tracked, todo, failed, faults>>

-----------------------------------------------------------------------------
(* Derived notions.                                                        *)

\* Steps at which a worker holds the course lock.
Recovering   == {"recover", "restore", "unmark"}
Transacting  == {"save", "journalFiles", "copy", "journalAll", "write"}
Holding      == {"body", "marked", "retire", "rollback", "finish"}
                  \cup Recovering \cup Transacting
Steps        == {"idle", "read"} \cup Holding
Places       == {"unborn", "open", "discarded", "retired", "removed"}

\* What u makes of file f: a clean-up deletes sources, all else is written.
New(u, f) == IF u \in Prunes /\ f \in Sources THEN Absent ELSE u

\* Live source files the transaction of u copies over before its metadata.
Copied(u, files) == IF u \in Updates THEN files \cap Sources ELSE {}

\* Everything the transaction of u saves before it writes any metadata.
Tracked(u, files) == IF u \in Updates THEN files \cup Metadata ELSE files

\* What a request may ask of u: an update takes some of its staged files,
\* always rewrites the workspace, and the routing only with every manifest;
\* a clean-up deletes some uploads and rewrites the routing.
Plans(u) ==
    IF u \in Updates
    THEN {files \cup meta : files \in (SUBSET staged[u]) \ {{}},
                            meta \in {Metadata} \cup
                                     {{Workspace} \cup m : m \in SUBSET Manifests}}
    ELSE {files \cup {Routing} :
            files \in (SUBSET {f \in Sources : live[f] # Absent}) \ {{}}}

NoBackup == [f \in Files |-> Absent]
Interrupted == {u \in Ids : applying[u]}

Goto(w, step) == pc' = [pc EXCEPT ![w] = step]

\* The files a phase still has to do, those whose old content is saved, and
\* the end of one file of the phase.
Todo(w, files) ==
    todo' = [todo EXCEPT ![w] = files] /\ UNCHANGED <<job, plan, tracked, failed>>
Tracks(w, files) ==
    tracked' = [tracked EXCEPT ![w] = files] /\ UNCHANGED <<job, plan, todo, failed>>
Done(w, f) == Todo(w, todo[w] \ {f})

\* Worker w turns to update u, with the given files saved and still to do.
TurnTo(w, u, files) ==
    /\ job' = [job EXCEPT ![w] = u]
    /\ plan' = [plan EXCEPT ![w] = {}]
    /\ tracked' = [tracked EXCEPT ![w] = files]
    /\ todo' = [todo EXCEPT ![w] = files]
    /\ failed' = [failed EXCEPT ![w] = FALSE]

\* The context manager of the lock unwinds, with or without an exception.
Leave(w) ==
    /\ lock' = None
    /\ Goto(w, "idle")
    /\ TurnTo(w, None, {})

\* Some call raises, or a process dies.
Fault == faults < MaxFaults /\ faults' = faults + 1

Init ==
    /\ live \in [Files -> {Initial, Absent}]
    /\ live[Workspace] = Initial
    /\ root = [u \in Ids |-> "unborn"]
    /\ staged = [u \in Ids |-> {}]
    /\ applying = [u \in Ids |-> FALSE]
    /\ committed = [u \in Ids |-> FALSE]
    /\ journal = [u \in Ids |-> {}]
    /\ backup = [u \in Ids |-> NoBackup]
    /\ lock = None
    /\ pc = [w \in Workers |-> "idle"]
    /\ job = [w \in Workers |-> None]
    /\ plan = [w \in Workers |-> {}]
    /\ tracked = [w \in Workers |-> {}]
    /\ todo = [w \in Workers |-> {}]
    /\ failed = [w \in Workers |-> FALSE]
    /\ faults = 0

-----------------------------------------------------------------------------
(* The course lock and recovery, which every holder runs on entry.         *)

\* course_update_lock, then the best-effort removal of retired updates.
Enter(w) ==
    /\ pc[w] = "idle"
    /\ lock = None
    /\ lock' = w
    /\ Goto(w, "recover")
    /\ \E swept \in SUBSET {u \in Ids : root[u] = "retired"} :
          root' = [u \in Ids |-> IF u \in swept THEN "removed" ELSE root[u]]
    /\ UNCHANGED <<live, staged, applying, committed, journal, backup, task, faults>>

\* The directory of u moves to .retired-updates in one rename.
Retire(u) ==
    /\ root' = [root EXCEPT ![u] = "retired"]
    /\ applying' = [applying EXCEPT ![u] = FALSE]
    /\ committed' = [committed EXCEPT ![u] = FALSE]
    /\ journal' = [journal EXCEPT ![u] = {}]
    /\ backup' = [backup EXCEPT ![u] = NoBackup]
    /\ UNCHANGED <<live, staged>>

\* The recovery directory moves to .retired-recovery in one rename.
RetireJournal(u) ==
    /\ journal' = [journal EXCEPT ![u] = {}]
    /\ backup' = [backup EXCEPT ![u] = NoBackup]

RecoverCommitted(w, u) ==
    /\ pc[w] = "recover"
    /\ applying[u] /\ committed[u]
    /\ Retire(u)
    /\ UNCHANGED <<lock, pc, task, faults>>

\* Mutant of RecoverJournaled that does not look for the commit marker.
UndoesCommitted(w, u) ==
    /\ pc[w] = "recover"
    /\ applying[u] /\ journal[u] # {}
    /\ TurnTo(w, u, journal[u])
    /\ Goto(w, "restore")
    /\ UNCHANGED <<disk, lock, faults>>

\* An uncommitted update with a journal: undo what it lists.
RecoverJournaled(w, u) ==
    /\ pc[w] = "recover"
    /\ applying[u] /\ ~committed[u] /\ journal[u] # {}
    /\ TurnTo(w, u, journal[u])
    /\ Goto(w, "restore")
    /\ UNCHANGED <<disk, lock, faults>>

Restore(w, f) ==
    /\ pc[w] = "restore"
    /\ f \in todo[w]
    /\ live' = [live EXCEPT ![f] = backup[job[w]][f]]
    /\ Done(w, f)
    /\ UNCHANGED <<root, staged, applying, committed, journal, backup, lock, pc, faults>>

Restored(w) ==
    /\ pc[w] = "restore"
    /\ todo[w] = {}
    /\ RetireJournal(job[w])
    /\ Goto(w, "unmark")
    /\ UNCHANGED <<live, root, staged, applying, committed, lock, task, faults>>

\* No journal: the live course was not touched, drop the saved copies.
RecoverUnjournaled(w, u) ==
    /\ pc[w] = "recover"
    /\ applying[u] /\ ~committed[u] /\ journal[u] = {}
    /\ RetireJournal(u)
    /\ TurnTo(w, u, {})
    /\ Goto(w, "unmark")
    /\ UNCHANGED <<live, root, staged, applying, committed, lock, faults>>

\* Mutant of Unmark that leaves the marker where it is.
UnmarkForgets(w) ==
    /\ pc[w] = "unmark"
    /\ TurnTo(w, None, {})
    /\ Goto(w, "recover")
    /\ UNCHANGED <<disk, lock, faults>>

Unmark(w) ==
    /\ pc[w] = "unmark"
    /\ applying' = [applying EXCEPT ![job[w]] = FALSE]
    /\ TurnTo(w, None, {})
    /\ Goto(w, "recover")
    /\ UNCHANGED <<live, root, staged, committed, journal, backup, lock, faults>>

Recovered(w) ==
    /\ pc[w] = "recover"
    /\ Interrupted = {}
    /\ Goto(w, "body")
    /\ UNCHANGED <<disk, lock, task, faults>>

\* Any failing call of recovery ends it: CourseUpdateRecoveryError.
RecoveryFails(w) ==
    /\ pc[w] \in Recovering
    /\ Fault
    /\ Leave(w)
    /\ UNCHANGED disk

-----------------------------------------------------------------------------
(* The short operations under the lock; each ends by releasing it.         *)

\* create_course_update: requires the workspace.
CreateUpdate(w, u) ==
    /\ pc[w] = "body"
    /\ root[u] = "unborn"
    /\ live[Workspace] # Absent
    /\ root' = [root EXCEPT ![u] = "open"]
    /\ Leave(w)
    /\ UNCHANGED <<live, staged, applying, committed, journal, backup, faults>>

\* require_update_accepting_uploads
AcceptsUploads(u) == root[u] = "open" /\ ~applying[u]

\* Mutant of UploadMaterial that promotes outside the locked section.
UploadUnlocked(w, u, f) ==
    /\ pc[w] = "idle"
    /\ root[u] = "open"
    /\ f \notin staged[u]
    /\ staged' = [staged EXCEPT ![u] = @ \cup {f}]
    /\ UNCHANGED <<live, root, applying, committed, journal, backup>>
    /\ UNCHANGED <<lock, pc, task, faults>>

\* An upload leaves quarantine by one rename, and never replaces a file.
UploadMaterial(w, u, f) ==
    /\ pc[w] = "body"
    /\ AcceptsUploads(u)
    /\ f \notin staged[u]
    /\ staged' = [staged EXCEPT ![u] = @ \cup {f}]
    /\ Leave(w)
    /\ UNCHANGED <<live, root, applying, committed, journal, backup, faults>>

DiscardUpdate(w, u) ==
    /\ pc[w] = "body"
    /\ AcceptsUploads(u)
    /\ root' = [root EXCEPT ![u] = "discarded"]
    /\ staged' = [staged EXCEPT ![u] = {}]
    /\ Leave(w)
    /\ UNCHANGED <<live, applying, committed, journal, backup, faults>>

\* The tree is removed file by file: a failure leaves some of the uploads.
DiscardFails(w, u) ==
    /\ pc[w] = "body"
    /\ AcceptsUploads(u)
    /\ Fault
    /\ \E rest \in SUBSET staged[u] : staged' = [staged EXCEPT ![u] = rest]
    /\ Leave(w)
    /\ UNCHANGED <<live, root, applying, committed, journal, backup>>

\* A course route rewrites the schedule.
EditWorkspace(w, e) ==
    /\ pc[w] = "body"
    /\ live' = [live EXCEPT ![Workspace] = e]
    /\ Leave(w)
    /\ UNCHANGED <<root, staged, applying, committed, journal, backup, faults>>

\* A course route promotes an upload straight into the live course.
UploadToCourse(w, f, e) ==
    /\ pc[w] = "body"
    /\ live[f] = Absent
    /\ live' = [live EXCEPT ![f] = e]
    /\ Leave(w)
    /\ UNCHANGED <<root, staged, applying, committed, journal, backup, faults>>

\* A request that its validation refuses, or that only reads, changes nothing.
ReleaseUnchanged(w) ==
    /\ pc[w] = "body"
    /\ Leave(w)
    /\ UNCHANGED <<disk, faults>>

-----------------------------------------------------------------------------
(* Readers of the workspace: recover if the lock is free, read without it. *)

RecoveredForRead(w) ==
    /\ pc[w] = "body"
    /\ lock' = None
    /\ Goto(w, "read")
    /\ UNCHANGED <<disk, task, faults>>

SkipRecovery(w) ==
    /\ pc[w] = "idle"
    /\ lock # None
    /\ Goto(w, "read")
    /\ UNCHANGED <<disk, lock, task, faults>>

ReadWorkspace(w) ==
    /\ pc[w] = "read"
    /\ Goto(w, "idle")
    /\ UNCHANGED <<disk, lock, task, faults>>

-----------------------------------------------------------------------------
(* Applying an update, or cleaning up sources.                             *)

\* begin_course_update_apply: the marker is created with O_EXCL.
BeginApply(w, u) ==
    /\ pc[w] = "body"
    /\ u \in Updates
    /\ root[u] = "open"
    /\ ~applying[u]
    /\ applying' = [applying EXCEPT ![u] = TRUE]
    /\ TurnTo(w, u, {})
    /\ Goto(w, "marked")
    /\ UNCHANGED <<live, root, staged, committed, journal, backup, lock, faults>>

\* confirm_and_prune_sources makes its directory and marks it.
BeginPrune(w, u) ==
    /\ pc[w] = "body"
    /\ u \in Prunes
    /\ root[u] = "unborn"
    /\ root' = [root EXCEPT ![u] = "open"]
    /\ applying' = [applying EXCEPT ![u] = TRUE]
    /\ TurnTo(w, u, {})
    /\ Goto(w, "marked")
    /\ UNCHANGED <<live, staged, committed, journal, backup, lock, faults>>

\* The marker landed and its fsync failed: nothing takes it back here.
BeginFails(w, u) ==
    /\ pc[w] = "body"
    /\ u \in Updates
    /\ AcceptsUploads(u)
    /\ Fault
    /\ applying' = [applying EXCEPT ![u] = TRUE]
    /\ Leave(w)
    /\ UNCHANGED <<live, root, staged, committed, journal, backup>>

\* The request passes its checks against the staged files.
Select(w) ==
    /\ pc[w] = "marked"
    /\ \E files \in Plans(job[w]) : plan' = [plan EXCEPT ![w] = files]
    /\ UNCHANGED <<job, tracked, todo, failed>>
    /\ Goto(w, "save")
    /\ UNCHANGED <<disk, lock, faults>>

\* A stale selection, or any error before the transaction.
SelectFails(w) ==
    /\ pc[w] = "marked"
    /\ Goto(w, "finish")
    /\ UNCHANGED <<disk, lock, task, faults>>

SaveCopies(u, files) ==
    backup' = [backup EXCEPT ![u] =
                  [f \in Files |-> IF f \in files THEN live[f] ELSE backup[u][f]]]

\* _StagedFileTransaction.apply: save what the staged files will replace.
Save(w) ==
    /\ pc[w] = "save"
    /\ SaveCopies(job[w], Copied(job[w], plan[w]))
    /\ Tracks(w, Copied(job[w], plan[w]))
    /\ Goto(w, "journalFiles")
    /\ UNCHANGED <<live, root, staged, applying, committed, journal, lock, faults>>

\* Mutant of JournalFiles that copies before the checkpoint.
JournalFilesLate(w) ==
    /\ pc[w] = "journalFiles"
    /\ Todo(w, tracked[w])
    /\ Goto(w, "copy")
    /\ UNCHANGED <<disk, lock, faults>>

\* The first checkpoint, before any live file is replaced.
JournalFiles(w) ==
    /\ pc[w] = "journalFiles"
    /\ journal' = [journal EXCEPT ![job[w]] = tracked[w]]
    /\ Todo(w, tracked[w])
    /\ Goto(w, "copy")
    /\ UNCHANGED <<live, root, staged, applying, committed, backup, lock, faults>>

Copy(w, f) ==
    /\ pc[w] = "copy"
    /\ f \in todo[w]
    /\ live' = [live EXCEPT ![f] = New(job[w], f)]
    /\ Done(w, f)
    /\ UNCHANGED <<root, staged, applying, committed, journal, backup, lock, pc, faults>>

\* track_file for everything else the transaction may write.
Track(w) ==
    /\ pc[w] = "copy"
    /\ todo[w] = {}
    /\ SaveCopies(job[w], Tracked(job[w], plan[w]) \ tracked[w])
    /\ Tracks(w, Tracked(job[w], plan[w]))
    /\ Goto(w, "journalAll")
    /\ UNCHANGED <<live, root, staged, applying, committed, journal, lock, faults>>

\* The second checkpoint, before any metadata is written.
JournalAll(w) ==
    /\ pc[w] = "journalAll"
    /\ journal' = [journal EXCEPT ![job[w]] = tracked[w]]
    /\ Todo(w, plan[w] \ Copied(job[w], plan[w]))
    /\ Goto(w, "write")
    /\ UNCHANGED <<live, root, staged, applying, committed, backup, lock, faults>>

\* One metadata file is replaced, or one source is deleted.
Write(w, f) ==
    /\ pc[w] = "write"
    /\ f \in todo[w]
    /\ live' = [live EXCEPT ![f] = New(job[w], f)]
    /\ Done(w, f)
    /\ UNCHANGED <<root, staged, applying, committed, journal, backup, lock, pc, faults>>

\* Mutant of MarkCommitted that does not wait for the metadata.
MarkCommittedEarly(w) ==
    /\ pc[w] = "write"
    /\ committed' = [committed EXCEPT ![job[w]] = TRUE]
    /\ Goto(w, "retire")
    /\ UNCHANGED <<live, root, staged, applying, journal, backup, lock, task, faults>>

MarkCommitted(w) ==
    /\ pc[w] = "write"
    /\ todo[w] = {}
    /\ committed' = [committed EXCEPT ![job[w]] = TRUE]
    /\ Goto(w, "retire")
    /\ UNCHANGED <<live, root, staged, applying, journal, backup, lock, task, faults>>

RetireCommitted(w) ==
    /\ pc[w] = "retire"
    /\ Retire(job[w])
    /\ Leave(w)
    /\ UNCHANGED faults

\* finish_course_update_apply sees the commit marker and leaves the rest to recovery.
RetireFails(w) ==
    /\ pc[w] = "retire"
    /\ Fault
    /\ Leave(w)
    /\ UNCHANGED disk

-----------------------------------------------------------------------------
(* Undoing a failed transaction in the process that ran it.                *)

\* The files tracked when a call of the current step raises: saving stops at
\* any of the files it has to save.
TrackedAtFailure(w) ==
    CASE pc[w] = "save" -> SUBSET Copied(job[w], plan[w])
      [] pc[w] = "copy" /\ todo[w] = {} ->
            {tracked[w] \cup more : more \in SUBSET (Tracked(job[w], plan[w]) \ tracked[w])}
      [] OTHER -> {tracked[w]}

TransactionFails(w) ==
    /\ pc[w] \in Transacting
    /\ Fault
    /\ \E saved \in TrackedAtFailure(w) :
          /\ SaveCopies(job[w], saved \ tracked[w])
          /\ TurnTo(w, job[w], saved)
    /\ Goto(w, "rollback")
    /\ UNCHANGED <<live, root, staged, applying, committed, journal, lock>>

\* The commit marker landed, its directory could not be synced, and the
\* exception rolls the transaction back.
CommitSyncFails(w) ==
    /\ CommitSyncMayFail
    /\ pc[w] = "write"
    /\ todo[w] = {}
    /\ Fault
    /\ committed' = [committed EXCEPT ![job[w]] = TRUE]
    /\ TurnTo(w, job[w], tracked[w])
    /\ Goto(w, "rollback")
    /\ UNCHANGED <<live, root, staged, applying, journal, backup, lock>>

RollbackFile(w, f) ==
    /\ pc[w] = "rollback"
    /\ f \in todo[w]
    /\ live' = [live EXCEPT ![f] = backup[job[w]][f]]
    /\ Done(w, f)
    /\ UNCHANGED <<root, staged, applying, committed, journal, backup, lock, pc, faults>>

\* One file cannot be put back; the others are still tried.
RollbackFileFails(w, f) ==
    /\ pc[w] = "rollback"
    /\ f \in todo[w]
    /\ Fault
    /\ todo' = [todo EXCEPT ![w] = @ \ {f}]
    /\ failed' = [failed EXCEPT ![w] = TRUE]
    /\ UNCHANGED <<job, plan, tracked>>
    /\ UNCHANGED <<disk, lock, pc>>

\* A failed rollback keeps the marker and journals every file for recovery.
RollbackFailed(w) ==
    /\ pc[w] = "rollback"
    /\ todo[w] = {} /\ failed[w]
    /\ journal' = [journal EXCEPT ![job[w]] = tracked[w]]
    /\ Leave(w)
    /\ UNCHANGED <<live, root, staged, applying, committed, backup, faults>>

\* That last journal cannot be written, or a clean-up after rollback fails:
\* marker and journal stay as they are.
RollbackAbandoned(w) ==
    /\ pc[w] = "rollback"
    /\ todo[w] = {}
    /\ Fault
    /\ Leave(w)
    /\ UNCHANGED disk

RolledBack(w) ==
    /\ pc[w] = "rollback"
    /\ todo[w] = {} /\ ~failed[w]
    /\ RetireJournal(job[w])
    /\ Goto(w, "finish")
    /\ UNCHANGED <<live, root, staged, applying, committed, lock, task, faults>>

\* finish_course_update_apply: take the marker back unless recovery needs it.
\* A source clean-up has no such call and leaves its marker to recovery.
Finish(w) ==
    LET u == job[w] IN
    /\ pc[w] = "finish"
    /\ applying' = [applying EXCEPT
                      ![u] = u \in Prunes \/ committed[u] \/ journal[u] # {}]
    /\ Leave(w)
    /\ UNCHANGED <<live, root, staged, committed, journal, backup, faults>>

FinishFails(w) ==
    /\ pc[w] = "finish"
    /\ Fault
    /\ Leave(w)
    /\ UNCHANGED disk

\* The process of w dies; the lock dies with it.
Crash(w) ==
    /\ pc[w] # "idle"
    /\ Fault
    /\ lock' = IF lock = w THEN None ELSE lock
    /\ Goto(w, "idle")
    /\ TurnTo(w, None, {})
    /\ UNCHANGED disk

-----------------------------------------------------------------------------
Recover(w) ==
    \/ Enter(w) \/ Restored(w) \/ Unmark(w) \/ Recovered(w)
    \/ \E u \in Ids : \/ RecoverCommitted(w, u)
                      \/ RecoverJournaled(w, u)
                      \/ RecoverUnjournaled(w, u)
    \/ \E f \in Files : Restore(w, f)

Serve(w) ==
    \/ ReleaseUnchanged(w) \/ RecoveredForRead(w)
    \/ SkipRecovery(w) \/ ReadWorkspace(w)
    \/ \E u \in Updates : \/ CreateUpdate(w, u) \/ DiscardUpdate(w, u)
                          \/ \E f \in Sources : UploadMaterial(w, u, f)
    \/ \E e \in Edits : \/ EditWorkspace(w, e)
                        \/ \E f \in Sources : UploadToCourse(w, f, e)

Apply(w) ==
    \/ \E u \in Ids : BeginApply(w, u) \/ BeginPrune(w, u)
    \/ Select(w) \/ SelectFails(w) \/ Save(w) \/ JournalFiles(w)
    \/ Track(w) \/ JournalAll(w) \/ MarkCommitted(w) \/ RetireCommitted(w)
    \/ \E f \in Files : Copy(w, f) \/ Write(w, f) \/ RollbackFile(w, f)
    \/ RollbackFailed(w) \/ RolledBack(w) \/ Finish(w)

Fail(w) ==
    \/ RecoveryFails(w) \/ TransactionFails(w) \/ CommitSyncFails(w)
    \/ RetireFails(w) \/ RollbackAbandoned(w) \/ FinishFails(w) \/ Crash(w)
    \/ \E u \in Updates : DiscardFails(w, u) \/ BeginFails(w, u)
    \/ \E f \in Files : RollbackFileFails(w, f)

Step(w) == Recover(w) \/ Serve(w) \/ Apply(w)

Next == \E w \in Workers : Step(w) \/ Fail(w)

Spec == Init /\ [][Next]_vars

\* A thread that was started runs to its end, and requests keep arriving.
Proceed(w) == pc[w] # "idle" /\ Step(w)
Fairness ==
    /\ \A w \in Workers : WF_vars(Proceed(w))
    /\ WF_vars(\E w \in Workers : Enter(w))
FairSpec == Spec /\ Fairness

-----------------------------------------------------------------------------
(* Properties.                                                             *)

TypeOK ==
    /\ live \in [Files -> Contents]
    /\ root \in [Ids -> Places]
    /\ staged \in [Ids -> SUBSET Sources]
    /\ applying \in [Ids -> BOOLEAN]
    /\ committed \in [Ids -> BOOLEAN]
    /\ journal \in [Ids -> SUBSET Files]
    /\ backup \in [Ids -> [Files -> Contents]]
    /\ lock \in Workers \cup {None}
    /\ pc \in [Workers -> Steps]
    /\ job \in [Workers -> Ids \cup {None}]
    /\ plan \in [Workers -> SUBSET Files]
    /\ tracked \in [Workers -> SUBSET Files]
    /\ todo \in [Workers -> SUBSET Files]
    /\ failed \in [Workers -> BOOLEAN]
    /\ faults \in 0 .. MaxFaults

\* Updates whose content may not be in the live course for good: never
\* committed, still on disk or still to come.
Unsettled == {u \in Ids : root[u] \in {"unborn", "open", "discarded"} /\ ~committed[u]}

\* Two updates are never under way at once: an update starts only after every
\* interrupted one was recovered, whoever crashed and whatever failed.
OneInterrupted == \A u, v \in Interrupted : u = v

\* The journal goes to disk before the change it describes: whenever a live
\* file holds what an uncommitted update wrote, that update is still marked,
\* and its journal names the file.
UncommittedIsJournaled ==
    \A u \in Unsettled, f \in Files :
        live[f] = u => applying[u] /\ f \in journal[u]

\* What the journal would put back was never written by an update that did
\* not commit: rolling back cannot reinstate half of another attempt.
BackupIsSettled ==
    \A u \in Ids : \A f \in journal[u] : backup[u][f] \notin Unsettled

\* A transaction starts with no journal of an earlier attempt beside it (two
\* journals block recovery for good).
OneJournal ==
    \A w \in Workers : pc[w] \in {"save", "journalFiles"} => journal[job[w]] = {}

\* No route changes the live course, and no new update starts, while an
\* interrupted update waits to be undone: undoing it would undo the route too.
NoWorkOverInterrupted ==
    \A w \in Workers : pc[w] = "body" => Interrupted = {}

\* Whatever crashes or fails, the course can be recovered: one update at most is
\* interrupted, it is journaled, its backup is settled, and nothing works over it.
Recoverable ==
    /\ TypeOK
    /\ OneInterrupted
    /\ UncommittedIsJournaled
    /\ BackupIsSettled
    /\ OneJournal
    /\ NoWorkOverInterrupted

\* Once the commit marker is on disk the live course stays as committed until
\* the update is out of the recovery namespace.
CommittedStays ==
    [][\A u \in Ids : committed[u] => live' = live]_vars

\* The uploads of an update disappear only with its directory, or while a
\* discard removes them; nothing is added or lost once an apply is marked.
MarkedUploadsStay ==
    [][\A u \in Ids : applying[u] => staged'[u] = staged[u]]_vars

\* A read of the workspace never returns what an uncommitted update wrote.
ReadsAreSettled ==
    [][\A w \in Workers : ReadWorkspace(w) => live[Workspace] \notin Unsettled]_vars

\* Once failures stop and requests keep coming, every interrupted update is
\* completed or undone.
InterruptedIsSettled == \A u \in Ids : applying[u] ~> ~applying[u]

\* Every holder lets the course lock go.
LockIsReleased == \A w \in Workers : lock = w ~> lock # w

\* The content the course settles to if no further step of an apply runs:
\* what is live, with the journal of an uncommitted update undone.
InDoubt(f) == {u \in Ids : ~committed[u] /\ f \in journal[u]}
Settled ==
    [f \in Files |-> IF InDoubt(f) = {} THEN live[f]
                     ELSE backup[CHOOSE u \in InDoubt(f) : TRUE][f]]

Life ==
    [u \in Ids |-> IF committed[u] \/ root[u] \in {"retired", "removed"}
                   THEN "applied" ELSE root[u]]

Doing == [w \in Workers |-> IF pc[w] \in Transacting THEN job[w] ELSE None]
Requested == [w \in Workers |-> IF pc[w] \in Transacting THEN plan[w] ELSE {}]

Atomic == INSTANCE AtomicUpdate
            WITH state <- Settled, life <- Life, doing <- Doing, request <- Requested

\* Staging, applying, failing, crashing and recovering amount to an update
\* that changes all of its files in one step or none of them.
ImplementsAtomicUpdate == Atomic!Spec
============================================================================
