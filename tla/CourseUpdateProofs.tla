------------------------ MODULE CourseUpdateProofs ------------------------
(* Theorems about CourseUpdate for every value of its constants.           *)
EXTENDS CourseUpdate, TLAPS

\* Steps at which a worker works on one update.
Owning == Transacting \cup {"restore", "unmark", "marked", "retire", "rollback", "finish"}

\* Exactly the holder of the lock is at a holding step, and at an owning step
\* it names an update.
HolderInv ==
    \A w \in Workers : /\ pc[w] \in Holding <=> lock = w
                       /\ pc[w] \in Owning => job[w] \in Ids

BaseInv == TypeOK /\ HolderInv

LEMMA ConstantFacts ==
    /\ NoBackup \in [Files -> Contents]
    /\ \A u \in Ids, f \in Files : New(u, f) \in Contents
    /\ \A e \in Edits : e \in Contents
    /\ None \notin Workers /\ None \notin Ids
    /\ Workspace \in Files
    /\ \A f \in Sources : f \in Files
    /\ \A u \in Updates : u \in Ids
    /\ \A u \in Ids, files \in SUBSET Files :
          Copied(u, files) \in SUBSET Files /\ Tracked(u, files) \in SUBSET Files
BY ConstantsAssumption
   DEF ConstantsAssumption, NoBackup, Contents, New, Copied, Tracked, Ids, Files, Metadata

LEMMA PlansType ==
    ASSUME TypeOK, NEW u \in Ids
    PROVE  Plans(u) \subseteq SUBSET Files
BY DEF Plans, TypeOK, Files, Metadata

LEMMA BaseInit == Init => BaseInv
BY ConstantFacts, ConstantsAssumption
   DEF Init, BaseInv, TypeOK, HolderInv, Holding, Recovering, Transacting, Owning,
       Places, Steps, ConstantsAssumption, Contents

\* Recovery and the short operations.
LEMMA BaseRecover ==
    ASSUME BaseInv, NEW w \in Workers, Recover(w)
    PROVE  BaseInv'
<1> USE ConstantFacts DEF BaseInv, TypeOK, HolderInv, Holding, Recovering, Transacting,
            Owning, Places, Steps, disk, task, Goto
<1>1. CASE Enter(w) BY <1>1 DEF Enter
<1>2. CASE Restored(w) BY <1>2 DEF Restored, RetireJournal
<1>3. CASE Unmark(w) BY <1>3 DEF Unmark, TurnTo
<1>4. CASE Recovered(w) BY <1>4 DEF Recovered
<1>5. ASSUME NEW u \in Ids, RecoverCommitted(w, u) PROVE BaseInv'
  BY <1>5 DEF RecoverCommitted, Retire
<1>6. ASSUME NEW u \in Ids, RecoverJournaled(w, u) PROVE BaseInv'
  BY <1>6 DEF RecoverJournaled, TurnTo
<1>7. ASSUME NEW u \in Ids, RecoverUnjournaled(w, u) PROVE BaseInv'
  BY <1>7 DEF RecoverUnjournaled, RetireJournal, TurnTo
<1>8. ASSUME NEW f \in Files, Restore(w, f) PROVE BaseInv'
  BY <1>8 DEF Restore, Done, Todo
<1> QED BY <1>1, <1>2, <1>3, <1>4, <1>5, <1>6, <1>7, <1>8 DEF Recover

LEMMA BaseServe ==
    ASSUME BaseInv, NEW w \in Workers, Serve(w)
    PROVE  BaseInv'
<1> USE ConstantFacts DEF BaseInv, TypeOK, HolderInv, Holding, Recovering, Transacting,
            Owning, Places, Steps, disk, task, Goto, Leave, TurnTo
<1>1. CASE ReleaseUnchanged(w) BY <1>1 DEF ReleaseUnchanged
<1>2. CASE RecoveredForRead(w) BY <1>2 DEF RecoveredForRead
<1>3. CASE SkipRecovery(w) BY <1>3 DEF SkipRecovery
<1>4. CASE ReadWorkspace(w) BY <1>4 DEF ReadWorkspace
<1>5. ASSUME NEW u \in Updates, CreateUpdate(w, u) PROVE BaseInv'
  BY <1>5 DEF CreateUpdate
<1>6. ASSUME NEW u \in Updates, DiscardUpdate(w, u) PROVE BaseInv'
  BY <1>6 DEF DiscardUpdate
<1>7. ASSUME NEW u \in Updates, NEW f \in Sources, UploadMaterial(w, u, f) PROVE BaseInv'
  BY <1>7 DEF UploadMaterial
<1>8. ASSUME NEW e \in Edits, EditWorkspace(w, e) PROVE BaseInv'
  BY <1>8 DEF EditWorkspace
<1>9. ASSUME NEW e \in Edits, NEW f \in Sources, UploadToCourse(w, f, e) PROVE BaseInv'
  BY <1>9 DEF UploadToCourse
<1> QED BY <1>1, <1>2, <1>3, <1>4, <1>5, <1>6, <1>7, <1>8, <1>9 DEF Serve

LEMMA BaseApply ==
    ASSUME BaseInv, NEW w \in Workers, Apply(w)
    PROVE  BaseInv'
<1> USE ConstantFacts DEF BaseInv, TypeOK, HolderInv, Holding, Recovering, Transacting,
            Owning, Places, Steps, disk, task, Goto, TurnTo, Todo, Tracks, Done
<1>1. ASSUME NEW u \in Ids, BeginApply(w, u) PROVE BaseInv'
  BY <1>1 DEF BeginApply
<1>2. ASSUME NEW u \in Ids, BeginPrune(w, u) PROVE BaseInv'
  BY <1>2 DEF BeginPrune
<1>3. CASE Select(w) BY <1>3, PlansType DEF Select
<1>4. CASE SelectFails(w) BY <1>4 DEF SelectFails
<1>5. CASE Save(w) BY <1>5 DEF Save, SaveCopies
<1>6. CASE JournalFiles(w) BY <1>6 DEF JournalFiles
<1>7. CASE Track(w) BY <1>7 DEF Track, SaveCopies
<1>8. CASE JournalAll(w) BY <1>8 DEF JournalAll
<1>9. CASE MarkCommitted(w) BY <1>9 DEF MarkCommitted
<1>10. CASE RetireCommitted(w) BY <1>10 DEF RetireCommitted, Retire, Leave
<1>11. ASSUME NEW f \in Files, Copy(w, f) PROVE BaseInv'
  BY <1>11 DEF Copy
<1>12. ASSUME NEW f \in Files, Write(w, f) PROVE BaseInv'
  BY <1>12 DEF Write
<1>13. ASSUME NEW f \in Files, RollbackFile(w, f) PROVE BaseInv'
  BY <1>13 DEF RollbackFile
<1>14. CASE RollbackFailed(w) BY <1>14 DEF RollbackFailed, Leave
<1>15. CASE RolledBack(w) BY <1>15 DEF RolledBack, RetireJournal
<1>16. CASE Finish(w) BY <1>16 DEF Finish, Leave
<1> QED BY <1>1, <1>2, <1>3, <1>4, <1>5, <1>6, <1>7, <1>8, <1>9, <1>10, <1>11,
           <1>12, <1>13, <1>14, <1>15, <1>16 DEF Apply

\* What is saved when a transaction fails is a set of files.
LEMMA TrackedAtFailureType ==
    ASSUME BaseInv, NEW w \in Workers, pc[w] \in Transacting
    PROVE  TrackedAtFailure(w) \subseteq SUBSET Files
<1>1. /\ job[w] \in Ids /\ plan[w] \in SUBSET Files /\ tracked[w] \in SUBSET Files
  BY DEF BaseInv, TypeOK, HolderInv, Owning
<1>2. /\ Copied(job[w], plan[w]) \in SUBSET Files
      /\ Tracked(job[w], plan[w]) \in SUBSET Files
  BY <1>1, ConstantFacts
<1>3. CASE pc[w] = "save"
  BY <1>2, <1>3 DEF TrackedAtFailure
<1>4. CASE pc[w] = "copy" /\ todo[w] = {}
  BY <1>1, <1>2, <1>4 DEF TrackedAtFailure
<1>5. CASE pc[w] # "save" /\ ~(pc[w] = "copy" /\ todo[w] = {})
  BY <1>1, <1>5 DEF TrackedAtFailure
<1> QED BY <1>3, <1>4, <1>5

LEMMA BaseFail ==
    ASSUME BaseInv, NEW w \in Workers, Fail(w)
    PROVE  BaseInv'
<1> USE ConstantFacts, ConstantsAssumption DEF BaseInv, TypeOK, HolderInv, Holding,
            Recovering, Transacting, Owning, Places, Steps, disk, task, Goto, TurnTo,
            Leave, Fault, ConstantsAssumption
<1>1. CASE RecoveryFails(w) BY <1>1 DEF RecoveryFails
<1>2. CASE TransactionFails(w) BY <1>2, TrackedAtFailureType DEF TransactionFails, SaveCopies
<1>3. CASE CommitSyncFails(w) BY <1>3 DEF CommitSyncFails
<1>4. CASE RetireFails(w) BY <1>4 DEF RetireFails
<1>5. CASE RollbackAbandoned(w) BY <1>5 DEF RollbackAbandoned
<1>6. CASE FinishFails(w) BY <1>6 DEF FinishFails
<1>7. CASE Crash(w) BY <1>7 DEF Crash
<1>8. ASSUME NEW u \in Updates, DiscardFails(w, u) PROVE BaseInv'
  BY <1>8 DEF DiscardFails
<1>9. ASSUME NEW u \in Updates, BeginFails(w, u) PROVE BaseInv'
  BY <1>9 DEF BeginFails
<1>10. ASSUME NEW f \in Files, RollbackFileFails(w, f) PROVE BaseInv'
  BY <1>10 DEF RollbackFileFails
<1> QED BY <1>1, <1>2, <1>3, <1>4, <1>5, <1>6, <1>7, <1>8, <1>9, <1>10 DEF Fail

LEMMA BaseNext == BaseInv /\ [Next]_vars => BaseInv'
<1>1. ASSUME BaseInv, UNCHANGED vars PROVE BaseInv'
  BY <1>1 DEF BaseInv, TypeOK, HolderInv, vars
<1> QED BY <1>1, BaseRecover, BaseServe, BaseApply, BaseFail DEF Next, Step

\* The state of the update store is always well formed (course_update*.py).
THEOREM TypeCorrect == Spec => []TypeOK
<1>1. BaseInv => TypeOK
  BY DEF BaseInv
<1> QED BY <1>1, BaseInit, BaseNext, PTL DEF Spec
-----------------------------------------------------------------------------
(* The inductive invariant, for a commit marker whose sync does not fail   *)
(* once the marker has landed.                                             *)

\* Marker, journal and lock agree.  The journal and the commit marker exist
\* only beside the apply marker; only one update is ever marked, and the
\* worker that holds the lock past recovery owns it.
MarkerInv ==
    /\ \A u \in Ids : committed[u] \/ journal[u] # {} => applying[u]
    /\ \A u \in Ids : applying[u] => root[u] = "open"
    /\ OneInterrupted
    /\ NoWorkOverInterrupted
    /\ \A w \in Workers :
          /\ pc[w] \in Owning => applying[job[w]]
          /\ pc[w] = "retire" => committed[job[w]]
          /\ pc[w] \in Owning \ {"retire"} => ~committed[job[w]]
          /\ pc[w] \in {"unmark", "marked", "save", "journalFiles", "finish"}
                => journal[job[w]] = {}

\* Steps at which the files a worker has saved are on disk.
Saved == {"journalFiles", "copy", "journalAll", "write", "rollback"}

\* The journal covers what changed, and its copies are what it must put back.
JournalInv ==
    /\ UncommittedIsJournaled
    /\ BackupIsSettled
    /\ \A w \in Workers :
          /\ pc[w] \in Saved =>
                \A f \in tracked[w] :
                    /\ backup[job[w]][f] \notin Unsettled
                    /\ f \notin journal[job[w]] => backup[job[w]][f] = live[f]
          /\ pc[w] \in {"copy", "journalAll", "write", "rollback"} =>
                journal[job[w]] \subseteq tracked[w]
          /\ pc[w] \in {"restore", "copy", "write"} =>
                todo[w] \subseteq journal[job[w]]
          /\ pc[w] = "rollback" => todo[w] \subseteq tracked[w]
          /\ pc[w] = "copy" => tracked[w] \subseteq journal[job[w]]
          /\ pc[w] = "restore" =>
                \A f \in journal[job[w]] \ todo[w] : live[f] = backup[job[w]][f]
          /\ pc[w] = "rollback" /\ ~failed[w] =>
                \A f \in tracked[w] \ todo[w] : live[f] = backup[job[w]][f]

\* How far the transaction of worker w has come with its plan.
PlanInv ==
    \A w \in Workers :
        /\ pc[w] \in {"marked", "save"} => tracked[w] = {}
        /\ pc[w] \in {"journalFiles", "copy"} => tracked[w] = Copied(job[w], plan[w])
        /\ pc[w] \in {"journalAll", "write"} => tracked[w] = Tracked(job[w], plan[w])
        /\ pc[w] \in {"copy", "journalAll"} =>
              /\ journal[job[w]] = Copied(job[w], plan[w])
              /\ \A f \in Copied(job[w], plan[w]) :
                    (pc[w] = "copy" => f \notin todo[w]) => live[f] = New(job[w], f)
        /\ pc[w] = "write" =>
              /\ journal[job[w]] = Tracked(job[w], plan[w])
              /\ todo[w] \subseteq plan[w]
              /\ \A f \in plan[w] \ todo[w] : live[f] = New(job[w], f)
              /\ \A f \in journal[job[w]] \ plan[w] : live[f] = backup[job[w]][f]

IInv == BaseInv /\ MarkerInv /\ JournalInv /\ PlanInv

LEMMA IInvInit == Init => IInv
<1> SUFFICES ASSUME Init PROVE IInv
  OBVIOUS
<1>1. BaseInv
  BY BaseInit
<1>2. MarkerInv
  BY DEF Init, MarkerInv, OneInterrupted, Interrupted, Owning, NoWorkOverInterrupted, Transacting
<1>3. JournalInv
  <2>1. \A f \in Files : live[f] \notin Ids
    BY ConstantsAssumption DEF Init, ConstantsAssumption
  <2>2. UncommittedIsJournaled
    BY <2>1 DEF UncommittedIsJournaled, Unsettled
  <2>3. BackupIsSettled
    BY DEF Init, BackupIsSettled
  <2> QED BY <2>2, <2>3 DEF Init, JournalInv, Saved
<1>4. PlanInv
  BY DEF Init, PlanInv
<1> QED BY <1>1, <1>2, <1>3, <1>4 DEF IInv

LEMMA MarkerRecover ==
    ASSUME BaseInv, MarkerInv, NEW w \in Workers, Recover(w)
    PROVE  MarkerInv'
<1> USE DEF BaseInv, TypeOK, HolderInv, Holding, Recovering, Transacting, Owning, Places,
            disk, task, Goto, MarkerInv, OneInterrupted, NoWorkOverInterrupted, Interrupted
<1>1. CASE Enter(w) BY <1>1 DEF Enter
<1>2. CASE Restored(w) BY <1>2 DEF Restored, RetireJournal
<1>3. CASE Unmark(w) BY <1>3 DEF Unmark, TurnTo
<1>4. CASE Recovered(w) BY <1>4 DEF Recovered
<1>5. ASSUME NEW u \in Ids, RecoverCommitted(w, u) PROVE MarkerInv'
  BY <1>5 DEF RecoverCommitted, Retire
<1>6. ASSUME NEW u \in Ids, RecoverJournaled(w, u) PROVE MarkerInv'
  BY <1>6 DEF RecoverJournaled, TurnTo
<1>7. ASSUME NEW u \in Ids, RecoverUnjournaled(w, u) PROVE MarkerInv'
  BY <1>7 DEF RecoverUnjournaled, RetireJournal, TurnTo
<1>8. ASSUME NEW f \in Files, Restore(w, f) PROVE MarkerInv'
  BY <1>8 DEF Restore, Done, Todo
<1> QED BY <1>1, <1>2, <1>3, <1>4, <1>5, <1>6, <1>7, <1>8 DEF Recover

LEMMA MarkerServe ==
    ASSUME BaseInv, MarkerInv, NEW w \in Workers, Serve(w)
    PROVE  MarkerInv'
<1> USE ConstantFacts DEF BaseInv, TypeOK, HolderInv, Holding, Recovering, Transacting,
            Owning, Places, disk, task, Goto, Leave, TurnTo, MarkerInv, OneInterrupted,
            NoWorkOverInterrupted, Interrupted, AcceptsUploads
<1>1. CASE ReleaseUnchanged(w) BY <1>1 DEF ReleaseUnchanged
<1>2. CASE RecoveredForRead(w) BY <1>2 DEF RecoveredForRead
<1>3. CASE SkipRecovery(w) BY <1>3 DEF SkipRecovery
<1>4. CASE ReadWorkspace(w) BY <1>4 DEF ReadWorkspace
<1>5. ASSUME NEW u \in Updates, CreateUpdate(w, u) PROVE MarkerInv'
  BY <1>5 DEF CreateUpdate
<1>6. ASSUME NEW u \in Updates, DiscardUpdate(w, u) PROVE MarkerInv'
  BY <1>6 DEF DiscardUpdate
<1>7. ASSUME NEW u \in Updates, NEW f \in Sources, UploadMaterial(w, u, f) PROVE MarkerInv'
  BY <1>7 DEF UploadMaterial
<1>8. ASSUME NEW e \in Edits, EditWorkspace(w, e) PROVE MarkerInv'
  BY <1>8 DEF EditWorkspace
<1>9. ASSUME NEW e \in Edits, NEW f \in Sources, UploadToCourse(w, f, e) PROVE MarkerInv'
  BY <1>9 DEF UploadToCourse
<1> QED BY <1>1, <1>2, <1>3, <1>4, <1>5, <1>6, <1>7, <1>8, <1>9 DEF Serve

LEMMA MarkerApply ==
    ASSUME BaseInv, MarkerInv, NEW w \in Workers, Apply(w)
    PROVE  MarkerInv'
<1> USE ConstantFacts DEF BaseInv, TypeOK, HolderInv, Holding, Recovering, Transacting,
            Owning, Places, disk, task, Goto, TurnTo, Todo, Tracks, Done, MarkerInv,
            OneInterrupted, NoWorkOverInterrupted, Interrupted
<1>1. ASSUME NEW u \in Ids, BeginApply(w, u) PROVE MarkerInv'
  BY <1>1 DEF BeginApply
<1>2. ASSUME NEW u \in Ids, BeginPrune(w, u) PROVE MarkerInv'
  BY <1>2 DEF BeginPrune
<1>3. CASE Select(w) BY <1>3 DEF Select
<1>4. CASE SelectFails(w) BY <1>4 DEF SelectFails
<1>5. CASE Save(w) BY <1>5 DEF Save, SaveCopies
<1>6. CASE JournalFiles(w) BY <1>6 DEF JournalFiles
<1>7. CASE Track(w) BY <1>7 DEF Track, SaveCopies
<1>8. CASE JournalAll(w) BY <1>8 DEF JournalAll
<1>9. CASE MarkCommitted(w) BY <1>9 DEF MarkCommitted
<1>10. CASE RetireCommitted(w) BY <1>10 DEF RetireCommitted, Retire, Leave
<1>11. ASSUME NEW f \in Files, Copy(w, f) PROVE MarkerInv'
  BY <1>11 DEF Copy
<1>12. ASSUME NEW f \in Files, Write(w, f) PROVE MarkerInv'
  BY <1>12 DEF Write
<1>13. ASSUME NEW f \in Files, RollbackFile(w, f) PROVE MarkerInv'
  BY <1>13 DEF RollbackFile
<1>14. CASE RollbackFailed(w) BY <1>14 DEF RollbackFailed, Leave
<1>15. CASE RolledBack(w) BY <1>15 DEF RolledBack, RetireJournal
<1>16. CASE Finish(w) BY <1>16 DEF Finish, Leave
<1> QED BY <1>1, <1>2, <1>3, <1>4, <1>5, <1>6, <1>7, <1>8, <1>9, <1>10, <1>11,
           <1>12, <1>13, <1>14, <1>15, <1>16 DEF Apply

LEMMA MarkerFail ==
    ASSUME ~CommitSyncMayFail, BaseInv, MarkerInv, NEW w \in Workers, Fail(w)
    PROVE  MarkerInv'
<1> USE ConstantFacts DEF BaseInv, TypeOK, HolderInv, Holding, Recovering, Transacting,
            Owning, Places, disk, task, Goto, TurnTo, Leave, MarkerInv, OneInterrupted,
            NoWorkOverInterrupted, Interrupted, AcceptsUploads
<1>1. CASE RecoveryFails(w) BY <1>1 DEF RecoveryFails
<1>2. CASE TransactionFails(w) BY <1>2 DEF TransactionFails
<1>3. CASE CommitSyncFails(w) BY <1>3 DEF CommitSyncFails
<1>4. CASE RetireFails(w) BY <1>4 DEF RetireFails
<1>5. CASE RollbackAbandoned(w) BY <1>5 DEF RollbackAbandoned
<1>6. CASE FinishFails(w) BY <1>6 DEF FinishFails
<1>7. CASE Crash(w) BY <1>7 DEF Crash
<1>8. ASSUME NEW u \in Updates, DiscardFails(w, u) PROVE MarkerInv'
  BY <1>8 DEF DiscardFails
<1>9. ASSUME NEW u \in Updates, BeginFails(w, u) PROVE MarkerInv'
  BY <1>9 DEF BeginFails
<1>10. ASSUME NEW f \in Files, RollbackFileFails(w, f) PROVE MarkerInv'
  BY <1>10 DEF RollbackFileFails
<1> QED BY <1>1, <1>2, <1>3, <1>4, <1>5, <1>6, <1>7, <1>8, <1>9, <1>10 DEF Fail

LEMMA JournalRecover ==
    ASSUME IInv, NEW w \in Workers, Recover(w)
    PROVE  JournalInv'
<1> USE ConstantFacts, ConstantsAssumption DEF IInv, BaseInv, TypeOK, HolderInv, Holding,
            Recovering, Transacting, Owning, disk, task, Goto, Leave, TurnTo, Todo, Tracks,
            Done, MarkerInv, OneInterrupted, NoWorkOverInterrupted, Interrupted, JournalInv,
            UncommittedIsJournaled, BackupIsSettled, Saved, Unsettled
<1>1. CASE Enter(w) BY <1>1 DEF Enter
<1>2. CASE Restored(w)
  <2>1. \A u \in Unsettled, f \in Files : live[f] # u
    BY <1>2 DEF Restored
  <2>2. Unsettled' = Unsettled
    BY <1>2 DEF Restored
  <2>3. UncommittedIsJournaled'
    BY <1>2, <2>1, <2>2 DEF Restored
  <2>4. BackupIsSettled'
    BY <1>2 DEF Restored, RetireJournal
  <2> QED BY <1>2, <2>3, <2>4 DEF Restored, RetireJournal
<1>3. CASE Unmark(w) BY <1>3 DEF Unmark
<1>4. CASE Recovered(w) BY <1>4 DEF Recovered
<1>5. ASSUME NEW u \in Ids, RecoverCommitted(w, u) PROVE JournalInv'
  BY <1>5 DEF RecoverCommitted, Retire
<1>6. ASSUME NEW u \in Ids, RecoverJournaled(w, u) PROVE JournalInv'
  BY <1>6 DEF RecoverJournaled
<1>7. ASSUME NEW u \in Ids, RecoverUnjournaled(w, u) PROVE JournalInv'
  BY <1>7 DEF RecoverUnjournaled, RetireJournal
<1>8. ASSUME NEW f \in Files, Restore(w, f) PROVE JournalInv'
  BY <1>8 DEF Restore
<1> QED BY <1>1, <1>2, <1>3, <1>4, <1>5, <1>6, <1>7, <1>8 DEF Recover

LEMMA JournalServe ==
    ASSUME IInv, NEW w \in Workers, Serve(w)
    PROVE  JournalInv'
<1> USE ConstantFacts, ConstantsAssumption DEF IInv, BaseInv, TypeOK, HolderInv, Holding,
            Recovering, Transacting, Owning, disk, task, Goto, Leave, TurnTo,
            MarkerInv, OneInterrupted, NoWorkOverInterrupted, Interrupted, JournalInv,
            UncommittedIsJournaled, BackupIsSettled, Saved, Unsettled, AcceptsUploads
<1>1. CASE ReleaseUnchanged(w) BY <1>1 DEF ReleaseUnchanged
<1>2. CASE RecoveredForRead(w) BY <1>2 DEF RecoveredForRead
<1>3. CASE SkipRecovery(w) BY <1>3 DEF SkipRecovery
<1>4. CASE ReadWorkspace(w) BY <1>4 DEF ReadWorkspace
<1>5. ASSUME NEW u \in Updates, CreateUpdate(w, u) PROVE JournalInv'
  BY <1>5 DEF CreateUpdate
<1>6. ASSUME NEW u \in Updates, DiscardUpdate(w, u) PROVE JournalInv'
  BY <1>6 DEF DiscardUpdate
<1>7. ASSUME NEW u \in Updates, NEW f \in Sources, UploadMaterial(w, u, f) PROVE JournalInv'
  BY <1>7 DEF UploadMaterial
<1>8. ASSUME NEW e \in Edits, EditWorkspace(w, e) PROVE JournalInv'
  BY <1>8 DEF EditWorkspace, ConstantsAssumption
<1>9. ASSUME NEW e \in Edits, NEW f \in Sources, UploadToCourse(w, f, e) PROVE JournalInv'
  BY <1>9 DEF UploadToCourse, ConstantsAssumption
<1> QED BY <1>1, <1>2, <1>3, <1>4, <1>5, <1>6, <1>7, <1>8, <1>9 DEF Serve

\* What the two phases of a transaction save.
LEMMA PlanFacts ==
    ASSUME NEW u \in Ids, NEW files \in SUBSET Files
    PROVE  /\ files \subseteq Tracked(u, files)
           /\ Copied(u, files) \subseteq files
           /\ Tracked(u, files) \in SUBSET Files
BY DEF Copied, Tracked, Ids, Files, Metadata

\* What an update makes of a file is its own content or absence.
LEMMA NewFacts ==
    ASSUME NEW u \in Ids, NEW f \in Files
    PROVE  New(u, f) \in Ids => New(u, f) = u
BY ConstantsAssumption DEF New, ConstantsAssumption

\* Saving copies for one update touches neither its other copies nor others'.
LEMMA SavedCopies ==
    ASSUME BaseInv, NEW u \in Ids, NEW files, SaveCopies(u, files)
    PROVE  /\ \A f \in Files : backup'[u][f] = IF f \in files THEN live[f] ELSE backup[u][f]
           /\ \A v \in Ids : v # u => backup'[v] = backup[v]
BY DEF BaseInv, TypeOK, SaveCopies

\* When the second saving starts, the files of the first are among its own.
LEMMA TrackedGrows ==
    ASSUME IInv, NEW w \in Workers, pc[w] = "copy"
    PROVE  /\ tracked[w] \subseteq Tracked(job[w], plan[w])
           /\ Tracked(job[w], plan[w]) \in SUBSET Files
<1>1. job[w] \in Ids /\ plan[w] \in SUBSET Files
  BY DEF IInv, BaseInv, TypeOK, HolderInv, Owning, Transacting
<1>2. tracked[w] = Copied(job[w], plan[w])
  BY DEF IInv, PlanInv
<1> QED BY <1>1, <1>2, PlanFacts

LEMMA JournalApply ==
    ASSUME IInv, NEW w \in Workers, Apply(w)
    PROVE  JournalInv'
<1> USE ConstantFacts DEF IInv, BaseInv, TypeOK, HolderInv, Holding, Recovering, Transacting,
            Owning, disk, task, Goto, TurnTo, Todo, Tracks, Done, MarkerInv, OneInterrupted,
            NoWorkOverInterrupted, Interrupted, JournalInv, UncommittedIsJournaled,
            BackupIsSettled, Saved, Unsettled
<1>1. ASSUME NEW u \in Ids, BeginApply(w, u) PROVE JournalInv'
  BY <1>1 DEF BeginApply
<1>2. ASSUME NEW u \in Ids, BeginPrune(w, u) PROVE JournalInv'
  BY <1>2 DEF BeginPrune
<1>3. CASE Select(w) BY <1>3 DEF Select
<1>4. CASE SelectFails(w) BY <1>4 DEF SelectFails
<1>5. CASE Save(w)
  <2>1. \A f \in Files : live[f] \notin Unsettled
    BY <1>5 DEF Save
  <2>2. Unsettled' = Unsettled
    BY <1>5 DEF Save
  <2>3. /\ tracked'[w] \in SUBSET Files
        /\ \A f \in tracked'[w] : backup'[job[w]][f] = live[f]
    <3>1. job[w] \in Ids /\ plan[w] \in SUBSET Files
      BY <1>5 DEF Save
    <3>2. tracked'[w] = Copied(job[w], plan[w])
      BY <1>5 DEF Save
    <3>3. Copied(job[w], plan[w]) \in SUBSET Files
      BY <3>1
    <3>4. \A f \in tracked'[w] : backup'[job[w]][f] = live[f]
      BY <1>5, <3>1, <3>2, <3>3, SavedCopies DEF Save
    <3> QED BY <3>2, <3>3, <3>4
  <2>4. UncommittedIsJournaled' /\ BackupIsSettled'
    BY <1>5, <2>1, <2>2 DEF Save, SaveCopies
  <2> QED BY <1>5, <2>1, <2>2, <2>3, <2>4 DEF Save
<1>6. CASE JournalFiles(w) BY <1>6 DEF JournalFiles
<1>7. CASE Track(w)
  <2>1. \A f \in Files \ tracked[w] : live[f] \notin Unsettled
    BY <1>7 DEF Track
  <2>2. Unsettled' = Unsettled
    BY <1>7 DEF Track
  <2>3. /\ tracked'[w] \in SUBSET Files /\ tracked[w] \subseteq tracked'[w]
        /\ \A f \in tracked[w] : backup'[job[w]][f] = backup[job[w]][f]
        /\ \A f \in tracked'[w] \ tracked[w] : backup'[job[w]][f] = live[f]
    <3>1. pc[w] = "copy" /\ job[w] \in Ids
      BY <1>7 DEF Track
    <3>2. tracked'[w] = Tracked(job[w], plan[w])
      BY <1>7 DEF Track
    <3>3. tracked'[w] \in SUBSET Files /\ tracked[w] \subseteq tracked'[w]
      BY <3>1, <3>2, TrackedGrows
    <3> QED BY <1>7, <3>1, <3>2, <3>3, SavedCopies DEF Track
  <2>4. UncommittedIsJournaled' /\ BackupIsSettled'
    <3>1. UncommittedIsJournaled'
      BY <1>7, <2>2 DEF Track
    <3>2. \A u \in Ids : \A f \in journal[u] : backup'[u][f] = backup[u][f]
      BY <1>7, <2>3 DEF Track, SaveCopies
    <3> QED BY <1>7, <2>2, <3>1, <3>2 DEF Track
  <2> QED BY <1>7, <2>1, <2>2, <2>3, <2>4 DEF Track
<1>8. CASE JournalAll(w)
  <2>1. plan[w] \ Copied(job[w], plan[w]) \subseteq tracked[w]
    <3>1. job[w] \in Ids /\ plan[w] \in SUBSET Files
      BY <1>8 DEF JournalAll
    <3>2. tracked[w] = Tracked(job[w], plan[w])
      BY <1>8 DEF JournalAll, PlanInv
    <3>3. plan[w] \subseteq Tracked(job[w], plan[w])
      BY <3>1, PlanFacts
    <3> QED BY <3>2, <3>3
  <2>2. Unsettled' = Unsettled
    BY <1>8 DEF JournalAll
  <2>3. UncommittedIsJournaled' /\ BackupIsSettled'
    BY <1>8, <2>2 DEF JournalAll
  <2> QED BY <1>8, <2>1, <2>2, <2>3 DEF JournalAll
<1>9. CASE MarkCommitted(w) BY <1>9 DEF MarkCommitted
<1>10. CASE RetireCommitted(w) BY <1>10 DEF RetireCommitted, Retire, Leave
<1>11. ASSUME NEW f \in Files, Copy(w, f) PROVE JournalInv'
  <2>1. f \in journal[job[w]]
    BY <1>11 DEF Copy
  <2>2. Unsettled' = Unsettled
    BY <1>11 DEF Copy
  <2>3. UncommittedIsJournaled' /\ BackupIsSettled'
    BY <1>11, <2>1, <2>2, NewFacts DEF Copy
  <2> QED BY <1>11, <2>1, <2>2, <2>3 DEF Copy
<1>12. ASSUME NEW f \in Files, Write(w, f) PROVE JournalInv'
  <2>1. f \in journal[job[w]]
    BY <1>12 DEF Write
  <2>2. Unsettled' = Unsettled
    BY <1>12 DEF Write
  <2>3. UncommittedIsJournaled' /\ BackupIsSettled'
    BY <1>12, <2>1, <2>2, NewFacts DEF Write
  <2> QED BY <1>12, <2>1, <2>2, <2>3 DEF Write
<1>13. ASSUME NEW f \in Files, RollbackFile(w, f) PROVE JournalInv'
  BY <1>13 DEF RollbackFile
<1>14. CASE RollbackFailed(w) BY <1>14 DEF RollbackFailed, Leave
<1>15. CASE RolledBack(w)
  <2>1. \A u \in Unsettled, f \in Files : live[f] # u
    <3> SUFFICES ASSUME NEW u \in Unsettled, NEW f \in Files, live[f] = u PROVE FALSE
      OBVIOUS
    <3>1. applying[u] /\ f \in journal[u]
      OBVIOUS
    <3>2. u = job[w]
      BY <1>15, <3>1 DEF RolledBack
    <3>3. f \in tracked[w] \ todo[w]
      BY <1>15, <3>1, <3>2 DEF RolledBack
    <3>4. live[f] = backup[job[w]][f]
      <4>1. pc[w] = "rollback" /\ ~failed[w]
        BY <1>15 DEF RolledBack
      <4>2. pc[w] = "rollback" /\ ~failed[w] =>
               \A g \in tracked[w] \ todo[w] : live[g] = backup[job[w]][g]
        BY DEF JournalInv
      <4> QED BY <3>3, <4>1, <4>2
    <3>5. backup[job[w]][f] \notin Unsettled
      <4>1. pc[w] \in Saved /\ f \in tracked[w]
        BY <1>15, <3>3 DEF RolledBack
      <4> QED BY <4>1
    <3> QED BY <3>4, <3>5
  <2>2. Unsettled' = Unsettled
    BY <1>15 DEF RolledBack
  <2>3. UncommittedIsJournaled' /\ BackupIsSettled'
    BY <1>15, <2>1, <2>2 DEF RolledBack, RetireJournal
  <2> QED BY <1>15, <2>3 DEF RolledBack, RetireJournal
<1>16. CASE Finish(w) BY <1>16 DEF Finish, Leave
<1> QED BY <1>1, <1>2, <1>3, <1>4, <1>5, <1>6, <1>7, <1>8, <1>9, <1>10, <1>11,
           <1>12, <1>13, <1>14, <1>15, <1>16 DEF Apply

LEMMA JournalFail ==
    ASSUME ~CommitSyncMayFail, IInv, NEW w \in Workers, Fail(w)
    PROVE  JournalInv'
<1> USE ConstantFacts DEF IInv, BaseInv, TypeOK, HolderInv, Holding, Recovering, Transacting,
            Owning, disk, task, Goto, TurnTo, Leave, MarkerInv, OneInterrupted,
            NoWorkOverInterrupted, Interrupted, JournalInv, UncommittedIsJournaled,
            BackupIsSettled, Saved, Unsettled, AcceptsUploads
<1>1. CASE RecoveryFails(w) BY <1>1 DEF RecoveryFails
<1>2. CASE TransactionFails(w)
  <2>1. PICK saved \in TrackedAtFailure(w) :
           /\ SaveCopies(job[w], saved \ tracked[w])
           /\ TurnTo(w, job[w], saved)
    BY <1>2 DEF TransactionFails
  <2>2. saved \in SUBSET Files
    BY <1>2, TrackedAtFailureType DEF TransactionFails
  <2>3. pc[w] # "save" => tracked[w] \subseteq saved
    BY <1>2 DEF TransactionFails, TrackedAtFailure
  <2>4. pc[w] \in {"save", "journalFiles"} => journal[job[w]] = {}
    BY <1>2 DEF TransactionFails
  <2>5. journal[job[w]] \subseteq tracked[w] \cap saved
    BY <1>2, <2>3, <2>4 DEF TransactionFails
  <2>6. Unsettled' = Unsettled
    BY <1>2 DEF TransactionFails
  <2>7. \A f \in saved \ tracked[w] :
           live[f] \notin Unsettled /\ backup'[job[w]][f] = live[f]
    BY <1>2, <2>1, <2>2, <2>5 DEF TransactionFails, SaveCopies
  <2>8. \A f \in saved \cap tracked[w] : backup'[job[w]][f] = backup[job[w]][f]
    BY <1>2, <2>1, <2>2 DEF TransactionFails, SaveCopies
  <2>9. UncommittedIsJournaled' /\ BackupIsSettled'
    <3>1. UncommittedIsJournaled'
      BY <1>2, <2>6 DEF TransactionFails
    <3>2. \A u \in Ids : \A f \in journal[u] : backup'[u][f] = backup[u][f]
      BY <1>2, <2>1, <2>5, <2>8 DEF TransactionFails, SaveCopies
    <3> QED BY <1>2, <2>6, <3>1, <3>2 DEF TransactionFails
  <2>10. /\ tracked'[w] = saved /\ todo'[w] = saved /\ job'[w] = job[w]
         /\ pc'[w] = "rollback" /\ journal' = journal /\ live' = live
    BY <1>2, <2>1 DEF TransactionFails
  <2>11. ASSUME NEW f \in saved
         PROVE  /\ backup'[job[w]][f] \notin Unsettled
                /\ f \notin journal[job[w]] => backup'[job[w]][f] = live[f]
    <3>1. CASE f \in tracked[w]
      <4>1. pc[w] \in Saved
        BY <1>2, <3>1 DEF TransactionFails, PlanInv
      <4> QED BY <1>2, <2>8, <3>1, <4>1 DEF TransactionFails
    <3>2. CASE f \notin tracked[w]
      BY <2>7, <3>2
    <3> QED BY <3>1, <3>2
  <2>12. \A v \in Workers : v # w => pc'[v] \notin Holding
    BY <1>2 DEF TransactionFails
  <2> QED BY <2>5, <2>6, <2>9, <2>10, <2>11, <2>12
<1>3. CASE CommitSyncFails(w) BY <1>3 DEF CommitSyncFails
<1>4. CASE RetireFails(w) BY <1>4 DEF RetireFails
<1>5. CASE RollbackAbandoned(w) BY <1>5 DEF RollbackAbandoned
<1>6. CASE FinishFails(w) BY <1>6 DEF FinishFails
<1>7. CASE Crash(w) BY <1>7 DEF Crash
<1>8. ASSUME NEW u \in Updates, DiscardFails(w, u) PROVE JournalInv'
  BY <1>8 DEF DiscardFails
<1>9. ASSUME NEW u \in Updates, BeginFails(w, u) PROVE JournalInv'
  BY <1>9 DEF BeginFails
<1>10. ASSUME NEW f \in Files, RollbackFileFails(w, f) PROVE JournalInv'
  BY <1>10 DEF RollbackFileFails
<1> QED BY <1>1, <1>2, <1>3, <1>4, <1>5, <1>6, <1>7, <1>8, <1>9, <1>10 DEF Fail

LEMMA PlanRecover ==
    ASSUME IInv, NEW w \in Workers, Recover(w)
    PROVE  PlanInv'
<1> USE DEF IInv, BaseInv, TypeOK, HolderInv, Holding, Recovering, Transacting, PlanInv,
            disk, task, Goto, TurnTo, Done, Todo
<1>1. CASE Enter(w) BY <1>1, ConstantsAssumption DEF Enter, ConstantsAssumption
<1>2. CASE Restored(w) BY <1>2 DEF Restored
<1>3. CASE Unmark(w) BY <1>3 DEF Unmark
<1>4. CASE Recovered(w) BY <1>4 DEF Recovered
<1>5. ASSUME NEW u \in Ids, RecoverCommitted(w, u) PROVE PlanInv'
  BY <1>5 DEF RecoverCommitted
<1>6. ASSUME NEW u \in Ids, RecoverJournaled(w, u) PROVE PlanInv'
  BY <1>6 DEF RecoverJournaled
<1>7. ASSUME NEW u \in Ids, RecoverUnjournaled(w, u) PROVE PlanInv'
  BY <1>7 DEF RecoverUnjournaled
<1>8. ASSUME NEW f \in Files, Restore(w, f) PROVE PlanInv'
  BY <1>8 DEF Restore
<1> QED BY <1>1, <1>2, <1>3, <1>4, <1>5, <1>6, <1>7, <1>8 DEF Recover

LEMMA PlanServe ==
    ASSUME IInv, NEW w \in Workers, Serve(w)
    PROVE  PlanInv'
<1> USE DEF IInv, BaseInv, TypeOK, HolderInv, Holding, Recovering, Transacting, Owning,
            PlanInv, disk, task, Goto, Leave, TurnTo, Todo, Tracks, Done, MarkerInv
<1>1. CASE ReleaseUnchanged(w) BY <1>1 DEF ReleaseUnchanged
<1>2. CASE RecoveredForRead(w) BY <1>2 DEF RecoveredForRead
<1>3. CASE SkipRecovery(w) BY <1>3 DEF SkipRecovery
<1>4. CASE ReadWorkspace(w) BY <1>4 DEF ReadWorkspace
<1>5. ASSUME NEW u \in Updates, CreateUpdate(w, u) PROVE PlanInv'
  BY <1>5 DEF CreateUpdate
<1>6. ASSUME NEW u \in Updates, DiscardUpdate(w, u) PROVE PlanInv'
  BY <1>6 DEF DiscardUpdate
<1>7. ASSUME NEW u \in Updates, NEW f \in Sources, UploadMaterial(w, u, f) PROVE PlanInv'
  BY <1>7 DEF UploadMaterial
<1>8. ASSUME NEW e \in Edits, EditWorkspace(w, e) PROVE PlanInv'
  BY <1>8 DEF EditWorkspace
<1>9. ASSUME NEW e \in Edits, NEW f \in Sources, UploadToCourse(w, f, e) PROVE PlanInv'
  BY <1>9 DEF UploadToCourse
<1> QED BY <1>1, <1>2, <1>3, <1>4, <1>5, <1>6, <1>7, <1>8, <1>9 DEF Serve

LEMMA PlanApply ==
    ASSUME IInv, NEW w \in Workers, Apply(w)
    PROVE  PlanInv'
<1> USE DEF IInv, BaseInv, TypeOK, HolderInv, Holding, Recovering, Transacting, Owning,
            PlanInv, disk, task, Goto, Leave, TurnTo, Todo, Tracks, Done, MarkerInv
<1>1. ASSUME NEW u \in Ids, BeginApply(w, u) PROVE PlanInv'
  BY <1>1 DEF BeginApply
<1>2. ASSUME NEW u \in Ids, BeginPrune(w, u) PROVE PlanInv'
  BY <1>2 DEF BeginPrune
<1>3. CASE Select(w) BY <1>3 DEF Select
<1>4. CASE SelectFails(w) BY <1>4 DEF SelectFails
<1>5. CASE Save(w) BY <1>5 DEF Save
<1>6. CASE JournalFiles(w) BY <1>6 DEF JournalFiles
<1>7. CASE Track(w) BY <1>7 DEF Track, SaveCopies
<1>8. CASE JournalAll(w)
  <2>1. /\ tracked[w] = Tracked(job[w], plan[w])
        /\ journal[job[w]] = Copied(job[w], plan[w])
        /\ \A f \in Copied(job[w], plan[w]) : live[f] = New(job[w], f)
    BY <1>8 DEF JournalAll
  <2>2. Copied(job[w], plan[w]) \subseteq plan[w]
    <3>1. job[w] \in Ids /\ plan[w] \in SUBSET Files
      BY <1>8 DEF JournalAll
    <3> QED BY <3>1, PlanFacts
  <2>3. \A f \in tracked[w] \ plan[w] : live[f] = backup[job[w]][f]
    <3>1. pc[w] \in Saved
      BY <1>8 DEF JournalAll, Saved
    <3>2. \A f \in tracked[w] : f \notin journal[job[w]] => backup[job[w]][f] = live[f]
      BY <3>1 DEF JournalInv
    <3> QED BY <2>1, <2>2, <3>2
  <2>4. \A v \in Workers : v # w => pc'[v] \notin Holding
    BY <1>8 DEF JournalAll
  <2>5. /\ pc'[w] = "write" /\ live' = live /\ backup' = backup
        /\ job' = job /\ plan' = plan /\ tracked' = tracked
        /\ journal'[job[w]] = tracked[w]
        /\ todo'[w] = plan[w] \ Copied(job[w], plan[w])
    BY <1>8 DEF JournalAll
  <2> QED BY <2>1, <2>2, <2>3, <2>4, <2>5
<1>9. CASE MarkCommitted(w) BY <1>9 DEF MarkCommitted
<1>10. CASE RetireCommitted(w) BY <1>10 DEF RetireCommitted
<1>11. ASSUME NEW f \in Files, Copy(w, f) PROVE PlanInv'
  BY <1>11 DEF Copy
<1>12. ASSUME NEW f \in Files, Write(w, f) PROVE PlanInv'
  BY <1>12 DEF Write
<1>13. ASSUME NEW f \in Files, RollbackFile(w, f) PROVE PlanInv'
  BY <1>13 DEF RollbackFile
<1>14. CASE RollbackFailed(w) BY <1>14 DEF RollbackFailed
<1>15. CASE RolledBack(w) BY <1>15 DEF RolledBack
<1>16. CASE Finish(w) BY <1>16 DEF Finish
<1> QED BY <1>1, <1>2, <1>3, <1>4, <1>5, <1>6, <1>7, <1>8, <1>9, <1>10, <1>11, <1>12, 
           <1>13, <1>14, <1>15, <1>16 DEF Apply

LEMMA PlanFail ==
    ASSUME IInv, NEW w \in Workers, Fail(w)
    PROVE  PlanInv'
<1> USE DEF IInv, BaseInv, TypeOK, HolderInv, Holding, Recovering, Transacting, Owning,
            PlanInv, disk, task, Goto, Leave, TurnTo, Todo, Tracks, Done, MarkerInv
<1>1. CASE RecoveryFails(w) BY <1>1 DEF RecoveryFails
<1>2. CASE TransactionFails(w) BY <1>2 DEF TransactionFails
<1>3. CASE CommitSyncFails(w) BY <1>3 DEF CommitSyncFails
<1>4. CASE RetireFails(w) BY <1>4 DEF RetireFails
<1>5. CASE RollbackAbandoned(w) BY <1>5 DEF RollbackAbandoned
<1>6. CASE FinishFails(w) BY <1>6 DEF FinishFails
<1>7. CASE Crash(w) BY <1>7 DEF Crash
<1>8. ASSUME NEW u \in Updates, DiscardFails(w, u) PROVE PlanInv'
  BY <1>8 DEF DiscardFails
<1>9. ASSUME NEW u \in Updates, BeginFails(w, u) PROVE PlanInv'
  BY <1>9 DEF BeginFails
<1>10. ASSUME NEW f \in Files, RollbackFileFails(w, f) PROVE PlanInv'
  BY <1>10 DEF RollbackFileFails
<1> QED BY <1>1, <1>2, <1>3, <1>4, <1>5, <1>6, <1>7, <1>8, <1>9, <1>10 DEF Fail

LEMMA IInvNext ==
    ASSUME ~CommitSyncMayFail, IInv, [Next]_vars
    PROVE  IInv'
<1>1. CASE UNCHANGED vars
  BY <1>1 DEF IInv, BaseInv, TypeOK, HolderInv, MarkerInv, OneInterrupted, Interrupted,
              NoWorkOverInterrupted, JournalInv, UncommittedIsJournaled, BackupIsSettled,
              Unsettled, PlanInv, vars
<1>2. ASSUME NEW w \in Workers, Step(w) \/ Fail(w) PROVE IInv'
  <2>1. BaseInv'
    BY <1>2, BaseRecover, BaseServe, BaseApply, BaseFail DEF IInv, Step
  <2>2. MarkerInv'
    BY <1>2, MarkerRecover, MarkerServe, MarkerApply, MarkerFail DEF IInv, Step
  <2>3. JournalInv'
    BY <1>2, JournalRecover, JournalServe, JournalApply, JournalFail DEF Step
  <2>4. PlanInv'
    BY <1>2, PlanRecover, PlanServe, PlanApply, PlanFail DEF Step
  <2> QED BY <2>1, <2>2, <2>3, <2>4 DEF IInv
<1> QED BY <1>1, <1>2 DEF Next

\* The markers, journals and saved copies on disk agree with the lock and with
\* the progress of every worker, in every reachable state: the inductive
\* invariant the theorems below are drawn from.
THEOREM Invariant == ~CommitSyncMayFail /\ Spec => []IInv
<1> SUFFICES ASSUME ~CommitSyncMayFail PROVE Spec => []IInv
  OBVIOUS
<1>1. IInv /\ [Next]_vars => IInv'
  BY IInvNext
<1> QED BY <1>1, IInvInit, PTL DEF Spec

\* One journal at most stands beside an update (course_update_recovery.py
\* refuses to choose between two).
THEOREM AtMostOneJournal == ~CommitSyncMayFail /\ Spec => []OneJournal
<1>1. IInv => OneJournal
  BY DEF IInv, MarkerInv, OneJournal
<1> QED BY <1>1, Invariant, PTL

\* Two updates are never interrupted at once, and no route works beside an
\* interrupted one.
THEOREM Serialised ==
    ~CommitSyncMayFail /\ Spec => [](OneInterrupted /\ NoWorkOverInterrupted)
<1>1. IInv => OneInterrupted /\ NoWorkOverInterrupted
  BY DEF IInv, MarkerInv
<1> QED BY <1>1, Invariant, PTL

\* Whatever an uncommitted update left in the live course is in its journal,
\* and what the journal puts back is settled content.
THEOREM Journaled ==
    ~CommitSyncMayFail /\ Spec => [](UncommittedIsJournaled /\ BackupIsSettled)
<1>1. IInv => UncommittedIsJournaled /\ BackupIsSettled
  BY DEF IInv, JournalInv
<1> QED BY <1>1, Invariant, PTL

\* Whatever crashes or fails, every reachable state can be recovered from
\* (course_update_recovery.py): the invariants of the store, together.
THEOREM Recovery == ~CommitSyncMayFail /\ Spec => []Recoverable
<1>1. TypeOK /\ OneJournal /\ OneInterrupted /\ NoWorkOverInterrupted
      /\ UncommittedIsJournaled /\ BackupIsSettled => Recoverable
  BY DEF Recoverable
<1> QED BY <1>1, TypeCorrect, AtMostOneJournal, Serialised, Journaled, PTL

\* A step that changes the live course is taken by a worker that owns an
\* uncommitted update, or by a route while nothing is marked.
LEMMA LiveChange ==
    ASSUME IInv, NEW w \in Workers, Step(w) \/ Fail(w), live' # live
    PROVE  \A u \in Ids : ~committed[u]
<1> USE DEF IInv, BaseInv, TypeOK, HolderInv, Holding, Recovering, Transacting, Owning,
            MarkerInv, OneInterrupted, NoWorkOverInterrupted, Interrupted
<1>1. \/ pc[w] \in Owning \ {"retire"}
      \/ pc[w] = "body"
  <2>1. CASE Recover(w)
    BY <2>1 DEF Recover, Enter, Restored, Unmark, Recovered, RecoverCommitted, Retire,
                RecoverJournaled, RecoverUnjournaled, Restore, disk
  <2>2. CASE Serve(w)
    BY <2>2 DEF Serve, ReleaseUnchanged, RecoveredForRead, SkipRecovery, ReadWorkspace,
                CreateUpdate, DiscardUpdate, UploadMaterial, EditWorkspace, UploadToCourse, disk
  <2>3. CASE Apply(w)
    BY <2>3 DEF Apply, BeginApply, BeginPrune, Select, SelectFails, Save, JournalFiles,
                Track, JournalAll, MarkCommitted, RetireCommitted, Retire, Copy, Write,
                RollbackFile, RollbackFailed, RolledBack, Finish, disk
  <2>4. CASE Fail(w)
    BY <2>4 DEF Fail, RecoveryFails, TransactionFails, CommitSyncFails, RetireFails,
                RollbackAbandoned, FinishFails, Crash, DiscardFails, BeginFails,
                RollbackFileFails, disk
  <2> QED BY <2>1, <2>2, <2>3, <2>4 DEF Step
<1>2. CASE pc[w] = "body"
  BY <1>2
<1>3. CASE pc[w] \in Owning \ {"retire"}
  <2>1. \A u \in Ids : committed[u] => u = job[w]
    BY <1>3
  <2> QED BY <1>3, <2>1
<1> QED BY <1>1, <1>2, <1>3

\* Recovery never rolls a committed update back, and no route touches the
\* live course before it is retired.
THEOREM CommittedIsFinal == ~CommitSyncMayFail /\ Spec => CommittedStays
<1>1. IInv /\ [Next]_vars => [\A u \in Ids : committed[u] => live' = live]_vars
  BY LiveChange DEF Next
<1> QED BY <1>1, Invariant, PTL DEF CommittedStays, Spec


\* A step that changes what is staged is one of an update that is not marked.
LEMMA StagedChange ==
    ASSUME TypeOK, NEW w \in Workers, Step(w) \/ Fail(w), NEW u \in Ids, applying[u]
    PROVE  staged'[u] = staged[u]
<1> USE DEF AcceptsUploads
<1>1. CASE Recover(w)
  BY <1>1 DEF Recover, Enter, Restored, Unmark, Recovered, RecoverCommitted, Retire,
              RecoverJournaled, RecoverUnjournaled, Restore, disk
<1>2. CASE Serve(w)
  <2>1. ASSUME NEW other \in Updates, DiscardUpdate(w, other) PROVE staged'[u] = staged[u]
    BY <2>1, ConstantFacts DEF DiscardUpdate, TypeOK
  <2>2. ASSUME NEW other \in Updates, NEW f \in Sources, UploadMaterial(w, other, f)
        PROVE  staged'[u] = staged[u]
    BY <2>2, ConstantFacts DEF UploadMaterial, TypeOK
  <2> QED
    BY <1>2, <2>1, <2>2 DEF Serve, ReleaseUnchanged, RecoveredForRead, SkipRecovery, ReadWorkspace,
                CreateUpdate, EditWorkspace, UploadToCourse, disk
<1>3. CASE Apply(w)
  BY <1>3 DEF Apply, BeginApply, BeginPrune, Select, SelectFails, Save, JournalFiles,
              Track, JournalAll, MarkCommitted, RetireCommitted, Retire, Copy, Write,
              RollbackFile, RollbackFailed, RolledBack, Finish, disk
<1>4. CASE Fail(w)
  <2>1. ASSUME NEW other \in Updates, DiscardFails(w, other) PROVE staged'[u] = staged[u]
    BY <2>1, ConstantFacts DEF DiscardFails, TypeOK
  <2> QED
    BY <1>4, <2>1 DEF Fail, RecoveryFails, TransactionFails, CommitSyncFails, RetireFails,
                RollbackAbandoned, FinishFails, Crash, BeginFails, RollbackFileFails, disk
<1> QED BY <1>1, <1>2, <1>3, <1>4 DEF Step

\* What is uploaded to an update stays as it is while an apply of it is marked,
\* through every crash and failure, for the recovery or the retry to find.
THEOREM UploadsStay == Spec => MarkedUploadsStay
<1>1. TypeOK /\ [Next]_vars => [\A u \in Ids : applying[u] => staged'[u] = staged[u]]_vars
  BY StagedChange DEF Next
<1> QED BY <1>1, TypeCorrect, PTL DEF MarkedUploadsStay, Spec
============================================================================
