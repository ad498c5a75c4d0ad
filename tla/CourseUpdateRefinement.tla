---------------------- MODULE CourseUpdateRefinement ----------------------
(* CourseUpdate implements AtomicUpdate: the proof, for every value of the *)
(* constants with a commit marker whose sync does not fail.                *)
EXTENDS CourseUpdateProofs

\* The settled content of a file, by the one update that may be marked.
SettledFacts ==
    /\ \A u \in Ids : applying[u] =>
          Settled = [f \in Files |-> IF ~committed[u] /\ f \in journal[u]
                                     THEN backup[u][f] ELSE live[f]]
    /\ Interrupted = {} => Settled = live

LEMMA SettledLemma == IInv => SettledFacts
<1> SUFFICES ASSUME IInv PROVE SettledFacts
  OBVIOUS
<1> USE DEF IInv, BaseInv, TypeOK, MarkerInv, OneInterrupted, Interrupted
<1>1. ASSUME NEW u \in Ids, applying[u]
      PROVE  Settled = [f \in Files |-> IF ~committed[u] /\ f \in journal[u]
                                        THEN backup[u][f] ELSE live[f]]
  <2>1. ASSUME NEW f \in Files, f \in journal[u], ~committed[u]
        PROVE  InDoubt(f) = {u}
    BY <1>1, <2>1 DEF InDoubt
  <2>2. ASSUME NEW f \in Files, ~(f \in journal[u] /\ ~committed[u])
        PROVE  InDoubt(f) = {}
    BY <1>1, <2>2 DEF InDoubt
  <2>3. (CHOOSE v \in {u} : TRUE) = u
    OBVIOUS
  <2>4. ASSUME NEW f \in Files
        PROVE  (IF InDoubt(f) = {} THEN live[f]
                ELSE backup[CHOOSE v \in InDoubt(f) : TRUE][f])
               = IF ~committed[u] /\ f \in journal[u] THEN backup[u][f] ELSE live[f]
    <3>1. CASE f \in journal[u] /\ ~committed[u]
      <4>1. InDoubt(f) = {u}
        BY <2>1, <3>1
      <4>2. InDoubt(f) # {} /\ (CHOOSE v \in InDoubt(f) : TRUE) = u
        BY <4>1, <2>3, Zenon
      <4> QED BY <3>1, <4>2
    <3>2. CASE ~(f \in journal[u] /\ ~committed[u])
      BY <2>2, <3>2
    <3> QED BY <3>1, <3>2
  <2> QED BY <2>4 DEF Settled
<1>2. ASSUME Interrupted = {} PROVE Settled = live
  <2>1. \A f \in Files : InDoubt(f) = {}
    BY <1>2 DEF InDoubt
  <2> QED BY <2>1 DEF Settled
<1> QED BY <1>1, <1>2 DEF SettledFacts

\* The mapping does not see a step that leaves the journals, their copies,
\* the commit markers and the live course alone.
LEMMA SettledSame ==
    ASSUME UNCHANGED <<live, committed, journal, backup>>
    PROVE  Settled' = Settled
BY DEF Settled, InDoubt

\* Where an update stands depends on its directory and commit marker alone.
LEMMA LifeSame ==
    ASSUME UNCHANGED <<committed, root>>
    PROVE  Life' = Life
BY DEF Life

\* An update that is not committed moves in the abstraction as it does on disk.
LEMMA LifeMoves ==
    ASSUME TypeOK, NEW u \in Ids, NEW place \in {"open", "discarded"}, ~committed[u],
           committed' = committed, root' = [root EXCEPT ![u] = place]
    PROVE  Life' = [Life EXCEPT ![u] = place]
<1>1. \A v \in Ids : root'[v] = IF v = u THEN place ELSE root[v]
  BY DEF TypeOK
<1>2. \A v \in Ids : Life'[v] = IF v = u THEN place ELSE Life[v]
  BY <1>1 DEF Life
<1>3. Life' = [v \in Ids |-> Life'[v]]
  BY DEF Life
<1>4. [Life EXCEPT ![u] = place] = [v \in Ids |-> IF v = u THEN place ELSE Life[v]]
  BY DEF Life
<1> QED BY <1>2, <1>3, <1>4

\* The mapping does not see a step of worker w that begins and ends outside the transaction.
LEMMA RequestSame ==
    ASSUME BaseInv, NEW w \in Workers,
           \A v \in Workers : v # w => UNCHANGED <<pc[v], job[v], plan[v]>>,
           \/ pc[w] \notin Transacting /\ pc'[w] \notin Transacting
           \/ /\ pc[w] \in Transacting /\ pc'[w] \in Transacting
              /\ UNCHANGED <<job[w], plan[w]>>
    PROVE  Doing' = Doing /\ Requested' = Requested
BY DEF Doing, Requested

Stutter == UNCHANGED <<Settled, Life, Doing, Requested>>

LEMMA RefineRecover ==
    ASSUME IInv, IInv', SettledFacts, SettledFacts', NEW w \in Workers, Recover(w)
    PROVE  Stutter
<1> USE DEF IInv, BaseInv, TypeOK, HolderInv, Holding, Recovering, Transacting, Owning,
            disk, task, Goto, TurnTo, Done, Todo
<1>1. Doing' = Doing /\ Requested' = Requested
  <2>1. pc[w] \notin Transacting /\ pc'[w] \notin Transacting
    BY DEF Recover, Enter, Restored, Unmark, Recovered, RecoverCommitted,
           RecoverJournaled, RecoverUnjournaled, Restore
  <2>2. \A v \in Workers : v # w => UNCHANGED <<pc[v], job[v], plan[v]>>
    BY DEF Recover, Enter, Restored, Unmark, Recovered, RecoverCommitted,
           RecoverJournaled, RecoverUnjournaled, Restore
  <2> QED BY <2>1, <2>2, RequestSame
<1>2. Life' = Life
  BY DEF Life, Recover, Enter, Restored, Unmark, Recovered, RecoverCommitted, Retire,
         RecoverJournaled, RecoverUnjournaled, Restore, MarkerInv
<1>3. Settled' = Settled
  <2>1. CASE Enter(w) BY <2>1, SettledSame DEF Enter
  <2>2. CASE Restored(w)
    <3>1. /\ applying[job[w]] /\ applying'[job[w]] /\ job[w] \in Ids
          /\ ~committed[job[w]] /\ journal'[job[w]] = {}
      BY <2>2 DEF Restored, RetireJournal, MarkerInv
    <3>2. \A f \in journal[job[w]] \ todo[w] : live[f] = backup[job[w]][f]
      BY <2>2 DEF Restored, JournalInv
    <3>3. todo[w] = {}
      BY <2>2 DEF Restored
    <3>4. \A f \in journal[job[w]] : live[f] = backup[job[w]][f]
      BY <3>2, <3>3
    <3> QED BY <2>2, <3>1, <3>4 DEF Restored, RetireJournal, SettledFacts
  <2>3. CASE Unmark(w) BY <2>3, SettledSame DEF Unmark
  <2>4. CASE Recovered(w) BY <2>4, SettledSame DEF Recovered
  <2>5. ASSUME NEW u \in Ids, RecoverCommitted(w, u) PROVE Settled' = Settled
    <3>1. Interrupted' = {}
      BY <2>5 DEF RecoverCommitted, Retire, Interrupted, MarkerInv, OneInterrupted
    <3>2. Settled = live
      BY <2>5 DEF RecoverCommitted, SettledFacts
    <3> QED BY <2>5, <3>1, <3>2 DEF RecoverCommitted, Retire, SettledFacts
  <2>6. ASSUME NEW u \in Ids, RecoverJournaled(w, u) PROVE Settled' = Settled
    BY <2>6, SettledSame DEF RecoverJournaled
  <2>7. ASSUME NEW u \in Ids, RecoverUnjournaled(w, u) PROVE Settled' = Settled
    BY <2>7 DEF RecoverUnjournaled, RetireJournal, SettledFacts
  <2>8. ASSUME NEW f \in Files, Restore(w, f) PROVE Settled' = Settled
    <3>1. /\ applying[job[w]] /\ applying'[job[w]] /\ job[w] \in Ids
          /\ ~committed[job[w]] /\ f \in journal[job[w]]
      BY <2>8 DEF Restore, MarkerInv, JournalInv
    <3> QED BY <2>8, <3>1 DEF Restore, SettledFacts
  <2> QED BY <2>1, <2>2, <2>3, <2>4, <2>5, <2>6, <2>7, <2>8 DEF Recover
<1> QED BY <1>1, <1>2, <1>3 DEF Stutter

\* Outside the transaction nothing is settled that is not live.
LEMMA RefineServe ==
    ASSUME IInv, IInv', SettledFacts, SettledFacts', NEW w \in Workers, Serve(w)
    PROVE  Atomic!Next \/ Stutter
<1> USE ConstantFacts DEF IInv, BaseInv, TypeOK, HolderInv, Holding, Recovering,
            Transacting, Owning, disk, task, Goto, TurnTo, Leave
<1>1. Doing' = Doing /\ Requested' = Requested
  <2>1. pc[w] \notin Transacting /\ pc'[w] \notin Transacting
    BY DEF Serve, ReleaseUnchanged, RecoveredForRead, SkipRecovery, ReadWorkspace,
           CreateUpdate, DiscardUpdate, UploadMaterial, EditWorkspace, UploadToCourse
  <2>2. \A v \in Workers : v # w => UNCHANGED <<pc[v], job[v], plan[v]>>
    BY DEF Serve, ReleaseUnchanged, RecoveredForRead, SkipRecovery, ReadWorkspace,
           CreateUpdate, DiscardUpdate, UploadMaterial, EditWorkspace, UploadToCourse
  <2> QED BY <2>1, <2>2, RequestSame
<1>2. pc[w] = "body" => \A v \in Workers : Doing[v] = None
  BY DEF Doing
<1>3. CASE ReleaseUnchanged(w)
  BY <1>1, <1>3, SettledSame, LifeSame DEF ReleaseUnchanged, Stutter
<1>4. CASE RecoveredForRead(w)
  BY <1>1, <1>4, SettledSame, LifeSame DEF RecoveredForRead, Stutter
<1>5. CASE SkipRecovery(w)
  BY <1>1, <1>5, SettledSame, LifeSame DEF SkipRecovery, Stutter
<1>6. CASE ReadWorkspace(w)
  BY <1>1, <1>6, SettledSame, LifeSame DEF ReadWorkspace, Stutter
<1>7. ASSUME NEW u \in Updates, NEW f \in Sources, UploadMaterial(w, u, f)
      PROVE  Stutter
  BY <1>1, <1>7, SettledSame, LifeSame DEF UploadMaterial, Stutter
<1>8. ASSUME NEW u \in Updates, CreateUpdate(w, u) PROVE Atomic!Next
  <2>1. u \in Ids /\ ~committed[u]
    BY <1>8 DEF CreateUpdate, MarkerInv
  <2>2. Settled' = Settled
    BY <1>8, SettledSame DEF CreateUpdate
  <2>3. Life[u] = "unborn" /\ Life' = [Life EXCEPT ![u] = "open"]
    <3>1. Life[u] = "unborn"
      BY <1>8, <2>1 DEF CreateUpdate, Life
    <3> QED BY <1>8, <2>1, <3>1, LifeMoves DEF CreateUpdate
  <2>4. Atomic!Stage(u)
    BY <1>1, <2>2, <2>3 DEF Atomic!Stage
  <2> QED BY <2>1, <2>4 DEF Atomic!Next
<1>9. ASSUME NEW u \in Updates, DiscardUpdate(w, u) PROVE Atomic!Next
  <2>1. u \in Ids /\ ~committed[u] /\ pc[w] = "body"
    BY <1>9 DEF DiscardUpdate, AcceptsUploads, MarkerInv
  <2>2. Settled' = Settled
    BY <1>9, SettledSame DEF DiscardUpdate
  <2>3. Life[u] = "open" /\ Life' = [Life EXCEPT ![u] = "discarded"]
    <3>1. Life[u] = "open"
      BY <1>9, <2>1 DEF DiscardUpdate, AcceptsUploads, Life
    <3> QED BY <1>9, <2>1, <3>1, LifeMoves DEF DiscardUpdate
  <2>4. \A v \in Workers : Doing[v] # u
    BY <1>2, <2>1
  <2>5. Atomic!Discard(u)
    BY <1>1, <2>2, <2>3, <2>4 DEF Atomic!Discard
  <2> QED BY <2>1, <2>5 DEF Atomic!Next
<1>10. ASSUME NEW e \in Edits, NEW f \in Files, pc[w] = "body",
              live' = [live EXCEPT ![f] = e],
              UNCHANGED <<root, committed, applying, journal, backup>>
       PROVE  Atomic!Next
  <2>1. Interrupted = {} /\ Interrupted' = {}
    BY <1>10 DEF MarkerInv, NoWorkOverInterrupted, Interrupted
  <2>2. Settled = live /\ Settled' = live'
    BY <2>1 DEF SettledFacts
  <2>3. Settled' = [Settled EXCEPT ![f] = e]
    BY <1>10, <2>2
  <2>4. Life' = Life
    BY <1>10, LifeSame
  <2>5. \A v \in Workers : Doing[v] = None
    BY <1>2, <1>10
  <2>6. Atomic!Edit(f, e)
    BY <1>1, <2>3, <2>4, <2>5 DEF Atomic!Edit
  <2> QED BY <2>6 DEF Atomic!Next
<1>11. ASSUME NEW e \in Edits, EditWorkspace(w, e) PROVE Atomic!Next
  <2>1. /\ pc[w] = "body" /\ live' = [live EXCEPT ![Workspace] = e]
        /\ UNCHANGED <<root, committed, applying, journal, backup>>
    BY <1>11 DEF EditWorkspace
  <2> QED BY <1>10, <2>1
<1>12. ASSUME NEW e \in Edits, NEW f \in Sources, UploadToCourse(w, f, e)
       PROVE  Atomic!Next
  <2>1. /\ pc[w] = "body" /\ live' = [live EXCEPT ![f] = e] /\ f \in Files
        /\ UNCHANGED <<root, committed, applying, journal, backup>>
    BY <1>12 DEF UploadToCourse
  <2> QED BY <1>10, <2>1
<1> QED BY <1>3, <1>4, <1>5, <1>6, <1>7, <1>8, <1>9, <1>11, <1>12 DEF Serve

\* A transaction changes live files only where its journal already says what
\* to put back, so that nothing settles before the commit marker.
LEMMA SettledApply ==
    ASSUME IInv, IInv', SettledFacts, SettledFacts', NEW w \in Workers, Apply(w),
           ~MarkCommitted(w)
    PROVE  Settled' = Settled
<1> USE DEF IInv, BaseInv, TypeOK, HolderInv, Holding, Recovering, Transacting, Owning,
            disk, task, Goto, TurnTo, Todo, Tracks, Done, Saved
<1> DEFINE Pending(g) == ~committed[job[w]] /\ g \in journal[job[w]]
<1>1. ASSUME pc[w] \in Owning, applying'[job[w]],
             \A f \in Files : (IF Pending(f)' THEN backup'[job[w]][f] ELSE live'[f])
                              = IF Pending(f) THEN backup[job[w]][f] ELSE live[f],
             job'[w] = job[w]
      PROVE  Settled' = Settled
  <2>1. job[w] \in Ids /\ applying[job[w]]
    BY <1>1 DEF MarkerInv
  <2>2. Settled = [f \in Files |-> IF Pending(f) THEN backup[job[w]][f] ELSE live[f]]
    BY <2>1 DEF SettledFacts
  <2>3. Settled' = [f \in Files |-> IF Pending(f)' THEN backup'[job[w]][f] ELSE live'[f]]
    BY <1>1, <2>1 DEF SettledFacts
  <2> QED BY <1>1, <2>2, <2>3
<1>2. ASSUME NEW u \in Ids, BeginApply(w, u) PROVE Settled' = Settled
  BY <1>2, SettledSame DEF BeginApply
<1>3. ASSUME NEW u \in Ids, BeginPrune(w, u) PROVE Settled' = Settled
  BY <1>3, SettledSame DEF BeginPrune
<1>4. CASE Select(w) BY <1>4, SettledSame DEF Select
<1>5. CASE SelectFails(w) BY <1>5, SettledSame DEF SelectFails
<1>6. CASE Finish(w) BY <1>6, SettledSame DEF Finish
<1> HIDE DEF Pending
<1>7. CASE Save(w)
  BY <1>1, <1>7 DEF Save, SaveCopies, MarkerInv, Pending
<1>8. CASE JournalFiles(w)
  BY <1>1, <1>8 DEF JournalFiles, MarkerInv, JournalInv, Pending
<1>9. ASSUME NEW f \in Files, Copy(w, f) PROVE Settled' = Settled
  BY <1>1, <1>9 DEF Copy, MarkerInv, JournalInv, Pending
<1>10. CASE Track(w)
  BY <1>1, <1>10 DEF Track, SaveCopies, MarkerInv, JournalInv, Pending
<1>11. CASE JournalAll(w)
  BY <1>1, <1>11 DEF JournalAll, MarkerInv, JournalInv, Pending
<1>12. ASSUME NEW f \in Files, Write(w, f) PROVE Settled' = Settled
  BY <1>1, <1>12 DEF Write, MarkerInv, JournalInv, Pending
<1>13. ASSUME NEW f \in Files, RollbackFile(w, f) PROVE Settled' = Settled
  BY <1>1, <1>13 DEF RollbackFile, MarkerInv, JournalInv, Pending
<1>14. CASE RolledBack(w)
  BY <1>1, <1>14 DEF RolledBack, RetireJournal, MarkerInv, JournalInv, Pending
<1>15. CASE RollbackFailed(w)
  BY <1>15 DEF RollbackFailed, Leave, MarkerInv, JournalInv, SettledFacts
<1>16. CASE RetireCommitted(w)
  BY <1>16 DEF RetireCommitted, Retire, Leave, MarkerInv, OneInterrupted, Interrupted,
               SettledFacts
<1> QED BY <1>2, <1>3, <1>4, <1>5, <1>6, <1>7, <1>8, <1>9, <1>10, <1>11, <1>12, <1>13,
           <1>14, <1>15, <1>16 DEF Apply

\* Every file of the request changes at the commit marker, and no other.
LEMMA RefineCommit ==
    ASSUME IInv, IInv', SettledFacts, SettledFacts', NEW w \in Workers, MarkCommitted(w)
    PROVE  Atomic!Commit(w)
<1> USE DEF IInv, BaseInv, TypeOK, task, Goto, Transacting
<1> DEFINE u == job[w]
<1>1. /\ u \in Ids /\ applying[u] /\ ~committed[u] /\ pc[w] = "write" /\ todo[w] = {}
      /\ u # None
  BY ConstantFacts DEF MarkCommitted, HolderInv, Owning, MarkerInv
<1>2. \A f \in plan[w] : live[f] = New(u, f)
  BY <1>1 DEF PlanInv
<1>3. \A f \in journal[u] \ plan[w] : live[f] = backup[u][f]
  BY <1>1 DEF PlanInv
<1>4. Settled = [f \in Files |-> IF f \in journal[u] THEN backup[u][f] ELSE live[f]]
  BY <1>1 DEF SettledFacts
<1>5. Settled' = live
  BY <1>1 DEF SettledFacts, MarkCommitted
<1>6. plan[w] \in SUBSET Files
  OBVIOUS
<1>7. \A f \in Files : live[f] = IF f \in plan[w] THEN New(u, f) ELSE Settled[f]
  BY <1>2, <1>3, <1>4
<1>8. Doing[w] = u /\ Requested[w] = plan[w]
  BY <1>1 DEF Doing, Requested
<1>9. Settled' = [f \in Files |-> IF f \in Requested[w] THEN New(Doing[w], f) ELSE Settled[f]]
  BY <1>5, <1>7, <1>8
<1>10. Life' = [Life EXCEPT ![Doing[w]] = "applied"]
  BY <1>1, <1>8 DEF Life, MarkCommitted
<1>11. Doing' = [Doing EXCEPT ![w] = None] /\ Requested' = [Requested EXCEPT ![w] = {}]
  BY <1>1 DEF Doing, Requested, MarkCommitted
<1> QED BY <1>1, <1>8, <1>9, <1>10, <1>11 DEF Atomic!Commit, Atomic!Finish

LEMMA RefineApply ==
    ASSUME IInv, IInv', SettledFacts, SettledFacts', NEW w \in Workers, Apply(w)
    PROVE  Atomic!Next \/ Stutter
<1> USE DEF IInv, BaseInv, TypeOK, HolderInv, Holding, Recovering, Transacting, Owning,
            disk, task, Goto, TurnTo, Todo, Tracks, Done
<1>1. CASE MarkCommitted(w)
  BY <1>1, RefineCommit DEF Atomic!Next
<1>2. ASSUME NEW u \in Ids, BeginPrune(w, u) PROVE Atomic!Next
  <2>1. ~committed[u] /\ Life[u] = "unborn"
    BY <1>2 DEF BeginPrune, MarkerInv, Life
  <2>2. Life' = [Life EXCEPT ![u] = "open"]
    BY <1>2, <2>1, LifeMoves DEF BeginPrune
  <2>3. Settled' = Settled
    BY <1>2, SettledSame DEF BeginPrune
  <2>4. Doing' = Doing /\ Requested' = Requested
    BY <1>2 DEF BeginPrune, Doing, Requested
  <2>5. Atomic!Stage(u)
    BY <2>1, <2>2, <2>3, <2>4 DEF Atomic!Stage
  <2> QED BY <2>5 DEF Atomic!Next
<1>3. CASE Select(w)
  <2>1. /\ pc[w] = "marked" /\ job[w] \in Ids /\ applying[job[w]] /\ ~committed[job[w]]
        /\ root[job[w]] = "open"
    BY <1>3 DEF Select, MarkerInv
  <2>2. PICK files \in Plans(job[w]) : plan' = [plan EXCEPT ![w] = files]
    BY <1>3 DEF Select
  <2>3. files \in SUBSET Files
    BY <2>1, <2>2, PlansType
  <2>4. Life[job[w]] = "open" /\ Life' = Life
    BY <1>3, <2>1 DEF Select, Life
  <2>5. Settled' = Settled
    BY <1>3, SettledSame DEF Select
  <2>6. \A v \in Workers : Doing[v] = None
    BY <2>1 DEF Doing
  <2>7. Doing' = [Doing EXCEPT ![w] = job[w]]
    BY <1>3, <2>1 DEF Select, Doing
  <2>8. Requested' = [Requested EXCEPT ![w] = files]
    BY <1>3, <2>1, <2>2 DEF Select, Requested
  <2>9. Atomic!Request(w, job[w], files)
    BY <2>4, <2>5, <2>6, <2>7, <2>8 DEF Atomic!Request
  <2> QED BY <2>1, <2>3, <2>9 DEF Atomic!Next
<1>4. ASSUME ~MarkCommitted(w), ~Select(w), \A u \in Ids : ~BeginPrune(w, u)
      PROVE  Stutter
  <2>1. Settled' = Settled
    BY <1>4, SettledApply
  <2>2. \A v \in Workers : v # w => UNCHANGED <<pc[v], job[v], plan[v]>>
    BY <1>4 DEF Apply, BeginApply, SelectFails, Save, JournalFiles, Copy, Track,
           JournalAll, Write, RetireCommitted, RollbackFile, RollbackFailed, RolledBack,
           Finish, Leave
  <2>3. \/ pc[w] \notin Transacting /\ pc'[w] \notin Transacting
        \/ /\ pc[w] \in Transacting /\ pc'[w] \in Transacting
           /\ UNCHANGED <<job[w], plan[w]>>
    BY <1>4 DEF Apply, BeginApply, SelectFails, Save, JournalFiles, Copy, Track,
           JournalAll, Write, RetireCommitted, RollbackFile, RollbackFailed, RolledBack,
           Finish, Leave
  <2>4. Life' = Life
    BY <1>4 DEF Life, Apply, BeginApply, SelectFails, Save, JournalFiles, Copy, Track,
           JournalAll, Write, RetireCommitted, RollbackFile, RollbackFailed, RolledBack,
           Finish, Leave, Retire, MarkerInv
  <2> QED BY <2>1, <2>2, <2>3, <2>4, RequestSame DEF Stutter
<1> QED BY <1>1, <1>2, <1>3, <1>4

\* Files saved by a transaction that then fails are not in its journal yet.
LEMMA SettledFail ==
    ASSUME ~CommitSyncMayFail, IInv, IInv', SettledFacts, SettledFacts',
           NEW w \in Workers, Fail(w)
    PROVE  Settled' = Settled
<1> USE DEF IInv, BaseInv, TypeOK, HolderInv, disk, task
<1>1. CASE TransactionFails(w)
  <2>1. /\ job[w] \in Ids /\ applying[job[w]] /\ ~committed[job[w]]
        /\ pc[w] \in Transacting
    <3>1. pc[w] \in Transacting /\ pc[w] \in Owning \ {"retire"}
      BY <1>1 DEF TransactionFails, Owning, Transacting
    <3> QED BY <3>1 DEF MarkerInv
  <2>2. journal[job[w]] \subseteq tracked[w]
    BY <2>1 DEF MarkerInv, JournalInv, Transacting
  <2>3. PICK saved : SaveCopies(job[w], saved \ tracked[w])
    BY <1>1 DEF TransactionFails
  <2>4. \A f \in journal[job[w]] : backup'[job[w]][f] = backup[job[w]][f]
    BY <2>1, <2>2, <2>3 DEF SaveCopies
  <2>5. UNCHANGED <<live, committed, journal, applying>>
    BY <1>1 DEF TransactionFails
  <2> QED BY <2>1, <2>4, <2>5 DEF SettledFacts
<1>2. ASSUME ~TransactionFails(w) PROVE Settled' = Settled
  <2>1. UNCHANGED <<live, committed, journal, backup>>
    BY <1>2 DEF Fail, RecoveryFails, CommitSyncFails, RetireFails, RollbackAbandoned,
           FinishFails, Crash, DiscardFails, BeginFails, RollbackFileFails
  <2> QED BY <2>1, SettledSame
<1> QED BY <1>1, <1>2

LEMMA RefineFail ==
    ASSUME ~CommitSyncMayFail, IInv, IInv', SettledFacts, SettledFacts',
           NEW w \in Workers, Fail(w)
    PROVE  Atomic!Next \/ Stutter
<1> USE DEF IInv, BaseInv, TypeOK, HolderInv, Holding, Recovering, Transacting, Owning,
            disk, task, Goto, TurnTo, Leave
<1>1. Settled' = Settled
  BY SettledFail
<1>2. Life' = Life
  <2>1. UNCHANGED <<committed, root>>
    BY DEF Fail, TransactionFails, RecoveryFails, CommitSyncFails, RetireFails,
           RollbackAbandoned, FinishFails, Crash, DiscardFails, BeginFails,
           RollbackFileFails
  <2> QED BY <2>1, LifeSame
<1>3. /\ \A v \in Workers : v # w => UNCHANGED <<pc[v], job[v], plan[v]>>
      /\ pc'[w] \notin Transacting
  <2>1. CASE TransactionFails(w) BY <2>1 DEF TransactionFails
  <2>2. CASE CommitSyncFails(w) BY <2>2 DEF CommitSyncFails
  <2>3. CASE Crash(w) BY <2>3 DEF Crash
  <2>4. CASE RecoveryFails(w) BY <2>4 DEF RecoveryFails
  <2>5. CASE RetireFails(w) BY <2>5 DEF RetireFails
  <2>6. CASE RollbackAbandoned(w) BY <2>6 DEF RollbackAbandoned
  <2>7. CASE FinishFails(w) BY <2>7 DEF FinishFails
  <2>8. CASE \E u \in Updates : DiscardFails(w, u) \/ BeginFails(w, u)
    BY <2>8 DEF DiscardFails, BeginFails
  <2>9. CASE \E f \in Files : RollbackFileFails(w, f)
    BY <2>9 DEF RollbackFileFails
  <2> QED BY <2>1, <2>2, <2>3, <2>4, <2>5, <2>6, <2>7, <2>8, <2>9 DEF Fail
<1>4. CASE pc[w] \in Transacting
  <2>1. Doing' = [Doing EXCEPT ![w] = None] /\ Requested' = [Requested EXCEPT ![w] = {}]
    BY <1>3, <1>4 DEF Doing, Requested
  <2>2. Doing[w] # None
    BY <1>4, ConstantFacts DEF Doing
  <2>3. Atomic!Abandon(w)
    BY <1>1, <1>2, <2>1, <2>2 DEF Atomic!Abandon, Atomic!Finish
  <2> QED BY <2>3 DEF Atomic!Next
<1>5. CASE pc[w] \notin Transacting
  <2>1. Doing' = Doing /\ Requested' = Requested
    BY <1>3, <1>5, RequestSame
  <2> QED BY <1>1, <1>2, <2>1 DEF Stutter
<1> QED BY <1>4, <1>5

\* The initial course is settled and nothing is staged.
LEMMA RefineInit == Init => Atomic!Init
<1> SUFFICES ASSUME Init PROVE Atomic!Init
  OBVIOUS
<1>1. IInv /\ Interrupted = {}
  BY IInvInit DEF Init, Interrupted
<1>2. Settled = live
  BY <1>1, SettledLemma DEF SettledFacts
<1>3. live \in [Files -> Contents]
  BY <1>1 DEF IInv, BaseInv, TypeOK
<1>4. Life = [u \in Ids |-> "unborn"]
  BY DEF Init, Life
<1>5. Doing = [w \in Workers |-> None] /\ Requested = [w \in Workers |-> {}]
  BY DEF Init, Doing, Requested, Transacting
<1> QED BY <1>2, <1>3, <1>4, <1>5 DEF Atomic!Init

LEMMA RefineNext ==
    ~CommitSyncMayFail /\ IInv /\ IInv' /\ SettledFacts /\ SettledFacts' /\ [Next]_vars
        => [Atomic!Next]_(Atomic!vars)
<1> SUFFICES ASSUME ~CommitSyncMayFail, IInv, IInv', SettledFacts, SettledFacts', [Next]_vars
             PROVE  Atomic!Next \/ Stutter
  BY DEF Stutter, Atomic!vars
<1>1. CASE UNCHANGED vars
  BY <1>1 DEF Stutter, vars, Settled, InDoubt, Life, Doing, Requested
<1>2. ASSUME NEW w \in Workers, Step(w) \/ Fail(w) PROVE Atomic!Next \/ Stutter
  <2>1. CASE Recover(w) BY <2>1, RefineRecover
  <2>2. CASE Serve(w) BY <2>2, RefineServe
  <2>3. CASE Apply(w) BY <2>3, RefineApply
  <2>4. CASE Fail(w) BY <2>4, RefineFail
  <2> QED BY <1>2, <2>1, <2>2, <2>3, <2>4 DEF Step
<1> QED BY <1>1, <1>2 DEF Next

\* The course update implements its abstract promise: through any failures,
\* crashes and recoveries of course_update_apply.py and its storage, the
\* settled course changes in all requested files at the commit marker, or in
\* none (provided that the marker cannot both land and fail).
THEOREM Refinement == ~CommitSyncMayFail /\ Spec => ImplementsAtomicUpdate
<1> SUFFICES ASSUME ~CommitSyncMayFail PROVE Spec => ImplementsAtomicUpdate
  OBVIOUS
<1>1. Spec => []IInv
  BY Invariant
<1>2. IInv /\ IInv' /\ SettledFacts /\ SettledFacts' /\ [Next]_vars
        => [Atomic!Next]_(Atomic!vars)
  BY RefineNext
<1> QED BY <1>1, <1>2, SettledLemma, RefineInit, PTL
        DEF Spec, ImplementsAtomicUpdate, Atomic!Spec
============================================================================
