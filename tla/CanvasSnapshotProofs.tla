----------------------- MODULE CanvasSnapshotProofs -----------------------
(***************************************************************************)
(* Canvas snapshots for every number of threads, processes, paths and      *)
(* writes: what is left to repair is one whole snapshot, and the           *)
(* directories implement SnapshotRegister, unless a failing sync and a     *)
(* crash may come together.                                                *)
(***************************************************************************)
EXTENDS CanvasSnapshot, WellFoundedInduction, TLAPS

\* Failures the argument allows: a sync that fails and is followed by a crash
\* can tear the snapshot that was to be restored.
SyncOrCrash == ~({"sync", "crash"} \subseteq Faults)

Writing == {"make", "build", "out", "in", "undo", "restore", "drop", "clean"}
Mending == {"mendRead", "mendWrite"}

\* A thread past the locks holds the file lock of each of its paths.
LockInv ==
    \A t \in Inside : \A x \in PathsOf(t) : holder[<<File, x>>] = t

\* Nothing on disk, or built, is newer than the last snapshot built.
AgeInv ==
    /\ \A x \in Paths : target[x] <= built /\ \A c \in backup[x] : c <= built
    /\ \A t \in Threads : new[t] <= built

\* What thread t knows about its path, by the stage it is at.
StageInv(t) ==
    LET x == path[t] IN
    /\ stage[t] \in Mending => \A y \in mended[t] : y \in PathsOf(t) /\ backup[y] = {}
    /\ stage[t] \in {"make", "build", "out"} => backup[x] = {}
    /\ stage[t] = "out" => new[t] > target[x] /\ new[t] \in Found
    /\ stage[t] = "in" =>
          /\ target[x] = Missing
          /\ old[t] \in Found \cup {Missing}
          /\ backup[x] = IF old[t] = Missing THEN {} ELSE {old[t]}
          /\ new[t] > old[t] /\ new[t] \in Found
    /\ stage[t] = "undo" =>
          /\ old[t] \in Found
          /\ backup[x] = {old[t]}
          /\ target[x] # Missing => "sync" \in Faults
    /\ stage[t] = "restore" =>
          /\ old[t] \in Found
          /\ target[x] = Missing
          /\ backup[x] = {old[t]}
    /\ stage[t] = "drop" => target[x] \in Found

\* A directory that is not being taken back is whole, or it is missing and
\* one whole snapshot can be restored.
RestInv ==
    \A x \in Paths : (\A t \in Threads : stage[t] = "undo" => path[t] # x) =>
        /\ target[x] # Torn
        /\ target[x] = Missing => /\ Torn \notin backup[x]
                                  /\ \A c, d \in backup[x] : c = d

\* A reader that repaired reads what no writer has moved; the others read
\* paths that are read without a repair.
ReadAt(t) ==
    /\ stage[t] \in {"lockPlain", "confirm"} \/ signed[t] # Missing => path[t] \in PlainReads
    /\ stage[t] = "read" /\ path[t] \notin PlainReads => backup[path[t]] = {}
ReadInv == \A t \in Threads : ReadAt(t)

IInv ==
    /\ TypeOK
    /\ LockInv
    /\ AgeInv
    /\ \A t \in Threads : StageInv(t)
    /\ RestInv
    /\ ReadInv

----------------------------------------------------------------------------
(* Types and locks                                                          *)

USE DEF Missing, Torn, Found, Content, Stages, Reading, Locking, Locks

\* The steps of a thread that leave its stage's other threads alone.
ThreadStep(t) ==
    \/ \E x \in Paths : \/ Start(t, x) \/ Check(t, x)
                       \/ MendRestore(t, x) \/ MendRemove(t, x) \/ MendFails(t, x)
    \/ Take(t) \/ Enter(t) \/ Mended(t) \/ Read(t) \/ Confirm(t) \/ Replace(t)

LEMMA FailsType ==
    ASSUME TypeOK, NEW k, Fails(k) \/ Succeeds
    PROVE  faults' \in 0..MaxFaults
BY SnapshotAssumption DEF TypeOK, Fails, Succeeds

LEMMA ForgetType ==
    ASSUME TypeOK, NEW ts \in SUBSET Threads, Forget(ts)
    PROVE  /\ holder' \in [Locks -> Threads \cup {None}]
           /\ mended' \in [Threads -> SUBSET Paths]
           /\ new' \in [Threads -> Found \cup {Missing}]
           /\ old' \in [Threads -> Content]
           /\ path' \in [Threads -> Paths]
BY DEF TypeOK, Forget, Released

LEMMA PathsOfType ==
    ASSUME TypeOK, NEW t \in Threads
    PROVE  PathsOf(t) \subseteq Paths
BY SnapshotAssumption DEF TypeOK, PathsOf

LEMMA ThreadType ==
    ASSUME TypeOK, NEW t \in Threads, ThreadStep(t)
    PROVE  TypeOK'
<1>1. ASSUME NEW x \in Paths, Start(t, x) PROVE TypeOK'
  BY <1>1 DEF TypeOK, Start, disk
<1>2. ASSUME NEW x \in Paths, Check(t, x) PROVE TypeOK'
  <2>1. ProcessOf[t] \in Processes
    BY SnapshotAssumption
  <2>2. cache[ProcessOf[t]][x] \in Content \X Content
    BY <2>1 DEF TypeOK
  <2>3. cache[ProcessOf[t]][x][2] \in Content
    BY <2>2
  <2>4. answer' \in [Threads -> Content]
    BY <1>2, <2>3 DEF TypeOK, Check
  <2>5. target[x] \in Content
    BY DEF TypeOK
  <2>6. signed' \in [Threads -> Content]
    BY <1>2, <2>5 DEF TypeOK, Check
  <2>7. stage' \in [Threads -> Stages] /\ path' \in [Threads -> Paths]
    BY <1>2 DEF TypeOK, Check
  <2> QED BY <1>2, <2>4, <2>6, <2>7 DEF TypeOK, Check, disk
<1>3. ASSUME NEW x \in Paths, MendRestore(t, x) PROVE TypeOK'
  BY <1>3 DEF TypeOK, MendRestore, thread
<1>4. ASSUME NEW x \in Paths, MendRemove(t, x) PROVE TypeOK'
  BY <1>4 DEF TypeOK, MendRemove
<1>5. ASSUME NEW x \in Paths, MendFails(t, x) PROVE TypeOK'
  <2>1. faults' \in 0..MaxFaults
    BY <1>5, FailsType DEF MendFails
  <2>2. Forget({t}) /\ {t} \in SUBSET Threads
    BY <1>5 DEF MendFails
  <2> QED BY <1>5, <2>1, <2>2, ForgetType DEF TypeOK, MendFails, Goto, disk
<1>6. ASSUME Take(t) PROVE TypeOK'
  <2>1. \A l \in Needed(t) : l \in Locks
    BY PathsOfType, SnapshotAssumption DEF Needed
  <2> QED BY <1>6, <2>1 DEF TypeOK, Take, disk, thread
<1>7. ASSUME Enter(t) PROVE TypeOK'
  BY <1>7 DEF TypeOK, Enter, disk
<1>8. ASSUME Mended(t) PROVE TypeOK'
  BY <1>8 DEF TypeOK, Mended, disk
<1>9. ASSUME Read(t) PROVE TypeOK'
  <2>1. Forget({t}) /\ {t} \in SUBSET Threads
    BY <1>9 DEF Read
  <2> QED BY <1>9, <2>1, ForgetType DEF TypeOK, Read, disk
<1>10. ASSUME Confirm(t) PROVE TypeOK'
  <2>1. ProcessOf[t] \in Processes
    BY SnapshotAssumption
  <2>2. cache' \in [Processes -> [Paths -> Content \X Content]]
    BY <1>10, <2>1 DEF TypeOK, Confirm
  <2> QED BY <1>10, <2>2 DEF TypeOK, Confirm, disk
<1>11. ASSUME MakeStaging(t) PROVE TypeOK'
  BY <1>11 DEF TypeOK, MakeStaging, Goto
<1>12. ASSUME Build(t) PROVE TypeOK'
  <2>1. faults' \in 0..MaxFaults
    BY <1>12, FailsType DEF Build
  <2>2. stage' \in [Threads -> Stages]
    BY <1>12 DEF TypeOK, Build, Goto
  <2>3. CASE UNCHANGED <<built, new>>
    BY <1>12, <2>1, <2>2, <2>3 DEF TypeOK, Build, disk
  <2>4. CASE /\ built < MaxWrites
             /\ built' = built + 1
             /\ new' = [new EXCEPT ![t] = built + 1]
    <3>1. built + 1 \in Found /\ built' \in 0..MaxWrites
      BY <2>4, SnapshotAssumption DEF TypeOK
    <3>2. new' \in [Threads -> Found \cup {Missing}]
      BY <2>4, <3>1 DEF TypeOK
    <3> QED BY <1>12, <2>1, <2>2, <3>1, <3>2 DEF TypeOK, Build, disk
  <2> QED BY <1>12, <2>3, <2>4 DEF Build
<1>13. ASSUME MoveOut(t) PROVE TypeOK'
  <2>1. faults' \in 0..MaxFaults
    BY <1>13, FailsType DEF MoveOut
  <2>2. stage' \in [Threads -> Stages]
    BY <1>13 DEF TypeOK, MoveOut, Goto
  <2>3. path[t] \in Paths /\ target[path[t]] \in Content
    BY DEF TypeOK
  <2>4. target' \in [Paths -> Content] /\ old' \in [Threads -> Content]
    BY <1>13, <2>3 DEF TypeOK, MoveOut
  <2>5. backup' \in [Paths -> SUBSET (Found \cup {Torn})]
    BY <1>13, <2>3 DEF TypeOK, MoveOut
  <2> QED BY <1>13, <2>1, <2>2, <2>4, <2>5 DEF TypeOK, MoveOut
<1>14. ASSUME MoveIn(t) PROVE TypeOK'
  <2>1. faults' \in 0..MaxFaults
    BY <1>14, FailsType DEF MoveIn
  <2>2. stage' \in [Threads -> Stages]
    BY <1>14 DEF TypeOK, MoveIn, Undoing, Goto
  <2>3. new[t] \in Content /\ path[t] \in Paths
    BY DEF TypeOK
  <2>4. target' = target \/ target' = [target EXCEPT ![path[t]] = new[t]]
    BY <1>14 DEF MoveIn
  <2>5. staging' = staging \/ staging' = [staging EXCEPT ![path[t]] = @ \ {t}]
    BY <1>14 DEF MoveIn
  <2>6. target' \in [Paths -> Content]
    BY <2>3, <2>4 DEF TypeOK
  <2>7. staging' \in [Paths -> SUBSET Threads]
    BY <2>5 DEF TypeOK
  <2> QED BY <1>14, <2>1, <2>2, <2>6, <2>7 DEF TypeOK, MoveIn
<1>15. ASSUME Undo(t) PROVE TypeOK'
  BY <1>15 DEF TypeOK, Undo, Goto
<1>16. ASSUME Restore(t) PROVE TypeOK'
  <2>1. faults' \in 0..MaxFaults
    BY <1>16, FailsType DEF Restore
  <2>2. stage' \in [Threads -> Stages]
    BY <1>16 DEF TypeOK, Restore, Goto
  <2>3. target' \in [Paths -> Content]
    BY <1>16 DEF TypeOK, Restore
  <2>5. backup' = backup \/ backup' = [backup EXCEPT ![path[t]] = @ \ {old[t]}]
    BY <1>16 DEF Restore
  <2>4. backup' \in [Paths -> SUBSET (Found \cup {Torn})]
    BY <2>5 DEF TypeOK
  <2> QED BY <1>16, <2>1, <2>2, <2>3, <2>4 DEF TypeOK, Restore
<1>17. ASSUME Drop(t) PROVE TypeOK'
  <2>1. stage' \in [Threads -> Stages]
    BY <1>17 DEF TypeOK, Drop, Goto
  <2>2. backup' \in [Paths -> SUBSET (Found \cup {Torn})]
    BY <1>17 DEF TypeOK, Drop
  <2> QED BY <1>17, <2>1, <2>2 DEF TypeOK, Drop
<1>18. ASSUME Clean(t) PROVE TypeOK'
  <2>1. Forget({t}) /\ {t} \in SUBSET Threads
    BY <1>18 DEF Clean
  <2> QED BY <1>18, <2>1, ForgetType DEF TypeOK, Clean, Goto
<1> QED BY <1>1, <1>2, <1>3, <1>4, <1>5, <1>6, <1>7, <1>8, <1>9, <1>10, <1>11, <1>12,
           <1>13, <1>14, <1>15, <1>16, <1>17, <1>18 DEF ThreadStep, Replace

LEMMA CrashType ==
    ASSUME TypeOK, NEW q \in Processes, Crash(q)
    PROVE  TypeOK'
<1> DEFINE ts == {t \in Threads : ProcessOf[t] = q}
<1>1. faults' \in 0..MaxFaults
  BY FailsType DEF Crash
<1>2. Forget(ts) /\ ts \in SUBSET Threads
  BY DEF Crash
<1>3. cache' \in [Processes -> [Paths -> Content \X Content]]
  BY DEF Crash, TypeOK
<1> QED BY <1>1, <1>2, <1>3, ForgetType DEF TypeOK, Crash, disk

\* A path has one thread inside at most.
LEMMA Exclusive ==
    ASSUME LockInv, NEW t \in Inside, NEW u \in Inside,
           NEW x, x \in PathsOf(t), x \in PathsOf(u)
    PROVE  t = u
BY DEF LockInv

LEMMA OwnPath ==
    ASSUME TypeOK, NEW t \in Threads
    PROVE  path[t] \in PathsOf(t) /\ path[t] \in Paths
BY SnapshotAssumption DEF TypeOK, PathsOf

\* A thread that goes on inside, for the same paths, keeps its locks.
LEMMA LockKept ==
    ASSUME TypeOK, LockInv, NEW t \in Threads, t \in Inside, UNCHANGED <<path, holder>>,
           NEW s \in Stages, stage' = [stage EXCEPT ![t] = s],
           s \in Reading <=> stage[t] \in Reading
    PROVE  LockInv'
<1> SUFFICES ASSUME NEW u \in Inside', NEW x \in PathsOf(u)'
             PROVE  (holder[<<File, x>>] = u)'
  BY DEF LockInv
<1>1. u \in Threads
  BY DEF Inside
<1>2. CASE u = t
  <2>1. x \in PathsOf(t)
    BY <1>2 DEF PathsOf, TypeOK
  <2> QED BY <1>2, <2>1 DEF LockInv
<1>3. CASE u # t
  <2>1. u \in Inside /\ x \in PathsOf(u)
    BY <1>1, <1>3 DEF Inside, PathsOf, TypeOK
  <2> QED BY <2>1 DEF LockInv
<1> QED BY <1>2, <1>3

\* Threads that leave drop their own locks only.
LEMMA LockLeft ==
    ASSUME TypeOK, LockInv, NEW ts \in SUBSET Threads, Forget(ts),
           \A u \in Threads \ ts : stage'[u] = stage[u],
           \A u \in ts : stage'[u] \in {"idle", "confirm"}
    PROVE  LockInv'
<1> SUFFICES ASSUME NEW u \in Inside', NEW x \in PathsOf(u)'
             PROVE  (holder[<<File, x>>] = u)'
  BY DEF LockInv
<1>1. u \in Threads \ ts
  BY DEF Inside
<1>2. u \in Inside /\ x \in PathsOf(u)
  BY <1>1 DEF Inside, PathsOf, Forget
<1>3. holder[<<File, x>>] = u /\ <<File, x>> \in Locks
  BY <1>1, <1>2, PathsOfType DEF LockInv
<1> QED BY <1>1, <1>3 DEF Forget, Released

LEMMA LockStep ==
    ASSUME TypeOK, LockInv, NEW t \in Threads, ThreadStep(t)
    PROVE  LockInv'
<1>1. CASE stage' = stage /\ path' = path /\ holder' = holder
  BY <1>1 DEF LockInv, Inside, PathsOf
<1>2. ASSUME NEW x \in Paths, Start(t, x) PROVE LockInv'
  <2>1. t \notin Inside'
    BY <1>2 DEF Start, Inside, TypeOK
  <2>2. ASSUME NEW u \in Threads, u # t
        PROVE  (u \in Inside' <=> u \in Inside) /\ PathsOf(u)' = PathsOf(u)
    BY <1>2, <2>2 DEF Start, Inside, PathsOf, TypeOK
  <2> QED BY <1>2, <2>1, <2>2 DEF LockInv, Start, Inside
<1>3. ASSUME NEW x \in Paths, Check(t, x) PROVE LockInv'
  <2>1. t \notin Inside'
    BY <1>3 DEF Check, Inside, TypeOK
  <2>2. ASSUME NEW u \in Threads, u # t
        PROVE  (u \in Inside' <=> u \in Inside) /\ PathsOf(u)' = PathsOf(u)
    BY <1>3, <2>2 DEF Check, Inside, PathsOf, TypeOK
  <2> QED BY <1>3, <2>1, <2>2 DEF LockInv, Check, Inside
<1>4. ASSUME NEW x \in Paths, MendRestore(t, x) \/ MendRemove(t, x) PROVE LockInv'
  BY <1>1, <1>4 DEF MendRestore, MendRemove, thread
<1>5. ASSUME NEW x \in Paths, MendFails(t, x) PROVE LockInv'
  <2>1. Forget({t}) /\ stage' = [stage EXCEPT ![t] = "idle"]
    BY <1>5 DEF MendFails, Goto
  <2>2. /\ \A u \in Threads \ {t} : stage'[u] = stage[u]
        /\ \A u \in {t} : stage'[u] \in {"idle", "confirm"}
    BY <2>1 DEF TypeOK
  <2>3. {t} \in SUBSET Threads
    OBVIOUS
  <2> QED BY <2>1, <2>2, <2>3, LockLeft
<1>6. ASSUME Take(t) PROVE LockInv'
  <2>1. PICK l \in Needed(t) : holder[l] = None /\ holder' = [holder EXCEPT ![l] = t]
    BY <1>6 DEF Take, CanTake
  <2> SUFFICES ASSUME NEW u \in Inside', NEW x \in PathsOf(u)'
               PROVE  (holder[<<File, x>>] = u)'
    BY DEF LockInv
  <2>2. u \in Inside /\ x \in PathsOf(u) /\ u \in Threads
    BY <1>6 DEF Take, Inside, PathsOf, thread
  <2>3. holder[<<File, x>>] = u /\ u # None
    BY <2>2, SnapshotAssumption DEF LockInv
  <2>4. <<File, x>> \in Locks /\ <<File, x>> # l
    BY <2>1, <2>2, <2>3, PathsOfType
  <2> QED BY <2>1, <2>3, <2>4 DEF TypeOK
<1>7. ASSUME Enter(t) PROVE LockInv'
  <2> SUFFICES ASSUME NEW u \in Inside', NEW x \in PathsOf(u)'
               PROVE  (holder[<<File, x>>] = u)'
    BY DEF LockInv
  <2>1. u \in Threads
    BY DEF Inside
  <2>2. CASE u = t
    <3>1. x \in PathsOf(t)
      BY <1>7, <2>2 DEF Enter, PathsOf, TypeOK
    <3>2. <<File, x>> \in Needed(t)
      BY <3>1 DEF Needed
    <3> QED BY <1>7, <2>2, <3>2 DEF Enter
  <2>3. CASE u # t
    <3>1. u \in Inside /\ x \in PathsOf(u)
      BY <1>7, <2>1, <2>3 DEF Enter, Inside, PathsOf, TypeOK
    <3> QED BY <1>7, <3>1 DEF LockInv, Enter
  <2> QED BY <2>2, <2>3
<1>8. ASSUME Mended(t) PROVE LockInv'
  <2>1. t \in Inside /\ UNCHANGED <<path, holder>>
    BY <1>8 DEF Mended, Inside
  <2>2. CASE stage[t] = "mendRead"
    <3>1. stage' = [stage EXCEPT ![t] = "read"]
      BY <1>8, <2>2 DEF Mended, TypeOK
    <3> QED BY <2>1, <2>2, <3>1, LockKept
  <2>3. CASE stage[t] = "mendWrite"
    <3>1. stage' = [stage EXCEPT ![t] = "make"]
      BY <1>8, <2>3 DEF Mended, TypeOK
    <3> QED BY <2>1, <2>3, <3>1, LockKept
  <2> QED BY <1>8, <2>2, <2>3 DEF Mended
<1>9. ASSUME Read(t) PROVE LockInv'
  <2>1. /\ \A u \in Threads \ {t} : stage'[u] = stage[u]
        /\ \A u \in {t} : stage'[u] \in {"idle", "confirm"}
    BY <1>9 DEF Read, TypeOK
  <2>2. {t} \in SUBSET Threads /\ Forget({t})
    BY <1>9 DEF Read
  <2> QED BY <2>1, <2>2, LockLeft
<1>10. ASSUME Confirm(t) PROVE LockInv'
  <2>1. t \notin Inside'
    BY <1>10 DEF Confirm, Inside, TypeOK
  <2>2. ASSUME NEW u \in Threads, u # t
        PROVE  (u \in Inside' <=> u \in Inside) /\ PathsOf(u)' = PathsOf(u)
    BY <1>10, <2>2 DEF Confirm, Inside, PathsOf, TypeOK
  <2> QED BY <1>10, <2>1, <2>2 DEF LockInv, Confirm, Inside
<1>11. ASSUME Clean(t) PROVE LockInv'
  <2>1. Forget({t}) /\ stage' = [stage EXCEPT ![t] = "idle"]
    BY <1>11 DEF Clean, Goto
  <2>2. /\ \A u \in Threads \ {t} : stage'[u] = stage[u]
        /\ \A u \in {t} : stage'[u] \in {"idle", "confirm"}
    BY <2>1 DEF TypeOK
  <2>3. {t} \in SUBSET Threads
    OBVIOUS
  <2> QED BY <2>1, <2>2, <2>3, LockLeft
<1>12. ASSUME MakeStaging(t) \/ Build(t) \/ MoveOut(t) \/ MoveIn(t) \/ Undo(t) \/ Restore(t)
              \/ Drop(t)
       PROVE  LockInv'
  <2>1. UNCHANGED <<path, holder>>
    BY <1>12 DEF MakeStaging, Build, MoveOut, MoveIn, Undo, Restore, Drop, disk
  <2>2. stage[t] \in Writing \ {"clean"} /\ t \in Inside
    BY <1>12 DEF MakeStaging, Build, MoveOut, MoveIn, Undo, Restore, Drop, Writing, Inside
  <2>3. stage' = stage \/ \E s \in Writing : stage' = [stage EXCEPT ![t] = s]
    BY <1>12 DEF MakeStaging, Build, MoveOut, MoveIn, Undo, Restore, Drop, Writing, Goto, Undoing
  <2>4. ASSUME NEW s \in Writing, stage' = [stage EXCEPT ![t] = s] PROVE LockInv'
    BY <2>1, <2>2, <2>4, LockKept DEF Writing
  <2> QED BY <1>1, <2>1, <2>3, <2>4
<1> QED BY <1>2, <1>3, <1>4, <1>5, <1>6, <1>7, <1>8, <1>9, <1>10, <1>11, <1>12
        DEF ThreadStep, Replace

LEMMA LockCrash ==
    ASSUME TypeOK, LockInv, NEW q \in Processes, Crash(q)
    PROVE  LockInv'
BY LockLeft DEF Crash, TypeOK

----------------------------------------------------------------------------
(* The directories                                                          *)

RestAt(x) ==
    (\A t \in Threads : stage[t] = "undo" => path[t] # x) =>
        /\ target[x] # Torn
        /\ target[x] = Missing => /\ Torn \notin backup[x]
                                  /\ \A c, d \in backup[x] : c = d

DiskInv == (\A t \in Threads : StageInv(t)) /\ RestInv

\* Thread u keeps its local variables.
Bystander(u) ==
    /\ stage'[u] = stage[u] /\ path'[u] = path[u] /\ mended'[u] = mended[u]
    /\ new'[u] = new[u] /\ old'[u] = old[u]

\* A thread inside that changes one of its paths disturbs no other thread
\* and no other path.
LEMMA DiskFrame ==
    ASSUME TypeOK, TypeOK', LockInv, DiskInv, NEW t \in Inside, NEW x \in PathsOf(t),
           stage[t] = "undo" => path[t] = x,
           \A y \in Paths \ {x} : target'[y] = target[y] /\ backup'[y] = backup[y],
           \A u \in Threads \ {t} : Bystander(u),
           StageInv(t)', RestAt(x)'
    PROVE  DiskInv'
<1>1. t \in Threads /\ x \in Paths
  BY PathsOfType DEF Inside
<1>2. ASSUME NEW u \in Threads, u # t PROVE StageInv(u)'
  <2>1. Bystander(u) /\ StageInv(u) /\ PathsOf(u)' = PathsOf(u)
    BY <1>2 DEF DiskInv, Bystander, PathsOf
  <2>2. CASE u \in Inside
    <3>1. ASSUME NEW y \in PathsOf(u) PROVE y \in Paths \ {x}
      BY <1>2, <2>2, Exclusive, PathsOfType
    <3>2. path[u] \in PathsOf(u)
      BY OwnPath
    <3>3. target'[path[u]] = target[path[u]] /\ backup'[path[u]] = backup[path[u]]
      BY <3>1, <3>2
    <3>4. stage[u] \in Mending =>
            \A y \in mended[u] : y \in PathsOf(u) /\ backup[y] = {} /\ backup'[y] = {}
      BY <2>1, <3>1 DEF StageInv
    <3> QED BY <2>1, <3>3, <3>4 DEF StageInv, Bystander
  <2>3. CASE u \notin Inside
    BY <1>2, <2>1, <2>3 DEF StageInv, Inside, Mending, Bystander
  <2> QED BY <2>2, <2>3
<1>3. ASSUME NEW y \in Paths, y # x PROVE RestAt(y)'
  <2>1. RestAt(y)
    BY DEF DiskInv, RestInv, RestAt
  <2>2. SUFFICES ASSUME \A v \in Threads : stage'[v] = "undo" => path'[v] # y
                 PROVE  \A v \in Threads : stage[v] = "undo" => path[v] # y
    BY <1>3, <2>1 DEF RestAt
  <2> QED BY <1>3, <2>2 DEF Bystander
<1> QED BY <1>1, <1>2, <1>3 DEF DiskInv, RestInv, RestAt

\* A step that changes no directory and moves no thread into a stage that
\* says anything about one.
LEMMA DiskSame ==
    ASSUME TypeOK, DiskInv, NEW t \in Threads, stage[t] # "undo",
           UNCHANGED <<target, backup>>,
           \A u \in Threads \ {t} : Bystander(u),
           StageInv(t)'
    PROVE  DiskInv'
<1>1. ASSUME NEW u \in Threads, u # t PROVE StageInv(u)'
  <2>1. Bystander(u) /\ StageInv(u) /\ PathsOf(u)' = PathsOf(u)
    BY <1>1 DEF DiskInv, Bystander, PathsOf
  <2> QED BY <2>1 DEF Bystander, StageInv
<1>2. ASSUME NEW y \in Paths PROVE RestAt(y)'
  <2>1. RestAt(y)
    BY DEF DiskInv, RestInv, RestAt
  <2> QED BY <2>1 DEF RestAt, Bystander
<1> QED BY <1>1, <1>2 DEF DiskInv, RestInv, RestAt

LEMMA DiskStep ==
    ASSUME TypeOK, TypeOK', LockInv, AgeInv, DiskInv, NEW t \in Threads, ThreadStep(t)
    PROVE  DiskInv'
<1> USE DEF Mending
<1>0. StageInv(t) /\ RestInv
  BY DEF DiskInv
<1>1. ASSUME NEW x \in Paths, Start(t, x) PROVE DiskInv'
  <2>1. stage'[t] \in Locking /\ stage[t] = "idle"
    BY <1>1 DEF Start, TypeOK
  <2>2. \A u \in Threads \ {t} : Bystander(u)
    BY <1>1 DEF Start, TypeOK, Bystander
  <2>3. StageInv(t)'
    BY <2>1 DEF StageInv
  <2> QED BY <1>1, <2>1, <2>2, <2>3, DiskSame DEF Start, disk
<1>2. ASSUME NEW x \in Paths, Check(t, x) PROVE DiskInv'
  <2>1. stage'[t] \in {"idle", "lockPlain"} /\ stage[t] = "idle"
    BY <1>2 DEF Check, TypeOK
  <2>2. \A u \in Threads \ {t} : Bystander(u)
    BY <1>2 DEF Check, TypeOK, Bystander
  <2>3. StageInv(t)'
    BY <2>1 DEF StageInv
  <2> QED BY <1>2, <2>1, <2>2, <2>3, DiskSame DEF Check, disk
<1>3. ASSUME Take(t) PROVE DiskInv'
  <2>1. \A u \in Threads : Bystander(u)
    BY <1>3 DEF Take, thread, Bystander
  <2>2. stage[t] \in Locking /\ stage'[t] = stage[t]
    BY <1>3 DEF Take, thread
  <2>3. StageInv(t)'
    BY <2>2 DEF StageInv
  <2> QED BY <1>3, <2>1, <2>2, <2>3, DiskSame DEF Take, disk
<1>4. ASSUME Enter(t) PROVE DiskInv'
  <2>1. stage'[t] \in Mending \cup {"read"} /\ stage[t] \in Locking /\ mended'[t] = {}
    BY <1>4 DEF Enter, TypeOK
  <2>2. \A u \in Threads \ {t} : Bystander(u)
    BY <1>4 DEF Enter, TypeOK, Bystander
  <2>3. StageInv(t)'
    BY <2>1 DEF StageInv
  <2> QED BY <1>4, <2>1, <2>2, <2>3, DiskSame DEF Enter, disk
<1>5. ASSUME NEW x \in Paths, MendRestore(t, x) PROVE DiskInv'
  <2>1. PICK c \in backup[x] : /\ target' = [target EXCEPT ![x] = c]
                               /\ backup' = [backup EXCEPT ![x] = @ \ {c}]
    BY <1>5 DEF MendRestore
  <2>2. t \in Inside /\ x \in PathsOf(t) \ mended[t] /\ target[x] = Missing
    BY <1>5 DEF MendRestore, Inside
  <2>3. UNCHANGED thread /\ \A u \in Threads : Bystander(u)
    BY <1>5 DEF MendRestore, thread, Bystander
  <2>4. \A u \in Threads : stage[u] = "undo" => path[u] # x
    <3> SUFFICES ASSUME NEW u \in Threads, stage[u] = "undo", path[u] = x PROVE FALSE
      OBVIOUS
    <3>1. u \in Inside /\ x \in PathsOf(u)
      BY OwnPath DEF Inside
    <3> QED BY <1>5, <2>2, <3>1, Exclusive DEF MendRestore
  <2>5. c # Torn /\ c # Missing
    BY <1>0, <2>2, <2>4 DEF RestInv, TypeOK
  <2>6. StageInv(t)'
    <3>1. stage[t] \in Mending
      BY <1>5 DEF MendRestore
    <3>2. \A y \in mended[t] : y \in PathsOf(t) /\ backup'[y] = {}
      BY <1>0, <2>1, <2>2, <3>1, PathsOfType DEF StageInv, TypeOK
    <3> QED BY <2>3, <3>1, <3>2 DEF StageInv, thread, PathsOf
  <2>7. target'[x] = c
    BY <2>1 DEF TypeOK
  <2>8. RestAt(x)'
    BY <2>5, <2>7 DEF RestAt
  <2>9. \A y \in Paths \ {x} : target'[y] = target[y] /\ backup'[y] = backup[y]
    BY <2>1 DEF TypeOK
  <2>10. stage[t] # "undo"
    BY <1>5 DEF MendRestore
  <2> QED BY <2>2, <2>3, <2>6, <2>8, <2>9, <2>10, DiskFrame
<1>6. ASSUME NEW x \in Paths, MendRemove(t, x) PROVE DiskInv'
  <2>1. t \in Inside /\ x \in PathsOf(t) /\ stage[t] \in Mending
    BY <1>6 DEF MendRemove, Inside
  <2>2. \A u \in Threads \ {t} : Bystander(u)
    BY <1>6 DEF MendRemove, Bystander, TypeOK
  <2>3. backup'[x] = {} /\ \A y \in Paths \ {x} : target'[y] = target[y] /\ backup'[y] = backup[y]
    BY <1>6 DEF MendRemove, TypeOK
  <2>4. StageInv(t)'
    <3>1. mended'[t] = mended[t] \cup {x}
      BY <1>6 DEF MendRemove, TypeOK
    <3>2. \A y \in mended'[t] : y \in PathsOf(t) /\ backup'[y] = {}
      BY <1>0, <2>1, <2>3, <3>1, PathsOfType DEF StageInv
    <3>3. UNCHANGED <<stage, path>>
      BY <1>6 DEF MendRemove
    <3> QED BY <2>1, <3>2, <3>3 DEF StageInv, PathsOf
  <2>5. RestAt(x)'
    <3>1. (\A u \in Threads : stage[u] = "undo" => path[u] # x) => target[x] # Torn
      BY <1>0 DEF RestInv
    <3> QED BY <1>6, <2>3, <3>1 DEF RestAt, MendRemove
  <2> QED BY <2>1, <2>2, <2>3, <2>4, <2>5, DiskFrame
<1>7. ASSUME NEW x \in Paths, MendFails(t, x) PROVE DiskInv'
  <2>1. stage'[t] = "idle" /\ stage[t] \in Mending
    BY <1>7 DEF MendFails, Goto, TypeOK
  <2>2. \A u \in Threads \ {t} : Bystander(u)
    BY <1>7 DEF MendFails, Goto, Forget, TypeOK, Bystander
  <2>3. StageInv(t)'
    BY <2>1 DEF StageInv
  <2> QED BY <1>7, <2>1, <2>2, <2>3, DiskSame DEF MendFails, disk
<1>8. ASSUME Mended(t) PROVE DiskInv'
  <2>1. stage'[t] = (IF stage[t] = "mendRead" THEN "read" ELSE "make") /\ stage[t] \in Mending
    BY <1>8 DEF Mended, TypeOK
  <2>2. \A u \in Threads \ {t} : Bystander(u)
    BY <1>8 DEF Mended, TypeOK, Bystander
  <2>3. backup[path[t]] = {}
    BY <1>0, <1>8, OwnPath DEF StageInv, Mended
  <2>4. StageInv(t)'
    BY <1>8, <2>1, <2>3 DEF StageInv, Mended, disk
  <2> QED BY <1>8, <2>1, <2>2, <2>4, DiskSame DEF Mended, disk
<1>9. ASSUME Read(t) PROVE DiskInv'
  <2>1. stage'[t] \in {"idle", "confirm"} /\ stage[t] = "read"
    BY <1>9 DEF Read, TypeOK
  <2>2. \A u \in Threads \ {t} : Bystander(u)
    BY <1>9 DEF Read, Forget, TypeOK, Bystander
  <2>3. StageInv(t)'
    BY <2>1 DEF StageInv
  <2> QED BY <1>9, <2>1, <2>2, <2>3, DiskSame DEF Read, disk
<1>10. ASSUME Confirm(t) PROVE DiskInv'
  <2>1. stage'[t] = "idle" /\ stage[t] = "confirm"
    BY <1>10 DEF Confirm, TypeOK
  <2>2. \A u \in Threads \ {t} : Bystander(u)
    BY <1>10 DEF Confirm, TypeOK, Bystander
  <2>3. StageInv(t)'
    BY <2>1 DEF StageInv
  <2> QED BY <1>10, <2>1, <2>2, <2>3, DiskSame DEF Confirm, disk
<1>11. ASSUME MakeStaging(t) PROVE DiskInv'
  <2>1. stage'[t] = "build" /\ stage[t] = "make"
    BY <1>11 DEF MakeStaging, Goto, TypeOK
  <2>2. \A u \in Threads \ {t} : Bystander(u)
    BY <1>11 DEF MakeStaging, Goto, TypeOK, Bystander
  <2>3. StageInv(t)'
    BY <1>0, <1>11, <2>1 DEF StageInv, MakeStaging
  <2> QED BY <1>11, <2>1, <2>2, <2>3, DiskSame DEF MakeStaging
<1>12. ASSUME Build(t) PROVE DiskInv'
  <2>1. stage[t] = "build" /\ UNCHANGED <<target, backup, path>>
    BY <1>12 DEF Build, disk
  <2>2. \A u \in Threads \ {t} : Bystander(u)
    BY <1>12 DEF Build, Goto, TypeOK, Bystander
  <2>3. \/ stage'[t] = "clean"
        \/ stage'[t] = "out" /\ new'[t] = built + 1 /\ built < MaxWrites
    BY <1>12 DEF Build, Goto, TypeOK
  <2>4. path[t] \in Paths /\ target[path[t]] <= built /\ target[path[t]] \in Int /\ built \in Nat
    <3>0. built \in 0..MaxWrites /\ path[t] \in Paths /\ target \in [Paths -> Content]
      BY DEF TypeOK
    <3>1. path[t] \in Paths /\ built \in Nat
      BY <3>0, SnapshotAssumption
    <3>3. target[path[t]] \in Content
      BY <3>0
    <3>2. target[path[t]] \in Int
      BY <3>3, SnapshotAssumption
    <3> QED BY <3>1, <3>2 DEF AgeInv
  <2>5. StageInv(t)'
    BY <1>0, <2>1, <2>3, <2>4, SnapshotAssumption DEF StageInv
  <2> QED BY <2>1, <2>2, <2>5, DiskSame
<1>13. ASSUME t \in Inside, stage[t] \in Writing, UNCHANGED path,
              \A y \in Paths \ {path[t]} : target'[y] = target[y] /\ backup'[y] = backup[y],
              \A u \in Threads \ {t} : Bystander(u),
              StageInv(t)', RestAt(path[t])'
       PROVE  DiskInv'
  BY <1>13, OwnPath, DiskFrame
<1> DEFINE x == path[t]
<1>14. x \in Paths /\ target[x] \in Content
  BY DEF TypeOK
<1>15. ASSUME MoveOut(t) PROVE DiskInv'
  <2>1. stage[t] = "out" /\ t \in Inside /\ UNCHANGED <<path, new>> /\ stage[t] \in Writing
    BY <1>15 DEF MoveOut, Inside, Writing
  <2>2. \A u \in Threads \ {t} : Bystander(u)
    BY <1>15 DEF MoveOut, Goto, TypeOK, Bystander
  <2>3. \A y \in Paths \ {x} : target'[y] = target[y] /\ backup'[y] = backup[y]
    BY <1>15 DEF MoveOut, TypeOK
  <2>4. backup[x] = {} /\ new[t] > target[x] /\ new[t] \in Found /\ target[x] # Torn
    <3>1. \A u \in Threads : stage[u] = "undo" => path[u] # x
      <4> SUFFICES ASSUME NEW u \in Threads, stage[u] = "undo", path[u] = x PROVE FALSE
        OBVIOUS
      <4>1. u \in Inside /\ x \in PathsOf(u) /\ x \in PathsOf(t)
        BY OwnPath DEF Inside
      <4> QED BY <2>1, <4>1, Exclusive
    <3> QED BY <1>0, <1>14, <2>1, <3>1 DEF StageInv, RestInv
  <2>5. CASE target[x] = Missing /\ stage'[t] = "in" /\ old'[t] = Missing
             /\ UNCHANGED <<target, backup>>
    <3>1. StageInv(t)'
      BY <2>1, <2>4, <2>5 DEF StageInv
    <3>2. RestAt(x)'
      BY <2>1, <2>4, <2>5 DEF RestAt
    <3> QED BY <1>13, <2>1, <2>2, <2>3, <3>1, <3>2
  <2>6. CASE target[x] # Missing /\ stage'[t] \in {"in", "undo"} /\ old'[t] = target[x]
             /\ target'[x] = Missing /\ backup'[x] = {target[x]}
    <3>1. StageInv(t)'
      BY <1>14, <2>1, <2>4, <2>6 DEF StageInv
    <3>2. RestAt(x)'
      BY <2>1, <2>4, <2>6 DEF RestAt
    <3> QED BY <1>13, <2>1, <2>2, <2>3, <3>1, <3>2
  <2>7. CASE target[x] # Missing /\ stage'[t] = "clean" /\ UNCHANGED <<target, backup>>
    <3>1. StageInv(t)'
      BY <2>7 DEF StageInv
    <3>2. RestAt(x)'
      BY <2>1, <2>4, <2>7 DEF RestAt
    <3> QED BY <1>13, <2>1, <2>2, <2>3, <3>1, <3>2
  <2>8. \/ target[x] = Missing /\ stage'[t] = "in" /\ old'[t] = Missing /\ UNCHANGED <<target, backup>>
        \/ target[x] # Missing /\ stage'[t] \in {"in", "undo"} /\ old'[t] = target[x]
             /\ target'[x] = Missing /\ backup'[x] = backup[x] \cup {target[x]}
        \/ target[x] # Missing /\ stage'[t] = "clean" /\ UNCHANGED <<target, backup>>
    BY <1>14, <1>15 DEF MoveOut, Goto, TypeOK
  <2> QED BY <2>4, <2>5, <2>6, <2>7, <2>8
<1>16. ASSUME MoveIn(t) PROVE DiskInv'
  <2>1. stage[t] = "in" /\ t \in Inside /\ UNCHANGED <<path, new, old, backup>> /\ stage[t] \in Writing
    BY <1>16 DEF MoveIn, Inside, Writing
  <2>2. \A u \in Threads \ {t} : Bystander(u)
    BY <1>16 DEF MoveIn, Goto, Undoing, TypeOK, Bystander
  <2>3. \A y \in Paths \ {x} : target'[y] = target[y] /\ backup'[y] = backup[y]
    BY <1>16 DEF MoveIn, TypeOK
  <2>4. /\ target[x] = Missing
        /\ old[t] \in Found \cup {Missing}
        /\ backup[x] = IF old[t] = Missing THEN {} ELSE {old[t]}
        /\ new[t] \in Found
    BY <1>0, <2>1 DEF StageInv
  <2>5. \/ target'[x] = new[t] /\ stage'[t] = "drop"
        \/ target'[x] = new[t] /\ "sync" \in Faults
             /\ stage'[t] = IF old[t] = Missing THEN "clean" ELSE "undo"
        \/ target' = target /\ stage'[t] = IF old[t] = Missing THEN "clean" ELSE "undo"
    BY <1>14, <1>16 DEF MoveIn, Goto, Undoing, Fails, TypeOK
  <2>6. StageInv(t)'
    BY <2>1, <2>4, <2>5 DEF StageInv
  <2>7. RestAt(x)'
    BY <2>1, <2>4, <2>5 DEF RestAt
  <2> QED BY <1>13, <2>1, <2>2, <2>3, <2>6, <2>7
<1>17. ASSUME Undo(t) PROVE DiskInv'
  <2>1. stage[t] = "undo" /\ t \in Inside /\ UNCHANGED <<path, new, old, backup>> /\ stage[t] \in Writing
    BY <1>17 DEF Undo, Inside, Writing
  <2>2. \A u \in Threads \ {t} : Bystander(u)
    BY <1>17 DEF Undo, Goto, TypeOK, Bystander
  <2>3. \A y \in Paths \ {x} : target'[y] = target[y] /\ backup'[y] = backup[y]
    BY <1>17 DEF Undo, TypeOK
  <2>4. \/ target[x] \in Found /\ target'[x] = Torn /\ stage'[t] = "undo"
        \/ target[x] \notin Found /\ target'[x] = Missing /\ stage'[t] = "restore"
    BY <1>14, <1>17 DEF Undo, Goto, TypeOK
  <2>5. old[t] \in Found /\ backup[x] = {old[t]} /\ (target[x] # Missing => "sync" \in Faults)
    BY <1>0, <2>1 DEF StageInv
  <2>6. StageInv(t)'
    BY <2>1, <2>4, <2>5 DEF StageInv
  <2>7. RestAt(x)'
    BY <2>1, <2>4, <2>5 DEF RestAt
  <2> QED BY <1>13, <2>1, <2>2, <2>3, <2>6, <2>7
<1>18. ASSUME Restore(t) PROVE DiskInv'
  <2>1. stage[t] = "restore" /\ t \in Inside /\ UNCHANGED <<path, new, old>> /\ stage[t] \in Writing
    BY <1>18 DEF Restore, Inside, Writing
  <2>2. \A u \in Threads \ {t} : Bystander(u)
    BY <1>18 DEF Restore, Goto, TypeOK, Bystander
  <2>3. \A y \in Paths \ {x} : target'[y] = target[y] /\ backup'[y] = backup[y]
    BY <1>18 DEF Restore, TypeOK
  <2>4. /\ stage'[t] = "clean"
        /\ \/ target'[x] = old[t]
           \/ target' = target /\ backup' = backup
    BY <1>14, <1>18 DEF Restore, Goto, TypeOK
  <2>5. old[t] \in Found /\ backup[x] = {old[t]} /\ target[x] = Missing
    BY <1>0, <2>1 DEF StageInv
  <2>6. StageInv(t)'
    BY <2>4 DEF StageInv
  <2>7. RestAt(x)'
    BY <2>1, <2>4, <2>5 DEF RestAt
  <2> QED BY <1>13, <2>1, <2>2, <2>3, <2>6, <2>7
<1>19. ASSUME Drop(t) PROVE DiskInv'
  <2>1. stage[t] = "drop" /\ t \in Inside /\ UNCHANGED <<path, new, old, target>> /\ stage[t] \in Writing
    BY <1>19 DEF Drop, Inside, Writing
  <2>2. \A u \in Threads \ {t} : Bystander(u)
    BY <1>19 DEF Drop, Goto, TypeOK, Bystander
  <2>3. \A y \in Paths \ {x} : target'[y] = target[y] /\ backup'[y] = backup[y]
    BY <1>19 DEF Drop, TypeOK
  <2>4. target[x] \in Found /\ stage'[t] \in {"drop", "clean"}
    BY <1>0, <1>19, <2>1 DEF StageInv, Drop, Goto, TypeOK
  <2>5. StageInv(t)'
    BY <2>1, <2>4 DEF StageInv
  <2>6. RestAt(x)'
    BY <2>1, <2>4 DEF RestAt
  <2> QED BY <1>13, <2>1, <2>2, <2>3, <2>5, <2>6
<1>20. ASSUME Clean(t) PROVE DiskInv'
  <2>1. stage'[t] = "idle" /\ stage[t] = "clean"
    BY <1>20 DEF Clean, Goto, TypeOK
  <2>2. \A u \in Threads \ {t} : Bystander(u)
    BY <1>20 DEF Clean, Goto, Forget, TypeOK, Bystander
  <2>3. StageInv(t)'
    BY <2>1 DEF StageInv
  <2> QED BY <1>20, <2>1, <2>2, <2>3, DiskSame DEF Clean
<1> QED BY <1>1, <1>2, <1>3, <1>4, <1>5, <1>6, <1>7, <1>8, <1>9, <1>10, <1>11, <1>12,
           <1>15, <1>16, <1>17, <1>18, <1>19, <1>20 DEF ThreadStep, Replace

LEMMA DiskCrash ==
    ASSUME SyncOrCrash, TypeOK, DiskInv, NEW q \in Processes, Crash(q)
    PROVE  DiskInv'
<1> DEFINE ts == {t \in Threads : ProcessOf[t] = q}
<1>1. UNCHANGED <<target, backup, path>> /\ "sync" \notin Faults
  BY DEF Crash, disk, Forget, Fails, SyncOrCrash
<1>2. ASSUME NEW t \in Threads PROVE StageInv(t)'
  <2>1. CASE t \in ts
    BY <2>1 DEF Crash, StageInv, Mending
  <2>2. CASE t \notin ts
    <3>1. Bystander(t) /\ StageInv(t) /\ PathsOf(t)' = PathsOf(t)
      BY <2>2 DEF Crash, Forget, DiskInv, Bystander, PathsOf
    <3> QED BY <1>1, <3>1 DEF StageInv, Bystander
  <2> QED BY <2>1, <2>2
<1>3. ASSUME NEW x \in Paths PROVE RestAt(x)
  <2>1. CASE \A t \in Threads : stage[t] = "undo" => path[t] # x
    BY <2>1 DEF DiskInv, RestInv, RestAt
  <2>2. ASSUME NEW t \in Threads, stage[t] = "undo", path[t] = x PROVE RestAt(x)
    <3>1. old[t] \in Found /\ backup[x] = {old[t]} /\ target[x] = Missing
      BY <1>1, <2>2 DEF DiskInv, StageInv
    <3> QED BY <3>1 DEF RestAt
  <2> QED BY <2>1, <2>2
<1>4. ASSUME NEW x \in Paths PROVE RestAt(x)'
  <2>1. CASE \A t \in Threads : stage[t] = "undo" => path[t] # x
    BY <1>1, <1>3, <2>1 DEF RestAt
  <2>2. ASSUME NEW t \in Threads, stage[t] = "undo", path[t] = x PROVE RestAt(x)'
    <3>1. old[t] \in Found /\ backup[x] = {old[t]} /\ target[x] = Missing
      BY <1>1, <2>2 DEF DiskInv, StageInv
    <3> QED BY <1>1, <3>1 DEF RestAt
  <2> QED BY <2>1, <2>2
<1> QED BY <1>2, <1>4 DEF DiskInv, RestInv, RestAt

----------------------------------------------------------------------------
(* Ages and readers                                                         *)

LEMMA AgeSame ==
    ASSUME AgeInv, UNCHANGED <<target, backup, built>>,
           \A u \in Threads : new'[u] = new[u] \/ new'[u] = Missing,
           built \in Nat
    PROVE  AgeInv'
BY DEF AgeInv

LEMMA AgeStep ==
    ASSUME TypeOK, TypeOK', AgeInv, DiskInv, NEW t \in Threads, ThreadStep(t)
    PROVE  AgeInv'
<1>0. built \in 0..MaxWrites /\ built \in Nat
  BY SnapshotAssumption DEF TypeOK
<1>1. ASSUME NEW x \in Paths, Start(t, x) \/ Check(t, x) \/ MendFails(t, x)
      PROVE  AgeInv'
  <2>1. UNCHANGED <<target, backup, built>>
    BY <1>1 DEF Start, Check, MendFails, disk
  <2>2. \A u \in Threads : new'[u] = new[u] \/ new'[u] = Missing
    BY <1>1 DEF Start, Check, MendFails, Forget
  <2> QED BY <1>0, <2>1, <2>2, AgeSame
<1>2. ASSUME NEW x \in Paths, MendRestore(t, x) PROVE AgeInv'
  <2>1. PICK c \in backup[x] : /\ target' = [target EXCEPT ![x] = c]
                               /\ backup' = [backup EXCEPT ![x] = @ \ {c}]
    BY <1>2 DEF MendRestore
  <2>2. UNCHANGED <<new, built>>
    BY <1>2 DEF MendRestore, thread
  <2> QED BY <2>1, <2>2 DEF AgeInv, TypeOK
<1>3. ASSUME NEW x \in Paths, MendRemove(t, x) PROVE AgeInv'
  BY <1>3 DEF MendRemove, AgeInv, TypeOK
<1>4. ASSUME Take(t) \/ Enter(t) \/ Mended(t) \/ Read(t) \/ Confirm(t) \/ MakeStaging(t) \/ Clean(t)
      PROVE  AgeInv'
  <2>1. UNCHANGED <<target, backup, built>>
    BY <1>4 DEF Take, Enter, Mended, Read, Confirm, MakeStaging, Clean, disk
  <2>2. \A u \in Threads : new'[u] = new[u] \/ new'[u] = Missing
    BY <1>4 DEF Take, Enter, Mended, Read, Confirm, MakeStaging, Clean, thread, Forget
  <2> QED BY <1>0, <2>1, <2>2, AgeSame
<1>5. ASSUME Build(t) PROVE AgeInv'
  <2>1. CASE UNCHANGED <<built, new>>
    BY <1>0, <1>5, <2>1, AgeSame DEF Build, disk
  <2>2. CASE built' = built + 1 /\ new' = [new EXCEPT ![t] = built + 1]
    <3>1. UNCHANGED <<target, backup>>
      BY <1>5 DEF Build, disk
    <3>2. ASSUME NEW x \in Paths PROVE target[x] <= built + 1 /\ \A c \in backup[x] : c <= built + 1
      <4>1. target[x] \in Int /\ \A c \in backup[x] : c \in Int
        BY SnapshotAssumption DEF TypeOK
      <4> QED BY <1>0, <4>1 DEF AgeInv
    <3>3. ASSUME NEW u \in Threads PROVE new'[u] <= built + 1
      <4>1. new[u] \in Int
        BY SnapshotAssumption DEF TypeOK
      <4> QED BY <1>0, <2>2, <4>1 DEF AgeInv, TypeOK
    <3> QED BY <2>2, <3>1, <3>2, <3>3 DEF AgeInv
  <2> QED BY <1>5, <2>1, <2>2 DEF Build
<1> DEFINE x == path[t]
<1>6. x \in Paths
  BY DEF TypeOK
<1>7. ASSUME UNCHANGED <<new, built>>,
             \A y \in Paths \ {x} : target'[y] = target[y] /\ backup'[y] = backup[y],
             target'[x] <= built, \A c \in backup'[x] : c <= built
      PROVE  AgeInv'
  BY <1>6, <1>7 DEF AgeInv
<1>8. target[x] <= built /\ (\A c \in backup[x] : c <= built) /\ new[t] <= built
      /\ Missing <= built /\ Torn <= built
  BY <1>0, <1>6 DEF AgeInv
<1>9. ASSUME MoveOut(t) PROVE AgeInv'
  BY <1>6, <1>7, <1>8, <1>9 DEF MoveOut, TypeOK
<1>10. ASSUME MoveIn(t) PROVE AgeInv'
  BY <1>6, <1>7, <1>8, <1>10 DEF MoveIn, TypeOK
<1>11. ASSUME Undo(t) PROVE AgeInv'
  BY <1>6, <1>7, <1>8, <1>11 DEF Undo, TypeOK
<1>12. ASSUME Restore(t) PROVE AgeInv'
  <2>1. old[t] \in backup[x]
    BY <1>12 DEF Restore, DiskInv, StageInv
  <2> QED BY <1>6, <1>7, <1>8, <1>12, <2>1 DEF Restore, TypeOK
<1>13. ASSUME Drop(t) PROVE AgeInv'
  BY <1>6, <1>7, <1>8, <1>13 DEF Drop, TypeOK
<1> QED BY <1>1, <1>2, <1>3, <1>4, <1>5, <1>9, <1>10, <1>11, <1>12, <1>13 DEF ThreadStep, Replace

LEMMA ReadStep ==
    ASSUME TypeOK, TypeOK', LockInv, DiskInv, ReadInv, NEW t \in Threads, ThreadStep(t)
    PROVE  ReadInv'
<1>0. \A u \in Threads : ReadAt(u)
  BY DEF ReadInv
<1>1. ASSUME NEW u \in Threads, u # t PROVE ReadAt(u)'
  <2>1. stage'[u] = stage[u] /\ path'[u] = path[u] /\ signed'[u] = signed[u]
    BY <1>1 DEF ThreadStep, Replace, Start, Check, MendRestore, MendRemove, MendFails, Take, Enter,
                Mended, Read, Confirm, MakeStaging, Build, MoveOut, MoveIn, Undo, Undoing, Restore,
                Drop, Clean, Goto, Forget, thread, TypeOK
  <2>2. ASSUME stage[u] = "read" PROVE backup'[path[u]] = backup[path[u]]
    <3>1. u \in Inside /\ path[u] \in PathsOf(u) /\ path[u] \in Paths
      BY <2>2, OwnPath DEF Inside
    <3>2. ASSUME NEW y \in PathsOf(t), t \in Inside PROVE y # path[u]
      BY <1>1, <3>1, <3>2, Exclusive
    <3>3. ASSUME NEW y \in Paths, MendRestore(t, y) \/ MendRemove(t, y)
          PROVE  backup'[path[u]] = backup[path[u]]
      <4>1. y \in PathsOf(t) /\ t \in Inside
        BY <3>3 DEF MendRestore, MendRemove, Inside
      <4> QED BY <3>1, <3>2, <3>3, <4>1 DEF MendRestore, MendRemove, TypeOK
    <3>4. ASSUME MoveOut(t) \/ Restore(t) \/ Drop(t)
          PROVE  backup'[path[u]] = backup[path[u]]
      <4>1. t \in Inside /\ path[t] \in PathsOf(t)
        BY <3>4, OwnPath DEF MoveOut, Restore, Drop, Inside
      <4> QED BY <3>1, <3>2, <3>4, <4>1 DEF MoveOut, Restore, Drop, TypeOK
    <3>5. \/ UNCHANGED backup
          \/ \E y \in Paths : MendRestore(t, y) \/ MendRemove(t, y)
          \/ MoveOut(t) \/ Restore(t) \/ Drop(t)
      BY DEF ThreadStep, Replace, Start, Check, MendFails, Take, Enter, Mended, Read,
             Confirm, MakeStaging, Build, MoveIn, Undo, Clean, disk
    <3> QED BY <3>3, <3>4, <3>5
  <2> QED BY <1>0, <2>1, <2>2 DEF ReadAt
<1>2. ReadAt(t)'
  <2>1. CASE Mended(t)
    <3>1. stage'[t] = (IF stage[t] = "mendRead" THEN "read" ELSE "make")
      BY <2>1 DEF Mended, TypeOK
    <3>2. backup[path[t]] = {}
      BY <2>1, OwnPath DEF Mended, DiskInv, StageInv, Mending
    <3> QED BY <1>0, <2>1, <3>1, <3>2 DEF Mended, disk, ReadAt
  <2>2. CASE Read(t)
    BY <1>0, <2>2 DEF Read, TypeOK, ReadAt, Forget
  <2>3. CASE Enter(t)
    BY <1>0, <2>3 DEF Enter, TypeOK, ReadAt
  <2>4. ASSUME NEW y \in Paths, Start(t, y) PROVE ReadAt(t)'
    BY <2>4 DEF Start, TypeOK, ReadAt
  <2>5. ASSUME NEW y \in Paths, Check(t, y) PROVE ReadAt(t)'
    BY <2>5 DEF Check, TypeOK, ReadAt
  <2>6. ASSUME NEW y \in Paths, MendFails(t, y) PROVE ReadAt(t)'
    BY <1>0, <2>6 DEF MendFails, Goto, Forget, TypeOK, ReadAt
  <2>7. ASSUME NEW y \in Paths, MendRestore(t, y) \/ MendRemove(t, y) PROVE ReadAt(t)'
    BY <1>0, <2>7 DEF MendRestore, MendRemove, thread, ReadAt
  <2>8. CASE Take(t)
    BY <1>0, <2>8 DEF Take, thread, disk, ReadAt
  <2>9. CASE Replace(t) \/ Confirm(t)
    <3>1. /\ stage'[t] \notin {"lockPlain", "confirm", "read"}
          /\ path' = path /\ signed' = signed
      BY <2>9 DEF Replace, Confirm, MakeStaging, Build, MoveOut, MoveIn, Undo, Undoing,
                  Restore, Drop, Clean, Goto, Forget, TypeOK
    <3> QED BY <1>0, <3>1 DEF ReadAt
  <2> QED BY <2>1, <2>2, <2>3, <2>4, <2>5, <2>6, <2>7, <2>8, <2>9 DEF ThreadStep
<1> QED BY <1>1, <1>2 DEF ReadInv

LEMMA CrashRest ==
    ASSUME TypeOK, AgeInv, ReadInv, NEW q \in Processes, Crash(q)
    PROVE  AgeInv' /\ ReadInv'
<1>1. UNCHANGED <<target, backup, built, path, signed>>
  BY DEF Crash, disk, Forget
<1>2. \A u \in Threads : new'[u] = new[u] \/ new'[u] = Missing
  BY DEF Crash, Forget
<1>3. built \in Nat
  BY SnapshotAssumption DEF TypeOK
<1>4. AgeInv'
  BY <1>1, <1>2, <1>3, AgeSame
<1>5. \A u \in Threads : stage'[u] = stage[u] \/ stage'[u] = "idle"
  BY DEF Crash
<1>6. ReadInv'
  BY <1>1, <1>5 DEF ReadInv, ReadAt
<1> QED BY <1>4, <1>6

----------------------------------------------------------------------------
(* The invariant                                                            *)

LEMMA IInvInit == Init => IInv
<1> SUFFICES ASSUME Init PROVE IInv
  OBVIOUS
<1> USE SnapshotAssumption
<1>1. TypeOK
  BY DEF Init, TypeOK
<1>2. LockInv
  BY DEF Init, LockInv, Inside
<1>3. AgeInv
  BY DEF Init, AgeInv
<1>4. \A t \in Threads : StageInv(t)
  BY DEF Init, StageInv, Mending
<1>5. RestInv
  BY DEF Init, RestInv
<1>6. ReadInv
  BY DEF Init, ReadInv, ReadAt
<1> QED BY <1>1, <1>2, <1>3, <1>4, <1>5, <1>6 DEF IInv

LEMMA NextSteps ==
    ASSUME Next
    PROVE  \/ \E t \in Threads : ThreadStep(t)
           \/ \E q \in Processes : Crash(q)
BY DEF Next, ThreadStep

LEMMA TypeNext == TypeOK /\ [Next]_vars => TypeOK'
<1> SUFFICES ASSUME TypeOK, [Next]_vars PROVE TypeOK'
  OBVIOUS
<1>1. CASE UNCHANGED vars
  BY <1>1 DEF TypeOK, vars, disk, thread
<1>2. CASE Next
  BY <1>2, NextSteps, ThreadType, CrashType
<1> QED BY <1>1, <1>2

LEMMA IInvNext == SyncOrCrash /\ IInv /\ [Next]_vars => IInv'
<1> SUFFICES ASSUME SyncOrCrash, IInv, [Next]_vars PROVE IInv'
  OBVIOUS
<1>0. TypeOK /\ TypeOK' /\ LockInv /\ AgeInv /\ DiskInv /\ ReadInv
  BY TypeNext DEF IInv, DiskInv
<1>1. CASE UNCHANGED vars
  <2> USE <1>1 DEF vars, disk, thread
  <2>1. LockInv'
    BY <1>0 DEF LockInv, Inside, PathsOf
  <2>2. AgeInv'
    BY <1>0 DEF AgeInv
  <2>3. ASSUME NEW t \in Threads PROVE StageInv(t)'
    <3>1. PathsOf(t)' = PathsOf(t) /\ StageInv(t)
      BY <1>0 DEF PathsOf, DiskInv
    <3> QED BY <3>1 DEF StageInv
  <2>4. RestInv'
    BY <1>0 DEF DiskInv, RestInv
  <2>5. ReadInv'
    BY <1>0 DEF ReadInv, ReadAt
  <2> QED BY <1>0, <2>1, <2>2, <2>3, <2>4, <2>5 DEF IInv
<1>2. ASSUME NEW t \in Threads, ThreadStep(t) PROVE IInv'
  BY <1>0, <1>2, LockStep, DiskStep, AgeStep, ReadStep DEF IInv, DiskInv
<1>3. ASSUME NEW q \in Processes, Crash(q) PROVE IInv'
  BY <1>0, <1>3, LockCrash, DiskCrash, CrashRest DEF IInv, DiskInv
<1> QED BY <1>1, <1>2, <1>3, NextSteps

\* Replacing, repairing and reading canvas directories keeps every variable to
\* its type, whatever fails and crashes.
THEOREM Types == Spec => []TypeOK
<1>1. Init => TypeOK
  BY IInvInit DEF IInv
<1> QED BY <1>1, TypeNext, PTL DEF Spec

LEMMA Invariant == SyncOrCrash => (Spec => []IInv)
<1> SUFFICES ASSUME SyncOrCrash PROVE Spec => []IInv
  OBVIOUS
<1>1. IInv /\ [Next]_vars => IInv'
  BY IInvNext
<1> QED BY <1>1, IInvInit, PTL DEF Spec

\* Where a directory is missing, _recover_replacement_state of
\* canvas_snapshot.py finds at most one snapshot to move back, and it is
\* whole, if no sync fails or nothing crashes.
THEOREM OneIsRestored == SyncOrCrash => (Spec => []OneToRestore)
<1> SUFFICES ASSUME SyncOrCrash PROVE Spec => []OneToRestore
  OBVIOUS
<1>1. IInv => OneToRestore
  <2> SUFFICES ASSUME IInv, NEW x \in Paths, target[x] = Missing
               PROVE  Torn \notin backup[x] /\ \A c, d \in backup[x] : c = d
    BY DEF OneToRestore
  <2>1. CASE \E t \in Threads : stage[t] = "undo" /\ path[t] = x
    <3>1. PICK t \in Threads : stage[t] = "undo" /\ path[t] = x
      BY <2>1
    <3>2. old[t] \in Found /\ backup[x] = {old[t]}
      BY <3>1 DEF IInv, StageInv
    <3> QED BY <3>2
  <2>2. CASE ~\E t \in Threads : stage[t] = "undo" /\ path[t] = x
    BY <2>2 DEF IInv, RestInv
  <2> QED BY <2>1, <2>2
<1> QED BY <1>1, Invariant, PTL

----------------------------------------------------------------------------
(* The refinement                                                           *)

UndoAt(x) == \E t \in Threads : stage[t] = "undo" /\ path[t] = x
InDoubt(x) == UndoAt(x) \/ (target[x] = Missing /\ backup[x] # {})

\* The mapping, by what is on disk: the snapshot moved aside, if the current
\* one is missing or being taken back.
LEMMA SettledAt ==
    ASSUME IInv, NEW x \in Paths
    PROVE  /\ InDoubt(x) => backup[x] = {Settled[x]} /\ Settled[x] \in Found
           /\ ~InDoubt(x) => Settled[x] = target[x]
<1> DEFINE undoing == {t \in Threads : stage[t] \in {"undo", "restore"} /\ path[t] = x}
           u == CHOOSE t \in Threads : stage[t] \in {"undo", "restore"} /\ path[t] = x
<1>1. CASE undoing # {}
  <2>1. u \in Threads /\ stage[u] \in {"undo", "restore"} /\ path[u] = x
    BY <1>1
  <2>2. Settled[x] = old[u]
    BY <2>1 DEF Settled
  <2>3. backup[x] = {old[u]} /\ old[u] \in Found /\ (stage[u] = "restore" => target[x] = Missing)
    BY <2>1 DEF IInv, StageInv
  <2> QED BY <2>1, <2>2, <2>3 DEF InDoubt, UndoAt
<1>2. CASE undoing = {}
  <2>1. ~\E t \in Threads : stage[t] \in {"undo", "restore"} /\ path[t] = x
    BY <1>2
  <2>2. Settled[x] = Visible(x)
    BY <2>1 DEF Settled
  <2>3. ~UndoAt(x)
    BY <1>2 DEF UndoAt
  <2>4. CASE target[x] = Missing /\ backup[x] # {}
    <3>1. Torn \notin backup[x] /\ \A c, d \in backup[x] : c = d
      BY <2>3, <2>4 DEF IInv, RestInv, UndoAt
    <3>2. Visible(x) \in backup[x]
      BY <2>4 DEF Visible
    <3>3. backup[x] = {Visible(x)}
      BY <3>1, <3>2
    <3>4. backup[x] \subseteq Found
      BY <3>1 DEF IInv, TypeOK
    <3> QED BY <2>2, <2>4, <3>2, <3>3, <3>4 DEF InDoubt
  <2>5. CASE ~(target[x] = Missing /\ backup[x] # {})
    BY <2>2, <2>3, <2>5 DEF Visible, InDoubt
  <2> QED BY <2>4, <2>5
<1> QED BY <1>1, <1>2

LEMMA SettledNext ==
    ASSUME IInv', NEW x \in Paths
    PROVE  ~InDoubt(x)' => Settled'[x] = target'[x]
<1>1. (~InDoubt(x) => Settled[x] = target[x])'
  BY SettledAt, PTL
<1> QED BY <1>1

LEMMA SettledKept ==
    ASSUME IInv, IInv', NEW x \in Paths,
           \/ InDoubt(x) /\ InDoubt(x)' /\ backup'[x] = backup[x]
           \/ ~InDoubt(x) /\ ~InDoubt(x)' /\ target'[x] = target[x]
           \/ InDoubt(x) /\ ~InDoubt(x)' /\ target'[x] \in backup[x]
           \/ ~InDoubt(x) /\ InDoubt(x)' /\ target[x] \in backup'[x]
    PROVE  Settled'[x] = Settled[x]
<1>1. /\ InDoubt(x) => backup[x] = {Settled[x]}
      /\ ~InDoubt(x) => Settled[x] = target[x]
  BY SettledAt
<1>2. (/\ InDoubt(x) => backup[x] = {Settled[x]}
       /\ ~InDoubt(x) => Settled[x] = target[x])'
  BY SettledAt, PTL
<1> QED BY <1>1, <1>2

LEMMA SettledSame ==
    ASSUME \A x \in Paths : Settled'[x] = Settled[x]
    PROVE  Settled' = Settled
BY DEF Settled

\* A step that changes no directory and takes nothing back.
LEMMA NoUndo ==
    ASSUME NEW t \in Threads, \A u \in Threads \ {t} : Bystander(u),
           stage[t] # "undo", stage'[t] # "undo", NEW x
    PROVE  UndoAt(x)' = UndoAt(x)
<1>1. UndoAt(x) => UndoAt(x)'
  BY DEF UndoAt, Bystander
<1>2. UndoAt(x)' => UndoAt(x)
  BY DEF UndoAt, Bystander
<1> QED BY <1>1, <1>2 DEF UndoAt

LEMMA NoUndoElsewhere ==
    ASSUME NEW t \in Threads, \A u \in Threads \ {t} : Bystander(u),
           path'[t] = path[t], NEW x, x # path[t]
    PROVE  UndoAt(x)' = UndoAt(x)
<1>1. UndoAt(x) => UndoAt(x)'
  BY DEF UndoAt, Bystander
<1>2. UndoAt(x)' => UndoAt(x)
  BY DEF UndoAt, Bystander
<1> QED BY <1>1, <1>2 DEF UndoAt

\* Only the thread inside takes its path back.
LEMMA OwnUndo ==
    ASSUME IInv, NEW t \in Inside, stage[t] # "undo", NEW x \in PathsOf(t)
    PROVE  ~UndoAt(x)
<1> SUFFICES ASSUME UndoAt(x) PROVE FALSE
  OBVIOUS
<1>1. PICK u \in Threads : stage[u] = "undo" /\ path[u] = x
  BY DEF UndoAt
<1>2. u \in Inside /\ x \in PathsOf(u)
  BY <1>1, OwnPath DEF Inside, IInv
<1> QED BY <1>1, <1>2, Exclusive DEF IInv

Stutter == UNCHANGED <<Settled, answer>>

\* A step of t that keeps the directories and takes nothing back.
LEMMA SettledQuiet ==
    ASSUME IInv, IInv', NEW t \in Threads, \A u \in Threads \ {t} : Bystander(u),
           stage[t] # "undo", stage'[t] # "undo", UNCHANGED <<target, backup>>
    PROVE  Settled' = Settled
<1>1. ASSUME NEW x \in Paths PROVE Settled'[x] = Settled[x]
  <2>1. UndoAt(x)' = UndoAt(x)
    BY NoUndo
  <2>2. InDoubt(x)' = InDoubt(x)
    BY <2>1 DEF InDoubt
  <2> QED BY <2>2, SettledKept
<1> QED BY <1>1, SettledSame

\* A step of t at its path x.
LEMMA SettledElsewhere ==
    ASSUME IInv, IInv', NEW t \in Threads, NEW x, \A u \in Threads \ {t} : Bystander(u),
           (stage[t] # "undo" /\ stage'[t] # "undo") \/ (path'[t] = path[t] /\ x = path[t]),
           NEW y \in Paths, y # x, target'[y] = target[y], backup'[y] = backup[y]
    PROVE  Settled'[y] = Settled[y]
<1>1. UndoAt(y)' = UndoAt(y)
  BY NoUndo, NoUndoElsewhere
<1>2. InDoubt(y)' = InDoubt(y)
  BY <1>1 DEF InDoubt
<1> QED BY <1>2, SettledKept

LEMMA RefineMend ==
    ASSUME IInv, IInv', NEW t \in Threads, NEW x \in Paths, MendRestore(t, x) \/ MendRemove(t, x)
    PROVE  Stutter
<1>1. /\ \A u \in Threads \ {t} : Bystander(u)
      /\ stage[t] # "undo" /\ stage'[t] # "undo"
      /\ x \in PathsOf(t) /\ t \in Inside
      /\ UNCHANGED answer
  BY DEF MendRestore, MendRemove, Bystander, thread, Inside, IInv, TypeOK
<1>2. ~UndoAt(x)
  BY <1>1, OwnUndo
<1>3. UndoAt(x)' = UndoAt(x)
  BY <1>1, NoUndo
<1>4. ASSUME NEW y \in Paths, y # x PROVE Settled'[y] = Settled[y]
  <2>1. target'[y] = target[y] /\ backup'[y] = backup[y]
    BY <1>4 DEF MendRestore, MendRemove, IInv, TypeOK
  <2> QED BY <1>1, <1>4, <2>1, SettledElsewhere
<1>5. Settled'[x] = Settled[x]
  <2>1. CASE MendRestore(t, x)
    <3>1. PICK c \in backup[x] : /\ target' = [target EXCEPT ![x] = c]
                                 /\ backup' = [backup EXCEPT ![x] = @ \ {c}]
      BY <2>1 DEF MendRestore
    <3>2. target'[x] = c /\ backup'[x] = backup[x] \ {c} /\ target[x] = Missing
      BY <2>1, <3>1 DEF MendRestore, IInv, TypeOK
    <3>3. InDoubt(x)
      BY <3>1, <3>2 DEF InDoubt
    <3>4. backup[x] = {Settled[x]} /\ Settled[x] \in Found
      BY <3>3, SettledAt
    <3>5. c # Missing
      BY <3>1, <3>4
    <3>6. ~InDoubt(x)'
      BY <1>2, <1>3, <3>2, <3>5 DEF InDoubt
    <3> QED BY <3>1, <3>2, <3>3, <3>6, SettledKept
  <2>2. CASE MendRemove(t, x)
    <3>1. target' = target /\ backup'[x] = {} /\ ~InDoubt(x)
      BY <1>2, <2>2 DEF MendRemove, IInv, TypeOK, InDoubt
    <3>2. ~InDoubt(x)'
      BY <1>2, <1>3, <3>1 DEF InDoubt
    <3> QED BY <3>1, <3>2, SettledKept
  <2> QED BY <2>1, <2>2
<1> QED BY <1>1, <1>4, <1>5, SettledSame DEF Stutter

LEMMA RefineQuiet ==
    ASSUME IInv, IInv', PlainReads = {}, NEW t \in Threads,
           \/ \E x \in Paths : Start(t, x) \/ Check(t, x) \/ MendFails(t, x)
           \/ Take(t) \/ Enter(t) \/ Mended(t) \/ Confirm(t) \/ MakeStaging(t)
           \/ Build(t) \/ Clean(t)
    PROVE  Stutter
<1>1. \A u \in Threads \ {t} : Bystander(u)
  BY DEF Start, Check, MendFails, Take, Enter, Mended, Confirm, MakeStaging, Build, Clean,
         Goto, Forget, thread, Bystander, IInv, TypeOK
<1>2. stage[t] # "undo" /\ stage'[t] # "undo"
  BY DEF Start, Check, MendFails, Take, Enter, Mended, Confirm, MakeStaging, Build, Clean,
         Goto, Forget, thread, IInv, TypeOK
<1>3. UNCHANGED <<target, backup>>
  BY DEF Start, Check, MendFails, Take, Enter, Mended, Confirm, MakeStaging, Build, Clean, disk
<1>4. UNCHANGED answer
  BY DEF Start, Check, MendFails, Take, Enter, Mended, Confirm, MakeStaging, Build, Clean
<1> QED BY <1>1, <1>2, <1>3, <1>4, SettledQuiet DEF Stutter

\* A reader that repaired finds the settled snapshot.
LEMMA RefineRead ==
    ASSUME IInv, IInv', PlainReads = {}, NEW t \in Threads, Read(t)
    PROVE  Register!Read(t, path[t])
<1>1. \A u \in Threads \ {t} : Bystander(u)
  BY DEF Read, Forget, Bystander, IInv, TypeOK
<1>2. stage[t] # "undo" /\ stage'[t] # "undo" /\ UNCHANGED <<target, backup>>
  BY DEF Read, disk, IInv, TypeOK
<1>3. Settled' = Settled
  BY <1>1, <1>2, SettledQuiet
<1>4. t \in Inside /\ path[t] \in PathsOf(t) /\ path[t] \in Paths
  BY OwnPath DEF Read, Inside, IInv
<1>5. ~UndoAt(path[t])
  BY <1>2, <1>4, OwnUndo
<1>6. backup[path[t]] = {}
  BY DEF Read, IInv, ReadInv, ReadAt
<1>7. Settled[path[t]] = target[path[t]]
  BY <1>4, <1>5, <1>6, SettledAt DEF InDoubt
<1> QED BY <1>3, <1>7 DEF Read, Register!Read

LEMMA RefineCrash ==
    ASSUME SyncOrCrash, IInv, IInv', NEW q \in Processes, Crash(q)
    PROVE  Stutter
<1>1. UNCHANGED <<target, backup, path, answer>> /\ "sync" \notin Faults
  BY DEF Crash, disk, Forget, Fails, SyncOrCrash
<1>2. \A u \in Threads : stage'[u] = stage[u] \/ stage'[u] = "idle"
  BY DEF Crash
<1>3. ASSUME NEW x \in Paths PROVE Settled'[x] = Settled[x]
  <2>1. UndoAt(x)' => UndoAt(x)
    BY <1>1, <1>2 DEF UndoAt
  <2>2. UndoAt(x) => target[x] = Missing /\ backup[x] # {}
    BY <1>1 DEF UndoAt, IInv, StageInv
  <2>3. InDoubt(x)' = InDoubt(x)
    BY <1>1, <2>1, <2>2 DEF InDoubt
  <2> QED BY <1>1, <2>3, SettledKept
<1> QED BY <1>1, <1>3, SettledSame DEF Stutter

\* What a thread that replaces its snapshot leaves alone.
OwnStep(t) ==
    /\ \A u \in Threads \ {t} : Bystander(u)
    /\ t \in Inside /\ path[t] \in Paths /\ path[t] \in PathsOf(t)
    /\ path' = path /\ answer' = answer
    /\ \A y \in Paths \ {path[t]} : target'[y] = target[y] /\ backup'[y] = backup[y]

LEMMA OwnStepHolds ==
    ASSUME IInv, NEW t \in Threads, MoveOut(t) \/ MoveIn(t) \/ Undo(t) \/ Restore(t) \/ Drop(t)
    PROVE  OwnStep(t)
<1>1. t \in Inside /\ path' = path /\ answer' = answer
  BY DEF MoveOut, MoveIn, Undo, Restore, Drop, Inside
<1>2. path[t] \in Paths /\ path[t] \in PathsOf(t)
  BY OwnPath DEF IInv
<1>3. \A u \in Threads \ {t} : Bystander(u)
  BY DEF MoveOut, MoveIn, Undo, Undoing, Restore, Drop, Goto, Bystander, IInv, TypeOK
<1>4. target' = target \/ \E c : target' = [target EXCEPT ![path[t]] = c]
  BY DEF MoveOut, MoveIn, Undo, Restore, Drop
<1>5. backup' = backup \/ \E c : backup' = [backup EXCEPT ![path[t]] = c]
  BY DEF MoveOut, MoveIn, Undo, Restore, Drop
<1>6. \A y \in Paths \ {path[t]} : target'[y] = target[y] /\ backup'[y] = backup[y]
  BY <1>4, <1>5 DEF IInv, TypeOK
<1> QED BY <1>1, <1>2, <1>3, <1>6 DEF OwnStep

LEMMA OwnStepSettles ==
    ASSUME IInv, IInv', NEW t \in Threads, OwnStep(t),
           \/ InDoubt(path[t]) /\ InDoubt(path[t])' /\ backup'[path[t]] = backup[path[t]]
           \/ ~InDoubt(path[t]) /\ ~InDoubt(path[t])' /\ target'[path[t]] = target[path[t]]
           \/ InDoubt(path[t]) /\ ~InDoubt(path[t])' /\ target'[path[t]] \in backup[path[t]]
           \/ ~InDoubt(path[t]) /\ InDoubt(path[t])' /\ target[path[t]] \in backup'[path[t]]
    PROVE  Stutter
<1> DEFINE x == path[t]
<1>1. x \in Paths /\ UNCHANGED <<path, answer>>
  BY DEF OwnStep
<1>2. InDoubt(x)' = InDoubt(path[t])'
  BY <1>1 DEF InDoubt, UndoAt
<1>3. Settled'[path[t]] = Settled[path[t]]
  BY <1>1, <1>2, SettledKept
<1>4. ASSUME NEW y \in Paths, y # path[t] PROVE Settled'[y] = Settled[y]
  BY <1>1, <1>4, SettledElsewhere DEF OwnStep
<1> QED BY <1>1, <1>3, <1>4, SettledSame DEF Stutter

\* While it is not taking back, nobody takes back the path of t.
LEMMA OwnUndoHere ==
    ASSUME IInv, NEW t \in Inside
    PROVE  UndoAt(path[t]) <=> stage[t] = "undo"
BY OwnUndo, OwnPath DEF UndoAt, Inside, IInv

LEMMA RefineMoveOut ==
    ASSUME IInv, IInv', NEW t \in Threads, MoveOut(t)
    PROVE  Stutter
<1> DEFINE x == path[t]
<1>1. OwnStep(t) /\ x \in Paths /\ path' = path
  BY OwnStepHolds DEF OwnStep
<1>2. stage[t] = "out" /\ ~UndoAt(x) /\ backup[x] = {}
  BY <1>1, OwnUndoHere DEF MoveOut, OwnStep, IInv, StageInv
<1>3. ~InDoubt(x)
  BY <1>2 DEF InDoubt
<1>4. CASE UNCHANGED <<target, backup>>
  <2>1. stage'[t] # "undo"
    BY <1>4 DEF MoveOut, Goto, IInv, TypeOK
  <2> QED BY <1>1, <1>2, <1>4, <2>1, SettledQuiet DEF OwnStep, Stutter
<1>5. CASE backup' = [backup EXCEPT ![x] = @ \cup {target[x]}] /\ target' = [target EXCEPT ![x] = Missing]
  <2>1. backup'[x] = {target[x]} /\ target'[x] = Missing
    BY <1>1, <1>2, <1>5 DEF IInv, TypeOK
  <2>2. InDoubt(path[t])'
    BY <1>1, <2>1 DEF InDoubt
  <2> QED BY <1>1, <1>3, <2>1, <2>2, OwnStepSettles
<1> QED BY <1>4, <1>5 DEF MoveOut

LEMMA RefineUndo ==
    ASSUME IInv, IInv', NEW t \in Threads, Undo(t)
    PROVE  Stutter
<1> DEFINE x == path[t]
<1>1. OwnStep(t) /\ x \in Paths /\ path' = path
  BY OwnStepHolds DEF OwnStep
<1>0. stage[t] = "undo" /\ backup[path[t]] = {old[t]} /\ backup' = backup
  BY DEF Undo, IInv, StageInv
<1>2. stage[t] = "undo" /\ backup[x] # {} /\ backup' = backup
  BY <1>0
<1>3. InDoubt(x)
  BY <1>2 DEF InDoubt, UndoAt
<1>4. (stage'[t] = "undo" /\ path'[t] = x) \/ target'[x] = Missing
  BY <1>1, <1>2 DEF Undo, IInv, TypeOK
<1>5. InDoubt(path[t])'
  BY <1>1, <1>2, <1>4 DEF InDoubt, UndoAt
<1> QED BY <1>1, <1>2, <1>3, <1>5, OwnStepSettles

LEMMA RefineRestore ==
    ASSUME IInv, IInv', NEW t \in Threads, Restore(t)
    PROVE  Stutter
<1> DEFINE x == path[t]
<1>1. OwnStep(t) /\ x \in Paths /\ path' = path
  BY OwnStepHolds DEF OwnStep
<1>2. stage[t] = "restore" /\ old[t] \in Found /\ backup[x] = {old[t]} /\ target[x] = Missing
  BY DEF Restore, IInv, StageInv
<1>3. InDoubt(x) /\ ~UndoAt(x)
  BY <1>1, <1>2, OwnUndoHere DEF InDoubt, OwnStep
<1>4. stage'[t] = "clean"
  BY DEF Restore, Goto, IInv, TypeOK
<1>5. ~UndoAt(x)'
  BY <1>1, <1>2, <1>3, <1>4, NoUndo DEF OwnStep
<1>6. CASE UNCHANGED <<target, backup>>
  BY <1>1, <1>2, <1>4, <1>6, SettledQuiet DEF OwnStep, Stutter
<1>7. CASE target' = [target EXCEPT ![x] = old[t]] /\ backup' = [backup EXCEPT ![x] = @ \ {old[t]}]
  <2>1. target'[x] = old[t] /\ backup'[x] = {} /\ old[t] # Missing
    BY <1>1, <1>2, <1>7 DEF IInv, TypeOK
  <2>2. ~InDoubt(path[t])'
    BY <1>1, <1>5, <2>1 DEF InDoubt, UndoAt
  <2> QED BY <1>1, <1>2, <1>3, <2>1, <2>2, OwnStepSettles
<1> QED BY <1>6, <1>7 DEF Restore

LEMMA RefineDrop ==
    ASSUME IInv, IInv', NEW t \in Threads, Drop(t)
    PROVE  Stutter
<1> DEFINE x == path[t]
<1>1. OwnStep(t) /\ x \in Paths /\ path' = path
  BY OwnStepHolds DEF OwnStep
<1>2. stage[t] = "drop" /\ target[x] \in Found /\ target' = target
  BY DEF Drop, IInv, StageInv
<1>3. ~UndoAt(x)
  BY <1>1, <1>2, OwnUndoHere DEF OwnStep
<1>4. stage'[t] # "undo"
  BY <1>2 DEF Drop, Goto, IInv, TypeOK
<1>5. ~UndoAt(x)'
  BY <1>1, <1>2, <1>3, <1>4, NoUndo DEF OwnStep
<1>6. ~InDoubt(x) /\ ~InDoubt(path[t])'
  BY <1>1, <1>2, <1>3, <1>5 DEF InDoubt, UndoAt
<1> QED BY <1>1, <1>2, <1>6, OwnStepSettles

\* The abstract replacement happens when the new snapshot is in place and
\* will not be taken back.
LEMMA RefineMoveIn ==
    ASSUME IInv, IInv', NEW t \in Threads, MoveIn(t)
    PROVE  Stutter \/ Register!Replace(path[t])
<1> DEFINE x == path[t]
<1>1. OwnStep(t) /\ x \in Paths /\ path' = path
  BY OwnStepHolds DEF OwnStep
<1>2. /\ stage[t] = "in" /\ target[x] = Missing /\ new[t] \in Found /\ new[t] > old[t]
      /\ old[t] \in Found \cup {Missing}
      /\ backup[x] = (IF old[t] = Missing THEN {} ELSE {old[t]})
      /\ backup' = backup
  BY DEF MoveIn, IInv, StageInv
<1>3. ~UndoAt(x)
  BY <1>1, <1>2, OwnUndoHere DEF OwnStep
<1>4. Settled[x] = old[t]
  BY <1>1, <1>2, <1>3, SettledAt DEF InDoubt
<1>5. CASE target' = [target EXCEPT ![x] = new[t]] /\ stage'[t] # "undo"
  <2>1. ~UndoAt(x)' /\ target'[x] = new[t]
    BY <1>1, <1>2, <1>3, <1>5, NoUndo DEF OwnStep, IInv, TypeOK
  <2>2. ~InDoubt(x)'
    BY <1>1, <1>2, <2>1 DEF InDoubt
  <2>3. PICK z \in Paths : z = x
    BY <1>1
  <2>7. ~InDoubt(z)' => Settled'[z] = target'[z]
    BY SettledNext
  <2>4. Settled'[x] = new[t]
    <3>1. ~InDoubt(z)'
      BY <1>1, <2>2, <2>3 DEF InDoubt, UndoAt
    <3> QED BY <2>1, <2>3, <2>7, <3>1
  <2>5. \A y \in Paths \ {x} : Settled'[y] = Settled[y]
    BY <1>1, SettledElsewhere DEF OwnStep
  <2>6. Settled' = [Settled EXCEPT ![x] = Settled'[x]]
    <3>1. Settled = [y0 \in Paths |-> Settled[y0]] /\ Settled' = [y0 \in Paths |-> Settled'[y0]]
      BY DEF Settled
    <3> QED BY <2>5, <3>1
  <2> QED BY <1>1, <1>2, <1>4, <2>4, <2>6 DEF Register!Replace, OwnStep
<1>6. CASE target' = [target EXCEPT ![x] = new[t]] /\ stage'[t] = "undo"
  <2>1. old[t] # Missing
    BY <1>2, <1>6 DEF MoveIn, Undoing, Goto, IInv, TypeOK
  <2>2. InDoubt(x)
    BY <1>2, <2>1 DEF InDoubt
  <2>3. InDoubt(path[t])'
    BY <1>1, <1>6 DEF InDoubt, UndoAt
  <2> QED BY <1>1, <1>2, <2>2, <2>3, OwnStepSettles
<1>7. CASE target' = target
  <2>1. CASE old[t] = Missing
    <3>1. stage'[t] # "undo"
      BY <1>2, <1>7, <2>1 DEF MoveIn, Undoing, Goto, IInv, TypeOK
    <3> QED BY <1>1, <1>2, <1>7, <3>1, SettledQuiet DEF OwnStep, Stutter
  <2>2. CASE old[t] # Missing
    <3>1. InDoubt(x) /\ InDoubt(path[t])'
      BY <1>1, <1>2, <1>7, <2>2 DEF InDoubt
    <3> QED BY <1>1, <1>2, <3>1, OwnStepSettles
  <2> QED BY <2>1, <2>2
<1> QED BY <1>5, <1>6, <1>7 DEF MoveIn

LEMMA RefineInit == Init => Register!Init
<1> SUFFICES ASSUME Init PROVE Register!Init
  OBVIOUS
<1>1. IInv
  BY IInvInit
<1>2. \A x \in Paths : ~InDoubt(x) /\ target[x] = 0
  BY DEF Init, InDoubt, UndoAt
<1>3. \A x \in Paths : Settled[x] = 0
  BY <1>1, <1>2, SettledAt
<1>4. Settled = [x \in Paths |-> 0]
  BY <1>3 DEF Settled
<1> QED BY <1>4 DEF Init, Register!Init

LEMMA RefineNext ==
    SyncOrCrash /\ PlainReads = {} /\ IInv /\ IInv' /\ [Next]_vars
        => [Register!Next]_(Register!vars)
<1> SUFFICES ASSUME SyncOrCrash, PlainReads = {}, IInv, IInv', [Next]_vars
             PROVE  Register!Next \/ Stutter
  BY DEF Stutter, Register!vars
<1>1. CASE UNCHANGED vars
  BY <1>1 DEF Stutter, vars, disk, thread, Settled, Visible
<1>2. ASSUME NEW t \in Threads, ThreadStep(t) PROVE Register!Next \/ Stutter
  <2>0. path[t] \in Paths
    BY DEF IInv, TypeOK
  <2>1. CASE Read(t)
    BY <2>0, <2>1, RefineRead DEF Register!Next
  <2>2. CASE MoveIn(t)
    BY <2>0, <2>2, RefineMoveIn DEF Register!Next
  <2>3. CASE MoveOut(t) \/ Undo(t) \/ Restore(t) \/ Drop(t)
    BY <2>3, RefineMoveOut, RefineUndo, RefineRestore, RefineDrop
  <2>4. CASE \E x \in Paths : MendRestore(t, x) \/ MendRemove(t, x)
    BY <2>4, RefineMend
  <2>5. CASE \/ \E x \in Paths : Start(t, x) \/ Check(t, x) \/ MendFails(t, x)
             \/ Take(t) \/ Enter(t) \/ Mended(t) \/ Confirm(t) \/ MakeStaging(t)
             \/ Build(t) \/ Clean(t)
    BY <2>5, RefineQuiet
  <2> QED BY <1>2, <2>1, <2>2, <2>3, <2>4, <2>5 DEF ThreadStep, Replace
<1>3. ASSUME NEW q \in Processes, Crash(q) PROVE Register!Next \/ Stutter
  BY <1>3, RefineCrash
<1> QED BY <1>1, <1>2, <1>3, NextSteps

\* canvas_snapshot.py promises what SnapshotRegister says: a path holds one
\* whole snapshot, only a newer one replaces it, and readers that repair find
\* it, through failing builds and renames and through crashes or failing syncs.
THEOREM Refinement == SyncOrCrash /\ PlainReads = {} => (Spec => Replaces)
<1> SUFFICES ASSUME SyncOrCrash, PlainReads = {} PROVE Spec => Replaces
  OBVIOUS
<1>1. Spec => []IInv
  BY Invariant
<1>2. IInv /\ IInv' /\ [Next]_vars => [Register!Next]_(Register!vars)
  BY RefineNext
<1> QED BY <1>1, <1>2, RefineInit, PTL DEF Spec, Replaces, Register!Spec

----------------------------------------------------------------------------
(* Staged trees                                                             *)

StagingInv == TypeOK /\ LockInv /\ StagingIsKept

\* A thread that builds keeps its staging directory while others step.
LEMMA StagingOther ==
    ASSUME TypeOK, LockInv, NEW t \in Threads, NEW u \in Threads \ {t}, ThreadStep(u),
           stage[t] \in {"build", "out", "in"}, t \in staging[path[t]]
    PROVE  t \in staging'[path[t]]
<1>1. t \in Inside /\ path[t] \in PathsOf(t) /\ path[t] \in Paths
  BY OwnPath DEF Inside
<1>2. ASSUME NEW x \in Paths, MendRemove(u, x) PROVE t \in staging'[path[t]]
  <2>1. u \in Inside /\ x \in PathsOf(u)
    BY <1>2 DEF MendRemove, Inside
  <2>2. x # path[t]
    BY <1>1, <2>1, Exclusive
  <2> QED BY <1>1, <1>2, <2>2 DEF MendRemove, TypeOK
<1>3. ASSUME ~\E x \in Paths : MendRemove(u, x)
      PROVE  \/ staging' = staging
             \/ staging' = [staging EXCEPT ![path[u]] = @ \cup {u}]
             \/ staging' = [staging EXCEPT ![path[u]] = @ \ {u}]
  BY <1>3 DEF ThreadStep, Replace, Start, Check, MendRestore, MendFails, Take, Enter, Mended,
              Read, Confirm, MakeStaging, Build, MoveOut, MoveIn, Undo, Restore, Drop, Clean, disk
<1> QED BY <1>1, <1>2, <1>3 DEF TypeOK

\* A thread reaches a stage that needs its staging directory by making it.
LEMMA StagingOwn ==
    ASSUME TypeOK, NEW t \in Threads, ThreadStep(t),
           stage[t] \in {"build", "out", "in"} => t \in staging[path[t]],
           stage'[t] \in {"build", "out", "in"}
    PROVE  t \in staging'[path'[t]]
<1>1. CASE MakeStaging(t)
  BY <1>1 DEF MakeStaging, TypeOK
<1>2. CASE Build(t)
  BY <1>2 DEF Build, disk
<1>3. CASE MoveOut(t)
  BY <1>3 DEF MoveOut
<1>4. CASE MoveIn(t)
  BY <1>4 DEF MoveIn, Undoing, Goto, TypeOK
<1>5. ASSUME NEW x \in Paths, Start(t, x) \/ Check(t, x) \/ MendFails(t, x) PROVE FALSE
  BY <1>5 DEF Start, Check, MendFails, Goto, TypeOK
<1>6. ASSUME NEW x \in Paths, MendRestore(t, x) \/ MendRemove(t, x) PROVE FALSE
  BY <1>6 DEF MendRestore, MendRemove, thread
<1>7. ASSUME Take(t) \/ Enter(t) \/ Mended(t) \/ Read(t) \/ Confirm(t) PROVE FALSE
  BY <1>7 DEF Take, Enter, Mended, Read, Confirm, thread, TypeOK
<1>8. ASSUME Undo(t) \/ Restore(t) \/ Drop(t) \/ Clean(t) PROVE FALSE
  BY <1>8 DEF Undo, Restore, Drop, Clean, Goto, TypeOK
<1> QED BY <1>1, <1>2, <1>3, <1>4, <1>5, <1>6, <1>7, <1>8 DEF ThreadStep, Replace

\* A step of a thread leaves the stage and the path of the others alone.
LEMMA OthersStay ==
    ASSUME TypeOK, NEW t \in Threads, NEW u \in Threads \ {t}, ThreadStep(u)
    PROVE  /\ stage'[t] = stage[t] /\ path'[t] = path[t]
           /\ signed'[t] = signed[t] /\ answer'[t] = answer[t]
BY DEF ThreadStep, Replace, Start, Check, MendRestore, MendRemove, MendFails, Take, Enter,
       Mended, Read, Confirm, MakeStaging, Build, MoveOut, MoveIn, Undo, Undoing, Restore,
       Drop, Clean, Goto, Forget, thread, TypeOK

LEMMA StagingNext == StagingInv /\ [Next]_vars => StagingInv'
<1> SUFFICES ASSUME StagingInv, [Next]_vars PROVE StagingInv'
  OBVIOUS
<1>1. TypeOK /\ TypeOK' /\ LockInv /\ StagingIsKept
  BY TypeNext DEF StagingInv
<1>2. CASE UNCHANGED vars
  <2>1. LockInv'
    BY <1>1, <1>2 DEF LockInv, Inside, PathsOf, vars, thread
  <2>2. StagingIsKept'
    BY <1>1, <1>2 DEF StagingIsKept, vars, thread, disk
  <2> QED BY <1>1, <2>1, <2>2 DEF StagingInv
<1>3. ASSUME NEW u \in Threads, ThreadStep(u) PROVE StagingInv'
  <2>1. LockInv'
    BY <1>1, <1>3, LockStep
  <2>2. ASSUME NEW t \in Threads, stage'[t] \in {"build", "out", "in"}
        PROVE  t \in staging'[path'[t]]
    <3>1. CASE t = u
      BY <1>1, <1>3, <2>2, <3>1, StagingOwn DEF StagingIsKept
    <3>2. CASE t # u
      BY <1>1, <1>3, <2>2, <3>2, StagingOther, OthersStay DEF StagingIsKept
    <3> QED BY <3>1, <3>2
  <2> QED BY <1>1, <2>1, <2>2 DEF StagingInv, StagingIsKept
<1>4. ASSUME NEW q \in Processes, Crash(q) PROVE StagingInv'
  <2>1. LockInv'
    BY <1>1, <1>4, LockCrash
  <2>2. StagingIsKept'
    BY <1>1, <1>4 DEF StagingIsKept, Crash, Forget, disk
  <2> QED BY <1>1, <2>1, <2>2 DEF StagingInv
<1> QED BY <1>2, <1>3, <1>4, NextSteps

----------------------------------------------------------------------------
(* Verdicts                                                                 *)

Moving == {"out", "in", "undo", "restore"}

\* Snapshot c is not at path x and never comes back to it: nothing moves it
\* in, and a repair does not find it.
Gone(x, c) ==
    /\ c \in Found /\ c <= built /\ target[x] # c
    /\ target[x] = Missing => c \notin backup[x]
    /\ \A u \in Threads : path[u] = x /\ stage[u] \in Moving =>
          /\ new[u] # c
          /\ stage[u] # "out" => old[u] # c

\* What a thread that takes a verdict knows: the signature is of something
\* that was there, and if the verdict is of something else, that is gone.
VerdictAt(t) ==
    /\ signed[t] <= built
    /\ stage[t] = "confirm" /\ signed[t] \in Found /\ answer[t] \notin {signed[t], Missing}
          => Gone(path[t], signed[t])
VerdictInv == VerdictIsOfItsSnapshot /\ \A t \in Threads : VerdictAt(t)

\* A step of t that leaves path x alone and moves nothing at x.
LEMMA GoneKept ==
    ASSUME NEW t \in Threads, \A u \in Threads \ {t} : Bystander(u), NEW x \in Paths, NEW c,
           Gone(x, c), built \in Nat, built' \in Nat, built <= built',
           target'[x] = target[x], backup'[x] = backup[x],
           path'[t] = x /\ stage'[t] \in Moving =>
              /\ path[t] = x /\ stage[t] \in Moving
              /\ new'[t] = new[t] /\ old'[t] = old[t] /\ (stage[t] = "out" => stage'[t] = "out")
    PROVE  Gone(x, c)'
<1>1. c \in Found' /\ c <= built'
  BY SnapshotAssumption DEF Gone
<1>2. ASSUME NEW u \in Threads, path'[u] = x, stage'[u] \in Moving
      PROVE  new'[u] # c /\ (stage'[u] # "out" => old'[u] # c)
  BY <1>2 DEF Gone, Bystander
<1> QED BY <1>1, <1>2 DEF Gone

LEMMA GoneStep ==
    ASSUME IInv, IInv', NEW t \in Threads, ThreadStep(t), NEW x \in Paths, NEW c, Gone(x, c)
    PROVE  Gone(x, c)'
<1>0. TypeOK /\ TypeOK' /\ LockInv /\ StageInv(t) /\ built \in Nat /\ built' \in Nat
  BY SnapshotAssumption DEF IInv, TypeOK
<1>1. CASE \/ \E y \in Paths : Start(t, y) \/ Check(t, y) \/ MendFails(t, y)
           \/ Take(t) \/ Enter(t) \/ Mended(t) \/ Read(t) \/ Confirm(t) \/ MakeStaging(t)
           \/ Clean(t)
  <2>1. UNCHANGED <<target, backup, built>>
    BY <1>1 DEF Start, Check, MendFails, Take, Enter, Mended, Read, Confirm, MakeStaging,
                Clean, disk
  <2>2. stage'[t] \notin Moving
    BY <1>1 DEF Start, Check, MendFails, Take, Enter, Mended, Read, Confirm, MakeStaging,
                Clean, Goto, thread, TypeOK, IInv, Moving
  <2>3. \A u \in Threads \ {t} : Bystander(u)
    BY <1>1 DEF Start, Check, MendFails, Take, Enter, Mended, Read, Confirm, MakeStaging,
                Clean, Goto, Forget, thread, Bystander, IInv, TypeOK
  <2> QED BY <1>0, <2>1, <2>2, <2>3, GoneKept
<1>2. CASE Build(t)
  <2>1. \A u \in Threads \ {t} : Bystander(u)
    BY <1>2 DEF Build, Goto, Bystander, IInv, TypeOK
  <2>2. UNCHANGED <<target, backup, path, old>>
    BY <1>2 DEF Build, disk
  <2>3. CASE stage'[t] = "clean" /\ UNCHANGED built
    BY <1>0, <2>1, <2>2, <2>3, GoneKept DEF Moving
  <2>4. CASE stage'[t] = "out" /\ built' = built + 1 /\ new'[t] = built + 1
    <3>1. c <= built /\ c # built + 1 /\ c \in Nat
      BY <1>0, SnapshotAssumption DEF Gone
    <3>2. ASSUME NEW u \in Threads, path'[u] = x, stage'[u] \in Moving
          PROVE  new'[u] # c /\ (stage'[u] # "out" => old'[u] # c)
      BY <2>1, <2>4, <3>1, <3>2 DEF Gone, Bystander
    <3>3. c \in Found /\ c <= built' /\ target'[x] # c /\ (target'[x] = Missing => c \notin backup'[x])
      BY <1>0, <2>2, <2>4, <3>1 DEF Gone
    <3> QED BY <3>2, <3>3 DEF Gone
  <2> QED BY <1>2, <2>3, <2>4 DEF Build, Goto, IInv, TypeOK
<1>3. ASSUME NEW y \in Paths, MendRestore(t, y) \/ MendRemove(t, y) PROVE Gone(x, c)'
  <2>1. UNCHANGED <<stage, path, new, old, built>>
    BY <1>3 DEF MendRestore, MendRemove, thread
  <2>2. target'[x] # c /\ (target'[x] = Missing => c \notin backup'[x])
    BY <1>0, <1>3 DEF MendRestore, MendRemove, Gone, TypeOK
  <2> QED BY <2>1, <2>2 DEF Gone
<1>4. CASE MoveOut(t) \/ MoveIn(t) \/ Undo(t) \/ Restore(t) \/ Drop(t)
  <2>1. OwnStep(t)
    BY <1>4, OwnStepHolds
  <2>2. UNCHANGED <<built, new>> /\ stage[t] \in Moving \cup {"drop"}
    BY <1>4 DEF MoveOut, MoveIn, Undo, Restore, Drop, Moving
  <2>3. CASE path[t] # x
    BY <1>0, <2>1, <2>2, <2>3, GoneKept DEF OwnStep
  <2>4. CASE path[t] = x
    <3>1. ASSUME NEW u \in Threads \ {t}, path'[u] = x, stage'[u] \in Moving
          PROVE  new'[u] # c /\ (stage'[u] # "out" => old'[u] # c)
      BY <2>1, <3>1 DEF Gone, Bystander, OwnStep
    <3>2. SUFFICES /\ target'[x] # c /\ (target'[x] = Missing => c \notin backup'[x])
                   /\ stage'[t] \in Moving => new[t] # c /\ (stage'[t] # "out" => old'[t] # c)
      BY <2>1, <2>2, <2>4, <3>1 DEF Gone, OwnStep
    <3>3. /\ target[x] # c /\ (target[x] = Missing => c \notin backup[x]) /\ c \in Found
          /\ stage[t] \in Moving => new[t] # c
          /\ stage[t] \in Moving \ {"out"} => old[t] # c
      BY <2>4 DEF Gone
    <3>4. c # Missing /\ c # Torn
      BY <3>3
    <3>5. CASE MoveOut(t)
      <4>1. stage[t] = "out" /\ backup[x] = {}
        BY <1>0, <2>4, <3>5 DEF MoveOut, StageInv
      <4>2. new[t] # c
        BY <3>3, <4>1 DEF Moving
      <4> QED BY <1>0, <2>4, <3>3, <3>4, <3>5, <4>1, <4>2 DEF MoveOut, Goto, TypeOK, Moving
    <3>6. CASE MoveIn(t)
      <4>1. new[t] # c /\ old[t] # c
        BY <3>3, <3>6 DEF MoveIn, Moving
      <4>2. old' = old /\ (UNCHANGED target \/ target'[x] = new[t]) /\ UNCHANGED backup
        BY <1>0, <2>4, <3>6 DEF MoveIn, TypeOK
      <4>3. new[t] # Missing
        BY <1>0, <2>4, <3>6 DEF MoveIn, StageInv
      <4> QED BY <3>3, <4>1, <4>2, <4>3
    <3>7. CASE Undo(t)
      <4>1. new[t] # c /\ old[t] # c /\ backup[x] = {old[t]}
        BY <1>0, <2>4, <3>3, <3>7 DEF Undo, Moving, StageInv
      <4>2. old' = old /\ target'[x] \in {Torn, Missing} /\ UNCHANGED backup
        BY <1>0, <2>4, <3>7 DEF Undo, TypeOK
      <4> QED BY <3>4, <4>1, <4>2
    <3>8. CASE Restore(t)
      <4>1. old[t] # c /\ old[t] # Missing
        BY <1>0, <2>4, <3>3, <3>8 DEF Restore, Moving, StageInv
      <4>2. stage'[t] \notin Moving
        BY <1>0, <3>8 DEF Restore, Goto, TypeOK, Moving
      <4>3. (UNCHANGED <<target, backup>>) \/ target'[x] = old[t]
        BY <1>0, <2>4, <3>8 DEF Restore, TypeOK
      <4> QED BY <3>3, <4>1, <4>2, <4>3
    <3>9. CASE Drop(t)
      <4>1. target[x] # Missing /\ UNCHANGED target
        BY <1>0, <2>4, <3>9 DEF Drop, StageInv
      <4>2. stage'[t] \notin Moving
        BY <1>0, <3>9 DEF Drop, Goto, TypeOK, Moving
      <4> QED BY <3>3, <4>1, <4>2
    <3> QED BY <1>4, <3>5, <3>6, <3>7, <3>8, <3>9
  <2> QED BY <2>3, <2>4
<1> QED BY <1>1, <1>2, <1>3, <1>4 DEF ThreadStep, Replace

LEMMA GoneCrash ==
    ASSUME NEW q \in Processes, Crash(q), NEW x \in Paths, NEW c, Gone(x, c)
    PROVE  Gone(x, c)'
<1>1. UNCHANGED <<target, backup, built, path>> /\ c # Missing
  BY DEF Crash, Forget, disk, Gone
<1>2. \A u \in Threads : stage'[u] \in Moving =>
         /\ stage'[u] = stage[u] /\ new'[u] \in {new[u], Missing} /\ old'[u] \in {old[u], Missing}
  BY DEF Crash, Forget, Moving
<1> QED BY <1>1, <1>2 DEF Gone

\* A thread that reads holds the lock: a snapshot it does not find while it
\* finds another, nobody brings back.
LEMMA VerdictRead ==
    ASSUME IInv, NEW t \in Threads, Read(t), VerdictAt(t), Gone(path[t], signed[t])' \/
           ~(signed[t] \in Found /\ target[path[t]] \notin {signed[t], Missing})
    PROVE  VerdictAt(t)'
<1>1. answer'[t] = target[path[t]] /\ UNCHANGED <<signed, path, built>>
  BY DEF Read, Forget, IInv, TypeOK
<1> QED BY <1>1 DEF VerdictAt

LEMMA VerdictGone ==
    ASSUME IInv, NEW t \in Threads, stage[t] = "read", signed[t] \in Found, signed[t] <= built,
           target[path[t]] \notin {signed[t], Missing}
    PROVE  Gone(path[t], signed[t])
<1>1. ASSUME NEW u \in Threads, path[u] = path[t], stage[u] \in Moving PROVE FALSE
  <2>1. t \in Inside /\ u \in Inside
    BY <1>1 DEF Inside, Moving
  <2>2. path[t] \in PathsOf(t) /\ path[t] \in PathsOf(u)
    BY <1>1, OwnPath DEF IInv
  <2>3. t = u
    BY <2>1, <2>2, Exclusive DEF IInv
  <2> QED BY <1>1, <2>3 DEF Moving
<1> QED BY <1>1 DEF Gone

LEMMA VerdictOwn ==
    ASSUME IInv, IInv', NEW t \in Threads, ThreadStep(t), VerdictAt(t)
    PROVE  VerdictAt(t)'
<1>0. TypeOK /\ TypeOK' /\ built \in Nat /\ built' \in Nat /\ path[t] \in Paths
      /\ signed[t] \in Content
  BY SnapshotAssumption DEF IInv, TypeOK
<1>1. CASE Read(t)
  <2>1. CASE signed[t] \in Found /\ target[path[t]] \notin {signed[t], Missing}
    <3>1. Gone(path[t], signed[t])
      BY <1>1, <2>1, VerdictGone DEF Read, VerdictAt
    <3>2. PICK x \in Paths, c \in Found : x = path[t] /\ c = signed[t]
      BY <1>0, <2>1
    <3>3. Gone(x, c)'
      BY <1>1, <3>1, <3>2, GoneStep DEF ThreadStep
    <3>4. answer'[t] = target[path[t]] /\ UNCHANGED <<signed, path, built>>
      BY <1>1 DEF Read, Forget, IInv, TypeOK
    <3> QED BY <3>2, <3>3, <3>4 DEF VerdictAt
  <2>2. CASE ~(signed[t] \in Found /\ target[path[t]] \notin {signed[t], Missing})
    BY <1>1, <2>2, VerdictRead
  <2> QED BY <2>1, <2>2
<1>2. CASE ~Read(t)
  <2>1. stage'[t] # "confirm"
    BY <1>0, <1>2 DEF ThreadStep, Replace, Start, Check, MendRestore, MendRemove, MendFails, Take,
           Enter, Mended, Confirm, MakeStaging, Build, MoveOut, MoveIn, Undo, Undoing,
           Restore, Drop, Clean, Goto, thread, TypeOK
  <2>2. \/ signed'[t] = signed[t] \/ signed'[t] = Missing
        \/ \E x \in Paths : signed'[t] = target[x]
    BY <1>0, <1>2 DEF ThreadStep, Replace, Start, Check, MendRestore, MendRemove, MendFails, Take,
           Enter, Mended, Confirm, MakeStaging, Build, MoveOut, MoveIn, Undo, Restore, Drop,
           Clean, TypeOK
  <2>3. built <= built'
    BY <1>0, <1>2 DEF ThreadStep, Replace, Start, Check, MendRestore, MendRemove, MendFails, Take,
           Enter, Mended, Confirm, MakeStaging, Build, MoveOut, MoveIn, Undo, Restore, Drop,
           Clean
  <2>4. signed'[t] <= built'
    <3>1. \A x \in Paths : target[x] <= built /\ target[x] \in Content
      BY <1>0 DEF IInv, AgeInv, TypeOK
    <3> QED BY <1>0, <2>2, <2>3, <3>1, SnapshotAssumption DEF VerdictAt
  <2> QED BY <2>1, <2>4 DEF VerdictAt
<1> QED BY <1>1, <1>2

LEMMA VerdictOther ==
    ASSUME IInv, IInv', NEW t \in Threads, NEW u \in Threads \ {t}, ThreadStep(u), VerdictAt(t)
    PROVE  VerdictAt(t)'
<1>1. /\ stage'[t] = stage[t] /\ path'[t] = path[t]
      /\ signed'[t] = signed[t] /\ answer'[t] = answer[t]
  BY OthersStay DEF IInv
<1>2. PICK x \in Paths, c \in Content : x = path[t] /\ c = signed[t]
  BY DEF IInv, TypeOK
<1>3. Gone(x, c) => Gone(x, c)'
  BY GoneStep
<1>4. built \in Nat /\ built' \in Nat /\ built <= built'
  BY SnapshotAssumption DEF ThreadStep, Replace, Start, Check, MendRestore, MendRemove, MendFails,
         Take, Enter, Mended, Read, Confirm, MakeStaging, Build, MoveOut, MoveIn, Undo,
         Restore, Drop, Clean, IInv, TypeOK
<1>5. signed'[t] <= built'
  BY <1>1, <1>2, <1>4, SnapshotAssumption DEF VerdictAt
<1> QED BY <1>1, <1>2, <1>3, <1>5 DEF VerdictAt

\* A verdict is remembered only if the files it was signed for are still there.
LEMMA VerdictRemembered ==
    ASSUME IInv, VerdictInv, NEW t \in Threads, ThreadStep(t)
    PROVE  VerdictIsOfItsSnapshot'
<1>1. CASE UNCHANGED cache
  BY <1>1 DEF VerdictInv, VerdictIsOfItsSnapshot
<1>2. CASE Confirm(t) /\ target[path[t]] = signed[t]
  <2>1. signed[t] \in Found => answer[t] \in {signed[t], Missing}
    BY <1>2 DEF Confirm, VerdictInv, VerdictAt, Gone
  <2>2. cache' = [cache EXCEPT ![ProcessOf[t]][path[t]] = <<signed[t], answer[t]>>]
    BY <1>2 DEF Confirm
  <2>3. ASSUME NEW q \in Processes, NEW x \in Paths
        PROVE  \/ cache'[q][x] = cache[q][x]
               \/ cache'[q][x] = <<signed[t], answer[t]>>
    BY <2>2 DEF IInv, TypeOK
  <2> QED BY <2>1, <2>3 DEF VerdictInv, VerdictIsOfItsSnapshot
<1> QED BY <1>1, <1>2 DEF ThreadStep, Replace, Start, Check, MendRestore, MendRemove, MendFails,
         Take, Enter, Mended, Read, Confirm, MakeStaging, Build, MoveOut, MoveIn, Undo,
         Restore, Drop, Clean

LEMMA VerdictCrash ==
    ASSUME IInv, VerdictInv, NEW q \in Processes, Crash(q)
    PROVE  VerdictInv'
<1>1. VerdictIsOfItsSnapshot'
  BY DEF Crash, VerdictInv, VerdictIsOfItsSnapshot, IInv, TypeOK
<1>2. ASSUME NEW t \in Threads PROVE VerdictAt(t)'
  <2>1. UNCHANGED <<signed, answer, path, built>> /\ stage'[t] \in {stage[t], "idle"}
    BY DEF Crash, Forget
  <2>2. PICK x \in Paths, c \in Content : x = path[t] /\ c = signed[t]
    BY DEF IInv, TypeOK
  <2>3. Gone(x, c) => Gone(x, c)'
    BY GoneCrash
  <2> QED BY <2>1, <2>2, <2>3 DEF VerdictInv, VerdictAt
<1> QED BY <1>1, <1>2 DEF VerdictInv

LEMMA VerdictNext == IInv /\ IInv' /\ VerdictInv /\ [Next]_vars => VerdictInv'
<1> SUFFICES ASSUME IInv, IInv', VerdictInv, [Next]_vars PROVE VerdictInv'
  OBVIOUS
<1>1. CASE UNCHANGED vars
  BY <1>1 DEF VerdictInv, VerdictAt, VerdictIsOfItsSnapshot, Gone, vars, thread, disk
<1>2. ASSUME NEW u \in Threads, ThreadStep(u) PROVE VerdictInv'
  <2>1. VerdictIsOfItsSnapshot'
    BY <1>2, VerdictRemembered
  <2>2. ASSUME NEW t \in Threads PROVE VerdictAt(t)'
    BY <1>2, VerdictOwn, VerdictOther DEF VerdictInv
  <2> QED BY <2>1, <2>2 DEF VerdictInv
<1>3. ASSUME NEW q \in Processes, Crash(q) PROVE VerdictInv'
  BY <1>3, VerdictCrash
<1> QED BY <1>1, <1>2, <1>3, NextSteps

----------------------------------------------------------------------------
(* Readers                                                                  *)

LEMMA ReadersFind ==
    ASSUME IInv, [Next]_vars, NEW t \in Threads,
           stage[t] = "read", stage'[t] # "read", UNCHANGED faults
    PROVE  /\ answer'[t] # Torn
           /\ \/ answer'[t] = Settled[path[t]]
              \/ path[t] \in PlainReads /\ answer'[t] = Missing
<1>1. Read(t)
  <2>1. CASE UNCHANGED vars
    BY <2>1 DEF vars, thread
  <2>2. ASSUME NEW q \in Processes, Crash(q) PROVE FALSE
    BY <2>2, SnapshotAssumption DEF Crash, Fails, IInv, TypeOK
  <2>3. ASSUME NEW u \in Threads, ThreadStep(u) PROVE Read(t)
    <3>1. u = t
      BY <2>3, OthersStay DEF IInv
    <3> QED BY <2>3, <3>1 DEF ThreadStep, Replace, Start, Check, MendRestore, MendRemove,
               MendFails, Take, Enter, Mended, Confirm, MakeStaging, Build, MoveOut, MoveIn,
               Undo, Restore, Drop, Clean, Locking
  <2> QED BY <2>1, <2>2, <2>3, NextSteps
<1>2. answer'[t] = target[path[t]]
  BY <1>1 DEF Read, IInv, TypeOK
<1>3. t \in Inside /\ path[t] \in PathsOf(t) /\ path[t] \in Paths
  BY OwnPath DEF Inside, IInv
<1>4. ~UndoAt(path[t])
  BY <1>3, OwnUndo
<1>5. target[path[t]] # Torn
  BY <1>3, <1>4 DEF IInv, RestInv, UndoAt
<1>6. path[t] \notin PlainReads => backup[path[t]] = {}
  BY DEF IInv, ReadInv, ReadAt
<1>7. \/ Settled[path[t]] = target[path[t]]
      \/ path[t] \in PlainReads /\ target[path[t]] = Missing
  BY <1>3, <1>4, <1>6, SettledAt DEF InDoubt
<1> QED BY <1>2, <1>5, <1>7

\* Readers of canvas_access.py and course_canvas_context.py find the snapshot
\* of the last finished replacement, or no directory if they do not repair;
\* never a torn or an unfinished one.
THEOREM ReadersFindIt == SyncOrCrash => (Spec => ReadersFindThePublication)
<1> SUFFICES ASSUME SyncOrCrash PROVE Spec => ReadersFindThePublication
  OBVIOUS
<1>1. IInv /\ [Next]_vars =>
        [\A t \in Threads : stage[t] = "read" /\ stage'[t] # "read" /\ UNCHANGED faults =>
            /\ answer'[t] # Torn
            /\ \/ answer'[t] = Settled[path[t]]
               \/ path[t] \in PlainReads /\ answer'[t] = Missing]_vars
  BY ReadersFind
<1> QED BY <1>1, Invariant, PTL DEF Spec, ReadersFindThePublication

----------------------------------------------------------------------------
(* Waiting                                                                  *)

\* A thread holds locks only while it needs them, and takes them in order.
HolderAt(t) ==
    \A l \in Locks : holder[l] = t =>
        /\ stage[t] \notin {"idle", "confirm"}
        /\ l \in Needed(t)
        /\ stage[t] \in Locking => \A m \in Needed(t) : Before(m, l) => holder[m] = t
HolderInv == TypeOK /\ \A t \in Threads : HolderAt(t)

LEMMA NeededType ==
    ASSUME TypeOK, NEW t \in Threads
    PROVE  Needed(t) \subseteq Locks
BY PathsOfType, SnapshotAssumption DEF Needed

\* A thread that goes on for the same paths and takes or drops no lock.
LEMMA HolderSame ==
    ASSUME NEW t \in Threads, HolderAt(t),
           \A l \in Locks : (holder'[l] = t) = (holder[l] = t),
           path'[t] = path[t], stage'[t] \in Reading <=> stage[t] \in Reading,
           stage'[t] \notin {"idle", "confirm"},
           stage'[t] \in Locking => stage[t] \in Locking,
           Needed(t) \subseteq Locks
    PROVE  HolderAt(t)'
<1>1. Needed(t)' = Needed(t)
  BY DEF Needed, PathsOf
<1> QED BY <1>1 DEF HolderAt

LEMMA HolderNone ==
    ASSUME NEW t \in Threads, \A l \in Locks : holder'[l] # t
    PROVE  HolderAt(t)'
BY DEF HolderAt

\* Another thread's step drops no lock of t and gives it none.
LEMMA HolderOther ==
    ASSUME HolderInv, NEW t \in Threads, NEW u \in Threads \ {t}, ThreadStep(u)
    PROVE  HolderAt(t)'
<1>1. TypeOK /\ Needed(t) \subseteq Locks /\ HolderAt(t)
  BY NeededType DEF HolderInv
<1>2. stage'[t] = stage[t] /\ path'[t] = path[t]
  BY <1>1, OthersStay
<1>3. ASSUME NEW l \in Locks PROVE (holder'[l] = t) = (holder[l] = t)
  <2>1. CASE Take(u)
    <3>1. PICK m \in Needed(u) : holder[m] = None /\ holder' = [holder EXCEPT ![m] = u]
      BY <2>1 DEF Take, CanTake
    <3> QED BY <1>1, <3>1, SnapshotAssumption DEF TypeOK
  <2>2. CASE Forget({u})
    BY <1>1, <2>2, SnapshotAssumption DEF Forget, Released, TypeOK
  <2>3. CASE UNCHANGED holder
    BY <2>3
  <2> QED BY <2>1, <2>2, <2>3 DEF ThreadStep, Replace, Start, Check, MendRestore, MendRemove,
             MendFails, Enter, Mended, Read, Confirm, MakeStaging, Build, MoveOut, MoveIn,
             Undo, Restore, Drop, Clean, thread
<1>4. CASE stage[t] \in {"idle", "confirm"}
  BY <1>1, <1>3, <1>4, HolderNone DEF HolderAt
<1>5. CASE stage[t] \notin {"idle", "confirm"}
  BY <1>1, <1>2, <1>3, <1>5, HolderSame
<1> QED BY <1>4, <1>5

LEMMA HolderOwn ==
    ASSUME HolderInv, NEW t \in Threads, ThreadStep(t)
    PROVE  HolderAt(t)'
<1>1. TypeOK /\ Needed(t) \subseteq Locks /\ HolderAt(t)
  BY NeededType DEF HolderInv
<1>2. CASE Take(t)
  <2>1. PICK l \in Needed(t) : CanTake(t, l) /\ holder' = [holder EXCEPT ![l] = t]
    BY <1>2 DEF Take
  <2>2. UNCHANGED <<stage, path>> /\ stage[t] \in Locking
    BY <1>2 DEF Take, thread
  <2>3. Needed(t)' = Needed(t)
    BY <2>2 DEF Needed, PathsOf
  <2>4. \A k \in Locks : holder'[k] = IF k = l THEN t ELSE holder[k]
    BY <1>1, <2>1 DEF TypeOK
  <2> QED BY <1>1, <2>1, <2>2, <2>3, <2>4 DEF HolderAt, CanTake
<1>3. CASE Forget({t})
  BY <1>1, <1>3, HolderNone, SnapshotAssumption DEF Forget, Released, TypeOK
<1>4. ASSUME NEW x \in Paths, Start(t, x) \/ Check(t, x) PROVE HolderAt(t)'
  BY <1>1, <1>4, HolderNone DEF HolderAt, Start, Check
<1>5. CASE Confirm(t)
  BY <1>1, <1>5, HolderNone DEF HolderAt, Confirm
<1>6. CASE \/ \E x \in Paths : MendRestore(t, x) \/ MendRemove(t, x)
           \/ Enter(t) \/ Mended(t) \/ MakeStaging(t) \/ Build(t) \/ MoveOut(t)
           \/ MoveIn(t) \/ Undo(t) \/ Restore(t) \/ Drop(t)
  <2>1. UNCHANGED <<holder, path>>
    BY <1>6 DEF MendRestore, MendRemove, Enter, Mended, MakeStaging, Build, MoveOut, MoveIn,
                Undo, Restore, Drop, thread
  <2>2. stage'[t] \in Reading <=> stage[t] \in Reading
    BY <1>1, <1>6 DEF MendRestore, MendRemove, Enter, Mended, MakeStaging, Build, MoveOut, MoveIn,
                Undo, Undoing, Restore, Drop, Goto, thread, TypeOK
  <2>3. stage'[t] \notin {"idle", "confirm"} \cup Locking
    BY <1>1, <1>6 DEF MendRestore, MendRemove, Enter, Mended, MakeStaging, Build, MoveOut, MoveIn,
                Undo, Undoing, Restore, Drop, Goto, thread, TypeOK
  <2> QED BY <1>1, <2>1, <2>2, <2>3, HolderSame
<1> QED BY <1>2, <1>3, <1>4, <1>5, <1>6 DEF ThreadStep, Replace, MendFails, Read, Clean

LEMMA HolderCrash ==
    ASSUME HolderInv, NEW q \in Processes, Crash(q), NEW t \in Threads
    PROVE  HolderAt(t)'
<1>1. TypeOK /\ Needed(t) \subseteq Locks /\ HolderAt(t)
  BY NeededType DEF HolderInv
<1>2. CASE ProcessOf[t] = q
  BY <1>1, <1>2, HolderNone, SnapshotAssumption DEF Crash, Forget, Released
<1>3. CASE ProcessOf[t] # q
  <2>1. stage'[t] = stage[t] /\ path'[t] = path[t]
    BY <1>3 DEF Crash, Forget
  <2>2. \A l \in Locks : (holder'[l] = t) = (holder[l] = t)
    BY <1>3, SnapshotAssumption DEF Crash, Forget, Released
  <2>3. CASE stage[t] \in {"idle", "confirm"}
    BY <1>1, <2>2, <2>3, HolderNone DEF HolderAt
  <2>4. CASE stage[t] \notin {"idle", "confirm"}
    BY <1>1, <2>1, <2>2, <2>4, HolderSame
  <2> QED BY <2>3, <2>4
<1> QED BY <1>2, <1>3

LEMMA HolderNext == HolderInv /\ [Next]_vars => HolderInv'
<1> SUFFICES ASSUME HolderInv, [Next]_vars PROVE HolderInv'
  OBVIOUS
<1>1. TypeOK'
  BY TypeNext DEF HolderInv
<1>2. CASE UNCHANGED vars
  BY <1>1, <1>2 DEF HolderInv, HolderAt, Needed, PathsOf, vars, thread
<1>3. ASSUME NEW u \in Threads, ThreadStep(u) PROVE HolderInv'
  BY <1>1, <1>3, HolderOwn, HolderOther DEF HolderInv
<1>4. ASSUME NEW q \in Processes, Crash(q) PROVE HolderInv'
  BY <1>1, <1>4, HolderCrash DEF HolderInv
<1> QED BY <1>2, <1>3, <1>4, NextSteps

\* Where a lock stands in the order in which a thread takes its locks.
Last == Cardinality(Paths)
Rank(l) == IF l[1] = File THEN Last + l[2] ELSE l[2]

LEMMA RankType ==
    ASSUME NEW l \in Locks
    PROVE  Rank(l) \in 1 .. 2 * Last /\ Last \in Nat
BY SnapshotAssumption DEF Rank, Last

\* The locks of a thread are taken in the order of their ranks.
LEMMA RankOrders ==
    ASSUME TypeOK, NEW t \in Threads, NEW l \in Needed(t), NEW m \in Needed(t)
    PROVE  /\ Before(m, l) <=> Rank(m) < Rank(l)
           /\ Rank(m) = Rank(l) => m = l
<1>1. PathsOf(t) \subseteq 1 .. Last /\ Last \in Nat
  BY PathsOfType, SnapshotAssumption DEF Last
<1>2. ProcessOf[t] # File
  BY SnapshotAssumption
<1>3. PICK a, b \in {ProcessOf[t], File}, x, y \in PathsOf(t) : l = <<a, x>> /\ m = <<b, y>>
  BY DEF Needed
<1> QED BY <1>1, <1>2, <1>3 DEF Before, Rank

\* A set of numbers that is not empty has a least one.
LEMMA Least ==
    ASSUME NEW S \in SUBSET Nat, S # {}
    PROVE  \E n \in S : \A m \in S : n <= m
<1>1. PICK n \in S : \A m \in S : <<m, n>> \notin OpToRel(<, Nat)
  BY WFMin, NatLessThanWellFounded
<1>2. \A m \in S : ~(m < n)
  BY <1>1 DEF OpToRel
<1> QED BY <1>2

\* The first lock a thread waits for.
Awaits(t, l) ==
    /\ l \in Needed(t) /\ holder[l] # t
    /\ \A m \in Needed(t) : Before(m, l) => holder[m] = t

LEMMA AwaitsOne ==
    ASSUME TypeOK, NEW t \in Threads, \E l \in Needed(t) : holder[l] # t
    PROVE  \E l \in Needed(t) : Awaits(t, l)
<1> DEFINE S == {Rank(l) : l \in {k \in Needed(t) : holder[k] # t}}
<1>1. S \in SUBSET Nat /\ S # {}
  BY NeededType, RankType
<1>2. PICK n \in S : \A m \in S : n <= m
  BY <1>1, Least
<1>3. PICK l \in Needed(t) : holder[l] # t /\ n = Rank(l)
  BY <1>2
<1>4. ASSUME NEW m \in Needed(t), Before(m, l) PROVE holder[m] = t
  <2>1. Rank(m) < Rank(l) /\ Rank(m) \in Nat /\ Rank(l) \in Nat
    BY <1>4, RankOrders, NeededType, RankType
  <2> QED BY <1>2, <1>3, <2>1
<1> QED BY <1>3, <1>4 DEF Awaits

\* Among threads that only wait, the lock of the highest rank that one waits
\* for is free.
LEMMA NobodyWaitsForAll == HolderInv => NoDeadlock
<1> SUFFICES ASSUME HolderInv, Inside = {}, NEW w \in Threads, stage[w] \in Locking,
                    \A t \in Threads : stage[t] \in Locking =>
                        /\ \E l \in Needed(t) : holder[l] # t
                        /\ \A l \in Needed(t) : ~CanTake(t, l)
             PROVE  FALSE
  BY DEF NoDeadlock
<1>1. TypeOK
  BY DEF HolderInv
<1> DEFINE Awaited == {l \in Locks : \E t \in Threads : stage[t] \in Locking /\ Awaits(t, l)}
           S == {2 * Last - Rank(l) : l \in Awaited}
<1>2. S \in SUBSET Nat /\ S # {}
  <2>1. Awaited # {}
    BY <1>1, AwaitsOne, NeededType
  <2> QED BY <2>1, RankType
<1>3. PICK n \in S : \A m \in S : n <= m
  BY <1>2, Least
<1>4. PICK l \in Awaited : n = 2 * Last - Rank(l)
  BY <1>3
<1>5. PICK t \in Threads : stage[t] \in Locking /\ Awaits(t, l)
  BY <1>4
<1>6. PICK u \in Threads : holder[l] = u
  BY <1>1, <1>4, <1>5 DEF Awaits, CanTake, TypeOK
<1>7. stage[u] \in Locking /\ l \in Needed(u)
      /\ \A m \in Needed(u) : Before(m, l) => holder[m] = u
  BY <1>4, <1>6 DEF HolderInv, HolderAt, Inside
<1>8. PICK k \in Needed(u) : Awaits(u, k)
  BY <1>1, <1>7, AwaitsOne
<1>9. k \in Awaited
  BY <1>1, <1>7, <1>8, NeededType
<1>10. Rank(k) <= Rank(l)
  <2>1. 2 * Last - Rank(l) <= 2 * Last - Rank(k)
    BY <1>3, <1>4, <1>9
  <2>2. Rank(k) \in Nat /\ Rank(l) \in Nat /\ Last \in Nat
    BY <1>4, <1>9, RankType
  <2> QED BY <2>1, <2>2
<1>11. k # l /\ ~Before(k, l)
  BY <1>6, <1>7, <1>8 DEF Awaits
<1> QED BY <1>1, <1>7, <1>8, <1>10, <1>11, RankOrders, RankType, NeededType

\* What the locks of canvas_snapshot.py promise to every number of threads and
\* processes: no two threads wait for each other, a staged tree is not swept
\* while its writer works, and no verdict is remembered for files it is not of.
THEOREM LocksAreHeld == SyncOrCrash => (Spec => []LocksHold)
<1> SUFFICES ASSUME SyncOrCrash PROVE Spec => []LocksHold
  OBVIOUS
<1>1. Init => StagingInv /\ HolderInv /\ VerdictInv
  <2> SUFFICES ASSUME Init PROVE StagingInv /\ HolderInv /\ VerdictInv
    OBVIOUS
  <2>1. TypeOK /\ LockInv
    BY IInvInit DEF IInv
  <2>2. StagingIsKept
    BY DEF Init, StagingIsKept
  <2>3. \A t \in Threads : HolderAt(t)
    BY SnapshotAssumption DEF Init, HolderAt
  <2>4. VerdictInv
    BY DEF Init, VerdictInv, VerdictAt, VerdictIsOfItsSnapshot
  <2> QED BY <2>1, <2>2, <2>3, <2>4 DEF StagingInv, HolderInv
<1>2. StagingInv /\ HolderInv /\ VerdictInv => LocksHold
  BY NobodyWaitsForAll DEF StagingInv, VerdictInv, LocksHold
<1> QED BY <1>1, <1>2, StagingNext, HolderNext, VerdictNext, Invariant, PTL DEF Spec

============================================================================
