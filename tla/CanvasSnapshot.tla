-------------------------- MODULE CanvasSnapshot --------------------------
(***************************************************************************)
(* Canvas directories that are replaced as a whole.  A writer builds the   *)
(* new snapshot in a staging directory, moves the current one aside and    *)
(* the new one in, and removes the one it moved.  Whoever may write first  *)
(* takes the locks of its paths and repairs what an interrupted writer     *)
(* left there; some readers take the lock and do not repair.               *)
(*                                                                         *)
(* Threads belong to processes.  A lock of a path is a lock among the      *)
(* threads of a process and a file lock among processes.  A process may    *)
(* crash between any two steps, a build, a rename or a sync may fail, and  *)
(* removing a directory tears it before it is gone.                        *)
(***************************************************************************)
EXTENDS Integers, FiniteSets

CONSTANTS
    Threads,
    Processes,
    ProcessOf,  \* the process of a thread
    Paths,      \* canvas directories, numbered in the order of their names
    LockSet,    \* LockSet[x]: the paths a writer of x locks
    PlainReads, \* paths whose readers do not repair
    File,       \* stands for the process in the name of a file lock
    None,       \* nobody
    Faults,     \* kinds of failures: "build", "rename", "sync", "crash"
    MaxWrites,  \* bound: snapshots built
    MaxFaults   \* bound: failures

ASSUME SnapshotAssumption ==
    /\ Cardinality(Paths) \in Nat
    /\ Paths = 1..Cardinality(Paths)
    /\ ProcessOf \in [Threads -> Processes]
    /\ LockSet \in [Paths -> SUBSET Paths]
    /\ \A x \in Paths : x \in LockSet[x]
    /\ PlainReads \subseteq Paths
    /\ File \notin Processes
    /\ None \notin Threads
    /\ MaxWrites \in Nat
    /\ MaxFaults \in Nat

VARIABLES
    target,  \* target[x]: the snapshot in the directory of path x
    backup,  \* backup[x]: the snapshots moved aside next to it
    staging, \* staging[x]: the staging directories next to it, by their thread
    stage,   \* stage[t]: what thread t does next
    path,    \* path[t]: the path it reads or replaces
    holder,  \* holder[l]: the thread that holds lock l
    mended,  \* mended[t]: the paths it has repaired
    new,     \* new[t]: the snapshot it built
    old,     \* old[t]: the snapshot it moved aside
    answer,  \* answer[t]: what it found when it read last
    signed,  \* signed[t]: the snapshot whose verdict it is to remember, if any
    cache,   \* cache[q][x]: the snapshot whose verdict process q remembers, and the verdict
    built,   \* snapshots built so far
    faults   \* failures so far

disk == <<target, backup, staging>>
thread == <<stage, path, mended, new, old>>
vars == <<disk, thread, holder, answer, signed, cache, built, faults>>

Missing == 0
Torn == -1
Found == 1..MaxWrites
Content == Found \cup {Missing, Torn}

Stages == {"idle", "lockRead", "lockPlain", "lockWrite", "mendRead", "mendWrite",
           "read", "confirm", "make", "build", "out", "in", "undo", "restore", "drop", "clean"}
Reading == {"lockRead", "lockPlain", "mendRead", "read"}
Locking == {"lockRead", "lockPlain", "lockWrite"}
Locks == (Processes \cup {File}) \X Paths

\* A failure of some kind, or none.
Fails(kind) == kind \in Faults /\ faults < MaxFaults /\ faults' = faults + 1
Succeeds == UNCHANGED faults

Goto(t, s) == stage' = [stage EXCEPT ![t] = s]

----------------------------------------------------------------------------
(* Locks: of every path the process' own, in the order of the names, then   *)
(* the file locks in that order.                                            *)

PathsOf(t) == IF stage[t] \in Reading THEN {path[t]} ELSE LockSet[path[t]]
\* Mutant: other processes are not locked out.
NeededInProcess(t) == {ProcessOf[t]} \X PathsOf(t)
Needed(t) == {ProcessOf[t], File} \X PathsOf(t)
Before(m, l) == \/ m[1] # File /\ l[1] = File
                \/ m[1] = l[1] /\ m[2] < l[2]
CanTake(t, l) ==
    /\ holder[l] = None
    /\ \A m \in Needed(t) : Before(m, l) => holder[m] = t

Start(t, x) ==
    /\ stage[t] = "idle"
    /\ \/ stage' = [stage EXCEPT ![t] = IF x \in PlainReads THEN "lockPlain" ELSE "lockRead"]
       \/ built < MaxWrites /\ stage' = [stage EXCEPT ![t] = "lockWrite"]
    /\ path' = [path EXCEPT ![t] = x]
    /\ signed' = [signed EXCEPT ![t] = Missing]
    /\ UNCHANGED <<disk, mended, new, old, holder, answer, cache, built, faults>>

Take(t) ==
    /\ stage[t] \in Locking
    /\ \E l \in Needed(t) : CanTake(t, l) /\ holder' = [holder EXCEPT ![l] = t]
    /\ UNCHANGED <<disk, thread, answer, signed, cache, built, faults>>

Enter(t) ==
    /\ stage[t] \in Locking
    /\ \A l \in Needed(t) : holder[l] = t
    /\ stage' = [stage EXCEPT ![t] = IF @ = "lockRead" THEN "mendRead"
                                     ELSE IF @ = "lockWrite" THEN "mendWrite" ELSE "read"]
    /\ mended' = [mended EXCEPT ![t] = {}]
    /\ UNCHANGED <<disk, path, new, old, holder, answer, signed, cache, built, faults>>

Released(ts) == [l \in Locks |-> IF holder[l] \in ts THEN None ELSE holder[l]]

\* The end of the with statement drops the locks and the local variables.
Forget(ts) ==
    /\ holder' = Released(ts)
    /\ mended' = [t \in Threads |-> IF t \in ts THEN {} ELSE mended[t]]
    /\ new' = [t \in Threads |-> IF t \in ts THEN Missing ELSE new[t]]
    /\ old' = [t \in Threads |-> IF t \in ts THEN Missing ELSE old[t]]
    /\ UNCHANGED path

----------------------------------------------------------------------------
(* Repair and reading                                                       *)

\* Mutant: what was moved aside is taken for a leftover.
MendForgets(t, x) ==
    /\ stage[t] \in {"mendRead", "mendWrite"}
    /\ x \in PathsOf(t) \ mended[t]
    /\ target[x] = Missing
    /\ backup[x] # {}
    /\ backup' = [backup EXCEPT ![x] = {}]
    /\ UNCHANGED <<target, staging, thread, holder, answer, signed, cache, built, faults>>

\* The directory is missing: the snapshot moved aside last comes back.
MendRestore(t, x) ==
    /\ stage[t] \in {"mendRead", "mendWrite"}
    /\ x \in PathsOf(t) \ mended[t]
    /\ target[x] = Missing
    /\ \E c \in backup[x] :
          /\ target' = [target EXCEPT ![x] = c]
          /\ backup' = [backup EXCEPT ![x] = @ \ {c}]
    /\ UNCHANGED <<staging, thread, holder, answer, signed, cache, built, faults>>

\* Mutant: a repair leaves the backup of a finished replacement.
MendKeeps(t, x) ==
    /\ stage[t] \in {"mendRead", "mendWrite"}
    /\ x \in PathsOf(t) \ mended[t]
    /\ target[x] = Missing => backup[x] = {}
    /\ staging' = [staging EXCEPT ![x] = {}]
    /\ mended' = [mended EXCEPT ![t] = @ \cup {x}]
    /\ UNCHANGED <<target, backup, stage, path, new, old, holder, answer, signed, cache, built, faults>>

\* The directory is there, or there is nothing to restore: the rest goes.
MendRemove(t, x) ==
    /\ stage[t] \in {"mendRead", "mendWrite"}
    /\ x \in PathsOf(t) \ mended[t]
    /\ target[x] = Missing => backup[x] = {}
    /\ backup' = [backup EXCEPT ![x] = {}]
    /\ staging' = [staging EXCEPT ![x] = {}]
    /\ mended' = [mended EXCEPT ![t] = @ \cup {x}]
    /\ UNCHANGED <<target, stage, path, new, old, holder, answer, signed, cache, built, faults>>

Mended(t) ==
    /\ stage[t] \in {"mendRead", "mendWrite"}
    /\ PathsOf(t) \subseteq mended[t]
    /\ stage' = [stage EXCEPT ![t] = IF @ = "mendRead" THEN "read" ELSE "make"]
    /\ UNCHANGED <<disk, path, mended, new, old, holder, answer, signed, cache, built, faults>>

Read(t) ==
    /\ stage[t] = "read"
    /\ answer' = [answer EXCEPT ![t] = target[path[t]]]
    /\ stage' = [stage EXCEPT ![t] = IF signed[t] = Missing THEN "idle" ELSE "confirm"]
    /\ Forget({t})
    /\ UNCHANGED <<disk, signed, cache, built, faults>>

\* A repair whose rename fails reaches neither the read nor the replacement.
MendFails(t, x) ==
    /\ stage[t] \in {"mendRead", "mendWrite"}
    /\ x \in PathsOf(t) \ mended[t]
    /\ target[x] = Missing /\ backup[x] # {}
    /\ Fails("rename")
    /\ Goto(t, "idle")
    /\ Forget({t})
    /\ UNCHANGED <<disk, answer, signed, cache, built>>

----------------------------------------------------------------------------
(* The remembered verdict of a published snapshot.  A verdict is a read; it *)
(* is looked up and remembered by the identity of the files, which is taken *)
(* without the lock.  Contents stand for their identity here.               *)

Check(t, x) ==
    LET q == ProcessOf[t] IN
    /\ stage[t] = "idle"
    /\ x \in PlainReads
    /\ target[x] # Missing
    /\ path' = [path EXCEPT ![t] = x]
    /\ \/ /\ cache[q][x][1] = target[x]
          /\ answer' = [answer EXCEPT ![t] = cache[q][x][2]]
          /\ UNCHANGED <<stage, signed>>
       \/ /\ cache[q][x][1] # target[x]
          /\ signed' = [signed EXCEPT ![t] = target[x]]
          /\ stage' = [stage EXCEPT ![t] = "lockPlain"]
          /\ UNCHANGED answer
    /\ UNCHANGED <<disk, mended, new, old, holder, cache, built, faults>>

\* Mutant: the files are not signed again.
ConfirmBlindly(t) ==
    /\ stage[t] = "confirm"
    /\ stage' = [stage EXCEPT ![t] = "idle"]
    /\ cache' = [cache EXCEPT ![ProcessOf[t]][path[t]] = <<signed[t], answer[t]>>]
    /\ UNCHANGED <<disk, path, mended, new, old, holder, answer, signed, built, faults>>

\* The files are still the ones signed before the validation.
Confirm(t) ==
    LET x == path[t] IN
    /\ stage[t] = "confirm"
    /\ stage' = [stage EXCEPT ![t] = "idle"]
    /\ cache' = IF target[x] = signed[t]
                THEN [cache EXCEPT ![ProcessOf[t]][x] = <<signed[t], answer[t]>>]
                ELSE cache
    /\ UNCHANGED <<disk, path, mended, new, old, holder, answer, signed, built, faults>>

----------------------------------------------------------------------------
(* Replacing a snapshot                                                     *)

MakeStaging(t) ==
    /\ stage[t] = "make"
    /\ staging' = [staging EXCEPT ![path[t]] = @ \cup {t}]
    /\ Goto(t, "build")
    /\ UNCHANGED <<target, backup, path, mended, new, old, holder, answer, signed, cache, built, faults>>

Build(t) ==
    /\ stage[t] = "build"
    /\ \/ /\ Succeeds
          /\ built < MaxWrites
          /\ built' = built + 1
          /\ new' = [new EXCEPT ![t] = built + 1]
          /\ Goto(t, "out")
       \/ /\ Fails("build") \/ (Succeeds /\ built = MaxWrites)
          /\ Goto(t, "clean")
          /\ UNCHANGED <<built, new>>
    /\ UNCHANGED <<disk, path, mended, old, holder, answer, signed, cache>>

\* The current snapshot moves aside, if there is one.
MoveOut(t) ==
    LET x == path[t] IN
    /\ stage[t] = "out"
    /\ \/ /\ target[x] = Missing
          /\ old' = [old EXCEPT ![t] = Missing]
          /\ Goto(t, "in")
          /\ Succeeds
          /\ UNCHANGED <<target, backup>>
       \/ /\ target[x] # Missing
          /\ backup' = [backup EXCEPT ![x] = @ \cup {target[x]}]
          /\ target' = [target EXCEPT ![x] = Missing]
          /\ old' = [old EXCEPT ![t] = target[x]]
          /\ (Succeeds /\ Goto(t, "in")) \/ (Fails("sync") /\ Goto(t, "undo"))
       \/ /\ target[x] # Missing
          /\ Fails("rename")
          /\ Goto(t, "clean")
          /\ UNCHANGED <<target, backup, old>>
    /\ UNCHANGED <<staging, path, mended, new, holder, answer, signed, cache, built>>

\* Where an error leads: back to the old snapshot, if one was moved aside.
Undoing(t) == Goto(t, IF old[t] = Missing THEN "clean" ELSE "undo")

MoveIn(t) ==
    LET x == path[t] IN
    /\ stage[t] = "in"
    /\ \/ /\ target' = [target EXCEPT ![x] = new[t]]
          /\ staging' = [staging EXCEPT ![x] = @ \ {t}]
          /\ (Succeeds /\ Goto(t, "drop")) \/ (Fails("sync") /\ Undoing(t))
       \/ /\ Fails("rename")
          /\ Undoing(t)
          /\ UNCHANGED <<target, staging>>
    /\ UNCHANGED <<backup, path, mended, new, old, holder, answer, signed, cache, built>>

\* A snapshot already in place is removed, file by file.
Undo(t) ==
    LET x == path[t] IN
    /\ stage[t] = "undo"
    /\ target' = [target EXCEPT ![x] = IF @ \in Found THEN Torn ELSE Missing]
    /\ IF target[x] \in Found THEN UNCHANGED stage ELSE Goto(t, "restore")
    /\ UNCHANGED <<backup, staging, path, mended, new, old, holder, answer, signed, cache, built, faults>>

Restore(t) ==
    LET x == path[t] IN
    /\ stage[t] = "restore"
    /\ \/ /\ target' = [target EXCEPT ![x] = old[t]]
          /\ backup' = [backup EXCEPT ![x] = @ \ {old[t]}]
          /\ Succeeds \/ Fails("sync")
       \/ Fails("rename") /\ UNCHANGED <<target, backup>>
    /\ Goto(t, "clean")
    /\ UNCHANGED <<staging, path, mended, new, old, holder, answer, signed, cache, built>>

\* The old snapshot is removed, file by file.
Drop(t) ==
    LET x == path[t] IN
    /\ stage[t] = "drop"
    /\ \/ /\ old[t] \in backup[x]
          /\ backup' = [backup EXCEPT ![x] = (@ \ {old[t]}) \cup {Torn}]
          /\ UNCHANGED stage
       \/ /\ old[t] \notin backup[x]
          /\ backup' = [backup EXCEPT ![x] = @ \ {Torn}]
          /\ Goto(t, "clean")
    /\ UNCHANGED <<target, staging, path, mended, new, old, holder, answer, signed, cache, built, faults>>

\* The finally clause; the locks are dropped after it.
Clean(t) ==
    /\ stage[t] = "clean"
    /\ staging' = [staging EXCEPT ![path[t]] = @ \ {t}]
    /\ Goto(t, "idle")
    /\ Forget({t})
    /\ UNCHANGED <<target, backup, answer, signed, cache, built, faults>>

\* The threads of process q are gone, and their locks with them.
Crash(q) ==
    LET ts == {t \in Threads : ProcessOf[t] = q} IN
    /\ Fails("crash")
    /\ stage' = [t \in Threads |-> IF t \in ts THEN "idle" ELSE stage[t]]
    /\ Forget(ts)
    /\ cache' = [cache EXCEPT ![q] = [x \in Paths |-> <<Missing, Missing>>]]
    /\ UNCHANGED <<disk, answer, signed, built>>

----------------------------------------------------------------------------
Init ==
    /\ target = [x \in Paths |-> Missing]
    /\ backup = [x \in Paths |-> {}]
    /\ staging = [x \in Paths |-> {}]
    /\ stage = [t \in Threads |-> "idle"]
    /\ path \in [Threads -> Paths]
    /\ holder = [l \in Locks |-> None]
    /\ mended = [t \in Threads |-> {}]
    /\ new = [t \in Threads |-> Missing]
    /\ old = [t \in Threads |-> Missing]
    /\ answer = [t \in Threads |-> Missing]
    /\ signed = [t \in Threads |-> Missing]
    /\ cache = [q \in Processes |-> [x \in Paths |-> <<Missing, Missing>>]]
    /\ built = 0
    /\ faults = 0

Replace(t) == MakeStaging(t) \/ Build(t) \/ MoveOut(t) \/ MoveIn(t) \/ Undo(t) \/ Restore(t)
              \/ Drop(t) \/ Clean(t)

Next ==
    \/ \E t \in Threads :
          \/ \E x \in Paths : \/ Start(t, x) \/ Check(t, x)
                             \/ MendRestore(t, x) \/ MendRemove(t, x) \/ MendFails(t, x)
          \/ Take(t) \/ Enter(t) \/ Mended(t) \/ Read(t) \/ Confirm(t) \/ Replace(t)
    \/ \E q \in Processes : Crash(q)

Spec == Init /\ [][Next]_vars

----------------------------------------------------------------------------
(* Properties                                                               *)

\* Every variable keeps to its type.
TypeOK ==
    /\ target \in [Paths -> Content]
    /\ backup \in [Paths -> SUBSET (Found \cup {Torn})]
    /\ staging \in [Paths -> SUBSET Threads]
    /\ stage \in [Threads -> Stages]
    /\ path \in [Threads -> Paths]
    /\ holder \in [Locks -> Threads \cup {None}]
    /\ mended \in [Threads -> SUBSET Paths]
    /\ new \in [Threads -> Found \cup {Missing}]
    /\ old \in [Threads -> Content]
    /\ answer \in [Threads -> Content]
    /\ signed \in [Threads -> Content]
    /\ cache \in [Processes -> [Paths -> Content \X Content]]
    /\ built \in 0..MaxWrites
    /\ faults \in 0..MaxFaults

\* What a repair would leave at path x.
Visible(x) == IF target[x] # Missing \/ backup[x] = {} THEN target[x]
              ELSE CHOOSE c \in backup[x] : TRUE

\* Where the directory is missing there is at most one snapshot to restore,
\* and it is whole: the repair's choice by age is never a choice.
OneToRestore ==
    \A x \in Paths : target[x] = Missing =>
        /\ Torn \notin backup[x]
        /\ \A c, d \in backup[x] : c = d

\* The threads that hold all their locks and have not dropped them.
Inside == {t \in Threads : stage[t] \notin Locking \cup {"idle", "confirm"}}

\* Threads of any number of processes never wait for each other in a circle:
\* if some wait, one of them or one inside goes on.
NoDeadlock ==
    (\E t \in Threads : stage[t] \in Locking) =>
        \/ Inside # {}
        \/ \E t \in Threads :
              /\ stage[t] \in Locking
              /\ \/ \A l \in Needed(t) : holder[l] = t
                 \/ \E l \in Needed(t) : CanTake(t, l)

\* A staging directory is only ever removed by the thread that builds in it
\* or after that thread is gone.
StagingIsKept ==
    \A t \in Threads : stage[t] \in {"build", "out", "in"} => t \in staging[path[t]]

\* The snapshot of a path is the one its last finished replacement left, and
\* every reader that repairs finds it.
Settled == [x \in Paths |->
               IF \E t \in Threads : stage[t] \in {"undo", "restore"} /\ path[t] = x
               THEN old[CHOOSE t \in Threads : stage[t] \in {"undo", "restore"} /\ path[t] = x]
               ELSE Visible(x)]
Register == INSTANCE SnapshotRegister WITH Readers <- Threads, content <- Settled
Replaces == Register!Spec

\* The verdict remembered for a snapshot is that of its files, or of a moment
\* at which the directory was missing, never that of another snapshot.
VerdictIsOfItsSnapshot ==
    \A q \in Processes, x \in Paths :
        LET signature == cache[q][x][1]
            verdict == cache[q][x][2]
        IN signature \in Found => verdict \in {signature, Missing}

\* No two threads wait for each other, a staged tree is not swept while its
\* writer works, and no verdict is remembered for files it is not of.
LocksHold ==
    /\ TypeOK
    /\ NoDeadlock
    /\ StagingIsKept
    /\ VerdictIsOfItsSnapshot

\* Publication is atomic for its readers: they find the snapshot of the last
\* finished replacement, never a torn or an unfinished one
\* (docs/course-ingestion-pipeline.md:210); one that does not repair may find
\* no directory.
ReadersFindThePublication ==
    [][\A t \in Threads : stage[t] = "read" /\ stage'[t] # "read" /\ UNCHANGED faults =>
          /\ answer'[t] # Torn
          /\ \/ answer'[t] = Settled[path[t]]
             \/ path[t] \in PlainReads /\ answer'[t] = Missing]_vars

\* "recover interrupted snapshot replacements" (canvas_snapshot.py:33): after
\* a repair the path does not hold a torn snapshot.
RepairLeavesWhole ==
    \A t \in Threads : stage[t] \in {"read", "make"} /\ path[t] \in mended[t]
        => target[path[t]] # Torn
============================================================================
