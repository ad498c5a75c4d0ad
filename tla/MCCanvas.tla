------------------------------ MODULE MCCanvas ------------------------------
\* Canvas directories, the states of a lecture and the change requests for it
\* on small instances. The components share no state, so one of them runs in
\* each behaviour while the others stay as they began. Path 1 stands for the
\* draft of a lecture and path 2 for its publication, whose writer locks both;
\* the directories run with four sets of failures.
EXTENDS CanvasSnapshot, Sequences, FiniteSets, TLC

CONSTANTS
    t1, t2, t3, worker, other, Pair, R1, R2, S1, S2, Requests, Sections,
    Named, MaxSelected, MaxAttempts, MaxGoals, MaxDrafts, MaxSources,
    MaxDesigns, MaxCrashes, Nobody, Absent

VARIABLES
    component,  \* the one that runs
    src, routing, stateDesign, revs, proposing, stateDraft, publication,
    stateDrafts, stateStatus, task, stateHolder, stateOwner, recent, crashes,
    shown,
    changeDesign, approved, changeDraft, published, changeOwner, changeStatus,
    attempt, job, private, records, changeDrafts

TwoAndOne == t1 :> worker @@ t2 :> worker @@ t3 :> other
DraftAndPublished == <<{1}, {1, 2}>>

\* One thread in each process, and only the draft.
DraftOnly == \A t \in Threads : stage'[t] # "idle" => t # t2 /\ path'[t] = 1
\* One thread in each process.
OneThreadEach == stage'[t2] = "idle"
\* One thread in each process, and only the publication.
PublicationOnly == \A t \in Threads : stage'[t] # "idle" => t # t2 /\ path'[t] = 2

\* A request that names a section and one whose sections the model selects.
NamedOrSelected == R1 :> {S1} @@ R2 :> {}

Replacing == INSTANCE CanvasSnapshot WITH
    Faults <- {"build", "rename", "crash"}
Publishing == INSTANCE CanvasSnapshot WITH
    Faults <- {"rename", "sync"}, MaxWrites <- 2, MaxFaults <- 1
Interrupting == INSTANCE CanvasSnapshot WITH
    Faults <- {"rename", "crash"}, MaxWrites <- 3, MaxFaults <- 1
ThreeThreads == INSTANCE CanvasSnapshot WITH
    Faults <- {}, MaxWrites <- 1, MaxFaults <- 0
States == INSTANCE LectureStates WITH
    Jobs <- Pair, Repairs <- FALSE, design <- stateDesign,
    draft <- stateDraft, drafts <- stateDrafts, status <- stateStatus,
    holder <- stateHolder, owner <- stateOwner
Changes == INSTANCE ChangeRequests WITH
    LateCrashes <- FALSE, design <- changeDesign, draft <- changeDraft,
    owner <- changeOwner, status <- changeStatus, drafts <- changeDrafts

ASSUME StatesAssumption == States!LectureStatesAssumption
ASSUME ChangesAssumption == Changes!ChangeRequestsAssumption

CanvasSnapshotVars == <<target, backup, staging, stage, path, holder, mended, new,
    old, answer, signed, cache, built, faults>>
LectureStatesVars == <<src, routing, stateDesign, revs, proposing, stateDraft,
    publication, stateDrafts, stateStatus, task,
    stateHolder, stateOwner, recent, crashes, shown>>
ChangeRequestsVars == <<changeDesign, approved, changeDraft, published, changeOwner,
    changeStatus, attempt, job, private, records,
    changeDrafts>>
allVars == <<component, CanvasSnapshotVars, LectureStatesVars,
    ChangeRequestsVars>>

Begin ==
    /\ component \in {"replacing", "publishing", "interrupting", "locking",
                     "lectures", "change requests"}
    /\ Init
    /\ \A t \in Threads : path[t] = 1
    /\ States!Init
    /\ Changes!Init
    /\ component # "change requests" => published = Absent

Step ==
    /\ UNCHANGED component
    /\ \/ /\ component = "replacing" /\ Replacing!Next /\ DraftOnly
          /\ UNCHANGED <<LectureStatesVars, ChangeRequestsVars>>
       \/ /\ component = "publishing" /\ Publishing!Next /\ OneThreadEach
          /\ UNCHANGED <<LectureStatesVars, ChangeRequestsVars>>
       \/ /\ component = "interrupting" /\ Interrupting!Next /\ PublicationOnly
          /\ UNCHANGED <<LectureStatesVars, ChangeRequestsVars>>
       \/ /\ component = "locking" /\ ThreeThreads!Next
          /\ UNCHANGED <<LectureStatesVars, ChangeRequestsVars>>
       \/ /\ component = "lectures" /\ States!Next
          /\ UNCHANGED <<CanvasSnapshotVars, ChangeRequestsVars>>
       \/ /\ component = "change requests" /\ Changes!Next
          /\ UNCHANGED <<CanvasSnapshotVars, LectureStatesVars>>

\* One component runs.
CanvasSpec ==
    /\ Begin /\ [][Step]_allVars

\* What the professor is offered as the next step is possible, and a failure
\* hides no usable result.
OfferedIsPossible ==
    /\ States!TypeOK
    /\ States!OfferedIsPossible
    /\ States!UsableResultStays

\* A change request is applied once, its record tells what became of it, and
\* it overwrites nothing it was not made for.
ChangesApplyOnce ==
    /\ []Changes!TypeOK
    /\ []Changes!AppliedOnce
    /\ []Changes!RecordsAreTrue
    /\ Changes!NothingIsOverwritten

\* What is alike may be exchanged.
Symmetry ==
    Permutations(Pair)
==============================================================================
