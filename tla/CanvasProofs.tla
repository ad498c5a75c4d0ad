---------------------------- MODULE CanvasProofs ----------------------------
\* What the professor is offered for a lecture, and what a change request keeps,
\* for every number of jobs, requests, sections and revisions.
EXTENDS MCCanvas, TLAPS

----------------------------------------------------------------------------
(* The states of a lecture: the latest record is one of the records.       *)

LEMMA StatesConstants ==
    /\ MaxDesigns \in Nat /\ MaxDrafts \in Nat /\ MaxSources \in Nat \ {0}
    /\ "approval" \notin Pair
    /\ Absent \notin Pair \cup States!Designs \cup States!Drafts \cup States!Publications
BY StatesAssumption DEF States!LectureStatesAssumption

LEMMA StatesInit == States!Init => States!Inv
<1> SUFFICES ASSUME States!Init PROVE States!Inv
    OBVIOUS
<1>1. States!Records = {} /\ States!Timed = {} /\ ~States!Approved
    BY DEF States!Init, States!Records, States!Timed, States!Approved
<1>2. States!TypeOK
    <2>1. src \in 1 .. MaxSources /\ revs \in 0 .. MaxDesigns /\ stateDrafts \in 0 .. MaxDrafts
        BY StatesConstants DEF States!Init
    <2>2. QED
        BY <1>1, <2>1 DEF States!Init, States!TypeOK
<1>3. QED
    BY <1>1, <1>2 DEF States!Init, States!Inv

\* What gets a time is later than everything else, whose order stays.
LEMMA StampMoves ==
    ASSUME States!Inv, NEW x \in Pair \cup {"approval"}, States!Stamp(x)
    PROVE  /\ recent' \subseteq (Pair \cup {"approval"}) \X (Pair \cup {"approval"})
           /\ States!Timed' = States!Timed \cup {x}
           /\ \A y \in States!Timed \ {x} : States!Later(x, y)'
           /\ \A y, z : y # x /\ z # x => (States!Later(y, z)' <=> States!Later(y, z))
<1>1. recent \subseteq (Pair \cup {"approval"}) \X (Pair \cup {"approval"})
    BY DEF States!Inv, States!TypeOK
<1>2. recent' = {p \in recent : x \notin {p[1], p[2]}} \cup ({x} \X (States!Timed \cup {x}))
    BY DEF States!Stamp
<1>3. States!Timed \subseteq Pair \cup {"approval"}
    BY DEF States!Timed
<1>4. recent' \subseteq (Pair \cup {"approval"}) \X (Pair \cup {"approval"})
    BY <1>1, <1>2, <1>3
<1>5. \A y, z : y # x /\ z # x => (<<y, z>> \in recent' <=> <<y, z>> \in recent)
    BY <1>2
<1>6. \A y \in States!Timed \cup {x} : <<x, y>> \in recent'
    BY <1>2
<1>7. States!Timed' = States!Timed \cup {x}
    BY <1>5, <1>6 DEF States!Timed
<1>8. QED
    BY <1>4, <1>5, <1>6, <1>7 DEF States!Later

\* The latest record is a record, and later than every other.
LEMMA LatestIs ==
    ASSUME States!Inv, States!Records # {}
    PROVE  /\ States!Latest \in States!Records
           /\ \A k \in States!Records \ {States!Latest} : States!Later(States!Latest, k)
BY DEF States!Inv, States!Latest

\* A usable result is one of the approved goals for the current sources.
LEMMA WorksShown ==
    ASSUME States!Works
    PROVE  /\ shown' \in States!Usable \cup {"none"}
           /\ shown' # "none" => States!Current' /\ (States!DraftCurrent' \/ States!Published')
BY DEF States!Works, States!Draft, States!Usable, States!Ready

LEMMA LooksShown ==
    ASSUME States!Inv, States!Looks,
           States!Current /\ (States!DraftCurrent \/ States!Published)
             => States!Current' /\ (States!DraftCurrent' \/ States!Published')
    PROVE  /\ shown' \in States!Usable \cup {"none"}
           /\ shown' # "none" => States!Current' /\ (States!DraftCurrent' \/ States!Published')
<1>1. shown \in States!Usable \cup {"none"}
    BY DEF States!Inv, States!TypeOK
<1>2. CASE States!Draft' \in States!Usable
    BY <1>2 DEF States!Looks, States!Draft, States!Usable, States!Ready
<1>3. CASE States!Draft' \notin States!Usable
    BY <1>1, <1>3 DEF States!Looks, States!Inv
<1>4. QED
    BY <1>2, <1>3

\* What a step does to the records and their times.
RecordsInTime ==
    /\ recent \subseteq (Pair \cup {"approval"}) \X (Pair \cup {"approval"})
    /\ \A j \in Pair : j \in States!Records <=> j \in States!Timed
    /\ States!Records # {} =>
         \E j \in States!Records : \A k \in States!Records \ {j} : States!Later(j, k)

LEMMA TimesStay ==
    ASSUME States!Inv, States!Records' = States!Records, UNCHANGED recent
    PROVE  RecordsInTime' /\ States!Timed' = States!Timed
<1>1. States!Timed' = States!Timed
    BY DEF States!Timed
<1>2. \A j, k : States!Later(j, k)' <=> States!Later(j, k)
    BY DEF States!Later
<1>3. RecordsInTime
    BY DEF States!Inv, States!TypeOK, RecordsInTime
<1>4. QED
    BY <1>1, <1>2, <1>3 DEF RecordsInTime

LEMMA JobIsLatest ==
    ASSUME States!Inv, NEW j \in Pair, States!Stamp(j),
           States!Records' = States!Records \cup {j}
    PROVE  RecordsInTime' /\ States!Timed' = States!Timed \cup {j}
<1>1. RecordsInTime
    BY DEF States!Inv, States!TypeOK, RecordsInTime
<1>2. \A k \in States!Records' \ {j} : States!Later(j, k)'
    <2>1. States!Records \subseteq Pair
        BY DEF States!Records
    <2>2. \A k \in States!Records' \ {j} : k \in States!Timed \ {j}
        BY <1>1, <2>1 DEF RecordsInTime
    <2>3. QED
        BY <2>2, StampMoves
<1>3. QED
    BY <1>1, <1>2, StampMoves DEF RecordsInTime

LEMMA ApprovalIsLatest ==
    ASSUME States!Inv, States!Stamp("approval"), States!Records' = States!Records
    PROVE  RecordsInTime' /\ States!Timed' = States!Timed \cup {"approval"}
<1>1. RecordsInTime /\ States!Records \subseteq Pair
    BY DEF States!Inv, States!TypeOK, RecordsInTime, States!Records
<1>2. \A j, k \in States!Records : States!Later(j, k)' <=> States!Later(j, k)
    BY <1>1, StampMoves, StatesConstants
<1>3. QED
    BY <1>1, <1>2, StampMoves, StatesConstants DEF RecordsInTime

\* The professor works on sources and goals.
LEMMA StatesGoals ==
    ASSUME States!Inv,
           \/ States!EditSources \/ States!ConfirmRouting \/ States!ProposeGoals
           \/ States!MarkProposing \/ States!Publish
    PROVE  States!Inv'
<1> USE StatesConstants DEF States!files, States!results, States!jobs
<1>1. States!Works /\ UNCHANGED <<stateStatus, task, recent>>
    BY DEF States!EditSources, States!ConfirmRouting, States!ProposeGoals,
        States!MarkProposing, States!Publish
<1>2. States!Records' = States!Records
    BY <1>1 DEF States!Records
<1>3. RecordsInTime' /\ States!Timed' = States!Timed
    BY <1>1, <1>2, TimesStay
<1>4. States!Approved' => States!Approved
    BY DEF States!EditSources, States!ConfirmRouting, States!ProposeGoals,
        States!MarkProposing, States!Publish, States!NewDesign, States!Approved
<1>5. /\ src' \in 1 .. MaxSources /\ routing' \in BOOLEAN
      /\ stateDesign' \in States!Designs \cup {Absent} /\ revs' \in 0 .. MaxDesigns
      /\ stateDraft' \in States!Drafts \cup {Absent} /\ stateDrafts' \in 0 .. MaxDrafts
      /\ publication' \in States!Publications \cup {Absent}
      /\ proposing' \in {"none", "running", "abandoned"}
    <2> USE DEF States!Inv, States!TypeOK
    <2>1. CASE States!EditSources
        BY <2>1 DEF States!EditSources
    <2>2. CASE States!ConfirmRouting
        BY <2>2 DEF States!ConfirmRouting
    <2>3. CASE States!ProposeGoals
        BY <2>3 DEF States!ProposeGoals, States!NewDesign, States!Designs
    <2>4. CASE States!MarkProposing
        BY <2>4 DEF States!MarkProposing
    <2>5. CASE States!Publish
        BY <2>5 DEF States!Publish, States!PublishAccepted, States!Approved, States!Designs,
            States!Drafts, States!Publications
    <2>6. QED
        BY <2>1, <2>2, <2>3, <2>4, <2>5
<1>6. QED
    BY <1>1, <1>2, <1>3, <1>4, <1>5, WorksShown DEF States!Inv, States!TypeOK, RecordsInTime

\* A background proposal replaces no goals approved for the current sources.
LEMMA StatesProposal ==
    ASSUME States!Inv, States!ProposalEnds \/ States!MarkerLapses \/ States!Crash
    PROVE  States!Inv'
<1> USE StatesConstants DEF States!files, States!results, States!jobs
<1>1. /\ States!Looks /\ UNCHANGED <<src, routing, States!results, stateStatus, recent>>
      /\ proposing' \in {"none", "running", "abandoned"}
    BY DEF States!ProposalEnds, States!MarkerLapses, States!Crash, States!Inv, States!TypeOK
<1>2. \/ UNCHANGED <<stateDesign, revs>>
      \/ ~States!Current /\ States!NewDesign
    BY DEF States!ProposalEnds, States!MarkerLapses, States!Crash
<1>3. States!Records' = States!Records
    BY <1>1 DEF States!Records
<1>4. RecordsInTime' /\ States!Timed' = States!Timed
    BY <1>1, <1>3, TimesStay
<1>5. States!Approved' => States!Approved
    BY <1>2 DEF States!NewDesign, States!Approved
<1>6. stateDesign' \in States!Designs \cup {Absent} /\ revs' \in 0 .. MaxDesigns
    <2>1. CASE UNCHANGED <<stateDesign, revs>>
        BY <2>1 DEF States!Inv, States!TypeOK
    <2>2. CASE States!NewDesign
        BY <2>2 DEF States!NewDesign, States!Designs, States!Inv, States!TypeOK
    <2>3. QED
        BY <1>2, <2>1, <2>2
<1>7. /\ task' \in [Pair -> {"none", "claimed", "waiting", "working", "prepared", "drafted",
                             "cancelled"}]
      /\ \A j \in Pair : task'[j] # "none" => stateStatus[j] = "running"
    BY DEF States!ProposalEnds, States!MarkerLapses, States!Crash, States!Inv, States!TypeOK
<1>8. States!Current /\ (States!DraftCurrent \/ States!Published)
        => States!Current' /\ (States!DraftCurrent' \/ States!Published')
    BY <1>1, <1>2 DEF States!Current, States!Approved, States!DraftCurrent, States!Published
<1>9. /\ shown' \in States!Usable \cup {"none"}
      /\ shown' # "none" => States!Current' /\ (States!DraftCurrent' \/ States!Published')
    BY <1>1, <1>8, LooksShown
<1>10. QED
    BY <1>1, <1>3, <1>4, <1>5, <1>6, <1>7, <1>9 DEF States!Inv, States!TypeOK, RecordsInTime

\* An approval is the latest of all.
LEMMA StatesApproval ==
    ASSUME States!Inv, States!ApproveGoals \/ States!KeepGoals
    PROVE  States!Inv'
<1> USE StatesConstants DEF States!files, States!results, States!jobs
<1>1. /\ States!Works /\ States!Stamp("approval")
      /\ UNCHANGED <<src, routing, proposing, States!results, stateStatus, task>>
    BY DEF States!ApproveGoals, States!KeepGoals
<1>2. States!Records' = States!Records
    BY <1>1 DEF States!Records
<1>3. RecordsInTime' /\ States!Timed' = States!Timed \cup {"approval"}
    BY <1>1, <1>2, ApprovalIsLatest
<1>4. stateDesign' \in States!Designs \cup {Absent} /\ revs' \in 0 .. MaxDesigns
    <2>1. CASE States!ApproveGoals
        BY <2>1 DEF States!ApproveGoals, States!Designs, States!Inv, States!TypeOK
    <2>2. CASE States!KeepGoals
        BY <2>2 DEF States!KeepGoals, States!Designs, States!Inv, States!TypeOK
    <2>3. QED
        BY <2>1, <2>2
<1>5. QED
    BY <1>1, <1>2, <1>3, <1>4, WorksShown DEF States!Inv, States!TypeOK, RecordsInTime

\* The steps of a job that give its record a time.
LEMMA StatesRecord ==
    ASSUME States!Inv, NEW j \in Pair,
           \/ States!Begin(j) \/ States!Retry(j) \/ States!Heartbeat(j)
           \/ States!Complete(j) \/ States!Fail(j)
    PROVE  States!Inv'
<1> USE StatesConstants DEF States!files, States!results, States!jobs
<1>1. /\ States!Stamp(j) /\ UNCHANGED <<States!files, States!results>>
      /\ States!Works \/ States!Looks
    BY DEF States!Begin, States!Retry, States!Heartbeat, States!Complete, States!Fail
<1>2. /\ stateStatus' \in [Pair -> {"none", "running", "lapsed", "failed", "completed"}]
      /\ task' \in [Pair -> {"none", "claimed", "waiting", "working", "prepared", "drafted",
                             "cancelled"}]
      /\ \A k \in Pair : task'[k] # "none" => stateStatus'[k] = "running"
    <2> USE DEF States!Inv, States!TypeOK
    <2>1. CASE States!Begin(j) \/ States!Retry(j)
        BY <2>1 DEF States!Begin, States!Retry
    <2>2. CASE States!Heartbeat(j)
        BY <2>2 DEF States!Heartbeat
    <2>3. CASE States!Complete(j) \/ States!Fail(j)
        BY <2>3 DEF States!Complete, States!Fail
    <2>4. QED
        BY <2>1, <2>2, <2>3
<1>3. stateStatus'[j] # "none" /\ \A k \in Pair \ {j} : stateStatus'[k] = stateStatus[k]
    BY DEF States!Begin, States!Retry, States!Heartbeat, States!Complete, States!Fail,
        States!Inv, States!TypeOK
<1>4. States!Records' = States!Records \cup {j}
    BY <1>3 DEF States!Records
<1>5. RecordsInTime' /\ States!Timed' = States!Timed \cup {j}
    BY <1>1, <1>4, JobIsLatest
<1>6. /\ States!Current' = States!Current /\ States!Approved' = States!Approved
      /\ States!DraftCurrent' = States!DraftCurrent /\ States!Published' = States!Published
    BY <1>1 DEF States!Current, States!Approved, States!DraftCurrent, States!Published
<1>7. /\ shown' \in States!Usable \cup {"none"}
      /\ shown' # "none" => States!Current' /\ (States!DraftCurrent' \/ States!Published')
    BY <1>1, <1>6, WorksShown, LooksShown
<1>8. QED
    BY <1>1, <1>2, <1>5, <1>6, <1>7 DEF States!Inv, States!TypeOK, RecordsInTime

\* The steps of a job that leave the times alone.
LEMMA StatesWork ==
    ASSUME States!Inv, NEW j \in Pair,
           \/ States!Supersede(j) \/ States!Start(j) \/ States!Prepare(j)
           \/ States!WriteDraft(j) \/ States!Lapse(j)
    PROVE  States!Inv'
<1> USE StatesConstants DEF States!files, States!results, States!jobs
<1>1. States!Looks /\ UNCHANGED <<States!files, publication, recent>>
    BY DEF States!Supersede, States!Start, States!Prepare, States!WriteDraft, States!Lapse
<1>2. /\ stateStatus' \in [Pair -> {"none", "running", "lapsed", "failed", "completed"}]
      /\ \A k \in Pair : stateStatus'[k] = "none" <=> stateStatus[k] = "none"
    BY DEF States!Supersede, States!Start, States!Prepare, States!WriteDraft, States!Lapse,
        States!Inv, States!TypeOK
<1>3. /\ task' \in [Pair -> {"none", "claimed", "waiting", "working", "prepared", "drafted",
                             "cancelled"}]
      /\ \A k \in Pair : task'[k] # "none" => stateStatus'[k] = "running"
    <2> USE DEF States!Inv, States!TypeOK
    <2>1. CASE States!Supersede(j)
        BY <2>1 DEF States!Supersede, States!Live
    <2>2. CASE States!Start(j) \/ States!Prepare(j) \/ States!WriteDraft(j) \/ States!Lapse(j)
        BY <2>2 DEF States!Start, States!Prepare, States!WriteDraft, States!Owns, States!Lapse
    <2>3. QED
        BY <2>1, <2>2
<1>4. States!Records' = States!Records
    BY <1>2 DEF States!Records
<1>5. RecordsInTime' /\ States!Timed' = States!Timed
    BY <1>1, <1>4, TimesStay
<1>6. \/ UNCHANGED <<stateDraft, stateDrafts>>
      \/ States!Owns(j) /\ States!DraftCurrent' /\ stateDraft' \in States!Drafts \cup {Absent}
         /\ stateDrafts' \in 0 .. MaxDrafts
    <2>1. CASE States!WriteDraft(j)
        <3>1. stateDesign \in States!Designs /\ stateDesign.src = src
            BY <2>1 DEF States!WriteDraft, States!Owns, States!Current, States!Approved,
                States!Inv, States!TypeOK
        <3>2. stateDrafts' \in 1 .. MaxDrafts
            BY <2>1 DEF States!WriteDraft, States!Inv, States!TypeOK
        <3>3. stateDraft' \in States!Drafts
            BY <2>1, <3>1, <3>2 DEF States!WriteDraft, States!Drafts, States!Designs,
                States!Inv, States!TypeOK
        <3>4. QED
            BY <2>1, <3>1, <3>2, <3>3 DEF States!WriteDraft, States!DraftCurrent
    <2>2. QED
        BY <2>1 DEF States!Supersede, States!Start, States!Prepare, States!Lapse
<1>7. States!Current /\ (States!DraftCurrent \/ States!Published)
        => States!Current' /\ (States!DraftCurrent' \/ States!Published')
    BY <1>1, <1>6 DEF States!Current, States!Approved, States!DraftCurrent, States!Published
<1>8. /\ shown' \in States!Usable \cup {"none"}
      /\ shown' # "none" => States!Current' /\ (States!DraftCurrent' \/ States!Published')
    BY <1>1, <1>7, LooksShown
<1>9. States!Approved' = States!Approved
    BY <1>1 DEF States!Approved
<1>10. QED
    BY <1>1, <1>2, <1>3, <1>4, <1>5, <1>6, <1>8, <1>9 DEF States!Inv, States!TypeOK, RecordsInTime

LEMMA StatesStep == States!Inv /\ [Step]_allVars => States!Inv'
<1> SUFFICES ASSUME States!Inv, [Step]_allVars PROVE States!Inv'
    OBVIOUS
<1>1. CASE States!Next
    BY <1>1, StatesGoals, StatesProposal, StatesApproval, StatesRecord, StatesWork
    DEF States!Next, States!Professor, States!Ends, States!Repair
<1>2. CASE UNCHANGED LectureStatesVars
    <2>1. /\ States!Records' = States!Records /\ States!Approved' = States!Approved
          /\ States!Current' = States!Current /\ States!DraftCurrent' = States!DraftCurrent
          /\ States!Published' = States!Published
        BY <1>2 DEF LectureStatesVars, States!Records, States!Approved, States!Current,
            States!DraftCurrent, States!Published
    <2>2. RecordsInTime' /\ States!Timed' = States!Timed
        BY <1>2, <2>1, TimesStay DEF LectureStatesVars
    <2>3. QED
        BY <1>2, <2>1, <2>2 DEF LectureStatesVars, States!Inv, States!TypeOK, RecordsInTime
<1>3. QED
    BY <1>1, <1>2 DEF Step, allVars

LEMMA OfferedFollows == States!Inv => OfferedIsPossible
<1> SUFFICES ASSUME States!Inv PROVE OfferedIsPossible
    OBVIOUS
<1>1. States!Draft \in {"generating", "none", "ready", "published", "failed"}
    BY DEF States!Draft
<1>2. States!Draft = "generating" => \E j \in Pair : stateStatus[j] = "running"
    BY LatestIs DEF States!Draft, States!Generating, States!Records
<1>3. States!Draft = "published" =>
        States!Current /\ publication.src = src /\ publication.intent = stateDesign.intent
    BY DEF States!Draft, States!Published, States!Current
<1>4. States!Draft = "ready" => States!PublishAccepted
    BY DEF States!Draft, States!Ready, States!DraftCurrent, States!Current, States!PublishAccepted
<1>5. States!OfferedIsPossible
    BY <1>1, <1>2, <1>3, <1>4 DEF States!OfferedIsPossible, States!NextAction, States!DraftAction,
        States!Goals, States!Accepted, States!Current
<1>6. States!UsableResultStays
    BY DEF States!UsableResultStays, States!Inv, States!Draft, States!Usable, States!Ready
<1>7. QED
    BY <1>5, <1>6 DEF OfferedIsPossible, States!Inv

\* The next action a professor is offered is one the endpoints accept, he waits
\* only while something runs, and no failure hides a result he can use, for
\* generations that do not repair the teaching tasks (lecture_states.py).
THEOREM OfferedHolds == CanvasSpec => []OfferedIsPossible
<1>1. Begin => States!Inv
    BY StatesInit DEF Begin
<1>2. QED
    BY <1>1, StatesStep, OfferedFollows, PTL DEF CanvasSpec

----------------------------------------------------------------------------
(* Change requests.                                                        *)

LEMMA ChangesConstants ==
    /\ Named \in [Requests -> SUBSET Sections]
    /\ MaxAttempts \in Nat \ {0} /\ MaxGoals \in Nat \ {0} /\ MaxDrafts \in Nat \ {0}
    /\ Nobody \notin Requests
    /\ Absent \notin Changes!Documents /\ Absent \notin Changes!Texts
BY ChangesAssumption DEF Changes!ChangeRequestsAssumption

\* What the text of a change request starts from, and what a reader or a
\* publication takes, is a document.
LEMMA BaseTyped ==
    ASSUME Changes!TypeOK
    PROVE  Changes!Base \in Changes!Documents \cup {Absent}
BY DEF Changes!TypeOK, Changes!Base

\* A request's task moves on, its record and the others being right.
LEMMA JobMoves ==
    ASSUME Changes!TypeOK, NEW r \in Requests, NEW v \in Changes!JobStates,
           job' = [job EXCEPT ![r] = v],
           \A k \in Requests \ {r} : changeStatus'[k] = changeStatus[k],
           v.at \in Changes!Steps \ {"checked"} => changeStatus'[r] = "running",
           v.at = "checked" => changeStatus'[r] = "none",
           v.pending \subseteq v.targets
    PROVE  /\ job' \in [Requests -> Changes!JobStates]
           /\ \A k \in Requests :
                /\ job'[k].at \in Changes!Steps \ {"checked"} => changeStatus'[k] = "running"
                /\ job'[k].at = "checked" => changeStatus'[k] = "none"
                /\ job'[k].pending \subseteq job'[k].targets
BY DEF Changes!TypeOK

LEMMA JobTyped ==
    ASSUME Changes!TypeOK, NEW r \in Requests
    PROVE  /\ job[r] \in Changes!JobStates
           /\ job[r].at \in Changes!Steps \cup {"none"}
           /\ job[r].base \in Changes!Documents \cup {Absent} /\ job[r].design \in 0 .. MaxGoals
           /\ job[r].targets \in SUBSET Sections /\ job[r].pending \in SUBSET Sections
BY DEF Changes!TypeOK, Changes!JobStates

\* What a step of a request's task leaves alone keeps its type.
LEMMA TaskMoves ==
    ASSUME Changes!TypeOK, NEW r \in Requests, NEW v \in Changes!JobStates,
           job' = [job EXCEPT ![r] = v],
           v.at \in Changes!Steps \ {"checked"}, v.pending \subseteq v.targets,
           job[r].at \in Changes!Steps \ {"checked"},
           UNCHANGED <<changeDesign, approved, published, changeDrafts, changeStatus, attempt>>,
           changeDraft' \in Changes!Documents \cup {Absent},
           UNCHANGED changeOwner \/ changeOwner' = Changes!Attempt(r),
           private' \in [Requests -> Changes!Texts \cup {Absent}],
           records' \subseteq [request : Requests, sections : SUBSET Sections]
    PROVE  Changes!TypeOK'
<1>1. changeStatus'[r] = "running"
    BY DEF Changes!TypeOK
<1>2. /\ job' \in [Requests -> Changes!JobStates]
      /\ \A k \in Requests :
           /\ job'[k].at \in Changes!Steps \ {"checked"} => changeStatus'[k] = "running"
           /\ job'[k].at = "checked" => changeStatus'[k] = "none"
           /\ job'[k].pending \subseteq job'[k].targets
    BY <1>1, JobMoves
<1>3. changeOwner'.by \in Requests \cup {Nobody}
      /\ (changeOwner'.by = Nobody => changeOwner'.n \in 1 .. MaxDrafts)
    BY ChangesConstants DEF Changes!TypeOK, Changes!Attempt
<1>4. QED
    BY <1>2, <1>3 DEF Changes!TypeOK

\* A task that only goes to another step.
LEMMA TaskGoes ==
    ASSUME Changes!TypeOK, NEW r \in Requests, NEW to \in Changes!Steps \cup {"none"}
    PROVE  /\ [job[r] EXCEPT !.at = to] \in Changes!JobStates
           /\ [job[r] EXCEPT !.at = to].at = to
           /\ [job[r] EXCEPT !.at = to].pending \subseteq [job[r] EXCEPT !.at = to].targets
<1>1. job[r] \in Changes!JobStates /\ job[r].pending \subseteq job[r].targets
    BY JobTyped DEF Changes!TypeOK
<1>2. QED
    BY <1>1 DEF Changes!JobStates

LEMMA ChangesTypedRequests ==
    ASSUME Changes!TypeOK, NEW r \in Requests,
           \/ Changes!Check(r) \/ Changes!Claim(r) \/ Changes!Retry(r)
           \/ Changes!Complete(r) \/ Changes!Fail(r)
    PROVE  Changes!TypeOK'
<1>1. PICK v \in Changes!JobStates :
        /\ job' = [job EXCEPT ![r] = v] /\ v.pending \subseteq v.targets
        /\ v.at \in Changes!Steps \ {"checked"} => changeStatus'[r] = "running"
        /\ v.at = "checked" => changeStatus'[r] = "none"
    <2>1. CASE Changes!Check(r) \/ Changes!Claim(r) \/ Changes!Retry(r)
        <3>1. PICK to \in {"checked", "prepare"} :
                /\ job' = [job EXCEPT ![r].at = to]
                /\ to = "prepare" => changeStatus'[r] = "running"
                /\ to = "checked" => changeStatus'[r] = "none"
            BY <2>1 DEF Changes!Check, Changes!Claim, Changes!Retry, Changes!Kept, Changes!Moves,
                Changes!TypeOK
        <3>2. to \in Changes!Steps
            BY DEF Changes!Steps
        <3>3. job' = [job EXCEPT ![r] = [job[r] EXCEPT !.at = to]]
            BY <3>1
        <3>4. QED
            BY <3>1, <3>2, <3>3, TaskGoes
    <2>2. CASE Changes!Complete(r) \/ Changes!Fail(r)
        <3>1. job' = [job EXCEPT ![r] = Changes!NoJob]
            BY <2>2 DEF Changes!Complete, Changes!Fail
        <3>2. /\ Changes!NoJob \in Changes!JobStates /\ Changes!NoJob.at = "none"
              /\ Changes!NoJob.pending \subseteq Changes!NoJob.targets
            BY ChangesConstants DEF Changes!NoJob, Changes!JobStates
        <3>3. "none" \notin Changes!Steps
            BY DEF Changes!Steps
        <3>4. QED
            BY <3>1, <3>2, <3>3
    <2>3. QED
        BY <2>1, <2>2
<1>2. /\ changeStatus' \in [Requests -> {"none", "running", "completed", "failed"}]
      /\ attempt' \in [Requests -> 0 .. MaxAttempts]
      /\ \A k \in Requests \ {r} : changeStatus'[k] = changeStatus[k]
      /\ UNCHANGED <<changeDesign, approved, changeDraft, published, changeDrafts, changeOwner,
                     private, records>>
    <2> USE DEF Changes!TypeOK, Changes!lecture, Changes!Kept
    <2>1. CASE Changes!Check(r)
        BY <2>1 DEF Changes!Check
    <2>2. CASE Changes!Claim(r)
        BY <2>2, ChangesConstants DEF Changes!Claim
    <2>3. CASE Changes!Retry(r)
        BY <2>3, ChangesConstants DEF Changes!Retry
    <2>4. CASE Changes!Complete(r) \/ Changes!Fail(r)
        BY <2>4 DEF Changes!Complete, Changes!Fail
    <2>5. QED
        BY <2>1, <2>2, <2>3, <2>4
<1>3. /\ job' \in [Requests -> Changes!JobStates]
      /\ \A k \in Requests :
           /\ job'[k].at \in Changes!Steps \ {"checked"} => changeStatus'[k] = "running"
           /\ job'[k].at = "checked" => changeStatus'[k] = "none"
           /\ job'[k].pending \subseteq job'[k].targets
    BY <1>1, <1>2, JobMoves
<1>4. QED
    BY <1>2, <1>3 DEF Changes!TypeOK

LEMMA ChangesTypedWork ==
    ASSUME Changes!TypeOK, NEW r \in Requests,
           \/ Changes!Prepare(r) \/ Changes!ReadBase(r) \/ Changes!CheckLecture(r)
           \/ Changes!Critique(r) \/ Changes!Repair(r) \/ Changes!WriteRecord(r)
    PROVE  Changes!TypeOK'
<1>1. job[r] \in Changes!JobStates /\ job[r].pending \subseteq job[r].targets
    BY JobTyped DEF Changes!TypeOK
<1>2. job[r].at \in Changes!Steps \ {"checked"}
    BY DEF Changes!Prepare, Changes!ReadBase, Changes!CheckLecture, Changes!Critique,
        Changes!Repair, Changes!WriteRecord, Changes!Steps
<1>3. PICK v \in Changes!JobStates :
        /\ job' = [job EXCEPT ![r] = v]
        /\ v.at \in Changes!Steps \ {"checked"} /\ v.pending \subseteq v.targets
    <2>1. CASE Changes!Prepare(r)
        <3>1. PICK v : v = [job[r] EXCEPT !.at = "base", !.design = changeDesign]
            OBVIOUS
        <3>2. v \in Changes!JobStates /\ v.at = "base" /\ v.pending \subseteq v.targets
            <4>1. changeDesign \in 0 .. MaxGoals
                BY ChangesConstants DEF Changes!TypeOK
            <4>2. QED
                BY <1>1, <3>1, <4>1 DEF Changes!JobStates, Changes!Steps
        <3>3. job' = [job EXCEPT ![r] = v]
            BY <2>1, <3>1 DEF Changes!Prepare
        <3>4. QED
            BY <3>2, <3>3 DEF Changes!Steps
    <2>2. CASE Changes!ReadBase(r)
        <3>1. PICK v : v = [job[r] EXCEPT !.at = "open", !.base = Changes!Base]
            OBVIOUS
        <3>2. v \in Changes!JobStates /\ v.at = "open" /\ v.pending \subseteq v.targets
            BY <1>1, <3>1, BaseTyped DEF Changes!JobStates, Changes!Steps
        <3>3. job' = [job EXCEPT ![r] = v]
            BY <2>2, <3>1 DEF Changes!ReadBase
        <3>4. QED
            BY <3>2, <3>3 DEF Changes!Steps
    <2>3. CASE Changes!CheckLecture(r) \/ Changes!WriteRecord(r)
        <3>1. PICK to \in {"critique", "write", "complete"} :
                job' = [job EXCEPT ![r] = [job[r] EXCEPT !.at = to]]
            BY <2>3 DEF Changes!CheckLecture, Changes!WriteRecord, Changes!Moves
        <3>2. to \in Changes!Steps \ {"checked"}
            BY DEF Changes!Steps
        <3>3. QED
            BY <3>1, <3>2, TaskGoes
    <2>4. CASE Changes!Critique(r)
        <3>1. PICK notes \in SUBSET job[r].targets :
                job' = [job EXCEPT ![r].pending = notes,
                                   ![r].at = IF notes = {} THEN "write" ELSE "repair"]
            BY <2>4 DEF Changes!Critique
        <3>2. PICK v : v = [job[r] EXCEPT !.pending = notes,
                                          !.at = IF notes = {} THEN "write" ELSE "repair"]
            OBVIOUS
        <3>3. v \in Changes!JobStates /\ v.at \in {"write", "repair"} /\ v.pending \subseteq v.targets
            BY <1>1, <3>1, <3>2 DEF Changes!JobStates, Changes!Steps
        <3>4. job' = [job EXCEPT ![r] = v]
            BY <3>1, <3>2
        <3>5. QED
            BY <3>3, <3>4 DEF Changes!Steps
    <2>5. CASE Changes!Repair(r)
        <3>1. PICK v : v = [job[r] EXCEPT !.at = "recheck", !.pending = {}]
            OBVIOUS
        <3>2. v \in Changes!JobStates /\ v.at = "recheck" /\ v.pending \subseteq v.targets
            BY <1>1, <3>1 DEF Changes!JobStates, Changes!Steps
        <3>3. job' = [job EXCEPT ![r] = v]
            BY <2>5, <3>1 DEF Changes!Repair
        <3>4. QED
            BY <3>2, <3>3 DEF Changes!Steps
    <2>6. QED
        BY <2>1, <2>2, <2>3, <2>4, <2>5
<1>4. /\ UNCHANGED <<changeDesign, approved, published, changeDrafts, changeStatus, attempt,
                     changeDraft, private>>
      /\ UNCHANGED changeOwner \/ changeOwner' = Changes!Attempt(r)
    BY DEF Changes!Prepare, Changes!ReadBase, Changes!CheckLecture, Changes!Critique,
        Changes!Repair, Changes!WriteRecord, Changes!lecture, Changes!Kept
<1>5. records' \subseteq [request : Requests, sections : SUBSET Sections]
    <2>1. CASE Changes!WriteRecord(r)
        BY <2>1, JobTyped DEF Changes!WriteRecord, Changes!TypeOK
    <2>2. CASE ~Changes!WriteRecord(r)
        BY <2>2 DEF Changes!Prepare, Changes!ReadBase, Changes!CheckLecture, Changes!Critique,
            Changes!Repair, Changes!Kept, Changes!TypeOK
    <2>3. QED
        BY <2>1, <2>2
<1>6. /\ changeDraft \in Changes!Documents \cup {Absent}
      /\ private \in [Requests -> Changes!Texts \cup {Absent}]
    BY DEF Changes!TypeOK
<1>7. QED
    BY <1>2, <1>3, <1>4, <1>5, <1>6, TaskMoves

\* The private copy of a request is a text made from a document.
LEMMA CopyTyped ==
    ASSUME Changes!Inv, NEW r \in Requests, job[r].at \in Changes!Based
    PROVE  /\ job[r].base \in Changes!Documents /\ job[r].base.text \in Changes!Texts
           /\ Changes!Applied(r) \in Changes!Texts
           /\ job[r].at \in Changes!Copied \ {"record", "complete"} => private[r] \in Changes!Texts
<1>1. job[r].base \in Changes!Documents
    BY JobTyped DEF Changes!Inv, Changes!JobHolds
<1>2. job[r].base.text \in Changes!Texts
    BY <1>1 DEF Changes!Documents
<1>3. Changes!Applied(r) \in Changes!Texts
    BY <1>2 DEF Changes!Applied, Changes!Texts
<1>4. QED
    BY <1>1, <1>2, <1>3 DEF Changes!Inv, Changes!JobHolds

LEMMA ChangesTypedTexts ==
    ASSUME Changes!Inv, NEW r \in Requests,
           \/ Changes!Open(r) \/ \E s \in Sections : Changes!Change(r, s)
           \/ Changes!WriteDraft(r)
    PROVE  Changes!TypeOK'
<1>1. Changes!TypeOK
    BY DEF Changes!Inv
<1>2. job[r] \in Changes!JobStates /\ job[r].pending \subseteq job[r].targets
    BY <1>1, JobTyped DEF Changes!TypeOK
<1>3. /\ job[r].at \in Changes!Steps \ {"checked"} /\ job[r].at \in Changes!Based
      /\ ~Changes!Open(r) => job[r].at \in Changes!Copied \ {"record", "complete"}
    BY DEF Changes!Open, Changes!Change, Changes!WriteDraft, Changes!Steps, Changes!Based,
        Changes!Copied
<1>4. PICK v \in Changes!JobStates :
        /\ job' = [job EXCEPT ![r] = v]
        /\ v.at \in Changes!Steps \ {"checked"} /\ v.pending \subseteq v.targets
    <2>1. CASE Changes!Open(r)
        <3>1. Changes!Selections(r) \subseteq SUBSET Sections
            BY ChangesConstants DEF Changes!Selections
        <3>2. PICK targets \in SUBSET Sections :
                job' = [job EXCEPT ![r].at = "change", ![r].targets = targets,
                                   ![r].pending = targets]
            BY <2>1, <3>1 DEF Changes!Open
        <3>3. PICK v : v = [job[r] EXCEPT !.at = "change", !.targets = targets,
                                          !.pending = targets]
            OBVIOUS
        <3>4. v \in Changes!JobStates /\ v.at = "change" /\ v.pending \subseteq v.targets
            BY <1>2, <3>3 DEF Changes!JobStates, Changes!Steps
        <3>5. job' = [job EXCEPT ![r] = v]
            BY <3>2, <3>3
        <3>6. QED
            BY <3>4, <3>5 DEF Changes!Steps
    <2>2. ASSUME NEW s \in Sections, Changes!Change(r, s)
          PROVE  \E v \in Changes!JobStates :
                   /\ job' = [job EXCEPT ![r] = v]
                   /\ v.at \in Changes!Steps \ {"checked"} /\ v.pending \subseteq v.targets
        <3>1. PICK v : v = [job[r] EXCEPT !.pending = @ \ {s},
                                          !.at = IF job[r].pending = {s} THEN "check" ELSE "change"]
            OBVIOUS
        <3>2. v \in Changes!JobStates /\ v.at \in {"check", "change"} /\ v.pending \subseteq v.targets
            BY <1>2, <3>1 DEF Changes!JobStates, Changes!Steps
        <3>3. job' = [job EXCEPT ![r] = v]
            BY <2>2, <3>1 DEF Changes!Change
        <3>4. QED
            BY <3>2, <3>3 DEF Changes!Steps
    <2>3. CASE Changes!WriteDraft(r)
        <3>1. job' = [job EXCEPT ![r] = [job[r] EXCEPT !.at = "record"]]
            BY <2>3 DEF Changes!WriteDraft, Changes!Moves
        <3>2. "record" \in Changes!Steps \ {"checked"}
            BY DEF Changes!Steps
        <3>3. QED
            BY <1>1, <3>1, <3>2, TaskGoes
    <2>4. QED
        BY <2>1, <2>2, <2>3
<1>5. UNCHANGED <<changeDesign, approved, published, changeDrafts, changeStatus, attempt,
                  changeOwner, records>>
    BY DEF Changes!Open, Changes!Change, Changes!WriteDraft, Changes!lecture
<1>6. private' \in [Requests -> Changes!Texts \cup {Absent}]
    <2>1. private \in [Requests -> Changes!Texts \cup {Absent}]
        BY <1>1 DEF Changes!TypeOK
    <2>2. CASE Changes!Open(r)
        BY <1>3, <2>1, <2>2, CopyTyped DEF Changes!Open
    <2>3. ASSUME NEW s \in Sections, Changes!Change(r, s)
          PROVE  private' \in [Requests -> Changes!Texts \cup {Absent}]
        <3>1. private[r] \in Changes!Texts
            BY <1>3, <2>3, CopyTyped DEF Changes!Change, Changes!Open
        <3>2. [private[r] EXCEPT ![s] = Append(@, r)] \in Changes!Texts
            BY <3>1 DEF Changes!Texts
        <3>3. private' = [private EXCEPT ![r] = [private[r] EXCEPT ![s] = Append(@, r)]]
            BY <2>3 DEF Changes!Change
        <3>4. QED
            BY <2>1, <3>2, <3>3
    <2>4. CASE Changes!WriteDraft(r)
        BY <2>1, <2>4 DEF Changes!WriteDraft
    <2>5. QED
        BY <2>2, <2>3, <2>4
<1>7. changeDraft' \in Changes!Documents \cup {Absent}
    <2>1. CASE Changes!WriteDraft(r)
        <3>1. /\ job[r].base \in Changes!Documents /\ job[r].base.text \in Changes!Texts
              /\ private[r] \in Changes!Texts
            BY <1>3, <2>1, CopyTyped DEF Changes!WriteDraft, Changes!Open
        <3>2. Changes!Splice(r) \in Changes!Texts
            BY <3>1 DEF Changes!Splice, Changes!Texts
        <3>3. changeDesign \in 1 .. MaxGoals
            BY <1>1 DEF Changes!TypeOK
        <3>4. QED
            BY <2>1, <3>1, <3>2, <3>3 DEF Changes!WriteDraft, Changes!Documents
    <2>2. CASE ~Changes!WriteDraft(r)
        BY <1>1, <2>2 DEF Changes!Open, Changes!Change, Changes!lecture, Changes!TypeOK
    <2>3. QED
        BY <2>1, <2>2
<1>8. records \subseteq [request : Requests, sections : SUBSET Sections]
    BY <1>1 DEF Changes!TypeOK
<1>9. QED
    BY <1>1, <1>3, <1>4, <1>5, <1>6, <1>7, <1>8, TaskMoves

LEMMA ChangesTypedRest ==
    ASSUME Changes!TypeOK,
           \/ Changes!Generate \/ Changes!GenerationWrites \/ Changes!Publish
           \/ Changes!EditSources \/ Changes!ApproveGoals \/ Changes!Crash
    PROVE  Changes!TypeOK'
<1> USE ChangesConstants DEF Changes!TypeOK, Changes!lecture, Changes!Jobs, Changes!Kept,
        Changes!Generation
<1>1. CASE Changes!Generate
    BY <1>1 DEF Changes!Generate
<1>2. CASE Changes!GenerationWrites
    <2>1. changeDrafts' \in 1 .. MaxDrafts
        BY <1>2 DEF Changes!GenerationWrites
    <2>2. [s \in Sections |-> <<>>] \in Changes!Texts
        BY DEF Changes!Texts
    <2>3. changeDraft' \in Changes!Documents
        BY <1>2, <2>1, <2>2 DEF Changes!GenerationWrites, Changes!Documents
    <2>4. QED
        BY <1>2, <2>1, <2>3 DEF Changes!GenerationWrites
<1>3. CASE Changes!Publish
    BY <1>3 DEF Changes!Publish
<1>4. CASE Changes!EditSources
    BY <1>4 DEF Changes!EditSources
<1>5. CASE Changes!ApproveGoals
    BY <1>5 DEF Changes!ApproveGoals
<1>6. CASE Changes!Crash
    <2>1. Changes!NoJob \in Changes!JobStates
        BY DEF Changes!NoJob, Changes!JobStates
    <2>2. QED
        BY <1>6, <2>1 DEF Changes!Crash, Changes!NoJob, Changes!Steps
<1>7. QED
    BY <1>1, <1>2, <1>3, <1>4, <1>5, <1>6

\* A text stays sound: no request takes its writing back, and a request is
\* completed with the record of what it changed.
LEMMA SoundStays ==
    ASSUME NEW text, Changes!Sound(text),
           \A k \in Requests :
             /\ Changes!Written(k) => Changes!Written(k)'
             /\ job'[k].at \in {"record", "complete"} =>
                  job[k].at \in {"record", "complete"} /\ job'[k].targets = job[k].targets
             /\ changeStatus'[k] = "completed" =>
                  \/ changeStatus[k] = "completed" /\ \A x \in records' : x.request = k => x \in records
                  \/ job[k].at = "complete"
                     /\ \A x \in records' : x.request = k => x.sections = job[k].targets
    PROVE  Changes!Sound(text)'
BY DEF Changes!Sound

\* Documents are published and taken as a base without a change.
LEMMA HeldStays ==
    ASSUME UNCHANGED changeDraft, published' \in {changeDraft, published},
           \A k \in Requests : job'[k].at \in Changes!Based =>
              \/ job[k].at \in Changes!Based /\ job'[k].base = job[k].base
              \/ job'[k].base \in {changeDraft, published}
    PROVE  Changes!Held' \subseteq Changes!Held
BY DEF Changes!Held

LEMMA BaseStays ==
    ASSUME UNCHANGED Changes!lecture
    PROVE  Changes!Base' = Changes!Base
BY DEF Changes!lecture, Changes!Base, Changes!Ready, Changes!Current, Changes!SameDocument

\* A request stays as it is while others go on.
LEMMA JobStays ==
    ASSUME NEW k \in Requests, Changes!JobHolds(k),
           UNCHANGED <<job[k], private[k], attempt[k]>>,
           job[k].design <= changeDesign',
           \A x \in records' : x.request = k => x \in records,
           job[k].at \in Changes!Based \ {"record", "complete"} /\ Changes!Authorized(k)' =>
              /\ Changes!Authorized(k)
              /\ Changes!Base # Absent =>
                   Changes!Base' # Absent /\ Changes!SameDocument(Changes!Base, Changes!Base')
    PROVE  Changes!JobHolds(k)'
<1>1. Changes!Applied(k)' = Changes!Applied(k)
    BY DEF Changes!Applied, Changes!Done
<1>2. QED
    BY <1>1 DEF Changes!JobHolds, Changes!SameDocument

\* Another request, or a generation, that takes the ownership takes it away.
LEMMA OtherStays ==
    ASSUME Changes!TypeOK, NEW k \in Requests, Changes!JobHolds(k),
           UNCHANGED <<Changes!lecture, job[k], private[k], attempt[k]>>,
           UNCHANGED changeOwner \/ changeOwner'.by # k,
           \A x \in records' : x.request = k => x \in records
    PROVE  Changes!JobHolds(k)'
<1>1. Changes!Authorized(k)' => Changes!Authorized(k)
    BY DEF Changes!Authorized, Changes!Owns, Changes!Attempt, Changes!lecture
<1>2. Changes!Base' = Changes!Base
    BY BaseStays
<1>3. job[k].design <= changeDesign'
    BY DEF Changes!JobHolds, Changes!lecture
<1>4. QED
    BY <1>1, <1>2, <1>3, JobStays DEF Changes!SameDocument

\* Where a request is appended to a section, that section has it once more.
LEMMA AppendUses ==
    ASSUME NEW T \in Changes!Texts, NEW U, NEW s \in Sections, NEW r \in Requests,
           U[s] = Append(T[s], r)
    PROVE  /\ Changes!Uses(U, s, r) = Changes!Uses(T, s, r) \cup {Len(T[s]) + 1}
           /\ \A k \in Requests \ {r} : Changes!Uses(U, s, k) = Changes!Uses(T, s, k)
<1>1. T[s] \in Seq(Requests)
    BY DEF Changes!Texts
<1>2. /\ Len(U[s]) = Len(T[s]) + 1 /\ Len(T[s]) \in Nat
      /\ U[s][Len(T[s]) + 1] = r
      /\ \A i \in 1 .. Len(T[s]) : U[s][i] = T[s][i]
    BY <1>1
<1>3. QED
    BY <1>2 DEF Changes!Uses

\* The steps of a request that write no draft.
TaskSteps(r) ==
    \/ Changes!Check(r) \/ Changes!Claim(r) \/ Changes!Retry(r) \/ Changes!Complete(r)
    \/ Changes!Fail(r) \/ Changes!Prepare(r) \/ Changes!ReadBase(r) \/ Changes!Open(r)
    \/ \E s \in Sections : Changes!Change(r, s)
    \/ Changes!CheckLecture(r) \/ Changes!Critique(r) \/ Changes!Repair(r)
    \/ Changes!WriteRecord(r)

LEMMA TaskOthers ==
    ASSUME Changes!TypeOK, NEW r \in Requests, TaskSteps(r)
    PROVE  /\ UNCHANGED Changes!lecture
           /\ \A k \in Requests \ {r} :
                UNCHANGED <<changeStatus[k], job[k], private[k], attempt[k]>>
           /\ \A x \in records' : x.request # r => x \in records
           /\ UNCHANGED changeOwner \/ changeOwner'.by = r
<1> USE DEF Changes!TypeOK, Changes!Kept, Changes!Moves
<1>1. CASE Changes!Check(r) \/ Changes!Claim(r) \/ Changes!Retry(r)
    BY <1>1 DEF Changes!Check, Changes!Claim, Changes!Retry
<1>2. CASE Changes!Complete(r) \/ Changes!Fail(r)
    BY <1>2 DEF Changes!Complete, Changes!Fail
<1>3. CASE Changes!Prepare(r) \/ Changes!ReadBase(r)
    BY <1>3 DEF Changes!Prepare, Changes!ReadBase, Changes!Attempt
<1>4. CASE Changes!Open(r)
    BY <1>4 DEF Changes!Open
<1>5. CASE \E s \in Sections : Changes!Change(r, s)
    BY <1>5 DEF Changes!Change
<1>6. CASE Changes!CheckLecture(r) \/ Changes!Repair(r)
    BY <1>6 DEF Changes!CheckLecture, Changes!Repair
<1>7. CASE Changes!Critique(r)
    BY <1>7 DEF Changes!Critique
<1>8. CASE Changes!WriteRecord(r)
    BY <1>8 DEF Changes!WriteRecord
<1>9. QED
    BY <1>1, <1>2, <1>3, <1>4, <1>5, <1>6, <1>7, <1>8 DEF TaskSteps

\* What a step of a request does to its place in the life of a request.
LEMMA TaskWritten ==
    ASSUME Changes!TypeOK, NEW r \in Requests, TaskSteps(r)
    PROVE  /\ Changes!Written(r) => Changes!Written(r)'
           /\ job'[r].at \in {"record", "complete"} =>
                job[r].at \in {"record", "complete"} /\ job'[r].targets = job[r].targets
           /\ changeStatus'[r] = "completed" =>
                \/ changeStatus[r] = "completed" /\ UNCHANGED records
                \/ job[r].at = "complete" /\ UNCHANGED records
           /\ job'[r].at \in Changes!Based =>
                \/ job[r].at \in Changes!Based /\ job'[r].base = job[r].base
                \/ job'[r].base = Changes!Base /\ Changes!Base # Absent
<1> USE DEF Changes!Written, Changes!Steps, Changes!Based
<1>1. /\ changeStatus \in [Requests -> {"none", "running", "completed", "failed"}]
      /\ job \in [Requests -> Changes!JobStates]
      /\ job[r].at \in Changes!Steps \ {"checked"} => changeStatus[r] = "running"
      /\ job[r].at = "checked" => changeStatus[r] = "none"
    BY DEF Changes!TypeOK
<1>2. job[r] \in Changes!JobStates
    BY <1>1
<1>3. CASE Changes!Check(r) \/ Changes!Claim(r) \/ Changes!Retry(r)
    BY <1>1, <1>2, <1>3 DEF Changes!Check, Changes!Claim, Changes!Retry, Changes!Kept,
        Changes!Moves, Changes!JobStates
<1>4. CASE Changes!Complete(r) \/ Changes!Fail(r)
    BY <1>1, <1>2, <1>4 DEF Changes!Complete, Changes!Fail, Changes!NoJob, Changes!JobStates
<1>5. CASE Changes!Prepare(r) \/ Changes!ReadBase(r)
    BY <1>1, <1>2, <1>5 DEF Changes!Prepare, Changes!ReadBase, Changes!Kept, Changes!JobStates
<1>10. CASE Changes!Open(r)
    <2>1. PICK targets : job' = [job EXCEPT ![r].at = "change", ![r].targets = targets,
                                           ![r].pending = targets]
        BY <1>10 DEF Changes!Open
    <2>2. job'[r].at = "change" /\ job'[r].base = job[r].base
        BY <1>1, <1>2, <2>1 DEF Changes!JobStates
    <2>3. QED
        BY <1>1, <1>10, <2>2 DEF Changes!Open
<1>6. CASE \E s \in Sections : Changes!Change(r, s)
    BY <1>1, <1>2, <1>6 DEF Changes!Change, Changes!JobStates
<1>7. CASE Changes!CheckLecture(r) \/ Changes!Repair(r)
    BY <1>1, <1>2, <1>7 DEF Changes!CheckLecture, Changes!Repair, Changes!Kept, Changes!Moves,
        Changes!JobStates
<1>11. CASE Changes!Critique(r)
    <2>1. PICK notes : job' = [job EXCEPT ![r].pending = notes,
                                         ![r].at = IF notes = {} THEN "write" ELSE "repair"]
        BY <1>11 DEF Changes!Critique
    <2>2. job'[r].at \in {"write", "repair"} /\ job'[r].base = job[r].base
        BY <1>1, <1>2, <2>1 DEF Changes!JobStates
    <2>3. QED
        BY <1>1, <1>11, <2>2 DEF Changes!Critique, Changes!Kept
<1>8. CASE Changes!WriteRecord(r)
    BY <1>1, <1>2, <1>8 DEF Changes!WriteRecord, Changes!Moves, Changes!JobStates
<1>9. QED
    BY <1>3, <1>4, <1>5, <1>6, <1>7, <1>8, <1>10, <1>11 DEF TaskSteps

\* The request itself.
LEMMA TaskHolds ==
    ASSUME Changes!Inv, NEW r \in Requests, TaskSteps(r)
    PROVE  Changes!JobHolds(r)'
<1>1. /\ job \in [Requests -> Changes!JobStates] /\ job[r] \in Changes!JobStates
      /\ private \in [Requests -> Changes!Texts \cup {Absent}]
      /\ Changes!JobHolds(r) /\ job[r].pending \subseteq job[r].targets
      /\ changeDesign \in Nat /\ records \subseteq [request : Requests, sections : SUBSET Sections]
    BY ChangesConstants DEF Changes!Inv, Changes!TypeOK
<1>2. UNCHANGED Changes!lecture /\ Changes!Base' = Changes!Base
    BY TaskOthers, BaseStays DEF Changes!Inv
<1> USE <1>1, <1>2 DEF Changes!lecture, Changes!Based, Changes!Copied
<1>3. CASE Changes!Check(r) \/ Changes!Claim(r) \/ Changes!Retry(r)
    BY <1>3 DEF Changes!Check, Changes!Claim, Changes!Retry, Changes!Kept, Changes!Moves,
        Changes!JobStates, Changes!JobHolds
<1>4. CASE Changes!Complete(r) \/ Changes!Fail(r)
    BY <1>4 DEF Changes!Complete, Changes!Fail, Changes!NoJob, Changes!JobStates, Changes!JobHolds
<1>5. CASE Changes!Prepare(r)
    BY <1>5 DEF Changes!Prepare, Changes!JobStates, Changes!JobHolds
<1>6. CASE Changes!ReadBase(r)
    BY <1>6 DEF Changes!ReadBase, Changes!JobStates, Changes!JobHolds, Changes!SameDocument
<1>7. CASE Changes!Open(r)
    <2>1. PICK targets : /\ job'[r].at = "change" /\ job'[r].targets = targets
                         /\ job'[r].pending = targets /\ job'[r].base = job[r].base
                         /\ job'[r].design = job[r].design
        BY <1>7 DEF Changes!Open, Changes!JobStates
    <2>2. Changes!Authorized(r)' => Changes!Authorized(r)
        BY <1>7, <2>1 DEF Changes!Open, Changes!Authorized, Changes!Owns, Changes!Attempt
    <2>3. private'[r] = job[r].base.text /\ job[r].base.text \in Changes!Texts
        BY <1>7, CopyTyped DEF Changes!Open
    <2>4. Changes!Applied(r)' = job[r].base.text
        BY <2>1, <2>3 DEF Changes!Applied, Changes!Done, Changes!Texts
    <2>5. QED
        BY <1>7, <2>1, <2>2, <2>3, <2>4 DEF Changes!Open, Changes!JobHolds
<1>8. ASSUME NEW s \in Sections, Changes!Change(r, s) PROVE Changes!JobHolds(r)'
    <2>1. /\ job'[r].at \in {"change", "check"} /\ job'[r].targets = job[r].targets
          /\ job'[r].pending = job[r].pending \ {s} /\ job'[r].base = job[r].base
          /\ job'[r].design = job[r].design
          /\ job'[r].at = "check" => job[r].pending = {s}
        BY <1>8 DEF Changes!Change, Changes!JobStates
    <2>2. Changes!Authorized(r)' => Changes!Authorized(r)
        BY <1>8, <2>1 DEF Changes!Change, Changes!Authorized, Changes!Owns, Changes!Attempt
    <2>3. private[r] = Changes!Applied(r) /\ Changes!Applied(r) \in Changes!Texts
        BY <1>8, CopyTyped DEF Changes!Change, Changes!JobHolds
    <2>4. private'[r] = [private[r] EXCEPT ![s] = Append(@, r)]
        BY <1>8, <2>3 DEF Changes!Change
    <2>5. s \in job[r].pending /\ s \notin Changes!Done(r) /\ Changes!Done(r)' = Changes!Done(r) \cup {s}
        BY <1>8, <2>1 DEF Changes!Change, Changes!Done
    <2>6. Changes!Applied(r)' = [private[r] EXCEPT ![s] = Append(@, r)]
        BY <2>1, <2>3, <2>5 DEF Changes!Applied
    <2>7. QED
        BY <1>8, <2>1, <2>2, <2>4, <2>6 DEF Changes!Change, Changes!JobHolds
<1>9. CASE Changes!CheckLecture(r) \/ Changes!Critique(r) \/ Changes!Repair(r)
    <2>1. /\ job'[r].at \in {"critique", "write", "repair", "recheck"}
          /\ job[r].at \in {"check", "critique", "repair", "recheck"}
          /\ job'[r].targets = job[r].targets /\ job'[r].base = job[r].base
          /\ job'[r].design = job[r].design
          /\ UNCHANGED <<private, changeOwner, attempt>>
        <3>1. CASE Changes!CheckLecture(r) \/ Changes!Repair(r)
            BY <3>1 DEF Changes!CheckLecture, Changes!Repair, Changes!Kept, Changes!Moves,
                Changes!JobStates
        <3>2. CASE Changes!Critique(r)
            <4>1. PICK notes : job' = [job EXCEPT ![r].pending = notes,
                                             ![r].at = IF notes = {} THEN "write" ELSE "repair"]
                BY <3>2 DEF Changes!Critique
            <4>2. QED
                BY <3>2, <4>1 DEF Changes!Critique, Changes!Kept, Changes!JobStates
        <3>3. QED
            BY <1>9, <3>1, <3>2
    <2>2. Changes!Authorized(r)' => Changes!Authorized(r)
        BY <2>1 DEF Changes!Authorized, Changes!Owns, Changes!Attempt
    <2>3. Changes!Applied(r)' = Changes!Applied(r)
        BY <2>1 DEF Changes!Applied, Changes!Done
    <2>4. QED
        BY <2>1, <2>2, <2>3 DEF Changes!JobHolds
<1>10. CASE Changes!WriteRecord(r)
    BY <1>10 DEF Changes!WriteRecord, Changes!Moves, Changes!JobStates, Changes!JobHolds
<1>11. QED
    BY <1>3, <1>4, <1>5, <1>6, <1>7, <1>8, <1>9, <1>10 DEF TaskSteps

LEMMA ChangesTask ==
    ASSUME Changes!Inv, NEW r \in Requests, TaskSteps(r)
    PROVE  Changes!Inv'
<1>1. Changes!TypeOK /\ \A k \in Requests : Changes!JobHolds(k)
    BY DEF Changes!Inv
<1>2. Changes!TypeOK'
    BY <1>1, ChangesTypedRequests, ChangesTypedWork, ChangesTypedTexts DEF TaskSteps
<1>3. /\ UNCHANGED Changes!lecture
      /\ \A k \in Requests \ {r} :
           UNCHANGED <<changeStatus[k], job[k], private[k], attempt[k]>>
      /\ \A x \in records' : x.request # r => x \in records
      /\ UNCHANGED changeOwner \/ changeOwner'.by = r
    BY <1>1, TaskOthers
<1>4. \A k \in Requests : Changes!JobHolds(k)'
    <2>1. \A k \in Requests \ {r} : Changes!JobHolds(k)'
        BY <1>1, <1>3, OtherStays
    <2>2. QED
        BY <2>1, TaskHolds
<1>5. Changes!Held' \subseteq Changes!Held
    <2>1. UNCHANGED changeDraft /\ UNCHANGED published
        BY <1>3 DEF Changes!lecture
    <2>2. Changes!Base # Absent => Changes!Base \in {changeDraft, published}
        BY DEF Changes!Base
    <2>3. \A k \in Requests : job'[k].at \in Changes!Based =>
            \/ job[k].at \in Changes!Based /\ job'[k].base = job[k].base
            \/ job'[k].base \in {changeDraft, published}
        BY <1>1, <1>3, <2>2, TaskWritten
    <2>4. QED
        BY <2>1, <2>3, HeldStays
<1>6. ASSUME NEW text \in Changes!Held' PROVE Changes!Sound(text)'
    <2>1. Changes!Sound(text)
        BY <1>5, <1>6 DEF Changes!Inv
    <2>2. /\ Changes!Written(r) => Changes!Written(r)'
          /\ job'[r].at \in {"record", "complete"} =>
               job[r].at \in {"record", "complete"} /\ job'[r].targets = job[r].targets
          /\ changeStatus'[r] = "completed" =>
               \/ changeStatus[r] = "completed" /\ UNCHANGED records
               \/ job[r].at = "complete" /\ UNCHANGED records
        BY <1>1, TaskWritten
    <2>3. job[r].at = "complete" => \A x \in records : x.request = r => x.sections = job[r].targets
        BY <1>1 DEF Changes!JobHolds
    <2>4. \A k \in Requests \ {r} : Changes!Written(k)' <=> Changes!Written(k)
        BY <1>3 DEF Changes!Written
    <2>5. \A k \in Requests \ {r} : \A x \in records' : x.request = k => x \in records
        BY <1>3
    <2>6. QED
        BY <1>3, <2>1, <2>2, <2>3, <2>4, <2>5, SoundStays
<1>7. QED
    BY <1>2, <1>4, <1>6 DEF Changes!Inv

\* The draft that is written is the base with the request once in its sections.
LEMMA SpliceIs ==
    ASSUME Changes!Inv, NEW r \in Requests, job[r].at = "write"
    PROVE  /\ Changes!Splice(r) = Changes!Applied(r)
           /\ job[r].base.text \in Changes!Held /\ job[r].base.text \in Changes!Texts
           /\ Changes!Done(r) = job[r].targets
BY CopyTyped DEF Changes!Inv, Changes!JobHolds, Changes!Based, Changes!Copied, Changes!Splice,
    Changes!Applied, Changes!Done, Changes!Held

LEMMA AppliedTouches ==
    ASSUME Changes!Inv, NEW r \in Requests, job[r].at = "write"
    PROVE  /\ Changes!Touched(Changes!Applied(r), r) = job[r].targets
           /\ \A k \in Requests \ {r} :
                Changes!Touched(Changes!Applied(r), k) = Changes!Touched(job[r].base.text, k)
           /\ \A k \in Requests : \A s \in Sections :
                \A i, j \in Changes!Uses(Changes!Applied(r), s, k) : i = j
<1>1. PICK T \in Changes!Texts : T = job[r].base.text /\ T \in Changes!Held
    BY SpliceIs
<1>2. PICK U : U = Changes!Applied(r)
    OBVIOUS
<1>3. job[r].targets \subseteq Sections /\ ~Changes!Written(r)
    <2>1. Changes!TypeOK /\ changeStatus[r] = "running"
        BY DEF Changes!Inv, Changes!TypeOK, Changes!Steps
    <2>2. QED
        BY <2>1, JobTyped DEF Changes!Written
<1>4. Changes!Sound(T)
    BY <1>1 DEF Changes!Inv
<1>5. \A s \in Sections : Changes!Uses(T, s, r) = {}
    BY <1>3, <1>4 DEF Changes!Sound, Changes!Touched
<1>6. \A s \in Sections : U[s] = IF s \in job[r].targets THEN Append(T[s], r) ELSE T[s]
    BY <1>1, <1>2, SpliceIs DEF Changes!Applied
<1>7. ASSUME NEW s \in job[r].targets
      PROVE  /\ Changes!Uses(U, s, r) = {Len(T[s]) + 1}
             /\ \A k \in Requests \ {r} : Changes!Uses(U, s, k) = Changes!Uses(T, s, k)
    <2>1. s \in Sections /\ U[s] = Append(T[s], r) /\ Changes!Uses(T, s, r) = {}
        BY <1>3, <1>5, <1>6
    <2>2. /\ Changes!Uses(U, s, r) = Changes!Uses(T, s, r) \cup {Len(T[s]) + 1}
          /\ \A k \in Requests \ {r} : Changes!Uses(U, s, k) = Changes!Uses(T, s, k)
        BY <2>1, AppendUses
    <2>3. QED
        BY <2>1, <2>2
<1>8. \A s \in Sections \ job[r].targets : \A k \in Requests :
         Changes!Uses(U, s, k) = Changes!Uses(T, s, k)
    BY <1>6 DEF Changes!Uses
<1>9. Changes!Touched(U, r) = job[r].targets
    BY <1>3, <1>5, <1>7, <1>8 DEF Changes!Touched
<1>10. \A k \in Requests \ {r} : Changes!Touched(U, k) = Changes!Touched(T, k)
    BY <1>3, <1>7, <1>8 DEF Changes!Touched
<1>11. \A k \in Requests : \A s \in Sections : \A i, j \in Changes!Uses(U, s, k) : i = j
    BY <1>3, <1>4, <1>7, <1>8 DEF Changes!Sound
<1>12. QED
    BY <1>1, <1>2, <1>9, <1>10, <1>11

LEMMA ChangesWrite ==
    ASSUME Changes!Inv, NEW r \in Requests, Changes!WriteDraft(r)
    PROVE  Changes!Inv'
<1>1. Changes!TypeOK /\ \A k \in Requests : Changes!JobHolds(k)
    BY DEF Changes!Inv
<1>2. Changes!TypeOK'
    BY ChangesTypedTexts
<1>3. /\ job[r].at = "write" /\ Changes!Authorized(r)
      /\ changeDraft'.text = Changes!Splice(r)
      /\ UNCHANGED <<changeDesign, published, changeOwner, changeStatus, attempt, private, records>>
      /\ job' = [job EXCEPT ![r].at = "record"]
    BY DEF Changes!WriteDraft, Changes!Moves
<1>4. /\ job'[r].at = "record" /\ job'[r].base = job[r].base /\ job'[r].targets = job[r].targets
      /\ job'[r].design = job[r].design
      /\ \A k \in Requests \ {r} : job'[k] = job[k]
    BY <1>1, <1>3 DEF Changes!TypeOK, Changes!JobStates
<1>5. \A k \in Requests : Changes!JobHolds(k)'
    <2>1. \A k \in Requests \ {r} : ~Changes!Authorized(k)'
        BY <1>3 DEF Changes!Authorized, Changes!Owns, Changes!Attempt
    <2>2. \A k \in Requests : job[k].design <= changeDesign'
        BY <1>1, <1>3 DEF Changes!JobHolds
    <2>3. \A k \in Requests \ {r} : Changes!JobHolds(k)'
        BY <1>1, <1>3, <1>4, <2>1, <2>2, JobStays
    <2>4. Changes!JobHolds(r)'
        BY <1>1, <1>3, <1>4, <2>2 DEF Changes!JobHolds, Changes!Based, Changes!Copied
    <2>5. QED
        BY <2>3, <2>4
<1>6. Changes!Written(r)' /\ \A k \in Requests \ {r} : Changes!Written(k)' <=> Changes!Written(k)
    BY <1>3, <1>4 DEF Changes!Written
<1>7. ~Changes!Written(r) /\ changeStatus[r] = "running"
    BY <1>1, <1>3 DEF Changes!Written, Changes!TypeOK, Changes!Steps
<1>8. ASSUME NEW text, Changes!Sound(text) PROVE Changes!Sound(text)'
    <2>1. Changes!Touched(text, r) = {}
        BY <1>7, <1>8 DEF Changes!Sound
    <2>2. changeStatus'[r] # "completed" /\ job'[r].at \notin {"none"}
        BY <1>3, <1>4, <1>7
    <2>3. QED
        BY <1>3, <1>4, <1>6, <1>8, <2>1, <2>2 DEF Changes!Sound
<1>9. \A text \in Changes!Held' : text \in Changes!Held \/ text = Changes!Applied(r)
    <2>1. changeDraft'.text = Changes!Applied(r)
        BY <1>3, SpliceIs
    <2>2. \A k \in Requests : job'[k].at \in Changes!Based =>
            job[k].at \in Changes!Based /\ job'[k].base = job[k].base
        BY <1>3, <1>4 DEF Changes!Based
    <2>3. QED
        BY <1>3, <2>1, <2>2 DEF Changes!Held
<1>10. ASSUME NEW text \in Changes!Held' PROVE Changes!Sound(text)'
    <2>1. CASE text \in Changes!Held
        BY <1>8, <2>1 DEF Changes!Inv
    <2>2. CASE text = Changes!Applied(r)
        <3>1. /\ Changes!Touched(text, r) = job[r].targets
              /\ \A k \in Requests \ {r} :
                   Changes!Touched(text, k) = Changes!Touched(job[r].base.text, k)
              /\ \A k \in Requests : \A s \in Sections : \A i, j \in Changes!Uses(text, s, k) : i = j
            BY <1>3, <2>2, AppliedTouches
        <3>2. Changes!Sound(job[r].base.text)
            BY <1>3, SpliceIs DEF Changes!Inv
        <3>3. QED
            BY <1>3, <1>4, <1>6, <1>7, <3>1, <3>2 DEF Changes!Sound
    <2>3. QED
        BY <1>9, <2>1, <2>2
<1>11. QED
    BY <1>2, <1>5, <1>10 DEF Changes!Inv

\* What the rest of the system does to a request that is being made.
LEMMA ChangesRestHolds ==
    ASSUME Changes!Inv, NEW k \in Requests,
           \/ Changes!Generate \/ Changes!GenerationWrites \/ Changes!Publish
           \/ Changes!EditSources \/ Changes!ApproveGoals
    PROVE  Changes!JobHolds(k)'
<1>1. Changes!TypeOK /\ Changes!JobHolds(k)
    BY DEF Changes!Inv
<1>2. UNCHANGED <<changeStatus, attempt, job, private, records>>
    BY DEF Changes!Generate, Changes!GenerationWrites, Changes!Publish, Changes!EditSources,
        Changes!ApproveGoals, Changes!Jobs
<1>3. changeDesign \in Nat /\ job[k].design \in Nat /\ job[k].design <= changeDesign
    BY <1>1, JobTyped, ChangesConstants DEF Changes!TypeOK, Changes!JobHolds
<1>4. CASE Changes!Generate
    BY <1>1, <1>2, <1>4, OtherStays, ChangesConstants DEF Changes!Generate, Changes!Generation
<1>5. CASE Changes!GenerationWrites
    <2>1. ~Changes!Authorized(k)'
        BY <1>2, <1>5, ChangesConstants DEF Changes!GenerationWrites, Changes!Generation,
            Changes!Authorized, Changes!Owns, Changes!Attempt
    <2>2. QED
        BY <1>1, <1>2, <1>3, <1>5, <2>1, JobStays DEF Changes!GenerationWrites
<1>6. CASE Changes!Publish
    <2>1. Changes!Base = changeDraft /\ Changes!Base' = changeDraft
        BY <1>6 DEF Changes!Publish, Changes!Base, Changes!Ready, Changes!Current,
            Changes!SameDocument
    <2>2. changeDraft # Absent
        BY <1>6 DEF Changes!Publish, Changes!Ready, Changes!Current
    <2>3. Changes!Authorized(k)' => Changes!Authorized(k)
        BY <1>2, <1>6 DEF Changes!Publish, Changes!Authorized, Changes!Owns, Changes!Attempt
    <2>4. QED
        BY <1>1, <1>2, <1>3, <1>6, <2>1, <2>2, <2>3, JobStays DEF Changes!Publish, Changes!SameDocument
<1>7. CASE Changes!EditSources
    <2>1. ~Changes!Authorized(k)'
        BY <1>7 DEF Changes!EditSources, Changes!Authorized
    <2>2. QED
        BY <1>1, <1>2, <1>3, <1>7, <2>1, JobStays DEF Changes!EditSources
<1>8. CASE Changes!ApproveGoals
    <2>1. changeDesign' = changeDesign + 1
        BY <1>8 DEF Changes!ApproveGoals
    <2>2. ~Changes!Authorized(k)'
        BY <1>2, <1>3, <2>1 DEF Changes!Authorized
    <2>3. QED
        BY <1>1, <1>2, <1>3, <2>1, <2>2, JobStays
<1>9. QED
    BY <1>4, <1>5, <1>6, <1>7, <1>8

LEMMA EmptyIsSound ==
    ASSUME NEW text, text = [s \in Sections |-> <<>>]
    PROVE  Changes!Sound(text)
<1>1. \A s \in Sections : \A k \in Requests : Changes!Uses(text, s, k) = {}
    BY DEF Changes!Uses
<1>2. \A k \in Requests : Changes!Touched(text, k) = {}
    BY <1>1 DEF Changes!Touched
<1>3. QED
    BY <1>1, <1>2 DEF Changes!Sound

LEMMA ChangesRest ==
    ASSUME Changes!Inv,
           \/ Changes!Generate \/ Changes!GenerationWrites \/ Changes!Publish
           \/ Changes!EditSources \/ Changes!ApproveGoals
    PROVE  Changes!Inv'
<1>1. Changes!TypeOK'
    BY ChangesTypedRest DEF Changes!Inv
<1>2. \A k \in Requests : Changes!JobHolds(k)'
    BY ChangesRestHolds
<1>3. UNCHANGED <<changeStatus, attempt, job, private, records>>
    BY DEF Changes!Generate, Changes!GenerationWrites, Changes!Publish, Changes!EditSources,
        Changes!ApproveGoals, Changes!Jobs
<1>4. \A text : Changes!Sound(text) => Changes!Sound(text)'
    BY <1>3 DEF Changes!Sound, Changes!Written
<1>5. \A text \in Changes!Held' : text \in Changes!Held \/ text = [s \in Sections |-> <<>>]
    <2>1. CASE Changes!GenerationWrites
        BY <1>3, <2>1 DEF Changes!GenerationWrites, Changes!Held
    <2>2. CASE ~Changes!GenerationWrites
        <3>1. UNCHANGED changeDraft /\ published' \in {changeDraft, published}
            BY <2>2 DEF Changes!Generate, Changes!Publish, Changes!EditSources,
                Changes!ApproveGoals, Changes!lecture
        <3>2. QED
            BY <1>3, <3>1, HeldStays
    <2>3. QED
        BY <2>1, <2>2
<1>6. \A text \in Changes!Held' : Changes!Sound(text)'
    <2>1. \A text \in Changes!Held' : Changes!Sound(text)
        BY <1>5, EmptyIsSound DEF Changes!Inv
    <2>2. QED
        BY <1>4, <2>1
<1>7. QED
    BY <1>1, <1>2, <1>6 DEF Changes!Inv

\* The server stops, but not between a draft and the end of its job.
LEMMA ChangesCrash ==
    ASSUME Changes!Inv, Changes!Crash
    PROVE  Changes!Inv'
<1>1. /\ Changes!TypeOK /\ \A k \in Requests : Changes!JobHolds(k)
      /\ changeDesign \in Nat
    BY DEF Changes!Inv, Changes!TypeOK
<1>2. Changes!TypeOK'
    BY <1>1, ChangesTypedRest
<1>3. /\ UNCHANGED <<Changes!lecture, changeOwner, changeStatus, attempt, private, records>>
      /\ \A k \in Requests : job'[k] = Changes!NoJob
      /\ \A k \in Requests : job[k].at \notin {"record", "complete"}
    BY DEF Changes!Crash, Changes!Kept
<1>4. \A k \in Requests : Changes!JobHolds(k)'
    BY <1>1, <1>3 DEF Changes!JobHolds, Changes!NoJob, Changes!Based, Changes!Copied,
        Changes!lecture
<1>5. Changes!Held' \subseteq Changes!Held
    BY <1>3, HeldStays DEF Changes!NoJob, Changes!Based, Changes!lecture
<1>6. \A text : Changes!Sound(text) => Changes!Sound(text)'
    BY <1>3 DEF Changes!Sound, Changes!Written, Changes!NoJob
<1>7. QED
    BY <1>2, <1>4, <1>5, <1>6 DEF Changes!Inv

LEMMA ChangesInit == Changes!Init => Changes!Inv
<1> SUFFICES ASSUME Changes!Init PROVE Changes!Inv
    OBVIOUS
<1>1. \A k \in Requests : job[k] = Changes!NoJob
    BY DEF Changes!Init
<1>2. [s \in Sections |-> <<>>] \in Changes!Texts
    BY DEF Changes!Texts
<1>3. changeDraft \in Changes!Documents /\ changeDraft.text = [s \in Sections |-> <<>>]
    BY <1>2, ChangesConstants DEF Changes!Init, Changes!Documents
<1>4. job \in [Requests -> Changes!JobStates]
    BY ChangesConstants DEF Changes!Init, Changes!NoJob, Changes!JobStates
<1>5. Changes!TypeOK
    <2>1. /\ changeDesign \in 1 .. MaxGoals /\ changeDrafts \in 1 .. MaxDrafts
          /\ changeOwner.n \in 1 .. MaxDrafts /\ changeOwner.by = Nobody
          /\ attempt \in [Requests -> 0 .. MaxAttempts]
        BY ChangesConstants DEF Changes!Init
    <2>2. \A k \in Requests : /\ job[k].at \notin Changes!Steps
                              /\ job[k].pending \subseteq job[k].targets
        BY <1>1 DEF Changes!NoJob, Changes!Steps
    <2>3. /\ approved \in BOOLEAN
          /\ {changeDraft, published} \subseteq Changes!Documents \cup {Absent}
          /\ changeStatus \in [Requests -> {"none", "running", "completed", "failed"}]
          /\ private \in [Requests -> Changes!Texts \cup {Absent}]
          /\ records \subseteq [request : Requests, sections : SUBSET Sections]
        BY <1>3 DEF Changes!Init
    <2>4. QED
        BY <1>4, <2>1, <2>2, <2>3 DEF Changes!TypeOK, Changes!Steps
<1>6. \A k \in Requests : Changes!JobHolds(k)
    BY <1>1 DEF Changes!Init, Changes!JobHolds, Changes!NoJob, Changes!Based, Changes!Copied
<1>7. \A text \in Changes!Held : text = [s \in Sections |-> <<>>]
    BY <1>1, <1>3 DEF Changes!Held, Changes!Init, Changes!NoJob, Changes!Based
<1>8. QED
    BY <1>5, <1>6, <1>7, EmptyIsSound DEF Changes!Inv

LEMMA ChangesQuiet ==
    ASSUME Changes!Inv, UNCHANGED ChangeRequestsVars
    PROVE  Changes!Inv'
<1> USE DEF ChangeRequestsVars, Changes!lecture
<1>1. Changes!TypeOK'
    BY DEF Changes!Inv, Changes!TypeOK
<1>2. \A k \in Requests : Changes!JobHolds(k)'
    BY OtherStays DEF Changes!Inv
<1>3. Changes!Held' \subseteq Changes!Held /\ \A text : Changes!Sound(text) => Changes!Sound(text)'
    BY DEF Changes!Held, Changes!Sound, Changes!Written
<1>4. QED
    BY <1>1, <1>2, <1>3 DEF Changes!Inv

LEMMA ChangesStep == Changes!Inv /\ [Step]_allVars => Changes!Inv'
<1> SUFFICES ASSUME Changes!Inv, [Step]_allVars PROVE Changes!Inv'
    OBVIOUS
<1>1. CASE Changes!Next
    BY <1>1, ChangesTask, ChangesWrite, ChangesRest, ChangesCrash DEF Changes!Next, TaskSteps
<1>2. CASE UNCHANGED ChangeRequestsVars
    BY <1>2, ChangesQuiet
<1>3. QED
    BY <1>1, <1>2 DEF Step, allVars

\* A change request writes over the document it was made from, once, and its
\* record tells what it changed, whatever else is generated, published, edited
\* and approved meanwhile, for a server that does not stop between the draft
\* and the end of its job (canvas_change_generation.py).
THEOREM ChangesHold == CanvasSpec => ChangesApplyOnce
<1>1. Begin => Changes!Inv
    BY ChangesInit DEF Begin
<1>2. Changes!Inv => Changes!TypeOK /\ Changes!AppliedOnce /\ Changes!RecordsAreTrue
    <2>1. SUFFICES ASSUME Changes!Inv PROVE Changes!AppliedOnce /\ Changes!RecordsAreTrue
        BY DEF Changes!Inv
    <2>2. \A d \in {changeDraft, published} \ {Absent} : Changes!Sound(d.text)
        BY <2>1 DEF Changes!Inv, Changes!Held
    <2>3. \A x \in records : x.request \in Requests
        BY <2>1 DEF Changes!Inv, Changes!TypeOK
    <2>4. QED
        BY <2>2, <2>3 DEF Changes!Sound, Changes!AppliedOnce, Changes!RecordsAreTrue
<1>3. Changes!Inv /\ [Step]_allVars =>
        [\A r \in Requests : Changes!WriteDraft(r) =>
            Changes!SameDocument(job[r].base, Changes!Base)]_(Changes!vars)
    BY DEF Changes!Inv, Changes!JobHolds, Changes!WriteDraft, Changes!Based
<1>4. QED
    BY <1>1, <1>2, <1>3, ChangesStep, PTL
    DEF CanvasSpec, ChangesApplyOnce, Changes!NothingIsOverwritten

============================================================================
