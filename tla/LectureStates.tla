---------------------------- MODULE LectureStates ----------------------------
(* What the professor is told about one lecture: the state of its sources,  *)
(* goals and draft and the single next action, derived without a lock from  *)
(* the files that the goals, the generation jobs and the publication leave. *)
(*                                                                          *)
(* Times are only compared, so they are kept as an order.  A generation     *)
(* begins (its record is running) before the task it supersedes is          *)
(* cancelled and has written its own end.                                   *)
EXTENDS Integers

CONSTANTS
    Jobs,          \* generation requests, one record file each
    MaxSources,    \* bound: revisions of the lecture's sources
    MaxDesigns,    \* bound: revisions of the design
    MaxDrafts,     \* bound: drafts written
    MaxCrashes,    \* bound: stops of the server
    Repairs,       \* BOOLEAN: a generation may repair the teaching tasks
    Absent

Designs == [src : 1 .. MaxSources, intent : 1 .. MaxDesigns, rev : 1 .. MaxDesigns,
            approved : BOOLEAN]
Drafts == [src : 1 .. MaxSources, rev : 1 .. MaxDesigns, digest : 1 .. MaxDrafts]
Publications == [src : 1 .. MaxSources, intent : 1 .. MaxDesigns, digest : 1 .. MaxDrafts]

\* What the constants are assumed to be.
LectureStatesAssumption ==
    /\ {MaxDesigns, MaxDrafts, MaxCrashes} \subseteq Nat /\ MaxSources \in Nat \ {0}
    /\ "approval" \notin Jobs
    /\ Absent \notin Jobs \cup Designs \cup Drafts \cup Publications
    /\ Repairs \in BOOLEAN

VARIABLES
    src, routing,     \* current revision of the sources; the routing is confirmed
    design,           \* [src, intent, rev, approved], or Absent
    revs,             \* number of design revisions
    proposing,        \* marker of a background proposal
    draft,            \* [src, rev, digest], or Absent
    publication,      \* [src, intent, digest], or Absent
    drafts,           \* number of drafts
    status,           \* record of each job; lapsed: running, its lease expired
    task,             \* its task
    holder,           \* the task of the lecture
    owner,            \* [job, rev] of the ownership
    recent,           \* <<x, y>>: x has a time, at least as late as that of y
    crashes,
    shown             \* history: the usable result the professor was last shown

files == <<src, routing, design, revs, proposing>>
results == <<draft, publication, drafts>>
jobs == <<status, task, holder, owner>>
vars == <<files, results, jobs, recent, crashes, shown>>

\* What has a time: records of jobs, and the approval of the goals.
Timed == {x \in Jobs \cup {"approval"} : <<x, x>> \in recent}
Stamp(x) ==
    recent' = {p \in recent : x \notin {p[1], p[2]}} \cup ({x} \X (Timed \cup {x}))

Later(x, y) == x # y /\ <<x, y>> \in recent

-----------------------------------------------------------------------------
(* What lecture-states derives.                                             *)

Approved == design # Absent /\ design.approved
Current == Approved /\ design.src = src

Goals ==
    IF Current THEN "approved"
    ELSE IF proposing # "none" THEN "proposing"
    ELSE IF Approved THEN "stale"
    ELSE IF design # Absent /\ design.src = src THEN "needs_review"
    ELSE "missing"

Records == {j \in Jobs : status[j] # "none"}
Latest == CHOOSE j \in Records : \A k \in Records \ {j} : Later(j, k)

Generating == Records # {} /\ status[Latest] = "running"

Published ==
    /\ publication # Absent
    /\ publication.src = design.src /\ publication.intent = design.intent

DraftCurrent == draft # Absent /\ draft.src = design.src /\ draft.rev = design.rev

Ready == DraftCurrent /\ (Published => draft.digest # publication.digest)

Failure ==
    /\ Records # {}
    /\ status[Latest] # "completed"
    /\ Later(Latest, "approval")

\* Mutant: a failure is shown before a result.
FailureFirst ==
    IF Generating THEN "generating"
    ELSE IF ~Current THEN "none"
    ELSE IF Failure THEN "failed"
    ELSE IF Ready THEN "ready"
    ELSE IF Published THEN "published"
    ELSE "none"

Draft ==
    IF Generating THEN "generating"
    ELSE IF ~Current THEN "none"
    ELSE IF Ready THEN "ready"
    ELSE IF Published THEN "published"
    ELSE IF Failure THEN "failed"
    ELSE "none"

DraftAction ==
    [generating |-> "wait", failed |-> "retry_draft", ready |-> "review_draft",
     none |-> "generate_draft", published |-> "none"]

NextAction ==
    IF ~routing /\ Draft # "published" THEN "confirm_routing"
    ELSE IF Goals = "proposing" THEN "wait"
    ELSE IF Goals \in {"missing", "needs_review"} THEN "review_goals"
    ELSE IF Goals = "stale" THEN "keep_or_regenerate_goals"
    ELSE DraftAction[Draft]

Usable == {"ready", "published"}

\* The professor works: what he was shown may go.
Works == shown' = IF Draft' \in Usable THEN Draft' ELSE "none"
\* The system works: he looks again.
Looks == shown' = IF Draft' \in Usable THEN Draft' ELSE shown

-----------------------------------------------------------------------------
(* Sources, routing and goals.                                              *)

EditSources ==
    /\ src' \in {src, src + 1} /\ src' <= MaxSources
    /\ routing' \in BOOLEAN
    /\ UNCHANGED <<design, revs, proposing, results, jobs, recent, crashes>>
    /\ Works

ConfirmRouting ==
    /\ ~routing /\ routing' = TRUE
    /\ UNCHANGED <<src, design, revs, proposing, results, jobs, recent, crashes>>
    /\ Works

NewDesign ==
    /\ revs < MaxDesigns
    /\ revs' = revs + 1
    /\ design' = [src |-> src, intent |-> revs', rev |-> revs', approved |-> FALSE]

\* Approved goals of the current sources change by an edit.
ProposeGoals ==
    /\ routing
    /\ NewDesign
    /\ UNCHANGED <<src, routing, proposing, results, jobs, recent, crashes>>
    /\ Works

\* An update marks its new lectures, a task proposes their goals.
MarkProposing ==
    /\ design = Absent /\ proposing = "none"
    /\ proposing' = "running"
    /\ UNCHANGED <<src, routing, design, revs, results, jobs, recent, crashes>>
    /\ Works

ProposalEnds ==
    /\ proposing = "running" /\ proposing' = "none"
    /\ (routing /\ ~Current /\ NewDesign) \/ UNCHANGED <<design, revs>>
    /\ UNCHANGED <<src, routing, results, jobs, recent, crashes>>
    /\ Looks

MarkerLapses ==
    /\ proposing = "abandoned" /\ proposing' = "none"
    /\ UNCHANGED <<src, routing, design, revs, results, jobs, recent, crashes>>
    /\ Looks

ApproveGoals ==
    /\ design # Absent /\ design.src = src /\ ~design.approved
    /\ design' = [design EXCEPT !.approved = TRUE]
    /\ Stamp("approval")
    /\ UNCHANGED <<src, routing, revs, proposing, results, jobs, crashes>>
    /\ Works

\* Keeping is a new approval of the same goals for the current sources.
KeepGoals ==
    /\ routing /\ Approved /\ design.src # src
    /\ revs < MaxDesigns
    /\ revs' = revs + 1
    /\ design' = [src |-> src, intent |-> revs', rev |-> revs', approved |-> TRUE]
    /\ Stamp("approval")
    /\ UNCHANGED <<src, routing, proposing, results, jobs, crashes>>
    /\ Works

-----------------------------------------------------------------------------
(* Generations.                                                             *)

\* require_current_practice_design
Accepted == routing /\ Current

Live == {j \in Jobs : task[j] # "none"}

Begin(j) ==
    /\ status[j] = "none" /\ Accepted
    /\ status' = [status EXCEPT ![j] = "running"]
    /\ task' = [task EXCEPT ![j] = "claimed"]
    /\ Stamp(j)
    /\ UNCHANGED <<files, results, holder, owner, crashes>>
    /\ Looks

\* An interrupted generation is claimed again with its key.
Retry(j) ==
    /\ status[j] = "lapsed" /\ Accepted
    /\ status' = [status EXCEPT ![j] = "running"]
    /\ task' = [task EXCEPT ![j] = "claimed"]
    /\ Stamp(j)
    /\ UNCHANGED <<files, results, holder, owner, crashes>>
    /\ Looks

Supersede(j) ==
    /\ task[j] = "claimed"
    /\ holder \in Live \ {j} /\ task[holder] \in {"working", "prepared"}
    /\ task' = [task EXCEPT ![holder] = "cancelled", ![j] = "waiting"]
    /\ UNCHANGED <<files, results, status, holder, owner, recent, crashes>>
    /\ Looks

Start(j) ==
    /\ \/ task[j] = "claimed" /\ (holder \in Live => task[holder] \in {"drafted", "cancelled"})
       \/ task[j] = "waiting"
    /\ \A k \in Jobs : task[k] # "cancelled"
    /\ task' = [task EXCEPT ![j] = "working"]
    /\ holder' = j
    /\ UNCHANGED <<files, results, status, owner, recent, crashes>>
    /\ Looks

Prepare(j) ==
    /\ task[j] = "working" /\ Accepted
    /\ task' = [task EXCEPT ![j] = "prepared"]
    /\ owner' = [job |-> j, rev |-> design.rev]
    /\ UNCHANGED <<files, results, status, holder, recent, crashes>>
    /\ Looks

Owns(j) ==
    /\ task[j] = "prepared" /\ owner.job = j
    /\ Current /\ design.rev = owner.rev

\* The critic blames an approved task: the tasks are written anew.
Repair(j) ==
    /\ Repairs /\ Owns(j)
    /\ revs < MaxDesigns
    /\ revs' = revs + 1
    /\ design' = [design EXCEPT !.rev = revs']
    /\ owner' = [owner EXCEPT !.rev = revs']
    /\ UNCHANGED <<src, routing, proposing, results, status, task, holder, recent, crashes>>
    /\ Looks

WriteDraft(j) ==
    /\ Owns(j)
    /\ drafts < MaxDrafts
    /\ drafts' = drafts + 1
    /\ draft' = [src |-> src, rev |-> design.rev, digest |-> drafts']
    /\ task' = [task EXCEPT ![j] = "drafted"]
    /\ UNCHANGED <<files, publication, status, holder, owner, recent, crashes>>
    /\ Looks

Heartbeat(j) ==
    /\ task[j] \in {"working", "prepared"}
    /\ Stamp(j)
    /\ UNCHANGED <<files, results, jobs, crashes>>
    /\ Looks

Complete(j) ==
    /\ task[j] = "drafted"
    /\ status' = [status EXCEPT ![j] = "completed"]
    /\ task' = [task EXCEPT ![j] = "none"]
    /\ Stamp(j)
    /\ UNCHANGED <<files, results, holder, owner, crashes>>
    /\ Looks

\* By itself, or cancelled: its record gets the latest time.
Fail(j) ==
    /\ task[j] \in {"working", "prepared", "cancelled"}
    /\ status' = [status EXCEPT ![j] = "failed"]
    /\ task' = [task EXCEPT ![j] = "none"]
    /\ Stamp(j)
    /\ UNCHANGED <<files, results, holder, owner, crashes>>
    /\ Looks

\* The older record lapses first.
Lapse(j) ==
    /\ status[j] = "running" /\ task[j] = "none"
    /\ \A k \in Jobs : status[k] = "running" => ~Later(j, k)
    /\ status' = [status EXCEPT ![j] = "lapsed"]
    /\ UNCHANGED <<files, results, task, holder, owner, recent, crashes>>
    /\ Looks

Crash ==
    /\ crashes < MaxCrashes
    /\ crashes' = crashes + 1
    /\ task' = [j \in Jobs |-> "none"]
    /\ holder' = Absent
    /\ proposing' = IF proposing = "running" THEN "abandoned" ELSE proposing
    /\ UNCHANGED <<src, routing, design, revs, results, status, owner, recent>>
    /\ Looks

\* course_practice_design_binding: the draft is bound to the approved design.
PublishAccepted ==
    /\ draft # Absent /\ Approved
    /\ design.src = src /\ draft.src = src /\ draft.rev = design.rev

Publish ==
    /\ PublishAccepted
    /\ publication' = [src |-> src, intent |-> design.intent, digest |-> draft.digest]
    /\ UNCHANGED <<files, draft, drafts, jobs, recent, crashes>>
    /\ Works

-----------------------------------------------------------------------------
Init ==
    /\ src = 1 /\ routing = FALSE
    /\ design = Absent /\ revs = 0 /\ proposing = "none"
    /\ draft = Absent /\ publication = Absent /\ drafts = 0
    /\ status = [j \in Jobs |-> "none"]
    /\ task = [j \in Jobs |-> "none"]
    /\ holder = Absent
    /\ owner = [job |-> Absent, rev |-> 0]
    /\ recent = {} /\ crashes = 0
    /\ shown = "none"

Professor ==
    \/ EditSources \/ ConfirmRouting \/ ProposeGoals \/ MarkProposing \/ ApproveGoals
    \/ KeepGoals \/ Publish
    \/ \E j \in Jobs : Begin(j) \/ Retry(j)

Ends(j) == WriteDraft(j) \/ Complete(j) \/ Fail(j)

Next ==
    \/ Professor
    \/ ProposalEnds \/ MarkerLapses \/ Crash
    \/ \E j \in Jobs :
         Supersede(j) \/ Start(j) \/ Prepare(j) \/ Repair(j) \/ Heartbeat(j) \/ Lapse(j) \/ Ends(j)

Spec == Init /\ [][Next]_vars

(* Leases lapse with time, calls and attempts have deadlines, and a claimed *)
(* request goes on in its own coroutine.                                    *)
Fairness ==
    /\ WF_vars(ProposalEnds) /\ WF_vars(MarkerLapses)
    /\ \A j \in Jobs : WF_vars(Lapse(j)) /\ WF_vars(Ends(j)) /\ WF_vars(Supersede(j) \/ Start(j))
FairSpec == Spec /\ Fairness

-----------------------------------------------------------------------------
(* The state has its types, a task's record is running, every record has    *)
(* its time.                                                                *)
TypeOK ==
    /\ src \in 1 .. MaxSources /\ routing \in BOOLEAN
    /\ design \in Designs \cup {Absent} /\ revs \in 0 .. MaxDesigns
    /\ draft \in Drafts \cup {Absent} /\ drafts \in 0 .. MaxDrafts
    /\ publication \in Publications \cup {Absent}
    /\ proposing \in {"none", "running", "abandoned"}
    /\ status \in [Jobs -> {"none", "running", "lapsed", "failed", "completed"}]
    /\ task \in [Jobs -> {"none", "claimed", "waiting", "working", "prepared", "drafted",
                          "cancelled"}]
    /\ recent \subseteq (Jobs \cup {"approval"}) \X (Jobs \cup {"approval"})
    /\ shown \in Usable \cup {"none"}
    /\ \A j \in Jobs :
         /\ task[j] # "none" => status[j] = "running"
         /\ j \in Records <=> j \in Timed
    /\ Approved => "approval" \in Timed

(* The action that is offered is one its endpoint accepts, waiting is       *)
(* offered while something runs, and nothing is offered when learners have  *)
(* the approved goals on the current sources.                               *)
OfferedIsPossible ==
    /\ NextAction = "review_goals" => ~Current
    /\ NextAction = "keep_or_regenerate_goals" => Approved /\ design.src # src
    /\ NextAction \in {"generate_draft", "retry_draft"} => Accepted
    /\ NextAction = "review_draft" => PublishAccepted
    /\ NextAction = "wait" => proposing # "none" \/ \E j \in Jobs : status[j] = "running"
    /\ NextAction = "none" =>
         Current /\ publication.src = src /\ publication.intent = design.intent

(* What the professor was shown stays until he changes something, or is     *)
(* being written anew: a failed attempt never hides a usable result.        *)
UsableResultStays == shown # "none" => Draft \in Usable \cup {"generating"}

(* Why: one of the records is the latest, and the result that was shown is  *)
(* still one of the approved goals, whatever the jobs do.                   *)
Inv ==
    /\ TypeOK
    /\ Records # {} => \E j \in Records : \A k \in Records \ {j} : Later(j, k)
    /\ shown # "none" => Current /\ (DraftCurrent \/ Published)

(* The same of the failing step alone.                                      *)
FailureHidesNothing ==
    [][\A j \in Jobs : Fail(j) /\ shown # "none" => Draft' \in Usable \cup {"generating"}]_vars

(* The professor is not told to wait for ever, whatever stops.              *)
WaitEnds == NextAction = "wait" ~> NextAction # "wait"

(* The draft is being generated while a record holds its lease.             *)
GeneratingIsShown == (\E j \in Jobs : status[j] = "running") => Draft = "generating"

=============================================================================
