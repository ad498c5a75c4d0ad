---------------------------- MODULE LearningGoals ----------------------------
(***************************************************************************)
(* The learning goals of one lecture: proposed from its sources, edited,   *)
(* approved, kept after a source change, and the teaching tasks that a     *)
(* draft generation writes under the approval.  Requests overlap: each     *)
(* parses the sources and calls models without a lock and writes the       *)
(* design under the course lock, which makes a locked block one step.      *)
(***************************************************************************)
EXTENDS Integers, FiniteSets, Sequences, Functions

CONSTANTS
    Contents,      \* contents of the lecture's sources, one revision each
    Supports,      \* content -> the goal sets whose anchors occur in it
    Versions,      \* wordings of a goal's teaching task
    Requests,      \* requests in flight
    NoDesign,      \* no design is stored, nothing is held
    Unreadable,    \* a stored design that does not parse
    MaxChanges,    \* bound: source changes
    MaxApprovals,  \* bound: approvals
    MaxWrites      \* bound: writes of the design

GoalSets == UNION Range(Supports)
Pending == <<>>
Designs ==
    [rev : Contents, goals : GoalSets,
     tasks : (UNION {[DOMAIN goals -> Versions] : goals \in GoalSets}) \cup {Pending},
     fixed : SUBSET UNION {DOMAIN goals : goals \in GoalSets},
     approval : 0..MaxApprovals, reviewed : BOOLEAN]

\* What the constants are assumed to be.
GoalsAssumption ==
    /\ Supports \in [Contents -> SUBSET UNION Range(Supports)]
    /\ {MaxChanges, MaxApprovals, MaxWrites} \subseteq Nat
    /\ NoDesign \notin Designs /\ Unreadable \notin Designs /\ NoDesign # Unreadable

VARIABLES
    sources,    \* content of the lecture's confirmed sources
    design,     \* builder/practice-designs/<lecture>.json
    archive,    \* its history directory
    request,    \* what each request holds in memory
    approvals,  \* what the professor approved, by number of the approval
    changes, writes
vars == <<sources, design, archive, request, approvals, changes, writes>>

Stored == design \notin {NoDesign, Unreadable}
\* The revision leaves out the approval and the review.
Revision(d) == [rev |-> d.rev, goals |-> d.goals, tasks |-> d.tasks, fixed |-> d.fixed]
Approved(d) == d.approval # 0
Bound(rev, goals, tasks, fixed) ==
    [rev |-> rev, goals |-> goals, tasks |-> Restrict(tasks, fixed)]

Idle == [kind |-> "idle", at |-> "idle", seen |-> NoDesign, doc |-> NoDesign, rev |-> NoDesign]
Begin(r, kind, at) ==
    /\ request[r].kind = "idle"
    /\ request' = [request EXCEPT ![r] = [Idle EXCEPT !.kind = kind, !.at = at, !.seen = design]]
    /\ UNCHANGED <<sources, design, archive, approvals, changes, writes>>
Finish(r) == request' = [request EXCEPT ![r] = Idle]
WriteDesign(d) ==
    /\ writes < MaxWrites
    /\ writes' = writes + 1
    /\ design' = d
    /\ archive' = IF design = NoDesign THEN archive ELSE archive \cup {design}

-----------------------------------------------------------------------------
ChangeSources ==
    /\ changes < MaxChanges
    /\ changes' = changes + 1
    /\ sources' \in Contents \ {sources}
    /\ UNCHANGED <<design, archive, request, approvals, writes>>

\* Proposing returns the current goals and refuses to refresh approved ones.
StartProposal(r) ==
    \E refresh \in BOOLEAN :
        /\ Stored /\ design.rev = sources => refresh /\ ~Approved(design)
        /\ Begin(r, "propose", "select")

StartEdit(r) == Stored /\ Begin(r, "edit", "select")
StartApproval(r) == Stored /\ Begin(r, "approve", "save")

Keepable(rev) == Stored /\ Approved(design) /\ design.rev # rev
StartKeep(r) == Keepable(sources) /\ Begin(r, "keep", "select")

\* A generation repairs the tasks of the approved design it was claimed for.
StartRepair(r) ==
    /\ Stored /\ Approved(design) /\ design.rev = sources
    /\ design.tasks # Pending => design.fixed # DOMAIN design.tasks
    /\ Begin(r, "repair", "save")

-----------------------------------------------------------------------------
\* source_document and _source_context: two locked looks at the selection
\* around the parsing, and the revision read after them without a lock.
Step(r, from, held) ==
    /\ request[r].at = from
    /\ request' = [request EXCEPT ![r] = held]
    /\ UNCHANGED <<sources, design, archive, approvals, changes, writes>>

SelectSources(r) == Step(r, "select", [request[r] EXCEPT !.at = "parse", !.rev = sources])
Parse(r) == Step(r, "parse", [request[r] EXCEPT !.at = "confirm", !.doc = sources])
ConfirmSelection(r) ==
    /\ sources = request[r].rev
    /\ Step(r, "confirm", [request[r] EXCEPT !.at = "revision"])
ReadRevision(r) == Step(r, "revision", [request[r] EXCEPT !.at = "save", !.rev = sources])

-----------------------------------------------------------------------------
Saving(r, kind) == request[r].kind = kind /\ request[r].at = "save"
NotApproved == UNCHANGED approvals

\* Goals whose ids all have tasks keep them, and the fixed ones stay fixed.
Proposed(rev, goals, before) ==
    LET kept == /\ before \notin {NoDesign, Unreadable}
                /\ before.rev = rev /\ before.tasks # Pending
                /\ DOMAIN goals \subseteq DOMAIN before.tasks
    IN [rev |-> rev, goals |-> goals,
        tasks |-> IF kept THEN Restrict(before.tasks, DOMAIN goals) ELSE Pending,
        fixed |-> IF kept THEN before.fixed \cap DOMAIN goals ELSE {},
        approval |-> 0, reviewed |-> FALSE]

SaveProposal(r) ==
    /\ Saving(r, "propose")
    /\ sources = request[r].rev
    /\ design = request[r].seen
    /\ \E goals \in Supports[request[r].doc] :
           WriteDesign(Proposed(request[r].rev, goals, design))
    /\ Finish(r) /\ NotApproved /\ UNCHANGED <<sources, changes>>

\* Mutant: the edit does not compare the revision the professor saw.
EditAnyway(r) ==
    /\ Saving(r, "edit")
    /\ sources = request[r].rev
    /\ Stored
    /\ \E goals \in Supports[request[r].doc] :
           WriteDesign(Proposed(request[r].rev, goals, design))
    /\ Finish(r) /\ NotApproved /\ UNCHANGED <<sources, changes>>

SaveEdit(r) ==
    /\ Saving(r, "edit")
    /\ sources = request[r].rev
    /\ Stored /\ Revision(design) = Revision(request[r].seen)
    /\ request[r].rev = request[r].seen.rev
    /\ \E goals \in Supports[request[r].doc] :
           WriteDesign(Proposed(request[r].rev, goals, design))
    /\ Finish(r) /\ NotApproved /\ UNCHANGED <<sources, changes>>

Approve(content) ==
    /\ Len(approvals) < MaxApprovals
    /\ approvals' = Append(approvals, content)

SaveApproval(r) ==
    LET seen == request[r].seen IN
    /\ Saving(r, "approve")
    /\ sources = seen.rev
    /\ Stored /\ Revision(design) = Revision(seen)
    /\ \E fixed \in SUBSET DOMAIN design.tasks :
           /\ Approve(Bound(seen.rev, seen.goals, seen.tasks, fixed))
           /\ WriteDesign([design EXCEPT !.fixed = fixed, !.approval = Len(approvals) + 1])
    /\ Finish(r) /\ UNCHANGED <<sources, changes>>

Kept(d, rev) ==
    [d EXCEPT !.rev = rev, !.approval = Len(approvals) + 1,
              !.tasks = IF d.fixed = {} THEN Pending ELSE @,
              !.reviewed = @ /\ d.fixed # {} /\ d.fixed = DOMAIN d.tasks]
SaveKeep(r) ==
    LET seen == request[r].seen IN
    /\ Saving(r, "keep")
    /\ sources = request[r].rev
    /\ design = seen
    /\ Keepable(sources)
    /\ design.goals \in Supports[request[r].doc]
    /\ Approve(Bound(sources, seen.goals, seen.tasks, seen.fixed))
    /\ WriteDesign(Kept(design, sources))
    /\ Finish(r) /\ UNCHANGED <<sources, changes>>

\* require_matches: the tasks are for the approved goals, fixed ones unchanged.
Repairs(d) ==
    {tasks \in [DOMAIN d.goals -> Versions] : \A g \in d.fixed : tasks[g] = d.tasks[g]}
SaveRepair(r) ==
    /\ Saving(r, "repair")
    /\ sources = request[r].seen.rev
    /\ design = request[r].seen
    /\ \E tasks \in Repairs(request[r].seen) :
           WriteDesign([design EXCEPT !.tasks = tasks, !.reviewed = TRUE])
    /\ Finish(r) /\ NotApproved /\ UNCHANGED <<sources, changes>>

\* A stale check, a failed model call or unsupported goals: nothing is written.
Refuse(r) ==
    /\ request[r].kind # "idle"
    /\ Finish(r)
    /\ UNCHANGED <<sources, design, archive, approvals, changes, writes>>

-----------------------------------------------------------------------------
\* An earlier schema's design that nobody had approved.
Migrated(rev) ==
    {[rev |-> rev, goals |-> goals, tasks |-> [g \in DOMAIN goals |-> v], fixed |-> {},
      approval |-> 0, reviewed |-> FALSE] : goals \in Supports[rev], v \in Versions}
Init ==
    /\ sources \in Contents
    /\ design \in {NoDesign, Unreadable} \cup Migrated(sources)
    /\ archive = {} /\ approvals = <<>> /\ changes = 0 /\ writes = 0
    /\ request = [r \in Requests |-> Idle]

Next ==
    \/ ChangeSources
    \/ \E r \in Requests :
           \/ StartProposal(r) \/ StartEdit(r) \/ StartApproval(r) \/ StartKeep(r)
           \/ StartRepair(r)
           \/ SelectSources(r) \/ Parse(r) \/ ConfirmSelection(r) \/ ReadRevision(r)
           \/ SaveProposal(r) \/ SaveEdit(r) \/ SaveApproval(r) \/ SaveKeep(r)
           \/ SaveRepair(r) \/ Refuse(r)

Spec == Init /\ [][Next]_vars

-----------------------------------------------------------------------------
\* The state has its types, and tasks are for the goals they are stored with
\* (PracticeDesign.validate_revision).
TypeOK ==
    /\ sources \in Contents
    /\ design \in Designs \cup {NoDesign, Unreadable}
    /\ archive \subseteq Designs \cup {Unreadable}
    /\ Stored => /\ design.tasks = Pending \/ DOMAIN design.tasks = DOMAIN design.goals
                 /\ design.fixed \subseteq DOMAIN design.tasks
    /\ \A r \in Requests : request[r].seen \in Designs \cup {NoDesign, Unreadable}
    /\ Len(approvals) <= MaxApprovals

\* An approval stands for the goals and the fixed tasks that the professor
\* approved, on the revision they were approved for, through every later
\* repair of the teaching (has_approved_intent).
ApprovalMeansItsGoals ==
    Stored /\ Approved(design) =>
        Bound(design.rev, design.goals, design.tasks, design.fixed) = approvals[design.approval]

\* Every approval ever given is in the design or in its history, with what it
\* approved (write_design_file).
ApprovalsAreArchived ==
    \A n \in DOMAIN approvals :
        \E d \in (archive \cup {design}) \ {NoDesign, Unreadable} :
            d.approval = n /\ Bound(d.rev, d.goals, d.tasks, d.fixed) = approvals[n]

\* An approved design is replaced only by a request whose author had it before
\* him, its tasks included: two professors never overwrite each other blindly.
ApprovedIsReplacedKnowingly ==
    [][Stored /\ Approved(design) /\ design' # design =>
           \E r \in Requests :
               /\ request[r].at = "save" /\ request'[r] = Idle
               /\ Revision(request[r].seen) = Revision(design)]_vars

\* What requests and approvals hold: the source document of a request that
\* writes goals was parsed before it saves them, and a repair is of a design.
Held ==
    [kind : {"idle", "propose", "edit", "approve", "keep", "repair"},
     at : {"idle", "select", "parse", "confirm", "revision", "save"},
     seen : Designs \cup {NoDesign, Unreadable},
     doc : Contents \cup {NoDesign}, rev : Contents \cup {NoDesign}]
Prepared(held) ==
    /\ held.kind \in {"propose", "edit", "keep"} /\ held.at \in {"confirm", "revision", "save"} =>
          held.doc \in Contents
    /\ held.kind = "repair" => held.seen \in Designs
Given ==
    [rev : Contents, goals : GoalSets,
     tasks : UNION {[chosen -> Versions] : chosen \in SUBSET UNION {DOMAIN goals : goals \in GoalSets}}]
TypesInv ==
    /\ TypeOK
    /\ request \in [Requests -> Held] /\ \A r \in Requests : Prepared(request[r])
    /\ approvals \in Seq(Given)
    /\ Stored => design.approval \in 0..Len(approvals)
Inv == TypesInv /\ ApprovalMeansItsGoals /\ ApprovalsAreArchived

\* learning_goal_proposal_run.py: "Same revision means the same confirmed
\* files, so the parsed source still holds."
ParsedSourceHolds ==
    \A r \in Requests :
        request[r].at = "save" /\ request[r].doc # NoDesign /\ request[r].rev = sources =>
            request[r].doc = sources

\* learning-intent-ownership.md: approved goals of the current sources are
\* never replaced by a refresh; professors edit them.
RefreshKeepsApproved ==
    [][\A r \in Requests :
           Saving(r, "propose") /\ request'[r] = Idle /\ design' # design =>
               ~(Stored /\ Approved(design) /\ design.rev = sources)]_vars

=============================================================================
