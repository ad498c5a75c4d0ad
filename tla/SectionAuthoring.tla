-------------------------- MODULE SectionAuthoring --------------------------
(***************************************************************************)
(* The job that writes a lecture's canvas section by section: missing      *)
(* sections, the ones a repair request names, lecture-level defects, one   *)
(* critic pass, one repair per noted section, the defects once more.  Its  *)
(* directory is the resume point of a later run for the same inputs.       *)
(* Calls of one batch overlap as in module TeachingImplementation.         *)
(***************************************************************************)
EXTENDS Integers, FiniteSets

CONSTANTS
    Sections,    \* the source sections of the lecture
    Nothing,     \* no session, no draft, no critique
    MaxInputs,   \* bound: changes of the source document, design or model
    MaxWrites,   \* bound: versions of one section's draft
    MaxRestarts  \* bound: runs that end early

\* Unsound drafts fail their own check; clashing ones the lecture's.
Kinds == {"sound", "unsound", "clashing"}
Versions == [Sections -> 0..MaxWrites]
Critiques == [of : Versions, notes : SUBSET Sections, repaired : SUBSET Sections]
Sessions == [inputs : 0..MaxInputs, critique : Critiques \cup {Nothing},
             accepted : Versions \cup {Nothing}]
SectionDrafts == [version : 1..MaxWrites, inputs : 0..MaxInputs, kind : Kinds]

\* What the constants are assumed to be.
BoundsAssumption ==
    /\ {MaxInputs, MaxWrites, MaxRestarts} \subseteq Nat /\ MaxWrites > 0
    /\ Nothing \notin Versions /\ Nothing \notin Critiques
    /\ Nothing \notin Sessions /\ Nothing \notin SectionDrafts

VARIABLES
    inputs,   \* what state_identity digests: source document, design, model
    named,    \* the sections that the request's repair context names
    session,  \* session.json
    draft,    \* draft/*.md: version, the inputs it was written for, its defect
    phase,    \* the step of the running job
    batch,    \* sections this step still has to do, and those written in it
    restarts
vars == <<inputs, named, session, draft, phase, batch, restarts>>

Missing == {p \in Sections : draft[p] = Nothing}
Defective == {p \in Sections : draft[p] = Nothing \/ draft[p].kind # "sound"}
Digest == [p \in Sections |-> IF draft[p] = Nothing THEN 0 ELSE draft[p].version]
Fresh == [inputs |-> inputs, critique |-> Nothing, accepted |-> Nothing]
Enter(next, sections) == phase' = next /\ batch' = [todo |-> sections, written |-> {}]

-----------------------------------------------------------------------------
\* Mutant: a completed session is not recognised.
LoadAgain ==
    /\ phase = "idle"
    /\ IF session # Nothing /\ session.inputs # inputs
       THEN session' = Nothing /\ Enter("discard", {})
       ELSE session' = (IF session = Nothing THEN Fresh ELSE session) /\ Enter("write", Missing)
    /\ UNCHANGED <<inputs, named, draft, restarts>>

\* A session for other inputs is removed before the drafts it describes.
Load ==
    /\ phase = "idle"
    /\ IF session # Nothing /\ session.inputs # inputs
       THEN session' = Nothing /\ Enter("discard", {})
       ELSE /\ session' = IF session = Nothing THEN Fresh ELSE session
            /\ IF session # Nothing /\ session.accepted = Digest THEN Enter("done", {})
               ELSE Enter("write", Missing)
    /\ UNCHANGED <<inputs, named, draft, restarts>>

DiscardDrafts ==
    /\ phase = "discard"
    /\ draft' = [p \in Sections |-> Nothing]
    /\ session' = Fresh
    /\ Enter("write", Sections)
    /\ UNCHANGED <<inputs, named, restarts>>

\* The output validator writes the section before it checks it.
Write(p) ==
    /\ p \in batch.todo
    /\ Digest[p] < MaxWrites
    /\ \E kind \in Kinds :
           draft' = [draft EXCEPT ![p] =
                        [version |-> Digest[p] + 1, inputs |-> inputs, kind |-> kind]]
    /\ batch' = [batch EXCEPT !.written = @ \cup {p}]
    /\ UNCHANGED <<inputs, named, session, phase, restarts>>

Return(p) ==
    /\ p \in batch.todo \cap batch.written /\ draft[p].kind # "unsound"
    /\ batch' = [batch EXCEPT !.todo = @ \ {p}]
    /\ session' = IF phase = "notes" THEN [session EXCEPT !.critique.repaired = @ \cup {p}]
                  ELSE session
    /\ UNCHANGED <<inputs, named, draft, phase, restarts>>

-----------------------------------------------------------------------------
Pending == session.critique.notes \ session.critique.repaired

NextStep ==
    /\ batch.todo = {}
    /\ \/ phase = "write" /\ Enter("context", named)
       \/ phase = "context" /\ Enter("check", Defective)
       \/ phase = "check" /\ session.critique = Nothing /\ Enter("critique", {})
       \/ phase = "check" /\ session.critique # Nothing /\ Enter("notes", Pending)
       \/ phase = "notes" /\ Enter("recheck", Defective)
    /\ UNCHANGED <<inputs, named, session, draft, restarts>>

\* The critic sees a document that passes every deterministic check.
Critique ==
    /\ phase = "critique" /\ Defective = {}
    /\ \E notes \in SUBSET Sections :
           /\ session' = [session EXCEPT !.critique =
                             [of |-> Digest, notes |-> notes, repaired |-> {}]]
           /\ Enter("notes", notes)
    /\ UNCHANGED <<inputs, named, draft, restarts>>

Complete ==
    /\ phase = "recheck" /\ batch.todo = {} /\ Defective = {}
    /\ session' = [session EXCEPT !.accepted = Digest]
    /\ phase' = "done"
    /\ UNCHANGED <<inputs, named, draft, batch, restarts>>

\* A failed call or check, the deadline, or the server's end; a later request
\* for the same lecture goes on in this directory.
Stop ==
    /\ phase # "idle" /\ restarts < MaxRestarts
    /\ restarts' = restarts + 1
    /\ Enter("idle", {})
    /\ named' \in SUBSET Sections
    /\ UNCHANGED <<inputs, session, draft>>

\* A source document changes under its revision, e.g. OCR becomes available.
ChangeInputs ==
    /\ phase = "idle" /\ session # Nothing /\ inputs < MaxInputs
    /\ inputs' = inputs + 1
    /\ UNCHANGED <<named, session, draft, phase, batch, restarts>>

\* Sections that a teaching repair left alone come from the previous job.
Init ==
    /\ inputs = 0 /\ session = Nothing /\ restarts = 0
    /\ named \in SUBSET Sections
    /\ draft \in [Sections -> {Nothing} \cup
                     {[version |-> 1, inputs |-> 0, kind |-> kind] : kind \in Kinds}]
    /\ phase = "idle" /\ batch = [todo |-> {}, written |-> {}]

Next ==
    \/ Load \/ DiscardDrafts \/ NextStep \/ Critique \/ Complete \/ Stop \/ ChangeInputs
    \/ \E p \in Sections : Write(p) \/ Return(p)

Spec == Init /\ [][Next]_vars

-----------------------------------------------------------------------------
Critiqued == session # Nothing /\ session.critique # Nothing

\* The state has its types, and work goes on only under a session.
TypeOK ==
    /\ batch.written \subseteq Sections /\ batch.todo \subseteq Sections
    /\ phase \notin {"idle", "discard"} => session # Nothing /\ session.inputs = inputs
    /\ Critiqued => session.critique.repaired \subseteq session.critique.notes
    /\ \A p \in Sections : draft[p] # Nothing => draft[p].kind \in Kinds

\* A resumed job finishes its repairs without another critic call.
CritiqueIsSingle ==
    [][Critiqued /\ session' # Nothing =>
           /\ session'.critique # Nothing
           /\ session'.critique.of = session.critique.of
           /\ session'.critique.notes = session.critique.notes]_vars

\* What the draft's warnings call "repaired once" was written after the critic
\* had seen it (critique_warnings).
WarnedWasRepaired ==
    phase = "done" /\ Critiqued =>
        \A p \in session.critique.notes : Digest[p] > session.critique.of[p]

\* An accepted draft passes the lecture's checks and is never written again,
\* whatever a later request asks of the same session.
AcceptedIsSound == session # Nothing /\ session.accepted = Digest => Defective = {}
AcceptedIsKept ==
    [][session # Nothing /\ session.accepted = Digest /\ session' # Nothing =>
           draft' = draft]_vars

\* What a session promises: its critique saw no newer section than there is,
\* what was repaired is newer, and what was accepted is what there is.
SessionInv ==
    /\ phase \in {"context", "check", "critique", "notes", "recheck", "write", "done"} =>
          session # Nothing /\ session.inputs = inputs
    /\ phase = "discard" => session = Nothing
    /\ phase = "critique" => session.critique = Nothing
    /\ phase = "notes" => session.critique # Nothing /\ Pending = batch.todo
    /\ phase \in {"recheck", "done"} => session.critique # Nothing /\ Pending = {}
    /\ Critiqued => \A p \in Sections :
          /\ session.critique.of[p] <= Digest[p]
          /\ p \in session.critique.repaired \/ (phase = "notes" /\ p \in batch.written) =>
                session.critique.of[p] < Digest[p]
    /\ session # Nothing /\ session.accepted # Nothing =>
          /\ phase \in {"idle", "done"} /\ session.accepted = Digest /\ Defective = {}
          /\ session.critique # Nothing /\ Pending = {}
    /\ phase = "done" => session.accepted # Nothing
TypesInv ==
    /\ TypeOK
    /\ inputs \in 0..MaxInputs /\ named \in SUBSET Sections
    /\ session \in Sessions \cup {Nothing}
    /\ draft \in [Sections -> SectionDrafts \cup {Nothing}]
    /\ batch \in [todo : SUBSET Sections, written : SUBSET Sections]
    /\ phase \in {"idle", "discard", "write", "context", "check", "critique", "notes",
                  "recheck", "done"}
    /\ phase \in {"idle", "done"} => batch.todo = {}
Inv == TypesInv /\ SessionInv

\* authoring_state.py: "Saved drafts are resume points only for the exact inputs
\* that produced them."
DraftsAreForTheInputs ==
    phase = "done" => \A p \in Sections : draft[p].inputs = inputs

\* authoring-agent-migration.md: "Repaired sections are not reviewed again: each
\* becomes a 'repaired once, not re-checked' draft warning."
UnreviewedIsWarned ==
    phase = "done" /\ Critiqued =>
        \A p \in Sections \ session.critique.notes : Digest[p] = session.critique.of[p]

=============================================================================
