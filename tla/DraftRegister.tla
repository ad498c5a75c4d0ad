--------------------------- MODULE DraftRegister ---------------------------
(***************************************************************************)
(* What background generation promises about the draft of a lecture, with  *)
(* no task, thread or lock in it.  Generations take turns at owning the    *)
(* draft; a later one fences off those before it, and a cancellation the   *)
(* one it cancels.  Only the owner writes, and only from the approved      *)
(* inputs it works for; a report of a canvas is of one that was written.   *)
(***************************************************************************)
EXTENDS Naturals

CONSTANTS
    Generations, \* attempts to generate the draft
    None         \* no generation

VARIABLES
    turn,     \* turn[g]: place of g among the owners, 0 if it never was one
    owner,    \* who owned last
    fenced,   \* its ownership was revoked
    inputs,   \* revision of the sources and the design
    approval, \* the design is approved for the sources
    basis,    \* basis[g]: the inputs g works for
    draft,    \* who wrote the draft
    reported  \* generations whose canvas is reported

vars == <<turn, owner, fenced, inputs, approval, basis, draft, reported>>

Owns(g) == owner = g /\ ~fenced

\* The draft is g's, or that of a later owner.
Delivered(g) == draft = g \/ (draft # None /\ turn[draft] > turn[g] /\ turn[g] > 0)

Init ==
    /\ turn = [g \in Generations |-> 0]
    /\ owner = None
    /\ fenced = FALSE
    /\ approval = TRUE
    /\ basis = [g \in Generations |-> inputs]
    /\ draft = None
    /\ reported = {}

-----------------------------------------------------------------------------
\* A generation that never owned the draft comes last.
Own(g) ==
    LET n == turn'[g] IN
    /\ turn[g] = 0 /\ approval
    /\ n \in Nat /\ \A h \in Generations : n > turn[h]
    /\ turn' = [turn EXCEPT ![g] = n]
    /\ owner' = g
    /\ fenced' = FALSE
    /\ basis' = [basis EXCEPT ![g] = inputs]
    /\ UNCHANGED <<inputs, approval, draft, reported>>

\* The owner replaces the design and goes on with what it stored.
Adapt(g) ==
    /\ Owns(g) /\ basis[g] = inputs
    /\ basis' = [basis EXCEPT ![g] = inputs']
    /\ UNCHANGED <<turn, owner, fenced, approval, draft, reported>>

Write(g) ==
    /\ Owns(g) /\ basis[g] = inputs /\ approval
    /\ draft' = g
    /\ UNCHANGED <<turn, owner, fenced, inputs, approval, basis, reported>>

\* A canvas is reported; older reports may be given up for it.
Report(g) ==
    /\ Delivered(g)
    /\ g \in reported' /\ reported' \subseteq reported \cup {g}
    /\ UNCHANGED <<turn, owner, fenced, inputs, approval, basis, draft>>

\* Another outcome is recorded, which may be the end of the owner.
Conclude ==
    /\ fenced' \in {fenced, TRUE}
    /\ reported' \subseteq reported
    /\ UNCHANGED <<turn, owner, inputs, approval, basis, draft>>

\* The professor edits the sources or approves a design.
Revise == UNCHANGED <<turn, owner, fenced, basis, draft, reported>>

Next ==
    \/ \E g \in Generations : Own(g) \/ Adapt(g) \/ Write(g) \/ Report(g)
    \/ Conclude \/ Revise

Spec == Init /\ [][Next]_vars
============================================================================
