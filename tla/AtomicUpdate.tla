--------------------------- MODULE AtomicUpdate ---------------------------
(***************************************************************************)
(* What a course update promises, with no file system in it: the course    *)
(* content is one value that changes only when an update commits, and then *)
(* in all the files the request selected at once, or when a course route   *)
(* edits one file while no update is being applied.                        *)
(***************************************************************************)
CONSTANTS
    Workers,      \* threads that serve requests
    Ids,          \* update directories: staged updates and source clean-ups
    Files,        \* files of the live course
    Contents,     \* what a file may hold, absence included
    Edits,        \* contents written by a route other than an update
    None,         \* no update
    New(_, _)     \* New(u, f): what update u makes of file f

VARIABLES
    state,        \* the settled content of every live file
    life,         \* where each update stands
    doing,        \* doing[w]: the update worker w is applying
    request       \* request[w]: the files it was asked to change

vars == <<state, life, doing, request>>

Stage(u) ==
    /\ life[u] = "unborn"
    /\ life' = [life EXCEPT ![u] = "open"]
    /\ UNCHANGED <<state, doing, request>>

\* An update that nobody is applying is thrown away.
Discard(u) ==
    /\ life[u] = "open"
    /\ \A w \in Workers : doing[w] # u
    /\ life' = [life EXCEPT ![u] = "discarded"]
    /\ UNCHANGED <<state, doing, request>>

\* Worker w starts to apply u to the given files; one request at a time.
Request(w, u, files) ==
    /\ life[u] = "open"
    /\ \A v \in Workers : doing[v] = None
    /\ doing' = [doing EXCEPT ![w] = u]
    /\ request' = [request EXCEPT ![w] = files]
    /\ UNCHANGED <<state, life>>

Finish(w) ==
    /\ doing' = [doing EXCEPT ![w] = None]
    /\ request' = [request EXCEPT ![w] = {}]

\* Every requested file changes in this step and no other file does.
Commit(w) ==
    /\ doing[w] # None
    /\ state' = [f \in Files |-> IF f \in request[w] THEN New(doing[w], f) ELSE state[f]]
    /\ life' = [life EXCEPT ![doing[w]] = "applied"]
    /\ Finish(w)

\* A failed or interrupted request leaves the content as it was.
Abandon(w) ==
    /\ doing[w] # None
    /\ Finish(w)
    /\ UNCHANGED <<state, life>>

Edit(f, e) ==
    /\ \A v \in Workers : doing[v] = None
    /\ state' = [state EXCEPT ![f] = e]
    /\ UNCHANGED <<life, doing, request>>

Init ==
    /\ state \in [Files -> Contents]
    /\ life = [u \in Ids |-> "unborn"]
    /\ doing = [w \in Workers |-> None]
    /\ request = [w \in Workers |-> {}]

Next ==
    \/ \E u \in Ids : Stage(u) \/ Discard(u)
    \/ \E w \in Workers : Commit(w) \/ Abandon(w)
    \/ \E w \in Workers, u \in Ids, files \in SUBSET Files : Request(w, u, files)
    \/ \E f \in Files, e \in Edits : Edit(f, e)

Spec == Init /\ [][Next]_vars
============================================================================
