------------------------- MODULE SnapshotRegister -------------------------
(***************************************************************************)
(* What a canvas directory promises, with no directory in it: every path   *)
(* holds one whole snapshot, which only a newer one replaces, and a reader *)
(* finds the one that is there.  Snapshots are numbered in the order they  *)
(* were built; 0 stands for a path that was never written.                 *)
(***************************************************************************)
EXTENDS Naturals

CONSTANTS
    Paths,   \* canvas directories
    Readers  \* threads that read them

VARIABLES
    content, \* content[x]: the snapshot at path x
    answer   \* answer[r]: what reader r found last

vars == <<content, answer>>

Init ==
    /\ content = [x \in Paths |-> 0]
    /\ answer = [r \in Readers |-> 0]

Replace(x) ==
    LET n == content'[x] IN
    /\ content' = [content EXCEPT ![x] = n]
    /\ n \in Nat /\ n > content[x]
    /\ UNCHANGED answer

Read(r, x) ==
    /\ answer' = [answer EXCEPT ![r] = content[x]]
    /\ UNCHANGED content

Next ==
    \/ \E x \in Paths : Replace(x)
    \/ \E r \in Readers, x \in Paths : Read(r, x)

Spec == Init /\ [][Next]_vars
============================================================================
