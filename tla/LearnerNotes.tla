-------------------------- MODULE LearnerNotes --------------------------
(***************************************************************************)
(* What one learner writes next to a published lecture: the prediction on  *)
(* a card and comments on passages.  Requests of several tabs and of the   *)
(* tutor check the access and read the publication first, and take the     *)
(* lock of the files only to save; the lecture may be published anew in    *)
(* between, and an independent attempt may begin.                          *)
(***************************************************************************)
EXTENDS Integers, FiniteSets

CONSTANTS
    Requests,
    Docs,        \* published documents; each has its own version of the passage
    Answers,     \* what a learner writes; a skipped prediction is one of them
    Notes,       \* names of comments
    Limit,       \* comments of one lecture: 100
    None,
    MaxVersion   \* bound: publications

Publications == [version : 1..MaxVersion, doc : Docs]
Records == [version : 1..MaxVersion, doc : Docs, answer : Answers]
Wishes == [note : Notes, answer : Answers, version : 1..MaxVersion, expected : Records \cup {None}]

\* What the constants are assumed to be.
NotesAssumption ==
    /\ Limit \in Nat
    /\ MaxVersion \in Nat \ {0}
    /\ None \notin Docs \cup Answers
    /\ None \notin Records /\ None \notin Wishes

VARIABLES
    published,  \* version and document
    attempt,    \* an independent attempt is open
    prediction, \* the saved prediction, or None
    note,       \* note[n]: the saved comment, or None
    pc,         \* pc[r]: where request r is
    snapshot,   \* snapshot[r]: the publication it read
    wish        \* wish[r]: what it is to save, and the text it expects to replace

vars == <<published, attempt, prediction, note, pc, snapshot, wish>>

Kinds == {"predict", "comment", "edit", "delete"}

----------------------------------------------------------------------------
Publish(d) ==
    /\ published.version < MaxVersion
    /\ published' = [version |-> published.version + 1, doc |-> d]
    /\ UNCHANGED <<attempt, prediction, note, pc, snapshot, wish>>

Attempt ==
    /\ attempt' = ~attempt
    /\ UNCHANGED <<published, prediction, note, pc, snapshot, wish>>

\* An edit of the tutor replaces the text it read, a prediction is made on the
\* version the page shows.
Ask(r, k, n, a) ==
    /\ pc[r] = "idle"
    /\ k = "edit" => note[n] # None
    /\ pc' = [pc EXCEPT ![r] = k]
    /\ wish' = [wish EXCEPT ![r] =
                  [note |-> n, answer |-> a, version |-> published.version,
                   expected |-> IF k = "edit" THEN note[n] ELSE None]]
    /\ UNCHANGED <<published, attempt, prediction, note, snapshot>>

\* The route reads the learner's progress and the publication.
Authorize(r) ==
    /\ pc[r] \in Kinds
    /\ ~attempt
    /\ pc[r] = "predict" => wish[r].version = published.version
    /\ snapshot' = [snapshot EXCEPT ![r] = published]
    /\ pc' = [pc EXCEPT ![r] = CASE @ = "predict" -> "savePrediction"
                                [] @ = "delete" -> "remove"
                                [] OTHER -> "saveNote"]
    /\ UNCHANGED <<published, attempt, prediction, note, wish>>

Refuse(r) ==
    /\ pc[r] \in Kinds
    /\ attempt \/ (pc[r] = "predict" /\ wish[r].version # published.version)
    /\ pc' = [pc EXCEPT ![r] = "idle"]
    /\ UNCHANGED <<published, attempt, prediction, note, snapshot, wish>>

\* A record is listed for the publication it was made for, while its passage
\* is the same.
Listed(x, p) == x # None /\ x.version = p.version /\ x.doc = p.doc

Record(r) == [version |-> snapshot[r].version, doc |-> snapshot[r].doc, answer |-> wish[r].answer]

\* The first answer stays; the same again, or another one, changes nothing.
Predict(r) ==
    /\ pc[r] = "savePrediction"
    /\ pc' = [pc EXCEPT ![r] = "idle"]
    /\ prediction' = IF Listed(prediction, snapshot[r]) THEN prediction ELSE Record(r)
    /\ UNCHANGED <<published, attempt, note, snapshot, wish>>

Saved == {n \in Notes : note[n] # None}

\* Mutant: the tutor's edit does not look at what it replaces.
MayWriteUnread(r) ==
    LET n == wish[r].note IN
    /\ note[n] # None => Listed(note[n], snapshot[r])
    /\ note[n] = None => Cardinality(Saved) < Limit

MayWrite(r) ==
    LET n == wish[r].note IN
    /\ wish[r].expected # None => note[n] = wish[r].expected
    /\ note[n] # None => Listed(note[n], snapshot[r])
    /\ note[n] = None => Cardinality(Saved) < Limit

Write(r) ==
    /\ pc[r] = "saveNote"
    /\ pc' = [pc EXCEPT ![r] = "idle"]
    /\ IF MayWrite(r) THEN note' = [note EXCEPT ![wish[r].note] = Record(r)]
                      ELSE UNCHANGED note
    /\ UNCHANGED <<published, attempt, prediction, snapshot, wish>>

\* Neither the publication nor the text is compared.
Remove(r) ==
    /\ pc[r] = "remove"
    /\ pc' = [pc EXCEPT ![r] = "idle"]
    /\ note' = [note EXCEPT ![wish[r].note] = None]
    /\ UNCHANGED <<published, attempt, prediction, snapshot, wish>>

----------------------------------------------------------------------------
Init ==
    /\ \E d \in Docs : published = [version |-> 1, doc |-> d]
    /\ attempt = FALSE
    /\ prediction = None
    /\ note = [n \in Notes |-> None]
    /\ pc = [r \in Requests |-> "idle"]
    /\ snapshot = [r \in Requests |-> published]
    /\ wish \in [Requests -> {None}]

Next ==
    \/ \E d \in Docs : Publish(d)
    \/ Attempt
    \/ \E r \in Requests :
          \/ \E k \in Kinds, n \in Notes, a \in Answers : Ask(r, k, n, a)
          \/ Authorize(r) \/ Refuse(r) \/ Predict(r) \/ Write(r) \/ Remove(r)

Spec == Init /\ [][Next]_vars

----------------------------------------------------------------------------
(* Properties                                                               *)

\* Files and requests keep to their types, and there are no more comments
\* than the limit allows, however many requests save at once.
TypeOK ==
    /\ published \in Publications
    /\ attempt \in BOOLEAN
    /\ prediction \in Records \cup {None}
    /\ note \in [Notes -> Records \cup {None}]
    /\ pc \in [Requests -> Kinds \cup {"idle", "savePrediction", "saveNote", "remove"}]
    /\ snapshot \in [Requests -> Publications]
    /\ wish \in [Requests -> Wishes \cup {None}]
    /\ Cardinality(Saved) <= Limit

\* The inductive invariant behind the properties: comments are counted, and a
\* request that is under way has something to save.
Inv ==
    /\ TypeOK
    /\ IsFiniteSet(Saved)
    /\ \A r \in Requests : pc[r] # "idle" => wish[r] # None

\* While a lecture is not published anew, what a request read is what is
\* published.
ReadsAreCurrent ==
    published \in Publications /\ \A r \in Requests : snapshot[r] = published

\* A comment is only ever replaced by one on the same passage of the same
\* publication: a request that read an older or a newer one leaves it alone.
CommentsStayWithTheirPassage ==
    [][\A n \in Notes : note[n] # None /\ note'[n] # None
          => note'[n].version = note[n].version /\ note'[n].doc = note[n].doc]_vars

\* The tutor never edits over a text it has not read.
NoLostEdit ==
    [][\A r \in Requests : pc[r] = "saveNote" /\ pc'[r] = "idle" /\ wish[r].expected # None
          /\ note' # note => note[wish[r].note] = wish[r].expected]_vars

\* A listed answer is the one it was.
AnswerIsKept == prediction # None /\ Listed(prediction, published) => prediction' = prediction

\* "A saved first answer or skip cannot be rewritten for the same question and
\* publication." (docs/canvas-predictions.md:33-34)
FirstAnswerStays ==
    [][AnswerIsKept]_vars

\* "Prediction access and tutor context are disabled during independent-exit
\* and delayed-transfer attempts." (docs/canvas-predictions.md:42-43)
ClosedInAttempts ==
    [][attempt => prediction' = prediction]_vars
============================================================================
