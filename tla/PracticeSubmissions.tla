------------------------ MODULE PracticeSubmissions ------------------------
(***************************************************************************)
(* The directory of one practice exam: the immutable exam, the answers a   *)
(* student submitted, each under a submission id the client chose, and the *)
(* sheets rendered on demand.  Submissions, their deletion and the         *)
(* deletion of the exam share a lock; rendering takes none.  A submission  *)
(* may arrive twice or late, and the process may die while it removes the  *)
(* directory.                                                              *)
(***************************************************************************)
EXTENDS FiniteSets

CONSTANTS
    Submissions,   \* submission ids
    Answers,       \* answers to the exam
    Valid,         \* the answers its active questions admit
    Renders,       \* rendering requests
    None

\* What the constants are assumed to be.
SubmissionsAssumption == Valid \subseteq Answers /\ None \notin Answers

Sheets == {"exam.pdf", "solutions.pdf"}

VARIABLES
    files,      \* what is in the directory besides answers
    saved,      \* saved[s]: the answers stored under s, or None
    lock,       \* "free", or "deleting" while the directory is removed
    sent,       \* submissions on their way
    render,     \* render[w]: the sheet being compiled, or None
    confirmed,  \* history: submissions answered with a record
    withdrawn,  \* history: submissions whose deletion was confirmed
    deletion    \* history: "none", "begun" or "confirmed", for the exam

vars == <<files, saved, lock, sent, render, confirmed, withdrawn, deletion>>

IsEmpty == files = {} /\ \A s \in Submissions : saved[s] = None

----------------------------------------------------------------------------
Submit(s, a) ==
    /\ sent' = sent \cup {<<s, a>>}
    /\ UNCHANGED <<files, saved, lock, render, confirmed, withdrawn, deletion>>

Forget(s, a) ==
    /\ sent' = sent \ {<<s, a>>}
    /\ UNCHANGED <<files, saved, lock, render, confirmed, withdrawn, deletion>>

\* The exam, the questions and an earlier record are read under the lock;
\* the same answers return the record, others are refused.
Save(s, a) ==
    /\ <<s, a>> \in sent
    /\ lock = "free" /\ "exam.json" \in files /\ a \in Valid
    /\ saved[s] \in {None, a}
    /\ saved' = [saved EXCEPT ![s] = a]
    /\ confirmed' = confirmed \cup {<<s, a>>}
    /\ UNCHANGED <<files, lock, sent, render, withdrawn, deletion>>

Withdraw(s) ==
    /\ lock = "free" /\ "exam.json" \in files
    /\ saved[s] # None
    /\ saved' = [saved EXCEPT ![s] = None]
    /\ withdrawn' = withdrawn \cup {s}
    /\ UNCHANGED <<files, lock, sent, render, confirmed, deletion>>

----------------------------------------------------------------------------
DeleteExam ==
    /\ lock = "free" /\ ~IsEmpty
    /\ lock' = "deleting"
    /\ deletion' = IF deletion = "none" THEN "begun" ELSE deletion
    /\ UNCHANGED <<files, saved, sent, render, confirmed, withdrawn>>

\* The tree is removed one entry at a time.
RemoveFile(f) ==
    /\ lock = "deleting" /\ f \in files
    /\ files' = files \ {f}
    /\ UNCHANGED <<saved, lock, sent, render, confirmed, withdrawn, deletion>>

RemoveAnswers(s) ==
    /\ lock = "deleting" /\ saved[s] # None
    /\ saved' = [saved EXCEPT ![s] = None]
    /\ UNCHANGED <<files, lock, sent, render, confirmed, withdrawn, deletion>>

\* Mutant: only the exam itself is removed.
DeletedFiles ==
    /\ lock = "deleting" /\ files = {}
    /\ lock' = "free"
    /\ deletion' = "confirmed"
    /\ UNCHANGED <<files, saved, sent, render, confirmed, withdrawn>>

Deleted ==
    /\ lock = "deleting" /\ IsEmpty
    /\ lock' = "free"
    /\ deletion' = "confirmed"
    /\ UNCHANGED <<files, saved, sent, render, confirmed, withdrawn>>

\* A sheet that was rendered into the directory meanwhile: the removal of
\* the directory fails, as it does when the process dies.
DeletionFails ==
    /\ lock = "deleting"
    /\ lock' = "free"
    /\ UNCHANGED <<files, saved, sent, render, confirmed, withdrawn, deletion>>

----------------------------------------------------------------------------
\* The exam is read first, without the lock, and compiled after that.
StartRender(w, sheet) ==
    /\ render[w] = None
    /\ "exam.json" \in files
    /\ render' = [render EXCEPT ![w] = [sheet |-> sheet, after |-> deletion = "confirmed"]]
    /\ UNCHANGED <<files, saved, lock, sent, confirmed, withdrawn, deletion>>

\* The sheet is written, into a new directory when the exam's is gone.
Rendered(w) ==
    /\ render[w] # None
    /\ files' = files \cup {render[w].sheet}
    /\ render' = [render EXCEPT ![w] = None]
    /\ UNCHANGED <<saved, lock, sent, confirmed, withdrawn, deletion>>

\* Retries and the plain text fallback come to nothing.
RenderFails(w) ==
    /\ render[w] # None
    /\ render' = [render EXCEPT ![w] = None]
    /\ UNCHANGED <<files, saved, lock, sent, confirmed, withdrawn, deletion>>

----------------------------------------------------------------------------
Init ==
    /\ files = {"exam.json"}
    /\ saved = [s \in Submissions |-> None]
    /\ lock = "free" /\ sent = {}
    /\ render = [w \in Renders |-> None]
    /\ confirmed = {} /\ withdrawn = {} /\ deletion = "none"

Next ==
    \/ \E s \in Submissions :
          \/ Withdraw(s) \/ RemoveAnswers(s)
          \/ \E a \in Answers : Submit(s, a) \/ Forget(s, a) \/ Save(s, a)
    \/ DeleteExam \/ Deleted \/ DeletionFails
    \/ \E f \in Sheets \cup {"exam.json"} : RemoveFile(f)
    \/ \E w \in Renders :
          \/ \E sheet \in Sheets : StartRender(w, sheet)
          \/ Rendered(w) \/ RenderFails(w)

Spec == Init /\ [][Next]_vars

----------------------------------------------------------------------------
\* Every file, record and request has its type, and what is stored was
\* confirmed and is admitted by the exam.
TypeOK ==
    /\ files \subseteq Sheets \cup {"exam.json"}
    /\ saved \in [Submissions -> Valid \cup {None}]
    /\ \A s \in Submissions : saved[s] # None => <<s, saved[s]>> \in confirmed
    /\ lock \in {"free", "deleting"}
    /\ sent \subseteq Submissions \X Answers
    /\ confirmed \subseteq Submissions \X Answers
    /\ render \in [Renders -> {None} \cup [sheet : Sheets, after : BOOLEAN]]
    /\ withdrawn \subseteq Submissions
    /\ deletion \in {"none", "begun", "confirmed"}

\* An answer sheet the student was told is saved stays saved as submitted,
\* whatever retries and duplicates bring, until the student deletes it.
ConfirmedAnswersAreKept ==
    \A s \in Submissions, a \in Answers : <<s, a>> \in confirmed =>
        saved[s] = a \/ s \in withdrawn \/ deletion # "none"

\* Once the deletion of an exam is confirmed nothing of its answers is left
\* and no late submission brings any back.
DeletedExamKeepsNoAnswers ==
    deletion = "confirmed" => "exam.json" \notin files /\ \A s \in Submissions : saved[s] = None

\* A sheet asked for after the deletion was confirmed is not rendered, though
\* one that was being compiled may have left a file in the directory.
NothingRenderedOfADeletedExam ==
    \A w \in Renders : render[w] = None \/ ~render[w].after

\* The inductive invariant behind the three: while the directory is removed a
\* deletion of the exam has begun, so that nobody counts on its answers.
Inv ==
    /\ TypeOK
    /\ ConfirmedAnswersAreKept
    /\ DeletedExamKeepsNoAnswers
    /\ NothingRenderedOfADeletedExam
    /\ lock = "deleting" => deletion # "none"

\* As the documentation has it, a deleted attempt is absent from later reads.
DeletedAttemptIsAbsent ==
    \A s \in withdrawn : saved[s] = None

============================================================================
