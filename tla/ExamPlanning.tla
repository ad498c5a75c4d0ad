---------------------------- MODULE ExamPlanning ----------------------------
(***************************************************************************)
(* How one practice exam is planned: a provider proposes all questions, a  *)
(* blind review and an answer-sheet review reject some, one repair replaces*)
(* exactly those, and what the reviews of the repair reject again becomes  *)
(* an invalid placeholder.  The provider and the reviews may answer        *)
(* anything.                                                               *)
(***************************************************************************)
EXTENDS Naturals, FiniteSets

CONSTANTS
    Questions,   \* question ids of the exam
    Lectures,    \* lectures with evidence
    Texts        \* what a question may say

\* What the constants are assumed to be.
PlanningAssumption ==
    Questions # {} /\ Lectures # {} /\ "invalid" \notin Texts /\ Texts # {}

Kinds == {"choice", "open"}
Items == [kind : Kinds, lecture : Lectures, text : Texts]
Payloads == [Questions -> Items]
Exams == [Questions -> [kind : Kinds, lecture : Lectures, text : Texts \cup {"invalid"}]]

VARIABLES
    stage,       \* what comes next
    attempt,     \* 0 for the first payload, 1 for the repair
    candidate,   \* the payload under review, or <<>>
    rejected,    \* the questions a repair is asked for
    exam,        \* the exam: the candidate with invalid placeholders
    kept,        \* history: the questions of the first exam that passed
    blind, sheet \* history: what the reviews of this attempt passed

vars == <<stage, attempt, candidate, rejected, exam, kept, blind, sheet>>

Active(e) == {q \in Questions : e[q].text # "invalid"}
OpenActive(e) == {q \in Active(e) : e[q].kind = "open"}
Covered(e) == {e[q].lecture : q \in Active(e)}

\* The prompts are unique; a pair with one text is rejected as a whole.
Duplicates(e) == {q \in Questions : \E p \in Questions \ {q} : e[p].text = e[q].text}
MixesKinds(e) == {e[q].kind : q \in Questions} = Kinds
CoversLectures(e) ==
    Cardinality(Lectures) <= Cardinality(Questions) => Covered(e) = Lectures

----------------------------------------------------------------------------
Passed(failed) == {<<q, exam[q]>> : q \in Questions \ failed}

\* A validation fails, with the questions it names or with none.  The first
\* time the planner asks for a repair of exactly those, or for another exam
\* when none is named; the second time it gives up.
Reject(failed) ==
    /\ stage' = IF attempt = 0 THEN "ask" ELSE "failed"
    /\ attempt' = 1
    /\ rejected' = failed
    /\ kept' = IF attempt = 0 /\ failed # {} THEN Passed(failed) ELSE kept
    /\ UNCHANGED <<candidate, exam, blind, sheet>>

\* Only the rejected questions are taken from a repair.
Merged(payload) ==
    IF candidate # <<>> /\ rejected # {}
    THEN [q \in Questions |-> IF q \in rejected THEN payload[q] ELSE candidate[q]]
    ELSE payload

Ask(payload) ==
    /\ stage = "ask"
    /\ candidate' = Merged(payload)
    /\ exam' = candidate'
    /\ stage' = "validate"
    /\ blind' = {} /\ sheet' = {}
    /\ UNCHANGED <<attempt, rejected, kept>>

\* The repair names other questions than it was asked for.
AskedInVain ==
    /\ stage = "ask" /\ candidate # <<>> /\ rejected # {}
    /\ Reject({})

\* Questions whose shape, sources, options or rubric do not validate.
Malformed(failed) ==
    /\ stage = "validate"
    /\ failed # {}
    /\ Reject(failed)

Validate ==
    /\ stage = "validate"
    /\ IF Duplicates(exam) # {} THEN Reject(Duplicates(exam))
       ELSE IF MixesKinds(exam) /\ CoversLectures(exam)
       THEN stage' = "blind" /\ UNCHANGED <<attempt, candidate, rejected, exam, kept, blind, sheet>>
       ELSE Reject({})

\* A review that does not cover every question once.
ReviewUnusable ==
    /\ stage \in {"blind", "sheet"}
    /\ stage = "sheet" => OpenActive(exam) # {}
    /\ Reject({})

\* A placeholder keeps its id, kind and sources, and nothing that was asked.
Invalidated(failed) ==
    [q \in Questions |-> IF q \in failed THEN [exam[q] EXCEPT !.text = "invalid"] ELSE exam[q]]

\* A review rejects some of its questions.  Only after a repair does the exam
\* go on without them, unless no question is left.
AfterReview(reviewed, failed, next) ==
    /\ failed \subseteq reviewed
    /\ IF failed = {}
       THEN stage' = next /\ UNCHANGED <<attempt, candidate, rejected, exam, kept>>
       ELSE IF attempt = 1 /\ Active(Invalidated(failed)) # {}
       THEN /\ exam' = Invalidated(failed)
            /\ stage' = next
            /\ UNCHANGED <<attempt, candidate, rejected, kept>>
       ELSE /\ stage' = IF attempt = 0 THEN "ask" ELSE "failed"
            /\ attempt' = 1
            /\ rejected' = failed
            /\ kept' = IF attempt = 0 THEN Passed(failed) ELSE kept
            /\ UNCHANGED <<candidate, exam>>

BlindReview(failed) ==
    /\ stage = "blind"
    /\ AfterReview(Questions, failed, "sheet")
    /\ blind' = Passed(failed)
    /\ UNCHANGED sheet

\* Mutant: an exam with an invalid question is not reviewed again.
SheetReviewOfFirst(failed) ==
    /\ stage = "sheet"
    /\ IF attempt = 1 THEN failed = {} /\ stage' = "done"
                               /\ UNCHANGED <<attempt, candidate, rejected, exam, kept, sheet>>
       ELSE /\ AfterReview(OpenActive(exam), failed, "done")
            /\ sheet' = {<<q, exam[q]>> : q \in OpenActive(exam) \ failed}
    /\ UNCHANGED blind

\* The answers of the open questions that are still active.
SheetReview(failed) ==
    /\ stage = "sheet"
    /\ AfterReview(OpenActive(exam), failed, "done")
    /\ sheet' = {<<q, exam[q]>> : q \in OpenActive(exam) \ failed}
    /\ UNCHANGED blind

----------------------------------------------------------------------------
Init ==
    /\ stage = "ask" /\ attempt = 0
    /\ candidate = <<>> /\ exam = <<>>
    /\ rejected = {} /\ kept = {}
    /\ blind = {} /\ sheet = {}

Next ==
    \/ \E payload \in Payloads : Ask(payload)
    \/ AskedInVain \/ Validate \/ ReviewUnusable
    \/ \E failed \in SUBSET Questions : Malformed(failed) \/ BlindReview(failed) \/ SheetReview(failed)

Spec == Init /\ [][Next]_vars

----------------------------------------------------------------------------
\* The exam and the payload have a question of the right shape for every id.
TypeOK ==
    /\ stage \in {"ask", "validate", "blind", "sheet", "done", "failed"}
    /\ attempt \in 0..1
    /\ candidate \in Payloads \cup {<<>>}
    /\ stage # "ask" => candidate # <<>>
    /\ candidate # <<>> => exam \in Exams /\ Active(exam) # {}
    /\ rejected \subseteq Questions
    /\ kept \cup blind \cup sheet \subseteq Questions \X Items

\* The questions of an exam e that the blind review passed as they stand, and
\* the open ones whose answers were compared.
Reviewed(e) == \A q \in Active(e) : <<q, e[q]>> \in blind
Compared(e) == \A q \in Active(e) : e[q].kind = "open" => <<q, e[q]>> \in sheet

\* A student is never examined on a question that the blind review did not
\* pass in its final wording, or on an open one whose answer was not compared.
ActiveQuestionsAreVerified ==
    stage = "done" => Reviewed(exam) /\ Compared(exam)

\* What the first reviews passed is not touched by the repair: the question
\* of the first payload is in the exam, word for word, or given up.
PassingQuestionsAreKept ==
    stage = "done" => \A q \in Questions, item \in Items : <<q, item>> \in kept =>
        exam[q] \in {item, [item EXCEPT !.text = "invalid"]}

\* Nothing is given up before a repair was tried.
OnlyARepairIsInvalidated ==
    attempt = 0 /\ exam # <<>> => Active(exam) = Questions

\* The inductive invariant behind the three: an exam is its candidate but for
\* placeholders, and for those only after a repair was asked for; what passed
\* is in the candidate, and a repair is not asked to replace it.
Inv ==
    /\ TypeOK
    /\ stage = "ask" /\ attempt = 0 => candidate = <<>> /\ exam = <<>> /\ rejected = {} /\ kept = {}
    /\ stage \in {"validate", "blind"} \/ (stage = "sheet" /\ attempt = 0) => exam = candidate
    /\ stage # "ask" /\ attempt = 0 => Active(exam) = Questions /\ kept = {}
    /\ stage \notin {"ask", "failed"} => \A q \in Questions :
          exam[q] \in {candidate[q], [candidate[q] EXCEPT !.text = "invalid"]}
    /\ stage # "failed" => \A q \in Questions, item \in Items : <<q, item>> \in kept =>
          candidate # <<>> /\ item = candidate[q] /\ (stage = "ask" => q \notin rejected /\ rejected # {})
    /\ stage \in {"sheet", "done"} => Reviewed(exam)
    /\ stage = "done" => Compared(exam)

\* As the documentation has it, an exam is accepted only when every lecture
\* of its evidence is covered.
AcceptedExamCoversLectures ==
    stage = "done" /\ Cardinality(Lectures) <= Cardinality(Questions) => Covered(exam) = Lectures

============================================================================
