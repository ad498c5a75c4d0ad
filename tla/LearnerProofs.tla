--------------------------- MODULE LearnerProofs ---------------------------
(***************************************************************************)
(* What holds of the records of a learner for all values of the constants. *)
(* Each component keeps an inductive invariant of its own; a step of the   *)
(* composition is a step of one component and leaves the others alone.     *)
(***************************************************************************)
EXTENDS MCLearner, FiniteSetTheorems, WellFoundedInduction, TLAPS

----------------------------------------------------------------------------
(* The submissions of a practice exam.                                     *)

\* No answers are no answers.
LEMMA SubmittingNone == None \notin Answers
BY SubmittingAssumption DEF Submitting!SubmissionsAssumption

\* The directory of an exam starts with the exam alone.
LEMMA SubmittingInit == Submitting!Init => Submitting!Inv
BY DEF Submitting!Init, Submitting!Inv, Submitting!TypeOK, Submitting!Sheets,
    Submitting!ConfirmedAnswersAreKept, Submitting!DeletedExamKeepsNoAnswers,
    Submitting!NothingRenderedOfADeletedExam

\* Each step of the directory keeps its types.
LEMMA SubmittingTypes ==
    ASSUME Submitting!TypeOK, Submitting!Next
    PROVE  Submitting!TypeOK'
<1> USE DEF Submitting!TypeOK, Submitting!Sheets
<1>1. ASSUME NEW s \in Pair, NEW a \in Answers, Submitting!Submit(s, a)
      PROVE  Submitting!TypeOK'
    BY <1>1 DEF Submitting!Submit
<1>2. ASSUME NEW s \in Pair, NEW a \in Answers, Submitting!Forget(s, a)
      PROVE  Submitting!TypeOK'
    BY <1>2 DEF Submitting!Forget
<1>3. ASSUME NEW s \in Pair, NEW a \in Answers, Submitting!Save(s, a)
      PROVE  Submitting!TypeOK'
    BY <1>3 DEF Submitting!Save
<1>4. ASSUME NEW s \in Pair, Submitting!Withdraw(s) \/ Submitting!RemoveAnswers(s)
      PROVE  Submitting!TypeOK'
    BY <1>4 DEF Submitting!Withdraw, Submitting!RemoveAnswers
<1>5. ASSUME Submitting!DeleteExam \/ Submitting!Deleted \/ Submitting!DeletionFails
      PROVE  Submitting!TypeOK'
    BY <1>5 DEF Submitting!DeleteExam, Submitting!Deleted, Submitting!DeletionFails
<1>6. ASSUME NEW f, Submitting!RemoveFile(f)
      PROVE  Submitting!TypeOK'
    BY <1>6 DEF Submitting!RemoveFile
<1>7. ASSUME NEW w \in Renders, NEW pdf \in Submitting!Sheets, Submitting!StartRender(w, pdf)
      PROVE  Submitting!TypeOK'
    BY <1>7 DEF Submitting!StartRender
<1>8. ASSUME NEW w \in Renders, Submitting!Rendered(w)
      PROVE  Submitting!TypeOK'
    BY <1>8 DEF Submitting!Rendered
<1>9. ASSUME NEW w \in Renders, Submitting!RenderFails(w)
      PROVE  Submitting!TypeOK'
    BY <1>9 DEF Submitting!RenderFails
<1>10. QED
    BY <1>1, <1>2, <1>3, <1>4, <1>5, <1>6, <1>7, <1>8, <1>9 DEF Submitting!Next

\* A confirmed answer sheet is only lost to a withdrawal or a deletion, and a
\* deletion is under way while the lock is held.
LEMMA SubmittingKeepsAnswers ==
    ASSUME Submitting!Inv, Submitting!Next
    PROVE  Submitting!ConfirmedAnswersAreKept' /\ (lock = "deleting" => deletion # "none")'
<1> USE DEF Submitting!Inv, Submitting!TypeOK, Submitting!ConfirmedAnswersAreKept
<1>1. ASSUME NEW s \in Pair, NEW a \in Answers, Submitting!Save(s, a)
      PROVE  Submitting!ConfirmedAnswersAreKept' /\ (lock = "deleting" => deletion # "none")'
  <2>1. ASSUME NEW r \in Pair, NEW b \in Answers, <<r, b>> \in confirmed'
        PROVE  saved'[r] = b \/ r \in withdrawn' \/ deletion' # "none"
    <3>1. CASE <<r, b>> \in confirmed
      <4>1. b # None
        BY SubmittingNone
      <4>2. QED
        BY <1>1, <3>1, <4>1 DEF Submitting!Save
    <3>2. CASE <<r, b>> \notin confirmed
      BY <1>1, <2>1, <3>2 DEF Submitting!Save
    <3>3. QED
      BY <3>1, <3>2
  <2>2. QED
    BY <1>1, <2>1 DEF Submitting!Save
<1>2. ASSUME NEW s \in Pair, Submitting!Withdraw(s) \/ Submitting!RemoveAnswers(s)
      PROVE  Submitting!ConfirmedAnswersAreKept' /\ (lock = "deleting" => deletion # "none")'
    BY <1>2 DEF Submitting!Withdraw, Submitting!RemoveAnswers
<1>3. ASSUME Submitting!DeleteExam \/ Submitting!Deleted \/ Submitting!DeletionFails
      PROVE  Submitting!ConfirmedAnswersAreKept' /\ (lock = "deleting" => deletion # "none")'
    BY <1>3 DEF Submitting!DeleteExam, Submitting!Deleted, Submitting!DeletionFails
<1>4. ASSUME UNCHANGED <<saved, lock, confirmed, withdrawn, deletion>>
      PROVE  Submitting!ConfirmedAnswersAreKept' /\ (lock = "deleting" => deletion # "none")'
    BY <1>4
<1>5. QED
    BY <1>1, <1>2, <1>3, <1>4 DEF Submitting!Next, Submitting!Submit, Submitting!Forget,
        Submitting!RemoveFile, Submitting!StartRender, Submitting!Rendered,
        Submitting!RenderFails

\* Nothing is written of an exam that is gone: each operation that writes
\* answers or starts a sheet reads the exam under the lock or before it.
LEMMA SubmittingLeavesNothing ==
    ASSUME Submitting!Inv, Submitting!Next
    PROVE  Submitting!DeletedExamKeepsNoAnswers' /\ Submitting!NothingRenderedOfADeletedExam'
<1> USE DEF Submitting!Inv, Submitting!TypeOK, Submitting!Sheets,
        Submitting!DeletedExamKeepsNoAnswers, Submitting!NothingRenderedOfADeletedExam
<1>1. ASSUME NEW s \in Pair,
             \/ \E a \in Answers : Submitting!Save(s, a)
             \/ Submitting!Withdraw(s)
             \/ Submitting!RemoveAnswers(s)
      PROVE  Submitting!DeletedExamKeepsNoAnswers' /\ Submitting!NothingRenderedOfADeletedExam'
    BY <1>1 DEF Submitting!Save, Submitting!Withdraw, Submitting!RemoveAnswers
<1>2. ASSUME Submitting!DeleteExam \/ Submitting!DeletionFails
      PROVE  Submitting!DeletedExamKeepsNoAnswers' /\ Submitting!NothingRenderedOfADeletedExam'
    BY <1>2 DEF Submitting!DeleteExam, Submitting!DeletionFails
<1>3. ASSUME Submitting!Deleted
      PROVE  Submitting!DeletedExamKeepsNoAnswers' /\ Submitting!NothingRenderedOfADeletedExam'
    BY <1>3 DEF Submitting!Deleted, Submitting!IsEmpty
<1>4. ASSUME NEW f, Submitting!RemoveFile(f)
      PROVE  Submitting!DeletedExamKeepsNoAnswers' /\ Submitting!NothingRenderedOfADeletedExam'
    BY <1>4 DEF Submitting!RemoveFile
<1>5. ASSUME NEW w \in Renders, NEW pdf \in Submitting!Sheets, Submitting!StartRender(w, pdf)
      PROVE  Submitting!DeletedExamKeepsNoAnswers' /\ Submitting!NothingRenderedOfADeletedExam'
    BY <1>5 DEF Submitting!StartRender
<1>6. ASSUME NEW w \in Renders, Submitting!Rendered(w)
      PROVE  Submitting!DeletedExamKeepsNoAnswers' /\ Submitting!NothingRenderedOfADeletedExam'
  <2>1. "exam.json" \in files' => "exam.json" \in files
    BY <1>6 DEF Submitting!Rendered
  <2>2. QED
    BY <1>6, <2>1 DEF Submitting!Rendered
<1>7. ASSUME NEW w \in Renders, Submitting!RenderFails(w)
      PROVE  Submitting!DeletedExamKeepsNoAnswers' /\ Submitting!NothingRenderedOfADeletedExam'
    BY <1>7 DEF Submitting!RenderFails
<1>8. ASSUME UNCHANGED <<files, saved, render, deletion>>
      PROVE  Submitting!DeletedExamKeepsNoAnswers' /\ Submitting!NothingRenderedOfADeletedExam'
    BY <1>8
<1>9. QED
    BY <1>1, <1>2, <1>3, <1>4, <1>5, <1>6, <1>7, <1>8
    DEF Submitting!Next, Submitting!Submit, Submitting!Forget

\* Whatever component runs, the invariant of the submissions is kept.
LEMMA SubmittingStep ==
    ASSUME Submitting!Inv, [Step]_vars
    PROVE  Submitting!Inv'
<1>1. CASE Submitting!Next
    BY <1>1, SubmittingTypes, SubmittingKeepsAnswers, SubmittingLeavesNothing DEF Submitting!Inv
<1>2. CASE UNCHANGED PracticeSubmissionsVars
    BY <1>2 DEF PracticeSubmissionsVars, Submitting!Inv, Submitting!TypeOK,
        Submitting!ConfirmedAnswersAreKept, Submitting!DeletedExamKeepsNoAnswers,
        Submitting!NothingRenderedOfADeletedExam
<1>3. QED
    BY <1>1, <1>2 DEF Step, vars

\* Answers a student was told are saved stay until the student withdraws them
\* or deletes the exam, and of a deleted exam no late submission or sheet
\* leaves anything behind (practice_exam_submissions.py and
\* practice_exam_sheets.py).
THEOREM SubmissionsHold == Spec => []SubmissionsAreKept
<1>1. Begin => Submitting!Inv
    BY SubmittingInit DEF Begin
<1>2. Submitting!Inv /\ [Step]_vars => Submitting!Inv'
    BY SubmittingStep
<1>3. Submitting!Inv => SubmissionsAreKept
    BY DEF Submitting!Inv, SubmissionsAreKept
<1>4. QED
    BY <1>1, <1>2, <1>3, PTL DEF Spec

----------------------------------------------------------------------------
(* The planning of a practice exam.                                        *)

\* A payload is not the empty one, and each question of it is active.
LEMMA PlanningPayloads ==
    ASSUME NEW payload \in Planning!Payloads
    PROVE  /\ payload # <<>>
           /\ payload \in Planning!Exams
           /\ Planning!Active(payload) = Asked
           /\ Asked # {}
<1>1. Asked # {} /\ "invalid" \notin Texts
    BY PlanningAssumption DEF Planning!PlanningAssumption
<1>2. payload # <<>>
    BY <1>1 DEF Planning!Payloads
<1>3. payload \in Planning!Exams
    BY DEF Planning!Payloads, Planning!Exams, Planning!Items
<1>4. Planning!Active(payload) = Asked
    BY <1>1 DEF Planning!Payloads, Planning!Items, Planning!Active
<1>5. QED
    BY <1>1, <1>2, <1>3, <1>4

\* Placeholders replace the questions that failed and leave the others.
LEMMA PlanningPlaceholders ==
    ASSUME exam \in Planning!Exams, NEW failed \in SUBSET Asked
    PROVE  /\ Planning!Invalidated(failed) \in Planning!Exams
           /\ Planning!Active(Planning!Invalidated(failed)) = Planning!Active(exam) \ failed
           /\ \A q \in Asked \ failed : Planning!Invalidated(failed)[q] = exam[q]
           /\ \A q \in failed : Planning!Invalidated(failed)[q] = [exam[q] EXCEPT !.text = "invalid"]
BY DEF Planning!Exams, Planning!Invalidated, Planning!Active

\* Only what is asked for comes from a repair.
LEMMA PlanningMerge ==
    ASSUME candidate \in Planning!Payloads \cup {<<>>}, NEW payload \in Planning!Payloads
    PROVE  /\ Planning!Merged(payload) \in Planning!Payloads
           /\ candidate # <<>> /\ rejected # {} =>
                  \A q \in Asked \ rejected : Planning!Merged(payload)[q] = candidate[q]
BY DEF Planning!Payloads, Planning!Merged

\* The planner starts with nothing.
LEMMA PlanningInit == Planning!Init => Planning!Inv
BY DEF Planning!Init, Planning!Inv, Planning!TypeOK

\* What passed a review is a question of the exam that did not fail.
LEMMA PlanningPassed ==
    ASSUME exam \in Planning!Exams, NEW failed \in SUBSET Asked
    PROVE  \A q \in Asked : \A item : <<q, item>> \in Planning!Passed(failed) <=>
               q \notin failed /\ item = exam[q]
BY DEF Planning!Passed

\* A rejection leaves the candidate, asks for a repair the first time and
\* gives up the second.
LEMMA PlanningRejects ==
    ASSUME Planning!Inv, candidate # <<>>, NEW failed \in SUBSET Asked,
           planAttempt = 0 => exam = candidate /\ kept = {},
           stage' = IF planAttempt = 0 THEN "ask" ELSE "failed",
           planAttempt' = 1, rejected' = failed,
           kept' = IF planAttempt = 0 /\ failed # {} THEN Planning!Passed(failed) ELSE kept,
           UNCHANGED <<candidate, exam>>,
           blind' \subseteq Asked \X Planning!Items, sheet' \subseteq Asked \X Planning!Items
    PROVE  Planning!Inv'
<1>1. /\ candidate \in Planning!Payloads /\ exam \in Planning!Exams
      /\ Planning!Active(exam) # {} /\ planAttempt \in 0..1
      /\ kept \subseteq Asked \X Planning!Items
    BY DEF Planning!Inv, Planning!TypeOK
<1>2. CASE planAttempt = 0
  <2>1. \A q \in Asked, item \in Planning!Items : <<q, item>> \in kept' =>
            q \notin failed /\ failed # {} /\ item = candidate[q]
    BY <1>1, <1>2, PlanningPassed
  <2>2. kept' \subseteq Asked \X Planning!Items
    BY <1>1, <1>2 DEF Planning!Passed, Planning!Payloads
  <2>3. Planning!TypeOK'
    BY <1>1, <1>2, <2>2 DEF Planning!TypeOK, Planning!Active
  <2>4. QED
    BY <1>1, <1>2, <2>1, <2>3 DEF Planning!Inv
<1>3. CASE planAttempt = 1
  <2>1. Planning!TypeOK'
    BY <1>1, <1>3 DEF Planning!TypeOK, Planning!Active
  <2>2. QED
    BY <1>3, <2>1 DEF Planning!Inv
<1>4. QED
    BY <1>1, <1>2, <1>3

\* The answer of the provider, alone or merged into the candidate.
LEMMA PlanningAsk ==
    ASSUME Planning!Inv, NEW payload \in Planning!Payloads, Planning!Ask(payload)
    PROVE  Planning!Inv'
<1>1. /\ candidate' \in Planning!Payloads /\ exam' = candidate' /\ stage' = "validate"
      /\ blind' = {} /\ sheet' = {} /\ UNCHANGED <<planAttempt, rejected, kept>>
    BY PlanningMerge DEF Planning!Inv, Planning!TypeOK, Planning!Ask
<1>2. /\ candidate' # <<>> /\ exam' \in Planning!Exams
      /\ Planning!Active(exam)' = Asked /\ Asked # {}
    BY <1>1, PlanningPayloads DEF Planning!Active
<1>3. Planning!TypeOK'
    BY <1>1, <1>2 DEF Planning!Inv, Planning!TypeOK
<1>4. \A q \in Asked, item \in Planning!Items : <<q, item>> \in kept' => item = candidate'[q]
    BY <1>1, PlanningMerge DEF Planning!Inv, Planning!TypeOK, Planning!Ask
<1>5. QED
    BY <1>1, <1>2, <1>3, <1>4 DEF Planning!Inv, Planning!Ask

\* A payload or a review that does not validate.
LEMMA PlanningReject ==
    ASSUME Planning!Inv, NEW failed \in SUBSET Asked, Planning!Reject(failed),
           stage \in {"validate", "blind", "sheet"} \/ (stage = "ask" /\ candidate # <<>>)
    PROVE  Planning!Inv'
<1>1. candidate # <<>> /\ (planAttempt = 0 => exam = candidate /\ kept = {})
    BY DEF Planning!Inv, Planning!TypeOK
<1>2. blind' \subseteq Asked \X Planning!Items /\ sheet' \subseteq Asked \X Planning!Items
    BY DEF Planning!Inv, Planning!TypeOK, Planning!Reject
<1>3. QED
    BY <1>1, <1>2, PlanningRejects DEF Planning!Reject

LEMMA PlanningValidate ==
    ASSUME Planning!Inv,
           \/ Planning!AskedInVain
           \/ Planning!ReviewUnusable
           \/ Planning!Validate
           \/ \E failed \in SUBSET Asked : Planning!Malformed(failed)
    PROVE  Planning!Inv'
<1>1. CASE Planning!Validate /\ stage' = "blind"
    BY <1>1 DEF Planning!Validate, Planning!Reject, Planning!Inv, Planning!TypeOK, Planning!Active
<1>2. CASE \E failed \in SUBSET Asked : Planning!Reject(failed)
    BY <1>2, PlanningReject DEF Planning!AskedInVain, Planning!ReviewUnusable, Planning!Validate,
        Planning!Malformed
<1>3. Planning!Duplicates(exam) \in SUBSET Asked /\ {} \in SUBSET Asked
    BY DEF Planning!Duplicates
<1>4. QED
    BY <1>1, <1>2, <1>3 DEF Planning!AskedInVain, Planning!ReviewUnusable, Planning!Validate,
        Planning!Malformed

\* A review that goes on, without the questions that failed after a repair.
LEMMA PlanningReviewed ==
    ASSUME Planning!Inv, stage \in {"blind", "sheet"}, NEW reviewed \in SUBSET Asked,
           NEW failed \in SUBSET reviewed, NEW next, Planning!AfterReview(reviewed, failed, next)
    PROVE  \/ /\ stage' = next
              /\ exam' = IF failed = {} THEN exam ELSE Planning!Invalidated(failed)
              /\ failed # {} => planAttempt = 1 /\ Planning!Active(exam)' # {}
              /\ UNCHANGED <<planAttempt, candidate, rejected, kept>>
           \/ /\ stage' = IF planAttempt = 0 THEN "ask" ELSE "failed"
              /\ planAttempt' = 1 /\ rejected' = failed
              /\ kept' = IF planAttempt = 0 /\ failed # {} THEN Planning!Passed(failed) ELSE kept
              /\ UNCHANGED <<candidate, exam>>
BY DEF Planning!AfterReview, Planning!Active

\* What becomes of an exam when questions are given up.
LEMMA PlanningGivesUp ==
    ASSUME Planning!Inv, stage \in {"blind", "sheet"}, NEW failed \in SUBSET Asked,
           exam' = IF failed = {} THEN exam ELSE Planning!Invalidated(failed),
           failed # {} => planAttempt = 1 /\ Planning!Active(exam)' # {},
           UNCHANGED <<planAttempt, candidate, rejected, kept>>
    PROVE  /\ exam' \in Planning!Exams /\ Planning!Active(exam)' # {}
           /\ Planning!Active(exam)' = Planning!Active(exam) \ failed
           /\ \A q \in Asked \ failed : exam'[q] = exam[q]
           /\ \A q \in Asked : exam'[q] \in {candidate[q], [candidate[q] EXCEPT !.text = "invalid"]}
<1>1. /\ exam \in Planning!Exams /\ Planning!Active(exam) # {}
      /\ candidate \in Planning!Payloads
      /\ \A q \in Asked : exam[q] \in {candidate[q], [candidate[q] EXCEPT !.text = "invalid"]}
    BY DEF Planning!Inv, Planning!TypeOK
<1>2. CASE failed = {}
    BY <1>1, <1>2 DEF Planning!Active
<1>3. CASE failed # {}
  <2>1. /\ exam' \in Planning!Exams
        /\ Planning!Active(exam)' = Planning!Active(exam) \ failed
        /\ \A q \in Asked \ failed : exam'[q] = exam[q]
        /\ \A q \in failed : exam'[q] = [exam[q] EXCEPT !.text = "invalid"]
    BY <1>1, <1>3, PlanningPlaceholders DEF Planning!Active
  <2>2. \A q \in Asked : [[candidate[q] EXCEPT !.text = "invalid"] EXCEPT !.text = "invalid"]
                         = [candidate[q] EXCEPT !.text = "invalid"]
    BY <1>1 DEF Planning!Payloads, Planning!Items
  <2>3. ASSUME NEW q \in Asked
        PROVE  exam'[q] \in {candidate[q], [candidate[q] EXCEPT !.text = "invalid"]}
    <3>1. CASE q \notin failed
      BY <1>1, <2>1, <3>1
    <3>2. CASE q \in failed /\ exam[q] = candidate[q]
      BY <2>1, <3>2
    <3>3. CASE q \in failed /\ exam[q] = [candidate[q] EXCEPT !.text = "invalid"]
      BY <2>1, <2>2, <3>3
    <3>4. QED
      BY <1>1, <3>1, <3>2, <3>3
  <2>4. QED
    BY <1>3, <2>1, <2>3
<1>4. QED
    BY <1>2, <1>3

LEMMA PlanningBlindReview ==
    ASSUME Planning!Inv, NEW failed \in SUBSET Asked, Planning!BlindReview(failed)
    PROVE  Planning!Inv'
<1>1. stage = "blind" /\ blind' = Planning!Passed(failed) /\ sheet' = sheet
    BY DEF Planning!BlindReview
<1>2. exam = candidate /\ candidate \in Planning!Payloads /\ candidate # <<>>
    BY <1>1 DEF Planning!Inv, Planning!TypeOK
<1>3. exam \in Planning!Exams
    BY <1>2, PlanningPayloads
<1>4. blind' \subseteq Asked \X Planning!Items /\ sheet' \subseteq Asked \X Planning!Items
    BY <1>1, <1>2 DEF Planning!Passed, Planning!Payloads, Planning!Inv, Planning!TypeOK
<1>5. CASE /\ stage' = "sheet"
           /\ exam' = IF failed = {} THEN exam ELSE Planning!Invalidated(failed)
           /\ failed # {} => planAttempt = 1 /\ Planning!Active(exam)' # {}
           /\ UNCHANGED <<planAttempt, candidate, rejected, kept>>
  <2>1. /\ exam' \in Planning!Exams /\ Planning!Active(exam)' # {}
        /\ Planning!Active(exam)' = Planning!Active(exam) \ failed
        /\ \A q \in Asked \ failed : exam'[q] = exam[q]
        /\ \A q \in Asked : exam'[q] \in {candidate[q], [candidate[q] EXCEPT !.text = "invalid"]}
    BY <1>1, <1>5, PlanningGivesUp
  <2>2. Planning!TypeOK'
    BY <1>2, <1>4, <1>5, <2>1 DEF Planning!Inv, Planning!TypeOK
  <2>3. Planning!Reviewed(exam)'
    BY <1>1, <1>3, <2>1, PlanningPassed DEF Planning!Reviewed, Planning!Active
  <2>4. planAttempt = 0 => exam' = exam /\ Planning!Active(exam)' = Asked
    BY <1>1, <1>5, <2>1 DEF Planning!Inv
  <2>5. QED
    BY <1>1, <1>2, <1>5, <2>1, <2>2, <2>3, <2>4 DEF Planning!Inv
<1>6. CASE /\ stage' = IF planAttempt = 0 THEN "ask" ELSE "failed"
           /\ planAttempt' = 1 /\ rejected' = failed
           /\ kept' = IF planAttempt = 0 /\ failed # {} THEN Planning!Passed(failed) ELSE kept
           /\ UNCHANGED <<candidate, exam>>
  <2>1. planAttempt = 0 => exam = candidate /\ kept = {}
    BY <1>1, <1>2 DEF Planning!Inv
  <2>2. QED
    BY <1>2, <1>4, <1>6, <2>1, PlanningRejects
<1>7. Planning!AfterReview(Asked, failed, "sheet")
    BY DEF Planning!BlindReview
<1>8. QED
    BY <1>1, <1>5, <1>6, <1>7, PlanningReviewed

LEMMA PlanningSheetReview ==
    ASSUME Planning!Inv, NEW failed \in SUBSET Asked, Planning!SheetReview(failed)
    PROVE  Planning!Inv'
<1> DEFINE Answered == {<<q, exam[q]>> : q \in Planning!OpenActive(exam) \ failed}
<1>1. stage = "sheet" /\ blind' = blind /\ sheet' = Answered
    BY DEF Planning!SheetReview
<1>2. candidate \in Planning!Payloads /\ candidate # <<>> /\ exam \in Planning!Exams
    BY <1>1 DEF Planning!Inv, Planning!TypeOK
<1>3. Answered \subseteq Asked \X Planning!Items
  <2>1. \A q \in Planning!Active(exam) : exam[q] \in Planning!Items /\ q \in Asked
    BY <1>2 DEF Planning!Active, Planning!Exams, Planning!Items
  <2>2. QED
    BY <2>1 DEF Planning!OpenActive
<1>4. blind' \subseteq Asked \X Planning!Items /\ sheet' \subseteq Asked \X Planning!Items
    BY <1>1, <1>3 DEF Planning!Inv, Planning!TypeOK
<1>5. CASE /\ stage' = "done"
           /\ exam' = IF failed = {} THEN exam ELSE Planning!Invalidated(failed)
           /\ failed # {} => planAttempt = 1 /\ Planning!Active(exam)' # {}
           /\ UNCHANGED <<planAttempt, candidate, rejected, kept>>
  <2>1. /\ exam' \in Planning!Exams /\ Planning!Active(exam)' # {}
        /\ Planning!Active(exam)' = Planning!Active(exam) \ failed
        /\ \A q \in Asked \ failed : exam'[q] = exam[q]
        /\ \A q \in Asked : exam'[q] \in {candidate[q], [candidate[q] EXCEPT !.text = "invalid"]}
    BY <1>1, <1>5, PlanningGivesUp
  <2>2. Planning!TypeOK'
    BY <1>2, <1>4, <1>5, <2>1 DEF Planning!Inv, Planning!TypeOK
  <2>3. Planning!Reviewed(exam)'
    BY <1>1, <2>1 DEF Planning!Inv, Planning!Reviewed, Planning!Active
  <2>4. Planning!Compared(exam)'
    BY <1>1, <2>1 DEF Planning!Compared, Planning!OpenActive, Planning!Active
  <2>5. planAttempt = 0 => exam' = exam /\ Planning!Active(exam)' = Asked
    BY <1>1, <1>5, <2>1 DEF Planning!Inv
  <2>6. QED
    BY <1>1, <1>2, <1>5, <2>1, <2>2, <2>3, <2>4, <2>5 DEF Planning!Inv
<1>6. CASE /\ stage' = IF planAttempt = 0 THEN "ask" ELSE "failed"
           /\ planAttempt' = 1 /\ rejected' = failed
           /\ kept' = IF planAttempt = 0 /\ failed # {} THEN Planning!Passed(failed) ELSE kept
           /\ UNCHANGED <<candidate, exam>>
  <2>1. planAttempt = 0 => exam = candidate /\ kept = {}
    BY <1>1, <1>2 DEF Planning!Inv
  <2>2. QED
    BY <1>2, <1>4, <1>6, <2>1, PlanningRejects
<1>7. /\ Planning!AfterReview(Planning!OpenActive(exam), failed, "done")
      /\ failed \subseteq Planning!OpenActive(exam) /\ Planning!OpenActive(exam) \subseteq Asked
    BY DEF Planning!SheetReview, Planning!AfterReview, Planning!OpenActive, Planning!Active
<1>8. QED
    BY <1>1, <1>5, <1>6, <1>7, PlanningReviewed

LEMMA PlanningStep ==
    ASSUME Planning!Inv, [Step]_vars
    PROVE  Planning!Inv'
<1>1. CASE Planning!Next
    BY <1>1, PlanningAsk, PlanningValidate, PlanningBlindReview, PlanningSheetReview
    DEF Planning!Next
<1>2. CASE UNCHANGED ExamPlanningVars
    BY <1>2 DEF ExamPlanningVars, Planning!Inv, Planning!TypeOK, Planning!Active,
        Planning!Reviewed, Planning!Compared
<1>3. QED
    BY <1>1, <1>2 DEF Step, vars

\* An exam that is done asks only what the blind review passed in its final
\* wording and, of open questions, what the sheet review compared; what the
\* first reviews passed is in it or given up, and nothing is given up before
\* a repair was tried (practice_exam_planner.py).
THEOREM ExamsHold == Spec => []ExamsAreVerified
<1>1. Begin => Planning!Inv
    BY PlanningInit DEF Begin
<1>2. Planning!Inv /\ [Step]_vars => Planning!Inv'
    BY PlanningStep
<1>3. Planning!Inv => ExamsAreVerified
  <2>1. Planning!Inv => Planning!ActiveQuestionsAreVerified /\ Planning!PassingQuestionsAreKept
    BY DEF Planning!Inv, Planning!ActiveQuestionsAreVerified, Planning!PassingQuestionsAreKept
  <2>2. Planning!Inv => Planning!OnlyARepairIsInvalidated
    BY DEF Planning!Inv, Planning!OnlyARepairIsInvalidated
  <2>3. QED
    BY <2>1, <2>2 DEF Planning!Inv, ExamsAreVerified
<1>4. QED
    BY <1>1, <1>2, <1>3, PTL DEF Spec

----------------------------------------------------------------------------
(* The notes of a learner.                                                 *)

\* The steps of a lecture that is not published anew are steps of one that is.
LEMMA PredictionsAreNotes ==
    /\ Predictions!Init => Comments!Init
    /\ Predictions!ReadsAreCurrent /\ Predictions!Next => Comments!Next
<1>1. Predictions!Init => Comments!Init
    BY DEF Predictions!Init, Comments!Init
<1>2. ASSUME Predictions!ReadsAreCurrent, NEW d \in Docs
      PROVE  ~Predictions!Publish(d)
    BY <1>2 DEF Predictions!ReadsAreCurrent, Predictions!Publications, Predictions!Publish
<1>3. Predictions!Attempt => Comments!Attempt
    BY DEF Predictions!Attempt, Comments!Attempt
<1>4. ASSUME NEW r \in Pair, NEW k, NEW n \in Ids, NEW a \in Answers, Predictions!Ask(r, k, n, a)
      PROVE  Comments!Ask(r, k, n, a)
    BY <1>4 DEF Predictions!Ask, Comments!Ask
<1>5. ASSUME NEW r \in Pair, Predictions!Authorize(r) \/ Predictions!Refuse(r)
      PROVE  Comments!Authorize(r) \/ Comments!Refuse(r)
    BY <1>5 DEF Predictions!Authorize, Comments!Authorize, Predictions!Refuse, Comments!Refuse,
        Predictions!Kinds, Comments!Kinds
<1>6. ASSUME NEW r \in Pair, Predictions!Predict(r)
      PROVE  Comments!Predict(r)
    BY <1>6 DEF Predictions!Predict, Comments!Predict, Predictions!Listed, Comments!Listed,
        Predictions!Record, Comments!Record
<1>7. ASSUME NEW r \in Pair, Predictions!Write(r)
      PROVE  Comments!Write(r)
  <2>1. Predictions!Record(r) = Comments!Record(r)
    BY DEF Predictions!Record, Comments!Record
  <2>2. Predictions!Cardinality(Predictions!Saved) = Comments!Cardinality(Comments!Saved)
    BY DEF Predictions!Cardinality, Comments!Cardinality, Predictions!Saved, Comments!Saved
  <2>3. Predictions!MayWrite(r) <=> Comments!MayWrite(r)
    BY <2>2 DEF Predictions!MayWrite, Comments!MayWrite, Predictions!Listed, Comments!Listed
  <2>4. QED
    BY <1>7, <2>1, <2>3 DEF Predictions!Write, Comments!Write
<1>8. ASSUME NEW r \in Pair, Predictions!Remove(r)
      PROVE  Comments!Remove(r)
    BY <1>8 DEF Predictions!Remove, Comments!Remove
<1>9. Predictions!Kinds = Comments!Kinds
    BY DEF Predictions!Kinds, Comments!Kinds
<1>10. QED
    BY <1>1, <1>2, <1>3, <1>4, <1>5, <1>6, <1>7, <1>8, <1>9 DEF Predictions!Next, Comments!Next

\* Sets are counted in a component as they are everywhere.
LEMMA CommentsCount ==
    ASSUME NEW S
    PROVE  /\ Comments!IsFiniteSet(S) <=> IsFiniteSet(S)
           /\ Comments!Cardinality(S) = Cardinality(S)
<1>1. Comments!IsFiniteSet(S) <=> IsFiniteSet(S)
    BY DEF Comments!IsFiniteSet, IsFiniteSet
<1>2. Comments!Cardinality(S) = Cardinality(S)
    BY DEF Comments!Cardinality, Cardinality
<1>3. QED
    BY <1>1, <1>2

\* A request of a learner finds the files and the requests as they should be.
LEMMA CommentsInit == Comments!Init => Comments!Inv
<1>1. SUFFICES ASSUME Comments!Init PROVE Comments!Inv
    OBVIOUS
<1>2. 1 \in 1..MaxVersion /\ Limit \in Nat
    BY CommentsAssumption DEF Comments!NotesAssumption
<1>3. notePublished \in Comments!Publications
    BY <1>1, <1>2 DEF Comments!Init, Comments!Publications
<1>4. Comments!Saved = {}
    BY <1>1 DEF Comments!Init, Comments!Saved
<1>5. Comments!IsFiniteSet(Comments!Saved) /\ Comments!Cardinality(Comments!Saved) <= Limit
    BY <1>2, <1>4, CommentsCount, FS_EmptySet
<1>6. wish \in [Pair -> Comments!Wishes \cup {None}]
    BY <1>1 DEF Comments!Init
<1>7. QED
    BY <1>1, <1>3, <1>5, <1>6 DEF Comments!Init, Comments!Inv, Comments!TypeOK

\* A comment that is written or removed keeps within the limit.
LEMMA CommentsCounted ==
    ASSUME Comments!Inv, NEW n \in Ids, NEW x \in Comments!Records \cup {None},
           note' = [note EXCEPT ![n] = x],
           note[n] = None /\ x # None => Comments!Cardinality(Comments!Saved) < Limit
    PROVE  Comments!IsFiniteSet(Comments!Saved') /\ Comments!Cardinality(Comments!Saved') <= Limit
<1> DEFINE S == Comments!Saved
<1>1. IsFiniteSet(S) /\ Cardinality(S) \in Nat /\ Cardinality(S) <= Limit
    BY CommentsCount, FS_CardinalityType DEF Comments!Inv, Comments!TypeOK
<1>2. note \in [Ids -> Comments!Records \cup {None}] /\ Limit \in Nat
    BY CommentsAssumption DEF Comments!Inv, Comments!TypeOK, Comments!NotesAssumption
<1>3. \/ S' = S \ {n}
      \/ S' = S
      \/ S' = S \cup {n} /\ n \notin S /\ Cardinality(S) < Limit
  <2>1. Cardinality(S) = Comments!Cardinality(S)
    BY CommentsCount
  <2>2. CASE x = None
    BY <1>2, <2>2 DEF Comments!Saved
  <2>3. CASE x # None /\ note[n] = None
    BY <1>2, <2>1, <2>3 DEF Comments!Saved
  <2>4. CASE x # None /\ note[n] # None
    BY <1>2, <2>4 DEF Comments!Saved
  <2>5. QED
    BY <2>2, <2>3, <2>4
<1>4. IsFiniteSet(S') /\ Cardinality(S') <= Limit
  <2> HIDE DEF S
  <2>1. CASE S' = S \ {n}
    <3>1. /\ IsFiniteSet(S \ {n})
          /\ Cardinality(S \ {n}) = IF n \in S THEN Cardinality(S) - 1 ELSE Cardinality(S)
      BY <1>1, FS_RemoveElement
    <3>2. Cardinality(S \ {n}) <= Limit
      BY <1>1, <1>2, <3>1
    <3>3. QED
      BY <2>1, <3>1, <3>2
  <2>2. CASE S' = S
    BY <1>1, <2>2
  <2>3. CASE S' = S \cup {n} /\ n \notin S /\ Cardinality(S) < Limit
    BY <1>1, <1>2, <2>3, FS_AddElement
  <2>4. QED
    BY <1>3, <2>1, <2>2, <2>3
<1>5. QED
    BY <1>4, CommentsCount

\* What a request that has something to save would write.
LEMMA CommentsRecord ==
    ASSUME Comments!Inv, NEW r \in Pair, notePc[r] # "idle"
    PROVE  /\ Comments!Record(r) \in Comments!Records
           /\ wish[r].note \in Ids
BY DEF Comments!Inv, Comments!TypeOK, Comments!Record, Comments!Records, Comments!Publications,
    Comments!Wishes

LEMMA CommentsNext ==
    ASSUME Comments!Inv, Comments!Next
    PROVE  Comments!Inv'
<1> USE DEF Comments!Inv, Comments!TypeOK, Comments!Kinds
<1>1. ASSUME NEW d \in Docs, Comments!Publish(d)
      PROVE  Comments!Inv'
    BY <1>1, CommentsAssumption DEF Comments!Publish, Comments!Publications, Comments!NotesAssumption,
        Comments!Saved
<1>2. CASE Comments!Attempt
    BY <1>2 DEF Comments!Attempt, Comments!Saved
<1>3. ASSUME NEW r \in Pair, NEW k \in Comments!Kinds, NEW n \in Ids, NEW a \in Answers,
             Comments!Ask(r, k, n, a)
      PROVE  Comments!Inv'
  <2> DEFINE new == [note |-> n, answer |-> a, version |-> notePublished.version,
                      expected |-> IF k = "edit" THEN note[n] ELSE None]
  <2>1. new \in Comments!Wishes
    BY DEF Comments!Publications, Comments!Wishes
  <2>2. wish' = [wish EXCEPT ![r] = new] /\ notePc' = [notePc EXCEPT ![r] = k]
    BY <1>3 DEF Comments!Ask
  <2>3. \A x \in Pair : notePc'[x] # "idle" => wish'[x] # None
    <3>1. new # None
      BY <2>1, CommentsAssumption DEF Comments!NotesAssumption
    <3>2. QED
      BY <2>2, <3>1
  <2>4. QED
    BY <1>3, <2>1, <2>2, <2>3 DEF Comments!Ask, Comments!Saved
<1>4. ASSUME NEW r \in Pair, Comments!Authorize(r) \/ Comments!Refuse(r)
      PROVE  Comments!Inv'
    BY <1>4 DEF Comments!Authorize, Comments!Refuse, Comments!Saved
<1>5. ASSUME NEW r \in Pair, Comments!Predict(r)
      PROVE  Comments!Inv'
    BY <1>5, CommentsRecord DEF Comments!Predict, Comments!Saved
<1>6. ASSUME NEW r \in Pair, Comments!Write(r)
      PROVE  Comments!Inv'
  <2>1. Comments!Record(r) \in Comments!Records /\ wish[r].note \in Ids
    BY <1>6, CommentsRecord DEF Comments!Write
  <2>2. Comments!IsFiniteSet(Comments!Saved') /\ Comments!Cardinality(Comments!Saved') <= Limit
    <3>1. CASE Comments!MayWrite(r)
      BY <1>6, <2>1, <3>1, CommentsCounted DEF Comments!Write, Comments!MayWrite
    <3>2. CASE ~Comments!MayWrite(r)
      BY <1>6, <3>2 DEF Comments!Write, Comments!Saved
    <3>3. QED
      BY <3>1, <3>2
  <2>3. note' \in [Ids -> Comments!Records \cup {None}]
    BY <1>6, <2>1 DEF Comments!Write
  <2>4. QED
    BY <1>6, <2>2, <2>3 DEF Comments!Write
<1>7. ASSUME NEW r \in Pair, Comments!Remove(r)
      PROVE  Comments!Inv'
  <2>1. wish[r].note \in Ids
    BY <1>7, CommentsRecord DEF Comments!Remove
  <2>2. Comments!IsFiniteSet(Comments!Saved') /\ Comments!Cardinality(Comments!Saved') <= Limit
    BY <1>7, <2>1, CommentsCounted DEF Comments!Remove
  <2>3. QED
    BY <1>7, <2>1, <2>2 DEF Comments!Remove
<1>8. QED
    BY <1>1, <1>2, <1>3, <1>4, <1>5, <1>6, <1>7 DEF Comments!Next

\* While a lecture is not published anew, a request saves what is shown, and a
\* prediction that is shown is left as it is.
LEMMA PredictionsNext ==
    ASSUME Predictions!ReadsAreCurrent, Predictions!Next, snapshot \in [Pair -> Comments!Publications]
    PROVE  Predictions!ReadsAreCurrent' /\ Predictions!AnswerIsKept
<1>1. \A d \in Docs : ~Predictions!Publish(d)
    BY DEF Predictions!ReadsAreCurrent, Predictions!Publications, Predictions!Publish
<1>2. ASSUME NEW r \in Pair, Predictions!Predict(r)
      PROVE  Predictions!ReadsAreCurrent' /\ Predictions!AnswerIsKept
    BY <1>2 DEF Predictions!Predict, Predictions!ReadsAreCurrent, Predictions!AnswerIsKept
<1>3. ASSUME NEW r \in Pair, Predictions!Authorize(r)
      PROVE  Predictions!ReadsAreCurrent' /\ Predictions!AnswerIsKept
    BY <1>3 DEF Predictions!Authorize, Predictions!ReadsAreCurrent, Predictions!AnswerIsKept
<1>4. ASSUME UNCHANGED <<notePublished, snapshot, prediction>>
      PROVE  Predictions!ReadsAreCurrent' /\ Predictions!AnswerIsKept
    BY <1>4 DEF Predictions!ReadsAreCurrent, Predictions!AnswerIsKept
<1>5. QED
    BY <1>1, <1>2, <1>3, <1>4 DEF Predictions!Next, Predictions!Attempt, Predictions!Ask,
        Predictions!Refuse, Predictions!Write, Predictions!Remove

\* A save leaves a comment on another passage alone, and an edit of the tutor
\* replaces the text it read.
LEMMA CommentsSave ==
    ASSUME Comments!Inv, Comments!Next
    PROVE  /\ \A n \in Ids : note[n] # None /\ note'[n] # None
                 => note'[n].version = note[n].version /\ note'[n].doc = note[n].doc
           /\ \A r \in Pair : notePc[r] = "saveNote" /\ notePc'[r] = "idle" /\ wish[r].expected # None
                 /\ note' # note => note[wish[r].note] = wish[r].expected
<1> USE DEF Comments!Inv, Comments!TypeOK, Comments!Kinds
<1>1. ASSUME NEW r \in Pair, Comments!Write(r), NEW n \in Ids, note[n] # None, note'[n] # None
      PROVE  note'[n].version = note[n].version /\ note'[n].doc = note[n].doc
  <2>1. CASE n # wish[r].note
    BY <1>1, <2>1 DEF Comments!Write
  <2>2. CASE n = wish[r].note /\ Comments!MayWrite(r)
    BY <1>1, <2>2 DEF Comments!Write, Comments!MayWrite, Comments!Listed, Comments!Record
  <2>3. CASE ~Comments!MayWrite(r)
    BY <1>1, <2>3 DEF Comments!Write
  <2>4. QED
    BY <2>1, <2>2, <2>3
<1>2. ASSUME NEW r \in Pair, Comments!Remove(r), NEW n \in Ids, note'[n] # None
      PROVE  note'[n] = note[n]
    BY <1>2 DEF Comments!Remove
<1>3. ASSUME NEW r \in Pair, NEW x \in Pair, Comments!Write(x),
             notePc[r] = "saveNote", notePc'[r] = "idle", wish[r].expected # None, note' # note
      PROVE  note[wish[r].note] = wish[r].expected
    BY <1>3 DEF Comments!Write, Comments!MayWrite
<1>4. ASSUME NEW r \in Pair, NEW x \in Pair, Comments!Remove(x), notePc[r] = "saveNote"
      PROVE  notePc'[r] # "idle"
    BY <1>4 DEF Comments!Remove
<1>5. UNCHANGED note \/ \E x \in Pair : Comments!Write(x) \/ Comments!Remove(x)
    BY DEF Comments!Next, Comments!Publish, Comments!Attempt, Comments!Ask, Comments!Authorize,
        Comments!Refuse, Comments!Predict
<1>6. QED
    BY <1>1, <1>2, <1>3, <1>4, <1>5

\* What is true of the notes in every state.
NotesInv ==
    /\ Comments!Inv
    /\ component = "predictions" => Predictions!ReadsAreCurrent

LEMMA NotesInit == Begin => NotesInv
<1>1. Predictions!Init => Predictions!ReadsAreCurrent
    BY DEF Predictions!Init, Predictions!ReadsAreCurrent, Predictions!Publications
<1>2. QED
    BY <1>1, CommentsInit, PredictionsAreNotes DEF Begin, NotesInv

\* A step of the composition is one of the notes, or leaves them alone.
LEMMA NotesSteps ==
    ASSUME NotesInv, [Step]_vars
    PROVE  \/ Comments!Next /\ (component = "predictions" => Predictions!Next)
           \/ UNCHANGED LearnerNotesVars
BY PredictionsAreNotes DEF NotesInv, Step, vars

LEMMA NotesStep ==
    ASSUME NotesInv, [Step]_vars
    PROVE  NotesInv'
<1>1. component' = component
    BY DEF Step, vars
<1>2. CASE Comments!Next /\ (component = "predictions" => Predictions!Next)
    BY <1>1, <1>2, CommentsNext, PredictionsNext DEF NotesInv, Comments!Inv, Comments!TypeOK
<1>3. CASE UNCHANGED LearnerNotesVars
    BY <1>1, <1>3 DEF LearnerNotesVars, NotesInv, Comments!Inv, Comments!TypeOK, Comments!Saved,
        Predictions!ReadsAreCurrent
<1>4. QED
    BY <1>2, <1>3, NotesSteps

\* A comment is replaced only by one on the same passage of the same
\* publication, the tutor edits no text it has not read, there are never more
\* comments than the limit, and the first prediction stays while the lecture
\* is not published anew (learner_comments.py, canvas_predictions.py).
THEOREM NotesHold == Spec => NotesAreNotLost
<1>1. Spec => []NotesInv
  <2>1. Begin => NotesInv
    BY NotesInit
  <2>2. NotesInv /\ [Step]_vars => NotesInv'
    BY NotesStep
  <2>3. QED
    BY <2>1, <2>2, PTL DEF Spec
<1>2. NotesInv => Comments!TypeOK
    BY DEF NotesInv, Comments!Inv
<1>3. NotesInv /\ [Step]_vars =>
        [\A n \in Ids : note[n] # None /\ note'[n] # None
            => note'[n].version = note[n].version /\ note'[n].doc = note[n].doc]_LearnerNotesVars
    BY NotesSteps, CommentsSave DEF NotesInv
<1>4. NotesInv /\ [Step]_vars =>
        [\A r \in Pair : notePc[r] = "saveNote" /\ notePc'[r] = "idle" /\ wish[r].expected # None
            /\ note' # note => note[wish[r].note] = wish[r].expected]_LearnerNotesVars
    BY NotesSteps, CommentsSave DEF NotesInv
<1>5. NotesInv /\ [Step]_vars => [component = "predictions" => Predictions!AnswerIsKept]_vars
    BY NotesSteps, PredictionsNext
    DEF NotesInv, Comments!Inv, Comments!TypeOK, LearnerNotesVars, Predictions!AnswerIsKept
<1>6. QED
    BY <1>1, <1>2, <1>3, <1>4, <1>5, PTL
    DEF Spec, NotesAreNotLost, Comments!CommentsStayWithTheirPassage, Comments!NoLostEdit,
        Comments!vars, LearnerNotesVars

----------------------------------------------------------------------------
(* Coaching of a gate.                                                     *)

\* A set of places that is not empty has a first one.
LEMMA FirstPlace ==
    ASSUME NEW S \in SUBSET Nat, S # {}
    PROVE  \E n \in S : \A m \in S : n <= m
<1>1. PICK n \in S : \A m \in S : <<m, n>> \notin OpToRel(<, Nat)
    BY WFMin, NatLessThanWellFounded
<1>2. \A m \in S : ~(m < n)
    BY <1>1 DEF OpToRel
<1>3. QED
    BY <1>2

\* The tasks of a bank, and the check and the review that follow an answer.
GateTasks(bank) == Gate!ToSet(Gate!Bank[bank])
GateCheck(missing) ==
    IF missing = {} THEN Gate!AfterPass(pending) ELSE Gate!AfterFailure(pending, missing)
GateReview(missing) == Gate!ReviewAfterTurn(pending, missing)

\* Each supported stage has the bank of the stage it supports.
LEMMA GateStages ==
    /\ Gate!Stages = {"diagnostic", "independent_exit", "delayed_transfer"} \cup Gate!Supported
    /\ DOMAIN Gate!Bank = {"diagnostic", "independent_exit", "delayed_transfer"}
    /\ \A s \in Gate!Stages :
          /\ Gate!BaseStage[s] \in DOMAIN Gate!Bank
          /\ s \notin Gate!Supported => Gate!BaseStage[s] = s
    /\ \A b \in DOMAIN Gate!Bank :
          /\ Gate!SupportStage[b] \in Gate!Supported
          /\ Gate!BaseStage[Gate!SupportStage[b]] = b
    /\ \A s \in Gate!Supported :
          Gate!BaseStage[s] = "delayed_transfer" <=> s = "delayed_support"
BY DEF Gate!Stages, Gate!Bank, Gate!BaseStage, Gate!SupportStage, Gate!Supported

\* The banks share no task.
LEMMA GateBanks ==
    /\ GateTasks("diagnostic") = {"baseline"}
    /\ GateTasks("independent_exit") = Gate!ToSet(ExitTasks)
    /\ GateTasks("delayed_transfer") = Gate!ToSet(DelayedTasks)
    /\ \A b \in DOMAIN Gate!Bank : Gate!Bank[b] \in Seq(GateTasks(b)) /\ Gate!Bank[b] # <<>>
    /\ \A b \in DOMAIN Gate!Bank : GateTasks(b) \subseteq Gate!Tasks
    /\ \A b \in {"diagnostic", "independent_exit"} :
          GateTasks(b) \cap GateTasks("delayed_transfer") = {}
<1>1. /\ Gate!Bank["diagnostic"] = <<"baseline">>
      /\ Gate!Bank["independent_exit"] = ExitTasks
      /\ Gate!Bank["delayed_transfer"] = DelayedTasks
    BY DEF Gate!Bank
<1>2. Gate!ToSet(<<"baseline">>) = {"baseline"}
    BY DEF Gate!ToSet
<1>3. \A b \in DOMAIN Gate!Bank : GateTasks(b) \subseteq Gate!Tasks
    BY DEF GateTasks, Gate!Tasks
<1>4. /\ GateTasks("diagnostic") = {"baseline"}
      /\ GateTasks("independent_exit") = Gate!ToSet(ExitTasks)
      /\ GateTasks("delayed_transfer") = Gate!ToSet(DelayedTasks)
    BY <1>1, <1>2 DEF GateTasks
<1>5. <<"baseline">> \in Seq({"baseline"}) /\ <<"baseline">> # <<>>
    OBVIOUS
<1>6. /\ ExitTasks \in Seq(Gate!ToSet(ExitTasks)) /\ ExitTasks # <<>>
      /\ DelayedTasks \in Seq(Gate!ToSet(DelayedTasks)) /\ DelayedTasks # <<>>
      /\ Gate!ToSet(ExitTasks) \cap Gate!ToSet(DelayedTasks) = {}
      /\ "baseline" \notin Gate!ToSet(ExitTasks) \cup Gate!ToSet(DelayedTasks)
    BY GateAssumption DEF Gate!CoachingAssumption
<1>7. \A b \in DOMAIN Gate!Bank : Gate!Bank[b] \in Seq(GateTasks(b)) /\ Gate!Bank[b] # <<>>
  <2>1. ASSUME NEW b \in DOMAIN Gate!Bank
        PROVE  b \in {"diagnostic", "independent_exit", "delayed_transfer"}
    BY GateStages
  <2>2. Gate!Bank["diagnostic"] \in Seq(GateTasks("diagnostic")) /\ Gate!Bank["diagnostic"] # <<>>
    BY <1>1, <1>4, <1>5
  <2>3. /\ Gate!Bank["independent_exit"] \in Seq(GateTasks("independent_exit"))
        /\ Gate!Bank["independent_exit"] # <<>>
    BY <1>1, <1>4, <1>6
  <2>4. /\ Gate!Bank["delayed_transfer"] \in Seq(GateTasks("delayed_transfer"))
        /\ Gate!Bank["delayed_transfer"] # <<>>
    BY <1>1, <1>4, <1>6
  <2>5. QED
    BY <2>1, <2>2, <2>3, <2>4, Zenon
<1>8. QED
    BY <1>3, <1>4, <1>6, <1>7

\* The first of some places of a sequence is one of them.
LEMMA GateFirst ==
    ASSUME NEW S, NEW s \in Seq(S), NEW P \in SUBSET DOMAIN s, P # {}
    PROVE  \E i \in P : Gate!First(s, P) = s[i]
<1>1. \E i \in P : \A j \in P : i <= j
    BY FirstPlace
<1>2. QED
    BY <1>1 DEF Gate!First

\* The next task of a bank is one of it that was not seen.
LEMMA GateFresh ==
    ASSUME NEW b \in DOMAIN Gate!Bank, Gate!Fresh(b) # {}
    PROVE  /\ Gate!NextFresh(b) \in GateTasks(b) \ exposed
           /\ pending # Nothing => Gate!NextFresh(b) # pending.task
<1>1. Gate!Fresh(b) \subseteq DOMAIN Gate!Bank[b]
    BY DEF Gate!Fresh
<1>2. PICK i \in Gate!Fresh(b) : Gate!NextFresh(b) = Gate!Bank[b][i]
    BY <1>1, GateFirst, GateBanks DEF Gate!NextFresh
<1>3. QED
    BY <1>1, <1>2 DEF Gate!Fresh, GateTasks, Gate!ToSet

\* The next hint is an approved one.
LEMMA GateHint ==
    ASSUME NEW missing
    PROVE  Gate!NextHint(missing) \in Gate!ToSet(Hints) \cup {Nothing}
<1> DEFINE open == {i \in DOMAIN Hints : Hints[i] \notin hints}
           targeted == {i \in open : Supports[Hints[i]] \cap missing # {}}
           general == {i \in open : Supports[Hints[i]] = {}}
<1>1. Hints \in Seq(Gate!ToSet(Hints))
    BY GateAssumption DEF Gate!CoachingAssumption
<1>2. \A P \in SUBSET DOMAIN Hints : P # {} => Gate!First(Hints, P) \in Gate!ToSet(Hints)
    BY <1>1, GateFirst DEF Gate!ToSet
<1>3. targeted \in SUBSET DOMAIN Hints /\ general \in SUBSET DOMAIN Hints
    OBVIOUS
<1>4. Gate!NextHint(missing) = IF targeted # {} THEN Gate!First(Hints, targeted)
                               ELSE IF general # {} THEN Gate!First(Hints, general) ELSE Nothing
    BY DEF Gate!NextHint
<1> HIDE DEF targeted, general
<1>5. QED
    BY <1>2, <1>3, <1>4

\* A check holds what it was made of.
LEMMA GateChecks ==
    ASSUME issues \in Nat, NEW stage_ \in Gate!Stages, NEW task_ \in Gate!Tasks,
           NEW hint_ \in Gate!ToSet(Hints) \cup {Nothing}, NEW b \in BOOLEAN, NEW c \in BOOLEAN,
           NEW k, k = Gate!Check(stage_, task_, hint_, b, c)
    PROVE  /\ k \in Gate!CheckRecords /\ k # Nothing
           /\ k.stage = stage_ /\ k.task = task_ /\ k.prompt = task_ /\ k.hint = hint_
           /\ k.bankOut = b /\ k.supportOut = c /\ k.issued = issues + 1
<1>1. Gate!Check(stage_, task_, hint_, b, c) \in Gate!CheckRecords
    BY DEF Gate!Check, Gate!CheckRecords
<1>2. Nothing \notin Gate!CheckRecords
    BY GateAssumption DEF Gate!CoachingAssumption
<1>3. QED
    BY <1>1, <1>2 DEF Gate!Check

\* An answer that was right asks for a fresh independent task, or for none; any
\* other asks for supported work at the same task.
LEMMA GateNextCheck ==
    ASSUME Gate!Inv, pending # Nothing, NEW missing
    PROVE  LET k == GateCheck(missing)
               ends == missing = {} /\ \/ pending.stage \in Gate!Independent
                                       \/ /\ pending.stage = "delayed_support"
                                          /\ Gate!Fresh("delayed_transfer") # {}
           IN  \/ ends /\ k = Nothing
               \/ /\ ~ends /\ k \in Gate!CheckRecords /\ k # Nothing
                  /\ k.issued = issues + 1 /\ k.prompt = k.task
                  /\ k.hint # Nothing \/ k.bankOut => k.stage \in Gate!Supported
                  /\ \/ /\ missing = {} /\ k.stage = "independent_exit"
                        /\ k.task \in GateTasks("independent_exit") \ exposed
                        /\ Gate!BaseStage[pending.stage] # "delayed_transfer"
                     \/ /\ k.stage = Gate!SupportStage[Gate!BaseStage[pending.stage]]
                        /\ k.task = pending.task
<1> DEFINE k == GateCheck(missing)
           base == Gate!BaseStage[pending.stage]
           ends == missing = {} /\ \/ pending.stage \in Gate!Independent
                                   \/ /\ pending.stage = "delayed_support"
                                      /\ Gate!Fresh("delayed_transfer") # {}
<1>1. /\ issues \in Nat /\ pending.stage \in Gate!Stages /\ pending.task \in Gate!Tasks
      /\ pending.stage \in {"diagnostic", "independent_exit", "delayed_transfer"} \cup Gate!Supported
      /\ base \in DOMAIN Gate!Bank /\ Gate!SupportStage[base] \in Gate!Stages
      /\ Gate!SupportStage[base] \in Gate!Supported
    BY GateStages DEF Gate!Inv, Gate!Shapes, Gate!CheckRecords
<1>2. "independent_exit" \in DOMAIN Gate!Bank /\ "independent_exit" \in Gate!Stages
    BY GateStages
<1>3. CASE missing # {}
  <2> DEFINE hint == Gate!NextHint(missing)
             out == base # "diagnostic" /\ Gate!Fresh(base) = {}
             allGiven == Hints # <<>> /\ Gate!ToSet(Hints) \subseteq hints /\ hint = Nothing
  <2>1. k = Gate!Check(Gate!SupportStage[base], pending.task, hint, out, allGiven)
    BY <1>3 DEF GateCheck, Gate!AfterFailure
  <2>2. hint \in Gate!ToSet(Hints) \cup {Nothing} /\ out \in BOOLEAN /\ allGiven \in BOOLEAN
    BY GateHint
  <2> HIDE DEF hint, out, allGiven, k
  <2>3. /\ k \in Gate!CheckRecords /\ k # Nothing /\ k.issued = issues + 1
        /\ k.stage = Gate!SupportStage[base] /\ k.task = pending.task /\ k.prompt = k.task
    BY <1>1, <2>1, <2>2, GateChecks
  <2>4. QED
    BY <1>1, <1>3, <2>3 DEF k
<1>4. CASE ends
    BY <1>4 DEF GateCheck, Gate!AfterPass
<1>5. CASE missing = {} /\ ~ends /\ pending.stage # "delayed_support"
           /\ Gate!Fresh("independent_exit") # {}
  <2> DEFINE task_ == Gate!NextFresh("independent_exit")
  <2>1. k = Gate!Check("independent_exit", task_, Nothing, FALSE, FALSE)
    BY <1>5 DEF GateCheck, Gate!AfterPass
  <2>2. task_ \in GateTasks("independent_exit") \ exposed /\ task_ \in Gate!Tasks
    BY <1>2, <1>5, GateFresh, GateBanks
  <2>3. base # "delayed_transfer"
    BY <1>1, <1>5, GateStages DEF Gate!Independent
  <2> HIDE DEF task_, k
  <2>4. /\ k \in Gate!CheckRecords /\ k # Nothing /\ k.issued = issues + 1 /\ k.hint = Nothing
        /\ k.stage = "independent_exit" /\ k.task = task_ /\ k.prompt = task_ /\ ~k.bankOut
    <3> DEFINE no == FALSE
    <3>1. Nothing \in Gate!ToSet(Hints) \cup {Nothing} /\ no \in BOOLEAN
      OBVIOUS
    <3>2. k = Gate!Check("independent_exit", task_, Nothing, no, no) /\ ~no
      BY <2>1
    <3> HIDE DEF no
    <3>3. QED
      BY <1>1, <1>2, <2>2, <3>1, <3>2, GateChecks
  <2>5. QED
    BY <1>5, <2>2, <2>3, <2>4 DEF k
<1>6. CASE /\ missing = {} /\ ~ends
           /\ \/ pending.stage = "delayed_support"
              \/ Gate!Fresh("independent_exit") = {}
  <2>1. k = Gate!Check(Gate!SupportStage[base], pending.task, Nothing, TRUE, FALSE)
    BY <1>6 DEF GateCheck, Gate!AfterPass
  <2> HIDE DEF k
  <2>2. /\ k \in Gate!CheckRecords /\ k # Nothing /\ k.issued = issues + 1
        /\ k.stage = Gate!SupportStage[base] /\ k.task = pending.task /\ k.prompt = k.task
    <3> DEFINE no == FALSE
               yes == TRUE
    <3>1. Nothing \in Gate!ToSet(Hints) \cup {Nothing} /\ yes \in BOOLEAN /\ no \in BOOLEAN
      OBVIOUS
    <3>2. k = Gate!Check(Gate!SupportStage[base], pending.task, Nothing, yes, no)
      BY <2>1
    <3>3. issues \in Nat /\ pending.task \in Gate!Tasks /\ Gate!SupportStage[base] \in Gate!Stages
      BY <1>1
    <3> DEFINE stage_ == Gate!SupportStage[base]
    <3>4. stage_ \in Gate!Stages /\ k = Gate!Check(stage_, pending.task, Nothing, yes, no)
      BY <3>2, <3>3
    <3> HIDE DEF yes, no, stage_
    <3>5. k \in Gate!CheckRecords
      BY <3>1, <3>3, <3>4 DEF Gate!Check, Gate!CheckRecords
    <3>6. k.issued = issues + 1 /\ k.stage = stage_ /\ k.task = pending.task /\ k.prompt = k.task
      BY <3>4 DEF Gate!Check
    <3>7. k # Nothing
      BY <3>5, GateAssumption DEF Gate!CoachingAssumption
    <3>8. QED
      BY <3>5, <3>6, <3>7 DEF stage_
  <2>3. QED
    BY <1>1, <1>6, <2>2 DEF k
<1>7. QED
    BY <1>3, <1>4, <1>5, <1>6

\* A review that is scheduled has a task that was not seen, and its whole delay.
LEMMA GateScheduled ==
    ASSUME Gate!Inv, NEW task_ \in Gate!ToSet(DelayedTasks), NEW prompt_ \in Gate!ToSet(DelayedTasks),
           NEW days \in Nat, NEW failed_ \in BOOLEAN,
           NEW r, r = Gate!Scheduled(task_, prompt_, days, failed_)
    PROVE  /\ r \in Gate!ReviewRecords /\ r # Nothing
           /\ r.task = task_ /\ r.prompt = prompt_ /\ r.interval = days
           /\ r.due = r.from + r.interval /\ r.from = day
           /\ ~r.attempted /\ ~r.completed
<1>1. day \in Nat
    BY GateAssumption DEF Gate!Inv, Gate!TypeOK, Gate!CoachingAssumption
<1>2. Gate!Scheduled(task_, prompt_, days, failed_) \in Gate!ReviewRecords
    BY <1>1 DEF Gate!Scheduled, Gate!ReviewRecords
<1>3. Nothing \notin Gate!ReviewRecords
    BY GateAssumption DEF Gate!CoachingAssumption
<1>4. QED
    BY <1>2, <1>3 DEF Gate!Scheduled

\* What becomes of the review: a new one, the end of it, the start of its
\* practice, or what it was.
GateNew(r) ==
    /\ r \in Gate!ReviewRecords /\ r # Nothing
    /\ r.task \in GateTasks("delayed_transfer") \ exposed
    /\ r.due = r.from + r.interval /\ r.interval >= ReviewAfter
    /\ ~r.attempted /\ ~r.completed
GateGoesOn(r) ==
    /\ review # Nothing /\ r \in Gate!ReviewRecords /\ r # Nothing
    /\ r.task = review.task /\ r.prompt = review.prompt /\ r.interval = review.interval
    /\ r.due = review.due /\ r.from = review.from /\ r.attempted

\* The review that follows an answer is fresh, or goes on as it was.
LEMMA GateNextReview ==
    ASSUME Gate!Inv, pending # Nothing, NEW missing
    PROVE  LET r == GateReview(missing)
               k == GateCheck(missing)
           IN  \/ r = review /\ Gate!BaseStage[pending.stage] # "delayed_transfer"
               \/ r = review /\ pending.stage = "delayed_support" /\ k # Nothing
               \/ GateNew(r) /\ k = Nothing
               \/ GateGoesOn(r) /\ r.completed /\ k = Nothing /\ pending.stage = "delayed_transfer"
               \/ GateGoesOn(r) /\ ~r.completed /\ k # Nothing /\ pending.stage = "delayed_transfer"
<1> DEFINE r == GateReview(missing)
           k == GateCheck(missing)
           base == Gate!BaseStage[pending.stage]
           fresh == Gate!NextFresh("delayed_transfer")
           attempted == [review EXCEPT !.attempted = TRUE]
<1>1. /\ pending.stage \in Gate!Stages /\ review \in Gate!ReviewRecords \cup {Nothing}
      /\ pending.stage \in {"diagnostic", "independent_exit", "delayed_transfer"} \cup Gate!Supported
      /\ base = "delayed_transfer" <=> pending.stage \in {"delayed_transfer", "delayed_support"}
      /\ base = "delayed_transfer" => review # Nothing /\ ~review.completed /\ review.task = pending.task
      /\ review # Nothing => review.due = review.from + review.interval /\ review.interval >= ReviewAfter
      /\ review = Nothing => Gate!ToSet(DelayedTasks) \cap exposed = {}
    BY GateStages
    DEF Gate!Inv, Gate!Shapes, Gate!CheckRecords, Gate!CheckIsOfItsStage, Gate!ReviewIsFresh,
        Gate!Supported
<1>2. /\ ReviewAfter \in Nat \ {0} /\ MaxInterval \in Nat \ {0} /\ ReviewAfter <= MaxInterval
      /\ DelayedTasks \in Seq(Gate!ToSet(DelayedTasks)) /\ DelayedTasks # <<>>
      /\ Head(DelayedTasks) \in Gate!ToSet(DelayedTasks)
      /\ Nothing \notin Gate!ReviewRecords
    BY GateAssumption, DelayAssumption DEF Gate!CoachingAssumption
<1>3. Gate!Fresh("delayed_transfer") # {} => fresh \in GateTasks("delayed_transfer") \ exposed
    BY GateStages, GateFresh
<1>4. GateTasks("delayed_transfer") = Gate!ToSet(DelayedTasks)
    BY GateBanks
<1>5. k # Nothing <=> ~(missing = {} /\ \/ pending.stage \in Gate!Independent
                                        \/ /\ pending.stage = "delayed_support"
                                           /\ Gate!Fresh("delayed_transfer") # {})
    BY GateNextCheck
<1> HIDE DEF fresh, k
<1>6. CASE pending.stage = "independent_exit" /\ missing = {}
  <2>1. CASE review = Nothing
    <3>1. r = Gate!Scheduled(Head(DelayedTasks), Head(DelayedTasks), ReviewAfter, FALSE)
      BY <1>6, <2>1 DEF GateReview, Gate!ReviewAfterTurn
    <3> HIDE DEF r
    <3>2. /\ r \in Gate!ReviewRecords /\ r # Nothing /\ r.task = Head(DelayedTasks)
          /\ r.interval = ReviewAfter /\ r.due = r.from + r.interval
          /\ ~r.attempted /\ ~r.completed
      <4> DEFINE no == FALSE
      <4>1. no \in BOOLEAN /\ r = Gate!Scheduled(Head(DelayedTasks), Head(DelayedTasks), ReviewAfter, no)
        BY <3>1
      <4> HIDE DEF no
      <4>2. QED
        BY <1>2, <4>1, GateScheduled
    <3>3. GateNew(r)
      BY <1>1, <1>2, <1>4, <2>1, <3>2 DEF GateNew
    <3>4. QED
      BY <1>5, <1>6, <3>3 DEF Gate!Independent, k, r
  <2>2. CASE review # Nothing
    BY <1>1, <1>6, <2>2 DEF GateReview, Gate!ReviewAfterTurn
  <2>3. QED
    BY <2>1, <2>2
<1>7. CASE pending.stage = "delayed_transfer"
  <2>1. /\ review \in Gate!ReviewRecords /\ attempted \in Gate!ReviewRecords
        /\ attempted.task = review.task /\ attempted.prompt = review.prompt
        /\ attempted.interval = review.interval /\ attempted.due = review.due
        /\ attempted.from = review.from /\ attempted.attempted
        /\ attempted.completed = review.completed /\ attempted.failed = review.failed
    BY <1>1, <1>7 DEF Gate!ReviewRecords
  <2> HIDE DEF attempted
  <2>2. CASE missing # {}
    <3>1. r = [attempted EXCEPT !.failed = TRUE]
      BY <1>7, <2>2 DEF GateReview, Gate!ReviewAfterTurn, attempted
    <3>2. GateGoesOn(r) /\ ~r.completed
      BY <1>1, <1>2, <1>7, <2>1, <3>1 DEF GateGoesOn, Gate!ReviewRecords
    <3>3. QED
      BY <1>5, <1>7, <2>2, <3>2 DEF k
  <2>3. CASE missing = {} /\ Gate!Fresh("delayed_transfer") = {}
    <3>1. r = [attempted EXCEPT !.completed = TRUE]
      BY <1>7, <2>3 DEF GateReview, Gate!ReviewAfterTurn, Gate!Advanced, attempted
    <3>2. GateGoesOn(r) /\ r.completed
      BY <1>1, <1>2, <1>7, <2>1, <3>1 DEF GateGoesOn, Gate!ReviewRecords
    <3>3. QED
      BY <1>5, <1>7, <2>3, <3>2 DEF k, Gate!Independent
  <2>4. CASE missing = {} /\ Gate!Fresh("delayed_transfer") # {}
    <3> DEFINE doubled == IF attempted.interval * 2 > ReviewAfter THEN attempted.interval * 2
                          ELSE ReviewAfter
               capped == IF doubled < MaxInterval THEN doubled ELSE MaxInterval
               days == IF attempted.failed THEN ReviewAfter ELSE capped
    <3>1. r = Gate!Scheduled(fresh, fresh, days, FALSE)
      BY <1>7, <2>4 DEF GateReview, Gate!ReviewAfterTurn, Gate!Advanced, attempted, fresh
    <3>2. days \in Nat /\ days >= ReviewAfter
      <4>1. attempted.interval \in Nat
        BY <2>1 DEF Gate!ReviewRecords
      <4>2. QED
        BY <1>2, <4>1
    <3> HIDE DEF days
    <3> HIDE DEF r
    <3>3. /\ r \in Gate!ReviewRecords /\ r # Nothing /\ r.task = fresh /\ r.interval = days
          /\ r.due = r.from + r.interval /\ ~r.attempted /\ ~r.completed
      <4> DEFINE no == FALSE
      <4>1. no \in BOOLEAN /\ r = Gate!Scheduled(fresh, fresh, days, no)
        BY <3>1
      <4> HIDE DEF no
      <4>2. QED
        BY <1>3, <1>4, <2>4, <3>2, <4>1, GateScheduled
    <3>4. GateNew(r)
      BY <1>3, <2>4, <3>2, <3>3 DEF GateNew
    <3>5. QED
      BY <1>5, <1>7, <2>4, <3>4 DEF Gate!Independent, k, r
  <2>5. QED
    BY <2>2, <2>3, <2>4
<1>8. CASE pending.stage = "delayed_support" /\ missing = {} /\ Gate!Fresh("delayed_transfer") # {}
  <2>1. r = Gate!Scheduled(fresh, review.prompt, review.interval, TRUE)
    BY <1>8 DEF GateReview, Gate!ReviewAfterTurn, Gate!Rescheduled, fresh
  <2>2. review.prompt \in Gate!ToSet(DelayedTasks) /\ review.interval \in Nat /\ review.interval >= ReviewAfter
    BY <1>1, <1>8 DEF Gate!ReviewRecords
  <2> HIDE DEF r
  <2>3. /\ r \in Gate!ReviewRecords /\ r # Nothing /\ r.task = fresh /\ r.interval = review.interval
        /\ r.due = r.from + r.interval /\ ~r.attempted /\ ~r.completed
    <3> DEFINE yes == TRUE
    <3>1. yes \in BOOLEAN /\ r = Gate!Scheduled(fresh, review.prompt, review.interval, yes)
      BY <2>1
    <3> HIDE DEF yes
    <3>2. QED
      BY <1>3, <1>4, <1>8, <2>2, <3>1, GateScheduled
  <2>4. GateNew(r)
    BY <1>3, <1>8, <2>2, <2>3 DEF GateNew
  <2>5. QED
    BY <1>5, <1>8, <2>4 DEF k, r
<1>9. CASE /\ pending.stage = "delayed_support"
           /\ missing # {} \/ Gate!Fresh("delayed_transfer") = {}
  <2>1. r = review
    BY <1>9 DEF GateReview, Gate!ReviewAfterTurn, Gate!Rescheduled
  <2>2. QED
    BY <1>5, <1>9, <2>1 DEF k, Gate!Independent
<1>10. CASE /\ pending.stage \notin {"delayed_transfer", "delayed_support"}
            /\ pending.stage # "independent_exit" \/ missing # {}
    BY <1>1, <1>10 DEF GateReview, Gate!ReviewAfterTurn
<1>11. QED
    BY <1>6, <1>7, <1>8, <1>9, <1>10 DEF k

\* A gate starts without a check.
LEMMA GateInit == Gate!Init => Gate!Inv
<1> SUFFICES ASSUME Gate!Init PROVE Gate!Inv
    OBVIOUS
<1>1. Gate!TypeOK
  <2>1. Gate!NoGoal \in [supported : BOOLEAN, independent : BOOLEAN, delayed : BOOLEAN]
    BY DEF Gate!NoGoal
  <2>2. 0 \in 0..MaxDay
    BY GateAssumption DEF Gate!CoachingAssumption
  <2>3. DOMAIN turns = {}
    BY DEF Gate!Init
  <2>4. QED
    BY <2>1, <2>2, <2>3 DEF Gate!Init, Gate!TypeOK, Gate!Idle
<1>2. Gate!Shapes
    BY DEF Gate!Init, Gate!Shapes, Gate!Idle
<1>3. QED
    BY <1>1, <1>2
    DEF Gate!Init, Gate!Inv, Gate!CheckIsOfItsStage, Gate!TurnsAreEarlier, Gate!ReviewIsFresh,
        Gate!IndependentAnswersAreFresh, Gate!AssessedOnceAsShown, Gate!DelayedAnswersWaited

\* A request that leaves the coaching state alone keeps the invariant, also
\* when a day passes.
GateTabs == [Pair -> [at : {"idle", "checked", "assess", "recorded", "done"}, issued : Nat]]

LEMMA GateIdles ==
    ASSUME Gate!Inv, UNCHANGED <<Gate!state, issues>>, tab' \in GateTabs, passed' \in BOOLEAN,
           day' \in 0..MaxDay, day <= day'
    PROVE  Gate!Inv'
<1> USE DEF Gate!state
<1>1. Gate!TypeOK'
    BY DEF Gate!Inv, Gate!TypeOK, GateTabs
<1>2. Gate!Shapes'
    BY DEF Gate!Inv, Gate!Shapes, GateTabs
<1>3. day \in Nat /\ (review # Nothing => review.due \in Nat)
    BY GateAssumption
    DEF Gate!Inv, Gate!TypeOK, Gate!Shapes, Gate!ReviewRecords, Gate!CoachingAssumption
<1>4. Gate!CheckIsOfItsStage'
    BY <1>3 DEF Gate!Inv, Gate!CheckIsOfItsStage, Gate!Stages, Gate!BaseStage
<1>5. QED
    BY <1>1, <1>2, <1>4
    DEF Gate!Inv, Gate!TurnsAreEarlier, Gate!ReviewIsFresh,
        Gate!IndependentAnswersAreFresh, Gate!AssessedOnceAsShown, Gate!DelayedAnswersWaited

\* A check of the right bank may be bound while no other task is pending.
LEMMA GateBinds ==
    ASSUME Gate!Inv, NEW k \in Gate!CheckRecords, k # Nothing, Gate!Bind(k), k.issued = issues + 1,
           k.hint # Nothing \/ k.bankOut => k.stage \in Gate!Supported,
           k.task \in GateTasks(Gate!BaseStage[k.stage]),
           k.stage \in Gate!Independent => k.task \notin supported \cup answered,
           Gate!BaseStage[k.stage] = "delayed_transfer" =>
               review # Nothing /\ ~review.completed /\ review.task = k.task,
           k.stage = "delayed_transfer" => review.due <= day,
           pending # Nothing => k.task = pending.task,
           UNCHANGED <<turns, goal, review, answered, passed, day>>,
           hints' \subseteq Gate!ToSet(Hints), tab' \in GateTabs
    PROVE  Gate!Inv' /\ pending' \in Gate!CheckRecords /\ pending' # Nothing
<1>1. /\ issues \in Nat /\ issues' = issues + 1 /\ pending' = k /\ exposed' = exposed \cup {k.task}
      /\ supported' \subseteq supported \cup {k.task}
      /\ k.stage \notin Gate!Supported => supported' = supported
    BY DEF Gate!Inv, Gate!Shapes, Gate!Bind
<1>2. k.stage \in Gate!Stages /\ k.task \in Gate!Tasks
    BY DEF Gate!CheckRecords
<1>3. Gate!TypeOK'
    BY <1>1, <1>2 DEF Gate!Inv, Gate!TypeOK, GateTabs
<1>4. Gate!Shapes'
    BY <1>1 DEF Gate!Inv, Gate!Shapes, GateTabs
<1>5. k.stage \in Gate!Independent => k.stage \notin Gate!Supported
    BY DEF Gate!Independent, Gate!Supported
<1>6. Gate!CheckIsOfItsStage'
    BY <1>1, <1>5 DEF Gate!CheckIsOfItsStage, GateTasks
<1>7. \A i \in DOMAIN turns : turns[i].issued \in Nat
  <2>1. turns \in Seq(Gate!TurnRecords)
    BY DEF Gate!Inv, Gate!Shapes
  <2>2. \A i \in DOMAIN turns : turns[i] \in Gate!TurnRecords
    BY <2>1
  <2>3. QED
    BY <2>2 DEF Gate!TurnRecords
<1>8. Gate!TurnsAreEarlier'
    BY <1>1, <1>7 DEF Gate!Inv, Gate!TurnsAreEarlier
<1>9. Gate!ReviewIsFresh'
  <2>1. review = Nothing => k.task \notin Gate!ToSet(DelayedTasks)
    <3>1. /\ review = Nothing => Gate!BaseStage[k.stage] # "delayed_transfer"
          /\ Gate!BaseStage[k.stage] \in {"diagnostic", "independent_exit", "delayed_transfer"}
      BY <1>2, GateStages
    <3>2. QED
      BY <3>1, GateBanks
  <2>2. QED
    BY <1>1, <2>1 DEF Gate!Inv, Gate!ReviewIsFresh
<1>10. Gate!Inv'
    BY <1>3, <1>4, <1>6, <1>8, <1>9
    DEF Gate!Inv, Gate!IndependentAnswersAreFresh, Gate!AssessedOnceAsShown,
        Gate!DelayedAnswersWaited
<1>11. QED
    BY <1>1, <1>10

\* A turn that finds no check binds the first one of the gate.
LEMMA GatePrepare ==
    ASSUME Gate!Inv, NEW t \in Pair, Gate!Prepare(t)
    PROVE  Gate!Inv' /\ pending' \in Gate!CheckRecords /\ pending' # Nothing
<1>1. CASE pending # Nothing
  <2>1. pending.issued \in Nat /\ pending' = pending
    BY <1>1 DEF Gate!Prepare, Gate!state, Gate!Inv, Gate!Shapes, Gate!CheckRecords
  <2>2. tab' \in GateTabs /\ UNCHANGED <<Gate!state, issues, passed, day>>
    BY <1>1, <2>1 DEF Gate!Prepare, Gate!Inv, Gate!Shapes, GateTabs
  <2>3. day \in 0..MaxDay /\ MaxDay \in Nat /\ passed \in BOOLEAN
    BY GateAssumption DEF Gate!Inv, Gate!TypeOK, Gate!CoachingAssumption
  <2>4. Gate!Inv'
    BY <2>2, <2>3, GateIdles
  <2>5. QED
    BY <1>1, <2>1, <2>4 DEF Gate!Inv, Gate!Shapes
<1>2. CASE pending = Nothing
  <2> DEFINE k == Gate!Check(Gate!InitialStage, Gate!Bank[Gate!InitialStage][1], Nothing, FALSE, FALSE)
  <2>1. /\ Gate!InitialStage = "diagnostic" /\ Gate!Bank[Gate!InitialStage][1] = "baseline"
        /\ Gate!BaseStage["diagnostic"] = "diagnostic"
    BY DEF Gate!InitialStage, Gate!Bank, Gate!BaseStage
  <2>2. "diagnostic" \in Gate!Stages /\ "baseline" \in Gate!Tasks /\ "baseline" \in GateTasks("diagnostic")
    BY GateStages, GateBanks
  <2>3. /\ k \in Gate!CheckRecords /\ k # Nothing /\ k.stage = "diagnostic" /\ k.task = "baseline"
        /\ k.hint = Nothing /\ ~k.bankOut /\ k.issued = issues + 1
    <3> DEFINE no == FALSE
    <3>1. /\ Nothing \in Gate!ToSet(Hints) \cup {Nothing} /\ no \in BOOLEAN /\ issues \in Nat
          /\ k = Gate!Check("diagnostic", "baseline", Nothing, no, no) /\ ~no
      BY <2>1 DEF Gate!Inv, Gate!Shapes
    <3> HIDE DEF no, k
    <3>2. QED
      BY <2>2, <3>1, GateChecks
  <2>4. Gate!Bind(k) /\ UNCHANGED <<answered, hints, turns, goal, review, passed, day>>
    BY <1>2 DEF Gate!Prepare
  <2> HIDE DEF k
  <2>5. pending' = k /\ k.issued \in Nat
    BY <2>3, <2>4 DEF Gate!Bind, Gate!CheckRecords
  <2>6. tab' \in GateTabs /\ hints' \subseteq Gate!ToSet(Hints)
    BY <2>4, <2>5 DEF Gate!Prepare, Gate!Inv, Gate!Shapes, Gate!TypeOK, GateTabs
  <2>7. "diagnostic" \notin Gate!Independent
    BY DEF Gate!Independent
  <2>8. QED
    BY <1>2, <2>1, <2>2, <2>3, <2>4, <2>6, <2>7, GateBinds
<1>3. QED
    BY <1>1, <1>2

\* Help makes supported practice of the check that is pending.
LEMMA GateRequestSupport ==
    ASSUME Gate!Inv, Gate!RequestSupport
    PROVE  Gate!Inv' /\ pending' \in Gate!CheckRecords /\ pending' # Nothing
<1> DEFINE stage_ == Gate!SupportStage[pending.stage]
           out == pending.stage # "diagnostic" /\ Gate!Fresh(pending.stage) = {}
           k == [pending EXCEPT !.stage = stage_, !.hint = Head(Hints), !.bankOut = out,
                                !.issued = issues + 1]
<1>1. /\ pending \in Gate!CheckRecords /\ pending # Nothing /\ issues \in Nat
      /\ pending.stage \in Gate!Stages /\ pending.stage \notin Gate!Supported
      /\ pending.task \in GateTasks(Gate!BaseStage[pending.stage]) /\ tab \in GateTabs
    BY DEF Gate!RequestSupport, Gate!Inv, Gate!Shapes, Gate!CheckRecords, Gate!CheckIsOfItsStage,
        GateTasks, GateTabs
<1>2. /\ stage_ \in Gate!Supported /\ stage_ \in Gate!Stages
      /\ Gate!BaseStage[stage_] = Gate!BaseStage[pending.stage]
    BY <1>1, GateStages
<1>3. Head(Hints) \in Gate!ToSet(Hints)
  <2>1. Hints \in Seq(Gate!ToSet(Hints)) /\ Hints # <<>>
    BY GateAssumption DEF Gate!CoachingAssumption, Gate!RequestSupport
  <2>2. QED
    BY <2>1
<1>4. Gate!Bind(k) /\ hints' = hints \cup {Head(Hints)}
      /\ UNCHANGED <<answered, turns, goal, review, passed, tab, day>>
    BY DEF Gate!RequestSupport
<1>5. /\ k \in Gate!CheckRecords /\ k.stage = stage_ /\ k.task = pending.task
      /\ k.issued = issues + 1
  <2>1. out \in BOOLEAN
    OBVIOUS
  <2> HIDE DEF stage_, out
  <2>2. Head(Hints) \in Gate!ToSet(Hints) \cup {Nothing} /\ issues + 1 \in Nat
    BY <1>1, <1>3
  <2>3. ASSUME NEW o \in BOOLEAN, o = out
        PROVE  /\ k \in Gate!CheckRecords /\ k.stage = stage_ /\ k.task = pending.task
               /\ k.issued = issues + 1
    <3>1. k = [pending EXCEPT !.stage = stage_, !.hint = Head(Hints), !.bankOut = o,
                              !.issued = issues + 1]
      BY <2>3, Zenon
    <3> HIDE DEF k
    <3>2. /\ pending \in Gate!CheckRecords /\ stage_ \in Gate!Stages
          /\ Head(Hints) \in Gate!ToSet(Hints) \cup {Nothing} /\ issues + 1 \in Nat
      BY <1>1, <1>2, <2>2
    <3> DEFINE h == Head(Hints)
               n == issues + 1
               q == [pending EXCEPT !.stage = stage_, !.hint = h, !.bankOut = o, !.issued = n]
    <3>3. h \in Gate!ToSet(Hints) \cup {Nothing} /\ n \in Nat /\ k = q /\ n = issues + 1
      BY <3>1, <3>2
    <3> HIDE DEF h, n
    <3>4. q \in Gate!CheckRecords
      BY <2>3, <3>2, <3>3 DEF Gate!CheckRecords
    <3>5. q.stage = stage_ /\ q.task = pending.task /\ q.issued = n
      BY <3>2 DEF Gate!CheckRecords
    <3> HIDE DEF q
    <3>6. QED
      BY <3>3, <3>4, <3>5
  <2>4. QED
    BY <2>1, <2>3, Zenon
<1>6. k # Nothing
    BY <1>5, GateAssumption DEF Gate!CoachingAssumption
<1>7. hints' \subseteq Gate!ToSet(Hints)
    BY <1>3, <1>4 DEF Gate!Inv, Gate!TypeOK
<1>8. Gate!BaseStage[pending.stage] = "delayed_transfer" =>
          review # Nothing /\ ~review.completed /\ review.task = pending.task
    BY <1>1 DEF Gate!Inv, Gate!CheckIsOfItsStage
<1>9. stage_ \notin Gate!Independent /\ stage_ # "delayed_transfer"
    BY <1>2 DEF Gate!Supported, Gate!Independent
<1> HIDE DEF k, stage_
<1>10. QED
    BY <1>1, <1>2, <1>4, <1>5, <1>6, <1>7, <1>8, <1>9, GateBinds

\* An opened review asks for a task that was not seen before, on its day.
LEMMA GateOpenReview ==
    ASSUME Gate!Inv, Gate!OpenReview
    PROVE  Gate!Inv' /\ pending' \in Gate!CheckRecords /\ pending' # Nothing
<1> DEFINE c == Gate!Check("delayed_transfer", review.task, Nothing, FALSE, FALSE)
           k == [c EXCEPT !.prompt = review.prompt]
<1>1. /\ review \in Gate!ReviewRecords /\ review # Nothing /\ issues \in Nat /\ pending = Nothing
      /\ ~review.completed /\ review.task \notin exposed /\ tab \in GateTabs
      /\ supported \cup answered \subseteq exposed
    BY DEF Gate!OpenReview, Gate!Inv, Gate!Shapes, Gate!ReviewIsFresh, GateTabs
<1>2. /\ review.task \in GateTasks("delayed_transfer") /\ review.prompt \in Gate!Tasks
      /\ review.task \in Gate!Tasks
      /\ "delayed_transfer" \in Gate!Stages /\ Gate!BaseStage["delayed_transfer"] = "delayed_transfer"
  <2>1. "delayed_transfer" \in DOMAIN Gate!Bank /\ "delayed_transfer" \in Gate!Stages
        /\ "delayed_transfer" \notin Gate!Supported
    BY GateStages DEF Gate!Supported
  <2>2. QED
    BY <1>1, <2>1, GateStages, GateBanks DEF Gate!ReviewRecords
<1>3. /\ c \in Gate!CheckRecords /\ c.stage = "delayed_transfer" /\ c.task = review.task
      /\ c.hint = Nothing /\ ~c.bankOut /\ c.issued = issues + 1
  <2> DEFINE no == FALSE
  <2>1. /\ Nothing \in Gate!ToSet(Hints) \cup {Nothing} /\ no \in BOOLEAN
        /\ c = Gate!Check("delayed_transfer", review.task, Nothing, no, no) /\ ~no
    OBVIOUS
  <2> HIDE DEF no, c
  <2>2. QED
    BY <1>1, <1>2, <2>1, GateChecks
<1>4. Gate!Bind(k) /\ UNCHANGED <<answered, hints, turns, goal, review, passed, tab, day>>
    BY DEF Gate!OpenReview
<1> HIDE DEF c
<1>5. /\ k \in Gate!CheckRecords /\ k.stage = "delayed_transfer" /\ k.task = review.task
      /\ k.hint = Nothing /\ ~k.bankOut /\ k.issued = issues + 1
    BY <1>2, <1>3 DEF Gate!CheckRecords
<1>6. k # Nothing
    BY <1>5, GateAssumption DEF Gate!CoachingAssumption
<1>7. hints' \subseteq Gate!ToSet(Hints) /\ review.due <= day
    BY <1>4 DEF Gate!Inv, Gate!TypeOK, Gate!OpenReview
<1> HIDE DEF k
<1>8. QED
    BY <1>1, <1>2, <1>4, <1>5, <1>6, <1>7, GateBinds

\* Recovery empties the coaching state, or stops before it does.
LEMMA GateRecover ==
    ASSUME Gate!Inv, Gate!Recover
    PROVE  Gate!Inv'
<1>1. day \in 0..MaxDay /\ MaxDay \in Nat /\ tab \in GateTabs
    BY GateAssumption DEF Gate!Inv, Gate!TypeOK, Gate!Shapes, GateTabs, Gate!CoachingAssumption
<1>2. CASE UNCHANGED Gate!state
  <2>1. /\ UNCHANGED <<Gate!state, issues>> /\ tab' \in GateTabs /\ passed' \in BOOLEAN
        /\ day' \in 0..MaxDay /\ day <= day'
    <3>1. tab' = tab /\ day' = day /\ issues' = issues
      BY DEF Gate!Recover
    <3>2. passed' \in BOOLEAN
      BY Zenon DEF Gate!Recover
    <3>3. day \in 0..MaxDay /\ day <= day
      BY <1>1
    <3>4. tab' \in GateTabs /\ day' \in 0..MaxDay /\ day <= day'
      BY <1>1, <3>1, <3>3, Zenon
    <3>5. QED
      BY <1>2, <3>1, <3>2, <3>4, Zenon
  <2>2. QED
    BY <2>1, GateIdles
<1>3. CASE Gate!Emptied
  <2>1. Gate!NoGoal \in [supported : BOOLEAN, independent : BOOLEAN, delayed : BOOLEAN]
    BY DEF Gate!NoGoal
  <2>2. /\ pending' = Nothing /\ review' = Nothing /\ exposed' = {} /\ supported' = {}
        /\ answered' = {} /\ hints' = {} /\ turns' = <<>> /\ goal' = Gate!NoGoal
        /\ passed' = FALSE /\ UNCHANGED <<tab, day, issues>>
    BY <1>3 DEF Gate!Recover, Gate!Emptied
  <2>3. DOMAIN turns' = {}
    BY <2>2
  <2>4. Gate!TypeOK'
    BY <1>1, <2>1, <2>2, <2>3 DEF Gate!TypeOK, GateTabs
  <2>5. Gate!Shapes'
    BY <1>1, <2>2 DEF Gate!Inv, Gate!Shapes, GateTabs
  <2>6. QED
    BY <2>2, <2>3, <2>4, <2>5
    DEF Gate!Inv, Gate!CheckIsOfItsStage, Gate!TurnsAreEarlier, Gate!ReviewIsFresh,
        Gate!IndependentAnswersAreFresh, Gate!AssessedOnceAsShown, Gate!DelayedAnswersWaited
<1>4. QED
    BY <1>2, <1>3 DEF Gate!Recover

\* The turn that is recorded, and what its record writes.
GateTurn(t, missing) ==
    [kind |-> Gate!AttemptKind(pending.stage), task |-> pending.task, missing |-> missing,
     issued |-> pending.issued, seen |-> tab[t].issued,
     fresh |-> pending.task \notin supported \cup answered,
     waited |-> IF review = Nothing THEN 0 ELSE day - review.from]

\* What a record finds and writes.
LEMMA GateRecords ==
    ASSUME Gate!Inv, NEW t \in Pair, NEW missing \in SUBSET Evidence, Gate!Record(t, missing)
    PROVE  /\ pending \in Gate!CheckRecords /\ pending # Nothing /\ ~pending.supportOut
           /\ pending.issued = tab[t].issued
           /\ turns' = Append(turns, GateTurn(t, missing))
           /\ goal' = Gate!GoalAfter(Gate!AttemptKind(pending.stage), missing)
           /\ review' = GateReview(missing) /\ answered' = answered \cup {pending.task}
           /\ IF GateCheck(missing) # Nothing THEN Gate!Bind(GateCheck(missing))
              ELSE pending' = Nothing /\ UNCHANGED <<exposed, supported, issues>>
           /\ hints \subseteq hints' /\ hints' \subseteq Gate!ToSet(Hints)
           /\ GateCheck(missing) # Nothing => GateCheck(missing).hint \in hints' \cup {Nothing}
           /\ tab' \in GateTabs /\ passed' = passed /\ day' = day
<1> DEFINE k == GateCheck(missing)
<1>1. /\ pending # Nothing /\ pending.issued = tab[t].issued /\ ~pending.supportOut
      /\ turns' = Append(turns, GateTurn(t, missing))
      /\ goal' = Gate!GoalAfter(Gate!AttemptKind(pending.stage), missing)
      /\ review' = GateReview(missing) /\ answered' = answered \cup {pending.task}
      /\ passed' = passed /\ day' = day
    BY DEF Gate!Record, Gate!Bound, GateTurn, GateReview
<1>2. /\ hints' = IF k # Nothing /\ k.hint # Nothing THEN hints \cup {k.hint} ELSE hints
      /\ IF k # Nothing THEN Gate!Bind(k)
         ELSE pending' = Nothing /\ UNCHANGED <<exposed, supported, issues>>
    BY DEF Gate!Record, GateCheck
<1>3. tab' \in GateTabs
    BY DEF Gate!Record, Gate!Inv, Gate!Shapes, GateTabs
<1>4. k # Nothing => k.hint \in Gate!ToSet(Hints) \cup {Nothing}
    BY <1>1, GateNextCheck DEF Gate!CheckRecords
<1>5. pending \in Gate!CheckRecords /\ hints \subseteq Gate!ToSet(Hints)
    BY <1>1 DEF Gate!Inv, Gate!Shapes, Gate!TypeOK
<1> HIDE DEF k
<1>6. hints \subseteq hints' /\ hints' \subseteq Gate!ToSet(Hints)
      /\ (k # Nothing => k.hint \in hints' \cup {Nothing})
    BY <1>2, <1>4, <1>5
<1>7. QED
    BY <1>1, <1>2, <1>3, <1>5, <1>6 DEF k

\* The check that a record leaves pending.
LEMMA GateRecordChecks ==
    ASSUME Gate!Inv, NEW t \in Pair, NEW missing \in SUBSET Evidence, Gate!Record(t, missing)
    PROVE  /\ pending' \in Gate!CheckRecords \cup {Nothing} /\ issues' \in Nat /\ issues <= issues'
           /\ exposed \subseteq exposed' /\ exposed' \subseteq Gate!Tasks
           /\ supported' \subseteq exposed' /\ answered' \subseteq exposed'
           /\ pending' = Nothing <=> GateCheck(missing) = Nothing
           /\ pending' = Nothing => exposed' = exposed
           /\ pending' # Nothing =>
                 /\ pending' = GateCheck(missing) /\ issues' = issues + 1 /\ pending'.issued = issues'
                 /\ pending'.hint # Nothing \/ pending'.bankOut => pending'.stage \in Gate!Supported
                 /\ pending'.task \in GateTasks(Gate!BaseStage[pending'.stage])
                 /\ exposed' = exposed \cup {pending'.task}
                 /\ pending'.stage \in Gate!Independent =>
                        pending'.task \notin supported' \cup answered'
                 /\ pending'.stage # "delayed_transfer"
                 /\ \/ /\ Gate!BaseStage[pending'.stage] = Gate!BaseStage[pending.stage]
                       /\ pending'.task = pending.task
                    \/ /\ Gate!BaseStage[pending.stage] # "delayed_transfer"
                       /\ Gate!BaseStage[pending'.stage] = "independent_exit"
<1> DEFINE k == GateCheck(missing)
           base == Gate!BaseStage[pending.stage]
<1>1. /\ pending \in Gate!CheckRecords /\ pending # Nothing /\ answered' = answered \cup {pending.task}
      /\ IF k # Nothing THEN Gate!Bind(k)
         ELSE pending' = Nothing /\ UNCHANGED <<exposed, supported, issues>>
    BY GateRecords
<1>2. /\ issues \in Nat /\ exposed \subseteq Gate!Tasks /\ supported \subseteq exposed
      /\ answered \subseteq exposed /\ pending.task \in exposed /\ pending.task \in GateTasks(base)
      /\ pending.stage \in Gate!Stages
    BY <1>1 DEF Gate!Inv, Gate!TypeOK, Gate!Shapes, Gate!CheckIsOfItsStage, Gate!CheckRecords, GateTasks
<1>3. /\ base \in DOMAIN Gate!Bank /\ Gate!SupportStage[base] \in Gate!Supported
      /\ Gate!BaseStage[Gate!SupportStage[base]] = base
      /\ Gate!BaseStage["independent_exit"] = "independent_exit"
  <2>1. "independent_exit" \in Gate!Stages /\ "independent_exit" \notin Gate!Supported
    BY GateStages DEF Gate!Supported
  <2>2. QED
    BY <1>2, <2>1, GateStages
<1>4. Gate!Supported \cap Gate!Independent = {} /\ "delayed_transfer" \notin Gate!Supported
    BY DEF Gate!Supported, Gate!Independent
<1>5. CASE k = Nothing
  <2> HIDE DEF k
  <2>1. QED
    BY <1>1, <1>2, <1>5 DEF k
<1>6. CASE k # Nothing
  <2>1. /\ k \in Gate!CheckRecords /\ k.issued = issues + 1
        /\ k.hint # Nothing \/ k.bankOut => k.stage \in Gate!Supported
        /\ \/ /\ k.stage = "independent_exit"
              /\ k.task \in GateTasks("independent_exit") \ exposed
              /\ base # "delayed_transfer"
           \/ /\ k.stage = Gate!SupportStage[base]
              /\ k.task = pending.task
    BY <1>1, <1>6, GateNextCheck
  <2> HIDE DEF k, base
  <2>2. /\ pending' = k /\ issues' = issues + 1 /\ exposed' = exposed \cup {k.task}
        /\ supported' \subseteq supported \cup {k.task}
        /\ k.stage \notin Gate!Supported => supported' = supported
    BY <1>1, <1>6 DEF Gate!Bind
  <2>3. k.task \in Gate!Tasks /\ k.task \in GateTasks(Gate!BaseStage[k.stage])
    BY <1>2, <1>3, <2>1 DEF Gate!CheckRecords
  <2>4. k.stage \in Gate!Independent => k.task \notin supported' \cup answered'
    BY <1>1, <1>2, <1>3, <1>4, <2>1, <2>2
  <2>5. /\ k.stage # "delayed_transfer"
        /\ \/ Gate!BaseStage[k.stage] = base /\ k.task = pending.task
           \/ base # "delayed_transfer" /\ Gate!BaseStage[k.stage] = "independent_exit"
    BY <1>3, <1>4, <2>1
  <2>6. QED
    BY <1>1, <1>2, <1>6, <2>1, <2>2, <2>3, <2>4, <2>5 DEF k, base
<1>7. QED
    BY <1>5, <1>6

\* After a record the check that is pending fits the review, and a review that
\* waits to be opened asks for a task that was not seen.
LEMMA GateRecordReviews ==
    ASSUME Gate!Inv, NEW t \in Pair, NEW missing \in SUBSET Evidence, Gate!Record(t, missing)
    PROVE  /\ review' \in Gate!ReviewRecords \cup {Nothing}
           /\ Gate!CheckIsOfItsStage' /\ Gate!ReviewIsFresh'
<1> DEFINE k == GateCheck(missing)
           base == Gate!BaseStage[pending.stage]
<1>1. /\ pending \in Gate!CheckRecords /\ pending # Nothing /\ review' = GateReview(missing)
      /\ day' = day
    BY GateRecords
<1>2. /\ review \in Gate!ReviewRecords \cup {Nothing} /\ pending.task \in exposed
      /\ pending.task \in GateTasks(base) /\ pending.stage \in Gate!Stages
      /\ base = "delayed_transfer" =>
            review # Nothing /\ ~review.completed /\ review.task = pending.task
      /\ review = Nothing => Gate!ToSet(DelayedTasks) \cap exposed = {}
      /\ review # Nothing =>
            /\ review.due = review.from + review.interval /\ review.interval >= ReviewAfter
            /\ ~review.attempted /\ ~review.completed =>
                  review.task \notin exposed \/ pending.task = review.task
    BY <1>1
    DEF Gate!Inv, Gate!Shapes, Gate!CheckIsOfItsStage, Gate!ReviewIsFresh, Gate!CheckRecords, GateTasks
<1>3. /\ pending' \in Gate!CheckRecords \cup {Nothing} /\ exposed \subseteq exposed'
      /\ pending' = Nothing <=> k = Nothing
      /\ pending' = Nothing => exposed' = exposed
      /\ pending' # Nothing =>
            /\ pending'.task \in GateTasks(Gate!BaseStage[pending'.stage])
            /\ exposed' = exposed \cup {pending'.task}
            /\ pending'.stage \in Gate!Independent => pending'.task \notin supported' \cup answered'
            /\ pending'.stage # "delayed_transfer"
            /\ \/ Gate!BaseStage[pending'.stage] = base /\ pending'.task = pending.task
               \/ base # "delayed_transfer" /\ Gate!BaseStage[pending'.stage] = "independent_exit"
    BY GateRecordChecks
<1>4. \/ review' = review /\ base # "delayed_transfer"
      \/ review' = review /\ pending.stage = "delayed_support" /\ k # Nothing
      \/ GateNew(review') /\ k = Nothing
      \/ GateGoesOn(review') /\ review'.completed /\ k = Nothing /\ pending.stage = "delayed_transfer"
      \/ GateGoesOn(review') /\ ~review'.completed /\ k # Nothing /\ pending.stage = "delayed_transfer"
    BY <1>1, GateNextReview
<1>5. /\ base \in {"diagnostic", "independent_exit", "delayed_transfer"}
      /\ pending.stage \in {"delayed_transfer", "delayed_support"} <=> base = "delayed_transfer"
  <2>1. "delayed_transfer" \notin Gate!Supported /\ "delayed_support" \in Gate!Supported
    BY DEF Gate!Supported
  <2>2. "delayed_transfer" \in Gate!Stages /\ "delayed_support" \in Gate!Stages
    BY <2>1, GateStages
  <2>3. QED
    BY <1>2, <2>1, <2>2, GateStages
<1>6. /\ GateTasks("delayed_transfer") = Gate!ToSet(DelayedTasks)
      /\ GateTasks("diagnostic") \cap GateTasks("delayed_transfer") = {}
      /\ GateTasks("independent_exit") \cap GateTasks("delayed_transfer") = {}
    BY GateBanks
<1> HIDE DEF k, base
<1>7. review' \in Gate!ReviewRecords \cup {Nothing}
    BY <1>2, <1>4 DEF GateNew, GateGoesOn
<1>8. Gate!CheckIsOfItsStage'
  <2>1. ASSUME pending' # Nothing, Gate!BaseStage[pending'.stage] = "delayed_transfer"
        PROVE  review' # Nothing /\ ~review'.completed /\ review'.task = pending'.task
    <3>1. base = "delayed_transfer" /\ pending'.task = pending.task /\ k # Nothing
      BY <1>3, <2>1
    <3>2. QED
      BY <1>2, <1>4, <3>1 DEF GateGoesOn
  <2>2. QED
    BY <1>3, <2>1 DEF Gate!CheckIsOfItsStage, GateTasks
<1>9. review' = Nothing => Gate!ToSet(DelayedTasks) \cap exposed' = {}
  <2>1. SUFFICES ASSUME review' = Nothing, pending' # Nothing
                 PROVE  pending'.task \notin Gate!ToSet(DelayedTasks) /\ review = Nothing
    BY <1>2, <1>3, <1>4 DEF GateNew, GateGoesOn
  <2>2. review = Nothing /\ base # "delayed_transfer"
    BY <1>2, <1>4, <2>1 DEF GateNew, GateGoesOn
  <2>3. QED
    BY <1>2, <1>3, <1>5, <1>6, <2>1, <2>2
<1>10. ASSUME review' # Nothing
       PROVE  /\ review'.due = review'.from + review'.interval /\ review'.interval >= ReviewAfter
              /\ ~review'.attempted /\ ~review'.completed =>
                    \/ review'.task \notin exposed'
                    \/ pending' # Nothing /\ pending'.task = review'.task
  <2>1. CASE review' = review /\ base # "delayed_transfer"
    <3>1. review.task \in GateTasks("delayed_transfer")
      BY <1>2, <1>6, <1>10, <2>1 DEF Gate!ReviewRecords
    <3>2. review.task # pending.task
      BY <1>2, <1>5, <1>6, <2>1, <3>1
    <3>3. pending' # Nothing => pending'.task # review.task
      BY <1>3, <1>5, <1>6, <2>1, <3>1, <3>2
    <3>4. QED
      BY <1>2, <1>3, <1>10, <2>1, <3>2, <3>3
  <2>2. CASE review' = review /\ pending.stage = "delayed_support" /\ k # Nothing
    BY <1>2, <1>3, <1>5, <1>10, <2>2
  <2>3. CASE GateNew(review') /\ k = Nothing
    BY <1>3, <2>3 DEF GateNew
  <2>4. CASE GateGoesOn(review')
    BY <1>2, <2>4 DEF GateGoesOn
  <2>5. QED
    BY <1>4, <2>1, <2>2, <2>3, <2>4
<1>11. Gate!ReviewIsFresh'
    BY <1>9, <1>10 DEF Gate!ReviewIsFresh
<1>12. QED
    BY <1>7, <1>8, <1>11

\* The turn that is recorded answers the check it was shown, alone if it says
\* so and not before its day.
LEMMA GateRecordTurns ==
    ASSUME Gate!Inv, NEW t \in Pair, NEW missing \in SUBSET Evidence, Gate!Record(t, missing)
    PROVE  /\ turns' \in Seq(Gate!TurnRecords) /\ Gate!TurnsAreEarlier'
           /\ Gate!IndependentAnswersAreFresh' /\ Gate!AssessedOnceAsShown'
           /\ Gate!DelayedAnswersWaited'
<1> DEFINE e == GateTurn(t, missing)
<1>1. /\ pending \in Gate!CheckRecords /\ pending # Nothing /\ pending.issued = tab[t].issued
      /\ turns' = Append(turns, e) /\ answered' = answered \cup {pending.task}
    BY GateRecords
<1>2. /\ turns \in Seq(Gate!TurnRecords) /\ tab \in GateTabs /\ day \in Nat /\ issues \in Nat
      /\ pending.issued \in 1..issues /\ review \in Gate!ReviewRecords \cup {Nothing}
      /\ pending.stage \in Gate!Stages /\ pending.task \in Gate!Tasks
      /\ pending.stage \in Gate!Independent => pending.task \notin supported \cup answered
      /\ pending.stage = "delayed_transfer" =>
            review # Nothing /\ review.due <= day /\ review.due = review.from + review.interval
            /\ review.interval >= ReviewAfter
    BY <1>1, GateAssumption
    DEF Gate!Inv, Gate!TypeOK, Gate!Shapes, Gate!CheckIsOfItsStage, Gate!ReviewIsFresh,
        Gate!CheckRecords, GateTabs, Gate!CoachingAssumption, Gate!BaseStage
<1>3. /\ e.kind = Gate!AttemptKind(pending.stage) /\ e.task = pending.task
      /\ e.issued = pending.issued /\ e.seen = tab[t].issued
      /\ e.fresh <=> pending.task \notin supported \cup answered
      /\ e.waited = IF review = Nothing THEN 0 ELSE day - review.from
    BY DEF GateTurn
<1>4. /\ e.kind \in Gate!Independent \cup {"diagnostic", "supported_retry"}
      /\ e.kind \in Gate!Independent => pending.stage \in Gate!Independent
      /\ e.kind = "delayed_transfer" => pending.stage = "delayed_transfer"
    BY <1>2, <1>3, GateStages DEF Gate!AttemptKind, Gate!Independent, Gate!Supported
<1>5. e \in Gate!TurnRecords
  <2>1. tab[t].issued \in Nat /\ e.waited \in Int
    BY <1>2, <1>3 DEF GateTabs, Gate!ReviewRecords
  <2>2. (pending.task \notin supported \cup answered) \in BOOLEAN
    OBVIOUS
  <2>3. QED
    BY <1>2, <1>3, <1>4, <2>1, <2>2 DEF GateTurn, Gate!TurnRecords
<1> HIDE DEF e
<1>6. turns' \in Seq(Gate!TurnRecords)
    BY <1>1, <1>2, <1>5
<1>7. \A i \in DOMAIN turns' : \/ i \in DOMAIN turns /\ turns'[i] = turns[i]
                               \/ i = Len(turns) + 1 /\ turns'[i] = e
    BY <1>1, <1>2, <1>5
<1>8. \A i \in DOMAIN turns : /\ turns[i].task \in answered /\ turns[i].issued <= issues
                              /\ turns[i].issued < pending.issued /\ turns[i].issued \in Nat
  <2>1. \A i \in DOMAIN turns : turns[i] \in Gate!TurnRecords
    BY <1>2
  <2>2. QED
    BY <1>1, <2>1 DEF Gate!Inv, Gate!TurnsAreEarlier, Gate!TurnRecords
<1>9. Gate!TurnsAreEarlier'
  <2>1. /\ issues' \in Nat /\ issues <= issues'
        /\ pending' # Nothing => pending'.issued = issues + 1
    BY GateRecordChecks
  <2>2. QED
    BY <1>1, <1>2, <1>3, <1>7, <1>8, <2>1 DEF Gate!TurnsAreEarlier
<1>10. Gate!IndependentAnswersAreFresh'
    BY <1>2, <1>3, <1>4, <1>7 DEF Gate!Inv, Gate!IndependentAnswersAreFresh
<1>11. Gate!AssessedOnceAsShown'
  <2>1. \A i \in DOMAIN turns' : turns'[i].issued = turns'[i].seen
    BY <1>1, <1>3, <1>7 DEF Gate!Inv, Gate!AssessedOnceAsShown
  <2>2. ASSUME NEW i \in DOMAIN turns', NEW j \in DOMAIN turns', turns'[i].issued = turns'[j].issued
        PROVE  i = j
    BY <1>2, <1>3, <1>7, <1>8, <2>2 DEF Gate!Inv, Gate!AssessedOnceAsShown
  <2>3. QED
    BY <2>1, <2>2 DEF Gate!AssessedOnceAsShown
<1>12. Gate!DelayedAnswersWaited'
  <2>1. e.kind = "delayed_transfer" => e.waited >= ReviewAfter
    BY <1>2, <1>3, <1>4, GateAssumption DEF Gate!ReviewRecords, Gate!CoachingAssumption
  <2>2. QED
    BY <1>7, <2>1 DEF Gate!Inv, Gate!DelayedAnswersWaited
<1>13. QED
    BY <1>6, <1>9, <1>10, <1>11, <1>12

\* A recorded answer keeps the invariant.
LEMMA GateRecord ==
    ASSUME Gate!Inv, NEW t \in Pair, NEW missing \in SUBSET Evidence, Gate!Record(t, missing)
    PROVE  Gate!Inv'
<1>1. /\ goal' = Gate!GoalAfter(Gate!AttemptKind(pending.stage), missing)
      /\ hints' \subseteq Gate!ToSet(Hints) /\ tab' \in GateTabs /\ passed' = passed /\ day' = day
    BY GateRecords
<1>2. /\ pending' \in Gate!CheckRecords \cup {Nothing} /\ issues' \in Nat
      /\ exposed' \subseteq Gate!Tasks /\ supported' \subseteq exposed' /\ answered' \subseteq exposed'
      /\ pending' # Nothing =>
            /\ issues' = issues + 1 /\ pending'.issued = issues'
            /\ pending'.hint # Nothing \/ pending'.bankOut => pending'.stage \in Gate!Supported
    BY GateRecordChecks
<1>3. /\ review' \in Gate!ReviewRecords \cup {Nothing}
      /\ Gate!CheckIsOfItsStage' /\ Gate!ReviewIsFresh'
    BY GateRecordReviews
<1>4. /\ turns' \in Seq(Gate!TurnRecords) /\ Gate!TurnsAreEarlier'
      /\ Gate!IndependentAnswersAreFresh' /\ Gate!AssessedOnceAsShown' /\ Gate!DelayedAnswersWaited'
    BY GateRecordTurns
<1>5. goal' \in [supported : BOOLEAN, independent : BOOLEAN, delayed : BOOLEAN]
    BY <1>1 DEF Gate!GoalAfter, Gate!Inv, Gate!TypeOK
<1>6. review' # Nothing => review'.task \in Gate!ToSet(DelayedTasks) /\ review'.interval > 0
  <2>1. ReviewAfter \in Nat \ {0}
    BY GateAssumption DEF Gate!CoachingAssumption
  <2>2. QED
    BY <1>3, <2>1 DEF Gate!ReviewIsFresh, Gate!ReviewRecords
<1>7. \A i \in DOMAIN turns' : turns'[i].kind \in Gate!Independent \cup {"diagnostic", "supported_retry"}
  <2>1. \A i \in DOMAIN turns' : turns'[i] \in Gate!TurnRecords
    BY <1>4
  <2>2. QED
    BY <2>1 DEF Gate!TurnRecords
<1>8. issues \in Nat
    BY DEF Gate!Inv, Gate!Shapes
<1>9. Gate!TypeOK'
    BY <1>1, <1>2, <1>5, <1>6, <1>7, <1>8
    DEF Gate!Inv, Gate!TypeOK, Gate!CheckRecords, GateTabs
<1>10. Gate!Shapes'
    BY <1>1, <1>2, <1>3, <1>4 DEF Gate!Shapes, GateTabs
<1>11. QED
    BY <1>3, <1>4, <1>9, <1>10 DEF Gate!Inv

\* No step of a gate breaks the invariant.
LEMMA GateNext ==
    ASSUME Gate!Inv, Gate!Next
    PROVE  Gate!Inv'
<1>1. day \in 0..MaxDay /\ MaxDay \in Nat /\ tab \in GateTabs /\ passed \in BOOLEAN
    BY GateAssumption DEF Gate!Inv, Gate!TypeOK, Gate!Shapes, GateTabs, Gate!CoachingAssumption
<1>2. ASSUME NEW t \in Pair, Gate!Preflight(t) \/ Gate!WriteGate(t) \/ Gate!Finish(t)
      PROVE  Gate!Inv'
  <2>1. /\ UNCHANGED <<Gate!state, day, issues>>
        /\ passed' = passed \/ passed' = TRUE
    BY <1>2 DEF Gate!Preflight, Gate!WriteGate, Gate!Finish
  <2>2. tab' \in GateTabs
    BY <1>1, <1>2 DEF Gate!Preflight, Gate!WriteGate, Gate!Finish, Gate!Idle, GateTabs
  <2>3. passed' \in BOOLEAN
    BY <1>1, <2>1, Zenon
  <2>4. day' \in 0..MaxDay /\ day <= day'
    BY <1>1, <2>1
  <2>5. QED
    BY <2>1, <2>2, <2>3, <2>4, GateIdles
<1>3. CASE Gate!Crash
  <2>1. tab' \in GateTabs
    BY <1>3 DEF Gate!Crash, Gate!Idle, GateTabs
  <2>2. UNCHANGED <<Gate!state, passed, day, issues>>
    BY <1>3 DEF Gate!Crash
  <2>3. QED
    BY <1>1, <2>1, <2>2, GateIdles
<1>4. CASE Gate!Tick
  <2>1. UNCHANGED <<Gate!state, passed, tab, issues>> /\ day' = day + 1 /\ day < MaxDay
    BY <1>4 DEF Gate!Tick
  <2>2. day' \in 0..MaxDay /\ day <= day'
    BY <1>1, <2>1
  <2>3. QED
    BY <1>1, <2>1, <2>2, GateIdles
<1>5. QED
    BY <1>2, <1>3, <1>4, GatePrepare, GateRecord, GateRequestSupport, GateOpenReview, GateRecover
    DEF Gate!Next

----------------------------------------------------------------------------
(* Coaching of a gate with a single delayed task: first what holds of      *)
(* every gate, then that its state can always be resumed.                  *)

\* The tasks of a bank, and the check and the review that follow an answer.
ResumptionTasks(bank) == Resumption!ToSet(Resumption!Bank[bank])
ResumptionCheck(missing) ==
    IF missing = {} THEN Resumption!AfterPass(pending) ELSE Resumption!AfterFailure(pending, missing)
ResumptionReview(missing) == Resumption!ReviewAfterTurn(pending, missing)

\* Each supported stage has the bank of the stage it supports.
LEMMA ResumptionStages ==
    /\ Resumption!Stages = {"diagnostic", "independent_exit", "delayed_transfer"} \cup Resumption!Supported
    /\ DOMAIN Resumption!Bank = {"diagnostic", "independent_exit", "delayed_transfer"}
    /\ \A s \in Resumption!Stages :
          /\ Resumption!BaseStage[s] \in DOMAIN Resumption!Bank
          /\ s \notin Resumption!Supported => Resumption!BaseStage[s] = s
    /\ \A b \in DOMAIN Resumption!Bank :
          /\ Resumption!SupportStage[b] \in Resumption!Supported
          /\ Resumption!BaseStage[Resumption!SupportStage[b]] = b
    /\ \A s \in Resumption!Supported :
          Resumption!BaseStage[s] = "delayed_transfer" <=> s = "delayed_support"
BY DEF Resumption!Stages, Resumption!Bank, Resumption!BaseStage, Resumption!SupportStage, Resumption!Supported

\* The banks share no task.
LEMMA ResumptionBanks ==
    /\ ResumptionTasks("diagnostic") = {"baseline"}
    /\ ResumptionTasks("independent_exit") = Resumption!ToSet(ExitTasks)
    /\ ResumptionTasks("delayed_transfer") = Resumption!ToSet(<<OnlyTask>>)
    /\ \A b \in DOMAIN Resumption!Bank : Resumption!Bank[b] \in Seq(ResumptionTasks(b)) /\ Resumption!Bank[b] # <<>>
    /\ \A b \in DOMAIN Resumption!Bank : ResumptionTasks(b) \subseteq Resumption!Tasks
    /\ \A b \in {"diagnostic", "independent_exit"} :
          ResumptionTasks(b) \cap ResumptionTasks("delayed_transfer") = {}
<1>1. /\ Resumption!Bank["diagnostic"] = <<"baseline">>
      /\ Resumption!Bank["independent_exit"] = ExitTasks
      /\ Resumption!Bank["delayed_transfer"] = <<OnlyTask>>
    BY DEF Resumption!Bank
<1>2. Resumption!ToSet(<<"baseline">>) = {"baseline"}
    BY DEF Resumption!ToSet
<1>3. \A b \in DOMAIN Resumption!Bank : ResumptionTasks(b) \subseteq Resumption!Tasks
    BY DEF ResumptionTasks, Resumption!Tasks
<1>4. /\ ResumptionTasks("diagnostic") = {"baseline"}
      /\ ResumptionTasks("independent_exit") = Resumption!ToSet(ExitTasks)
      /\ ResumptionTasks("delayed_transfer") = Resumption!ToSet(<<OnlyTask>>)
    BY <1>1, <1>2 DEF ResumptionTasks
<1>5. <<"baseline">> \in Seq({"baseline"}) /\ <<"baseline">> # <<>>
    OBVIOUS
<1>6. /\ ExitTasks \in Seq(Resumption!ToSet(ExitTasks)) /\ ExitTasks # <<>>
      /\ <<OnlyTask>> \in Seq(Resumption!ToSet(<<OnlyTask>>)) /\ <<OnlyTask>> # <<>>
      /\ Resumption!ToSet(ExitTasks) \cap Resumption!ToSet(<<OnlyTask>>) = {}
      /\ "baseline" \notin Resumption!ToSet(ExitTasks) \cup Resumption!ToSet(<<OnlyTask>>)
    BY ResumptionAssumption DEF Resumption!CoachingAssumption
<1>7. \A b \in DOMAIN Resumption!Bank : Resumption!Bank[b] \in Seq(ResumptionTasks(b)) /\ Resumption!Bank[b] # <<>>
  <2>1. ASSUME NEW b \in DOMAIN Resumption!Bank
        PROVE  b \in {"diagnostic", "independent_exit", "delayed_transfer"}
    BY ResumptionStages
  <2>2. Resumption!Bank["diagnostic"] \in Seq(ResumptionTasks("diagnostic")) /\ Resumption!Bank["diagnostic"] # <<>>
    BY <1>1, <1>4, <1>5
  <2>3. /\ Resumption!Bank["independent_exit"] \in Seq(ResumptionTasks("independent_exit"))
        /\ Resumption!Bank["independent_exit"] # <<>>
    BY <1>1, <1>4, <1>6
  <2>4. /\ Resumption!Bank["delayed_transfer"] \in Seq(ResumptionTasks("delayed_transfer"))
        /\ Resumption!Bank["delayed_transfer"] # <<>>
    BY <1>1, <1>4, <1>6
  <2>5. QED
    BY <2>1, <2>2, <2>3, <2>4, Zenon
<1>8. QED
    BY <1>3, <1>4, <1>6, <1>7

\* The first of some places of a sequence is one of them.
LEMMA ResumptionFirst ==
    ASSUME NEW S, NEW s \in Seq(S), NEW P \in SUBSET DOMAIN s, P # {}
    PROVE  \E i \in P : Resumption!First(s, P) = s[i]
<1>1. \E i \in P : \A j \in P : i <= j
    BY FirstPlace
<1>2. QED
    BY <1>1 DEF Resumption!First

\* The next task of a bank is one of it that was not seen.
LEMMA ResumptionFresh ==
    ASSUME NEW b \in DOMAIN Resumption!Bank, Resumption!Fresh(b) # {}
    PROVE  /\ Resumption!NextFresh(b) \in ResumptionTasks(b) \ exposed
           /\ pending # Nothing => Resumption!NextFresh(b) # pending.task
<1>1. Resumption!Fresh(b) \subseteq DOMAIN Resumption!Bank[b]
    BY DEF Resumption!Fresh
<1>2. PICK i \in Resumption!Fresh(b) : Resumption!NextFresh(b) = Resumption!Bank[b][i]
    BY <1>1, ResumptionFirst, ResumptionBanks DEF Resumption!NextFresh
<1>3. QED
    BY <1>1, <1>2 DEF Resumption!Fresh, ResumptionTasks, Resumption!ToSet

\* The next hint is an approved one.
LEMMA ResumptionHint ==
    ASSUME NEW missing
    PROVE  Resumption!NextHint(missing) \in Resumption!ToSet(MoreHints) \cup {Nothing}
<1> DEFINE open == {i \in DOMAIN MoreHints : MoreHints[i] \notin hints}
           targeted == {i \in open : Supports[MoreHints[i]] \cap missing # {}}
           general == {i \in open : Supports[MoreHints[i]] = {}}
<1>1. MoreHints \in Seq(Resumption!ToSet(MoreHints))
    BY ResumptionAssumption DEF Resumption!CoachingAssumption
<1>2. \A P \in SUBSET DOMAIN MoreHints : P # {} => Resumption!First(MoreHints, P) \in Resumption!ToSet(MoreHints)
    BY <1>1, ResumptionFirst DEF Resumption!ToSet
<1>3. targeted \in SUBSET DOMAIN MoreHints /\ general \in SUBSET DOMAIN MoreHints
    OBVIOUS
<1>4. Resumption!NextHint(missing) = IF targeted # {} THEN Resumption!First(MoreHints, targeted)
                               ELSE IF general # {} THEN Resumption!First(MoreHints, general) ELSE Nothing
    BY DEF Resumption!NextHint
<1> HIDE DEF targeted, general
<1>5. QED
    BY <1>2, <1>3, <1>4

\* A check holds what it was made of.
LEMMA ResumptionChecks ==
    ASSUME issues \in Nat, NEW stage_ \in Resumption!Stages, NEW task_ \in Resumption!Tasks,
           NEW hint_ \in Resumption!ToSet(MoreHints) \cup {Nothing}, NEW b \in BOOLEAN, NEW c \in BOOLEAN,
           NEW k, k = Resumption!Check(stage_, task_, hint_, b, c)
    PROVE  /\ k \in Resumption!CheckRecords /\ k # Nothing
           /\ k.stage = stage_ /\ k.task = task_ /\ k.prompt = task_ /\ k.hint = hint_
           /\ k.bankOut = b /\ k.supportOut = c /\ k.issued = issues + 1
<1>1. Resumption!Check(stage_, task_, hint_, b, c) \in Resumption!CheckRecords
    BY DEF Resumption!Check, Resumption!CheckRecords
<1>2. Nothing \notin Resumption!CheckRecords
    BY ResumptionAssumption DEF Resumption!CoachingAssumption
<1>3. QED
    BY <1>1, <1>2 DEF Resumption!Check

\* An answer that was right asks for a fresh independent task, or for none; any
\* other asks for supported work at the same task.
LEMMA ResumptionNextCheck ==
    ASSUME Resumption!Inv, pending # Nothing, NEW missing
    PROVE  LET k == ResumptionCheck(missing)
               ends == missing = {} /\ \/ pending.stage \in Resumption!Independent
                                       \/ /\ pending.stage = "delayed_support"
                                          /\ Resumption!Fresh("delayed_transfer") # {}
           IN  \/ ends /\ k = Nothing
               \/ /\ ~ends /\ k \in Resumption!CheckRecords /\ k # Nothing
                  /\ k.issued = issues + 1 /\ k.prompt = k.task
                  /\ k.hint # Nothing \/ k.bankOut => k.stage \in Resumption!Supported
                  /\ \/ /\ missing = {} /\ k.stage = "independent_exit"
                        /\ k.task \in ResumptionTasks("independent_exit") \ exposed
                        /\ Resumption!BaseStage[pending.stage] # "delayed_transfer"
                     \/ /\ k.stage = Resumption!SupportStage[Resumption!BaseStage[pending.stage]]
                        /\ k.task = pending.task
<1> DEFINE k == ResumptionCheck(missing)
           base == Resumption!BaseStage[pending.stage]
           ends == missing = {} /\ \/ pending.stage \in Resumption!Independent
                                   \/ /\ pending.stage = "delayed_support"
                                      /\ Resumption!Fresh("delayed_transfer") # {}
<1>1. /\ issues \in Nat /\ pending.stage \in Resumption!Stages /\ pending.task \in Resumption!Tasks
      /\ pending.stage \in {"diagnostic", "independent_exit", "delayed_transfer"} \cup Resumption!Supported
      /\ base \in DOMAIN Resumption!Bank /\ Resumption!SupportStage[base] \in Resumption!Stages
      /\ Resumption!SupportStage[base] \in Resumption!Supported
    BY ResumptionStages DEF Resumption!Inv, Resumption!Shapes, Resumption!CheckRecords
<1>2. "independent_exit" \in DOMAIN Resumption!Bank /\ "independent_exit" \in Resumption!Stages
    BY ResumptionStages
<1>3. CASE missing # {}
  <2> DEFINE hint == Resumption!NextHint(missing)
             out == base # "diagnostic" /\ Resumption!Fresh(base) = {}
             allGiven == MoreHints # <<>> /\ Resumption!ToSet(MoreHints) \subseteq hints /\ hint = Nothing
  <2>1. k = Resumption!Check(Resumption!SupportStage[base], pending.task, hint, out, allGiven)
    BY <1>3 DEF ResumptionCheck, Resumption!AfterFailure
  <2>2. hint \in Resumption!ToSet(MoreHints) \cup {Nothing} /\ out \in BOOLEAN /\ allGiven \in BOOLEAN
    BY ResumptionHint
  <2> HIDE DEF hint, out, allGiven, k
  <2>3. /\ k \in Resumption!CheckRecords /\ k # Nothing /\ k.issued = issues + 1
        /\ k.stage = Resumption!SupportStage[base] /\ k.task = pending.task /\ k.prompt = k.task
    BY <1>1, <2>1, <2>2, ResumptionChecks
  <2>4. QED
    BY <1>1, <1>3, <2>3 DEF k
<1>4. CASE ends
    BY <1>4 DEF ResumptionCheck, Resumption!AfterPass
<1>5. CASE missing = {} /\ ~ends /\ pending.stage # "delayed_support"
           /\ Resumption!Fresh("independent_exit") # {}
  <2> DEFINE task_ == Resumption!NextFresh("independent_exit")
  <2>1. k = Resumption!Check("independent_exit", task_, Nothing, FALSE, FALSE)
    BY <1>5 DEF ResumptionCheck, Resumption!AfterPass
  <2>2. task_ \in ResumptionTasks("independent_exit") \ exposed /\ task_ \in Resumption!Tasks
    BY <1>2, <1>5, ResumptionFresh, ResumptionBanks
  <2>3. base # "delayed_transfer"
    BY <1>1, <1>5, ResumptionStages DEF Resumption!Independent
  <2> HIDE DEF task_, k
  <2>4. /\ k \in Resumption!CheckRecords /\ k # Nothing /\ k.issued = issues + 1 /\ k.hint = Nothing
        /\ k.stage = "independent_exit" /\ k.task = task_ /\ k.prompt = task_ /\ ~k.bankOut
    <3> DEFINE no == FALSE
    <3>1. Nothing \in Resumption!ToSet(MoreHints) \cup {Nothing} /\ no \in BOOLEAN
      OBVIOUS
    <3>2. k = Resumption!Check("independent_exit", task_, Nothing, no, no) /\ ~no
      BY <2>1
    <3> HIDE DEF no
    <3>3. QED
      BY <1>1, <1>2, <2>2, <3>1, <3>2, ResumptionChecks
  <2>5. QED
    BY <1>5, <2>2, <2>3, <2>4 DEF k
<1>6. CASE /\ missing = {} /\ ~ends
           /\ \/ pending.stage = "delayed_support"
              \/ Resumption!Fresh("independent_exit") = {}
  <2>1. k = Resumption!Check(Resumption!SupportStage[base], pending.task, Nothing, TRUE, FALSE)
    BY <1>6 DEF ResumptionCheck, Resumption!AfterPass
  <2> HIDE DEF k
  <2>2. /\ k \in Resumption!CheckRecords /\ k # Nothing /\ k.issued = issues + 1
        /\ k.stage = Resumption!SupportStage[base] /\ k.task = pending.task /\ k.prompt = k.task
    <3> DEFINE no == FALSE
               yes == TRUE
    <3>1. Nothing \in Resumption!ToSet(MoreHints) \cup {Nothing} /\ yes \in BOOLEAN /\ no \in BOOLEAN
      OBVIOUS
    <3>2. k = Resumption!Check(Resumption!SupportStage[base], pending.task, Nothing, yes, no)
      BY <2>1
    <3>3. issues \in Nat /\ pending.task \in Resumption!Tasks /\ Resumption!SupportStage[base] \in Resumption!Stages
      BY <1>1
    <3> DEFINE stage_ == Resumption!SupportStage[base]
    <3>4. stage_ \in Resumption!Stages /\ k = Resumption!Check(stage_, pending.task, Nothing, yes, no)
      BY <3>2, <3>3
    <3> HIDE DEF yes, no, stage_
    <3>5. k \in Resumption!CheckRecords
      BY <3>1, <3>3, <3>4 DEF Resumption!Check, Resumption!CheckRecords
    <3>6. k.issued = issues + 1 /\ k.stage = stage_ /\ k.task = pending.task /\ k.prompt = k.task
      BY <3>4 DEF Resumption!Check
    <3>7. k # Nothing
      BY <3>5, ResumptionAssumption DEF Resumption!CoachingAssumption
    <3>8. QED
      BY <3>5, <3>6, <3>7 DEF stage_
  <2>3. QED
    BY <1>1, <1>6, <2>2 DEF k
<1>7. QED
    BY <1>3, <1>4, <1>5, <1>6

\* A review that is scheduled has a task that was not seen, and its whole delay.
LEMMA ResumptionScheduled ==
    ASSUME Resumption!Inv, NEW task_ \in Resumption!ToSet(<<OnlyTask>>), NEW prompt_ \in Resumption!ToSet(<<OnlyTask>>),
           NEW days \in Nat, NEW failed_ \in BOOLEAN,
           NEW r, r = Resumption!Scheduled(task_, prompt_, days, failed_)
    PROVE  /\ r \in Resumption!ReviewRecords /\ r # Nothing
           /\ r.task = task_ /\ r.prompt = prompt_ /\ r.interval = days
           /\ r.due = r.from + r.interval /\ r.from = day
           /\ ~r.attempted /\ ~r.completed
<1>1. day \in Nat
    BY ResumptionAssumption DEF Resumption!Inv, Resumption!TypeOK, Resumption!CoachingAssumption
<1>2. Resumption!Scheduled(task_, prompt_, days, failed_) \in Resumption!ReviewRecords
    BY <1>1 DEF Resumption!Scheduled, Resumption!ReviewRecords
<1>3. Nothing \notin Resumption!ReviewRecords
    BY ResumptionAssumption DEF Resumption!CoachingAssumption
<1>4. QED
    BY <1>2, <1>3 DEF Resumption!Scheduled

\* What becomes of the review: a new one, the end of it, the start of its
\* practice, or what it was.
ResumptionNew(r) ==
    /\ r \in Resumption!ReviewRecords /\ r # Nothing
    /\ r.task \in ResumptionTasks("delayed_transfer") \ exposed
    /\ r.due = r.from + r.interval /\ r.interval >= ReviewAfter
    /\ ~r.attempted /\ ~r.completed
ResumptionGoesOn(r) ==
    /\ review # Nothing /\ r \in Resumption!ReviewRecords /\ r # Nothing
    /\ r.task = review.task /\ r.prompt = review.prompt /\ r.interval = review.interval
    /\ r.due = review.due /\ r.from = review.from /\ r.attempted

\* The review that follows an answer is fresh, or goes on as it was.
LEMMA ResumptionNextReview ==
    ASSUME Resumption!Inv, pending # Nothing, NEW missing
    PROVE  LET r == ResumptionReview(missing)
               k == ResumptionCheck(missing)
           IN  \/ r = review /\ Resumption!BaseStage[pending.stage] # "delayed_transfer"
               \/ r = review /\ pending.stage = "delayed_support" /\ k # Nothing
               \/ ResumptionNew(r) /\ k = Nothing
               \/ ResumptionGoesOn(r) /\ r.completed /\ k = Nothing /\ pending.stage = "delayed_transfer"
               \/ ResumptionGoesOn(r) /\ ~r.completed /\ k # Nothing /\ pending.stage = "delayed_transfer"
<1> DEFINE r == ResumptionReview(missing)
           k == ResumptionCheck(missing)
           base == Resumption!BaseStage[pending.stage]
           fresh == Resumption!NextFresh("delayed_transfer")
           attempted == [review EXCEPT !.attempted = TRUE]
<1>1. /\ pending.stage \in Resumption!Stages /\ review \in Resumption!ReviewRecords \cup {Nothing}
      /\ pending.stage \in {"diagnostic", "independent_exit", "delayed_transfer"} \cup Resumption!Supported
      /\ base = "delayed_transfer" <=> pending.stage \in {"delayed_transfer", "delayed_support"}
      /\ base = "delayed_transfer" => review # Nothing /\ ~review.completed /\ review.task = pending.task
      /\ review # Nothing => review.due = review.from + review.interval /\ review.interval >= ReviewAfter
      /\ review = Nothing => Resumption!ToSet(<<OnlyTask>>) \cap exposed = {}
    BY ResumptionStages
    DEF Resumption!Inv, Resumption!Shapes, Resumption!CheckRecords, Resumption!CheckIsOfItsStage, Resumption!ReviewIsFresh,
        Resumption!Supported
<1>2. /\ ReviewAfter \in Nat \ {0} /\ MaxInterval \in Nat \ {0} /\ ReviewAfter <= MaxInterval
      /\ <<OnlyTask>> \in Seq(Resumption!ToSet(<<OnlyTask>>)) /\ <<OnlyTask>> # <<>>
      /\ Head(<<OnlyTask>>) \in Resumption!ToSet(<<OnlyTask>>)
      /\ Nothing \notin Resumption!ReviewRecords
    BY ResumptionAssumption, DelayAssumption DEF Resumption!CoachingAssumption
<1>3. Resumption!Fresh("delayed_transfer") # {} => fresh \in ResumptionTasks("delayed_transfer") \ exposed
    BY ResumptionStages, ResumptionFresh
<1>4. ResumptionTasks("delayed_transfer") = Resumption!ToSet(<<OnlyTask>>)
    BY ResumptionBanks
<1>5. k # Nothing <=> ~(missing = {} /\ \/ pending.stage \in Resumption!Independent
                                        \/ /\ pending.stage = "delayed_support"
                                           /\ Resumption!Fresh("delayed_transfer") # {})
    BY ResumptionNextCheck
<1> HIDE DEF fresh, k
<1>6. CASE pending.stage = "independent_exit" /\ missing = {}
  <2>1. CASE review = Nothing
    <3>1. r = Resumption!Scheduled(Head(<<OnlyTask>>), Head(<<OnlyTask>>), ReviewAfter, FALSE)
      BY <1>6, <2>1 DEF ResumptionReview, Resumption!ReviewAfterTurn
    <3> HIDE DEF r
    <3>2. /\ r \in Resumption!ReviewRecords /\ r # Nothing /\ r.task = Head(<<OnlyTask>>)
          /\ r.interval = ReviewAfter /\ r.due = r.from + r.interval
          /\ ~r.attempted /\ ~r.completed
      <4> DEFINE no == FALSE
      <4>1. no \in BOOLEAN /\ r = Resumption!Scheduled(Head(<<OnlyTask>>), Head(<<OnlyTask>>), ReviewAfter, no)
        BY <3>1
      <4> HIDE DEF no
      <4>2. QED
        BY <1>2, <4>1, ResumptionScheduled
    <3>3. ResumptionNew(r)
      BY <1>1, <1>2, <1>4, <2>1, <3>2 DEF ResumptionNew
    <3>4. QED
      BY <1>5, <1>6, <3>3 DEF Resumption!Independent, k, r
  <2>2. CASE review # Nothing
    BY <1>1, <1>6, <2>2 DEF ResumptionReview, Resumption!ReviewAfterTurn
  <2>3. QED
    BY <2>1, <2>2
<1>7. CASE pending.stage = "delayed_transfer"
  <2>1. /\ review \in Resumption!ReviewRecords /\ attempted \in Resumption!ReviewRecords
        /\ attempted.task = review.task /\ attempted.prompt = review.prompt
        /\ attempted.interval = review.interval /\ attempted.due = review.due
        /\ attempted.from = review.from /\ attempted.attempted
        /\ attempted.completed = review.completed /\ attempted.failed = review.failed
    BY <1>1, <1>7 DEF Resumption!ReviewRecords
  <2> HIDE DEF attempted
  <2>2. CASE missing # {}
    <3>1. r = [attempted EXCEPT !.failed = TRUE]
      BY <1>7, <2>2 DEF ResumptionReview, Resumption!ReviewAfterTurn, attempted
    <3>2. ResumptionGoesOn(r) /\ ~r.completed
      BY <1>1, <1>2, <1>7, <2>1, <3>1 DEF ResumptionGoesOn, Resumption!ReviewRecords
    <3>3. QED
      BY <1>5, <1>7, <2>2, <3>2 DEF k
  <2>3. CASE missing = {} /\ Resumption!Fresh("delayed_transfer") = {}
    <3>1. r = [attempted EXCEPT !.completed = TRUE]
      BY <1>7, <2>3 DEF ResumptionReview, Resumption!ReviewAfterTurn, Resumption!Advanced, attempted
    <3>2. ResumptionGoesOn(r) /\ r.completed
      BY <1>1, <1>2, <1>7, <2>1, <3>1 DEF ResumptionGoesOn, Resumption!ReviewRecords
    <3>3. QED
      BY <1>5, <1>7, <2>3, <3>2 DEF k, Resumption!Independent
  <2>4. CASE missing = {} /\ Resumption!Fresh("delayed_transfer") # {}
    <3> DEFINE doubled == IF attempted.interval * 2 > ReviewAfter THEN attempted.interval * 2
                          ELSE ReviewAfter
               capped == IF doubled < MaxInterval THEN doubled ELSE MaxInterval
               days == IF attempted.failed THEN ReviewAfter ELSE capped
    <3>1. r = Resumption!Scheduled(fresh, fresh, days, FALSE)
      BY <1>7, <2>4 DEF ResumptionReview, Resumption!ReviewAfterTurn, Resumption!Advanced, attempted, fresh
    <3>2. days \in Nat /\ days >= ReviewAfter
      <4>1. attempted.interval \in Nat
        BY <2>1 DEF Resumption!ReviewRecords
      <4>2. QED
        BY <1>2, <4>1
    <3> HIDE DEF days
    <3> HIDE DEF r
    <3>3. /\ r \in Resumption!ReviewRecords /\ r # Nothing /\ r.task = fresh /\ r.interval = days
          /\ r.due = r.from + r.interval /\ ~r.attempted /\ ~r.completed
      <4> DEFINE no == FALSE
      <4>1. no \in BOOLEAN /\ r = Resumption!Scheduled(fresh, fresh, days, no)
        BY <3>1
      <4> HIDE DEF no
      <4>2. QED
        BY <1>3, <1>4, <2>4, <3>2, <4>1, ResumptionScheduled
    <3>4. ResumptionNew(r)
      BY <1>3, <2>4, <3>2, <3>3 DEF ResumptionNew
    <3>5. QED
      BY <1>5, <1>7, <2>4, <3>4 DEF Resumption!Independent, k, r
  <2>5. QED
    BY <2>2, <2>3, <2>4
<1>8. CASE pending.stage = "delayed_support" /\ missing = {} /\ Resumption!Fresh("delayed_transfer") # {}
  <2>1. r = Resumption!Scheduled(fresh, review.prompt, review.interval, TRUE)
    BY <1>8 DEF ResumptionReview, Resumption!ReviewAfterTurn, Resumption!Rescheduled, fresh
  <2>2. review.prompt \in Resumption!ToSet(<<OnlyTask>>) /\ review.interval \in Nat /\ review.interval >= ReviewAfter
    BY <1>1, <1>8 DEF Resumption!ReviewRecords
  <2> HIDE DEF r
  <2>3. /\ r \in Resumption!ReviewRecords /\ r # Nothing /\ r.task = fresh /\ r.interval = review.interval
        /\ r.due = r.from + r.interval /\ ~r.attempted /\ ~r.completed
    <3> DEFINE yes == TRUE
    <3>1. yes \in BOOLEAN /\ r = Resumption!Scheduled(fresh, review.prompt, review.interval, yes)
      BY <2>1
    <3> HIDE DEF yes
    <3>2. QED
      BY <1>3, <1>4, <1>8, <2>2, <3>1, ResumptionScheduled
  <2>4. ResumptionNew(r)
    BY <1>3, <1>8, <2>2, <2>3 DEF ResumptionNew
  <2>5. QED
    BY <1>5, <1>8, <2>4 DEF k, r
<1>9. CASE /\ pending.stage = "delayed_support"
           /\ missing # {} \/ Resumption!Fresh("delayed_transfer") = {}
  <2>1. r = review
    BY <1>9 DEF ResumptionReview, Resumption!ReviewAfterTurn, Resumption!Rescheduled
  <2>2. QED
    BY <1>5, <1>9, <2>1 DEF k, Resumption!Independent
<1>10. CASE /\ pending.stage \notin {"delayed_transfer", "delayed_support"}
            /\ pending.stage # "independent_exit" \/ missing # {}
    BY <1>1, <1>10 DEF ResumptionReview, Resumption!ReviewAfterTurn
<1>11. QED
    BY <1>6, <1>7, <1>8, <1>9, <1>10 DEF k

\* A gate starts without a check.
LEMMA ResumptionInit == Resumption!Init => Resumption!Inv
<1> SUFFICES ASSUME Resumption!Init PROVE Resumption!Inv
    OBVIOUS
<1>1. Resumption!TypeOK
  <2>1. Resumption!NoGoal \in [supported : BOOLEAN, independent : BOOLEAN, delayed : BOOLEAN]
    BY DEF Resumption!NoGoal
  <2>2. 0 \in 0..MaxDay
    BY ResumptionAssumption DEF Resumption!CoachingAssumption
  <2>3. DOMAIN turns = {}
    BY DEF Resumption!Init
  <2>4. QED
    BY <2>1, <2>2, <2>3 DEF Resumption!Init, Resumption!TypeOK, Resumption!Idle
<1>2. Resumption!Shapes
    BY DEF Resumption!Init, Resumption!Shapes, Resumption!Idle
<1>3. QED
    BY <1>1, <1>2
    DEF Resumption!Init, Resumption!Inv, Resumption!CheckIsOfItsStage, Resumption!TurnsAreEarlier, Resumption!ReviewIsFresh,
        Resumption!IndependentAnswersAreFresh, Resumption!AssessedOnceAsShown, Resumption!DelayedAnswersWaited

\* A request that leaves the coaching state alone keeps the invariant, also
\* when a day passes.
ResumptionTabs == [Pair -> [at : {"idle", "checked", "assess", "recorded", "done"}, issued : Nat]]

LEMMA ResumptionIdles ==
    ASSUME Resumption!Inv, UNCHANGED <<Resumption!state, issues>>, tab' \in ResumptionTabs, passed' \in BOOLEAN,
           day' \in 0..MaxDay, day <= day'
    PROVE  Resumption!Inv'
<1> USE DEF Resumption!state
<1>1. Resumption!TypeOK'
    BY DEF Resumption!Inv, Resumption!TypeOK, ResumptionTabs
<1>2. Resumption!Shapes'
    BY DEF Resumption!Inv, Resumption!Shapes, ResumptionTabs
<1>3. day \in Nat /\ (review # Nothing => review.due \in Nat)
    BY ResumptionAssumption
    DEF Resumption!Inv, Resumption!TypeOK, Resumption!Shapes, Resumption!ReviewRecords, Resumption!CoachingAssumption
<1>4. Resumption!CheckIsOfItsStage'
    BY <1>3 DEF Resumption!Inv, Resumption!CheckIsOfItsStage, Resumption!Stages, Resumption!BaseStage
<1>5. QED
    BY <1>1, <1>2, <1>4
    DEF Resumption!Inv, Resumption!TurnsAreEarlier, Resumption!ReviewIsFresh,
        Resumption!IndependentAnswersAreFresh, Resumption!AssessedOnceAsShown, Resumption!DelayedAnswersWaited

\* A check of the right bank may be bound while no other task is pending.
LEMMA ResumptionBinds ==
    ASSUME Resumption!Inv, NEW k \in Resumption!CheckRecords, k # Nothing, Resumption!Bind(k), k.issued = issues + 1,
           k.hint # Nothing \/ k.bankOut => k.stage \in Resumption!Supported,
           k.task \in ResumptionTasks(Resumption!BaseStage[k.stage]),
           k.stage \in Resumption!Independent => k.task \notin supported \cup answered,
           Resumption!BaseStage[k.stage] = "delayed_transfer" =>
               review # Nothing /\ ~review.completed /\ review.task = k.task,
           k.stage = "delayed_transfer" => review.due <= day,
           pending # Nothing => k.task = pending.task,
           UNCHANGED <<turns, goal, review, answered, passed, day>>,
           hints' \subseteq Resumption!ToSet(MoreHints), tab' \in ResumptionTabs
    PROVE  Resumption!Inv' /\ pending' \in Resumption!CheckRecords /\ pending' # Nothing
<1>1. /\ issues \in Nat /\ issues' = issues + 1 /\ pending' = k /\ exposed' = exposed \cup {k.task}
      /\ supported' \subseteq supported \cup {k.task}
      /\ k.stage \notin Resumption!Supported => supported' = supported
    BY DEF Resumption!Inv, Resumption!Shapes, Resumption!Bind
<1>2. k.stage \in Resumption!Stages /\ k.task \in Resumption!Tasks
    BY DEF Resumption!CheckRecords
<1>3. Resumption!TypeOK'
    BY <1>1, <1>2 DEF Resumption!Inv, Resumption!TypeOK, ResumptionTabs
<1>4. Resumption!Shapes'
    BY <1>1 DEF Resumption!Inv, Resumption!Shapes, ResumptionTabs
<1>5. k.stage \in Resumption!Independent => k.stage \notin Resumption!Supported
    BY DEF Resumption!Independent, Resumption!Supported
<1>6. Resumption!CheckIsOfItsStage'
    BY <1>1, <1>5 DEF Resumption!CheckIsOfItsStage, ResumptionTasks
<1>7. \A i \in DOMAIN turns : turns[i].issued \in Nat
  <2>1. turns \in Seq(Resumption!TurnRecords)
    BY DEF Resumption!Inv, Resumption!Shapes
  <2>2. \A i \in DOMAIN turns : turns[i] \in Resumption!TurnRecords
    BY <2>1
  <2>3. QED
    BY <2>2 DEF Resumption!TurnRecords
<1>8. Resumption!TurnsAreEarlier'
    BY <1>1, <1>7 DEF Resumption!Inv, Resumption!TurnsAreEarlier
<1>9. Resumption!ReviewIsFresh'
  <2>1. review = Nothing => k.task \notin Resumption!ToSet(<<OnlyTask>>)
    <3>1. /\ review = Nothing => Resumption!BaseStage[k.stage] # "delayed_transfer"
          /\ Resumption!BaseStage[k.stage] \in {"diagnostic", "independent_exit", "delayed_transfer"}
      BY <1>2, ResumptionStages
    <3>2. QED
      BY <3>1, ResumptionBanks
  <2>2. QED
    BY <1>1, <2>1 DEF Resumption!Inv, Resumption!ReviewIsFresh
<1>10. Resumption!Inv'
    BY <1>3, <1>4, <1>6, <1>8, <1>9
    DEF Resumption!Inv, Resumption!IndependentAnswersAreFresh, Resumption!AssessedOnceAsShown,
        Resumption!DelayedAnswersWaited
<1>11. QED
    BY <1>1, <1>10

\* A turn that finds no check binds the first one of the gate.
LEMMA ResumptionPrepare ==
    ASSUME Resumption!Inv, NEW t \in Pair, Resumption!Prepare(t)
    PROVE  Resumption!Inv' /\ pending' \in Resumption!CheckRecords /\ pending' # Nothing
<1>1. CASE pending # Nothing
  <2>1. pending.issued \in Nat /\ pending' = pending
    BY <1>1 DEF Resumption!Prepare, Resumption!state, Resumption!Inv, Resumption!Shapes, Resumption!CheckRecords
  <2>2. tab' \in ResumptionTabs /\ UNCHANGED <<Resumption!state, issues, passed, day>>
    BY <1>1, <2>1 DEF Resumption!Prepare, Resumption!Inv, Resumption!Shapes, ResumptionTabs
  <2>3. day \in 0..MaxDay /\ MaxDay \in Nat /\ passed \in BOOLEAN
    BY ResumptionAssumption DEF Resumption!Inv, Resumption!TypeOK, Resumption!CoachingAssumption
  <2>4. Resumption!Inv'
    BY <2>2, <2>3, ResumptionIdles
  <2>5. QED
    BY <1>1, <2>1, <2>4 DEF Resumption!Inv, Resumption!Shapes
<1>2. CASE pending = Nothing
  <2> DEFINE k == Resumption!Check(Resumption!InitialStage, Resumption!Bank[Resumption!InitialStage][1], Nothing, FALSE, FALSE)
  <2>1. /\ Resumption!InitialStage = "diagnostic" /\ Resumption!Bank[Resumption!InitialStage][1] = "baseline"
        /\ Resumption!BaseStage["diagnostic"] = "diagnostic"
    BY DEF Resumption!InitialStage, Resumption!Bank, Resumption!BaseStage
  <2>2. "diagnostic" \in Resumption!Stages /\ "baseline" \in Resumption!Tasks /\ "baseline" \in ResumptionTasks("diagnostic")
    BY ResumptionStages, ResumptionBanks
  <2>3. /\ k \in Resumption!CheckRecords /\ k # Nothing /\ k.stage = "diagnostic" /\ k.task = "baseline"
        /\ k.hint = Nothing /\ ~k.bankOut /\ k.issued = issues + 1
    <3> DEFINE no == FALSE
    <3>1. /\ Nothing \in Resumption!ToSet(MoreHints) \cup {Nothing} /\ no \in BOOLEAN /\ issues \in Nat
          /\ k = Resumption!Check("diagnostic", "baseline", Nothing, no, no) /\ ~no
      BY <2>1 DEF Resumption!Inv, Resumption!Shapes
    <3> HIDE DEF no, k
    <3>2. QED
      BY <2>2, <3>1, ResumptionChecks
  <2>4. Resumption!Bind(k) /\ UNCHANGED <<answered, hints, turns, goal, review, passed, day>>
    BY <1>2 DEF Resumption!Prepare
  <2> HIDE DEF k
  <2>5. pending' = k /\ k.issued \in Nat
    BY <2>3, <2>4 DEF Resumption!Bind, Resumption!CheckRecords
  <2>6. tab' \in ResumptionTabs /\ hints' \subseteq Resumption!ToSet(MoreHints)
    BY <2>4, <2>5 DEF Resumption!Prepare, Resumption!Inv, Resumption!Shapes, Resumption!TypeOK, ResumptionTabs
  <2>7. "diagnostic" \notin Resumption!Independent
    BY DEF Resumption!Independent
  <2>8. QED
    BY <1>2, <2>1, <2>2, <2>3, <2>4, <2>6, <2>7, ResumptionBinds
<1>3. QED
    BY <1>1, <1>2

\* Help makes supported practice of the check that is pending.
LEMMA ResumptionRequestSupport ==
    ASSUME Resumption!Inv, Resumption!RequestSupport
    PROVE  Resumption!Inv' /\ pending' \in Resumption!CheckRecords /\ pending' # Nothing
<1> DEFINE stage_ == Resumption!SupportStage[pending.stage]
           out == pending.stage # "diagnostic" /\ Resumption!Fresh(pending.stage) = {}
           k == [pending EXCEPT !.stage = stage_, !.hint = Head(MoreHints), !.bankOut = out,
                                !.issued = issues + 1]
<1>1. /\ pending \in Resumption!CheckRecords /\ pending # Nothing /\ issues \in Nat
      /\ pending.stage \in Resumption!Stages /\ pending.stage \notin Resumption!Supported
      /\ pending.task \in ResumptionTasks(Resumption!BaseStage[pending.stage]) /\ tab \in ResumptionTabs
    BY DEF Resumption!RequestSupport, Resumption!Inv, Resumption!Shapes, Resumption!CheckRecords, Resumption!CheckIsOfItsStage,
        ResumptionTasks, ResumptionTabs
<1>2. /\ stage_ \in Resumption!Supported /\ stage_ \in Resumption!Stages
      /\ Resumption!BaseStage[stage_] = Resumption!BaseStage[pending.stage]
    BY <1>1, ResumptionStages
<1>3. Head(MoreHints) \in Resumption!ToSet(MoreHints)
  <2>1. MoreHints \in Seq(Resumption!ToSet(MoreHints)) /\ MoreHints # <<>>
    BY ResumptionAssumption DEF Resumption!CoachingAssumption, Resumption!RequestSupport
  <2>2. QED
    BY <2>1
<1>4. Resumption!Bind(k) /\ hints' = hints \cup {Head(MoreHints)}
      /\ UNCHANGED <<answered, turns, goal, review, passed, tab, day>>
    BY DEF Resumption!RequestSupport
<1>5. /\ k \in Resumption!CheckRecords /\ k.stage = stage_ /\ k.task = pending.task
      /\ k.issued = issues + 1
  <2>1. out \in BOOLEAN
    OBVIOUS
  <2> HIDE DEF stage_, out
  <2>2. Head(MoreHints) \in Resumption!ToSet(MoreHints) \cup {Nothing} /\ issues + 1 \in Nat
    BY <1>1, <1>3
  <2>3. ASSUME NEW o \in BOOLEAN, o = out
        PROVE  /\ k \in Resumption!CheckRecords /\ k.stage = stage_ /\ k.task = pending.task
               /\ k.issued = issues + 1
    <3>1. k = [pending EXCEPT !.stage = stage_, !.hint = Head(MoreHints), !.bankOut = o,
                              !.issued = issues + 1]
      BY <2>3, Zenon
    <3> HIDE DEF k
    <3>2. /\ pending \in Resumption!CheckRecords /\ stage_ \in Resumption!Stages
          /\ Head(MoreHints) \in Resumption!ToSet(MoreHints) \cup {Nothing} /\ issues + 1 \in Nat
      BY <1>1, <1>2, <2>2
    <3> DEFINE h == Head(MoreHints)
               n == issues + 1
               q == [pending EXCEPT !.stage = stage_, !.hint = h, !.bankOut = o, !.issued = n]
    <3>3. h \in Resumption!ToSet(MoreHints) \cup {Nothing} /\ n \in Nat /\ k = q /\ n = issues + 1
      BY <3>1, <3>2
    <3> HIDE DEF h, n
    <3>4. q \in Resumption!CheckRecords
      BY <2>3, <3>2, <3>3 DEF Resumption!CheckRecords
    <3>5. q.stage = stage_ /\ q.task = pending.task /\ q.issued = n
      BY <3>2 DEF Resumption!CheckRecords
    <3> HIDE DEF q
    <3>6. QED
      BY <3>3, <3>4, <3>5
  <2>4. QED
    BY <2>1, <2>3, Zenon
<1>6. k # Nothing
    BY <1>5, ResumptionAssumption DEF Resumption!CoachingAssumption
<1>7. hints' \subseteq Resumption!ToSet(MoreHints)
    BY <1>3, <1>4 DEF Resumption!Inv, Resumption!TypeOK
<1>8. Resumption!BaseStage[pending.stage] = "delayed_transfer" =>
          review # Nothing /\ ~review.completed /\ review.task = pending.task
    BY <1>1 DEF Resumption!Inv, Resumption!CheckIsOfItsStage
<1>9. stage_ \notin Resumption!Independent /\ stage_ # "delayed_transfer"
    BY <1>2 DEF Resumption!Supported, Resumption!Independent
<1> HIDE DEF k, stage_
<1>10. QED
    BY <1>1, <1>2, <1>4, <1>5, <1>6, <1>7, <1>8, <1>9, ResumptionBinds

\* An opened review asks for a task that was not seen before, on its day.
LEMMA ResumptionOpenReview ==
    ASSUME Resumption!Inv, Resumption!OpenReview
    PROVE  Resumption!Inv' /\ pending' \in Resumption!CheckRecords /\ pending' # Nothing
<1> DEFINE c == Resumption!Check("delayed_transfer", review.task, Nothing, FALSE, FALSE)
           k == [c EXCEPT !.prompt = review.prompt]
<1>1. /\ review \in Resumption!ReviewRecords /\ review # Nothing /\ issues \in Nat /\ pending = Nothing
      /\ ~review.completed /\ review.task \notin exposed /\ tab \in ResumptionTabs
      /\ supported \cup answered \subseteq exposed
    BY DEF Resumption!OpenReview, Resumption!Inv, Resumption!Shapes, Resumption!ReviewIsFresh, ResumptionTabs
<1>2. /\ review.task \in ResumptionTasks("delayed_transfer") /\ review.prompt \in Resumption!Tasks
      /\ review.task \in Resumption!Tasks
      /\ "delayed_transfer" \in Resumption!Stages /\ Resumption!BaseStage["delayed_transfer"] = "delayed_transfer"
  <2>1. "delayed_transfer" \in DOMAIN Resumption!Bank /\ "delayed_transfer" \in Resumption!Stages
        /\ "delayed_transfer" \notin Resumption!Supported
    BY ResumptionStages DEF Resumption!Supported
  <2>2. QED
    BY <1>1, <2>1, ResumptionStages, ResumptionBanks DEF Resumption!ReviewRecords
<1>3. /\ c \in Resumption!CheckRecords /\ c.stage = "delayed_transfer" /\ c.task = review.task
      /\ c.hint = Nothing /\ ~c.bankOut /\ c.issued = issues + 1
  <2> DEFINE no == FALSE
  <2>1. /\ Nothing \in Resumption!ToSet(MoreHints) \cup {Nothing} /\ no \in BOOLEAN
        /\ c = Resumption!Check("delayed_transfer", review.task, Nothing, no, no) /\ ~no
    OBVIOUS
  <2> HIDE DEF no, c
  <2>2. QED
    BY <1>1, <1>2, <2>1, ResumptionChecks
<1>4. Resumption!Bind(k) /\ UNCHANGED <<answered, hints, turns, goal, review, passed, tab, day>>
    BY DEF Resumption!OpenReview
<1> HIDE DEF c
<1>5. /\ k \in Resumption!CheckRecords /\ k.stage = "delayed_transfer" /\ k.task = review.task
      /\ k.hint = Nothing /\ ~k.bankOut /\ k.issued = issues + 1
    BY <1>2, <1>3 DEF Resumption!CheckRecords
<1>6. k # Nothing
    BY <1>5, ResumptionAssumption DEF Resumption!CoachingAssumption
<1>7. hints' \subseteq Resumption!ToSet(MoreHints) /\ review.due <= day
    BY <1>4 DEF Resumption!Inv, Resumption!TypeOK, Resumption!OpenReview
<1> HIDE DEF k
<1>8. QED
    BY <1>1, <1>2, <1>4, <1>5, <1>6, <1>7, ResumptionBinds

\* Recovery empties the coaching state, or stops before it does.
LEMMA ResumptionRecover ==
    ASSUME Resumption!Inv, Resumption!Recover
    PROVE  Resumption!Inv'
<1>1. day \in 0..MaxDay /\ MaxDay \in Nat /\ tab \in ResumptionTabs
    BY ResumptionAssumption DEF Resumption!Inv, Resumption!TypeOK, Resumption!Shapes, ResumptionTabs, Resumption!CoachingAssumption
<1>2. CASE UNCHANGED Resumption!state
  <2>1. /\ UNCHANGED <<Resumption!state, issues>> /\ tab' \in ResumptionTabs /\ passed' \in BOOLEAN
        /\ day' \in 0..MaxDay /\ day <= day'
    <3>1. tab' = tab /\ day' = day /\ issues' = issues
      BY DEF Resumption!Recover
    <3>2. passed' \in BOOLEAN
      BY Zenon DEF Resumption!Recover
    <3>3. day \in 0..MaxDay /\ day <= day
      BY <1>1
    <3>4. tab' \in ResumptionTabs /\ day' \in 0..MaxDay /\ day <= day'
      BY <1>1, <3>1, <3>3, Zenon
    <3>5. QED
      BY <1>2, <3>1, <3>2, <3>4, Zenon
  <2>2. QED
    BY <2>1, ResumptionIdles
<1>3. CASE Resumption!Emptied
  <2>1. Resumption!NoGoal \in [supported : BOOLEAN, independent : BOOLEAN, delayed : BOOLEAN]
    BY DEF Resumption!NoGoal
  <2>2. /\ pending' = Nothing /\ review' = Nothing /\ exposed' = {} /\ supported' = {}
        /\ answered' = {} /\ hints' = {} /\ turns' = <<>> /\ goal' = Resumption!NoGoal
        /\ passed' = FALSE /\ UNCHANGED <<tab, day, issues>>
    BY <1>3 DEF Resumption!Recover, Resumption!Emptied
  <2>3. DOMAIN turns' = {}
    BY <2>2
  <2>4. Resumption!TypeOK'
    BY <1>1, <2>1, <2>2, <2>3 DEF Resumption!TypeOK, ResumptionTabs
  <2>5. Resumption!Shapes'
    BY <1>1, <2>2 DEF Resumption!Inv, Resumption!Shapes, ResumptionTabs
  <2>6. QED
    BY <2>2, <2>3, <2>4, <2>5
    DEF Resumption!Inv, Resumption!CheckIsOfItsStage, Resumption!TurnsAreEarlier, Resumption!ReviewIsFresh,
        Resumption!IndependentAnswersAreFresh, Resumption!AssessedOnceAsShown, Resumption!DelayedAnswersWaited
<1>4. QED
    BY <1>2, <1>3 DEF Resumption!Recover

\* The turn that is recorded, and what its record writes.
ResumptionTurn(t, missing) ==
    [kind |-> Resumption!AttemptKind(pending.stage), task |-> pending.task, missing |-> missing,
     issued |-> pending.issued, seen |-> tab[t].issued,
     fresh |-> pending.task \notin supported \cup answered,
     waited |-> IF review = Nothing THEN 0 ELSE day - review.from]

\* What a record finds and writes.
LEMMA ResumptionRecords ==
    ASSUME Resumption!Inv, NEW t \in Pair, NEW missing \in SUBSET Evidence, Resumption!Record(t, missing)
    PROVE  /\ pending \in Resumption!CheckRecords /\ pending # Nothing /\ ~pending.supportOut
           /\ pending.issued = tab[t].issued
           /\ turns' = Append(turns, ResumptionTurn(t, missing))
           /\ goal' = Resumption!GoalAfter(Resumption!AttemptKind(pending.stage), missing)
           /\ review' = ResumptionReview(missing) /\ answered' = answered \cup {pending.task}
           /\ IF ResumptionCheck(missing) # Nothing THEN Resumption!Bind(ResumptionCheck(missing))
              ELSE pending' = Nothing /\ UNCHANGED <<exposed, supported, issues>>
           /\ hints \subseteq hints' /\ hints' \subseteq Resumption!ToSet(MoreHints)
           /\ ResumptionCheck(missing) # Nothing => ResumptionCheck(missing).hint \in hints' \cup {Nothing}
           /\ tab' \in ResumptionTabs /\ passed' = passed /\ day' = day
<1> DEFINE k == ResumptionCheck(missing)
<1>1. /\ pending # Nothing /\ pending.issued = tab[t].issued /\ ~pending.supportOut
      /\ turns' = Append(turns, ResumptionTurn(t, missing))
      /\ goal' = Resumption!GoalAfter(Resumption!AttemptKind(pending.stage), missing)
      /\ review' = ResumptionReview(missing) /\ answered' = answered \cup {pending.task}
      /\ passed' = passed /\ day' = day
    BY DEF Resumption!Record, Resumption!Bound, ResumptionTurn, ResumptionReview
<1>2. /\ hints' = IF k # Nothing /\ k.hint # Nothing THEN hints \cup {k.hint} ELSE hints
      /\ IF k # Nothing THEN Resumption!Bind(k)
         ELSE pending' = Nothing /\ UNCHANGED <<exposed, supported, issues>>
    BY DEF Resumption!Record, ResumptionCheck
<1>3. tab' \in ResumptionTabs
    BY DEF Resumption!Record, Resumption!Inv, Resumption!Shapes, ResumptionTabs
<1>4. k # Nothing => k.hint \in Resumption!ToSet(MoreHints) \cup {Nothing}
    BY <1>1, ResumptionNextCheck DEF Resumption!CheckRecords
<1>5. pending \in Resumption!CheckRecords /\ hints \subseteq Resumption!ToSet(MoreHints)
    BY <1>1 DEF Resumption!Inv, Resumption!Shapes, Resumption!TypeOK
<1> HIDE DEF k
<1>6. hints \subseteq hints' /\ hints' \subseteq Resumption!ToSet(MoreHints)
      /\ (k # Nothing => k.hint \in hints' \cup {Nothing})
    BY <1>2, <1>4, <1>5
<1>7. QED
    BY <1>1, <1>2, <1>3, <1>5, <1>6 DEF k

\* The check that a record leaves pending.
LEMMA ResumptionRecordChecks ==
    ASSUME Resumption!Inv, NEW t \in Pair, NEW missing \in SUBSET Evidence, Resumption!Record(t, missing)
    PROVE  /\ pending' \in Resumption!CheckRecords \cup {Nothing} /\ issues' \in Nat /\ issues <= issues'
           /\ exposed \subseteq exposed' /\ exposed' \subseteq Resumption!Tasks
           /\ supported' \subseteq exposed' /\ answered' \subseteq exposed'
           /\ pending' = Nothing <=> ResumptionCheck(missing) = Nothing
           /\ pending' = Nothing => exposed' = exposed
           /\ pending' # Nothing =>
                 /\ pending' = ResumptionCheck(missing) /\ issues' = issues + 1 /\ pending'.issued = issues'
                 /\ pending'.hint # Nothing \/ pending'.bankOut => pending'.stage \in Resumption!Supported
                 /\ pending'.task \in ResumptionTasks(Resumption!BaseStage[pending'.stage])
                 /\ exposed' = exposed \cup {pending'.task}
                 /\ pending'.stage \in Resumption!Independent =>
                        pending'.task \notin supported' \cup answered'
                 /\ pending'.stage # "delayed_transfer"
                 /\ \/ /\ Resumption!BaseStage[pending'.stage] = Resumption!BaseStage[pending.stage]
                       /\ pending'.task = pending.task
                    \/ /\ Resumption!BaseStage[pending.stage] # "delayed_transfer"
                       /\ Resumption!BaseStage[pending'.stage] = "independent_exit"
<1> DEFINE k == ResumptionCheck(missing)
           base == Resumption!BaseStage[pending.stage]
<1>1. /\ pending \in Resumption!CheckRecords /\ pending # Nothing /\ answered' = answered \cup {pending.task}
      /\ IF k # Nothing THEN Resumption!Bind(k)
         ELSE pending' = Nothing /\ UNCHANGED <<exposed, supported, issues>>
    BY ResumptionRecords
<1>2. /\ issues \in Nat /\ exposed \subseteq Resumption!Tasks /\ supported \subseteq exposed
      /\ answered \subseteq exposed /\ pending.task \in exposed /\ pending.task \in ResumptionTasks(base)
      /\ pending.stage \in Resumption!Stages
    BY <1>1 DEF Resumption!Inv, Resumption!TypeOK, Resumption!Shapes, Resumption!CheckIsOfItsStage, Resumption!CheckRecords, ResumptionTasks
<1>3. /\ base \in DOMAIN Resumption!Bank /\ Resumption!SupportStage[base] \in Resumption!Supported
      /\ Resumption!BaseStage[Resumption!SupportStage[base]] = base
      /\ Resumption!BaseStage["independent_exit"] = "independent_exit"
  <2>1. "independent_exit" \in Resumption!Stages /\ "independent_exit" \notin Resumption!Supported
    BY ResumptionStages DEF Resumption!Supported
  <2>2. QED
    BY <1>2, <2>1, ResumptionStages
<1>4. Resumption!Supported \cap Resumption!Independent = {} /\ "delayed_transfer" \notin Resumption!Supported
    BY DEF Resumption!Supported, Resumption!Independent
<1>5. CASE k = Nothing
  <2> HIDE DEF k
  <2>1. QED
    BY <1>1, <1>2, <1>5 DEF k
<1>6. CASE k # Nothing
  <2>1. /\ k \in Resumption!CheckRecords /\ k.issued = issues + 1
        /\ k.hint # Nothing \/ k.bankOut => k.stage \in Resumption!Supported
        /\ \/ /\ k.stage = "independent_exit"
              /\ k.task \in ResumptionTasks("independent_exit") \ exposed
              /\ base # "delayed_transfer"
           \/ /\ k.stage = Resumption!SupportStage[base]
              /\ k.task = pending.task
    BY <1>1, <1>6, ResumptionNextCheck
  <2> HIDE DEF k, base
  <2>2. /\ pending' = k /\ issues' = issues + 1 /\ exposed' = exposed \cup {k.task}
        /\ supported' \subseteq supported \cup {k.task}
        /\ k.stage \notin Resumption!Supported => supported' = supported
    BY <1>1, <1>6 DEF Resumption!Bind
  <2>3. k.task \in Resumption!Tasks /\ k.task \in ResumptionTasks(Resumption!BaseStage[k.stage])
    BY <1>2, <1>3, <2>1 DEF Resumption!CheckRecords
  <2>4. k.stage \in Resumption!Independent => k.task \notin supported' \cup answered'
    BY <1>1, <1>2, <1>3, <1>4, <2>1, <2>2
  <2>5. /\ k.stage # "delayed_transfer"
        /\ \/ Resumption!BaseStage[k.stage] = base /\ k.task = pending.task
           \/ base # "delayed_transfer" /\ Resumption!BaseStage[k.stage] = "independent_exit"
    BY <1>3, <1>4, <2>1
  <2>6. QED
    BY <1>1, <1>2, <1>6, <2>1, <2>2, <2>3, <2>4, <2>5 DEF k, base
<1>7. QED
    BY <1>5, <1>6

\* After a record the check that is pending fits the review, and a review that
\* waits to be opened asks for a task that was not seen.
LEMMA ResumptionRecordReviews ==
    ASSUME Resumption!Inv, NEW t \in Pair, NEW missing \in SUBSET Evidence, Resumption!Record(t, missing)
    PROVE  /\ review' \in Resumption!ReviewRecords \cup {Nothing}
           /\ Resumption!CheckIsOfItsStage' /\ Resumption!ReviewIsFresh'
<1> DEFINE k == ResumptionCheck(missing)
           base == Resumption!BaseStage[pending.stage]
<1>1. /\ pending \in Resumption!CheckRecords /\ pending # Nothing /\ review' = ResumptionReview(missing)
      /\ day' = day
    BY ResumptionRecords
<1>2. /\ review \in Resumption!ReviewRecords \cup {Nothing} /\ pending.task \in exposed
      /\ pending.task \in ResumptionTasks(base) /\ pending.stage \in Resumption!Stages
      /\ base = "delayed_transfer" =>
            review # Nothing /\ ~review.completed /\ review.task = pending.task
      /\ review = Nothing => Resumption!ToSet(<<OnlyTask>>) \cap exposed = {}
      /\ review # Nothing =>
            /\ review.due = review.from + review.interval /\ review.interval >= ReviewAfter
            /\ ~review.attempted /\ ~review.completed =>
                  review.task \notin exposed \/ pending.task = review.task
    BY <1>1
    DEF Resumption!Inv, Resumption!Shapes, Resumption!CheckIsOfItsStage, Resumption!ReviewIsFresh, Resumption!CheckRecords, ResumptionTasks
<1>3. /\ pending' \in Resumption!CheckRecords \cup {Nothing} /\ exposed \subseteq exposed'
      /\ pending' = Nothing <=> k = Nothing
      /\ pending' = Nothing => exposed' = exposed
      /\ pending' # Nothing =>
            /\ pending'.task \in ResumptionTasks(Resumption!BaseStage[pending'.stage])
            /\ exposed' = exposed \cup {pending'.task}
            /\ pending'.stage \in Resumption!Independent => pending'.task \notin supported' \cup answered'
            /\ pending'.stage # "delayed_transfer"
            /\ \/ Resumption!BaseStage[pending'.stage] = base /\ pending'.task = pending.task
               \/ base # "delayed_transfer" /\ Resumption!BaseStage[pending'.stage] = "independent_exit"
    BY ResumptionRecordChecks
<1>4. \/ review' = review /\ base # "delayed_transfer"
      \/ review' = review /\ pending.stage = "delayed_support" /\ k # Nothing
      \/ ResumptionNew(review') /\ k = Nothing
      \/ ResumptionGoesOn(review') /\ review'.completed /\ k = Nothing /\ pending.stage = "delayed_transfer"
      \/ ResumptionGoesOn(review') /\ ~review'.completed /\ k # Nothing /\ pending.stage = "delayed_transfer"
    BY <1>1, ResumptionNextReview
<1>5. /\ base \in {"diagnostic", "independent_exit", "delayed_transfer"}
      /\ pending.stage \in {"delayed_transfer", "delayed_support"} <=> base = "delayed_transfer"
  <2>1. "delayed_transfer" \notin Resumption!Supported /\ "delayed_support" \in Resumption!Supported
    BY DEF Resumption!Supported
  <2>2. "delayed_transfer" \in Resumption!Stages /\ "delayed_support" \in Resumption!Stages
    BY <2>1, ResumptionStages
  <2>3. QED
    BY <1>2, <2>1, <2>2, ResumptionStages
<1>6. /\ ResumptionTasks("delayed_transfer") = Resumption!ToSet(<<OnlyTask>>)
      /\ ResumptionTasks("diagnostic") \cap ResumptionTasks("delayed_transfer") = {}
      /\ ResumptionTasks("independent_exit") \cap ResumptionTasks("delayed_transfer") = {}
    BY ResumptionBanks
<1> HIDE DEF k, base
<1>7. review' \in Resumption!ReviewRecords \cup {Nothing}
    BY <1>2, <1>4 DEF ResumptionNew, ResumptionGoesOn
<1>8. Resumption!CheckIsOfItsStage'
  <2>1. ASSUME pending' # Nothing, Resumption!BaseStage[pending'.stage] = "delayed_transfer"
        PROVE  review' # Nothing /\ ~review'.completed /\ review'.task = pending'.task
    <3>1. base = "delayed_transfer" /\ pending'.task = pending.task /\ k # Nothing
      BY <1>3, <2>1
    <3>2. QED
      BY <1>2, <1>4, <3>1 DEF ResumptionGoesOn
  <2>2. QED
    BY <1>3, <2>1 DEF Resumption!CheckIsOfItsStage, ResumptionTasks
<1>9. review' = Nothing => Resumption!ToSet(<<OnlyTask>>) \cap exposed' = {}
  <2>1. SUFFICES ASSUME review' = Nothing, pending' # Nothing
                 PROVE  pending'.task \notin Resumption!ToSet(<<OnlyTask>>) /\ review = Nothing
    BY <1>2, <1>3, <1>4 DEF ResumptionNew, ResumptionGoesOn
  <2>2. review = Nothing /\ base # "delayed_transfer"
    BY <1>2, <1>4, <2>1 DEF ResumptionNew, ResumptionGoesOn
  <2>3. QED
    BY <1>2, <1>3, <1>5, <1>6, <2>1, <2>2
<1>10. ASSUME review' # Nothing
       PROVE  /\ review'.due = review'.from + review'.interval /\ review'.interval >= ReviewAfter
              /\ ~review'.attempted /\ ~review'.completed =>
                    \/ review'.task \notin exposed'
                    \/ pending' # Nothing /\ pending'.task = review'.task
  <2>1. CASE review' = review /\ base # "delayed_transfer"
    <3>1. review.task \in ResumptionTasks("delayed_transfer")
      BY <1>2, <1>6, <1>10, <2>1 DEF Resumption!ReviewRecords
    <3>2. review.task # pending.task
      BY <1>2, <1>5, <1>6, <2>1, <3>1
    <3>3. pending' # Nothing => pending'.task # review.task
      BY <1>3, <1>5, <1>6, <2>1, <3>1, <3>2
    <3>4. QED
      BY <1>2, <1>3, <1>10, <2>1, <3>2, <3>3
  <2>2. CASE review' = review /\ pending.stage = "delayed_support" /\ k # Nothing
    BY <1>2, <1>3, <1>5, <1>10, <2>2
  <2>3. CASE ResumptionNew(review') /\ k = Nothing
    BY <1>3, <2>3 DEF ResumptionNew
  <2>4. CASE ResumptionGoesOn(review')
    BY <1>2, <2>4 DEF ResumptionGoesOn
  <2>5. QED
    BY <1>4, <2>1, <2>2, <2>3, <2>4
<1>11. Resumption!ReviewIsFresh'
    BY <1>9, <1>10 DEF Resumption!ReviewIsFresh
<1>12. QED
    BY <1>7, <1>8, <1>11

\* The turn that is recorded answers the check it was shown, alone if it says
\* so and not before its day.
LEMMA ResumptionRecordTurns ==
    ASSUME Resumption!Inv, NEW t \in Pair, NEW missing \in SUBSET Evidence, Resumption!Record(t, missing)
    PROVE  /\ turns' \in Seq(Resumption!TurnRecords) /\ Resumption!TurnsAreEarlier'
           /\ Resumption!IndependentAnswersAreFresh' /\ Resumption!AssessedOnceAsShown'
           /\ Resumption!DelayedAnswersWaited'
<1> DEFINE e == ResumptionTurn(t, missing)
<1>1. /\ pending \in Resumption!CheckRecords /\ pending # Nothing /\ pending.issued = tab[t].issued
      /\ turns' = Append(turns, e) /\ answered' = answered \cup {pending.task}
    BY ResumptionRecords
<1>2. /\ turns \in Seq(Resumption!TurnRecords) /\ tab \in ResumptionTabs /\ day \in Nat /\ issues \in Nat
      /\ pending.issued \in 1..issues /\ review \in Resumption!ReviewRecords \cup {Nothing}
      /\ pending.stage \in Resumption!Stages /\ pending.task \in Resumption!Tasks
      /\ pending.stage \in Resumption!Independent => pending.task \notin supported \cup answered
      /\ pending.stage = "delayed_transfer" =>
            review # Nothing /\ review.due <= day /\ review.due = review.from + review.interval
            /\ review.interval >= ReviewAfter
    BY <1>1, ResumptionAssumption
    DEF Resumption!Inv, Resumption!TypeOK, Resumption!Shapes, Resumption!CheckIsOfItsStage, Resumption!ReviewIsFresh,
        Resumption!CheckRecords, ResumptionTabs, Resumption!CoachingAssumption, Resumption!BaseStage
<1>3. /\ e.kind = Resumption!AttemptKind(pending.stage) /\ e.task = pending.task
      /\ e.issued = pending.issued /\ e.seen = tab[t].issued
      /\ e.fresh <=> pending.task \notin supported \cup answered
      /\ e.waited = IF review = Nothing THEN 0 ELSE day - review.from
    BY DEF ResumptionTurn
<1>4. /\ e.kind \in Resumption!Independent \cup {"diagnostic", "supported_retry"}
      /\ e.kind \in Resumption!Independent => pending.stage \in Resumption!Independent
      /\ e.kind = "delayed_transfer" => pending.stage = "delayed_transfer"
    BY <1>2, <1>3, ResumptionStages DEF Resumption!AttemptKind, Resumption!Independent, Resumption!Supported
<1>5. e \in Resumption!TurnRecords
  <2>1. tab[t].issued \in Nat /\ e.waited \in Int
    BY <1>2, <1>3 DEF ResumptionTabs, Resumption!ReviewRecords
  <2>2. (pending.task \notin supported \cup answered) \in BOOLEAN
    OBVIOUS
  <2>3. QED
    BY <1>2, <1>3, <1>4, <2>1, <2>2 DEF ResumptionTurn, Resumption!TurnRecords
<1> HIDE DEF e
<1>6. turns' \in Seq(Resumption!TurnRecords)
    BY <1>1, <1>2, <1>5
<1>7. \A i \in DOMAIN turns' : \/ i \in DOMAIN turns /\ turns'[i] = turns[i]
                               \/ i = Len(turns) + 1 /\ turns'[i] = e
    BY <1>1, <1>2, <1>5
<1>8. \A i \in DOMAIN turns : /\ turns[i].task \in answered /\ turns[i].issued <= issues
                              /\ turns[i].issued < pending.issued /\ turns[i].issued \in Nat
  <2>1. \A i \in DOMAIN turns : turns[i] \in Resumption!TurnRecords
    BY <1>2
  <2>2. QED
    BY <1>1, <2>1 DEF Resumption!Inv, Resumption!TurnsAreEarlier, Resumption!TurnRecords
<1>9. Resumption!TurnsAreEarlier'
  <2>1. /\ issues' \in Nat /\ issues <= issues'
        /\ pending' # Nothing => pending'.issued = issues + 1
    BY ResumptionRecordChecks
  <2>2. QED
    BY <1>1, <1>2, <1>3, <1>7, <1>8, <2>1 DEF Resumption!TurnsAreEarlier
<1>10. Resumption!IndependentAnswersAreFresh'
    BY <1>2, <1>3, <1>4, <1>7 DEF Resumption!Inv, Resumption!IndependentAnswersAreFresh
<1>11. Resumption!AssessedOnceAsShown'
  <2>1. \A i \in DOMAIN turns' : turns'[i].issued = turns'[i].seen
    BY <1>1, <1>3, <1>7 DEF Resumption!Inv, Resumption!AssessedOnceAsShown
  <2>2. ASSUME NEW i \in DOMAIN turns', NEW j \in DOMAIN turns', turns'[i].issued = turns'[j].issued
        PROVE  i = j
    BY <1>2, <1>3, <1>7, <1>8, <2>2 DEF Resumption!Inv, Resumption!AssessedOnceAsShown
  <2>3. QED
    BY <2>1, <2>2 DEF Resumption!AssessedOnceAsShown
<1>12. Resumption!DelayedAnswersWaited'
  <2>1. e.kind = "delayed_transfer" => e.waited >= ReviewAfter
    BY <1>2, <1>3, <1>4, ResumptionAssumption DEF Resumption!ReviewRecords, Resumption!CoachingAssumption
  <2>2. QED
    BY <1>7, <2>1 DEF Resumption!Inv, Resumption!DelayedAnswersWaited
<1>13. QED
    BY <1>6, <1>9, <1>10, <1>11, <1>12

\* A recorded answer keeps the invariant.
LEMMA ResumptionRecord ==
    ASSUME Resumption!Inv, NEW t \in Pair, NEW missing \in SUBSET Evidence, Resumption!Record(t, missing)
    PROVE  Resumption!Inv'
<1>1. /\ goal' = Resumption!GoalAfter(Resumption!AttemptKind(pending.stage), missing)
      /\ hints' \subseteq Resumption!ToSet(MoreHints) /\ tab' \in ResumptionTabs /\ passed' = passed /\ day' = day
    BY ResumptionRecords
<1>2. /\ pending' \in Resumption!CheckRecords \cup {Nothing} /\ issues' \in Nat
      /\ exposed' \subseteq Resumption!Tasks /\ supported' \subseteq exposed' /\ answered' \subseteq exposed'
      /\ pending' # Nothing =>
            /\ issues' = issues + 1 /\ pending'.issued = issues'
            /\ pending'.hint # Nothing \/ pending'.bankOut => pending'.stage \in Resumption!Supported
    BY ResumptionRecordChecks
<1>3. /\ review' \in Resumption!ReviewRecords \cup {Nothing}
      /\ Resumption!CheckIsOfItsStage' /\ Resumption!ReviewIsFresh'
    BY ResumptionRecordReviews
<1>4. /\ turns' \in Seq(Resumption!TurnRecords) /\ Resumption!TurnsAreEarlier'
      /\ Resumption!IndependentAnswersAreFresh' /\ Resumption!AssessedOnceAsShown' /\ Resumption!DelayedAnswersWaited'
    BY ResumptionRecordTurns
<1>5. goal' \in [supported : BOOLEAN, independent : BOOLEAN, delayed : BOOLEAN]
    BY <1>1 DEF Resumption!GoalAfter, Resumption!Inv, Resumption!TypeOK
<1>6. review' # Nothing => review'.task \in Resumption!ToSet(<<OnlyTask>>) /\ review'.interval > 0
  <2>1. ReviewAfter \in Nat \ {0}
    BY ResumptionAssumption DEF Resumption!CoachingAssumption
  <2>2. QED
    BY <1>3, <2>1 DEF Resumption!ReviewIsFresh, Resumption!ReviewRecords
<1>7. \A i \in DOMAIN turns' : turns'[i].kind \in Resumption!Independent \cup {"diagnostic", "supported_retry"}
  <2>1. \A i \in DOMAIN turns' : turns'[i] \in Resumption!TurnRecords
    BY <1>4
  <2>2. QED
    BY <2>1 DEF Resumption!TurnRecords
<1>8. issues \in Nat
    BY DEF Resumption!Inv, Resumption!Shapes
<1>9. Resumption!TypeOK'
    BY <1>1, <1>2, <1>5, <1>6, <1>7, <1>8
    DEF Resumption!Inv, Resumption!TypeOK, Resumption!CheckRecords, ResumptionTabs
<1>10. Resumption!Shapes'
    BY <1>1, <1>2, <1>3, <1>4 DEF Resumption!Shapes, ResumptionTabs
<1>11. QED
    BY <1>3, <1>4, <1>9, <1>10 DEF Resumption!Inv

\* No step of a gate breaks the invariant.
LEMMA ResumptionNext ==
    ASSUME Resumption!Inv, Resumption!Next
    PROVE  Resumption!Inv'
<1>1. day \in 0..MaxDay /\ MaxDay \in Nat /\ tab \in ResumptionTabs /\ passed \in BOOLEAN
    BY ResumptionAssumption DEF Resumption!Inv, Resumption!TypeOK, Resumption!Shapes, ResumptionTabs, Resumption!CoachingAssumption
<1>2. ASSUME NEW t \in Pair, Resumption!Preflight(t) \/ Resumption!WriteGate(t) \/ Resumption!Finish(t)
      PROVE  Resumption!Inv'
  <2>1. /\ UNCHANGED <<Resumption!state, day, issues>>
        /\ passed' = passed \/ passed' = TRUE
    BY <1>2 DEF Resumption!Preflight, Resumption!WriteGate, Resumption!Finish
  <2>2. tab' \in ResumptionTabs
    BY <1>1, <1>2 DEF Resumption!Preflight, Resumption!WriteGate, Resumption!Finish, Resumption!Idle, ResumptionTabs
  <2>3. passed' \in BOOLEAN
    BY <1>1, <2>1, Zenon
  <2>4. day' \in 0..MaxDay /\ day <= day'
    BY <1>1, <2>1
  <2>5. QED
    BY <2>1, <2>2, <2>3, <2>4, ResumptionIdles
<1>3. CASE Resumption!Crash
  <2>1. tab' \in ResumptionTabs
    BY <1>3 DEF Resumption!Crash, Resumption!Idle, ResumptionTabs
  <2>2. UNCHANGED <<Resumption!state, passed, day, issues>>
    BY <1>3 DEF Resumption!Crash
  <2>3. QED
    BY <1>1, <2>1, <2>2, ResumptionIdles
<1>4. CASE Resumption!Tick
  <2>1. UNCHANGED <<Resumption!state, passed, tab, issues>> /\ day' = day + 1 /\ day < MaxDay
    BY <1>4 DEF Resumption!Tick
  <2>2. day' \in 0..MaxDay /\ day <= day'
    BY <1>1, <2>1
  <2>3. QED
    BY <1>1, <2>1, <2>2, ResumptionIdles
<1>5. QED
    BY <1>2, <1>3, <1>4, ResumptionPrepare, ResumptionRecord, ResumptionRequestSupport, ResumptionOpenReview, ResumptionRecover
    DEF Resumption!Next

\* A gate that starts can be resumed.
LEMMA ResumptionBegins == Resumption!Init => Resumption!ResumableInv
BY ResumptionInit
DEF Resumption!Init, Resumption!ResumableInv, Resumption!ReviewGoesOn,
    Resumption!PassHasItsEvidence, Resumption!Idle

\* What the invariant says is what the preflight accepts.
LEMMA ResumptionIsResumable ==
    ASSUME Resumption!ResumableInv
    PROVE  Resumption!StateIsResumable
<1>1. \A i \in DOMAIN turns : turns[i].task \in answered
    BY DEF Resumption!ResumableInv, Resumption!Inv, Resumption!TurnsAreEarlier
<1>2. Resumption!PendingIsValid
  <2>1. ASSUME pending # Nothing
        PROVE  /\ pending.task \in Resumption!ToSet(Resumption!Bank[Resumption!BaseStage[pending.stage]])
               /\ pending.prompt = pending.task /\ pending.hint \in hints \cup {Nothing}
               /\ pending.stage \in Resumption!Independent => pending.task \notin supported \cup answered
               /\ Resumption!BaseStage[pending.stage] = "delayed_transfer" =>
                     review # Nothing /\ ~review.completed
    BY <2>1
    DEF Resumption!ResumableInv, Resumption!ReviewGoesOn, Resumption!Inv, Resumption!CheckIsOfItsStage
  <2>2. QED
    BY <1>1, <2>1 DEF Resumption!PendingIsValid
<1>3. Resumption!ReviewIsValid
  <2>1. review # Nothing => review.prompt \in Resumption!ToSet(<<OnlyTask>>)
    BY DEF Resumption!ResumableInv, Resumption!Inv, Resumption!Shapes, Resumption!ReviewRecords
  <2>2. Resumption!ToSet(<<OnlyTask>>) = {Head(<<OnlyTask>>)}
    BY DEF Resumption!ToSet
  <2>3. QED
    BY <2>1, <2>2
    DEF Resumption!ResumableInv, Resumption!ReviewGoesOn, Resumption!ReviewIsValid
<1>4. QED
    BY <1>2, <1>3 DEF Resumption!StateIsResumable, Resumption!Resumable

\* While the only task of the review is pending, no other one is left.
LEMMA ResumptionHasNoOther ==
    ASSUME Resumption!Inv, pending # Nothing,
           Resumption!BaseStage[pending.stage] = "delayed_transfer"
    PROVE  Resumption!Fresh("delayed_transfer") = {}
<1>1. pending.task \in Resumption!ToSet(Resumption!Bank["delayed_transfer"])
    BY DEF Resumption!Inv, Resumption!CheckIsOfItsStage
<1>2. Resumption!Bank["delayed_transfer"] = <<OnlyTask>>
    BY DEF Resumption!Bank
<1>3. pending.task = OnlyTask
    BY <1>1, <1>2 DEF Resumption!ToSet
<1>4. \A i \in DOMAIN <<OnlyTask>> : <<OnlyTask>>[i] = OnlyTask
    OBVIOUS
<1>5. QED
    BY <1>2, <1>3, <1>4 DEF Resumption!Fresh

\* A review keeps the approved delay, and one that failed is being practised.
LEMMA ResumptionReviews ==
    ASSUME Resumption!Inv, Resumption!ReviewGoesOn, NEW t \in Pair,
           NEW missing \in SUBSET Evidence, Resumption!Record(t, missing), review' # Nothing
    PROVE  /\ review'.interval = ReviewAfter
           /\ review'.attempted /\ ~review'.completed =>
                 pending' # Nothing /\ Resumption!BaseStage[pending'.stage] = "delayed_transfer"
<1> DEFINE k == ResumptionCheck(missing)
           base == Resumption!BaseStage[pending.stage]
<1>1. pending # Nothing /\ review' = ResumptionReview(missing) /\ pending.stage \in Resumption!Stages
    BY ResumptionRecords DEF Resumption!CheckRecords
<1>2. /\ pending' = Nothing <=> k = Nothing
      /\ pending' # Nothing /\ base = "delayed_transfer" =>
            Resumption!BaseStage[pending'.stage] = "delayed_transfer"
    BY ResumptionRecordChecks
<1>3. \/ review' = review /\ base # "delayed_transfer"
      \/ review' = review /\ pending.stage = "delayed_support" /\ k # Nothing
      \/ ResumptionNew(review') /\ k = Nothing
      \/ ResumptionGoesOn(review') /\ review'.completed /\ k = Nothing /\ pending.stage = "delayed_transfer"
      \/ ResumptionGoesOn(review') /\ ~review'.completed /\ k # Nothing /\ pending.stage = "delayed_transfer"
    BY <1>1, ResumptionNextReview
<1>4. base = "delayed_transfer" <=> pending.stage \in {"delayed_transfer", "delayed_support"}
  <2>1. "delayed_transfer" \notin Resumption!Supported /\ "delayed_support" \in Resumption!Supported
    BY DEF Resumption!Supported
  <2>2. "delayed_transfer" \in Resumption!Stages
    BY ResumptionStages
  <2>3. QED
    BY <1>1, <2>1, <2>2, ResumptionStages
<1>5. base = "delayed_transfer" => Resumption!Fresh("delayed_transfer") = {}
    BY <1>1, ResumptionHasNoOther
<1> HIDE DEF k, base
<1>6. review # Nothing =>
        /\ review.interval = ReviewAfter
        /\ review.attempted /\ ~review.completed => base = "delayed_transfer"
    BY DEF Resumption!ReviewGoesOn, base
<1>7. CASE ResumptionNew(review')
  <2>1. review' = review \/ review'.interval = ReviewAfter
    <3>1. CASE pending.stage = "independent_exit" /\ missing = {} /\ review = Nothing
      <4>1. review' = Resumption!Scheduled(Head(<<OnlyTask>>), Head(<<OnlyTask>>), ReviewAfter, FALSE)
        BY <1>1, <3>1 DEF ResumptionReview, Resumption!ReviewAfterTurn
      <4>2. QED
        BY <4>1 DEF Resumption!Scheduled
    <3>2. CASE /\ pending.stage \notin {"delayed_transfer", "delayed_support"}
               /\ ~(pending.stage = "independent_exit" /\ missing = {} /\ review = Nothing)
      BY <1>1, <3>2 DEF ResumptionReview, Resumption!ReviewAfterTurn
    <3>3. CASE pending.stage = "delayed_support"
      BY <1>1, <1>4, <1>5, <3>3 DEF ResumptionReview, Resumption!ReviewAfterTurn, Resumption!Rescheduled
    <3>4. CASE pending.stage = "delayed_transfer"
      <4>1. review # Nothing /\ review \in Resumption!ReviewRecords
        BY <1>1, <1>4, <3>4
        DEF Resumption!Inv, Resumption!Shapes, Resumption!CheckIsOfItsStage, base
      <4>2. \/ review' = [[review EXCEPT !.attempted = TRUE] EXCEPT !.completed = TRUE]
            \/ review' = [[review EXCEPT !.attempted = TRUE] EXCEPT !.failed = TRUE]
        BY <1>1, <1>4, <1>5, <3>4
        DEF ResumptionReview, Resumption!ReviewAfterTurn, Resumption!Advanced
      <4>3. review'.interval = review.interval
        BY <4>1, <4>2 DEF Resumption!ReviewRecords
      <4>4. QED
        BY <1>6, <4>1, <4>3
    <3>5. QED
      BY <3>1, <3>2, <3>3, <3>4
  <2>2. QED
    BY <1>6, <1>7, <2>1 DEF ResumptionNew
<1>8. CASE review' = review
    BY <1>2, <1>3, <1>4, <1>6, <1>8 DEF ResumptionNew, ResumptionGoesOn
<1>9. CASE ResumptionGoesOn(review')
    BY <1>2, <1>3, <1>4, <1>6, <1>9 DEF ResumptionNew, ResumptionGoesOn
<1>10. QED
    BY <1>3, <1>7, <1>8, <1>9

\* A step that keeps the check, the review and the turns keeps what they say.
LEMMA ResumptionIdlesOn ==
    ASSUME Resumption!ResumableInv, UNCHANGED <<pending, hints, turns, review>>,
           \A t \in Pair : tab'[t].at = "recorded" => tab[t].at = "recorded",
           passed' # passed => \E t \in Pair : tab[t].at = "recorded"
    PROVE  Resumption!ReviewGoesOn' /\ Resumption!PassHasItsEvidence'
<1>1. Resumption!ExitIsRecorded' <=> Resumption!ExitIsRecorded
    BY DEF Resumption!ExitIsRecorded
<1>2. (\E t \in Pair : tab[t].at = "recorded") => Resumption!ExitIsRecorded
    BY DEF Resumption!ResumableInv, Resumption!ReviewGoesOn
<1>3. Resumption!PassHasItsEvidence'
  <2>1. CASE passed' = passed
    BY <1>1, <2>1, Zenon DEF Resumption!ResumableInv, Resumption!PassHasItsEvidence
  <2>2. CASE passed' # passed
    BY <1>1, <1>2, <2>2 DEF Resumption!PassHasItsEvidence
  <2>3. QED
    BY <2>1, <2>2
<1>4. (\E t \in Pair : tab'[t].at = "recorded") => Resumption!ExitIsRecorded'
    BY <1>1, <1>2
<1>5. QED
    BY <1>3, <1>4 DEF Resumption!ResumableInv, Resumption!ReviewGoesOn

\* A check that is bound shows its task and a hint that was given.
LEMMA ResumptionBindsOn ==
    ASSUME Resumption!ResumableInv, NEW k \in Resumption!CheckRecords, k # Nothing, pending' = k,
           k.prompt = k.task, k.hint \in hints' \cup {Nothing},
           pending # Nothing =>
               Resumption!BaseStage[k.stage] = Resumption!BaseStage[pending.stage],
           UNCHANGED <<turns, review, passed>>,
           \A t \in Pair : tab'[t].at = "recorded" => tab[t].at = "recorded"
    PROVE  Resumption!ReviewGoesOn' /\ Resumption!PassHasItsEvidence'
<1>1. Resumption!ExitIsRecorded' <=> Resumption!ExitIsRecorded
    BY DEF Resumption!ExitIsRecorded
<1>2. Resumption!PassHasItsEvidence'
    BY <1>1, Zenon DEF Resumption!ResumableInv, Resumption!PassHasItsEvidence
<1>3. (\E t \in Pair : tab'[t].at = "recorded") => Resumption!ExitIsRecorded'
    BY <1>1 DEF Resumption!ResumableInv, Resumption!ReviewGoesOn
<1>4. QED
    BY <1>2, <1>3 DEF Resumption!ResumableInv, Resumption!ReviewGoesOn

\* A recorded answer leaves a state that can be resumed, and the evidence of a
\* pass is there before the pass is written.
LEMMA ResumptionRecordsOn ==
    ASSUME Resumption!ResumableInv, NEW t \in Pair, NEW missing \in SUBSET Evidence,
           Resumption!Record(t, missing)
    PROVE  Resumption!ReviewGoesOn' /\ Resumption!PassHasItsEvidence'
<1> DEFINE e == ResumptionTurn(t, missing)
           k == ResumptionCheck(missing)
<1>1. Resumption!Inv /\ Resumption!ReviewGoesOn /\ Resumption!PassHasItsEvidence
    BY DEF Resumption!ResumableInv
<1>2. /\ turns' = Append(turns, e) /\ turns \in Seq(Resumption!TurnRecords)
      /\ pending # Nothing /\ passed' = passed
      /\ k # Nothing => k.hint \in hints' \cup {Nothing}
    BY <1>1, ResumptionRecords DEF Resumption!Inv, Resumption!Shapes
<1>3. e.kind = Resumption!AttemptKind(pending.stage) /\ e.missing = missing
    BY DEF ResumptionTurn
<1>4. turns' \in Seq(Resumption!TurnRecords)
    BY <1>1, ResumptionRecordTurns
<1> HIDE DEF e
<1>5. /\ \A i \in DOMAIN turns : i \in DOMAIN turns' /\ turns'[i] = turns[i]
      /\ Len(turns) + 1 \in DOMAIN turns' /\ turns'[Len(turns) + 1] = e
  <2>1. Len(turns) \in Nat /\ DOMAIN turns = 1..Len(turns)
    BY <1>2
  <2>2. Len(turns') = Len(turns) + 1 /\ DOMAIN turns' = 1..(Len(turns) + 1)
    <3>1. DOMAIN turns' = 1..Len(turns')
      BY <1>4
    <3>2. Len(turns') = Len(turns) + 1
      BY <1>2
    <3>3. QED
      BY <3>1, <3>2
  <2>3. \A i \in 1..(Len(turns) + 1) : turns'[i] = IF i = Len(turns) + 1 THEN e ELSE turns[i]
    BY <1>2, <2>1
  <2>4. QED
    BY <2>1, <2>2, <2>3
<1>6. Resumption!ExitIsRecorded => Resumption!ExitIsRecorded'
    BY <1>5 DEF Resumption!ExitIsRecorded
<1>7. (\E s \in Pair : tab'[s].at = "recorded") => Resumption!ExitIsRecorded'
  <2>1. ASSUME NEW s \in Pair, tab'[s].at = "recorded", s # t
        PROVE  Resumption!ExitIsRecorded'
    <3>1. tab'[s] = tab[s]
      BY <2>1 DEF Resumption!Record
    <3>2. QED
      BY <1>1, <1>6, <2>1, <3>1 DEF Resumption!ReviewGoesOn
  <2>2. ASSUME tab'[t].at = "recorded"
        PROVE  Resumption!ExitIsRecorded'
    <3>1. missing = {} /\ Resumption!AttemptKind(pending.stage) = "independent_exit"
      <4>1. tab \in ResumptionTabs
        BY <1>1 DEF Resumption!Inv, Resumption!Shapes, ResumptionTabs
      <4>2. tab'[t].at = IF missing = {} /\ Resumption!AttemptKind(pending.stage) = "independent_exit"
                         THEN "recorded" ELSE "done"
        BY <4>1 DEF Resumption!Record, ResumptionTabs
      <4>3. QED
        BY <2>2, <4>2
    <3>2. QED
      BY <1>3, <1>5, <3>1 DEF Resumption!ExitIsRecorded
  <2>3. QED
    BY <2>1, <2>2
<1>8. Resumption!PassHasItsEvidence'
    BY <1>1, <1>2, <1>6, Zenon DEF Resumption!PassHasItsEvidence
<1>9. pending' # Nothing => pending'.prompt = pending'.task /\ pending'.hint \in hints' \cup {Nothing}
  <2>1. /\ pending' = Nothing <=> k = Nothing
        /\ pending' # Nothing => pending' = k
    BY <1>1, ResumptionRecordChecks
  <2>2. k # Nothing => k.prompt = k.task
    BY <1>1, <1>2, ResumptionNextCheck
  <2>3. QED
    BY <1>2, <2>1, <2>2
<1>10. review' # Nothing =>
        /\ review'.interval = ReviewAfter
        /\ review'.attempted /\ ~review'.completed =>
              pending' # Nothing /\ Resumption!BaseStage[pending'.stage] = "delayed_transfer"
    BY <1>1, ResumptionReviews
<1>11. QED
    BY <1>7, <1>8, <1>9, <1>10 DEF Resumption!ReviewGoesOn

\* No step of a gate with one delayed task leads to a state that cannot be
\* resumed, so nobody is sent to the recovery.
LEMMA ResumptionSteps ==
    ASSUME Resumption!ResumableInv, Resumption!Next
    PROVE  Resumption!ResumableInv'
<1>1. Resumption!Inv
    BY DEF Resumption!ResumableInv
<1>2. Resumption!Inv'
    BY ResumptionNext DEF Resumption!ResumableInv
<1>3. tab \in ResumptionTabs /\ Resumption!Resumable
    BY ResumptionIsResumable
    DEF Resumption!ResumableInv, Resumption!Inv, Resumption!Shapes, ResumptionTabs,
        Resumption!StateIsResumable
<1>4. ASSUME NEW t \in Pair, Resumption!Preflight(t) \/ Resumption!WriteGate(t) \/ Resumption!Finish(t)
      PROVE  Resumption!ReviewGoesOn' /\ Resumption!PassHasItsEvidence'
  <2>1. UNCHANGED <<pending, hints, turns, review>>
    BY <1>4 DEF Resumption!Preflight, Resumption!WriteGate, Resumption!Finish, Resumption!state
  <2>2. \A s \in Pair : tab'[s].at = "recorded" => tab[s].at = "recorded"
    BY <1>3, <1>4
    DEF Resumption!Preflight, Resumption!WriteGate, Resumption!Finish, Resumption!Idle, ResumptionTabs
  <2>3. passed' # passed => \E s \in Pair : tab[s].at = "recorded"
    BY <1>4 DEF Resumption!Preflight, Resumption!WriteGate, Resumption!Finish
  <2>4. QED
    BY <2>1, <2>2, <2>3, ResumptionIdlesOn
<1>5. ASSUME Resumption!Crash \/ Resumption!Tick
      PROVE  Resumption!ReviewGoesOn' /\ Resumption!PassHasItsEvidence'
  <2>1. UNCHANGED <<pending, hints, turns, review, passed>>
    BY <1>5 DEF Resumption!Crash, Resumption!Tick, Resumption!state
  <2>2. \A s \in Pair : tab'[s].at = "recorded" => tab[s].at = "recorded"
    BY <1>5 DEF Resumption!Crash, Resumption!Tick, Resumption!Idle
  <2>3. QED
    BY <2>1, <2>2, ResumptionIdlesOn
<1>6. ASSUME NEW t \in Pair, Resumption!Prepare(t)
      PROVE  Resumption!ReviewGoesOn' /\ Resumption!PassHasItsEvidence'
  <2>1. \A s \in Pair : tab'[s].at = "recorded" => tab[s].at = "recorded"
    BY <1>3, <1>6 DEF Resumption!Prepare, ResumptionTabs
  <2>2. CASE pending # Nothing
    BY <1>6, <2>1, <2>2, ResumptionIdlesOn DEF Resumption!Prepare, Resumption!state
  <2>3. CASE pending = Nothing
    <3> DEFINE k == Resumption!Check(Resumption!InitialStage,
                        Resumption!Bank[Resumption!InitialStage][1], Nothing, FALSE, FALSE)
    <3>1. /\ pending' = k /\ UNCHANGED <<turns, review, passed>>
      BY <1>6, <2>3 DEF Resumption!Prepare, Resumption!Bind
    <3>2. k.prompt = k.task /\ k.hint = Nothing
      BY DEF Resumption!Check
    <3>3. k \in Resumption!CheckRecords /\ k # Nothing
      BY <1>1, <1>6, <3>1, ResumptionPrepare
    <3> HIDE DEF k
    <3>4. QED
      BY <2>1, <2>3, <3>1, <3>2, <3>3, ResumptionBindsOn
  <2>4. QED
    BY <2>2, <2>3
<1>7. ASSUME Resumption!RequestSupport
      PROVE  Resumption!ReviewGoesOn' /\ Resumption!PassHasItsEvidence'
  <2>1. /\ pending \in Resumption!CheckRecords /\ pending # Nothing
        /\ pending.stage \in Resumption!Stages /\ pending.stage \notin Resumption!Supported
        /\ pending.prompt = pending.task
    BY <1>7
    DEF Resumption!RequestSupport, Resumption!ResumableInv, Resumption!Inv, Resumption!Shapes,
        Resumption!CheckRecords, Resumption!ReviewGoesOn
  <2>2. Resumption!BaseStage[Resumption!SupportStage[pending.stage]] = Resumption!BaseStage[pending.stage]
    BY <2>1, ResumptionStages
  <2>3. /\ pending'.stage = Resumption!SupportStage[pending.stage] /\ pending'.task = pending.task
        /\ pending'.prompt = pending.prompt /\ pending'.hint = Head(MoreHints)
        /\ hints' = hints \cup {Head(MoreHints)} /\ UNCHANGED <<turns, review, passed, tab>>
    BY <1>7, <2>1 DEF Resumption!RequestSupport, Resumption!Bind, Resumption!CheckRecords
  <2>4. pending' \in Resumption!CheckRecords /\ pending' # Nothing
    BY <1>1, <1>7, ResumptionRequestSupport
  <2>5. QED
    BY <2>1, <2>2, <2>3, <2>4, ResumptionBindsOn
<1>8. ASSUME Resumption!OpenReview
      PROVE  Resumption!ReviewGoesOn' /\ Resumption!PassHasItsEvidence'
  <2>1. /\ review \in Resumption!ReviewRecords /\ pending = Nothing
        /\ pending'.task = review.task /\ pending'.prompt = review.prompt
        /\ pending'.hint = Nothing /\ UNCHANGED <<turns, review, passed, tab>>
    BY <1>1, <1>8
    DEF Resumption!OpenReview, Resumption!Bind, Resumption!Check, Resumption!Inv, Resumption!Shapes
  <2>2. review.task = OnlyTask /\ review.prompt = OnlyTask
    <3>1. Resumption!ToSet(<<OnlyTask>>) = {OnlyTask}
      BY DEF Resumption!ToSet
    <3>2. QED
      BY <2>1, <3>1 DEF Resumption!ReviewRecords
  <2>3. pending' \in Resumption!CheckRecords /\ pending' # Nothing
    BY <1>1, <1>8, ResumptionOpenReview
  <2>4. QED
    BY <2>1, <2>2, <2>3, ResumptionBindsOn
<1>9. ~Resumption!Recover
    BY <1>3 DEF Resumption!Recover
<1>10. QED
    BY <1>2, <1>4, <1>5, <1>6, <1>7, <1>8, <1>9, ResumptionRecordsOn
    DEF Resumption!Next, Resumption!ResumableInv

\* A step of another component leaves the gate as it is.
LEMMA GateStutters ==
    ASSUME Gate!Inv, UNCHANGED CoachingVars
    PROVE  Gate!Inv'
BY DEF CoachingVars, Gate!Inv, Gate!TypeOK, Gate!Shapes, Gate!CheckIsOfItsStage,
    Gate!TurnsAreEarlier, Gate!ReviewIsFresh, Gate!IndependentAnswersAreFresh,
    Gate!AssessedOnceAsShown, Gate!DelayedAnswersWaited

\* A step of another component leaves the gate as it is.
LEMMA ResumptionStutters ==
    ASSUME Resumption!ResumableInv, UNCHANGED CoachingVars
    PROVE  Resumption!ResumableInv'
BY DEF CoachingVars, Resumption!ResumableInv, Resumption!ReviewGoesOn,
    Resumption!PassHasItsEvidence, Resumption!ExitIsRecorded, Resumption!Inv,
    Resumption!TypeOK, Resumption!Shapes, Resumption!CheckIsOfItsStage,
    Resumption!TurnsAreEarlier, Resumption!ReviewIsFresh,
    Resumption!IndependentAnswersAreFresh, Resumption!AssessedOnceAsShown,
    Resumption!DelayedAnswersWaited

----------------------------------------------------------------------------
(* Both gates.                                                             *)

\* Both gates keep their invariants.
CoachingInv ==
    /\ component = "coaching" => Gate!Inv
    /\ component = "resumption" => Resumption!ResumableInv

\* A task that a learner answers alone was never shown before, a check is
\* assessed once and as it was shown, and a delayed answer waits for its day,
\* whatever the tabs send and in whatever order; with one delayed task the
\* state can always be resumed, and a gate is passed only with its evidence
\* (coaching_turn_record.py, learning_state_preflight.py).
THEOREM CoachingHolds == Spec => []CoachingIsIndependent
<1>1. Begin => CoachingInv
  <2>1. Begin => (component = "coaching" => Gate!Init) /\ (component = "resumption" => Resumption!Init)
    BY DEF Begin
  <2>2. QED
    BY <2>1, GateInit, ResumptionBegins DEF CoachingInv
<1>2. CoachingInv /\ [Step]_vars => CoachingInv'
  <2> SUFFICES ASSUME CoachingInv, [Step]_vars
               PROVE  CoachingInv'
    OBVIOUS
  <2>1. component' = component
    BY DEF Step, vars
  <2>2. CASE component = "coaching" /\ Gate!Next
    BY <2>1, <2>2, GateNext DEF CoachingInv
  <2>3. CASE component = "resumption" /\ Resumption!Next
    BY <2>1, <2>3, ResumptionSteps DEF CoachingInv
  <2>4. CASE UNCHANGED CoachingVars
    <3>1. Gate!Inv => Gate!Inv'
      BY <2>4, GateStutters
    <3>2. Resumption!ResumableInv => Resumption!ResumableInv'
      BY <2>4, ResumptionStutters
    <3>3. QED
      BY <2>1, <3>1, <3>2 DEF CoachingInv
  <2>5. QED
    BY <2>2, <2>3, <2>4 DEF Step, vars
<1>3. CoachingInv => CoachingIsIndependent
    BY ResumptionIsResumable
    DEF CoachingInv, CoachingIsIndependent, Gate!Inv, Resumption!ResumableInv
<1>4. QED
    BY <1>1, <1>2, <1>3, PTL DEF Spec

----------------------------------------------------------------------------
(* What is computed along a sequence.                                      *)

\* A set of places that has the first one, and with each the next, has all.
LEMMA Upwards ==
    ASSUME NEW n \in Nat, NEW S \in SUBSET (0..n), 0 \in S,
           \A i \in 1..n : i - 1 \in S => i \in S
    PROVE  \A i \in 0..n : i \in S
<1> DEFINE left == {i \in Nat : i \in 0..n /\ i \notin S}
<1> SUFFICES ASSUME left # {} PROVE FALSE
    OBVIOUS
<1>1. PICK m \in left : \A k \in left : m <= k
  <2>1. left \in SUBSET Nat
    OBVIOUS
  <2> HIDE DEF left
  <2>2. QED
    BY <2>1, FirstPlace
<1>2. m \in 1..n /\ m - 1 \in 0..n
    BY <1>1
<1>3. m - 1 \in S
    BY <1>1, <1>2
<1>4. QED
    BY <1>1, <1>2, <1>3

\* f is computed from each place for the next.
Computes(f, n, D, base, step) ==
    f \in [0..n -> D] /\ f[0] = base /\ \A i \in 1..n : f[i] = step[i][f[i - 1]]

\* What is computed from each place for the next has a value at every place.
LEMMA ComputedAlong ==
    ASSUME NEW n \in Nat, NEW D, NEW base \in D, NEW step \in [1..n -> [D -> D]]
    PROVE  \E f : Computes(f, n, D, base, step)
<1> DEFINE Up(m, f) == f[0] = base /\ \A i \in 1..m : f[i] = step[i][f[i - 1]]
           S == {m \in 0..n : \E f \in [0..m -> D] : Up(m, f)}
<1>1. 0 \in S
  <2> DEFINE g == [i \in 0..0 |-> base]
  <2>1. g \in [0..0 -> D] /\ g[0] = base
    OBVIOUS
  <2> HIDE DEF g
  <2>2. Up(0, g)
    BY <2>1
  <2>3. QED
    BY <2>1, <2>2
<1>2. ASSUME NEW m \in 1..n, m - 1 \in S PROVE m \in S
  <2>1. PICK f \in [0..(m - 1) -> D] : Up(m - 1, f)
    BY <1>2
  <2> DEFINE g == [i \in 0..m |-> IF i = m THEN step[m][f[m - 1]] ELSE f[i]]
  <2>2. f[m - 1] \in D /\ step[m][f[m - 1]] \in D
    BY <2>1
  <2>3. g \in [0..m -> D]
    BY <2>2
  <2>4. \A i \in 0..(m - 1) : g[i] = f[i]
    OBVIOUS
  <2>5. g[m] = step[m][g[m - 1]]
    BY <2>4
  <2>6. ASSUME NEW i \in 1..m PROVE g[i] = step[i][g[i - 1]]
    <3>1. CASE i = m
      BY <2>5, <3>1
    <3>2. CASE i # m
      <4>1. i \in 1..(m - 1) /\ i - 1 \in 0..(m - 1) /\ i \in 0..(m - 1)
        BY <3>2
      <4>2. QED
        BY <4>1, <2>1, <2>4
    <3>3. QED
      BY <3>1, <3>2
  <2>7. g[0] = base
    BY <2>1, <2>4
  <2> HIDE DEF g
  <2>8. Up(m, g)
    BY <2>6, <2>7
  <2>9. QED
    BY <2>3, <2>8
<1> HIDE DEF S
<1>3. n \in S
  <2>1. S \in SUBSET (0..n)
    BY DEF S
  <2>2. \A i \in 0..n : i \in S
    BY <1>1, <1>2, <2>1, Upwards
  <2>3. QED
    BY <2>2
<1>4. QED
  BY <1>3 DEF S, Computes

----------------------------------------------------------------------------
(* The answers to a quiz and their log.                                    *)

\* No state is no state, and publications are numbered.
LEMMA QuizzesPayloads ==
    /\ None \notin Quizzes!States
    /\ MaxVersion \in Nat \ {0} /\ MaxResets \in Nat
BY QuizzesAssumption DEF Quizzes!QuizAssumption

\* Before the first answer nothing is recorded.
LEMMA QuizzesInit == Quizzes!Init => Quizzes!Inv
<1> SUFFICES ASSUME Quizzes!Init PROVE Quizzes!Inv
    OBVIOUS
<1> USE DEF Quizzes!Init
<1>1. log \in Seq(Quizzes!States) /\ Len(log) = 0
    OBVIOUS
<1>2. version \in 1..MaxVersion /\ quizResets \in 0..MaxResets
    BY QuizzesPayloads
<1>3. Quizzes!TypeOK
    BY <1>1, <1>2 DEF Quizzes!TypeOK
<1>4. QED
    BY <1>1, <1>3 DEF Quizzes!Inv, Quizzes!EventsAreValid, Quizzes!AcceptedAnswersAreLogged

\* The state after an answer is a state, and one the log accepts.
LEMMA QuizzesNextState ==
    ASSUME Quizzes!Inv, NEW r \in Pair, ask[r] \in Quizzes!Asks, ~Quizzes!Solved(r)
    PROVE  Quizzes!NextState(r) \in Quizzes!States /\ Quizzes!IsValid(Quizzes!NextState(r))
<1> DEFINE previous == Quizzes!CurrentQuizState(ask[r].version)
           next == Quizzes!NextState(r)
<1>1. previous \in Quizzes!States \/ previous = None
    BY DEF Quizzes!Inv, Quizzes!TypeOK, Quizzes!CurrentQuizState
<1>2. ask[r].version \in 1..MaxVersion /\ ask[r].correct \in BOOLEAN
    BY DEF Quizzes!Asks
<1>3. CASE previous = None
  <2>1. next = [version |-> ask[r].version, correct |-> ask[r].correct, index |-> 1,
                first |-> ask[r].correct,
                correction |-> IF ask[r].correct THEN "not_needed" ELSE "needed"]
    BY <1>3 DEF Quizzes!NextState, Quizzes!CorrectionState
  <2>2. QED
    BY <1>2, <2>1 DEF Quizzes!States, Quizzes!IsValid
<1>4. CASE previous # None
  <2>1. previous = quiz /\ previous \in Quizzes!States /\ Quizzes!IsValid(previous)
    BY <1>1, <1>4 DEF Quizzes!CurrentQuizState, Quizzes!Inv
  <2>2. ~previous.correct
    BY <1>4 DEF Quizzes!Solved
  <2>3. previous.first = FALSE /\ previous.index \in Nat \ {0}
    BY <2>1, <2>2 DEF Quizzes!States, Quizzes!IsValid
  <2>4. next = [version |-> ask[r].version, correct |-> ask[r].correct,
                index |-> previous.index + 1, first |-> FALSE,
                correction |-> IF ask[r].correct THEN "corrected" ELSE "needed"]
    BY <1>4, <2>3 DEF Quizzes!NextState, Quizzes!CorrectionState
  <2>5. previous.index + 1 \in Nat \ {0} /\ previous.index + 1 # 1
    BY <2>3
  <2> DEFINE corrects == IF ask[r].correct THEN "corrected" ELSE "needed"
  <2>6. corrects \in {"not_needed", "needed", "corrected"}
    OBVIOUS
  <2>7. next \in Quizzes!States
    BY <1>2, <2>4, <2>5, <2>6 DEF Quizzes!States
  <2>8. next.index # 1 /\ next.first = FALSE /\ next.correct = ask[r].correct
        /\ next.correction = corrects
    BY <2>4, <2>5
  <2>9. Quizzes!IsValid(next)
    BY <1>2, <2>8 DEF Quizzes!IsValid
  <2>10. QED
    BY <2>7, <2>9
<1>5. QED
    BY <1>3, <1>4

\* A publication and a reset touch neither the log nor the requests.
LEMMA QuizzesOutside ==
    ASSUME Quizzes!Inv, Quizzes!Publish \/ Quizzes!Reset
    PROVE  Quizzes!Inv'
<1> USE DEF Quizzes!Inv, Quizzes!TypeOK, Quizzes!EventsAreValid, Quizzes!AcceptedAnswersAreLogged
<1>1. CASE Quizzes!Publish
  <2>1. version' \in 1..MaxVersion
    BY <1>1, QuizzesPayloads DEF Quizzes!Publish
  <2>2. QED
    BY <1>1, <2>1 DEF Quizzes!Publish
<1>2. CASE Quizzes!Reset
  <2>1. quizResets' \in 0..MaxResets
    BY <1>2, QuizzesPayloads DEF Quizzes!Reset
  <2>2. QED
    BY <1>2, <2>1, QuizzesPayloads DEF Quizzes!Reset
<1>3. QED
    BY <1>1, <1>2

\* Sending, reading the publication and failing leave what is recorded.
LEMMA QuizzesAsking ==
    ASSUME Quizzes!Inv, NEW r \in Pair,
           \/ \E id \in Ids, correct \in BOOLEAN : Quizzes!Send(r, id, correct)
           \/ Quizzes!ReadPublication(r)
           \/ Quizzes!Fail(r)
    PROVE  Quizzes!Inv'
<1> USE DEF Quizzes!Inv, Quizzes!TypeOK
<1>1. UNCHANGED <<version, quiz, attempts, log, quizResets>>
    BY DEF Quizzes!Send, Quizzes!ReadPublication, Quizzes!Fail
<1>2. \A q \in Pair : q # r =>
         quizPc'[q] = quizPc[q] /\ ask'[q] = ask[q] /\ answer'[q] = answer[q]
    BY DEF Quizzes!Send, Quizzes!ReadPublication, Quizzes!Fail
<1> DEFINE Fits ==
        /\ quizPc' \in [Pair -> {"idle", "sent", "read", "recorded", "done"}]
        /\ ask' \in [Pair -> Quizzes!Asks \cup {None}]
        /\ answer' \in [Pair -> Quizzes!States \cup {None}]
        /\ quizPc'[r] \in {"sent", "read"} => ask'[r] \in Quizzes!Asks
        /\ quizPc'[r] \notin {"recorded", "done"}
<1>3. Fits
  <2>1. ASSUME NEW id \in Ids, NEW correct \in BOOLEAN, Quizzes!Send(r, id, correct)
        PROVE  Fits
    <3>1. [id |-> id, version |-> version, correct |-> correct] \in Quizzes!Asks
      BY DEF Quizzes!Asks
    <3>2. QED
      BY <2>1, <3>1 DEF Quizzes!Send
  <2>2. CASE Quizzes!ReadPublication(r)
    BY <2>2 DEF Quizzes!ReadPublication
  <2>3. CASE Quizzes!Fail(r)
    BY <2>3 DEF Quizzes!Fail
  <2>4. QED
    BY <2>1, <2>2, <2>3
<1> HIDE DEF Fits
<1>4. Quizzes!TypeOK'
  <2>1. \A q \in Pair : quizPc'[q] \in {"sent", "read"} => ask'[q] \in Quizzes!Asks
    BY <1>2, <1>3 DEF Fits
  <2>2. \A q \in Pair : quizPc'[q] \in {"recorded", "done"} => answer'[q] \in Quizzes!States
    BY <1>2, <1>3 DEF Fits
  <2>3. QED
    BY <1>1, <1>3, <2>1, <2>2 DEF Fits
<1>5. Quizzes!EventsAreValid' /\ Quizzes!AcceptedAnswersAreLogged'
    BY <1>1, <1>2, <1>3 DEF Fits, Quizzes!EventsAreValid, Quizzes!AcceptedAnswersAreLogged
<1>6. QED
    BY <1>1, <1>4, <1>5

\* The recorded answer is a valid event, and so is the state the file gets.
LEMMA QuizzesRecord ==
    ASSUME Quizzes!Inv, NEW r \in Pair, Quizzes!RecordQuizAnswer(r)
    PROVE  Quizzes!Inv'
<1> USE DEF Quizzes!Inv, Quizzes!TypeOK
<1>1. ask[r] \in Quizzes!Asks /\ ask[r].id \in Ids
    BY DEF Quizzes!RecordQuizAnswer, Quizzes!Asks
<1>2. /\ UNCHANGED <<version, log, quizResets>>
      /\ ask' = [ask EXCEPT ![r] = None]
    BY DEF Quizzes!RecordQuizAnswer
<1> DEFINE Fits ==
        /\ quizPc' \in [Pair -> {"idle", "sent", "read", "recorded", "done"}]
        /\ answer' \in [Pair -> Quizzes!States \cup {None}]
        /\ \A q \in Pair : q # r => quizPc'[q] = quizPc[q] /\ answer'[q] = answer[q]
        /\ quizPc'[r] \notin {"sent", "read", "done"}
        /\ quizPc'[r] = "recorded" => answer'[r] \in Quizzes!States /\ Quizzes!IsValid(answer'[r])
        /\ quiz' \in Quizzes!States \cup {None} /\ (quiz' # None => Quizzes!IsValid(quiz'))
        /\ attempts' \in [Ids -> Quizzes!States \cup {None}]
        /\ \A id \in Ids : attempts'[id] # None => Quizzes!IsValid(attempts'[id])
<1>3. Fits
  <2>1. CASE Quizzes!RecordNew(r)
    <3>1. Quizzes!NextState(r) \in Quizzes!States /\ Quizzes!IsValid(Quizzes!NextState(r))
      BY <1>1, <2>1, QuizzesNextState DEF Quizzes!RecordNew
    <3>2. QED
      BY <1>1, <2>1, <3>1 DEF Quizzes!RecordNew
  <2>2. CASE Quizzes!ReturnPrior(r)
    <3> DEFINE given == IF attempts[ask[r].id] # None THEN attempts[ask[r].id]
                        ELSE Quizzes!CurrentQuizState(ask[r].version)
    <3>1. given \in Quizzes!States /\ Quizzes!IsValid(given)
      BY <1>1, <2>2 DEF Quizzes!ReturnPrior, Quizzes!Solved, Quizzes!CurrentQuizState
    <3>2. QED
      BY <1>1, <2>2, <3>1 DEF Quizzes!ReturnPrior
  <2>3. CASE quizPc' = [quizPc EXCEPT ![r] = "idle"] /\ UNCHANGED <<quiz, attempts, answer>>
    BY <2>3
  <2>4. QED
    BY <2>1, <2>2, <2>3 DEF Quizzes!RecordQuizAnswer
<1> HIDE DEF Fits
<1>4. Quizzes!TypeOK'
  <2>1. \A q \in Pair : quizPc'[q] \in {"sent", "read"} => ask'[q] \in Quizzes!Asks
    BY <1>2, <1>3 DEF Fits
  <2>2. \A q \in Pair : quizPc'[q] \in {"recorded", "done"} => answer'[q] \in Quizzes!States
    BY <1>3 DEF Fits
  <2>3. QED
    BY <1>2, <1>3, <2>1, <2>2 DEF Fits
<1>5. Quizzes!EventsAreValid' /\ Quizzes!AcceptedAnswersAreLogged'
    BY <1>2, <1>3 DEF Fits, Quizzes!EventsAreValid, Quizzes!AcceptedAnswersAreLogged
<1>6. QED
    BY <1>2, <1>3, <1>4, <1>5 DEF Fits

\* An event is appended unless the log has it: no event is in the log twice.
LEMMA QuizzesAppend ==
    ASSUME Quizzes!Inv, NEW r \in Pair, Quizzes!AppendOnce(r)
    PROVE  Quizzes!Inv'
<1> USE DEF Quizzes!Inv, Quizzes!TypeOK
<1>1. /\ UNCHANGED <<version, quiz, attempts, quizResets, ask, answer>>
      /\ quizPc[r] = "recorded" /\ quizPc' = [quizPc EXCEPT ![r] = "done"]
      /\ answer[r] \in Quizzes!States /\ Quizzes!IsValid(answer[r])
    BY DEF Quizzes!AppendOnce, Quizzes!EventsAreValid
<1> DEFINE Grows ==
        /\ log' \in Seq(Quizzes!States)
        /\ \A i, j \in 1..Len(log') : i # j => Quizzes!EventId(log'[i]) # Quizzes!EventId(log'[j])
        /\ \A i \in 1..Len(log') : Quizzes!IsValid(log'[i])
        /\ \A i \in 1..Len(log) : i \in 1..Len(log') /\ log'[i] = log[i]
        /\ \E i \in 1..Len(log') : Quizzes!EventId(log'[i]) = Quizzes!EventId(answer[r])
<1>2. Grows
  <2>1. CASE \E i \in 1..Len(log) : Quizzes!EventId(log[i]) = Quizzes!EventId(answer[r])
    <3>1. log' = log
      BY <2>1 DEF Quizzes!AppendOnce
    <3>2. QED
      BY <2>1, <3>1
  <2>2. CASE ~\E i \in 1..Len(log) : Quizzes!EventId(log[i]) = Quizzes!EventId(answer[r])
    <3>1. log' = Append(log, answer[r])
      BY <2>2 DEF Quizzes!AppendOnce
    <3>2. /\ log' \in Seq(Quizzes!States) /\ Len(log') = Len(log) + 1 /\ Len(log) \in Nat
          /\ \A i \in 1..Len(log) : log'[i] = log[i]
          /\ log'[Len(log) + 1] = answer[r]
      BY <1>1, <3>1
    <3>3. \A i \in 1..Len(log') : i \in 1..Len(log) \/ i = Len(log) + 1
      BY <3>2
    <3>4. ASSUME NEW i \in 1..Len(log'), NEW j \in 1..Len(log'), i # j
          PROVE  Quizzes!EventId(log'[i]) # Quizzes!EventId(log'[j])
      <4>1. CASE i \in 1..Len(log) /\ j \in 1..Len(log)
        BY <3>2, <3>4, <4>1
      <4>2. CASE i \in 1..Len(log) /\ j = Len(log) + 1
        BY <2>2, <3>2, <4>2
      <4>3. CASE i = Len(log) + 1 /\ j \in 1..Len(log)
        BY <2>2, <3>2, <4>3
      <4>4. QED
        BY <3>3, <3>4, <4>1, <4>2, <4>3
    <3>5. \A i \in 1..Len(log') : Quizzes!IsValid(log'[i])
      BY <1>1, <3>2, <3>3
    <3>6. Len(log) + 1 \in 1..Len(log')
      BY <3>2
    <3>7. \E i \in 1..Len(log') : Quizzes!EventId(log'[i]) = Quizzes!EventId(answer[r])
      BY <3>2, <3>6
    <3>8. \A i \in 1..Len(log) : i \in 1..Len(log')
      BY <3>2
    <3>9. QED
      BY <3>2, <3>4, <3>5, <3>7, <3>8
  <2>3. QED
    BY <2>1, <2>2
<1> HIDE DEF Grows
<1>3. Quizzes!TypeOK'
    BY <1>1, <1>2 DEF Grows
<1>4. Quizzes!EventsAreValid'
    BY <1>1 DEF Quizzes!EventsAreValid
<1>5. Quizzes!AcceptedAnswersAreLogged'
    BY <1>1, <1>2 DEF Grows, Quizzes!AcceptedAnswersAreLogged
<1>6. QED
    BY <1>1, <1>2, <1>3, <1>4, <1>5 DEF Grows

\* Each step of a quiz keeps its invariant.
LEMMA QuizzesNext == Quizzes!Inv /\ Quizzes!Next => Quizzes!Inv'
BY QuizzesOutside, QuizzesAsking, QuizzesRecord, QuizzesAppend DEF Quizzes!Next

\* Whatever component runs, the invariant of the quizzes is kept.
LEMMA QuizzesStep == Quizzes!Inv /\ [Step]_vars => Quizzes!Inv'
<1>1. CASE Quizzes!Next
    BY <1>1, QuizzesNext
<1>2. CASE UNCHANGED QuizAnswersVars
    BY <1>2 DEF QuizAnswersVars, Quizzes!Inv, Quizzes!TypeOK, Quizzes!EventsAreValid,
        Quizzes!AcceptedAnswersAreLogged
<1>3. QED
    BY <1>1, <1>2 DEF Step, vars

\* What a summary holds of a learner.
QuizzesLearners == [index : Nat, correct : BOOLEAN, corrected : BOOLEAN]

\* What a summary says of the first i lines: the earliest attempt among them,
\* and whether any was right.
QuizzesTells(x, i, v) ==
    /\ x \in QuizzesLearners
    /\ x.index = 0 => x = Quizzes!Unseen /\ \A j \in 1..i : log[j].version # v
    /\ x.index # 0 => \E j \in 1..i :
          /\ log[j].version = v /\ log[j].index = x.index /\ log[j].correct = x.correct
          /\ \A k \in 1..i : log[k].version = v => x.index <= log[k].index
    /\ (x.correct \/ x.corrected) <=> \E k \in 1..i : log[k].version = v /\ log[k].correct

\* A line of another publication changes nothing.
LEMMA QuizzesSkips ==
    ASSUME NEW v, NEW x, NEW i \in Nat \ {0}, log[i].version # v, QuizzesTells(x, i - 1, v)
    PROVE  QuizzesTells(x, i, v)
<1>1. \A j : j \in 1..i <=> j \in 1..(i - 1) \/ j = i
    OBVIOUS
<1>2. QED
    BY <1>1 DEF QuizzesTells

\* Lines of one publication with the same index are the same line.
LEMMA QuizzesLines ==
    ASSUME Quizzes!Inv
    PROVE  /\ \A i \in 1..Len(log) : log[i] \in Quizzes!States /\ Quizzes!IsValid(log[i])
           /\ \A i, j \in 1..Len(log) :
                 log[i].version = log[j].version /\ log[i].index = log[j].index => i = j
BY DEF Quizzes!Inv, Quizzes!TypeOK, Quizzes!EventId

\* A summary that takes the line as an earlier first attempt, or as a later
\* attempt, tells of it.
LEMMA QuizzesGrows ==
    ASSUME Quizzes!Inv, NEW v, NEW x, NEW y, NEW i \in 1..Len(log),
           log[i].version = v, QuizzesTells(x, i - 1, v), y.corrected \in BOOLEAN,
           IF x.index = 0 \/ log[i].index < x.index
           THEN /\ y = [index |-> log[i].index, correct |-> log[i].correct, corrected |-> y.corrected]
                /\ (y.correct \/ y.corrected) <=> (x.correct \/ x.corrected \/ log[i].correct)
           ELSE y = [x EXCEPT !.corrected = @ \/ (log[i].index > x.index /\ log[i].correct)]
    PROVE  QuizzesTells(y, i, v)
<1>1. \A j : j \in 1..i <=> j \in 1..(i - 1) \/ j = i
    OBVIOUS
<1>2. log[i].index \in Nat \ {0} /\ log[i].correct \in BOOLEAN
    BY QuizzesLines DEF Quizzes!States
<1>3. x.index \in Nat /\ x.correct \in BOOLEAN /\ x.corrected \in BOOLEAN /\ x \in QuizzesLearners
    BY DEF QuizzesTells, QuizzesLearners
<1>4. \A j \in 1..(i - 1) : log[j].version = v => log[j].index # log[i].index /\ log[j].index \in Nat
    BY QuizzesLines DEF Quizzes!States
<1>5. CASE x.index = 0 \/ log[i].index < x.index
  <2>1. y.index = log[i].index /\ y.correct = log[i].correct /\ y \in QuizzesLearners
    BY <1>2, <1>5 DEF QuizzesLearners
  <2>2. \A k \in 1..i : log[k].version = v => y.index <= log[k].index
    BY <1>1, <1>2, <1>3, <1>4, <1>5, <2>1 DEF QuizzesTells
  <2>3. (y.correct \/ y.corrected) <=> \E k \in 1..i : log[k].version = v /\ log[k].correct
    BY <1>1, <1>5 DEF QuizzesTells
  <2>4. \E j \in 1..i :
          /\ log[j].version = v /\ log[j].index = y.index /\ log[j].correct = y.correct
          /\ \A k \in 1..i : log[k].version = v => y.index <= log[k].index
    BY <1>1, <2>1, <2>2
  <2>5. QED
    BY <1>2, <2>1, <2>3, <2>4 DEF QuizzesTells
<1>6. CASE ~(x.index = 0 \/ log[i].index < x.index)
  <2>1. PICK j \in 1..(i - 1) :
          /\ log[j].version = v /\ log[j].index = x.index /\ log[j].correct = x.correct
          /\ \A k \in 1..(i - 1) : log[k].version = v => x.index <= log[k].index
    BY <1>6 DEF QuizzesTells
  <2>2. log[i].index > x.index
    BY <1>2, <1>3, <1>4, <1>6, <2>1
  <2>3. /\ y.index = x.index /\ y.correct = x.correct
        /\ y.corrected = (x.corrected \/ log[i].correct) /\ y \in QuizzesLearners
    BY <1>2, <1>3, <1>6, <2>2 DEF QuizzesLearners
  <2>4. \A k \in 1..i : log[k].version = v => y.index <= log[k].index
    BY <1>1, <1>2, <1>3, <2>1, <2>2, <2>3
  <2>5. (y.correct \/ y.corrected) <=> \E k \in 1..i : log[k].version = v /\ log[k].correct
    BY <1>1, <1>2, <1>3, <2>3 DEF QuizzesTells
  <2>6. \E n \in 1..i :
          /\ log[n].version = v /\ log[n].index = y.index /\ log[n].correct = y.correct
          /\ \A k \in 1..i : log[k].version = v => y.index <= log[k].index
    BY <1>1, <2>1, <2>3, <2>4
  <2>7. QED
    BY <1>3, <1>6, <2>3, <2>5, <2>6 DEF QuizzesTells
<1>7. QED
    BY <1>5, <1>6

\* Both summaries take a line that way.
LEMMA QuizzesRecords ==
    ASSUME Quizzes!Inv, NEW v, NEW x, NEW i \in 1..Len(log),
           log[i].version = v, QuizzesTells(x, i - 1, v)
    PROVE  /\ QuizzesTells(Quizzes!LectureRecord(log[i], x), i, v)
           /\ QuizzesTells(Quizzes!CourseRecord(log[i], x), i, v)
<1> DEFINE lecture == Quizzes!LectureRecord(log[i], x)
           course == Quizzes!CourseRecord(log[i], x)
<1>1. log[i].index \in Nat \ {0} /\ log[i].correct \in BOOLEAN /\ Quizzes!IsValid(log[i])
    BY QuizzesLines DEF Quizzes!States
<1>2. x \in QuizzesLearners /\ (x.index = 0 => x.correct = FALSE /\ x.corrected = FALSE)
    BY DEF QuizzesTells, Quizzes!Unseen
<1>3. x.index \in Nat /\ x.correct \in BOOLEAN /\ x.corrected \in BOOLEAN
    BY <1>2 DEF QuizzesLearners
<1>4. log[i].correction = "corrected" => log[i].correct
    BY <1>1 DEF Quizzes!IsValid
<1>5. lecture.corrected \in BOOLEAN /\ course.corrected \in BOOLEAN
    BY <1>1, <1>2, <1>3 DEF Quizzes!LectureRecord, Quizzes!CourseRecord, QuizzesLearners
<1>6. CASE x.index = 0 \/ log[i].index < x.index
  <2>1. /\ lecture = [index |-> log[i].index, correct |-> log[i].correct, corrected |-> lecture.corrected]
        /\ (lecture.correct \/ lecture.corrected) <=> (x.correct \/ x.corrected \/ log[i].correct)
    BY <1>1, <1>2, <1>3, <1>4, <1>6 DEF Quizzes!LectureRecord
  <2>2. /\ course = [index |-> log[i].index, correct |-> log[i].correct, corrected |-> course.corrected]
        /\ (course.correct \/ course.corrected) <=> (x.correct \/ x.corrected \/ log[i].correct)
    BY <1>1, <1>2, <1>3, <1>6 DEF Quizzes!CourseRecord
  <2> HIDE DEF lecture, course
  <2>3. QuizzesTells(lecture, i, v) /\ QuizzesTells(course, i, v)
    BY <1>5, <1>6, <2>1, <2>2, QuizzesGrows
  <2>4. QED
    BY <2>3 DEF lecture, course
<1>7. CASE ~(x.index = 0 \/ log[i].index < x.index)
  <2>1. /\ lecture = [x EXCEPT !.corrected = @ \/ (log[i].index > x.index /\ log[i].correct)]
        /\ course = [x EXCEPT !.corrected = @ \/ (log[i].index > x.index /\ log[i].correct)]
    BY <1>7 DEF Quizzes!LectureRecord, Quizzes!CourseRecord
  <2> HIDE DEF lecture, course
  <2>2. QuizzesTells(lecture, i, v) /\ QuizzesTells(course, i, v)
    BY <1>5, <1>7, <2>1, QuizzesGrows
  <2>3. QED
    BY <2>2 DEF lecture, course
<1>8. QED
    BY <1>6, <1>7

\* What tells of the lines so far at each line tells of the log at its end.
LEMMA QuizzesTellsAll ==
    ASSUME Quizzes!Inv, NEW v, NEW f, f[0] = Quizzes!Unseen,
           \A i \in 1..Len(log) : QuizzesTells(f[i - 1], i - 1, v) => QuizzesTells(f[i], i, v)
    PROVE  QuizzesTells(f[Len(log)], Len(log), v)
<1> DEFINE S == {i \in 0..Len(log) : QuizzesTells(f[i], i, v)}
<1>1. Len(log) \in Nat
    BY DEF Quizzes!Inv, Quizzes!TypeOK
<1>2. QuizzesTells(f[0], 0, v)
    BY DEF QuizzesTells, QuizzesLearners, Quizzes!Unseen
<1>3. 0 \in S
    BY <1>1, <1>2
<1>4. \A i \in 1..Len(log) : i - 1 \in S => i \in S
    BY <1>1
<1>5. S \in SUBSET (0..Len(log)) /\ Len(log) \in 0..Len(log)
    BY <1>1
<1> HIDE DEF S
<1>6. Len(log) \in S
    BY <1>1, <1>3, <1>4, <1>5, Upwards
<1>7. QED
    BY <1>6 DEF S

\* The summary of a lecture tells of the whole log.
LEMMA QuizzesLectureSummary ==
    ASSUME Quizzes!Inv, NEW v
    PROVE  QuizzesTells(Quizzes!LectureSummary(v), Len(log), v)
<1> DEFINE Told(f) == [i \in 0..Len(log) |->
                  IF i = 0 THEN Quizzes!Unseen
                  ELSE IF log[i].version = v THEN Quizzes!LectureRecord(log[i], f[i - 1])
                  ELSE f[i - 1]]
           after == CHOOSE f : f = Told(f)
           Line(i, x) == IF log[i].version = v THEN Quizzes!LectureRecord(log[i], x) ELSE x
           lines == [i \in 1..Len(log) |-> [x \in QuizzesLearners |-> Line(i, x)]]
<1>1. Len(log) \in Nat
    BY DEF Quizzes!Inv, Quizzes!TypeOK
<1>2. ASSUME NEW i \in 1..Len(log), NEW x \in QuizzesLearners
      PROVE  Line(i, x) \in QuizzesLearners
  <2>1. log[i].index \in Nat \ {0} /\ log[i].correct \in BOOLEAN
    BY QuizzesLines DEF Quizzes!States
  <2>2. QED
    BY <2>1 DEF Quizzes!LectureRecord, QuizzesLearners
<1>3. lines \in [1..Len(log) -> [QuizzesLearners -> QuizzesLearners]]
    BY <1>2
<1>4. Quizzes!Unseen \in QuizzesLearners
    BY DEF QuizzesLearners, Quizzes!Unseen
<1>5. \E f : f = Told(f)
  <2> HIDE DEF lines
  <2>1. \E f : Computes(f, Len(log), QuizzesLearners, Quizzes!Unseen, lines)
    BY <1>1, <1>3, <1>4, ComputedAlong
  <2>2. PICK f \in [0..Len(log) -> QuizzesLearners] :
           f[0] = Quizzes!Unseen /\ \A i \in 1..Len(log) : f[i] = lines[i][f[i - 1]]
    BY <2>1 DEF Computes
  <2>3. ASSUME NEW i \in 1..Len(log) PROVE f[i] = Line(i, f[i - 1])
    <3>1. i - 1 \in 0..Len(log)
      BY <1>1
    <3>2. f[i - 1] \in QuizzesLearners
      BY <2>2, <3>1
    <3>3. lines[i][f[i - 1]] = Line(i, f[i - 1])
      BY <3>2 DEF lines
    <3>4. QED
      BY <2>2, <3>3
  <2>4. ASSUME NEW i \in 0..Len(log) PROVE f[i] = Told(f)[i]
    <3>1. CASE i = 0
      BY <2>2, <3>1
    <3>2. CASE i # 0
      BY <1>1, <2>3, <3>2
    <3>3. QED
      BY <3>1, <3>2
  <2>5. QED
    BY <2>2, <2>4
<1>6. after = Told(after)
    BY <1>5
<1>7. Quizzes!LectureSummary(v) = after[Len(log)]
    BY DEF Quizzes!LectureSummary
<1> HIDE DEF after
<1>8. after[0] = Quizzes!Unseen /\ \A i \in 1..Len(log) : after[i] = Line(i, after[i - 1])
  <2>1. \A i \in 0..Len(log) : after[i] = Told(after)[i]
    BY <1>6
  <2>2. QED
    BY <1>1, <2>1
<1>9. ASSUME NEW i \in 1..Len(log), QuizzesTells(after[i - 1], i - 1, v)
      PROVE  QuizzesTells(after[i], i, v)
  <2>1. CASE log[i].version = v
    BY <1>8, <1>9, <2>1, QuizzesRecords
  <2>2. CASE log[i].version # v
    BY <1>1, <1>8, <1>9, <2>2, QuizzesSkips
  <2>3. QED
    BY <2>1, <2>2
<1>10. QED
    BY <1>7, <1>8, <1>9, QuizzesTellsAll

\* So does the summary of a course.
LEMMA QuizzesCourseSummary ==
    ASSUME Quizzes!Inv, NEW v
    PROVE  QuizzesTells(Quizzes!CourseSummary(v), Len(log), v)
<1> DEFINE Told(f) == [i \in 0..Len(log) |->
                  IF i = 0 THEN Quizzes!Unseen
                  ELSE IF log[i].version = v THEN Quizzes!CourseRecord(log[i], f[i - 1])
                  ELSE f[i - 1]]
           after == CHOOSE f : f = Told(f)
           Line(i, x) == IF log[i].version = v THEN Quizzes!CourseRecord(log[i], x) ELSE x
           lines == [i \in 1..Len(log) |-> [x \in QuizzesLearners |-> Line(i, x)]]
<1>1. Len(log) \in Nat
    BY DEF Quizzes!Inv, Quizzes!TypeOK
<1>2. ASSUME NEW i \in 1..Len(log), NEW x \in QuizzesLearners
      PROVE  Line(i, x) \in QuizzesLearners
  <2>1. log[i].index \in Nat \ {0} /\ log[i].correct \in BOOLEAN
    BY QuizzesLines DEF Quizzes!States
  <2>2. QED
    BY <2>1 DEF Quizzes!CourseRecord, QuizzesLearners
<1>3. lines \in [1..Len(log) -> [QuizzesLearners -> QuizzesLearners]]
    BY <1>2
<1>4. Quizzes!Unseen \in QuizzesLearners
    BY DEF QuizzesLearners, Quizzes!Unseen
<1>5. \E f : f = Told(f)
  <2> HIDE DEF lines
  <2>1. \E f : Computes(f, Len(log), QuizzesLearners, Quizzes!Unseen, lines)
    BY <1>1, <1>3, <1>4, ComputedAlong
  <2>2. PICK f \in [0..Len(log) -> QuizzesLearners] :
           f[0] = Quizzes!Unseen /\ \A i \in 1..Len(log) : f[i] = lines[i][f[i - 1]]
    BY <2>1 DEF Computes
  <2>3. ASSUME NEW i \in 1..Len(log) PROVE f[i] = Line(i, f[i - 1])
    <3>1. i - 1 \in 0..Len(log)
      BY <1>1
    <3>2. f[i - 1] \in QuizzesLearners
      BY <2>2, <3>1
    <3>3. lines[i][f[i - 1]] = Line(i, f[i - 1])
      BY <3>2 DEF lines
    <3>4. QED
      BY <2>2, <3>3
  <2>4. ASSUME NEW i \in 0..Len(log) PROVE f[i] = Told(f)[i]
    <3>1. CASE i = 0
      BY <2>2, <3>1
    <3>2. CASE i # 0
      BY <1>1, <2>3, <3>2
    <3>3. QED
      BY <3>1, <3>2
  <2>5. QED
    BY <2>2, <2>4
<1>6. after = Told(after)
    BY <1>5
<1>7. Quizzes!CourseSummary(v) = after[Len(log)]
    BY DEF Quizzes!CourseSummary
<1> HIDE DEF after
<1>8. after[0] = Quizzes!Unseen /\ \A i \in 1..Len(log) : after[i] = Line(i, after[i - 1])
  <2>1. \A i \in 0..Len(log) : after[i] = Told(after)[i]
    BY <1>6
  <2>2. QED
    BY <1>1, <2>1
<1>9. ASSUME NEW i \in 1..Len(log), QuizzesTells(after[i - 1], i - 1, v)
      PROVE  QuizzesTells(after[i], i, v)
  <2>1. CASE log[i].version = v
    BY <1>8, <1>9, <2>1, QuizzesRecords
  <2>2. CASE log[i].version # v
    BY <1>1, <1>8, <1>9, <2>2, QuizzesSkips
  <2>3. QED
    BY <2>1, <2>2
<1>10. QED
    BY <1>7, <1>8, <1>9, QuizzesTellsAll

\* Both show the earliest attempt and whether a later one was right.
LEMMA QuizzesAgree == Quizzes!Inv => Quizzes!SummariesAgree
<1> SUFFICES ASSUME Quizzes!Inv, NEW v \in 1..MaxVersion, Quizzes!Logged(v) # {}
             PROVE  LET told == Quizzes!Logged(v)
                        earliest == CHOOSE e \in told : \A f \in told : e.index <= f.index
                    IN  /\ Quizzes!Shown(Quizzes!LectureSummary(v)) = Quizzes!Shown(Quizzes!CourseSummary(v))
                        /\ Quizzes!Shown(Quizzes!CourseSummary(v)) =
                             [first |-> earliest.correct,
                              corrected |-> ~earliest.correct /\ \E e \in told : e.correct]
    BY DEF Quizzes!SummariesAgree
<1> DEFINE told == Quizzes!Logged(v)
           earliest == CHOOSE e \in told : \A f \in told : e.index <= f.index
           shown == [first |-> earliest.correct,
                     corrected |-> ~earliest.correct /\ \E e \in told : e.correct]
<1>1. \A e : e \in told <=> \E i \in 1..Len(log) : log[i].version = v /\ e = log[i]
    BY DEF Quizzes!Logged
<1>2. \A e \in told : e.index \in Nat \ {0} /\ e.correct \in BOOLEAN
    BY <1>1, QuizzesLines DEF Quizzes!States
<1> HIDE DEF told
<1>3. ASSUME NEW x, QuizzesTells(x, Len(log), v)
      PROVE  Quizzes!Shown(x) = shown
  <2>1. x.index \in Nat /\ x.correct \in BOOLEAN /\ x.corrected \in BOOLEAN
    BY <1>3 DEF QuizzesTells, QuizzesLearners
  <2>2. x.index # 0
    BY <1>1, <1>3 DEF QuizzesTells, told
  <2>3. PICK j \in 1..Len(log) :
          /\ log[j].version = v /\ log[j].index = x.index /\ log[j].correct = x.correct
          /\ \A k \in 1..Len(log) : log[k].version = v => x.index <= log[k].index
    BY <1>3, <2>2 DEF QuizzesTells
  <2>4. log[j] \in told /\ \A f \in told : log[j].index <= f.index
    BY <1>1, <2>3
  <2>5. earliest \in told /\ \A f \in told : earliest.index <= f.index
    BY <2>4
  <2> HIDE DEF earliest
  <2>6. earliest.index = log[j].index
    BY <1>2, <2>4, <2>5
  <2>7. earliest = log[j]
    BY <1>1, <2>3, <2>5, <2>6, QuizzesLines
  <2>8. (x.correct \/ x.corrected) <=> \E e \in told : e.correct
    BY <1>1, <1>3 DEF QuizzesTells
  <2>9. earliest.correct = x.correct
    BY <2>3, <2>7
  <2>10. (x.index > 0 /\ ~x.correct /\ x.corrected)
           = (~earliest.correct /\ \E e \in told : e.correct)
    BY <2>1, <2>2, <2>8, <2>9
  <2>11. QED
    BY <2>9, <2>10 DEF Quizzes!Shown
<1>4. QED
    BY <1>3, QuizzesLectureSummary, QuizzesCourseSummary DEF told

\* An accepted answer is in the log once and valid, also when the server stopped
\* between the quiz file and the log, and the summaries of a lecture and of a
\* course agree on the first attempt and its correction, in whatever order the
\* lines were written (quiz_attempts.py, analytics_store.py).
THEOREM AnswersHold == Spec => []QuizAnswersAreLogged
<1>1. Begin => Quizzes!Inv
    BY QuizzesInit DEF Begin
<1>2. Quizzes!Inv /\ [Step]_vars => Quizzes!Inv'
    BY QuizzesStep
<1>3. Quizzes!Inv => QuizAnswersAreLogged
    BY QuizzesAgree DEF Quizzes!Inv, QuizAnswersAreLogged
<1>4. QED
    BY <1>1, <1>2, <1>3, PTL DEF Spec

----------------------------------------------------------------------------
(* What is counted in a sequence.                                          *)

\* An image of a finite set without repetition has as many members.
LEMMA ImageCount ==
    ASSUME NEW I, IsFiniteSet(I), NEW s, \A i, j \in I : s[i] = s[j] => i = j
    PROVE  IsFiniteSet({s[i] : i \in I}) /\ Cardinality({s[i] : i \in I}) = Cardinality(I)
<1> DEFINE T == {s[i] : i \in I}
           f == [i \in I |-> s[i]]
<1>1. f \in Bijection(I, T)
    BY DEF Bijection, Injection, Surjection, IsInjective
<1>2. ExistsBijection(I, T)
    BY <1>1 DEF ExistsBijection
<1>3. QED
    BY <1>2, FS_Bijection

----------------------------------------------------------------------------
(* The questions of a readiness check.                                     *)

\* The limits are numbers.
LEMMA ChecksLimits ==
    /\ NumLectures \in Nat \ {0} /\ MaxChoice \in Nat /\ MaxQuestions \in Nat
    /\ None \notin Readiness!AttemptRecords
BY ReadinessAssumption DEF Readiness!ReadinessAssumption

\* The component counts as every module does.
LEMMA ChecksCardinality ==
    ASSUME NEW S
    PROVE  Readiness!Cardinality(S) = Cardinality(S)
BY DEF Cardinality, Readiness!Cardinality

\* A lecture offers the questions it counts.
LEMMA ChecksGroups ==
    ASSUME Readiness!TypeOK, NEW l \in Readiness!Lectures
    PROVE  /\ Readiness!Group(l) \subseteq Readiness!AllQuestions
           /\ \A q \in Readiness!AllQuestions :
                 q \in Readiness!Group(l) <=> q.lecture = l /\ q.n <= offers[l][q.kind]
           /\ offers[l] \in [Readiness!Kinds -> 0..2]
<1>1. offers[l] \in [Readiness!Kinds -> 0..2]
    BY DEF Readiness!TypeOK, Readiness!Offers
<1>2. \A q : q \in Readiness!Group(l) <=>
             \E kind \in Readiness!Kinds : \E i \in 1..offers[l][kind] : q = Readiness!Question(l, kind, i)
    BY DEF Readiness!Group
<1>3. \A kind \in Readiness!Kinds : offers[l][kind] \in 0..2
    BY <1>1
<1>4. ASSUME NEW kind \in Readiness!Kinds, NEW i \in 1..offers[l][kind]
      PROVE  i \in 1..2 /\ Readiness!Question(l, kind, i) \in Readiness!AllQuestions
    BY <1>3 DEF Readiness!AllQuestions, Readiness!Question
<1>5. ASSUME NEW q \in Readiness!AllQuestions
      PROVE  q \in Readiness!Group(l) <=> q.lecture = l /\ q.n <= offers[l][q.kind]
  <2>1. q = [lecture |-> q.lecture, kind |-> q.kind, n |-> q.n] /\ q.kind \in Readiness!Kinds /\ q.n \in 1..2
    BY DEF Readiness!AllQuestions
  <2>2. offers[l][q.kind] \in 0..2
    BY <1>3, <2>1
  <2>3. ASSUME q.lecture = l, q.n <= offers[l][q.kind] PROVE q \in Readiness!Group(l)
    <3>1. q.n \in 1..offers[l][q.kind] /\ q = Readiness!Question(l, q.kind, q.n)
      BY <2>1, <2>2, <2>3 DEF Readiness!Question
    <3>2. QED
      BY <1>2, <2>1, <3>1
  <2>4. ASSUME q \in Readiness!Group(l) PROVE q.lecture = l /\ q.n <= offers[l][q.kind]
    <3>1. PICK kind \in Readiness!Kinds :
             \E i \in 1..offers[l][kind] : q = Readiness!Question(l, kind, i)
      BY <1>2, <2>4
    <3>2. PICK i \in 1..offers[l][kind] : q = Readiness!Question(l, kind, i)
      BY <3>1
    <3>3. q.lecture = l /\ q.kind = kind /\ q.n = i
      BY <3>2 DEF Readiness!Question
    <3>4. i <= offers[l][kind]
      BY <1>3
    <3>5. QED
      BY <3>3, <3>4
  <2>5. QED
    BY <2>3, <2>4
<1>6. QED
    BY <1>1, <1>2, <1>4, <1>5

\* How many multiple choices a sequence has, with a question more.
LEMMA ChecksChoices ==
    ASSUME NEW s \in Seq(Readiness!AllQuestions), NEW q \in Readiness!AllQuestions
    PROVE  /\ Readiness!Choices(s) \in Nat
           /\ Readiness!Choices(Append(s, q)) =
                Readiness!Choices(s) + (IF q.kind = "choice" THEN 1 ELSE 0)
<1> DEFINE I(t) == {i \in DOMAIN t : t[i].kind = "choice"}
           t == Append(s, q)
<1>1. /\ Len(s) \in Nat /\ DOMAIN s = 1..Len(s)
      /\ DOMAIN t = 1..(Len(s) + 1)
      /\ t[Len(s) + 1] = q /\ \A i \in 1..Len(s) : t[i] = s[i]
    OBVIOUS
<1> HIDE DEF t
<1>2. IsFiniteSet(1..Len(s))
  <2>1. 1 \in Int /\ Len(s) \in Int
    BY <1>1
  <2>2. QED
    BY <2>1, FS_Interval
<1>3. I(s) \in SUBSET (1..Len(s))
    BY <1>1
<1>4. IsFiniteSet(I(s)) /\ Cardinality(I(s)) \in Nat
    BY <1>2, <1>3, FS_Subset, FS_CardinalityType
<1>5. Len(s) + 1 \notin I(s)
    BY <1>1
<1>6. I(t) = IF q.kind = "choice" THEN I(s) \cup {Len(s) + 1} ELSE I(s)
  <2>1. \A i : i \in 1..(Len(s) + 1) <=> i \in 1..Len(s) \/ i = Len(s) + 1
    BY <1>1
  <2>2. QED
    BY <1>1, <2>1
<1>7. Cardinality(I(s) \cup {Len(s) + 1}) = Cardinality(I(s)) + 1
    BY <1>4, <1>5, FS_AddElement
<1>8. Readiness!Choices(s) = Cardinality(I(s)) /\ Readiness!Choices(t) = Cardinality(I(t))
    BY ChecksCardinality DEF Readiness!Choices
<1> HIDE DEF I
<1>9. CASE q.kind = "choice"
    BY <1>4, <1>6, <1>7, <1>8, <1>9 DEF t
<1>10. CASE q.kind # "choice"
    BY <1>4, <1>6, <1>8, <1>10 DEF t
<1>11. QED
    BY <1>9, <1>10

\* The members of a sequence without repetition are as many as its places,
\* and so are the multiple choices among them.
LEMMA ChecksCounts ==
    ASSUME NEW s \in Seq(Readiness!AllQuestions),
           \A i, j \in 1..Len(s) : s[i] = s[j] => i = j
    PROVE  /\ IsFiniteSet(Readiness!ToSet(s)) /\ Cardinality(Readiness!ToSet(s)) = Len(s)
           /\ Cardinality({q \in Readiness!ToSet(s) : q.kind = "choice"}) = Readiness!Choices(s)
<1> DEFINE I == {i \in DOMAIN s : s[i].kind = "choice"}
<1>1. Len(s) \in Nat /\ DOMAIN s = 1..Len(s)
    OBVIOUS
<1>2. IsFiniteSet(1..Len(s)) /\ Cardinality(1..Len(s)) = Len(s)
  <2>1. 1 \in Int /\ Len(s) \in Int /\ (IF 1 > Len(s) THEN 0 ELSE Len(s) - 1 + 1) = Len(s)
    BY <1>1
  <2>2. QED
    BY <2>1, FS_Interval
<1>3. I \in SUBSET (1..Len(s))
    BY <1>1
<1>4. IsFiniteSet(I)
    BY <1>2, <1>3, FS_Subset
<1>5. Readiness!ToSet(s) = {s[i] : i \in 1..Len(s)}
    BY <1>1 DEF Readiness!ToSet
<1>6. {q \in Readiness!ToSet(s) : q.kind = "choice"} = {s[i] : i \in I}
    BY <1>1 DEF Readiness!ToSet
<1>7. IsFiniteSet({s[i] : i \in 1..Len(s)}) /\ Cardinality({s[i] : i \in 1..Len(s)}) = Len(s)
    BY <1>2, ImageCount
<1>8. \A i, j \in I : s[i] = s[j] => i = j
    BY <1>3
<1> HIDE DEF I
<1>9. Cardinality({s[i] : i \in I}) = Cardinality(I)
    BY <1>4, <1>8, ImageCount
<1>10. Readiness!Choices(s) = Cardinality(I)
    BY ChecksCardinality DEF Readiness!Choices, I
<1>11. Cardinality({q \in Readiness!ToSet(s) : q.kind = "choice"}) = Readiness!Choices(s)
    BY <1>6, <1>9, <1>10
<1>12. QED
    BY <1>5, <1>7, <1>11

\* What holds of the first questions, one of each of the lectures 1..l.
ChecksCovers(s, l) ==
    /\ s \in Seq(Readiness!AllQuestions)
    /\ IsFiniteSet(Readiness!Offering(l)) /\ Len(s) = Cardinality(Readiness!Offering(l))
    /\ \A i \in 1..Len(s) :
          s[i].n = 1 /\ s[i].lecture \in 1..l /\ s[i] \in Readiness!Group(s[i].lecture)
    /\ \A m \in Readiness!Offering(l) : \E i \in 1..Len(s) : s[i].lecture = m
    /\ \A i, j \in 1..Len(s) : s[i].lecture = s[j].lecture => i = j
    /\ Readiness!Choices(s) > MaxChoice =>
          \E i \in 1..Len(s) : s[i].kind = "choice" /\ offers[s[i].lecture]["open"] = 0

\* The question taken of a lecture is one it offers.
LEMMA ChecksTakes ==
    ASSUME Readiness!TypeOK, NEW l \in Readiness!Lectures, Readiness!Group(l) # {}, NEW s
    PROVE  LET q == Readiness!Cover(l, s)
           IN  /\ q \in Readiness!AllQuestions /\ q \in Readiness!Group(l)
               /\ q.lecture = l /\ q.n = 1
               /\ q.kind = "choice" =>
                    Readiness!Choices(s) < MaxChoice \/ offers[l]["open"] = 0
<1> DEFINE q == Readiness!Cover(l, s)
<1>1. offers[l]["choice"] \in 0..2 /\ offers[l]["open"] \in 0..2
    BY ChecksGroups DEF Readiness!Kinds
<1>2. offers[l]["choice"] > 0 \/ offers[l]["open"] > 0
  <2>1. PICK p : p \in Readiness!Group(l)
    OBVIOUS
  <2>2. p \in Readiness!AllQuestions /\ p.n <= offers[l][p.kind]
    BY <2>1, ChecksGroups
  <2>3. p.n \in 1..2 /\ p.kind \in {"choice", "open"}
    BY <2>2 DEF Readiness!AllQuestions, Readiness!Kinds
  <2>4. QED
    BY <1>1, <2>2, <2>3
<1>3. \/ /\ q = Readiness!Question(l, "choice", 1) /\ offers[l]["choice"] > 0
         /\ Readiness!Choices(s) < MaxChoice \/ offers[l]["open"] = 0
      \/ q = Readiness!Question(l, "open", 1) /\ offers[l]["open"] > 0
    BY <1>1, <1>2 DEF Readiness!Cover
<1> HIDE DEF q
<1>4. /\ q \in Readiness!AllQuestions /\ q.lecture = l /\ q.n = 1
      /\ q.kind = "choice" => Readiness!Choices(s) < MaxChoice \/ offers[l]["open"] = 0
      /\ offers[l][q.kind] > 0
    BY <1>3 DEF Readiness!AllQuestions, Readiness!Kinds, Readiness!Question
<1>5. offers[l][q.kind] \in 0..2
    BY <1>1, <1>3 DEF Readiness!Question
<1>6. q \in Readiness!Group(l)
    BY <1>4, <1>5, ChecksGroups
<1>7. QED
    BY <1>4, <1>6 DEF q

\* Without a question the next lecture changes nothing.
LEMMA ChecksPasses ==
    ASSUME Readiness!TypeOK, NEW l \in Readiness!Lectures, Readiness!Group(l) = {},
           NEW s, ChecksCovers(s, l - 1)
    PROVE  ChecksCovers(s, l)
<1>1. l \in Nat \ {0}
    BY ChecksLimits DEF Readiness!Lectures
<1>2. \A m : m \in 1..l <=> m \in 1..(l - 1) \/ m = l
    BY <1>1
<1>3. Readiness!Offering(l) = Readiness!Offering(l - 1)
    BY <1>2 DEF Readiness!Offering
<1>4. QED
    BY <1>2, <1>3 DEF ChecksCovers

\* With one it is covered.
LEMMA ChecksAdds ==
    ASSUME Readiness!TypeOK, NEW l \in Readiness!Lectures, Readiness!Group(l) # {},
           NEW s, ChecksCovers(s, l - 1)
    PROVE  ChecksCovers(Append(s, Readiness!Cover(l, s)), l)
<1> DEFINE q == Readiness!Cover(l, s)
           t == Append(s, q)
<1>1. l \in Nat \ {0}
    BY ChecksLimits DEF Readiness!Lectures
<1>2. \A m : m \in 1..l <=> m \in 1..(l - 1) \/ m = l
    BY <1>1
<1>3. /\ q \in Readiness!AllQuestions /\ q \in Readiness!Group(l) /\ q.lecture = l /\ q.n = 1
      /\ q.kind = "choice" => Readiness!Choices(s) < MaxChoice \/ offers[l]["open"] = 0
    BY ChecksTakes
<1>4. s \in Seq(Readiness!AllQuestions)
    BY DEF ChecksCovers
<1> HIDE DEF q
<1>5. /\ t \in Seq(Readiness!AllQuestions) /\ Len(s) \in Nat /\ Len(t) = Len(s) + 1
      /\ t[Len(s) + 1] = q /\ \A i \in 1..Len(s) : t[i] = s[i]
    BY <1>3, <1>4
<1>6. /\ Readiness!Choices(s) \in Nat
      /\ Readiness!Choices(t) = Readiness!Choices(s) + (IF q.kind = "choice" THEN 1 ELSE 0)
    BY <1>3, <1>4, ChecksChoices
<1> HIDE DEF t
<1>7. \A i \in 1..Len(t) : i \in 1..Len(s) \/ i = Len(s) + 1
    BY <1>5
<1>8. Readiness!Offering(l) = Readiness!Offering(l - 1) \cup {l} /\ l \notin Readiness!Offering(l - 1)
    BY <1>1, <1>2 DEF Readiness!Offering
<1>9. IsFiniteSet(Readiness!Offering(l)) /\ Len(t) = Cardinality(Readiness!Offering(l))
    BY <1>5, <1>8, FS_AddElement DEF ChecksCovers
<1>10. \A i \in 1..Len(s) :
          s[i].n = 1 /\ s[i].lecture \in 1..(l - 1) /\ s[i] \in Readiness!Group(s[i].lecture)
    BY DEF ChecksCovers
<1>11. \A i \in 1..Len(t) :
          t[i].n = 1 /\ t[i].lecture \in 1..l /\ t[i] \in Readiness!Group(t[i].lecture)
    BY <1>2, <1>3, <1>5, <1>7, <1>10
<1>12. \A m \in Readiness!Offering(l) : \E i \in 1..Len(t) : t[i].lecture = m
  <2>1. ASSUME NEW m \in Readiness!Offering(l - 1)
        PROVE  \E i \in 1..Len(t) : t[i].lecture = m
    <3>1. PICK i \in 1..Len(s) : s[i].lecture = m
      BY DEF ChecksCovers
    <3>2. QED
      BY <1>5, <3>1
  <2>2. Len(s) + 1 \in 1..Len(t)
    BY <1>5
  <2>3. QED
    BY <1>3, <1>5, <1>8, <2>1, <2>2
<1>13. \A i, j \in 1..Len(t) : t[i].lecture = t[j].lecture => i = j
  <2>1. \A i \in 1..Len(s) : t[i].lecture # l
    BY <1>1, <1>5, <1>10
  <2>2. \A i, j \in 1..Len(s) : t[i].lecture = t[j].lecture => i = j
    BY <1>5 DEF ChecksCovers
  <2>3. QED
    BY <1>3, <1>5, <1>7, <2>1, <2>2
<1>14. ASSUME Readiness!Choices(t) > MaxChoice
       PROVE  \E i \in 1..Len(t) : t[i].kind = "choice" /\ offers[t[i].lecture]["open"] = 0
  <2>1. CASE Readiness!Choices(s) > MaxChoice
    <3>1. PICK i \in 1..Len(s) : s[i].kind = "choice" /\ offers[s[i].lecture]["open"] = 0
      BY <2>1 DEF ChecksCovers
    <3>2. i \in 1..Len(t)
      BY <1>5
    <3>3. QED
      BY <1>5, <3>1, <3>2
  <2>2. CASE ~(Readiness!Choices(s) > MaxChoice)
    <3>1. q.kind = "choice" /\ ~(Readiness!Choices(s) < MaxChoice)
      BY <1>6, <1>14, <2>2, ChecksLimits
    <3>2. Len(s) + 1 \in 1..Len(t)
      BY <1>5
    <3>3. QED
      BY <1>3, <1>5, <3>1, <3>2
  <2>3. QED
    BY <2>1, <2>2
<1>15. QED
    BY <1>5, <1>9, <1>11, <1>12, <1>13, <1>14 DEF ChecksCovers, t, q

\* The coverage has one question of each lecture that offers any.
LEMMA ChecksCoverage ==
    ASSUME Readiness!TypeOK
    PROVE  ChecksCovers(Readiness!Coverage, NumLectures)
<1> DEFINE Line(l, s) == IF Readiness!Group(l) = {} THEN s ELSE Append(s, Readiness!Cover(l, s))
           Told(f) == [l \in 0..NumLectures |->
                  IF l = 0 THEN <<>>
                  ELSE LET before == f[l - 1] IN
                       IF Readiness!Group(l) = {} THEN before
                       ELSE Append(before, Readiness!Cover(l, before))]
           upTo == CHOOSE f : f = Told(f)
           D == Seq(Readiness!AllQuestions)
           lines == [l \in 1..NumLectures |-> [s \in D |-> Line(l, s)]]
           S == {l \in 0..NumLectures : ChecksCovers(upTo[l], l)}
<1>1. NumLectures \in Nat /\ Readiness!Lectures = 1..NumLectures
    BY ChecksLimits DEF Readiness!Lectures
<1>2. ASSUME NEW l \in 1..NumLectures, NEW s \in D
      PROVE  Line(l, s) \in D
  <2>1. Readiness!Group(l) # {} => Readiness!Cover(l, s) \in Readiness!AllQuestions
    BY <1>1, ChecksTakes
  <2>2. QED
    BY <2>1
<1>3. lines \in [1..NumLectures -> [D -> D]]
    BY <1>2
<1>4. <<>> \in D
    OBVIOUS
<1>5. \E f : f = Told(f)
  <2> HIDE DEF lines, D
  <2>1. \E f : Computes(f, NumLectures, D, <<>>, lines)
    BY <1>1, <1>3, <1>4, ComputedAlong
  <2>2. PICK f \in [0..NumLectures -> D] :
           f[0] = <<>> /\ \A l \in 1..NumLectures : f[l] = lines[l][f[l - 1]]
    BY <2>1 DEF Computes
  <2>3. ASSUME NEW l \in 1..NumLectures PROVE f[l] = Line(l, f[l - 1])
    <3>1. l - 1 \in 0..NumLectures
      BY <1>1
    <3>2. f[l - 1] \in D
      BY <2>2, <3>1
    <3> HIDE DEF Line
    <3>3. lines[l][f[l - 1]] = Line(l, f[l - 1])
      BY <3>2 DEF lines
    <3>4. QED
      BY <2>2, <3>3
  <2>4. ASSUME NEW l \in 0..NumLectures PROVE f[l] = Told(f)[l]
    <3>1. CASE l = 0
      BY <2>2, <3>1
    <3>2. CASE l # 0
      <4>1. Told(f)[l] = Line(l, f[l - 1])
        BY <3>2
      <4>2. l \in 1..NumLectures
        BY <1>1, <3>2
      <4> HIDE DEF Told, Line
      <4>3. QED
        BY <2>3, <4>1, <4>2
    <3>3. QED
      BY <3>1, <3>2
  <2>5. QED
    BY <2>2, <2>4
<1>6. upTo = Told(upTo)
    BY <1>5
<1>7. Readiness!Coverage = upTo[NumLectures]
    BY DEF Readiness!Coverage
<1> HIDE DEF upTo
<1>8. upTo[0] = <<>> /\ \A l \in 1..NumLectures : upTo[l] = Line(l, upTo[l - 1])
  <2>1. \A l \in 0..NumLectures : upTo[l] = Told(upTo)[l]
    BY <1>6
  <2>2. QED
    BY <1>1, <2>1
<1>9. 0 \in S
  <2>1. Readiness!Offering(0) = {}
    BY DEF Readiness!Offering
  <2> DEFINE none == <<>>
             I == {i \in DOMAIN none : none[i].kind = "choice"}
  <2>2. Readiness!Choices(none) = 0
    <3>1. DOMAIN none = {}
      OBVIOUS
    <3>2. I = {}
      BY <3>1
    <3>3. Readiness!Choices(none) = Cardinality(I)
      BY ChecksCardinality DEF Readiness!Choices
    <3> HIDE DEF I
    <3>4. QED
      BY <3>2, <3>3, FS_EmptySet
  <2>3. none \in Seq(Readiness!AllQuestions) /\ Len(none) = 0 /\ 1..Len(none) = {}
    OBVIOUS
  <2>4. ~(Readiness!Choices(none) > MaxChoice)
    BY <2>2, ChecksLimits
  <2>5. IsFiniteSet(Readiness!Offering(0)) /\ Cardinality(Readiness!Offering(0)) = 0
    BY <2>1, FS_EmptySet
  <2> HIDE DEF none
  <2>6. ChecksCovers(none, 0)
    BY <2>1, <2>3, <2>4, <2>5 DEF ChecksCovers
  <2>7. QED
    BY <1>1, <1>8, <2>6 DEF none
<1>10. ASSUME NEW l \in 1..NumLectures, l - 1 \in S PROVE l \in S
  <2>1. CASE Readiness!Group(l) = {}
    BY <1>1, <1>8, <1>10, <2>1, ChecksPasses
  <2>2. CASE Readiness!Group(l) # {}
    BY <1>1, <1>8, <1>10, <2>2, ChecksAdds
  <2>3. QED
    BY <2>1, <2>2
<1>11. S \in SUBSET (0..NumLectures)
    OBVIOUS
<1>12. NumLectures \in S
  <2> HIDE DEF S
  <2>1. \A l \in 0..NumLectures : l \in S
    BY <1>1, <1>9, <1>10, <1>11, Upwards
  <2>2. QED
    BY <1>1, <2>1
<1>13. QED
    BY <1>7, <1>12

\* What holds of the questions taken in the first p turns.
ChecksRounds(s, p, kind, covered, limit) ==
    /\ s \in Seq(Readiness!AllQuestions)
    /\ Len(s) <= limit \/ s = <<>>
    /\ \A i \in 1..Len(s) :
          /\ \E t \in 1..p : s[i] = Readiness!Turn(kind, t, covered)
          /\ s[i] \in Readiness!Group(s[i].lecture)
    /\ \A i, j \in 1..Len(s) : s[i] = s[j] => i = j
    /\ Len(s) < limit =>
          \A t \in 1..p : LET q == Readiness!Turn(kind, t, covered)
                          IN  q \in Readiness!Group(q.lecture) => \E i \in 1..Len(s) : s[i] = q

\* Each turn has a question of its own, and no question that is covered.
LEMMA ChecksTurns ==
    ASSUME NEW kind \in Readiness!Kinds, NEW covered, ChecksCovers(covered, NumLectures),
           NEW t \in 1..(2 * NumLectures)
    PROVE  LET q == Readiness!Turn(kind, t, covered)
           IN  /\ q.kind = kind /\ q.lecture \in Readiness!Lectures /\ q.n \in 1..3
               /\ q = Readiness!Question(q.lecture, kind, q.n)
               /\ q \notin Readiness!ToSet(covered)
               /\ t = IF q.n = (IF Readiness!Question(q.lecture, kind, 1) \in Readiness!ToSet(covered)
                                THEN 2 ELSE 1)
                      THEN q.lecture ELSE q.lecture + NumLectures
<1> DEFINE q == Readiness!Turn(kind, t, covered)
           l == IF t <= NumLectures THEN t ELSE t - NumLectures
           round == IF t <= NumLectures THEN 1 ELSE 2
           n == IF Readiness!Question(l, kind, 1) \in Readiness!ToSet(covered) THEN round + 1 ELSE round
<1>1. NumLectures \in Nat /\ Readiness!Lectures = 1..NumLectures
    BY ChecksLimits DEF Readiness!Lectures
<1>2. l \in Readiness!Lectures /\ round \in {1, 2}
    BY <1>1
<1>3. q = Readiness!Question(l, kind, n)
    BY DEF Readiness!Turn, Readiness!Left
<1>4. n \in 1..3
    BY <1>2
<1>5. q.kind = kind /\ q.lecture = l /\ q.n = n
    BY <1>3 DEF Readiness!Question
<1>6. \A p \in Readiness!ToSet(covered) : p.n = 1
    BY DEF Readiness!ToSet, ChecksCovers
<1>7. q \notin Readiness!ToSet(covered)
  <2>1. CASE n = 1
    BY <1>2, <1>3, <2>1
  <2>2. CASE n # 1
    BY <1>5, <1>6, <2>2
  <2>3. QED
    BY <2>1, <2>2
<1>8. t = IF n = (IF Readiness!Question(l, kind, 1) \in Readiness!ToSet(covered) THEN 2 ELSE 1)
          THEN l ELSE l + NumLectures
    BY <1>1
<1>9. QED
    BY <1>2, <1>3, <1>4, <1>5, <1>7, <1>8

\* A question of the kind that is not covered has a turn.
LEMMA ChecksHasTurn ==
    ASSUME Readiness!TypeOK, NEW kind \in Readiness!Kinds, NEW covered,
           NEW q \in Readiness!AllQuestions, q.kind = kind, q \notin Readiness!ToSet(covered)
    PROVE  \E t \in 1..(2 * NumLectures) : q = Readiness!Turn(kind, t, covered)
<1>1. NumLectures \in Nat /\ q.lecture \in 1..NumLectures
    BY ChecksLimits DEF Readiness!AllQuestions, Readiness!Lectures
<1>2. q = Readiness!Question(q.lecture, kind, q.n) /\ q.n \in 1..2
    BY DEF Readiness!AllQuestions, Readiness!Question
<1> DEFINE first == Readiness!Question(q.lecture, kind, 1) \in Readiness!ToSet(covered)
<1>3. Readiness!Turn(kind, q.lecture, covered) = Readiness!Question(q.lecture, kind, IF first THEN 2 ELSE 1)
    BY <1>1 DEF Readiness!Turn, Readiness!Left
<1>4. Readiness!Turn(kind, q.lecture + NumLectures, covered)
         = Readiness!Question(q.lecture, kind, IF first THEN 3 ELSE 2)
  <2> DEFINE t == q.lecture + NumLectures
  <2>1. ~(t <= NumLectures) /\ t - NumLectures = q.lecture
    BY <1>1
  <2> HIDE DEF t
  <2>2. Readiness!Turn(kind, t, covered) = Readiness!Left(q.lecture, kind, 2, covered)
    BY <2>1 DEF Readiness!Turn
  <2>3. Readiness!Left(q.lecture, kind, 2, covered)
           = Readiness!Question(q.lecture, kind, IF first THEN 3 ELSE 2)
    BY DEF Readiness!Left
  <2>4. QED
    BY <2>2, <2>3 DEF t
<1>5. q.lecture \in 1..(2 * NumLectures) /\ q.lecture + NumLectures \in 1..(2 * NumLectures)
    BY <1>1
<1>6. CASE first
  <2>1. q.n = 2
    BY <1>2, <1>6
  <2>2. QED
    BY <1>2, <1>3, <1>5, <1>6, <2>1
<1>7. CASE ~first
    BY <1>2, <1>3, <1>4, <1>5, <1>7
<1>8. QED
    BY <1>6, <1>7

\* A turn at which nothing is taken.
LEMMA ChecksSkipsTurn ==
    ASSUME Readiness!TypeOK, NEW kind \in Readiness!Kinds, NEW covered, NEW limit \in Int,
           NEW p \in 1..(2 * NumLectures), NEW s, ChecksRounds(s, p - 1, kind, covered, limit),
           LET q == Readiness!Turn(kind, p, covered)
           IN  ~(Len(s) < limit /\ q \in Readiness!Group(q.lecture))
    PROVE  ChecksRounds(s, p, kind, covered, limit)
<1>1. p \in Nat \ {0}
    BY ChecksLimits
<1>2. \A t : t \in 1..p <=> t \in 1..(p - 1) \/ t = p
    BY <1>1
<1>3. QED
    BY <1>2 DEF ChecksRounds

\* A turn at which the question is taken.
LEMMA ChecksTakesTurn ==
    ASSUME Readiness!TypeOK, NEW kind \in Readiness!Kinds, NEW covered, NEW limit \in Int,
           ChecksCovers(covered, NumLectures),
           NEW p \in 1..(2 * NumLectures), NEW s, ChecksRounds(s, p - 1, kind, covered, limit),
           Len(s) < limit,
           Readiness!Turn(kind, p, covered) \in
               Readiness!Group(Readiness!Turn(kind, p, covered).lecture)
    PROVE  ChecksRounds(Append(s, Readiness!Turn(kind, p, covered)), p, kind, covered, limit)
<1> DEFINE q == Readiness!Turn(kind, p, covered)
           t == Append(s, q)
<1>1. p \in Nat \ {0}
    BY ChecksLimits
<1>2. \A m : m \in 1..p <=> m \in 1..(p - 1) \/ m = p
    BY <1>1
<1>3. q.lecture \in Readiness!Lectures
    BY ChecksTurns
<1>4. q \in Readiness!AllQuestions
    BY <1>3, ChecksGroups
<1>5. \A m \in 1..(p - 1) : Readiness!Turn(kind, m, covered) # q
  <2>1. ASSUME NEW m \in 1..(p - 1), Readiness!Turn(kind, m, covered) = q
        PROVE  FALSE
    <3>1. m \in 1..(2 * NumLectures) /\ m # p
      BY <1>1, ChecksLimits
    <3> DEFINE r == Readiness!Turn(kind, m, covered)
               At(x) == IF x.n = (IF Readiness!Question(x.lecture, kind, 1) \in Readiness!ToSet(covered)
                                  THEN 2 ELSE 1)
                        THEN x.lecture ELSE x.lecture + NumLectures
    <3>2. m = At(r)
      BY <3>1, ChecksTurns
    <3>3. p = At(q)
      BY ChecksTurns
    <3> HIDE DEF At, r, q
    <3>4. r = q
      BY <2>1 DEF r, q
    <3>5. QED
      BY <3>1, <3>2, <3>3, <3>4
  <2>2. QED
    BY <2>1
<1>6. s \in Seq(Readiness!AllQuestions)
    BY DEF ChecksRounds
<1> HIDE DEF q
<1>7. /\ t \in Seq(Readiness!AllQuestions) /\ Len(s) \in Nat /\ Len(t) = Len(s) + 1
      /\ t[Len(s) + 1] = q /\ \A i \in 1..Len(s) : t[i] = s[i]
    BY <1>4, <1>6
<1> HIDE DEF t
<1>8. \A i \in 1..Len(t) : i \in 1..Len(s) \/ i = Len(s) + 1
    BY <1>7
<1>9. Len(t) <= limit
    BY <1>7
<1>10. \A i \in 1..Len(s) :
          /\ \E m \in 1..(p - 1) : s[i] = Readiness!Turn(kind, m, covered)
          /\ s[i] \in Readiness!Group(s[i].lecture)
    BY DEF ChecksRounds
<1>11. ASSUME NEW i \in 1..Len(t)
       PROVE  /\ \E m \in 1..p : t[i] = Readiness!Turn(kind, m, covered)
              /\ t[i] \in Readiness!Group(t[i].lecture)
  <2>1. CASE i \in 1..Len(s)
    BY <1>2, <1>7, <1>10, <2>1
  <2>2. CASE i = Len(s) + 1
    BY <1>2, <1>7, <2>2 DEF q
  <2>3. QED
    BY <1>8, <2>1, <2>2
<1>12. \A i \in 1..Len(s) : s[i] # q
    BY <1>5, <1>10
<1>13. ASSUME NEW i \in 1..Len(t), NEW j \in 1..Len(t), t[i] = t[j] PROVE i = j
  <2>1. CASE i \in 1..Len(s) /\ j \in 1..Len(s)
    BY <1>7, <1>13, <2>1 DEF ChecksRounds
  <2>2. QED
    BY <1>7, <1>8, <1>12, <1>13, <2>1
<1>14. ASSUME NEW m \in 1..p, Len(t) < limit,
              Readiness!Turn(kind, m, covered) \in
                  Readiness!Group(Readiness!Turn(kind, m, covered).lecture)
       PROVE  \E i \in 1..Len(t) : t[i] = Readiness!Turn(kind, m, covered)
  <2>1. CASE m = p
    <3>1. Len(s) + 1 \in 1..Len(t)
      BY <1>7
    <3>2. QED
      BY <1>7, <2>1, <3>1 DEF q
  <2>2. CASE m # p
    <3>1. PICK i \in 1..Len(s) : s[i] = Readiness!Turn(kind, m, covered)
      BY <1>2, <1>14, <2>2 DEF ChecksRounds
    <3>2. i \in 1..Len(t)
      BY <1>7
    <3>3. QED
      BY <1>7, <3>1, <3>2
  <2>3. QED
    BY <2>1, <2>2
<1>15. ChecksRounds(t, p, kind, covered, limit)
    BY <1>7, <1>9, <1>11, <1>13, <1>14 DEF ChecksRounds
<1>16. QED
    BY <1>15 DEF t, q

\* The turns take what the limit has room for.
LEMMA ChecksRoundRobin ==
    ASSUME Readiness!TypeOK, NEW kind \in Readiness!Kinds, NEW covered, NEW limit \in Int,
           ChecksCovers(covered, NumLectures)
    PROVE  ChecksRounds(Readiness!RoundRobin(kind, covered, limit), 2 * NumLectures,
                        kind, covered, limit)
<1> DEFINE Takes(p, s) == LET next == Readiness!Turn(kind, p, covered)
                          IN  Len(s) < limit /\ next \in Readiness!Group(next.lecture)
           Line(p, s) == IF Takes(p, s) THEN Append(s, Readiness!Turn(kind, p, covered)) ELSE s
           Told(f) == [p \in 0..2 * NumLectures |->
                  IF p = 0 THEN <<>>
                  ELSE LET before == f[p - 1]
                           next == Readiness!Turn(kind, p, covered)
                       IN  IF Len(before) < limit /\ next \in Readiness!Group(next.lecture)
                           THEN Append(before, next) ELSE before]
           upTo == CHOOSE f : f = Told(f)
           last == 2 * NumLectures
           D == Seq(Readiness!AllQuestions)
           lines == [p \in 1..last |-> [s \in D |-> Line(p, s)]]
           S == {p \in 0..last : ChecksRounds(upTo[p], p, kind, covered, limit)}
<1>1. NumLectures \in Nat /\ last \in Nat
    BY ChecksLimits
<1>2. ASSUME NEW p \in 1..last, NEW s \in D
      PROVE  Line(p, s) \in D
  <2>1. Readiness!Turn(kind, p, covered).lecture \in Readiness!Lectures
    BY ChecksTurns
  <2>2. Takes(p, s) => Readiness!Turn(kind, p, covered) \in Readiness!AllQuestions
    BY <2>1, ChecksGroups
  <2>3. QED
    BY <2>2
<1>3. lines \in [1..last -> [D -> D]]
    BY <1>2
<1>4. <<>> \in D
    OBVIOUS
<1>5. \E f : f = Told(f)
  <2> HIDE DEF lines, D
  <2>1. \E f : Computes(f, last, D, <<>>, lines)
    <3> HIDE DEF last
    <3>1. QED
      BY <1>1, <1>3, <1>4, ComputedAlong
  <2>2. PICK f \in [0..last -> D] :
           f[0] = <<>> /\ \A p \in 1..last : f[p] = lines[p][f[p - 1]]
    BY <2>1 DEF Computes
  <2>3. ASSUME NEW p \in 1..last PROVE f[p] = Line(p, f[p - 1])
    <3>1. p - 1 \in 0..last
      BY <1>1
    <3>2. f[p - 1] \in D
      BY <2>2, <3>1
    <3> HIDE DEF Line
    <3>3. lines[p][f[p - 1]] = Line(p, f[p - 1])
      BY <3>2 DEF lines
    <3>4. QED
      BY <2>2, <3>3
  <2>4. ASSUME NEW p \in 0..last PROVE f[p] = Told(f)[p]
    <3>1. CASE p = 0
      BY <2>2, <3>1
    <3>2. CASE p # 0
      <4>1. Told(f)[p] = Line(p, f[p - 1])
        BY <3>2
      <4>2. p \in 1..last
        BY <1>1, <3>2
      <4> HIDE DEF Told, Line
      <4>3. QED
        BY <2>3, <4>1, <4>2
    <3>3. QED
      BY <3>1, <3>2
  <2>5. QED
    BY <2>2, <2>4
<1>6. upTo = Told(upTo)
    BY <1>5
<1>7. Readiness!RoundRobin(kind, covered, limit) = upTo[last]
    BY DEF Readiness!RoundRobin
<1> HIDE DEF upTo
<1>8. upTo[0] = <<>> /\ \A p \in 1..last : upTo[p] = Line(p, upTo[p - 1])
  <2>1. \A p \in 0..last : upTo[p] = Told(upTo)[p]
    BY <1>6
  <2>2. QED
    BY <1>1, <2>1
<1>9. 0 \in S
  <2> DEFINE none == <<>>
  <2>1. none \in Seq(Readiness!AllQuestions) /\ Len(none) = 0 /\ 1..Len(none) = {} /\ 1..0 = {}
    OBVIOUS
  <2>2. ChecksRounds(none, 0, kind, covered, limit)
    BY <2>1 DEF ChecksRounds
  <2>3. QED
    BY <1>1, <1>8, <2>2
<1>10. ASSUME NEW p \in 1..last, p - 1 \in S PROVE p \in S
  <2>1. CASE Takes(p, upTo[p - 1])
    BY <1>1, <1>8, <1>10, <2>1, ChecksTakesTurn
  <2>2. CASE ~Takes(p, upTo[p - 1])
    BY <1>1, <1>8, <1>10, <2>2, ChecksSkipsTurn
  <2>3. QED
    BY <2>1, <2>2
<1>11. S \in SUBSET (0..last)
    OBVIOUS
<1>12. last \in S
  <2> HIDE DEF S, last
  <2>1. \A p \in 0..last : p \in S
    BY <1>1, <1>9, <1>10, <1>11, Upwards
  <2>2. QED
    BY <1>1, <2>1
<1>13. QED
    BY <1>7, <1>12

\* The whole check: the coverage, then open questions, then multiple choices.
LEMMA ChecksMix ==
    ASSUME Readiness!TypeOK
    PROVE  \E covered, open, choice, room :
              /\ Readiness!Questions = covered \o open \o choice
              /\ ChecksCovers(covered, NumLectures)
              /\ ChecksRounds(open, 2 * NumLectures, "open", covered,
                              Readiness!QuestionLimit - Len(covered))
              /\ room = Readiness!QuestionLimit - Len(covered) - Len(open) /\ room \in Nat
              /\ ChecksRounds(choice, 2 * NumLectures, "choice", covered,
                              IF MaxChoice - Readiness!Choices(covered) < room
                              THEN MaxChoice - Readiness!Choices(covered) ELSE room)
              /\ Len(covered) \in Nat /\ Len(open) \in Nat /\ Len(choice) \in Nat
              /\ Readiness!Choices(covered) \in Nat /\ Readiness!QuestionLimit \in Nat
<1> DEFINE covered == Readiness!Coverage
           limit == Readiness!QuestionLimit
           open == Readiness!RoundRobin("open", covered, limit - Len(covered))
           room == limit - Len(covered) - Len(open)
           budget == MaxChoice - Readiness!Choices(covered)
           least == IF budget < room THEN budget ELSE room
           choice == Readiness!RoundRobin("choice", covered, least)
<1>1. Readiness!Questions = covered \o open \o choice
    BY DEF Readiness!Questions, Readiness!Mixed
<1>2. ChecksCovers(covered, NumLectures)
    BY ChecksCoverage
<1> HIDE DEF covered
<1>3. /\ covered \in Seq(Readiness!AllQuestions) /\ Len(covered) \in Nat
      /\ Len(covered) = Cardinality(Readiness!Offering(NumLectures))
    BY <1>2 DEF ChecksCovers
<1>4. limit \in Nat /\ Len(covered) <= limit
    BY <1>3, ChecksCardinality, ChecksLimits DEF Readiness!QuestionLimit
<1>5. PICK q : q \in Readiness!AllQuestions
  <2>1. Readiness!Question(1, "open", 1) \in Readiness!AllQuestions
    BY ChecksLimits DEF Readiness!Question, Readiness!AllQuestions, Readiness!Lectures, Readiness!Kinds
  <2>2. QED
    BY <2>1
<1>6. Readiness!Choices(covered) \in Nat
    BY <1>3, <1>5, ChecksChoices
<1> HIDE DEF limit
<1>7. ChecksRounds(open, 2 * NumLectures, "open", covered, limit - Len(covered))
  <2>1. limit - Len(covered) \in Int /\ "open" \in Readiness!Kinds
    BY <1>3, <1>4 DEF Readiness!Kinds
  <2>2. QED
    BY <1>2, <2>1, ChecksRoundRobin
<1> HIDE DEF open
<1>8. open \in Seq(Readiness!AllQuestions) /\ Len(open) \in Nat /\ (Len(open) <= limit - Len(covered) \/ open = <<>>)
    BY <1>7 DEF ChecksRounds
<1>9. room \in Nat
    BY <1>3, <1>4, <1>8
<1>10. least \in Int
    BY <1>6, <1>9, ChecksLimits
<1> HIDE DEF least
<1>11. ChecksRounds(choice, 2 * NumLectures, "choice", covered, least)
  <2>1. "choice" \in Readiness!Kinds
    BY DEF Readiness!Kinds
  <2>2. QED
    BY <1>2, <1>10, <2>1, ChecksRoundRobin
<1> HIDE DEF choice
<1>12. choice \in Seq(Readiness!AllQuestions) /\ Len(choice) \in Nat
    BY <1>11 DEF ChecksRounds
<1> USE DEF least
<1> HIDE DEF room
<1>13. QED
    BY <1>1, <1>2, <1>3, <1>4, <1>6, <1>7, <1>8, <1>9, <1>11, <1>12 DEF limit, room

\* What the turns took is of the kind asked for, and not covered before.
LEMMA ChecksTaken ==
    ASSUME NEW kind \in Readiness!Kinds, NEW covered, NEW limit, NEW s,
           ChecksCovers(covered, NumLectures),
           ChecksRounds(s, 2 * NumLectures, kind, covered, limit)
    PROVE  \A i \in 1..Len(s) :
              /\ s[i] \in Readiness!AllQuestions /\ s[i].kind = kind
              /\ s[i] \notin Readiness!ToSet(covered)
<1>1. ASSUME NEW i \in 1..Len(s)
      PROVE  s[i].kind = kind /\ s[i] \notin Readiness!ToSet(covered)
  <2>1. PICK t \in 1..(2 * NumLectures) : s[i] = Readiness!Turn(kind, t, covered)
    BY DEF ChecksRounds
  <2>2. QED
    BY <2>1, ChecksTurns
<1>2. s \in Seq(Readiness!AllQuestions)
    BY DEF ChecksRounds
<1>3. QED
    BY <1>1, <1>2

\* Without repetition: the places of the check have different questions.
LEMMA ChecksDistinct ==
    ASSUME NEW a \in Seq(Readiness!AllQuestions), NEW b \in Seq(Readiness!AllQuestions),
           \A i, j \in 1..Len(a) : a[i] = a[j] => i = j,
           \A i, j \in 1..Len(b) : b[i] = b[j] => i = j,
           \A i \in 1..Len(a), j \in 1..Len(b) : a[i] # b[j]
    PROVE  /\ a \o b \in Seq(Readiness!AllQuestions) /\ Len(a \o b) = Len(a) + Len(b)
           /\ \A i, j \in 1..Len(a \o b) : (a \o b)[i] = (a \o b)[j] => i = j
           /\ Readiness!ToSet(a \o b) = Readiness!ToSet(a) \cup Readiness!ToSet(b)
<1> DEFINE c == a \o b
<1>1. /\ Len(a) \in Nat /\ DOMAIN a = 1..Len(a)
      /\ Len(b) \in Nat /\ DOMAIN b = 1..Len(b)
      /\ c \in Seq(Readiness!AllQuestions) /\ Len(c) = Len(a) + Len(b) /\ DOMAIN c = 1..(Len(a) + Len(b))
      /\ \A i \in 1..(Len(a) + Len(b)) : c[i] = IF i <= Len(a) THEN a[i] ELSE b[i - Len(a)]
    OBVIOUS
<1> HIDE DEF c
<1>2. \A i \in 1..Len(a) : i \in DOMAIN c /\ c[i] = a[i]
    BY <1>1
<1>3. ASSUME NEW j \in 1..Len(b)
      PROVE  Len(a) + j \in DOMAIN c /\ c[Len(a) + j] = b[j]
  <2> DEFINE k == Len(a) + j
  <2>1. k \in 1..(Len(a) + Len(b)) /\ ~(k <= Len(a)) /\ k - Len(a) = j
    BY <1>1
  <2> HIDE DEF k
  <2>2. k \in DOMAIN c /\ c[k] = b[j]
    BY <1>1, <2>1
  <2>3. QED
    BY <2>2 DEF k
<1>4. \A i \in DOMAIN c : i \in 1..Len(a) \/ \E j \in 1..Len(b) : i = Len(a) + j
  <2>1. ASSUME NEW i \in DOMAIN c, i \notin 1..Len(a)
        PROVE  i - Len(a) \in 1..Len(b) /\ i = Len(a) + (i - Len(a))
    BY <1>1, <2>1
  <2>2. QED
    BY <2>1
<1>5. ASSUME NEW i \in DOMAIN c, NEW j \in DOMAIN c, c[i] = c[j] PROVE i = j
  <2>1. CASE i \in 1..Len(a) /\ j \in 1..Len(a)
    BY <1>2, <1>5, <2>1
  <2>2. CASE i \in 1..Len(a) /\ j \notin 1..Len(a)
    BY <1>2, <1>3, <1>4, <1>5, <2>2
  <2>3. CASE i \notin 1..Len(a) /\ j \in 1..Len(a)
    BY <1>2, <1>3, <1>4, <1>5, <2>3
  <2>4. CASE i \notin 1..Len(a) /\ j \notin 1..Len(a)
    <3>1. PICK k \in 1..Len(b) : i = Len(a) + k
      BY <1>4, <2>4
    <3>2. PICK m \in 1..Len(b) : j = Len(a) + m
      BY <1>4, <2>4
    <3>3. b[k] = b[m]
      BY <1>3, <1>5, <3>1, <3>2
    <3>4. QED
      BY <3>1, <3>2, <3>3
  <2>5. QED
    BY <2>1, <2>2, <2>3, <2>4
<1>6. Readiness!ToSet(c) = Readiness!ToSet(a) \cup Readiness!ToSet(b)
  <2>1. ASSUME NEW i \in DOMAIN c
        PROVE  (\E j \in DOMAIN a : c[i] = a[j]) \/ (\E j \in DOMAIN b : c[i] = b[j])
    <3>1. CASE i \in 1..Len(a)
      BY <1>1, <1>2, <3>1
    <3>2. CASE i \notin 1..Len(a)
      <4>1. PICK j \in 1..Len(b) : i = Len(a) + j
        BY <1>4, <3>2
      <4>2. c[i] = b[j] /\ j \in DOMAIN b
        BY <1>1, <1>3, <4>1
      <4>3. QED
        BY <4>2
    <3>3. QED
      BY <3>1, <3>2
  <2>2. \A j \in DOMAIN a : \E i \in DOMAIN c : c[i] = a[j]
    BY <1>1, <1>2
  <2>3. \A j \in DOMAIN b : \E i \in DOMAIN c : c[i] = b[j]
    BY <1>1, <1>3
  <2>4. QED
    BY <2>1, <2>2, <2>3 DEF Readiness!ToSet
<1>7. QED
    BY <1>1, <1>5, <1>6 DEF c

\* What the check asks: the coverage, then open questions, then multiple
\* choices, without repetition and of the published lectures.
LEMMA ChecksAsk ==
    ASSUME Readiness!TypeOK, NEW covered, NEW open, NEW choice, NEW limit, NEW least,
           Readiness!Questions = covered \o open \o choice,
           ChecksCovers(covered, NumLectures),
           ChecksRounds(open, 2 * NumLectures, "open", covered, limit),
           ChecksRounds(choice, 2 * NumLectures, "choice", covered, least)
    PROVE  /\ Readiness!Questions \in Seq(Readiness!AllQuestions)
           /\ Len(Readiness!Questions) = Len(covered) + Len(open) + Len(choice)
           /\ \A i, j \in 1..Len(Readiness!Questions) :
                 Readiness!Questions[i] = Readiness!Questions[j] => i = j
           /\ Readiness!ToSet(Readiness!Questions) =
                Readiness!ToSet(covered) \cup Readiness!ToSet(open) \cup Readiness!ToSet(choice)
<1>1. /\ covered \in Seq(Readiness!AllQuestions)
      /\ \A i, j \in 1..Len(covered) : covered[i] = covered[j] => i = j
    BY DEF ChecksCovers
<1>2. /\ open \in Seq(Readiness!AllQuestions)
      /\ \A i, j \in 1..Len(open) : open[i] = open[j] => i = j
    BY DEF ChecksRounds
<1>3. /\ choice \in Seq(Readiness!AllQuestions)
      /\ \A i, j \in 1..Len(choice) : choice[i] = choice[j] => i = j
    BY DEF ChecksRounds
<1>4. "open" \in Readiness!Kinds /\ "choice" \in Readiness!Kinds
    BY DEF Readiness!Kinds
<1>5. \A i \in 1..Len(open) : open[i].kind = "open" /\ open[i] \notin Readiness!ToSet(covered)
    BY <1>4, ChecksTaken
<1>6. \A i \in 1..Len(choice) : choice[i].kind = "choice" /\ choice[i] \notin Readiness!ToSet(covered)
    BY <1>4, ChecksTaken
<1>7. \A i \in 1..Len(covered) : covered[i] \in Readiness!ToSet(covered)
    BY <1>1 DEF Readiness!ToSet
<1> DEFINE first == covered \o open
<1>8. \A i \in 1..Len(covered), j \in 1..Len(open) : covered[i] # open[j]
    BY <1>5, <1>7
<1>9. /\ first \in Seq(Readiness!AllQuestions) /\ Len(first) = Len(covered) + Len(open)
      /\ \A i, j \in 1..Len(first) : first[i] = first[j] => i = j
      /\ Readiness!ToSet(first) = Readiness!ToSet(covered) \cup Readiness!ToSet(open)
    BY <1>1, <1>2, <1>8, ChecksDistinct
<1> HIDE DEF first
<1>10. \A i \in 1..Len(first) : first[i] \in Readiness!ToSet(first)
    BY <1>9 DEF Readiness!ToSet
<1>11. \A q \in Readiness!ToSet(open) : q.kind = "open"
    BY <1>2, <1>5 DEF Readiness!ToSet
<1>12. \A i \in 1..Len(first), j \in 1..Len(choice) : first[i] # choice[j]
  <2>1. ASSUME NEW i \in 1..Len(first), NEW j \in 1..Len(choice), first[i] = choice[j]
        PROVE  FALSE
    <3>1. first[i] \in Readiness!ToSet(covered) \cup Readiness!ToSet(open)
      BY <1>9, <1>10
    <3>2. choice[j] \notin Readiness!ToSet(covered) /\ choice[j].kind = "choice"
      BY <1>6
    <3>3. QED
      BY <1>11, <2>1, <3>1, <3>2
  <2>2. QED
    BY <2>1
<1>13. /\ first \o choice \in Seq(Readiness!AllQuestions)
       /\ Len(first \o choice) = Len(first) + Len(choice)
       /\ \A i, j \in 1..Len(first \o choice) : (first \o choice)[i] = (first \o choice)[j] => i = j
       /\ Readiness!ToSet(first \o choice) = Readiness!ToSet(first) \cup Readiness!ToSet(choice)
    BY <1>3, <1>9, <1>12, ChecksDistinct
<1>14. Readiness!Questions = first \o choice
    BY DEF first
<1>15. QED
    BY <1>9, <1>13, <1>14

\* Every lecture with a question is in the check.
LEMMA ChecksEveryLecture == Readiness!TypeOK => Readiness!EveryLectureIsCovered
<1> SUFFICES ASSUME Readiness!TypeOK, NEW l \in Readiness!Offering(NumLectures)
             PROVE  \E i \in DOMAIN Readiness!Questions : Readiness!Questions[i].lecture = l
    BY DEF Readiness!EveryLectureIsCovered
<1>1. PICK covered, open, choice, room :
              /\ Readiness!Questions = covered \o open \o choice
              /\ ChecksCovers(covered, NumLectures)
              /\ ChecksRounds(open, 2 * NumLectures, "open", covered,
                              Readiness!QuestionLimit - Len(covered))
              /\ ChecksRounds(choice, 2 * NumLectures, "choice", covered,
                              IF MaxChoice - Readiness!Choices(covered) < room
                              THEN MaxChoice - Readiness!Choices(covered) ELSE room)
    BY ChecksMix
<1>2. Readiness!ToSet(covered) \subseteq Readiness!ToSet(Readiness!Questions)
    BY <1>1, ChecksAsk
<1>3. PICK i \in 1..Len(covered) : covered[i].lecture = l
    BY <1>1 DEF ChecksCovers
<1>4. covered[i] \in Readiness!ToSet(covered)
    BY <1>1 DEF Readiness!ToSet, ChecksCovers
<1>5. QED
    BY <1>2, <1>3, <1>4 DEF Readiness!ToSet

\* The mix is balanced.
LEMMA ChecksBalance == Readiness!TypeOK => Readiness!CheckIsBalanced
<1> SUFFICES ASSUME Readiness!TypeOK PROVE Readiness!CheckIsBalanced
    OBVIOUS
<1>1. PICK covered, open, choice, room :
              /\ Readiness!Questions = covered \o open \o choice
              /\ ChecksCovers(covered, NumLectures)
              /\ ChecksRounds(open, 2 * NumLectures, "open", covered,
                              Readiness!QuestionLimit - Len(covered))
              /\ room = Readiness!QuestionLimit - Len(covered) - Len(open) /\ room \in Nat
              /\ ChecksRounds(choice, 2 * NumLectures, "choice", covered,
                              IF MaxChoice - Readiness!Choices(covered) < room
                              THEN MaxChoice - Readiness!Choices(covered) ELSE room)
              /\ Len(covered) \in Nat /\ Len(open) \in Nat /\ Len(choice) \in Nat
              /\ Readiness!Choices(covered) \in Nat /\ Readiness!QuestionLimit \in Nat
    BY ChecksMix
<1> DEFINE asked == Readiness!Questions
           chosen == Readiness!ToSet(asked)
           limit == Readiness!QuestionLimit
           budget == MaxChoice - Readiness!Choices(covered)
           least == IF budget < room THEN budget ELSE room
           multiple == {q \in chosen : q.kind = "choice"}
           count == Cardinality(multiple)
           offered == UNION {Readiness!Group(l) : l \in Readiness!Lectures}
           extra == {q \in chosen : q.kind = "choice" /\ offers[q.lecture]["open"] = 0}
<1>2. /\ asked \in Seq(Readiness!AllQuestions)
      /\ Len(asked) = Len(covered) + Len(open) + Len(choice)
      /\ \A i, j \in 1..Len(asked) : asked[i] = asked[j] => i = j
      /\ chosen = Readiness!ToSet(covered) \cup Readiness!ToSet(open) \cup Readiness!ToSet(choice)
    BY <1>1, ChecksAsk
<1>3. ChecksRounds(choice, 2 * NumLectures, "choice", covered, least)
    BY <1>1
<1>4. "open" \in Readiness!Kinds /\ "choice" \in Readiness!Kinds
    BY DEF Readiness!Kinds
<1>5. /\ covered \in Seq(Readiness!AllQuestions)
      /\ open \in Seq(Readiness!AllQuestions)
      /\ choice \in Seq(Readiness!AllQuestions)
    BY <1>1, <1>3 DEF ChecksCovers, ChecksRounds
<1>6. \A q \in Readiness!ToSet(open) : q.kind = "open"
    BY <1>1, <1>4, <1>5, ChecksTaken DEF Readiness!ToSet
<1>7. \A q \in Readiness!ToSet(choice) : q.kind = "choice" /\ q \notin Readiness!ToSet(covered)
    BY <1>1, <1>3, <1>4, <1>5, ChecksTaken DEF Readiness!ToSet
<1>8. Cardinality(chosen) = Len(asked)
    BY <1>2, ChecksCounts
<1>9. Len(asked) <= limit
  <2>1. Len(open) <= limit - Len(covered) \/ open = <<>>
    BY <1>1 DEF ChecksRounds
  <2>2. Len(choice) <= least \/ choice = <<>>
    BY <1>3 DEF ChecksRounds
  <2>3. Len(choice) <= room
    BY <1>1, <2>2, ChecksLimits
  <2>4. QED
    BY <1>1, <1>2, <2>3
\* The multiple choices are those of the coverage and those of the last turns.
<1>10. count = Readiness!Choices(covered) + Len(choice)
  <2> DEFINE first == {q \in Readiness!ToSet(covered) : q.kind = "choice"}
             later == Readiness!ToSet(choice)
  <2>1. /\ IsFiniteSet(Readiness!ToSet(covered)) /\ Cardinality(first) = Readiness!Choices(covered)
    <3>1. \A i, j \in 1..Len(covered) : covered[i] = covered[j] => i = j
      BY <1>1 DEF ChecksCovers
    <3>2. QED
      BY <1>5, <3>1, ChecksCounts
  <2>2. IsFiniteSet(later) /\ Cardinality(later) = Len(choice)
    <3>1. \A i, j \in 1..Len(choice) : choice[i] = choice[j] => i = j
      BY <1>3 DEF ChecksRounds
    <3>2. QED
      BY <1>5, <3>1, ChecksCounts
  <2>3. first \in SUBSET Readiness!ToSet(covered)
    OBVIOUS
  <2>4. IsFiniteSet(first)
    BY <2>1, <2>3, FS_Subset
  <2>5. multiple = first \cup later
    BY <1>2, <1>6, <1>7
  <2>6. first \cap later = {}
    BY <1>7
  <2> HIDE DEF first, later, multiple
  <2>7. Cardinality(first \cup later) = Cardinality(first) + Cardinality(later) - Cardinality(first \cap later)
    BY <2>2, <2>4, FS_Union
  <2>8. Cardinality(first \cap later) = 0
    BY <2>6, FS_EmptySet
  <2>9. count = Readiness!Choices(covered) + Len(choice) - 0
    BY <2>1, <2>2, <2>5, <2>7, <2>8
  <2> HIDE DEF count
  <2>10. QED
    BY <1>1, <2>9
<1> HIDE DEF multiple
\* While there is room each question of a turn is taken.
<1>11. ASSUME Len(asked) < limit, NEW q \in offered \ chosen
       PROVE  q.kind = "choice" /\ count >= MaxChoice
  <2>1. PICK l \in Readiness!Lectures : q \in Readiness!Group(l)
    BY <1>11
  <2>2. q \in Readiness!AllQuestions /\ q.lecture = l /\ q.kind \in Readiness!Kinds
    BY <2>1, ChecksGroups DEF Readiness!AllQuestions
  <2>3. q \notin Readiness!ToSet(covered)
    BY <1>2, <1>11
  <2>4. q \in Readiness!Group(q.lecture)
    BY <2>1, <2>2
  <2>5. ASSUME NEW s, NEW most, ChecksRounds(s, 2 * NumLectures, q.kind, covered, most),
               Len(s) < most
        PROVE  q \in Readiness!ToSet(s)
    <3>1. PICK t \in 1..(2 * NumLectures) : q = Readiness!Turn(q.kind, t, covered)
      BY <2>2, <2>3, ChecksHasTurn
    <3>2. \E i \in 1..Len(s) : s[i] = q
      BY <2>4, <2>5, <3>1 DEF ChecksRounds
    <3>3. s \in Seq(Readiness!AllQuestions)
      BY <2>5 DEF ChecksRounds
    <3>4. QED
      BY <3>2, <3>3 DEF Readiness!ToSet
  <2>6. q.kind # "open"
    <3>1. Len(open) < limit - Len(covered)
      BY <1>1, <1>2, <1>11
    <3>2. ASSUME q.kind = "open" PROVE FALSE
      <4>1. ChecksRounds(open, 2 * NumLectures, q.kind, covered, limit - Len(covered))
        BY <1>1, <3>2
      <4>2. q \in Readiness!ToSet(open)
        BY <2>5, <3>1, <4>1
      <4>3. QED
        BY <1>2, <1>11, <4>2
    <3>3. QED
      BY <3>2
  <2>7. q.kind = "choice"
    BY <2>2, <2>6 DEF Readiness!Kinds
  <2>8. ~(Len(choice) < least)
    <3>1. ASSUME Len(choice) < least PROVE FALSE
      <4>1. ChecksRounds(choice, 2 * NumLectures, q.kind, covered, least)
        BY <1>3, <2>7
      <4>2. q \in Readiness!ToSet(choice)
        BY <2>5, <3>1, <4>1
      <4>3. QED
        BY <1>2, <1>11, <4>2
    <3>2. QED
      BY <3>1
  <2>9. Len(choice) < room
    BY <1>1, <1>2, <1>11
  <2>10. Len(choice) >= budget
    BY <1>1, <2>8, <2>9, ChecksLimits
  <2>11. count >= MaxChoice
    BY <1>1, <1>10, <2>10, ChecksLimits
  <2>12. QED
    BY <2>7, <2>11
\* Beyond the budget only the coverage takes multiple choices.
<1>12. ASSUME count > MaxChoice PROVE extra # {}
  <2>1. Readiness!Choices(covered) > MaxChoice
    <3>1. Len(choice) <= least \/ Len(choice) = 0
      BY <1>3 DEF ChecksRounds
    <3>2. Len(choice) <= budget \/ Len(choice) = 0
      BY <1>1, <3>1, ChecksLimits
    <3>3. QED
      BY <1>1, <1>10, <1>12, <3>2, ChecksLimits
  <2>2. PICK i \in 1..Len(covered) :
           covered[i].kind = "choice" /\ offers[covered[i].lecture]["open"] = 0
    BY <1>1, <2>1 DEF ChecksCovers
  <2>3. covered[i] \in chosen
    <3>1. covered[i] \in Readiness!ToSet(covered)
      BY <1>5 DEF Readiness!ToSet
    <3>2. QED
      BY <1>2, <3>1
  <2>4. covered[i] \in extra
    BY <2>2, <2>3
  <2>5. QED
    BY <2>4
<1>13. Readiness!Cardinality(chosen) = Cardinality(chosen)
       /\ Readiness!Cardinality(multiple) = Cardinality(multiple)
    BY ChecksCardinality
<1>14. QED
    BY <1>8, <1>9, <1>11, <1>12, <1>13 DEF Readiness!CheckIsBalanced, multiple

----------------------------------------------------------------------------
(* Attempts at a readiness check.                                          *)

\* At first nothing was asked.
LEMMA ChecksInit == Readiness!Init => Readiness!Inv
<1> SUFFICES ASSUME Readiness!Init PROVE Readiness!Inv
    OBVIOUS
<1>1. {e.index : e \in events} = 1..recorded /\ recorded \in Nat
    BY DEF Readiness!Init
<1>2. QED
    BY <1>1 DEF Readiness!Init, Readiness!Inv, Readiness!TypeOK, Readiness!OneFirstTry,
        Readiness!TasksAreOfTheLastAttempt

\* A publication, a page and the start of an attempt record nothing.
LEMMA ChecksOpen ==
    ASSUME Readiness!Inv,
           \/ \E l \in Readiness!Lectures, offer \in Readiness!Offers : Readiness!Publish(l, offer)
           \/ Readiness!OpenPage
           \/ \E a \in Pair : (\E wrong \in SUBSET page : Readiness!Submit(a, wrong)) \/ Readiness!GradingFails(a)
    PROVE  Readiness!Inv'
<1> USE DEF Readiness!Inv
<1>1. UNCHANGED <<events, tasks, recorded>>
    BY DEF Readiness!Publish, Readiness!OpenPage, Readiness!Submit, Readiness!GradingFails
<1>2. Readiness!OneFirstTry' /\ Readiness!TasksAreOfTheLastAttempt'
    BY <1>1 DEF Readiness!OneFirstTry, Readiness!TasksAreOfTheLastAttempt
<1> DEFINE Fits ==
        /\ offers' \in [Readiness!Lectures -> Readiness!Offers]
        /\ page' \subseteq Readiness!AllQuestions
        /\ readinessAttempt' \in [Pair -> Readiness!AttemptRecords \cup {None}]
        /\ \A a \in Pair : readinessAttempt'[a] # None =>
              /\ readinessAttempt'[a].asked # {}
              /\ readinessAttempt'[a].wrong \subseteq {q \in readinessAttempt'[a].asked : q.kind = "choice"}
<1>3. Fits
  <2>1. ASSUME NEW l \in Readiness!Lectures, NEW offer \in Readiness!Offers, Readiness!Publish(l, offer)
        PROVE  Fits
    BY <2>1 DEF Readiness!Publish, Readiness!TypeOK
  <2>2. ASSUME Readiness!OpenPage PROVE Fits
    <3>1. PICK covered, open, choice, limit, least :
              /\ Readiness!Questions = covered \o open \o choice
              /\ ChecksCovers(covered, NumLectures)
              /\ ChecksRounds(open, 2 * NumLectures, "open", covered, limit)
              /\ ChecksRounds(choice, 2 * NumLectures, "choice", covered, least)
      BY ChecksMix
    <3>2. Readiness!Questions \in Seq(Readiness!AllQuestions)
      BY <3>1, ChecksAsk
    <3>3. Readiness!ToSet(Readiness!Questions) \subseteq Readiness!AllQuestions
      BY <3>2 DEF Readiness!ToSet
    <3>4. QED
      BY <2>2, <3>3 DEF Readiness!OpenPage, Readiness!TypeOK
  <2>3. ASSUME NEW a \in Pair, NEW wrong \in SUBSET page, Readiness!Submit(a, wrong)
        PROVE  Fits
    <3> DEFINE asking == [asked |-> page, wrong |-> wrong, before |-> {e.question : e \in events}]
    <3>1. {e.question : e \in events} \subseteq Readiness!AllQuestions
      BY DEF Readiness!TypeOK, Readiness!EventRecords
    <3>2. asking \in Readiness!AttemptRecords
      BY <3>1 DEF Readiness!AttemptRecords, Readiness!TypeOK
    <3>3. asking.asked # {} /\ asking.wrong \subseteq {q \in asking.asked : q.kind = "choice"}
      BY <2>3 DEF Readiness!Submit
    <3>4. readinessAttempt' = [readinessAttempt EXCEPT ![a] = asking] /\ UNCHANGED <<offers, page>>
      BY <2>3 DEF Readiness!Submit
    <3> HIDE DEF asking
    <3>5. QED
      BY <3>2, <3>3, <3>4 DEF Readiness!TypeOK
  <2>4. ASSUME NEW a \in Pair, Readiness!GradingFails(a) PROVE Fits
    BY <2>4 DEF Readiness!GradingFails, Readiness!TypeOK
  <2>5. QED
    BY <2>1, <2>2, <2>3, <2>4
<1> HIDE DEF Fits
<1>4. QED
    BY <1>1, <1>2, <1>3 DEF Fits, Readiness!TypeOK

\* An attempt is recorded under the next index, and its first tries are those
\* of the record as it is then.
LEMMA ChecksRecord ==
    ASSUME Readiness!Inv, NEW a \in Pair, Readiness!Record(a)
    PROVE  Readiness!Inv'
<1> USE DEF Readiness!Inv
<1> DEFINE it == readinessAttempt[a]
           fresh == {[question |-> q, wrong |-> q \in it.wrong, index |-> recorded',
                      firstTry |-> \A e \in events : e.question # q] : q \in it.asked}
<1>1. /\ it \in Readiness!AttemptRecords /\ it.asked # {}
      /\ it.wrong \subseteq {q \in it.asked : q.kind = "choice"}
      /\ it.asked \subseteq Readiness!AllQuestions
    BY DEF Readiness!Record, Readiness!TypeOK, Readiness!AttemptRecords
<1>2. recorded \in Nat /\ {e.index : e \in events} = 1..recorded
    BY DEF Readiness!TypeOK
<1>3. recorded' = recorded + 1
  <2>1. Cardinality(1..recorded) = recorded
    BY <1>2, FS_Interval
  <2>2. QED
    BY <1>2, <2>1, ChecksCardinality DEF Readiness!Record
<1>4. /\ events' = events \cup fresh /\ tasks' = it.wrong
      /\ UNCHANGED <<offers, page>>
      /\ readinessAttempt' = [readinessAttempt EXCEPT ![a] = None]
    BY DEF Readiness!Record
<1>5. \A e \in events : e \in Readiness!EventRecords /\ e.index \in 1..recorded
    BY <1>2 DEF Readiness!TypeOK
<1>6. \A e : e \in fresh <=> \E q \in it.asked :
         e = [question |-> q, wrong |-> q \in it.wrong, index |-> recorded',
              firstTry |-> \A d \in events : d.question # q]
    OBVIOUS
<1> HIDE DEF it
<1>7. \A e \in fresh : /\ e.index = recorded + 1 /\ e.question \in it.asked
                       /\ e.wrong = (e.question \in it.wrong) /\ e \in Readiness!EventRecords
                       /\ e.firstTry = (\A d \in events : d.question # e.question)
  <2>1. ASSUME NEW q \in it.asked, NEW e,
               e = [question |-> q, wrong |-> q \in it.wrong, index |-> recorded',
                    firstTry |-> \A d \in events : d.question # q]
        PROVE  /\ e.index = recorded + 1 /\ e.question \in it.asked
               /\ e.wrong = (e.question \in it.wrong) /\ e \in Readiness!EventRecords
               /\ e.firstTry = (\A d \in events : d.question # e.question)
    <3>1. (q \in it.wrong) \in BOOLEAN /\ (\A d \in events : d.question # q) \in BOOLEAN
      OBVIOUS
    <3>2. recorded' \in Nat /\ q \in Readiness!AllQuestions
      BY <1>1, <1>2, <1>3
    <3>3. e \in Readiness!EventRecords
      BY <2>1, <3>1, <3>2 DEF Readiness!EventRecords
    <3>4. QED
      BY <1>3, <2>1, <3>3
  <2>2. QED
    BY <1>6, <2>1
<1>8. \A q \in it.asked : \E e \in fresh : e.question = q
  <2>1. ASSUME NEW q \in it.asked PROVE \E e \in fresh : e.question = q
    <3> DEFINE e == [question |-> q, wrong |-> q \in it.wrong, index |-> recorded',
                     firstTry |-> \A d \in events : d.question # q]
    <3>1. e.question = q
      OBVIOUS
    <3>2. e \in fresh
      BY <1>6
    <3>3. QED
      BY <3>1, <3>2
  <2>2. QED
    BY <2>1
<1> HIDE DEF fresh
<1>9. fresh # {}
    BY <1>1, <1>8
<1>10. {e.index : e \in events'} = 1..recorded'
  <2>1. {e.index : e \in fresh} = {recorded + 1}
    BY <1>7, <1>9
  <2>2. {e.index : e \in events'} = {e.index : e \in events} \cup {e.index : e \in fresh}
    BY <1>4
  <2>3. 1..recorded' = 1..recorded \cup {recorded + 1}
    BY <1>2, <1>3
  <2>4. QED
    BY <1>2, <2>1, <2>2, <2>3
<1>11. Readiness!TypeOK'
  <2>1. events' \subseteq Readiness!EventRecords
    BY <1>4, <1>5, <1>7
  <2>2. recorded' \in Nat
    BY <1>2, <1>3
  <2>3. tasks' \subseteq {q \in Readiness!AllQuestions : q.kind = "choice"}
    BY <1>1, <1>4
  <2>4. readinessAttempt' \in [Pair -> Readiness!AttemptRecords \cup {None}]
    BY <1>4 DEF Readiness!TypeOK
  <2>5. QED
    BY <1>4, <1>10, <2>1, <2>2, <2>3, <2>4 DEF Readiness!TypeOK
<1>12. \A e \in fresh : e.index = recorded + 1
    BY <1>7
<1>13. \A e \in events : e.index \in Nat /\ e.index <= recorded
    BY <1>2, <1>5
<1>14. Readiness!OneFirstTry'
  <2>1. ASSUME NEW e \in events
        PROVE  e.firstTry <=> ~\E d \in events' : d.question = e.question /\ d.index < e.index
    <3>1. e.firstTry <=> ~\E d \in events : d.question = e.question /\ d.index < e.index
      BY DEF Readiness!OneFirstTry
    <3>2. \A d \in fresh : ~(d.index < e.index)
      BY <1>2, <1>12, <1>13
    <3>3. QED
      BY <1>4, <3>1, <3>2
  <2>2. ASSUME NEW e \in fresh
        PROVE  e.firstTry <=> ~\E d \in events' : d.question = e.question /\ d.index < e.index
    <3>1. \A d \in events : d.index < e.index
      BY <1>2, <1>12, <1>13
    <3>2. \A d \in fresh : ~(d.index < e.index)
      BY <1>2, <1>12
    <3>3. QED
      BY <1>4, <1>7, <3>1, <3>2
  <2>3. QED
    BY <1>4, <2>1, <2>2 DEF Readiness!OneFirstTry
<1>15. Readiness!TasksAreOfTheLastAttempt'
  <2>1. \A d \in events' : d.index = recorded' <=> d \in fresh
    BY <1>2, <1>3, <1>4, <1>12, <1>13
  <2>2. {e.question : e \in {d \in events' : d.index = recorded' /\ d.wrong}} = it.wrong
    <3>1. ASSUME NEW q \in it.wrong PROVE \E e \in fresh : e.question = q /\ e.wrong
      <4>1. PICK e \in fresh : e.question = q
        BY <1>1, <1>8
      <4>2. e.wrong = (e.question \in it.wrong)
        BY <1>7
      <4>3. QED
        BY <4>1, <4>2
    <3>2. \A e \in fresh : e.wrong => e.question \in it.wrong
      BY <1>7
    <3>3. QED
      BY <1>4, <2>1, <3>1, <3>2
  <2>3. QED
    BY <1>4, <2>2 DEF Readiness!TasksAreOfTheLastAttempt
<1>16. QED
    BY <1>4, <1>11, <1>14, <1>15

\* A reset leaves no record.
LEMMA ChecksReset ==
    ASSUME Readiness!Inv, Readiness!Reset
    PROVE  Readiness!Inv'
<1>1. {e.index : e \in {}} = 1..0
    OBVIOUS
<1>2. QED
    BY <1>1 DEF Readiness!Reset, Readiness!Inv, Readiness!TypeOK, Readiness!OneFirstTry,
        Readiness!TasksAreOfTheLastAttempt

\* Each step of a check keeps its invariant.
LEMMA ChecksNext == Readiness!Inv /\ Readiness!Next => Readiness!Inv'
BY ChecksOpen, ChecksRecord, ChecksReset DEF Readiness!Next

\* Whatever component runs, the invariant of the checks is kept.
LEMMA ChecksStep == Readiness!Inv /\ [Step]_vars => Readiness!Inv'
<1>1. CASE Readiness!Next
    BY <1>1, ChecksNext
<1>2. CASE Readiness!OpenPage
    BY <1>2, ChecksOpen
<1>3. CASE UNCHANGED ExamReadinessVars
    BY <1>3 DEF ExamReadinessVars, Readiness!Inv, Readiness!TypeOK, Readiness!OneFirstTry,
        Readiness!TasksAreOfTheLastAttempt
<1>4. QED
    BY <1>1, <1>2, <1>3 DEF Step, vars

\* A check of any number of lectures, offering any mix of questions, covers
\* every lecture that has one, without repetition and in a balanced mix; and
\* whatever attempts are graded at the same time, the earliest recorded is the
\* first try and the open tasks are those of the last (exam_readiness.py,
\* exam_readiness_service.py).
THEOREM ChecksHold == Spec => []ChecksAreFair
<1>1. Begin => Readiness!Inv
    BY ChecksInit DEF Begin
<1>2. Readiness!Inv /\ [Step]_vars => Readiness!Inv'
    BY ChecksStep
<1>3. Readiness!Inv => ChecksAreFair
    BY ChecksEveryLecture, ChecksBalance DEF Readiness!Inv, ChecksAreFair
<1>4. QED
    BY <1>1, <1>2, <1>3, PTL DEF Spec

============================================================================
