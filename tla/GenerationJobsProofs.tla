----------------------- MODULE GenerationJobsProofs -----------------------
(* Theorems about GenerationJobs for every value of its constants.         *)
EXTENDS GenerationJobs, TLAPS

\* A task that closes knows how it ends.
ClosingInv == \A r \in Runs : stage[r] = "closing" => outcome[r] \in Ended

\* A record names a claim that was made, and its generation.
ClaimInv ==
    \A k \in Keys : status[k] # "none" =>
        run[k] \in Runs /\ gen[run[k]] \in Runs /\ stage[run[k]] # "unused"

BaseInv == TypeOK /\ ClosingInv /\ ClaimInv

\* The definitions every obligation about the state's shape unfolds.
USE DEF Statuses, Terminal, Stages, Claimed, Active, Working, Storing, InSlot, Ended,
        record, request, registry, ownership, course

LEMMA CancelledType ==
    ASSUME TypeOK, NEW s \in Runs
    PROVE  /\ CancelledStage(s) \in Stages
           /\ CancelledStage(s) = "unused" => stage[s] = "unused"
           /\ CancelledCall(s) \in {"none", "fail", "interrupt", "complete"}
           /\ CancelledOutcome(s) \in {"none"} \cup Ended
           /\ CancelledStage(s) = "closing" /\ stage[s] # "closing"
              => CancelledOutcome(s) \in Ended
           /\ stage[s] = "closing" => CancelledOutcome(s) = outcome[s]
BY DEF TypeOK, CancelledStage, CancelledCall, CancelledOutcome

LEMMA BaseInit == Init => BaseInv
<1> SUFFICES ASSUME Init PROVE BaseInv
  OBVIOUS
<1>1. MaxRevisions \in Nat /\ MaxFaults \in Nat
  BY GenerationAssumption DEF GenerationAssumption
<1>2. /\ seq \in [Runs -> 0 .. sequence]
      /\ source \in 0 .. MaxRevisions /\ design \in 0 .. MaxRevisions
      /\ approved \in 0 .. source /\ faults \in 0 .. MaxFaults /\ sequence \in Nat
  BY <1>1 DEF Init
<1>3. bound \in [Runs -> (0 .. source) \X (0 .. design)]
  BY DEF Init
<1>4. /\ status \in [Keys -> Statuses] /\ run \in [Keys -> Runs \cup {None}]
      /\ lapsed \in [Keys -> BOOLEAN] /\ revoked \in BOOLEAN
      /\ beats \in SUBSET Runs /\ polling \in SUBSET Keys /\ cancelling \in SUBSET Runs
      /\ lectureTask \in Runs \cup {None} /\ owner \in Runs \cup {None}
      /\ draft \in Runs \cup {None}
  BY DEF Init
<1>5. /\ key \in [Runs -> Keys \cup {None}] /\ gen \in [Runs -> Runs \cup {None}]
      /\ stage \in [Runs -> Stages] /\ awaits \in [Runs -> Runs \cup {None}]
      /\ outcome \in [Runs -> {"none"} \cup Ended] /\ task \in [Runs -> Runs \cup {None}]
      /\ thread \in [Runs -> {"none", "prepare", "save", "write"}]
      /\ call \in [Runs -> {"none", "fail", "interrupt", "complete"}]
  BY DEF Init
<1>6. ClosingInv /\ ClaimInv
  BY DEF Init, ClosingInv, ClaimInv
<1> QED BY <1>2, <1>3, <1>4, <1>5, <1>6 DEF BaseInv, TypeOK

LEMMA ReturnedType ==
    ASSUME BaseInv, NEW r \in Runs, NEW how \in Ended, Returned(r, how)
    PROVE  /\ call' \in [Runs -> {"none", "fail", "interrupt", "complete"}]
           /\ stage' \in [Runs -> Stages]
           /\ outcome' \in [Runs -> {"none"} \cup Ended]
           /\ \A q \in Runs : stage[q] # "unused" => stage'[q] # "unused"
           /\ ClosingInv'
BY DEF BaseInv, TypeOK, ClosingInv, Returned, Moves

LEMMA FinishType ==
    ASSUME BaseInv, NEW k \in Keys, NEW how \in Terminal, status[k] = "running",
           Finish(k, how)
    PROVE  /\ status' \in [Keys -> Statuses]
           /\ run' \in [Keys -> Runs \cup {None}]
           /\ lapsed' \in [Keys -> BOOLEAN]
           /\ \A q \in Keys : status'[q] # "none" => status[q] # "none" /\ run'[q] = run[q]
<1>1. PICK gone \in Surplus(k) :
        /\ status' = [q \in Keys |-> IF q = k THEN how
                                      ELSE IF q \in gone THEN "none" ELSE status[q]]
        /\ run' = [q \in Keys |-> IF q \in gone THEN None ELSE run[q]]
        /\ lapsed' = [lapsed EXCEPT ![k] = FALSE]
  BY DEF Finish
<1>2. k \notin gone
  BY <1>1 DEF Surplus
<1> QED BY <1>1, <1>2 DEF BaseInv, TypeOK

LEMMA DispatchType ==
    ASSUME BaseInv, NEW r \in Runs, NEW g, Dispatch(r, g)
    PROVE  /\ call' \in [Runs -> {"none", "fail", "interrupt", "complete"}]
           /\ stage' \in [Runs -> Stages]
           /\ outcome' \in [Runs -> {"none"} \cup Ended]
           /\ awaits' \in [Runs -> Runs \cup {None}]
           /\ task' \in [Runs -> Runs \cup {None}]
           /\ lectureTask' \in Runs \cup {None}
           /\ stage'[r] # "unused"
           /\ \A q \in Runs : stage[q] # "unused" => stage'[q] # "unused"
           /\ ClosingInv'
<1>1. CASE IsActive(lectureTask)
  <2>1. lectureTask \in Runs
    BY <1>1 DEF IsActive
  <2>2. Supersedes(r)
    BY <1>1 DEF Dispatch
  <2> QED BY <2>1, <2>2, CancelledType DEF Supersedes, BaseInv, TypeOK, ClosingInv
<1>2. CASE ~IsActive(lectureTask)
  <2>1. /\ stage' = [stage EXCEPT ![r] = "created"]
        /\ task' = [task EXCEPT ![g] = r] /\ lectureTask' = r
        /\ awaits' = [awaits EXCEPT ![r] = None]
        /\ UNCHANGED <<outcome, call>>
    BY <1>2 DEF Dispatch, Creates
  <2>2. task' \in [Runs -> Runs \cup {None}]
    BY <2>1 DEF BaseInv, TypeOK
  <2>3. ClosingInv'
    BY <2>1 DEF BaseInv, TypeOK, ClosingInv
  <2> QED BY <2>1, <2>2, <2>3 DEF BaseInv, TypeOK
<1> QED BY <1>1, <1>2

LEMMA BegunType ==
    ASSUME BaseInv, NEW k \in Keys, NEW r \in Runs, Begun(k, r),
           stage' \in [Runs -> Stages], stage'[r] # "unused",
           \A q \in Runs : stage[q] # "unused" => stage'[q] # "unused"
    PROVE  /\ status' \in [Keys -> Statuses]
           /\ run' \in [Keys -> Runs \cup {None}]
           /\ lapsed' \in [Keys -> BOOLEAN]
           /\ key' \in [Runs -> Keys \cup {None}]
           /\ gen' \in [Runs -> Runs \cup {None}]
           /\ ClaimInv'
BY DEF Begun, BaseInv, TypeOK, ClaimInv

\* What a step may do to stages and records without breaking ClaimInv.
LEMMA ClaimStays ==
    ASSUME BaseInv, UNCHANGED <<status, run, gen>>,
           \A q \in Runs : stage[q] # "unused" => stage'[q] # "unused"
    PROVE  ClaimInv'
BY DEF BaseInv, ClaimInv

LEMMA BaseRequest ==
    ASSUME BaseInv, NEW k \in Keys, Request(k)
    PROVE  BaseInv'
<1>1. CASE StartPolling(k)
  BY <1>1 DEF StartPolling, BaseInv, TypeOK, ClosingInv, ClaimInv
<1>2. CASE PollAnswered(k)
  BY <1>2 DEF PollAnswered, BaseInv, TypeOK, ClosingInv, ClaimInv
<1>3. CASE CancelRecord(k)
  <2>1. status[k] = "running" /\ Finish(k, "cancelled")
    BY <1>3 DEF CancelRecord
  <2>2. run[k] \in Runs /\ gen[run[k]] \in Runs
    BY <2>1 DEF BaseInv, ClaimInv
  <2>3. TypeOK'
    BY <1>3, <2>1, <2>2, FinishType DEF CancelRecord, BaseInv, TypeOK
  <2>4. ClosingInv' /\ ClaimInv'
    BY <1>3, <2>1, FinishType DEF CancelRecord, BaseInv, ClosingInv, ClaimInv
  <2> QED BY <2>3, <2>4 DEF BaseInv
<1>4. CASE Lapse(k)
  <2>1. TypeOK'
    BY <1>4, GenerationAssumption DEF Lapse, Fault, BaseInv, TypeOK, GenerationAssumption
  <2> QED BY <1>4, <2>1 DEF Lapse, BaseInv, ClosingInv, ClaimInv
<1>5. ASSUME NEW r \in Runs, Claim(k, r) PROVE BaseInv'
  <2>1. Begun(k, r) /\ Dispatch(r, gen'[r])
    BY <1>5 DEF Claim
  <2>2. TypeOK'
    BY <1>5, <2>1, DispatchType, BegunType DEF Claim, BaseInv, TypeOK
  <2> QED BY <2>1, <2>2, DispatchType, BegunType DEF BaseInv
<1>6. ASSUME NEW r \in Runs, PollClaim(k, r) PROVE BaseInv'
  <2>1. /\ stage' \in [Runs -> Stages] /\ stage'[r] # "unused"
        /\ \A q \in Runs : stage[q] # "unused" => stage'[q] # "unused"
    BY <1>6 DEF PollClaim, Moves, BaseInv, TypeOK
  <2>2. Begun(k, r)
    BY <1>6 DEF PollClaim
  <2>3. TypeOK'
    BY <1>6, <2>1, <2>2, BegunType DEF PollClaim, BaseInv, TypeOK
  <2>4. ClosingInv'
    BY <1>6 DEF PollClaim, Moves, BaseInv, TypeOK, ClosingInv
  <2> QED BY <2>1, <2>2, <2>3, <2>4, BegunType DEF BaseInv
<1> QED BY <1>1, <1>2, <1>3, <1>4, <1>5, <1>6 DEF Request

LEMMA BaseHandle ==
    ASSUME BaseInv, NEW r \in Runs, Handle(r)
    PROVE  BaseInv'
<1>1. CASE Proceed(r)
  <2>1. CASE stage[r] = "claimed" /\ Dispatch(r, gen[r])
    <3>1. TypeOK'
      BY <1>1, <2>1, DispatchType DEF Proceed, BaseInv, TypeOK
    <3> QED BY <1>1, <2>1, <3>1, DispatchType, ClaimStays DEF Proceed, BaseInv
  <2>2. CASE stage[r] = "waiting" /\ Creates(r, gen[r])
    <3>1. TypeOK'
      BY <1>1, <2>2 DEF Proceed, Creates, BaseInv, TypeOK
    <3>2. /\ \A q \in Runs : stage[q] # "unused" => stage'[q] # "unused"
          /\ ClosingInv'
      BY <2>2 DEF Creates, BaseInv, TypeOK, ClosingInv
    <3> QED BY <1>1, <3>1, <3>2, ClaimStays DEF Proceed, BaseInv
  <2> QED BY <1>1, <2>1, <2>2 DEF Proceed
<1>2. CASE SupersededRaised(r)
  BY <1>2 DEF SupersededRaised, Moves, BaseInv, TypeOK, ClosingInv, ClaimInv
<1>3. CASE CancelTask(r)
  <2>1. CASE IsActive(task[r])
    <3>1. task[r] \in Runs /\ Cancelled(task[r])
      BY <1>3, <2>1 DEF CancelTask, IsActive
    <3>2. TypeOK'
      BY <1>3, <3>1, CancelledType DEF CancelTask, Cancelled, BaseInv, TypeOK
    <3>3. /\ \A q \in Runs : stage[q] # "unused" => stage'[q] # "unused"
          /\ ClosingInv'
      BY <3>1, CancelledType DEF Cancelled, BaseInv, TypeOK, ClosingInv
    <3> QED BY <1>3, <3>2, <3>3, ClaimStays DEF CancelTask, BaseInv
  <2>2. CASE ~IsActive(task[r])
    BY <1>3, <2>2 DEF CancelTask, BaseInv, TypeOK, ClosingInv, ClaimInv
  <2> QED BY <2>1, <2>2
<1> QED BY <1>1, <1>2, <1>3 DEF Handle

\* A task or its thread moves on without a word to the store.
LEMMA BaseWork ==
    ASSUME BaseInv, NEW r \in Runs, Work(r)
    PROVE  BaseInv'
<1> USE DEF TaskOnly, Moves, Handles, Hands, BaseInv
<1>1. CASE Begin(r)
  BY <1>1 DEF Begin, TypeOK, ClosingInv, ClaimInv
<1>2. CASE Start(r)
  BY <1>2 DEF Start, TypeOK, ClosingInv, ClaimInv
<1>3. CASE TakeOwnership(r)
  <2>1. /\ sequence' \in Nat /\ seq' \in [Runs -> 0 .. sequence']
    BY <1>3 DEF TakeOwnership, TypeOK
  <2>2. bound' \in [Runs -> (0 .. source') \X (0 .. design')]
    BY <1>3, GenerationAssumption DEF TakeOwnership, TypeOK, GenerationAssumption
  <2>3. TypeOK'
    BY <1>3, <2>1, <2>2 DEF TakeOwnership, TypeOK
  <2> QED BY <1>3, <2>3 DEF TakeOwnership, TypeOK, ClosingInv, ClaimInv
<1>4. CASE StartSave(r)
  BY <1>4 DEF StartSave, TypeOK, ClosingInv, ClaimInv
<1>5. CASE SaveImplementation(r)
  <2>1. /\ design' \in 0 .. MaxRevisions
        /\ bound' \in [Runs -> (0 .. source') \X (0 .. design')]
    BY <1>5, GenerationAssumption DEF SaveImplementation, TypeOK, GenerationAssumption
  <2>2. TypeOK'
    BY <1>5, <2>1 DEF SaveImplementation, TypeOK
  <2> QED BY <1>5, <2>2 DEF SaveImplementation, TypeOK, ClosingInv, ClaimInv
<1>6. CASE StartWrite(r)
  BY <1>6 DEF StartWrite, TypeOK, ClosingInv, ClaimInv
<1>7. CASE WriteDraft(r)
  BY <1>7 DEF WriteDraft, TypeOK, ClosingInv, ClaimInv
<1>8. CASE ThreadRaises(r)
  <2>1. CASE stage[r] \in {"preparing", "saving", "writing"}
    <3>1. /\ stage' = [stage EXCEPT ![r] = "failing"]
          /\ call' = [call EXCEPT ![r] = "fail"]
      BY <1>8, <2>1 DEF ThreadRaises
    <3>2. TypeOK'
      BY <1>8, <3>1 DEF ThreadRaises, TypeOK
    <3> QED BY <1>8, <3>1, <3>2 DEF ThreadRaises, TypeOK, ClosingInv, ClaimInv
  <2>2. CASE stage[r] \notin {"preparing", "saving", "writing"}
    BY <1>8, <2>2 DEF ThreadRaises, TypeOK, ClosingInv, ClaimInv
  <2> QED BY <2>1, <2>2
<1>9. CASE WorkRaises(r)
  BY <1>9 DEF WorkRaises, TypeOK, ClosingInv, ClaimInv
<1>10. CASE Return(r)
  BY <1>10 DEF Return, TypeOK, ClosingInv, ClaimInv
<1>11. CASE Close(r)
  <2>1. outcome[r] \in Ended
    BY <1>11 DEF Close, ClosingInv
  <2>2. PICK to \in {"completing"} \cup Ended : stage' = [stage EXCEPT ![r] = to]
    <3>1. CASE outcome[r] = "done"
      BY <1>11, <3>1 DEF Close
    <3>2. CASE outcome[r] # "done"
      BY <1>11, <2>1, <3>2 DEF Close
    <3> QED BY <3>1, <3>2
  <2>3. TypeOK'
    BY <1>11, <2>2 DEF Close, TypeOK
  <2> QED BY <1>11, <2>2, <2>3 DEF Close, TypeOK, ClosingInv, ClaimInv
<1>12. CASE StoreCall(r)
  <2>1. PICK how \in Ended : Returned(r, how)
    BY <1>12 DEF StoreCall
  <2>2. CASE Current(r)
    <3>1. PICK to \in {"completed", "failed"} : key[r] \in Keys /\ Finish(key[r], to)
      BY <1>12, <2>2 DEF StoreCall, Current, TypeOK
    <3>2. status[key[r]] = "running"
      BY <2>2 DEF Current
    <3>3. TypeOK'
      BY <1>12, <2>1, <3>1, <3>2, ReturnedType, FinishType DEF StoreCall, TypeOK
    <3>4. ClaimInv'
      <4>1. \A q \in Keys : status'[q] # "none" => status[q] # "none" /\ run'[q] = run[q]
        BY <3>1, <3>2, FinishType
      <4>2. \A q \in Runs : stage[q] # "unused" => stage'[q] # "unused"
        BY <2>1, ReturnedType
      <4>3. gen' = gen
        BY <1>12 DEF StoreCall
      <4> QED BY <4>1, <4>2, <4>3 DEF ClaimInv
    <3>5. ClosingInv'
      BY <2>1, ReturnedType
    <3> QED BY <3>3, <3>4, <3>5
  <2>3. CASE ~Current(r)
    <3>1. TypeOK'
      BY <1>12, <2>1, <2>3, ReturnedType DEF StoreCall, TypeOK
    <3> QED BY <1>12, <2>1, <2>3, <3>1, ReturnedType, ClaimStays DEF StoreCall
  <2> QED BY <2>2, <2>3
<1>13. CASE CallDropped(r)
  BY <1>13 DEF CallDropped, TypeOK, ClosingInv, ClaimInv
<1>14. CASE Touch(r)
  BY <1>14 DEF Touch, Current, TypeOK, ClosingInv, ClaimInv
<1>15. CASE HeartbeatRaises(r)
  <2>1. TypeOK'
    BY <1>15, CancelledType DEF HeartbeatRaises, Cancelled, TypeOK
  <2>2. /\ \A q \in Runs : stage[q] # "unused" => stage'[q] # "unused"
        /\ ClosingInv'
    BY <1>15, CancelledType DEF HeartbeatRaises, Cancelled, TypeOK, ClosingInv
  <2> QED BY <1>15, <2>1, <2>2, ClaimStays DEF HeartbeatRaises
<1> QED BY <1>1, <1>2, <1>3, <1>4, <1>5, <1>6, <1>7, <1>8, <1>9, <1>10, <1>11, <1>12,
           <1>13, <1>14, <1>15 DEF Work

LEMMA FaultType ==
    ASSUME TypeOK, Fault
    PROVE  faults' \in 0 .. MaxFaults
BY GenerationAssumption DEF TypeOK, Fault, GenerationAssumption

LEMMA BaseFails ==
    ASSUME BaseInv, NEW r \in Runs, Fails(r)
    PROVE  BaseInv'
<1>1. CASE RequestCancelled(r)
  BY <1>1, FaultType DEF RequestCancelled, Moves, BaseInv, TypeOK, ClosingInv, ClaimInv
<1>2. CASE WaiterCancelled(r)
  <2>1. awaits[r] \in Runs /\ Cancelled(awaits[r])
    BY <1>2 DEF WaiterCancelled, IsActive
  <2>2. TypeOK'
    BY <1>2, <2>1, CancelledType, FaultType DEF WaiterCancelled, Cancelled, BaseInv, TypeOK
  <2>3. /\ \A q \in Runs : stage[q] # "unused" => stage'[q] # "unused"
        /\ ClosingInv'
    BY <2>1, CancelledType DEF Cancelled, BaseInv, TypeOK, ClosingInv
  <2> QED BY <1>2, <2>2, <2>3, ClaimStays DEF WaiterCancelled, BaseInv
<1>3. CASE StoreCallFails(r)
  <2>1. Returned(r, "raised")
    BY <1>3 DEF StoreCallFails
  <2>2. TypeOK'
    BY <1>3, <2>1, ReturnedType, FaultType DEF StoreCallFails, BaseInv, TypeOK
  <2> QED BY <1>3, <2>1, <2>2, ReturnedType, ClaimStays DEF StoreCallFails, BaseInv
<1> QED BY <1>1, <1>2, <1>3 DEF Fails

LEMMA BaseCourse ==
    ASSUME BaseInv, EditSources \/ ApproveDesign \/ Crash
    PROVE  BaseInv'
<1> USE GenerationAssumption DEF BaseInv, GenerationAssumption
<1>1. CASE EditSources
  <2>1. /\ source' \in 0 .. MaxRevisions /\ approved' \in 0 .. source'
        /\ bound' \in [Runs -> (0 .. source') \X (0 .. design')]
    BY <1>1 DEF EditSources, TypeOK
  <2> QED BY <1>1, <2>1 DEF EditSources, TypeOK, ClosingInv, ClaimInv
<1>2. CASE ApproveDesign
  <2>1. /\ design' \in 0 .. MaxRevisions /\ approved' \in 0 .. source'
        /\ bound' \in [Runs -> (0 .. source') \X (0 .. design')]
    BY <1>2 DEF ApproveDesign, TypeOK
  <2> QED BY <1>2, <2>1 DEF ApproveDesign, TypeOK, ClosingInv, ClaimInv
<1>3. CASE Crash
  BY <1>3, FaultType DEF Crash, TypeOK, ClosingInv, ClaimInv
<1> QED BY <1>1, <1>2, <1>3

LEMMA BaseNext == BaseInv /\ [Next]_vars => BaseInv'
<1>1. ASSUME BaseInv, UNCHANGED vars PROVE BaseInv'
  BY <1>1 DEF BaseInv, TypeOK, ClosingInv, ClaimInv, vars
<1> QED BY <1>1, BaseRequest, BaseHandle, BaseWork, BaseFails, BaseCourse DEF Next

\* Records, tasks, threads and ownership are always well formed, whatever is
\* cancelled, fails or lapses (course_canvas_generation_*.py).
THEOREM TypeCorrect == Spec => []TypeOK
<1>1. BaseInv => TypeOK
  BY DEF BaseInv
<1> QED BY <1>1, BaseInit, BaseNext, PTL DEF Spec
-----------------------------------------------------------------------------
(* Ownership and the draft.                                                *)

\* Where a claim is before its threads.
Fresh == {"unused", "claimed", "waiting", "created", "queued"}

\* Before a thread works for a claim, and while it prepares, the claim has
\* never owned the draft.
FreshInv ==
    \A r \in Runs : /\ stage[r] \in Fresh => thread[r] = "none"
                    /\ stage[r] \in Fresh \/ thread[r] = "prepare" => seq[r] = 0

\* The owner came last, and whoever wrote the draft owned it.
OwnerInv ==
    /\ owner # None => seq[owner] = sequence /\ sequence > 0
    /\ \A r \in Runs : r # owner /\ sequence > 0 => seq[r] < sequence
    /\ draft # None => seq[draft] > 0

\* The draft is r's, or that of a later owner.
Delivered(r) == draft = r \/ (draft # None /\ seq[draft] > seq[r] /\ seq[r] > 0)

\* A claim about to report a canvas wrote it.
Reports(r) == stage[r] = "written" \/ outcome[r] = "done" \/ call[r] = "complete"
ReportInv == \A r \in Runs : Reports(r) => Delivered(r)

IInv == BaseInv /\ FreshInv /\ OwnerInv /\ ReportInv /\ CompletedHasDraft

LEMMA IInvInit == Init => IInv
BY BaseInit
   DEF Init, IInv, FreshInv, OwnerInv, ReportInv, Reports, CompletedHasDraft

\* The steps that matter to ownership, course and draft.
LEMMA Actors ==
    ASSUME Next
    PROVE  \/ UNCHANGED <<ownership, course, bound, draft>>
           \/ \E r \in Runs : TakeOwnership(r) \/ SaveImplementation(r) \/ WriteDraft(r)
           \/ \E k \in Keys : CancelRecord(k)
           \/ EditSources \/ ApproveDesign
<1> DEFINE Quiet == UNCHANGED <<ownership, course, bound, draft>>
<1>1. ASSUME NEW k \in Keys, Request(k) PROVE Quiet \/ CancelRecord(k)
  BY <1>1 DEF Request, StartPolling, PollAnswered, Lapse, Claim, PollClaim
<1>2. ASSUME NEW r \in Runs, Handle(r) PROVE Quiet
  BY <1>2 DEF Handle, Proceed, SupersededRaised, CancelTask
<1>3. ASSUME NEW r \in Runs, Fails(r) PROVE Quiet
  BY <1>3 DEF Fails, RequestCancelled, WaiterCancelled, StoreCallFails
<1>4. ASSUME NEW r \in Runs, Work(r)
      PROVE  Quiet \/ TakeOwnership(r) \/ SaveImplementation(r) \/ WriteDraft(r)
  BY <1>4 DEF Work, TaskOnly, Begin, Start, StartSave, StartWrite, Hands, ThreadRaises,
              WorkRaises, Return, Close, StoreCall, CallDropped, Touch, HeartbeatRaises
<1>5. Crash => Quiet
  BY DEF Crash
<1> QED BY <1>1, <1>2, <1>3, <1>4, <1>5 DEF Next

LEMMA CancelledFresh ==
    ASSUME TypeOK, NEW s \in Runs
    PROVE  /\ CancelledStage(s) \in Fresh => stage[s] \in Fresh
           /\ CancelledStage(s) = "written" => stage[s] = "written"
           /\ CancelledCall(s) = "complete" => call[s] = "complete"
           /\ CancelledOutcome(s) = "done" => outcome[s] = "done"
BY DEF TypeOK, CancelledStage, CancelledCall, CancelledOutcome, Fresh

\* What no step of r does to the claims: no claim turns fresh, a thread
\* prepares only for a claim that was queued, and no claim starts to report.
Tame ==
    \A q \in Runs :
        /\ stage'[q] \in Fresh => stage[q] \in Fresh /\ thread'[q] \in {thread[q], "none"}
        /\ thread'[q] = "prepare" => thread[q] = "prepare" \/ stage[q] = "queued"
        /\ Reports(q)' => Reports(q) \/ draft' = q

LEMMA TameCancelled ==
    ASSUME TypeOK, NEW s \in Runs, Cancelled(s), thread' = thread
    PROVE  Tame
BY CancelledFresh DEF Tame, TypeOK, Cancelled, Reports

LEMMA TameDispatch ==
    ASSUME TypeOK, NEW r \in Runs, NEW g, Dispatch(r, g), stage[r] \in Fresh,
           thread' = thread
    PROVE  Tame
<1>1. CASE IsActive(lectureTask)
  <2>1. lectureTask \in Runs /\ Supersedes(r)
    BY <1>1 DEF IsActive, Dispatch
  <2>2. \A q \in Runs : /\ stage'[q] \in Fresh => stage[q] \in Fresh
                        /\ stage'[q] = "written" => stage[q] = "written"
    BY <2>1, CancelledFresh DEF Supersedes, TypeOK, Fresh
  <2>3. \A q \in Runs : /\ outcome'[q] = "done" => outcome[q] = "done"
                        /\ call'[q] = "complete" => call[q] = "complete"
    BY <2>1, CancelledFresh DEF Supersedes, TypeOK
  <2> QED BY <2>2, <2>3 DEF Tame, Reports
<1>2. CASE ~IsActive(lectureTask)
  <2>1. stage' = [stage EXCEPT ![r] = "created"] /\ UNCHANGED <<outcome, call>>
    BY <1>2 DEF Dispatch, Creates
  <2> QED BY <2>1 DEF Tame, TypeOK, Reports, Fresh
<1> QED BY <1>1, <1>2

LEMMA TameReturned ==
    ASSUME TypeOK, NEW r \in Runs, NEW how \in Ended, Returned(r, how), thread' = thread,
           how = "done" => call[r] = "complete"
    PROVE  Tame
BY DEF Tame, TypeOK, Returned, Moves, Reports, Fresh

LEMMA TameWork ==
    ASSUME BaseInv, NEW r \in Runs, Work(r)
    PROVE  Tame
<1> USE DEF TaskOnly, Moves, Handles, Hands, BaseInv, TypeOK, Tame, Reports, Fresh
<1>1. CASE Begin(r) BY <1>1 DEF Begin
<1>2. CASE Start(r) BY <1>2 DEF Start
<1>3. CASE TakeOwnership(r) BY <1>3 DEF TakeOwnership
<1>4. CASE StartSave(r) BY <1>4 DEF StartSave
<1>5. CASE SaveImplementation(r) BY <1>5 DEF SaveImplementation
<1>6. CASE StartWrite(r) BY <1>6 DEF StartWrite
<1>7. CASE WriteDraft(r) BY <1>7 DEF WriteDraft
<1>8. CASE ThreadRaises(r) BY <1>8 DEF ThreadRaises
<1>9. CASE WorkRaises(r) BY <1>9 DEF WorkRaises
<1>10. CASE Return(r) BY <1>10 DEF Return
<1>11. CASE Close(r)
  <2>1. outcome[r] \in Ended
    BY <1>11 DEF Close, ClosingInv
  <2>2. CASE outcome[r] = "done"
    BY <1>11, <2>2 DEF Close
  <2>3. CASE outcome[r] # "done"
    BY <1>11, <2>1, <2>3 DEF Close
  <2> QED BY <2>2, <2>3
<1>12. CASE StoreCall(r)
  <2>1. PICK how \in Ended : Returned(r, how) /\ (how = "done" => call[r] = "complete")
    BY <1>12 DEF StoreCall
  <2> HIDE DEF Tame, TypeOK, Ended
  <2> QED BY <1>12, <2>1, TameReturned DEF StoreCall
<1>13. CASE CallDropped(r) BY <1>13 DEF CallDropped
<1>14. CASE Touch(r) BY <1>14 DEF Touch
<1>15. CASE HeartbeatRaises(r)
  <2> HIDE DEF Tame, TypeOK
  <2> QED BY <1>15, TameCancelled DEF HeartbeatRaises
<1> QED BY <1>1, <1>2, <1>3, <1>4, <1>5, <1>6, <1>7, <1>8, <1>9, <1>10, <1>11, <1>12,
           <1>13, <1>14, <1>15 DEF Work

LEMMA TameNext ==
    ASSUME BaseInv, Next
    PROVE  Tame
<1>1. ASSUME UNCHANGED <<stage, thread, outcome, call>> PROVE Tame
  BY <1>1 DEF Tame, Reports
<1>2. ASSUME NEW k \in Keys, Request(k) PROVE Tame
  <2>1. ASSUME NEW r \in Runs, Claim(k, r) PROVE Tame
    <3>1. stage[r] \in Fresh
      BY <2>1 DEF Claim, Begun, Fresh
    <3> QED BY <2>1, <3>1, TameDispatch DEF Claim, BaseInv
  <2>2. ASSUME NEW r \in Runs, PollClaim(k, r) PROVE Tame
    BY <2>2 DEF PollClaim, Begun, Moves, Tame, Reports, Fresh, BaseInv, TypeOK
  <2> QED BY <1>1, <1>2, <2>1, <2>2
          DEF Request, StartPolling, PollAnswered, CancelRecord, Lapse
<1>3. ASSUME NEW r \in Runs, Handle(r) PROVE Tame
  <2>1. CASE Proceed(r) /\ stage[r] = "claimed"
    BY <2>1, TameDispatch DEF Proceed, Fresh, BaseInv
  <2>2. CASE Proceed(r) /\ stage[r] = "waiting"
    BY <2>2 DEF Proceed, Creates, Tame, Reports, Fresh, BaseInv, TypeOK
  <2>3. CASE SupersededRaised(r)
    BY <2>3 DEF SupersededRaised, Moves, Tame, Reports, Fresh, BaseInv, TypeOK
  <2>4. CASE CancelTask(r) /\ IsActive(task[r])
    BY <2>4, TameCancelled DEF CancelTask, IsActive, BaseInv
  <2>5. CASE CancelTask(r) /\ ~IsActive(task[r])
    BY <1>1, <2>5 DEF CancelTask
  <2> QED BY <1>3, <2>1, <2>2, <2>3, <2>4, <2>5 DEF Handle, Proceed
<1>4. ASSUME NEW r \in Runs, Fails(r) PROVE Tame
  <2>1. CASE RequestCancelled(r)
    BY <2>1 DEF RequestCancelled, Moves, Tame, Reports, Fresh, BaseInv, TypeOK
  <2>2. CASE WaiterCancelled(r)
    BY <2>2, TameCancelled DEF WaiterCancelled, IsActive, BaseInv
  <2>3. CASE StoreCallFails(r)
    BY <2>3, TameReturned DEF StoreCallFails, BaseInv
  <2> QED BY <1>4, <2>1, <2>2, <2>3 DEF Fails
<1>5. CASE Crash
  BY <1>5 DEF Crash, Tame, Reports, Fresh, BaseInv, TypeOK
<1> QED BY <1>1, <1>2, <1>3, <1>4, <1>5, TameWork DEF Next, EditSources, ApproveDesign

-----------------------------------------------------------------------------
(* The invariant and what follows from it.                                 *)

LEMMA FreshNext == IInv /\ Next => FreshInv'
<1> SUFFICES ASSUME IInv, Next PROVE FreshInv'
  OBVIOUS
<1>1. Tame
  BY TameNext DEF IInv
<1>2. CASE seq' = seq
  BY <1>1, <1>2 DEF IInv, BaseInv, TypeOK, FreshInv, Tame, Fresh
<1>3. CASE \E r \in Runs : TakeOwnership(r)
  BY <1>1, <1>3 DEF TakeOwnership, Moves, IInv, BaseInv, TypeOK, FreshInv, Tame, Fresh
<1> QED BY <1>2, <1>3, Actors
        DEF SaveImplementation, WriteDraft, CancelRecord, EditSources, ApproveDesign

\* A thread that takes ownership does so for a claim that never owned the draft.
LEMMA TakesOnce ==
    ASSUME IInv, NEW r \in Runs, TakeOwnership(r)
    PROVE  /\ seq[r] = 0 /\ owner # r /\ draft # r
           /\ sequence' = sequence + 1 /\ owner' = r /\ draft' = draft
           /\ seq' \in [Runs -> Nat] /\ seq'[r] = sequence + 1
           /\ \A q \in Runs : q # r => seq'[q] = seq[q]
           /\ r # None
BY GenerationAssumption
   DEF GenerationAssumption, TakeOwnership, IInv, BaseInv, TypeOK, FreshInv, OwnerInv

LEMMA OwnerNext == IInv /\ Next => OwnerInv'
<1> SUFFICES ASSUME IInv, Next PROVE OwnerInv'
  OBVIOUS
<1>1. CASE UNCHANGED <<owner, sequence, seq, draft>>
  BY <1>1 DEF IInv, OwnerInv
<1>2. ASSUME NEW r \in Runs, TakeOwnership(r) PROVE OwnerInv'
  BY <1>2, TakesOnce DEF IInv, BaseInv, TypeOK, OwnerInv
<1>3. ASSUME NEW r \in Runs, WriteDraft(r) PROVE OwnerInv'
  BY <1>3, GenerationAssumption
     DEF GenerationAssumption, WriteDraft, Owns, IInv, BaseInv, TypeOK, OwnerInv
<1> QED BY <1>1, <1>2, <1>3, Actors
        DEF SaveImplementation, CancelRecord, EditSources, ApproveDesign

LEMMA DeliveredStays ==
    ASSUME IInv, Next, NEW r \in Runs, Delivered(r)
    PROVE  Delivered(r)'
<1>1. CASE UNCHANGED <<seq, draft>>
  BY <1>1 DEF Delivered
<1>2. ASSUME NEW q \in Runs, TakeOwnership(q) PROVE Delivered(r)'
  BY <1>2, TakesOnce DEF IInv, BaseInv, TypeOK, OwnerInv, Delivered
<1>3. ASSUME NEW q \in Runs, WriteDraft(q) PROVE Delivered(r)'
  BY <1>3, GenerationAssumption
     DEF GenerationAssumption, WriteDraft, Owns, IInv, BaseInv, TypeOK, OwnerInv, Delivered
<1> QED BY <1>1, <1>2, <1>3, Actors
        DEF SaveImplementation, CancelRecord, EditSources, ApproveDesign

LEMMA ReportNext == IInv /\ Next => ReportInv'
<1> SUFFICES ASSUME IInv, Next, NEW r \in Runs, Reports(r)' PROVE Delivered(r)'
  BY DEF ReportInv
<1>1. CASE draft' = r
  BY <1>1 DEF Delivered
<1>2. CASE Reports(r)
  BY <1>2, DeliveredStays DEF IInv, ReportInv
<1> QED BY <1>1, <1>2, TameNext DEF Tame, IInv

\* How a step may change a record: it is claimed, or its running attempt ends.
LEMMA RecordSteps ==
    ASSUME BaseInv, Next
    PROVE  \/ UNCHANGED <<status, run>>
           \/ \E k \in Keys, r \in Runs : Begun(k, r)
           \/ \E k \in Keys, how \in Terminal :
                 /\ status[k] = "running" /\ Finish(k, how)
                 /\ how = "completed" => run[k] \in Runs /\ call[run[k]] = "complete"
<1> DEFINE Quiet == UNCHANGED <<status, run>>
           Begins == \E k \in Keys, r \in Runs : Begun(k, r)
           Ends == \E k \in Keys, how \in Terminal :
                      /\ status[k] = "running" /\ Finish(k, how)
                      /\ how = "completed" => run[k] \in Runs /\ call[run[k]] = "complete"
<1>1. ASSUME NEW k \in Keys, CancelRecord(k) PROVE Ends
  BY <1>1 DEF CancelRecord
<1>2. ASSUME NEW r \in Runs, StoreCall(r) PROVE Quiet \/ Ends
  <2>1. CASE Current(r)
    <3>1. /\ key[r] \in Keys /\ status[key[r]] = "running" /\ run[key[r]] = r
          /\ Finish(key[r], IF call[r] = "complete" THEN "completed" ELSE "failed")
      BY <1>2, <2>1 DEF StoreCall, Current, BaseInv, TypeOK
    <3> QED BY <3>1
  <2> QED BY <1>2, <2>1 DEF StoreCall
<1>3. ASSUME NEW k \in Keys, Request(k) PROVE Quiet \/ Begins \/ Ends
  BY <1>1, <1>3 DEF Request, Claim, PollClaim, StartPolling, PollAnswered, Lapse
<1>4. ASSUME NEW r \in Runs, Handle(r) PROVE Quiet
  BY <1>4 DEF Handle, Proceed, SupersededRaised, CancelTask
<1>5. ASSUME NEW r \in Runs, Fails(r) PROVE Quiet
  BY <1>5 DEF Fails, RequestCancelled, WaiterCancelled, StoreCallFails
<1>6. ASSUME NEW r \in Runs, Work(r) PROVE Quiet \/ Ends
  BY <1>2, <1>6
     DEF Work, TaskOnly, Begin, Start, TakeOwnership, StartSave, SaveImplementation,
         StartWrite, WriteDraft, Hands, ThreadRaises, WorkRaises, Return, Close,
         CallDropped, Touch, HeartbeatRaises
<1> QED BY <1>3, <1>4, <1>5, <1>6 DEF Next, EditSources, ApproveDesign, Crash

\* A record completes only by the report of its own attempt.
LEMMA Completes ==
    ASSUME BaseInv, Next, NEW k \in Keys, status'[k] = "completed"
    PROVE  /\ run'[k] = run[k] /\ run[k] \in Runs
           /\ status[k] = "completed" \/ Reports(run[k])
<1>1. CASE UNCHANGED <<status, run>>
  BY <1>1 DEF BaseInv, ClaimInv
<1>2. CASE \E q \in Keys, r \in Runs : Begun(q, r)
  BY <1>2 DEF Begun, BaseInv, TypeOK, ClaimInv
<1>3. ASSUME NEW q \in Keys, NEW how \in Terminal, status[q] = "running", Finish(q, how),
             how = "completed" => run[q] \in Runs /\ call[run[q]] = "complete"
      PROVE  /\ run'[k] = run[k] /\ run[k] \in Runs
             /\ status[k] = "completed" \/ Reports(run[k])
  BY <1>3 DEF Finish, Surplus, BaseInv, TypeOK, ClaimInv, Reports
<1> QED BY <1>1, <1>2, <1>3, RecordSteps

LEMMA IInvNext == IInv /\ [Next]_vars => IInv'
<1>1. ASSUME IInv, UNCHANGED vars PROVE IInv'
  BY <1>1, BaseNext
     DEF IInv, FreshInv, OwnerInv, ReportInv, Reports, Delivered, CompletedHasDraft, vars
<1>2. ASSUME IInv, Next PROVE IInv'
  <2>1. CompletedHasDraft'
    BY <1>2, Completes, DeliveredStays DEF IInv, ReportInv, CompletedHasDraft, Delivered
  <2> QED BY <1>2, <2>1, BaseNext, FreshNext, OwnerNext, ReportNext DEF IInv
<1> QED BY <1>1, <1>2

\* The inductive invariant: ownership, draft, threads and reports agree.
THEOREM Invariant == Spec => []IInv
BY IInvInit, IInvNext, PTL DEF Spec

\* A record that reports a canvas has its draft, or that of a later owner
\* (complete in course_canvas_generation_jobs.py).
THEOREM CompletedIsDelivered == Spec => []CompletedHasDraft
<1>1. IInv => CompletedHasDraft
  BY DEF IInv
<1> QED BY <1>1, Invariant, PTL

\* Drafts replace each other in the order of ownership (write_current_draft).
THEOREM DraftsAreOrdered == Spec => DraftsInOrder
<1>1. IInv /\ [Next]_vars
      => [draft' # draft /\ draft # None => seq[draft'] > seq[draft]]_vars
  <2> SUFFICES ASSUME IInv, Next, draft' # draft, draft # None
               PROVE  seq[draft'] > seq[draft]
    OBVIOUS
  <2>1. PICK r \in Runs : WriteDraft(r)
    BY Actors DEF TakeOwnership, SaveImplementation, CancelRecord, EditSources, ApproveDesign
  <2> QED BY <2>1, GenerationAssumption
          DEF GenerationAssumption, WriteDraft, Owns, IInv, BaseInv, TypeOK, OwnerInv
<1> QED BY <1>1, Invariant, PTL DEF DraftsInOrder, Spec

\* A generation cancelled while it owned the draft stays out, whatever its
\* threads still do (revoke_generation_ownership).
THEOREM RevokedIsOut == Spec => RevokedStaysOut
<1>1. IInv /\ [Next]_vars
      => [\A r \in Runs : owner = r /\ revoked
             => ~Owns(r)' /\ (draft' = draft \/ draft' # r)]_vars
  <2> SUFFICES ASSUME IInv, Next, NEW r \in Runs, owner = r, revoked
               PROVE  ~Owns(r)' /\ (draft' = draft \/ draft' # r)
    OBVIOUS
  <2>1. CASE \E q \in Runs : TakeOwnership(q)
    BY <2>1, TakesOnce DEF Owns
  <2> QED BY <2>1, Actors
          DEF Owns, SaveImplementation, WriteDraft, CancelRecord, EditSources, ApproveDesign
<1> QED BY <1>1, Invariant, PTL DEF RevokedStaysOut, Spec

\* A record always tells what became of the draft, in a well-formed state.
THEOREM RecordsHold == Spec => []RecordsAreTrue
<1>1. TypeOK /\ CompletedHasDraft => RecordsAreTrue
  BY DEF RecordsAreTrue
<1> QED BY <1>1, TypeCorrect, CompletedIsDelivered, PTL

\* Nobody but the owner replaces the implementation the owner works for
\* (replace_generation_design).
THEOREM OwnerIsBound == Spec => OwnerStaysBound
<1>1. IInv /\ [Next]_vars
      => [\A r \in Runs :
             Owns(r) /\ Owns(r)' /\ bound[r] = <<source, design>>
             => bound'[r] = <<source, design>>' \/ EditSources \/ ApproveDesign]_vars
  <2> SUFFICES ASSUME IInv, Next, NEW r \in Runs, Owns(r), Owns(r)',
                      bound[r] = <<source, design>>, ~EditSources, ~ApproveDesign
               PROVE  bound'[r] = <<source, design>>'
    OBVIOUS
  <2>1. CASE \E q \in Runs : TakeOwnership(q)
    BY <2>1 DEF TakeOwnership, Owns, IInv, BaseInv, TypeOK
  <2>2. CASE \E q \in Runs : SaveImplementation(q)
    BY <2>2 DEF SaveImplementation, Owns, IInv, BaseInv, TypeOK
  <2> QED BY <2>1, <2>2, Actors DEF WriteDraft, CancelRecord
<1> QED BY <1>1, Invariant, PTL DEF OwnerStaysBound, Spec

\* The draft belongs to one generation at a time, and to the inputs it was
\* started for (course_canvas_generation_ownership.py).
THEOREM Ownership == Spec => OwnershipHolds
BY RevokedIsOut, OwnerIsBound DEF OwnershipHolds

\* A record that ended keeps its outcome until it is pruned, whatever late
\* answers arrive (_finish in course_canvas_generation_jobs.py).
THEOREM EndedIsFinal == Spec => EndedStays
<1>1. BaseInv /\ [Next]_vars
      => [\A k \in Keys : status[k] \in Terminal =>
             \/ UNCHANGED <<status[k], run[k]>>
             \/ status'[k] = "none"]_vars
  <2> SUFFICES ASSUME BaseInv, Next, NEW k \in Keys, status[k] \in Terminal
               PROVE  UNCHANGED <<status[k], run[k]>> \/ status'[k] = "none"
    OBVIOUS
  <2>1. CASE \E q \in Keys, r \in Runs : Begun(q, r)
    BY <2>1 DEF Begun, BaseInv, TypeOK
  <2>2. ASSUME NEW q \in Keys, NEW how \in Terminal, status[q] = "running", Finish(q, how)
        PROVE  UNCHANGED <<status[k], run[k]>> \/ status'[k] = "none"
    BY <2>2 DEF Finish, BaseInv, TypeOK
  <2> QED BY <2>1, <2>2, RecordSteps
<1> QED BY <1>1, BaseInit, BaseNext, PTL DEF EndedStays, Spec
-----------------------------------------------------------------------------
(* The refinement of DraftRegister.                                        *)

\* A step that the register does not see.
Stutter == UNCHANGED <<seq, owner, revoked, source, design, approved, bound, draft, Reported>>

\* What a step may do to the reports: keep or give them up, or add that of a
\* claim whose draft was delivered.
LEMMA ReportSteps ==
    ASSUME IInv, Next
    PROVE  \/ Reported' \subseteq Reported
           \/ \E r \in Runs : /\ Delivered(r) /\ r \in Reported'
                              /\ Reported' \subseteq Reported \cup {r}
<1>1. \A k \in Keys : status'[k] = "completed" =>
         /\ run'[k] = run[k] /\ run[k] \in Runs
         /\ status[k] = "completed" \/ Reports(run[k])
  BY Completes DEF IInv
<1>2. CASE \E k \in Keys, how \in Terminal :
              /\ status[k] = "running" /\ Finish(k, how)
  <2>1. PICK k \in Keys, how \in Terminal : status[k] = "running" /\ Finish(k, how)
    BY <1>2
  <2>2. \A q \in Keys \ {k} : status'[q] = "completed" => status[q] = "completed"
    BY <2>1 DEF Finish
  <2>3. Reported' \subseteq Reported \cup {run[k]}
    BY <1>1, <2>2 DEF Reported
  <2>4. CASE status'[k] = "completed"
    <3>1. run[k] \in Runs /\ Delivered(run[k])
      BY <1>1, <2>1, <2>4 DEF IInv, ReportInv
    <3>2. run[k] \in Reported'
      BY <1>1, <2>4 DEF Reported
    <3> QED BY <2>3, <3>1, <3>2
  <2>5. CASE status'[k] # "completed"
    BY <1>1, <2>2, <2>5 DEF Reported
  <2> QED BY <2>4, <2>5
<1>3. CASE \E k \in Keys, r \in Runs : Begun(k, r)
  <2>1. \A q \in Keys : status'[q] = "completed" => status[q] = "completed"
    BY <1>3 DEF Begun, IInv, BaseInv, TypeOK
  <2> QED BY <1>1, <2>1 DEF Reported
<1>4. CASE UNCHANGED <<status, run>>
  BY <1>4 DEF Reported
<1> QED BY <1>2, <1>3, <1>4, RecordSteps DEF IInv

\* Only the store ends a record: the steps that touch ownership, course or
\* draft leave the reports alone, except that a cancellation may prune some.
LEMMA CancelReports ==
    ASSUME IInv, NEW k \in Keys, CancelRecord(k)
    PROVE  Reported' \subseteq Reported
<1>1. /\ status[k] = "running"
      /\ \A q \in Keys : status'[q] = "completed" => status[q] = "completed" /\ run'[q] = run[q]
  BY DEF CancelRecord, Finish, Surplus, IInv, BaseInv, TypeOK
<1> QED BY <1>1 DEF Reported

LEMMA RefineInit == Init => Register!Init
BY DEF Init, Register!Init, Reported

\* A claim becomes the owner.
LEMMA RefineOwn ==
    ASSUME IInv, NEW r \in Runs, TakeOwnership(r)
    PROVE  Register!Own(r)
<1>1. UNCHANGED <<status, run, draft, source, design, approved>>
  BY DEF TakeOwnership, record, course
<1>2. Reported' = Reported
  BY <1>1 DEF Reported
<1>3. /\ seq[r] = 0 /\ approved = source
      /\ seq' = [seq EXCEPT ![r] = seq'[r]]
      /\ owner' = r /\ revoked' = FALSE
      /\ bound' = [bound EXCEPT ![r] = <<source, design>>]
  BY TakesOnce DEF TakeOwnership, IInv, BaseInv, TypeOK
<1>4. seq'[r] \in Nat /\ \A q \in Runs : seq'[r] > seq[q]
  BY TakesOnce DEF IInv, BaseInv, TypeOK
<1> QED BY <1>1, <1>2, <1>3, <1>4 DEF Register!Own

\* The owner stores a design of its own.
LEMMA RefineAdapt ==
    ASSUME IInv, NEW r \in Runs, SaveImplementation(r)
    PROVE  Register!Adapt(r)
<1>1. UNCHANGED <<status, run, draft, source, approved, owner, revoked, seq>>
  BY DEF SaveImplementation, record, ownership
<1>2. Reported' = Reported
  BY <1>1 DEF Reported
<1>3. /\ owner = r /\ ~revoked /\ bound[r] = <<source, design>>
      /\ bound' = [bound EXCEPT ![r] = <<source', design'>>]
  BY <1>1 DEF SaveImplementation, Owns
<1> QED BY <1>1, <1>2, <1>3 DEF Register!Adapt, Register!Owns

\* The owner writes the draft, from the inputs it is bound to.
LEMMA RefineWrite ==
    ASSUME IInv, NEW r \in Runs, WriteDraft(r)
    PROVE  Register!Write(r)
<1>1. UNCHANGED <<status, run, source, design, approved, owner, revoked, seq, bound>>
  BY DEF WriteDraft, record, ownership, course
<1>2. Reported' = Reported
  BY <1>1 DEF Reported
<1>3. /\ owner = r /\ ~revoked /\ draft' = r
      /\ bound[r] = <<source, design>> /\ approved = source
  BY DEF WriteDraft, Owns, Approved, IInv, BaseInv, TypeOK
<1> QED BY <1>1, <1>2, <1>3 DEF Register!Write, Register!Owns

\* A record is cancelled, and with it the owner if the record is its own.
LEMMA RefineCancel ==
    ASSUME IInv, NEW k \in Keys, CancelRecord(k)
    PROVE  Register!Conclude
<1>1. /\ revoked' \in {revoked, TRUE}
      /\ UNCHANGED <<owner, seq, source, design, approved, bound, draft>>
  BY DEF CancelRecord, course, IInv, BaseInv, TypeOK
<1> QED BY <1>1, CancelReports DEF Register!Conclude

\* A step that leaves ownership, course and draft alone concerns the reports only.
LEMMA RefineQuiet ==
    ASSUME IInv, Next, UNCHANGED <<ownership, course, bound, draft>>
    PROVE  Register!Next \/ Stutter
<1>1. UNCHANGED <<owner, revoked, seq, source, design, approved, bound, draft>>
  BY DEF ownership, course
<1>2. CASE Reported' \subseteq Reported
  <2>1. Register!Conclude
    BY <1>1, <1>2 DEF Register!Conclude
  <2> QED BY <2>1 DEF Register!Next
<1>3. ASSUME NEW r \in Runs, Delivered(r), r \in Reported', Reported' \subseteq Reported \cup {r}
      PROVE  Register!Next
  <2>1. Register!Report(r)
    BY <1>1, <1>3 DEF Register!Report, Register!Delivered, Delivered
  <2> QED BY <2>1 DEF Register!Next
<1> QED BY <1>2, <1>3, ReportSteps

LEMMA RefineNext ==
    IInv /\ [Next]_vars => [Register!Next]_(Register!vars)
<1> SUFFICES ASSUME IInv, [Next]_vars
             PROVE  Register!Next \/ Stutter
  BY DEF Stutter, Register!vars
<1>1. CASE UNCHANGED vars
  BY <1>1 DEF vars, Stutter, Reported
<1>2. CASE Next
  <2>1. ASSUME NEW r \in Runs, TakeOwnership(r) \/ SaveImplementation(r) \/ WriteDraft(r)
        PROVE  Register!Next
    BY <2>1, RefineOwn, RefineAdapt, RefineWrite DEF Register!Next
  <2>2. ASSUME NEW k \in Keys, CancelRecord(k) PROVE Register!Next
    BY <2>2, RefineCancel DEF Register!Next
  <2>3. ASSUME EditSources \/ ApproveDesign PROVE Register!Next
    <3>1. UNCHANGED <<status, run, owner, revoked, seq, bound, draft>>
      BY <2>3 DEF EditSources, ApproveDesign, record, ownership
    <3>2. Reported' = Reported
      BY <3>1 DEF Reported
    <3> QED BY <3>1, <3>2 DEF Register!Next, Register!Revise
  <2> QED BY <1>2, <2>1, <2>2, <2>3, RefineQuiet, Actors
<1> QED BY <1>1, <1>2

\* Generation implements DraftRegister: tasks, threads, leases and crashes
\* come to fenced owners of one draft, written from approved inputs, and to
\* reports of what was written (course_canvas_generation_ownership.py,
\* write_current_draft, CanvasGenerationStore).
THEOREM Refinement == Spec => ImplementsRegister
BY Invariant, RefineInit, RefineNext, PTL DEF Spec, ImplementsRegister, Register!Spec
============================================================================
