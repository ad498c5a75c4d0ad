-------------------------- MODULE AuthoringProofs --------------------------
\* What the authoring of a lecture keeps, for every number of lectures, requests
\* and revisions.
EXTENDS MCAuthoring, FiniteSetTheorems, TLAPS

----------------------------------------------------------------------------
(* The markers of background goal proposals.                               *)

\* The constants of the markers.
LEMMA MarkersConstants ==
    Lease \in Nat /\ Delay \in Nat /\ 2 * Delay + 2 <= Lease
BY MarkersAssumption DEF Markers!LeaseAssumption

LEMMA MarkersInit == Markers!Init => Markers!Inv
BY MarkersConstants DEF Markers!Init, Markers!Inv, Markers!TypeOK, Markers!NoTouch,
    Markers!Touches, Markers!Results, Markers!Old

\* A waiting lecture is proposing as long as its marker is as old as allowed.
LEMMA MarkersInTime ==
    ASSUME Markers!Inv, task = "running", NEW l \in pending
    PROVE  Markers!Proposing(l)
<1>1. /\ l \in Pair /\ age[l] \in 0..Markers!Old /\ since \in Nat /\ asleep \in 0..2
      /\ marker[l] = "running" /\ age[l] <= Markers!AgeBound(l)
      /\ touch \in Markers!Touches
    BY DEF Markers!Inv, Markers!TypeOK
<1>2. CASE l \in touch.todo
    <2>1. touch # Markers!NoTouch
        BY <1>2 DEF Markers!NoTouch
    <2>2. since <= Delay
        BY <2>1, <1>1, MarkersConstants DEF Markers!Inv
    <2>3. QED
        BY <1>1, <1>2, <2>2, MarkersConstants DEF Markers!AgeBound, Markers!Proposing, Markers!Old
<1>3. CASE l \notin touch.todo
    <2>1. since <= Delay + 2
        BY <1>1, MarkersConstants DEF Markers!Inv
    <2>2. QED
        BY <1>1, <1>3, <2>1, MarkersConstants DEF Markers!AgeBound, Markers!Proposing, Markers!Old
<1>4. QED
    BY <1>2, <1>3

LEMMA MarkersTask ==
    ASSUME Markers!Inv,
           \/ Markers!Mark \/ Markers!Start \/ Markers!End \/ Markers!Crash
           \/ \E l \in Pair : Markers!Propose(l) \/ Markers!Record(l)
    PROVE  Markers!Inv'
<1> USE MarkersConstants DEF Markers!Inv, Markers!TypeOK, Markers!Old
<1>1. CASE Markers!Mark
    BY <1>1 DEF Markers!Mark, Markers!NoTouch, Markers!AgeBound
<1>2. CASE Markers!Start
    BY <1>2 DEF Markers!Start, Markers!NoTouch, Markers!AgeBound
<1>3. CASE Markers!End
    BY <1>3 DEF Markers!End, Markers!AgeBound
<1>4. CASE Markers!Crash
    BY <1>4 DEF Markers!Crash, Markers!NoTouch, Markers!Touches, Markers!AgeBound
<1>5. ASSUME NEW l \in Pair, Markers!Propose(l) PROVE Markers!Inv'
    BY <1>5 DEF Markers!Propose, Markers!AgeBound, Markers!Results
<1>6. ASSUME NEW l \in Pair, Markers!Record(l) PROVE Markers!Inv'
    <2>1. l \notin pending
        BY <1>6 DEF Markers!Record
    <2>2. result[l] \in Markers!Results /\ result[l].status \in {"completed", "failed"}
        BY <1>6 DEF Markers!Record, Markers!Results
    <2>3. \A m \in Pair : result'[m].status = result[m].status
        BY <1>6, <2>2 DEF Markers!Record, Markers!Results
    <2>4. result' \in [Pair -> Markers!Results]
        BY <1>6, <2>2 DEF Markers!Record, Markers!Results
    <2>5. \A m \in Pair \ {l} : marker'[m] = marker[m] /\ age'[m] = age[m]
        BY <1>6 DEF Markers!Record
    <2>6. marker' \in [Pair -> {"none", "running", "completed", "failed"}] /\ age' \in [Pair -> 0..Markers!Old]
        BY <1>6, <2>2 DEF Markers!Record
    <2>7. QED
        BY <1>6, <2>1, <2>3, <2>4, <2>5, <2>6 DEF Markers!Record, Markers!AgeBound
<1>7. QED
    BY <1>1, <1>2, <1>3, <1>4, <1>5, <1>6

LEMMA MarkersHeartbeat ==
    ASSUME Markers!Inv,
           Markers!Beat \/ \E l \in Pair : Markers!TouchRead(l) \/ Markers!TouchWrite(l)
    PROVE  Markers!Inv'
<1> USE MarkersConstants DEF Markers!Inv, Markers!TypeOK, Markers!Old, Markers!Touches
<1>1. CASE Markers!Beat
    <2>1. \A l \in pending : l \notin touch.todo
        BY <1>1 DEF Markers!Beat, Markers!NoTouch
    <2>2. \A l \in pending : age[l] <= Delay + 2
        BY <1>1, <2>1 DEF Markers!Beat, Markers!AgeBound
    <2>3. \A l \in pending : age'[l] <= Markers!AgeBound(l)'
        BY <1>1, <2>2 DEF Markers!Beat, Markers!AgeBound
    <2>4. QED
        BY <1>1, <2>3 DEF Markers!Beat, Markers!NoTouch
<1>2. ASSUME NEW l \in Pair, Markers!TouchRead(l) PROVE Markers!Inv'
    <2>1. \A m \in pending : task = "running" => age'[m] <= Markers!AgeBound(m)'
        BY <1>2 DEF Markers!TouchRead, Markers!AgeBound
    <2>2. touch # Markers!NoTouch /\ touch' \in Markers!Touches /\ touch.read' \subseteq touch.todo'
        BY <1>2 DEF Markers!TouchRead, Markers!NoTouch
    <2>3. QED
        BY <1>2, <2>1, <2>2 DEF Markers!TouchRead
<1>3. ASSUME NEW l \in Pair, Markers!TouchWrite(l) PROVE Markers!Inv'
    <2>1. touch # Markers!NoTouch /\ touch' \in Markers!Touches /\ touch.read' \subseteq touch.todo'
        BY <1>3 DEF Markers!TouchWrite, Markers!NoTouch
    <2>2. \A m \in pending : task = "running" => age'[m] <= Markers!AgeBound(m)'
        BY <1>3 DEF Markers!TouchWrite, Markers!AgeBound
    <2>3. QED
        BY <1>3, <2>1, <2>2 DEF Markers!TouchWrite
<1>4. QED
    BY <1>1, <1>2, <1>3

LEMMA MarkersTick ==
    ASSUME Markers!Inv, Markers!Tick
    PROVE  Markers!Inv'
<1> USE MarkersConstants DEF Markers!Inv, Markers!TypeOK, Markers!Old
<1>1. since' \in 0..Lease /\ asleep' \in 0..2 /\ since' <= Delay + asleep'
    BY DEF Markers!Tick
<1>2. age' \in [Pair -> 0..Markers!Old]
    BY DEF Markers!Tick
<1>3. ASSUME task = "running", NEW l \in pending PROVE age'[l] <= Markers!AgeBound(l)'
    <2>1. since' = since + 1 /\ age'[l] <= age[l] + 1
        BY <1>3 DEF Markers!Tick
    <2>2. QED
        BY <1>3, <2>1 DEF Markers!Tick, Markers!AgeBound
<1>4. QED
    BY <1>1, <1>2, <1>3 DEF Markers!Tick

LEMMA MarkersStep == Markers!Inv /\ [Step]_vars => Markers!Inv'
<1> SUFFICES ASSUME Markers!Inv, [Step]_vars PROVE Markers!Inv'
    OBVIOUS
<1>1. CASE Markers!Next
    BY <1>1, MarkersTask, MarkersHeartbeat, MarkersTick DEF Markers!Next
<1>2. CASE UNCHANGED GoalMarkersVars
    BY <1>2 DEF GoalMarkersVars, Markers!Inv, Markers!TypeOK, Markers!AgeBound
<1>3. QED
    BY <1>1, <1>2 DEF Step, vars

\* A lecture that waits for its goals is reported as proposing however many are
\* proposed before it and however late the heartbeat's threads are, as long as
\* the lease outlasts two heartbeats and what they are late
\* (learning_goal_proposal_jobs.py).
THEOREM MarkersHold == Spec => []WaitingIsProposing
<1>1. Begin => Markers!Inv
    BY MarkersInit DEF Begin
<1>2. Markers!Inv => WaitingIsProposing
    BY MarkersInTime DEF WaitingIsProposing, Markers!WaitingIsProposing, Markers!Inv
<1>3. QED
    BY <1>1, <1>2, MarkersStep, PTL DEF Spec

----------------------------------------------------------------------------
(* The review of a lecture and its publication.                            *)

\* The constants of the publication.
LEMMA ReviewConstants ==
    /\ Generated \in {Generated, ByHand}
    /\ MaxSource \in Nat \ {0} /\ MaxPractice \in Nat \ {0}
    /\ MaxVersion \in Nat /\ MaxTexts \in Nat /\ MaxFaults \in Nat
    /\ Nobody \notin Pair /\ Nobody \notin Review!DraftFiles /\ Nobody \notin Review!Reviews
    /\ Nobody \notin Review!Snapshots /\ Nobody \notin Review!Variants
    /\ Nobody \notin Review!Previews
BY ReviewAssumption DEF Review!PublicationAssumption

LEMMA ReviewInit == Review!Init => Review!Inv
<1> SUFFICES ASSUME Review!Init PROVE Review!Inv
    OBVIOUS
<1>1. practice \in [revision : 1..MaxPractice, source : 1..MaxSource]
    BY ReviewConstants DEF Review!Init
<1>2. Review!TypeOK
    BY <1>1, ReviewConstants DEF Review!Init, Review!TypeOK, Review!Places, Review!Locking, Review!Sights
<1>3. \A r \in Pair : Review!Knows(r)
    BY DEF Review!Init, Review!Knows, Review!Reviewing
<1>4. QED
    BY <1>2, <1>3 DEF Review!Init, Review!Inv, Review!ApprovalIsOfTheDraft

\* Nobody else is behind the lock.
LEMMA ReviewLock ==
    ASSUME Review!Inv, NEW q \in Pair, pc[q] \in Review!Locking
    PROVE  lock = q
BY DEF Review!Inv, Review!TypeOK, Review!Locking

\* What a request that does not move knows is true as long as the files it has
\* locked are not touched.
LEMMA ReviewFrame ==
    ASSUME Review!Inv, NEW q \in Pair,
           pc'[q] = pc[q], seen'[q] = seen[q], kept'[q] = kept[q],
           faults > 0 => faults' > 0,
           \/ UNCHANGED <<source, practice, lectureDraft, lectureReview, published>>
           \/ pc[q] \notin {"approve", "publish", "revert"} /\ (lectureReview # Nobody => lectureReview' # Nobody)
    PROVE  Review!Knows(q)'
<1>1. Review!Knows(q)
    BY DEF Review!Inv
<1>2. CASE UNCHANGED <<source, practice, lectureDraft, lectureReview, published>>
    BY <1>1, <1>2 DEF Review!Knows, Review!Approved, Review!Current, Review!SameDesign,
        Review!SameDraft
<1>3. CASE /\ pc[q] \notin {"approve", "publish", "revert"}
           /\ lectureReview # Nobody => lectureReview' # Nobody
    BY <1>1, <1>3 DEF Review!Knows
<1>4. QED
    BY <1>2, <1>3

\* An approval stays one of the draft as long as neither changes.
LEMMA ReviewApproved ==
    ASSUME Review!Inv, UNCHANGED <<lectureDraft, lectureReview>>,
           faults > 0 => faults' > 0,
           UNCHANGED published \/ faults' > 0,
           \A q \in Pair : pc[q] \in {"publish", "revert"} =>
               pc'[q] \in {"publish", "revert"} /\ seen'[q] = seen[q]
    PROVE  Review!ApprovalIsOfTheDraft' /\ (lectureDraft' # Nobody => lectureReview' # Nobody)
BY DEF Review!Inv, Review!ApprovalIsOfTheDraft, Review!SameDesign, Review!SameDraft

\* A request that touches neither the draft nor what is published.
LEMMA ReviewQuiet ==
    ASSUME Review!Inv, NEW r \in Pair, pc[r] \notin {"publish", "revert"},
           UNCHANGED <<source, practice, lectureDraft, lectureReview, published>>,
           \A q \in Pair \ {r} : pc'[q] = pc[q] /\ seen'[q] = seen[q] /\ kept'[q] = kept[q],
           faults > 0 => faults' > 0,
           Review!TypeOK', Review!Knows(r)'
    PROVE  Review!Inv'
<1>1. \A q \in Pair \ {r} : Review!Knows(q)'
    BY ReviewFrame
<1>2. Review!ApprovalIsOfTheDraft' /\ (lectureDraft' # Nobody => lectureReview' # Nobody)
    BY ReviewApproved
<1>3. QED
    BY <1>1, <1>2 DEF Review!Inv

\* A request's place, what it sees and what it keeps after it moved.
LEMMA ReviewMove ==
    ASSUME Review!TypeOK, NEW r \in Pair, NEW s \in Review!Places, NEW x \in Review!Sights,
           pc' = [pc EXCEPT ![r] = s],
           seen' = seen \/ seen' = [seen EXCEPT ![r] = x]
    PROVE  /\ pc' \in [Pair -> Review!Places] /\ pc'[r] = s
           /\ seen' \in [Pair -> Review!Sights]
           /\ seen' = seen \/ seen'[r] = x
           /\ \A q \in Pair \ {r} : pc'[q] = pc[q] /\ seen'[q] = seen[q]
BY DEF Review!TypeOK, Review!Places, Review!Locking, Review!Sights

LEMMA ReviewDesigning ==
    ASSUME Review!Inv, NEW r \in Pair,
           Review!ReadDesign(r) \/ Review!Leave(r) \/ Review!BeginApproval(r)
           \/ Review!ApprovalRefused(r)
    PROVE  Review!Inv'
<1> USE DEF Review!Goto, Review!Release, Review!files, Review!languageFiles
<1>0. Review!TypeOK /\ Review!Knows(r) /\ Nobody \in Review!Sights /\ Review!Reviews \subseteq Review!Sights
    BY DEF Review!Inv, Review!Sights
<1>1. CASE Review!ReadDesign(r)
    <2>1. lectureReview \in Review!Reviews
        BY <1>0, <1>1 DEF Review!ReadDesign, Review!Current, Review!Inv, Review!TypeOK
    <2>2. /\ pc' \in [Pair -> Review!Places] /\ pc'[r] = "reviewing"
          /\ seen' \in [Pair -> Review!Sights] /\ seen'[r] = lectureReview
          /\ \A q \in Pair \ {r} : pc'[q] = pc[q] /\ seen'[q] = seen[q]
        <3>1. "reviewing" \in Review!Places /\ lectureReview \in Review!Sights
            BY <1>0, <2>1 DEF Review!Places
        <3>2. seen' = [seen EXCEPT ![r] = lectureReview] /\ seen \in [Pair -> Review!Sights]
            BY <1>0, <1>1 DEF Review!ReadDesign, Review!TypeOK, Review!Sights
        <3>3. QED
            BY <1>0, <1>1, <3>1, <3>2, ReviewMove DEF Review!ReadDesign
    <2>3. Review!TypeOK'
        BY <1>0, <1>1, <2>2 DEF Review!ReadDesign, Review!TypeOK, Review!Sights, Review!Places, Review!Locking
    <2>4. Review!Knows(r)'
        BY <1>1, <2>1, <2>2, ReviewConstants DEF Review!ReadDesign, Review!Knows, Review!Reviewing
    <2>5. QED
        BY <1>1, <2>2, <2>3, <2>4, ReviewQuiet DEF Review!ReadDesign
<1>2. CASE Review!Leave(r) \/ Review!ApprovalRefused(r)
    <2>1. pc' = [pc EXCEPT ![r] = "idle"] /\ seen' = [seen EXCEPT ![r] = Nobody]
        BY <1>2 DEF Review!Leave, Review!ApprovalRefused
    <2>2. /\ pc' \in [Pair -> Review!Places] /\ pc'[r] = "idle"
          /\ seen' \in [Pair -> Review!Sights]
          /\ \A q \in Pair \ {r} : pc'[q] = pc[q] /\ seen'[q] = seen[q]
        <3>1. "idle" \in Review!Places
            BY DEF Review!Places
        <3>2. QED
            BY <1>0, <2>1, <3>1, ReviewMove
    <2>3. \A q \in Pair : pc'[q] \in Review!Locking => lock' = q
        BY <1>0, <1>2, <2>2 DEF Review!Leave, Review!ApprovalRefused, Review!TypeOK, Review!Locking
    <2>4. Review!TypeOK'
        BY <1>0, <1>2, <2>2, <2>3 DEF Review!Leave, Review!ApprovalRefused, Review!TypeOK, Review!Sights, Review!Places, Review!Locking
    <2>5. Review!Knows(r)'
        BY <2>2 DEF Review!Knows, Review!Reviewing
    <2>6. QED
        BY <1>2, <2>2, <2>4, <2>5, ReviewQuiet DEF Review!Leave, Review!ApprovalRefused
<1>3. CASE Review!BeginApproval(r)
    <2>1. pc[r] = "reviewing" /\ lectureReview \in Review!Reviews /\ seen[r] \in Review!Reviews
        BY <1>0, <1>3 DEF Review!BeginApproval, Review!Knows, Review!Reviewing, Review!TypeOK
    <2>2. /\ pc' \in [Pair -> Review!Places] /\ pc'[r] = "approve" /\ seen' = seen
          /\ \A q \in Pair \ {r} : pc'[q] = pc[q] /\ kept'[q] = kept[q]
          /\ kept' \in [Pair -> Review!Reviews \cup {Nobody}] /\ kept'[r] = lectureReview
        BY <1>0, <1>3, <2>1 DEF Review!BeginApproval, Review!TypeOK, Review!Places, Review!Locking
    <2>3. \A q \in Pair : pc'[q] \in Review!Locking => lock' = q
        BY <1>0, <1>3, <2>2, ReviewLock, ReviewConstants DEF Review!BeginApproval
    <2>4. Review!TypeOK'
        BY <1>0, <1>3, <2>2, <2>3 DEF Review!BeginApproval, Review!TypeOK, Review!Places, Review!Locking
    <2>5. \A q \in Pair : pc[q] \notin {"publish", "revert"}
        BY <1>3, ReviewLock, ReviewConstants DEF Review!BeginApproval, Review!Locking
    <2>6. /\ Review!SameDraft(lectureReview, lectureDraft)
          /\ lectureReview.approved =>
                faults > 0 \/ (published # Nobody /\ Review!SameDesign(published, lectureReview))
        BY <2>1, <2>5, ReviewConstants DEF Review!Inv, Review!ApprovalIsOfTheDraft
    <2>7. Review!Knows(r)'
        BY <1>3, <2>1, <2>2, <2>6, ReviewConstants DEF Review!BeginApproval, Review!Knows,
            Review!Reviewing, Review!SameDesign, Review!SameDraft
    <2>8. QED
        BY <1>3, <2>1, <2>2, <2>4, <2>7, ReviewQuiet DEF Review!BeginApproval
<1>4. QED
    BY <1>1, <1>2, <1>3

\* Nothing is written behind somebody's lock.
LEMMA ReviewUnlocked ==
    ASSUME Review!Inv, lock = Nobody
    PROVE  \A q \in Pair : pc[q] \notin Review!Locking
BY ReviewLock, ReviewConstants

LEMMA ReviewSources ==
    ASSUME Review!Inv,
           \/ Review!EditSources \/ Review!ApprovePractice
           \/ \E d \in Drafts : Review!WriteDraft(d)
    PROVE  Review!Inv'
<1> USE DEF Review!files, Review!languageFiles
<1>0. Review!TypeOK /\ lock = Nobody
    BY DEF Review!Inv, Review!EditSources, Review!ApprovePractice, Review!WriteDraft
<1>1. UNCHANGED <<pc, seen, kept, faults>> /\ \A q \in Pair : pc[q] \notin Review!Locking
    BY <1>0, ReviewUnlocked DEF Review!EditSources, Review!ApprovePractice, Review!WriteDraft
<1>2. CASE Review!EditSources
    <2>1. Review!TypeOK'
        BY <1>0, <1>2, ReviewConstants DEF Review!EditSources, Review!TypeOK
    <2>2. \A q \in Pair : Review!Knows(q)'
        BY <1>1, <1>2, ReviewFrame DEF Review!EditSources, Review!Locking
    <2>3. QED
        BY <1>1, <1>2, <2>1, <2>2, ReviewApproved DEF Review!EditSources, Review!Inv
<1>3. CASE Review!ApprovePractice
    <2>1. practice' \in [revision : 1..MaxPractice, source : 1..MaxSource]
        BY <1>0, <1>3, ReviewConstants DEF Review!ApprovePractice, Review!TypeOK
    <2>2. Review!TypeOK'
        BY <1>0, <1>3, <2>1 DEF Review!ApprovePractice, Review!TypeOK
    <2>3. \A q \in Pair : Review!Knows(q)'
        BY <1>1, <1>3, ReviewFrame DEF Review!ApprovePractice, Review!Locking
    <2>4. QED
        BY <1>1, <1>3, <2>2, <2>3, ReviewApproved DEF Review!ApprovePractice, Review!Inv
<1>4. ASSUME NEW d \in Drafts, Review!WriteDraft(d) PROVE Review!Inv'
    <2>1. /\ lectureDraft' \in Review!DraftFiles /\ lectureReview' \in Review!Reviews
          /\ Review!SameDraft(lectureReview', lectureDraft') /\ lectureReview'.approved = FALSE
        BY <1>0, <1>4, ReviewConstants DEF Review!WriteDraft, Review!TypeOK, Review!DraftFiles,
            Review!Reviews, Review!SameDraft
    <2>2. Review!TypeOK'
        BY <1>0, <1>4, <2>1 DEF Review!WriteDraft, Review!TypeOK
    <2>3. lectureReview' # Nobody /\ lectureDraft' # Nobody
        BY <2>1, ReviewConstants
    <2>4. \A q \in Pair : Review!Knows(q)'
        BY <1>1, <2>3, ReviewFrame DEF Review!Locking
    <2>5. QED
        BY <2>1, <2>2, <2>3, <2>4 DEF Review!Inv, Review!ApprovalIsOfTheDraft, Review!SameDraft
<1>5. QED
    BY <1>2, <1>3, <1>4

LEMMA ReviewEditing ==
    ASSUME Review!Inv, NEW r \in Pair, NEW e \in {Generated, ByHand}, Review!UpdateDesign(r, e)
    PROVE  Review!Inv'
<1> USE DEF Review!languageFiles
<1>0. Review!TypeOK /\ Review!Knows(r) /\ pc[r] = "reviewing" /\ lock = Nobody
    BY DEF Review!Inv, Review!UpdateDesign
<1>1. /\ lectureReview \in Review!Reviews /\ lectureDraft # Nobody
      /\ Review!SameDraft(lectureReview, lectureDraft)
    BY <1>0 DEF Review!Knows, Review!Reviewing, Review!TypeOK, Review!Inv,
        Review!ApprovalIsOfTheDraft
<1>2. /\ lectureReview' \in Review!Reviews /\ lectureReview'.approved = FALSE
      /\ Review!SameDraft(lectureReview', lectureDraft)
    BY <1>1 DEF Review!UpdateDesign, Review!Reviews, Review!SameDraft
<1>3. /\ seen' \in [Pair -> Review!Sights] /\ seen'[r] = lectureReview'
      /\ \A q \in Pair \ {r} : seen'[q] = seen[q]
    BY <1>0, <1>2 DEF Review!UpdateDesign, Review!TypeOK, Review!Sights
<1>4. Review!TypeOK'
    BY <1>0, <1>2, <1>3 DEF Review!UpdateDesign, Review!TypeOK
<1>5. \A q \in Pair : pc[q] \notin Review!Locking
    BY <1>0, ReviewUnlocked
<1>6. lectureReview' # Nobody
    BY <1>2, ReviewConstants
<1>7. \A q \in Pair \ {r} : Review!Knows(q)'
    BY <1>3, <1>5, <1>6, ReviewFrame DEF Review!UpdateDesign, Review!Locking
<1>8. Review!Knows(r)'
    BY <1>0, <1>2, <1>3, <1>6 DEF Review!UpdateDesign, Review!Knows, Review!Reviewing
<1>9. Review!ApprovalIsOfTheDraft'
    BY <1>1, <1>2 DEF Review!UpdateDesign, Review!ApprovalIsOfTheDraft, Review!SameDraft
<1>10. QED
    BY <1>4, <1>6, <1>7, <1>8, <1>9 DEF Review!Inv

LEMMA ReviewCrash ==
    ASSUME Review!Inv, Review!Crash
    PROVE  Review!Inv'
<1> USE DEF Review!files, Review!languageFiles
<1>1. Review!TypeOK /\ faults' > 0
    BY ReviewConstants DEF Review!Inv, Review!TypeOK, Review!Crash, Review!Fails
<1>2. Review!TypeOK'
    BY <1>1, ReviewConstants DEF Review!Crash, Review!Fails, Review!TypeOK, Review!Places, Review!Sights,
        Review!Locking
<1>3. \A q \in Pair : Review!Knows(q)'
    BY DEF Review!Crash, Review!Knows, Review!Reviewing
<1>4. Review!ApprovalIsOfTheDraft' /\ (lectureDraft' # Nobody => lectureReview' # Nobody)
    BY <1>1 DEF Review!Crash, Review!Inv, Review!ApprovalIsOfTheDraft, Review!SameDraft
<1>5. QED
    BY <1>2, <1>3, <1>4 DEF Review!Inv

\* The snapshot of a reviewed draft.
LEMMA ReviewSnapshot ==
    ASSUME Review!Inv, NEW r \in Pair, pc[r] = "publish", Review!Version < MaxVersion
    PROVE  /\ Review!Snapshot \in Review!Snapshots
           /\ Review!Snapshot.version = Review!Version + 1
           /\ Review!SameDesign(Review!Snapshot, lectureReview)
           /\ Review!SameDesign(Review!Snapshot, seen[r])
           /\ Review!Snapshot.doc = lectureDraft.doc
           /\ Review!Snapshot.source = source
           /\ Review!Snapshot.practice = practice.revision
<1>1. /\ Review!Approved(r) /\ lectureReview \in Review!Reviews
      /\ lectureDraft \in Review!DraftFiles
    BY ReviewConstants DEF Review!Inv, Review!TypeOK, Review!Knows, Review!Reviewing,
        Review!Approved, Review!Current
<1>2. Review!Version \in Nat
    BY ReviewConstants DEF Review!Inv, Review!TypeOK, Review!Version, Review!Snapshots
<1>3. Review!NextVersion \in 1..MaxVersion
    BY <1>2, ReviewConstants DEF Review!NextVersion
<1>4. Review!Snapshot \in Review!Snapshots
    BY <1>1, <1>3 DEF Review!Snapshot, Review!Snapshots, Review!Reviews, Review!DraftFiles
<1>5. QED
    BY <1>1, <1>4 DEF Review!Snapshot, Review!NextVersion, Review!Approved, Review!Current,
        Review!SameDesign, Review!SameDraft

LEMMA ReviewApproving ==
    ASSUME Review!Inv, NEW r \in Pair, Review!Approve(r)
    PROVE  Review!Inv'
<1> USE DEF Review!languageFiles, Review!Goto
<1>0. Review!TypeOK /\ Review!Knows(r) /\ pc[r] = "approve" /\ Review!Approved(r)
    BY DEF Review!Inv, Review!Approve
<1>1. /\ lectureReview \in Review!Reviews /\ seen[r] \in Review!Reviews
    BY <1>0 DEF Review!Knows, Review!Reviewing, Review!TypeOK
<1>2. /\ lectureReview' \in Review!Reviews /\ lectureReview'.approved
      /\ Review!SameDesign(lectureReview', lectureReview)
    BY <1>1 DEF Review!Approve, Review!Reviews, Review!SameDesign, Review!SameDraft
<1>3. /\ pc' \in [Pair -> Review!Places] /\ pc'[r] = "publish"
      /\ \A q \in Pair \ {r} : pc'[q] = pc[q]
    BY <1>0 DEF Review!Approve, Review!TypeOK, Review!Places, Review!Locking
<1>4. lock = r /\ \A q \in Pair \ {r} : pc[q] \notin Review!Locking
    BY <1>0, ReviewLock DEF Review!Locking
<1>5. Review!TypeOK'
    BY <1>0, <1>2, <1>3, <1>4 DEF Review!Approve, Review!TypeOK
<1>6. lectureReview' # Nobody
    BY <1>2, ReviewConstants
<1>7. \A q \in Pair \ {r} : Review!Knows(q)'
    BY <1>3, <1>4, <1>6, ReviewFrame DEF Review!Approve, Review!Locking
<1>8. Review!Approved(r)'
    BY <1>0, <1>2 DEF Review!Approve, Review!Approved, Review!Current, Review!SameDesign,
        Review!SameDraft
<1>9. Review!Knows(r)'
    BY <1>0, <1>1, <1>2, <1>3, <1>6, <1>8 DEF Review!Approve, Review!Knows, Review!Reviewing
<1>10. Review!ApprovalIsOfTheDraft'
    BY <1>3, <1>8 DEF Review!ApprovalIsOfTheDraft, Review!Approved, Review!Current
<1>11. QED
    BY <1>5, <1>6, <1>7, <1>9, <1>10 DEF Review!Inv

\* A request that is behind the lock leaves it.
LEMMA ReviewRelease ==
    ASSUME Review!Inv, NEW r \in Pair, pc[r] \in Review!Locking, Review!Release(r)
    PROVE  /\ pc' \in [Pair -> Review!Places] /\ seen' \in [Pair -> Review!Sights]
           /\ lock' = Nobody
           /\ \A q \in Pair \ {r} : pc'[q] = pc[q] /\ seen'[q] = seen[q]
           /\ \A q \in Pair : pc'[q] \notin Review!Locking
           /\ Review!Knows(r)'
<1>1. /\ pc' = [pc EXCEPT ![r] = "idle"] /\ seen' = [seen EXCEPT ![r] = Nobody]
      /\ "idle" \in Review!Places /\ Nobody \in Review!Sights /\ Review!TypeOK
    BY DEF Review!Release, Review!Goto, Review!Places, Review!Sights, Review!Inv
<1>2. /\ pc' \in [Pair -> Review!Places] /\ pc'[r] = "idle" /\ seen' \in [Pair -> Review!Sights]
      /\ \A q \in Pair \ {r} : pc'[q] = pc[q] /\ seen'[q] = seen[q]
    BY <1>1, ReviewMove
<1>3. \A q \in Pair \ {r} : pc'[q] \notin Review!Locking
    BY <1>2, ReviewLock
<1>4. QED
    BY <1>2, <1>3 DEF Review!Release, Review!Locking, Review!Knows, Review!Reviewing

LEMMA ReviewPublishing ==
    ASSUME Review!Inv, NEW r \in Pair, Review!Publish(r) \/ Review!PublishFails(r)
    PROVE  Review!Inv'
<1> USE DEF Review!languageFiles
<1>0. /\ Review!TypeOK /\ Review!Knows(r) /\ pc[r] = "publish" /\ pc[r] \in Review!Locking
      /\ \A q \in Pair \ {r} : pc[q] \notin Review!Locking
      /\ UNCHANGED <<source, practice, lectureDraft, lectureReview, Review!languageFiles, kept, texts>>
    BY ReviewLock DEF Review!Inv, Review!Publish, Review!PublishFails, Review!Locking
<1>1. CASE Review!Publish(r)
    <2>1. /\ published' \in Review!Snapshots
          /\ Review!SameDesign(published', lectureReview)
        BY <1>0, <1>1, ReviewSnapshot DEF Review!Publish
    <2>2. /\ pc' \in [Pair -> Review!Places] /\ seen' \in [Pair -> Review!Sights] /\ lock' = Nobody
          /\ \A q \in Pair \ {r} : pc'[q] = pc[q] /\ seen'[q] = seen[q]
          /\ \A q \in Pair : pc'[q] \notin Review!Locking
          /\ Review!Knows(r)'
        BY <1>0, <1>1, ReviewRelease DEF Review!Publish
    <2>3. Review!TypeOK'
        BY <1>0, <1>1, <2>1, <2>2 DEF Review!Publish, Review!TypeOK
    <2>4. \A q \in Pair \ {r} : Review!Knows(q)'
        BY <1>0, <1>1, <2>2, ReviewFrame DEF Review!Publish, Review!Locking
    <2>5. Review!ApprovalIsOfTheDraft' /\ (lectureDraft' # Nobody => lectureReview' # Nobody)
        BY <1>0, <2>1, ReviewConstants DEF Review!Inv, Review!ApprovalIsOfTheDraft, Review!SameDesign,
            Review!SameDraft
    <2>6. QED
        BY <2>2, <2>3, <2>4, <2>5 DEF Review!Inv
<1>2. CASE Review!PublishFails(r)
    <2>1. /\ published' \in Review!Snapshots \cup {Nobody} /\ faults' \in 0..MaxFaults
          /\ faults > 0 => faults' > 0
          /\ UNCHANGED published \/ faults' > 0
        BY <1>0, <1>2, ReviewSnapshot, ReviewConstants DEF Review!PublishFails, Review!Fails, Review!TypeOK
    <2>2. /\ pc' \in [Pair -> Review!Places] /\ pc'[r] = "revert" /\ seen' = seen /\ lock' = lock
          /\ \A q \in Pair \ {r} : pc'[q] = pc[q]
        BY <1>0, <1>2 DEF Review!PublishFails, Review!Goto, Review!TypeOK, Review!Places, Review!Locking
    <2>3. lock' = r
        BY <1>0, <2>2, ReviewLock
    <2>4. Review!TypeOK'
        BY <1>0, <2>1, <2>2, <2>3 DEF Review!TypeOK
    <2>5. \A q \in Pair \ {r} : Review!Knows(q)'
        BY <1>0, <2>1, <2>2, ReviewFrame DEF Review!Locking
    <2>6. Review!Knows(r)'
        BY <1>0, <2>1, <2>2 DEF Review!Knows, Review!Reviewing, Review!SameDraft, Review!SameDesign
    <2>7. Review!ApprovalIsOfTheDraft' /\ (lectureDraft' # Nobody => lectureReview' # Nobody)
        BY <1>0, <2>1, <2>2, ReviewApproved
    <2>8. QED
        BY <2>4, <2>5, <2>6, <2>7 DEF Review!Inv
<1>3. QED
    BY <1>1, <1>2

LEMMA ReviewReverting ==
    ASSUME Review!Inv, NEW r \in Pair, Review!Revert(r)
    PROVE  Review!Inv'
<1> USE DEF Review!languageFiles
<1>0. /\ Review!TypeOK /\ Review!Knows(r) /\ pc[r] = "revert" /\ pc[r] \in Review!Locking
      /\ \A q \in Pair \ {r} : pc[q] \notin Review!Locking
      /\ UNCHANGED <<source, practice, lectureDraft, published, Review!languageFiles, kept, texts>>
    BY ReviewLock DEF Review!Inv, Review!Revert, Review!Locking
<1>1. /\ pc' \in [Pair -> Review!Places] /\ seen' \in [Pair -> Review!Sights] /\ lock' = Nobody
      /\ \A q \in Pair \ {r} : pc'[q] = pc[q] /\ seen'[q] = seen[q]
      /\ \A q \in Pair : pc'[q] \notin Review!Locking
      /\ Review!Knows(r)'
    BY <1>0, ReviewRelease DEF Review!Revert
<1>2. /\ kept[r] \in Review!Reviews /\ Review!SameDraft(kept[r], lectureDraft)
      /\ kept[r].approved =>
            faults > 0 \/ (published # Nobody /\ Review!SameDesign(published, kept[r]))
      /\ lectureReview \in Review!Reviews
    BY <1>0 DEF Review!Knows, Review!Reviewing, Review!TypeOK
<1>3. \/ lectureReview' = kept[r] /\ faults' = faults
      \/ lectureReview' = lectureReview /\ faults' > 0 /\ faults' \in 0..MaxFaults
    BY <1>0, ReviewConstants DEF Review!Revert, Review!Fails, Review!TypeOK
<1>4. lectureReview' \in Review!Reviews /\ faults' \in 0..MaxFaults /\ (faults > 0 => faults' > 0)
    BY <1>0, <1>2, <1>3 DEF Review!TypeOK
<1>5. Review!TypeOK'
    BY <1>0, <1>1, <1>4 DEF Review!TypeOK
<1>6. lectureReview' # Nobody
    BY <1>4, ReviewConstants
<1>7. \A q \in Pair \ {r} : Review!Knows(q)'
    BY <1>0, <1>1, <1>4, <1>6, ReviewFrame DEF Review!Locking
<1>8. lectureDraft # Nobody /\ Review!SameDraft(lectureReview, lectureDraft)
    BY <1>2, ReviewConstants DEF Review!Inv, Review!ApprovalIsOfTheDraft
<1>9. Review!ApprovalIsOfTheDraft'
    BY <1>0, <1>2, <1>3, <1>8 DEF Review!ApprovalIsOfTheDraft, Review!SameDraft, Review!SameDesign
<1>10. QED
    BY <1>1, <1>5, <1>6, <1>7, <1>9 DEF Review!Inv

LEMMA ReviewTranslating ==
    ASSUME Review!Inv, NEW r \in Pair,
           \/ Review!Translate(r)
           \/ \E l \in Languages : Review!WriteVariant(r, l) \/ Review!Preview(r, l)
    PROVE  Review!Inv'
<1> USE DEF Review!files, Review!languageFiles, Review!Goto
<1>0. Review!TypeOK /\ Review!Knows(r) /\ pc[r] \notin {"publish", "revert"}
    BY DEF Review!Inv, Review!Translate, Review!WriteVariant, Review!Preview
<1>1. CASE Review!Translate(r)
    <2>1. published \in Review!Snapshots /\ published \in Review!Sights /\ "translating" \in Review!Places
        BY <1>0, <1>1 DEF Review!Translate, Review!TypeOK, Review!Sights, Review!Places
    <2>2. /\ pc' \in [Pair -> Review!Places] /\ pc'[r] = "translating"
          /\ seen' \in [Pair -> Review!Sights] /\ seen'[r] = published
          /\ \A q \in Pair \ {r} : pc'[q] = pc[q] /\ seen'[q] = seen[q]
        BY <1>0, <1>1, <2>1, ReviewMove DEF Review!Translate, Review!TypeOK
    <2>3. Review!TypeOK'
        BY <1>0, <1>1, <2>2 DEF Review!Translate, Review!TypeOK, Review!Locking
    <2>4. Review!Knows(r)'
        BY <2>1, <2>2, <1>1 DEF Review!Translate, Review!Knows, Review!Reviewing
    <2>5. QED
        BY <1>0, <1>1, <2>2, <2>3, <2>4, ReviewQuiet DEF Review!Translate
<1>2. ASSUME NEW l \in Languages, Review!WriteVariant(r, l) PROVE Review!Inv'
    <2>1. seen[r] \in Review!Snapshots
        BY <1>0, <1>2 DEF Review!WriteVariant, Review!Knows
    <2>2. variant' \in [Languages -> Review!Variants \cup {Nobody}] /\ texts' \in 0..MaxTexts
        <3>1. texts + 1 \in 1..MaxTexts
            BY <1>0, <1>2, ReviewConstants DEF Review!WriteVariant, Review!TypeOK
        <3>2. [version |-> seen[r].version, doc |-> seen[r].doc, edit |-> seen[r].edit,
               text |-> texts + 1] \in Review!Variants
            BY <2>1, <3>1 DEF Review!Snapshots, Review!Variants
        <3>3. QED
            BY <1>0, <1>2, <3>1, <3>2 DEF Review!WriteVariant, Review!TypeOK
    <2>3. /\ pc' \in [Pair -> Review!Places] /\ pc'[r] = "idle"
          /\ seen' \in [Pair -> Review!Sights]
          /\ \A q \in Pair \ {r} : pc'[q] = pc[q] /\ seen'[q] = seen[q]
        <3>1. "idle" \in Review!Places /\ Nobody \in Review!Sights
            BY DEF Review!Places, Review!Sights
        <3>2. QED
            BY <1>0, <1>2, <3>1, ReviewMove DEF Review!WriteVariant
    <2>4. Review!TypeOK'
        BY <1>0, <1>2, <2>2, <2>3 DEF Review!WriteVariant, Review!TypeOK, Review!Locking
    <2>5. Review!Knows(r)'
        BY <2>3 DEF Review!Knows, Review!Reviewing
    <2>6. QED
        BY <1>0, <1>2, <2>3, <2>4, <2>5, ReviewQuiet DEF Review!WriteVariant
<1>3. ASSUME NEW l \in Languages, Review!Preview(r, l) PROVE Review!Inv'
    <2>1. [language |-> l, variant |-> variant[l]] \in Review!Previews
        BY <1>0, <1>3 DEF Review!Preview, Review!TypeOK, Review!Previews
    <2>2. /\ pc' \in [Pair -> Review!Places] /\ pc'[r] = "previewed"
          /\ seen' \in [Pair -> Review!Sights]
          /\ seen'[r] = [language |-> l, variant |-> variant[l]]
          /\ \A q \in Pair \ {r} : pc'[q] = pc[q] /\ seen'[q] = seen[q]
        <3>1. "previewed" \in Review!Places
              /\ [language |-> l, variant |-> variant[l]] \in Review!Sights
            BY <2>1 DEF Review!Places, Review!Sights
        <3>2. QED
            BY <1>0, <1>3, <3>1, ReviewMove DEF Review!Preview, Review!TypeOK
    <2>3. Review!TypeOK'
        BY <1>0, <1>3, <2>2 DEF Review!Preview, Review!TypeOK, Review!Locking
    <2>4. Review!Knows(r)'
        BY <2>1, <2>2 DEF Review!Knows, Review!Reviewing
    <2>5. QED
        BY <1>0, <1>3, <2>2, <2>3, <2>4, ReviewQuiet DEF Review!Preview
<1>4. QED
    BY <1>1, <1>2, <1>3

LEMMA ReviewDeclaring ==
    ASSUME Review!Inv, NEW r \in Pair, NEW a \in Languages, Review!Declare(r, a)
    PROVE  Review!Inv'
<1> USE DEF Review!files, Review!Goto
<1>0. /\ Review!TypeOK /\ Review!Knows(r) /\ pc[r] = "previewed" /\ lock = Nobody
      /\ UNCHANGED <<source, practice, lectureDraft, lectureReview, published, seen, kept, faults>>
    BY DEF Review!Inv, Review!Declare
<1>1. assessed' \in [version : 1..MaxVersion, language : Languages] \cup {Nobody}
    BY <1>0 DEF Review!Declare, Review!MayPublishVariant, Review!Valid, Review!TypeOK, Review!Snapshots
<1>2. /\ pc' \in [Pair -> Review!Places] /\ pc'[r] = "declared"
      /\ \A q \in Pair \ {r} : pc'[q] = pc[q]
    BY <1>0 DEF Review!Declare, Review!TypeOK, Review!Places, Review!Locking
<1>3. \A q \in Pair : pc'[q] \in Review!Locking => lock' = q
    BY <1>0, <1>2, ReviewUnlocked DEF Review!Declare
<1>4. Review!TypeOK'
    BY <1>0, <1>1, <1>2, <1>3 DEF Review!Declare, Review!TypeOK
<1>5. Review!Knows(r)'
    BY <1>0, <1>2 DEF Review!Knows, Review!Reviewing
<1>6. QED
    BY <1>0, <1>2, <1>4, <1>5, ReviewQuiet

LEMMA ReviewSpeaking ==
    ASSUME Review!Inv, Review!Translated, NEW r \in Pair, Review!PublishVariant(r)
    PROVE  Review!Inv'
<1> USE DEF Review!files
<1>0. /\ Review!TypeOK /\ Review!Knows(r) /\ pc[r] = "declared" /\ pc[r] \in Review!Locking
      /\ UNCHANGED <<source, practice, lectureDraft, lectureReview, published, variant, assessed,
                     kept, texts>>
    BY DEF Review!Inv, Review!PublishVariant, Review!Locking
<1>1. /\ pc' \in [Pair -> Review!Places] /\ seen' \in [Pair -> Review!Sights] /\ lock' = Nobody
      /\ \A q \in Pair \ {r} : pc'[q] = pc[q] /\ seen'[q] = seen[q]
      /\ \A q \in Pair : pc'[q] \notin Review!Locking
      /\ Review!Knows(r)'
    BY <1>0, ReviewRelease DEF Review!PublishVariant
<1>2. seen[r].language \in Languages
    BY <1>0 DEF Review!Knows, Review!Previews
<1>3. /\ shown' \in [Languages -> Review!Variants \cup {Nobody}] /\ faults' \in 0..MaxFaults
      /\ faults > 0 => faults' > 0
    BY <1>0, <1>2, ReviewConstants DEF Review!PublishVariant, Review!TypeOK, Review!Fails
<1>4. Review!TypeOK'
    BY <1>0, <1>1, <1>3 DEF Review!TypeOK
<1>5. QED
    BY <1>0, <1>1, <1>3, <1>4, ReviewQuiet

LEMMA ReviewNext ==
    ASSUME Review!Inv, Review!Translated, Review!Next
    PROVE  Review!Inv'
BY ReviewSources, ReviewEditing, ReviewCrash, ReviewDesigning, ReviewApproving, ReviewPublishing,
        ReviewReverting, ReviewTranslating, ReviewDeclaring, ReviewSpeaking DEF Review!Next

LEMMA TranslatedInit == Review!Init => Review!Translated
BY DEF Review!Init, Review!Translated

\* What is said of translations stays true as long as requests stay where they
\* are or go back, and no file they are in changes.
LEMMA TranslatedFrame ==
    ASSUME Review!Translated, UNCHANGED <<variant, shown, published, texts>>,
           \A q \in Pair : pc'[q] \in {"translating", "previewed", "declared"} =>
               pc'[q] = pc[q] /\ seen'[q] = seen[q]
    PROVE  Review!Translated'
BY DEF Review!Translated, Review!OfPublication, Review!AsPreviewed

LEMMA TranslatedElsewhere ==
    ASSUME Review!Inv, Review!Translated,
           \/ Review!EditSources \/ Review!ApprovePractice \/ Review!Crash
           \/ \E d \in Drafts : Review!WriteDraft(d)
           \/ \E r \in Pair : \/ Review!ReadDesign(r) \/ Review!Leave(r)
                              \/ \E e \in {Generated, ByHand} : Review!UpdateDesign(r, e)
                              \/ Review!BeginApproval(r) \/ Review!Approve(r)
                              \/ Review!ApprovalRefused(r) \/ Review!Revert(r)
    PROVE  Review!Translated'
<1> USE TranslatedFrame DEF Review!Inv, Review!TypeOK, Review!files, Review!languageFiles, Review!Goto,
        Review!Release
<1>1. CASE Review!EditSources \/ Review!ApprovePractice \/ Review!Crash
    BY <1>1 DEF Review!EditSources, Review!ApprovePractice, Review!Crash
<1>2. ASSUME NEW d \in Drafts, Review!WriteDraft(d) PROVE Review!Translated'
    BY <1>2 DEF Review!WriteDraft
<1>3. ASSUME NEW r \in Pair, Review!ReadDesign(r) \/ Review!Leave(r) PROVE Review!Translated'
    BY <1>3 DEF Review!ReadDesign, Review!Leave
<1>4. ASSUME NEW r \in Pair, NEW e \in {Generated, ByHand}, Review!UpdateDesign(r, e)
      PROVE  Review!Translated'
    BY <1>4 DEF Review!UpdateDesign
<1>5. ASSUME NEW r \in Pair, Review!BeginApproval(r) \/ Review!Approve(r) PROVE Review!Translated'
    BY <1>5 DEF Review!BeginApproval, Review!Approve
<1>6. ASSUME NEW r \in Pair, Review!ApprovalRefused(r) \/ Review!Revert(r) PROVE Review!Translated'
    BY <1>6 DEF Review!ApprovalRefused, Review!Revert
<1>7. QED
    BY <1>1, <1>2, <1>3, <1>4, <1>5, <1>6

LEMMA TranslatedPublish ==
    ASSUME Review!Inv, Review!Translated, NEW r \in Pair, Review!Publish(r) \/ Review!PublishFails(r)
    PROVE  Review!Translated'
<1>0. Review!TypeOK /\ pc[r] = "publish" /\ UNCHANGED <<variant, shown, texts>>
    BY DEF Review!Inv, Review!Publish, Review!PublishFails, Review!languageFiles
<1>1. \A q \in Pair : pc'[q] \in {"translating", "previewed", "declared"} =>
               pc'[q] = pc[q] /\ seen'[q] = seen[q]
    BY <1>0 DEF Review!Publish, Review!PublishFails, Review!Release, Review!Goto, Review!TypeOK
<1>2. CASE UNCHANGED published
    BY <1>0, <1>1, <1>2, TranslatedFrame
<1>3. CASE published' = Review!Snapshot /\ Review!Version < MaxVersion
    <2>1. published' # Nobody /\ published'.version = Review!Version + 1
        BY <1>0, <1>3, ReviewSnapshot, ReviewConstants
    <2>2. ASSUME NEW v, Review!OfPublication(v), v.version \in 1..MaxVersion
          PROVE  Review!OfPublication(v)'
        BY <1>0, <2>1, <2>2, ReviewConstants DEF Review!OfPublication, Review!Version, Review!TypeOK, Review!Snapshots
    <2>3. \A l \in Languages : variant[l] # Nobody => variant[l].version \in 1..MaxVersion
        BY <1>0 DEF Review!TypeOK, Review!Variants
    <2>4. \A l \in Languages : shown[l] # Nobody => shown[l].version \in 1..MaxVersion
        BY <1>0 DEF Review!TypeOK, Review!Variants
    <2>5. \A q \in Pair : pc[q] = "translating" => seen[q].version \in 1..MaxVersion
        BY DEF Review!Inv, Review!Knows, Review!Snapshots
    <2>6. \A l \in Languages : variant[l] # Nobody => Review!OfPublication(variant[l])'
        BY <1>0, <2>2, <2>3 DEF Review!Translated, Review!OfPublication
    <2>7. \A l \in Languages : shown[l] # Nobody => Review!OfPublication(shown[l])'
        BY <1>0, <2>2, <2>4 DEF Review!Translated, Review!OfPublication
    <2>8. \A q \in Pair : pc'[q] = "translating" => Review!OfPublication(seen[q])'
        BY <1>0, <1>1, <2>2, <2>5 DEF Review!Translated, Review!OfPublication
    <2>9. QED
        BY <1>0, <1>1, <2>6, <2>7, <2>8 DEF Review!Translated, Review!AsPreviewed
<1>4. QED
    BY <1>2, <1>3 DEF Review!Publish, Review!PublishFails

LEMMA TranslatedStep ==
    ASSUME Review!Inv, Review!Translated, NEW r \in Pair,
           Review!Translate(r) \/ \E l \in Languages : Review!WriteVariant(r, l)
    PROVE  Review!Translated'
<1> USE DEF Review!files, Review!languageFiles, Review!Goto
<1>0. Review!TypeOK
    BY DEF Review!Inv
<1>1. CASE Review!Translate(r)
    <2>1. /\ UNCHANGED <<variant, shown, published, texts>>
          /\ pc'[r] = "translating" /\ seen'[r] = published
          /\ published \in Review!Snapshots
          /\ \A q \in Pair \ {r} : pc'[q] = pc[q] /\ seen'[q] = seen[q]
        BY <1>0, <1>1 DEF Review!Translate, Review!TypeOK
    <2>2. Review!OfPublication(published)
        BY <2>1, ReviewConstants DEF Review!OfPublication, Review!Snapshots
    <2>3. \A q \in Pair : pc'[q] = "translating" => Review!OfPublication(seen[q])'
        BY <2>1, <2>2 DEF Review!Translated, Review!OfPublication
    <2>4. QED
        BY <2>1, <2>3 DEF Review!Translated, Review!OfPublication, Review!AsPreviewed
<1>2. ASSUME NEW l \in Languages, Review!WriteVariant(r, l) PROVE Review!Translated'
    <2>0. PICK v : v = [version |-> seen[r].version, doc |-> seen[r].doc,
                        edit |-> seen[r].edit, text |-> texts + 1]
        OBVIOUS
    <2>1. /\ UNCHANGED <<shown, published>> /\ texts' = texts + 1 /\ texts \in Nat
          /\ variant' = [variant EXCEPT ![l] = v]
          /\ pc'[r] = "idle"
          /\ \A q \in Pair \ {r} : pc'[q] = pc[q] /\ seen'[q] = seen[q]
          /\ pc[r] = "translating" /\ lock = Nobody
        BY <1>0, <1>2, <2>0, ReviewConstants DEF Review!WriteVariant, Review!TypeOK
    <2>2. seen[r] \in Review!Snapshots /\ Review!OfPublication(seen[r])
        BY <2>1 DEF Review!Inv, Review!Knows, Review!Translated
    <2>3. v \in Review!Variants /\ v # Nobody
        <3>1. texts + 1 \in 1..MaxTexts
            BY <1>0, <1>2, ReviewConstants DEF Review!WriteVariant, Review!TypeOK
        <3>2. QED
            BY <2>0, <2>2, <3>1, ReviewConstants DEF Review!Snapshots, Review!Variants
    <2>4. /\ variant'[l] = v
          /\ \A k \in Languages \ {l} : variant'[k] = variant[k]
        BY <1>0, <2>1 DEF Review!TypeOK
    <2>5. Review!OfPublication(v)'
        BY <2>0, <2>1, <2>2 DEF Review!OfPublication
    <2>6. \A k \in Languages : variant'[k] # Nobody =>
              Review!OfPublication(variant[k])' /\ variant'[k].text <= texts'
        <3>1. \A k \in Languages : variant[k] # Nobody => variant[k].text \in Nat
            BY <1>0, ReviewConstants DEF Review!TypeOK, Review!Variants
        <3>2. QED
            BY <2>0, <2>1, <2>4, <2>5, <3>1 DEF Review!Translated, Review!OfPublication
    <2>7. \A k \in Languages : shown'[k] # Nobody => Review!OfPublication(shown[k])'
        BY <2>1 DEF Review!Translated, Review!OfPublication
    <2>8. \A q \in Pair : pc'[q] = "translating" => Review!OfPublication(seen[q])'
        BY <2>1 DEF Review!Translated, Review!OfPublication
    <2>9. ASSUME NEW q \in Pair, pc'[q] \in {"previewed", "declared"}
          PROVE  Review!AsPreviewed(q)'
        <3>1. q # r /\ pc[q] = pc'[q] /\ seen[q] = seen'[q] /\ pc[q] = "previewed"
            BY <2>1, <2>9, ReviewUnlocked DEF Review!Locking
        <3>2. seen[q].variant.text \in Nat /\ Review!AsPreviewed(q)
            BY <3>1, ReviewConstants DEF Review!Inv, Review!Knows, Review!Previews, Review!Variants,
                Review!Translated
        <3>3. CASE seen[q].language = l
            <4>1. variant'[seen[q].language] = v /\ v.text = texts + 1
                BY <2>0, <2>4, <3>3
            <4>2. v.text # seen[q].variant.text
                BY <2>1, <3>2, <4>1 DEF Review!AsPreviewed
            <4>3. QED
                BY <2>1, <2>3, <3>1, <3>2, <4>1, <4>2 DEF Review!AsPreviewed
        <3>4. CASE seen[q].language # l
            <4>1. seen[q].language \in Languages
                BY <3>1 DEF Review!Inv, Review!Knows, Review!Previews
            <4>2. QED
                BY <2>1, <2>4, <3>1, <3>2, <3>4, <4>1 DEF Review!AsPreviewed
        <3>5. QED
            BY <3>3, <3>4
    <2>10. QED
        BY <2>6, <2>7, <2>8, <2>9 DEF Review!Translated
<1>3. QED
    BY <1>1, <1>2

LEMMA TranslatedDeclare ==
    ASSUME Review!Inv, Review!Translated, NEW r \in Pair,
           \/ \E l \in Languages : Review!Preview(r, l) \/ Review!Declare(r, l)
           \/ Review!PublishVariant(r)
    PROVE  Review!Translated'
<1> USE DEF Review!files, Review!languageFiles, Review!Goto
<1>0. Review!TypeOK
    BY DEF Review!Inv
<1>1. ASSUME NEW l \in Languages, Review!Preview(r, l) PROVE Review!Translated'
    <2> DEFINE x == [language |-> l, variant |-> variant[l]]
    <2>1. /\ UNCHANGED <<variant, shown, published, texts>> /\ variant[l] # Nobody
          /\ pc'[r] = "previewed" /\ seen'[r] = x
          /\ \A q \in Pair \ {r} : pc'[q] = pc[q] /\ seen'[q] = seen[q]
        BY <1>0, <1>1 DEF Review!Preview, Review!TypeOK
    <2>2. x.language = l /\ x.variant = variant[l]
        OBVIOUS
    <2> HIDE DEF x
    <2>3. Review!AsPreviewed(r)'
        BY <2>1, <2>2 DEF Review!AsPreviewed, Review!Translated
    <2>4. QED
        BY <2>1, <2>3 DEF Review!Translated, Review!OfPublication, Review!AsPreviewed
<1>2. ASSUME NEW l \in Languages, Review!Declare(r, l) PROVE Review!Translated'
    <2>1. /\ UNCHANGED <<variant, shown, published, texts, seen>> /\ pc[r] = "previewed"
          /\ pc'[r] = "declared" /\ Review!MayPublishVariant(r)
          /\ \A q \in Pair \ {r} : pc'[q] = pc[q]
        BY <1>0, <1>2 DEF Review!Declare, Review!TypeOK
    <2>2. Review!AsPreviewed(r)'
        BY <2>1 DEF Review!AsPreviewed, Review!Translated, Review!MayPublishVariant
    <2>3. QED
        BY <2>1, <2>2 DEF Review!Translated, Review!OfPublication, Review!AsPreviewed
<1>3. CASE Review!PublishVariant(r)
    <2>1. /\ UNCHANGED <<variant, published, texts>> /\ pc'[r] = "idle" /\ pc[r] = "declared"
          /\ \A q \in Pair \ {r} : pc'[q] = pc[q] /\ seen'[q] = seen[q]
        BY <1>0, <1>3 DEF Review!PublishVariant, Review!Release, Review!TypeOK
    <2>2. seen[r].language \in Languages
        BY <2>1 DEF Review!Inv, Review!Knows, Review!Previews
    <2>3. \A k \in Languages : shown'[k] = shown[k] \/ shown'[k] = variant[k]
        BY <1>0, <1>3, <2>2 DEF Review!PublishVariant, Review!TypeOK
    <2>4. \A k \in Languages : shown'[k] # Nobody => Review!OfPublication(shown[k])'
        BY <2>1, <2>3 DEF Review!Translated, Review!OfPublication
    <2>5. QED
        BY <2>1, <2>4 DEF Review!Translated, Review!OfPublication, Review!AsPreviewed
<1>4. QED
    BY <1>1, <1>2, <1>3

LEMMA TranslatedNext ==
    ASSUME Review!Inv, Review!Translated, Review!Next
    PROVE  Review!Translated'
BY TranslatedElsewhere, TranslatedPublish, TranslatedStep, TranslatedDeclare DEF Review!Next

LEMMA ReviewStep ==
    Review!Inv /\ Review!Translated /\ [Step]_vars => Review!Inv' /\ Review!Translated'
<1> SUFFICES ASSUME Review!Inv, Review!Translated, [Step]_vars
             PROVE  Review!Inv' /\ Review!Translated'
    OBVIOUS
<1>1. CASE Review!Next
    BY <1>1, ReviewNext, TranslatedNext
<1>2. CASE UNCHANGED CanvasPublicationVars
    <2>1. /\ \A q \in Pair : Review!Knows(q)'
          /\ Review!ApprovalIsOfTheDraft' /\ (lectureDraft' # Nobody => lectureReview' # Nobody)
        BY <1>2, ReviewFrame, ReviewApproved DEF CanvasPublicationVars
    <2>2. Review!TypeOK'
        BY <1>2 DEF CanvasPublicationVars, Review!Inv, Review!TypeOK
    <2>3. Review!Translated'
        BY <1>2, TranslatedFrame DEF CanvasPublicationVars
    <2>4. QED
        BY <2>1, <2>2, <2>3 DEF Review!Inv
<1>3. QED
    BY <1>1, <1>2 DEF Step, vars

\* An approval on disk is of the draft it is stored with: it does not outlive a
\* regeneration, an edit or a change of the sources, nor come back with the
\* review that a failed publication restores
\* (course_canvas_approval_publication.py).
THEOREM ApprovalsHold == Spec => []ApprovalsAreOfTheDraft
<1>1. Begin => Review!Inv /\ Review!Translated
    BY ReviewInit, TranslatedInit DEF Begin
<1>2. Review!Inv => ApprovalsAreOfTheDraft
    BY DEF Review!Inv, ApprovalsAreOfTheDraft
<1>3. QED
    BY <1>1, <1>2, ReviewStep, PTL DEF Spec

\* A publication is the step of one request that holds the lock.
LEMMA ReviewPublishes ==
    ASSUME Review!Inv, Review!Next, published' # published
    PROVE  \E r \in Pair : /\ Review!Publish(r) \/ Review!PublishFails(r)
                           /\ pc[r] = "publish" /\ published' = Review!Snapshot
                           /\ Review!Version < MaxVersion
<1> USE DEF Review!files, Review!languageFiles
<1>1. \E r \in Pair : Review!Publish(r) \/ Review!PublishFails(r)
    BY DEF Review!Next, Review!EditSources, Review!ApprovePractice, Review!Crash, Review!WriteDraft,
        Review!ReadDesign, Review!Leave, Review!UpdateDesign, Review!BeginApproval, Review!Approve,
        Review!ApprovalRefused, Review!Revert, Review!Translate, Review!PublishVariant,
        Review!WriteVariant, Review!Preview, Review!Declare
<1>2. QED
    BY <1>1 DEF Review!Publish, Review!PublishFails

\* What is published is what the professor who publishes it was shown, made of
\* the sources and the practice design of that moment, though others edit,
\* regenerate and publish meanwhile (approve_and_publish under the course lock).
THEOREM PublicationHolds == Spec => PublishedIsReviewed
<1>1. Begin => Review!Inv /\ Review!Translated
    BY ReviewInit, TranslatedInit DEF Begin
<1>2. Review!Inv /\ [Step]_vars =>
          [published' # published =>
              \E r \in Pair : /\ pc[r] \in {"publish"}
                              /\ Review!SameDesign(published', seen[r])
                              /\ published'.doc = lectureDraft.doc
                              /\ published'.source = source
                              /\ published'.practice = practice.revision]_(Review!vars)
    <2>1. CASE Review!Inv /\ Review!Next /\ published' # published
        <3>1. PICK r \in Pair : /\ pc[r] = "publish" /\ published' = Review!Snapshot
                                /\ Review!Version < MaxVersion
            BY <2>1, ReviewPublishes
        <3>2. QED
            BY <2>1, <3>1, ReviewSnapshot
    <2>2. CASE UNCHANGED CanvasPublicationVars
        BY <2>2 DEF CanvasPublicationVars
    <2>3. QED
        BY <2>1, <2>2 DEF Step, vars
<1>3. QED
    BY <1>1, <1>2, ReviewStep, PTL DEF Spec, PublishedIsReviewed, Review!PublishedAsReviewed

\* A language is published by the request that previewed it.
LEMMA ReviewShows ==
    ASSUME Review!Inv, Review!Translated, Review!Next, NEW l \in Languages, shown'[l] # shown[l]
    PROVE  \E r \in Pair : pc[r] = "declared" /\ seen[r].language = l /\ shown'[l] = seen[r].variant
<1> USE DEF Review!files, Review!languageFiles
<1>1. PICK r \in Pair : Review!PublishVariant(r)
    BY DEF Review!Next, Review!EditSources, Review!ApprovePractice, Review!Crash, Review!WriteDraft,
        Review!ReadDesign, Review!Leave, Review!UpdateDesign, Review!BeginApproval, Review!Approve,
        Review!ApprovalRefused, Review!Revert, Review!Translate, Review!Publish, Review!PublishFails,
        Review!WriteVariant, Review!Preview, Review!Declare
<1>2. /\ pc[r] = "declared" /\ seen[r].language = l /\ shown'[l] = variant[l]
    BY <1>1 DEF Review!PublishVariant, Review!Inv, Review!TypeOK
<1>3. QED
    BY <1>2 DEF Review!Translated, Review!AsPreviewed

\* The language of assessments is declared once for a publication.
LEMMA ReviewDeclares ==
    ASSUME Review!Inv, Review!Next, assessed # Nobody, published' = published, published # Nobody,
           assessed.version = published.version
    PROVE  assessed' = assessed
<1> USE DEF Review!files, Review!languageFiles
<1>1. ASSUME NEW r \in Pair, NEW a \in Languages, Review!Declare(r, a) PROVE assessed' = assessed
    <2>1. assessed \in [version : 1..MaxVersion, language : Languages]
        BY DEF Review!Inv, Review!TypeOK
    <2>2. assessed.language = a /\ assessed' = [version |-> published.version, language |-> a]
        BY <1>1 DEF Review!Declare
    <2>3. QED
        BY <2>1, <2>2
<1>2. QED
    BY <1>1 DEF Review!Next, Review!EditSources, Review!ApprovePractice, Review!Crash, Review!WriteDraft,
        Review!ReadDesign, Review!Leave, Review!UpdateDesign, Review!BeginApproval, Review!Approve,
        Review!ApprovalRefused, Review!Revert, Review!Translate, Review!Publish, Review!PublishFails,
        Review!WriteVariant, Review!Preview, Review!PublishVariant

\* Translations follow the publication: one that is shown for this publication
\* is of it and is the one that was previewed, versions rise, and the language
\* of the assessments stays (course_lecture_language_routes.py).
THEOREM TranslationsHold == Spec => VariantsFollowThePublication
<1>1. Begin => Review!Inv /\ Review!Translated
    BY ReviewInit, TranslatedInit DEF Begin
<1>2. Review!Translated => Review!VariantsTranslateThePublication
    BY DEF Review!Translated, Review!OfPublication, Review!VariantsTranslateThePublication, Review!Valid
<1>3. Review!Inv /\ [Step]_vars =>
          [published' # published => published' # Nobody /\ published'.version = Review!Version + 1]_(Review!vars)
    <2>1. CASE Review!Inv /\ Review!Next /\ published' # published
        <3>1. PICK r \in Pair : /\ pc[r] = "publish" /\ published' = Review!Snapshot
                                /\ Review!Version < MaxVersion
            BY <2>1, ReviewPublishes
        <3>2. QED
            BY <2>1, <3>1, ReviewSnapshot, ReviewConstants
    <2>2. CASE UNCHANGED CanvasPublicationVars
        BY <2>2 DEF CanvasPublicationVars
    <2>3. QED
        BY <2>1, <2>2 DEF Step, vars
<1>4. Review!Inv /\ Review!Translated /\ [Step]_vars =>
          [\A l \in Languages : shown'[l] # shown[l] =>
              \E r \in Pair : /\ pc[r] = "declared" /\ seen[r].language = l
                              /\ shown'[l] = seen[r].variant]_(Review!vars)
    <2>1. CASE Review!Inv /\ Review!Translated /\ Review!Next
        BY <2>1, ReviewShows
    <2>2. CASE UNCHANGED CanvasPublicationVars
        BY <2>2 DEF CanvasPublicationVars
    <2>3. QED
        BY <2>1, <2>2 DEF Step, vars
<1>5. Review!Inv /\ [Step]_vars =>
          [assessed # Nobody /\ published' = published /\ published # Nobody
             /\ assessed.version = published.version => assessed' = assessed]_(Review!vars)
    <2>1. CASE Review!Inv /\ Review!Next
        BY <2>1, ReviewDeclares
    <2>2. CASE UNCHANGED CanvasPublicationVars
        BY <2>2 DEF CanvasPublicationVars
    <2>3. QED
        BY <2>1, <2>2 DEF Step, vars
<1>6. QED
    BY <1>1, <1>2, <1>3, <1>4, <1>5, ReviewStep, PTL
    DEF Spec, VariantsFollowThePublication, Review!VersionsRise, Review!VariantAsPreviewed,
        Review!AssessmentLanguageStays

----------------------------------------------------------------------------
(* The learning goals of a lecture and their approval.                     *)

LEMMA GoalsConstants ==
    /\ \A content \in Contents : Supports[content] \subseteq Approvals!GoalSets
    /\ MaxApprovals \in Nat
    /\ NoDesign \notin Approvals!Designs /\ Unreadable \notin Approvals!Designs /\ NoDesign # Unreadable
    /\ DOMAIN Approvals!Pending = {}
<1>1. Supports \in [Contents -> SUBSET Approvals!GoalSets]
    BY ApprovalsAssumption DEF Approvals!GoalsAssumption, Approvals!GoalSets
<1>2. DOMAIN Approvals!Pending = {}
    BY DEF Approvals!Pending
<1>3. QED
    BY <1>1, <1>2, ApprovalsAssumption DEF Approvals!GoalsAssumption

\* What a design may be written as.
Writable(d) ==
    /\ d \in Approvals!Designs
    /\ d.tasks = Approvals!Pending \/ DOMAIN d.tasks = DOMAIN d.goals
    /\ d.fixed \subseteq DOMAIN d.tasks
BoundOf(d) == Approvals!Bound(d.rev, d.goals, d.tasks, d.fixed)

\* What is approved with a design is what an approval may hold.
LEMMA GoalsBound ==
    ASSUME NEW d, Writable(d) PROVE BoundOf(d) \in Approvals!Given
<1>1. d.rev \in Contents /\ d.goals \in Approvals!GoalSets
      /\ d.fixed \in SUBSET UNION {DOMAIN goals : goals \in Approvals!GoalSets}
      /\ d.tasks \in (UNION {[DOMAIN goals -> Pair] : goals \in Approvals!GoalSets}) \cup {Approvals!Pending}
    BY DEF Writable, Approvals!Designs
<1>2. \A p \in d.fixed : d.tasks[p] \in Pair
    BY <1>1, GoalsConstants DEF Writable
<1>3. [p \in d.fixed |-> d.tasks[p]] \in [d.fixed -> Pair]
    BY <1>2
<1>4. QED
    BY <1>1, <1>3 DEF BoundOf, Approvals!Bound, Approvals!Restrict, Approvals!Given

LEMMA GoalsStored ==
    ASSUME Approvals!Inv
    PROVE  /\ Approvals!Stored => Writable(design)
           /\ sources \in Contents
           /\ design \in Approvals!Designs \cup {NoDesign, Unreadable}
           /\ archive \subseteq Approvals!Designs \cup {Unreadable}
           /\ request \in [Pair -> Approvals!Held] /\ \A r \in Pair : Approvals!Prepared(request[r])
           /\ approvals \in Seq(Approvals!Given) /\ Len(approvals) \in 0..MaxApprovals
BY GoalsConstants DEF Approvals!Inv, Approvals!TypesInv, Approvals!TypeOK, Approvals!Stored, Writable

\* One request holds something else.
LEMMA GoalsHeld ==
    ASSUME Approvals!Inv, NEW r \in Pair, NEW held \in Approvals!Held, Approvals!Prepared(held),
           request' = [request EXCEPT ![r] = held]
    PROVE  request' \in [Pair -> Approvals!Held] /\ \A s \in Pair : Approvals!Prepared(request'[s])
BY GoalsStored

LEMMA GoalsIdle ==
    /\ Approvals!Idle \in Approvals!Held
    /\ Approvals!Prepared(Approvals!Idle)
BY DEF Approvals!Idle, Approvals!Held, Approvals!Prepared

\* A step of a request that writes nothing.
LEMMA GoalsReads ==
    ASSUME Approvals!Inv, UNCHANGED <<design, archive, approvals>>, sources' \in Contents,
           request' \in [Pair -> Approvals!Held], \A r \in Pair : Approvals!Prepared(request'[r])
    PROVE  Approvals!Inv'
<1>1. Approvals!Stored' = Approvals!Stored
    BY DEF Approvals!Stored
<1>2. Approvals!TypesInv'
    <2>1. \A r \in Pair : request'[r].seen \in Approvals!Designs \cup {NoDesign, Unreadable}
        BY DEF Approvals!Held
    <2>2. Approvals!TypeOK'
        BY <1>1, <2>1 DEF Approvals!Inv, Approvals!TypesInv, Approvals!TypeOK
    <2>3. QED
        BY <1>1, <2>2 DEF Approvals!Inv, Approvals!TypesInv
<1>3. Approvals!ApprovalMeansItsGoals' /\ Approvals!ApprovalsAreArchived'
    BY <1>1 DEF Approvals!Inv, Approvals!ApprovalMeansItsGoals, Approvals!ApprovalsAreArchived, Approvals!Approved
<1>4. QED
    BY <1>2, <1>3 DEF Approvals!Inv

LEMMA GoalsInit == Approvals!Init => Approvals!Inv
<1> SUFFICES ASSUME Approvals!Init PROVE Approvals!Inv
    OBVIOUS
<1>1. /\ sources \in Contents /\ archive = {} /\ approvals = <<>>
      /\ request = [r \in Pair |-> Approvals!Idle]
    BY DEF Approvals!Init
<1>2. approvals \in Seq(Approvals!Given) /\ Len(approvals) = 0 /\ DOMAIN approvals = {}
    BY <1>1
<1>3. Approvals!Stored => Writable(design) /\ design.approval = 0
    <2> SUFFICES ASSUME Approvals!Stored PROVE Writable(design) /\ design.approval = 0
        OBVIOUS
    <2>1. PICK goals \in Supports[sources], v \in Pair :
            design = [rev |-> sources, goals |-> goals, tasks |-> [g \in DOMAIN goals |-> v],
                      fixed |-> {}, approval |-> 0, reviewed |-> FALSE]
        BY DEF Approvals!Init, Approvals!Stored, Approvals!Migrated
    <2>2. goals \in Approvals!GoalSets
        BY <1>1, <2>1, GoalsConstants
    <2>3. [g \in DOMAIN goals |-> v] \in [DOMAIN goals -> Pair]
        BY <2>1
    <2>4. design \in Approvals!Designs
        BY <1>1, <2>1, <2>2, <2>3, GoalsConstants DEF Approvals!Designs
    <2>5. QED
        BY <2>1, <2>4 DEF Writable
<1>4. design \in Approvals!Designs \cup {NoDesign, Unreadable}
    BY <1>3 DEF Approvals!Stored, Writable
<1>5. Approvals!TypesInv
    <2>1. request \in [Pair -> Approvals!Held] /\ \A r \in Pair : Approvals!Prepared(request[r])
        BY <1>1, GoalsIdle
    <2>2. Approvals!TypeOK
        BY <1>1, <1>2, <1>3, <1>4, <2>1, GoalsConstants DEF Approvals!TypeOK, Writable, Approvals!Held
    <2>3. QED
        BY <1>2, <1>3, <2>1, <2>2 DEF Approvals!TypesInv
<1>6. Approvals!ApprovalMeansItsGoals /\ Approvals!ApprovalsAreArchived
    BY <1>2, <1>3 DEF Approvals!ApprovalMeansItsGoals, Approvals!ApprovalsAreArchived, Approvals!Approved
<1>7. QED
    BY <1>5, <1>6 DEF Approvals!Inv

\* A design is written: not approved, with the approval it had, or with a new
\* one; the one before it is archived.
LEMMA GoalsWrite ==
    ASSUME Approvals!Inv, NEW d, Writable(d), Approvals!WriteDesign(d), UNCHANGED sources,
           NEW r \in Pair, Approvals!Finish(r),
           \/ UNCHANGED approvals /\ d.approval = 0
           \/ /\ UNCHANGED approvals
              /\ Approvals!Stored /\ d.approval = design.approval /\ BoundOf(d) = BoundOf(design)
           \/ /\ Len(approvals) < MaxApprovals /\ approvals' = Append(approvals, BoundOf(d))
              /\ d.approval = Len(approvals) + 1
    PROVE  Approvals!Inv'
<1>1. /\ design' = d /\ archive' = IF design = NoDesign THEN archive ELSE archive \cup {design}
      /\ request' = [request EXCEPT ![r] = Approvals!Idle]
    BY DEF Approvals!WriteDesign, Approvals!Finish
<1>2. /\ request' \in [Pair -> Approvals!Held] /\ \A s \in Pair : Approvals!Prepared(request'[s])
    BY <1>1, GoalsHeld, GoalsIdle
<1>3. d # NoDesign /\ d # Unreadable /\ d \in Approvals!Designs /\ Approvals!Stored'
    BY <1>1, GoalsConstants DEF Writable, Approvals!Stored
<1>4. /\ approvals' \in Seq(Approvals!Given) /\ Len(approvals') \in 0..MaxApprovals
      /\ d.approval \in 0..Len(approvals') /\ Len(approvals') >= Len(approvals)
      /\ \A n \in DOMAIN approvals : approvals'[n] = approvals[n]
      /\ \A n \in DOMAIN approvals' : n \in DOMAIN approvals \/ (n = d.approval /\ approvals'[n] = BoundOf(d))
      /\ d.approval # 0 => BoundOf(d) = approvals'[d.approval]
    <2>1. approvals \in Seq(Approvals!Given) /\ Len(approvals) \in 0..MaxApprovals
        BY GoalsStored
    <2>2. CASE UNCHANGED approvals /\ d.approval = 0
        BY <2>1, <2>2
    <2>3. CASE /\ UNCHANGED approvals
               /\ Approvals!Stored /\ d.approval = design.approval /\ BoundOf(d) = BoundOf(design)
        BY <2>1, <2>3 DEF Approvals!Inv, Approvals!TypesInv, Approvals!ApprovalMeansItsGoals,
            Approvals!Approved, BoundOf
    <2>4. CASE /\ Len(approvals) < MaxApprovals /\ approvals' = Append(approvals, BoundOf(d))
               /\ d.approval = Len(approvals) + 1
        BY <2>1, <2>4, GoalsBound, GoalsConstants
    <2>5. QED
        BY <2>2, <2>3, <2>4
<1>5. Approvals!TypesInv'
    <2>1. archive' \subseteq Approvals!Designs \cup {Unreadable}
        BY <1>1, GoalsStored
    <2>2. \A s \in Pair : request'[s].seen \in Approvals!Designs \cup {NoDesign, Unreadable}
        BY <1>2 DEF Approvals!Held
    <2>3. Approvals!TypeOK'
        BY <1>1, <1>3, <1>4, <2>1, <2>2, GoalsStored DEF Approvals!TypeOK, Writable
    <2>4. QED
        BY <1>1, <1>2, <1>4, <2>3 DEF Approvals!TypesInv
<1>6. Approvals!ApprovalMeansItsGoals'
    BY <1>1, <1>4 DEF Approvals!ApprovalMeansItsGoals, Approvals!Approved, BoundOf
<1>7. Approvals!ApprovalsAreArchived'
    <2> SUFFICES ASSUME NEW n \in DOMAIN approvals'
                 PROVE  \E e \in (archive' \cup {design'}) \ {NoDesign, Unreadable} :
                            e.approval = n /\ BoundOf(e) = approvals'[n]
        BY DEF Approvals!ApprovalsAreArchived, BoundOf
    <2>1. CASE n \in DOMAIN approvals
        <3>1. PICK e \in (archive \cup {design}) \ {NoDesign, Unreadable} :
                e.approval = n /\ BoundOf(e) = approvals[n]
            BY <2>1 DEF Approvals!Inv, Approvals!ApprovalsAreArchived, BoundOf
        <3>2. e \in archive'
            BY <1>1, <3>1
        <3>3. QED
            BY <1>4, <2>1, <3>1, <3>2
    <2>2. CASE n = d.approval /\ approvals'[n] = BoundOf(d)
        BY <1>1, <1>3, <2>2
    <2>3. QED
        BY <1>4, <2>1, <2>2
<1>8. QED
    BY <1>5, <1>6, <1>7 DEF Approvals!Inv

\* A request begins, goes on without a lock, or is refused; the sources change.
LEMMA GoalsRequests ==
    ASSUME Approvals!Inv, NEW r \in Pair,
           \/ Approvals!StartProposal(r) \/ Approvals!StartEdit(r) \/ Approvals!StartApproval(r)
           \/ Approvals!StartKeep(r) \/ Approvals!StartRepair(r)
           \/ Approvals!SelectSources(r) \/ Approvals!Parse(r) \/ Approvals!ConfirmSelection(r)
           \/ Approvals!ReadRevision(r) \/ Approvals!Refuse(r)
    PROVE  Approvals!Inv'
<1>1. /\ UNCHANGED <<sources, design, archive, approvals>>
      /\ request[r] \in Approvals!Held /\ Approvals!Prepared(request[r]) /\ sources \in Contents
    BY GoalsStored DEF Approvals!StartProposal, Approvals!StartEdit, Approvals!StartApproval,
        Approvals!StartKeep, Approvals!StartRepair, Approvals!Begin, Approvals!SelectSources,
        Approvals!Parse, Approvals!ConfirmSelection, Approvals!ReadRevision, Approvals!Step, Approvals!Refuse
<1>2. ASSUME NEW kind \in {"propose", "edit", "keep"}, Approvals!Begin(r, kind, "select")
      PROVE  Approvals!Inv'
    <2>1. /\ [Approvals!Idle EXCEPT !.kind = kind, !.at = "select", !.seen = design] \in Approvals!Held
          /\ Approvals!Prepared([Approvals!Idle EXCEPT !.kind = kind, !.at = "select", !.seen = design])
        BY GoalsStored DEF Approvals!Idle, Approvals!Held, Approvals!Prepared
    <2>2. QED
        BY <1>1, <1>2, <2>1, GoalsHeld, GoalsReads DEF Approvals!Begin
<1>3. ASSUME NEW kind \in {"approve", "repair"}, Approvals!Begin(r, kind, "save"), Approvals!Stored
      PROVE  Approvals!Inv'
    <2>1. /\ [Approvals!Idle EXCEPT !.kind = kind, !.at = "save", !.seen = design] \in Approvals!Held
          /\ Approvals!Prepared([Approvals!Idle EXCEPT !.kind = kind, !.at = "save", !.seen = design])
        BY <1>3, GoalsStored DEF Writable, Approvals!Idle, Approvals!Held, Approvals!Prepared
    <2>2. QED
        BY <1>1, <1>3, <2>1, GoalsHeld, GoalsReads DEF Approvals!Begin
<1>4. CASE Approvals!SelectSources(r)
    <2>1. /\ [request[r] EXCEPT !.at = "parse", !.rev = sources] \in Approvals!Held
          /\ Approvals!Prepared([request[r] EXCEPT !.at = "parse", !.rev = sources])
        BY <1>1 DEF Approvals!Held, Approvals!Prepared
    <2>2. QED
        BY <1>1, <1>4, <2>1, GoalsHeld, GoalsReads DEF Approvals!SelectSources, Approvals!Step
<1>5. CASE Approvals!Parse(r)
    <2>1. /\ [request[r] EXCEPT !.at = "confirm", !.doc = sources] \in Approvals!Held
          /\ Approvals!Prepared([request[r] EXCEPT !.at = "confirm", !.doc = sources])
        BY <1>1 DEF Approvals!Held, Approvals!Prepared
    <2>2. QED
        BY <1>1, <1>5, <2>1, GoalsHeld, GoalsReads DEF Approvals!Parse, Approvals!Step
<1>6. CASE Approvals!ConfirmSelection(r)
    <2>1. /\ [request[r] EXCEPT !.at = "revision"] \in Approvals!Held
          /\ Approvals!Prepared([request[r] EXCEPT !.at = "revision"])
        BY <1>1, <1>6 DEF Approvals!Held, Approvals!Prepared, Approvals!ConfirmSelection, Approvals!Step
    <2>2. QED
        BY <1>1, <1>6, <2>1, GoalsHeld, GoalsReads DEF Approvals!ConfirmSelection, Approvals!Step
<1>7. CASE Approvals!ReadRevision(r)
    <2>1. /\ [request[r] EXCEPT !.at = "save", !.rev = sources] \in Approvals!Held
          /\ Approvals!Prepared([request[r] EXCEPT !.at = "save", !.rev = sources])
        BY <1>1, <1>7 DEF Approvals!Held, Approvals!Prepared, Approvals!ReadRevision, Approvals!Step
    <2>2. QED
        BY <1>1, <1>7, <2>1, GoalsHeld, GoalsReads DEF Approvals!ReadRevision, Approvals!Step
<1>8. CASE Approvals!Refuse(r)
    BY <1>1, <1>8, GoalsIdle, GoalsHeld, GoalsReads DEF Approvals!Refuse, Approvals!Finish
<1>9. QED
    BY <1>2, <1>3, <1>4, <1>5, <1>6, <1>7, <1>8 DEF Approvals!StartProposal, Approvals!StartEdit,
        Approvals!StartApproval, Approvals!StartKeep, Approvals!StartRepair

\* A proposal keeps the tasks of goals that have them, and is not approved.
LEMMA GoalsProposed ==
    ASSUME Approvals!Inv, NEW rev \in Contents, NEW content \in Contents, NEW goals \in Supports[content]
    PROVE  /\ Writable(Approvals!Proposed(rev, goals, design))
           /\ Approvals!Proposed(rev, goals, design).approval = 0
<1> DEFINE keeps == /\ design \notin {NoDesign, Unreadable}
                   /\ design.rev = rev /\ design.tasks # Approvals!Pending
                   /\ DOMAIN goals \subseteq DOMAIN design.tasks
           tasks == IF keeps THEN Approvals!Restrict(design.tasks, DOMAIN goals) ELSE Approvals!Pending
           fixed == IF keeps THEN design.fixed \cap DOMAIN goals ELSE {}
<1>1. Approvals!Proposed(rev, goals, design) =
          [rev |-> rev, goals |-> goals, tasks |-> tasks, fixed |-> fixed, approval |-> 0, reviewed |-> FALSE]
    BY DEF Approvals!Proposed
<1>2. goals \in Approvals!GoalSets /\ 0 \in 0..MaxApprovals
    BY GoalsConstants
<1>3. keeps => /\ tasks \in [DOMAIN goals -> Pair] /\ DOMAIN tasks = DOMAIN goals
    <2> SUFFICES ASSUME keeps PROVE tasks \in [DOMAIN goals -> Pair]
        OBVIOUS
    <2>1. Writable(design) /\ design \in Approvals!Designs
        BY GoalsStored DEF Approvals!Stored, Writable
    <2>2. PICK before_goals \in Approvals!GoalSets : design.tasks \in [DOMAIN before_goals -> Pair]
        BY <2>1 DEF Approvals!Designs
    <2>3. \A g \in DOMAIN goals : design.tasks[g] \in Pair
        BY <2>2
    <2>4. [g \in DOMAIN goals |-> design.tasks[g]] \in [DOMAIN goals -> Pair]
        BY <2>3
    <2>5. QED
        BY <2>4 DEF Approvals!Restrict
<1>4. ~keeps => tasks = Approvals!Pending /\ fixed = {}
    OBVIOUS
<1>5. fixed \subseteq DOMAIN goals /\ fixed \subseteq DOMAIN tasks
    BY <1>3, <1>4, GoalsConstants
<1>6. fixed \in SUBSET UNION {DOMAIN other : other \in Approvals!GoalSets}
    BY <1>2, <1>5
<1>7. tasks \in (UNION {[DOMAIN other -> Pair] : other \in Approvals!GoalSets}) \cup {Approvals!Pending}
    BY <1>2, <1>3, <1>4
<1> HIDE DEF keeps, tasks, fixed
<1>8. Approvals!Proposed(rev, goals, design) \in Approvals!Designs
    BY <1>1, <1>2, <1>6, <1>7 DEF Approvals!Designs
<1>9. QED
    BY <1>1, <1>3, <1>4, <1>5, <1>8 DEF Writable

\* What a request is about is the design that it replaces.
LEMMA GoalsSaves ==
    ASSUME Approvals!Inv, NEW r \in Pair,
           \/ Approvals!SaveProposal(r) \/ Approvals!SaveEdit(r) \/ Approvals!SaveApproval(r)
           \/ Approvals!SaveKeep(r) \/ Approvals!SaveRepair(r)
    PROVE  /\ Approvals!Inv' /\ request[r].at = "save" /\ request'[r] = Approvals!Idle
           /\ Approvals!Revision(request[r].seen) = Approvals!Revision(design)
<1>1. /\ UNCHANGED sources /\ Approvals!Finish(r) /\ request[r].at = "save"
      /\ request[r].kind \in {"propose", "edit", "approve", "keep", "repair"}
      /\ request[r].kind \in {"propose", "edit", "keep"} => request[r].doc \in Contents
    BY GoalsStored DEF Approvals!SaveProposal, Approvals!SaveEdit, Approvals!SaveApproval, Approvals!SaveKeep,
        Approvals!SaveRepair, Approvals!Saving, Approvals!Prepared
<1>2. request'[r] = Approvals!Idle
    BY <1>1, GoalsStored DEF Approvals!Finish
<1>3. CASE Approvals!SaveProposal(r)
    <2>1. /\ request[r].doc \in Contents /\ request[r].rev \in Contents
          /\ design = request[r].seen /\ UNCHANGED approvals
        BY <1>1, <1>3, GoalsStored DEF Approvals!SaveProposal, Approvals!Saving, Approvals!NotApproved
    <2>2. PICK goals \in Supports[request[r].doc] :
            Approvals!WriteDesign(Approvals!Proposed(request[r].rev, goals, design))
        BY <1>3 DEF Approvals!SaveProposal
    <2>3. QED
        BY <1>1, <1>2, <2>1, <2>2, GoalsProposed, GoalsWrite
<1>4. CASE Approvals!SaveEdit(r)
    <2>1. /\ request[r].doc \in Contents /\ request[r].rev \in Contents
          /\ Approvals!Revision(design) = Approvals!Revision(request[r].seen) /\ UNCHANGED approvals
        BY <1>1, <1>4, GoalsStored DEF Approvals!SaveEdit, Approvals!Saving, Approvals!NotApproved
    <2>2. PICK goals \in Supports[request[r].doc] :
            Approvals!WriteDesign(Approvals!Proposed(request[r].rev, goals, design))
        BY <1>4 DEF Approvals!SaveEdit
    <2>3. QED
        BY <1>1, <1>2, <2>1, <2>2, GoalsProposed, GoalsWrite
<1>5. CASE Approvals!SaveApproval(r)
    <2>1. /\ Approvals!Stored /\ Writable(design) /\ design \in Approvals!Designs
          /\ Approvals!Revision(design) = Approvals!Revision(request[r].seen)
        BY <1>5, GoalsStored DEF Approvals!SaveApproval, Writable
    <2>2. PICK fixed \in SUBSET DOMAIN design.tasks :
            /\ Approvals!Approve(Approvals!Bound(request[r].seen.rev, request[r].seen.goals,
                                                 request[r].seen.tasks, fixed))
            /\ Approvals!WriteDesign([design EXCEPT !.fixed = fixed, !.approval = Len(approvals) + 1])
        BY <1>5 DEF Approvals!SaveApproval
    <2>3. /\ request[r].seen.rev = design.rev /\ request[r].seen.goals = design.goals
          /\ request[r].seen.tasks = design.tasks
        BY <2>1 DEF Approvals!Revision
    <2>4. Len(approvals) < MaxApprovals /\ Len(approvals) + 1 \in 0..MaxApprovals
        BY <2>2, GoalsStored, GoalsConstants DEF Approvals!Approve
    <2> DEFINE d == [design EXCEPT !.fixed = fixed, !.approval = Len(approvals) + 1]
    <2>5. fixed \in SUBSET UNION {DOMAIN goals : goals \in Approvals!GoalSets}
        <3>1. design.goals \in Approvals!GoalSets /\ fixed \subseteq DOMAIN design.tasks
            BY <2>1, <2>2 DEF Approvals!Designs
        <3>2. fixed \subseteq DOMAIN design.goals
            BY <2>1, <3>1, GoalsConstants DEF Writable
        <3>3. QED
            BY <3>1, <3>2
    <2>6. /\ d \in Approvals!Designs /\ d.fixed = fixed /\ d.approval = Len(approvals) + 1
          /\ d.rev = design.rev /\ d.goals = design.goals /\ d.tasks = design.tasks
        BY <2>1, <2>4, <2>5 DEF Approvals!Designs
    <2> HIDE DEF d
    <2>7. Writable(d)
        BY <2>1, <2>2, <2>6 DEF Writable
    <2>8. approvals' = Append(approvals, BoundOf(d))
        BY <2>2, <2>3, <2>6 DEF Approvals!Approve, BoundOf
    <2>9. Approvals!WriteDesign(d)
        BY <2>2 DEF d
    <2>10. QED
        BY <1>1, <1>2, <2>1, <2>4, <2>6, <2>7, <2>8, <2>9, GoalsWrite
<1>6. CASE Approvals!SaveKeep(r)
    <2>1. /\ Approvals!Stored /\ Writable(design) /\ design \in Approvals!Designs /\ sources \in Contents
          /\ design = request[r].seen
          /\ Approvals!Approve(Approvals!Bound(sources, design.goals, design.tasks, design.fixed))
          /\ Approvals!WriteDesign(Approvals!Kept(design, sources))
        BY <1>6, GoalsStored DEF Approvals!SaveKeep, Approvals!Keepable, Writable
    <2>2. Len(approvals) < MaxApprovals /\ Len(approvals) + 1 \in 0..MaxApprovals
        BY <2>1, GoalsStored, GoalsConstants DEF Approvals!Approve
    <2> DEFINE d == Approvals!Kept(design, sources)
    <2>3. /\ d.rev = sources /\ d.goals = design.goals /\ d.fixed = design.fixed
          /\ d.approval = Len(approvals) + 1
          /\ d.tasks = IF design.fixed = {} THEN Approvals!Pending ELSE design.tasks
        BY <2>1 DEF Approvals!Kept, Approvals!Designs
    <2>4. d \in Approvals!Designs
        BY <2>1, <2>2 DEF Approvals!Kept, Approvals!Designs
    <2> HIDE DEF d
    <2>5. Writable(d)
        BY <2>1, <2>3, <2>4 DEF Writable
    <2>6. Approvals!Restrict(d.tasks, d.fixed) = Approvals!Restrict(design.tasks, design.fixed)
        BY <2>3 DEF Approvals!Restrict
    <2>7. approvals' = Append(approvals, BoundOf(d))
        BY <2>1, <2>3, <2>6 DEF Approvals!Approve, BoundOf, Approvals!Bound
    <2>8. Approvals!WriteDesign(d)
        BY <2>1 DEF d
    <2>9. QED
        BY <1>1, <1>2, <2>1, <2>2, <2>3, <2>5, <2>7, <2>8, GoalsWrite
<1>7. CASE Approvals!SaveRepair(r)
    <2>1. design = request[r].seen /\ UNCHANGED approvals
        BY <1>7 DEF Approvals!SaveRepair, Approvals!NotApproved
    <2>2. PICK tasks \in Approvals!Repairs(design) :
            Approvals!WriteDesign([design EXCEPT !.tasks = tasks, !.reviewed = TRUE])
        BY <1>7, <2>1 DEF Approvals!SaveRepair
    <2>3. Approvals!Stored /\ Writable(design) /\ design \in Approvals!Designs
        BY <1>7, <2>1, GoalsStored, GoalsConstants
        DEF Approvals!SaveRepair, Approvals!Saving, Approvals!Prepared, Approvals!Stored, Writable
    <2>4. tasks \in [DOMAIN design.goals -> Pair] /\ \A g \in design.fixed : tasks[g] = design.tasks[g]
        BY <2>2 DEF Approvals!Repairs
    <2> DEFINE d == [design EXCEPT !.tasks = tasks, !.reviewed = TRUE]
    <2>5. /\ d.rev = design.rev /\ d.goals = design.goals /\ d.fixed = design.fixed
          /\ d.approval = design.approval /\ d.tasks = tasks
        BY <2>3 DEF Approvals!Designs
    <2>6. d \in Approvals!Designs
        BY <2>3, <2>4 DEF Approvals!Designs
    <2> HIDE DEF d
    <2>7. Writable(d)
        BY <2>3, <2>4, <2>5, <2>6, GoalsConstants DEF Writable
    <2>8. Approvals!Restrict(d.tasks, d.fixed) = Approvals!Restrict(design.tasks, design.fixed)
        BY <2>4, <2>5 DEF Approvals!Restrict
    <2>9. BoundOf(d) = BoundOf(design)
        BY <2>5, <2>8 DEF BoundOf, Approvals!Bound
    <2>10. Approvals!WriteDesign(d)
        BY <2>2 DEF d
    <2>11. QED
        BY <1>1, <1>2, <2>1, <2>3, <2>5, <2>7, <2>9, <2>10, GoalsWrite
<1>8. QED
    BY <1>3, <1>4, <1>5, <1>6, <1>7

LEMMA GoalsNext ==
    ASSUME Approvals!Inv, Approvals!Next
    PROVE  /\ Approvals!Inv'
           /\ design' # design => \E r \in Pair :
                 /\ request[r].at = "save" /\ request'[r] = Approvals!Idle
                 /\ Approvals!Revision(request[r].seen) = Approvals!Revision(design)
<1>1. CASE Approvals!ChangeSources
    <2>1. /\ UNCHANGED <<design, archive, request, approvals>> /\ sources' \in Contents
        BY <1>1 DEF Approvals!ChangeSources
    <2>2. QED
        BY <2>1, GoalsReads, GoalsStored
<1>2. CASE \E r \in Pair :
               \/ Approvals!StartProposal(r) \/ Approvals!StartEdit(r) \/ Approvals!StartApproval(r)
               \/ Approvals!StartKeep(r) \/ Approvals!StartRepair(r)
               \/ Approvals!SelectSources(r) \/ Approvals!Parse(r) \/ Approvals!ConfirmSelection(r)
               \/ Approvals!ReadRevision(r) \/ Approvals!Refuse(r)
    <2>1. UNCHANGED design
        BY <1>2 DEF Approvals!StartProposal, Approvals!StartEdit, Approvals!StartApproval,
            Approvals!StartKeep, Approvals!StartRepair, Approvals!Begin, Approvals!SelectSources,
            Approvals!Parse, Approvals!ConfirmSelection, Approvals!ReadRevision, Approvals!Step,
            Approvals!Refuse
    <2>2. QED
        BY <1>2, <2>1, GoalsRequests
<1>3. CASE \E r \in Pair :
               \/ Approvals!SaveProposal(r) \/ Approvals!SaveEdit(r) \/ Approvals!SaveApproval(r)
               \/ Approvals!SaveKeep(r) \/ Approvals!SaveRepair(r)
    BY <1>3, GoalsSaves
<1>4. QED
    BY <1>1, <1>2, <1>3 DEF Approvals!Next

LEMMA GoalsStep == Approvals!Inv /\ [Step]_vars => Approvals!Inv'
<1> SUFFICES ASSUME Approvals!Inv, [Step]_vars PROVE Approvals!Inv'
    OBVIOUS
<1>1. CASE Approvals!Next
    BY <1>1, GoalsNext
<1>2. CASE UNCHANGED LearningGoalsVars
    BY <1>2, GoalsReads, GoalsStored DEF LearningGoalsVars
<1>3. QED
    BY <1>1, <1>2 DEF Step, vars

\* However requests for a lecture's goals overlap, with each other and with
\* changes of its sources: an approval stands for the goals and the fixed tasks
\* that were approved, each one given is kept, and an approved design is replaced
\* only by a request that was about it (learning_goal_routes.py,
\* practice_design_store.py).
THEOREM GoalsHold == Spec => ApprovalsAreKnowing
<1>1. Begin => Approvals!Inv
    BY GoalsInit DEF Begin
<1>2. Approvals!Inv => /\ Approvals!TypeOK /\ Approvals!ApprovalMeansItsGoals
                       /\ Approvals!ApprovalsAreArchived
    BY DEF Approvals!Inv, Approvals!TypesInv
<1>3. Approvals!Inv /\ [Step]_vars =>
          [Approvals!Stored /\ Approvals!Approved(design) /\ design' # design =>
               \E r \in Pair :
                   /\ request[r].at = "save" /\ request'[r] = Approvals!Idle
                   /\ Approvals!Revision(request[r].seen) = Approvals!Revision(design)]_(Approvals!vars)
    <2>1. CASE Approvals!Inv /\ Approvals!Next
        BY <2>1, GoalsNext
    <2>2. CASE UNCHANGED LearningGoalsVars
        BY <2>2 DEF LearningGoalsVars
    <2>3. QED
        BY <2>1, <2>2 DEF Step, vars
<1>4. QED
    BY <1>1, <1>2, <1>3, GoalsStep, PTL
    DEF Spec, ApprovalsAreKnowing, Approvals!ApprovedIsReplacedKnowingly

----------------------------------------------------------------------------
(* The teaching tasks of a set of goals.                                   *)

LEMMA TeachingCounts ==
    ASSUME NEW S
    PROVE  Teaching!Cardinality(S) = Cardinality(S) /\ Teaching!IsFiniteSet(S) = IsFiniteSet(S)
BY DEF Cardinality, Teaching!Cardinality, IsFiniteSet, Teaching!IsFiniteSet

LEMMA TeachingConstants ==
    /\ Fixed \subseteq Goals /\ Concurrency \in Nat \ {0} /\ Attempts \in Nat \ {0}
    /\ Nothing \notin Teaching!Reviews /\ \A goals \in SUBSET Goals : goals # Nothing
BY TeachingAssumption DEF Teaching!JobAssumption

\* A batch as it is entered calls nobody.
LEMMA TeachingEnter ==
    ASSUME NEW next, NEW goals \in SUBSET (Goals \ Fixed), Teaching!Enter(next, goals)
    PROVE  /\ teachingPhase' = next /\ teachingBatch' = Teaching!Batch(goals)
           /\ teachingBatch'.todo = goals /\ teachingBatch'.called = {} /\ teachingBatch'.written = {}
           /\ teachingBatch' \in [todo : SUBSET (Goals \ Fixed), called : SUBSET (Goals \ Fixed),
                                  written : SUBSET (Goals \ Fixed)]
           /\ goals = {} <=> Teaching!Finished'
           /\ Teaching!IsFiniteSet({}) /\ Teaching!Cardinality({}) = 0 /\ warm' \in BOOLEAN
BY FS_EmptySet, TeachingCounts, TeachingConstants DEF Teaching!Enter, Teaching!Batch, Teaching!Finished

LEMMA TeachingInit == Teaching!Init => Teaching!Inv
<1> SUFFICES ASSUME Teaching!Init PROVE Teaching!Inv
    OBVIOUS
<1>1. /\ progress = [flagged |-> Nothing, repaired |-> {}] /\ teachingPhase = "idle"
      /\ teachingBatch = Teaching!Batch({}) /\ warm = TRUE /\ attempt = 0
    BY DEF Teaching!Init, Teaching!InitProposed, Teaching!InitAdopted
<1>2. /\ target \in [Goals -> Nat] /\ \A g \in Fixed : target[g] > 0
      /\ teachingReview # Nothing => /\ teachingReview \in Teaching!Reviews /\ teachingReview.of = target
                                     /\ \A g \in Goals : target[g] > 0
    <2>1. CASE Teaching!InitProposed
        BY <2>1, TeachingConstants DEF Teaching!InitProposed
    <2>2. CASE Teaching!InitAdopted
        <3>1. target \in [Goals -> Nat] /\ \A g \in Goals : target[g] = 1
            BY <2>2 DEF Teaching!InitAdopted
        <3>2. teachingReview \in Teaching!Reviews /\ teachingReview.of = target
            BY <2>2, <3>1 DEF Teaching!InitAdopted, Teaching!Reviews
        <3>3. QED
            BY <3>1, <3>2, TeachingConstants
    <2>3. QED
        BY <2>1, <2>2 DEF Teaching!Init
<1>3. Teaching!TypesInv
    <2>1. /\ teachingBatch = [todo |-> {}, called |-> {}, written |-> {}]
          /\ Teaching!IsFiniteSet({}) /\ Teaching!Cardinality({}) = 0
          /\ 0 \in 0..Attempts /\ Concurrency \in Nat
        BY <1>1, TeachingConstants, TeachingCounts, FS_EmptySet DEF Teaching!Batch
    <2>2. Teaching!TypeOK
        BY <1>1, <1>2, <2>1 DEF Teaching!TypeOK
    <2>3. /\ teachingBatch \in [todo : SUBSET (Goals \ Fixed), called : SUBSET (Goals \ Fixed),
                               written : SUBSET (Goals \ Fixed)]
          /\ progress \in [flagged : (SUBSET (Goals \ Fixed)) \cup {Nothing}, repaired : SUBSET Goals]
        BY <1>1, <2>1
    <2>4. QED
        BY <1>1, <1>2, <2>1, <2>2, <2>3 DEF Teaching!TypesInv
<1>4. Teaching!PhaseInv
    BY <1>1, <1>2 DEF Teaching!PhaseInv, Teaching!Missing, Teaching!Finished
<1>5. Teaching!ReviewInv
    BY <1>1, <1>2 DEF Teaching!ReviewInv, Teaching!Batch
<1>6. QED
    BY <1>3, <1>4, <1>5 DEF Teaching!Inv

\* Entering a phase with the batch it is for.
LEMMA TeachingEnters ==
    ASSUME Teaching!Inv, UNCHANGED <<target, teachingReview, progress>>, attempt' \in 0..Attempts,
           NEW next \in {"idle", "write", "review", "save", "repair"},
           NEW goals \in SUBSET (Goals \ Fixed), Teaching!Enter(next, goals),
           next \notin {"write", "repair"} => goals = {},
           next = "write" => goals = Teaching!Missing,
           next \notin {"idle", "write"} => Teaching!Missing = {},
           next = "review" => progress.flagged = Nothing,
           next \in {"save", "repair"} => progress.flagged # Nothing,
           next = "repair" => goals = Teaching!Pending
    PROVE  Teaching!Inv'
<1>1. /\ teachingPhase' = next /\ teachingBatch'.todo = goals /\ teachingBatch'.called = {}
      /\ teachingBatch'.written = {} /\ (goals = {} <=> Teaching!Finished')
      /\ Teaching!Missing' = Teaching!Missing /\ Teaching!Pending' = Teaching!Pending
    BY TeachingEnter DEF Teaching!Missing, Teaching!Pending
<1>2. Teaching!TypesInv'
    <2>1. Teaching!TypeOK'
        BY <1>1, TeachingEnter, TeachingConstants DEF Teaching!Inv, Teaching!TypesInv, Teaching!TypeOK
    <2>2. /\ teachingBatch' \in [todo : SUBSET (Goals \ Fixed), called : SUBSET (Goals \ Fixed),
                               written : SUBSET (Goals \ Fixed)]
          /\ Teaching!IsFiniteSet(teachingBatch'.called) /\ warm' \in BOOLEAN
        BY TeachingEnter
    <2>3. QED
        BY <1>1, <2>1, <2>2 DEF Teaching!Inv, Teaching!TypesInv
<1>3. Teaching!PhaseInv'
    <2>1. /\ next \notin {"write", "repair"} => Teaching!Finished'
          /\ next \notin {"idle", "write"} => Teaching!Missing' = {}
        BY <1>1
    <2>7. next = "write" => Teaching!Missing' \subseteq teachingBatch'.todo
        BY <1>1
    <2>8. next = "repair" => teachingBatch'.todo \cup teachingBatch'.called = Teaching!Pending'
        BY <1>1
    <2>2. teachingReview # Nothing => Teaching!Missing' = {}
        BY <1>1 DEF Teaching!Inv, Teaching!PhaseInv
    <2>3. next = "write" /\ teachingReview # Nothing => Teaching!Finished'
        BY <1>1, <2>2
    <2>4. progress.flagged # Nothing => teachingReview # Nothing
        BY DEF Teaching!Inv, Teaching!PhaseInv
    <2>5. QED
        BY <1>1, <2>1, <2>7, <2>8, <2>2, <2>3, <2>4 DEF Teaching!PhaseInv
<1>4. Teaching!ReviewInv'
    BY <1>1 DEF Teaching!Inv, Teaching!ReviewInv
<1>5. QED
    BY <1>2, <1>3, <1>4 DEF Teaching!Inv

\* An attempt begins or ends, and its batch is finished.
LEMMA TeachingTurn ==
    ASSUME Teaching!Inv,
           \/ Teaching!Begin \/ Teaching!Written \/ Teaching!Repair \/ Teaching!Complete
           \/ Teaching!Fail \/ Teaching!Restart
    PROVE  Teaching!Inv'
<1>1. UNCHANGED <<target, teachingReview, progress>> /\ attempt \in 0..Attempts
    BY DEF Teaching!Inv, Teaching!TypesInv, Teaching!TypeOK, Teaching!Begin, Teaching!Written, Teaching!Repair,
        Teaching!Complete, Teaching!Fail, Teaching!Restart
<1>2. Teaching!Missing \subseteq Goals \ Fixed
    BY TeachingConstants DEF Teaching!Inv, Teaching!TypesInv, Teaching!Missing
<1>3. progress.flagged # Nothing => Teaching!Pending \subseteq Goals \ Fixed
    <2>1. progress.flagged \in (SUBSET (Goals \ Fixed)) \cup {Nothing}
        BY DEF Teaching!Inv, Teaching!TypesInv
    <2>2. QED
        BY <2>1 DEF Teaching!Pending
<1>4. Attempts \in Nat /\ 0 \in 0..Attempts /\ Attempts \in 0..Attempts
    BY TeachingConstants
<1>5. CASE Teaching!Begin
    <2>1. Teaching!Enter("write", Teaching!Missing) /\ attempt' \in 0..Attempts
        BY <1>1, <1>4, <1>5 DEF Teaching!Begin
    <2>2. QED
        BY <1>1, <1>2, <2>1, TeachingEnters
<1>6. CASE Teaching!Written
    <2>1. Teaching!Missing = {} /\ attempt' = attempt
        BY <1>6 DEF Teaching!Inv, Teaching!PhaseInv, Teaching!Written, Teaching!Finished, Teaching!Batch
    <2>2. PICK next \in {"review", "save"} :
            Teaching!Enter(next, {}) /\ (next = "review" <=> progress.flagged = Nothing)
        BY <1>6 DEF Teaching!Written
    <2>3. QED
        BY <1>1, <2>1, <2>2, TeachingEnters
<1>7. CASE Teaching!Repair
    <2>1. /\ Teaching!Enter("repair", Teaching!Pending) /\ attempt' = attempt
          /\ progress.flagged # Nothing /\ Teaching!Missing = {}
        BY <1>7 DEF Teaching!Repair, Teaching!Inv, Teaching!PhaseInv
    <2>2. QED
        BY <1>1, <1>3, <2>1, TeachingEnters
<1>8. CASE Teaching!Complete
    <2>1. /\ teachingPhase = "repair" /\ teachingPhase' = "done" /\ teachingBatch' = teachingBatch
          /\ teachingBatch = Teaching!Batch({}) /\ warm' = warm /\ attempt' = attempt
        BY <1>8 DEF Teaching!Complete, Teaching!Finished
    <2>2. Teaching!Missing' = Teaching!Missing /\ Teaching!Pending' = Teaching!Pending /\ Teaching!Finished'
        BY <1>1, <2>1 DEF Teaching!Missing, Teaching!Pending, Teaching!Finished
    <2>3. Teaching!TypesInv' /\ Teaching!ReviewInv'
        BY <1>1, <2>1 DEF Teaching!Inv, Teaching!TypesInv, Teaching!TypeOK, Teaching!ReviewInv
    <2>4. Teaching!Pending = {}
        BY <2>1 DEF Teaching!Inv, Teaching!PhaseInv, Teaching!Batch
    <2>5. Teaching!PhaseInv'
        BY <1>1, <2>1, <2>2, <2>4 DEF Teaching!Inv, Teaching!PhaseInv
    <2>6. QED
        BY <2>3, <2>5 DEF Teaching!Inv
<1>9. CASE Teaching!Fail \/ Teaching!Restart
    <2>1. Teaching!Enter("idle", {}) /\ attempt' \in 0..Attempts
        BY <1>1, <1>4, <1>9 DEF Teaching!Fail, Teaching!Restart
    <2>2. QED
        BY <1>1, <2>1, TeachingEnters
<1>10. QED
    BY <1>5, <1>6, <1>7, <1>8, <1>9

\* A model call takes a place, and its batch is the one that was begun.
LEMMA TeachingCall ==
    ASSUME Teaching!Inv, NEW g \in Goals, Teaching!Call(g)
    PROVE  Teaching!Inv'
<1>1. /\ UNCHANGED <<target, teachingReview, progress, teachingPhase, warm, attempt>>
      /\ teachingPhase \in {"write", "repair"} /\ g \in teachingBatch.todo
      /\ Teaching!Cardinality(teachingBatch.called) < IF warm THEN Concurrency ELSE 1
    BY DEF Teaching!Call
<1>2. /\ teachingBatch \in [todo : SUBSET (Goals \ Fixed), called : SUBSET (Goals \ Fixed),
                            written : SUBSET (Goals \ Fixed)]
      /\ teachingBatch.written \subseteq teachingBatch.called
      /\ teachingBatch.todo \cap teachingBatch.called = {}
      /\ Teaching!IsFiniteSet(teachingBatch.called)
    BY DEF Teaching!Inv, Teaching!TypesInv, Teaching!TypeOK
<1>3. /\ teachingBatch'.todo = teachingBatch.todo \ {g}
      /\ teachingBatch'.called = teachingBatch.called \cup {g}
      /\ teachingBatch'.written = teachingBatch.written
      /\ teachingBatch' \in [todo : SUBSET (Goals \ Fixed), called : SUBSET (Goals \ Fixed),
                             written : SUBSET (Goals \ Fixed)]
    BY <1>1, <1>2 DEF Teaching!Call
<1>4. /\ Teaching!IsFiniteSet(teachingBatch'.called)
      /\ Teaching!Cardinality(teachingBatch'.called) <= Concurrency
    <2>1. /\ IsFiniteSet(teachingBatch.called \cup {g})
          /\ Cardinality(teachingBatch.called \cup {g}) = Cardinality(teachingBatch.called) + 1
          /\ Cardinality(teachingBatch.called) \in Nat
        BY <1>1, <1>2, FS_AddElement, FS_CardinalityType, TeachingCounts
    <2>2. QED
        BY <1>1, <1>3, <2>1, TeachingConstants, TeachingCounts
<1>5. teachingPhase = "write" => teachingReview = Nothing
    BY <1>1 DEF Teaching!Inv, Teaching!PhaseInv, Teaching!Finished, Teaching!Batch
<1>6. Teaching!Missing' = Teaching!Missing /\ Teaching!Pending' = Teaching!Pending
    BY <1>1 DEF Teaching!Missing, Teaching!Pending
<1>7. Teaching!TypesInv'
    <2>1. Teaching!TypeOK'
        BY <1>1, <1>2, <1>3, <1>4 DEF Teaching!Inv, Teaching!TypesInv, Teaching!TypeOK
    <2>2. QED
        BY <1>1, <1>3, <1>4, <2>1 DEF Teaching!Inv, Teaching!TypesInv
<1>8. Teaching!PhaseInv'
    <2>1. /\ teachingPhase = "write" => Teaching!Missing' \subseteq
                  teachingBatch'.todo \cup (teachingBatch'.called \ teachingBatch'.written)
          /\ teachingPhase = "repair" => teachingBatch'.todo \cup teachingBatch'.called = Teaching!Pending'
        BY <1>1, <1>2, <1>3, <1>6 DEF Teaching!Inv, Teaching!PhaseInv
    <2>2. QED
        BY <1>1, <1>5, <1>6, <2>1 DEF Teaching!Inv, Teaching!PhaseInv
<1>9. Teaching!ReviewInv'
    BY <1>1, <1>3 DEF Teaching!Inv, Teaching!ReviewInv
<1>10. QED
    BY <1>7, <1>8, <1>9 DEF Teaching!Inv

\* The validator saves the teaching that a call returns: of a goal without
\* teaching, or of a goal that the review flagged.
LEMMA TeachingWrite ==
    ASSUME Teaching!Inv, NEW g \in Goals, Teaching!Write(g)
    PROVE  Teaching!Inv'
<1>1. /\ UNCHANGED <<teachingReview, progress, teachingPhase, warm, attempt>>
      /\ g \in teachingBatch.called /\ g \notin teachingBatch.written
    BY DEF Teaching!Write
<1>2. /\ teachingBatch \in [todo : SUBSET (Goals \ Fixed), called : SUBSET (Goals \ Fixed),
                            written : SUBSET (Goals \ Fixed)]
      /\ teachingBatch.written \subseteq teachingBatch.called
      /\ Teaching!IsFiniteSet(teachingBatch.called)
      /\ target \in [Goals -> Nat]
    BY DEF Teaching!Inv, Teaching!TypesInv, Teaching!TypeOK
<1>3. /\ teachingBatch'.todo = teachingBatch.todo
      /\ teachingBatch'.called = teachingBatch.called
      /\ teachingBatch'.written = teachingBatch.written \cup {g}
      /\ teachingBatch' \in [todo : SUBSET (Goals \ Fixed), called : SUBSET (Goals \ Fixed),
                             written : SUBSET (Goals \ Fixed)]
    BY <1>1, <1>2 DEF Teaching!Write
<1>4. /\ target' \in [Goals -> Nat] /\ target'[g] = target[g] + 1
      /\ \A other \in Goals \ {g} : target'[other] = target[other]
    BY <1>2 DEF Teaching!Write
<1>5. /\ teachingPhase \in {"write", "repair"}
      /\ teachingPhase = "write" => teachingReview = Nothing
      /\ teachingPhase = "repair" => progress.flagged # Nothing /\ g \in progress.flagged
    BY <1>1 DEF Teaching!Inv, Teaching!PhaseInv, Teaching!Finished, Teaching!Batch, Teaching!Pending
<1>6. Teaching!Missing' = Teaching!Missing \ {g} /\ Teaching!Pending' = Teaching!Pending
    BY <1>1, <1>2, <1>4 DEF Teaching!Missing, Teaching!Pending
<1>7. Teaching!TypesInv'
    <2>1. Teaching!TypeOK'
        BY <1>1, <1>2, <1>3, <1>4 DEF Teaching!Inv, Teaching!TypesInv, Teaching!TypeOK
    <2>2. \A fixed \in Fixed : target'[fixed] > 0
        BY <1>1, <1>2, <1>4, TeachingConstants DEF Teaching!Inv, Teaching!TypesInv
    <2>3. QED
        BY <1>1, <1>2, <1>3, <2>1, <2>2 DEF Teaching!Inv, Teaching!TypesInv
<1>8. Teaching!PhaseInv'
    <2>1. /\ teachingPhase = "write" => Teaching!Missing' \subseteq
                  teachingBatch'.todo \cup (teachingBatch'.called \ teachingBatch'.written)
          /\ teachingPhase = "repair" => teachingBatch'.todo \cup teachingBatch'.called = Teaching!Pending'
        BY <1>1, <1>2, <1>3, <1>6 DEF Teaching!Inv, Teaching!PhaseInv
    <2>2. Teaching!Missing = {} => Teaching!Missing' = {}
        BY <1>6
    <2>3. QED
        BY <1>1, <1>5, <1>6, <2>1, <2>2 DEF Teaching!Inv, Teaching!PhaseInv
<1>9. Teaching!ReviewInv'
    <2>1. progress'.flagged = Nothing => progress'.repaired = {}
        BY <1>1 DEF Teaching!Inv, Teaching!ReviewInv
    <2>2. ASSUME teachingReview # Nothing, NEW other \in Goals
          PROVE  \/ /\ teachingReview.of[other] = target'[other]
                    /\ other \notin progress.repaired \cup teachingBatch'.written
                 \/ /\ teachingReview.of[other] < target'[other]
                    /\ progress.flagged # Nothing /\ other \in progress.flagged
        <3>1. teachingReview.of \in [Goals -> Nat]
            BY <2>2 DEF Teaching!Inv, Teaching!TypesInv, Teaching!Reviews
        <3>2. CASE other = g
            BY <1>2, <1>4, <1>5, <2>2, <3>1, <3>2 DEF Teaching!Inv, Teaching!ReviewInv
        <3>3. CASE other # g
            BY <1>3, <1>4, <2>2, <3>3 DEF Teaching!Inv, Teaching!ReviewInv
        <3>4. QED
            BY <3>2, <3>3
    <2>3. QED
        BY <1>1, <2>1, <2>2 DEF Teaching!ReviewInv
<1>10. QED
    BY <1>7, <1>8, <1>9 DEF Teaching!Inv

\* A call returns after its teaching was saved; a repair is then recorded.
LEMMA TeachingReturn ==
    ASSUME Teaching!Inv, NEW g \in Goals, Teaching!Return(g)
    PROVE  Teaching!Inv'
<1>1. /\ UNCHANGED <<target, teachingReview, teachingPhase, attempt>>
      /\ g \in teachingBatch.written /\ warm' = TRUE
    BY DEF Teaching!Return
<1>2. /\ teachingBatch \in [todo : SUBSET (Goals \ Fixed), called : SUBSET (Goals \ Fixed),
                            written : SUBSET (Goals \ Fixed)]
      /\ teachingBatch.written \subseteq teachingBatch.called
      /\ teachingBatch.todo \cap teachingBatch.called = {}
      /\ Teaching!IsFiniteSet(teachingBatch.called)
      /\ Teaching!Cardinality(teachingBatch.called) <= Concurrency
      /\ progress \in [flagged : (SUBSET (Goals \ Fixed)) \cup {Nothing}, repaired : SUBSET Goals]
    BY DEF Teaching!Inv, Teaching!TypesInv, Teaching!TypeOK
<1>3. /\ teachingBatch'.todo = teachingBatch.todo
      /\ teachingBatch'.called = teachingBatch.called \ {g}
      /\ teachingBatch'.written = teachingBatch.written \ {g}
      /\ teachingBatch' \in [todo : SUBSET (Goals \ Fixed), called : SUBSET (Goals \ Fixed),
                             written : SUBSET (Goals \ Fixed)]
    BY <1>1, <1>2 DEF Teaching!Return
<1>4. /\ Teaching!IsFiniteSet(teachingBatch'.called)
      /\ Teaching!Cardinality(teachingBatch'.called) <= Concurrency
    <2>1. /\ IsFiniteSet(teachingBatch.called \ {g})
          /\ Cardinality(teachingBatch.called \ {g}) = Cardinality(teachingBatch.called) - 1
          /\ Cardinality(teachingBatch.called) \in Nat
        BY <1>1, <1>2, FS_RemoveElement, FS_CardinalityType, TeachingCounts
    <2>2. QED
        BY <1>2, <1>3, <2>1, TeachingConstants, TeachingCounts
<1>5. /\ teachingPhase \in {"write", "repair"}
      /\ teachingPhase = "write" => teachingReview = Nothing
      /\ teachingPhase = "repair" => progress.flagged # Nothing /\ g \in progress.flagged
    BY <1>1, <1>2 DEF Teaching!Inv, Teaching!PhaseInv, Teaching!Finished, Teaching!Batch, Teaching!Pending
<1>6. /\ progress' \in [flagged : (SUBSET (Goals \ Fixed)) \cup {Nothing}, repaired : SUBSET Goals]
      /\ progress'.flagged = progress.flagged
      /\ teachingPhase = "write" => progress'.repaired = progress.repaired
      /\ teachingPhase = "repair" => progress'.repaired = progress.repaired \cup {g}
    BY <1>1, <1>2 DEF Teaching!Return
<1>7. /\ Teaching!Missing' = Teaching!Missing
      /\ Teaching!Pending' = IF teachingPhase = "repair" THEN Teaching!Pending \ {g} ELSE Teaching!Pending
    BY <1>1, <1>5, <1>6 DEF Teaching!Missing, Teaching!Pending
<1>8. Teaching!TypesInv'
    <2>1. /\ progress'.repaired \subseteq Goals \ Fixed
          /\ progress'.flagged # Nothing => progress'.repaired \subseteq progress'.flagged
        BY <1>1, <1>2, <1>5, <1>6 DEF Teaching!Inv, Teaching!TypesInv, Teaching!TypeOK
    <2>2. Teaching!TypeOK'
        BY <1>1, <1>2, <1>3, <1>4, <2>1 DEF Teaching!Inv, Teaching!TypesInv, Teaching!TypeOK
    <2>3. QED
        BY <1>1, <1>3, <1>4, <1>6, <2>1, <2>2 DEF Teaching!Inv, Teaching!TypesInv
<1>9. Teaching!PhaseInv'
    <2>1. /\ teachingPhase = "write" => Teaching!Missing' \subseteq
                  teachingBatch'.todo \cup (teachingBatch'.called \ teachingBatch'.written)
          /\ teachingPhase = "repair" => teachingBatch'.todo \cup teachingBatch'.called = Teaching!Pending'
        BY <1>1, <1>2, <1>3, <1>7 DEF Teaching!Inv, Teaching!PhaseInv
    <2>2. QED
        BY <1>1, <1>5, <1>6, <1>7, <2>1 DEF Teaching!Inv, Teaching!PhaseInv
<1>10. Teaching!ReviewInv'
    <2>1. progress'.flagged = Nothing => progress'.repaired = {}
        BY <1>5, <1>6 DEF Teaching!Inv, Teaching!ReviewInv
    <2>2. ASSUME teachingReview # Nothing, NEW other \in Goals
          PROVE  \/ /\ teachingReview.of[other] = target[other]
                    /\ other \notin progress'.repaired \cup teachingBatch'.written
                 \/ /\ teachingReview.of[other] < target[other]
                    /\ progress'.flagged # Nothing /\ other \in progress'.flagged
        BY <1>1, <1>3, <1>5, <1>6, <2>2 DEF Teaching!Inv, Teaching!ReviewInv
    <2>3. QED
        BY <1>1, <2>1, <2>2 DEF Teaching!ReviewInv
<1>11. QED
    BY <1>8, <1>9, <1>10 DEF Teaching!Inv

\* What the review says of the teaching it was asked about is kept.
LEMMA TeachingSame ==
    ASSUME Teaching!Inv, teachingReview # Nothing, teachingPhase \in {"review", "flag"}
    PROVE  teachingReview.of = target
<1>1. teachingReview.of \in [Goals -> Nat] /\ target \in [Goals -> Nat]
    BY DEF Teaching!Inv, Teaching!TypesInv, Teaching!TypeOK, Teaching!Reviews
<1>2. \A g \in Goals : teachingReview.of[g] = target[g]
    BY DEF Teaching!Inv, Teaching!PhaseInv, Teaching!ReviewInv
<1>3. QED
    BY <1>1, <1>2

\* The review of teaching that is complete.
LEMMA TeachingReview ==
    ASSUME Teaching!Inv, Teaching!Review
    PROVE  /\ Teaching!Inv'
           /\ teachingReview # Nothing => teachingReview' = teachingReview
<1>1. /\ UNCHANGED <<target, progress, teachingBatch, warm, attempt>>
      /\ teachingPhase = "review" /\ teachingPhase' = "flag"
    BY DEF Teaching!Review
<1>2. teachingReview # Nothing => teachingReview' = teachingReview
    BY TeachingSame, <1>1 DEF Teaching!Review
<1>3. /\ teachingReview' \in Teaching!Reviews /\ teachingReview' # Nothing
      /\ teachingReview'.of = target
    <2>1. target \in [Goals -> Nat] /\ teachingReview \in Teaching!Reviews \cup {Nothing}
        BY DEF Teaching!Inv, Teaching!TypesInv, Teaching!TypeOK
    <2>2. CASE teachingReview # Nothing
        BY <1>1, <1>2, <2>1, <2>2, TeachingSame
    <2>3. CASE teachingReview = Nothing
        <3>1. PICK goals \in SUBSET Goals :
                teachingReview' = [of |-> target, defects |-> goals, adopted |-> FALSE]
            BY <2>3 DEF Teaching!Review
        <3>2. teachingReview' \in Teaching!Reviews /\ teachingReview'.of = target
            BY <2>1, <3>1 DEF Teaching!Reviews
        <3>3. QED
            BY <3>2, TeachingConstants
    <2>4. QED
        BY <2>2, <2>3
<1>4. /\ Teaching!Missing' = Teaching!Missing /\ Teaching!Pending' = Teaching!Pending
      /\ Teaching!Finished' = Teaching!Finished
    BY <1>1 DEF Teaching!Missing, Teaching!Pending, Teaching!Finished, Teaching!Batch
<1>5. /\ Teaching!Finished /\ Teaching!Missing = {}
      /\ progress.flagged = Nothing /\ progress.repaired = {} /\ teachingBatch.written = {}
    BY <1>1 DEF Teaching!Inv, Teaching!PhaseInv, Teaching!ReviewInv, Teaching!Finished, Teaching!Batch
<1>6. Teaching!TypesInv'
    BY <1>1, <1>3 DEF Teaching!Inv, Teaching!TypesInv, Teaching!TypeOK
<1>7. Teaching!PhaseInv'
    BY <1>1, <1>3, <1>4, <1>5 DEF Teaching!PhaseInv
<1>8. Teaching!ReviewInv'
    BY <1>1, <1>3, <1>5 DEF Teaching!ReviewInv
<1>9. QED
    BY <1>2, <1>6, <1>7, <1>8 DEF Teaching!Inv

\* What the review flags is chosen once, and never a fixed goal.
LEMMA TeachingFlag ==
    ASSUME Teaching!Inv, Teaching!Flag
    PROVE  Teaching!Inv'
<1>1. /\ UNCHANGED <<target, teachingReview, teachingBatch, warm, attempt>>
      /\ teachingPhase = "flag" /\ teachingPhase' = "save"
    BY DEF Teaching!Flag
<1>2. teachingReview # Nothing /\ teachingReview \in Teaching!Reviews
    BY <1>1 DEF Teaching!Inv, Teaching!TypesInv, Teaching!PhaseInv
<1>3. /\ progress'.repaired = {} /\ progress'.flagged \in SUBSET (Goals \ Fixed)
      /\ progress' \in [flagged : (SUBSET (Goals \ Fixed)) \cup {Nothing}, repaired : SUBSET Goals]
    <2>1. PICK chosen \in SUBSET Goals :
            progress' = [flagged |-> (chosen \cup IF teachingReview.adopted THEN {} ELSE teachingReview.defects)
                                         \ Fixed,
                         repaired |-> {}]
        BY DEF Teaching!Flag
    <2>2. teachingReview.defects \in SUBSET Goals
        BY <1>2 DEF Teaching!Reviews
    <2>3. QED
        BY <2>1, <2>2
<1>4. progress'.flagged # Nothing
    BY <1>3, TeachingConstants
<1>5. Teaching!Missing' = Teaching!Missing /\ Teaching!Finished' = Teaching!Finished
    BY <1>1 DEF Teaching!Missing, Teaching!Finished, Teaching!Batch
<1>6. /\ Teaching!Finished /\ Teaching!Missing = {} /\ teachingBatch.written = {}
      /\ teachingReview.of = target
    BY <1>1, <1>2, TeachingSame DEF Teaching!Inv, Teaching!PhaseInv, Teaching!Finished, Teaching!Batch
<1>7. Teaching!TypesInv'
    <2>1. Teaching!TypeOK'
        BY <1>1, <1>3 DEF Teaching!Inv, Teaching!TypesInv, Teaching!TypeOK
    <2>2. QED
        BY <1>1, <1>3, <2>1 DEF Teaching!Inv, Teaching!TypesInv
<1>8. Teaching!PhaseInv'
    BY <1>1, <1>2, <1>4, <1>5, <1>6 DEF Teaching!PhaseInv
<1>9. Teaching!ReviewInv'
    BY <1>1, <1>3, <1>4, <1>6 DEF Teaching!ReviewInv
<1>10. QED
    BY <1>7, <1>8, <1>9 DEF Teaching!Inv

LEMMA TeachingStep == Teaching!Inv /\ [Step]_vars => Teaching!Inv'
<1> SUFFICES ASSUME Teaching!Inv, [Step]_vars PROVE Teaching!Inv'
    OBVIOUS
<1>1. CASE Teaching!Next
    BY <1>1, TeachingTurn, TeachingReview, TeachingFlag, TeachingCall, TeachingWrite, TeachingReturn
    DEF Teaching!Next
<1>2. CASE UNCHANGED TeachingImplementationVars
    <2>1. UNCHANGED <<target, teachingReview, progress, teachingPhase, teachingBatch, warm, attempt>>
        BY <1>2 DEF TeachingImplementationVars
    <2>2. /\ Teaching!Missing' = Teaching!Missing /\ Teaching!Pending' = Teaching!Pending
          /\ Teaching!Finished' = Teaching!Finished
        BY <2>1 DEF Teaching!Missing, Teaching!Pending, Teaching!Finished, Teaching!Batch
    <2>3. Teaching!TypesInv'
        BY <2>1 DEF Teaching!Inv, Teaching!TypesInv, Teaching!TypeOK
    <2>4. Teaching!PhaseInv'
        BY <2>1, <2>2 DEF Teaching!Inv, Teaching!PhaseInv
    <2>5. Teaching!ReviewInv'
        BY <2>1 DEF Teaching!Inv, Teaching!ReviewInv
    <2>6. QED
        BY <2>3, <2>4, <2>5 DEF Teaching!Inv
<1>3. QED
    BY <1>1, <1>2 DEF Step, vars

\* Whatever fails, is cancelled or stops, completed teaching is what its single
\* review saw or is labelled as repaired after it, a label is only on teaching
\* that did change, and a task of the professor's is never written
\* (teaching_design_job.py).
THEOREM TasksHold == Spec => TasksAreReviewed
<1>1. Begin => Teaching!Inv
    BY TeachingInit DEF Begin
<1>2. Teaching!Inv => Teaching!TypeOK
    BY DEF Teaching!Inv, Teaching!TypesInv
<1>3. Teaching!Inv => Teaching!UnlabelledIsReviewed
    <2> SUFFICES ASSUME Teaching!Inv, teachingPhase = "done", NEW g \in Goals \ progress.repaired
                 PROVE  teachingReview.of[g] = target[g]
        BY DEF Teaching!UnlabelledIsReviewed
    <2>1. /\ progress.flagged # Nothing /\ teachingReview # Nothing
          /\ progress.flagged \subseteq progress.repaired
        BY DEF Teaching!Inv, Teaching!PhaseInv, Teaching!Pending
    <2>2. QED
        BY <2>1 DEF Teaching!Inv, Teaching!ReviewInv
<1>4. Teaching!Inv => Teaching!LabelledWasRepaired
    <2> SUFFICES ASSUME Teaching!Inv, NEW g \in progress.repaired
                 PROVE  teachingReview.of[g] # target[g]
        BY DEF Teaching!LabelledWasRepaired
    <2>1. g \in Goals /\ progress.flagged # Nothing /\ teachingReview # Nothing
        BY DEF Teaching!Inv, Teaching!TypesInv, Teaching!TypeOK, Teaching!PhaseInv, Teaching!ReviewInv
    <2>2. teachingReview.of[g] \in Nat /\ target[g] \in Nat
        BY <2>1 DEF Teaching!Inv, Teaching!TypesInv, Teaching!TypeOK, Teaching!Reviews
    <2>3. QED
        BY <2>1, <2>2 DEF Teaching!Inv, Teaching!ReviewInv
<1>5. Teaching!Inv /\ [Step]_vars => [\A g \in Fixed : target'[g] = target[g]]_(Teaching!vars)
    <2> SUFFICES ASSUME Teaching!Inv, [Step]_vars, NEW g \in Fixed
                 PROVE  target'[g] = target[g] \/ UNCHANGED Teaching!vars
        OBVIOUS
    <2>1. CASE \E other \in Goals : Teaching!Write(other)
        <3>1. PICK other \in Goals : Teaching!Write(other)
            BY <2>1
        <3>2. target \in [Goals -> Nat] /\ other \in Goals \ Fixed
            BY <3>1 DEF Teaching!Write, Teaching!Inv, Teaching!TypesInv, Teaching!TypeOK
        <3>3. QED
            BY <3>1, <3>2 DEF Teaching!Write
    <2>2. CASE Teaching!Next /\ ~ \E other \in Goals : Teaching!Write(other)
        BY <2>2 DEF Teaching!Next, Teaching!Begin, Teaching!Written, Teaching!Review, Teaching!Flag,
            Teaching!Repair, Teaching!Complete, Teaching!Fail, Teaching!Restart, Teaching!Call, Teaching!Return
    <2>3. CASE UNCHANGED TeachingImplementationVars
        BY <2>3 DEF TeachingImplementationVars, Teaching!vars
    <2>4. QED
        BY <2>1, <2>2, <2>3 DEF Step, vars
<1>6. Teaching!Inv /\ [Step]_vars => [teachingReview # Nothing => teachingReview' = teachingReview]_(Teaching!vars)
    <2> SUFFICES ASSUME Teaching!Inv, [Step]_vars, teachingReview # Nothing
                 PROVE  teachingReview' = teachingReview \/ UNCHANGED Teaching!vars
        OBVIOUS
    <2>1. CASE Teaching!Review
        BY <2>1, TeachingReview
    <2>2. CASE Teaching!Next /\ ~Teaching!Review
        BY <2>2 DEF Teaching!Next, Teaching!Begin, Teaching!Written, Teaching!Flag, Teaching!Repair,
            Teaching!Complete, Teaching!Fail, Teaching!Restart, Teaching!Call, Teaching!Write, Teaching!Return
    <2>3. CASE UNCHANGED TeachingImplementationVars
        BY <2>3 DEF TeachingImplementationVars, Teaching!vars
    <2>4. QED
        BY <2>1, <2>2, <2>3 DEF Step, vars
<1>7. QED
    BY <1>1, <1>2, <1>3, <1>4, <1>5, <1>6, TeachingStep, PTL
    DEF Spec, TasksAreReviewed, Teaching!FixedIsReadOnly, Teaching!ReviewIsSingle

----------------------------------------------------------------------------
(* The sections of a lecture.                                              *)

LEMMA WritingConstants ==
    /\ MaxInputs \in Nat /\ MaxWrites \in Nat /\ MaxWrites > 0
    /\ Nothing \notin Writing!Versions /\ Nothing \notin Writing!Critiques
    /\ Nothing \notin Writing!Sessions /\ Nothing \notin Writing!SectionDrafts
BY WritingAssumption DEF Writing!BoundsAssumption

\* The digest of typed drafts is a typed digest.
LEMMA WritingDigest ==
    ASSUME Writing!TypesInv
    PROVE  /\ Writing!Digest \in Writing!Versions /\ Writing!Digest # Nothing
           /\ \A p \in Pair : /\ Writing!Digest[p] \in 0..MaxWrites
                              /\ writingDraft[p] = Nothing => Writing!Digest[p] = 0
                              /\ writingDraft[p] # Nothing => /\ writingDraft[p] \in Writing!SectionDrafts
                                                              /\ Writing!Digest[p] = writingDraft[p].version
<1>1. \A p \in Pair : writingDraft[p] # Nothing =>
          writingDraft[p] \in Writing!SectionDrafts /\ writingDraft[p].version \in 1..MaxWrites
    BY DEF Writing!TypesInv, Writing!SectionDrafts
<1>2. \A p \in Pair : (IF writingDraft[p] = Nothing THEN 0 ELSE writingDraft[p].version) \in 0..MaxWrites
    BY <1>1, WritingConstants
<1>3. Writing!Digest \in Writing!Versions
    BY <1>2 DEF Writing!Digest, Writing!Versions
<1>4. QED
    BY <1>1, <1>2, <1>3, WritingConstants DEF Writing!Digest

\* What the job derives from drafts and session stays with them.
LEMMA WritingFrame ==
    /\ UNCHANGED writingDraft => /\ Writing!Digest' = Writing!Digest
                                 /\ Writing!Defective' = Writing!Defective
                                 /\ Writing!Missing' = Writing!Missing
    /\ UNCHANGED session => /\ Writing!Pending' = Writing!Pending
                            /\ Writing!Critiqued' = Writing!Critiqued
BY DEF Writing!Digest, Writing!Defective, Writing!Missing, Writing!Pending, Writing!Critiqued

LEMMA WritingInit == Writing!Init => Writing!Inv
<1> SUFFICES ASSUME Writing!Init PROVE Writing!Inv
    OBVIOUS
<1>1. /\ inputs = 0 /\ session = Nothing /\ named \in SUBSET Pair /\ writingPhase = "idle"
      /\ writingBatch = [todo |-> {}, written |-> {}]
    BY DEF Writing!Init
<1>2. writingDraft \in [Pair -> Writing!SectionDrafts \cup {Nothing}]
    <2>1. \A kind \in Writing!Kinds : [version |-> 1, inputs |-> 0, kind |-> kind] \in Writing!SectionDrafts
        BY WritingConstants DEF Writing!SectionDrafts
    <2>2. QED
        BY <2>1 DEF Writing!Init
<1>3. Writing!TypesInv
    <2>1. \A p \in Pair : writingDraft[p] # Nothing => writingDraft[p].kind \in Writing!Kinds
        BY <1>2 DEF Writing!SectionDrafts
    <2>2. Writing!TypeOK
        BY <1>1, <2>1 DEF Writing!TypeOK, Writing!Critiqued
    <2>3. QED
        BY <1>1, <1>2, <2>2, WritingConstants DEF Writing!TypesInv
<1>4. Writing!SessionInv
    BY <1>1 DEF Writing!SessionInv, Writing!Critiqued
<1>5. QED
    BY <1>3, <1>4 DEF Writing!Inv

\* A step of the job is entered under the session and with the drafts there are.
LEMMA WritingEnters ==
    ASSUME Writing!Inv, UNCHANGED <<session, writingDraft>>, inputs' \in 0..MaxInputs,
           named' \in SUBSET Pair,
           NEW next \in {"idle", "write", "context", "check", "critique", "notes", "recheck", "done"},
           NEW sections \in SUBSET Pair,
           writingPhase' = next /\ writingBatch' = [todo |-> sections, written |-> {}],
           next \in {"idle", "done"} => sections = {},
           next # "idle" => session # Nothing /\ session.inputs = inputs',
           next = "critique" => session.critique = Nothing,
           next = "notes" => session.critique # Nothing /\ sections = Writing!Pending,
           next \in {"recheck", "done"} => session.critique # Nothing /\ Writing!Pending = {},
           next \notin {"idle", "done"} => session.accepted = Nothing,
           next = "done" => session.accepted # Nothing
    PROVE  Writing!Inv'
<1>1. /\ Writing!Digest' = Writing!Digest /\ Writing!Defective' = Writing!Defective
      /\ Writing!Pending' = Writing!Pending /\ Writing!Critiqued' = Writing!Critiqued
    BY WritingFrame
<1>2. /\ writingBatch'.todo = sections /\ writingBatch'.written = {}
      /\ writingBatch' \in [todo : SUBSET Pair, written : SUBSET Pair]
    OBVIOUS
<1>3. Writing!TypesInv'
    <2>1. Writing!TypeOK'
        BY <1>1, <1>2 DEF Writing!Inv, Writing!TypesInv, Writing!TypeOK
    <2>2. QED
        BY <1>2, <2>1 DEF Writing!Inv, Writing!TypesInv
<1>4. Writing!SessionInv'
    <2>1. Writing!Critiqued' => \A p \in Pair :
              /\ session'.critique.of[p] <= Writing!Digest'[p]
              /\ p \in session'.critique.repaired \/ (writingPhase' = "notes" /\ p \in writingBatch'.written) =>
                    session'.critique.of[p] < Writing!Digest'[p]
        BY <1>1, <1>2 DEF Writing!Inv, Writing!SessionInv
    <2>2. session' # Nothing /\ session'.accepted # Nothing =>
              /\ writingPhase' \in {"idle", "done"} /\ session'.accepted = Writing!Digest'
              /\ Writing!Defective' = {} /\ session'.critique # Nothing /\ Writing!Pending' = {}
        BY <1>1 DEF Writing!Inv, Writing!SessionInv
    <2>3. QED
        BY <1>1, <1>2, <2>1, <2>2 DEF Writing!SessionInv
<1>5. QED
    BY <1>3, <1>4 DEF Writing!Inv

\* The step after a step, the end of a run and new inputs.
LEMMA WritingTurns ==
    ASSUME Writing!Inv, Writing!NextStep \/ Writing!Stop \/ Writing!ChangeInputs
    PROVE  Writing!Inv'
<1>1. UNCHANGED <<session, writingDraft>>
    BY DEF Writing!NextStep, Writing!Stop, Writing!ChangeInputs
<1>2. /\ inputs \in 0..MaxInputs /\ named \in SUBSET Pair
      /\ writingBatch \in [todo : SUBSET Pair, written : SUBSET Pair]
      /\ Writing!Defective \subseteq Pair
    BY DEF Writing!Inv, Writing!TypesInv, Writing!Defective
<1>3. CASE Writing!NextStep
    <2>1. UNCHANGED <<inputs, named>> /\ writingBatch.todo = {}
        BY <1>3 DEF Writing!NextStep
    <2>2. writingPhase \in {"write", "context", "check", "notes"} =>
              session # Nothing /\ session.inputs = inputs /\ session.accepted = Nothing
        BY DEF Writing!Inv, Writing!SessionInv
    <2>3. session # Nothing /\ session.critique # Nothing => Writing!Pending \subseteq Pair
        BY DEF Writing!Inv, Writing!TypesInv, Writing!Sessions, Writing!Critiques, Writing!Pending
    <2>4. CASE writingPhase = "write"
        BY <1>1, <1>2, <1>3, <2>1, <2>2, <2>4, WritingEnters DEF Writing!NextStep, Writing!Enter
    <2>5. CASE writingPhase = "context"
        BY <1>1, <1>2, <1>3, <2>1, <2>2, <2>5, WritingEnters DEF Writing!NextStep, Writing!Enter
    <2>6. CASE writingPhase = "check" /\ session.critique = Nothing
        BY <1>1, <1>2, <1>3, <2>1, <2>2, <2>6, WritingEnters DEF Writing!NextStep, Writing!Enter
    <2>7. CASE writingPhase = "check" /\ session.critique # Nothing
        BY <1>1, <1>2, <1>3, <2>1, <2>2, <2>3, <2>7, WritingEnters DEF Writing!NextStep, Writing!Enter
    <2>8. CASE writingPhase = "notes"
        <3>1. session.critique # Nothing /\ Writing!Pending = {}
            BY <2>1, <2>8 DEF Writing!Inv, Writing!SessionInv
        <3>2. QED
            BY <1>1, <1>2, <1>3, <2>1, <2>2, <2>8, <3>1, WritingEnters DEF Writing!NextStep, Writing!Enter
    <2>9. QED
        BY <1>3, <2>4, <2>5, <2>6, <2>7, <2>8 DEF Writing!NextStep
<1>4. CASE Writing!Stop
    BY <1>1, <1>2, <1>4, WritingEnters DEF Writing!Stop, Writing!Enter
<1>5. CASE Writing!ChangeInputs
    <2>1. /\ UNCHANGED <<named, writingPhase, writingBatch>> /\ writingPhase = "idle"
          /\ inputs' = inputs + 1 /\ inputs < MaxInputs
        BY <1>5 DEF Writing!ChangeInputs
    <2>2. inputs' \in 0..MaxInputs
        BY <1>2, <2>1, WritingConstants
    <2>3. Writing!TypesInv'
        BY <1>1, <2>1, <2>2, WritingFrame DEF Writing!Inv, Writing!TypesInv, Writing!TypeOK
    <2>4. Writing!SessionInv'
        BY <1>1, <2>1, WritingFrame DEF Writing!Inv, Writing!SessionInv
    <2>5. QED
        BY <2>3, <2>4 DEF Writing!Inv
<1>6. QED
    BY <1>3, <1>4, <1>5

\* A job begins under the session of its inputs, or with none and no draft.
LEMMA WritingLoads ==
    ASSUME Writing!Inv, Writing!Load \/ Writing!DiscardDrafts
    PROVE  Writing!Inv'
<1>1. UNCHANGED <<inputs, named>> /\ inputs \in 0..MaxInputs /\ named \in SUBSET Pair
    BY DEF Writing!Inv, Writing!TypesInv, Writing!Load, Writing!DiscardDrafts
<1>2. /\ Writing!Fresh \in Writing!Sessions /\ Writing!Fresh # Nothing
      /\ Writing!Fresh.inputs = inputs /\ Writing!Fresh.critique = Nothing
      /\ Writing!Fresh.accepted = Nothing
    BY <1>1, WritingConstants DEF Writing!Fresh, Writing!Sessions
<1>3. Writing!Missing \in SUBSET Pair
    BY DEF Writing!Missing
<1>4. ASSUME session' = Writing!Fresh, writingPhase' = "write",
             NEW sections \in SUBSET Pair, writingBatch' = [todo |-> sections, written |-> {}],
             writingDraft' \in [Pair -> Writing!SectionDrafts \cup {Nothing}]
      PROVE  Writing!Inv'
    <2>1. ~Writing!Critiqued'
        BY <1>2, <1>4 DEF Writing!Critiqued
    <2>2. \A p \in Pair : writingDraft'[p] # Nothing => writingDraft'[p].kind \in Writing!Kinds
        BY <1>4 DEF Writing!SectionDrafts
    <2>3. Writing!TypesInv'
        BY <1>1, <1>2, <1>4, <2>1, <2>2 DEF Writing!TypesInv, Writing!TypeOK
    <2>4. Writing!SessionInv'
        BY <1>1, <1>2, <1>4, <2>1 DEF Writing!SessionInv
    <2>5. QED
        BY <2>3, <2>4 DEF Writing!Inv
<1>5. CASE Writing!Load
    <2>1. writingDraft' = writingDraft /\ writingDraft \in [Pair -> Writing!SectionDrafts \cup {Nothing}]
        BY <1>5 DEF Writing!Load, Writing!Inv, Writing!TypesInv
    <2>2. CASE session # Nothing /\ session.inputs # inputs
        <3>1. /\ session' = Nothing /\ writingPhase' = "discard"
              /\ writingBatch' = [todo |-> {}, written |-> {}]
            BY <1>5, <2>2 DEF Writing!Load, Writing!Enter
        <3>2. Writing!TypesInv'
            BY <1>1, <2>1, <3>1 DEF Writing!Inv, Writing!TypesInv, Writing!TypeOK, Writing!Critiqued
        <3>3. Writing!SessionInv'
            BY <3>1 DEF Writing!SessionInv, Writing!Critiqued
        <3>4. QED
            BY <3>2, <3>3 DEF Writing!Inv
    <2>3. CASE session = Nothing
        BY <1>3, <1>4, <1>5, <2>1, <2>3 DEF Writing!Load, Writing!Enter
    <2>4. CASE session # Nothing /\ session.inputs = inputs
        <3>1. session' = session
            BY <1>5, <2>4 DEF Writing!Load
        <3>2. CASE session.accepted = Writing!Digest
            <4>1. session.accepted # Nothing
                BY <3>2, WritingDigest DEF Writing!Inv
            <4>2. session.critique # Nothing /\ Writing!Pending = {}
                BY <2>4, <4>1 DEF Writing!Inv, Writing!SessionInv
            <4>3. QED
                BY <1>1, <1>5, <2>1, <2>4, <3>1, <3>2, <4>1, <4>2, WritingEnters
                DEF Writing!Load, Writing!Enter
        <3>3. CASE session.accepted # Writing!Digest
            <4>1. session.accepted = Nothing
                BY <2>4, <3>3 DEF Writing!Inv, Writing!SessionInv
            <4>2. QED
                BY <1>1, <1>3, <1>5, <2>1, <2>4, <3>1, <3>3, <4>1, WritingEnters
                DEF Writing!Load, Writing!Enter
        <3>4. QED
            BY <3>2, <3>3
    <2>5. QED
        BY <2>2, <2>3, <2>4
<1>6. CASE Writing!DiscardDrafts
    BY <1>4, <1>6 DEF Writing!DiscardDrafts, Writing!Enter
<1>7. QED
    BY <1>5, <1>6

\* A section is written once more, whatever it is like then.
LEMMA WritingWrite ==
    ASSUME Writing!Inv, NEW p \in Pair, Writing!Write(p)
    PROVE  Writing!Inv'
<1>1. /\ UNCHANGED <<inputs, named, session, writingPhase>>
      /\ p \in writingBatch.todo /\ Writing!Digest[p] < MaxWrites
      /\ inputs \in 0..MaxInputs
    BY DEF Writing!Write, Writing!Inv, Writing!TypesInv
<1>2. /\ writingBatch' \in [todo : SUBSET Pair, written : SUBSET Pair]
      /\ writingBatch'.todo = writingBatch.todo /\ writingBatch'.written = writingBatch.written \cup {p}
    BY DEF Writing!Write, Writing!Inv, Writing!TypesInv
<1>3. PICK kind \in Writing!Kinds :
        writingDraft' = [writingDraft EXCEPT ![p] = [version |-> Writing!Digest[p] + 1,
                                                     inputs |-> inputs, kind |-> kind]]
    BY DEF Writing!Write
<1>4. /\ writingDraft \in [Pair -> Writing!SectionDrafts \cup {Nothing}]
      /\ Writing!Digest[p] + 1 \in 1..MaxWrites
    BY <1>1, WritingDigest, WritingConstants DEF Writing!Inv, Writing!TypesInv
<1>5. [version |-> Writing!Digest[p] + 1, inputs |-> inputs, kind |-> kind] \in Writing!SectionDrafts
    BY <1>1, <1>4 DEF Writing!SectionDrafts
<1>6. /\ writingDraft' \in [Pair -> Writing!SectionDrafts \cup {Nothing}]
      /\ writingDraft'[p] # Nothing /\ writingDraft'[p].version = Writing!Digest[p] + 1
      /\ \A other \in Pair \ {p} : writingDraft'[other] = writingDraft[other]
    BY <1>3, <1>4, <1>5, WritingConstants
<1>7. /\ Writing!Digest'[p] = Writing!Digest[p] + 1
      /\ \A other \in Pair \ {p} : Writing!Digest'[other] = Writing!Digest[other]
    BY <1>6 DEF Writing!Digest
<1>8. writingPhase \notin {"idle", "done"}
    BY <1>1 DEF Writing!Inv, Writing!TypesInv
<1>9. Writing!Pending' = Writing!Pending /\ Writing!Critiqued' = Writing!Critiqued
    BY <1>1, WritingFrame
<1>10. Writing!TypesInv'
    <2>1. \A other \in Pair : writingDraft'[other] # Nothing => writingDraft'[other].kind \in Writing!Kinds
        BY <1>6 DEF Writing!SectionDrafts
    <2>2. Writing!TypeOK'
        BY <1>1, <1>2, <1>9, <2>1 DEF Writing!Inv, Writing!TypesInv, Writing!TypeOK
    <2>3. QED
        BY <1>1, <1>2, <1>6, <2>2 DEF Writing!Inv, Writing!TypesInv
<1>11. Writing!SessionInv'
    <2>1. Writing!Critiqued' => \A other \in Pair :
              /\ session'.critique.of[other] <= Writing!Digest'[other]
              /\ other \in session'.critique.repaired
                    \/ (writingPhase' = "notes" /\ other \in writingBatch'.written) =>
                    session'.critique.of[other] < Writing!Digest'[other]
        <3> SUFFICES ASSUME Writing!Critiqued, NEW other \in Pair
                     PROVE  /\ session.critique.of[other] <= Writing!Digest'[other]
                            /\ other \in session.critique.repaired
                                  \/ (writingPhase = "notes" /\ other \in writingBatch'.written) =>
                                  session.critique.of[other] < Writing!Digest'[other]
            BY <1>1, <1>9
        <3>1. /\ session.critique.of[other] \in Nat /\ Writing!Digest[other] \in Nat
              /\ session.critique.of[other] <= Writing!Digest[other]
            <4>1. session.critique \in Writing!Critiques
                BY DEF Writing!Inv, Writing!TypesInv, Writing!Critiqued, Writing!Sessions
            <4>2. session.critique.of[other] \in Nat
                BY <4>1, WritingConstants DEF Writing!Critiques, Writing!Versions
            <4>3. QED
                BY <4>2, WritingDigest DEF Writing!Inv, Writing!SessionInv
        <3>2. CASE other = p
            BY <1>7, <3>1, <3>2
        <3>3. CASE other # p
            BY <1>2, <1>7, <3>1, <3>3 DEF Writing!Inv, Writing!SessionInv
        <3>4. QED
            BY <3>2, <3>3
    <2>2. session' # Nothing => session'.accepted = Nothing
        BY <1>1, <1>8 DEF Writing!Inv, Writing!SessionInv
    <2>3. QED
        BY <1>1, <1>2, <1>8, <1>9, <2>1, <2>2 DEF Writing!Inv, Writing!SessionInv
<1>12. QED
    BY <1>10, <1>11 DEF Writing!Inv

\* A section's call returns and its repair is recorded.
LEMMA WritingReturn ==
    ASSUME Writing!Inv, NEW p \in Pair, Writing!Return(p)
    PROVE  /\ Writing!Inv'
           /\ Writing!Critiqued => /\ session'.critique # Nothing
                                   /\ session'.critique.of = session.critique.of
                                   /\ session'.critique.notes = session.critique.notes
<1>1. /\ UNCHANGED <<inputs, named, writingDraft, writingPhase>>
      /\ p \in writingBatch.todo /\ p \in writingBatch.written
    BY DEF Writing!Return
<1>2. /\ writingBatch' \in [todo : SUBSET Pair, written : SUBSET Pair]
      /\ writingBatch'.todo = writingBatch.todo \ {p} /\ writingBatch'.written = writingBatch.written
    BY DEF Writing!Return, Writing!Inv, Writing!TypesInv
<1>3. writingPhase \notin {"idle", "done"}
    BY <1>1 DEF Writing!Inv, Writing!TypesInv
<1>4. Writing!Digest' = Writing!Digest /\ Writing!Defective' = Writing!Defective
    BY <1>1, WritingFrame
<1>5. CASE writingPhase # "notes"
    <2>1. session' = session
        BY <1>5 DEF Writing!Return
    <2>2. Writing!Pending' = Writing!Pending /\ Writing!Critiqued' = Writing!Critiqued
        BY <2>1, WritingFrame
    <2>3. Writing!TypesInv'
        BY <1>1, <1>2, <1>3, <2>1, <2>2 DEF Writing!Inv, Writing!TypesInv, Writing!TypeOK
    <2>4. Writing!SessionInv'
        BY <1>1, <1>2, <1>3, <1>4, <1>5, <2>1, <2>2 DEF Writing!Inv, Writing!SessionInv
    <2>5. QED
        BY <2>1, <2>3, <2>4 DEF Writing!Inv, Writing!Critiqued
<1>6. CASE writingPhase = "notes"
    <2>1. /\ session \in Writing!Sessions /\ session.critique \in Writing!Critiques
          /\ session # Nothing /\ session.critique # Nothing /\ session.accepted = Nothing
          /\ Writing!Pending = writingBatch.todo /\ session.inputs = inputs
        BY <1>6 DEF Writing!Inv, Writing!TypesInv, Writing!SessionInv, Writing!Sessions
    <2>2. session' = [session EXCEPT !.critique = [session.critique EXCEPT !.repaired = @ \cup {p}]]
        BY <1>6, <2>1 DEF Writing!Return, Writing!Sessions, Writing!Critiques
    <2>3. /\ [session.critique EXCEPT !.repaired = @ \cup {p}] \in Writing!Critiques
          /\ [session.critique EXCEPT !.repaired = @ \cup {p}].of = session.critique.of
          /\ [session.critique EXCEPT !.repaired = @ \cup {p}].notes = session.critique.notes
          /\ [session.critique EXCEPT !.repaired = @ \cup {p}].repaired = session.critique.repaired \cup {p}
        BY <2>1 DEF Writing!Critiques
    <2>4. /\ session' \in Writing!Sessions /\ session'.inputs = session.inputs
          /\ session'.accepted = session.accepted
          /\ session'.critique = [session.critique EXCEPT !.repaired = @ \cup {p}]
        BY <2>1, <2>2, <2>3 DEF Writing!Sessions
    <2>5. session' # Nothing /\ session'.critique # Nothing
        BY <2>3, <2>4, WritingConstants
    <2>6. p \in session.critique.notes /\ Writing!Pending' = Writing!Pending \ {p}
        BY <1>1, <2>1, <2>3, <2>4 DEF Writing!Pending
    <2>7. Writing!TypesInv'
        <3>1. session'.critique.repaired \subseteq session'.critique.notes
            BY <2>1, <2>3, <2>4, <2>6 DEF Writing!Inv, Writing!TypesInv, Writing!TypeOK, Writing!Critiqued
        <3>2. Writing!TypeOK'
            BY <1>1, <1>2, <2>1, <2>4, <2>5, <3>1 DEF Writing!Inv, Writing!TypesInv, Writing!TypeOK
        <3>3. QED
            BY <1>1, <1>2, <1>3, <2>4, <3>2 DEF Writing!Inv, Writing!TypesInv
    <2>8. Writing!SessionInv'
        <3>1. \A other \in Pair :
                /\ session'.critique.of[other] <= Writing!Digest'[other]
                /\ other \in session'.critique.repaired
                      \/ (writingPhase' = "notes" /\ other \in writingBatch'.written) =>
                      session'.critique.of[other] < Writing!Digest'[other]
            BY <1>1, <1>2, <1>4, <1>6, <2>1, <2>3, <2>4
            DEF Writing!Inv, Writing!SessionInv, Writing!Critiqued
        <3>2. QED
            BY <1>1, <1>2, <1>6, <2>1, <2>4, <2>5, <2>6, <3>1 DEF Writing!SessionInv
    <2>9. QED
        BY <2>3, <2>4, <2>5, <2>7, <2>8 DEF Writing!Inv
<1>7. QED
    BY <1>5, <1>6

\* The one critique, of sections that pass every check.
LEMMA WritingCritique ==
    ASSUME Writing!Inv, Writing!Critique
    PROVE  Writing!Inv' /\ session.critique = Nothing
<1>1. /\ UNCHANGED <<inputs, named, writingDraft>>
      /\ writingPhase = "critique" /\ Writing!Defective = {}
    BY DEF Writing!Critique
<1>2. /\ session \in Writing!Sessions /\ session # Nothing /\ session.inputs = inputs
      /\ session.critique = Nothing /\ session.accepted = Nothing
    BY <1>1 DEF Writing!Inv, Writing!TypesInv, Writing!SessionInv
<1>3. PICK notes \in SUBSET Pair :
        /\ session' = [session EXCEPT !.critique = [of |-> Writing!Digest, notes |-> notes, repaired |-> {}]]
        /\ writingPhase' = "notes" /\ writingBatch' = [todo |-> notes, written |-> {}]
    BY DEF Writing!Critique, Writing!Enter
<1>4. /\ Writing!Digest \in Writing!Versions /\ \A p \in Pair : Writing!Digest[p] \in 0..MaxWrites
      /\ Writing!Digest' = Writing!Digest
    BY <1>1, WritingDigest, WritingFrame DEF Writing!Inv
<1>5. [of |-> Writing!Digest, notes |-> notes, repaired |-> {}] \in Writing!Critiques
    BY <1>4 DEF Writing!Critiques
<1>6. /\ session' \in Writing!Sessions /\ session'.inputs = inputs /\ session'.accepted = Nothing
      /\ session'.critique = [of |-> Writing!Digest, notes |-> notes, repaired |-> {}]
    BY <1>2, <1>3, <1>5 DEF Writing!Sessions
<1>7. /\ session' # Nothing /\ session'.critique # Nothing /\ session'.critique.of = Writing!Digest
      /\ session'.critique.repaired = {} /\ session'.critique.notes = notes
    BY <1>5, <1>6, WritingConstants
<1>8. Writing!Pending' = notes
    BY <1>7 DEF Writing!Pending
<1>9. /\ writingBatch'.todo = notes /\ writingBatch'.written = {}
      /\ writingBatch' \in [todo : SUBSET Pair, written : SUBSET Pair]
    BY <1>3
<1>10. Writing!TypesInv'
    <2>1. Writing!TypeOK'
        BY <1>1, <1>6, <1>7, <1>9 DEF Writing!Inv, Writing!TypesInv, Writing!TypeOK
    <2>2. QED
        BY <1>1, <1>3, <1>6, <1>9, <2>1 DEF Writing!Inv, Writing!TypesInv
<1>11. Writing!SessionInv'
    BY <1>1, <1>3, <1>4, <1>6, <1>7, <1>8, <1>9 DEF Writing!SessionInv
<1>12. QED
    BY <1>2, <1>10, <1>11 DEF Writing!Inv

\* The draft is accepted as it is.
LEMMA WritingComplete ==
    ASSUME Writing!Inv, Writing!Complete
    PROVE  /\ Writing!Inv' /\ writingDraft' = writingDraft
           /\ session'.critique = session.critique
<1>1. /\ UNCHANGED <<inputs, named, writingDraft, writingBatch>>
      /\ writingPhase = "recheck" /\ writingPhase' = "done"
      /\ writingBatch.todo = {} /\ Writing!Defective = {}
      /\ session' = [session EXCEPT !.accepted = Writing!Digest]
    BY DEF Writing!Complete
<1>2. /\ session \in Writing!Sessions /\ session # Nothing /\ session.inputs = inputs
      /\ session.critique # Nothing /\ Writing!Pending = {}
    BY <1>1 DEF Writing!Inv, Writing!TypesInv, Writing!SessionInv
<1>3. /\ Writing!Digest \in Writing!Versions /\ Writing!Digest # Nothing
      /\ Writing!Digest' = Writing!Digest /\ Writing!Defective' = Writing!Defective
    BY <1>1, WritingDigest, WritingFrame DEF Writing!Inv
<1>4. /\ session' \in Writing!Sessions /\ session'.inputs = inputs
      /\ session'.accepted = Writing!Digest /\ session'.critique = session.critique
    BY <1>1, <1>2, <1>3 DEF Writing!Sessions
<1>5. session' # Nothing
    BY <1>4, WritingConstants
<1>6. Writing!Pending' = Writing!Pending /\ Writing!Critiqued' = Writing!Critiqued
    BY <1>2, <1>4, <1>5 DEF Writing!Pending, Writing!Critiqued
<1>7. Writing!TypesInv'
    BY <1>1, <1>4, <1>5, <1>6 DEF Writing!Inv, Writing!TypesInv, Writing!TypeOK
<1>8. Writing!SessionInv'
    BY <1>1, <1>2, <1>3, <1>4, <1>5, <1>6 DEF Writing!Inv, Writing!SessionInv
<1>9. QED
    BY <1>1, <1>4, <1>7, <1>8 DEF Writing!Inv

LEMMA WritingStep == Writing!Inv /\ [Step]_vars => Writing!Inv'
<1> SUFFICES ASSUME Writing!Inv, [Step]_vars PROVE Writing!Inv'
    OBVIOUS
<1>1. CASE Writing!Next
    BY <1>1, WritingTurns, WritingLoads, WritingWrite, WritingReturn, WritingCritique, WritingComplete
    DEF Writing!Next
<1>2. CASE UNCHANGED SectionAuthoringVars
    <2>1. UNCHANGED <<inputs, named, session, writingDraft, writingPhase, writingBatch>>
        BY <1>2 DEF SectionAuthoringVars
    <2>2. Writing!TypesInv'
        BY <2>1, WritingFrame DEF Writing!Inv, Writing!TypesInv, Writing!TypeOK
    <2>3. Writing!SessionInv'
        BY <2>1, WritingFrame DEF Writing!Inv, Writing!SessionInv
    <2>4. QED
        BY <2>2, <2>3 DEF Writing!Inv
<1>3. QED
    BY <1>1, <1>2 DEF Step, vars

\* However often a job for a lecture's sections is stopped and resumed, and
\* whatever a request to resume it names: one critique is spent on it, what it
\* warns of as repaired once was written after the critique, an accepted draft
\* passes the lecture's checks, and no job for the same inputs writes it again
\* (agent_authoring.py, authoring_state.py).
THEOREM SectionsHold == Spec => SectionsAreAccepted
<1>1. Begin => Writing!Inv
    BY WritingInit DEF Begin
<1>2. Writing!Inv => Writing!TypeOK
    BY DEF Writing!Inv, Writing!TypesInv
<1>3. Writing!Inv => Writing!WarnedWasRepaired
    <2> SUFFICES ASSUME Writing!Inv, writingPhase = "done", Writing!Critiqued,
                        NEW p \in session.critique.notes
                 PROVE  Writing!Digest[p] > session.critique.of[p]
        BY DEF Writing!WarnedWasRepaired
    <2>1. session.critique \in Writing!Critiques
        BY DEF Writing!Inv, Writing!TypesInv, Writing!Critiqued, Writing!Sessions
    <2>2. /\ p \in Pair /\ session.critique.of[p] \in 0..MaxWrites
          /\ Writing!Digest[p] \in 0..MaxWrites
        BY <2>1, WritingDigest DEF Writing!Critiques, Writing!Versions, Writing!Inv
    <2>3. p \in session.critique.repaired
        BY DEF Writing!Inv, Writing!SessionInv, Writing!Pending
    <2>4. QED
        BY <2>2, <2>3, WritingConstants DEF Writing!Inv, Writing!SessionInv
<1>4. Writing!Inv => Writing!AcceptedIsSound
    BY WritingDigest DEF Writing!Inv, Writing!SessionInv, Writing!AcceptedIsSound
<1>5. Writing!Inv /\ [Step]_vars =>
          [Writing!Critiqued /\ session' # Nothing =>
               /\ session'.critique # Nothing
               /\ session'.critique.of = session.critique.of
               /\ session'.critique.notes = session.critique.notes]_(Writing!vars)
    <2> SUFFICES ASSUME Writing!Inv, [Step]_vars, Writing!Critiqued, session' # Nothing
                 PROVE  \/ /\ session'.critique # Nothing
                           /\ session'.critique.of = session.critique.of
                           /\ session'.critique.notes = session.critique.notes
                        \/ UNCHANGED Writing!vars
        OBVIOUS
    <2>1. session # Nothing /\ session.critique # Nothing
        BY DEF Writing!Critiqued
    <2>2. CASE Writing!Load
        BY <2>1, <2>2 DEF Writing!Load
    <2>3. CASE Writing!DiscardDrafts
        BY <2>1, <2>3 DEF Writing!DiscardDrafts, Writing!Inv, Writing!SessionInv
    <2>4. CASE Writing!Critique
        BY <2>1, <2>4, WritingCritique
    <2>5. CASE Writing!Complete
        BY <2>1, <2>5, WritingComplete
    <2>6. CASE \E p \in Pair : Writing!Return(p)
        BY <2>6, WritingReturn
    <2>7. CASE Writing!NextStep \/ Writing!Stop \/ Writing!ChangeInputs \/ \E p \in Pair : Writing!Write(p)
        BY <2>1, <2>7 DEF Writing!NextStep, Writing!Stop, Writing!ChangeInputs, Writing!Write
    <2>8. CASE UNCHANGED SectionAuthoringVars
        BY <2>8 DEF SectionAuthoringVars, Writing!vars
    <2>9. QED
        BY <2>2, <2>3, <2>4, <2>5, <2>6, <2>7, <2>8 DEF Writing!Next, Step, vars
<1>6. Writing!Inv /\ [Step]_vars =>
          [session # Nothing /\ session.accepted = Writing!Digest /\ session' # Nothing =>
               writingDraft' = writingDraft]_(Writing!vars)
    <2> SUFFICES ASSUME Writing!Inv, [Step]_vars, session # Nothing, session.accepted = Writing!Digest,
                        session' # Nothing
                 PROVE  writingDraft' = writingDraft \/ UNCHANGED Writing!vars
        OBVIOUS
    <2>1. writingPhase \in {"idle", "done"} /\ writingBatch.todo = {}
        BY WritingDigest DEF Writing!Inv, Writing!TypesInv, Writing!SessionInv
    <2>2. CASE Writing!Next
        BY <2>1, <2>2 DEF Writing!Next, Writing!Load, Writing!DiscardDrafts, Writing!NextStep,
            Writing!Critique, Writing!Complete, Writing!Stop, Writing!ChangeInputs, Writing!Write,
            Writing!Return
    <2>3. CASE UNCHANGED SectionAuthoringVars
        BY <2>3 DEF SectionAuthoringVars, Writing!vars
    <2>4. QED
        BY <2>2, <2>3 DEF Step, vars
<1>7. QED
    BY <1>1, <1>2, <1>3, <1>4, <1>5, <1>6, WritingStep, PTL
    DEF Spec, SectionsAreAccepted, Writing!CritiqueIsSingle, Writing!AcceptedIsKept

===========================================================================
