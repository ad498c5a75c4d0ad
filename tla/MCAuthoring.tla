---------------------------- MODULE MCAuthoring ----------------------------
\* The authoring of a lecture around its generation, on small instances: goals
\* and their approval, proposal markers, teaching tasks, drafts of sections,
\* review and publication. The components share no state, so one of them runs
\* in each behaviour while the others stay as they began.
EXTENDS Integers, Sequences, FiniteSets, TLC

CONSTANTS
    Pair, Goals, Fixed, NoDesign, Unreadable, Nothing, Nobody, Drafts,
    Generated, ByHand, Lease, Delay, Languages, MaxSource, MaxPractice,
    MaxVersion, MaxTexts, MaxFaults, Contents, Before, Supports, MaxChanges,
    MaxApprovals, MaxDesigns, Concurrency, Attempts, MaxRetries, MaxInputs,
    MaxWrites, MaxRestarts

VARIABLES
    component,  \* the one that runs
    sources, design, archive, request, approvals, changes, writes,
    marker, age, task, pending, result, touch, since, asleep,
    target, teachingReview, progress, teachingPhase, teachingBatch, warm,
    before, attempt, teachingRestarts,
    inputs, named, session, writingDraft, writingPhase, writingBatch,
    writingRestarts,
    source, practice, lectureDraft, lectureReview, published, variant, shown,
    assessed, pc, seen, kept, lock, texts, faults

\* Two goals before the change of the sources, one of them reworded by it.
TwoGoals == [g \in {"g1", "g2"} |-> "first"]
OneGoal == [g \in {"g1"} |-> "first"]
BeforeAndAfter == "before" :> {TwoGoals, OneGoal} @@ "after" :> {OneGoal}
Others == Goals \ Fixed
\* Languages are published for the first sources, design and learning map.
FirstDesign ==
    /\ source' = 1 /\ practice'.revision = 1
    /\ lectureReview' # Nobody => lectureReview'.edit = Generated

Approvals == INSTANCE LearningGoals WITH
    Versions <- Pair, Requests <- Pair, MaxWrites <- MaxDesigns
Markers == INSTANCE GoalMarkers WITH
    Lectures <- Pair
Teaching == INSTANCE TeachingImplementation WITH
    MaxRestarts <- MaxRetries, review <- teachingReview,
    phase <- teachingPhase, batch <- teachingBatch,
    restarts <- teachingRestarts
Writing == INSTANCE SectionAuthoring WITH
    Sections <- Pair, draft <- writingDraft, phase <- writingPhase,
    batch <- writingBatch, restarts <- writingRestarts
Review == INSTANCE CanvasPublication WITH
    Requests <- Pair, Docs <- Drafts, Edits <- {Generated, ByHand},
    Fresh <- Generated, None <- Nobody, draft <- lectureDraft,
    review <- lectureReview

ASSUME ApprovalsAssumption == Approvals!GoalsAssumption
ASSUME MarkersAssumption == Markers!LeaseAssumption
ASSUME TeachingAssumption == Teaching!JobAssumption
ASSUME WritingAssumption == Writing!BoundsAssumption
ASSUME ReviewAssumption == Review!PublicationAssumption

LearningGoalsVars == <<sources, design, archive, request, approvals, changes,
    writes>>
GoalMarkersVars == <<marker, age, task, pending, result, touch, since, asleep>>
TeachingImplementationVars == <<target, teachingReview, progress, teachingPhase,
    teachingBatch, warm, before, attempt, teachingRestarts>>
SectionAuthoringVars == <<inputs, named, session, writingDraft, writingPhase,
    writingBatch, writingRestarts>>
CanvasPublicationVars == <<source, practice, lectureDraft, lectureReview, published,
    variant, shown, assessed, pc, seen, kept, lock, texts,
    faults>>
vars == <<component, LearningGoalsVars, GoalMarkersVars,
    TeachingImplementationVars, SectionAuthoringVars, CanvasPublicationVars>>

Begin ==
    /\ component \in {"approvals", "markers", "teaching tasks", "sections",
                     "review", "languages", "failing languages"}
    /\ Approvals!Init
    /\ component # "approvals" => sources = Before /\ design = NoDesign
    /\ Markers!Init
    /\ Teaching!Init
    /\ component # "teaching tasks" => teachingReview = Nothing /\ \A g \in Goals : target[g] = 1
    /\ Writing!Init
    /\ component # "sections" => named = {} /\ \A s \in Pair : writingDraft[s] = Nothing
    /\ Review!Init

Step ==
    /\ UNCHANGED component
    /\ \/ /\ component = "approvals" /\ Approvals!Next
          /\ UNCHANGED <<GoalMarkersVars, TeachingImplementationVars,
                        SectionAuthoringVars, CanvasPublicationVars>>
       \/ /\ component = "markers" /\ Markers!Next
          /\ UNCHANGED <<LearningGoalsVars, TeachingImplementationVars,
                        SectionAuthoringVars, CanvasPublicationVars>>
       \/ /\ component = "teaching tasks" /\ Teaching!Next
          /\ UNCHANGED <<LearningGoalsVars, GoalMarkersVars, SectionAuthoringVars,
                        CanvasPublicationVars>>
       \/ /\ component = "sections" /\ Writing!Next
          /\ UNCHANGED <<LearningGoalsVars, GoalMarkersVars, TeachingImplementationVars,
                        CanvasPublicationVars>>
       \/ /\ component = "review" /\ Review!Next /\ texts' = 0 /\ Review!Version' <= 1
          /\ UNCHANGED <<LearningGoalsVars, GoalMarkersVars, TeachingImplementationVars,
                        SectionAuthoringVars>>
       \/ /\ component = "languages" /\ Review!Next /\ FirstDesign /\ faults' = 0
          /\ UNCHANGED <<LearningGoalsVars, GoalMarkersVars, TeachingImplementationVars,
                        SectionAuthoringVars>>
       \/ /\ component = "failing languages" /\ Review!Next /\ FirstDesign /\ texts' <= 1
          /\ UNCHANGED <<LearningGoalsVars, GoalMarkersVars, TeachingImplementationVars,
                        SectionAuthoringVars>>

\* One component runs.
Spec ==
    /\ Begin /\ [][Step]_vars

\* Approved goals are the goals that were approved, each approval is archived,
\* and an approved design is replaced only by one who knows of it.
ApprovalsAreKnowing ==
    /\ []Approvals!TypeOK
    /\ []Approvals!ApprovalMeansItsGoals
    /\ []Approvals!ApprovalsAreArchived
    /\ Approvals!ApprovedIsReplacedKnowingly

\* A lecture that waits for proposed goals is shown as proposing.
WaitingIsProposing ==
    /\ Markers!TypeOK
    /\ Markers!WaitingIsProposing

\* A teaching task without a label passed its review, a labelled one was
\* repaired first; fixed tasks are never written and one review runs at a
\* time.
TasksAreReviewed ==
    /\ []Teaching!TypeOK
    /\ []Teaching!UnlabelledIsReviewed
    /\ []Teaching!LabelledWasRepaired
    /\ Teaching!FixedIsReadOnly
    /\ Teaching!ReviewIsSingle

\* An accepted section is sound or was repaired before its warning, one
\* critique is spent on it, and it is kept through restarts.
SectionsAreAccepted ==
    /\ []Writing!TypeOK
    /\ []Writing!WarnedWasRepaired
    /\ []Writing!AcceptedIsSound
    /\ Writing!CritiqueIsSingle
    /\ Writing!AcceptedIsKept

\* An approval on disk is of the draft it is stored with, whatever is
\* regenerated, edited or fails.
ApprovalsAreOfTheDraft ==
    /\ Review!TypeOK
    /\ Review!ApprovalIsOfTheDraft

\* What is published is what its reviewer saw, made of the sources and the
\* practice design of that moment.
PublishedIsReviewed ==
    /\ Review!PublishedAsReviewed

\* A translation offered is one of what is published and as it was previewed,
\* versions rise, and the language of the assessments stays.
VariantsFollowThePublication ==
    /\ []Review!VariantsTranslateThePublication
    /\ Review!VersionsRise
    /\ Review!VariantAsPreviewed
    /\ Review!AssessmentLanguageStays

\* What is alike may be exchanged.
Symmetry ==
    Permutations(Pair)
    \cup Permutations(Others)
    \cup Permutations(Drafts)
==============================================================================
