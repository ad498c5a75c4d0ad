# Verification of lecture-pilot's shared state

lecture-pilot is a FastAPI service (`apps/api`) with a React client (`apps/web`),
a LaTeX compiler and a document converter. Professors upload course material,
the service drafts canvases with language models, professors approve and publish
them, learners work with them. Most of what can go wrong silently sits in the
API: durable state is a tree of files and a few tables, changed by request
threads and background tasks that fail, are cancelled, outlive their leases or
die half-way. This directory models those protocols in TLA+, checks them with TLC
and proves some of what they promise with TLAPS.

Paths are relative to `apps/api/src/lecturepilot/` unless they start with another
directory. `PROJECT.json` maps every definition to the lines it translates.

## Inventory

| Component | State it keeps | Operations and interaction | Hard behaviour | What makes it correct |
|---|---|---|---|---|
| **Course updates** (`courses/course_update*.py`, `sources/course_source_cleanup.py`) | live sources, workspace, routing; per update a directory with uploads, `.applying`, `.committed`, `.recovery-*` | create, upload, discard, apply, clean up; every route under the course lock recovers first | a crash or error between any two file operations, a failing rollback or recovery, readers that skip the lock | all files of an update change or none; nothing works over an interrupted one; recovery settles in the end |
| **Canvas generation jobs** (`authoring/course_canvas_generation*.py`, `llm/generation_slots.py`) | records with a lease, ownership file, practice design, draft; tasks, heartbeats, threads, slots in memory | request, duplicate, cancel, supersede, own, repair, write, complete, fail | asyncio cancellation, threads that outlive their task, lapsed leases, restarts | drafts change in the order of ownership; a record ends once and tells what became of the draft |
| **Canvas snapshots** (`canvas/canvas_snapshot.py`, `canvas/published_snapshot_validity.py`) | draft and published directories, `.old`/staging siblings, lock files, remembered verdicts | read, list, repair, replace; used by publication and generation | crash or failure between renames, several processes and threads | a reader finds a whole snapshot of the last replacement; no deadlock; verdicts are of the files they are remembered for |
| **Canvas publication and languages** (`canvas/course_canvas_store.py`, `authoring/course_canvas_approval_publication.py`, `canvas/canvas_language_*.py`) | draft, review, publication, variants, assessment language | edit the learning map, approve, publish, translate, preview, publish a variant | read before the lock, fail after the first of two writes | what is published is what was reviewed; a variant translates this publication |
| **Change requests** (`authoring/canvas_change_*.py`) | record, job, private drafts | request, select, rewrite, splice into the draft, retry | a retry after the write, another draft in between | a change is applied once and overwrites nothing else |
| **Learning goals** (`learning_design/learning_*`, `course_learning_intent_store.py`) | design, approvals, archive | propose, edit, approve, keep, repair | source read before the model call and used after it | an approval means its goals; an approved design is replaced knowingly |
| **Goal proposal jobs** (`learning_design/learning_goal_proposal_jobs.py`) | a marker per lecture with a lease | mark all, propose one by one, heartbeat | two threads write the marker | a waiting lecture is shown as proposing |
| **Teaching implementation** (`learning_design/teaching_design_job.py`, `teaching_recovery.py`) | a directory of tasks, review, progress | write, review, flag, repair, resume | parallel calls, interruption between save and progress | an unlabelled task passed its review |
| **Section authoring** (`authoring/authoring_job.py`, `authoring_state.py`) | session, drafts, critique | write, criticise, repair, resume, discard | resume after any step, changed inputs | an accepted section is sound or labelled; one critique |
| **Lecture states** (`courses/lecture_states.py`) | nothing: derived from all of the above | derive state and next action | derived from files several jobs change | what is offered is possible; a failure hides no usable result |
| **Course access, links, deletion** (`courses/course_access.py`, `course_invites.py`, `course_deletion.py`, `lecture_access_*.py`) | course row, enrolment, workspace file, link | edit rules, upload, share, join, delete, answer a learner | row and file are two stores; rules are read one after the other | row and file agree at rest; answers follow rules in force |
| **Accounts and sessions** (`identity/`) | credential, links, sessions, cookies | ask for a link, confirm, sign in, renew, revoke, disable | row locks, a pool of connections, lost responses | sessions rest on the password in force and end |
| **Usage quota** (`llm/usage_quota.py`) | a row per user and day | reserve, release, consume and refund images | cancellation and death between reservation and release, midnight | counters are those of the turns under way |
| **Model requests** (`llm/model_rate_limits.py`, `llm/model_usage*.py`, `authoring/authoring_limits.py`) | slots, pause, budget, totals | wait, send, retry, record | wake-ups, unknown usage, retries | no slot is left unused by a waiter; budgets hold; totals are exact where known |
| **Practice exam generation** (`exams/practice_exam_generation_*.py`, `practice_exam_lease.py`) | records with leases, exams | begin, reclaim, renew, settle, prune | stalls, lapsed leases, crashes | a record is ended by its owner, once |
| **Exam planning** (`exams/practice_exam_planner.py`, `..._repair.py`, `..._solution_review.py`) | none: one call | plan, validate, repair, two reviews, placeholders | the order of repair and reviews | an active question passed both reviews as it stands |
| **Exam submissions** (`exams/practice_exam_store.py`, `..._attempts.py`, `..._pdf.py`) | exams, attempts, sheets | save, withdraw, delete, render | rendering without the lock, removal that stops half-way | confirmed answers stay; a deleted exam keeps none |
| **Coaching** (`learner/coaching_*.py`) | pending check, evidence, review, gate | prepare, assess, record, help, review, recover | two tabs, a crash between the two files, delayed reviews | independent answers are fresh and unassisted; stored state can be resumed |
| **Readiness check** (`exams/exam_readiness*.py`) | attempts, open tasks | choose questions, submit, record | grading while the lecture changes | every lecture is covered, in balance; one first try |
| **Quiz answers** (`learner/learner_state.py`, `analytics/`) | quiz file, event log | record, log, summarise | lost responses and events, retries, republication | each accepted answer is logged once; summaries agree |
| **Predictions and comments** (`canvas/canvas_predictions.py`, `canvas_annotations.py`) | prediction per block, comments | predict, write, remove | read before the lock | no lost edit; the first prediction stays |

Not modelled: the *tutor agent tools*, the *source ingestion* and the *practice
design pipeline* are model calls, prompts, parsing and validation of answers, whose
protocol state is in the modules above; *storage migrations* run once before the
server takes requests; the *web client* leaves every decision on shared state to
the API; the *LaTeX compiler* and the *document converter* are stateless; *database
migrations* are generated; the *request rate limit* is a counter under one lock
and the *usage pages* are sums.

## Modules

A module models one component. `MC...` modules give instances to TLC, `...Proofs`
modules hold the theorems.

| Module | Models | Instantiated in |
|---|---|---|
| `AtomicUpdate` | abstract: one value that changes in all requested files at once | `CourseUpdate` |
| `CourseUpdate` | course updates; refines `AtomicUpdate` | `MCCourseUpdate` |
| `DraftRegister` | abstract: a draft with fenced owners | `GenerationJobs` |
| `GenerationJobs` | canvas generation jobs and draft ownership; refines `DraftRegister` | `MCGenerationJobs`, `MCProgress` |
| `SnapshotRegister` | abstract: a register a reader always finds whole | `CanvasSnapshot` |
| `CanvasSnapshot` | canvas directories and their locks; refines `SnapshotRegister` | `MCCanvas` |
| `LectureStates`, `ChangeRequests` | lecture states; change requests | `MCCanvas`, `MCProgress` |
| `LearningGoals`, `SectionAuthoring`, `CanvasPublication` | goals and approvals; section drafts; review, publication, languages | `MCAuthoring` |
| `GoalMarkers`, `TeachingImplementation` | proposal jobs; teaching tasks | `MCAuthoring`, `MCProgress` |
| `Coaching`, `ExamReadiness`, `QuizAnswers`, `ExamPlanning`, `PracticeSubmissions`, `LearnerNotes` | the records of a learner | `MCLearner` |
| `Sessions`, `CourseAccess`, `UsageQuota` | sessions; access; quota | `MCServices` |
| `Accounts`, `ModelRequests`, `PracticeExams` | sign-in; model requests; exam runs | `MCServices`, `MCProgress` |
| `CourseUpdateProofs`, `CourseUpdateRefinement`, `GenerationJobsProofs`, `CanvasSnapshotProofs` | proofs about those four modules | |
| `CanvasProofs`, `AuthoringProofs`, `LearnerProofs`, `ServicesProofs` | proofs about the components of `MCCanvas`, `MCAuthoring`, `MCLearner`, `MCServices` | |

**Composition.** `MCAuthoring`, `MCCanvas`, `MCLearner`, `MCServices` and
`MCProgress` hold several components that share no variable. `component` is
chosen at the start; `Step` is a step of that component that leaves the
variables of all others as they began. A behaviour of such a module is therefore a
behaviour of one component with the others at rest, and a property of several
components is the conjunction of theirs. Where components do share files
(a generation and the lecture state derived from it, say), each module has
the other's visible effect as an external action (`Generate`, `ApproveGoals`,
`EditSources`, ...), which the map marks as external and names by module.

Operators commented "Mutant of ..." are bugs one could plausibly write into the
operator after them. No specification uses them; each shows that a property
notices the bug. A definition that is neither a mutant, nor checked by a run is
one the code does not satisfy: see *Disagreements*.

### CourseUpdate

A worker `w` is a request thread. `pc[w]` says where it is; `lock` is the course
lock (a thread lock and a file lock in `course_update_lock`, one lock here, since a
crash releases both). The disk is `live` (source files, the workspace document,
the routing, the lecture manifests), and for each update directory `root`,
`staged`, `applying`, `committed`, `journal` (files named by its
`.recovery-*/journal.json`, empty when there is none) and `backup` (the saved
contents). The content of a file is the update that wrote it, an edit, the initial
content or absence: the properties only ask who wrote it.

| Code | Actions |
|---|---|
| `course_update_lock`, `locked_course_state` | `Enter`, `Recovered`, `RecoveryFails` |
| `_recover_update`, `_restore_record`, `retire_committed_course_update` | `RecoverCommitted`, `RecoverJournaled`, `Restore`, `Restored`, `RecoverUnjournaled`, `Unmark` |
| `recover_interrupted_course_updates`, `read_course_workspace` | `RecoveredForRead`, `SkipRecovery`, `ReadWorkspace` |
| update routes, course routes | `CreateUpdate`, `UploadMaterial`, `DiscardUpdate`, `DiscardFails`, `EditWorkspace`, `UploadToCourse`, `ReleaseUnchanged` |
| `begin_course_update_apply`, `confirm_and_prune_sources` | `BeginApply`, `BeginPrune`, `BeginFails` |
| `_apply_course_update_locked` | `Select`, `SelectFails` |
| `_StagedFileTransaction.apply`, `track_file`, `_promote_update` | `Save`, `JournalFiles`, `Copy`, `Track`, `JournalAll`, `Write`, `MarkCommitted`, `RetireCommitted` |
| their exception paths | `TransactionFails`, `CommitSyncFails`, `RetireFails`, `RollbackFile`, `RollbackFileFails`, `RollbackFailed`, `RollbackAbandoned`, `RolledBack`, `Finish`, `FinishFails` |
| process death | `Crash` |

Abstractions. The source index is derived from the files and left out. Directories
renamed to `.retired-recovery` are garbage and left out. A recovery directory
whose journal does not exist yet counts as none, since recovery treats both alike.
The saves of one phase are one step: before the journal is written nobody reads
them. The order in which a phase copies or writes its files is arbitrary. A
clean-up's directory and marker appear in one step, and the choice of what it
removes comes after the marker instead of before it, under the same lock. Course
deletion is not modelled: the course exists.


### GenerationJobs

One lecture and one server process (`apps/api/Dockerfile` starts a single uvicorn
worker). A *claim* `r` stands for a pair of generation id and attempt, and at most one
task works for it. A step is what runs between two awaits. `stage[r]`
follows the request that made the claim, then its task; `thread[r]` is what a
worker thread still does for it, and `call[r]` a store call still in the pool: both
outlive the task, because cancelling a task ends its await and not the thread.

| Code | Actions |
|---|---|
| `run_idempotent_canvas_generation` | `Claim`, `StartPolling`, `Proceed`, `SupersededRaised`, `WaiterCancelled` |
| `_wait_for_existing_or_claim` | `PollClaim`, `PollAnswered`, `RequestCancelled` |
| `cancel_canvas_generation` | `CancelRecord` (locked part), `CancelTask` |
| `_execute`, `background_generation_slot` | `Begin`, `Start`, `WorkRaises`, `Return`, `Close`, `CallDropped` |
| `begin_owned_generation_source` | `TakeOwnership` |
| `repair_implementation`, `save_implementation` | `StartSave`, `SaveImplementation` |
| `write_current_draft` | `StartWrite`, `WriteDraft` |
| any operation of a thread that raises | `ThreadRaises` |
| `CanvasGenerationStore.complete`, `fail` | `StoreCall`, `StoreCallFails` |
| `touch`, `_heartbeat`, the lease | `Touch`, `HeartbeatRaises`, `Lapse` |
| apply of an update; approval of the learning goals | `EditSources`, `ApproveDesign` |
| process death | `Crash` |

`CancelledStage` states what `task.cancel()` does at each await of `_execute`: a
task cancelled before its first step never runs its body; inside the `try` it goes
to the handler that fails the record as interrupted (shielded); while it awaits its
heartbeat in `finally`, the cancellation is swallowed by `suppress`; in the last
store call nothing handles it.

Abstractions. A record the owner cancelled has status `cancelled` (in the code
`failed` with error code `cancelled`). Model calls succeed or raise
(`WorkRaises`). All generation kinds share the stages: the full generation writes
its draft on the event loop, the change request in a thread; the thread is
the general case. Parsing and taking ownership are one step of the thread.
The practice design is its revision and the source revision it is approved for: saving unapproved goals and
approving them is one step, because between the two every operation is refused,
which `ThreadRaises` allows at any time; whether the
implementation is reviewed is left out, since an unreviewed one is repaired before the
draft is written or the write raises. Waiting for a slot is not first-in first-out.
Practice exams take slots too and are left out. Done tasks leave the registries at
once (`IsActive`). Pruning may keep records whose file cannot be removed. The lease
of a live attempt lapses too, at the price of a fault. A heartbeat that raises
`OSError` and a revocation that cannot be written are not modelled.


### CanvasSnapshot

A thread `t` of process `ProcessOf[t]` replaces, reads or lists a path. `target`,
`backup` and `staging` are the directory and its siblings on disk; a snapshot is
the number of its build, `Missing` or `Torn` (partly removed). The locks of a path are
one per process and one in the file system; a writer takes all paths of its
`LockSet`, those of the process first, in the order of their names. `mended` is what a writer or a
repairing reader has repaired so far; `cache` the verdicts a process remembers.
Every rename, build and sync may fail and a process may crash, as far as `Faults`
allows. A snapshot's validity is not a property of its files here: a verdict is
compared with the snapshot it was reached on.

| Code | Definitions |
|---|---|
| `_LOCK_REGISTRY` in `canvas_snapshot.py` | `Locks` |
| `locked_canvas_access` in `canvas_snapshot.py` | `PathsOf`, `Before`, `Take`, `Forget` |
| `_thread_lock, _file_lock` in `canvas_snapshot.py` | `Needed`, `CanTake`, `Released` |
| `read_current_published_snapshot` in `course_canvas_context.py` | `Start` |
| `locked_canvas_paths` in `canvas_snapshot.py` | `Enter`, `Mended` |
| `_recover_interrupted_replace` in `canvas_snapshot.py` | `MendRestore`, `MendRemove`, `MendFails` |
| `CourseCanvasStore.read_published_canvas` in `course_canvas_store.py` | `Read` |
| `PublishedSnapshotValidity.check` in `published_snapshot_validity.py` | `Check` |
| `PublishedSnapshotValidity.check, snapshot_signature` in `published_snapshot_validity.py` | `Confirm` |
| `replace_canvas_snapshot` in `canvas_snapshot.py` | `MakeStaging`, `Build`, `MoveOut`, `Undoing`, `MoveIn`, `Undo`, `Restore`, `Drop`, `Clean` |
| `_fsync_tree, _fsync_directory` in `canvas_snapshot.py` | `Fails` |

### LectureStates

One lecture: sources, routing, design, approval, draft, publication, one record
per job and the marker of proposals. File times are the order `recent` of pairs
of a job and the approval, since only their comparison is used. The derivation is
one read of all files. What changes the files are the actions of the other
components, reduced to what they leave in them.

| Code | Definitions |
|---|---|
| `_lecture_state` in `lecture_states.py` | `Approved`, `Current`, `Goals` |
| `latest_generation` in `lecture_states.py` | `Latest` |
| `_draft_state` in `lecture_states.py` | `Generating`, `Ready`, `Draft`, `Lapse` |
| `publication_current` in `lecture_states.py` | `Published` |
| `current_draft_digest` in `lecture_states.py` | `DraftCurrent` |
| `_failure` in `lecture_states.py` | `Failure` |
| `_DRAFT_ACTIONS` in `lecture_state_models.py` | `DraftAction` |
| `next_action` in `lecture_state_models.py` | `NextAction` |
| `CourseSourceInputs` in `lecture_source_revision.py` | `EditSources` |
| `_routing_current` in `lecture_states.py` | `ConfirmRouting` |
| external: a proposal or an edit of goals, module LearningGoals | `ProposeGoals` |
| `mark_goal_proposals_running` in `learning_goal_proposal_jobs.py` | `MarkProposing` |
| external: the background proposal, module GoalMarkers | `ProposalEnds` |
| `GoalProposalJob` in `learning_goal_proposal_jobs.py` | `MarkerLapses` |
| external: an approval of the goals, module LearningGoals | `ApproveGoals` |
| `require_keepable` in `learning_intent_keep.py` | `KeepGoals` |
| `require_current_practice_design` in `course_canvas_generation_precheck.py` | `Accepted` |
| `CanvasGenerationStore.begin` in `course_canvas_generation_jobs.py` | `Begin`, `Retry` |
| `run_idempotent_canvas_generation` in `course_canvas_generation_service.py` | `Supersede`, `Start` |
| `begin_owned_generation_source` in `course_canvas_generation_ownership.py` | `Prepare` |
| `require_generation_ownership` in `course_canvas_generation_ownership.py` | `Owns` |
| `replace_generation_design` in `course_canvas_generation_ownership.py` | `Repair` |
| `write_current_draft` in `course_canvas_generation_persistence.py` | `WriteDraft` |
| `CanvasGenerationStore.touch` in `course_canvas_generation_jobs.py` | `Heartbeat` |
| `CanvasGenerationStore._finish` in `course_canvas_generation_jobs.py` | `Complete` |
| `_execute` in `course_canvas_generation_service.py` | `Fail` |
| external: the server stops | `Crash` |
| `validate_practice_design_binding` in `course_practice_design_binding.py` | `PublishAccepted` |
| external: approve and publish, module CanvasPublication | `Publish` |

### ChangeRequests

A request marks each section it changes; a document is the sequence of marks of
every section with the draft and the design it comes from. Base, selection, private
drafts, critique and one repair follow the code; the calls of one batch are those of
`SectionAuthoring`, the job store is that of `GenerationJobs`. `LateCrashes` says
whether the server may stop between the write of a draft and the end of its job;
the run and the theorem set it to FALSE, see `AppliedOnce` under *Disagreements*.

| Code | Definitions |
|---|---|
| `change_request_base` in `canvas_change_base.py` | `Current`, `SameDocument`, `Base`, `Running` |
| `register_canvas_change_routes` in `canvas_change_routes.py` | `Check`, `Claim`, `Retry` |
| `_sections` in `canvas_change_authoring.py` | `Fail` |
| `require_generation_ownership` in `course_canvas_generation_ownership.py` | `Authorized` |
| `generate_canvas_change` in `canvas_change_generation.py` | `Prepare`, `ReadBase`, `Complete` |
| `selectable_sections` in `canvas_change_selection.py` | `Selections` |
| `run_change_job` in `canvas_change_authoring.py` | `Open` |
| `_run` in `canvas_change_authoring.py` | `Change`, `Critique`, `Repair` |
| `_checked` in `canvas_change_authoring.py` | `CheckLecture` |
| `splice_sections` in `canvas_change_splice.py` | `Splice` |
| `write_current_draft` in `course_canvas_generation_persistence.py` | `WriteDraft` |
| `write_change_record` in `canvas_change_models.py` | `WriteRecord` |
| external: an ordinary generation of the lecture, module GenerationJobs | `Generate` |
| external: the draft of an ordinary generation, module GenerationJobs | `GenerationWrites` |
| external: approve and publish, module CanvasPublication | `Publish` |
| external: an edit of the sources | `EditSources` |
| external: an approval of the goals, module LearningGoals | `ApproveGoals` |
| external: the server stops | `Crash` |

### LearningGoals

The design of one lecture, the archive of approved ones and what each request
holds between its read and its write. `sources` is the content of the source files, equal
contents having equal revisions; `Supports` says which goals have their anchors in
which content. Advisory findings never block and are left out.

| Code | Definitions |
|---|---|
| `PracticeDesign` in `course_practice_design_models.py` | `Designs` |
| `read_practice_design` in `course_practice_design_snapshot.py` | `Stored` |
| `_revision_payload` in `course_practice_design_models.py` | `Revision` |
| `has_approved_intent` in `course_learning_intent.py` | `Approved` |
| `LearningIntent.from_design` in `course_learning_intent.py` | `Bound` |
| `write_design_file` in `course_practice_design_files.py` | `WriteDesign` |
| external: course updates and routing reviews (module CourseUpdate) | `ChangeSources` |
| `propose_lecture_goals` in `learning_goal_proposal_run.py` | `StartProposal`, `SaveProposal` |
| `register_learning_intent_routes` in `course_learning_intent_routes.py` | `StartEdit`, `StartApproval`, `SaveEdit` |
| `require_keepable` in `learning_intent_keep.py` | `Keepable` |
| `register_learning_intent_keep_route` in `learning_intent_keep_routes.py` | `StartKeep`, `SaveKeep` |
| `repair_implementation` in `course_teaching_implementation.py` | `StartRepair`, `SaveRepair` |
| `course_builder_source_document` in `course_builder_source.py` | `SelectSources`, `ConfirmSelection` |
| `_derive_source_document` in `course_builder_source.py` | `Parse` |
| `_source_context` in `course_practice_design_route_context.py` | `ReadRevision` |
| `LearningIntentStore.save_goals` in `course_learning_intent_store.py` | `Proposed` |
| `LearningIntentStore.approve` in `course_learning_intent_store.py` | `SaveApproval` |
| `keep_learning_intent` in `learning_intent_keep.py` | `Kept` |
| `LearningIntent.require_matches` in `course_learning_intent.py` | `Repairs` |
| `LearningIntentStore.save_implementation` in `course_learning_intent_store.py` | `Refuse` |
| `_migrated` in `storage_migration_practice_design_schema.py` | `Migrated` |
| `snapshot_practice_design` in `course_practice_design_snapshot.py` | `Init` |

### GoalMarkers

A marker per lecture of one update, its age in heartbeat periods, and the threads
that write it. The heartbeat sleeps one period and is at most one late; a
thread writes within `Delay` periods. In the code the lease is 60 s and a period 15 s,
so `Lease = 4`.

| Code | Definitions |
|---|---|
| `GoalProposalJob` in `learning_goal_proposal_jobs.py` | `Proposing` |
| `mark_goal_proposals_running` in `learning_goal_proposal_jobs.py` | `Mark` |
| `start_goal_proposals` in `learning_goal_proposal_jobs.py` | `Start` |
| `_propose_all` in `learning_goal_proposal_jobs.py` | `Propose`, `End` |
| `_finish` in `learning_goal_proposal_jobs.py` | `Record` |
| `_heartbeat` in `learning_goal_proposal_jobs.py` | `Beat` |
| `_touch` in `learning_goal_proposal_jobs.py` | `TouchRead` |
| `_write` in `learning_goal_proposal_jobs.py` | `TouchWrite` |
| external: the server process stops | `Crash` |
| external: a heartbeat period of time passes | `Tick` |
| `read_goal_proposal` in `learning_goal_proposal_jobs.py` | `Init` |

### TeachingImplementation

The job directory of one goal set: the task versions, the review that saw them,
`progress.json`, and the calls of the current batch. `before` is what a batch is
to improve on. A call answers or fails; a lost ownership is a failure.

| Code | Definitions |
|---|---|
| `TeachingDesignWorkspace.defects` in `teaching_design_workspace.py` | `Reviews` |
| `TeachingDesignWorkspace.missing` in `teaching_design_workspace.py` | `Missing` |
| `_TeachingStep.bounded` in `teaching_design_job.py` | `Enter`, `Call` |
| `continue_saved_implementation` in `teaching_recovery.py` | `Begin`, `Fail` |
| `TeachingDesignWorkspace.write` in `teaching_design_workspace.py` | `Write` |
| `_run` in `teaching_design_job.py` | `Return`, `Pending`, `Written` |
| `_TeachingStep.ensure_review` in `teaching_design_job.py` | `Review` |
| `_TeachingStep.conflict_goals` in `teaching_design_job.py` | `Flag` |
| `_TeachingStep.repair_goal` in `teaching_design_job.py` | `Repair` |
| `repaired_review` in `teaching_design_job.py` | `Complete` |
| `run_teaching_design_job` in `teaching_design_job.py` | `Restart` |
| `TeachingDesignWorkspace.__init__` in `teaching_design_workspace.py` | `InitProposed` |
| `_TeachingStep.adopt_review` in `teaching_design_job.py` | `InitAdopted` |

### SectionAuthoring

The directory of one authoring job: `session` with inputs, critique and repaired
sections, and the section drafts; `named` are the sections a change of sources
affects. A run may end after any step and a later one resumes from the directory,
for the same or for other inputs.

| Code | Definitions |
|---|---|
| `_run` in `authoring_job.py` | `Missing`, `Pending`, `NextStep`, `Complete` |
| `SectionAuthor.lecture_defects` in `authoring_job.py` | `Defective` |
| `AuthoringWorkspace.digest` in `authoring_workspace.py` | `Digest` |
| `state_identity` in `authoring_state.py` | `Fresh` |
| `load_state` in `authoring_state.py` | `Load` |
| `_discard_resume_state` in `authoring_state.py` | `DiscardDrafts` |
| `SectionAuthor.bounded` in `authoring_job.py` | `Enter` |
| `AuthoringWorkspace.write` in `authoring_workspace.py` | `Write` |
| `SectionAuthor._author` in `authoring_job.py` | `Return` |
| `AuthoringCritique` in `authoring_state.py` | `Critiques` |
| `AuthoringState` in `authoring_state.py` | `Sessions` |
| `AuthoringWorkspace.section` in `authoring_workspace.py` | `Kinds` |
| `critique_document` in `authoring_critique.py` | `Critique` |
| `run_authoring_job` in `authoring_job.py` | `Stop` |
| external: the source document, the design or the model of a later request differs | `ChangeInputs` |
| `reuse_unaffected_sections` in `authoring_reuse.py` | `Init` |

### CanvasPublication

One lecture. A request is reviewing, approving, publishing or translating; `seen`
is what it read before the lock, `kept` the review it restores when publication
fails. Documents, learning maps and translations are values; a file that holds one
was validated when it was written.

| Code | Definitions |
|---|---|
| `read_published_snapshot_locked` in `course_canvas_context.py` | `Version` |
| `CourseLearningDesignStore._locked_draft` in `course_learning_design_store.py` | `Goto` |
| `validate_practice_design_binding, require_bound_practice_design` in `course_practice_design_binding.py` | `SameDraft` |
| `_require_request_version` in `course_learning_design_store.py` | `SameDesign` |
| `_current_review` in `course_learning_design_store.py` | `Current` |
| `CourseLearningDesignStore.approve` in `course_learning_design_store.py` | `Approved`, `Approve` |
| `_apply_course_update_locked` in `course_update_apply.py` | `EditSources` |
| `approve_learning_intent` in `course_learning_intent_routes.py` | `ApprovePractice` |
| `CourseCanvasStore.write_draft` in `course_canvas_store.py` | `WriteDraft` |
| `CourseLearningDesignStore.read` in `course_learning_design_store.py` | `ReadDesign` |
| `CourseLearningDesignStore.update` in `course_learning_design_store.py` | `UpdateDesign` |
| `_run` in `course_learning_design_routes.py` | `Leave` |
| `approve_and_publish` in `course_canvas_approval_publication.py` | `Release`, `BeginApproval`, `ApprovalRefused`, `Revert` |
| `CourseCanvasStore.publish_draft` in `course_canvas_store.py` | `NextVersion`, `Publish` |
| `publication_metadata` in `course_canvas_publication.py` | `Snapshot` |
| `_write_validated_publication` in `course_canvas_store.py` | `PublishFails` |
| `validate_variant` in `canvas_language_variants.py` | `Valid` |
| `register_canvas_language_routes.generate` in `canvas_language_routes.py` | `Translate`, `WriteVariant` |
| `register_canvas_language_routes.preview` in `canvas_language_routes.py` | `Preview` |
| `publish_variant` in `canvas_language_variants.py` | `MayPublishVariant` |
| `CanvasLanguageStore.declare_assessment_language` in `canvas_language_store.py` | `Declare` |
| `register_canvas_language_routes.publish` in `canvas_language_routes.py` | `PublishVariant` |
| `initialize_learning_design` in `course_learning_design_store.py` | `Init` |

### CourseAccess

One course with one lecture whose canvas is published. `db` is the row, `file` the
workspace document, `rest` the files of a course that a deletion removes; a request
of an editor goes through the steps of its route under the course lock, a learner's
request reads row and file one after the other. The id of a course is unknown before
its file is written. Deletion outside the course root, lists of courses and audit
events are left out.

| Code | Definitions |
|---|---|
| `CourseAccessPolicy` in `lecture_access_models.py` | `Policies` |
| `PublicationMode` in `lecture_access_models.py` | `Modes` |
| `LectureAccessRule` in `lecture_access_models.py` | `Rules` |
| `LectureAccessRuleInput` in `lecture_access_models.py` | `Materialize` |
| `course_default_rule` in `lecture_access_policy.py` | `EffectiveRule` |
| `effective_publication_at` in `lecture_access_policy.py` | `PublicationAt` |
| `release_status` in `lecture_access_policy.py` | `Released` |
| `audience_allows` in `lecture_access_policy.py` | `AudienceAllows` |
| `can_consume_lecture` in `lecture_access_policy.py` | `CanConsume` |
| `CourseRepository.is_owner` in `course_repository.py` | `Owned` |
| `CourseRepository.create` in `course_repository.py` | `CreateCourse` |
| `CourseRepository.owned_course` in `course_repository.py` | `Begin` |
| `CourseRepository.delete` in `course_repository.py` | `DeleteCourse` |
| `delete_course_files` in `course_deletion.py` | `DeleteCourseFiles` |
| `_locked_owned_workspace` in `lecture_access_routes.py` | `TakeLock` |
| `CourseRepository.update_access_policy` in `course_repository.py` | `UpdateDatabasePolicy` |
| `register_lecture_access_routes` in `lecture_access_routes.py` | `WriteCourseRule`, `RestoreDatabasePolicy`, `WriteOverride` |
| `merge_course_workspace` in `course_workspace.py` | `Merge` |
| `register_course_routes` in `course_routes.py` | `WriteWorkspace`, `CreateFails`, `PromoteUpload` |
| `register_course_invite_routes` in `course_invites.py` | `Shareable`, `ShareCourse`, `RotateInvite`, `DisableInvite`, `RequireValidCode`, `Join` |
| `resolve_course` in `course_access.py` | `ReadRow`, `ReadCourse` |
| `resolve_course_lectures` in `course_access.py` | `ReadLectures` |
| `require_lecture_id_access` in `course_access.py` | `Decide` |
| `overwrite_course_workspace` in `course_schedule_store.py` | `Finish` |
| external: time | `NextDay` |
| external: the server stops | `Crash` |

### Accounts

One mailbox: its credential, its link, and requests that open, confirm or sign in.
A request takes a connection of the pool, waits for the row lock it needs and ends
with a commit, a refusal or a pool timeout. Roles and earlier identities are left out.

| Code | Definitions |
|---|---|
| `Database.__init__` in `database.py` | `Connect` |
| `Database.session` in `database.py` | `End` |
| `register_local_account_routes` in `local_account_routes.py` | `AskForLink`, `OpenLink`, `BeginConfirm` |
| `LocalAccounts.challenge` in `local_accounts.py` | `BeginLink`, `WriteLink`, `Expire` |
| `LocalAccounts.confirm` in `local_accounts.py` | `LockChallenge`, `Refused`, `Confirm`, `RefuseLink` |
| `register_auth_routes` in `auth_routes.py` | `SignIn` |
| `LocalAccounts.sign_in` in `local_accounts.py` | `BeginSignIn`, `LockCredential`, `ReadAccount`, `CommitSignIn` |
| `IdentityRepository.account` in `identity_repository.py` | `CreateSession` |
| `AccountAdminRepository.disable_user` in `account_admin_repository.py` | `Disable` |
| `SessionStore.revoke_user` in `session_store.py` | `Revoke` |
| external: SQLAlchemy's QueuePool gives up after pool_timeout seconds | `PoolTimeout` |

### Sessions

One session: its expiry, the cookie's lifetime in the browser, and overlapping
requests that renew it. Time passes while no request has an open transaction.

| Code | Definitions |
|---|---|
| `SessionAuthSettings.from_env` in `session_auth.py` | `Reconfigure` |
| `_effective_expiry` in `session_store.py` | `EffectiveExpiry` |
| `_refresh_if_needed` in `session_store.py` | `Renewed` |
| `SessionStore.authenticate` in `session_store.py` | `Authenticate` |
| `request_context` in `api_auth.py` | `Commit` |
| `SessionCookieRefreshMiddleware` in `session_cookie_refresh.py` | `Respond` |
| external: the response does not reach the browser | `LoseResponse` |
| `SessionStore.revoke` in `session_store.py` | `Revoke` |
| `SessionStore.create` in `session_store.py` | `Init` |

### UsageQuota

The row of one user and day. A turn reserves in a worker thread, calls models and
settles; it may be cancelled at each await, and the process may die. `lost` is what
requests without a settlement left in a row.

| Code | Definitions |
|---|---|
| `UsageQuota.reserve_turn` in `usage_quota.py` | `Concurrent`, `Admits`, `Charged` |
| `complete_agent_turn` in `agent_turn_orchestration.py` | `Day`, `Begin`, `Reserve`, `Release` |
| `UsageQuota.release_turn` in `usage_quota.py` | `AtLeast0`, `Refund` |
| `evaluate_open_answers` in `readiness_evaluation_request.py` | `Refused` |
| `agent_turn_events` in `agent_turn_orchestration.py` | `CancelReserving` |
| external: the row a cancelled or dead request leaves behind | `Lose` |
| `UsageQuota.reserve_turn in a thread whose request is over` in `usage_quota.py` | `ReserveForNobody` |
| `accumulate_model_usage, mark_model_usage_unknown` in `model_usage_total.py` | `Call` |
| `UsageQuota.consume_image` in `usage_quota.py` | `ConsumeImage` |
| `AgentSideEffectTools._generate_image` in `agent_side_effect_tools.py` | `ImageMade`, `AbandonImage` |
| `UsageQuota.refund_image` in `usage_quota.py` | `RefundImage` |

### ModelRequests

Concurrent calls of one job to one model: the slots the provider announced, the pause,
the job's budget and the totals. Whether an error is retryable is a choice.

| Code | Definitions |
|---|---|
| `model_request_slot` in `model_rate_limits.py` | `PassPause`, `Free`, `TakeSlot`, `Woken`, `Release` |
| `_wait_until_unblocked` in `model_rate_limits.py` | `Wake` |
| `_notify_waiters` in `model_rate_limits.py` | `Notify` |
| `observe_provider_response, provider_headers, _observe_concurrency_budget` in `model_rate_limits.py` | `Observe` |
| `AuthoringBudget.reserve_request` in `authoring_limits.py` | `MayReserve` |
| `MeteredAuthoringModel.request` in `authoring_provider.py` | `Send` |
| `_complete_with_attempts` in `model_usage.py` | `BudgetSpent`, `Answer`, `Fail`, `Retry`, `GiveUp`, `Cancel`, `Goto` |
| `mark_model_usage_unknown` in `model_usage_total.py` | `Unknown` |
| `observe_provider_response` in `model_rate_limits.py` | `PauseEnds` |

### PracticeExams

Records by idempotency key with lease, attempt and status, and the runs that own them;
`thread` holds the worker threads that outlive a cancelled run. Time is an expiry that may
happen to any running record.

| Code | Definitions |
|---|---|
| `PracticeExamGenerationStatus` in `practice_exam_generation_jobs.py` | `Terminal` |
| `_generate_owned` in `practice_exam_generation_service.py` | `Working`, `PlanFails`, `Complete`, `Cancel`, `ReadRecord`, `FailRecord` |
| `PracticeExamGenerationStore._prune` in `practice_exam_generation_jobs.py` | `IsTerminal`, `Pruned` |
| `PracticeExamGenerationStore._finish` in `practice_exam_generation_jobs.py` | `Owns`, `Active`, `Settle` |
| `start_exam_generation` in `practice_exam_generation_service.py` | `StartRun` |
| `PracticeExamGenerationStore.begin` in `practice_exam_generation_jobs.py` | `BeginNew`, `Reclaim`, `Expire` |
| `create_exam, _replay` in `practice_exam_routes.py` | `Begin` |
| `practice_exam_lease` in `practice_exam_lease.py` | `AskRenewal`, `PlanDone` |
| `PracticeExamGenerationStore.renew` in `practice_exam_generation_jobs.py` | `Renew` |
| `background_generation_slot` in `generation_slots.py` | `TakeSlot` |
| `PracticeExamStore.write` in `practice_exam_store.py` | `WriteExam` |
| external: the API process dies and restarts without its tasks | `Crash` |

### ExamPlanning

One call of the planner: the candidate, its validation, the repair, the blind
review and the review of the answer sheet. Which questions a review rejects is a choice;
coverage and the mix of kinds are computed.

| Code | Definitions |
|---|---|
| `PracticeExamQuestionKind` in `practice_exam_models.py` | `Kinds` |
| `invalidate_exam_questions` in `practice_exam_invalid_questions.py` | `Active`, `Invalidated` |
| `verify_open_answer_sheet` in `practice_exam_solution_review.py` | `OpenActive`, `SheetReview` |
| `validate_practice_exam` in `practice_exam_validation.py` | `Covered`, `Duplicates`, `MixesKinds`, `CoversLectures`, `Validate` |
| `PracticeExamPlanner.plan` in `practice_exam_planner.py` | `Reject`, `Ask`, `AfterReview` |
| `merge_question_repairs` in `practice_exam_repair.py` | `Merged`, `AskedInVain` |
| `validate_practice_exam, _validate_question` in `practice_exam_validation.py` | `Malformed` |
| `validate_practice_exam_review` in `practice_exam_validation.py` | `ReviewUnusable` |
| `validate_practice_exam_review, _validate_review_item, _validate_review_support` in `practice_exam_validation.py` | `BlindReview` |

### PracticeSubmissions

One exam with its files: attempts, the answer sheets rendered without the lock, and a
deletion that stops half-way.

| Code | Definitions |
|---|---|
| `PracticeExamStore.pdf_path, solution_pdf_path` in `practice_exam_store.py` | `Sheets` |
| `PracticeExamStore.delete` in `practice_exam_store.py` | `IsEmpty`, `DeleteExam`, `RemoveFile`, `RemoveAnswers` |
| external: the client submits answers under an id it chose, and retries | `Submit` |
| external: a submission is lost or was handled | `Forget` |
| `PracticeAttemptStore.save` in `practice_exam_attempts.py` | `Save` |
| `PracticeAttemptStore.delete` in `practice_exam_attempts.py` | `Withdraw` |
| `delete_exam` in `practice_exam_routes.py` | `Deleted` |
| external: the removal of the directory raises, or the process dies in it | `DeletionFails` |
| `PracticeExamPdfService.render, render_solutions` in `practice_exam_pdf.py` | `StartRender` |
| `compile_latex_document` in `latex_document_compilation.py` | `Rendered` |
| `PracticeExamPdfService._render_with_fallback` in `practice_exam_pdf.py` | `RenderFails` |

### Coaching

One learner at one gate revision: the pending check, exposed tasks, evidence per
criterion, the scheduled review, `passed` (the gate file, written separately) and the
open tabs. One gate, no republication, no states of earlier versions
(`support_exhausted`), no chat exchanges outside checks, no cap on recorded turns.

| Code | Definitions |
|---|---|
| `_validate_pending` in `learning_state_preflight.py` | `BaseStage`, `PlainRetry`, `PendingIsValid` |
| `_support_stage` in `coaching_transitions.py` | `SupportStage` |
| `canonical_task_id` in `coaching_task_bank.py` | `Bank` |
| `initial_assessment_stage` in `coaching_transitions.py` | `InitialStage` |
| `attempt_kind_for_stage` in `coaching_transitions.py` | `AttemptKind` |
| `GoalEvidence` in `coaching_goal_evidence.py` | `NoGoal` |
| `exposed_ids` in `coaching_task_bank.py` | `Fresh` |
| `derive_next_transition` in `coaching_transitions.py` | `NextFresh`, `AfterPass`, `AfterFailure` |
| `PendingCheck` in `coaching_state_models.py` | `CheckRecords` |
| `DelayedReview` in `coaching_state_models.py` | `ReviewRecords` |
| `CoachingTurnEvent` in `coaching_state_models.py` | `TurnRecords` |
| `_next_assistance` in `coaching_transitions.py` | `NextHint` |
| `pending_from_transition` in `coaching_episode.py` | `Check` |
| `accumulate_goal_evidence` in `coaching_goal_evidence.py` | `GoalAfter` |
| `schedule_delayed_review` in `coaching_episode.py` | `Scheduled` |
| `advance_review` in `coaching_review_schedule.py` | `Advanced` |
| `schedule_after_supported_review` in `coaching_supported_review.py` | `Rescheduled` |
| `record_coaching_turn` in `coaching_turn_record.py` | `ReviewAfterTurn`, `Record` |
| `validate_coaching_bindings` in `learning_state_preflight.py` | `ReviewIsValid`, `Resumable` |
| `record_task_exposure` in `coaching_task_bank.py` | `Bind` |
| `_preflight_learning_state` in `agent_routes.py` | `Preflight` |
| `prepare_coaching_turn` in `coaching_orchestration.py` | `Prepare` |
| `bound_pending` in `coaching_episode.py` | `Bound` |
| `persist_quality_gate` in `agent_gate_persistence.py` | `WriteGate` |
| `persist_coaching_turn` in `coaching_orchestration.py` | `Finish` |
| `request_support` in `coaching_support.py` | `RequestSupport` |
| `bind_delayed_review` in `coaching_check_binding.py` | `OpenReview` |
| `_write_empty_coaching_state` in `coaching_state_recovery.py` | `Emptied` |
| `recover_invalid_coaching_state` in `coaching_state_recovery.py` | `Recover` |
| external: the server process stops | `Crash` |
| external: calendar days pass | `Tick` |
| `CoachingProgress.empty` in `coaching_state_models.py` | `Init` |

### ExamReadiness

The choice of questions as an algorithm over the questions each lecture offers, and
attempts that are graded while lectures are published and progress is reset. Scores
and guidance levels are left out. The loops of the code are functions on the
number of lectures, or of turns over the candidates, gone through so far.

A page is opened in one of two regimes: in `checks` for every offer the lectures can
make, without attempts, in `attempts` for fixed offers with two attempts.

| Code | Definitions |
|---|---|
| `_readiness_check` in `exam_readiness_routes.py` | `Lectures` |
| `record_exam_readiness_attempt` in `exam_readiness_routes.py` | `AttemptRecords` |
| `ReadinessProgressQuestionEvent` in `readiness_progress.py` | `EventRecords` |
| `_questions_for_document` in `exam_readiness.py` | `Offers`, `Group` |
| `_quiz_question` in `exam_readiness.py` | `Question` |
| `build_exam_readiness_check` in `exam_readiness.py` | `Offering`, `QuestionLimit`, `Questions` |
| `_mixed_questions` in `exam_readiness.py` | `Choices`, `Left`, `Mixed` |
| `_coverage_questions` in `exam_readiness.py` | `Cover`, `Coverage` |
| `_round_robin` in `exam_readiness.py` | `Turn`, `RoundRobin` |
| external: a lecture canvas is published | `Publish` |
| `register_exam_readiness_routes` in `exam_readiness_routes.py` | `OpenPage` |
| `validate_exam_readiness_answers` in `exam_revision_plan.py` | `Submit` |
| `evaluate_readiness_answers` in `readiness_evaluation_request.py` | `GradingFails` |
| `ReadinessProgressStore.record_attempt` in `readiness_progress.py` | `Record` |
| `_reset_course_root` in `learner_workspace_reset.py` | `Reset` |
| `ReadinessProgress` in `readiness_progress.py` | `Init` |

### QuizAnswers

One quiz: its file, the event log and requests of one learner's pages, with lost
responses, failing appends, publications and resets. Both summaries are computed
from the log as the code does. Unscored quizzes, small cohorts and quizzes in the
learner's own notes are left out. A summary is a function on the number of log
lines read so far.

| Code | Definitions |
|---|---|
| external: a lecture canvas is published | `Publish` |
| `_reset_course_root` in `learner_workspace_reset.py` | `Reset` |
| `LearnerQuizState` in `learner_lesson_state_models.py` | `States` |
| `QuizOutcomeEvent.validate_outcome` in `analytics_events.py` | `IsValid` |
| `QuizAnswerInput` in `analytics.py` | `Asks`, `Send` |
| `read_published_snapshot` in `course_canvas_context.py` | `ReadPublication` |
| `_current_quiz_state` in `learner_state.py` | `CurrentQuizState` |
| `_correction_state` in `learner_state.py` | `CorrectionState` |
| `LearnerStateStore.record_quiz_answer` in `learner_state.py` | `NextState`, `Bound`, `Solved`, `RecordNew`, `ReturnPrior` |
| `record_quiz_answer` in `analytics_routes.py` | `RecordQuizAnswer` |
| `outcome_event_id` in `analytics_events.py` | `EventId` |
| `AnalyticsStore._append_once` in `analytics.py` | `AppendOnce` |
| external: the server process stops, or a file cannot be written | `Fail` |
| `_read_quiz_payload` in `learner_state.py` | `Init` |
| `QuizMetricsAccumulator.record` in `quiz_analytics.py` | `LectureRecord` |
| `_Aggregate._record_quiz` in `course_analytics.py` | `CourseRecord` |
| `_Aggregate.record` in `course_analytics.py` | `Logged` |
| `AnalyticsStore.summary` in `analytics.py` | `LectureSummary` |
| `course_analytics_summary` in `course_analytics.py` | `CourseSummary` |
| `QuizMetricsAccumulator._metric` in `quiz_analytics.py` | `Shown` |

### LearnerNotes

One learner's prediction for one card and comments on a lecture. In `NotesAreNotLost`
the prediction is checked while the lecture is not republished; what happens
otherwise is under *Disagreements*.

| Code | Definitions |
|---|---|
| `CourseCanvasStore.publish_draft` in `course_canvas_store.py` | `Publish` |
| `require_annotation_access` in `agent_annotation.py` | `Attempt` |
| `PredictionSubmission` in `canvas_prediction_routes.py` | `Ask` |
| `register_canvas_prediction_routes.authorized` in `canvas_prediction_routes.py` | `Authorize` |
| `register_canvas_prediction_routes.save_prediction` in `canvas_prediction_routes.py` | `Refuse` |
| `PredictionStore.list` in `canvas_predictions.py` | `Listed` |
| `PredictionStore.save` in `canvas_predictions.py` | `Record`, `Predict` |
| `AnnotationStore._read` in `canvas_annotations.py` | `Saved` |
| `AnnotationStore.save` in `canvas_annotations.py` | `MayWrite` |
| `write_annotation` in `agent_annotation.py` | `Write` |
| `AnnotationStore.delete` in `canvas_annotations.py` | `Remove` |

## Runs

| Run | Instance | Shows |
|---|---|---|
| `update_safety` | 2 workers, 2 updates and a clean-up for the same file, 2 faults | `Recoverable` (types, one interrupted update, journals, settled backups, no work over an interrupted one), `ImplementsAtomicUpdate`, `CommittedStays`, `MarkedUploadsStay` |
| `update_progress` | 1 update, 1 clean-up, failing commit sync, 2 faults, fair | `InterruptedIsSettled`, `LockIsReleased` |
| `generation` | 2 keys, 2 claims, 1 revision of sources and design, 2 faults | `RecordsAreTrue`, `OwnershipHolds`, `DraftsInOrder`, `EndedStays`, `ImplementsRegister` |
| `authoring` | `LearningGoals`, `GoalMarkers`, `TeachingImplementation`, `SectionAuthoring`, `CanvasPublication` three times | `ApprovalsAreKnowing`, `WaitingIsProposing`, `TasksAreReviewed`, `SectionsAreAccepted`, `ApprovalsAreOfTheDraft`, `PublishedIsReviewed`, `VariantsFollowThePublication` |
| `canvas` | `CanvasSnapshot` four times, `LectureStates`, `ChangeRequests` | `OneToRestore`, `LocksHold`, `Replaces`, `ReadersFindThePublication`, `OfferedIsPossible`, `ChangesApplyOnce` |
| `learner` | `Coaching` twice, `ExamReadiness` in two regimes, `QuizAnswers`, `PracticeSubmissions`, `ExamPlanning`, `LearnerNotes` twice | `CoachingIsIndependent`, `ChecksAreFair`, `QuizAnswersAreLogged`, `SubmissionsAreKept`, `ExamsAreVerified`, `NotesAreNotLost` |
| `services` | `Accounts`, `Sessions` twice, `CourseAccess` twice, `UsageQuota` twice, `ModelRequests`, `PracticeExams` | `CredentialsAreCurrent`, `SessionsEnd`, `AccessFollowsTheRules`, `QuotaIsAccounted`, `RequestsAreBudgeted`, `RunsAreOwned`, `ResultsAreFinal` |
| `authoring_progress` | `GenerationJobs`, `GoalMarkers`, `TeachingImplementation`, `LectureStates`, fair | `AuthoringEnds` |
| `services_progress` | `PracticeExams`, `Accounts`, `ModelRequests`, fair | `ServicesEnd` |
| `update_commit_sync` | as `update_safety` with 2 source files, the sync of the commit marker may fail | violation of `CommittedStays`, finding 1 |
| `coaching_spacing` | `learner`'s `Coaching` with two delayed tasks | violation of `NextReviewIsResumable`, finding 2 |
| `states_repair` | `LectureStates` with repairs of the teaching tasks | violation of `FailureHidesNothing`, finding 3 |

A property of a composed run is the conjunction of properties its component's module
states and explains; each of them includes the type invariant of that component.
A regime that bounds a component more tightly exists where all failures at once are
out of reach: `replacing` (builds, renames and crashes on the draft), `publishing`
(renames and syncs, draft and publication), `interrupting` (renames and crashes on the
publication with its plain reader) and `locking` (three threads, no failure) for
`CanvasSnapshot`; `review` (no translation), `languages` (no failure) and `failing
languages` (one translation) for `CanvasPublication`; editors without learners and a learner
with one editor for `CourseAccess`; two turns of tokens, and images over midnight, for `UsageQuota`.

**Bounds.** *Course updates.* Two workers are enough for every race on one lock: the
holder and one who waits or reads. Two faults let the rollback or the
recovery of a failure fail in turn; two updates and a clean-up compete for the file.
*Generation.* Two claims give a superseded and a superseding generation; three (in
`authoring_progress`) a reclaimed attempt that is reclaimed again. One revision of
sources and of the design each change once under a running generation. `Retained = 1`
makes pruning remove a record that another request just finished. *Snapshots.* Up to
four builds leave a failed one, a restored one and a new one; three threads in two
processes are the smallest deadlock of two paths with a bystander. *Authoring, learner,
services.* Two concurrent requests meet every read-before-lock; where a third actor
matters (a slot handed on, a reservation that outlives its request) there are three. Two
publications, revisions or days give an old and a new; one or two faults a failure and
a failure of its repair. A pass of a coaching gate and two delayed reviews fit in five turns
and two days. Claims, publications, writes and turns run out, so these runs do
not check deadlock; the progress runs state what must not get stuck. Course updates can
always start again, and their runs check deadlock.

**Symmetry** is used in runs without liveness only, over values no specification
compares: workers, claims and keys, requests, tokens of equal role, documents.

**Fairness.**

- *Course updates:* a worker that has begun runs on (threads are scheduled), and
  some worker enters whenever the lock stays free, as requests keep arriving. No
  worker in particular is promised the lock.
- *Generation:* the event loop and the thread pool run what they were given (a model
  call returns or raises, by its time limit), time passes for a record nobody
  works for, and a polling duplicate polls.
- *Goal markers:* time passes, and the task and its threads run.
- *Teaching tasks:* calls end by provider timeouts; the step after a batch runs.
- *Lecture states:* proposals end, leases lapse, attempts have deadlines, and a
  request that was begun goes on.
- *Practice exams:* slots are handed out first-in first-out, hence strong fairness of
  `TakeSlot`; planning ends by its 15 minute deadline; threads run.
- *Accounts:* row locks (PostgreSQL) and the pool are first-in first-out, hence one
  strong fairness per request over the steps that wait; the pool's 30 s timeout ends
  what waits for a connection.
- *Model requests:* the event loop runs every step, and the provider answers or fails
  within its timeout.

Users, crashes, cancellations and heartbeats get no fairness. Faults are bounded, so
they end.

## Findings

1. `mark_course_update_committed` replaces the marker and then syncs its directory;
   if the sync raises, the transaction rolls back an update whose marker is on disk.
   `update_safety` and the theorems assume it away (`CommitSyncMayFail = FALSE`); the
   progress run does not.
2. A passed delayed review schedules the next one with a prompt and an interval that
   the preflight of the next turn refuses, and recovery empties the coaching state.
   `Resumption` therefore has one delayed task.
3. A generation that repairs teaching tasks stores a new design revision before its
   draft; if it then fails, the ready draft is no longer shown.

`PROJECT.json` quotes the lines the findings disagree with.

### Disagreements

Further places where code and documentation or code and its own comments differ, met
while modelling. Their properties are stated in the modules named; TLC refuted each on an
instance like those above, and no run is kept for it. The hazards in `PROJECT.json`
refer to this list.

- `Sessions!CookieLivesWithSession` (`identity/api_auth.py:65`): The cookie is sent again only with the response of the request that renewed the row; when that response is lost the row lives on and later requests, seeing more than half of the idle lifetime left, never send it, so the browser forgets the cookie of an active session; docs/tenancy-security.md:78 says 'Opaque cookie sessions renew after half their idle lifetime has elapsed.'
- `LearningGoals!ParsedSourceHolds` (`learning_design/course_practice_design_route_context.py:25`): source_document confirms the selection under the course lock and releases it; _source_context then reads the revision without a lock, so the revision may be of newer files than the parsed document, and the check at save compares only revisions. learning_design/learning_goal_proposal_run.py:65 says "Same revision means the same confirmed files, so the parsed source still holds."
- `LearningGoals!RefreshKeepsApproved` (`learning_design/course_learning_intent_store.py:90`): A proposal that saw goals approved for other sources replaces them although the sources are again the approved ones when it writes. docs/learning-intent-ownership.md:51 says "Approved goals are never replaced by a refresh (409); professors edit them."
- `GoalMarkers!ResultsAreRecorded` (`learning_design/learning_goal_proposal_jobs.py:146`): _touch reads a running marker in its thread, _finish records the result in another, and _touch writes its copy back: the marker stays running and the result is lost. docs/course-updates.md:101 says "failures are recorded and the professor proposes again from goal review."
- `TeachingImplementation!RepairedOnce` (`learning_design/teaching_design_job.py:175`): The output validator saves a repaired goal; the goal is recorded in progress.json only after the call returns. A crash, or the failure of a parallel call, in between makes the resumed job repair it again. learning_design/teaching_design_job.py:3 says "one structured call per missing goal, one lecture review and at most one targeted repair per flagged goal."
- `SectionAuthoring!DraftsAreForTheInputs` (`authoring/authoring_state.py:76`): The session is removed before the drafts. If the server stops in between, the next job finds no session, starts a fresh one and keeps the old drafts as written for its own inputs. authoring/authoring_state.py:67 says "Saved drafts are resume points only for the exact inputs that produced them."
- `SectionAuthoring!UnreviewedIsWarned` (`authoring/authoring_job.py:108`): A resumed job with a saved critique repairs the sections its request names, and those with lecture-level defects, without the critic seeing them again and without a warning. docs/authoring-agent-migration.md:38 says "Repaired sections are not reviewed again: each becomes a \"repaired once, not re-checked\" draft warning"
- `CourseAccess!ShownOnlyWhenOpen` (`courses/lecture_access_routes.py:91`): The new audience is committed to the row before the file gets the new publication mode, and a request takes the audience from the row and the mode from the file: a change from (enrolled, lecture date) to (public, hidden) shows the lecture to everyone for a moment, and until the next change if the server stops in between. README.md:41 says "A student signs in and sees only enrolled, published lectures whose access date has passed."
- `CourseAccess!DeletedCourseIsGone` (`courses/course_routes.py:148`): A repeated setup checks ownership before it waits for the course lock and not again under it, as an upload does: after a deletion it writes the workspace file of the deleted course anew. docs/security-operations.md:59 says "Course deletion removes the owned database course, its enrollment and upstream-reference records, and its official, learner, preview, and legacy workspaces."
- `CourseAccess!DeletedCourseIsGone` (`courses/course_deletion.py:113`): The row is deleted first; if the server stops before the files are, a second deletion finds no course to own and answers 404, and the files stay. docs/security-operations.md:59 says "Course deletion removes the owned database course, ... and its official, learner, preview, and legacy workspaces."
- `CourseAccess!DeletedLinkIsGone` (`courses/course_invites.py:88`): A link is written without the course lock and creates the directory it needs: a deletion between the check and the write leaves the private root with a link in it. docs/security-operations.md:59 says "Course deletion removes the owned database course, ... and its official, learner, preview, and legacy workspaces."
- `ChangeRequests!AppliedOnce` (`authoring/canvas_change_generation.py:99`): The draft is written before the job is completed, and a job whose lease lapsed is claimed again with its key and starts from the ready draft, which already has the change: the change is applied a second time. authoring/canvas_change_authoring.py:71 says "A change request never resumes: replaying saved drafts would apply it twice."
- `ChangeRequests!AcceptedAlone` (`authoring/canvas_change_routes.py:115`): The running job is looked for before the request is recorded, and not again when it is: two requests with different keys are both accepted. docs/course-updates.md:204 lists "no generation for the lecture holds its lease" among the preconditions.
- `LectureStates!GeneratingIsShown` (`courses/lecture_states.py:211`): Only the record with the newest file is looked at. A request that supersedes a running generation writes its own running record first, then cancels the older task, whose record is then written as failed and is the newest: until the next heartbeat the lecture is failed or none, with retry offered, while a generation runs. docs/course-updates.md:169 says "`generating` while a generation record holds its lease".
- `CourseUpdate!ReadsAreSettled` (`courses/course_schedule_store.py:41`): read_course_workspace skips recovery when the course lock is busy and then reads course-workspace.json, which an apply in progress has already replaced and may still roll back: the reader gets a schedule that never becomes the course's. The docstring of recover_interrupted_course_updates says "A busy lock means another worker is mutating the course, and every lock holder recovers on entry (see ``locked_course_state``), so readers can skip it safely." (apps/api/src/lecturepilot/courses/course_update_recovery.py:40-41).
- `GenerationJobs!CancelledIsFenced` (`authoring/course_canvas_generation.py:247`): Cancelling a generation revokes the ownership its record has, but a generation that is still parsing has none: begin_owned_generation_source runs in a worker thread that the task's cancellation abandons, and takes ownership afterwards without reading the record. The same happens when the record is cancelled between its claim and the registration of its task. The cancelled generation then owns the draft, and a generation that started after it fails with "superseded by a newer request" although none was made. revoke_generation_ownership says "Fence a cancelled worker; caller holds the course-state lock." (apps/api/src/lecturepilot/authoring/course_canvas_generation_ownership.py:124) and docs/authoring-agent-migration.md:75 says that the cancel route "revokes ownership; a remote worker notices lease loss through its heartbeat".
- `GenerationJobs!NoClaimIsLost` (`authoring/course_canvas_generation_service.py:208`): A duplicate request that polls claims a lapsed record in a worker thread; cancelled while that call runs, or failing because the task it supersedes raises an error of its own (line 87), it ends without creating the task of its claim, and the record stays running with no worker until its lease lapses once more. tests/test_event_loop_blocking.py:91 says of the claim that it "must stay atomic with registering the background task, so a cancelled request cannot leave a claimed attempt without a worker"; it only holds of the first claim of a request (apps/api/tests/test_event_loop_blocking.py:91-93).
- `GenerationJobs!ParsingWithinSlots` (`authoring/course_canvas_generation.py:247`): A task that is cancelled while its sources are parsed leaves its slot at once, but the thread that parses goes on; the next task starts to parse in the freed slot, so superseding requests make parsing grow beyond the slots. The docstring of the slots says "On a small VM their provider fan-out, source parsing and memory use must not grow with the number of professors or students starting jobs, so every kind shares the same FIFO slots." (apps/api/src/lecturepilot/llm/generation_slots.py:4-6).
- `CanvasSnapshot!ReadersFindThePublication` (`canvas/course_canvas_context.py:62`): Readers of the published canvas take its lock with locked_canvas_access, which does not repair: after a crash between the two renames of a publication they find no canvas until some writer locks the path, although the previous snapshot lies next to it. docs/course-ingestion-pipeline.md:210 says "Publication atomically snapshots a valid draft".
- `CanvasSnapshot!VerdictIsOfItsSnapshot` (`canvas/published_snapshot_validity.py:43`): The signature is taken without the canvas lock. If a publication moves the directory aside after a listing signed it, its next rename fails, and moving it back fails as well, validation finds nothing and remembers that for the old files' identity once a later repair has brought exactly those files back before the second signature; the verdict stays wrong until the next publication. The module says "Published snapshots only change by replacement, so a verdict stays correct while the directory and every file validation reads keep the same inode, size and modification time" (apps/api/src/lecturepilot/canvas/published_snapshot_validity.py:5-7).
- `CanvasSnapshot!RepairLeavesWhole` (`canvas/canvas_snapshot.py:62`): When the sync after the second rename fails, the new directory is removed file by file before the old one is moved back; a crash in between leaves a torn directory, and repair, which looks whether the directory exists, keeps it and removes the whole snapshot. locked_canvas_paths says "recover interrupted snapshot replacements" (apps/api/src/lecturepilot/canvas/canvas_snapshot.py:33).
- `CanvasPublication!NoHalfAction` (`authoring/course_canvas_approval_publication.py:36`): The approval is written to the draft's review before the publication; a process that dies in between (or a restore that fails) leaves the draft approved and unpublished, and nothing on start-up takes the approval back. approve_and_publish says "A failed publication restores the previous review, so the action never leaves half of itself behind." (apps/api/src/lecturepilot/authoring/course_canvas_approval_publication.py:28-29).
- `LearnerNotes!FirstAnswerStays` (`canvas/canvas_predictions.py:68`): The route reads the publication before PredictionStore.save takes the lock, and the file is named by the block alone: a request that read version v and saves after the learner answered on version v+1 finds no answer of its own version and replaces the file, so the first answer on the current publication is gone and another can be given. docs/canvas-predictions.md:33-34 says "A saved first answer or skip cannot be rewritten for the same question and publication."
- `LearnerNotes!ClosedInAttempts` (`canvas/canvas_prediction_routes.py:33`): The access is checked before the publication is read and the lock is taken, and not again: a prediction whose request started before an independent attempt is saved while it is open. docs/canvas-predictions.md:42-43 says "Prediction access and tutor context are disabled during independent-exit and delayed-transfer attempts."
- `UsageQuota!NoMoreTurnsAtOnce` (`llm/usage_quota.py:131`): The concurrent turns are counted in the row of the day a turn began on, so a turn that is still in progress after midnight UTC does not count against a new one. docs/security-best-practices-report.md:112-113 says "Postgres atomically enforces daily turn/token/image and concurrent-turn quotas across workers and restarts."
- `ExamPlanning!AcceptedExamCoversLectures` (`exams/practice_exam_planner.py:190`): docs/workspaces.md:187-188 says "Every lecture represented in the evidence must be covered before the exam is accepted"; the coverage is validated before the reviews, and questions that the reviews of a repair reject become unscored placeholders without another look at the coverage, so an exam is accepted that examines nothing of a lecture.
- `PracticeSubmissions!DeletedAttemptIsAbsent` (`exams/practice_exam_attempts.py:72`): docs/assessment-history.md:19-20 says "A deleted attempt is absent from subsequent tutor-history reads" and lets clients retry a submission id; nothing remembers a deleted id, so a retry that arrives after the deletion stores the attempt again.
- `Coaching!OpenedTaskHasItsPrompt` (`learner/coaching_supported_review.py:23`): schedule_after_supported_review replaces task_id and keeps transfer_prompt, so the opened review shows the prompt that was answered with help under the id of a fresh task, and the preflight then refuses the state; docs/learning-evidence-flow.md:39 says 'A supported attempt cannot be reclassified as independent: another reviewed task is required.'
- `Coaching!IntervalIsAtLeastApproved` (`learner/coaching_review_schedule.py:25`): min(60, max(review_after_days, ...)) gives 60 days for a gate approved for 90; docs/learning-evidence-flow.md:20 says 'capped at 60 days or a longer approved initial interval'.
- `QuizAnswers!SuccessIsTerminal` (`learner/learner_state.py:168`): record_quiz_answer compares the request's publication with the stored state only for equality, so a request that read publication 1 before publication 2 replaces a correct state of publication 2 by its own of publication 1, and the next answer is counted as attempt 1 again; apps/api/tests/test_quiz_attempt_review_fixes.py:52 is 'test_scored_success_is_terminal_for_new_attempt_ids'.
- `QuizAnswers!FirstAttemptIsShown` (`analytics/course_analytics.py:126`): The aggregation takes the lowest attempt index in the log and its 'correct'. When the server stops after the quiz file was written and the page is loaded anew, attempt 1 is missing and the correction counts as a correct first attempt, although the event carries first_attempt_correct FALSE; docs/professor-dashboard.md:8 says 'The overview prioritizes learners, first-attempt quiz correctness and independent'.

## Proofs

All theorems hold for every value of the constants that satisfies the stated assumptions,
the assumptions of the modules, and what is said below; the composed modules fix small
bounds of some components, which their theorems inherit.

**`CourseUpdateProofs`, `CourseUpdateRefinement`** (any number of workers, updates,
files and faults).

* `TypeCorrect` needs more than types: `HolderInv` says that exactly the lock's holder
  is past `Enter` and that whoever applies, undoes or recovers names an update.
* `Invariant`: `IInv` is inductive. `MarkerInv` ties the markers to the lock's holder (a
  journal or a commit marker only in a marked directory, one marked directory at most,
  and the holder's if it works on an update); `JournalInv` ties journals to saved copies and live
  files at each phase; `PlanInv` says what each phase has saved and has left to do. None of
  the safety invariants is inductive alone: that the journal names every changed file
  depends on which phase wrote it, and that saved copies are settled on no other update
  having been under way when they were made.
* `AtMostOneJournal`, `Serialised`, `Journaled` and their sum `Recovery` follow from
  `IInv`; `CommittedIsFinal` is an action property from the same invariant.
* `UploadsStay` needs the types alone: only a write of an upload that finds no apply under way, or the
  removal after a settled one, touches what is staged.
* `Refinement`: each step maps to a step of `AtomicUpdate` or a stutter. Under `IInv` at
  most one journal is in doubt, so `Settled` is the live course with that journal
  undone. It changes at the commit marker and in edits alone: copying, writing, rolling
  back and recovering touch only files the journal names.

The theorems on the invariant assume `~CommitSyncMayFail`, without which finding 1 refutes
them; `TypeCorrect` does not.

**`GenerationJobsProofs`** (any number of requests, claims, slots and faults).

* `TypeCorrect` needs `ClosingInv` (a task that closes knows how it ends, or its last
  step would have no stage to go to) and `ClaimInv` (a record names a claim that was made).
* `Invariant`: `FreshInv` says that a claim whose thread is still to prepare has never
  owned the draft, so ownership is taken once per claim; `OwnerInv` that the owner has
  the highest sequence and that the draft was written by an owner; `ReportInv` that a
  claim about to report a canvas wrote the draft, or that a later owner did. `Tame`
  collects what all steps share: no claim turns fresh, none starts to report without a draft.
* `DraftsAreOrdered`, `RevokedIsOut`, `OwnerIsBound`, `Ownership` follow from `OwnerInv`
  and `FreshInv`; `CompletedIsDelivered`, `RecordsHold` from `ReportInv`; `EndedIsFinal` from
  `RecordSteps`: a record changes only when it is claimed or its running attempt ends.
* `Refinement` to `DraftRegister`: taking the ownership, storing a design and writing the draft are the steps
  `Own`, `Adapt` and `Write`, a cancellation or any other end of a record is `Conclude` or
  `Report`; claims, tasks, threads, leases and crashes are stutters. `Own` asks that a claim never owned
  before (`FreshInv`), `Report` that the draft was delivered (`ReportInv`), neither of which the code looks at in
  that step; `Write` asks for the approved inputs the owner works for, which the code compares in parts.

**`CanvasSnapshotProofs`** (any number of threads, processes and paths).

* `Types` holds under all failures. The rest assumes `SyncOrCrash`: a failing sync and a
  crash do not come together, as a crash in the removal that follows such a sync leaves
  a torn directory (`RepairLeavesWhole` under *Disagreements*).
* `IInv`: `LockInv` (a stage holds the locks it needs, and locks are held by who needs
  them), `AgeInv` (snapshots on disk and in hand are of different ages), `StageInv` (what the
  directory and its siblings hold at each stage of the thread that has the lock), `RestInv` (what they
  hold when nobody works on the path: a whole snapshot, or one that repair will restore)
  and `ReadInv` (what a reader found). `OneIsRestored` and `ReadersFindIt` follow; a reader that does
  not repair may find nothing after a crash, never a torn snapshot.
* `Refinement` to `SnapshotRegister`, for `PlainReads = {}`: the register changes when the new directory
  is renamed in and in the undoing of that step, and repair never changes it.
* `LocksAreHeld`: `StagingInv` (a staging directory belongs to the thread that builds it),
  `VerdictInv` (a remembered or signed snapshot is the one in the directory, or `Gone`: no
  directory can hold it again) and absence of deadlock. For the latter, `HolderInv` says that a waiting
  thread holds exactly the locks before the one it waits for; among the locks waited for take the least
  in the order all writers follow: its holder waits for a later one only, and the greatest lock waited
  for is held by a thread that does not wait.

**`CanvasProofs`** (`MCCanvas`, any number of requests, jobs, sections and bounds).
`OfferedHolds` rests on an invariant that ties the next action to what its route accepts
through the revisions of sources, design and draft; `Repairs` is FALSE, see finding 3.
`ChangesHold` rests on one that follows each mark of a request through private draft, draft and
publication: a document holds the mark of a request only if its job wrote the draft, once, and a job
that wrote is completed before another claim of its key (`LateCrashes` is FALSE).

**`AuthoringProofs`** (`MCAuthoring`). `MarkersHold`: a waiting lecture's marker is never older than
what the heartbeat's sleep, its lateness and its threads' delays add up to, which is less than the lease
(`2 * Delay + 2 <= Lease`). `ApprovalsHold`, `PublicationHolds`, `TranslationsHold`: while a request
holds the lock, what it read agrees with the files; the kept review is of the draft, and a shown variant is
of the published version.
`GoalsHold`: an approval on disk is of the goals it is stored with and each one given is in the archive;
what a request read before the lock is compared again under it. `TasksHold`: `PhaseInv` says which tasks may
be missing and whether the review is spent at each phase, `ReviewInv` that a task is the one the
review saw or a labelled later one. `SectionsHold`: `SessionInv` says the same of sections and their one critique,
and that an accepted draft is the one on disk.

**`LearnerProofs`** (`MCLearner`). `CoachingHolds`: `Inv` says that the task of an independent check was seen
but neither answered nor helped with, that turns are about earlier checks than the pending one, and that the task of
a review that waits to be opened was not seen. Without the last, an opened review could bind a task that was practised. For the
gate with one delayed task `ReviewGoesOn` adds that a failed review is being practised, so no
fresh task is left that would replace it, and that a pass is in the turns before it is in the gate file.
It assumes that the tasks of a gate have names of their own, as the learning design's validation requires, and
that the approved delay is at most the cap (`DelayAssumption`). The code accepts a longer approved delay, and there a later
interval is shorter than the approved one, see *Disagreements*. The proof is given for each
of the two instances, since a lemma about one does not speak of the other.

`SubmissionsHold`, `ExamsHold`, `NotesHold`: a
confirmed answer is on disk or was withdrawn; an active question of the candidate is one that the
reviews it passed saw; a comment's passage is that of the publication it was made for, and a write is
compared with what its request expects.

`ChecksHold` and `AnswersHold` are about what loops compute. `ComputedAlong` gives the function that a
loop over a sequence computes (it exists for each length, as a least length without one leads to a
contradiction), `Upwards` what holds of 0 and goes on from each length to the next. Both speak of sets and
functions, not of operators, so the provers can use them.

* `ChecksHold`: `ChecksCovers` says of the first `l` lectures that each that offers a question has exactly one in the
  check, and that multiple choice went beyond the budget only for a lecture without an open question;
  `ChecksRounds` that the questions added in the first `p` turns are those of the turns, none twice and,
  below the limit, none missed. Of an attempt, the index, the first tries and the open tasks are taken from
  the record it finds under the lock, whatever was recorded or reset while it was graded.
* `AnswersHold`: the quiz file, the recorded attempts and the log hold valid events only, and no two lines of the log
  have the same identity. `QuizzesTells` says what a summary has learned from the first `i` lines about a quiz:
  the earliest attempt, and whether any was right. One more line keeps that for both summaries, so they agree on
  the whole log although they are computed differently.

**`ServicesProofs`** (`MCServices`). `RunsHold`, `ResultsHold`: runs are numbered in the order they
begin, a running record belongs to a run that is still working or whose threads will end it, and `Pruned` keeps the
youngest `MaxTerminal` of the ended records.

* `CredentialsHold`: a request that has compared its password holds the row it compared (`RowsAreHeld`), tokens
  that are about to be mailed are new (`LinksAreNew`), and a valid link carries the password of its
  mail (`LinksAgree`). So the row a reset replaces cannot be that of a sign-in that is to create a session.
* `SessionsHold`: `RenewalsAreDue` says that the row is kept for more than half an idle lifetime after
  the last use, or until the absolute lifetime, unless a request that read it now is about to renew it
  to exactly that; a request that found no renewal due found the row kept.
* `AccessHolds`: `Policy` says that row and file differ only between the two writes of a change,
  whose request knows the value to restore; `Creation` that nothing competes with the first
  write of a file; `ReadsAreInForce` that what a request has read is what is still so, or was in force. The instances
  exclude a second setup, see *Disagreements*.
* `RequestsHold`: requests are the sum of those sent by each call, and each call's are those
  it recorded, plus one while it is in the provider's hands.
* `QuotaHolds`: the row of a day is the sum over the requests it was charged for and what was
  lost or settled. The day a request is charged to is kept with the request, midnight or not (`Kept`), and an image
  being made is counted on the day it was asked for (`ImagesAreCounted`).

The two sums need that a sum over a finite set changes by what one summand changes. It is proved in
`ServicesProofs` from the definition of the fold: partial sums exist for every finite set, as a least set without one
in the well-founded order of strict subsets leads to a contradiction, which needs no
induction over an operator.

In a composed module a step is a step of one component or leaves its variables alone, so
the invariant of each component is proved on its own and the last step combines them.

Only model-checked: liveness and everything under fairness (`InterruptedIsSettled`, `LockIsReleased`,
`AuthoringEnds`, `ServicesEnd`), which TLAPS does not prove, and the three runs that show a violation. Every
other property of a run is a theorem.

## Plan

1. The generation slots shared by `PracticeExams` and `GenerationJobs` in one instance.
2. Wider coverage: the practice design pipeline and the validation of its answers, the
   routing of sources, and the tools of the tutor, as operators checked on bounded inputs.

Not planned: prompts, parsing, rendering and generated schema changes, which keep no
protocol state of their own.
