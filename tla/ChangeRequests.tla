--------------------------- MODULE ChangeRequests ---------------------------
(* A professor asks for a change of a lecture that has a draft or a         *)
(* publication.  The request runs as a generation job: it takes the         *)
(* lecture's ownership, reads the document it starts from, rewrites the     *)
(* sections concerned in a private copy, has them checked and criticised    *)
(* once, and writes base and changed sections together as the new draft.    *)
(*                                                                          *)
(* The text of a section is the sequence of the requests applied to it.     *)
(* The jobs themselves are module GenerationJobs; here a job is running     *)
(* until it ends, and a job whose server stopped may be claimed again with  *)
(* its key once its lease has lapsed.                                       *)
EXTENDS Integers, Sequences, SequencesExt, FiniteSets

CONSTANTS
    Requests,       \* change requests, each with its own key
    Sections,
    Named,          \* the sections a request names; none: the model selects
    MaxSelected,    \* a selection has at most so many
    MaxAttempts,    \* bound: attempts of one request
    MaxGoals,       \* bound: approvals of the goals
    MaxDrafts,      \* bound: drafts of ordinary generations
    LateCrashes,    \* BOOLEAN: the server may stop after a draft was written
    Nobody, Absent

Texts == [Sections -> Seq(Requests)]
Documents == [text : Texts, origin : 1 .. MaxDrafts, design : 1 .. MaxGoals]

\* What the constants are assumed to be.
ChangeRequestsAssumption ==
    /\ IsFiniteSet(Sections)
    /\ Named \in [Requests -> SUBSET Sections]
    /\ MaxSelected \in Nat
    /\ {MaxAttempts, MaxGoals, MaxDrafts} \subseteq Nat \ {0}
    /\ LateCrashes \in BOOLEAN
    /\ Nobody \notin Requests
    /\ Absent \notin Documents \cup Texts

VARIABLES
    design,    \* revision of the goals and their implementation
    approved,  \* it is approved for the current sources
    draft, published,  \* [text, origin, design], or Absent
    owner,     \* who may write the draft: [by, n], an attempt or a generation
    status,    \* of the record of each request
    attempt,
    job,       \* what the task of each request is doing
    private,   \* the drafts in the job's directory, or Absent
    records,   \* the requests recorded, with the sections they changed
    drafts     \* number of ordinary drafts

lecture == <<design, approved, draft, published, drafts>>
vars == <<lecture, owner, status, attempt, job, private, records>>

Steps == {"checked", "prepare", "base", "open", "change", "check", "critique",
          "repair", "recheck", "write", "record", "complete"}
NoJob == [at |-> "none", base |-> Absent, design |-> 0, targets |-> {}, pending |-> {}]

Init ==
    /\ design = 1 /\ approved = TRUE
    /\ draft = [text |-> [s \in Sections |-> <<>>], origin |-> 1, design |-> 1]
    /\ published \in {Absent, draft}
    /\ owner = [by |-> Nobody, n |-> 1]
    /\ status = [r \in Requests |-> "none"]
    /\ attempt = [r \in Requests |-> 0]
    /\ job = [r \in Requests |-> NoJob]
    /\ private = [r \in Requests |-> Absent]
    /\ records = {}
    /\ drafts = 1

-----------------------------------------------------------------------------
(* What a request starts from: the ready draft, else the publication.  A    *)
(* draft that equals the publication is not ready, it is published.         *)

Current(d) == d # Absent /\ approved /\ d.design = design

SameDocument(d, e) == d.text = e.text /\ d.origin = e.origin

Ready == Current(draft) /\ ~(Current(published) /\ SameDocument(draft, published))

Base ==
    IF Ready THEN draft
    ELSE IF Current(published) THEN published
    ELSE Absent

\* the running jobs whose lease has not lapsed
Running == {r \in Requests : status[r] = "running" /\ job[r].at # "none"}

Moves(r, to) == job' = [job EXCEPT ![r].at = to]
Kept == UNCHANGED <<lecture, owner, status, attempt, private, records>>

(* The preconditions are read first ...                                     *)
Check(r) ==
    /\ status[r] = "none" /\ job[r].at = "none"
    /\ Base # Absent
    /\ Running = {}
    /\ Moves(r, "checked")
    /\ Kept

(* ... and the record is made later.                                        *)
Claim(r) ==
    /\ job[r].at = "checked"
    /\ Moves(r, "prepare")
    /\ status' = [status EXCEPT ![r] = "running"]
    /\ attempt' = [attempt EXCEPT ![r] = 1]
    /\ UNCHANGED <<lecture, owner, private, records>>

(* Its key posted again after the lease lapsed: the preconditions are not   *)
(* checked again.                                                           *)
Retry(r) ==
    /\ status[r] = "running" /\ job[r].at = "none"
    /\ attempt[r] < MaxAttempts
    /\ attempt' = [attempt EXCEPT ![r] = @ + 1]
    /\ Moves(r, "prepare")
    /\ UNCHANGED <<lecture, owner, status, private, records>>

Fail(r) ==
    /\ job[r].at \notin {"none", "checked"}
    /\ status' = [status EXCEPT ![r] = "failed"]
    /\ job' = [job EXCEPT ![r] = NoJob]
    /\ UNCHANGED <<lecture, owner, attempt, private, records>>

Attempt(r) == [by |-> r, n |-> attempt[r]]
Generation(n) == [by |-> Nobody, n |-> n]

Owns(r) == owner = Attempt(r)
\* Mutant: the ownership is not asked for.
AuthorizedByGoals(r) == approved /\ job[r].design = design

Authorized(r) == Owns(r) /\ approved /\ job[r].design = design

(* Ownership is taken for approved goals, under the course lock.            *)
Prepare(r) ==
    /\ job[r].at = "prepare"
    /\ approved
    /\ owner' = Attempt(r)
    /\ job' = [job EXCEPT ![r].at = "base", ![r].design = design]
    /\ UNCHANGED <<lecture, status, attempt, private, records>>

ReadBase(r) ==
    /\ job[r].at = "base"
    /\ Base # Absent /\ design = job[r].design
    /\ job' = [job EXCEPT ![r].at = "open", ![r].base = Base]
    /\ Kept

Selections(r) ==
    IF Named[r] # {} THEN {Named[r]}
    ELSE {S \in SUBSET Sections : Cardinality(S) \in 1 .. MaxSelected}

(* A change never resumes: the drafts of an earlier attempt are removed and *)
(* the private copy is seeded from the base.                                *)
Open(r) ==
    /\ job[r].at = "open"
    /\ Authorized(r)
    /\ private' = [private EXCEPT ![r] = job[r].base.text]
    /\ \E targets \in Selections(r) :
         job' = [job EXCEPT ![r].at = "change", ![r].targets = targets,
                            ![r].pending = targets]
    /\ UNCHANGED <<lecture, owner, status, attempt, records>>

Change(r, s) ==
    /\ job[r].at = "change"
    /\ s \in job[r].pending
    /\ Authorized(r)
    /\ private' = [private EXCEPT ![r][s] = Append(@, r)]
    /\ job' = [job EXCEPT ![r].pending = @ \ {s},
                          ![r].at = IF job[r].pending = {s} THEN "check" ELSE "change"]
    /\ UNCHANGED <<lecture, owner, status, attempt, records>>

(* The whole lecture is checked; named sections may be repaired once.       *)
CheckLecture(r) ==
    /\ job[r].at \in {"check", "recheck"}
    /\ Moves(r, IF job[r].at = "check" THEN "critique" ELSE "write")
    /\ Kept

(* One critic pass over the changed sections; each flagged one is repaired  *)
(* once, which keeps what the request changed.                              *)
Critique(r) ==
    /\ job[r].at = "critique"
    /\ \E notes \in SUBSET job[r].targets :
         job' = [job EXCEPT ![r].pending = notes,
                            ![r].at = IF notes = {} THEN "write" ELSE "repair"]
    /\ Kept

Repair(r) ==
    /\ job[r].at = "repair"
    /\ Authorized(r)
    /\ job' = [job EXCEPT ![r].at = "recheck", ![r].pending = {}]
    /\ Kept

Splice(r) ==
    [s \in Sections |-> IF s \in job[r].targets THEN private[r][s]
                        ELSE job[r].base.text[s]]

(* Under the course lock: sources, ownership and goals are checked again.   *)
WriteDraft(r) ==
    /\ job[r].at = "write"
    /\ Authorized(r)
    /\ draft' = [text |-> Splice(r), origin |-> job[r].base.origin, design |-> design]
    /\ Moves(r, "record")
    /\ UNCHANGED <<design, approved, published, drafts, owner, status, attempt,
                   private, records>>

WriteRecord(r) ==
    /\ job[r].at = "record"
    /\ records' = {x \in records : x.request # r}
                  \cup {[request |-> r, sections |-> job[r].targets]}
    /\ Moves(r, "complete")
    /\ UNCHANGED <<lecture, owner, status, attempt, private>>

Complete(r) ==
    /\ job[r].at = "complete"
    /\ status' = [status EXCEPT ![r] = "completed"]
    /\ job' = [job EXCEPT ![r] = NoJob]
    /\ UNCHANGED <<lecture, owner, attempt, private, records>>

-----------------------------------------------------------------------------
(* The rest of the system.                                                  *)

Jobs == UNCHANGED <<status, attempt, job, private, records>>

(* An ordinary generation takes the ownership and writes a new document.    *)
Generate ==
    /\ approved
    /\ drafts < MaxDrafts
    /\ owner' = Generation(drafts + 1)
    /\ UNCHANGED lecture /\ Jobs

GenerationWrites ==
    /\ owner = Generation(drafts + 1)
    /\ approved
    /\ drafts' = drafts + 1
    /\ draft' = [text |-> [s \in Sections |-> <<>>], origin |-> drafts', design |-> design]
    /\ UNCHANGED <<design, approved, published, owner>> /\ Jobs

Publish ==
    /\ Ready
    /\ published' = draft
    /\ UNCHANGED <<design, approved, draft, drafts, owner>> /\ Jobs

EditSources ==
    /\ approved
    /\ approved' = FALSE
    /\ UNCHANGED <<design, draft, published, drafts, owner>> /\ Jobs

ApproveGoals ==
    /\ design < MaxGoals
    /\ design' = design + 1
    /\ approved' = TRUE
    /\ UNCHANGED <<draft, published, drafts, owner>> /\ Jobs

Crash ==
    /\ \E r \in Requests : job[r].at # "none"
    /\ LateCrashes \/ \A r \in Requests : job[r].at \notin {"record", "complete"}
    /\ job' = [r \in Requests |-> NoJob]
    /\ Kept

Next ==
    \/ \E r \in Requests :
         \/ Check(r) \/ Claim(r) \/ Retry(r) \/ Prepare(r) \/ ReadBase(r) \/ Open(r)
         \/ \E s \in Sections : Change(r, s)
         \/ CheckLecture(r) \/ Critique(r) \/ Repair(r)
         \/ WriteDraft(r) \/ WriteRecord(r) \/ Complete(r) \/ Fail(r)
    \/ Generate \/ GenerationWrites \/ Publish \/ EditSources \/ ApproveGoals
    \/ Crash

Spec == Init /\ [][Next]_vars

-----------------------------------------------------------------------------
JobStates == [at : Steps \cup {"none"}, base : Documents \cup {Absent}, design : 0 .. MaxGoals,
              targets : SUBSET Sections, pending : SUBSET Sections]

TypeOK ==
    /\ design \in 1 .. MaxGoals /\ approved \in BOOLEAN /\ drafts \in 1 .. MaxDrafts
    /\ {draft, published} \subseteq Documents \cup {Absent}
    /\ owner.by \in Requests \cup {Nobody}
    /\ owner.by = Nobody => owner.n \in 1 .. MaxDrafts
    /\ status \in [Requests -> {"none", "running", "completed", "failed"}]
    /\ attempt \in [Requests -> 0 .. MaxAttempts]
    /\ job \in [Requests -> JobStates]
    /\ private \in [Requests -> Texts \cup {Absent}]
    /\ records \subseteq [request : Requests, sections : SUBSET Sections]
    /\ \A r \in Requests :
         /\ job[r].at \in Steps \ {"checked"} => status[r] = "running"
         /\ job[r].at = "checked" => status[r] = "none"
         /\ job[r].pending \subseteq job[r].targets

(* A change is written over the document it was made from: nobody else's    *)
(* draft is lost between the reading of the base and the write, although    *)
(* the lecture is published, generated and approved meanwhile.              *)
NothingIsOverwritten ==
    [][\A r \in Requests : WriteDraft(r) => SameDocument(job[r].base, Base)]_vars

\* where request r has changed section s
Uses(text, s, r) == {i \in 1 .. Len(text[s]) : text[s][i] = r}
Touched(text, r) == {s \in Sections : Uses(text, s, r) # {}}

(* No document has the change of one request twice in a section: a change   *)
(* request never resumes, replaying saved drafts would apply it twice.      *)
AppliedOnce ==
    \A d \in {draft, published} \ {Absent} : \A s \in Sections : \A r \in Requests :
        \A i, k \in Uses(d.text, s, r) : i = k

(* What a completed request changed is what its record says, in every       *)
(* document that has the change.                                            *)
RecordsAreTrue ==
    \A x \in records : \A d \in {draft, published} \ {Absent} :
        status[x.request] = "completed" => Touched(d.text, x.request) \in {{}, x.sections}

-----------------------------------------------------------------------------
(* Why: a text has no change of a request that has not written yet, and the *)
(* private copy of a request is its base with the request applied to the    *)
(* sections done so far.                                                    *)

Based == {"open", "change", "check", "critique", "repair", "recheck", "write", "record", "complete"}
Copied == Based \ {"open"}

\* r has written its draft
Written(r) == status[r] \in {"completed", "failed"} \/ job[r].at \in {"record", "complete"}

\* what a text may hold
Sound(text) ==
    \A r \in Requests :
      /\ ~Written(r) => Touched(text, r) = {}
      /\ \A s \in Sections : \A i, k \in Uses(text, s, r) : i = k
      /\ job[r].at \in {"record", "complete"} => Touched(text, r) \in {{}, job[r].targets}
      /\ status[r] = "completed" => \A x \in records :
             x.request = r => Touched(text, r) \in {{}, x.sections}

\* the sections the request has been applied to
Done(r) == IF job[r].at = "change" THEN job[r].targets \ job[r].pending ELSE job[r].targets

Applied(r) ==
    [s \in Sections |-> IF s \in Done(r) THEN Append(job[r].base.text[s], r)
                        ELSE job[r].base.text[s]]

\* the texts of the lecture and of the documents that are being changed
Held ==
    {d.text : d \in ({draft, published} \cup {job[r].base : r \in {k \in Requests : job[k].at \in Based}})
                   \ {Absent}}

\* what holds of a request until its draft is written
JobHolds(r) ==
    /\ job[r].design <= design
    /\ job[r].at \in Based => job[r].base # Absent
    /\ job[r].at \in Based \ {"record", "complete"} /\ Authorized(r)
         => Base # Absent /\ SameDocument(job[r].base, Base)
    /\ job[r].at \in Copied \ {"record", "complete"} => private[r] = Applied(r)
    /\ job[r].at = "complete" => \A x \in records : x.request = r => x.sections = job[r].targets

Inv ==
    /\ TypeOK
    /\ \A text \in Held : Sound(text)
    /\ \A r \in Requests : JobHolds(r)

(* A request is accepted only while no other generation holds its lease.    *)
AcceptedAlone ==
    [][\A r \in Requests : Claim(r) => Running = {}]_vars

=============================================================================
