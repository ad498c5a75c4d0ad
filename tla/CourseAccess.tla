---------------------------- MODULE CourseAccess ----------------------------
(* Who may open a lecture, and when.                                        *)
(*                                                                          *)
(* The audience of a course is kept twice: in its database row and in its   *)
(* workspace file, which also keeps the default publication mode and the    *)
(* rule that overrides both for a lecture.  A professor changes them, sets  *)
(* the course up again, uploads material, shares a link and deletes the     *)
(* course; all but the link take the course lock for the file.  A learner's *)
(* request takes no lock: it reads the row, the file, and the file again.   *)
EXTENDS Integers

CONSTANTS
    Editors,      \* requests of the professor that may run at the same time
    Learners,     \* the members of the course's tenant that ask
    CourseRules,  \* the defaults a professor may choose: [policy, mode]
    Overrides,    \* the rules of the lecture itself: [policy, mode, at]
    LectureDay,   \* the day the lecture is given
    LastDay,      \* days are counted up to this one
    CourseEdits, Setups, CanCrash,  \* BOOLEANs: what else may happen
    Nobody, NoCourse, NoFile, NoRule

Policies == {"public", "enrolled", "instructors"}

\* What the constants are assumed to be.
CourseAccessAssumption ==
    /\ LectureDay \in 0 .. LastDay
    /\ LastDay \in Nat
    /\ {CourseEdits, Setups, CanCrash} \subseteq BOOLEAN
    /\ Nobody \notin Editors
    /\ NoCourse \notin Policies

VARIABLES
    db,        \* the policy in the course's row, or NoCourse
    enrolled,  \* learners with an active enrollment row
    file,      \* the workspace file: [course, override], or NoFile
    rest,      \* what else the course root holds: {"uploads", "invite"}
    lock,      \* who holds the course lock
    op,        \* what each request of the professor is doing
    joining,   \* learners whose link was found valid
    req,       \* what each learner's request has read
    day,       \* today
    created,   \* the course was created: its id is never used again
    inForce, mixed  \* history of each learner's request: see Witness

vars == <<db, enrolled, file, rest, lock, op, joining, req, day, created,
          inForce, mixed>>

Modes == {"hidden", "date", "custom", "now"}
Rules == [policy : Policies, mode : Modes, at : 0 .. LastDay]
Defaults == [policy : Policies, mode : {"hidden", "date"}]
Workspaces == [course : Defaults, override : Rules \cup {NoRule}]

Idle == [kind |-> "none", at |-> "idle", rule |-> NoRule, seen |-> NoCourse]
Waiting == [at |-> "idle", course |-> NoRule, override |-> NoRule]

Busy(kinds) == \E e \in Editors : op[e].kind \in kinds

-----------------------------------------------------------------------------
(* The policy.                                                              *)

EffectiveRule(course, override) ==
    IF override = NoRule
        THEN [policy |-> course.policy, mode |-> course.mode, at |-> 0]
        ELSE override

(* Custom times never precede the lecture, an immediate one is itself.      *)
PublicationAt(rule) ==
    IF rule.mode = "now" \/ rule.at > LectureDay THEN rule.at ELSE LectureDay

Released(rule) == rule.mode # "hidden" /\ day >= PublicationAt(rule)

AudienceAllows(rule, isEnrolled) ==
    \/ rule.policy = "public"
    \/ rule.policy = "enrolled" /\ isEnrolled

CanConsume(u, course, override) ==
    LET rule == EffectiveRule(course, override)
    IN  AudienceAllows(rule, u \in enrolled) /\ Released(rule)

-----------------------------------------------------------------------------
(* A professor's request checks ownership in the database, waits for the    *)
(* lock, works and releases it.                                             *)

Start(e, kind, rule) ==
    /\ op[e] = Idle
    /\ op' = [op EXCEPT ![e] = [kind |-> kind, at |-> "locking",
                                rule |-> rule,
                                seen |-> IF kind \in {"create", "setup"}
                                           THEN db' ELSE NoCourse]]
    /\ UNCHANGED <<enrolled, file, rest, lock, joining, req, day>>

CreateCourse(e, rule) ==
    /\ ~created
    /\ created' = TRUE
    /\ db' = rule.policy
    /\ Start(e, "create", NoRule)

OpenedKinds == {"lecture", "upload"} \cup (IF CourseEdits THEN {"course"} ELSE {})
                                     \cup (IF Setups THEN {"setup"} ELSE {})

(* The id of a course is told to nobody before its file is written.         *)
Owned == db # NoCourse /\ file # NoFile

Begin(e, kind, rule) ==
    /\ Owned
    /\ kind \in OpenedKinds
    /\ UNCHANGED <<db, created>>
    /\ Start(e, kind, rule)

(* The row goes first and takes the enrollments with it.                    *)
DeleteCourse(e) ==
    /\ Owned
    /\ db' = NoCourse
    /\ enrolled' = {}
    /\ op[e] = Idle
    /\ op' = [op EXCEPT ![e] = [Idle EXCEPT !.kind = "delete", !.at = "locking"]]
    /\ UNCHANGED <<file, rest, lock, joining, req, day, created>>

TakeLock(e) ==
    /\ op[e].at = "locking"
    /\ lock = Nobody
    /\ lock' = e
    /\ op' = [op EXCEPT ![e].at = "locked"]
    /\ UNCHANGED <<db, enrolled, file, rest, joining, req, day, created>>

Finish(e) ==
    /\ op' = [op EXCEPT ![e] = Idle]
    /\ lock' = Nobody

Holds(e, kind, at) == op[e].kind = kind /\ op[e].at = at

(* The new policy is committed to the row before the file is written.       *)
UpdateDatabasePolicy(e) ==
    /\ Holds(e, "course", "locked")
    /\ IF file = NoFile \/ db = NoCourse
         THEN Finish(e) /\ UNCHANGED db
         ELSE /\ db' = op[e].rule.policy
              /\ op' = [op EXCEPT ![e].at = "stored", ![e].seen = db]
              /\ UNCHANGED lock
    /\ UNCHANGED <<enrolled, file, rest, joining, req, day, created>>

WriteCourseRule(e) ==
    /\ Holds(e, "course", "stored")
    /\ file' = [file EXCEPT !.course = op[e].rule]
    /\ Finish(e)
    /\ UNCHANGED <<db, enrolled, rest, joining, req, day, created>>

(* The write of the file failed: the row gets its policy back, if it exists.*)
RestoreDatabasePolicy(e) ==
    /\ Holds(e, "course", "stored")
    /\ db' = IF db = NoCourse THEN db ELSE op[e].seen
    /\ Finish(e)
    /\ UNCHANGED <<enrolled, file, rest, joining, req, day, created>>

(* Immediate publication takes the time of the request.                     *)
Materialize(rule) ==
    IF rule # NoRule /\ rule.mode = "now" THEN [rule EXCEPT !.at = day] ELSE rule

WriteOverride(e) ==
    /\ Holds(e, "lecture", "locked")
    /\ file' = IF file = NoFile THEN file
               ELSE [file EXCEPT !.override = Materialize(op[e].rule)]
    /\ Finish(e)
    /\ UNCHANGED <<db, enrolled, rest, joining, req, day, created>>

(* A setup writes the policy it read from the row before it had the lock;   *)
(* the default mode and the override of an existing file are kept.          *)
Merge(policy) ==
    IF file = NoFile
        THEN [course |-> [policy |-> policy, mode |-> "date"], override |-> NoRule]
        ELSE [file EXCEPT !.course.policy = policy]

WriteWorkspace(e) ==
    /\ Holds(e, "create", "locked") \/ Holds(e, "setup", "locked")
    /\ file' = Merge(op[e].seen)
    /\ Finish(e)
    /\ UNCHANGED <<db, enrolled, rest, joining, req, day, created>>

(* A course whose first file cannot be written is deleted again.            *)
CreateFails(e) ==
    /\ Holds(e, "create", "locked")
    /\ lock' = Nobody
    /\ db' = NoCourse
    /\ enrolled' = {}
    /\ op' = [op EXCEPT ![e] = [Idle EXCEPT !.kind = "delete", !.at = "locking"]]
    /\ UNCHANGED <<file, rest, joining, req, day, created>>

(* An upload checks ownership again under the lock.                         *)
PromoteUpload(e) ==
    /\ Holds(e, "upload", "locked")
    /\ rest' = IF db = NoCourse THEN rest ELSE rest \cup {"uploads"}
    /\ Finish(e)
    /\ UNCHANGED <<db, enrolled, file, joining, req, day, created>>

DeleteCourseFiles(e) ==
    /\ Holds(e, "delete", "locked")
    /\ file' = NoFile
    /\ rest' = {}
    /\ Finish(e)
    /\ UNCHANGED <<db, enrolled, joining, req, day, created>>

-----------------------------------------------------------------------------
(* The link.  It is kept in the course root and needs no lock.              *)

Shareable == file # NoFile /\ file.course.policy # "instructors"

(* The policy is read first; then the secret is written, and the directory  *)
(* made for it if there is none.                                            *)
ShareCourse(e) ==
    /\ Owned
    /\ Shareable
    /\ op[e] = Idle
    /\ op' = [op EXCEPT ![e] = [Idle EXCEPT !.kind = "invite", !.at = "sharing"]]
    /\ UNCHANGED <<db, enrolled, file, rest, lock, joining, req, day, created>>

RotateInvite(e) ==
    /\ Holds(e, "invite", "sharing")
    /\ rest' = rest \cup {"invite"}
    /\ op' = [op EXCEPT ![e] = Idle]
    /\ UNCHANGED <<db, enrolled, file, lock, joining, req, day, created>>

DisableInvite ==
    /\ Owned
    /\ "invite" \in rest
    /\ rest' = rest \ {"invite"}
    /\ UNCHANGED <<db, enrolled, file, lock, op, joining, req, day, created>>

RequireValidCode(u) ==
    /\ "invite" \in rest /\ Shareable
    /\ u \notin joining \cup enrolled
    /\ joining' = joining \cup {u}
    /\ UNCHANGED <<db, enrolled, file, rest, lock, op, req, day, created>>

Join(u) ==
    /\ u \in joining
    /\ joining' = joining \ {u}
    /\ enrolled' = IF db = NoCourse THEN enrolled ELSE enrolled \cup {u}
    /\ UNCHANGED <<db, file, rest, lock, op, req, day, created>>

-----------------------------------------------------------------------------
(* A learner's request for the lecture.                                     *)

Ask(u, next) == req' = [req EXCEPT ![u] = next]
Unread == UNCHANGED <<db, enrolled, file, rest, lock, op, joining, day, created>>
Refused == [Waiting EXCEPT !.at = "refused"]

(* The row is read first ...                                                *)
ReadRow(u) ==
    /\ req[u].at \in {"idle", "granted", "refused"}
    /\ Ask(u, [Waiting EXCEPT !.at = "row", !.course = db])
    /\ Unread

(* ... then the mode, and without a row also the policy, from the file ...  *)
ReadCourse(u) ==
    /\ req[u].at = "row"
    /\ LET policy == req[u].course
       IN  IF file = NoFile
             THEN Ask(u, Refused)
             ELSE Ask(u, [req[u] EXCEPT
                      !.at = "course",
                      !.course = IF policy = NoCourse THEN file.course
                                 ELSE [file.course EXCEPT !.policy = policy]])
    /\ Unread

\* Mutant: the lecture's own rule is not read.
ReadNoOverride(u) ==
    /\ req[u].at = "course"
    /\ Ask(u, IF file = NoFile THEN Refused ELSE [req[u] EXCEPT !.at = "lectures"])
    /\ Unread

(* ... then the lectures, from the file again ...                           *)
ReadLectures(u) ==
    /\ req[u].at = "course"
    /\ Ask(u, IF file = NoFile THEN Refused
              ELSE [req[u] EXCEPT !.at = "lectures", !.override = file.override])
    /\ Unread

(* ... and the enrollment last.                                             *)
Decide(u) ==
    /\ req[u].at = "lectures"
    /\ Ask(u, [Waiting EXCEPT !.at =
                   IF CanConsume(u, req[u].course, req[u].override)
                       THEN "granted" ELSE "refused"])
    /\ Unread

-----------------------------------------------------------------------------
NextDay ==
    /\ day < LastDay
    /\ day' = day + 1
    /\ UNCHANGED <<db, enrolled, file, rest, lock, op, joining, req, created>>

Crash ==
    /\ CanCrash
    /\ Busy({"create", "course", "lecture", "setup", "upload", "delete", "invite"})
    /\ op' = [e \in Editors |-> Idle]
    /\ lock' = Nobody
    /\ joining' = {}
    /\ req' = [u \in Learners |-> Waiting]
    /\ UNCHANGED <<db, enrolled, file, rest, day, created>>

Professor(e) ==
    \/ \E rule \in CourseRules : CreateCourse(e, rule) \/ Begin(e, "course", rule)
    \/ \E rule \in Overrides \cup {NoRule} : Begin(e, "lecture", rule)
    \/ Begin(e, "setup", NoRule)
    \/ Begin(e, "upload", NoRule)
    \/ DeleteCourse(e)
    \/ TakeLock(e)
    \/ UpdateDatabasePolicy(e)
    \/ WriteCourseRule(e)
    \/ RestoreDatabasePolicy(e)
    \/ WriteOverride(e)
    \/ WriteWorkspace(e)
    \/ CreateFails(e)
    \/ PromoteUpload(e)
    \/ DeleteCourseFiles(e)
    \/ ShareCourse(e)
    \/ RotateInvite(e)

Learner(u) ==
    \/ RequireValidCode(u)
    \/ Join(u)
    \/ ReadRow(u)
    \/ ReadCourse(u)
    \/ ReadLectures(u)
    \/ Decide(u)

(* History of a request that is being answered: the rules that were in      *)
(* force at some moment of it, both sets while the course's own rule is     *)
(* being changed, and whether the course itself was changed meanwhile.      *)
InForce ==
    IF file = NoFile THEN {}
    ELSE {[course |-> course, override |-> file.override] : course \in
            {file.course} \cup {op[e].rule : e \in {x \in Editors : op[x].kind = "course"}}}

Witness ==
    LET begins(u) == req'[u].at = "row" /\ req[u].at # "row"
        open(u) == begins(u) \/ req[u].at \in {"row", "course", "lectures"}
    IN  /\ inForce' = [u \in Learners |->
                         IF open(u) THEN InForce' \cup (IF begins(u) THEN {} ELSE inForce[u])
                         ELSE {}]
        /\ mixed' = [u \in Learners |->
                        /\ open(u)
                        /\ \/ ~begins(u) /\ mixed[u]
                           \/ Busy({"course", "setup", "create", "delete"})']

Init ==
    /\ db = NoCourse /\ file = NoFile /\ rest = {} /\ enrolled = {}
    /\ lock = Nobody
    /\ op = [e \in Editors |-> Idle]
    /\ joining = {}
    /\ req = [u \in Learners |-> Waiting]
    /\ day = 0
    /\ created = FALSE
    /\ inForce = [u \in Learners |-> {}]
    /\ mixed = [u \in Learners |-> FALSE]

Next ==
    /\ \/ \E e \in Editors : Professor(e)
       \/ DisableInvite
       \/ \E u \in Learners : Learner(u)
       \/ NextDay
       \/ Crash
    /\ Witness

Spec == Init /\ [][Next]_vars

-----------------------------------------------------------------------------
(* Every variable has its type (records of CourseWorkspaceResult, of the    *)
(* rows and of what a request has read so far).                             *)
TypeOK ==
    /\ db \in Policies \cup {NoCourse}
    /\ enrolled \subseteq Learners /\ joining \subseteq Learners
    /\ file \in Workspaces \cup {NoFile}
    /\ rest \subseteq {"uploads", "invite"}
    /\ lock \in Editors \cup {Nobody}
    /\ \A e \in Editors :
          /\ op[e].at \in {"idle", "locking", "locked", "stored", "sharing"}
          /\ op[e].seen \in Policies \cup {NoCourse}
          /\ op[e].rule \in CourseRules \cup Overrides \cup {NoRule}
          /\ lock = e <=> op[e].at \in {"locked", "stored"}
    /\ \A u \in Learners :
          /\ req[u].at \in {"idle", "row", "course", "lectures", "granted", "refused"}
          /\ req[u].override \in Rules \cup {NoRule}
    /\ day \in 0 .. LastDay
    /\ created \in BOOLEAN
    /\ mixed \in [Learners -> BOOLEAN]
    /\ \A u \in Learners : inForce[u] \subseteq Workspaces

(* A request of the professor is at a step of its kind, with its rule.      *)
RequestsAreTyped ==
    /\ op \in [Editors -> [kind : {"none", "delete", "invite", "create"} \cup OpenedKinds,
                          at : {"idle", "locking", "locked", "stored", "sharing"},
                          rule : CourseRules \cup Overrides \cup {NoRule},
                          seen : Policies \cup {NoCourse}]]
    /\ \A e \in Editors :
          /\ op[e].at = "idle" => op[e] = Idle
          /\ op[e].kind = "none" => op[e].at = "idle"
          /\ op[e].at = "stored" => op[e].kind = "course"
          /\ op[e].kind = "course" => op[e].rule \in CourseRules
          /\ op[e].kind = "lecture" => op[e].rule \in Overrides \cup {NoRule}

(* A course that is being created has a row and no file, and before that it *)
(* has neither, nor a request.                                              *)
Creation ==
    /\ ~created => /\ db = NoCourse /\ file = NoFile /\ rest = {}
                   /\ \A e \in Editors : op[e] = Idle
    /\ \A e \in Editors : op[e].kind = "create" =>
          /\ file = NoFile /\ db = op[e].seen /\ db # NoCourse
          /\ \A f \in Editors : op[f].kind = "create" => f = e

(* The row and the file differ only between the writes of a new policy,     *)
(* where the request knows both.                                            *)
Policy ==
    /\ (\A e \in Editors : op[e].at # "stored") /\ db # NoCourse /\ file # NoFile =>
          file.course.policy = db
    /\ \A e \in Editors : op[e].at = "stored" =>
          /\ file # NoFile /\ op[e].seen # NoCourse
          /\ db # NoCourse => file.course.policy = op[e].seen /\ db = op[e].rule.policy

(* What a learner's request has read is what is still so, or was in force,  *)
(* unless the course itself was changed meanwhile.                          *)
ReadsAreInForce ==
    \A u \in Learners : ~mixed[u] /\ req[u].at \in {"row", "course", "lectures"} =>
        /\ ~Busy({"course", "setup", "create", "delete"})
        /\ req[u].at = "row" => req[u].course = db
        /\ req[u].at = "course" /\ file # NoFile => req[u].course = file.course
        /\ req[u].at = "lectures" =>
              [course |-> req[u].course, override |-> req[u].override] \in inForce[u]

(* Whenever nobody changes the course, its row and its file name the same   *)
(* audience (update_course_access restores the row when the file cannot be  *)
(* written).                                                                *)
RowAndFileAgree ==
    lock = Nobody /\ db # NoCourse /\ file # NoFile => file.course.policy = db

(* Once the deletion of a course has ended, nothing of its root is left and *)
(* nothing comes back, whatever was waiting for the lock.                   *)
DeletedCourseIsGone ==
    created /\ db = NoCourse /\ ~Busy({"delete"}) => file = NoFile /\ "uploads" \notin rest

(* The same of the link.                                                    *)
DeletedLinkIsGone ==
    created /\ db = NoCourse /\ ~Busy({"delete"}) => "invite" \notin rest

\* The inductive invariant, of a course that is not set up again.
Inv ==
    /\ TypeOK /\ RequestsAreTyped /\ Creation /\ Policy /\ DeletedCourseIsGone
    /\ ReadsAreInForce

Answers(u, how) == req[u].at = "lectures" /\ req'[u].at = how

Opens(u) == {CanConsume(u, rules.course, rules.override) : rules \in inForce'[u]}

RuledAnswer(u) ==
    ~mixed'[u] => /\ Answers(u, "granted") => TRUE \in Opens(u)
                  /\ Answers(u, "refused") => FALSE \in Opens(u)

(* A request that overlaps no change of the course itself gets the answer   *)
(* of a rule that was in force while it ran, with the enrollment and the    *)
(* day of its end: rules of the lecture may change, learners join and days  *)
(* pass meanwhile.                                                          *)
AnswersFollowTheRules == [][\A u \in Learners : RuledAnswer(u)]_vars

(* A learner sees a lecture only if a rule of the professor, the one before *)
(* or the one after a change, opens it.                                     *)
ShownOnlyWhenOpen ==
    [][\A u \in Learners : Answers(u, "granted") => TRUE \in Opens(u)]_vars

=============================================================================
