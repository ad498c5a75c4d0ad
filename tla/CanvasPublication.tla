------------------------ MODULE CanvasPublication ------------------------
(***************************************************************************)
(* The draft of one lecture, the review of its learning design, its        *)
(* publication, and the language variants of the publication.              *)
(*                                                                         *)
(* Requests of professors read under the course lock and come back later   *)
(* with what they saw.  Approving and publishing is one action of several  *)
(* steps under the course lock; it may fail between them, or the process   *)
(* may crash.  A directory is replaced as a whole (CanvasSnapshot); only a *)
(* first publication can fail after it is in place.                        *)
(***************************************************************************)
EXTENDS Integers

CONSTANTS
    Requests,     \* professors' requests
    Docs,         \* documents a generation may write
    Edits,        \* states of a learning map
    Fresh,        \* the state of a generated one, in Edits
    Languages,
    None,
    MaxSource,    \* bound: source revisions
    MaxPractice,  \* bound: practice designs
    MaxVersion,   \* bound: publications
    MaxTexts,     \* bound: translations
    MaxFaults     \* bound: failures and crashes

DraftFiles == [doc : Docs, source : 1..MaxSource, practice : 1..MaxPractice]
Reviews == [doc : Docs, source : 1..MaxSource, practice : 1..MaxPractice, edit : Edits,
            approved : BOOLEAN]
Snapshots == [version : 1..MaxVersion, doc : Docs, source : 1..MaxSource,
              practice : 1..MaxPractice, edit : Edits]
Variants == [version : 1..MaxVersion, doc : Docs, edit : Edits, text : 1..MaxTexts]
Previews == [language : Languages, variant : Variants]

\* What the constants are assumed to be.
PublicationAssumption ==
    /\ Fresh \in Edits
    /\ None \notin Requests \cup DraftFiles \cup Reviews \cup Snapshots \cup Variants \cup Previews
    /\ {MaxSource, MaxPractice} \subseteq Nat \ {0}
    /\ {MaxVersion, MaxTexts, MaxFaults} \subseteq Nat

VARIABLES
    source,    \* the revision of the lecture's sources
    practice,  \* the approved practice design: its revision and its sources'
    draft,     \* the draft: document and the revisions it is bound to
    review,    \* the review next to the draft
    published, \* the published snapshot
    variant,   \* variant[l]: the drafted translation into language l
    shown,     \* shown[l]: the published translation
    assessed,  \* the language of assessments declared, and for which publication
    pc,        \* pc[r]: where request r is
    seen,      \* seen[r]: the review, snapshot or translation it was shown
    kept,      \* kept[r]: the review it puts back if it fails
    lock,      \* the request that holds the course lock
    texts,     \* translations made so far
    faults     \* failures so far

files == <<draft, review, published>>
languageFiles == <<variant, shown, assessed>>
vars == <<source, practice, files, languageFiles, pc, seen, kept, lock, texts, faults>>

Version == IF published = None THEN 0 ELSE published.version
Fails == faults < MaxFaults /\ faults' = faults + 1
Goto(r, s) == pc' = [pc EXCEPT ![r] = s]

\* Two records of the same exact draft and design.
SameDraft(a, b) == a.doc = b.doc /\ a.source = b.source /\ a.practice = b.practice
SameDesign(a, b) == SameDraft(a, b) /\ a.edit = b.edit

\* The stored review is of the draft next to it, of today's sources and of
\* the practice design approved for them.
Current ==
    /\ draft # None
    /\ SameDraft(review, draft)
    /\ review.source = source
    /\ practice = [revision |-> review.practice, source |-> source]

\* Mutant: an approval counts whatever it was given for.
ApprovedSeen(r) == seen[r] # None

Approved(r) == Current /\ SameDesign(review, seen[r])

----------------------------------------------------------------------------
(* Sources, practice design, draft                                          *)

EditSources ==
    /\ lock = None
    /\ source < MaxSource
    /\ source' = source + 1
    /\ UNCHANGED <<practice, files, languageFiles, pc, seen, kept, lock, texts, faults>>

ApprovePractice ==
    /\ lock = None
    /\ practice.revision < MaxPractice
    /\ practice' = [revision |-> practice.revision + 1, source |-> source]
    /\ UNCHANGED <<source, files, languageFiles, pc, seen, kept, lock, texts, faults>>

\* A generation for the current sources and practice design; the new
\* directory has a review of its own, which nobody approved.
WriteDraft(d) ==
    /\ lock = None
    /\ practice.source = source
    /\ draft' = [doc |-> d, source |-> source, practice |-> practice.revision]
    /\ review' = [doc |-> d, source |-> source, practice |-> practice.revision,
                  edit |-> Fresh, approved |-> FALSE]
    /\ UNCHANGED <<source, practice, published, languageFiles, pc, seen, kept, lock, texts, faults>>

----------------------------------------------------------------------------
(* The learning design                                                      *)

ReadDesign(r) ==
    /\ pc[r] = "idle" /\ lock = None
    /\ Current
    /\ seen' = [seen EXCEPT ![r] = review]
    /\ Goto(r, "reviewing")
    /\ UNCHANGED <<source, practice, files, languageFiles, kept, lock, texts, faults>>

UpdateDesign(r, e) ==
    /\ pc[r] = "reviewing" /\ lock = None
    /\ Approved(r)
    /\ review' = [review EXCEPT !.edit = e, !.approved = FALSE]
    /\ seen' = [seen EXCEPT ![r] = review']
    /\ UNCHANGED <<source, practice, draft, published, languageFiles, pc, kept, lock, texts, faults>>

\* The professor closes the page, or is told to reload it.
Leave(r) ==
    /\ pc[r] \in {"reviewing", "translating", "previewed"}
    /\ Goto(r, "idle")
    /\ seen' = [seen EXCEPT ![r] = None]
    /\ UNCHANGED <<source, practice, files, languageFiles, kept, lock, texts, faults>>

----------------------------------------------------------------------------
(* Approve and publish                                                      *)

Release(r) == lock' = None /\ Goto(r, "idle") /\ seen' = [seen EXCEPT ![r] = None]

\* Mutant: the course lock is not taken for both steps.
BeginUnlocked(r) ==
    /\ pc[r] = "reviewing"
    /\ kept' = [kept EXCEPT ![r] = review]
    /\ Goto(r, "approve")
    /\ UNCHANGED <<source, practice, files, languageFiles, seen, lock, texts, faults>>

BeginApproval(r) ==
    /\ pc[r] = "reviewing" /\ lock = None
    /\ lock' = r
    /\ kept' = [kept EXCEPT ![r] = review]
    /\ Goto(r, "approve")
    /\ UNCHANGED <<source, practice, files, languageFiles, seen, texts, faults>>

Approve(r) ==
    /\ pc[r] = "approve"
    /\ Approved(r)
    /\ review' = [review EXCEPT !.approved = TRUE]
    /\ Goto(r, "publish")
    /\ UNCHANGED <<source, practice, draft, published, languageFiles, seen, kept, lock, texts, faults>>

ApprovalRefused(r) ==
    /\ pc[r] = "approve"
    /\ ~Approved(r)
    /\ Release(r)
    /\ UNCHANGED <<source, practice, files, languageFiles, kept, texts, faults>>

\* Mutant: a publication is numbered from 1 again after the draft changed.
NextVersionOfDraft == IF published # None /\ published.doc = draft.doc THEN Version + 1 ELSE 1
NextVersion == Version + 1

Snapshot == [version |-> NextVersion, doc |-> draft.doc, source |-> review.source,
             practice |-> review.practice, edit |-> review.edit]

Publish(r) ==
    /\ pc[r] = "publish"
    /\ Version < MaxVersion
    /\ Current /\ review.approved
    /\ published' = Snapshot
    /\ Release(r)
    /\ UNCHANGED <<source, practice, draft, review, languageFiles, kept, texts, faults>>

\* An approval that is not of the current draft, a file system error, or a
\* first publication that is in place when its sync fails.
PublishFails(r) ==
    /\ pc[r] = "publish"
    /\ \/ /\ ~(Current /\ review.approved) \/ Version = MaxVersion
          /\ UNCHANGED <<published, faults>>
       \/ Fails /\ UNCHANGED published
       \/ Fails /\ published = None /\ Version < MaxVersion /\ published' = Snapshot
    /\ Goto(r, "revert")
    /\ UNCHANGED <<source, practice, draft, review, languageFiles, seen, kept, lock, texts>>

\* The previous review comes back, unless that fails too.
Revert(r) ==
    /\ pc[r] = "revert"
    /\ \/ review' = kept[r] /\ UNCHANGED faults
       \/ Fails /\ UNCHANGED review
    /\ Release(r)
    /\ UNCHANGED <<source, practice, draft, published, languageFiles, kept, texts>>

----------------------------------------------------------------------------
(* Languages                                                                *)

Valid(v) == published # None /\ v.version = published.version

Translate(r) ==
    /\ pc[r] = "idle"
    /\ published # None
    /\ seen' = [seen EXCEPT ![r] = published]
    /\ Goto(r, "translating")
    /\ UNCHANGED <<source, practice, files, languageFiles, kept, lock, texts, faults>>

\* The model has answered; the variant is written for the snapshot it is of.
WriteVariant(r, l) ==
    /\ pc[r] = "translating" /\ lock = None
    /\ texts < MaxTexts
    /\ Valid(seen[r])
    /\ texts' = texts + 1
    /\ variant' = [variant EXCEPT ![l] = [version |-> seen[r].version, doc |-> seen[r].doc,
                                          edit |-> seen[r].edit, text |-> texts + 1]]
    /\ Goto(r, "idle")
    /\ seen' = [seen EXCEPT ![r] = None]
    /\ UNCHANGED <<source, practice, files, shown, assessed, kept, lock, faults>>

Preview(r, l) ==
    /\ pc[r] = "idle" /\ lock = None
    /\ variant[l] # None
    /\ Valid(variant[l])
    /\ seen' = [seen EXCEPT ![r] = [language |-> l, variant |-> variant[l]]]
    /\ Goto(r, "previewed")
    /\ UNCHANGED <<source, practice, files, languageFiles, kept, lock, texts, faults>>

\* The drafted translation is of the current publication and the previewed one.
MayPublishVariant(r) ==
    LET v == variant[seen[r].language] IN
    /\ Valid(v)
    /\ v.text = seen[r].variant.text

\* The professor declares the language of the assessments; for one
\* publication it is declared once.
Declare(r, a) ==
    /\ pc[r] = "previewed" /\ lock = None
    /\ MayPublishVariant(r)
    /\ assessed # None /\ assessed.version = published.version => assessed.language = a
    /\ assessed' = [version |-> published.version, language |-> a]
    /\ lock' = r
    /\ Goto(r, "declared")
    /\ UNCHANGED <<source, practice, files, variant, shown, seen, kept, texts, faults>>

PublishVariant(r) ==
    LET l == seen[r].language IN
    /\ pc[r] = "declared"
    /\ \/ shown' = [shown EXCEPT ![l] = variant[l]] /\ UNCHANGED faults
       \/ Fails /\ UNCHANGED shown
    /\ Release(r)
    /\ UNCHANGED <<source, practice, files, variant, assessed, kept, texts>>

----------------------------------------------------------------------------
Crash ==
    /\ Fails
    /\ pc' = [r \in Requests |-> "idle"]
    /\ seen' = [r \in Requests |-> None]
    /\ lock' = None
    /\ UNCHANGED <<source, practice, files, languageFiles, kept, texts>>

Init ==
    /\ source = 1
    /\ practice = [revision |-> 1, source |-> 1]
    /\ draft = None /\ review = None /\ published = None
    /\ variant = [l \in Languages |-> None]
    /\ shown = [l \in Languages |-> None]
    /\ assessed = None
    /\ pc = [r \in Requests |-> "idle"]
    /\ seen = [r \in Requests |-> None]
    /\ kept = [r \in Requests |-> None]
    /\ lock = None
    /\ texts = 0 /\ faults = 0

Next ==
    \/ EditSources \/ ApprovePractice \/ Crash
    \/ \E d \in Docs : WriteDraft(d)
    \/ \E r \in Requests :
          \/ ReadDesign(r) \/ Leave(r)
          \/ \E e \in Edits : UpdateDesign(r, e)
          \/ BeginApproval(r) \/ Approve(r) \/ ApprovalRefused(r)
          \/ Publish(r) \/ PublishFails(r) \/ Revert(r)
          \/ Translate(r) \/ PublishVariant(r)
          \/ \E l \in Languages : WriteVariant(r, l) \/ Preview(r, l) \/ Declare(r, l)

Spec == Init /\ [][Next]_vars

----------------------------------------------------------------------------
(* Properties                                                               *)

\* Where a request is, and what it was shown; behind the lock are the steps of
\* one action.
Locking == {"approve", "publish", "revert", "declared"}
Places == {"idle", "reviewing", "translating", "previewed"} \cup Locking
Sights == Reviews \cup Snapshots \cup Previews \cup {None}

\* Every file and local variable keeps to its type, and a request past the
\* first step of approving, or of publishing a language, holds the lock.
TypeOK ==
    /\ source \in 1..MaxSource
    /\ practice \in [revision : 1..MaxPractice, source : 1..MaxSource]
    /\ draft \in DraftFiles \cup {None}
    /\ review \in Reviews \cup {None}
    /\ published \in Snapshots \cup {None}
    /\ variant \in [Languages -> Variants \cup {None}]
    /\ shown \in [Languages -> Variants \cup {None}]
    /\ assessed \in [version : 1..MaxVersion, language : Languages] \cup {None}
    /\ pc \in [Requests -> Places]
    /\ seen \in [Requests -> Sights]
    /\ kept \in [Requests -> Reviews \cup {None}]
    /\ lock \in Requests \cup {None}
    /\ \A r \in Requests : pc[r] \in Locking => lock = r
    /\ texts \in 0..MaxTexts
    /\ faults \in 0..MaxFaults

\* What is published is exactly what the publishing professor was shown, made
\* of the sources and the practice design of this moment, though drafts are
\* regenerated, designs edited and sources changed by others meanwhile.
PublishedAsReviewed ==
    [][published' # published =>
        \E r \in Requests : /\ pc[r] \in {"publish"}
                            /\ SameDesign(published', seen[r])
                            /\ published'.doc = draft.doc
                            /\ published'.source = source
                            /\ published'.practice = practice.revision]_vars

\* No version is published twice, whatever fails: a page opened on a version
\* is of that publication.
VersionsRise ==
    [][published' # published => published' # None /\ published'.version = Version + 1]_vars

\* An approval on disk is of the draft next to it: a regeneration, an edit or
\* a failed publication that puts an older review back does not bring one
\* that was given for something else.
ApprovalIsOfTheDraft ==
    review # None =>
        /\ draft # None /\ SameDraft(review, draft)
        /\ review.approved =>
              \/ \E r \in Requests : pc[r] \in {"publish", "revert"} /\ SameDesign(review, seen[r])
              \/ faults > 0
              \/ published # None /\ SameDesign(published, review)

\* What a request knows at each step: what it was shown, and under the lock the
\* review it puts back, which is of the draft and was approved for what is
\* published.
Reviewing == {"reviewing", "approve", "publish", "revert"}
Knows(r) ==
    /\ pc[r] \in Reviewing => review # None /\ seen[r] \in Reviews
    /\ pc[r] = "translating" => seen[r] \in Snapshots
    /\ pc[r] \in {"previewed", "declared"} => seen[r] \in Previews
    /\ pc[r] \in {"approve", "publish", "revert"} =>
           /\ kept[r] \in Reviews /\ SameDraft(kept[r], draft)
           /\ kept[r].approved =>
                  faults > 0 \/ (published # None /\ SameDesign(published, kept[r]))
    /\ pc[r] = "approve" => review = kept[r]
    /\ pc[r] = "publish" => Approved(r) /\ review.approved

\* What the steps keep: types, the draft and the review that belong together,
\* and what requests know of them.
Inv ==
    /\ TypeOK
    /\ draft # None => review # None
    /\ ApprovalIsOfTheDraft
    /\ \A r \in Requests : Knows(r)

\* What the steps keep of translations: each is of a publication up to this one,
\* and one that is about to be published is the one that was previewed.
OfPublication(v) ==
    /\ published # None /\ v.version <= published.version
    /\ v.version = published.version => v.doc = published.doc
AsPreviewed(r) ==
    LET l == seen[r].language
        v == seen[r].variant
    IN  /\ variant[l] # None /\ v.text <= texts
        /\ variant[l].text = v.text \/ pc[r] = "declared" => variant[l] = v
Translated ==
    /\ \A l \in Languages : variant[l] # None => OfPublication(variant[l]) /\ variant[l].text <= texts
    /\ \A l \in Languages : shown[l] # None => OfPublication(shown[l])
    /\ \A r \in Requests :
           /\ pc[r] = "translating" => OfPublication(seen[r])
           /\ pc[r] \in {"previewed", "declared"} => AsPreviewed(r)

\* What learners are shown in another language translates what they are shown.
VariantsTranslateThePublication ==
    \A l \in Languages : shown[l] # None /\ Valid(shown[l]) => shown[l].doc = published.doc

\* A language is published as the professor previewed it, even if another
\* request drafts it anew meanwhile.
VariantAsPreviewed ==
    [][\A l \in Languages : shown'[l] # shown[l] =>
          \E r \in Requests : /\ pc[r] = "declared" /\ seen[r].language = l
                              /\ shown'[l] = seen[r].variant]_vars

\* The language of a publication's assessments, once declared, stays.
AssessmentLanguageStays ==
    [][assessed # None /\ published' = published /\ published # None
         /\ assessed.version = published.version => assessed' = assessed]_vars

\* "A failed publication restores the previous review, so the action never
\* leaves half of itself behind" (course_canvas_approval_publication.py:28).
NoHalfAction ==
    lock = None /\ review # None /\ review.approved =>
        published # None /\ SameDesign(published, review)
============================================================================
