---------------------------- MODULE ReviewPages ----------------------------
(***************************************************************************)
(* Reviewing groups in the browser: web/static/app.js and state.js with    *)
(* the handlers of api/handlers.go that they call.  A page lists the       *)
(* groups, shows one of them in a modal and submits the file to keep; the  *)
(* server reads the group and then marks its other files.  Meanwhile scans *)
(* replace all groups and their ids, answers are late or never come, and   *)
(* users close the modal or reload the page.                               *)
(***************************************************************************)
EXTENDS Naturals, FiniteSets, Functions

CONSTANTS
  File,
  Results,     \* the sets of groups that scans of the database may find
  Page,        \* the pages open in browsers
  MaxScans,    \* bound: how many scans materialize their groups
  MaxLoads,    \* bound: groups that a page loads at once
  MaxPosts,    \* bound: requests of a page to mark a group that run at once
  NoForm       \* the modal is empty

\* A scan that runs next to another one may find other files than that one; the
\* groups that one scan finds share no file.
ASSUME ResultsAssumption ==
  \A groups \in Results :
    /\ IsFiniteSet(groups) /\ groups \subseteq SUBSET File
    /\ \A g, h \in groups : g # h => g \cap h = {}

ASSUME BoundsAssumption == MaxScans \in Nat /\ MaxLoads \in Nat /\ MaxPosts \in Nat

VARIABLES
  \* The database.
  dupGroups,   \* the rows of dup_groups, with the files whose dup_group is their id
  nextGroup,   \* the AUTOINCREMENT counter of dup_groups
  scans,
  pending,     \* the files that are marked for deletion
  \* The pages, of which each is a record of browser state.
  list,        \* list[p]: the group ids in #groups-list
  open,        \* open[p]: the modal is not hidden
  form,        \* form[p]: the group in #modal-content
  asked,       \* asked[p]: the groups asked for, by id
  answers,     \* answers[p]: groups that were found and are on their way
  submitting,  \* SubmissionState.isSubmitting
  \* The requests to mark a group.
  posts        \* posts[p]: [form, keep, stage, marks, awaited]

database == <<dupGroups, nextGroup, scans, pending>>
modal == <<open, form>>
loading == <<asked, answers>>
vars == <<database, list, modal, loading, submitting, posts>>

Form == [id : Nat, files : SUBSET File]

Init ==
  /\ dupGroups = {} /\ nextGroup = 1 /\ scans = 0 /\ pending = {}
  /\ list = [p \in Page |-> {}]
  /\ open = [p \in Page |-> FALSE] /\ form = [p \in Page |-> NoForm]
  /\ asked = [p \in Page |-> {}] /\ answers = [p \in Page |-> {}]
  /\ submitting = [p \in Page |-> FALSE]
  /\ posts = [p \in Page |-> {}]

(***************************************************************************)
(* Elsewhere: scans, and the list of deletions.                            *)
(***************************************************************************)

\* Mutant: INTEGER PRIMARY KEY without AUTOINCREMENT; the emptied table starts
\* with 1 again.
MaterializeFromOne ==
  /\ scans < MaxScans
  /\ scans' = scans + 1
  /\ \E groups \in Results : \E id \in Bijection(groups, 1 .. Cardinality(groups)) :
       dupGroups' = {[id |-> id[g], files |-> g] : g \in groups}
  /\ UNCHANGED <<nextGroup, pending, list, modal, loading, submitting, posts>>

\* The end of a scan: all groups are replaced, and their ids are new.
MaterializeDupGroups ==
  /\ scans < MaxScans
  /\ scans' = scans + 1
  /\ \E groups \in Results :
       /\ nextGroup' = nextGroup + Cardinality(groups)
       /\ \E id \in Bijection(groups, nextGroup .. (nextGroup' - 1)) :
            dupGroups' = {[id |-> id[g], files |-> g] : g \in groups}
  /\ UNCHANGED <<pending, list, modal, loading, submitting, posts>>

\* DELETE /api/deletions/:fileId, from any page, or the file's row is executed.
UnmarkDeletion(f) ==
  /\ f \in pending
  /\ pending' = pending \ {f}
  /\ UNCHANGED <<dupGroups, nextGroup, scans, list, modal, loading, submitting, posts>>

(***************************************************************************)
(* The list and the modal.                                                 *)
(***************************************************************************)

\* GET /api/groups: when the page is loaded, on its button, and after a mark is
\* set or withdrawn.
GetGroups(p) ==
  /\ list' = [list EXCEPT ![p] = {g.id : g \in dupGroups}]
  /\ UNCHANGED <<database, modal, loading, submitting, posts>>

\* The list is reached only past a hidden modal; the old content is not cleared.
OpenModal(p, id) ==
  /\ ~open[p]
  /\ id \in list[p]
  /\ Cardinality(asked[p]) + Cardinality(answers[p]) < MaxLoads
  /\ open' = [open EXCEPT ![p] = TRUE]
  /\ asked' = [asked EXCEPT ![p] = @ \cup {id}]
  /\ UNCHANGED <<database, list, form, answers, submitting, posts>>

\* GetGroupFiles: the rows with this dup_group.
GroupFiles(id) == UNION {g.files : g \in {h \in dupGroups : h.id = id}}

\* GET /api/groups/:id.  htmx leaves the modal as it is on 404, or on an error.
GetGroup(p, id) ==
  /\ id \in asked[p]
  /\ asked' = [asked EXCEPT ![p] = @ \ {id}]
  /\ \/ /\ GroupFiles(id) # {}
        /\ answers' = [answers EXCEPT ![p] = @ \cup {[id |-> id, files |-> GroupFiles(id)]}]
     \/ UNCHANGED answers
  /\ UNCHANGED <<database, list, modal, submitting, posts>>

\* The answer is swapped into the modal, whether that is still open or not.
SwapGroup(p, answer) ==
  /\ answer \in answers[p]
  /\ answers' = [answers EXCEPT ![p] = @ \ {answer}]
  /\ form' = [form EXCEPT ![p] = answer]
  /\ UNCHANGED <<database, list, open, asked, submitting, posts>>

HideModal(p) ==
  /\ open' = [open EXCEPT ![p] = FALSE]
  /\ form' = [form EXCEPT ![p] = NoForm]

\* closeModal of app.js, which is loaded after state.js and replaces the one
\* that looks at SubmissionState.
CloseModal(p) ==
  /\ open[p]
  /\ HideModal(p)
  /\ UNCHANGED <<database, list, loading, submitting, posts>>

(***************************************************************************)
(* Submitting the file to keep.                                            *)
(***************************************************************************)

Awaited(p) == {post \in posts[p] : post.awaited}

\* Mutant: only the button is disabled, and a new form brings a new button.
SubmitAgain(p, keep) ==
  /\ open[p] /\ form[p] # NoForm
  /\ keep \in form[p].files
  /\ Cardinality(posts[p]) < MaxPosts
  /\ submitting' = [submitting EXCEPT ![p] = TRUE]
  /\ posts' = [posts EXCEPT ![p] = @ \cup
       {[form |-> form[p], keep |-> keep, stage |-> "sent", marks |-> {}, awaited |-> TRUE]}]
  /\ UNCHANGED <<database, list, modal, loading>>

\* The submit event: SubmissionState.start, and fetch of the group's mark URL.
Submit(p, keep) ==
  /\ open[p] /\ form[p] # NoForm
  /\ keep \in form[p].files
  /\ ~submitting[p]
  /\ Cardinality(posts[p]) < MaxPosts
  /\ submitting' = [submitting EXCEPT ![p] = TRUE]
  /\ posts' = [posts EXCEPT ![p] = @ \cup
       {[form |-> form[p], keep |-> keep, stage |-> "sent", marks |-> {}, awaited |-> TRUE]}]
  /\ UNCHANGED <<database, list, modal, loading>>

Replace(p, post, by) == posts' = [posts EXCEPT ![p] = (@ \ {post}) \cup {by}]

\* POST /api/groups/:id/mark: its files are read, and the one to keep must be
\* among them; the query may also fail.
FindGroup(p, post) ==
  LET files == GroupFiles(post.form.id) IN
  /\ post \in posts[p] /\ post.stage = "sent"
  /\ \/ /\ post.keep \in files
        /\ Replace(p, post, [post EXCEPT !.stage = "found", !.marks = files \ {post.keep}])
     \/ Replace(p, post, [post EXCEPT !.stage = "refused"])
  /\ UNCHANGED <<database, list, modal, loading, submitting>>

\* One transaction of its own marks the others, or fails.
MarkGroup(p, post) ==
  /\ post \in posts[p] /\ post.stage = "found"
  /\ \/ pending' = pending \cup post.marks /\ Replace(p, post, [post EXCEPT !.stage = "marked"])
     \/ UNCHANGED pending /\ Replace(p, post, [post EXCEPT !.stage = "refused"])
  /\ UNCHANGED <<dupGroups, nextGroup, scans, list, modal, loading, submitting>>

Ended(post) == post.stage \in {"marked", "refused"}

\* Mutant: only a success releases SubmissionState.
HearSuccess(p, post) ==
  /\ post \in Awaited(p) /\ Ended(post)
  /\ posts' = [posts EXCEPT ![p] = @ \ {post}]
  /\ \/ post.stage = "marked" /\ HideModal(p) /\ submitting' = [submitting EXCEPT ![p] = FALSE]
     \/ post.stage = "refused" /\ UNCHANGED <<modal, submitting>>
  /\ UNCHANGED <<database, list, loading>>

\* The answer arrives: a success closes the modal, whatever that shows by now,
\* anything else alerts; finally SubmissionState is released.
Hear(p, post) ==
  /\ post \in Awaited(p) /\ Ended(post)
  /\ posts' = [posts EXCEPT ![p] = @ \ {post}]
  /\ \/ post.stage = "marked" /\ HideModal(p)
     \/ post.stage = "refused" /\ UNCHANGED modal
  /\ submitting' = [submitting EXCEPT ![p] = FALSE]
  /\ UNCHANGED <<database, list, loading>>

\* The fetch fails: the request was lost, or its answer is, and the server may
\* still be at it.
FetchFails(p, post) ==
  /\ post \in Awaited(p)
  /\ \/ posts' = [posts EXCEPT ![p] = @ \ {post}]
     \/ Replace(p, post, [post EXCEPT !.awaited = FALSE])
  /\ submitting' = [submitting EXCEPT ![p] = FALSE]
  /\ UNCHANGED <<database, list, modal, loading>>

\* The answer goes to nobody.
Unheard(p, post) ==
  /\ post \in posts[p] \ Awaited(p) /\ Ended(post)
  /\ posts' = [posts EXCEPT ![p] = @ \ {post}]
  /\ UNCHANGED <<database, list, modal, loading, submitting>>

\* Mutant: the flag outlives the page, say in localStorage.
ReloadKeepsFlag(p) ==
  /\ list' = [list EXCEPT ![p] = {}]
  /\ HideModal(p)
  /\ asked' = [asked EXCEPT ![p] = {}] /\ answers' = [answers EXCEPT ![p] = {}]
  /\ posts' = [posts EXCEPT ![p] = {[post EXCEPT !.awaited = FALSE] : post \in @}]
  /\ UNCHANGED <<database, submitting>>

\* The page is loaded again.
Reload(p) ==
  /\ list' = [list EXCEPT ![p] = {}]
  /\ HideModal(p)
  /\ asked' = [asked EXCEPT ![p] = {}] /\ answers' = [answers EXCEPT ![p] = {}]
  /\ submitting' = [submitting EXCEPT ![p] = FALSE]
  /\ posts' = [posts EXCEPT ![p] = {[post EXCEPT !.awaited = FALSE] : post \in @}]
  /\ UNCHANGED database

Settle(p) == \E post \in posts[p] : Hear(p, post) \/ FetchFails(p, post)

Next ==
  \/ MaterializeDupGroups
  \/ \E f \in File : UnmarkDeletion(f)
  \/ \E p \in Page :
       \/ GetGroups(p) \/ CloseModal(p) \/ Settle(p) \/ Reload(p)
       \/ \E id \in list[p] : OpenModal(p, id)
       \/ \E id \in asked[p] : GetGroup(p, id)
       \/ \E answer \in answers[p] : SwapGroup(p, answer)
       \/ \E keep \in File : Submit(p, keep)
       \/ \E post \in posts[p] : FindGroup(p, post) \/ MarkGroup(p, post) \/ Unheard(p, post)

\* A fetch settles: the server answers, or its timeouts cut the connection.
Spec == Init /\ [][Next]_vars /\ \A p \in Page : WF_vars(Settle(p))

(***************************************************************************)
(* Properties.                                                             *)
(***************************************************************************)

Post ==
  [form : Form, keep : File, stage : {"sent", "found", "marked", "refused"},
   marks : SUBSET File, awaited : BOOLEAN]

\* Every variable has its type, and SubmissionState is set exactly while one
\* fetch of its page is not settled.
TypeOK ==
  /\ dupGroups \subseteq Form
  /\ nextGroup \in Nat \ {0} /\ scans \in Nat
  /\ pending \subseteq File
  /\ list \in [Page -> SUBSET Nat]
  /\ open \in [Page -> BOOLEAN]
  /\ form \in [Page -> Form \cup {NoForm}]
  /\ asked \in [Page -> SUBSET Nat]
  /\ answers \in [Page -> SUBSET Form]
  /\ submitting \in [Page -> BOOLEAN]
  /\ posts \in [Page -> SUBSET Post]
  /\ \A p \in Page : submitting[p] <=> Awaited(p) # {}

\* A page waits for one answer only, though its modal is closed and opened, and
\* its form replaced, while a request runs (SubmissionState of state.js).
OneSubmission == \A p \in Page : \A a, b \in Awaited(p) : a = b

\* What gets marked is a whole group as some user saw it, without the file that
\* this user chose to keep, though the form may be older than the latest scan,
\* the modal closed, and the group read before a scan replaces it and marked
\* after: the atomic step MarkGroupForDeletion of module Deletions.
MarksAreAsShown ==
  [][\A f \in pending' \ pending :
       \E p \in Page : \E post \in posts[p] :
         /\ f \in post.form.files \ {post.keep}
         /\ pending' = pending \cup (post.form.files \ {post.keep})]_vars

\* SubmissionState is always released, so that the page can submit again.
SubmissionEnds == \A p \in Page : submitting[p] ~> ~submitting[p]
=============================================================================
