------------------------- MODULE ReviewPagesProofs -------------------------
(***************************************************************************)
(* What a page submits is what its user saw: for any number of pages,      *)
(* scans and requests.  The argument is that ids are given out once, so    *)
(* that a form whose group is still there has the files of that group.     *)
(***************************************************************************)
EXTENDS ReviewPages, FiniteSetTheorems, TLAPS

\* AUTOINCREMENT.
IdsAreFresh ==
  /\ \A g \in dupGroups : g.id < nextGroup
  /\ \A g, h \in dupGroups : g.id = h.id => g = h

\* A group that a page knows is an old one, or is as it was.
UpToDate(known) ==
  /\ known.id < nextGroup
  /\ \A g \in dupGroups : g.id = known.id => g.files = known.files

FormsAreUpToDate ==
  \A p \in Page :
    /\ form[p] # NoForm => UpToDate(form[p])
    /\ \A answer \in answers[p] : UpToDate(answer)
    /\ \A post \in posts[p] : UpToDate(post.form)

MarksFitTheForm ==
  \A p \in Page : \A post \in posts[p] :
    post.stage = "found" => post.marks = post.form.files \ {post.keep}

IInv == TypeOK /\ OneSubmission /\ IdsAreFresh /\ FormsAreUpToDate /\ MarksFitTheForm

-----------------------------------------------------------------------------

\* GetGroupFiles returns the files of the one row with that id, if there is one.
LEMMA OneRowPerId ==
  ASSUME IdsAreFresh, TypeOK, NEW id, GroupFiles(id) # {}
  PROVE  \E g \in dupGroups : g.id = id /\ GroupFiles(id) = g.files
<1>1. PICK g \in dupGroups : g.id = id
  BY DEF GroupFiles
<1>2. {h \in dupGroups : h.id = id} = {g}
  BY <1>1 DEF IdsAreFresh
<1>3. GroupFiles(id) = UNION {h.files : h \in {g}}
  BY <1>2 DEF GroupFiles
<1> QED BY <1>1, <1>3

\* The new rows: their ids are new and different, and their files are files.
LEMMA NewRows ==
  ASSUME NEW groups \in Results, nextGroup \in Nat \ {0},
         NEW id \in Bijection(groups, nextGroup .. (nextGroup + Cardinality(groups) - 1)),
         NEW rows, rows = {[id |-> id[g], files |-> g] : g \in groups}
  PROVE  /\ nextGroup + Cardinality(groups) \in Nat \ {0}
         /\ nextGroup + Cardinality(groups) >= nextGroup
         /\ rows \subseteq Form
         /\ \A g \in rows : g.id >= nextGroup /\ g.id < nextGroup + Cardinality(groups)
         /\ \A g, h \in rows : g.id = h.id => g = h
<1>1. Cardinality(groups) \in Nat /\ groups \subseteq SUBSET File
  BY ResultsAssumption, FS_CardinalityType
<1>2. /\ \A g \in groups : id[g] \in nextGroup .. (nextGroup + Cardinality(groups) - 1)
      /\ \A g, h \in groups : id[g] = id[h] => g = h
  BY DEF Bijection, Injection, Surjection, IsInjective
<1>3. \A r \in rows : \E g \in groups : r = [id |-> id[g], files |-> g]
  OBVIOUS
<1>4. \A r \in rows : r.id \in Nat /\ r.files \subseteq File /\ r = [id |-> r.id, files |-> r.files]
  BY <1>1, <1>2, <1>3
<1>5. rows \subseteq Form
  BY <1>4 DEF Form
<1> QED BY <1>1, <1>2, <1>3, <1>5

-----------------------------------------------------------------------------

LEMMA InitInv == Init => IInv
  BY DEF Init, IInv, TypeOK, OneSubmission, Awaited, IdsAreFresh, FormsAreUpToDate, MarksFitTheForm

\* A step that replaces a request by one for the same form, as awaited as before.
LEMMA PostReplaced ==
  ASSUME IInv, NEW p \in Page, NEW post \in posts[p], NEW by \in Post,
         by.form = post.form, by.awaited = post.awaited,
         by.stage = "found" => by.marks = by.form.files \ {by.keep},
         Replace(p, post, by), pending' \subseteq File,
         UNCHANGED <<dupGroups, nextGroup, scans, list, modal, loading, submitting>>
  PROVE  IInv'
<1> USE DEF IInv
<1>1. posts' \in [Page -> SUBSET Post] /\ \A q \in Page \ {p} : posts'[q] = posts[q]
  BY DEF TypeOK, Replace
<1>2. posts'[p] = (posts[p] \ {post}) \cup {by}
  BY DEF TypeOK, Replace
<1>3. \A q \in Page \ {p} : Awaited(q)' = Awaited(q)
  BY <1>1 DEF Awaited
<1>4. (Awaited(p)' # {} <=> Awaited(p) # {}) /\ \A a, b \in Awaited(p)' : a = b
  BY <1>2 DEF Awaited, OneSubmission
<1>5. TypeOK' /\ OneSubmission'
  BY <1>1, <1>3, <1>4 DEF TypeOK, OneSubmission, modal, loading
<1>6. IdsAreFresh'
  BY DEF IdsAreFresh
<1>7. FormsAreUpToDate' /\ MarksFitTheForm'
  BY <1>1, <1>2 DEF FormsAreUpToDate, UpToDate, MarksFitTheForm, modal, loading
<1> QED BY <1>5, <1>6, <1>7

\* A step after which a request is gone, or not awaited any more, and whose page
\* has the right flag; the modal may be emptied.
LEMMA PostDropped ==
  ASSUME IInv, NEW p \in Page, NEW rest \in SUBSET Post,
         \A new \in rest : \E old \in posts[p] :
            new.form = old.form /\ new.keep = old.keep /\ new.marks = old.marks
            /\ new.stage = old.stage /\ (new.awaited => new = old),
         posts' = [posts EXCEPT ![p] = rest],
         submitting' \in [Page -> BOOLEAN],
         \A q \in Page \ {p} : submitting'[q] = submitting[q],
         submitting'[p] <=> {new \in rest : new.awaited} # {},
         \/ UNCHANGED modal
         \/ HideModal(p),
         \/ UNCHANGED <<list, loading>>
         \/ list' = [list EXCEPT ![p] = {}] /\ asked' = [asked EXCEPT ![p] = {}]
            /\ answers' = [answers EXCEPT ![p] = {}],
         UNCHANGED database
  PROVE  IInv'
<1> USE DEF IInv
<1>1. posts' \in [Page -> SUBSET Post] /\ posts'[p] = rest /\ \A q \in Page \ {p} : posts'[q] = posts[q]
  BY DEF TypeOK
<1>2. \A q \in Page \ {p} : Awaited(q)' = Awaited(q)
  BY <1>1 DEF Awaited
<1>3. Awaited(p)' = {new \in rest : new.awaited} /\ Awaited(p)' \subseteq Awaited(p)
  BY <1>1 DEF Awaited
<1>4. open' \in [Page -> BOOLEAN] /\ form' \in [Page -> Form \cup {NoForm}]
  BY DEF TypeOK, HideModal, modal
<1>5. list' \in [Page -> SUBSET Nat] /\ asked' \in [Page -> SUBSET Nat] /\ answers' \in [Page -> SUBSET Form]
  BY DEF TypeOK, loading
<1>6. TypeOK' /\ OneSubmission'
  BY <1>1, <1>2, <1>3, <1>4, <1>5 DEF TypeOK, OneSubmission, database
<1>7. IdsAreFresh'
  BY DEF IdsAreFresh, database
<1>8. \A q \in Page : form'[q] \in {form[q], NoForm} /\ answers'[q] \subseteq answers[q]
  BY DEF TypeOK, HideModal, modal, loading
<1>9. FormsAreUpToDate' /\ MarksFitTheForm'
  BY <1>1, <1>8 DEF FormsAreUpToDate, UpToDate, MarksFitTheForm, database
<1> QED BY <1>6, <1>7, <1>9

LEMMA ScanKeepsInv == ASSUME IInv, MaterializeDupGroups PROVE IInv'
<1> USE DEF IInv
<1>1. PICK groups \in Results :
        /\ nextGroup' = nextGroup + Cardinality(groups)
        /\ \E id \in Bijection(groups, nextGroup .. (nextGroup' - 1)) :
             dupGroups' = {[id |-> id[g], files |-> g] : g \in groups}
  BY DEF MaterializeDupGroups
<1>2. /\ nextGroup' \in Nat \ {0} /\ nextGroup' >= nextGroup
      /\ dupGroups' \subseteq Form
      /\ \A g \in dupGroups' : g.id >= nextGroup /\ g.id < nextGroup'
      /\ \A g, h \in dupGroups' : g.id = h.id => g = h
  <2>1. PICK id \in Bijection(groups, nextGroup .. (nextGroup + Cardinality(groups) - 1)) :
          dupGroups' = {[id |-> id[g], files |-> g] : g \in groups}
    <3>1. nextGroup' - 1 = nextGroup + Cardinality(groups) - 1
      <4>1. Cardinality(groups) \in Nat /\ nextGroup \in Nat
        BY ResultsAssumption, FS_CardinalityType DEF TypeOK
      <4> QED BY <1>1, <4>1
    <3>2. \E id \in Bijection(groups, nextGroup .. (nextGroup' - 1)) :
             dupGroups' = {[id |-> id[g], files |-> g] : g \in groups}
      BY <1>1
    <3> QED BY <3>1, <3>2, Zenon
  <2>2. nextGroup \in Nat \ {0}
    BY DEF TypeOK
  <2> QED BY <1>1, <2>1, <2>2, NewRows
<1>3. TypeOK' /\ OneSubmission'
  BY <1>2 DEF TypeOK, OneSubmission, Awaited, MaterializeDupGroups, modal, loading
<1>4. IdsAreFresh'
  BY <1>2 DEF IdsAreFresh
<1>5. \A known \in Form : UpToDate(known) => UpToDate(known)'
  BY <1>2 DEF UpToDate, Form, TypeOK
<1>6. FormsAreUpToDate' /\ MarksFitTheForm'
  BY <1>5 DEF FormsAreUpToDate, MarksFitTheForm, TypeOK, Post, MaterializeDupGroups, modal, loading
<1> QED BY <1>3, <1>4, <1>6

LEMMA PageKeepsInv ==
  ASSUME IInv, NEW p \in Page,
         \/ GetGroups(p) \/ CloseModal(p)
         \/ \E id \in list[p] : OpenModal(p, id)
         \/ \E id \in asked[p] : GetGroup(p, id)
         \/ \E answer \in answers[p] : SwapGroup(p, answer)
  PROVE  IInv'
<1> USE DEF IInv
<1>1. UNCHANGED <<dupGroups, nextGroup, scans, pending, submitting, posts>>
  BY DEF GetGroups, CloseModal, OpenModal, GetGroup, SwapGroup, database
<1>2. OneSubmission' /\ IdsAreFresh' /\ MarksFitTheForm'
  BY <1>1 DEF OneSubmission, Awaited, IdsAreFresh, MarksFitTheForm
<1>3. \A known : UpToDate(known) <=> UpToDate(known)'
  BY <1>1 DEF UpToDate
<1>4. CASE \E id \in asked[p] : GetGroup(p, id)
  <2>1. PICK id \in asked[p] : GetGroup(p, id)
    BY <1>4
  <2>2. UNCHANGED <<list, open, form>> /\ asked' \in [Page -> SUBSET Nat]
    BY <2>1 DEF GetGroup, TypeOK, modal
  <2>3. CASE UNCHANGED answers
    BY <1>1, <1>2, <1>3, <2>2, <2>3 DEF TypeOK, Awaited, FormsAreUpToDate
  <2>4. CASE /\ GroupFiles(id) # {}
             /\ answers' = [answers EXCEPT ![p] = @ \cup {[id |-> id, files |-> GroupFiles(id)]}]
    <3> DEFINE new == [id |-> id, files |-> GroupFiles(id)]
    <3>1. PICK g \in dupGroups : g.id = id /\ GroupFiles(id) = g.files
      BY <2>4, OneRowPerId
    <3>2. new \in Form /\ UpToDate(new)
      BY <3>1 DEF Form, UpToDate, TypeOK, IdsAreFresh
    <3>3. answers' \in [Page -> SUBSET Form] /\ \A q \in Page : answers'[q] \subseteq answers[q] \cup {new}
      BY <2>4, <3>2 DEF TypeOK
    <3> HIDE DEF new
    <3> QED BY <1>1, <1>2, <1>3, <2>2, <3>2, <3>3 DEF TypeOK, Awaited, FormsAreUpToDate
  <2> QED BY <2>1, <2>3, <2>4 DEF GetGroup
<1>5. CASE \E answer \in answers[p] : SwapGroup(p, answer)
  BY <1>1, <1>2, <1>3, <1>5 DEF SwapGroup, TypeOK, Awaited, FormsAreUpToDate
<1>6. CASE CloseModal(p)
  BY <1>1, <1>2, <1>3, <1>6 DEF CloseModal, HideModal, TypeOK, Awaited, FormsAreUpToDate, loading
<1>7. CASE GetGroups(p)
  <2>1. {g.id : g \in dupGroups} \subseteq Nat
    BY DEF TypeOK, Form
  <2> QED BY <1>1, <1>2, <1>3, <1>7, <2>1 DEF GetGroups, TypeOK, Awaited, FormsAreUpToDate, modal, loading
<1>8. CASE \E id \in list[p] : OpenModal(p, id)
  BY <1>1, <1>2, <1>3, <1>8 DEF OpenModal, TypeOK, Awaited, FormsAreUpToDate
<1> QED BY <1>4, <1>5, <1>6, <1>7, <1>8

LEMMA SubmitKeepsInv ==
  ASSUME IInv, NEW p \in Page, NEW keep \in File, Submit(p, keep) PROVE IInv'
<1> USE DEF IInv
<1> DEFINE new == [form |-> form[p], keep |-> keep, stage |-> "sent", marks |-> {}, awaited |-> TRUE]
<1>1. form[p] \in Form /\ UpToDate(form[p])
  BY DEF Submit, TypeOK, FormsAreUpToDate
<1>2. /\ new \in Post /\ new.awaited /\ new.form = form[p] /\ new.stage = "sent"
  BY <1>1 DEF Post
<1>3. posts' = [posts EXCEPT ![p] = @ \cup {new}]
  BY DEF Submit
<1> HIDE DEF new
<1>4. /\ posts' \in [Page -> SUBSET Post] /\ posts'[p] = posts[p] \cup {new}
      /\ \A q \in Page \ {p} : posts'[q] = posts[q]
  BY <1>2, <1>3 DEF TypeOK
<1>5. Awaited(p)' = {new} /\ \A q \in Page \ {p} : Awaited(q)' = Awaited(q)
  BY <1>2, <1>4 DEF Awaited, Submit, TypeOK
<1>6. TypeOK' /\ OneSubmission'
  <2>1. submitting' \in [Page -> BOOLEAN] /\ submitting'[p] /\ \A q \in Page \ {p} : submitting'[q] = submitting[q]
    BY DEF Submit, TypeOK
  <2>2. \A q \in Page : submitting'[q] <=> Awaited(q)' # {}
    BY <1>5, <2>1 DEF TypeOK
  <2>3. UNCHANGED <<dupGroups, nextGroup, scans, pending, list, open, form, asked, answers>>
    BY DEF Submit, database, modal, loading
  <2>4. OneSubmission'
    BY <1>5 DEF OneSubmission
  <2> QED BY <1>4, <2>1, <2>2, <2>3, <2>4 DEF TypeOK
<1>7. IdsAreFresh' /\ \A known : UpToDate(known) <=> UpToDate(known)'
  BY DEF IdsAreFresh, UpToDate, Submit, database
<1>8. FormsAreUpToDate' /\ MarksFitTheForm'
  BY <1>1, <1>2, <1>4, <1>7 DEF FormsAreUpToDate, MarksFitTheForm, Submit, modal, loading
<1> QED BY <1>6, <1>7, <1>8

LEMMA ServerKeepsInv ==
  ASSUME IInv, NEW p \in Page, NEW post \in posts[p], FindGroup(p, post) \/ MarkGroup(p, post)
  PROVE  IInv'
<1> USE DEF IInv
<1>1. post \in Post
  BY DEF TypeOK
<1>2. CASE MarkGroup(p, post)
  <2>1. PICK stage \in {"marked", "refused"} :
          Replace(p, post, [post EXCEPT !.stage = stage]) /\ pending' \in {pending, pending \cup post.marks}
    BY <1>2 DEF MarkGroup
  <2>2. [post EXCEPT !.stage = stage] \in Post
    BY <1>1, <2>1 DEF Post
  <2>3. pending' \subseteq File
    BY <1>1, <2>1 DEF TypeOK, Post
  <2> QED BY <1>1, <1>2, <2>1, <2>2, <2>3, PostReplaced DEF MarkGroup, Post
<1>3. CASE FindGroup(p, post)
  <2> DEFINE files == GroupFiles(post.form.id)
             found == [post EXCEPT !.stage = "found", !.marks = files \ {post.keep}]
             refused == [post EXCEPT !.stage = "refused"]
  <2>1. UNCHANGED <<dupGroups, nextGroup, scans, pending, list, modal, loading, submitting>>
    BY <1>3 DEF FindGroup, database
  <2>2. CASE post.keep \in files /\ Replace(p, post, found)
    <3>1. PICK g \in dupGroups : g.id = post.form.id /\ files = g.files
      BY <2>2, OneRowPerId
    <3>2. files = post.form.files
      BY <3>1 DEF FormsAreUpToDate, UpToDate
    <3>3. /\ found \in Post /\ found.form = post.form /\ found.awaited = post.awaited
          /\ found.marks = found.form.files \ {found.keep}
      BY <1>1, <3>2 DEF Post, Form
    <3> QED BY <2>1, <2>2, <3>3, PostReplaced DEF TypeOK
  <2>3. CASE Replace(p, post, refused)
    <3>1. refused \in Post /\ refused.form = post.form /\ refused.awaited = post.awaited /\ refused.stage = "refused"
      BY <1>1 DEF Post
    <3> QED BY <2>1, <2>3, <3>1, PostReplaced DEF TypeOK
  <2> QED BY <1>3, <2>2, <2>3 DEF FindGroup
<1> QED BY <1>2, <1>3

LEMMA EndKeepsInv ==
  ASSUME IInv, NEW p \in Page, Reload(p) \/ \E post \in posts[p] : Hear(p, post) \/ FetchFails(p, post) \/ Unheard(p, post)
  PROVE  IInv'
<1> USE DEF IInv
<1>1. posts[p] \subseteq Post /\ \A post \in posts[p] : [post EXCEPT !.awaited = FALSE] \in Post
  <2>1. posts[p] \subseteq Post
    BY DEF TypeOK
  <2>2. \A post \in Post : [post EXCEPT !.awaited = FALSE] \in Post
    BY DEF Post
  <2> QED BY <2>1, <2>2
<1>2. \A a, b \in Awaited(p) : a = b
  BY DEF OneSubmission
<1>3. CASE Reload(p)
  <2> DEFINE rest == {[post EXCEPT !.awaited = FALSE] : post \in posts[p]}
  <2>1. rest \in SUBSET Post /\ {new \in rest : new.awaited} = {}
    BY <1>1 DEF Post
  <2>2. \A new \in rest : \E old \in posts[p] :
            new.form = old.form /\ new.keep = old.keep /\ new.marks = old.marks
            /\ new.stage = old.stage /\ (new.awaited => new = old)
    BY <1>1 DEF Post
  <2>3. posts' = [posts EXCEPT ![p] = rest]
    BY <1>3 DEF Reload
  <2>4. submitting' \in [Page -> BOOLEAN] /\ ~submitting'[p] /\ \A q \in Page \ {p} : submitting'[q] = submitting[q]
    BY <1>3 DEF Reload, TypeOK
  <2> HIDE DEF rest
  <2> QED BY <1>3, <2>1, <2>2, <2>3, <2>4, PostDropped DEF Reload
<1>4. ASSUME NEW post \in posts[p], Hear(p, post) PROVE IInv'
  <2> DEFINE rest == posts[p] \ {post}
  <2>1. rest \in SUBSET Post /\ {new \in rest : new.awaited} = {}
    BY <1>1, <1>2, <1>4 DEF Hear, Awaited
  <2>2. posts' = [posts EXCEPT ![p] = rest]
    BY <1>4 DEF Hear
  <2>3. submitting' \in [Page -> BOOLEAN] /\ ~submitting'[p] /\ \A q \in Page \ {p} : submitting'[q] = submitting[q]
    BY <1>4 DEF Hear, TypeOK
  <2> QED BY <1>4, <2>1, <2>2, <2>3, PostDropped DEF Hear
<1>5. ASSUME NEW post \in posts[p], FetchFails(p, post) PROVE IInv'
  <2>1. PICK rest \in SUBSET Post :
          /\ rest \in {posts[p] \ {post}, (posts[p] \ {post}) \cup {[post EXCEPT !.awaited = FALSE]}}
          /\ posts' = [posts EXCEPT ![p] = rest]
    BY <1>1, <1>5 DEF FetchFails, Replace
  <2>2. {new \in rest : new.awaited} = {}
    BY <1>1, <1>2, <1>5, <2>1 DEF FetchFails, Awaited, Post
  <2>3. \A new \in rest : \E old \in posts[p] :
            new.form = old.form /\ new.keep = old.keep /\ new.marks = old.marks
            /\ new.stage = old.stage /\ (new.awaited => new = old)
    BY <1>1, <2>1 DEF Post
  <2>4. submitting' \in [Page -> BOOLEAN] /\ ~submitting'[p] /\ \A q \in Page \ {p} : submitting'[q] = submitting[q]
    BY <1>5 DEF FetchFails, TypeOK
  <2> QED BY <1>5, <2>1, <2>2, <2>3, <2>4, PostDropped DEF FetchFails
<1>6. ASSUME NEW post \in posts[p], Unheard(p, post) PROVE IInv'
  <2> DEFINE rest == posts[p] \ {post}
  <2>1. rest \in SUBSET Post /\ {new \in rest : new.awaited} = Awaited(p)
    BY <1>1, <1>6 DEF Unheard, Awaited
  <2>2. posts' = [posts EXCEPT ![p] = rest]
    BY <1>6 DEF Unheard
  <2>3. submitting' = submitting /\ submitting \in [Page -> BOOLEAN] /\ (submitting[p] <=> Awaited(p) # {})
    BY <1>6 DEF Unheard, TypeOK
  <2>4. \A new \in rest : new \in posts[p]
    OBVIOUS
  <2>5. UNCHANGED <<database, list, modal, loading>>
    BY <1>6 DEF Unheard
  <2>6. submitting'[p] <=> {new \in rest : new.awaited} # {}
    BY <2>1, <2>3
  <2> HIDE DEF rest
  <2> QED BY <2>1, <2>2, <2>3, <2>4, <2>5, <2>6, PostDropped
<1> QED BY <1>3, <1>4, <1>5, <1>6

LEMMA NextInv == IInv /\ [Next]_vars => IInv'
<1> SUFFICES ASSUME IInv, [Next]_vars PROVE IInv'
  OBVIOUS
<1>1. CASE UNCHANGED vars
  BY <1>1 DEF vars, database, modal, loading, IInv, TypeOK, OneSubmission, Awaited, IdsAreFresh,
     FormsAreUpToDate, UpToDate, MarksFitTheForm
<1>2. ASSUME NEW f \in File, UnmarkDeletion(f) PROVE IInv'
  BY <1>2 DEF UnmarkDeletion, modal, loading, IInv, TypeOK, OneSubmission, Awaited, IdsAreFresh,
     FormsAreUpToDate, UpToDate, MarksFitTheForm
<1> QED BY <1>1, <1>2, ScanKeepsInv, PageKeepsInv, SubmitKeepsInv, ServerKeepsInv, EndKeepsInv
        DEF Next, Settle

\* Every variable keeps its type, and SubmissionState is set exactly while a
\* fetch of its page is not settled.
THEOREM TypeCorrect == Spec => []TypeOK
<1>1. IInv => TypeOK
  BY DEF IInv
<1> QED BY <1>1, InitInv, NextInv, PTL DEF Spec

\* A page never waits for two answers.
THEOREM OneAtATime == Spec => []OneSubmission
<1>1. IInv => OneSubmission
  BY DEF IInv
<1> QED BY <1>1, InitInv, NextInv, PTL DEF Spec

\* What gets marked is a group as a user saw it, without the file to keep,
\* however many scans have replaced the groups and their ids meanwhile.
THEOREM MarkedAsShown == Spec => MarksAreAsShown
<1> DEFINE AsShown ==
      \A f \in pending' \ pending :
        \E p \in Page : \E post \in posts[p] :
          /\ f \in post.form.files \ {post.keep}
          /\ pending' = pending \cup (post.form.files \ {post.keep})
<1>1. ASSUME IInv, [Next]_vars PROVE AsShown
  <2>1. SUFFICES ASSUME NEW f \in pending' \ pending
                 PROVE  \E p \in Page : \E post \in posts[p] :
                          /\ f \in post.form.files \ {post.keep}
                          /\ pending' = pending \cup (post.form.files \ {post.keep})
    OBVIOUS
  <2>2. \E p \in Page : \E post \in posts[p] : MarkGroup(p, post)
    BY <1>1, <2>1 DEF Next, vars, database, Settle, MaterializeDupGroups, UnmarkDeletion, GetGroups,
       CloseModal, Hear, FetchFails, Reload, OpenModal, GetGroup, SwapGroup, Submit, FindGroup, Unheard
  <2>3. PICK p \in Page : \E post \in posts[p] : MarkGroup(p, post)
    BY <2>2
  <2>4. PICK post \in posts[p] : MarkGroup(p, post)
    BY <2>3
  <2>5. pending' = pending \cup post.marks /\ post.stage = "found"
    BY <2>1, <2>4 DEF MarkGroup
  <2>6. post.marks = post.form.files \ {post.keep}
    BY <1>1, <2>5 DEF IInv, MarksFitTheForm
  <2> QED BY <2>1, <2>5, <2>6
<1>2. IInv /\ [Next]_vars => [AsShown]_vars
  BY <1>1
<1> QED BY <1>2, InitInv, NextInv, PTL DEF Spec, MarksAreAsShown

\* However long a page, an answer or a request is on its way: its group is still
\* in the database as the user saw it, or its id leads nowhere; never to another
\* group, as ids are not given out again.
THEOREM KnownOrGone == Spec => [](IdsAreFresh /\ FormsAreUpToDate)
BY InitInv, NextInv, PTL DEF Spec, IInv
=============================================================================
