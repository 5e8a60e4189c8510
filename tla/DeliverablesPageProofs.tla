----------------------- MODULE DeliverablesPageProofs -----------------------
(***************************************************************************)
(* Proofs about DeliverablesPage, for any number of deliverables,          *)
(* projects, statuses, requests under way and slips.                       *)
(***************************************************************************)
EXTENDS DeliverablesPage, FiniteSetTheorems, SequenceTheorems, TLAPS

-----------------------------------------------------------------------------
(***************************************************************************)
(* The invariant                                                           *)
(***************************************************************************)
\* A graph of deliverables, some of which may be gone by now.
Sound(l, p, e) ==
  /\ l \subseteq issued /\ e \subseteq l \X l /\ Acyclic(e)
  /\ \A x, y \in l : <<x, y>> \in e => p[x] = p[y]

\* A save has stored what it has added, as long as both ends exist.
Adds(s) ==
  /\ s.form.project \in Project
  /\ s.form.deps \ s.form.old \subseteq issued
  /\ s.id # Null => s.id \in issued
  /\ s.add \subseteq ToAdd(s.form) /\ s.del \subseteq ToRemove(s.form)
  /\ ~s.written => s.add = ToAdd(s.form)
  /\ (s.written /\ s.id \in live) =>
       \A x \in (ToAdd(s.form) \ s.add) \cap live : <<s.id, x>> \in edges

Kept ==
  /\ Sound(live, project, edges)
  /\ Sound(items.live, items.project, items.edges)
  /\ \A g \in answers : Sound(g.live, g.project, g.edges)
  /\ IsFiniteSet(answers)
  /\ dialog # Null => /\ dialog.deps \ dialog.old \subseteq issued
                      /\ dialog.editing # Null => dialog.editing \in issued
  /\ saving # Null => Adds(saving)

Edges(d, X) == {<<d, x>> : x \in X}

\* What a careful user fills in agrees with the list.
FormRight(f) ==
  /\ f.deps \subseteq items.live
  /\ \A x \in f.deps : items.project[x] = f.project
  /\ f.editing = Null => f.old = {}
  /\ f.editing # Null =>
       /\ f.editing \in items.live
       /\ f.old = Dependencies(items, f.editing)
       /\ Acyclic(items.edges \cup Edges(f.editing, f.deps))

\* How far a save has got: the graph of the list is what it started from.
Progress(s) ==
  /\ ~s.written => /\ SameGraph
                   /\ s.id = s.form.editing
                   /\ s.del = ToRemove(s.form)
  /\ s.written =>
       /\ s.id \in live
       /\ s.add # {} => s.del = ToRemove(s.form)
       /\ edges = (items.edges \cup Edges(s.id, ToAdd(s.form) \ s.add))
                    \ Edges(s.id, ToRemove(s.form) \ s.del)
       /\ items.live \subseteq live
       /\ \A x \in items.live : project[x] = items.project[x]
       /\ \A x \in ToAdd(s.form) \ s.add : project[x] = project[s.id]
       /\ s.form.editing # Null =>
            s.id = s.form.editing /\ live = items.live /\ project = items.project
       /\ s.form.editing = Null =>
            s.id \notin items.live /\ project[s.id] = s.form.project

\* The list shows the status of what no save has written.
StatusSeen ==
  \A x \in live :
    \/ items.status[x] = status[x]
    \/ outcome = "failed"
    \/ saving # Null /\ saving.written /\ saving.id = x

\* Without a slip there is a reload, a deletion or an open form, never two.
InOrder ==
  /\ \A g \in answers : g = Stored
  /\ dialog # Null \/ saving # Null \/ deleting # << >> => asked = 0 /\ answers = {}
  /\ deleting # << >> => dialog = Null /\ saving = Null /\ Len(deleting) = 1
  /\ asked = 0 /\ answers = {} => StatusSeen
  /\ asked = 0 /\ answers = {} /\ saving = Null => SameGraph
  /\ dialog # Null => FormRight(dialog)
  /\ saving # Null => dialog = saving.form /\ Progress(saving)

IInv == TypeOK /\ Kept /\ (slips = 0 => InOrder)

-----------------------------------------------------------------------------
(***************************************************************************)
(* Lemmas about graphs                                                     *)
(***************************************************************************)
LEMMA FewerEdges ==
  ASSUME NEW E, NEW F, E \subseteq F, Acyclic(F)
  PROVE  Acyclic(E)
  BY DEF Acyclic

LEMMA NoLoop ==
  ASSUME NEW E, Acyclic(E), NEW d \in Deliverable
  PROVE  <<d, d>> \notin E
<1>1. {d} \in SUBSET Deliverable /\ {d} # {}
  OBVIOUS
<1>2. PICK x \in {d} : \A y \in {d} : <<x, y>> \notin E
  BY <1>1 DEF Acyclic
<1> QED BY <1>2

\* A new node with dependencies only from it closes no cycle.
LEMMA NewNode ==
  ASSUME NEW L \in SUBSET Deliverable, NEW E, E \subseteq L \X L, Acyclic(E),
         NEW d \in Deliverable \ L, NEW X \in SUBSET L
  PROVE  Acyclic(E \cup Edges(d, X))
<1> SUFFICES ASSUME NEW S \in SUBSET Deliverable, S # {}
             PROVE  \E x \in S : \A y \in S : <<x, y>> \notin E \cup Edges(d, X)
  BY DEF Acyclic
<1>1. CASE S \ {d} = {}
  <2>1. d \in S /\ \A y \in S : y = d
    BY <1>1
  <2>2. <<d, d>> \notin E \cup Edges(d, X)
    BY DEF Edges
  <2> QED BY <2>1, <2>2
<1>2. CASE S \ {d} # {}
  <2>1. PICK x \in S \ {d} : \A y \in S \ {d} : <<x, y>> \notin E
    BY <1>2 DEF Acyclic
  <2>2. \A y \in S : <<x, y>> \notin E
    BY <2>1
  <2>3. \A y \in S : <<x, y>> \notin Edges(d, X)
    BY <2>1 DEF Edges
  <2> QED BY <2>1, <2>2, <2>3
<1> QED BY <1>1, <1>2

\* The page has just been loaded.
LEMMA InitSound == Init => IInv
<1> SUFFICES ASSUME Init PROVE IInv
  OBVIOUS
<1>1. /\ status \in [Deliverable -> Status] /\ Stored.live = Existing /\ Stored.edges = {}
      /\ Stored.project = project
  BY StatusAssumption DEF Init, Stored
<1>2. Stored \in Graph
  BY <1>1, ExistingAssumption DEF Init, Stored, Graph
<1>3. deleting \in Seq(Deliverable) /\ Len(deleting) = 0 /\ Cardinality(answers) = 0
  BY EmptySeq, FS_EmptySet DEF Init
<1>8. asked = 0 /\ UnderWay = 0 /\ edits = 0 /\ slips = 0
  BY <1>3 DEF Init, UnderWay
<1>9. /\ asked \in 0 .. MaxLoads /\ UnderWay \in 0 .. MaxLoads
      /\ edits \in 0 .. MaxEdits /\ slips \in 0 .. MaxSlips
  BY <1>8, BoundsAssumption
<1>4. TypeOK
  BY <1>2, <1>3, <1>9, ExistingAssumption DEF Init, TypeOK
<1>5. Acyclic({})
  BY DEF Acyclic
<1>6. Kept
  BY <1>1, <1>5, FS_EmptySet DEF Init, Kept, Sound
<1>7. InOrder
  BY DEF Init, InOrder, StatusSeen, SameGraph, Stored
<1> QED BY <1>4, <1>6, <1>7 DEF IInv

-----------------------------------------------------------------------------
(***************************************************************************)
(* The dialog                                                              *)
(***************************************************************************)
\* A user who acts without a slip has nothing under way.
LEMMA UserFacts ==
  ASSUME TypeOK, UserActs
  PROVE  slips' \in 0 .. MaxSlips /\ (slips' = 0 => slips = 0 /\ Quiet)
  BY BoundsAssumption DEF TypeOK, UserActs, Careful

LEMMA SlipFacts ==
  ASSUME TypeOK, Careful(FALSE)
  PROVE  slips' \in 0 .. MaxSlips /\ slips' # 0
  BY BoundsAssumption DEF TypeOK, Careful

\* What is under way can be counted.
LEMMA Counts ==
  ASSUME TypeOK, IsFiniteSet(answers)
  PROVE  /\ asked \in Nat /\ Cardinality(answers) \in Nat /\ Len(deleting) \in Nat
         /\ UnderWay \in Nat /\ UnderWay <= MaxLoads /\ MaxLoads \in Nat
  BY FS_CardinalityType, BoundsAssumption DEF TypeOK, UnderWay

\* A deletion that ends leaves the others under way.
LEMMA TakenFacts ==
  ASSUME deleting \in Seq(Deliverable), NEW i \in DOMAIN deleting,
         deleting' = RemoveAt(deleting, i)
  PROVE  /\ deleting[i] \in Deliverable
         /\ deleting' \in Seq(Deliverable) /\ Len(deleting') = Len(deleting) - 1
<1> DEFINE n == Len(deleting)
<1>1. n \in Nat /\ i \in 1 .. n /\ \A j \in 1 .. n : deleting[j] \in Deliverable
  BY ElementOfSeq
<1>2. /\ SubSeq(deleting, 1, i - 1) \in Seq(Deliverable)
      /\ Len(SubSeq(deleting, 1, i - 1)) = i - 1
  BY <1>1, SubSeqProperties
<1>3. /\ SubSeq(deleting, i + 1, n) \in Seq(Deliverable)
      /\ Len(SubSeq(deleting, i + 1, n)) = n - i
  BY <1>1, SubSeqProperties
<1>4. deleting' = SubSeq(deleting, 1, i - 1) \o SubSeq(deleting, i + 1, n)
  BY DEF RemoveAt
<1> DEFINE a == SubSeq(deleting, 1, i - 1)
           b == SubSeq(deleting, i + 1, n)
<1>5. a \in Seq(Deliverable) /\ Len(a) = i - 1 /\ b \in Seq(Deliverable) /\ Len(b) = n - i
  BY <1>2, <1>3
<1>6. deleting' = a \o b
  BY <1>4
<1> HIDE DEF a, b
<1>7. deleting' \in Seq(Deliverable) /\ Len(deleting') = (i - 1) + (n - i)
  BY <1>5, <1>6, ConcatProperties
<1> QED BY <1>1, <1>7

LEMMA OpenCreateKeeps == ASSUME IInv, OpenCreate PROVE IInv'
<1>1. /\ dialog' \in Form /\ dialog'.editing = Null /\ dialog'.old = {}
      /\ dialog'.deps = {}
  BY StatusAssumption DEF OpenCreate, EmptyForm, Form
<1>2. slips' \in 0 .. MaxSlips /\ (slips' = 0 => slips = 0 /\ Quiet)
  BY UserFacts DEF IInv, OpenCreate
<1>3. TypeOK'
  BY <1>1, <1>2 DEF IInv, TypeOK, UnderWay, OpenCreate, table, graphVars, Stored
<1>4. Kept'
  BY <1>1 DEF IInv, Kept, Sound, Adds, OpenCreate, table, graphVars
<1>5. slips' = 0 => InOrder'
  BY <1>1, <1>2 DEF IInv, InOrder, StatusSeen, SameGraph, FormRight, Quiet, OpenCreate, table, graphVars, Stored
<1> QED BY <1>3, <1>4, <1>5 DEF IInv

LEMMA OpenEditKeeps == ASSUME IInv, OpenEdit PROVE IInv'
<1>1. PICK d \in items.live : dialog' = FormOf(d)
  BY DEF OpenEdit
<1>2. /\ items.live \subseteq Deliverable /\ items.project \in [Deliverable -> Project]
      /\ items.status \in [Deliverable -> Status]
      /\ items.live \subseteq issued
      /\ items.edges \subseteq items.live \X items.live /\ Acyclic(items.edges)
      /\ \A x, y \in items.live : <<x, y>> \in items.edges => items.project[x] = items.project[y]
  BY DEF IInv, TypeOK, Graph, Kept, Sound
<1> DEFINE deps == Dependencies(items, d)
<1>3. d \in Deliverable /\ d # Null /\ d \in issued
  BY <1>2, NullAssumption
<1>4. /\ deps \subseteq items.live /\ d \notin deps
      /\ \A x \in deps : items.project[x] = items.project[d]
  BY <1>2, <1>3, NoLoop DEF Dependencies
<1>5. dialog' = [editing |-> d, old |-> deps, project |-> items.project[d], deps |-> deps,
                 status |-> items.status[d]]
  BY <1>1 DEF FormOf
<1> HIDE DEF deps
<1>6. /\ dialog' \in Form /\ dialog'.editing = d
      /\ dialog'.old = deps /\ dialog'.deps = deps /\ dialog'.project = items.project[d]
  BY <1>2, <1>3, <1>4, <1>5 DEF Form
<1>7. Acyclic(items.edges \cup Edges(d, deps))
  <2>1. items.edges \cup Edges(d, deps) \subseteq items.edges
    BY DEF Edges, Dependencies, deps
  <2> QED BY <1>2, <2>1, FewerEdges
<1>8. slips' \in 0 .. MaxSlips /\ (slips' = 0 => slips = 0 /\ Quiet)
  BY UserFacts DEF IInv, OpenEdit
<1>9. TypeOK'
  BY <1>4, <1>6, <1>8 DEF IInv, TypeOK, UnderWay, OpenEdit, table, graphVars, Stored
<1>10. Kept'
  BY <1>3, <1>6 DEF IInv, Kept, Sound, Adds, OpenEdit, table, graphVars
<1>11. FormRight(dialog)'
  BY <1>3, <1>4, <1>6, <1>7 DEF FormRight, deps, Dependencies, OpenEdit
<1>12. slips' = 0 => InOrder'
  BY <1>8, <1>11 DEF IInv, InOrder, StatusSeen, SameGraph, Quiet, OpenEdit, table, graphVars, Stored
<1> QED BY <1>9, <1>10, <1>12 DEF IInv

LEMMA ChangeFormKeeps == ASSUME IInv, ChangeForm PROVE IInv'
<1>1. PICK st \in Status :
        /\ \/ st = dialog.status /\ edits' = edits
           \/ st # dialog.status /\ edits < MaxEdits /\ edits' = edits + 1
        /\ \E p \in Project : \E chosen \in SUBSET Offered(p) :
             LET deps == Unoffered(p) \cup chosen
             IN  /\ Careful(Quiet /\ Acyclic(items.edges \cup {<<dialog.editing, x>> : x \in deps}))
                 /\ dialog' = [dialog EXCEPT !.project = p, !.deps = deps, !.status = st]
  BY DEF ChangeForm
<1>14. edits' \in 0 .. MaxEdits
  BY <1>1, BoundsAssumption DEF IInv, TypeOK
<1>0. PICK p \in Project : \E chosen \in SUBSET Offered(p) :
        LET deps == Unoffered(p) \cup chosen
        IN  /\ Careful(Quiet /\ Acyclic(items.edges \cup {<<dialog.editing, x>> : x \in deps}))
            /\ dialog' = [dialog EXCEPT !.project = p, !.deps = deps, !.status = st]
  BY <1>1
<1>2. PICK chosen \in SUBSET Offered(p) :
        LET deps == Unoffered(p) \cup chosen
        IN  /\ Careful(Quiet /\ Acyclic(items.edges \cup {<<dialog.editing, x>> : x \in deps}))
            /\ dialog' = [dialog EXCEPT !.project = p, !.deps = deps, !.status = st]
  BY <1>0
<1> DEFINE deps == Unoffered(p) \cup chosen
<1>3. /\ Careful(Quiet /\ Acyclic(items.edges \cup {<<dialog.editing, x>> : x \in deps}))
      /\ dialog' = [dialog EXCEPT !.project = p, !.deps = deps, !.status = st]
  BY <1>2
<1>4. dialog # Null /\ dialog \in Form /\ dialog.editing \notin dialog.deps
  BY DEF ChangeForm, IInv, TypeOK
<1>5. items.live \subseteq Deliverable /\ items.live \subseteq issued
  BY DEF IInv, TypeOK, Graph, Kept, Sound
<1>6. /\ chosen \subseteq items.live /\ dialog.editing \notin chosen
      /\ \A x \in chosen : items.project[x] = p
  BY DEF Offered
<1>7. /\ deps \subseteq dialog.deps \cup chosen /\ deps \in SUBSET Deliverable
      /\ dialog.editing \notin deps
  BY <1>4, <1>5, <1>6 DEF Unoffered, Form
<1> HIDE DEF deps
<1>8. /\ dialog' \in Form /\ dialog'.editing = dialog.editing /\ dialog'.old = dialog.old
      /\ dialog'.deps = deps /\ dialog'.project = p
  BY <1>3, <1>4, <1>7 DEF Form
<1>9. /\ slips' \in 0 .. MaxSlips
      /\ slips' = 0 => slips = 0 /\ Quiet /\ Acyclic(items.edges \cup Edges(dialog.editing, deps))
  BY <1>3, BoundsAssumption DEF IInv, TypeOK, Careful, Edges
<1>10. TypeOK'
  BY <1>7, <1>8, <1>9, <1>14 DEF IInv, TypeOK, UnderWay, ChangeForm, table, graphVars, Stored
<1>11. Kept'
  <2>1. deps \ dialog.old \subseteq issued
    BY <1>4, <1>5, <1>6, <1>7 DEF IInv, Kept
  <2> QED BY <1>4, <1>8, <2>1 DEF IInv, Kept, Sound, Adds, ChangeForm, table, graphVars
<1>12. slips' = 0 => FormRight(dialog)'
  <2> SUFFICES ASSUME slips' = 0 PROVE FormRight(dialog)'
    OBVIOUS
  <2>1. FormRight(dialog) /\ Acyclic(items.edges \cup Edges(dialog.editing, deps))
    BY <1>4, <1>9 DEF IInv, InOrder
  <2>2. Unoffered(p) = {}
    BY <1>4, <2>1 DEF Unoffered, Offered, FormRight
  <2>3. deps = chosen
    BY <2>2 DEF deps
  <2>4. items' = items
    BY DEF ChangeForm
  <2> QED BY <1>6, <1>8, <2>1, <2>3, <2>4 DEF FormRight, Dependencies
<1>13. slips' = 0 => InOrder'
  BY <1>4, <1>9, <1>12 DEF IInv, InOrder, StatusSeen, SameGraph, Quiet, ChangeForm, table, graphVars, Stored
<1> QED BY <1>10, <1>11, <1>13 DEF IInv

LEMMA CloseKeeps == ASSUME IInv, Close PROVE IInv'
<1>1. slips' \in 0 .. MaxSlips /\ (slips' = 0 => slips = 0 /\ Quiet)
  BY UserFacts DEF IInv, Close
<1>2. TypeOK'
  BY <1>1 DEF IInv, TypeOK, UnderWay, Close, table, graphVars, Stored
<1>3. Kept'
  BY DEF IInv, Kept, Sound, Adds, Close, table, graphVars
<1>4. slips' = 0 => InOrder'
  BY <1>1 DEF IInv, InOrder, StatusSeen, SameGraph, Quiet, Close, table, graphVars, Stored
<1> QED BY <1>2, <1>3, <1>4 DEF IInv

LEMMA SaveKeeps == ASSUME IInv, Save PROVE IInv'
<1> DEFINE s == [form |-> dialog, id |-> dialog.editing, written |-> FALSE,
                 add |-> ToAdd(dialog), del |-> ToRemove(dialog)]
<1>1. saving' = s /\ dialog # Null /\ dialog \in Form
  BY DEF Save, IInv, TypeOK
<1>2. /\ s \in Saving /\ s.form = dialog /\ s.id = dialog.editing /\ ~s.written
      /\ s.add = ToAdd(dialog) /\ s.del = ToRemove(dialog)
  BY <1>1 DEF Saving, Form, ToAdd, ToRemove
<1> HIDE DEF s
<1>3. slips' \in 0 .. MaxSlips /\ (slips' = 0 => slips = 0 /\ Quiet)
  BY UserFacts DEF IInv, Save
<1>4. TypeOK'
  BY <1>1, <1>2, <1>3 DEF IInv, TypeOK, UnderWay, Save, table, graphVars, Stored
<1>5. dialog.project \in Project
  BY <1>1 DEF Save, Form
<1>6. Kept'
  BY <1>1, <1>2, <1>5 DEF IInv, Kept, Sound, Adds, Save, table, graphVars, ToAdd
<1>7. slips' = 0 => InOrder'
  BY <1>1, <1>2, <1>3 DEF IInv, InOrder, StatusSeen, SameGraph, FormRight, Progress, Quiet, Save, table, graphVars, Stored,
       Dependencies
<1> QED BY <1>4, <1>6, <1>7 DEF IInv

-----------------------------------------------------------------------------
(***************************************************************************)
(* The requests of a save                                                  *)
(***************************************************************************)
\* A step of a save that ends it: the graph is sound, the rest stays.
LEMMA EndsKeep ==
  ASSUME IInv, saving # Null, Failed, UNCHANGED <<items, asked, answers, dialog, deleting, edits>>,
         Stored' \in Graph, Sound(live, project, edges)', issued \subseteq issued',
         issued' \subseteq Deliverable, slips' \in 0 .. MaxSlips, slips' # 0
  PROVE  IInv'
<1>1. live' \subseteq issued'
  BY DEF Sound
<1>2. TypeOK'
  BY <1>1 DEF IInv, TypeOK, UnderWay, Failed
<1>3. Kept'
  BY DEF IInv, Kept, Sound, Failed
<1> QED BY <1>2, <1>3 DEF IInv

\* How a request that took effect goes on.
LEMMA GoesFacts ==
  ASSUME TypeOK, NEW next, Goes(next)
  PROVE  \/ saving' = next /\ outcome' = outcome /\ slips' = slips
         \/ Failed /\ slips' \in 0 .. MaxSlips /\ slips' # 0
  BY SlipFacts DEF Goes, Careful

\* What is known of a save under way.
LEMMA SavingFacts ==
  ASSUME IInv, saving # Null
  PROVE  /\ saving \in Saving /\ Adds(saving)
         /\ saving.form \in Form /\ saving.form # Null
         /\ slips = 0 => /\ dialog = saving.form /\ FormRight(saving.form)
                         /\ Progress(saving)
                         /\ asked = 0 /\ answers = {} /\ deleting = << >> /\ StatusSeen
<1>1. saving \in Saving /\ Adds(saving)
  BY DEF IInv, TypeOK, Kept
<1>2. saving.form \in Form /\ saving.form # Null
  BY <1>1, NullAssumption DEF Saving
<1> QED BY <1>1, <1>2 DEF IInv, InOrder

\* A step of a save that goes on with its next request.
LEMMA GoesOnKeeps ==
  ASSUME IInv, saving # Null, NEW t \in Saving, saving' = t, t.form = saving.form,
         t.written, t.id \in Deliverable,
         outcome' = outcome, slips' = slips, UNCHANGED <<items, asked, answers, dialog, deleting, edits>>,
         Stored' \in Graph, Sound(live, project, edges)', issued \subseteq issued',
         issued' \subseteq Deliverable, Adds(saving)', slips = 0 => Progress(saving)' /\ StatusSeen'
  PROVE  IInv'
<1>1. live' \subseteq issued'
  BY DEF Sound
<1>2. TypeOK'
  BY <1>1, NullAssumption DEF IInv, TypeOK, UnderWay
<1>3. Kept'
  BY DEF IInv, Kept, Sound
<1>4. ASSUME slips' = 0 PROVE InOrder'
  <2>1. /\ dialog = saving.form /\ FormRight(saving.form) /\ asked = 0 /\ answers = {}
        /\ deleting = << >>
    BY <1>4, SavingFacts
  <2>2. FormRight(dialog)' /\ dialog' = saving'.form
    BY <2>1 DEF FormRight, Dependencies
  <2>3. saving' # Null /\ answers' = {} /\ asked' = 0 /\ deleting' = << >>
    BY <2>1, NullAssumption
  <2> QED BY <1>4, <2>2, <2>3 DEF InOrder
<1> QED BY <1>2, <1>3, <1>4 DEF IInv

LEMMA WriteKeeps == ASSUME IInv, Write PROVE IInv'
<1> DEFINE s == [saving EXCEPT !.written = TRUE]
<1>1. saving # Null /\ ~saving.written /\ saving \in Saving /\ Adds(saving)
  BY SavingFacts DEF Write
<1>2. /\ live \subseteq issued /\ issued \subseteq Deliverable /\ Null \notin Deliverable
      /\ project \in [Deliverable -> Project] /\ edges \subseteq live \X live
      /\ edges \subseteq Deliverable \X Deliverable /\ Acyclic(edges)
      /\ status \in [Deliverable -> Status] /\ saving.form.status \in Status
      /\ \A x, y \in live : <<x, y>> \in edges => project[x] = project[y]
  BY <1>1, NullAssumption DEF IInv, TypeOK, Stored, Graph, Kept, Sound, Saving, Form
<1>3. CASE /\ saving.id \in live /\ Goes(s) /\ UNCHANGED <<graphVars, issued>>
           /\ status' = [status EXCEPT ![saving.id] = saving.form.status]
  <2>1. /\ s \in Saving /\ s.form = saving.form /\ s.id = saving.id /\ s.written
        /\ s.add = saving.add /\ s.del = saving.del
    BY <1>1 DEF Saving
  <2> HIDE DEF s
  <2>2. saving.id # Null /\ saving.id \in Deliverable
    BY <1>2, <1>3
  <2>3. Stored' \in Graph /\ Sound(live, project, edges)'
    BY <1>2, <1>3 DEF IInv, TypeOK, Kept, Sound, Stored, Graph, graphVars
  <2>4. CASE saving' = s /\ outcome' = outcome /\ slips' = slips
    <3>1. Adds(saving)'
      BY <1>1, <1>3, <2>1, <2>4 DEF Adds, graphVars
    <3>2. ASSUME slips = 0 PROVE Progress(saving)'
      <4>1. Progress(saving)
        BY <1>1, <3>2, SavingFacts
      <4>2. items.live = live /\ items.project = project /\ items.edges = edges
        BY <1>1, <4>1 DEF Progress, SameGraph
      <4>3. saving.form.editing = saving.id
        BY <1>1, <4>1 DEF Progress
      <4>4. ToAdd(s.form) \ s.add = {} /\ ToRemove(s.form) \ s.del = {}
        BY <1>1, <2>1, <4>1 DEF Adds, Progress
      <4>5. edges = (items.edges \cup Edges(s.id, {})) \ Edges(s.id, {})
        BY <4>2 DEF Edges
      <4> QED
        BY <1>1, <1>3, <2>1, <2>2, <2>4, <4>1, <4>2, <4>3, <4>4, <4>5
           DEF Progress, Write, graphVars
    <3>3. ASSUME slips = 0 PROVE StatusSeen'
      <4>1. \A x \in live : items.status[x] = status[x] \/ outcome = "failed"
        BY <1>1, <3>3, SavingFacts DEF StatusSeen
      <4>2. \A x \in live : x = saving.id \/ status'[x] = status[x]
        BY <1>2, <1>3
      <4>3. live' = live /\ items' = items /\ saving' # Null
        BY <1>3, <2>1, <2>4, NullAssumption DEF graphVars, Write
      <4> QED BY <2>1, <2>4, <4>1, <4>2, <4>3 DEF StatusSeen
    <3> QED BY <1>1, <1>2, <1>3, <2>1, <2>2, <2>3, <2>4, <3>1, <3>2, <3>3, GoesOnKeeps DEF Write
  <2>5. CASE Failed /\ slips' \in 0 .. MaxSlips /\ slips' # 0
    BY <1>1, <1>2, <1>3, <2>3, <2>5, EndsKeep DEF Write
  <2> QED BY <1>3, <2>4, <2>5, GoesFacts DEF IInv
<1>4. ASSUME NEW d \in Deliverable \ issued,
             saving.id = Null, Create(d, saving.form.project),
             Goes([saving EXCEPT !.written = TRUE, !.id = d]), issued' = issued \cup {d},
             status' = [status EXCEPT ![d] = saving.form.status]
      PROVE  IInv'
  <2> DEFINE t == [saving EXCEPT !.written = TRUE, !.id = d]
  <2>1. /\ t \in Saving /\ t.form = saving.form /\ t.id = d /\ t.written
        /\ t.add = saving.add /\ t.del = saving.del
    BY <1>1 DEF Saving
  <2>2. Goes(t)
    BY <1>4
  <2> HIDE DEF s, t
  <2>3. d # Null /\ d \notin live /\ saving.form.project \in Project
    BY <1>1, <1>2 DEF Adds
  <2>4. /\ live' = live \cup {d} /\ edges' = edges
        /\ project' = [project EXCEPT ![d] = saving.form.project]
    BY <1>4 DEF Create
  <2>5. Stored' \in Graph /\ Sound(live, project, edges)'
    <3>1. status' \in [Deliverable -> Status] /\ project' \in [Deliverable -> Project]
      BY <1>2, <1>4, <2>3, <2>4
    <3>2. Stored' \in Graph
      BY <1>2, <2>4, <3>1 DEF Stored, Graph
    <3>3. live' \subseteq issued' /\ edges' \subseteq live' \X live' /\ Acyclic(edges')
      BY <1>2, <1>4, <2>4
    <3>4. ASSUME NEW x \in live', NEW y \in live', <<x, y>> \in edges'
          PROVE  project'[x] = project'[y]
      <4>1. x \in live /\ y \in live /\ <<x, y>> \in edges
        BY <1>2, <2>4, <3>4
      <4> QED BY <1>2, <2>3, <2>4, <4>1
    <3> QED BY <3>2, <3>3, <3>4 DEF Sound
  <2>6. CASE saving' = t /\ outcome' = outcome /\ slips' = slips
    <3>1. Adds(saving)'
      BY <1>1, <1>4, <2>1, <2>3, <2>4, <2>6 DEF Adds
    <3>2. ASSUME slips = 0 PROVE Progress(saving)'
      <4>1. Progress(saving) /\ SameGraph /\ saving.form.editing = Null
        BY <1>1, <1>4, <3>2, SavingFacts DEF Progress
      <4>2. items.live = live /\ items.project = project /\ items.edges = edges
        BY <4>1 DEF SameGraph
      <4>3. ToAdd(t.form) \ t.add = {} /\ ToRemove(t.form) \ t.del = {}
        BY <1>1, <2>1, <4>1 DEF Adds, Progress
      <4>4. edges' = (items.edges \cup Edges(d, {})) \ Edges(d, {})
        BY <2>4, <4>2 DEF Edges
      <4>5. /\ \A x \in items.live : project'[x] = items.project[x]
            /\ project'[d] = saving.form.project
        BY <1>2, <2>3, <2>4, <4>2
      <4> QED
        BY <1>1, <2>1, <2>3, <2>4, <2>6, <4>1, <4>2, <4>3, <4>4, <4>5
           DEF Progress, Write
    <3>3. ASSUME slips = 0 PROVE StatusSeen'
      <4>1. \A x \in live : items.status[x] = status[x] \/ outcome = "failed"
        BY <1>1, <3>3, SavingFacts DEF StatusSeen
      <4>2. \A x \in live : status'[x] = status[x]
        BY <1>2, <1>4, <2>3
      <4>3. live' = live \cup {d} /\ items' = items /\ saving' # Null
        BY <2>1, <2>4, <2>6, NullAssumption DEF Write
      <4> QED BY <2>1, <2>6, <4>1, <4>2, <4>3 DEF StatusSeen
    <3> QED BY <1>1, <1>2, <1>4, <2>1, <2>5, <2>6, <3>1, <3>2, <3>3, GoesOnKeeps DEF Write
  <2>7. CASE Failed /\ slips' \in 0 .. MaxSlips /\ slips' # 0
    BY <1>1, <1>2, <1>4, <2>5, <2>7, EndsKeep DEF Write
  <2> QED BY <2>2, <2>6, <2>7, GoesFacts DEF IInv
<1> QED BY <1>3, <1>4 DEF Write

LEMMA AddKeeps == ASSUME IInv, AddEdge PROVE IInv'
<1>1. saving # Null /\ saving.written /\ saving \in Saving /\ Adds(saving)
  BY SavingFacts DEF AddEdge
<1>2. PICK x \in saving.add :
        /\ ~Refused(saving.id, x)
        /\ AddDependency(saving.id, x)
        /\ Goes([saving EXCEPT !.add = @ \ {x}])
  BY DEF AddEdge
<1> DEFINE s == [saving EXCEPT !.add = @ \ {x}]
<1>3. /\ s \in Saving /\ s.form = saving.form /\ s.id = saving.id /\ s.written
      /\ s.add = saving.add \ {x} /\ s.del = saving.del
  BY <1>1 DEF Saving
<1>4. Goes(s)
  BY <1>2
<1> HIDE DEF s
<1>5. /\ saving.id \in live /\ x \in live /\ project[saving.id] = project[x]
      /\ live' = live /\ project' = project
      /\ edges' = edges \cup {<<saving.id, x>>} /\ Acyclic(edges')
  BY <1>2 DEF AddDependency
<1>6. /\ live \subseteq issued /\ issued \subseteq Deliverable /\ Null \notin Deliverable
      /\ project \in [Deliverable -> Project] /\ edges \subseteq live \X live
      /\ status \in [Deliverable -> Status]
  BY NullAssumption DEF IInv, TypeOK, Stored, Graph, Kept, Sound
<1>7. Stored' \in Graph /\ Sound(live, project, edges)'
  <2>1. Stored' \in Graph
    BY <1>5, <1>6 DEF Stored, Graph, AddEdge
  <2>2. \A a, b \in live : <<a, b>> \in edges' => project[a] = project[b]
    BY <1>5 DEF IInv, Kept, Sound
  <2>3. issued' = issued
    BY DEF AddEdge
  <2> QED BY <1>5, <1>6, <2>1, <2>2, <2>3 DEF Sound
<1>8. CASE saving' = s /\ outcome' = outcome /\ slips' = slips
  <2>1. Adds(saving)'
    BY <1>1, <1>2, <1>3, <1>5, <1>8 DEF Adds, AddEdge
  <2>2. ASSUME slips = 0 PROVE Progress(saving)'
    <3>1. Progress(saving)
      BY <1>1, <2>2, SavingFacts
    <3>2. /\ saving.del = ToRemove(saving.form)
          /\ edges = (items.edges \cup Edges(saving.id, ToAdd(saving.form) \ saving.add))
                       \ Edges(saving.id, ToRemove(saving.form) \ saving.del)
      BY <1>1, <1>2, <3>1 DEF Progress
    <3>3. ToAdd(s.form) \ s.add = (ToAdd(saving.form) \ saving.add) \cup {x}
      BY <1>1, <1>2, <1>3 DEF Adds
    <3>4. ToRemove(s.form) \ s.del = {}
      BY <1>3, <3>2
    <3>5. edges' = (items.edges \cup Edges(s.id, ToAdd(s.form) \ s.add)) \ Edges(s.id, {})
      BY <1>3, <1>5, <3>2, <3>3 DEF Edges
    <3> QED
      BY <1>1, <1>3, <1>5, <1>8, <3>1, <3>2, <3>3, <3>4, <3>5 DEF Progress, AddEdge
  <2>3. ASSUME slips = 0 PROVE StatusSeen'
    <3>1. StatusSeen /\ saving' # Null
      BY <1>1, <1>3, <1>8, <2>3, SavingFacts, NullAssumption
    <3> QED BY <1>1, <1>3, <1>5, <1>8, <3>1 DEF StatusSeen, AddEdge
  <2> QED BY <1>1, <1>3, <1>5, <1>6, <1>7, <1>8, <2>1, <2>2, <2>3, GoesOnKeeps DEF AddEdge
<1>9. CASE Failed /\ slips' \in 0 .. MaxSlips /\ slips' # 0
  BY <1>1, <1>6, <1>7, <1>9, EndsKeep DEF AddEdge
<1> QED BY <1>4, <1>8, <1>9, GoesFacts DEF IInv

LEMMA RemoveKeeps == ASSUME IInv, RemoveEdge PROVE IInv'
<1>1. saving # Null /\ saving.written /\ saving \in Saving /\ Adds(saving)
  BY SavingFacts DEF RemoveEdge
<1>2. PICK x \in saving.del :
        /\ RemoveDependency(saving.id, x)
        /\ Goes([saving EXCEPT !.del = @ \ {x}])
  BY DEF RemoveEdge
<1> DEFINE s == [saving EXCEPT !.del = @ \ {x}]
<1>3. /\ s \in Saving /\ s.form = saving.form /\ s.id = saving.id /\ s.written
      /\ s.add = {} /\ s.del = saving.del \ {x}
  BY <1>1 DEF Saving, RemoveEdge
<1>4. Goes(s)
  BY <1>2
<1> HIDE DEF s
<1>5. /\ <<saving.id, x>> \in edges /\ live' = live /\ project' = project
      /\ edges' = edges \ {<<saving.id, x>>}
  BY <1>2 DEF RemoveDependency
<1>6. /\ live \subseteq issued /\ issued \subseteq Deliverable /\ Null \notin Deliverable
      /\ project \in [Deliverable -> Project] /\ edges \subseteq live \X live
      /\ Acyclic(edges) /\ status \in [Deliverable -> Status]
      /\ \A a, b \in live : <<a, b>> \in edges => project[a] = project[b]
  BY NullAssumption DEF IInv, TypeOK, Stored, Graph, Kept, Sound
<1>7. saving.id \in live
  BY <1>5, <1>6
<1>8. Acyclic(edges')
  BY <1>5, <1>6, FewerEdges
<1>9. Stored' \in Graph /\ Sound(live, project, edges)'
  BY <1>5, <1>6, <1>8 DEF Stored, Graph, Sound, RemoveEdge
<1>10. x \in ToRemove(saving.form) /\ x \notin ToAdd(saving.form)
  BY <1>1, <1>2 DEF Adds, ToAdd, ToRemove
<1>11. CASE saving' = s /\ outcome' = outcome /\ slips' = slips
  <2>1. Adds(saving)'
    BY <1>1, <1>3, <1>5, <1>10, <1>11 DEF Adds, RemoveEdge
  <2>2. ASSUME slips = 0 PROVE Progress(saving)'
    <3>1. Progress(saving)
      BY <1>1, <2>2, SavingFacts
    <3>2. edges = (items.edges \cup Edges(saving.id, ToAdd(saving.form) \ saving.add))
                       \ Edges(saving.id, ToRemove(saving.form) \ saving.del)
      BY <1>1, <3>1 DEF Progress
    <3>3. ToRemove(s.form) \ s.del = (ToRemove(saving.form) \ saving.del) \cup {x}
      BY <1>1, <1>2, <1>3, <1>10 DEF Adds
    <3>4. saving.add = {}
      BY DEF RemoveEdge
    <3>5. edges' = (items.edges \cup Edges(s.id, ToAdd(s.form) \ s.add))
                     \ Edges(s.id, ToRemove(s.form) \ s.del)
      BY <1>3, <1>5, <3>2, <3>3, <3>4 DEF Edges
    <3>6. items' = items /\ saving' = s /\ s.written /\ s.add = {}
      BY <1>3, <1>11 DEF RemoveEdge
    <3>7. /\ s.id \in live' /\ items.live \subseteq live'
          /\ \A y \in items.live : project'[y] = items.project[y]
          /\ \A y \in ToAdd(s.form) \ s.add : project'[y] = project'[s.id]
      BY <1>1, <1>3, <1>5, <3>1, <3>4 DEF Progress
    <3>8. /\ s.form.editing # Null =>
               s.id = s.form.editing /\ live' = items.live /\ project' = items.project
          /\ s.form.editing = Null =>
               s.id \notin items.live /\ project'[s.id] = s.form.project
      BY <1>1, <1>3, <1>5, <3>1 DEF Progress
    <3> QED BY <3>5, <3>6, <3>7, <3>8 DEF Progress
  <2>3. ASSUME slips = 0 PROVE StatusSeen'
    <3>1. StatusSeen /\ saving' # Null
      BY <1>1, <1>3, <1>11, <2>3, SavingFacts, NullAssumption
    <3> QED BY <1>1, <1>3, <1>5, <1>11, <3>1 DEF StatusSeen, RemoveEdge
  <2> QED BY <1>1, <1>3, <1>5, <1>6, <1>7, <1>9, <1>11, <2>1, <2>2, <2>3, GoesOnKeeps DEF RemoveEdge
<1>12. CASE Failed /\ slips' \in 0 .. MaxSlips /\ slips' # 0
  BY <1>1, <1>6, <1>9, <1>12, EndsKeep DEF RemoveEdge
<1> QED BY <1>4, <1>11, <1>12, GoesFacts DEF IInv

LEMMA LostKeeps == ASSUME IInv, Lost PROVE IInv'
<1>1. /\ live \subseteq issued /\ issued \subseteq Deliverable /\ Stored \in Graph
      /\ Sound(live, project, edges)
  BY DEF IInv, TypeOK, Kept
<1>2. Stored' \in Graph /\ Sound(live, project, edges)'
  BY <1>1 DEF Lost, table, graphVars, Stored, Sound
<1>3. slips' \in 0 .. MaxSlips /\ slips' # 0
  BY SlipFacts DEF IInv, Lost
<1>4. issued' = issued
  BY DEF Lost, table
<1>5. issued \subseteq Deliverable
  BY DEF IInv, TypeOK
<1> QED BY <1>1, <1>2, <1>3, <1>4, <1>5, EndsKeep DEF Lost

\* Without a slip a request is only refused before the save has changed the
\* graph.
LEMMA NothingStored ==
  ASSUME IInv, saving # Null, slips = 0, NextRefused
  PROVE  SameGraph
<1> DEFINE f == saving.form
           d == saving.id
<1>1. /\ saving \in Saving /\ Adds(saving) /\ f \in Form
      /\ FormRight(f) /\ Progress(saving)
  BY SavingFacts
<1>2. /\ items \in Graph /\ items.live \subseteq Deliverable
      /\ items.edges \subseteq items.live \X items.live /\ Acyclic(items.edges)
      /\ live \subseteq Deliverable
  BY DEF IInv, TypeOK, Graph, Kept, Sound
<1>3. CASE ~saving.written
  BY <1>1, <1>3 DEF Progress
<1>4. ASSUME saving.written, NEW x \in saving.add, Refused(d, x) PROVE SameGraph
  <2>1. /\ d \in live /\ saving.del = ToRemove(f)
        /\ edges = (items.edges \cup Edges(d, ToAdd(f) \ saving.add))
                     \ Edges(d, ToRemove(f) \ saving.del)
        /\ items.live \subseteq live
        /\ \A y \in items.live : project[y] = items.project[y]
        /\ \A y \in ToAdd(f) \ saving.add : project[y] = project[d]
    BY <1>1, <1>4 DEF Progress
  <2>2. edges = items.edges \cup Edges(d, ToAdd(f) \ saving.add)
    BY <2>1 DEF Edges
  <2>3. /\ x \in ToAdd(f) /\ x \in f.deps /\ x \notin f.old /\ x \in items.live
        /\ x \in live /\ saving.add \subseteq ToAdd(f)
    BY <1>1, <1>4, <2>1 DEF Adds, ToAdd, FormRight
  <2>4. edges \cup {<<d, x>>} \subseteq items.edges \cup Edges(d, f.deps)
    BY <2>2, <2>3 DEF Edges, ToAdd
  <2>5. CASE f.editing = Null
    <3>1. d \notin items.live /\ project[d] = f.project /\ items.project[x] = f.project
      BY <1>1, <1>4, <2>3, <2>5 DEF Progress, FormRight
    <3>2. <<d, x>> \notin edges
      BY <1>2, <1>4, <2>2, <3>1 DEF Edges
    <3>3. Acyclic(items.edges \cup Edges(d, f.deps))
      <4>1. d \in Deliverable \ items.live /\ f.deps \in SUBSET items.live
        BY <1>1, <1>2, <2>1, <3>1 DEF FormRight
      <4> QED BY <1>2, <4>1, NewNode
    <3>4. Acyclic(edges \cup {<<d, x>>})
      BY <2>4, <3>3, FewerEdges
    <3> QED BY <1>4, <2>1, <2>3, <3>1, <3>2, <3>4 DEF Refused
  <2>6. CASE f.editing # Null
    <3>1. /\ d = f.editing /\ live = items.live /\ project = items.project
          /\ f.old = Dependencies(items, d)
          /\ Acyclic(items.edges \cup Edges(d, f.deps))
          /\ \A y \in f.deps : items.project[y] = f.project
      BY <1>1, <1>4, <2>3, <2>6 DEF Progress, FormRight
    <3>2. <<d, x>> \notin edges
      BY <1>2, <1>4, <2>2, <2>3, <3>1 DEF Edges, Dependencies
    <3>3. Acyclic(edges \cup {<<d, x>>})
      BY <2>4, <3>1, FewerEdges
    <3>4. project[d] # project[x]
      BY <1>4, <2>1, <2>3, <3>2, <3>3 DEF Refused
    <3>5. ToAdd(f) \ saving.add = {}
      BY <2>1, <2>3, <3>1, <3>4 DEF ToAdd
    <3>6. edges = items.edges
      BY <2>2, <3>5 DEF Edges
    <3> QED BY <3>1, <3>6 DEF SameGraph
  <2> QED BY <2>5, <2>6
<1>5. ASSUME saving.written, saving.add = {}, NEW x \in saving.del, <<d, x>> \notin edges
      PROVE  FALSE
  <2>1. edges = (items.edges \cup Edges(d, ToAdd(f) \ saving.add))
                  \ Edges(d, ToRemove(f) \ saving.del)
    BY <1>1, <1>5 DEF Progress
  <2>2. x \in f.old
    BY <1>1, <1>5 DEF Adds, ToRemove
  <2>3. d = f.editing /\ f.old = Dependencies(items, d)
    BY <1>1, <1>5, <2>2 DEF Progress, FormRight
  <2>4. <<d, x>> \in items.edges
    BY <2>2, <2>3 DEF Dependencies
  <2> QED BY <1>5, <2>1, <2>4 DEF Edges
<1> QED BY <1>3, <1>4, <1>5 DEF NextRefused

LEMMA ErrorKeeps == ASSUME IInv, Error PROVE IInv'
<1>1. saving # Null /\ saving' = Null /\ NextRefused /\ outcome' = "failed"
  BY DEF Error, Failed
<1>2. TypeOK'
  BY <1>1 DEF IInv, TypeOK, UnderWay, Error, table, graphVars, Stored
<1>3. Kept'
  BY <1>1 DEF IInv, Kept, Sound, Error, table, graphVars
<1>4. ASSUME slips' = 0 PROVE InOrder'
  <2>1. /\ slips = 0 /\ dialog = saving.form /\ FormRight(saving.form) /\ asked = 0
        /\ answers = {} /\ deleting = << >>
    BY <1>1, <1>4, SavingFacts DEF Error
  <2>2. SameGraph
    BY <1>1, <2>1, NothingStored
  <2>3. /\ SameGraph' /\ StatusSeen' /\ answers' = {} /\ asked' = 0 /\ deleting' = << >>
        /\ FormRight(dialog)'
    BY <1>1, <2>1, <2>2
       DEF Error, table, graphVars, SameGraph, StatusSeen, FormRight, Dependencies
  <2> QED BY <1>1, <2>3 DEF InOrder
<1> QED BY <1>2, <1>3, <1>4 DEF IInv

\* A request more never exceeds the bound.
LEMMA RoomFacts ==
  ASSUME IInv, Room
  PROVE  /\ asked + 1 \in 0 .. MaxLoads /\ asked + 1 # 0
         /\ UnderWay + 1 \in 0 .. MaxLoads
<1>1. /\ asked \in Nat /\ Cardinality(answers) \in Nat /\ Len(deleting) \in Nat
      /\ UnderWay \in Nat /\ UnderWay <= MaxLoads /\ MaxLoads \in Nat
  BY Counts DEF IInv, Kept
<1> QED BY <1>1 DEF Room, UnderWay

LEMMA DoneKeeps == ASSUME IInv, Done PROVE IInv'
<1>1. asked' \in 0 .. MaxLoads /\ asked' # 0 /\ UnderWay + 1 \in 0 .. MaxLoads
  BY RoomFacts DEF Done, Reload
<1>2. saving # Null /\ saving' = Null /\ dialog' = Null
  BY DEF Done
<1>3. UnderWay' \in 0 .. MaxLoads
  <2>1. asked \in Nat /\ Cardinality(answers) \in Nat /\ Len(deleting) \in Nat
    BY Counts DEF IInv, Kept
  <2>2. UnderWay' = UnderWay + 1
    BY <2>1 DEF UnderWay, Done, Reload
  <2> QED BY <1>1, <2>2
<1>4. TypeOK'
  BY <1>1, <1>2, <1>3 DEF IInv, TypeOK, Done, table, graphVars, Stored
<1>5. Kept'
  BY <1>2 DEF IInv, Kept, Sound, Done, table, graphVars
<1>6. slips' = 0 => InOrder'
  <2> SUFFICES ASSUME slips' = 0 PROVE InOrder'
    OBVIOUS
  <2>1. slips = 0 /\ answers = {} /\ deleting = << >>
    BY <1>2, SavingFacts DEF Done
  <2>2. answers' = {} /\ deleting' = << >>
    BY <2>1 DEF Done
  <2> QED BY <1>1, <1>2, <2>2 DEF InOrder
<1> QED BY <1>4, <1>5, <1>6 DEF IInv

-----------------------------------------------------------------------------
(***************************************************************************)
(* The list                                                                *)
(***************************************************************************)
LEMMA DeleteItemKeeps == ASSUME IInv, DeleteItem PROVE IInv'
<1>1. PICK d \in items.live : deleting' = Append(deleting, d)
  BY DEF DeleteItem
<1>2. d \in Deliverable /\ deleting \in Seq(Deliverable)
  BY DEF IInv, TypeOK, Graph
<1>3. deleting' \in Seq(Deliverable) /\ Len(deleting') = Len(deleting) + 1
  BY <1>1, <1>2, AppendProperties
<1>4. slips' \in 0 .. MaxSlips /\ (slips' = 0 => slips = 0 /\ Quiet)
  BY UserFacts DEF IInv, DeleteItem
<1>5. UnderWay' \in 0 .. MaxLoads
  <2>1. asked \in Nat /\ Cardinality(answers) \in Nat /\ Len(deleting) \in Nat
    BY Counts DEF IInv, Kept
  <2>2. UnderWay' = UnderWay + 1
    BY <1>3, <2>1 DEF UnderWay, DeleteItem
  <2> QED BY <2>2, RoomFacts DEF DeleteItem
<1>6. TypeOK'
  BY <1>3, <1>4, <1>5 DEF IInv, TypeOK, DeleteItem, table, graphVars, Stored
<1>7. Kept'
  BY DEF IInv, Kept, Sound, Adds, DeleteItem, table, graphVars
<1>8. slips' = 0 => InOrder'
  <2> SUFFICES ASSUME slips' = 0 PROVE InOrder'
    OBVIOUS
  <2>1. slips = 0 /\ Quiet /\ InOrder /\ dialog = Null
    BY <1>4 DEF IInv, DeleteItem
  <2>2. Len(deleting') = 1
    BY <1>3, <2>1 DEF Quiet
  <2>3. StatusSeen' /\ SameGraph'
    BY <2>1 DEF InOrder, Quiet, StatusSeen, SameGraph, DeleteItem, table, graphVars
  <2> QED BY <2>1, <2>2, <2>3 DEF InOrder, Quiet, DeleteItem
<1> QED BY <1>6, <1>7, <1>8 DEF IInv

LEMMA DeletedKeeps == ASSUME IInv, Deleted PROVE IInv'
<1>1. PICK i \in DOMAIN deleting :
        /\ Delete(deleting[i])
        /\ deleting' = RemoveAt(deleting, i)
        /\ \/ Reload /\ outcome' = "none" /\ Careful(TRUE)
           \/ asked' = asked /\ outcome' = outcome /\ Careful(FALSE)
        /\ UNCHANGED <<status, issued, items, answers, dialog, saving, edits>>
  BY DEF Deleted
<1> DEFINE d == deleting[i]
<1>2. /\ live \subseteq issued /\ issued \subseteq Deliverable
      /\ project \in [Deliverable -> Project] /\ edges \subseteq live \X live
      /\ Acyclic(edges) /\ status \in [Deliverable -> Status]
      /\ \A x, y \in live : <<x, y>> \in edges => project[x] = project[y]
      /\ deleting \in Seq(Deliverable)
  BY DEF IInv, TypeOK, Stored, Graph, Kept, Sound
<1>3. live' = live \ {d} /\ edges' = {e \in edges : d \notin {e[1], e[2]}} /\ project' = project
  BY <1>1 DEF Delete
<1>4. deleting' \in Seq(Deliverable) /\ Len(deleting') = Len(deleting) - 1
  BY <1>1, <1>2, TakenFacts
<1> HIDE DEF d
<1>5. edges' \subseteq edges /\ edges' \subseteq live' \X live'
  BY <1>2, <1>3
<1>6. Acyclic(edges')
  BY <1>2, <1>5, FewerEdges
<1>7. Stored' \in Graph /\ live' \subseteq issued
  BY <1>1, <1>2, <1>3, <1>5 DEF Stored, Graph
<1>8. Sound(live, project, edges)'
  BY <1>1, <1>2, <1>3, <1>5, <1>6, <1>7 DEF Sound
<1>9. /\ asked \in Nat /\ Cardinality(answers) \in Nat /\ Len(deleting) \in Nat
      /\ UnderWay \in Nat /\ UnderWay <= MaxLoads /\ MaxLoads \in Nat
      /\ Len(deleting') \in Nat
  BY <1>4, Counts, LenProperties DEF IInv, Kept
<1>10. asked' = asked \/ asked' = asked + 1
  BY <1>1 DEF Reload
<1>11. /\ UnderWay' \in 0 .. MaxLoads /\ asked' \in 0 .. MaxLoads
       /\ outcome' = outcome \/ outcome' = "none"
  <2>1. answers' = answers /\ (outcome' = outcome \/ outcome' = "none")
    BY <1>1
  <2>2. UnderWay' = asked' + Cardinality(answers) + (Len(deleting) - 1)
    BY <1>4, <2>1 DEF UnderWay
  <2>3. UnderWay = asked + Cardinality(answers) + Len(deleting) /\ Len(deleting) - 1 \in Nat
    BY <1>4, <1>9 DEF UnderWay
  <2> QED BY <1>9, <1>10, <2>1, <2>2, <2>3
<1>12. /\ slips' \in 0 .. MaxSlips
       /\ slips' = 0 => asked' # 0 /\ slips = 0
  BY <1>1, <1>9, BoundsAssumption DEF IInv, TypeOK, Reload, Careful
<1>13. TypeOK'
  BY <1>1, <1>4, <1>7, <1>11, <1>12 DEF IInv, TypeOK
<1>14. saving # Null => Adds(saving)'
  <2> SUFFICES ASSUME saving # Null PROVE Adds(saving)'
    OBVIOUS
  <2>1. Adds(saving)
    BY SavingFacts
  <2>2. ASSUME saving.written, saving.id \in live',
               NEW x \in (ToAdd(saving.form) \ saving.add) \cap live'
        PROVE  <<saving.id, x>> \in edges'
    <3>1. <<saving.id, x>> \in edges /\ saving.id # d /\ x # d
      BY <1>3, <2>1, <2>2 DEF Adds
    <3> QED BY <1>3, <3>1
  <2> QED BY <1>1, <2>1, <2>2 DEF Adds
<1>15. Kept'
  BY <1>1, <1>8, <1>14 DEF IInv, Kept, Sound
<1>16. slips' = 0 => InOrder'
  <2> SUFFICES ASSUME slips' = 0 PROVE InOrder'
    OBVIOUS
  <2>1. slips = 0 /\ InOrder /\ asked' # 0
    BY <1>12 DEF IInv
  <2>2. deleting # << >>
    BY <1>1
  <2>3. /\ dialog' = Null /\ saving' = Null /\ Len(deleting) = 1 /\ answers' = {}
    BY <1>1, <2>1, <2>2 DEF InOrder
  <2>4. deleting' = << >>
    BY <1>4, <2>3, EmptySeq
  <2> QED BY <2>1, <2>3, <2>4 DEF InOrder
<1> QED BY <1>13, <1>15, <1>16 DEF IInv

LEMMA NotDeletedKeeps == ASSUME IInv, NotDeleted PROVE IInv'
<1>1. PICK i \in DOMAIN deleting :
        /\ Careful(deleting[i] \notin live)
        /\ deleting' = RemoveAt(deleting, i)
        /\ UNCHANGED <<table, items, asked, answers, dialog, saving, outcome, edits>>
  BY DEF NotDeleted
<1>2. deleting' \in Seq(Deliverable) /\ Len(deleting') = Len(deleting) - 1
  BY <1>1, TakenFacts DEF IInv, TypeOK
<1>3. /\ asked \in Nat /\ Cardinality(answers) \in Nat /\ Len(deleting) \in Nat
      /\ UnderWay \in Nat /\ UnderWay <= MaxLoads /\ MaxLoads \in Nat
      /\ Len(deleting') \in Nat
  BY <1>2, Counts, LenProperties DEF IInv, Kept
<1>4. UnderWay' \in 0 .. MaxLoads
  BY <1>1, <1>2, <1>3 DEF UnderWay
<1>5. slips' \in 0 .. MaxSlips /\ (slips' = 0 => slips = 0)
  BY <1>1, BoundsAssumption DEF IInv, TypeOK, Careful
<1>6. TypeOK'
  BY <1>1, <1>2, <1>4, <1>5 DEF IInv, TypeOK, table, graphVars, Stored
<1>7. Kept'
  BY <1>1 DEF IInv, Kept, Sound, Adds, table, graphVars
<1>8. slips' = 0 => InOrder'
  <2> SUFFICES ASSUME slips' = 0 PROVE InOrder'
    OBVIOUS
  <2>1. slips = 0 /\ InOrder /\ deleting # << >>
    BY <1>1, <1>5 DEF IInv
  <2>2. dialog = Null /\ saving = Null /\ Len(deleting) = 1 /\ asked = 0 /\ answers = {}
    BY <2>1 DEF InOrder
  <2>3. deleting' = << >>
    BY <1>2, <2>2, EmptySeq
  <2>4. StatusSeen' /\ SameGraph'
    BY <1>1, <2>1, <2>2 DEF InOrder, StatusSeen, SameGraph, table, graphVars
  <2> QED BY <1>1, <2>2, <2>3, <2>4 DEF InOrder
<1> QED BY <1>6, <1>7, <1>8 DEF IInv

LEMMA ServeListKeeps == ASSUME IInv, ServeList PROVE IInv'
<1>1. asked' \in 0 .. MaxLoads /\ asked' = asked - 1 /\ asked # 0
  BY BoundsAssumption DEF IInv, TypeOK, ServeList
<1>2. /\ slips' \in 0 .. MaxSlips
      /\ slips' = 0 => slips = 0 /\ answers' = answers \cup {Stored}
  BY BoundsAssumption DEF IInv, TypeOK, ServeList, Careful
<1>3. /\ answers' \subseteq answers \cup {Stored} /\ Stored' = Stored
      /\ answers' = answers \/ answers' = answers \cup {Stored}
  BY DEF ServeList, Stored, table, graphVars
<1>4. UnderWay' \in 0 .. MaxLoads
  <2>1. /\ asked \in Nat /\ Cardinality(answers) \in Nat /\ Len(deleting) \in Nat
        /\ UnderWay <= MaxLoads /\ MaxLoads \in Nat /\ IsFiniteSet(answers)
    BY Counts DEF IInv, Kept
  <2>2. Cardinality(answers') \in Nat /\ Cardinality(answers') <= Cardinality(answers) + 1
    <3>1. CASE answers' = answers
      BY <2>1, <3>1
    <3>2. CASE answers' = answers \cup {Stored}
      <4>1. \/ Cardinality(answers') = Cardinality(answers)
            \/ Cardinality(answers') = Cardinality(answers) + 1
        BY <2>1, <3>2, FS_AddElement
      <4> QED BY <2>1, <4>1
    <3> QED BY <1>3, <3>1, <3>2
  <2> QED BY <1>1, <2>1, <2>2 DEF UnderWay, ServeList
<1>5. TypeOK'
  BY <1>1, <1>2, <1>3, <1>4 DEF IInv, TypeOK, ServeList, table, graphVars
<1>6. IsFiniteSet(answers')
  BY <1>3, FS_AddElement DEF IInv, Kept
<1>7. Stored.live = live /\ Stored.edges = edges /\ Stored.project = project
  BY DEF Stored
<1>8. Kept'
  BY <1>3, <1>6, <1>7 DEF IInv, Kept, Sound, Adds, ServeList, table, graphVars
<1>9. ASSUME slips' = 0 PROVE InOrder'
  <2>1. /\ dialog' = Null /\ saving' = Null /\ deleting' = << >>
        /\ answers' = answers \cup {Stored} /\ \A g \in answers : g = Stored
    BY <1>1, <1>2, <1>9 DEF IInv, InOrder, ServeList
  <2> QED BY <1>3, <2>1 DEF InOrder
<1> QED BY <1>5, <1>8, <1>9 DEF IInv

LEMMA ShowListKeeps == ASSUME IInv, ShowList PROVE IInv'
<1>1. PICK g \in answers : items' = g /\ answers' = answers \ {g}
  BY DEF ShowList
<1>2. Stored' = Stored
  BY DEF ShowList, Stored, table, graphVars
<1>3. IsFiniteSet(answers') /\ Cardinality(answers') = Cardinality(answers) - 1
  BY <1>1, FS_RemoveElement DEF IInv, Kept
<1>4. UnderWay' \in 0 .. MaxLoads
  <2>1. /\ asked \in Nat /\ Cardinality(answers) \in Nat /\ Len(deleting) \in Nat
        /\ UnderWay <= MaxLoads /\ MaxLoads \in Nat
    BY Counts DEF IInv, Kept
  <2>2. Cardinality(answers') \in Nat
    BY <1>3, FS_CardinalityType
  <2> QED BY <1>3, <2>1, <2>2 DEF UnderWay, ShowList
<1>5. TypeOK'
  BY <1>1, <1>2, <1>4 DEF IInv, TypeOK, ShowList, table, graphVars
<1>6. Kept'
  BY <1>1, <1>3 DEF IInv, Kept, Sound, Adds, ShowList, table, graphVars
<1>7. ASSUME slips' = 0 PROVE InOrder'
  <2>1. slips = 0 /\ InOrder /\ answers # {} /\ g = Stored
    BY <1>1, <1>7 DEF IInv, InOrder, ShowList
  <2>2. dialog' = Null /\ saving' = Null /\ deleting' = << >> /\ answers' = {}
    BY <1>1, <2>1 DEF InOrder, ShowList
  <2>3. SameGraph' /\ StatusSeen'
    BY <1>1, <1>2, <2>1 DEF SameGraph, StatusSeen, Stored
  <2> QED BY <2>2, <2>3 DEF InOrder
<1> QED BY <1>5, <1>6, <1>7 DEF IInv

-----------------------------------------------------------------------------
(***************************************************************************)
(* Every step                                                              *)
(***************************************************************************)
LEMMA StepKeeps == ASSUME IInv, [Next]_vars PROVE IInv'
<1>1. CASE UNCHANGED vars
  <2>1. TypeOK'
    BY <1>1 DEF IInv, TypeOK, UnderWay, Stored, vars, table, graphVars, pageVars
  <2>2. Kept'
    BY <1>1 DEF IInv, Kept, Sound, Adds, vars, table, graphVars, pageVars
  <2>3. slips' = 0 => InOrder'
    BY <1>1 DEF IInv, InOrder, StatusSeen, SameGraph, FormRight, Progress, Quiet,
         Dependencies, Stored, vars, table, graphVars, pageVars
  <2> QED BY <2>1, <2>2, <2>3 DEF IInv
<1>2. CASE Next
  BY <1>2, OpenCreateKeeps, OpenEditKeeps, ChangeFormKeeps, CloseKeeps, SaveKeeps,
     WriteKeeps, AddKeeps, RemoveKeeps, ErrorKeeps, LostKeeps, DoneKeeps,
     DeleteItemKeeps, DeletedKeeps, NotDeletedKeeps, ServeListKeeps, ShowListKeeps
     DEF Next, SaveStep, DeleteStep, ListStep
<1> QED BY <1>1, <1>2

LEMMA Invariance == Spec => []IInv
<1>1. IInv /\ [Next]_vars => IInv'
  BY StepKeeps
<1> QED BY InitSound, <1>1, PTL DEF Spec

\* A save only ends in success by being done.
LEMMA OnlyDone ==
  ASSUME IInv, [Next]_vars, outcome' = "saved", saving # Null, saving' = Null
  PROVE  Done
<1>1. saving \in Saving
  BY SavingFacts
<1>2. \A next : next # Null /\ Goes(next) => FALSE
  BY DEF Goes, Failed
<1>3. ~Write
  <2>1. ASSUME NEW d \in Deliverable PROVE [saving EXCEPT !.written = TRUE, !.id = d] # Null
    BY <1>1, NullAssumption DEF Saving
  <2>2. [saving EXCEPT !.written = TRUE] # Null
    BY <1>1, NullAssumption DEF Saving
  <2> QED BY <1>2, <2>1, <2>2 DEF Write
<1>4. ~AddEdge
  <2>1. ASSUME NEW x PROVE [saving EXCEPT !.add = @ \ {x}] # Null
    BY <1>1, NullAssumption DEF Saving
  <2> QED BY <1>2, <2>1 DEF AddEdge
<1>5. ~RemoveEdge
  <2>1. ASSUME NEW x PROVE [saving EXCEPT !.del = @ \ {x}] # Null
    BY <1>1, NullAssumption DEF Saving
  <2> QED BY <1>2, <2>1 DEF RemoveEdge
<1>6. ~Save
  BY DEF Save
<1> QED BY <1>3, <1>4, <1>5, <1>6 DEF Next, SaveStep, DeleteStep, ListStep, Error, Lost, Failed,
       OpenCreate, OpenEdit, ChangeForm, Close, DeleteItem, Deleted, NotDeleted, ServeList,
       ShowList, vars, pageVars

-----------------------------------------------------------------------------
(***************************************************************************)
(* The theorems                                                            *)
(***************************************************************************)
\* Whatever is lost and however the user clicks, lists, forms and saves have
\* their types and no form has a deliverable depend on itself.
THEOREM TypeCorrect == Spec => []TypeOK
<1>1. IInv => TypeOK
  BY DEF IInv
<1> QED BY Invariance, <1>1, PTL

\* Without a slip the page shows the stored deliverables and dependencies as
\* soon as nothing is under way, also after a refused save, and their status
\* unless a save was refused after its update (Deliverables.jsx:99, 109).
THEOREM ListRight == Spec => []ListFresh
<1>1. IInv => ListFresh
  BY DEF IInv, InOrder, StatusSeen, Quiet, ListFresh
<1> QED BY Invariance, <1>1, PTL

\* Without a slip the requests of a successful save, which only name the
\* difference to the row the dialog was opened with, leave the deliverable
\* with exactly the dependencies in the form.
THEOREM SavedRight == Spec => SavedAsShown
<1>1. ASSUME IInv, [Next]_vars, slips' = 0, outcome' = "saved", saving # Null, saving' = Null
      PROVE  Dependencies(Stored', saving.id) = saving.form.deps
  <2> DEFINE f == saving.form
             d == saving.id
  <2>1. Done
    BY <1>1, OnlyDone
  <2>2. /\ saving.written /\ saving.add = {} /\ saving.del = {}
        /\ slips = 0 /\ Stored'.edges = edges
    BY <1>1, <2>1 DEF Done, Stored, table, graphVars
  <2>3. /\ f \in Form /\ FormRight(f) /\ Progress(saving)
    BY <1>1, <2>2, SavingFacts
  <2>4. edges = (items.edges \cup Edges(d, ToAdd(f))) \ Edges(d, ToRemove(f))
    BY <2>2, <2>3 DEF Progress
  <2>5. f.old = Dependencies(items, d)
    <3>1. CASE f.editing = Null
      <4>1. f.old = {} /\ d \notin items.live
        BY <2>2, <2>3, <3>1 DEF Progress, FormRight
      <4>2. items.edges \subseteq items.live \X items.live
        BY <1>1 DEF IInv, Kept, Sound
      <4> QED BY <4>1, <4>2 DEF Dependencies
    <3>2. CASE f.editing # Null
      BY <2>2, <2>3, <3>2 DEF Progress, FormRight
    <3> QED BY <3>1, <3>2
  <2>6. ASSUME NEW x \in Deliverable PROVE <<d, x>> \in edges <=> x \in f.deps
    BY <2>4, <2>5, <2>6 DEF Edges, Dependencies, ToAdd, ToRemove
  <2>7. f.deps \subseteq Deliverable
    BY <2>3 DEF Form
  <2> QED BY <2>2, <2>6, <2>7 DEF Dependencies
<1>2. IInv /\ [Next]_vars =>
        [(slips' = 0 /\ outcome' = "saved" /\ saving # Null /\ saving' = Null) =>
           Dependencies(Stored', saving.id) = saving.form.deps]_vars
  BY <1>1
<1> QED BY Invariance, <1>2, PTL DEF Spec, SavedAsShown

\* However old the list was and whatever was lost, a successful save has stored
\* every dependency that the form adds to the row it was opened with, unless
\* one of the two deliverables is gone.
THEOREM AddedRight == Spec => AddedIsStored
<1>1. ASSUME IInv, [Next]_vars, outcome' = "saved", saving # Null, saving' = Null,
             saving.id \in live
      PROVE  (saving.form.deps \ saving.form.old) \cap live
               \subseteq Dependencies(Stored, saving.id)
  <2>1. saving.written /\ saving.add = {}
    BY <1>1, OnlyDone DEF Done
  <2>2. Adds(saving) /\ live \subseteq Deliverable
    BY <1>1, SavingFacts DEF IInv, TypeOK
  <2> QED BY <1>1, <2>1, <2>2 DEF Adds, ToAdd, Dependencies, Stored
<1>2. IInv /\ [Next]_vars =>
        [(outcome' = "saved" /\ saving # Null /\ saving' = Null /\ saving.id \in live) =>
           (saving.form.deps \ saving.form.old) \cap live
             \subseteq Dependencies(Stored, saving.id)]_vars
  BY <1>1
<1> QED BY Invariance, <1>2, PTL DEF Spec, AddedIsStored
=============================================================================
