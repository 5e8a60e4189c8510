--------------------------- MODULE ProjectsProofs ---------------------------
(***************************************************************************)
(* Proofs about Projects, for any number of projects, days, deadlines,     *)
(* requests under way and slips.                                           *)
(***************************************************************************)
EXTENDS Projects, SequenceTheorems, TLAPS

-----------------------------------------------------------------------------
(***************************************************************************)
(* The invariant                                                           *)
(***************************************************************************)
\* The stored statuses a copy of the table carries were chosen by somebody.
ChosenIn(l) == \A p \in Id : l[p] # Null => l[p].stored \in chosen[p]

\* So was the one a form would send.
ChosenForm(f) ==
  \/ "status" \in f.touched
  \/ f.editing # Null /\ f.status \in chosen[f.editing]

Chosen ==
  /\ ComputedStatusNeverSticks
  /\ ChosenIn(list)
  /\ \A q \in loads : q.list # Null => ChosenIn(q.list)
  /\ dialog # Null => ChosenForm(dialog)
  /\ saving # Null => ChosenForm(saving.form)

\* A copy obeys a filter; it says what is stored.
Obeys(l, f) == f # Null => \A p \in Id : l[p] # Null => l[p].status = f

Fresh(l) ==
  \A p \in Id : l[p] # Null =>
    rows[p] # Null /\ l[p].stored = rows[p].status /\ l[p].due = rows[p].due

\* What the user left alone in a form is what is stored.
FreshForm(f) ==
  (f.editing # Null /\ rows[f.editing] # Null) =>
    /\ "status" \notin f.touched => f.status = rows[f.editing].status
    /\ "due" \notin f.touched => f.due = rows[f.editing].due

\* Without a slip there is a reload, a deletion or an open form, never two.
InOrder ==
  /\ loads = {} => Obeys(list, filter) /\ Fresh(list)
  /\ \A q \in loads : /\ q.filter = filter
                      /\ q.list # Null => Obeys(q.list, filter) /\ Fresh(q.list)
  /\ loads # {} => dialog = Null /\ saving = Null /\ deleting = << >>
  /\ deleting # << >> => /\ dialog = Null /\ saving = Null /\ Len(deleting) = 1
                         /\ \A i \in DOMAIN deleting : deleting[i].filter = filter
  /\ dialog # Null => FreshForm(dialog)
  /\ saving # Null => saving.filter = filter /\ FreshForm(saving.form)

IInv == TypeOK /\ Chosen /\ (slips = 0 => InOrder)

-----------------------------------------------------------------------------
(***************************************************************************)
(* Lemmas                                                                  *)
(***************************************************************************)
\* The service's answer: a list of what is stored, which obeys the filter.
LEMMA ListedFacts ==
  ASSUME TypeOK, NEW f
  PROVE  Listed(f) \in List /\ Obeys(Listed(f), f) /\ Fresh(Listed(f))
<1>1. \A p \in Id : rows[p] # Null => Enriched(rows[p]) \in Item
  BY DEF TypeOK, Enriched, Item, Row, Status
<1>2. Listed(f) \in List
  BY <1>1 DEF Listed, List
<1>3. ASSUME NEW p \in Id, Listed(f)[p] # Null
      PROVE  /\ rows[p] # Null /\ Listed(f)[p].stored = rows[p].status
             /\ Listed(f)[p].due = rows[p].due
             /\ f # Null => Listed(f)[p].status = f
  <2>1. rows[p] # Null /\ f \in {Null, Enriched(rows[p]).status} /\ Listed(f)[p] = Enriched(rows[p])
    BY <1>3 DEF Listed
  <2>2. Enriched(rows[p]).stored = rows[p].status /\ Enriched(rows[p]).due = rows[p].due
    BY DEF Enriched
  <2> QED BY <2>1, <2>2
<1> QED BY <1>2, <1>3 DEF Obeys, Fresh

\* A list that says what is stored carries chosen statuses.
LEMMA FreshChosen ==
  ASSUME ComputedStatusNeverSticks, NEW l, Fresh(l)
  PROVE  ChosenIn(l)
  BY DEF ComputedStatusNeverSticks, Fresh, ChosenIn

\* A reload that is asked for joins the ones under way, unanswered.
LEMMA AskFacts ==
  ASSUME TypeOK, NEW f \in Status \cup {Null}, Ask(f)
  PROVE  /\ loads' \subseteq Load /\ loads' # {}
         /\ \A q \in loads' : q \in loads \/ (q.filter = f /\ q.list = Null)
<1>1. PICK n \in Free : loads' = loads \cup {[slot |-> n, filter |-> f, list |-> Null]}
  BY DEF Ask, AskFor
<1> DEFINE q == [slot |-> n, filter |-> f, list |-> Null]
<1>2. q \in Load /\ q.filter = f /\ q.list = Null
  BY <1>1 DEF Free, Load
<1> HIDE DEF q
<1> QED BY <1>1, <1>2 DEF q, TypeOK

\* A deletion that ends leaves the others under way.
LEMMA TakenFacts ==
  ASSUME deleting \in Seq(Deletion), NEW i \in DOMAIN deleting,
         deleting' = RemoveAt(deleting, i)
  PROVE  /\ deleting[i] \in Deletion
         /\ deleting' \in Seq(Deletion) /\ Len(deleting') = Len(deleting) - 1
<1> DEFINE n == Len(deleting)
           a == SubSeq(deleting, 1, i - 1)
           b == SubSeq(deleting, i + 1, n)
<1>1. n \in Nat /\ i \in 1 .. n /\ \A j \in 1 .. n : deleting[j] \in Deletion
  BY ElementOfSeq
<1>2. a \in Seq(Deletion) /\ Len(a) = i - 1
  BY <1>1, SubSeqProperties
<1>3. b \in Seq(Deletion) /\ Len(b) = n - i
  BY <1>1, SubSeqProperties
<1>4. deleting' = a \o b
  BY DEF RemoveAt
<1> HIDE DEF a, b
<1>5. deleting' \in Seq(Deletion) /\ Len(deleting') = (i - 1) + (n - i)
  BY <1>2, <1>3, <1>4, ConcatProperties
<1> QED BY <1>1, <1>5

\* A user who acts without a slip has nothing under way.
LEMMA UserFacts ==
  ASSUME TypeOK, UserActs
  PROVE  /\ slips' \in 0 .. MaxSlips
         /\ slips' = 0 => slips = 0 /\ loads = {} /\ saving = Null /\ deleting = << >>
  BY BoundsAssumption DEF TypeOK, UserActs, Careful, Quiet

-----------------------------------------------------------------------------
(***************************************************************************)
(* The initial states, and the steps                                       *)
(***************************************************************************)
LEMMA InitSound == Init => IInv
<1> SUFFICES ASSUME Init PROVE IInv
  OBVIOUS
<1>1. rows \in [Id -> Row \cup {Null}] /\ today = 0
  BY DEF Init
<1>2. \A p \in Id : rows[p] # Null => Enriched(rows[p]) \in Item
  BY <1>1 DEF Enriched, Item, Row, Status
<1>3. list \in List
  BY <1>2 DEF Init, Listed, List
<1>4. chosen \in [Id -> SUBSET Status]
  BY <1>1 DEF Init, Row
<1>5. TypeOK
  BY <1>1, <1>3, <1>4, BoundsAssumption, EmptySeq DEF Init, TypeOK, Day
<1>6. ComputedStatusNeverSticks
  BY DEF Init, ComputedStatusNeverSticks
<1>7. Fresh(list) /\ Obeys(list, filter)
  BY <1>5, ListedFacts DEF Init
<1>8. Chosen /\ InOrder
  BY <1>6, <1>7, FreshChosen DEF Init, Chosen, InOrder
<1> QED BY <1>5, <1>8 DEF IInv

\* The day changes, the form changes, it is closed or sent: the table stays.
LEMMA TickKeeps == ASSUME IInv, Tick PROVE IInv'
<1>1. TypeOK'
  BY BoundsAssumption DEF IInv, TypeOK, Tick, page, Day
<1>2. Chosen'
  BY DEF IInv, Chosen, Tick, page, ComputedStatusNeverSticks, ChosenIn, ChosenForm
<1>3. (slips = 0 => InOrder)'
  BY DEF IInv, InOrder, Tick, page, Obeys, Fresh, FreshForm
<1> QED BY <1>1, <1>2, <1>3 DEF IInv

LEMMA CloseKeeps == ASSUME IInv, Close PROVE IInv'
<1>1. TypeOK'
  BY UserFacts DEF IInv, TypeOK, Close
<1>2. Chosen'
  BY DEF IInv, Chosen, Close, ComputedStatusNeverSticks, ChosenIn, ChosenForm
<1>3. (slips = 0 => InOrder)'
  BY UserFacts DEF IInv, InOrder, Close, Obeys, Fresh, FreshForm
<1> QED BY <1>1, <1>2, <1>3 DEF IInv

LEMMA SaveKeeps == ASSUME IInv, Save PROVE IInv'
<1>1. saving' = [form |-> dialog, filter |-> filter] /\ saving'.form = dialog
      /\ saving'.filter = filter
  BY DEF Save
<1>2. TypeOK'
  BY <1>1 DEF IInv, TypeOK, Save
<1>3. Chosen'
  BY <1>1 DEF IInv, Chosen, Save, ComputedStatusNeverSticks, ChosenIn, ChosenForm
<1>4. (slips = 0 => InOrder)'
  BY <1>1 DEF IInv, InOrder, Save, Obeys, Fresh, FreshForm
<1> QED BY <1>2, <1>3, <1>4 DEF IInv

LEMMA ChangeFormKeeps == ASSUME IInv, ChangeForm PROVE IInv'
<1>1. PICK f \in Form : /\ dialog' = f /\ f.editing = dialog.editing
                        /\ \/ "status" \in f.touched /\ f.due = dialog.due
                              /\ f.touched = dialog.touched \cup {"status"}
                           \/ "due" \in f.touched /\ f.status = dialog.status
                              /\ f.touched = dialog.touched \cup {"due"}
  BY DEF IInv, TypeOK, ChangeForm, Form
<1>2. TypeOK'
  BY <1>1 DEF IInv, TypeOK, ChangeForm
<1>3. Chosen'
  BY <1>1 DEF IInv, Chosen, ChangeForm, ComputedStatusNeverSticks, ChosenIn, ChosenForm
<1>4. (slips = 0 => InOrder)'
  BY <1>1 DEF IInv, InOrder, ChangeForm, Obeys, Fresh, FreshForm
<1> QED BY <1>2, <1>3, <1>4 DEF IInv

LEMMA OpenCreateKeeps == ASSUME IInv, OpenCreate PROVE IInv'
<1>1. dialog' \in Form /\ dialog'.editing = Null /\ "status" \in dialog'.touched
  BY DeadlinesAssumption DEF OpenCreate, Form, Status
<1>2. TypeOK'
  BY <1>1, UserFacts DEF IInv, TypeOK, OpenCreate
<1>3. Chosen'
  BY <1>1 DEF IInv, Chosen, OpenCreate, ComputedStatusNeverSticks, ChosenIn, ChosenForm
<1>4. (slips = 0 => InOrder)'
  BY <1>1, UserFacts DEF IInv, InOrder, OpenCreate, Obeys, Fresh, FreshForm
<1> QED BY <1>2, <1>3, <1>4 DEF IInv

LEMMA OpenEditKeeps == ASSUME IInv, OpenEdit PROVE IInv'
<1>1. PICK p \in Id : /\ list[p] # Null
                      /\ dialog' = [editing |-> p, status |-> list[p].stored,
                                    due |-> list[p].due, touched |-> {}]
  BY DEF OpenEdit, FormStatus
<1>2. list[p] \in Item
  BY <1>1 DEF IInv, TypeOK, List
<1>3. dialog' \in Form /\ dialog'.editing = p /\ dialog'.status = list[p].stored
      /\ dialog'.due = list[p].due /\ dialog'.touched = {} /\ p # Null
  BY <1>1, <1>2, NullAssumption DEF Form, Item
<1>4. TypeOK'
  BY <1>3, UserFacts DEF IInv, TypeOK, OpenEdit
<1>5. Chosen'
  BY <1>1, <1>3 DEF IInv, Chosen, OpenEdit, ComputedStatusNeverSticks, ChosenIn, ChosenForm
<1>6. (slips = 0 => InOrder)'
  BY <1>1, <1>3, UserFacts DEF IInv, InOrder, OpenEdit, Obeys, Fresh, FreshForm
<1> QED BY <1>4, <1>5, <1>6 DEF IInv

\* A reload is asked for, answered and shown.
LEMMA ChangeFilterKeeps == ASSUME IInv, ChangeFilter PROVE IInv'
<1>1. PICK f \in Status \cup {Null} : filter' = f /\ Ask(f)
  BY FiltersAssumption DEF ChangeFilter, Status
<1>2. /\ loads' \subseteq Load /\ loads' # {}
      /\ \A q \in loads' : q \in loads \/ (q.filter = f /\ q.list = Null)
  BY <1>1, AskFacts DEF IInv
<1>3. TypeOK'
  BY <1>1, <1>2, UserFacts DEF IInv, TypeOK, ChangeFilter
<1>4. Chosen'
  BY <1>2 DEF IInv, Chosen, ChangeFilter, ComputedStatusNeverSticks, ChosenIn, ChosenForm
<1>5. (slips = 0 => InOrder)'
  BY <1>1, <1>2, UserFacts DEF IInv, InOrder, ChangeFilter, Obeys, Fresh, FreshForm
<1> QED BY <1>3, <1>4, <1>5 DEF IInv

LEMMA ServeKeeps == ASSUME IInv, Serve PROVE IInv'
<1>1. PICK q \in loads :
        loads' = (loads \ {q}) \cup {[q EXCEPT !.list = Listed(q.filter)]}
  BY DEF Serve
<1> DEFINE a == [q EXCEPT !.list = Listed(q.filter)]
<1>2. /\ Listed(q.filter) \in List
      /\ Obeys(Listed(q.filter), q.filter) /\ Fresh(Listed(q.filter))
  BY ListedFacts DEF IInv
<1>3. ChosenIn(Listed(q.filter))
  BY <1>2, FreshChosen DEF IInv, Chosen
<1>4. a \in Load /\ a.filter = q.filter /\ a.list = Listed(q.filter)
  BY <1>2 DEF IInv, TypeOK, Load
<1> HIDE DEF a
<1>5. loads' = (loads \ {q}) \cup {a} /\ loads # {}
  BY <1>1 DEF a
<1>6. TypeOK'
  BY <1>4, <1>5 DEF IInv, TypeOK, Serve
<1>7. Chosen'
  BY <1>3, <1>4, <1>5 DEF IInv, Chosen, Serve, ComputedStatusNeverSticks, ChosenIn, ChosenForm
<1>8. (slips = 0 => InOrder)'
  BY <1>2, <1>4, <1>5 DEF IInv, InOrder, Serve, Obeys, Fresh, FreshForm
<1> QED BY <1>6, <1>7, <1>8 DEF IInv

LEMMA LoadFailsKeeps == ASSUME IInv, LoadFails PROVE IInv'
<1>1. slips' \in 1 .. MaxSlips /\ slips' # 0
  BY BoundsAssumption DEF IInv, TypeOK, LoadFails, Careful
<1>2. loads' \subseteq loads
  BY DEF LoadFails
<1>3. TypeOK'
  BY <1>1, <1>2 DEF IInv, TypeOK, LoadFails
<1>4. Chosen'
  BY <1>2 DEF IInv, Chosen, LoadFails, ComputedStatusNeverSticks, ChosenIn, ChosenForm
<1> QED BY <1>1, <1>3, <1>4 DEF IInv

LEMMA ShowKeeps == ASSUME IInv, Show PROVE IInv'
<1>1. PICK q \in loads : q.list # Null /\ list' = q.list /\ loads' = loads \ {q}
  BY DEF Show
<1>2. q.list \in List
  BY <1>1 DEF IInv, TypeOK, Load
<1>3. TypeOK'
  BY <1>1, <1>2 DEF IInv, TypeOK, Show
<1>4. Chosen'
  BY <1>1 DEF IInv, Chosen, Show, ComputedStatusNeverSticks, ChosenIn, ChosenForm
<1>5. (slips = 0 => InOrder)'
  BY <1>1 DEF IInv, InOrder, Show, Obeys, Fresh, FreshForm
<1> QED BY <1>3, <1>4, <1>5 DEF IInv

-----------------------------------------------------------------------------
(***************************************************************************)
(* The steps that write                                                    *)
(***************************************************************************)
\* A row is written; the history notes the statuses that were chosen.
LEMMA WriteFacts ==
  ASSUME TypeOK, NEW p \in Id, NEW row \in Row, NEW touched, Write(p, row, touched)
  PROVE  /\ rows' \in [Id -> Row \cup {Null}] /\ chosen' \in [Id -> SUBSET Status]
         /\ rows'[p] = row /\ \A o \in Id \ {p} : rows'[o] = rows[o]
         /\ \A o \in Id : chosen[o] \subseteq chosen'[o]
         /\ "status" \in touched => row.status \in chosen'[p]
<1>1. row.status \in Status
  BY DEF Row
<1> QED BY <1>1 DEF TypeOK, Write

\* What is carried along stays chosen, since no status that was chosen is
\* forgotten.
LEMMA ChosenStays ==
  ASSUME IInv, ComputedStatusNeverSticks', list' = list,
         dialog' \in {dialog, Null}, saving' \in {saving, Null},
         \A o \in Id : chosen[o] \subseteq chosen'[o],
         \A q \in loads' : q \in loads \/ q.list = Null
  PROVE  Chosen'
<1>1. ASSUME NEW f \in Form, ChosenForm(f)
      PROVE  "status" \in f.touched \/ (f.editing # Null /\ f.status \in chosen'[f.editing])
  BY <1>1 DEF Form, ChosenForm
<1>2. (dialog # Null => ChosenForm(dialog))'
  BY <1>1 DEF IInv, TypeOK, Chosen, ChosenForm
<1>3. saving # Null => saving.form \in Form
  BY DEF IInv, TypeOK
<1>4. (saving # Null => ChosenForm(saving.form))'
  BY <1>1, <1>3 DEF IInv, Chosen, ChosenForm
<1>5. ChosenIn(list)' /\ \A q \in loads' : q.list # Null => ChosenIn(q.list)'
  BY DEF IInv, Chosen, ChosenIn
<1> QED BY <1>2, <1>4, <1>5 DEF Chosen

\* A save that is answered closes the dialog and asks for a reload; otherwise
\* nothing but the save is over.
LEMMA SucceedsFacts ==
  ASSUME IInv, saving # Null, Succeeds
  PROVE  /\ slips' \in 0 .. MaxSlips
         /\ saving' = Null /\ dialog' \in {dialog, Null}
         /\ loads' \subseteq Load
         /\ \A q \in loads' : q \in loads \/ (q.filter = saving.filter /\ q.list = Null)
         /\ slips' = 0 => slips = 0 /\ dialog' = Null /\ loads' # {} /\ loads = {}
<1>1. TypeOK /\ saving.filter \in Status \cup {Null}
  BY DEF IInv, TypeOK
<1>2. CASE Ask(saving.filter) /\ saving' = Null /\ dialog' = Null /\ Careful(TRUE)
  BY <1>1, <1>2, AskFacts DEF Careful, IInv, InOrder, TypeOK
<1>3. CASE Fails /\ Careful(FALSE)
  BY <1>1, <1>3, BoundsAssumption DEF Fails, Careful, TypeOK
<1> QED BY <1>2, <1>3 DEF Succeeds

LEMMA CreateProjectKeeps == ASSUME IInv, CreateProject PROVE IInv'
<1>1. saving # Null /\ Succeeds
  BY DEF CreateProject
<1>2. PICK p \in Id \ issued : /\ Write(p, Sent(saving.form), saving.form.touched)
                               /\ issued' = issued \cup {p}
  BY DEF CreateProject
<1>3. saving.form \in Form /\ saving.form.editing = Null
  BY <1>1 DEF IInv, TypeOK, CreateProject
<1>4. Sent(saving.form) \in Row /\ "status" \in saving.form.touched
  BY <1>1, <1>3 DEF Sent, Row, Form, IInv, Chosen, ChosenForm
<1>5. /\ rows' \in [Id -> Row \cup {Null}] /\ chosen' \in [Id -> SUBSET Status]
      /\ rows'[p] = Sent(saving.form) /\ \A o \in Id \ {p} : rows'[o] = rows[o]
      /\ \A o \in Id : chosen[o] \subseteq chosen'[o]
      /\ Sent(saving.form).status \in chosen'[p]
  BY <1>2, <1>4, WriteFacts DEF IInv
<1>6. TypeOK'
  BY <1>1, <1>2, <1>5, SucceedsFacts DEF IInv, TypeOK, CreateProject
<1>7. ComputedStatusNeverSticks'
  BY <1>5 DEF IInv, Chosen, ComputedStatusNeverSticks
<1>8. Chosen'
  BY <1>1, <1>5, <1>7, SucceedsFacts, ChosenStays DEF CreateProject
<1>9. (slips = 0 => InOrder)'
  BY <1>1, SucceedsFacts DEF IInv, InOrder, CreateProject
<1> QED BY <1>6, <1>8, <1>9 DEF IInv

LEMMA UpdateProjectKeeps == ASSUME IInv, UpdateProject PROVE IInv'
<1> DEFINE p == saving.form.editing
           row == Updated(rows[p], Sent(saving.form))
<1>1. saving # Null /\ p # Null /\ saving.form \in Form /\ p \in Id
  BY DEF UpdateProject, IInv, TypeOK, Form
<1>2. CASE editor /\ Present(p) /\ Write(p, row, saving.form.touched) /\ Succeeds
  <2>1. rows[p] \in Row
    BY <1>1, <1>2 DEF Present, IInv, TypeOK
  <2>2. row \in Row /\ row.status \in {saving.form.status, rows[p].status}
    BY <1>1, <2>1 DEF Updated, Sent, Row, Form
  <2> HIDE DEF row
  <2>3. /\ rows' \in [Id -> Row \cup {Null}] /\ chosen' \in [Id -> SUBSET Status]
        /\ rows'[p] = row /\ \A o \in Id \ {p} : rows'[o] = rows[o]
        /\ \A o \in Id : chosen[o] \subseteq chosen'[o]
        /\ "status" \in saving.form.touched => row.status \in chosen'[p]
    BY <1>1, <1>2, <2>2, WriteFacts DEF IInv
  <2>4. TypeOK'
    BY <1>1, <1>2, <2>3, SucceedsFacts DEF IInv, TypeOK, UpdateProject, Present
  <2>5. row.status \in chosen'[p]
    BY <1>1, <1>2, <2>2, <2>3 DEF IInv, Chosen, ChosenForm, ComputedStatusNeverSticks, Present
  <2>6. ComputedStatusNeverSticks'
    BY <1>1, <2>3, <2>5 DEF IInv, Chosen, ComputedStatusNeverSticks
  <2>7. Chosen'
    BY <1>1, <1>2, <2>3, <2>6, SucceedsFacts, ChosenStays DEF UpdateProject
  <2>8. (slips = 0 => InOrder)'
    BY <1>1, <1>2, SucceedsFacts DEF IInv, InOrder, UpdateProject
  <2> QED BY <2>4, <2>7, <2>8 DEF IInv
<1>3. CASE Fails /\ UNCHANGED <<rows, chosen, slips>>
  <2>1. TypeOK'
    BY <1>3 DEF IInv, TypeOK, UpdateProject, Fails
  <2>2. Chosen'
    BY <1>3 DEF IInv, Chosen, UpdateProject, Fails, ComputedStatusNeverSticks, ChosenIn, ChosenForm
  <2>3. (slips = 0 => InOrder)'
    BY <1>3 DEF IInv, InOrder, UpdateProject, Fails, Obeys, Fresh, FreshForm
  <2> QED BY <2>1, <2>2, <2>3 DEF IInv
<1> QED BY <1>2, <1>3 DEF UpdateProject

LEMMA WriteLostKeeps == ASSUME IInv, WriteLost PROVE IInv'
<1>1. slips' \in 1 .. MaxSlips /\ slips' # 0
  BY BoundsAssumption DEF IInv, TypeOK, WriteLost, Careful
<1>2. TypeOK'
  BY <1>1 DEF IInv, TypeOK, WriteLost, Fails
<1>3. Chosen'
  BY DEF IInv, Chosen, WriteLost, Fails, ComputedStatusNeverSticks, ChosenIn, ChosenForm
<1> QED BY <1>1, <1>2, <1>3 DEF IInv

LEMMA DeleteProjectKeeps == ASSUME IInv, DeleteProject PROVE IInv'
<1>1. PICK p \in Id : deleting' = Append(deleting, [id |-> p, filter |-> filter])
  BY DEF DeleteProject
<1> DEFINE r == [id |-> p, filter |-> filter]
<1>2. r \in Deletion /\ r.filter = filter /\ deleting \in Seq(Deletion)
  BY DEF Deletion, IInv, TypeOK
<1>3. deleting' = Append(deleting, r)
  BY <1>1
<1> HIDE DEF r
<1>4. /\ deleting' \in Seq(Deletion) /\ Len(deleting') = Len(deleting) + 1
      /\ deleting'[Len(deleting) + 1] = r
  BY <1>2, <1>3, AppendProperties
<1>5. TypeOK'
  BY <1>4, UserFacts DEF IInv, TypeOK, DeleteProject
<1>6. Chosen'
  BY DEF IInv, Chosen, DeleteProject, ComputedStatusNeverSticks, ChosenIn, ChosenForm
<1>7. (slips = 0 => InOrder)'
  <2> SUFFICES ASSUME slips' = 0 PROVE InOrder'
    OBVIOUS
  <2>1. /\ slips = 0 /\ loads = {} /\ saving = Null /\ dialog = Null /\ Len(deleting) = 0
        /\ InOrder
    BY UserFacts DEF IInv, DeleteProject
  <2>2. Len(deleting') = 1 /\ DOMAIN deleting' = 1 .. 1 /\ deleting'[1].filter = filter
    BY <1>2, <1>4, <2>1, LenProperties
  <2>3. /\ loads' = {} /\ saving' = Null /\ dialog' = Null /\ filter' = filter
        /\ list' = list /\ rows' = rows
    BY <2>1 DEF DeleteProject
  <2> QED BY <2>1, <2>2, <2>3 DEF InOrder, Obeys, Fresh
<1> QED BY <1>5, <1>6, <1>7 DEF IInv

LEMMA DeletedKeeps == ASSUME IInv, Deleted PROVE IInv'
<1>1. PICK i \in DOMAIN deleting :
        /\ rows' = [rows EXCEPT ![deleting[i].id] = Null]
        /\ deleting' = RemoveAt(deleting, i)
        /\ \/ Ask(deleting[i].filter) /\ Careful(TRUE)
           \/ loads' = loads /\ Careful(FALSE)
        /\ UNCHANGED <<today, issued, chosen, editor, list, filter, dialog, saving>>
  BY DEF Deleted
<1>2. /\ deleting[i] \in Deletion
      /\ deleting' \in Seq(Deletion) /\ Len(deleting') = Len(deleting) - 1
  BY <1>1, TakenFacts DEF IInv, TypeOK
<1>3. PICK p \in Id, f \in Status \cup {Null} : deleting[i].id = p /\ deleting[i].filter = f
  BY <1>2 DEF Deletion
<1>4. /\ loads' \subseteq Load
      /\ \A q \in loads' : q \in loads \/ (q.filter = f /\ q.list = Null)
      /\ slips' \in 0 .. MaxSlips
      /\ slips' = 0 => slips = 0 /\ loads' # {}
  <2>1. TypeOK
    BY DEF IInv
  <2>2. CASE Ask(f) /\ Careful(TRUE)
    BY <2>1, <2>2, AskFacts, BoundsAssumption DEF Careful, TypeOK
  <2>3. CASE loads' = loads /\ Careful(FALSE)
    BY <2>1, <2>3, BoundsAssumption DEF Careful, TypeOK
  <2> QED BY <1>1, <1>3, <2>2, <2>3
<1>5. /\ rows' \in [Id -> Row \cup {Null}]
      /\ \A o \in Id : rows'[o] # Null => rows'[o] = rows[o]
  BY <1>1, <1>3 DEF IInv, TypeOK
<1>6. TypeOK'
  BY <1>1, <1>2, <1>4, <1>5 DEF IInv, TypeOK
<1>7. ComputedStatusNeverSticks'
  BY <1>1, <1>5 DEF IInv, Chosen, ComputedStatusNeverSticks
<1>8. Chosen'
  BY <1>1, <1>4, <1>7, ChosenStays
<1>9. (slips = 0 => InOrder)'
  <2> SUFFICES ASSUME slips' = 0 PROVE InOrder'
    OBVIOUS
  <2>1. InOrder /\ deleting # << >>
    BY <1>1, <1>4 DEF IInv
  <2>2. /\ dialog' = Null /\ saving' = Null /\ Len(deleting) = 1 /\ f = filter
        /\ loads = {} /\ filter' = filter
    BY <1>1, <1>3, <2>1 DEF InOrder
  <2>3. deleting' = << >>
    BY <1>2, <2>2, EmptySeq
  <2>4. loads' # {} /\ \A q \in loads' : q.filter = filter' /\ q.list = Null
    BY <1>4, <2>2
  <2> QED BY <2>2, <2>3, <2>4 DEF InOrder
<1> QED BY <1>6, <1>8, <1>9 DEF IInv

LEMMA NotDeletedKeeps == ASSUME IInv, NotDeleted PROVE IInv'
<1>1. PICK i \in DOMAIN deleting :
        /\ Careful(~Present(deleting[i].id))
        /\ deleting' = RemoveAt(deleting, i)
        /\ UNCHANGED <<today, rows, issued, chosen, editor, list, filter, dialog, saving, loads>>
  BY DEF NotDeleted
<1>2. deleting' \in Seq(Deletion) /\ Len(deleting') = Len(deleting) - 1
  BY <1>1, TakenFacts DEF IInv, TypeOK
<1>3. slips' \in 0 .. MaxSlips /\ (slips' = 0 => slips = 0)
  BY <1>1, BoundsAssumption DEF IInv, TypeOK, Careful
<1>4. TypeOK'
  BY <1>1, <1>2, <1>3 DEF IInv, TypeOK
<1>5. Chosen'
  BY <1>1 DEF IInv, Chosen, ComputedStatusNeverSticks, ChosenIn, ChosenForm
<1>6. (slips = 0 => InOrder)'
  <2> SUFFICES ASSUME slips' = 0 PROVE InOrder'
    OBVIOUS
  <2>1. InOrder /\ deleting # << >>
    BY <1>1, <1>3 DEF IInv
  <2>2. dialog = Null /\ saving = Null /\ Len(deleting) = 1
    BY <2>1 DEF InOrder
  <2>3. deleting' = << >>
    BY <1>2, <2>2, EmptySeq
  <2> QED BY <1>1, <2>1, <2>2, <2>3 DEF InOrder, Obeys, Fresh
<1> QED BY <1>4, <1>5, <1>6 DEF IInv

LEMMA ElsewhereKeeps == ASSUME IInv, Elsewhere PROVE IInv'
<1>1. slips' \in 1 .. MaxSlips /\ slips' # 0
  BY BoundsAssumption DEF IInv, TypeOK, Elsewhere, Careful
<1>2. PICK p \in Id :
        /\ rows[p] # Null
        /\ \/ rows' = [rows EXCEPT ![p] = Null] /\ chosen' = chosen
           \/ \E s \in Status, d \in Deadlines :
                Write(p, [status |-> s, due |-> d], {"status"})
           \/ Write(p, Updated(rows[p], [status |-> Null, due |-> Null]), {})
  BY DEF Elsewhere
<1>3. rows[p] \in Row
  BY <1>2 DEF IInv, TypeOK
<1>4. /\ rows' \in [Id -> Row \cup {Null}] /\ chosen' \in [Id -> SUBSET Status]
      /\ \A o \in Id : chosen[o] \subseteq chosen'[o]
      /\ \A o \in Id \ {p} : rows'[o] = rows[o]
      /\ rows'[p] # Null => rows'[p].status \in chosen'[p]
  <2>1. CASE rows' = [rows EXCEPT ![p] = Null] /\ chosen' = chosen
    BY <2>1 DEF IInv, TypeOK
  <2>2. ASSUME NEW s \in Status, NEW d \in Deadlines,
               Write(p, [status |-> s, due |-> d], {"status"})
        PROVE  /\ rows' \in [Id -> Row \cup {Null}] /\ chosen' \in [Id -> SUBSET Status]
               /\ \A o \in Id : chosen[o] \subseteq chosen'[o]
               /\ \A o \in Id \ {p} : rows'[o] = rows[o]
               /\ rows'[p] # Null => rows'[p].status \in chosen'[p]
    <3>1. [status |-> s, due |-> d] \in Row
      BY DEF Row
    <3> QED BY <2>2, <3>1, WriteFacts DEF IInv
  <2>3. CASE Write(p, Updated(rows[p], [status |-> Null, due |-> Null]), {})
    <3>1. /\ Updated(rows[p], [status |-> Null, due |-> Null]) \in Row
          /\ Updated(rows[p], [status |-> Null, due |-> Null]).status = rows[p].status
      BY <1>3, DeadlinesAssumption DEF Updated, Row
    <3> QED BY <1>2, <2>3, <3>1, WriteFacts DEF IInv, Chosen, ComputedStatusNeverSticks
  <2> QED BY <1>2, <2>1, <2>2, <2>3
<1>5. TypeOK'
  BY <1>1, <1>2, <1>4 DEF IInv, TypeOK, Elsewhere
<1>6. ComputedStatusNeverSticks'
  BY <1>4 DEF IInv, Chosen, ComputedStatusNeverSticks
<1>7. Chosen'
  BY <1>4, <1>6, ChosenStays DEF Elsewhere
<1> QED BY <1>1, <1>5, <1>7 DEF IInv

LEMMA StepKeeps == IInv /\ [Next]_vars => IInv'
<1> SUFFICES ASSUME IInv, [Next]_vars PROVE IInv'
  OBVIOUS
<1>1. CASE UNCHANGED vars
  <2>1. TypeOK'
    BY <1>1 DEF vars, page, IInv, TypeOK
  <2>2. Chosen'
    BY <1>1 DEF vars, page, IInv, Chosen, ComputedStatusNeverSticks, ChosenIn, ChosenForm
  <2>3. (slips = 0 => InOrder)'
    BY <1>1 DEF vars, page, IInv, InOrder, Obeys, Fresh, FreshForm
  <2> QED BY <2>1, <2>2, <2>3 DEF IInv
<1>2. CASE Tick \/ ChangeFilter \/ Serve \/ LoadFails \/ Show
  BY <1>2, TickKeeps, ChangeFilterKeeps, ServeKeeps, LoadFailsKeeps, ShowKeeps
<1>3. CASE OpenCreate \/ OpenEdit \/ ChangeForm \/ Close \/ Save
  BY <1>3, OpenCreateKeeps, OpenEditKeeps, ChangeFormKeeps, CloseKeeps, SaveKeeps
<1>4. CASE CreateProject \/ UpdateProject \/ WriteLost \/ Elsewhere
  BY <1>4, CreateProjectKeeps, UpdateProjectKeeps, WriteLostKeeps, ElsewhereKeeps
<1>5. CASE DeleteProject \/ Deleted \/ NotDeleted
  BY <1>5, DeleteProjectKeeps, DeletedKeeps, NotDeletedKeeps
<1> QED BY <1>1, <1>2, <1>3, <1>4, <1>5 DEF Next

LEMMA Invariance == Spec => []IInv
  BY InitSound, StepKeeps, PTL DEF Spec

-----------------------------------------------------------------------------
(***************************************************************************)
(* The theorems                                                            *)
(***************************************************************************)
\* Every reachable state of the table, the page and the requests under way is
\* well typed.
THEOREM TypeCorrect == Spec => []TypeOK
<1>1. IInv => TypeOK
  BY DEF IInv
<1> QED BY <1>1, Invariance, PTL

\* The "at_risk" that enrich_project computes (postgres_service.py:68-78) is
\* never stored by a save that did not choose it (Projects.jsx:52), whoever
\* else writes meanwhile and however old the form is.
THEOREM NothingSticks == Spec => []ComputedStatusNeverSticks
<1>1. IInv => ComputedStatusNeverSticks
  BY DEF IInv, Chosen
<1> QED BY <1>1, Invariance, PTL

\* The page of a user who waits, and none of whose requests or answers was
\* lost, obeys its filter when nothing is under way (Projects.jsx:44-49).  A
\* load that fails leaves the old list under the new filter (46): it counts as
\* a slip, and the theorem does not speak of what follows.
THEOREM FilterRight == Spec => []FilterObeyed
<1>1. IInv => FilterObeyed
  BY DEF IInv, InOrder, Obeys, FilterObeyed
<1> QED BY <1>1, Invariance, PTL

\* A deleted project is not brought back (postgres_service.py:119: the UPDATE
\* finds no row; gen_random_uuid hands no id out twice).
THEOREM NoResurrection == Spec => DeletedStaysDeleted
<1>1. ASSUME IInv, Next, NEW p \in issued, rows[p] = Null
      PROVE  rows'[p] = Null
  <2>1. p \in Id /\ rows \in [Id -> Row \cup {Null}]
    BY <1>1 DEF IInv, TypeOK
  <2>2. CASE CreateProject
    <3>1. PICK o \in Id \ issued : rows' = [rows EXCEPT ![o] = Sent(saving.form)]
      BY <2>2 DEF CreateProject, Write
    <3> QED BY <1>1, <2>1, <3>1
  <2>3. CASE UpdateProject
    BY <1>1, <2>1, <2>3 DEF UpdateProject, Write, Present
  <2>4. CASE Deleted
    BY <1>1, <2>1, <2>4 DEF Deleted
  <2>5. CASE Elsewhere
    BY <1>1, <2>1, <2>5 DEF Elsewhere, Write
  <2> QED BY <1>1, <2>2, <2>3, <2>4, <2>5
       DEF Next, Tick, ChangeFilter, Serve, LoadFails, Show, OpenCreate, OpenEdit, ChangeForm,
           Close, Save, WriteLost, DeleteProject, NotDeleted
<1>2. IInv /\ [Next]_vars => [\A p \in issued : rows[p] = Null => rows'[p] = Null]_vars
  BY <1>1
<1> QED BY <1>2, Invariance, PTL DEF Spec, DeletedStaysDeleted

\* Until something is lost, a load included (Projects.jsx:46), somebody else
\* writes or the user does not wait: what the user did not touch in the form is
\* not changed by the save,
\* although the request carries the whole form and update_project erases an
\* end date that it is not sent (postgres_service.py:108-119).
THEOREM OnlyTheTouched == Spec => UntouchedSurvives
<1>1. ASSUME IInv, Next, slips' = 0, NEW p \in Id, NEW field \in {"status", "due"},
             rows[p] # Null, rows'[p] # Null, rows'[p][field] # rows[p][field]
      PROVE  saving # Null /\ saving.form.editing = p /\ field \in saving.form.touched
  <2>1. rows \in [Id -> Row \cup {Null}] /\ rows[p] \in Row /\ p \in issued
    BY <1>1 DEF IInv, TypeOK
  <2>2. ~Elsewhere
    BY <1>1 DEF IInv, TypeOK, Elsewhere, Careful
  <2>3. ~CreateProject /\ ~Deleted
    BY <1>1, <2>1 DEF CreateProject, Deleted, Write
  <2>4. UpdateProject
    BY <1>1, <2>2, <2>3
       DEF Next, Tick, ChangeFilter, Serve, LoadFails, Show, OpenCreate, OpenEdit, ChangeForm,
           Close, Save, WriteLost, DeleteProject, NotDeleted
  <2> DEFINE o == saving.form.editing
  <2>5. /\ saving # Null /\ o # Null /\ saving.form \in Form /\ o \in Id
        /\ Write(o, Updated(rows[o], Sent(saving.form)), saving.form.touched) /\ Succeeds
    BY <1>1, <2>4 DEF UpdateProject, IInv, TypeOK, Form
  <2>6. o = p /\ rows'[p] = Updated(rows[p], Sent(saving.form))
    BY <1>1, <2>1, <2>5 DEF Write
  <2>7. slips = 0 /\ FreshForm(saving.form)
    BY <1>1, <2>5, SucceedsFacts DEF IInv, InOrder
  <2>8. /\ "status" \notin saving.form.touched => saving.form.status = rows[p].status
        /\ "due" \notin saving.form.touched => saving.form.due = rows[p].due
    BY <1>1, <2>5, <2>6, <2>7 DEF FreshForm
  <2>9. CASE field = "status"
    BY <1>1, <2>1, <2>5, <2>6, <2>8, <2>9 DEF Updated, Sent, Row
  <2>10. CASE field = "due"
    BY <1>1, <2>1, <2>5, <2>6, <2>8, <2>10 DEF Updated, Sent, Row
  <2> QED BY <2>9, <2>10
<1>2. IInv /\ [Next]_vars =>
        [slips' = 0 =>
           \A p \in Id, field \in {"status", "due"} :
             (rows[p] # Null /\ rows'[p] # Null /\ rows'[p][field] # rows[p][field]) =>
               /\ saving # Null
               /\ saving.form.editing = p
               /\ field \in saving.form.touched]_vars
  BY <1>1
<1> QED BY <1>2, Invariance, PTL DEF Spec, UntouchedSurvives
=============================================================================
