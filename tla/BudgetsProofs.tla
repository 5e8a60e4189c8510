---------------------------- MODULE BudgetsProofs ----------------------------
(***************************************************************************)
(* Proofs about Budgets, for any projects, names, amounts and entries, any *)
(* number of requests under way and any number of slips.                   *)
(***************************************************************************)
EXTENDS Budgets, FiniteSetTheorems, SequenceTheorems, WellFoundedInduction,
        TLAPS

-----------------------------------------------------------------------------
(***************************************************************************)
(* The invariant                                                           *)
(***************************************************************************)
Contents == [projects : [Project -> Budgeted \cup {Null}],
             rows     : [Id -> Entry \cup {Null, Gone}]]
Asking == [filter : Project \cup {Null}, seen : SUBSET Contents, current : BOOLEAN]

Saving == [entry : Entry, filter : Project \cup {Null}, done : BOOLEAN]

\* The page and its requests.
Typed ==
  /\ projects \in [Project -> Budgeted \cup {Null}]
  /\ rows \in [Id -> Entry \cup {Null, Gone}]
  /\ (shown # Null \/ form # Null) =>
       /\ shown.projects \in [Project -> Budgeted \cup {Null}]
       /\ shown.entries \in [Id -> Entry \cup {Null}]
  /\ filter \in Project \cup {Null} /\ form \in Project \cup {Null}
  /\ saving # Null => saving \in Saving
  /\ removing \in Seq(Request)
  /\ loads \in Seq(Asking)
  /\ fresh \in BOOLEAN
  /\ slips \in 0 .. MaxSlips

Within == UnderWay <= MaxRequests

\* Nothing of the page is left behind the dashboard, which shows what may have
\* arrived.
Away ==
  board # Null =>
    /\ shown = Null /\ form = Null /\ saving = Null
    /\ removing = << >> /\ loads = << >> /\ ~fresh
    /\ board = [seen |-> board.seen, answers |-> board.answers, failed |-> board.failed]
    /\ board.failed \subseteq Part
    /\ board.answers # Null => board.answers \in Answers(board.seen, Null)

\* The load asked for last has seen nothing but what is stored, unless a write of
\* the page waits for its answer or something was written behind the page's back.
LastSees ==
  loads # << >> /\ loads[Len(loads)].current /\ ~Unanswered =>
    loads[Len(loads)].seen = {Tables}

\* What the page shows when it is fresh and nothing is to come.
Told == fresh /\ loads = << >> /\ ~Unanswered => shown \in Answers({Tables}, filter)

IInv == Typed /\ Within /\ Away /\ LastSees /\ Told

-----------------------------------------------------------------------------
(***************************************************************************)
(* Lemmas                                                                  *)
(***************************************************************************)
LEMMA AnswersTyped ==
  ASSUME NEW seen \in SUBSET Contents, NEW f \in Project \cup {Null},
         NEW a \in Answers(seen, f)
  PROVE  /\ a.projects \in [Project -> Budgeted \cup {Null}]
         /\ a.entries \in [Id -> Entry \cup {Null}]
<1>1. /\ a.projects \in {t.projects : t \in seen}
      /\ a.entries \in {Entries(t.rows, f) : t \in seen}
  BY DEF Answers
<1>2. PICK t \in seen : a.entries = Entries(t.rows, f)
  BY <1>1
<1>3. t.rows \in [Id -> Entry \cup {Null, Gone}]
  BY DEF Contents
<1>4. Entries(t.rows, f) \in [Id -> Entry \cup {Null}]
  BY <1>3 DEF Entries, EntriesOf
<1> QED BY <1>1, <1>2, <1>4 DEF Contents

\* The more the tables have held, the more may arrive.
LEMMA AnswersGrow ==
  ASSUME NEW seen, NEW more, seen \subseteq more, NEW f
  PROVE  Answers(seen, f) \subseteq Answers(more, f)
<1>1. /\ {t.projects : t \in seen} \subseteq {t.projects : t \in more}
      /\ {Entries(t.rows, f) : t \in seen} \subseteq {Entries(t.rows, f) : t \in more}
      /\ {Summary(t.rows, f) : t \in seen} \subseteq {Summary(t.rows, f) : t \in more}
  OBVIOUS
<1> QED BY <1>1 DEF Answers

LEMMA TablesTyped == Typed => Tables \in Contents
  BY DEF Typed, Tables, Contents

LEMMA FunctionIsSeq ==
  ASSUME NEW S, NEW n \in Nat, NEW f \in [1 .. n -> S]
  PROVE  f \in Seq(S) /\ Len(f) = n
<1>1. f \in Seq(S)
  BY SeqDef
<1>2. DOMAIN f = 1 .. Len(f) /\ Len(f) \in Nat /\ DOMAIN f = 1 .. n
  BY <1>1, LenProperties
<1>3. Len(f) = n
  BY <1>2
<1> QED BY <1>1, <1>3

LEMMA ReplacedSeq ==
  ASSUME NEW S, NEW q \in Seq(S), NEW i \in DOMAIN q, NEW x \in S,
         NEW r, r = [q EXCEPT ![i] = x]
  PROVE  r \in Seq(S) /\ Len(r) = Len(q) /\ i \in DOMAIN r /\ r[i] = x
<1>1. DOMAIN q = 1 .. Len(q) /\ Len(q) \in Nat /\ \A j \in 1 .. Len(q) : q[j] \in S
  OBVIOUS
<1>2. r \in [1 .. Len(q) -> S] /\ DOMAIN r = DOMAIN q /\ r[i] = x
  BY <1>1
<1> QED BY <1>1, <1>2, FunctionIsSeq

LEMMA SeeingAsking ==
  ASSUME NEW load \in Asking, Tables' \in Contents
  PROVE  Seeing(load) \in Asking
<1>1. load.seen \cup {Tables'} \in SUBSET Contents
  BY DEF Asking
<1>2. Seeing(load) = [filter |-> load.filter, seen |-> load.seen \cup {Tables'},
                      current |-> load.current]
  BY DEF Seeing, Asking
<1> QED BY <1>1, <1>2 DEF Asking

LEMMA AskingChanges ==
  ASSUME NEW load \in Asking, NEW current \in BOOLEAN
  PROVE  /\ [load EXCEPT !.current = current] \in Asking
         /\ [load EXCEPT !.current = current].current = current
         /\ [load EXCEPT !.current = current].seen = load.seen
  BY DEF Asking

\* A load that ends leaves the others, and makes those before it out of date.
LEMMA EndedFacts ==
  ASSUME Typed, NEW i \in DOMAIN loads, Ended(i)
  PROVE  /\ loads' \in Seq(Asking) /\ Len(loads') = Len(loads) - 1
         /\ loads' # << >> /\ loads'[Len(loads')].current =>
              /\ i # Len(loads) /\ loads[Len(loads)].current
              /\ loads'[Len(loads')].seen = loads[Len(loads)].seen
<1> DEFINE n == Len(loads)
           aged == [j \in DOMAIN loads |-> [loads[j] EXCEPT !.current = @ /\ j >= i]]
<1>1. n \in Nat /\ DOMAIN loads = 1 .. n /\ i \in 1 .. n /\ \A j \in 1 .. n : loads[j] \in Asking
  BY DEF Typed
<1>2. ASSUME NEW j \in 1 .. n
      PROVE  /\ aged[j] \in Asking /\ aged[j].seen = loads[j].seen
             /\ aged[j].current => loads[j].current /\ j >= i
  BY <1>1 DEF Asking
<1>3. aged \in Seq(Asking) /\ Len(aged) = n /\ DOMAIN aged = 1 .. n
  <2>1. aged = [j \in 1 .. n |-> aged[j]]
    BY <1>1
  <2> HIDE DEF aged
  <2>2. aged \in [1 .. n -> Asking]
    BY <1>2, <2>1
  <2> QED BY <1>1, <2>2, FunctionIsSeq
<1>4. loads' = SubSeq(aged, 1, i - 1) \o SubSeq(aged, i + 1, n)
  BY <1>3 DEF Ended, RemoveAt
<1> HIDE DEF aged
<1> DEFINE a == SubSeq(aged, 1, i - 1)
           b == SubSeq(aged, i + 1, n)
<1>5. a \in Seq(Asking) /\ Len(a) = i - 1 /\ \A j \in 1 .. i - 1 : a[j] = aged[j]
  BY <1>1, <1>2, <1>3
<1>6. b \in Seq(Asking) /\ Len(b) = n - i /\ \A j \in 1 .. n - i : b[j] = aged[j + i]
  BY <1>1, <1>2, <1>3
<1>7. loads' = a \o b
  BY <1>4
<1> HIDE DEF a, b
<1>8. /\ loads' \in Seq(Asking) /\ Len(loads') = n - 1
      /\ \A j \in 1 .. n - 1 : loads'[j] = IF j <= i - 1 THEN a[j] ELSE b[j - (i - 1)]
  <2>1. /\ a \o b \in Seq(Asking) /\ Len(a \o b) = Len(a) + Len(b)
        /\ \A j \in 1 .. Len(a) + Len(b) :
             (a \o b)[j] = IF j <= Len(a) THEN a[j] ELSE b[j - Len(a)]
    BY <1>5, <1>6, ConcatProperties
  <2>2. Len(a) = i - 1 /\ Len(a) + Len(b) = n - 1
    BY <1>1, <1>5, <1>6
  <2> QED BY <1>7, <2>1, <2>2
<1>9. ASSUME loads' # << >>, loads'[n - 1].current
      PROVE  i # n /\ loads[n].current /\ loads'[n - 1].seen = loads[n].seen
  <2>1. n - 1 \in 1 .. n /\ n - 1 \in 1 .. n - 1
    BY <1>1, <1>8, <1>9, EmptySeq
  <2>2. i # n
    <3>1. SUFFICES ASSUME i = n PROVE FALSE
      OBVIOUS
    <3>2. loads'[n - 1] = aged[n - 1]
      BY <1>1, <1>5, <1>8, <2>1, <3>1
    <3>3. aged[n - 1].current => n - 1 >= i
      BY <1>2, <2>1
    <3> QED BY <1>1, <1>9, <3>1, <3>2, <3>3
  <2>3. loads'[n - 1] = aged[n]
    BY <1>1, <1>6, <1>8, <2>1, <2>2
  <2>4. n \in 1 .. n
    BY <1>1, <2>1
  <2> QED BY <1>2, <1>9, <2>2, <2>3, <2>4
<1> QED BY <1>8, <1>9

\* What was asked for last has seen the tables as they are.
LEMMA LoadFacts ==
  ASSUME Typed, Tables' \in Contents, NEW f \in Project \cup {Null}, Load(f)
  PROVE  /\ loads' \in Seq(Asking) /\ Len(loads') = Len(loads) + 1 /\ loads' # << >>
         /\ loads'[Len(loads')].seen = {Tables'}
<1>1. LoadsSeeing \in Seq(Asking) /\ Len(LoadsSeeing) = Len(loads)
  <2>1. loads \in Seq(Asking) /\ DOMAIN loads = 1 .. Len(loads) /\ Len(loads) \in Nat
    BY DEF Typed
  <2>2. \A i \in 1 .. Len(loads) : Seeing(loads[i]) \in Asking
    BY <2>1, ElementOfSeq, SeeingAsking
  <2>3. LoadsSeeing \in [1 .. Len(loads) -> Asking]
    BY <2>1, <2>2 DEF LoadsSeeing
  <2> QED BY <2>1, <2>3, FunctionIsSeq
<1>2. Asked(f, Tables') \in Asking /\ Asked(f, Tables').seen = {Tables'}
  BY DEF Asked, Asking
<1>3. loads' = Append(LoadsSeeing, Asked(f, Tables'))
  BY DEF Load
<1> QED BY <1>1, <1>2, <1>3, AppendProperties

LEMMA BehindFacts ==
  ASSUME Typed, Tables' \in Contents, BehindThePage
  PROVE  /\ loads' \in Seq(Asking) /\ Len(loads') = Len(loads) /\ ~fresh' /\ fresh' \in BOOLEAN
         /\ loads' # << >> => ~loads'[Len(loads')].current
<1> DEFINE left(i) == [Seeing(loads[i]) EXCEPT !.current = FALSE]
<1>1. loads \in Seq(Asking) /\ DOMAIN loads = 1 .. Len(loads) /\ Len(loads) \in Nat
  BY DEF Typed
<1>2. \A i \in 1 .. Len(loads) : Seeing(loads[i]) \in Asking
  BY <1>1, ElementOfSeq, SeeingAsking
<1>3. \A i \in 1 .. Len(loads) : left(i) \in Asking /\ ~left(i).current
  BY <1>2, AskingChanges
<1>4. loads' = [i \in DOMAIN loads |-> left(i)] /\ fresh' = FALSE
  BY DEF BehindThePage
<1> HIDE DEF left
<1>5. loads' \in [1 .. Len(loads) -> Asking]
  BY <1>1, <1>3, <1>4
<1>6. loads' \in Seq(Asking) /\ Len(loads') = Len(loads)
  BY <1>1, <1>5, FunctionIsSeq
<1>7. loads' # << >> => Len(loads') \in 1 .. Len(loads)
  BY <1>1, <1>6, EmptySeq
<1> QED BY <1>1, <1>3, <1>4, <1>6, <1>7

\* A write that waits for its answer is seen by all loads under way.
LEMMA UnseenFacts ==
  ASSUME Typed, Tables' \in Contents, Unseen
  PROVE  loads' \in Seq(Asking) /\ Len(loads') = Len(loads)
<1>1. loads \in Seq(Asking) /\ DOMAIN loads = 1 .. Len(loads) /\ Len(loads) \in Nat
  BY DEF Typed
<1>2. \A i \in 1 .. Len(loads) : Seeing(loads[i]) \in Asking
  BY <1>1, ElementOfSeq, SeeingAsking
<1>3. loads' \in [1 .. Len(loads) -> Asking]
  BY <1>1, <1>2 DEF Unseen, LoadsSeeing
<1> QED BY <1>1, <1>3, FunctionIsSeq

\* A deletion that ends is one request less, and leaves the others as they are.
LEMMA RemovingEnds ==
  ASSUME Typed, NEW i \in DOMAIN removing, removing' = RemoveAt(removing, i)
  PROVE  /\ removing[i] \in Request
         /\ removing' \in Seq(Request) /\ Len(removing') = Len(removing) - 1
         /\ \A j \in DOMAIN removing : j # i =>
              \E k \in DOMAIN removing' : removing'[k] = removing[j]
<1> DEFINE n == Len(removing)
           a == SubSeq(removing, 1, i - 1)
           b == SubSeq(removing, i + 1, n)
<1>1. /\ removing \in Seq(Request) /\ n \in Nat /\ i \in 1 .. n /\ DOMAIN removing = 1 .. n
      /\ \A j \in 1 .. n : removing[j] \in Request
  BY ElementOfSeq DEF Typed
<1>2. a \in Seq(Request) /\ Len(a) = i - 1 /\ \A j \in 1 .. i - 1 : a[j] = removing[j]
  BY <1>1, SubSeqProperties
<1>3. b \in Seq(Request) /\ Len(b) = n - i /\ \A j \in 1 .. n - i : b[j] = removing[j + i]
  BY <1>1
<1>4. removing' = a \o b
  BY DEF RemoveAt
<1> HIDE DEF a, b
<1>5. /\ removing' \in Seq(Request) /\ Len(removing') = n - 1
      /\ \A j \in 1 .. n - 1 : removing'[j] = IF j <= i - 1 THEN a[j] ELSE b[j - (i - 1)]
  <2>1. /\ a \o b \in Seq(Request) /\ Len(a \o b) = Len(a) + Len(b)
        /\ \A j \in 1 .. Len(a) + Len(b) :
             (a \o b)[j] = IF j <= Len(a) THEN a[j] ELSE b[j - Len(a)]
    BY <1>2, <1>3, ConcatProperties
  <2>2. Len(a) = i - 1 /\ Len(a) + Len(b) = n - 1
    BY <1>1, <1>2, <1>3
  <2> QED BY <1>4, <2>1, <2>2
<1>6. ASSUME NEW j \in 1 .. n, j # i
      PROVE  \E k \in DOMAIN removing' : removing'[k] = removing[j]
  <2>0. DOMAIN removing' = 1 .. n - 1
    BY <1>5
  <2>1. CASE j < i
    <3>1. j \in 1 .. n - 1 /\ j \in 1 .. i - 1 /\ j <= i - 1
      BY <1>1, <2>1
    <3>2. removing'[j] = removing[j]
      BY <1>2, <1>5, <3>1
    <3> QED BY <2>0, <3>1, <3>2
  <2>2. CASE j > i
    <3> DEFINE k == j - 1
    <3>1. k \in 1 .. n - 1 /\ ~(k <= i - 1) /\ k - (i - 1) = j - i /\ j - i \in 1 .. n - i
      BY <1>1, <2>2
    <3>2. b[j - i] = removing[(j - i) + i] /\ (j - i) + i = j
      BY <1>1, <1>3, <3>1
    <3>3. removing'[k] = removing[j]
      BY <1>5, <3>1, <3>2
    <3> HIDE DEF k
    <3> QED BY <2>0, <3>1, <3>3
  <2> QED BY <1>1, <1>6, <2>1, <2>2
<1> QED BY <1>1, <1>5, <1>6

\* The writes keep the tables' types.
LEMMA CreateEntryTyped ==
  ASSUME Typed, NEW entry \in Entry, CreateEntry(entry)
  PROVE  Tables' \in Contents
  BY DEF Typed, CreateEntry, Tables, Contents

LEMMA UpdateEntryTyped ==
  ASSUME Typed, NEW e \in Id, NEW amount \in Amount, NEW type \in Type,
         UpdateEntry(e, amount, type)
  PROVE  Tables' \in Contents
<1>1. rows[e] \in Entry
  BY DEF Typed, UpdateEntry
<1>2. rows' = [rows EXCEPT ![e] = [rows[e] EXCEPT !.amount = amount, !.type = type]]
  BY DEF UpdateEntry, Typed
<1>3. [rows[e] EXCEPT !.amount = amount, !.type = type] \in Entry
  BY <1>1 DEF Entry
<1>4. rows' \in [Id -> Entry \cup {Null, Gone}] /\ projects' = projects
  BY <1>2, <1>3 DEF Typed, UpdateEntry
<1> QED BY <1>4 DEF Typed, Tables, Contents

LEMMA DeleteEntryTyped ==
  ASSUME Typed, NEW e \in Id, DeleteEntry(e)
  PROVE  Tables' \in Contents
  BY DEF Typed, DeleteEntry, Tables, Contents

LEMMA WriteProjectTyped ==
  ASSUME Typed, NEW p \in Project, NEW row \in Budgeted \cup {Null}, WriteProject(p, row)
  PROVE  Tables' \in Contents
  BY DEF Typed, WriteProject, Tables, Contents

LEMMA TablesStay == UNCHANGED <<projects, rows>> => Tables' = Tables
  BY DEF Tables

LEMMA SlipFacts == Typed /\ Slip => slips' \in 0 .. MaxSlips
  BY BoundsAssumption DEF Typed, Slip

LEMMA UnderWayFacts ==
  ASSUME Typed
  PROVE  /\ Len(loads) \in Nat /\ Len(removing) \in Nat /\ UnderWay \in Nat
         /\ UnderWay = Len(loads) + Len(removing) + (IF saving = Null THEN 0 ELSE 1)
<1>1. Len(loads) \in Nat /\ Len(removing) \in Nat
  BY DEF Typed
<1> QED BY <1>1 DEF UnderWay

\* A load that ends is one request less.
LEMMA LoadEnds ==
  ASSUME Typed, Within, Len(loads') = Len(loads) - 1, UNCHANGED <<removing, saving>>
  PROVE  Within'
<1>1. UnderWay \in Nat /\ UnderWay <= MaxRequests /\ MaxRequests \in Nat
  BY UnderWayFacts, BoundsAssumption DEF Within
<1>2. Len(removing') = Len(removing)
  OBVIOUS
<1>3. UnderWay' = UnderWay - 1
  BY <1>2, UnderWayFacts DEF UnderWay
<1>4. UnderWay' <= MaxRequests
  BY <1>1, <1>3
<1> QED BY <1>4 DEF Within

LEMMA InitSound == Init => IInv
<1> SUFFICES ASSUME Init PROVE IInv
  OBVIOUS
<1>1. projects \in [Project -> Budgeted \cup {Null}] /\ rows \in [Id -> Entry \cup {Null, Gone}]
  BY DEF Init
<1>2. loads = <<Asked(Null, Tables)>> /\ Tables \in Contents
  BY <1>1 DEF Init, Tables, Contents
<1>3. Asked(Null, Tables) \in Asking /\ Asked(Null, Tables).seen = {Tables}
  BY <1>2 DEF Asked, Asking
<1> DEFINE first == Asked(Null, Tables)
<1> HIDE DEF first
<1>4. loads = <<first>> /\ first \in Asking /\ first.seen = {Tables}
  BY <1>2, <1>3 DEF first
<1>5. loads \in Seq(Asking) /\ Len(loads) = 1 /\ loads # << >> /\ loads[Len(loads)] = first
  BY <1>4
<1>6. /\ shown = Null /\ filter = Null /\ form = Null /\ saving = Null /\ board = Null
      /\ removing = << >> /\ ~fresh /\ fresh \in BOOLEAN /\ slips = 0
  BY DEF Init
<1>7. Typed
  BY <1>1, <1>5, <1>6, BoundsAssumption DEF Typed
<1>8. Within
  BY <1>5, <1>6, BoundsAssumption DEF Within, UnderWay
<1> QED BY <1>4, <1>5, <1>6, <1>7, <1>8 DEF IInv, Away, LastSees, Told

-----------------------------------------------------------------------------
(***************************************************************************)
(* The steps keep the invariant                                            *)
(***************************************************************************)
LEMMA ShowKeeps == ASSUME IInv, NEW i \in DOMAIN loads, Show(i) PROVE IInv'
<1>1. /\ loads[i] \in Asking /\ i \in 1 .. Len(loads) /\ Len(loads) \in Nat
      /\ loads # << >> /\ board = Null
  BY EmptySeq DEF IInv, Typed, Away
<1>2. /\ loads' \in Seq(Asking) /\ Len(loads') = Len(loads) - 1
      /\ loads' # << >> /\ loads'[Len(loads')].current =>
           /\ i # Len(loads) /\ loads[Len(loads)].current
           /\ loads'[Len(loads')].seen = loads[Len(loads)].seen
  BY EndedFacts DEF Show, IInv
<1>3. /\ shown' \in Answers(loads[i].seen, loads[i].filter)
      /\ fresh' = (loads[i].current /\ loads[i].filter = filter)
      /\ UNCHANGED <<projects, rows, filter, form, saving, removing, board, slips>>
      /\ Tables' = Tables
  BY TablesStay DEF Show
<1>4. /\ shown'.projects \in [Project -> Budgeted \cup {Null}]
      /\ shown'.entries \in [Id -> Entry \cup {Null}]
  BY <1>1, <1>3, AnswersTyped DEF Asking
<1>5. Typed'
  BY <1>1, <1>2, <1>3, <1>4 DEF IInv, Typed, Asking
<1>6. Within'
  BY <1>2, <1>3, LoadEnds DEF IInv
<1>7. LastSees'
  BY <1>1, <1>2, <1>3 DEF IInv, LastSees, Unanswered
<1>8. ASSUME fresh', loads' = << >>, ~Unanswered PROVE shown' \in Answers({Tables}, filter)
  <2>1. i = Len(loads)
    BY <1>1, <1>2, <1>8
  <2>2. loads[i].current /\ loads[i].filter = filter
    BY <1>3, <1>8
  <2>3. loads[i].seen = {Tables}
    BY <1>1, <1>8, <2>1, <2>2 DEF IInv, LastSees
  <2> QED BY <1>3, <2>2, <2>3
<1>9. Told'
  BY <1>3, <1>8 DEF Told, Unanswered
<1>10. Away'
  BY <1>1, <1>3 DEF Away
<1> QED BY <1>5, <1>6, <1>7, <1>9, <1>10 DEF IInv

LEMMA LoadFailsKeeps == ASSUME IInv, NEW i \in DOMAIN loads, LoadFails(i) PROVE IInv'
<1>1. loads # << >> /\ board = Null
  BY DEF IInv, Typed, Away
<1>2. /\ loads' \in Seq(Asking) /\ Len(loads') = Len(loads) - 1
      /\ loads' # << >> /\ loads'[Len(loads')].current =>
           /\ i # Len(loads) /\ loads[Len(loads)].current
           /\ loads'[Len(loads')].seen = loads[Len(loads)].seen
  BY EndedFacts DEF LoadFails, IInv
<1>3. /\ shown' = IF shown = Null THEN Blank ELSE shown
      /\ ~fresh' /\ fresh' \in BOOLEAN
      /\ UNCHANGED <<projects, rows, filter, form, saving, removing, board>>
      /\ Tables' = Tables
  BY TablesStay DEF LoadFails
<1>4. slips' \in 0 .. MaxSlips
  BY SlipFacts DEF IInv, LoadFails
<1>5. /\ Blank.projects \in [Project -> Budgeted \cup {Null}]
      /\ Blank.entries \in [Id -> Entry \cup {Null}]
  BY DEF Blank
<1>6. Typed'
  BY <1>2, <1>3, <1>4, <1>5 DEF IInv, Typed
<1>7. Within'
  BY <1>2, <1>3, LoadEnds DEF IInv
<1>8. LastSees' /\ Told' /\ Away'
  BY <1>1, <1>2, <1>3 DEF IInv, LastSees, Told, Away, Unanswered
<1> QED BY <1>6, <1>7, <1>8 DEF IInv

LEMMA ChangeFilterKeeps ==
  ASSUME IInv, NEW f \in Filters \cup {Null}, ChangeFilter(f)
  PROVE  IInv'
<1>1. f \in Project \cup {Null}
  BY FiltersAssumption
<1>2. /\ UnderWay + slips < MaxRequests /\ filter' = f
      /\ UNCHANGED <<projects, rows, shown, form, saving, removing, fresh, board, slips>>
      /\ Tables' = Tables /\ Load(f) /\ board = Null
  BY TablesStay DEF ChangeFilter, Uncovered, IInv, Away
<1>3. Tables' \in Contents
  BY <1>2, TablesTyped DEF IInv
<1>4. /\ loads' \in Seq(Asking) /\ Len(loads') = Len(loads) + 1 /\ loads' # << >>
      /\ loads'[Len(loads')].seen = {Tables'}
  BY <1>1, <1>2, <1>3, LoadFacts DEF IInv
<1>5. Typed'
  BY <1>1, <1>2, <1>4 DEF IInv, Typed
<1>6. Within'
  BY <1>2, <1>4, UnderWayFacts, BoundsAssumption DEF IInv, Typed, Within, UnderWay
<1>7. LastSees' /\ Told' /\ Away'
  BY <1>2, <1>4 DEF LastSees, Told, Away
<1> QED BY <1>5, <1>6, <1>7 DEF IInv

\* Neither the tables nor the loads change.
LEMMA FormKeeps ==
  ASSUME IInv, UNCHANGED <<projects, rows, shown, filter, removing, loads, fresh, board, slips>>,
         board = Null,
         form' \in Project \cup {Null}, form' # Null => shown # Null \/ form # Null,
         saving' # Null => saving' \in Saving,
         saving' # saving => saving = Null /\ UnderWay + slips < MaxRequests
  PROVE  IInv'
<1>1. Tables' = Tables
  BY TablesStay
<1>2. Typed'
  BY DEF IInv, Typed
<1>3. Within'
  BY UnderWayFacts, BoundsAssumption DEF IInv, Typed, Within, UnderWay
<1>4. LastSees' /\ Told' /\ Away'
  BY <1>1 DEF IInv, LastSees, Told, Away, Unanswered
<1> QED BY <1>2, <1>3, <1>4 DEF IInv

LEMMA OpenFormKeeps == ASSUME IInv, NEW p \in Project, OpenForm(p) PROVE IInv'
  BY FormKeeps DEF OpenForm, Uncovered, IInv, Typed, Away

LEMMA CloseFormKeeps == ASSUME IInv, CloseForm PROVE IInv'
  BY FormKeeps DEF CloseForm, IInv, Typed, Away

LEMMA SaveKeeps ==
  ASSUME IInv, NEW amount \in Amount, NEW type \in Type, Save(amount, type)
  PROVE  IInv'
<1>1. form \in Project /\ shown.projects \in [Project -> Budgeted \cup {Null}]
  BY DEF IInv, Typed, Save
<1>2. KnownName(form) \in Name \cup {Null}
  BY <1>1 DEF KnownName, Budgeted
<1>3. [project |-> form, name |-> KnownName(form), amount |-> amount, type |-> type] \in Entry
  BY <1>1, <1>2 DEF Entry
<1>4. saving' \in Saving
  BY <1>3 DEF Save, Saving, IInv, Typed
<1> QED BY <1>1, <1>4, FormKeeps DEF Save, IInv, Away

LEMMA CreateKeeps == ASSUME IInv, Create PROVE IInv'
<1>1. saving # Null /\ saving \in Saving /\ saving.entry \in Entry /\ board = Null
  BY DEF IInv, Typed, Away, Create, Saving
<1>2. Tables' \in Contents
  BY <1>1, CreateEntryTyped DEF IInv, Create
<1>3. loads' \in Seq(Asking) /\ Len(loads') = Len(loads)
  BY <1>2, UnseenFacts DEF IInv, Create
<1>4. /\ saving' = [saving EXCEPT !.done = TRUE]
      /\ UNCHANGED <<shown, filter, form, removing, fresh, board, slips>>
  BY DEF Create
<1>5. saving' \in Saving /\ saving'.done
  BY <1>1, <1>4 DEF Saving
<1>6. saving' # Null
  BY <1>5, NullAssumption DEF Saving
<1>7. Typed'
  BY <1>2, <1>3, <1>4, <1>5 DEF IInv, Typed, Tables, Contents
<1>8. Within'
  BY <1>1, <1>3, <1>4, <1>6 DEF IInv, Within, UnderWay
<1>9. LastSees' /\ Told' /\ Away'
  BY <1>1, <1>4, <1>5, <1>6 DEF LastSees, Told, Away, Unanswered
<1> QED BY <1>7, <1>8, <1>9 DEF IInv

LEMMA SavedKeeps == ASSUME IInv, Saved PROVE IInv'
<1>1. saving # Null /\ saving.filter \in Project \cup {Null} /\ board = Null
  BY DEF IInv, Typed, Away, Saved, Saving
<1>2. UNCHANGED <<projects, rows>> /\ Tables' = Tables /\ Tables' \in Contents
  BY TablesStay, TablesTyped DEF IInv, Saved
<1>3. /\ loads' \in Seq(Asking) /\ Len(loads') = Len(loads) + 1 /\ loads' # << >>
      /\ loads'[Len(loads')].seen = {Tables'}
  BY <1>1, <1>2, LoadFacts DEF IInv, Saved
<1>4. /\ saving' = Null /\ form' = Null
      /\ UNCHANGED <<shown, filter, removing, fresh, board, slips>>
  BY DEF Saved
<1>5. Typed'
  BY <1>2, <1>3, <1>4 DEF IInv, Typed
<1>6. Within'
  BY <1>1, <1>3, <1>4, UnderWayFacts DEF IInv, Within, UnderWay
<1>7. LastSees' /\ Told' /\ Away'
  BY <1>1, <1>3, <1>4 DEF LastSees, Told, Away
<1> QED BY <1>5, <1>6, <1>7 DEF IInv

\* A request ends without a load: if it has taken effect, the page is out of date.
LEMMA LostFacts ==
  ASSUME IInv, board = Null, UNCHANGED <<projects, rows, shown, filter, form, board>>,
         NEW done \in BOOLEAN,
         IF done THEN BehindThePage ELSE UNCHANGED <<loads, fresh>>,
         ~done => (Unanswered => Unanswered'),
         saving' \in {saving, Null}, removing' \in Seq(Request), slips' \in 0 .. MaxSlips
  PROVE  Typed' /\ LastSees' /\ Told' /\ Away' /\ Len(loads') = Len(loads)
<1>1. Tables' = Tables /\ Tables' \in Contents
  BY TablesStay, TablesTyped DEF IInv
<1>2. CASE done
  <2>1. /\ loads' \in Seq(Asking) /\ Len(loads') = Len(loads) /\ ~fresh' /\ fresh' \in BOOLEAN
        /\ loads' # << >> => ~loads'[Len(loads')].current
    BY <1>1, <1>2, BehindFacts DEF IInv
  <2>2. Typed'
    BY <2>1 DEF IInv, Typed
  <2>3. LastSees' /\ Told' /\ Away'
    BY <2>1 DEF LastSees, Told, Away
  <2> QED BY <2>1, <2>2, <2>3
<1>3. CASE ~done
  <2>1. UNCHANGED <<loads, fresh>>
    BY <1>3
  <2>2. Typed'
    BY <2>1 DEF IInv, Typed
  <2>3. LastSees' /\ Told' /\ Away'
    BY <1>1, <1>3, <2>1 DEF IInv, LastSees, Told, Away
  <2> QED BY <2>1, <2>2, <2>3
<1> QED BY <1>2, <1>3

LEMMA NotSavedKeeps == ASSUME IInv, NotSaved PROVE IInv'
<1>1. /\ saving # Null /\ saving.done \in BOOLEAN /\ board = Null /\ saving' = Null
      /\ UNCHANGED <<projects, rows, shown, filter, form, removing, board>>
      /\ slips' \in 0 .. MaxSlips
      /\ IF saving.done THEN BehindThePage ELSE UNCHANGED <<loads, fresh>>
  BY SlipFacts DEF IInv, Typed, Away, NotSaved, Saving
<1>2. ~saving.done => (Unanswered => Unanswered')
  BY <1>1 DEF Unanswered
<1>3. removing' \in Seq(Request)
  BY <1>1 DEF IInv, Typed
<1>4. Typed' /\ LastSees' /\ Told' /\ Away' /\ Len(loads') = Len(loads)
  BY <1>1, <1>2, <1>3, LostFacts
<1>5. Within'
  BY <1>1, <1>4, UnderWayFacts, BoundsAssumption DEF IInv, Within, UnderWay
<1> QED BY <1>4, <1>5 DEF IInv

LEMMA RemoveEntryKeeps == ASSUME IInv, NEW e \in Id, RemoveEntry(e) PROVE IInv'
<1> DEFINE d == [entry |-> e, filter |-> filter, done |-> FALSE]
<1>1. d \in Request /\ ~d.done
  BY DEF IInv, Typed, Request
<1>2. /\ removing' = Append(removing, d) /\ UnderWay + slips < MaxRequests /\ board = Null
      /\ UNCHANGED <<projects, rows, shown, filter, form, saving, loads, fresh, board, slips>>
      /\ Tables' = Tables
  BY TablesStay DEF RemoveEntry, Uncovered, IInv, Away
<1> HIDE DEF d
<1>3. /\ removing' \in Seq(Request) /\ Len(removing') = Len(removing) + 1
      /\ \A i \in DOMAIN removing : i \in DOMAIN removing' /\ removing'[i] = removing[i]
  BY <1>1, <1>2, AppendProperties DEF IInv, Typed
<1>4. Typed'
  BY <1>2, <1>3 DEF IInv, Typed
<1>5. Within'
  BY <1>2, <1>3, UnderWayFacts, BoundsAssumption DEF IInv, Typed, Within, UnderWay
<1>6. Unanswered => Unanswered'
  BY <1>2, <1>3 DEF Unanswered
<1>7. LastSees' /\ Told' /\ Away'
  BY <1>2, <1>6 DEF IInv, LastSees, Told, Away
<1> QED BY <1>4, <1>5, <1>7 DEF IInv

LEMMA DeleteKeeps == ASSUME IInv, NEW i \in DOMAIN removing, Delete(i) PROVE IInv'
<1>1. removing \in Seq(Request) /\ removing[i] \in Request /\ board = Null
  BY EmptySeq DEF IInv, Typed, Away
<1>2. removing[i].entry \in Id
  BY <1>1 DEF Request
<1>3. Tables' \in Contents
  BY <1>2, DeleteEntryTyped DEF IInv, Delete
<1>4. loads' \in Seq(Asking) /\ Len(loads') = Len(loads)
  BY <1>3, UnseenFacts DEF IInv, Delete
<1> DEFINE d == [removing[i] EXCEPT !.done = TRUE]
<1>5. d \in Request /\ d.done
  BY <1>1 DEF Request
<1>6. removing' = [removing EXCEPT ![i] = d]
  BY DEF Delete
<1> HIDE DEF d
<1>7. /\ removing' \in Seq(Request) /\ Len(removing') = Len(removing)
      /\ i \in DOMAIN removing' /\ removing'[i] = d
  BY <1>1, <1>5, <1>6, ReplacedSeq
<1>8. UNCHANGED <<shown, filter, form, saving, fresh, board, slips>>
  BY DEF Delete
<1>9. Typed'
  BY <1>3, <1>4, <1>7, <1>8 DEF IInv, Typed, Tables, Contents
<1>10. Within'
  BY <1>4, <1>7, <1>8 DEF IInv, Within, UnderWay
<1>11. LastSees' /\ Told' /\ Away'
  BY <1>1, <1>5, <1>7, <1>8 DEF LastSees, Told, Away, Unanswered
<1> QED BY <1>9, <1>10, <1>11 DEF IInv

LEMMA RemovedKeeps == ASSUME IInv, NEW i \in DOMAIN removing, Removed(i) PROVE IInv'
<1>1. /\ removing[i] \in Request /\ removing' \in Seq(Request)
      /\ Len(removing') = Len(removing) - 1
  BY RemovingEnds DEF IInv, Removed
<1>2. removing[i].filter \in Project \cup {Null} /\ board = Null
  BY <1>1, EmptySeq DEF IInv, Typed, Away, Request
<1>3. UNCHANGED <<projects, rows>> /\ Tables' = Tables /\ Tables' \in Contents
  BY TablesStay, TablesTyped DEF IInv, Removed
<1>4. /\ loads' \in Seq(Asking) /\ Len(loads') = Len(loads) + 1 /\ loads' # << >>
      /\ loads'[Len(loads')].seen = {Tables'}
  BY <1>2, <1>3, LoadFacts DEF IInv, Removed, Reload
<1>5. UNCHANGED <<shown, filter, form, saving, fresh, board, slips>>
  BY DEF Removed
<1>6. Typed'
  BY <1>1, <1>3, <1>4, <1>5 DEF IInv, Typed
<1>7. Within'
  BY <1>1, <1>4, <1>5, UnderWayFacts DEF IInv, Within, UnderWay
<1>8. LastSees' /\ Told' /\ Away'
  BY <1>2, <1>4, <1>5 DEF LastSees, Told, Away
<1> QED BY <1>6, <1>7, <1>8 DEF IInv

LEMMA NotRemovedKeeps == ASSUME IInv, NEW i \in DOMAIN removing, NotRemoved(i) PROVE IInv'
<1>1. /\ removing[i] \in Request /\ removing' \in Seq(Request)
      /\ Len(removing') = Len(removing) - 1
      /\ \A j \in DOMAIN removing : j # i =>
           \E k \in DOMAIN removing' : removing'[k] = removing[j]
  BY RemovingEnds DEF IInv, NotRemoved
<1>2. removing[i].done \in BOOLEAN /\ board = Null /\ slips' \in 0 .. MaxSlips
  BY <1>1, SlipFacts, EmptySeq DEF IInv, Typed, Away, Request, NotRemoved
<1>3. /\ UNCHANGED <<projects, rows, shown, filter, form, saving, board>>
      /\ IF removing[i].done THEN BehindThePage ELSE UNCHANGED <<loads, fresh>>
  BY DEF NotRemoved
<1>4. ~removing[i].done => (Unanswered => Unanswered')
  BY <1>1, <1>3 DEF Unanswered
<1>5. Typed' /\ LastSees' /\ Told' /\ Away' /\ Len(loads') = Len(loads)
  BY <1>1, <1>2, <1>3, <1>4, LostFacts
<1>6. Within'
  BY <1>1, <1>3, <1>5, UnderWayFacts, BoundsAssumption DEF IInv, Within, UnderWay
<1> QED BY <1>5, <1>6 DEF IInv

LEMMA OpenBoardKeeps == ASSUME IInv, OpenBoard PROVE IInv'
<1>1. /\ shown' = Null /\ filter' = Null /\ form' = Null /\ saving' = Null
      /\ removing' = << >> /\ loads' = << >> /\ ~fresh' /\ fresh' \in BOOLEAN
      /\ board' = [seen |-> {Tables}, answers |-> Null, failed |-> {}]
      /\ UNCHANGED <<projects, rows, slips>>
  BY DEF OpenBoard
<1>2. loads' \in Seq(Asking) /\ Len(loads') = 0
  BY <1>1
<1>3. removing' \in Seq(Request) /\ Len(removing') = 0
  BY <1>1
<1>4. Typed'
  BY <1>1, <1>2, <1>3 DEF IInv, Typed
<1>5. Within'
  BY <1>1, <1>2, <1>3, BoundsAssumption DEF Within, UnderWay
<1>6. LastSees' /\ Told'
  BY <1>1 DEF LastSees, Told
<1>7. Away'
  BY <1>1 DEF Away
<1> QED BY <1>4, <1>5, <1>6, <1>7 DEF IInv

LEMMA ShowBoardKeeps ==
  ASSUME IInv, NEW failed \in SUBSET Part, ShowBoard(failed)
  PROVE  IInv'
<1>1. UNCHANGED <<projects, rows, shown, filter, form, saving, removing, loads, fresh>>
  BY DEF ShowBoard, page
<1>2. slips' \in 0 .. MaxSlips
  BY SlipFacts DEF IInv, Typed, ShowBoard
<1>3. board # Null
  BY DEF ShowBoard
<1>4. PICK answers \in Answers(board.seen, Null) :
        board' = [board EXCEPT !.answers = answers, !.failed = failed]
  BY DEF ShowBoard
<1>5. board' = [seen |-> board.seen, answers |-> answers, failed |-> failed]
  BY <1>3, <1>4 DEF IInv, Away
<1>6. Tables' = Tables
  BY <1>1, TablesStay
<1>7. Typed'
  BY <1>1, <1>2 DEF IInv, Typed
<1>8. Within'
  BY <1>1 DEF IInv, Within, UnderWay
<1>9. LastSees' /\ Told'
  BY <1>1, <1>6 DEF IInv, LastSees, Told, Unanswered
<1>10. Away'
  BY <1>1, <1>3, <1>5 DEF IInv, Away
<1> QED BY <1>7, <1>8, <1>9, <1>10 DEF IInv

LEMMA ReturnToPageKeeps == ASSUME IInv, ReturnToPage PROVE IInv'
<1> DEFINE first == Asked(Null, Tables)
<1>1. first \in Asking /\ first.seen = {Tables}
  BY TablesTyped DEF IInv, Asked, Asking
<1>2. /\ loads' = <<first>> /\ board' = Null /\ Tables' = Tables
      /\ shown = Null /\ form = Null /\ saving = Null /\ removing = << >> /\ ~fresh
      /\ UNCHANGED <<projects, rows, shown, filter, form, saving, removing, fresh, slips>>
  BY TablesStay DEF ReturnToPage, IInv, Away
<1> HIDE DEF first
<1>3. loads' \in Seq(Asking) /\ Len(loads') = 1 /\ loads' # << >> /\ loads'[1] = first
  BY <1>1, <1>2
<1>4. Typed'
  BY <1>2, <1>3 DEF IInv, Typed
<1>5. Within'
  BY <1>2, <1>3, BoundsAssumption DEF Within, UnderWay
<1>6. LastSees' /\ Told' /\ Away'
  BY <1>1, <1>2, <1>3 DEF LastSees, Told, Away
<1> QED BY <1>4, <1>5, <1>6 DEF IInv

LEMMA ElsewhereKeeps == ASSUME IInv, Elsewhere PROVE IInv'
<1>1. /\ slips' \in 0 .. MaxSlips /\ BehindThePage
      /\ board' = IF board = Null THEN Null ELSE Seeing(board)
      /\ UNCHANGED <<shown, filter, form, saving, removing>>
  BY SlipFacts DEF IInv, Elsewhere
<1>2. Tables' \in Contents
  <2>1. ASSUME NEW p \in Project, NEW row \in Budgeted \cup {Null}, WriteProject(p, row)
        PROVE  Tables' \in Contents
    BY <2>1, WriteProjectTyped DEF IInv
  <2>2. ASSUME NEW entry \in Entry, CreateEntry(entry) PROVE Tables' \in Contents
    BY <2>2, CreateEntryTyped DEF IInv
  <2>3. ASSUME NEW e \in Id, NEW amount \in Amount, NEW type \in Type, UpdateEntry(e, amount, type)
        PROVE  Tables' \in Contents
    BY <2>3, UpdateEntryTyped DEF IInv
  <2>4. ASSUME NEW e \in Id, DeleteEntry(e) PROVE Tables' \in Contents
    BY <2>4, DeleteEntryTyped DEF IInv
  <2> QED BY <2>1, <2>2, <2>3, <2>4 DEF Elsewhere
<1>3. /\ loads' \in Seq(Asking) /\ Len(loads') = Len(loads) /\ ~fresh' /\ fresh' \in BOOLEAN
      /\ loads' # << >> => ~loads'[Len(loads')].current
  BY <1>1, <1>2, BehindFacts DEF IInv
<1>4. Typed'
  BY <1>1, <1>2, <1>3 DEF IInv, Typed, Tables, Contents
<1>5. Within'
  BY <1>1, <1>3 DEF IInv, Within, UnderWay
<1>6. LastSees' /\ Told'
  BY <1>3 DEF LastSees, Told
<1>7. ASSUME board # Null PROVE Away'
  <2> DEFINE seen == board.seen \cup {Tables'}
  <2>1. board' = [seen |-> seen, answers |-> board.answers, failed |-> board.failed]
    BY <1>1, <1>7 DEF IInv, Away, Seeing
  <2>2. Answers(board.seen, Null) \subseteq Answers(seen, Null)
    BY AnswersGrow
  <2> HIDE DEF seen
  <2>3. board'.answers # Null => board'.answers \in Answers(board'.seen, Null)
    BY <1>7, <2>1, <2>2 DEF IInv, Away
  <2>4. loads' = << >>
    BY <1>3, <1>7, EmptySeq DEF IInv, Away
  <2>5. /\ shown' = Null /\ form' = Null /\ saving' = Null /\ removing' = << >> /\ ~fresh'
        /\ board'.failed \subseteq Part
    BY <1>1, <1>3, <1>7, <2>1 DEF IInv, Away
  <2> QED BY <2>1, <2>3, <2>4, <2>5 DEF Away
<1>8. ASSUME board = Null PROVE Away'
  BY <1>1, <1>8 DEF Away
<1> QED BY <1>4, <1>5, <1>6, <1>7, <1>8 DEF IInv

LEMMA StepKeeps == IInv /\ [Next]_vars => IInv'
<1> SUFFICES ASSUME IInv, [Next]_vars PROVE IInv'
  OBVIOUS
<1>1. CASE UNCHANGED vars
  <2>1. Tables' = Tables
    BY <1>1, TablesStay DEF vars
  <2>2. Typed' /\ Within'
    BY <1>1 DEF IInv, Typed, Within, UnderWay, vars, page
  <2>3. LastSees' /\ Told' /\ Away'
    BY <1>1, <2>1 DEF IInv, LastSees, Told, Away, Unanswered, vars, page
  <2> QED BY <2>2, <2>3 DEF IInv
<1>2. CASE \E i \in DOMAIN loads : Show(i) \/ LoadFails(i)
  BY <1>2, ShowKeeps, LoadFailsKeeps
<1>3. CASE \/ \E f \in Filters \cup {Null} : ChangeFilter(f)
           \/ \E p \in Project : OpenForm(p)
           \/ CloseForm
           \/ \E amount \in Amount, type \in Type : Save(amount, type)
  BY <1>3, ChangeFilterKeeps, OpenFormKeeps, CloseFormKeeps, SaveKeeps
<1>4. CASE Create \/ Saved \/ NotSaved \/ \E e \in Id : RemoveEntry(e)
  BY <1>4, CreateKeeps, SavedKeeps, NotSavedKeeps, RemoveEntryKeeps
<1>5. CASE \E i \in DOMAIN removing : Delete(i) \/ Removed(i) \/ NotRemoved(i)
  BY <1>5, DeleteKeeps, RemovedKeeps, NotRemovedKeeps
<1>6. CASE \/ OpenBoard \/ ReturnToPage \/ Elsewhere
           \/ \E failed \in SUBSET Part : ShowBoard(failed)
  BY <1>6, OpenBoardKeeps, ReturnToPageKeeps, ElsewhereKeeps, ShowBoardKeeps
<1> QED BY <1>1, <1>2, <1>3, <1>4, <1>5, <1>6 DEF Next

LEMMA Invariance == Spec => []IInv
  BY InitSound, StepKeeps, PTL DEF Spec

-----------------------------------------------------------------------------
(***************************************************************************)
(* Sums.  SumFunctionOnSet is a recursion over the subsets of a finite     *)
(* set, whose facts are proved from the well-foundedness of their order.   *)
(***************************************************************************)
\* The element MapThenFoldSet takes out of a set.
Some(T) == CHOOSE x \in T : TRUE

\* iter adds up f over every subset of S, as SumFunctionOnSet does.
AddsUp(iter, f, S) ==
  iter = [s \in SUBSET S |->
            IF s = {} THEN 0 ELSE f[Some(s)] + iter[s \ {Some(s)}]]

\* What holds of a set as soon as it holds of all its subsets holds of every
\* finite set.
LEMMA SubsetInduction ==
  ASSUME NEW S, IsFiniteSet(S), NEW P,
         \A T \in SUBSET S : (\A U \in SUBSET T : U # T => U \in P) => T \in P
  PROVE  SUBSET S \subseteq P
<1> DEFINE Rest == (SUBSET S) \ P
<1> SUFFICES ASSUME Rest # {} PROVE FALSE
  OBVIOUS
<1>1. Rest \subseteq FiniteSubsetsOf(S)
  BY FS_Subset DEF FiniteSubsetsOf
<1>2. PICK T \in Rest : \A U \in Rest : ~(<<U, T>> \in StrictSubsetOrdering(S))
  <2>1. IsWellFoundedOn(StrictSubsetOrdering(S), FiniteSubsetsOf(S))
    BY FS_StrictSubsetOrderingWellFounded
  <2> HIDE DEF Rest
  <2> QED BY <1>1, <2>1, WFMin
<1>3. \A U \in SUBSET T : U # T => U \in P
  BY <1>2 DEF StrictSubsetOrdering
<1> QED BY <1>2, <1>3

LEMMA AddsUpStep ==
  ASSUME NEW f, NEW S, NEW iter, AddsUp(iter, f, S), NEW T \in SUBSET S
  PROVE  /\ T = {} => iter[T] = 0
         /\ T # {} => Some(T) \in T /\ iter[T] = f[Some(T)] + iter[T \ {Some(T)}]
<1>1. iter[T] = IF T = {} THEN 0 ELSE f[Some(T)] + iter[T \ {Some(T)}]
  BY DEF AddsUp
<1>2. T # {} => Some(T) \in T
  BY DEF Some
<1> QED BY <1>1, <1>2

LEMMA AddsUpOnce ==
  ASSUME NEW f, NEW S, IsFiniteSet(S), NEW R, NEW i, NEW j, AddsUp(i, f, S), AddsUp(j, f, R)
  PROVE  \A T \in SUBSET S : T \subseteq R => i[T] = j[T]
<1> DEFINE P == {T \in SUBSET S : T \subseteq R => i[T] = j[T]}
<1>1. ASSUME NEW T \in SUBSET S, \A U \in SUBSET T : U # T => U \in P
      PROVE  T \in P
  <2> SUFFICES ASSUME T \subseteq R PROVE i[T] = j[T]
    OBVIOUS
  <2> DEFINE x == Some(T)
  <2>1. CASE T = {}
    BY <2>1, AddsUpStep
  <2>2. CASE T # {}
    <3>1. x \in T /\ i[T] = f[x] + i[T \ {x}] /\ j[T] = f[x] + j[T \ {x}]
      BY <2>2, AddsUpStep
    <3>2. i[T \ {x}] = j[T \ {x}]
      BY <1>1, <3>1
    <3> QED BY <3>1, <3>2
  <2> QED BY <2>1, <2>2
<1> HIDE DEF P
<1>2. SUBSET S \subseteq P
  BY <1>1, SubsetInduction
<1> QED BY <1>2 DEF P

LEMMA SumAsAdded ==
  ASSUME NEW f, NEW S, IsFiniteSet(S), NEW iter, AddsUp(iter, f, S)
  PROVE  \A T \in SUBSET S : SumFunctionOnSet(f, T) = iter[T]
<1> SUFFICES ASSUME NEW T \in SUBSET S PROVE SumFunctionOnSet(f, T) = iter[T]
  OBVIOUS
<1> DEFINE part == [s \in SUBSET T |-> iter[s]]
<1>1. AddsUp(part, f, T)
  <2>1. ASSUME NEW s \in SUBSET T
        PROVE  part[s] = IF s = {} THEN 0 ELSE f[Some(s)] + part[s \ {Some(s)}]
    BY AddsUpStep
  <2> HIDE DEF part
  <2>2. part = [s \in SUBSET T |-> part[s]]
    BY DEF part
  <2> QED BY <2>1, <2>2 DEF AddsUp
<1> DEFINE chosen == CHOOSE i : AddsUp(i, f, T)
<1>2. SumFunctionOnSet(f, T) = chosen[T]
  BY DEF SumFunctionOnSet, FoldFunctionOnSet, MapThenFoldSet, AddsUp, Some
<1> HIDE DEF part
<1>3. AddsUp(chosen, f, T)
  BY <1>1
<1> HIDE DEF chosen
<1>4. IsFiniteSet(T)
  BY FS_Subset
<1> QED BY <1>2, <1>3, <1>4, AddsUpOnce

LEMMA SomethingAddsUp ==
  ASSUME NEW f, NEW S, IsFiniteSet(S)
  PROVE  \E iter : AddsUp(iter, f, S)
<1> DEFINE P == {T \in SUBSET S : \E iter : AddsUp(iter, f, T)}
<1>1. ASSUME NEW T \in SUBSET S, \A U \in SUBSET T : U # T => U \in P
      PROVE  T \in P
  <2> DEFINE sum(s) == SumFunctionOnSet(f, s)
             top == IF T = {} THEN 0 ELSE f[Some(T)] + sum(T \ {Some(T)})
             iter == [s \in SUBSET T |-> IF s = T THEN top ELSE sum(s)]
  <2>1. ASSUME NEW s \in SUBSET T
        PROVE  iter[s] = IF s = {} THEN 0 ELSE f[Some(s)] + iter[s \ {Some(s)}]
    <3>1. CASE s = T
      <4>1. T # {} => Some(T) \in T
        BY DEF Some
      <4>2. T # {} => iter[T \ {Some(T)}] = sum(T \ {Some(T)})
        BY <4>1
      <4>3. iter[T] = top
        OBVIOUS
      <4> QED BY <3>1, <4>2, <4>3
    <3>2. CASE s # T
      <4>1. PICK i : AddsUp(i, f, s)
        BY <1>1, <3>2
      <4>2. IsFiniteSet(s)
        BY FS_Subset
      <4>3. \A t \in SUBSET s : sum(t) = i[t]
        BY <4>1, <4>2, SumAsAdded
      <4>4. \A t \in SUBSET s : iter[t] = sum(t)
        BY <3>2
      <4> HIDE DEF iter, sum
      <4>5. \A t \in SUBSET s : iter[t] = i[t]
        BY <4>3, <4>4
      <4> QED BY <4>1, <4>5, AddsUpStep
    <3> QED BY <3>1, <3>2
  <2>2. iter = [s \in SUBSET T |-> iter[s]]
    OBVIOUS
  <2> HIDE DEF iter
  <2>3. AddsUp(iter, f, T)
    BY <2>1, <2>2 DEF AddsUp
  <2> QED BY <2>3
<1> HIDE DEF P
<1>2. SUBSET S \subseteq P
  BY <1>1, SubsetInduction
<1> QED BY <1>2 DEF P

LEMMA SumSteps ==
  ASSUME NEW f, NEW S, IsFiniteSet(S)
  PROVE  /\ SumFunctionOnSet(f, {}) = 0
         /\ \A T \in SUBSET S : T # {} =>
              \E x \in T : SumFunctionOnSet(f, T) = f[x] + SumFunctionOnSet(f, T \ {x})
<1>1. PICK iter : AddsUp(iter, f, S)
  BY SomethingAddsUp
<1>2. \A T \in SUBSET S : SumFunctionOnSet(f, T) = iter[T]
  BY <1>1, SumAsAdded
<1>3. SumFunctionOnSet(f, {}) = 0
  <2>1. iter[{}] = 0
    BY <1>1, AddsUpStep
  <2> QED BY <1>2, <2>1
<1>4. ASSUME NEW T \in SUBSET S, T # {}
      PROVE  \E x \in T : SumFunctionOnSet(f, T) = f[x] + SumFunctionOnSet(f, T \ {x})
  <2> DEFINE x == Some(T)
  <2>1. x \in T /\ iter[T] = f[x] + iter[T \ {x}]
    <3> HIDE DEF x
    <3>1. AddsUp(iter, f, S) /\ T # {} /\ x = Some(T)
      BY <1>1, <1>4 DEF x
    <3> QED BY <3>1, AddsUpStep
  <2>2. iter[T \ {x}] = SumFunctionOnSet(f, T \ {x}) /\ iter[T] = SumFunctionOnSet(f, T)
    BY <1>2
  <2> QED BY <2>1, <2>2
<1> QED BY <1>3, <1>4

\* A sum of integers is an integer, whichever summand is taken out first.
LEMMA SumTakesOut ==
  ASSUME NEW S, IsFiniteSet(S), NEW f, \A x \in S : f[x] \in Int
  PROVE  /\ SumFunctionOnSet(f, S) \in Int
         /\ \A x \in S : SumFunctionOnSet(f, S) = f[x] + SumFunctionOnSet(f, S \ {x})
<1> DEFINE sum(T) == SumFunctionOnSet(f, T)
           P == {T \in SUBSET S : /\ sum(T) \in Int
                                  /\ \A x \in T : sum(T) = f[x] + sum(T \ {x})}
<1>0. sum({}) = 0 /\ \A T \in SUBSET S : T # {} => \E x \in T : sum(T) = f[x] + sum(T \ {x})
  BY SumSteps
<1> HIDE DEF sum
<1>1. ASSUME NEW T \in SUBSET S, \A U \in SUBSET T : U # T => U \in P
      PROVE  T \in P
  <2>1. CASE T = {}
    BY <2>1, <1>0
  <2>2. CASE T # {}
    <3>1. PICK c \in T : sum(T) = f[c] + sum(T \ {c})
      BY <2>2, <1>0
    <3>2. sum(T \ {c}) \in Int /\ \A x \in T \ {c} : sum(T \ {c}) = f[x] + sum((T \ {c}) \ {x})
      BY <1>1, <3>1
    <3>3. sum(T) \in Int
      BY <3>1, <3>2
    <3>4. ASSUME NEW x \in T PROVE sum(T) = f[x] + sum(T \ {x})
      <4>1. CASE x = c
        BY <3>1, <4>1
      <4>2. CASE x # c
        <5>1. T \ {x} \in P /\ c \in T \ {x} /\ (T \ {c}) \ {x} \in P
          BY <1>1, <4>2
        <5>2. (T \ {x}) \ {c} = (T \ {c}) \ {x}
          OBVIOUS
        <5>3. sum(T \ {x}) = f[c] + sum((T \ {c}) \ {x})
          BY <5>1, <5>2
        <5>4. sum(T \ {c}) = f[x] + sum((T \ {c}) \ {x})
          BY <3>2, <4>2
        <5>5. sum((T \ {c}) \ {x}) \in Int /\ f[c] \in Int /\ f[x] \in Int
          BY <5>1
        <5> QED BY <3>1, <5>3, <5>4, <5>5
      <4> QED BY <4>1, <4>2
    <3> QED BY <3>3, <3>4
  <2> QED BY <2>1, <2>2
<1>2. SUBSET S \subseteq P
  <2> HIDE DEF P
  <2> QED BY <1>1, SubsetInduction
<1> QED BY <1>2 DEF sum

\* A sum depends on its summands only.
LEMMA SumAlike ==
  ASSUME NEW S, IsFiniteSet(S), NEW f, NEW g, \A x \in S : f[x] = g[x]
  PROVE  SumFunctionOnSet(f, S) = SumFunctionOnSet(g, S)
<1>1. PICK iter : AddsUp(iter, f, S)
  BY SomethingAddsUp
<1>2. \A s \in SUBSET S : s # {} => Some(s) \in S
  BY DEF Some
<1>3. AddsUp(iter, g, S)
  <2>1. ASSUME NEW s \in SUBSET S
        PROVE  iter[s] = IF s = {} THEN 0 ELSE g[Some(s)] + iter[s \ {Some(s)}]
    BY <1>1, <1>2, AddsUpStep
  <2>2. iter = [s \in SUBSET S |-> iter[s]]
    BY <1>1 DEF AddsUp
  <2> QED BY <2>1, <2>2 DEF AddsUp
<1>4. SumFunctionOnSet(f, S) = iter[S] /\ SumFunctionOnSet(g, S) = iter[S]
  BY <1>1, <1>3, SumAsAdded
<1> QED BY <1>4

\* The sum over two sets with no element in common.
LEMMA SumUnion ==
  ASSUME NEW A, NEW B, IsFiniteSet(A \cup B), A \cap B = {},
         NEW f, \A x \in A \cup B : f[x] \in Int
  PROVE  SumFunctionOnSet(f, A \cup B) = SumFunctionOnSet(f, A) + SumFunctionOnSet(f, B)
<1> DEFINE sum(T) == SumFunctionOnSet(f, T)
           P == {T \in SUBSET B : sum(A \cup T) = sum(A) + sum(T)}
<1>1. \A T \in SUBSET (A \cup B) :
        sum(T) \in Int /\ \A x \in T : sum(T) = f[x] + sum(T \ {x})
  <2> SUFFICES ASSUME NEW T \in SUBSET (A \cup B)
               PROVE  sum(T) \in Int /\ \A x \in T : sum(T) = f[x] + sum(T \ {x})
    OBVIOUS
  <2>1. IsFiniteSet(T) /\ \A x \in T : f[x] \in Int
    BY FS_Subset
  <2> QED BY <2>1, SumTakesOut
<1>2. sum({}) = 0
  BY SumSteps
<1> HIDE DEF sum
<1>3. ASSUME NEW T \in SUBSET B, \A U \in SUBSET T : U # T => U \in P
      PROVE  T \in P
  <2>1. CASE T = {}
    <3>1. A \cup T = A /\ sum(A) \in Int
      BY <1>1, <2>1
    <3>2. sum(A \cup T) = sum(A) + sum(T)
      BY <1>2, <2>1, <3>1
    <3> QED BY <3>2
  <2>2. CASE T # {}
    <3>1. PICK x \in T : TRUE
      BY <2>2
    <3>2. (A \cup T) \ {x} = A \cup (T \ {x})
      BY <3>1
    <3>3. sum(A \cup T) = f[x] + sum(A \cup (T \ {x})) /\ sum(T) = f[x] + sum(T \ {x})
      BY <1>1, <3>1, <3>2
    <3>4. sum(A \cup (T \ {x})) = sum(A) + sum(T \ {x})
      BY <1>3, <3>1
    <3>5. sum(A) \in Int /\ sum(T \ {x}) \in Int /\ f[x] \in Int
      BY <1>1, <3>1
    <3>6. sum(A \cup T) = sum(A) + sum(T)
      BY <3>3, <3>4, <3>5
    <3> QED BY <3>6
  <2> QED BY <2>1, <2>2
<1>4. IsFiniteSet(B)
  BY FS_Subset
<1>5. SUBSET B \subseteq P
  <2> HIDE DEF P
  <2> QED BY <1>3, <1>4, SubsetInduction
<1> QED BY <1>5 DEF sum

-----------------------------------------------------------------------------
(***************************************************************************)
(* The totals of the service                                               *)
(***************************************************************************)
Ledger == [Id -> Entry \cup {Null, Gone}]

\* The entries GROUP BY puts together with one of them, and the row they make.
Together(r, f, e) == {x \in EntriesOf(r, f) : Group(r[x]) = Group(r[e])}
CardOf(r, f, e) ==
  [project |-> r[e].project,
   name |-> r[e].name,
   total_budget |-> Sum(r, OfType(r, Together(r, f, e), "budget")),
   total_spent |-> Sum(r, OfType(r, Together(r, f, e), "expense"))]

Amounts(r) == [e \in Id |-> r[e].amount]

LEMMA SumOverLedger ==
  ASSUME NEW r, NEW E \in SUBSET Id
  PROVE  IsFiniteSet(E) /\ Sum(r, E) = SumFunctionOnSet(Amounts(r), E)
<1>1. IsFiniteSet(E)
  BY IdAssumption, FS_Subset
<1> DEFINE f == [e \in E |-> r[e].amount]
           g == Amounts(r)
<1>2. \A e \in E : f[e] = g[e]
  BY DEF Amounts
<1>3. Sum(r, E) = SumFunctionOnSet(f, E)
  BY DEF Sum, SumFunction
<1> HIDE DEF f, g
<1>4. SumFunctionOnSet(f, E) = SumFunctionOnSet(g, E)
  BY <1>1, <1>2, SumAlike
<1> QED BY <1>1, <1>3, <1>4 DEF g

\* Entries that exist have a project, a type and an amount.
LEMMA EntriesTyped ==
  ASSUME NEW r \in Ledger, NEW f, NEW e \in EntriesOf(r, f)
  PROVE  e \in Id /\ r[e] \in Entry /\ r[e].amount \in Int /\ r[e].project \in Project
<1>1. e \in Id /\ r[e] \in Entry
  BY DEF EntriesOf, Ledger
<1>2. r[e].amount \in Amount /\ r[e].project \in Project
  BY <1>1 DEF Entry
<1> QED BY <1>1, <1>2, AmountAssumption

LEMMA SumIsInt ==
  ASSUME NEW r \in Ledger, NEW f, NEW E \in SUBSET EntriesOf(r, f)
  PROVE  Sum(r, E) \in Int
<1>1. E \in SUBSET Id /\ \A e \in E : Amounts(r)[e] \in Int
  BY EntriesTyped DEF Amounts
<1>2. IsFiniteSet(E) /\ Sum(r, E) = SumFunctionOnSet(Amounts(r), E)
  BY <1>1, SumOverLedger
<1> QED BY <1>1, <1>2, SumTakesOut

LEMMA SumOfNothing == ASSUME NEW r PROVE Sum(r, {}) = 0
<1>1. Sum(r, {}) = SumFunctionOnSet(Amounts(r), {})
  BY SumOverLedger
<1>2. SumFunctionOnSet(Amounts(r), {}) = 0
  BY FS_EmptySet, SumSteps
<1> QED BY <1>1, <1>2

\* The sums of two parts with no entry in common are those of the whole.
LEMMA PartsAddUp ==
  ASSUME NEW r \in Ledger, NEW f, NEW A, NEW B, A \cap B = {},
         A \cup B \subseteq EntriesOf(r, f), NEW type
  PROVE  Sum(r, OfType(r, A \cup B, type)) = Sum(r, OfType(r, A, type)) + Sum(r, OfType(r, B, type))
<1> DEFINE a == OfType(r, A, type)
           b == OfType(r, B, type)
           g == Amounts(r)
<1>1. /\ OfType(r, A \cup B, type) = a \cup b /\ a \cap b = {}
      /\ a \cup b \subseteq EntriesOf(r, f)
  BY DEF OfType
<1>2. a \in SUBSET Id /\ b \in SUBSET Id /\ a \cup b \in SUBSET Id
  BY <1>1 DEF EntriesOf
<1>3. \A e \in a \cup b : g[e] \in Int
  BY <1>1, EntriesTyped DEF Amounts
<1> HIDE DEF a, b
<1>4. /\ Sum(r, a) = SumFunctionOnSet(g, a) /\ Sum(r, b) = SumFunctionOnSet(g, b)
      /\ Sum(r, a \cup b) = SumFunctionOnSet(g, a \cup b) /\ IsFiniteSet(a \cup b)
  BY <1>2, SumOverLedger
<1> HIDE DEF g
<1>5. SumFunctionOnSet(g, a \cup b) = SumFunctionOnSet(g, a) + SumFunctionOnSet(g, b)
  BY <1>1, <1>3, <1>4, SumUnion
<1>6. Sum(r, a \cup b) = Sum(r, a) + Sum(r, b)
  BY <1>4, <1>5
<1> QED BY <1>1, <1>6 DEF a, b

LEMMA SummaryIsCards ==
  ASSUME NEW r, NEW f
  PROVE  Summary(r, f) = {CardOf(r, f, e) : e \in EntriesOf(r, f)}
<1> DEFINE card(g) ==
             LET E == {e \in EntriesOf(r, f) : Group(r[e]) = g} IN
               [project |-> g[1],
                name |-> g[2],
                total_budget |-> Sum(r, OfType(r, E, "budget")),
                total_spent |-> Sum(r, OfType(r, E, "expense"))]
<1>1. Summary(r, f) = {card(g) : g \in {Group(r[e]) : e \in EntriesOf(r, f)}}
  BY DEF Summary
<1>2. \A e : card(Group(r[e])) = CardOf(r, f, e)
  <2> TAKE e
  <2>1. Group(r[e])[1] = r[e].project /\ Group(r[e])[2] = r[e].name
    BY DEF Group
  <2> QED BY <2>1 DEF CardOf, Together
<1> HIDE DEF card
<1> QED BY <1>1, <1>2

LEMMA CardFields ==
  ASSUME NEW r, NEW f, NEW e
  PROVE  /\ CardOf(r, f, e).project = r[e].project
         /\ CardOf(r, f, e).name = r[e].name
         /\ CardOf(r, f, e).total_budget = Sum(r, OfType(r, Together(r, f, e), "budget"))
         /\ CardOf(r, f, e).total_spent = Sum(r, OfType(r, Together(r, f, e), "expense"))
  BY DEF CardOf

\* Two entries make the same row just when they belong together.
LEMMA SameCard ==
  ASSUME NEW r, NEW f, NEW e, NEW x
  PROVE  CardOf(r, f, x) = CardOf(r, f, e) <=> Group(r[x]) = Group(r[e])
<1>1. ASSUME CardOf(r, f, x) = CardOf(r, f, e) PROVE Group(r[x]) = Group(r[e])
  <2>1. r[x].project = r[e].project /\ r[x].name = r[e].name
    BY <1>1, CardFields
  <2> QED BY <2>1 DEF Group
<1>2. ASSUME Group(r[x]) = Group(r[e]) PROVE CardOf(r, f, x) = CardOf(r, f, e)
  <2>1. r[x].project = r[e].project /\ r[x].name = r[e].name
    BY <1>2 DEF Group
  <2>2. Together(r, f, x) = Together(r, f, e)
    BY <1>2 DEF Together
  <2> QED BY <2>1, <2>2 DEF CardOf
<1> QED BY <1>1, <1>2

-----------------------------------------------------------------------------
(***************************************************************************)
(* Types                                                                   *)
(***************************************************************************)
\* Every variable keeps the type its declaration says, and no more requests are
\* under way than MaxRequests: no answer the page or the dashboard shows, however
\* it is mixed, carries anything the services do not store (Budget.jsx:35-65,
\* Dashboard.jsx:59-78).
THEOREM TypeCorrect == Spec => []TypeOK
<1>1. ASSUME IInv PROVE TypeOK
  <2>1. /\ projects \in [Project -> Budgeted \cup {Null}]
        /\ rows \in [Id -> Entry \cup {Null, Gone}]
        /\ shown # Null => /\ shown.projects \in [Project -> Budgeted \cup {Null}]
                           /\ shown.entries \in [Id -> Entry \cup {Null}]
        /\ {filter, form} \subseteq Project \cup {Null}
        /\ saving # Null => saving.entry \in Entry
        /\ \A i \in DOMAIN removing : removing[i] \in Request
        /\ fresh \in BOOLEAN /\ slips \in 0 .. MaxSlips
    BY <1>1 DEF IInv, Typed, Saving
  <2>2. \A i \in DOMAIN loads : loads[i].filter \in Project \cup {Null}
    <3>1. \A i \in DOMAIN loads : loads[i] \in Asking
      BY <1>1 DEF IInv, Typed
    <3> QED BY <3>1 DEF Asking
  <2>3. UnderWay <= MaxRequests
    BY <1>1 DEF IInv, Within
  <2>4. board # Null => board.failed \subseteq Part
    BY <1>1 DEF IInv, Away
  <2> QED BY <2>1, <2>2, <2>3, <2>4 DEF TypeOK
<1> QED BY <1>1, Invariance, PTL

-----------------------------------------------------------------------------
(***************************************************************************)
(* The cards of the budget page                                            *)
(***************************************************************************)
LEMMA ToldTables ==
  ASSUME NEW seen, NEW t, seen = {t}, NEW f, NEW a \in Answers(seen, f)
  PROVE  /\ a.projects = t.projects
         /\ a.entries = Entries(t.rows, f)
         /\ a.summary = Summary(t.rows, f)
<1>1. /\ a.projects \in {u.projects : u \in seen}
      /\ a.entries \in {Entries(u.rows, f) : u \in seen}
      /\ a.summary \in {Summary(u.rows, f) : u \in seen}
  BY DEF Answers
<1> QED BY <1>1

OwnOf(r, f, p) == {e \in EntriesOf(r, f) : r[e].project = p}
CardsFor(r, f, p) == {s \in Summary(r, f) : s.project = p}

\* The only card of a project adds up all its entries.
LEMMA OnlyCard ==
  ASSUME NEW r, NEW f, NEW p,
         \A s, u \in CardsFor(r, f, p) : s = u, NEW s \in CardsFor(r, f, p)
  PROVE  /\ OwnOf(r, f, p) # {}
         /\ s.project = p
         /\ s.total_budget = Sum(r, OfType(r, OwnOf(r, f, p), "budget"))
         /\ s.total_spent = Sum(r, OfType(r, OwnOf(r, f, p), "expense"))
<1> DEFINE own == OwnOf(r, f, p)
<1>0. s \in Summary(r, f) /\ s.project = p
  BY DEF CardsFor
<1>1. PICK e \in EntriesOf(r, f) : s = CardOf(r, f, e)
  BY <1>0, SummaryIsCards
<1>2. e \in own
  BY <1>0, <1>1, CardFields DEF OwnOf
<1>3. \A x \in own : CardOf(r, f, x) = s
  <2> TAKE x \in own
  <2>1. CardOf(r, f, x) \in Summary(r, f) /\ CardOf(r, f, x).project = p
    BY SummaryIsCards, CardFields DEF OwnOf
  <2> QED BY <2>1 DEF CardsFor
<1>4. \A x \in own : Group(r[x]) = Group(r[e])
  BY <1>1, <1>3, SameCard
<1>5. \A x \in Together(r, f, e) : r[x].project = p
  BY <1>2 DEF Together, Group, OwnOf
<1>6. Together(r, f, e) = own
  BY <1>4, <1>5 DEF Together, OwnOf
<1>7. /\ s.total_budget = Sum(r, OfType(r, Together(r, f, e), "budget"))
      /\ s.total_spent = Sum(r, OfType(r, Together(r, f, e), "expense"))
  BY <1>1, CardFields
<1> QED BY <1>0, <1>2, <1>6, <1>7

LEMMA CardOfOwn ==
  ASSUME NEW r, NEW f, NEW p, NEW e \in EntriesOf(r, f), r[e].project = p
  PROVE  \E s \in Summary(r, f) : s.project = p
<1>1. CardOf(r, f, e) \in Summary(r, f) /\ CardOf(r, f, e).project = p
  BY SummaryIsCards, CardFields
<1> QED BY <1>1

\* A card is of a project that has entries.
LEMMA OwnOfCard ==
  ASSUME NEW r, NEW f, NEW p, NEW s \in Summary(r, f), s.project = p
  PROVE  \E e \in EntriesOf(r, f) : r[e].project = p
  BY SummaryIsCards, CardFields

\* Once no write of the page waits for its answer, what a fresh page shows is what
\* is stored, and a project with one card is said to be over its budget, or to be
\* so with its allocations, just when its stored entries say so, whatever loads
\* failed, mixed the answers or overtook each other
\* (Budget.jsx:35-42 and 140-171; postgres_service.py:72-90 of the service).
THEOREM CardsAreRight == Spec => []CardsRight
<1>1. ASSUME IInv PROVE CardsRight
  <2> SUFFICES ASSUME fresh, loads = << >>, ~Unanswered
               PROVE  /\ shown.projects = projects
                      /\ shown.entries = Entries(rows, filter)
                      /\ \A p \in Project :
                           LET limit   == IF projects[p] = Null THEN 0 ELSE projects[p].total
                               own     == {e \in EntriesOf(rows, filter) : rows[e].project = p}
                               spent   == Sum(rows, OfType(rows, own, "expense"))
                               planned == Sum(rows, OfType(rows, own, "budget"))
                               cards   == {s \in shown.summary : s.project = p} IN
                           /\ cards = {} <=> own = {}
                           /\ \A s \in cards : cards = {s} =>
                                /\ Says(s) = "over" <=> spent > limit
                                /\ Says(s) = "combined" <=> spent <= limit /\ spent + planned > limit
    BY DEF CardsRight
  <2>1. /\ shown.projects = projects /\ shown.entries = Entries(rows, filter)
        /\ shown.summary = Summary(rows, filter)
    <3>1. shown \in Answers({Tables}, filter)
      BY <1>1 DEF IInv, Told
    <3>2. Tables.projects = projects /\ Tables.rows = rows
      BY DEF Tables
    <3> QED BY <3>1, <3>2, ToldTables
  <2>2. rows \in Ledger
    BY <1>1 DEF IInv, Typed, Ledger
  <2>3. ASSUME NEW p \in Project
        PROVE  LET limit   == IF projects[p] = Null THEN 0 ELSE projects[p].total
                   own     == {e \in EntriesOf(rows, filter) : rows[e].project = p}
                   spent   == Sum(rows, OfType(rows, own, "expense"))
                   planned == Sum(rows, OfType(rows, own, "budget"))
                   cards   == {s \in shown.summary : s.project = p} IN
               /\ cards = {} <=> own = {}
               /\ \A s \in cards : cards = {s} =>
                    /\ Says(s) = "over" <=> spent > limit
                    /\ Says(s) = "combined" <=> spent <= limit /\ spent + planned > limit
    <3> DEFINE limit   == IF projects[p] = Null THEN 0 ELSE projects[p].total
               own     == {e \in EntriesOf(rows, filter) : rows[e].project = p}
               spent   == Sum(rows, OfType(rows, own, "expense"))
               planned == Sum(rows, OfType(rows, own, "budget"))
               cards   == {s \in shown.summary : s.project = p}
    <3>1. limit \in Int
      <4>1. projects[p] \in Budgeted \cup {Null}
        BY <1>1 DEF IInv, Typed
      <4>2. projects[p] # Null => projects[p].total \in Int
        BY <4>1, AmountAssumption DEF Budgeted
      <4> QED BY <4>2
    <3>2. ASSUME NEW s \in cards, cards = {s}
          PROVE  s.project = p /\ s.total_budget = planned /\ s.total_spent = spent
      <4>1. cards = CardsFor(rows, filter, p) /\ own = OwnOf(rows, filter, p)
        BY <2>1 DEF CardsFor, OwnOf
      <4>2. /\ spent = Sum(rows, OfType(rows, own, "expense"))
            /\ planned = Sum(rows, OfType(rows, own, "budget"))
        OBVIOUS
      <4>3. \A t, u \in cards : t = u
        BY <3>2
      <4> HIDE DEF cards, own, spent, planned
      <4>4. /\ own # {} /\ s.project = p
            /\ s.total_budget = Sum(rows, OfType(rows, own, "budget"))
            /\ s.total_spent = Sum(rows, OfType(rows, own, "expense"))
        BY <4>1, <4>3, OnlyCard
      <4> QED BY <4>2, <4>4
    <3>3. cards = {} <=> own = {}
      BY <2>1, CardOfOwn, OwnOfCard
    <3>4. spent \in Int /\ planned \in Int
      <4>1. /\ OfType(rows, own, "expense") \subseteq EntriesOf(rows, filter)
            /\ OfType(rows, own, "budget") \subseteq EntriesOf(rows, filter)
        BY DEF OfType
      <4> QED BY <2>2, <4>1, SumIsInt
    <3>5. BudgetTotal(p) = limit
      BY <2>1 DEF BudgetTotal
    <3> HIDE DEF limit, own, spent, planned, cards
    <3>6. ASSUME NEW s \in cards, cards = {s}
          PROVE  /\ Says(s) = "over" <=> spent > limit
                 /\ Says(s) = "combined" <=> spent <= limit /\ spent + planned > limit
      <4>1. /\ s.total_budget = planned /\ s.total_spent = spent
            /\ BudgetTotal(s.project) = limit
        BY <3>2, <3>5, <3>6
      <4>2. Says(s) = CASE spent > limit -> "over"
                        [] spent <= limit /\ spent + planned > limit -> "combined"
                        [] OTHER -> "remaining"
        BY <4>1 DEF Says
      <4>3. CASE spent > limit
        BY <3>1, <3>4, <4>2, <4>3
      <4>4. CASE spent <= limit
        BY <3>1, <3>4, <4>2, <4>4
      <4> QED BY <3>1, <3>4, <4>3, <4>4
    <3> QED BY <3>3, <3>6 DEF limit, own, spent, planned, cards
  <2> QED BY <2>1, <2>3
<1> QED BY <1>1, Invariance, PTL

-----------------------------------------------------------------------------
(***************************************************************************)
(* The dashboard                                                           *)
(***************************************************************************)
\* Adding up the list gives what adding up the table gives.
LEMMA ListAddsUp ==
  ASSUME NEW r, NEW p \in Project
  PROVE  LET list == Entries(r, Null) IN
         Sum(list, OfType(list, EntriesOf(list, p), "expense"))
           = Sum(r, OfType(r, EntriesOf(r, p), "expense"))
<1> DEFINE list == Entries(r, Null)
<1>1. p # Null
  BY NullAssumption
<1>2. \A e \in Id : list[e] = IF r[e] \notin {Null, Gone} THEN r[e] ELSE Null
  BY DEF Entries, EntriesOf
<1> HIDE DEF list
<1>3. /\ EntriesOf(list, p) = EntriesOf(r, p)
      /\ \A e \in EntriesOf(r, p) : list[e] = r[e]
  BY <1>1, <1>2 DEF EntriesOf
<1> DEFINE E == OfType(r, EntriesOf(r, p), "expense")
<1>4. OfType(list, EntriesOf(list, p), "expense") = E /\ \A e \in E : list[e] = r[e]
  BY <1>3 DEF OfType
<1> HIDE DEF E
<1>5. [e \in E |-> list[e].amount] = [e \in E |-> r[e].amount]
  BY <1>4
<1>6. Sum(list, E) = Sum(r, E)
  BY <1>5 DEF Sum
<1> QED BY <1>4, <1>6 DEF E, list

\* What the rows of a project leave adds up to what its entries do.
LEMMA RowsAddUp ==
  ASSUME NEW r \in Ledger, NEW p \in Project
  PROVE  LET rest == {s \in Summary(r, Null) : s.project = p}
             own  == EntriesOf(r, p) IN
         SumFunction([s \in rest |-> s.total_budget - s.total_spent])
           = Sum(r, OfType(r, own, "budget")) - Sum(r, OfType(r, own, "expense"))
<1> DEFINE rest == {s \in Summary(r, Null) : s.project = p}
           own  == EntriesOf(r, p)
           card == [e \in own |-> CardOf(r, Null, e)]
           left == [s \in rest |-> s.total_budget - s.total_spent]
           of(R) == {e \in own : card[e] \in R}
           balance(E) == Sum(r, OfType(r, E, "budget")) - Sum(r, OfType(r, E, "expense"))
<1>1. own = {e \in EntriesOf(r, Null) : r[e].project = p}
  BY NullAssumption DEF EntriesOf
<1>2. rest = {CardOf(r, Null, e) : e \in own}
  BY <1>1, SummaryIsCards, CardFields
<1>3. IsFiniteSet(rest)
  <2>1. own \subseteq Id
    BY DEF EntriesOf
  <2>2. IsFiniteSet(own)
    BY <2>1, IdAssumption, FS_Subset
  <2>3. card \in Surjection(own, rest)
    BY <1>2 DEF Surjection
  <2> HIDE DEF own, rest, card
  <2> QED BY <2>2, <2>3, FS_Surjection
<1>4. \A E \in SUBSET own : /\ Sum(r, OfType(r, E, "budget")) \in Int
                            /\ Sum(r, OfType(r, E, "expense")) \in Int
  <2> TAKE E \in SUBSET own
  <2>1. OfType(r, E, "budget") \subseteq own /\ OfType(r, E, "expense") \subseteq own
    BY DEF OfType
  <2> QED BY <2>1, SumIsInt
<1>5. ASSUME NEW s \in rest
      PROVE  left[s] = balance(of({s})) /\ of({s}) # {}
  <2>1. PICK e \in own : s = CardOf(r, Null, e)
    BY <1>2
  <2>2. \A x \in own : card[x] = s <=> Group(r[x]) = Group(r[e])
    BY <2>1, SameCard
  <2>3. \A x \in EntriesOf(r, Null) : Group(r[x]) = Group(r[e]) => x \in own
    BY <1>1, <2>1 DEF Group
  <2>4. Together(r, Null, e) = of({s})
    BY <1>1, <2>2, <2>3 DEF Together
  <2>5. left[s] = s.total_budget - s.total_spent
    OBVIOUS
  <2>6. left[s] = balance(of({s}))
    <3> HIDE DEF left, of
    <3> QED BY <2>1, <2>4, <2>5, CardFields
  <2>7. e \in of({s})
    BY <2>1
  <2> QED BY <2>6, <2>7
<1>6. \A A, B \in SUBSET own : A \cap B = {} => balance(A \cup B) = balance(A) + balance(B)
  <2> SUFFICES ASSUME NEW A \in SUBSET own, NEW B \in SUBSET own, A \cap B = {}
               PROVE  balance(A \cup B) = balance(A) + balance(B)
    OBVIOUS
  <2>1. /\ Sum(r, OfType(r, A \cup B, "budget"))
             = Sum(r, OfType(r, A, "budget")) + Sum(r, OfType(r, B, "budget"))
        /\ Sum(r, OfType(r, A \cup B, "expense"))
             = Sum(r, OfType(r, A, "expense")) + Sum(r, OfType(r, B, "expense"))
    BY PartsAddUp
  <2> QED BY <1>4, <2>1
<1>7. balance({}) = 0
  <2>1. OfType(r, {}, "budget") = {} /\ OfType(r, {}, "expense") = {}
    BY DEF OfType
  <2> QED BY <2>1, SumOfNothing
<1>8. \A E \in SUBSET own : balance(E) \in Int
  BY <1>4
<1>9. \A R \in SUBSET rest : of(R) \in SUBSET own
  OBVIOUS
<1>10. \A R \in SUBSET rest : \A s \in R :
         of(R) = of({s}) \cup of(R \ {s}) /\ of({s}) \cap of(R \ {s}) = {}
  OBVIOUS
<1>11. of({}) = {} /\ of(rest) = own
  BY <1>2
<1>12. \A s \in rest : left[s] \in Int
  BY <1>5, <1>8, <1>9
<1> HIDE DEF rest, own, card, left, of, balance
<1> DEFINE P == {R \in SUBSET rest : SumFunctionOnSet(left, R) = balance(of(R))}
<1>13. ASSUME NEW R \in SUBSET rest, \A U \in SUBSET R : U # R => U \in P
       PROVE  R \in P
  <2>1. CASE R = {}
    <3>1. SumFunctionOnSet(left, {}) = 0
      BY <1>3, SumSteps
    <3> QED BY <1>7, <1>11, <2>1, <3>1
  <2>2. CASE R # {}
    <3>1. PICK s \in R : SumFunctionOnSet(left, R) = left[s] + SumFunctionOnSet(left, R \ {s})
      BY <1>3, <2>2, SumSteps
    <3>2. SumFunctionOnSet(left, R \ {s}) = balance(of(R \ {s}))
      BY <1>13, <3>1
    <3>3. left[s] = balance(of({s}))
      BY <1>5
    <3>4. balance(of(R)) = balance(of({s})) + balance(of(R \ {s}))
      <4>1. of({s}) \in SUBSET own /\ of(R \ {s}) \in SUBSET own
        BY <1>9
      <4> QED BY <1>6, <1>10, <4>1
    <3>5. SumFunctionOnSet(left, R) = balance(of(R))
      BY <3>1, <3>2, <3>3, <3>4
    <3> QED BY <3>5
  <2> QED BY <2>1, <2>2
<1>14. SUBSET rest \subseteq P
  <2> HIDE DEF P
  <2> QED BY <1>3, <1>13, SubsetInduction
<1>15. SumFunctionOnSet(left, rest) = balance(own)
  BY <1>11, <1>14
<1>16. SumFunction(left) = balance(own)
  BY <1>15 DEF SumFunction, left
<1> QED BY <1>16 DEF rest, own, left, balance

\* The dashboard, as long as nothing was written since it was opened, shows the
\* projects, the spending and what is left as they are stored in whatever of it
\* has arrived: the sums it makes of the entries and those the service makes for
\* each name of a project come to the same, however a project's entries are
\* spread over names, and whichever requests failed (Dashboard.jsx:59-96 and
\* 149-169; postgres_service.py:72-90 of the service).
THEOREM BoardIsRight == Spec => []BoardAgrees
<1>1. ASSUME IInv PROVE BoardAgrees
  <2> SUFFICES ASSUME board # Null, board.answers # Null, board.seen = {Tables},
                      NEW p \in Project
               PROVE  LET own     == EntriesOf(rows, p)
                          planned == Sum(rows, OfType(rows, own, "budget"))
                          spent   == Sum(rows, OfType(rows, own, "expense")) IN
                      /\ "projects" \notin board.failed => OnBoard("projects")[p] = projects[p]
                      /\ "entries" \notin board.failed => SpentByProject(p) = spent
                      /\ "summary" \notin board.failed => Left(p) = planned - spent
    BY DEF BoardAgrees
  <2>1. /\ board.answers.projects = projects
        /\ board.answers.entries = Entries(rows, Null)
        /\ board.answers.summary = Summary(rows, Null)
    <3>1. board.answers \in Answers({Tables}, Null)
      BY <1>1 DEF IInv, Away
    <3>2. Tables.projects = projects /\ Tables.rows = rows
      BY DEF Tables
    <3> QED BY <3>1, <3>2, ToldTables
  <2>2. rows \in Ledger
    BY <1>1 DEF IInv, Typed, Ledger
  <2>3. "projects" \notin board.failed => OnBoard("projects")[p] = projects[p]
    BY <2>1 DEF OnBoard
  <2>4. "entries" \notin board.failed =>
          SpentByProject(p) = Sum(rows, OfType(rows, EntriesOf(rows, p), "expense"))
    <3>1. "entries" \notin board.failed => OnBoard("entries") = Entries(rows, Null)
      BY <2>1 DEF OnBoard
    <3> QED BY <3>1, ListAddsUp DEF SpentByProject
  <2>5. "summary" \notin board.failed =>
          Left(p) = Sum(rows, OfType(rows, EntriesOf(rows, p), "budget"))
                      - Sum(rows, OfType(rows, EntriesOf(rows, p), "expense"))
    <3>1. "summary" \notin board.failed => OnBoard("summary") = Summary(rows, Null)
      BY <2>1 DEF OnBoard
    <3> QED BY <2>2, <3>1, RowsAddUp DEF Left
  <2> QED BY <2>3, <2>4, <2>5
<1> QED BY <1>1, Invariance, PTL
=============================================================================
