--------------------------- MODULE ResourcesProofs ---------------------------
(***************************************************************************)
(* Proofs about Resources, for any number of resources, allocations,       *)
(* requests under way and slips.                                           *)
(***************************************************************************)
EXTENDS Resources, FiniteSetTheorems, WellFoundedInduction, TLAPS

-----------------------------------------------------------------------------
(***************************************************************************)
(* The invariant                                                           *)
(***************************************************************************)
Adding == [resource : Resource, hours : Hours, warned : BOOLEAN, sent : BOOLEAN]

\* A detail lists the allocations of its own resource.
Own(d) ==
  /\ d.resource \in Resource
  /\ d.allocations \subseteq Listed
  /\ \A a \in d.allocations : a.resource = d.resource

\* A list the page can show.
Readable(l) == \A r \in Resource : l[r] = Null \/ l[r].capacity \in Int

Reloading(requests) ==
  \A q \in requests : /\ q = [slot |-> q.slot, answer |-> q.answer]
                      /\ q.answer \notin {Null, Failed} => Readable(q.answer)

\* A detail request; its answer may be anything.
Request(q) ==
  /\ q = [slot |-> q.slot, resource |-> q.resource, for |-> q.for, answer |-> q.answer]
  /\ q.slot \in AllSlots /\ q.resource \in Resource
  /\ q.for \in {"open", "add", "remove"}
  /\ q.answer \notin {Null, Failed} => Own(q.answer)

Tables ==
  /\ capacity \in [Resource -> Int \cup {Null, Unborn, Gone}]
  /\ rows \in Seq([resource : Resource, hours : Hours] \cup {Gone})
  /\ \A a \in DOMAIN rows : rows[a] # Gone => Exists(rows[a].resource)

Dialog ==
  /\ open => form = Null
  /\ (open \/ shown # Null) => Own(shown)
  /\ adding \in Adding \cup {Null}
  /\ \A q \in details : Request(q)
  /\ \A q1, q2 \in details : (q1.for = "add" /\ q2.for = "add") => q1 = q2

\* An untouched form holds the capacity that is stored.
Unchanged(f) == (f.editing # Null /\ ~f.touched) => f.capacity = capacity[f.editing]

\* Without a slip the list is what is stored unless a reload of it is to come,
\* no allocation is made while a form is open or saved, and one request is under
\* way at a time, whose answer no change of the tables makes old.
InOrder ==
  /\ Listable
  /\ (/\ reloads = {}
      /\ adding = Null \/ ~adding.sent
      /\ \A q \in details : q.for = "open") => list = Listing
  /\ form # Null => adding = Null /\ Unchanged(form)
  /\ saving # Null => adding = Null /\ details = {} /\ Unchanged(saving)
  /\ \A q1, q2 \in details : q1 = q2
  /\ \A q \in details : q.for # "add" => adding = Null
  /\ adding # Null /\ ~adding.sent => details = {}
  /\ reloads # {} => details = {} /\ adding = Null /\ saving = Null
  /\ \A q1, q2 \in reloads : q1 = q2
  /\ \A q \in reloads : q.answer \in {Null, Listing}

IInv == TypeOK /\ Tables /\ Reloading(reloads) /\ Dialog /\ (slips = 0 => InOrder)

\* What TypeOK says of the page.
PageType ==
  /\ Readable(list) /\ Reloading(reloads)
  /\ {open, loading} \subseteq BOOLEAN
  /\ {form, saving} \subseteq Form \cup {Null}
  /\ \A q \in details : q.for = "add" => adding # Null /\ adding.sent
  /\ slips \in 0 .. MaxSlips

-----------------------------------------------------------------------------
(***************************************************************************)
(* Sums.  SumFunctionOnSet is a recursion over the subsets of a finite     *)
(* set, whose facts are proved from the well-foundedness of their order.   *)
(***************************************************************************)
\* The element MapThenFoldSet takes out of a set.
Some(T) == CHOOSE x \in T : TRUE

\* iter adds up f over every subset of S, as SumFunctionOnSet does.
AddsUp(iter, f, S) ==
  iter = [s \in SUBSET S |->
            IF s = {} THEN 0 ELSE f[Some(s)] + iter[s \ {Some(s)}]]

\* What holds of a set as soon as it holds of all its subsets holds of every
\* finite set.
LEMMA SubsetInduction ==
  ASSUME NEW S, IsFiniteSet(S), NEW P,
         \A T \in SUBSET S : (\A U \in SUBSET T : U # T => U \in P) => T \in P
  PROVE  SUBSET S \subseteq P
<1> DEFINE Rest == (SUBSET S) \ P
<1> SUFFICES ASSUME Rest # {} PROVE FALSE
  OBVIOUS
<1>1. Rest \subseteq FiniteSubsetsOf(S)
  BY FS_Subset DEF FiniteSubsetsOf
<1>2. PICK T \in Rest : \A U \in Rest : ~(<<U, T>> \in StrictSubsetOrdering(S))
  <2>1. IsWellFoundedOn(StrictSubsetOrdering(S), FiniteSubsetsOf(S))
    BY FS_StrictSubsetOrderingWellFounded
  <2> HIDE DEF Rest
  <2> QED BY <1>1, <2>1, WFMin
<1>3. \A U \in SUBSET T : U # T => U \in P
  BY <1>2 DEF StrictSubsetOrdering
<1> QED BY <1>2, <1>3

LEMMA AddsUpStep ==
  ASSUME NEW f, NEW S, NEW iter, AddsUp(iter, f, S), NEW T \in SUBSET S
  PROVE  /\ T = {} => iter[T] = 0
         /\ T # {} => Some(T) \in T /\ iter[T] = f[Some(T)] + iter[T \ {Some(T)}]
<1>1. iter[T] = IF T = {} THEN 0 ELSE f[Some(T)] + iter[T \ {Some(T)}]
  BY DEF AddsUp
<1>2. T # {} => Some(T) \in T
  BY DEF Some
<1> QED BY <1>1, <1>2

LEMMA AddsUpOnce ==
  ASSUME NEW f, NEW S, IsFiniteSet(S), NEW R, NEW i, NEW j, AddsUp(i, f, S), AddsUp(j, f, R)
  PROVE  \A T \in SUBSET S : T \subseteq R => i[T] = j[T]
<1> DEFINE P == {T \in SUBSET S : T \subseteq R => i[T] = j[T]}
<1>1. ASSUME NEW T \in SUBSET S, \A U \in SUBSET T : U # T => U \in P
      PROVE  T \in P
  <2> SUFFICES ASSUME T \subseteq R PROVE i[T] = j[T]
    OBVIOUS
  <2> DEFINE x == Some(T)
  <2>1. CASE T = {}
    BY <2>1, AddsUpStep
  <2>2. CASE T # {}
    <3>1. x \in T /\ i[T] = f[x] + i[T \ {x}] /\ j[T] = f[x] + j[T \ {x}]
      BY <2>2, AddsUpStep
    <3>2. i[T \ {x}] = j[T \ {x}]
      BY <1>1, <3>1
    <3> QED BY <3>1, <3>2
  <2> QED BY <2>1, <2>2
<1> HIDE DEF P
<1>2. SUBSET S \subseteq P
  BY <1>1, SubsetInduction
<1> QED BY <1>2 DEF P

LEMMA SumAsAdded ==
  ASSUME NEW f, NEW S, IsFiniteSet(S), NEW iter, AddsUp(iter, f, S)
  PROVE  \A T \in SUBSET S : SumFunctionOnSet(f, T) = iter[T]
<1> SUFFICES ASSUME NEW T \in SUBSET S PROVE SumFunctionOnSet(f, T) = iter[T]
  OBVIOUS
<1> DEFINE part == [s \in SUBSET T |-> iter[s]]
<1>1. AddsUp(part, f, T)
  <2>1. ASSUME NEW s \in SUBSET T
        PROVE  part[s] = IF s = {} THEN 0 ELSE f[Some(s)] + part[s \ {Some(s)}]
    BY AddsUpStep
  <2> HIDE DEF part
  <2>2. part = [s \in SUBSET T |-> part[s]]
    BY DEF part
  <2> QED BY <2>1, <2>2 DEF AddsUp
<1> DEFINE chosen == CHOOSE i : AddsUp(i, f, T)
<1>2. SumFunctionOnSet(f, T) = chosen[T]
  BY DEF SumFunctionOnSet, FoldFunctionOnSet, MapThenFoldSet, AddsUp, Some
<1> HIDE DEF part
<1>3. AddsUp(chosen, f, T)
  BY <1>1
<1> HIDE DEF chosen
<1>4. IsFiniteSet(T)
  BY FS_Subset
<1> QED BY <1>2, <1>3, <1>4, AddsUpOnce

LEMMA SomethingAddsUp ==
  ASSUME NEW f, NEW S, IsFiniteSet(S)
  PROVE  \E iter : AddsUp(iter, f, S)
<1> DEFINE P == {T \in SUBSET S : \E iter : AddsUp(iter, f, T)}
<1>1. ASSUME NEW T \in SUBSET S, \A U \in SUBSET T : U # T => U \in P
      PROVE  T \in P
  <2> DEFINE sum(s) == SumFunctionOnSet(f, s)
             top == IF T = {} THEN 0 ELSE f[Some(T)] + sum(T \ {Some(T)})
             iter == [s \in SUBSET T |-> IF s = T THEN top ELSE sum(s)]
  <2>1. ASSUME NEW s \in SUBSET T
        PROVE  iter[s] = IF s = {} THEN 0 ELSE f[Some(s)] + iter[s \ {Some(s)}]
    <3>1. CASE s = T
      <4>1. T # {} => Some(T) \in T
        BY DEF Some
      <4>2. T # {} => iter[T \ {Some(T)}] = sum(T \ {Some(T)})
        BY <4>1
      <4>3. iter[T] = top
        OBVIOUS
      <4> QED BY <3>1, <4>2, <4>3
    <3>2. CASE s # T
      <4>1. PICK i : AddsUp(i, f, s)
        BY <1>1, <3>2
      <4>2. IsFiniteSet(s)
        BY FS_Subset
      <4>3. \A t \in SUBSET s : sum(t) = i[t]
        BY <4>1, <4>2, SumAsAdded
      <4>4. \A t \in SUBSET s : iter[t] = sum(t)
        BY <3>2
      <4> HIDE DEF iter, sum
      <4>5. \A t \in SUBSET s : iter[t] = i[t]
        BY <4>3, <4>4
      <4> QED BY <4>1, <4>5, AddsUpStep
    <3> QED BY <3>1, <3>2
  <2>2. iter = [s \in SUBSET T |-> iter[s]]
    OBVIOUS
  <2> HIDE DEF iter
  <2>3. AddsUp(iter, f, T)
    BY <2>1, <2>2 DEF AddsUp
  <2> QED BY <2>3
<1> HIDE DEF P
<1>2. SUBSET S \subseteq P
  BY <1>1, SubsetInduction
<1> QED BY <1>2 DEF P

LEMMA SumSteps ==
  ASSUME NEW f, NEW S, IsFiniteSet(S)
  PROVE  /\ SumFunctionOnSet(f, {}) = 0
         /\ \A T \in SUBSET S : T # {} =>
              \E x \in T : SumFunctionOnSet(f, T) = f[x] + SumFunctionOnSet(f, T \ {x})
<1>1. PICK iter : AddsUp(iter, f, S)
  BY SomethingAddsUp
<1>2. \A T \in SUBSET S : SumFunctionOnSet(f, T) = iter[T]
  BY <1>1, SumAsAdded
<1>3. SumFunctionOnSet(f, {}) = 0
  <2>1. iter[{}] = 0
    BY <1>1, AddsUpStep
  <2> QED BY <1>2, <2>1
<1>4. ASSUME NEW T \in SUBSET S, T # {}
      PROVE  \E x \in T : SumFunctionOnSet(f, T) = f[x] + SumFunctionOnSet(f, T \ {x})
  <2> DEFINE x == Some(T)
  <2>1. x \in T /\ iter[T] = f[x] + iter[T \ {x}]
    <3> HIDE DEF x
    <3>1. AddsUp(iter, f, S) /\ T # {} /\ x = Some(T)
      BY <1>1, <1>4 DEF x
    <3> QED BY <3>1, AddsUpStep
  <2>2. iter[T \ {x}] = SumFunctionOnSet(f, T \ {x}) /\ iter[T] = SumFunctionOnSet(f, T)
    BY <1>2
  <2> QED BY <2>1, <2>2
<1> QED BY <1>3, <1>4

\* A sum of integers is an integer, whichever summand is taken out first.
LEMMA SumTakesOut ==
  ASSUME NEW S, IsFiniteSet(S), NEW f, \A x \in S : f[x] \in Int
  PROVE  /\ SumFunctionOnSet(f, S) \in Int
         /\ \A x \in S : SumFunctionOnSet(f, S) = f[x] + SumFunctionOnSet(f, S \ {x})
<1> DEFINE sum(T) == SumFunctionOnSet(f, T)
           P == {T \in SUBSET S : /\ sum(T) \in Int
                                  /\ \A x \in T : sum(T) = f[x] + sum(T \ {x})}
<1>0. sum({}) = 0 /\ \A T \in SUBSET S : T # {} => \E x \in T : sum(T) = f[x] + sum(T \ {x})
  BY SumSteps
<1> HIDE DEF sum
<1>1. ASSUME NEW T \in SUBSET S, \A U \in SUBSET T : U # T => U \in P
      PROVE  T \in P
  <2>1. CASE T = {}
    BY <2>1, <1>0
  <2>2. CASE T # {}
    <3>1. PICK c \in T : sum(T) = f[c] + sum(T \ {c})
      BY <2>2, <1>0
    <3>2. sum(T \ {c}) \in Int /\ \A x \in T \ {c} : sum(T \ {c}) = f[x] + sum((T \ {c}) \ {x})
      BY <1>1, <3>1
    <3>3. sum(T) \in Int
      BY <3>1, <3>2
    <3>4. ASSUME NEW x \in T PROVE sum(T) = f[x] + sum(T \ {x})
      <4>1. CASE x = c
        BY <3>1, <4>1
      <4>2. CASE x # c
        <5>1. T \ {x} \in P /\ c \in T \ {x} /\ (T \ {c}) \ {x} \in P
          BY <1>1, <4>2
        <5>2. (T \ {x}) \ {c} = (T \ {c}) \ {x}
          OBVIOUS
        <5>3. sum(T \ {x}) = f[c] + sum((T \ {c}) \ {x})
          BY <5>1, <5>2
        <5>4. sum(T \ {c}) = f[x] + sum((T \ {c}) \ {x})
          BY <3>2, <4>2
        <5>5. sum((T \ {c}) \ {x}) \in Int /\ f[c] \in Int /\ f[x] \in Int
          BY <5>1
        <5> QED BY <3>1, <5>3, <5>4, <5>5
      <4> QED BY <4>1, <4>2
    <3> QED BY <3>3, <3>4
  <2> QED BY <2>1, <2>2
<1>2. SUBSET S \subseteq P
  <2> HIDE DEF P
  <2> QED BY <1>1, SubsetInduction
<1> QED BY <1>2 DEF sum

\* A sum depends on its summands only.
LEMMA SumAlike ==
  ASSUME NEW S, IsFiniteSet(S), NEW f, NEW g, \A x \in S : f[x] = g[x]
  PROVE  SumFunctionOnSet(f, S) = SumFunctionOnSet(g, S)
<1>1. PICK iter : AddsUp(iter, f, S)
  BY SomethingAddsUp
<1>2. \A s \in SUBSET S : s # {} => Some(s) \in S
  BY DEF Some
<1>3. AddsUp(iter, g, S)
  <2>1. ASSUME NEW s \in SUBSET S
        PROVE  iter[s] = IF s = {} THEN 0 ELSE g[Some(s)] + iter[s \ {Some(s)}]
    BY <1>1, <1>2, AddsUpStep
  <2>2. iter = [s \in SUBSET S |-> iter[s]]
    BY <1>1 DEF AddsUp
  <2> QED BY <2>1, <2>2 DEF AddsUp
<1>4. SumFunctionOnSet(f, S) = iter[S] /\ SumFunctionOnSet(g, S) = iter[S]
  BY <1>1, <1>3, SumAsAdded
<1> QED BY <1>4

-----------------------------------------------------------------------------
(***************************************************************************)
(* Lemmas                                                                  *)
(***************************************************************************)
\* A user who acts without a slip has nothing under way.
LEMMA QuietFacts ==
  ASSUME TypeOK, Careful(Quiet)
  PROVE  slips' \in 0 .. MaxSlips /\ (slips' = 0 => slips = 0 /\ Quiet)
  BY BoundsAssumption DEF TypeOK, Careful

LEMMA SlipFacts ==
  ASSUME TypeOK, Careful(FALSE)
  PROVE  slips' \in 0 .. MaxSlips /\ slips' # 0
  BY BoundsAssumption DEF TypeOK, Careful

LEMMA OwnDetail ==
  ASSUME Tables, NEW r \in Resource
  PROVE  Own(DetailOf(r)) /\ DetailOf(r).resource = r
<1>1. AllocationsOf(r) \subseteq Nat
  BY DEF Tables, AllocationsOf
<1>2. DetailOf(r).allocations = {[id |-> a, resource |-> r] : a \in AllocationsOf(r)}
  BY DEF DetailOf
<1>3. DetailOf(r).resource = r
  BY DEF DetailOf
<1> QED BY <1>1, <1>2, <1>3 DEF Own, Listed

\* The hours of a resource are an integer.
LEMMA AllocatedFacts ==
  ASSUME Tables, NEW r \in Resource
  PROVE  /\ IsFiniteSet(AllocationsOf(r)) /\ AllocationsOf(r) \subseteq DOMAIN rows
         /\ \A a \in AllocationsOf(r) : rows[a].hours \in Int
         /\ Allocated(r) \in Int
<1> DEFINE A == AllocationsOf(r)
           f == [a \in A |-> rows[a].hours]
<1>1. A \subseteq DOMAIN rows /\ DOMAIN rows = 1 .. Len(rows) /\ Len(rows) \in Nat
  BY DEF AllocationsOf, Tables
<1>2. IsFiniteSet(A)
  <2>1. IsFiniteSet(1 .. Len(rows))
    BY <1>1, FS_Interval
  <2> HIDE DEF A
  <2> QED BY <1>1, <2>1, FS_Subset
<1>3. \A a \in A : rows[a].hours \in Int
  <2>1. ASSUME NEW a \in A PROVE rows[a] \in [resource : Resource, hours : Hours]
    BY DEF AllocationsOf, Tables
  <2> QED BY <2>1, HoursAssumption
<1>4. Allocated(r) = SumFunctionOnSet(f, A)
  BY DEF Allocated, SumFunction
<1>5. \A a \in A : f[a] \in Int
  BY <1>3
<1> HIDE DEF f, A
<1>6. SumFunctionOnSet(f, A) \in Int
  BY <1>2, <1>5, SumTakesOut
<1> QED BY <1>1, <1>2, <1>3, <1>4, <1>6 DEF A

LEMMA MaxOfTwo ==
  ASSUME NEW i \in Int
  PROVE  Max({0, i}) \in Int
  BY DEF Max

\* What the list says of a resource.
LEMMA ListingFacts ==
  ASSUME Tables, Listable, NEW r \in Resource, Listing[r] # Null
  PROVE  Exists(r) /\ Listing[r].capacity = capacity[r] /\ capacity[r] \in Int
  BY DEF Tables, Listable, Listing, Exists, Row

LEMMA ListingReadable ==
  ASSUME Tables, Listable
  PROVE  Readable(Listing) /\ Listing \in List
<1>1. Readable(Listing)
  BY ListingFacts DEF Readable
<1>2. ASSUME NEW r \in Resource
      PROVE  Listing[r] \in ShownRow \cup {Null}
  <2>1. Exists(r) => capacity[r] \in Int
    BY DEF Tables, Listable, Exists
  <2>2. Allocated(r) \in Int
    BY AllocatedFacts
  <2>3. ASSUME Exists(r) PROVE Max({0, capacity[r] - Allocated(r)}) \in Int
    BY <2>1, <2>2, <2>3, MaxOfTwo
  <2> QED BY <2>1, <2>2, <2>3 DEF Listing, Row, ShownRow
<1>3. Listing = [r \in Resource |-> Listing[r]]
  BY DEF Listing
<1> HIDE DEF Listing
<1> QED BY <1>1, <1>2, <1>3 DEF List

\* A reload that is asked for joins the ones under way, unanswered.
LEMMA ReloadFacts ==
  ASSUME IInv, ReloadList
  PROVE  /\ Reloading(reloads') /\ reloads' # {}
         /\ reloads = {} => /\ \A q1, q2 \in reloads' : q1 = q2
                           /\ \A q \in reloads' : q.answer = Null
<1>1. PICK n \in Slots : reloads' = reloads \cup {[slot |-> n, answer |-> Null]}
  BY DEF ReloadList
<1> DEFINE q == [slot |-> n, answer |-> Null]
<1>2. q = [slot |-> q.slot, answer |-> q.answer] /\ q.answer = Null
  OBVIOUS
<1> HIDE DEF q
<1> QED BY <1>1, <1>2 DEF q, IInv, Reloading

\* A request that is asked for joins the ones under way, unanswered.
LEMMA AskFacts ==
  ASSUME NEW r \in Resource, NEW for \in {"open", "add", "remove"}, Ask(r, for),
         \A q \in details : Request(q)
  PROVE  /\ \A q \in details' : Request(q)
         /\ \A q \in details' : q \in details \/ q.for = for
         /\ \E q \in details' : q.for = for
<1>1. PICK n \in AllSlots :
        details' = details \cup
          {[slot |-> n, resource |-> r, for |-> for, answer |-> Null]}
  BY DEF Ask, AllSlots
<1> DEFINE q == [slot |-> n, resource |-> r, for |-> for, answer |-> Null]
<1>2. Request(q) /\ q.for = for
  BY DEF Request
<1> HIDE DEF q
<1> QED BY <1>1, <1>2 DEF q

\* What is asked for when nothing is under way is the only detail under way.
LEMMA AskAlone ==
  ASSUME details = {}, NEW r, NEW for, Ask(r, for)
  PROVE  \E q : details' = {q} /\ q.resource = r /\ q.for = for /\ q.answer = Null
<1>1. PICK n : details' = {[slot |-> n, resource |-> r, for |-> for, answer |-> Null]}
  BY DEF Ask
<1> DEFINE q == [slot |-> n, resource |-> r, for |-> for, answer |-> Null]
<1>2. q.resource = r /\ q.for = for /\ q.answer = Null
  OBVIOUS
<1> HIDE DEF q
<1> QED BY <1>1, <1>2 DEF q

LEMMA InitSound == Init => IInv
<1> SUFFICES ASSUME Init PROVE IInv
  OBVIOUS
<1>1. Tables
  BY CapacityAssumption DEF Init, Tables
<1>2. \A r \in Resource : capacity[r] = IF r \in Staff THEN Default ELSE Unborn
  BY DEF Init
<1>3. Listable
  BY <1>2, CapacityAssumption, MarksAssumption DEF Listable
<1>4. \A r \in Resource : list[r] = Null \/ list[r].capacity \in Int
  BY <1>1, <1>3, ListingFacts DEF Init
<1>5. TypeOK
  <2>1. rows = << >> /\ DOMAIN rows = {}
    BY DEF Init
  <2>2. \A r \in Resource : capacity[r] \in Int \cup {Null, Unborn, Gone}
    BY <1>1 DEF Tables
  <2>3. {open, loading} \subseteq BOOLEAN /\ {form, saving} \subseteq Form \cup {Null}
    BY DEF Init
  <2>4. slips \in 0 .. MaxSlips
    BY BoundsAssumption DEF Init
  <2>5. ~open /\ shown = Null /\ adding = Null /\ details = {}
    BY DEF Init
  <2> QED BY <1>4, <2>1, <2>2, <2>3, <2>4, <2>5 DEF TypeOK
<1>6. Dialog /\ InOrder /\ Reloading(reloads)
  BY <1>3 DEF Init, Dialog, InOrder, Reloading
<1> QED BY <1>1, <1>5, <1>6 DEF IInv

-----------------------------------------------------------------------------
(***************************************************************************)
(* The service's operations keep the tables                                *)
(***************************************************************************)
LEMMA CreateResourceTables ==
  ASSUME Tables, NEW c \in Int \cup {Null}, CreateResource(c)
  PROVE  Tables'
<1>1. PICK r \in Resource : capacity[r] = Unborn /\ capacity' = [capacity EXCEPT ![r] = c]
  BY DEF CreateResource
<1>2. rows' = rows
  BY DEF CreateResource
<1>3. \A o \in Resource : Exists(o) => Exists(o)'
  BY <1>1 DEF Tables, Exists
<1>4. \A a \in DOMAIN rows : rows[a] # Gone => rows[a].resource \in Resource
  BY DEF Tables
<1> QED BY <1>1, <1>2, <1>3, <1>4 DEF Tables, Exists

LEMMA UpdateResourceTables ==
  ASSUME Tables, NEW r \in Resource, NEW c \in Int \cup {Null}, UpdateResource(r, c)
  PROVE  Tables'
<1>1. rows' = rows /\ capacity' = IF c = Null THEN capacity ELSE [capacity EXCEPT ![r] = c]
  BY DEF UpdateResource
<1>2. \A o \in Resource : Exists(o) => Exists(o)'
  BY <1>1, MarksAssumption DEF Tables, Exists
<1>3. \A a \in DOMAIN rows : rows[a] # Gone => rows[a].resource \in Resource
  BY DEF Tables
<1> QED BY <1>1, <1>2, <1>3 DEF Tables, Exists

LEMMA DeleteResourceTables ==
  ASSUME Tables, NEW r \in Resource, DeleteResource(r)
  PROVE  Tables'
<1>1. capacity' = [capacity EXCEPT ![r] = Gone]
  BY DEF DeleteResource
<1>2. rows' = [a \in DOMAIN rows |-> IF a \in AllocationsOf(r) THEN Gone ELSE rows[a]]
  BY DEF DeleteResource, Cascaded
<1>3. rows' \in Seq([resource : Resource, hours : Hours] \cup {Gone}) /\ DOMAIN rows' = DOMAIN rows
  BY <1>2 DEF Tables
<1>4. ASSUME NEW a \in DOMAIN rows, rows'[a] # Gone
      PROVE  capacity'[rows'[a].resource] \notin {Unborn, Gone}
  BY <1>1, <1>2, <1>4 DEF Tables, AllocationsOf, Exists
<1> QED BY <1>1, <1>3, <1>4 DEF Tables, Exists

LEMMA CreateAllocationTables ==
  ASSUME Tables, NEW r \in Resource, NEW h \in Hours, CreateAllocation(r, h)
  PROVE  Tables'
<1> DEFINE row == [resource |-> r, hours |-> h]
<1>1. rows' = Append(rows, row) /\ capacity' = capacity /\ Exists(r)
  BY DEF CreateAllocation
<1>2. row \in [resource : Resource, hours : Hours] /\ row.resource = r
  OBVIOUS
<1> HIDE DEF row
<1>3. rows' \in Seq([resource : Resource, hours : Hours] \cup {Gone})
  BY <1>1, <1>2 DEF Tables
<1>4. ASSUME NEW a \in DOMAIN rows', rows'[a] # Gone
      PROVE  Exists(rows'[a].resource)
  <2>1. CASE a = Len(rows) + 1
    BY <1>1, <1>2, <2>1 DEF Tables
  <2>2. CASE a # Len(rows) + 1
    BY <1>1, <1>2, <1>4, <2>2 DEF Tables
  <2> QED BY <2>1, <2>2
<1> QED BY <1>1, <1>3, <1>4 DEF Tables, Exists

LEMMA DeleteAllocationTables ==
  ASSUME Tables, NEW a \in Nat, DeleteAllocation(a)
  PROVE  Tables'
<1>1. rows' = [rows EXCEPT ![a] = Gone] /\ capacity' = capacity
  BY DEF DeleteAllocation
<1>2. rows' = [o \in DOMAIN rows |-> IF o = a THEN Gone ELSE rows[o]]
  BY <1>1 DEF Tables
<1>3. rows' \in Seq([resource : Resource, hours : Hours] \cup {Gone}) /\ DOMAIN rows' = DOMAIN rows
  BY <1>2 DEF Tables
<1>4. \A o \in DOMAIN rows' : rows'[o] # Gone => rows'[o] = rows[o]
  BY <1>2
<1> QED BY <1>1, <1>3, <1>4 DEF Tables, Exists

-----------------------------------------------------------------------------
(***************************************************************************)
(* The steps keep the invariant                                            *)
(***************************************************************************)
\* The parts from which the invariant is put together.
LEMMA Together ==
  ASSUME Tables', PageType', Dialog', slips' = 0 => InOrder'
  PROVE  IInv'
<1>1. (\A a \in DOMAIN rows :
         rows[a] = Gone \/ (rows[a].resource \in Resource /\ rows[a].hours \in Hours))'
  BY DEF Tables
<1>2. (\A r \in Resource : capacity[r] \in Int \cup {Null, Unborn, Gone})'
  BY DEF Tables
<1>3. ((open \/ shown # Null) =>
         (shown.resource \in Resource /\ shown.allocations \subseteq Listed))'
  BY DEF Dialog, Own
<1>4. (adding = Null \/ (adding.resource \in Resource /\ adding.hours \in Hours))'
  BY DEF Dialog, Adding
<1>5. (\A q \in details : q.slot \in AllSlots /\ q.for \in {"open", "add", "remove"})'
  BY DEF Dialog, Request
<1>6. TypeOK'
  BY <1>1, <1>2, <1>3, <1>4, <1>5 DEF TypeOK, PageType, Readable
<1> QED BY <1>6 DEF IInv, PageType

\* Tables, Dialog and what is listed stay as they are with their variables.
LEMMA TablesStay ==
  ASSUME IInv, UNCHANGED tables
  PROVE  Tables' /\ Listing' = Listing /\ Listable' = Listable
<1>1. capacity' = capacity /\ rows' = rows
  BY DEF tables
<1>2. Tables'
  BY <1>1 DEF IInv, Tables, Exists
<1>3. \A r \in Resource : AllocationsOf(r)' = AllocationsOf(r)
  BY <1>1 DEF AllocationsOf
<1>4. \A r \in Resource : Allocated(r)' = Allocated(r)
  BY <1>1, <1>3 DEF Allocated
<1>5. Listing' = Listing
  BY <1>1, <1>4 DEF Listing, Row, Exists
<1> QED BY <1>1, <1>2, <1>5 DEF Listable

LEMMA DialogStays ==
  ASSUME IInv, UNCHANGED dialog, form' \in {form, Null}
  PROVE  Dialog'
  BY DEF IInv, dialog, Dialog, Own, Request

LEMMA ServeListKeeps == ASSUME IInv, NEW n \in Slots, ServeList(n) PROVE IInv'
<1>1. Tables' /\ Listing' = Listing /\ Listable' = Listable
  BY TablesStay DEF ServeList
<1>2. Dialog'
  BY DialogStays DEF ServeList, editor
<1> DEFINE answer == IF Listable THEN Listing ELSE Failed
<1>3. PICK q \in reloads :
        /\ q.answer = Null
        /\ reloads' = (reloads \ {q}) \cup {[q EXCEPT !.answer = answer]}
  BY DEF ServeList
<1>4. answer \notin {Null, Failed} => Readable(answer)
  BY ListingReadable DEF IInv
<1>5. Listable => answer = Listing
  OBVIOUS
<1> HIDE DEF answer
<1> DEFINE served == [slot |-> q.slot, answer |-> answer]
<1>6. q = [slot |-> q.slot, answer |-> q.answer]
  BY DEF IInv, Reloading
<1>7. reloads' = (reloads \ {q}) \cup {served}
  BY <1>3, <1>6
<1>8. served = [slot |-> served.slot, answer |-> served.answer] /\ served.answer = answer
  OBVIOUS
<1> HIDE DEF served
<1>9. Reloading(reloads')
  BY <1>4, <1>7, <1>8 DEF IInv, Reloading
<1>10. PageType'
  BY <1>9 DEF IInv, TypeOK, PageType, Readable, ServeList, editor, dialog
<1>11. slips' = 0 => InOrder'
  BY <1>1, <1>5, <1>7, <1>8 DEF IInv, InOrder, Unchanged, ServeList, editor, dialog, tables
<1> QED BY <1>1, <1>2, <1>10, <1>11, Together

LEMMA ShowListKeeps == ASSUME IInv, NEW n \in Slots, ShowList(n) PROVE IInv'
<1>1. Tables' /\ Listing' = Listing /\ Listable' = Listable
  BY TablesStay DEF ShowList
<1>2. Dialog'
  BY DialogStays DEF ShowList, editor
<1>3. PICK q \in reloads :
        /\ \/ q.answer \notin {Null, Failed} /\ list' = q.answer /\ Careful(TRUE)
           \/ list' = list /\ Careful(q.answer = Failed)
        /\ reloads' = reloads \ {q}
  BY DEF ShowList
<1>4. slips' \in 0 .. MaxSlips /\ (slips' = 0 => slips = 0)
  BY <1>3, BoundsAssumption DEF IInv, TypeOK, Careful
<1>5. Readable(list')
  BY <1>3 DEF IInv, TypeOK, Reloading, Readable
<1>6. Reloading(reloads')
  BY <1>3 DEF IInv, Reloading
<1>7. PageType'
  BY <1>4, <1>5, <1>6 DEF IInv, TypeOK, PageType, Readable, ShowList, editor, dialog
<1>8. slips' = 0 => InOrder'
  <2> SUFFICES ASSUME slips' = 0 PROVE InOrder'
    OBVIOUS
  <2>1. slips = 0 /\ InOrder
    BY <1>4 DEF IInv
  <2>2. Listing # Failed
    BY <2>1, ListingReadable, FailedAssumption DEF IInv, InOrder
  <2>3. q.answer # Failed
    BY <2>1, <2>2, FailedAssumption DEF InOrder
  <2>4. list' = Listing
    BY <1>3, <2>1, <2>3, SlipFacts DEF IInv, InOrder, Careful
  <2>5. reloads' = {}
    BY <1>3, <2>1 DEF InOrder
  <2> QED BY <1>1, <2>1, <2>4, <2>5 DEF InOrder, Unchanged, ShowList, editor, dialog, tables
<1> QED BY <1>1, <1>2, <1>7, <1>8, Together

LEMMA OpenCreateKeeps == ASSUME IInv, OpenCreate PROVE IInv'
<1>1. Tables' /\ Listing' = Listing /\ Listable' = Listable
  BY TablesStay DEF OpenCreate
<1>2. form' \in Form /\ form'.editing = Null /\ ~open
  BY CapacityAssumption DEF OpenCreate, Empty, Form, Uncovered
<1>3. Dialog'
  BY <1>2 DEF IInv, OpenCreate, dialog, Dialog, Own, Request
<1>4. slips' \in 0 .. MaxSlips /\ (slips' = 0 => slips = 0 /\ Quiet)
  BY QuietFacts DEF IInv, OpenCreate
<1>5. PageType'
  BY <1>2, <1>4 DEF IInv, TypeOK, PageType, Readable, OpenCreate, dialog
<1>6. slips' = 0 => InOrder'
  BY <1>1, <1>2, <1>4 DEF IInv, InOrder, Unchanged, OpenCreate, Quiet, dialog, tables
<1> QED BY <1>1, <1>3, <1>5, <1>6, Together

LEMMA OpenEditKeeps == ASSUME IInv, NEW r \in Resource, OpenEdit(r) PROVE IInv'
<1>1. Tables' /\ Listing' = Listing /\ Listable' = Listable
  BY TablesStay DEF OpenEdit
<1>2. list[r] # Null /\ list[r].capacity \in Int
  BY DEF OpenEdit, IInv, TypeOK
<1>3. /\ form' \in Form /\ form'.editing = r /\ form'.capacity = list[r].capacity
      /\ ~open
  BY <1>2 DEF OpenEdit, FormOf, Form, Uncovered
<1>4. Dialog'
  BY <1>3 DEF IInv, OpenEdit, dialog, Dialog, Own, Request
<1>5. slips' \in 0 .. MaxSlips /\ (slips' = 0 => slips = 0 /\ Quiet)
  BY QuietFacts DEF IInv, OpenEdit
<1>6. PageType'
  BY <1>3, <1>5 DEF IInv, TypeOK, PageType, Readable, OpenEdit, dialog
<1>7. slips' = 0 => form'.capacity = capacity[r]
  BY <1>2, <1>3, <1>5, ListingFacts DEF IInv, InOrder, Quiet
<1>8. slips' = 0 => InOrder'
  BY <1>1, <1>3, <1>5, <1>7 DEF IInv, InOrder, Unchanged, OpenEdit, Quiet, dialog, tables
<1> QED BY <1>1, <1>4, <1>6, <1>8, Together

LEMMA ChangeFormKeeps == ASSUME IInv, NEW field \in Field, ChangeForm(field) PROVE IInv'
<1>1. Tables' /\ Listing' = Listing /\ Listable' = Listable
  BY TablesStay DEF ChangeForm
<1>2. Number(field) \in Int
  BY CapacityAssumption DEF Number
<1>3. form \in Form /\ form # Null /\ form' \in Form /\ form'.touched
  BY <1>2 DEF IInv, TypeOK, ChangeForm, Form
<1>4. Dialog'
  BY <1>3 DEF IInv, ChangeForm, dialog, Dialog, Own, Request
<1>5. PageType'
  BY <1>3 DEF IInv, TypeOK, PageType, Readable, ChangeForm, dialog
<1>6. slips' = 0 => InOrder'
  BY <1>1, <1>3 DEF IInv, InOrder, Unchanged, ChangeForm, dialog, tables
<1> QED BY <1>1, <1>4, <1>5, <1>6, Together

LEMMA CloseFormKeeps == ASSUME IInv, CloseForm PROVE IInv'
<1>1. Tables' /\ Listing' = Listing /\ Listable' = Listable
  BY TablesStay DEF CloseForm
<1>2. Dialog'
  BY DialogStays DEF CloseForm
<1>3. PageType'
  BY DEF IInv, TypeOK, PageType, Readable, CloseForm, dialog
<1>4. slips' = 0 => InOrder'
  BY <1>1 DEF IInv, InOrder, Unchanged, CloseForm, dialog, tables
<1> QED BY <1>1, <1>2, <1>3, <1>4, Together

LEMMA SaveKeeps == ASSUME IInv, Save PROVE IInv'
<1>1. Tables' /\ Listing' = Listing /\ Listable' = Listable
  BY TablesStay DEF Save
<1>2. Dialog'
  BY DialogStays DEF Save
<1>3. slips' \in 0 .. MaxSlips /\ (slips' = 0 => slips = 0 /\ Quiet)
  BY QuietFacts DEF IInv, Save
<1>4. PageType'
  BY <1>3 DEF IInv, TypeOK, PageType, Readable, Save, dialog
<1>5. slips' = 0 => InOrder'
  BY <1>1, <1>3 DEF IInv, InOrder, Unchanged, Save, Quiet, dialog, tables
<1> QED BY <1>1, <1>2, <1>4, <1>5, Together

\* The save, answered or not.
LEMMA WriteFacts ==
  ASSUME IInv, saving # Null, Write
  PROVE  Tables' /\ (Listable => Listable')
<1>1. saving.editing \in Resource \cup {Null} /\ saving.capacity \in Int
  BY DEF IInv, TypeOK, Form
<1>2. saving.capacity # Null
  BY <1>1, MarksAssumption
<1>3. CASE CreateResource(saving.capacity)
  <2>1. Tables'
    BY <1>1, <1>3, CreateResourceTables DEF IInv
  <2>2. Listable => Listable'
    BY <1>2, <1>3 DEF CreateResource, Listable, IInv, Tables
  <2> QED BY <2>1, <2>2
<1>4. CASE saving.editing # Null /\ UpdateResource(saving.editing, saving.capacity)
  <2>1. Tables'
    BY <1>1, <1>4, UpdateResourceTables DEF IInv
  <2>2. Listable => Listable'
    BY <1>2, <1>4 DEF UpdateResource, Listable, IInv, Tables
  <2> QED BY <2>1, <2>2
<1> QED BY <1>3, <1>4 DEF Write

LEMMA SavedKeeps == ASSUME IInv, Saved PROVE IInv'
<1>1. Tables' /\ (Listable => Listable')
  BY WriteFacts DEF Saved
<1>2. Dialog'
  BY DialogStays DEF Saved
<1>3. /\ Reloading(reloads') /\ reloads' # {}
      /\ reloads = {} => /\ \A q1, q2 \in reloads' : q1 = q2
                        /\ \A q \in reloads' : q.answer = Null
  BY ReloadFacts DEF Saved
<1>4. PageType'
  BY <1>3 DEF IInv, TypeOK, PageType, Readable, Saved, dialog
<1>5. slips' = 0 => InOrder'
  BY <1>1, <1>3 DEF IInv, InOrder, Saved, dialog
<1> QED BY <1>1, <1>2, <1>4, <1>5, Together

LEMMA NotSavedKeeps == ASSUME IInv, NotSaved PROVE IInv'
<1>1. slips' \in 0 .. MaxSlips /\ (slips' = 0 => slips = 0 /\ Refused)
  BY BoundsAssumption DEF IInv, TypeOK, NotSaved, Careful
<1>2. Refused => ~Write
  BY DEF Refused, Write, CreateResource, UpdateResource
<1>3. Tables'
  BY WriteFacts, TablesStay DEF NotSaved
<1>4. Dialog'
  BY DialogStays DEF NotSaved
<1>5. PageType'
  BY <1>1 DEF IInv, TypeOK, PageType, Readable, NotSaved, dialog
<1>6. slips' = 0 => InOrder'
  <2> SUFFICES ASSUME slips' = 0 PROVE InOrder'
    OBVIOUS
  <2>1. UNCHANGED tables
    BY <1>1, <1>2 DEF NotSaved
  <2>2. Listing' = Listing /\ Listable' = Listable
    BY <2>1, TablesStay
  <2> QED BY <1>1, <2>1, <2>2 DEF IInv, InOrder, Unchanged, NotSaved, dialog, tables
<1> QED BY <1>3, <1>4, <1>5, <1>6, Together

LEMMA RemoveResourceKeeps ==
  ASSUME IInv, NEW r \in Resource, RemoveResource(r)
  PROVE  IInv'
<1>1. Tables'
  BY DeleteResourceTables DEF IInv, RemoveResource
<1>2. Listable => Listable'
  BY MarksAssumption DEF IInv, Tables, RemoveResource, DeleteResource, Listable
<1>3. Dialog'
  BY DialogStays DEF RemoveResource, editor
<1>4. \/ /\ Reloading(reloads') /\ reloads' # {}
         /\ reloads = {} => /\ \A q1, q2 \in reloads' : q1 = q2
                           /\ \A q \in reloads' : q.answer = Null
         /\ slips' \in 0 .. MaxSlips /\ (slips' = 0 => slips = 0 /\ Quiet)
      \/ reloads' = reloads /\ slips' \in 0 .. MaxSlips /\ slips' # 0
  BY QuietFacts, SlipFacts, ReloadFacts DEF IInv, RemoveResource
<1>5. PageType'
  BY <1>4 DEF IInv, TypeOK, PageType, Readable, RemoveResource, editor, dialog
<1>6. slips' = 0 => InOrder'
  BY <1>2, <1>4 DEF IInv, InOrder, RemoveResource, Uncovered, Quiet, editor, dialog
<1> QED BY <1>1, <1>3, <1>5, <1>6, Together

LEMMA OpenAllocationsKeeps ==
  ASSUME IInv, NEW r \in Resource, OpenAllocations(r)
  PROVE  IInv'
<1>1. Tables' /\ Listing' = Listing /\ Listable' = Listable
  BY TablesStay DEF OpenAllocations
<1>2. /\ \A q \in details' : Request(q)
      /\ \A q \in details' : q \in details \/ q.for = "open"
  BY AskFacts DEF IInv, Dialog, OpenAllocations
<1>3. Own(shown')
  BY DEF OpenAllocations, Preview, Own
<1>4. Dialog'
  BY <1>2, <1>3 DEF IInv, Dialog, OpenAllocations, Uncovered, editor
<1>5. slips' \in 0 .. MaxSlips /\ (slips' = 0 => slips = 0 /\ Quiet)
  BY QuietFacts DEF IInv, OpenAllocations
<1>6. PageType'
  BY <1>2, <1>5 DEF IInv, TypeOK, PageType, Readable, OpenAllocations, editor
<1>7. slips' = 0 => InOrder'
  <2> SUFFICES ASSUME slips' = 0 PROVE InOrder'
    OBVIOUS
  <2>1. /\ InOrder /\ details = {} /\ adding = Null /\ saving = Null /\ reloads = {} /\ form = Null
    BY <1>5 DEF IInv, OpenAllocations, Uncovered, Quiet
  <2>2. PICK q : details' = {q} /\ q.for = "open"
    BY <2>1, AskAlone DEF OpenAllocations
  <2> QED BY <1>1, <2>1, <2>2 DEF InOrder, OpenAllocations, editor
<1> QED BY <1>1, <1>4, <1>6, <1>7, Together

LEMMA CloseAllocationsKeeps == ASSUME IInv, CloseAllocations PROVE IInv'
<1>1. Tables' /\ Listing' = Listing /\ Listable' = Listable
  BY TablesStay DEF CloseAllocations
<1>2. Dialog'
  BY DEF IInv, Dialog, CloseAllocations, editor, Own, Request
<1>3. PageType'
  BY DEF IInv, TypeOK, PageType, Readable, CloseAllocations, editor
<1>4. slips' = 0 => InOrder'
  BY <1>1 DEF IInv, InOrder, Unchanged, CloseAllocations, editor, tables
<1> QED BY <1>1, <1>2, <1>3, <1>4, Together

LEMMA AddAllocationKeeps ==
  ASSUME IInv, NEW h \in Hours, AddAllocation(h)
  PROVE  IInv'
<1>1. Tables' /\ Listing' = Listing /\ Listable' = Listable
  BY TablesStay DEF AddAllocation
<1>2. shown.resource \in Resource /\ Warned(h) \in BOOLEAN
  BY DEF IInv, TypeOK, AddAllocation, Warned
<1>3. adding' \in Adding /\ ~adding'.sent
  BY <1>2 DEF AddAllocation, Adding
<1>4. Dialog'
  BY <1>3 DEF IInv, Dialog, AddAllocation, editor, Own, Request
<1>5. slips' \in 0 .. MaxSlips /\ (slips' = 0 => slips = 0 /\ Quiet)
  BY QuietFacts DEF IInv, AddAllocation
<1>6. PageType'
  BY <1>5 DEF IInv, TypeOK, PageType, Readable, AddAllocation, editor
<1>7. form = Null
  BY DEF IInv, Dialog, AddAllocation
<1>8. slips' = 0 => InOrder'
  BY <1>1, <1>3, <1>5, <1>7 DEF IInv, InOrder, Unchanged, AddAllocation, Quiet, editor, tables
<1> QED BY <1>1, <1>4, <1>6, <1>8, Together

LEMMA CreatedKeeps == ASSUME IInv, Created PROVE IInv'
<1>1. /\ adding \in Adding /\ adding.resource \in Resource /\ adding.hours \in Hours
      /\ ~adding.sent /\ adding # Null
  BY DEF IInv, Dialog, Adding, Created
<1>2. Tables'
  BY <1>1, CreateAllocationTables DEF IInv, Created
<1>3. Listable' = Listable
  BY DEF Created, CreateAllocation, Listable
<1>4. adding' \in Adding /\ adding'.sent /\ adding' # Null
  BY <1>1, MarksAssumption DEF Created, Adding
<1>5. /\ \A q \in details' : Request(q)
      /\ \A q \in details' : q \in details \/ q.for = "add"
      /\ \E q \in details' : q.for = "add"
  BY <1>1, AskFacts DEF IInv, Dialog, Created
<1>6. \A q1, q2 \in details' : (q1.for = "add" /\ q2.for = "add") => q1 = q2
  BY <1>1 DEF IInv, TypeOK, Created, Ask
<1>7. Dialog'
  BY <1>4, <1>5, <1>6 DEF IInv, Dialog, Created, editor
<1>8. PageType'
  BY <1>4 DEF IInv, TypeOK, PageType, Readable, Created, editor
<1>9. slips' = 0 => InOrder'
  <2> SUFFICES ASSUME slips' = 0 PROVE InOrder'
    OBVIOUS
  <2>1. slips = 0 /\ InOrder /\ details = {} /\ saving = Null /\ reloads = {} /\ form = Null
    BY <1>1 DEF IInv, InOrder, Created
  <2>2. PICK q : details' = {q} /\ q.for = "add"
    BY <1>1, <2>1, AskAlone DEF Created
  <2> QED BY <1>3, <1>4, <2>1, <2>2 DEF InOrder, Created, editor
<1> QED BY <1>2, <1>7, <1>8, <1>9, Together

LEMMA NotCreatedKeeps == ASSUME IInv, NotCreated PROVE IInv'
<1>1. /\ adding.resource \in Resource /\ adding.hours \in Hours
      /\ ~adding.sent /\ adding # Null /\ adding' = Null
  BY DEF IInv, Dialog, Adding, NotCreated
<1>2. Tables'
  BY <1>1, CreateAllocationTables, TablesStay DEF IInv, NotCreated
<1>3. /\ slips' \in 0 .. MaxSlips
      /\ slips' = 0 => slips = 0 /\ (~Exists(adding.resource) \/ Len(rows) = MaxAllocations)
  BY BoundsAssumption DEF IInv, TypeOK, NotCreated, Careful
<1>4. Dialog'
  BY <1>1 DEF IInv, Dialog, NotCreated, editor, Own, Request
<1>5. PageType'
  BY <1>1, <1>3 DEF IInv, TypeOK, PageType, Readable, NotCreated, editor
<1>6. slips' = 0 => InOrder'
  <2> SUFFICES ASSUME slips' = 0 PROVE InOrder'
    OBVIOUS
  <2>1. ~CreateAllocation(adding.resource, adding.hours)
    BY <1>3, BoundsAssumption DEF CreateAllocation, IInv, Tables
  <2>2. UNCHANGED tables
    BY <2>1 DEF NotCreated
  <2>3. Listing' = Listing /\ Listable' = Listable
    BY <2>2, TablesStay
  <2> QED BY <1>1, <1>3, <2>2, <2>3 DEF IInv, InOrder, Unchanged, NotCreated, editor, tables
<1> QED BY <1>2, <1>4, <1>5, <1>6, Together

LEMMA RemoveAllocationKeeps == ASSUME IInv, RemoveAllocation PROVE IInv'
<1>1. PICK a \in shown.allocations : DeleteAllocation(a.id)
  BY DEF RemoveAllocation
<1>2. shown.resource \in Resource /\ a.id \in Nat /\ open
  BY <1>1 DEF IInv, TypeOK, RemoveAllocation, Listed
<1>3. Tables' /\ capacity' = capacity
  BY <1>1, <1>2, DeleteAllocationTables DEF IInv, DeleteAllocation
<1>4. CASE Ask(shown.resource, "remove") /\ Careful(Quiet)
  <2>1. /\ \A q \in details' : Request(q)
        /\ \A q \in details' : q \in details \/ q.for = "remove"
        /\ \E q \in details' : q.for = "remove"
    BY <1>2, <1>4, AskFacts DEF IInv, Dialog
  <2>2. slips' \in 0 .. MaxSlips /\ (slips' = 0 => slips = 0 /\ Quiet)
    BY <1>4, QuietFacts DEF IInv
  <2>3. Dialog'
    BY <2>1 DEF IInv, Dialog, RemoveAllocation, editor, Own
  <2>4. PageType'
    BY <2>1, <2>2 DEF IInv, TypeOK, PageType, Readable, RemoveAllocation, editor
  <2>5. slips' = 0 => InOrder'
    <3> SUFFICES ASSUME slips' = 0 PROVE InOrder'
      OBVIOUS
    <3>1. /\ InOrder /\ details = {} /\ adding = Null /\ saving = Null /\ reloads = {} /\ form = Null
      BY <1>2, <2>2 DEF IInv, Dialog, Quiet
    <3>2. PICK q : details' = {q} /\ q.for = "remove"
      BY <1>2, <1>4, <3>1, AskAlone
    <3> QED BY <1>3, <3>1, <3>2 DEF InOrder, Listable, RemoveAllocation, editor
  <2> QED BY <1>3, <2>3, <2>4, <2>5, Together
<1>5. CASE details' = details /\ Careful(FALSE)
  <2>1. slips' \in 0 .. MaxSlips /\ slips' # 0
    BY <1>5, SlipFacts DEF IInv
  <2>2. Dialog'
    BY <1>5 DEF IInv, Dialog, RemoveAllocation, editor, Own, Request
  <2>3. PageType'
    BY <1>5, <2>1 DEF IInv, TypeOK, PageType, Readable, RemoveAllocation, editor
  <2> QED BY <1>3, <2>1, <2>2, <2>3, Together
<1> QED BY <1>4, <1>5 DEF RemoveAllocation

LEMMA ServeKeeps == ASSUME IInv, NEW n \in AllSlots, Serve(n) PROVE IInv'
<1>1. Tables' /\ Listing' = Listing /\ Listable' = Listable
  BY TablesStay DEF Serve
<1>2. PICK q \in details :
        details' = (details \ {q}) \cup
          {[q EXCEPT !.answer = IF Detailed(q.resource) THEN DetailOf(q.resource) ELSE Failed]}
  BY DEF Serve
<1> DEFINE answer == IF Detailed(q.resource) THEN DetailOf(q.resource) ELSE Failed
           served == [q EXCEPT !.answer = answer]
<1>3. Request(q)
  BY DEF IInv, Dialog
<1>4. answer \notin {Null, Failed} => Own(answer)
  BY <1>3, OwnDetail DEF IInv, Request
<1> HIDE DEF answer
<1>5. /\ served = [slot |-> q.slot, resource |-> q.resource, for |-> q.for, answer |-> answer]
  BY <1>3 DEF Request
<1>6. Request(served) /\ served.for = q.for
  BY <1>3, <1>4, <1>5 DEF Request
<1>7. details' = (details \ {q}) \cup {served}
  BY <1>2 DEF answer
<1> HIDE DEF served
<1>8. Dialog'
  BY <1>6, <1>7 DEF IInv, Dialog, Serve, editor, Own
<1>9. PageType'
  BY <1>6, <1>7 DEF IInv, TypeOK, PageType, Readable, Serve, editor
<1>10. slips' = 0 => InOrder'
  BY <1>1, <1>6, <1>7 DEF IInv, InOrder, Unchanged, Serve, editor, tables
<1> QED BY <1>1, <1>8, <1>9, <1>10, Together

LEMMA ShowKeeps == ASSUME IInv, NEW n \in AllSlots, Show(n) PROVE IInv'
<1>1. Tables' /\ Listing' = Listing /\ Listable' = Listable
  BY TablesStay DEF Show
<1>2. PICK q \in details :
        /\ \/ q.answer \notin {Null, Failed} /\ shown' = q.answer /\ Careful(TRUE)
           \/ shown' = shown /\ Careful(q.answer = Failed)
        /\ Continue(q)
  BY DEF Show, AsAnswered
<1>3. slips' \in 0 .. MaxSlips /\ (slips' = 0 => slips = 0)
  BY <1>2, BoundsAssumption DEF IInv, TypeOK, Careful
<1>4. (open' \/ shown' # Null) => Own(shown')
  BY <1>2 DEF IInv, Dialog, Request, Show
<1>5. /\ details' = details \ {q} /\ loading' \in BOOLEAN
      /\ adding' = IF q.for = "add" THEN Null ELSE adding
  BY <1>2 DEF Continue, AddingEnds
<1>6. Dialog'
  BY <1>4, <1>5 DEF IInv, Dialog, Show, editor, Own, Request
<1>7. /\ q.for = "open" => reloads' = reloads
      /\ q.for # "open" => ReloadList
  BY <1>2 DEF Continue
<1>8. /\ Reloading(reloads')
      /\ q.for # "open" => /\ reloads' # {}
                           /\ reloads = {} => /\ \A q1, q2 \in reloads' : q1 = q2
                                             /\ \A p \in reloads' : p.answer = Null
  BY <1>7, ReloadFacts DEF IInv
<1>9. \A o \in details' : o.for = "add" => adding' # Null /\ adding'.sent
  BY <1>5 DEF IInv, TypeOK, Dialog
<1>10. PageType'
  BY <1>3, <1>5, <1>8, <1>9 DEF IInv, TypeOK, PageType, Readable, Show, editor
<1>11. slips' = 0 => InOrder'
  <2> SUFFICES ASSUME slips' = 0 PROVE InOrder'
    OBVIOUS
  <2>1. slips = 0 /\ InOrder
    BY <1>3 DEF IInv
  <2>2. details = {q} /\ details' = {} /\ reloads = {} /\ saving = Null
    BY <1>5, <2>1 DEF InOrder
  <2>3. adding' = Null
    BY <1>5, <2>1 DEF InOrder
  <2>4. q.for = "open" => list = Listing
    BY <2>1, <2>2 DEF InOrder
  <2>5. (q.for = "open" => reloads' = {}) /\ (q.for # "open" => reloads' # {})
    BY <1>7, <1>8, <2>2
  <2>6. /\ \A q1, q2 \in reloads' : q1 = q2
        /\ \A p \in reloads' : p.answer = Null
    BY <1>7, <1>8, <2>2
  <2> QED BY <1>1, <2>1, <2>2, <2>3, <2>4, <2>5, <2>6
      DEF InOrder, Unchanged, Show, editor, tables
<1> QED BY <1>1, <1>6, <1>10, <1>11, Together

LEMMA ElsewhereKeeps == ASSUME IInv, Elsewhere PROVE IInv'
<1>1. slips' \in 0 .. MaxSlips /\ slips' # 0
  BY SlipFacts DEF IInv, Elsewhere
<1>2. Tables'
  <2>1. ASSUME NEW c \in {Default, Null}, CreateResource(c) PROVE Tables'
    BY <2>1, CreateResourceTables, CapacityAssumption DEF IInv
  <2>2. ASSUME NEW r \in Resource, NEW f \in Field \cup {Null}, UpdateResource(r, Number(f))
        PROVE  Tables'
    <3>1. Number(f) \in Int \cup {Null}
      BY CapacityAssumption DEF Number
    <3> QED BY <2>2, <3>1, UpdateResourceTables DEF IInv
  <2>3. ASSUME NEW r \in Resource, DeleteResource(r) PROVE Tables'
    BY <2>3, DeleteResourceTables DEF IInv
  <2>4. ASSUME NEW r \in Resource, NEW h \in Hours, CreateAllocation(r, h) PROVE Tables'
    BY <2>4, CreateAllocationTables DEF IInv
  <2>5. ASSUME NEW a \in DOMAIN rows, DeleteAllocation(a) PROVE Tables'
    BY <2>5, DeleteAllocationTables DEF IInv, Tables
  <2> QED BY <2>1, <2>2, <2>3, <2>4, <2>5 DEF Elsewhere
<1>3. Dialog'
  BY DialogStays DEF Elsewhere, editor
<1>4. PageType'
  BY <1>1 DEF IInv, TypeOK, PageType, Readable, Elsewhere, editor, dialog
<1> QED BY <1>1, <1>2, <1>3, <1>4, Together

LEMMA StepKeeps == IInv /\ [Next]_vars => IInv'
<1> SUFFICES ASSUME IInv, [Next]_vars PROVE IInv'
  OBVIOUS
<1>1. CASE UNCHANGED vars
  <2>1. Tables' /\ Listing' = Listing /\ Listable' = Listable
    BY <1>1, TablesStay DEF vars
  <2>2. Dialog'
    BY <1>1, DialogStays DEF vars, editor
  <2>3. PageType'
    BY <1>1 DEF IInv, TypeOK, PageType, Readable, vars, editor, dialog
  <2>4. slips' = 0 => InOrder'
    BY <1>1, <2>1 DEF IInv, InOrder, Unchanged, vars, editor, dialog, tables
  <2> QED BY <2>1, <2>2, <2>3, <2>4, Together
<1>2. CASE OpenCreate \/ CloseForm \/ Save \/ Saved \/ NotSaved
  BY <1>2, OpenCreateKeeps, CloseFormKeeps, SaveKeeps, SavedKeeps, NotSavedKeeps
<1>3. CASE \E f \in Field : ChangeForm(f)
  BY <1>3, ChangeFormKeeps
<1>4. CASE \E r \in Resource : OpenEdit(r) \/ RemoveResource(r) \/ OpenAllocations(r)
  BY <1>4, OpenEditKeeps, RemoveResourceKeeps, OpenAllocationsKeeps
<1>5. CASE \/ CloseAllocations \/ \E h \in Hours : AddAllocation(h)
           \/ Created \/ NotCreated \/ RemoveAllocation
  BY <1>5, CloseAllocationsKeeps, AddAllocationKeeps, CreatedKeeps, NotCreatedKeeps,
     RemoveAllocationKeeps
<1>6. CASE \E n \in AllSlots : Serve(n) \/ Show(n)
  BY <1>6, ServeKeeps, ShowKeeps
<1>7. CASE \E n \in Slots : ServeList(n) \/ ShowList(n)
  BY <1>7, ServeListKeeps, ShowListKeeps
<1> QED BY <1>1, <1>2, <1>3, <1>4, <1>5, <1>6, <1>7, ElsewhereKeeps DEF Next

LEMMA Invariance == Spec => []IInv
  BY InitSound, StepKeeps, PTL DEF Spec

-----------------------------------------------------------------------------
(***************************************************************************)
(* The theorems                                                            *)
(***************************************************************************)
\* Every reachable state of the tables, the page and its requests is well
\* typed, and the detail an addition waits for belongs to one under way.
THEOREM TypeCorrect == Spec => []TypeOK
<1>1. IInv => TypeOK
  BY DEF IInv
<1> QED BY <1>1, Invariance, PTL

\* The foreign key and its cascade keep the allocations with their resources
\* (postgres_service.py:35-45), and the dialog takes name and allocations from
\* one answer (Resources.jsx:77-82), so that they belong together.
THEOREM NoForeignAllocation == Spec => []AllocationsBelong
<1>1. IInv => AllocationsBelong
  BY DEF IInv, Tables, Dialog, Own, AllocationsBelong
<1> QED BY <1>1, Invariance, PTL

\* A careful user's save sends the capacity that is stored, unless it was
\* touched (Resources.jsx:57-64): no allocation dialog, late answer or refused
\* save in between makes the form stale.
THEOREM CapacityKept == Spec => CapacitySurvives
<1>1. ASSUME IInv, slips' = 0, Saved, saving.editing # Null, ~saving.touched
      PROVE  UNCHANGED capacity
  <2>1. slips = 0 /\ saving # Null /\ saving \in Form /\ Write
    BY <1>1 DEF Saved, IInv, TypeOK
  <2>2. saving.capacity = capacity[saving.editing] /\ saving.editing \in Resource
    BY <1>1, <2>1 DEF IInv, InOrder, Unchanged, Form
  <2>3. UpdateResource(saving.editing, saving.capacity)
    BY <1>1, <2>1 DEF Write
  <2> QED BY <1>1, <2>2, <2>3 DEF UpdateResource, IInv, Tables
<1>2. IInv /\ [Next]_vars =>
        [(slips' = 0 /\ Saved /\ saving.editing # Null /\ ~saving.touched) =>
           UNCHANGED capacity]_vars
  BY <1>1
<1> QED BY <1>2, Invariance, PTL DEF Spec, CapacitySurvives
-----------------------------------------------------------------------------
(***************************************************************************)
(* The totals                                                              *)
(***************************************************************************)
AnswerTo(r) == IF Detailed(r) THEN DetailOf(r) ELSE Failed

\* Without a slip the tables stay as they were when a detail was answered, and
\* an addition that is not sent yet carries the warning that the tables call for.
Calm ==
  /\ saving # Null => ~open
  /\ \A q \in details : q.answer # Null => q.answer = AnswerTo(q.resource)
  /\ adding # Null /\ ~adding.sent =>
       (adding.warned <=>
          adding.hours > capacity[adding.resource] - Allocated(adding.resource))

\* An open dialog is that of a stored resource.  It is right, unless a detail of
\* this resource is to come.
Right ==
  open =>
    /\ Exists(shown.resource)
    /\ \A q \in details : q.resource = shown.resource
    /\ adding # Null => adding.resource = shown.resource
    /\ details = {} /\ (adding = Null \/ ~adding.sent) => shown = DetailOf(shown.resource)

CalmInv == slips = 0 => Calm /\ Right

\* An allocation adds its hours to those of its resource.
LEMMA AllocatedMore ==
  ASSUME Tables, NEW r \in Resource, NEW h \in Hours, CreateAllocation(r, h)
  PROVE  Allocated(r)' = Allocated(r) + h
<1> DEFINE A == AllocationsOf(r)
           n == Len(rows) + 1
           f == [a \in A |-> rows[a].hours]
           g == [a \in A \cup {n} |-> rows'[a].hours]
           row == [resource |-> r, hours |-> h]
<1>1. rows' = Append(rows, row)
  BY DEF CreateAllocation
<1>2. IsFiniteSet(A) /\ A \subseteq DOMAIN rows /\ \A a \in A : rows[a].hours \in Int
  BY AllocatedFacts
<1>3. /\ DOMAIN rows' = DOMAIN rows \cup {n} /\ n \notin DOMAIN rows
      /\ rows'[n] = row /\ \A a \in DOMAIN rows : rows'[a] = rows[a]
  BY <1>1 DEF Tables
<1>4. row # Gone /\ row.resource = r /\ row.hours = h
  BY MarksAssumption
<1>5. AllocationsOf(r)' = A \cup {n}
  BY <1>3, <1>4 DEF AllocationsOf
<1>6. Allocated(r)' = SumFunctionOnSet(g, A \cup {n})
  BY <1>5 DEF Allocated, SumFunction
<1>7. Allocated(r) = SumFunctionOnSet(f, A)
  BY DEF Allocated, SumFunction
<1>8. (\A a \in A : g[a] = f[a] /\ f[a] \in Int) /\ g[n] = h /\ h \in Int /\ n \notin A
  BY <1>2, <1>3, <1>4, HoursAssumption
<1> HIDE DEF f, g, A, n, row
<1>9. IsFiniteSet(A \cup {n}) /\ \A a \in A \cup {n} : g[a] \in Int
  BY <1>2, <1>8, FS_AddElement
<1>10. SumFunctionOnSet(g, A \cup {n}) = h + SumFunctionOnSet(g, (A \cup {n}) \ {n})
  BY <1>8, <1>9, SumTakesOut
<1>11. (A \cup {n}) \ {n} = A
  BY <1>8
<1>12. SumFunctionOnSet(g, A) = SumFunctionOnSet(f, A) /\ SumFunctionOnSet(f, A) \in Int
  BY <1>2, <1>8, SumAlike, SumTakesOut
<1>13. Allocated(r)' = h + Allocated(r)
  BY <1>6, <1>7, <1>10, <1>11, <1>12
<1>14. Allocated(r) \in Int /\ h \in Int
  BY <1>7, <1>8, <1>12
<1> QED BY <1>13, <1>14

\* A detail is one, and not the answer that there is none.
LEMMA DetailFacts ==
  ASSUME Tables, NEW r \in Resource, Detailed(r)
  PROVE  /\ DetailOf(r) # Failed
         /\ DetailOf(r).row.available = capacity[r] - Allocated(r)
         /\ capacity[r] \in Int /\ Allocated(r) \in Int
<1>1. capacity[r] \in Int /\ Allocated(r) \in Int
  BY AllocatedFacts DEF Tables, Detailed, Exists
<1>2. Row(r, capacity[r] - Allocated(r)) \in ShownRow
  BY <1>1 DEF Row, ShownRow
<1>3. DetailOf(r).allocations \subseteq Listed
  BY OwnDetail DEF Own
<1>4. /\ DetailOf(r) = [resource |-> r, row |-> Row(r, capacity[r] - Allocated(r)),
                        allocations |-> DetailOf(r).allocations]
      /\ DetailOf(r).row = Row(r, capacity[r] - Allocated(r))
  BY DEF DetailOf
<1>5. DetailOf(r) \in Detail
  BY <1>2, <1>3, <1>4 DEF Detail
<1>6. Row(r, capacity[r] - Allocated(r)).available = capacity[r] - Allocated(r)
  BY DEF Row
<1> QED BY <1>1, <1>4, <1>5, <1>6, FailedAssumption

\* What the service answers stays the same with the tables.
LEMMA AnswersStay ==
  ASSUME UNCHANGED tables, NEW r \in Resource
  PROVE  /\ Exists(r)' = Exists(r) /\ Allocated(r)' = Allocated(r)
         /\ DetailOf(r)' = DetailOf(r) /\ AnswerTo(r)' = AnswerTo(r)
<1>1. capacity' = capacity /\ rows' = rows
  BY DEF tables
<1>2. AllocationsOf(r)' = AllocationsOf(r)
  BY <1>1 DEF AllocationsOf
<1>3. Allocated(r)' = Allocated(r)
  BY <1>1, <1>2 DEF Allocated
<1>4. Exists(r)' = Exists(r) /\ Detailed(r)' = Detailed(r)
  BY <1>1 DEF Exists, Detailed
<1>5. DetailOf(r)' = DetailOf(r)
  BY <1>1, <1>2, <1>3 DEF DetailOf, Row
<1> QED BY <1>3, <1>4, <1>5 DEF AnswerTo

\* The types the steps need.
LEMMA CalmTypes ==
  ASSUME IInv
  PROVE  /\ open => shown.resource \in Resource
         /\ adding # Null => adding.resource \in Resource /\ adding.hours \in Hours
         /\ \A q \in details : q.resource \in Resource
  BY DEF IInv, TypeOK, Dialog, Request

\* Nothing to do with the dialog.
LEMMA CalmStays ==
  ASSUME IInv, Calm, Right, UNCHANGED <<tables, dialog>>,
         saving' = saving \/ saving' = Null \/ (details = {} /\ ~open)
  PROVE  Calm' /\ Right'
<1>1. UNCHANGED <<open, shown, adding, details>>
  BY DEF dialog
<1>2. \A r \in Resource : /\ Exists(r)' = Exists(r) /\ Allocated(r)' = Allocated(r)
                          /\ DetailOf(r)' = DetailOf(r) /\ AnswerTo(r)' = AnswerTo(r)
  BY AnswersStay
<1>3. capacity' = capacity
  BY DEF tables
<1>4. Calm'
  BY <1>1, <1>2, <1>3, CalmTypes DEF Calm
<1>5. Right'
  BY <1>1, <1>2, CalmTypes DEF Right
<1> QED BY <1>4, <1>5

\* No dialog is open, and nothing for it under way.
LEMMA CalmIdle ==
  ASSUME ~open', details' = {}, adding' = Null
  PROVE  Calm' /\ Right'
  BY DEF Calm, Right

LEMMA CalmOpenAllocations ==
  ASSUME IInv, InOrder, Calm, Right, Quiet, NEW r \in Resource, OpenAllocations(r)
  PROVE  Calm' /\ Right'
<1>1. PICK q : details' = {q} /\ q.resource = r /\ q.answer = Null
  BY AskAlone DEF OpenAllocations, Quiet
<1>2. saving' = Null /\ adding' = Null /\ shown'.resource = r /\ UNCHANGED tables
  BY DEF OpenAllocations, Quiet, Preview, editor
<1>3. Exists(r)
  BY ListingFacts DEF OpenAllocations, InOrder, Quiet, IInv
<1>4. Exists(r)'
  BY <1>2, <1>3, AnswersStay
<1> QED BY <1>1, <1>2, <1>4 DEF Calm, Right

LEMMA CalmAddAllocation ==
  ASSUME IInv, InOrder, Calm, Right, Quiet, NEW h \in Hours, AddAllocation(h)
  PROVE  Calm' /\ Right'
<1>1. /\ open /\ details = {} /\ adding = Null /\ saving = Null
      /\ UNCHANGED <<tables, saving, open, shown, details>>
  BY DEF AddAllocation, Quiet, editor
<1>2. PICK r \in Resource : r = shown.resource
  BY <1>1, CalmTypes
<1>3. Exists(r) /\ shown = DetailOf(r)
  BY <1>1, <1>2 DEF Right
<1>4. Detailed(r)
  BY <1>3 DEF Detailed, InOrder, Listable
<1>5. shown.row.available = capacity[r] - Allocated(r)
  BY <1>3, <1>4, DetailFacts DEF IInv
<1>6. /\ adding'.resource = r /\ adding'.hours = h /\ ~adding'.sent
      /\ adding'.warned <=> h > capacity[r] - Allocated(r)
  BY <1>2, <1>5 DEF AddAllocation, Warned
<1>7. /\ capacity' = capacity /\ Exists(r)' = Exists(r) /\ Allocated(r)' = Allocated(r)
      /\ DetailOf(r)' = DetailOf(r)
  BY <1>1, AnswersStay DEF tables
<1>8. Calm'
  BY <1>1, <1>6, <1>7 DEF Calm
<1>9. Right'
  BY <1>1, <1>2, <1>3, <1>6, <1>7 DEF Right
<1> QED BY <1>8, <1>9

LEMMA CalmCreated ==
  ASSUME IInv, InOrder, Calm, Right, Created
  PROVE  Calm' /\ Right'
<1>1. details = {} /\ adding # Null /\ ~adding.sent /\ saving = Null
  BY DEF Created, Calm, InOrder
<1>2. PICK q : details' = {q} /\ q.resource = adding.resource /\ q.answer = Null
  BY <1>1, AskAlone DEF Created
<1>3. adding'.sent /\ adding'.resource = adding.resource
  BY <1>1 DEF Created, IInv, Dialog, Adding
<1>4. \A r \in Resource : Exists(r)' = Exists(r)
  BY DEF Created, CreateAllocation, Exists
<1>5. open' = open /\ shown' = shown /\ saving' = Null
  BY <1>1 DEF Created, editor
<1>6. Calm'
  BY <1>2, <1>3, <1>5 DEF Calm
<1>7. Right'
  BY <1>1, <1>2, <1>3, <1>4, <1>5, CalmTypes DEF Right
<1> QED BY <1>6, <1>7

LEMMA CalmNotCreated ==
  ASSUME IInv, InOrder, Calm, Right, NotCreated, slips' = 0
  PROVE  Calm' /\ Right'
<1>1. /\ details = {} /\ adding # Null /\ adding' = Null
      /\ UNCHANGED <<saving, open, shown, details>>
  BY DEF NotCreated, InOrder, editor
<1>2. ~Exists(adding.resource) \/ Len(rows) = MaxAllocations
  BY BoundsAssumption DEF IInv, TypeOK, NotCreated, Careful
<1>3. UNCHANGED tables
  BY <1>2, BoundsAssumption DEF NotCreated, CreateAllocation, IInv, Tables
<1>4. \A r \in Resource : Exists(r)' = Exists(r) /\ DetailOf(r)' = DetailOf(r)
  BY <1>3, AnswersStay
<1>5. Calm'
  BY <1>1 DEF Calm
<1>6. Right'
  BY <1>1, <1>4, CalmTypes DEF Right, NotCreated
<1> QED BY <1>5, <1>6

LEMMA CalmRemoveAllocation ==
  ASSUME IInv, InOrder, Calm, Right, RemoveAllocation, Quiet, slips' = 0
  PROVE  Calm' /\ Right'
<1>1. Ask(shown.resource, "remove")
  BY SlipFacts DEF RemoveAllocation, IInv
<1>2. PICK q : details' = {q} /\ q.resource = shown.resource /\ q.answer = Null
  BY <1>1, AskAlone DEF Quiet
<1>3. /\ saving' = Null /\ adding' = Null /\ open' = open /\ shown' = shown
      /\ capacity' = capacity
  BY DEF RemoveAllocation, DeleteAllocation, Quiet, editor
<1>4. Calm'
  BY <1>2, <1>3 DEF Calm
<1>5. Right'
  BY <1>2, <1>3 DEF Right, Exists
<1> QED BY <1>4, <1>5

LEMMA CalmServe ==
  ASSUME IInv, InOrder, Calm, Right, NEW n \in AllSlots, Serve(n)
  PROVE  Calm' /\ Right'
<1>1. PICK q \in details :
        details' = (details \ {q}) \cup {[q EXCEPT !.answer = AnswerTo(q.resource)]}
  BY DEF Serve, AnswerTo
<1> DEFINE served == [q EXCEPT !.answer = AnswerTo(q.resource)]
<1>2. Request(q) /\ q.resource \in Resource
  BY DEF IInv, Dialog, Request
<1>3. served.resource = q.resource /\ served.answer = AnswerTo(q.resource)
  BY <1>2 DEF Request
<1>4. details' = {served}
  BY <1>1 DEF InOrder
<1> HIDE DEF served
<1>5. UNCHANGED <<tables, saving, open, shown, adding>>
  BY DEF Serve, editor
<1>6. /\ AnswerTo(q.resource)' = AnswerTo(q.resource)
      /\ \A r \in Resource : Exists(r)' = Exists(r)
  BY <1>2, <1>5, AnswersStay
<1>7. saving = Null /\ (adding = Null \/ adding.sent)
  BY DEF InOrder
<1>8. Calm'
  BY <1>3, <1>4, <1>5, <1>6, <1>7 DEF Calm
<1>9. Right'
  BY <1>3, <1>4, <1>5, <1>6, CalmTypes DEF Right
<1> QED BY <1>8, <1>9

LEMMA CalmShow ==
  ASSUME IInv, InOrder, Calm, Right, NEW n \in AllSlots, Show(n), slips' = 0
  PROVE  Calm' /\ Right'
<1>1. PICK q \in details :
        /\ \/ q.answer \notin {Null, Failed} /\ shown' = q.answer
           \/ shown' = shown /\ Careful(q.answer = Failed)
        /\ Continue(q)
  BY DEF Show, AsAnswered
<1>2. /\ details' = {} /\ adding' \in {adding, Null}
      /\ UNCHANGED <<tables, saving, open>>
  BY <1>1 DEF Show, Continue, AddingEnds, InOrder, editor
<1>3. saving = Null /\ (adding = Null \/ adding.sent)
  BY DEF InOrder
<1>4. Calm'
  BY <1>2, <1>3 DEF Calm
<1>5. ASSUME open PROVE Right'
  <2> DEFINE r == q.resource
  <2>1. r = shown.resource /\ r \in Resource /\ Exists(r)
    BY <1>5, CalmTypes DEF Right
  <2>2. Detailed(r)
    BY <2>1 DEF Detailed, InOrder, Listable
  <2>3. DetailOf(r) # Failed /\ DetailOf(r).resource = r
    BY <2>1, <2>2, DetailFacts, OwnDetail DEF IInv
  <2>4. q.answer # Null => q.answer = DetailOf(r)
    BY <2>2 DEF Calm, AnswerTo
  <2>5. q.answer # Failed
    BY <2>3, <2>4, FailedAssumption
  <2>6. shown' = DetailOf(r)
    BY <1>1, <2>4, <2>5, SlipFacts DEF IInv, Careful
  <2>7. Exists(r)' /\ DetailOf(r)' = DetailOf(r)
    BY <1>2, <2>1, AnswersStay
  <2>8. adding # Null => adding.resource = r
    BY <1>5, <2>1 DEF Right
  <2> HIDE DEF r
  <2> QED BY <1>2, <2>3, <2>6, <2>7, <2>8 DEF Right
<1>6. ASSUME ~open PROVE Right'
  BY <1>2, <1>6 DEF Right
<1> QED BY <1>4, <1>5, <1>6

\* The user waits, and nobody else writes, in a step that is no slip.
LEMMA Waits ==
  ASSUME TypeOK, slips' = 0, [Next]_vars
  PROVE  /\ slips = 0
         /\ OpenCreate \/ Save \/ RemoveAllocation => Quiet
         /\ \A r \in Resource : OpenEdit(r) \/ RemoveResource(r) \/ OpenAllocations(r) => Quiet
         /\ \A h \in Hours : AddAllocation(h) => Quiet
         /\ ~Elsewhere
<1>1. \A ok \in BOOLEAN : Careful(ok) => slips = 0 /\ ok
  BY BoundsAssumption DEF TypeOK, Careful
<1>2. Quiet \in BOOLEAN
  BY DEF Quiet
<1>3. ~Careful(FALSE) /\ (Careful(Quiet) => Quiet)
  BY <1>1, <1>2
<1>4. OpenCreate \/ Save \/ RemoveAllocation => Quiet
  BY <1>3 DEF OpenCreate, Save, RemoveAllocation
<1>5. \A r \in Resource : OpenEdit(r) \/ RemoveResource(r) \/ OpenAllocations(r) => Quiet
  BY <1>3 DEF OpenEdit, RemoveResource, OpenAllocations
<1>6. \A h \in Hours : AddAllocation(h) => Quiet
  BY <1>3 DEF AddAllocation
<1>7. ~Elsewhere
  BY <1>3 DEF Elsewhere
<1>8. slips \in Nat /\ (slips' = slips \/ slips' = slips + 1)
  <2>1. slips \in Nat
    BY BoundsAssumption DEF TypeOK
  <2>2. CASE UNCHANGED vars
    BY <2>1, <2>2 DEF vars
  <2>3. CASE OpenCreate \/ CloseForm \/ Save \/ Saved \/ NotSaved
    BY <2>1, <2>3 DEF Careful, OpenCreate, CloseForm, Save, Saved, NotSaved
  <2>4. CASE \/ \E f \in Field : ChangeForm(f)
             \/ \E r \in Resource : OpenEdit(r) \/ RemoveResource(r) \/ OpenAllocations(r)
    BY <2>1, <2>4 DEF Careful, ChangeForm, OpenEdit, RemoveResource, OpenAllocations
  <2>5. CASE CloseAllocations \/ \E h \in Hours : AddAllocation(h)
    BY <2>1, <2>5 DEF Careful, CloseAllocations, AddAllocation
  <2>6. CASE Created \/ NotCreated \/ RemoveAllocation
    BY <2>1, <2>6 DEF Careful, Created, NotCreated, RemoveAllocation
  <2>7. CASE \/ \E n \in AllSlots : Serve(n) \/ Show(n)
             \/ \E n \in Slots : ServeList(n) \/ ShowList(n)
             \/ Elsewhere
    BY <2>1, <2>7 DEF Careful, Serve, Show, ServeList, ShowList, Elsewhere
  <2> QED BY <2>1, <2>2, <2>3, <2>4, <2>5, <2>6, <2>7 DEF Next
<1> QED BY <1>4, <1>5, <1>6, <1>7, <1>8

LEMMA CalmInit == Init => CalmInv
  BY DEF Init, CalmInv, Calm, Right

LEMMA CalmStep == IInv /\ CalmInv /\ [Next]_vars => CalmInv'
<1> SUFFICES ASSUME IInv, CalmInv, [Next]_vars, slips' = 0
             PROVE  Calm' /\ Right'
  BY DEF CalmInv
<1>1. slips = 0 /\ InOrder /\ Calm /\ Right /\ ~Elsewhere
  BY Waits DEF IInv, CalmInv
<1>2. CASE UNCHANGED vars
  BY <1>1, <1>2, CalmStays DEF vars, editor
<1>3. CASE (\E n \in Slots : ServeList(n) \/ ShowList(n)) \/ CloseForm \/ OpenCreate \/ Save
  <2>1. Save => details = {} /\ ~open
    BY Waits DEF Save, Quiet, IInv, Dialog
  <2> QED BY <1>1, <1>3, <2>1, CalmStays DEF ServeList, ShowList, CloseForm, OpenCreate, Save, editor
<1>4. CASE \E f \in Field : ChangeForm(f)
  BY <1>1, <1>4, CalmStays DEF ChangeForm
<1>5. CASE Saved \/ NotSaved
  BY <1>1, <1>5, CalmIdle DEF Calm, InOrder, Saved, NotSaved, dialog
<1>6. ASSUME NEW r \in Resource, OpenEdit(r) PROVE Calm' /\ Right'
  BY <1>1, <1>6, CalmStays DEF OpenEdit
<1>7. ASSUME NEW r \in Resource, RemoveResource(r) PROVE Calm' /\ Right'
  <2>1. Quiet
    BY <1>7, Waits DEF IInv
  <2> QED BY <1>7, <2>1, CalmIdle DEF RemoveResource, Quiet, Uncovered, dialog
<1>8. ASSUME NEW r \in Resource, OpenAllocations(r) PROVE Calm' /\ Right'
  <2>1. Quiet
    BY <1>8, Waits DEF IInv
  <2> QED BY <1>1, <1>8, <2>1, CalmOpenAllocations
<1>9. CASE CloseAllocations
  <2>1. /\ ~open' /\ UNCHANGED <<tables, saving, adding, details>>
    BY <1>9 DEF CloseAllocations, editor
  <2>2. \A r \in Resource : Allocated(r)' = Allocated(r) /\ AnswerTo(r)' = AnswerTo(r)
    BY <2>1, AnswersStay
  <2> QED BY <1>1, <2>1, <2>2, CalmTypes DEF Calm, Right, tables
<1>10. ASSUME NEW h \in Hours, AddAllocation(h) PROVE Calm' /\ Right'
  <2>1. Quiet
    BY <1>10, Waits DEF IInv
  <2> QED BY <1>1, <1>10, <2>1, CalmAddAllocation
<1>11. CASE Created \/ NotCreated
  BY <1>1, <1>11, CalmCreated, CalmNotCreated
<1>12. CASE RemoveAllocation
  <2>1. Quiet
    BY <1>12, Waits DEF IInv
  <2> QED BY <1>1, <1>12, <2>1, CalmRemoveAllocation
<1>13. CASE \E n \in AllSlots : Serve(n) \/ Show(n)
  BY <1>1, <1>13, CalmServe, CalmShow
<1> QED BY <1>1, <1>2, <1>3, <1>4, <1>5, <1>6, <1>7, <1>8, <1>9, <1>10, <1>11, <1>12, <1>13
        DEF Next

LEMMA CalmInvariance == Spec => []CalmInv
  BY Invariance, CalmInit, CalmStep, PTL DEF Spec

-----------------------------------------------------------------------------
(***************************************************************************)
(* The theorems about the totals                                           *)
(***************************************************************************)
\* Without a slip, the list and the dialog show what is stored whenever nothing
\* is under way: every change is followed by a request of its own for each copy
\* (Resources.jsx:98-127), and no answer outlives the tables it was read from.
THEOREM TotalsRight == Spec => []TotalsFresh
<1>1. IInv /\ CalmInv => TotalsFresh
  BY DEF IInv, CalmInv, InOrder, Right, TotalsFresh, Quiet
<1> QED BY <1>1, Invariance, CalmInvariance, PTL

\* Without a slip, the warning of the click (Resources.jsx:152-160) still holds
\* when the addition takes effect: its hours are exactly what the sum of the
\* allocations grows by.
THEOREM WarnedBefore == Spec => OverAllocationWarned
<1>1. ASSUME IInv, CalmInv, [Next]_vars, slips' = 0, Created,
             Allocated(adding.resource)' > capacity[adding.resource]
      PROVE  adding.warned
  <2>1. slips = 0 /\ Listable /\ Calm
    BY <1>1, Waits DEF IInv, InOrder, CalmInv
  <2>2. adding \in Adding /\ ~adding.sent /\ adding # Null
    BY <1>1 DEF Created, IInv, Dialog
  <2>3. PICK r \in Resource, h \in Hours :
          r = adding.resource /\ h = adding.hours /\ CreateAllocation(r, h)
    BY <1>1, <2>2 DEF Created, Adding
  <2>4. Allocated(r)' = Allocated(r) + h
    BY <1>1, <2>3, AllocatedMore DEF IInv
  <2>5. Allocated(r) \in Int /\ capacity[r] \in Int /\ h \in Int
    BY <1>1, <2>1, <2>3, AllocatedFacts, HoursAssumption
    DEF IInv, Tables, Listable, CreateAllocation, Exists
  <2>6. adding.warned <=> h > capacity[r] - Allocated(r)
    BY <2>1, <2>2, <2>3 DEF Calm
  <2>7. Allocated(r)' > capacity[r]
    <3>1. adding'.resource = r
      BY <1>1, <2>2, <2>3 DEF Created, Adding
    <3> QED BY <1>1, <2>3, <3>1
  <2> QED BY <2>4, <2>5, <2>6, <2>7
<1>2. IInv /\ CalmInv /\ [Next]_vars =>
        [(slips' = 0 /\ Created /\ Allocated(adding.resource)' > capacity[adding.resource]) =>
           adding.warned]_vars
  BY <1>1
<1> QED BY <1>2, Invariance, CalmInvariance, PTL DEF Spec, OverAllocationWarned
=============================================================================
