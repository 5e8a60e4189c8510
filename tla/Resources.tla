------------------------------ MODULE Resources ------------------------------
(***************************************************************************)
(* The resources and their allocations: tables resources and allocations   *)
(* of src/backend/resources-service and one open resources page            *)
(* (frontend/src/pages/Resources.jsx) with its form and its "Manage        *)
(* allocations" dialog.  The page works on two copies of the tables, the   *)
(* list of all resources and the detail of the one in the dialog, which    *)
(* are read again after every change, by requests that may be answered     *)
(* late.  The user is an admin or a manager, who may do everything; other  *)
(* users and API clients write at the same time.  Of a resource only its   *)
(* capacity is kept, of an allocation its hours.                           *)
(***************************************************************************)
EXTENDS Integers, Sequences, Functions, FiniteSetsExt

CONSTANTS
  Resource,
  Staff,           \* the resources in the table at first
  Default,         \* the capacity an empty form starts with (40)
  Field,           \* what may be typed for a capacity, "" among it
  Hours,           \* the hours an allocation may have
  MaxAllocations,  \* bounds the allocations ever made
  Slots,           \* bounds the reloads of the list under way, and the requests
                   \* for a detail beside an addition's
  MaxSlips,        \* bounds the slips
  Cleared,         \* the field with nothing in it
  Null,
  Failed,          \* the answer to a detail or a list that cannot be given
  Unborn, Gone     \* not yet, and no longer, in its table

Listed == [id : Nat, resource : Resource]

\* What the page knows of a resource, its list and what its dialog shows.
ShownRow == [capacity : Int, allocated : Int, available : Int]
List     == [Resource -> ShownRow \cup {Null}]
Detail   == [resource : Resource, row : ShownRow, allocations : SUBSET Listed]

ASSUME StaffAssumption    == Staff \subseteq Resource
ASSUME CapacityAssumption == Default \in Nat /\ Field \ {Cleared} \subseteq Int
ASSUME HoursAssumption    == Hours \subseteq Int
ASSUME BoundsAssumption   == /\ MaxSlips \in Nat /\ MaxAllocations \in Nat
                             /\ Slots \subseteq Nat \ {0}
ASSUME MarksAssumption    == /\ {Null, Unborn, Gone} \cap Int = {}
                             /\ Null \notin {Unborn, Gone}
                             /\ Null \notin [resource : Resource, hours : Hours,
                                             warned : BOOLEAN, sent : BOOLEAN]
                             /\ Gone \notin [resource : Resource, hours : Hours]
ASSUME FailedAssumption   == Failed # Null /\ Failed \notin Detail \cup List

VARIABLES
  capacity,  \* table resources: capacity_hours_per_week, which may be Null
  rows,      \* table allocations, in the order of creation
  list,      \* the page's resources
  reloads,   \* the reloads of the list under way, answered or not
  form,      \* the form of the "Add" or "Edit Resource" dialog, Null if closed
  saving,    \* the form being saved, or Null
  open,      \* allocOpen
  shown,     \* allocResource and allocations
  loading,   \* allocLoading
  adding,    \* the "Add Allocation" under way, or Null
  details,   \* the detail requests under way, answered or not
  slips      \* history: how often the user did not wait until nothing was under
             \* way, a request failed, and somebody else wrote

tables == <<capacity, rows>>
editor == <<form, saving>>
dialog == <<open, shown, loading, adding, details>>
vars   == <<tables, list, reloads, editor, dialog, slips>>

-----------------------------------------------------------------------------
(***************************************************************************)
(* The service                                                             *)
(***************************************************************************)
Exists(r) == capacity[r] \notin {Unborn, Gone}

AllocationsOf(r) == {a \in DOMAIN rows : rows[a] # Gone /\ rows[a].resource = r}

\* COALESCE(SUM(a.hours_per_week), 0)
Allocated(r) == SumFunction([a \in AllocationsOf(r) |-> rows[a].hours])

Row(r, available) ==
  [capacity |-> capacity[r], allocated |-> Allocated(r), available |-> available]

\* get_all_resources and get_resource_by_id fail on a NULL, which is not a
\* number to subtract from.
Listable == \A r \in Resource : capacity[r] # Null
Detailed(r) == Exists(r) /\ capacity[r] # Null

\* get_all_resources: a resource over capacity has 0 hours available.
Listing ==
  [r \in Resource |->
     IF Exists(r) THEN Row(r, Max({0, capacity[r] - Allocated(r)})) ELSE Null]

\* get_resource_by_id: it has less than none.
DetailOf(r) ==
  [resource |-> r, row |-> Row(r, capacity[r] - Allocated(r)),
   allocations |-> {[id |-> a, resource |-> r] : a \in AllocationsOf(r)}]

CreateResource(c) ==
  /\ \E r \in Resource :
       capacity[r] = Unborn /\ capacity' = [capacity EXCEPT ![r] = c]
  /\ UNCHANGED rows

\* COALESCE(%s, capacity_hours_per_week)
UpdateResource(r, c) ==
  /\ Exists(r)
  /\ capacity' = IF c = Null THEN capacity ELSE [capacity EXCEPT ![r] = c]
  /\ UNCHANGED rows

Kept(r) == rows

\* ON DELETE CASCADE
Cascaded(r) ==
  [a \in DOMAIN rows |-> IF a \in AllocationsOf(r) THEN Gone ELSE rows[a]]

DeleteResource(r) ==
  /\ Exists(r)
  /\ capacity' = [capacity EXCEPT ![r] = Gone]
  /\ rows' = Cascaded(r)

\* REFERENCES resources(id)
CreateAllocation(r, h) ==
  /\ Exists(r)
  /\ Len(rows) < MaxAllocations
  /\ rows' = Append(rows, [resource |-> r, hours |-> h])
  /\ UNCHANGED capacity

DeleteAllocation(a) ==
  /\ rows[a] # Gone
  /\ rows' = [rows EXCEPT ![a] = Gone]
  /\ UNCHANGED capacity

-----------------------------------------------------------------------------
Init ==
  /\ capacity = [r \in Resource |-> IF r \in Staff THEN Default ELSE Unborn]
  /\ rows = << >>
  /\ list = Listing
  /\ form = Null /\ saving = Null /\ shown = Null /\ adding = Null
  /\ open = FALSE /\ loading = FALSE
  /\ reloads = {} /\ details = {}
  /\ slips = 0

\* This step is a slip, or it is not.
Careful(ok) ==
  \/ ok /\ slips' = slips
  \/ ~ok /\ slips < MaxSlips /\ slips' = slips + 1

\* The lowest of some slots that none of the requests has.
Free(n, slots, requests) ==
  LET free == slots \ {q.slot : q \in requests} IN
  n \in free /\ \A m \in free : n <= m

Quiet == details = {} /\ adding = Null /\ saving = Null /\ reloads = {}

\* The buttons of the list are covered by an open dialog.
Uncovered == form = Null /\ ~open

-----------------------------------------------------------------------------
(***************************************************************************)
(* The list and the form                                                   *)
(***************************************************************************)
\* load() sends its request.
ReloadList ==
  \E n \in Slots :
    /\ Free(n, Slots, reloads)
    /\ reloads' = reloads \cup {[slot |-> n, answer |-> Null]}

\* get_all_resources
ServeList(n) ==
  /\ \E q \in reloads :
       /\ q.slot = n
       /\ q.answer = Null
       /\ reloads' = (reloads \ {q}) \cup
            {[q EXCEPT !.answer = IF Listable THEN Listing ELSE Failed]}
  /\ UNCHANGED <<tables, list, editor, dialog, slips>>

\* The list is shown when it arrives, another one asked for later or not.  An
\* error, or a request that is lost, leaves the list as it is.
ShowList(n) ==
  /\ \E q \in reloads :
       /\ q.slot = n
       /\ \/ q.answer \notin {Null, Failed} /\ list' = q.answer /\ Careful(TRUE)
          \/ list' = list /\ Careful(q.answer = Failed)
       /\ reloads' = reloads \ {q}
  /\ UNCHANGED <<tables, editor, dialog>>

Empty == [editing |-> Null, capacity |-> Default, touched |-> FALSE]

OpenCreate ==
  /\ Uncovered
  /\ Careful(Quiet)
  /\ form' = Empty
  /\ UNCHANGED <<tables, list, reloads, saving, dialog>>

EmptyForm(r) == [Empty EXCEPT !.editing = r]
FormOf(r) == [editing |-> r, capacity |-> list[r].capacity, touched |-> FALSE]

OpenEdit(r) ==
  /\ Uncovered
  /\ list[r] # Null
  /\ Careful(Quiet)
  /\ form' = FormOf(r)
  /\ UNCHANGED <<tables, list, reloads, saving, dialog>>

NumberOrNull(field) == IF field = Cleared THEN Null ELSE field

\* Number(e.target.value): an empty field is 0.
Number(field) == IF field = Cleared THEN 0 ELSE field

ChangeForm(field) ==
  /\ form # Null
  /\ form' = [form EXCEPT !.capacity = Number(field), !.touched = TRUE]
  /\ UNCHANGED <<tables, list, reloads, saving, dialog, slips>>

CloseForm ==
  /\ form # Null
  /\ form' = Null
  /\ UNCHANGED <<tables, list, reloads, saving, dialog, slips>>

Save ==
  /\ form # Null
  /\ saving = Null
  /\ Careful(Quiet)
  /\ saving' = form
  /\ UNCHANGED <<tables, list, reloads, form, dialog>>

Write == IF saving.editing = Null THEN CreateResource(saving.capacity)
         ELSE UpdateResource(saving.editing, saving.capacity)

Refused == IF saving.editing = Null THEN \A r \in Resource : capacity[r] # Unborn
           ELSE ~Exists(saving.editing)

\* setOpen(false) closes the dialog that is open by then.
Saved ==
  /\ saving # Null
  /\ Write
  /\ saving' = Null
  /\ form' = Null
  /\ ReloadList
  /\ UNCHANGED <<list, dialog, slips>>

\* 404, an address that is taken, a lost request or a lost answer, or there is
\* no row left in the model.
NotSaved ==
  /\ saving # Null
  /\ Write \/ UNCHANGED tables
  /\ Careful(Refused)
  /\ saving' = Null
  /\ UNCHANGED <<list, reloads, form, dialog>>

\* When the answer is an error, nothing is read again.
RemoveResource(r) ==
  /\ Uncovered
  /\ list[r] # Null
  /\ DeleteResource(r)
  /\ \/ ReloadList /\ Careful(Quiet)
     \/ reloads' = reloads /\ Careful(FALSE)
  /\ UNCHANGED <<list, editor, dialog>>

-----------------------------------------------------------------------------
(***************************************************************************)
(* The dialog of the allocations                                           *)
(***************************************************************************)
AllSlots == Slots \cup {0}

\* loadResourceDetail, and what it is awaited for.  An addition waits for one
\* of its own.
Ask(r, for) ==
  LET slots == IF for = "add" THEN {0} ELSE Slots IN
  \E n \in slots :
    /\ Free(n, slots, details)
    /\ details' = details \cup
         {[slot |-> n, resource |-> r, for |-> for, answer |-> Null]}

KeptAllocations(r) ==
  [resource |-> r, row |-> list[r],
   allocations |-> IF shown = Null THEN {} ELSE shown.allocations]

\* The row of the list until the detail arrives, without allocations.
Preview(r) == [resource |-> r, row |-> list[r], allocations |-> {}]

OpenAllocations(r) ==
  /\ Uncovered
  /\ list[r] # Null
  /\ open' = TRUE
  /\ shown' = Preview(r)
  /\ loading' = TRUE
  /\ Ask(r, "open")
  /\ Careful(Quiet)
  /\ UNCHANGED <<tables, list, reloads, editor, adding>>

CloseAllocations ==
  /\ open
  /\ open' = FALSE
  /\ UNCHANGED <<tables, list, reloads, editor, shown, loading, adding, details, slips>>

\* wouldOverallocate: the user is told, and may add the allocation anyway.
Warned(h) == h > shown.row.available

\* The button is disabled while an allocation is being added, there is no form to
\* fill in while the dialog loads, and nothing is sent for no hours or fewer.
AddAllocation(h) ==
  /\ Careful(Quiet)
  /\ h > 0
  /\ open /\ ~loading
  /\ adding = Null
  /\ adding' = [resource |-> shown.resource, hours |-> h,
               warned |-> Warned(h), sent |-> FALSE]
  /\ UNCHANGED <<tables, list, reloads, editor, open, shown, loading, details>>

\* create_allocation; then the detail is read again.
Created ==
  /\ adding # Null
  /\ ~adding.sent
  /\ CreateAllocation(adding.resource, adding.hours)
  /\ adding' = [adding EXCEPT !.sent = TRUE]
  /\ Ask(adding.resource, "add")
  /\ UNCHANGED <<list, reloads, editor, open, shown, loading, slips>>

\* The resource is gone, the request fails before or after it took effect, or
\* there is no row left in the model.
NotCreated ==
  /\ adding # Null
  /\ ~adding.sent
  /\ UNCHANGED tables \/ CreateAllocation(adding.resource, adding.hours)
  /\ Careful(~Exists(adding.resource) \/ Len(rows) = MaxAllocations)
  /\ adding' = Null
  /\ UNCHANGED <<list, reloads, editor, open, shown, loading, details>>

\* The Remove buttons are never disabled.  When the answer is an error,
\* nothing is read again.
RemoveAllocation ==
  /\ open /\ ~loading
  /\ \E a \in shown.allocations : DeleteAllocation(a.id)
  /\ \/ Ask(shown.resource, "remove") /\ Careful(Quiet)
     \/ details' = details /\ Careful(FALSE)
  /\ UNCHANGED <<list, reloads, editor, open, shown, loading, adding>>

\* get_resource_by_id
Serve(n) ==
  /\ \E q \in details :
       /\ q.slot = n
       /\ q.answer = Null
       /\ details' = (details \ {q}) \cup
            {[q EXCEPT !.answer = IF Detailed(q.resource) THEN DetailOf(q.resource)
                                                          ELSE Failed]}
  /\ UNCHANGED <<tables, list, reloads, editor, open, shown, loading, adding, slips>>

KeepAdding(q) == adding' = adding
AddingOver(q) == adding' = Null

\* finally: setAllocSaving(false), when the detail was awaited by addAllocation.
AddingEnds(q) == adding' = IF q.for = "add" THEN Null ELSE adding

\* A detail that failed is asked for again, for as long as it fails.
Retry(q) ==
  LET again == q.answer = Failed IN
  /\ details' = (details \ {q}) \cup
                  (IF again THEN {[q EXCEPT !.answer = Null]} ELSE {})
  /\ loading' = (loading /\ (again \/ q.for # "open"))
  /\ IF again \/ q.for = "open" THEN reloads' = reloads ELSE ReloadList
  /\ IF again THEN adding' = adding ELSE AddingEnds(q)

\* What awaited the detail goes on, whether it was answered or failed: after an
\* addition or a removal the list is read again, too.
Continue(q) ==
  /\ details' = details \ {q}
  /\ loading' = (loading /\ q.for # "open")
  /\ IF q.for = "open" THEN reloads' = reloads ELSE ReloadList
  /\ AddingEnds(q)

Dropped(answer) == shown
AsAnswered(answer) == answer

\* The answer is shown, in whichever dialog is open by then; an error is not.
Show(n) ==
  /\ \E q \in details :
       /\ q.slot = n
       /\ \/ q.answer \notin {Null, Failed} /\ shown' = AsAnswered(q.answer) /\ Careful(TRUE)
          \/ shown' = shown /\ Careful(q.answer = Failed)
       /\ Continue(q)
  /\ UNCHANGED <<tables, list, editor, open>>

-----------------------------------------------------------------------------
\* Other users; an API client may post a resource without a capacity.
Elsewhere ==
  /\ Careful(FALSE)
  /\ \/ \E c \in {Default, Null} : CreateResource(c)
     \/ \E r \in Resource, f \in Field \cup {Null} : UpdateResource(r, Number(f))
     \/ \E r \in Resource : DeleteResource(r)
     \/ \E r \in Resource, h \in Hours : CreateAllocation(r, h)
     \/ \E a \in DOMAIN rows : DeleteAllocation(a)
  /\ UNCHANGED <<list, reloads, editor, dialog>>

Next ==
  \/ \E n \in Slots : ServeList(n) \/ ShowList(n)
  \/ OpenCreate \/ CloseForm \/ Save \/ Saved \/ NotSaved
  \/ \E f \in Field : ChangeForm(f)
  \/ \E r \in Resource : OpenEdit(r) \/ RemoveResource(r) \/ OpenAllocations(r)
  \/ CloseAllocations
  \/ \E h \in Hours : AddAllocation(h)
  \/ Created \/ NotCreated \/ RemoveAllocation
  \/ \E n \in AllSlots : Serve(n) \/ Show(n)
  \/ Elsewhere

Spec == Init /\ [][Next]_vars

\* Every fetch comes to an end, with an answer or with an error.
FairSpec ==
  /\ Spec
  /\ WF_vars(Saved \/ NotSaved)
  /\ WF_vars(Created \/ NotCreated)
  /\ \A n \in AllSlots : WF_vars(Serve(n)) /\ WF_vars(Show(n))
  /\ \A n \in Slots : WF_vars(ServeList(n)) /\ WF_vars(ShowList(n))

-----------------------------------------------------------------------------
(***************************************************************************)
(* Properties                                                              *)
(***************************************************************************)
Form == [editing : Resource \cup {Null}, capacity : Int, touched : BOOLEAN]

\* Every variable has the type its declaration says, and a detail that
\* addAllocation waits for belongs to an addition under way.
TypeOK ==
  /\ \A r \in Resource : capacity[r] \in Int \cup {Null, Unborn, Gone}
  /\ \A a \in DOMAIN rows :
       rows[a] = Gone \/ (rows[a].resource \in Resource /\ rows[a].hours \in Hours)
  /\ \A r \in Resource : list[r] = Null \/ list[r].capacity \in Int
  /\ {open, loading} \subseteq BOOLEAN
  /\ {form, saving} \subseteq Form \cup {Null}
  /\ (open \/ shown # Null) =>
       (shown.resource \in Resource /\ shown.allocations \subseteq Listed)
  /\ adding = Null \/ (adding.resource \in Resource /\ adding.hours \in Hours)
  /\ \A q \in details : q.slot \in AllSlots /\ q.for \in {"open", "add", "remove"}
  /\ \A q \in details : q.for = "add" => adding # Null /\ adding.sent
  /\ slips \in 0 .. MaxSlips

\* An allocation never outlives its resource, although Add may be sent for one
\* that is deleted meanwhile; and the dialog never lists another resource's
\* allocation under a resource's name, whatever answers arrive late.
AllocationsBelong ==
  /\ \A a \in DOMAIN rows : rows[a] # Gone => Exists(rows[a].resource)
  /\ shown # Null => \A a \in shown.allocations : a.resource = shown.resource

\* As long as there was no slip, the dialog does not understate: an allocation
\* that takes its resource over capacity was announced by its warning.
OverAllocationWarned ==
  [][(slips' = 0 /\ Created /\ Allocated(adding.resource)' > capacity[adding.resource]) =>
       adding.warned]_vars

\* As long as there was no slip, the list can be read, and it and the dialog
\* show what is stored whenever nothing is under way, although each is read by
\* requests of its own and whatever was typed into the form.
TotalsFresh ==
  (slips = 0 /\ Quiet) =>
    /\ Listable
    /\ list = Listing
    /\ open => shown = DetailOf(shown.resource)

\* As long as there was no slip, a Save that sends the whole form changes no
\* capacity its user did not touch.
CapacitySurvives ==
  [][(slips' = 0 /\ Saved /\ saving.editing # Null /\ ~saving.touched) =>
       UNCHANGED capacity]_vars

\* The Save and the Add Allocation button always come back.
ButtonsReturn == /\ adding # Null ~> adding = Null
                 /\ saving # Null ~> saving = Null
=============================================================================
