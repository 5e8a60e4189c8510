------------------------------- MODULE Budgets -------------------------------
(***************************************************************************)
(* Budget entries and the totals made of them: table budget_entries and    *)
(* its summary (src/backend/budget-service), and a tab that shows the      *)
(* budget page or the dashboard (frontend/src/pages/Budget.jsx,            *)
(* Dashboard.jsx), while others rename and delete projects, change their   *)
(* budgets and write entries.  Both pages ask for several lists at once,   *)
(* each of which is read at a moment of its own: the budget page shows all *)
(* of them or none, the dashboard those that arrive.  The user is an admin *)
(* or a manager.  A write of the page takes effect in one step and is      *)
(* answered, or not, in a later one.                                       *)
(***************************************************************************)
EXTENDS Integers, Sequences, SequencesExt, FiniteSetsExt

CONSTANTS
  Project,
  Name,
  Total,        \* what a project's budget_total may be; 0 stands for NULL, too,
                \* which the projects service answers as 0
  Id,           \* the ids of entries (bounds those ever made)
  Amount,
  Filters,      \* the projects the user filters by (bounds them)
  MaxRequests,  \* bounds the loads, creations and deletions under way, together
                \* with the slips at a click, and with the write of somebody else
  MaxSlips,     \* bounds the slips
  Null,
  Gone          \* what a deleted entry leaves behind

ASSUME BoundsAssumption == MaxSlips \in Nat /\ MaxRequests \in Nat \ {0}
ASSUME IdAssumption     == IsFiniteSet(Id)
ASSUME AmountAssumption == Amount \subseteq Int /\ Total \subseteq Int
ASSUME FiltersAssumption == Filters \subseteq Project

\* "" stands for any text that is neither; POST takes it, and PUT takes any.
Type == {"budget", "expense", ""}

Budgeted == [name : Name, total : Total]

Entry == [project : Project, name : Name \cup {Null}, amount : Amount, type : Type]

ASSUME NullAssumption == /\ Null \notin Name \cup Project
                         /\ Null \notin [entry : Entry, filter : Project \cup {Null},
                                         done : BOOLEAN]

VARIABLES
  projects,  \* table projects: name and budget of each, Null when there is none
  rows,      \* table budget_entries
  shown,     \* the projects, entries and summary on the budget page
  filter,    \* filterProject, Null for all
  form,      \* the project chosen in the open dialog, Null when it is closed
  saving,    \* the creation under way: the entry, the filter at the click, and
             \* whether it has taken effect
  removing,  \* the deletions under way, in the order of the clicks: the same
  loads,     \* the loads under way, in the order they were asked for
  fresh,     \* history: what is shown was asked for last and with this filter,
             \* and nothing was written behind the page's back since
  board,     \* what the dashboard has asked for and shows, Null on the budget page
  slips      \* history: how often a request failed or somebody else wrote

page == <<shown, filter, form, saving, removing, loads, fresh>>
vars == <<projects, rows, page, board, slips>>

-----------------------------------------------------------------------------
(***************************************************************************)
(* The services                                                            *)
(***************************************************************************)
Tables == [projects |-> projects, rows |-> rows]

Sum(r, E) == SumFunction([e \in E |-> r[e].amount])
OfType(r, E, type) == {e \in E : r[e].type = type}

\* The entries of one project, or of all.
EntriesOf(r, f) == {e \in Id : r[e] \notin {Null, Gone} /\ f \in {Null, r[e].project}}

\* GROUP BY project_id, project_name
Group(entry) == <<entry.project, entry.name>>

\* get_summary
Summary(r, f) ==
  {LET E == {e \in EntriesOf(r, f) : Group(r[e]) = g} IN
     [project |-> g[1],
      name |-> g[2],
      total_budget |-> Sum(r, OfType(r, E, "budget")),
      total_spent |-> Sum(r, OfType(r, E, "expense"))] :
   g \in {Group(r[e]) : e \in EntriesOf(r, f)}}

\* get_entries
Entries(r, f) == [e \in Id |-> IF e \in EntriesOf(r, f) THEN r[e] ELSE Null]

\* create_entry
CreateEntry(entry) ==
  /\ \E e \in Id : rows[e] = Null /\ rows' = [rows EXCEPT ![e] = entry]
  /\ UNCHANGED projects

\* update_entry: category, amount, type and date, whatever the type.
UpdateEntry(e, amount, type) ==
  /\ rows[e] \notin {Null, Gone}
  /\ rows' = [rows EXCEPT ![e].amount = amount, ![e].type = type]
  /\ UNCHANGED projects

\* delete_entry
DeleteEntry(e) ==
  /\ rows[e] \notin {Null, Gone}
  /\ rows' = [rows EXCEPT ![e] = Gone]
  /\ UNCHANGED projects

\* The projects service knows nothing of the entries.
WriteProject(p, row) ==
  /\ projects[p] # Null
  /\ projects' = [projects EXCEPT ![p] = row]
  /\ UNCHANGED rows

-----------------------------------------------------------------------------
(***************************************************************************)
(* Several lists asked for at once                                         *)
(***************************************************************************)
Part == {"projects", "entries", "summary"}

\* What may arrive when the tables have had these contents since.
Answers(seen, f) ==
  [projects : {t.projects : t \in seen},
   entries  : {Entries(t.rows, f) : t \in seen},
   summary  : {Summary(t.rows, f) : t \in seen}]

\* Lists that have not arrived.
Blank ==
  [projects |-> [p \in Project |-> Null],
   entries  |-> [e \in Id |-> Null],
   summary  |-> {}]

\* seen: the contents the tables have had since.
Asked(f, t) == [filter |-> f, seen |-> {t}, current |-> TRUE]

\* Names may be shared later on.
Init ==
  /\ projects \in [Project -> Budgeted]
  /\ \A p, q \in Project : projects[p].name = projects[q].name => p = q
  /\ rows = [e \in Id |-> Null]
  /\ shown = Null /\ filter = Null /\ form = Null /\ saving = Null /\ board = Null
  /\ removing = << >>
  /\ loads = <<Asked(Null, Tables)>>
  /\ fresh = FALSE
  /\ slips = 0

Slip == slips < MaxSlips /\ slips' = slips + 1

Seeing(load) == [load EXCEPT !.seen = @ \cup {Tables'}]
LoadsSeeing == [i \in DOMAIN loads |-> Seeing(loads[i])]

\* load() with the filter of the render it belongs to.
Load(f) == loads' = Append(LoadsSeeing, Asked(f, Tables'))

\* A write takes effect whose answer, and the load after it, is to come.
Unseen == loads' = LoadsSeeing

\* Something is written that no load of the page follows.
BehindThePage ==
  /\ loads' = [i \in DOMAIN loads |-> [Seeing(loads[i]) EXCEPT !.current = FALSE]]
  /\ fresh' = FALSE

-----------------------------------------------------------------------------
(***************************************************************************)
(* The budget page                                                         *)
(***************************************************************************)
\* A load ends; those asked for earlier are out of date.
Ended(i) ==
  loads' = RemoveAt([j \in DOMAIN loads |->
                       [loads[j] EXCEPT !.current = @ /\ j >= i]], i)

\* Promise.all: everything has arrived.
Show(i) ==
  /\ shown' \in Answers(loads[i].seen, loads[i].filter)
  /\ fresh' = (loads[i].current /\ loads[i].filter = filter)
  /\ Ended(i)
  /\ UNCHANGED <<projects, rows, filter, form, saving, removing, board, slips>>

\* A request of it has failed, and nothing of it is shown.  The first load takes
\* the spinner away all the same.
LoadFails(i) ==
  /\ Slip
  /\ shown' = IF shown = Null THEN Blank ELSE shown
  /\ fresh' = FALSE
  /\ Ended(i)
  /\ UNCHANGED <<projects, rows, filter, form, saving, removing, board>>

UnderWay ==
  Len(loads) + Len(removing) + (IF saving = Null THEN 0 ELSE 1)

\* There is a page behind the spinner, and no dialog covers it.
Uncovered == shown # Null /\ form = Null

ChangeFilter(f) ==
  /\ Uncovered
  /\ f # filter
  /\ f \in {Null} \cup {p \in Project : shown.projects[p] # Null}
  /\ UnderWay + slips < MaxRequests
  /\ filter' = f
  /\ UNCHANGED <<projects, rows>>
  /\ Load(f)
  /\ UNCHANGED <<shown, form, saving, removing, fresh, board, slips>>

\* The dialog is opened, and one of the projects of its menu chosen.
OpenForm(p) ==
  /\ Uncovered
  /\ shown.projects[p] # Null
  /\ form' = p
  /\ UNCHANGED <<projects, rows, shown, filter, saving, removing, loads, fresh, board, slips>>

CloseForm ==
  /\ form # Null
  /\ form' = Null
  /\ UNCHANGED <<projects, rows, shown, filter, saving, removing, loads, fresh, board, slips>>

IdAsName(p) == p

\* The name the page knows by now, Null when the project is no longer listed.
KnownName(p) ==
  IF shown.projects[p] = Null THEN Null ELSE shown.projects[p].name

Save(amount, type) ==
  /\ form # Null
  /\ saving = Null
  /\ UnderWay + slips < MaxRequests
  /\ type \in {"budget", "expense"}
  /\ saving' = [entry |-> [project |-> form, name |-> KnownName(form),
                           amount |-> amount, type |-> type],
                filter |-> filter, done |-> FALSE]
  /\ UNCHANGED <<projects, rows, shown, filter, form, removing, loads, fresh, board, slips>>

\* The POST takes effect.
Create ==
  /\ saving # Null
  /\ ~saving.done
  /\ CreateEntry(saving.entry)
  /\ Unseen
  /\ saving' = [saving EXCEPT !.done = TRUE]
  /\ UNCHANGED <<shown, filter, form, removing, fresh, board, slips>>

\* It is answered; setOpen(false) closes the dialog that is open by now.
Saved ==
  /\ saving # Null
  /\ saving.done
  /\ UNCHANGED <<projects, rows>>
  /\ Load(saving.filter)
  /\ saving' = Null
  /\ form' = Null
  /\ UNCHANGED <<shown, filter, removing, fresh, board, slips>>

\* The answer is lost, or the request before it took effect.
NotSaved ==
  /\ saving # Null
  /\ Slip
  /\ UNCHANGED <<projects, rows>>
  /\ IF saving.done THEN BehindThePage ELSE UNCHANGED <<loads, fresh>>
  /\ saving' = Null
  /\ UNCHANGED <<shown, filter, form, removing, board>>

RemoveEntry(e) ==
  /\ Uncovered
  /\ shown.entries[e] # Null
  /\ UnderWay + slips < MaxRequests
  /\ removing' = Append(removing, [entry |-> e, filter |-> filter, done |-> FALSE])
  /\ UNCHANGED <<projects, rows, shown, filter, form, saving, loads, fresh, board, slips>>

\* The DELETE takes effect.
Delete(i) ==
  /\ ~removing[i].done
  /\ DeleteEntry(removing[i].entry)
  /\ Unseen
  /\ removing' = [removing EXCEPT ![i].done = TRUE]
  /\ UNCHANGED <<shown, filter, form, saving, fresh, board, slips>>

NoReload(f) == Unseen

Reload(f) == Load(f)

Removed(i) ==
  /\ removing[i].done
  /\ UNCHANGED <<projects, rows>>
  /\ Reload(removing[i].filter)
  /\ removing' = RemoveAt(removing, i)
  /\ UNCHANGED <<shown, filter, form, saving, fresh, board, slips>>

\* 404 for an entry that is gone already; or the answer is lost, or the request
\* before it took effect.
NotRemoved(i) ==
  /\ UNCHANGED <<projects, rows>>
  /\ \/ /\ ~removing[i].done /\ rows[removing[i].entry] = Gone
        /\ UNCHANGED <<loads, fresh, slips>>
     \/ /\ Slip
        /\ IF removing[i].done THEN BehindThePage ELSE UNCHANGED <<loads, fresh>>
  /\ removing' = RemoveAt(removing, i)
  /\ UNCHANGED <<shown, filter, form, saving, board>>

\* What a card says: the project's budget is 0 for a project that is not listed.
BudgetTotal(p) ==
  IF shown.projects[p] = Null THEN 0 ELSE shown.projects[p].total

\* progressColor: allocations only count once the expenses alone are within the
\* budget.
Says(s) ==
  CASE s.total_spent > BudgetTotal(s.project) -> "over"
    [] s.total_spent <= BudgetTotal(s.project)
         /\ s.total_spent + s.total_budget > BudgetTotal(s.project) -> "combined"
    [] OTHER -> "remaining"

-----------------------------------------------------------------------------
(***************************************************************************)
(* The dashboard                                                           *)
(***************************************************************************)
\* The tab leaves the budget page.  What the page has under way no longer
\* concerns it; a write that is still to come is somebody else's.
OpenBoard ==
  /\ board = Null
  /\ board' = [seen |-> {Tables}, answers |-> Null, failed |-> {}]
  /\ shown' = Null /\ filter' = Null /\ form' = Null /\ saving' = Null
  /\ removing' = << >>
  /\ loads' = << >>
  /\ fresh' = FALSE
  /\ UNCHANGED <<projects, rows, slips>>

\* Promise.allSettled: all have arrived or failed.
ShowBoard(failed) ==
  /\ board # Null
  /\ board.answers = Null
  /\ \E answers \in Answers(board.seen, Null) :
       board' = [board EXCEPT !.answers = answers, !.failed = failed]
  /\ IF failed = {} THEN slips' = slips ELSE Slip
  /\ UNCHANGED <<projects, rows, page>>

AllOrNothing(part) == IF board.failed = {} THEN board.answers[part] ELSE Blank[part]

\* What has failed stays empty, the rest is shown.
OnBoard(part) == IF part \in board.failed THEN Blank[part] ELSE board.answers[part]

\* The chart: the expenses of a project, added up from the entries.
SpentByProject(p) ==
  LET entries == OnBoard("entries") IN
  Sum(entries, OfType(entries, EntriesOf(entries, p), "expense"))

\* The overview: what is left of the sums of a project's allocations.
Left(p) ==
  LET overview == {s \in OnBoard("summary") : s.project = p} IN
  SumFunction([s \in overview |-> s.total_budget - s.total_spent])

ReturnToPage ==
  /\ board # Null
  /\ board' = Null
  /\ loads' = <<Asked(Null, Tables)>>
  /\ UNCHANGED <<projects, rows, shown, filter, form, saving, removing, fresh, slips>>

-----------------------------------------------------------------------------
\* Others rename, budget and delete projects, enter entries without the name of their
\* project, change them and delete them.
Elsewhere ==
  /\ Slip
  /\ UnderWay < MaxRequests
  /\ \/ \E p \in Project, row \in Budgeted \cup {Null} : WriteProject(p, row)
     \/ \E entry \in Entry : entry.name = Null /\ CreateEntry(entry)
     \/ \E e \in Id, amount \in Amount, type \in Type : UpdateEntry(e, amount, type)
     \/ \E e \in Id : DeleteEntry(e)
  /\ BehindThePage
  /\ board' = IF board = Null THEN Null ELSE Seeing(board)
  /\ UNCHANGED <<shown, filter, form, saving, removing>>

Next ==
  \/ \E i \in DOMAIN loads : Show(i) \/ LoadFails(i)
  \/ \E f \in Filters \cup {Null} : ChangeFilter(f)
  \/ \E p \in Project : OpenForm(p)
  \/ CloseForm
  \/ \E amount \in Amount, type \in Type : Save(amount, type)
  \/ Create \/ Saved \/ NotSaved
  \/ \E e \in Id : RemoveEntry(e)
  \/ \E i \in DOMAIN removing : Delete(i) \/ Removed(i) \/ NotRemoved(i)
  \/ OpenBoard \/ ReturnToPage
  \/ \E failed \in SUBSET Part : ShowBoard(failed)
  \/ Elsewhere

Spec == Init /\ [][Next]_vars

-----------------------------------------------------------------------------
(***************************************************************************)
(* Properties                                                              *)
(***************************************************************************)
Request == [entry : Id, filter : Project \cup {Null}, done : BOOLEAN]

\* Every variable has the type its declaration says.
TypeOK ==
  /\ projects \in [Project -> Budgeted \cup {Null}]
  /\ rows \in [Id -> Entry \cup {Null, Gone}]
  /\ shown # Null => /\ shown.projects \in [Project -> Budgeted \cup {Null}]
                     /\ shown.entries \in [Id -> Entry \cup {Null}]
  /\ {filter, form} \subseteq Project \cup {Null}
  /\ saving # Null => saving.entry \in Entry
  /\ \A i \in DOMAIN removing : removing[i] \in Request
  /\ \A i \in DOMAIN loads : loads[i].filter \in Project \cup {Null}
  /\ UnderWay <= MaxRequests
  /\ fresh \in BOOLEAN
  /\ board # Null => board.failed \subseteq Part
  /\ slips \in 0 .. MaxSlips

\* A write of the page has taken effect, and its answer is to come.
Unanswered ==
  \/ saving # Null /\ saving.done
  \/ \E i \in DOMAIN removing : removing[i].done

\* Whatever answers mix or overtake each other, the budget page is right once the
\* load asked for last is shown and no write of the page waits for its answer, if
\* that load was asked for with the filter of the select and nothing was written
\* behind the page's back since: the list is the stored one, a project has a card
\* just when it has entries, and a project with one card is said to be over budget
\* just when its stored expenses exceed its budget, and to be so with its
\* allocations just when only both together do.  (A rename, or another client, may
\* split a project over several cards, each of which compares its own part with
\* the whole budget, Budget.jsx:140-146.)
CardsRight ==
  (fresh /\ loads = << >> /\ ~Unanswered) =>
    /\ shown.projects = projects
    /\ shown.entries = Entries(rows, filter)
    /\ \A p \in Project :
         LET limit   == IF projects[p] = Null THEN 0 ELSE projects[p].total
             own     == {e \in EntriesOf(rows, filter) : rows[e].project = p}
             spent   == Sum(rows, OfType(rows, own, "expense"))
             planned == Sum(rows, OfType(rows, own, "budget"))
             cards   == {s \in shown.summary : s.project = p} IN
         /\ cards = {} <=> own = {}
         /\ \A s \in cards : cards = {s} =>
              /\ Says(s) = "over" <=> spent > limit
              /\ Says(s) = "combined" <=> spent <= limit /\ spent + planned > limit

\* As long as nothing was written since it was opened, the dashboard is right in
\* whatever has arrived, although other requests of it failed: the spending it
\* charts, which it adds up from the entries, and what it says is left, which
\* the service adds up for each name of a project, agree with the table.
BoardAgrees ==
  (board # Null /\ board.answers # Null /\ board.seen = {Tables}) =>
    \A p \in Project :
      LET own     == EntriesOf(rows, p)
          planned == Sum(rows, OfType(rows, own, "budget"))
          spent   == Sum(rows, OfType(rows, own, "expense")) IN
      /\ "projects" \notin board.failed => OnBoard("projects")[p] = projects[p]
      /\ "entries" \notin board.failed => SpentByProject(p) = spent
      /\ "summary" \notin board.failed => Left(p) = planned - spent
=============================================================================
