------------------------------ MODULE Projects ------------------------------
(***************************************************************************)
(* The projects service and one open projects page                         *)
(* (src/backend/projects-service, frontend/src/pages/Projects.jsx): the    *)
(* rows, the status they are shown with, and what the page does with its   *)
(* copy of them while other users change them.  Every operation of the     *)
(* service is one SQL statement on one row, so a request takes effect in   *)
(* one step, in which it is also answered.  Of a row, the status and the   *)
(* end date are kept.                                                      *)
(***************************************************************************)
EXTENDS Naturals, SequencesExt

CONSTANTS
  Id,
  MaxDay,     \* bounds the days of the model
  Deadlines,  \* the end dates a user may enter
  Notice,     \* how many days ahead a deadline makes a project at risk (14)
  Filters,    \* the statuses a user may filter by
  MaxLoads,   \* bounds the reloads under way
  MaxDeletes, \* bounds the deletions under way
  MaxSlips,   \* bounds the slips
  Null

ASSUME FiltersAssumption == Filters \subseteq {"active", "at_risk", "completed"}
ASSUME DeadlinesAssumption == Null \in Deadlines /\ Deadlines \subseteq (0 .. MaxDay) \cup {Null}
ASSUME NoticeAssumption  == Notice \in Nat
ASSUME BoundsAssumption  == {MaxDay, MaxLoads, MaxDeletes, MaxSlips} \subseteq Nat
ASSUME NullAssumption    == Null \notin Id

\* "active" stands for on_hold as well: the code treats them alike.  So does
\* it treat "completed" and "cancelled".
Status == {"active", "at_risk", "completed"}
Day == 0 .. MaxDay

Row == [status : Status, due : Deadlines]
Item == [status : Status, due : Deadlines, stored : Status]
List == [Id -> Item \cup {Null}]
Form == [editing : Id \cup {Null}, status : Status, due : Deadlines,
         touched : SUBSET {"status", "due"}]   \* history: what the user chose
Deletion == [id : Id, filter : Status \cup {Null}]
Load == [slot : 1 .. MaxLoads, filter : Status \cup {Null}, list : List \cup {Null}]

VARIABLES
  today,
  rows,     \* table projects
  issued,   \* the ids handed out so far
  chosen,   \* history: the statuses somebody chose for a project
  editor,   \* whether the user of the page is an admin or a manager
  list,     \* the projects on the page
  filter,   \* the filter by status, Null for all
  dialog,   \* the form of the open dialog, or Null
  saving,   \* the save under way: the form and the filter at the click
  deleting, \* the deletions under way, with the filter at the click
  loads,    \* the reloads under way, answered or not
  slips     \* history: how often the user did not wait until nothing was under
            \* way, a request or its answer was lost, and somebody else wrote

page == <<editor, list, filter, dialog, saving, deleting, loads, slips>>
vars == <<today, rows, issued, chosen, page>>

-----------------------------------------------------------------------------
(***************************************************************************)
(* The service                                                             *)
(***************************************************************************)
Due(row) ==
  /\ row.due # Null
  /\ row.status # "completed"
  /\ row.due <= today + Notice

\* enrich_project: the status shown; stored_status is the one in the table.
Enriched(row) ==
  [status |-> IF Due(row) THEN "at_risk" ELSE row.status,
   due |-> row.due, stored |-> row.status]

ListedRaw(f) == rows

\* get_all_projects filters by the status shown.
Listed(f) ==
  [p \in Id |-> IF rows[p] # Null /\ f \in {Null, Enriched(rows[p]).status}
                  THEN Enriched(rows[p]) ELSE Null]

Init ==
  /\ today = 0
  /\ rows \in [Id -> Row \cup {Null}]
  /\ issued = {p \in Id : rows[p] # Null}
  /\ chosen = [p \in Id |-> IF rows[p] = Null THEN {} ELSE {rows[p].status}]
  /\ editor \in BOOLEAN
  /\ list = Listed(Null)
  /\ filter = Null /\ dialog = Null /\ saving = Null
  /\ deleting = << >> /\ loads = {}
  /\ slips = 0

Tick ==
  /\ today < MaxDay
  /\ today' = today + 1
  /\ UNCHANGED <<rows, issued, chosen, page>>

\* This step is a slip, or it is not.
Careful(ok) ==
  \/ ok /\ slips' = slips
  \/ ~ok /\ slips < MaxSlips /\ slips' = slips + 1

Quiet == loads = {} /\ saving = Null /\ deleting = << >>
UserActs == Careful(Quiet)

-----------------------------------------------------------------------------
(***************************************************************************)
(* The list                                                                *)
(***************************************************************************)
Free == {n \in 1 .. MaxLoads : \A q \in loads : q.slot # n}

\* load() with a given filter.
AskFor(f) ==
  \E n \in Free :
    loads' = loads \cup {[slot |-> n, filter |-> f, list |-> Null]}

AskForAll(f) == AskFor(Null)
AskNothing(f) == Free # {} /\ loads' = loads
Ask(f) == AskFor(f)

ChangeFilter ==
  /\ UserActs
  /\ dialog = Null
  /\ \E f \in (Filters \cup {Null}) \ {filter} :
       /\ filter' = f
       /\ Ask(f)
  /\ UNCHANGED <<today, rows, issued, chosen, editor, deleting, list, dialog, saving>>

Serve ==
  /\ \E q \in loads :
       /\ q.list = Null
       /\ loads' = (loads \ {q}) \cup {[q EXCEPT !.list = Listed(q.filter)]}
  /\ UNCHANGED <<today, rows, issued, chosen, editor, deleting, list, filter, dialog, saving, slips>>

\* The request or its answer is lost, or the answer is an error: the list stays
\* as it is.
LoadFails ==
  /\ Careful(FALSE)
  /\ \E q \in loads : loads' = loads \ {q}
  /\ UNCHANGED <<today, rows, issued, chosen, editor, deleting, list, filter, dialog, saving>>

\* An answer is shown when it arrives.
Show ==
  /\ \E q \in loads :
       /\ q.list # Null
       /\ list' = q.list
       /\ loads' = loads \ {q}
  /\ UNCHANGED <<today, rows, issued, chosen, editor, deleting, filter, dialog, saving, slips>>

-----------------------------------------------------------------------------
(***************************************************************************)
(* The dialog                                                              *)
(***************************************************************************)
ShownStatus(item) == item.status
FormStatus(item) == item.stored

OpenCreate ==
  /\ UserActs
  /\ dialog = Null
  /\ dialog' = [editing |-> Null, status |-> "active", due |-> Null,
                touched |-> {"status", "due"}]
  /\ UNCHANGED <<today, rows, issued, chosen, editor, deleting, list, filter, saving, loads>>

OpenEdit ==
  /\ UserActs
  /\ dialog = Null
  /\ \E p \in Id :
       LET item == list[p] IN
       /\ item # Null
       /\ dialog' = [editing |-> p, status |-> FormStatus(item), due |-> item.due,
                     touched |-> {}]
  /\ UNCHANGED <<today, rows, issued, chosen, editor, deleting, list, filter, saving, loads>>

\* The user chooses another status, or another end date.
ChangeForm ==
  /\ dialog # Null
  /\ \/ \E s \in Status \ {dialog.status} :
          dialog' = [dialog EXCEPT !.status = s, !.touched = @ \cup {"status"}]
     \/ \E d \in Deadlines :
          dialog' = [dialog EXCEPT !.due = d, !.touched = @ \cup {"due"}]
  /\ UNCHANGED <<today, rows, issued, chosen, editor, deleting, list, filter, saving, loads, slips>>

Close ==
  /\ UserActs
  /\ dialog # Null
  /\ dialog' = Null
  /\ UNCHANGED <<today, rows, issued, chosen, editor, deleting, list, filter, saving, loads>>

\* (The ids bound what can be created.)
Save ==
  /\ dialog # Null
  /\ saving = Null
  /\ dialog.editing # Null \/ issued # Id
  /\ saving' = [form |-> dialog, filter |-> filter]
  /\ UNCHANGED <<today, rows, issued, chosen, editor, deleting, list, filter, dialog, loads, slips>>

-----------------------------------------------------------------------------
(***************************************************************************)
(* The requests that write                                                 *)
(***************************************************************************)
\* catch and finally: an error message, and nothing else changes.
Fails ==
  /\ saving' = Null
  /\ UNCHANGED <<dialog, loads>>

\* closeDialog() and load(), as they were at the click; or the answer is lost.
Succeeds ==
  \/ /\ saving' = Null
     /\ dialog' = Null
     /\ Ask(saving.filter)
     /\ Careful(TRUE)
  \/ Fails /\ Careful(FALSE)

\* Only the fields the user has changed.
SentChanges(form) ==
  [status |-> IF "status" \in form.touched THEN form.status ELSE Null,
   due |-> IF "due" \in form.touched THEN form.due ELSE Null]

\* The body of the request is the form, all of it.
Sent(form) == [status |-> form.status, due |-> form.due]

\* The columns of an UPDATE: a status that is not sent is kept (COALESCE), an
\* end date that is not sent is erased.
Updated(row, sent) ==
  [status |-> IF sent.status = Null THEN row.status ELSE sent.status,
   due |-> sent.due]

Write(p, row, touched) ==
  /\ rows' = [rows EXCEPT ![p] = row]
  /\ chosen' = [chosen EXCEPT ![p] = IF "status" \in touched THEN @ \cup {row.status}
                                                            ELSE @]

CreateProject ==
  /\ saving # Null
  /\ saving.form.editing = Null
  /\ \E p \in Id \ issued :
       /\ Write(p, Sent(saving.form), saving.form.touched)
       /\ issued' = issued \cup {p}
  /\ Succeeds
  /\ UNCHANGED <<today, editor, deleting, list, filter>>

PresentOrNot(p) == TRUE

\* The WHERE clause of the UPDATE finds the row.
Present(p) == rows[p] # Null

\* 404 and 403 change nothing.
UpdateProject ==
  /\ saving # Null
  /\ saving.form.editing # Null
  /\ LET p == saving.form.editing IN
     \/ /\ editor /\ Present(p)
        /\ Write(p, Updated(rows[p], Sent(saving.form)), saving.form.touched)
        /\ Succeeds
     \/ /\ ~editor \/ ~Present(p)
        /\ Fails
        /\ UNCHANGED <<rows, chosen, slips>>
  /\ UNCHANGED <<today, issued, editor, deleting, list, filter>>

\* The request is lost before it takes effect.
WriteLost ==
  /\ saving # Null
  /\ Careful(FALSE)
  /\ Fails
  /\ UNCHANGED <<today, rows, issued, chosen, editor, deleting, list, filter>>

\* remove sends its request and waits.
DeleteProject ==
  /\ UserActs
  /\ dialog = Null
  /\ editor
  /\ Len(deleting) < MaxDeletes
  /\ \E p \in Id :
       /\ list[p] # Null
       /\ deleting' = Append(deleting, [id |-> p, filter |-> filter])
  /\ UNCHANGED <<today, rows, issued, chosen, editor, list, filter, dialog, saving, loads>>

\* The row is gone and the list is read again, unless the answer is lost.
Deleted ==
  \E i \in DOMAIN deleting :
    /\ Present(deleting[i].id)
    /\ rows' = [rows EXCEPT ![deleting[i].id] = Null]
    /\ deleting' = RemoveAt(deleting, i)
    /\ \/ Ask(deleting[i].filter) /\ Careful(TRUE)
       \/ loads' = loads /\ Careful(FALSE)
    /\ UNCHANGED <<today, issued, chosen, editor, list, filter, dialog, saving>>

\* A 404, or the request is lost.
NotDeleted ==
  \E i \in DOMAIN deleting :
    /\ Careful(~Present(deleting[i].id))
    /\ deleting' = RemoveAt(deleting, i)
    /\ UNCHANGED <<today, rows, issued, chosen, editor, list, filter, dialog, saving, loads>>

\* Another user deletes a project, or saves it with a status and an end date of
\* their choice; an API client sends neither.
Elsewhere ==
  /\ Careful(FALSE)
  /\ \E p \in Id :
       /\ rows[p] # Null
       /\ \/ rows' = [rows EXCEPT ![p] = Null] /\ chosen' = chosen
          \/ \E s \in Status, d \in Deadlines :
               Write(p, [status |-> s, due |-> d], {"status"})
          \/ Write(p, Updated(rows[p], [status |-> Null, due |-> Null]), {})
  /\ UNCHANGED <<today, issued, editor, deleting, list, filter, dialog, saving, loads>>

-----------------------------------------------------------------------------
Next ==
  \/ Tick
  \/ ChangeFilter \/ Serve \/ LoadFails \/ Show
  \/ OpenCreate \/ OpenEdit \/ ChangeForm \/ Close \/ Save
  \/ CreateProject \/ UpdateProject \/ WriteLost
  \/ DeleteProject \/ Deleted \/ NotDeleted
  \/ Elsewhere

Spec == Init /\ [][Next]_vars

-----------------------------------------------------------------------------
(***************************************************************************)
(* Properties                                                              *)
(***************************************************************************)
\* Every variable has the type its declaration says.
TypeOK ==
  /\ today \in Day
  /\ rows \in [Id -> Row \cup {Null}]
  /\ issued \subseteq Id /\ \A p \in Id : rows[p] # Null => p \in issued
  /\ chosen \in [Id -> SUBSET Status]
  /\ editor \in BOOLEAN
  /\ list \in List
  /\ filter \in Status \cup {Null}
  /\ dialog \in Form \cup {Null}
  /\ saving \in [form : Form, filter : Status \cup {Null}] \cup {Null}
  /\ deleting \in Seq(Deletion)
  /\ loads \subseteq Load
  /\ slips \in 0 .. MaxSlips

\* A project has a stored status that somebody chose for it: the "at_risk" a
\* near deadline computes is never written back by an edit of something else,
\* so that it goes away with the deadline.
ComputedStatusNeverSticks ==
  \A p \in Id : rows[p] # Null => rows[p].status \in chosen[p]

\* As long as there was no slip, a stored status and a stored end date only
\* change in a save whose user changed that field, although the form carries all
\* of them along as they were read and the UPDATE erases a date it is not sent.
UntouchedSurvives ==
  [][slips' = 0 =>
       \A p \in Id, field \in {"status", "due"} :
         (rows[p] # Null /\ rows'[p] # Null /\ rows'[p][field] # rows[p][field]) =>
           /\ saving # Null
           /\ saving.form.editing = p
           /\ field \in saving.form.touched]_vars

\* A save from a stale page does not bring a deleted project back.
DeletedStaysDeleted ==
  [][\A p \in issued : rows[p] = Null => rows'[p] = Null]_vars

\* As long as there was no slip, the page obeys its filter whenever nothing is
\* under way.
FilterObeyed ==
  (slips = 0 /\ loads = {} /\ filter # Null) =>
    \A p \in Id : list[p] # Null => list[p].status = filter
=============================================================================
