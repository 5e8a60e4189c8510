-------------------------- MODULE DeliverablesPage --------------------------
(***************************************************************************)
(* One open deliverables page (frontend/src/pages/Deliverables.jsx): its   *)
(* list, its dialog, the chain of requests that Save sends one after the   *)
(* other, and the reloads of the list.  The service is seen through what   *)
(* it promises, DependencyGraph: a request takes effect at once or not at  *)
(* all.  Filters are left out, so that the two lists of the page are one.  *)
(***************************************************************************)
EXTENDS DependencyGraph, Naturals, FiniteSets, SequencesExt

CONSTANTS
  Existing,   \* the deliverables present when the page has been loaded
  Status,     \* what a deliverable is updated with
  MaxLoads,   \* bounds the deletions and reloads under way
  MaxSlips,   \* bounds the slips
  MaxEdits,   \* bounds the choices of another status
  Null

ASSUME ExistingAssumption == Existing \subseteq Deliverable
ASSUME StatusAssumption   == "pending" \in Status
ASSUME BoundsAssumption   == {MaxLoads, MaxSlips, MaxEdits} \subseteq Nat

VARIABLES
  status,   \* the status stored with each deliverable
  issued,   \* the ids handed out so far
  items,    \* the list on the page, as it was when it was read
  asked,    \* reloads that have not reached the service
  answers,  \* lists on their way to the page
  dialog,   \* the form of the open dialog, or Null
  saving,   \* the save under way, or Null
  deleting, \* the deletions under way
  outcome,  \* what the last save since the list was asked for ended in
  edits,    \* how often another status was chosen
  slips     \* history: how often a request or its answer was lost, and the user
            \* did not wait until nothing was under way or chose a cycle

pageVars == <<items, asked, answers, dialog, saving, deleting, outcome>>
table == <<graphVars, status, issued>>
vars == <<table, pageVars, edits, slips>>

Graph == [live : SUBSET Deliverable, project : [Deliverable -> Project],
          edges : SUBSET (Deliverable \X Deliverable),
          status : [Deliverable -> Status]]
Form == [editing : Deliverable \cup {Null}, old : SUBSET Deliverable,
         project : Project \cup {Null}, deps : SUBSET Deliverable,
         status : Status]
Saving == [form : Form, id : Deliverable \cup {Null}, written : BOOLEAN,
           add : SUBSET Deliverable, del : SUBSET Deliverable]

ASSUME NullAssumption == Null \notin Deliverable \cup Project \cup Form \cup Saving

Stored == [live |-> live, project |-> project, edges |-> edges,
           status |-> status]
SameGraph == items.live = live /\ items.project = project /\ items.edges = edges
Dependencies(g, d) == {x \in Deliverable : <<d, x>> \in g.edges}

\* The page has just been loaded.
Init ==
  /\ live = Existing
  /\ project \in [Deliverable -> Project]
  /\ edges = {}
  /\ status = [d \in Deliverable |-> "pending"]
  /\ issued = Existing
  /\ items = Stored
  /\ asked = 0 /\ answers = {}
  /\ dialog = Null /\ saving = Null /\ deleting = <<>>
  /\ outcome = "none"
  /\ edits = 0 /\ slips = 0

Quiet == asked = 0 /\ answers = {} /\ saving = Null /\ deleting = <<>>

\* This step is a slip, or it is not.
Careful(ok) ==
  \/ ok /\ slips' = slips
  \/ ~ok /\ slips < MaxSlips /\ slips' = slips + 1

UserActs == Careful(Quiet)

-----------------------------------------------------------------------------
(***************************************************************************)
(* The dialog                                                              *)
(***************************************************************************)
EmptyForm ==
  [editing |-> Null, old |-> {}, project |-> Null, deps |-> {},
   status |-> "pending"]

FormWithoutOld(d) ==
  [editing |-> d, old |-> {}, project |-> items.project[d],
   deps |-> Dependencies(items, d), status |-> items.status[d]]

\* editing keeps the row as the list has it, its dependencies included.
FormOf(d) ==
  LET deps == Dependencies(items, d)
  IN  [editing |-> d, old |-> deps, project |-> items.project[d], deps |-> deps,
       status |-> items.status[d]]

OpenCreate ==
  /\ UserActs
  /\ dialog = Null
  /\ dialog' = EmptyForm
  /\ UNCHANGED <<table, items, asked, answers, saving, deleting, outcome, edits>>

OpenEdit ==
  /\ UserActs
  /\ dialog = Null
  /\ \E d \in items.live : dialog' = FormOf(d)
  /\ UNCHANGED <<table, items, asked, answers, saving, deleting, outcome, edits>>

OfferedAll(p) == {x \in items.live : items.project[x] = p}

\* "Depends on" offers the other deliverables of the project in the form.
Offered(p) == {x \in items.live : items.project[x] = p} \ {dialog.editing}

\* The ids among the chosen ones that are not offered any more: another choice
\* of dependencies keeps them, another choice of project drops them.
Unoffered(p) == IF p = dialog.project THEN dialog.deps \ Offered(p) ELSE {}

ChangeForm ==
  /\ dialog # Null
  /\ \E st \in Status :
       /\ \/ st = dialog.status /\ edits' = edits
          \/ st # dialog.status /\ edits < MaxEdits /\ edits' = edits + 1
       /\ \E p \in Project : \E chosen \in SUBSET Offered(p) :
            LET deps == Unoffered(p) \cup chosen
            IN  /\ Careful(Quiet /\ Acyclic(items.edges \cup {<<dialog.editing, x>> : x \in deps}))
                /\ dialog' = [dialog EXCEPT !.project = p, !.deps = deps, !.status = st]
  /\ UNCHANGED <<table, items, asked, answers, saving, deleting, outcome>>

\* Cancel, Escape, a click beside the dialog: a save under way goes on.
Close ==
  /\ UserActs
  /\ dialog # Null
  /\ dialog' = Null
  /\ UNCHANGED <<table, items, asked, answers, saving, deleting, outcome, edits>>

-----------------------------------------------------------------------------
(***************************************************************************)
(* save and syncDependencies                                               *)
(***************************************************************************)
ToAddSwapped(form) == form.old \ form.deps

\* The difference between the form and the row it was opened with.
ToAdd(form) == form.deps \ form.old
ToRemove(form) == form.old \ form.deps

\* save keeps working on the form, and on editing, of the click.  (The ids
\* bound what can be created.)
Save ==
  /\ UserActs
  /\ dialog # Null
  /\ saving = Null
  /\ dialog.project # Null
  /\ dialog.editing # Null \/ issued # Deliverable
  /\ saving' = [form |-> dialog, id |-> dialog.editing, written |-> FALSE,
                add |-> ToAdd(dialog), del |-> ToRemove(dialog)]
  /\ UNCHANGED <<table, items, asked, answers, dialog, deleting, outcome, edits>>

FailedStillSaving ==
  /\ saving' = IF saving.written THEN saving ELSE Null
  /\ outcome' = "failed"

\* catch and finally: the dialog stays as it is, and so does the list.
Failed ==
  /\ saving' = Null
  /\ outcome' = "failed"

\* A request that took effect is answered, or the answer is lost.
Goes(next) ==
  \/ saving' = next /\ outcome' = outcome /\ Careful(TRUE)
  \/ Failed /\ Careful(FALSE)

\* create, or update, which stores the status and keeps the project of the row.
Write ==
  /\ saving # Null
  /\ ~saving.written
  /\ \/ /\ saving.id \in live
        /\ status' = [status EXCEPT ![saving.id] = saving.form.status]
        /\ Goes([saving EXCEPT !.written = TRUE])
        /\ UNCHANGED <<graphVars, issued>>
     \/ /\ saving.id = Null
        /\ \E d \in Deliverable \ issued :
             /\ Create(d, saving.form.project)
             /\ status' = [status EXCEPT ![d] = saving.form.status]
             /\ Goes([saving EXCEPT !.written = TRUE, !.id = d])
             /\ issued' = issued \cup {d}
  /\ UNCHANGED <<items, asked, answers, dialog, deleting, edits>>

\* 404, 400, or the 500 of UNIQUE (deliverable_id, depends_on_id).
Refused(a, b) ==
  \/ ~({a, b} \subseteq live)
  \/ project[a] # project[b]
  \/ <<a, b>> \in edges
  \/ ~Acyclic(edges \cup {<<a, b>>})

AddEdge ==
  /\ saving # Null
  /\ saving.written
  /\ \E x \in saving.add :
       /\ ~Refused(saving.id, x)
       /\ AddDependency(saving.id, x)
       /\ Goes([saving EXCEPT !.add = @ \ {x}])
  /\ UNCHANGED <<status, issued, items, asked, answers, dialog, deleting, edits>>

RemoveEdge ==
  /\ saving # Null
  /\ saving.written
  /\ saving.add = {}
  /\ \E x \in saving.del :
       /\ RemoveDependency(saving.id, x)
       /\ Goes([saving EXCEPT !.del = @ \ {x}])
  /\ UNCHANGED <<status, issued, items, asked, answers, dialog, deleting, edits>>

\* The next request of the chain will be answered with an error.
NextRefused ==
  \/ ~saving.written /\ saving.id # Null /\ saving.id \notin live
  \/ saving.written /\ \E x \in saving.add : Refused(saving.id, x)
  \/ /\ saving.written /\ saving.add = {}
     /\ \E x \in saving.del : <<saving.id, x>> \notin edges

Error ==
  /\ saving # Null
  /\ NextRefused
  /\ Failed
  /\ UNCHANGED <<table, items, asked, answers, dialog, deleting, slips, edits>>

Lost ==
  /\ saving # Null
  /\ Failed
  /\ Careful(FALSE)
  /\ UNCHANGED <<table, items, asked, answers, dialog, deleting, edits>>

UnderWay == asked + Cardinality(answers) + Len(deleting)
Room == UnderWay < MaxLoads

NoReload == asked' = asked
Reload == asked' = asked + 1

\* setOpen(false), whichever dialog is open by now, and load().
Done ==
  /\ saving # Null
  /\ saving.written /\ saving.add = {} /\ saving.del = {}
  /\ Room
  /\ dialog' = Null
  /\ saving' = Null
  /\ outcome' = "saved"
  /\ Reload
  /\ UNCHANGED <<table, items, answers, deleting, slips, edits>>

-----------------------------------------------------------------------------
(***************************************************************************)
(* The list                                                                *)
(***************************************************************************)
\* remove sends its request and waits.
DeleteItem ==
  /\ UserActs
  /\ dialog = Null
  /\ Room
  /\ \E d \in items.live : deleting' = Append(deleting, d)
  /\ UNCHANGED <<table, items, asked, answers, dialog, saving, outcome, edits>>

\* The deliverable is deleted and the list read again, unless the answer is
\* lost.
Deleted ==
  \E i \in DOMAIN deleting :
    /\ Delete(deleting[i])
    /\ deleting' = RemoveAt(deleting, i)
    /\ \/ Reload /\ outcome' = "none" /\ Careful(TRUE)
       \/ asked' = asked /\ outcome' = outcome /\ Careful(FALSE)
    /\ UNCHANGED <<status, issued, items, answers, dialog, saving, edits>>

\* A 404, or the request is lost: the list is not read again.
NotDeleted ==
  \E i \in DOMAIN deleting :
    /\ Careful(deleting[i] \notin live)
    /\ deleting' = RemoveAt(deleting, i)
    /\ UNCHANGED <<table, items, asked, answers, dialog, saving, outcome, edits>>

ServeList ==
  /\ asked > 0
  /\ asked' = asked - 1
  /\ \/ answers' = answers \cup {Stored} /\ Careful(TRUE)
     \/ answers' = answers /\ Careful(FALSE)
  /\ UNCHANGED <<table, items, dialog, saving, deleting, outcome, edits>>

\* Answers are shown in the order in which they arrive.
ShowList ==
  /\ \E g \in answers :
       /\ items' = g
       /\ answers' = answers \ {g}
  /\ UNCHANGED <<table, asked, dialog, saving, deleting, outcome, slips, edits>>

-----------------------------------------------------------------------------
SaveStep == Write \/ AddEdge \/ RemoveEdge \/ Error \/ Lost \/ Done
DeleteStep == Deleted \/ NotDeleted
ListStep == ServeList \/ ShowList

Next ==
  \/ OpenCreate \/ OpenEdit \/ ChangeForm \/ Close \/ Save \/ DeleteItem
  \/ SaveStep
  \/ DeleteStep
  \/ ListStep

Spec == Init /\ [][Next]_vars

\* Every fetch comes to an end, with an answer or with an error.
Fairness == WF_vars(SaveStep) /\ WF_vars(DeleteStep) /\ WF_vars(ListStep)
FairSpec == Spec /\ Fairness

-----------------------------------------------------------------------------
(***************************************************************************)
(* Properties                                                              *)
(***************************************************************************)
\* Every variable has the type its declaration says, a save knows its
\* deliverable as soon as that is written, and no form has a deliverable
\* depend on itself.
TypeOK ==
  /\ Stored \in Graph
  /\ live \subseteq issued /\ issued \subseteq Deliverable
  /\ items \in Graph
  /\ asked \in 0 .. MaxLoads /\ UnderWay \in 0 .. MaxLoads
  /\ answers \subseteq Graph
  /\ dialog \in Form \cup {Null}
  /\ dialog # Null => dialog.editing \notin dialog.deps
  /\ saving \in Saving \cup {Null}
  /\ saving # Null /\ saving.written => saving.id # Null
  /\ deleting \in Seq(Deliverable)
  /\ outcome \in {"none", "saved", "failed"}
  /\ edits \in 0 .. MaxEdits /\ slips \in 0 .. MaxSlips

\* As long as there was no slip, a Save that reports success leaves the
\* deliverable with the dependencies that were in the form, although
\* syncDependencies only sends the difference to the row that the dialog was
\* opened with.
SavedAsShown ==
  [][(slips' = 0 /\ outcome' = "saved" /\ saving # Null /\ saving' = Null) =>
       Dependencies(Stored', saving.id) = saving.form.deps]_vars

\* As long as there was no slip, the page shows what is stored whenever nothing
\* is under way: the deliverables, their projects and their dependencies, and
\* the status of each unless a save has been refused since the list was read:
\* its update has been stored by then, and catch does not read the list again.
ListFresh ==
  (slips = 0 /\ Quiet) =>
    /\ SameGraph
    /\ outcome # "failed" => \A d \in live : items.status[d] = status[d]

\* Even when the dialog was opened on an old list, and whatever is lost: a
\* successful Save has stored every dependency that was added in the form,
\* except on deliverables that have been deleted since.
AddedIsStored ==
  [][(outcome' = "saved" /\ saving # Null /\ saving' = Null /\ saving.id \in live) =>
       (saving.form.deps \ saving.form.old) \cap live
         \subseteq Dependencies(Stored, saving.id)]_vars

\* After a refused cycle the dialog stays open with the dependencies it was
\* opened with: what the failed Save has stored already is not in the form, and
\* a second Save that succeeds leaves it there.
SavedExactly ==
  [][(outcome' = "saved" /\ saving # Null /\ saving' = Null) =>
       Dependencies(Stored', saving.id) = saving.form.deps]_vars

\* The Save button always comes back.
SaveEnds == saving # Null ~> saving = Null
=============================================================================
