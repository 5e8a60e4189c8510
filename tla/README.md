# ACME Project Hub: verification project

The repository is a project-management application: five Python Lambda services
(`backend/*-service`) that share one PostgreSQL database, and a React front end
(`frontend/src`) that calls them through an API gateway. This directory holds
TLA+ modules of the parts where its correctness is decided, the TLC
configurations that check them on small instances, and TLAPS proofs of what
matters most, for instances of any size. Paths below are relative to the root of
the repository (`src/` in `PROJECT.json`).

## 1. Inventory

### 1.1 Services

Each service is a `function.py` (`handler`: routing, role checks, validation,
one `except Exception` that answers 500) and a `postgres_service.py` (SQL,
`init_db`, the connection). A warm container serves one request at a time and
keeps its connection in the module global `PG_CONN`; several containers of one
service run at once. No service calls another one.

| Component | State | Operations | What is hard | What makes it correct |
|---|---|---|---|---|
| Warm connections (all services) | `PG_CONN`, the transaction on it | `get_connection`, `init_db`, `reset_connection`, commit, the handlers' `except` | errors in the middle of a transaction, a server that drops the connection while the container is frozen, lost acknowledgements | nothing of one request reaches the next one; what was acknowledged is committed |
| Deliverables service | tables `deliverables`, `deliverable_dependencies` | CRUD, `add_dependency` with `would_create_cycle`, `remove_dependency`, lists with dependencies | the cycle search is one SELECT per node, the INSERT comes later; two tables without a foreign key | acyclic; one project per dependency; no orphan; every request is answered |
| Auth service | table `users`, the tokens given out | register, login, verify, list | lookup and INSERT are two statements; addresses are normalised in two places | one account per address; a token names an account; a correct login is never called wrong |
| Projects service | table `projects` | CRUD, filter, `enrich_project` | the status shown is computed from the day | the computed status is never stored by an edit of something else |
| Resources service | tables `resources`, `allocations` | CRUD of both, totals | totals are computed in two queries with different clamping; a NULL capacity makes them fail; a deletion cascades | totals are those of the table; no allocation outlives its resource |
| Budget service | table `budget_entries` | CRUD, `get_summary` | entries carry a copy of the project's name, the summary is cut along it | the cards of a project add up |

### 1.2 Front end

| Component | State | Operations | What is hard | What makes it correct |
|---|---|---|---|---|
| Browser session (`AuthContext`, `PrivateRoute`, `Login`, `Layout`) | `localStorage.token`, shared by the tabs; per tab `user`, `loading` | load, verify, login, register, logout; tokens expire | late answers; tabs that do not hear of each other, nor of an expiry | pages belong to the user whose token their requests carry; logout is final; an expired token goes |
| Deliverables page | list, dialog, `editing`, `saving` | Save is a chain: write, add each new dependency, remove each old one, reload | one request of the chain fails; answers arrive out of order | what Save reports is what is stored; the button comes back |
| Projects page | list, filter, dialog | CRUD, filter | the form is a copy of a row and is sent whole | nothing but what the user chose changes |
| Resources page | list, form, detail, allocation dialog | CRUD, add and remove allocations | two copies of the totals, late answers for another dialog, a form that is sent whole | the over-allocation warning does not understate; an untouched capacity stays |
| Budget page, dashboard | lists, filter, dialog, cards, chart | CRUD, filter, several lists loaded at once | lists read at different moments, loads that overtake each other, all or part of them failing; two ways of adding up | what is shown agrees with the table; over budget is said when it is so |
| API client (`services/api.js`) | none | `fetch` with the stored token | any call may fail | |

Not modelled: CSV and print export, the development proxy, the deployment
scripts and Terraform, the example services of the workshop, the tests, and the
libraries copied into the services (psycopg, PyJWT, ...), which are modelled from
how they are used where that matters. `PROJECT.json` lists every component and,
under `hazards`, every hazard at its line with the properties aimed at it.

### 1.3 Interaction

The pages call the services over HTTP; any request, or its answer, may be lost or
answered with an error, reloads of a list included. Services interact only through the
database. Tabs interact through `localStorage` and the database. `DependencyGraph` is the seam between the two
halves of the project: `Deliverables` is checked to implement it, and
`DeliverablesPage` is built on top of it.

## 2. Modules

| Module | Models | State and actions |
|---|---|---|
| `Deliverables` | `deliverables-service` | The two tables (`live`, `row`, `deps`), and per container the next statement `pc`, the request `req`, the uncommitted writes `tx`, and the locals of `would_create_cycle` (`visited`, `stack`). One action per SQL statement: `LookupA`, `LookupB`, `Visit` (one turn of the `while`), `InsertDep`, `DeleteDeps`, `DeleteRow`, ..., `Commit`. `Receive` is the handler up to its first statement, with the answers it may give before (`Early`: 500 of `init_db`, 401, 403, 404, 400; a preflight `OPTIONS`, which touches nothing, is left out) |
| `DependencyGraph` | what that service promises | The graph as if every request were atomic; the abstract specification |
| `MCDeliverables` | | The sets of operations each container is sent |
| `DeliverablesProofs` | | Theorems about `Deliverables`; the refinement of `DependencyGraph` |
| `WarmConnection` | `PG_CONN` in all services | Per container the connection (`link`), the request and its position in a script of statements; outages, recycled containers, lost acknowledgements |
| `ServiceOperations` | every operation of the five services, as a script | What of an operation matters to the connection: the order of its reads, writes, commits and early answers |
| `MCWarmConnection`, `WarmConnectionProofs` | | The scripts of `ServiceOperations` for TLC; theorems |
| `Accounts` | `auth-service` | `users`, `tokens`, and per container `pc`, `req`, `tx` |
| `AccountsProofs` | | Theorems about `Accounts` |
| `Session` | `AuthContext.jsx`, `App.jsx`, `Login.jsx`, `Layout.jsx` | `stored` (the token), how many tokens have `expired`, and per tab `page`, `user`, `loading`, the verify and login requests under way |
| `SessionProofs` | | Theorems about `Session` |
| `DeliverablesPage` | `pages/Deliverables.jsx` | Composes with `DependencyGraph`: its variables and actions are the service, to which `status` adds a field that every Save updates. `items`, `dialog`, `saving`, and the deletions and reloads under way. A deletion is sent by a click (`DeleteItem`) and takes effect, or not, later (`Deleted`, `NotDeleted`) |
| `MCDeliverablesPage`, `DeliverablesPageProofs` | | Initial states for TLC; theorems about `DeliverablesPage` |
| `Projects` | `projects-service` and `pages/Projects.jsx` | `rows`, the day, and the page: `list`, `filter`, `dialog`, `saving`, `deleting`, `loads`. A reload is sent, served and shown in three steps, and may fail (`LoadFails`), which leaves the list as it is |
| `ProjectsProofs` | | Theorems about `Projects` |
| `Resources` | `resources-service` and `pages/Resources.jsx` | The tables (`capacity`, `rows`), the page's `list`, `form`, `saving`, and the allocation dialog: `shown`, `adding`; the requests for the list (`reloads`) and for a detail (`details`) under way, each served and shown in steps of its own, in any order |
| `MCResources`, `ResourcesProofs` | | What may be typed for a capacity; theorems about `Resources` |
| `Budgets` | `budget-service`, `pages/Budget.jsx`, `pages/Dashboard.jsx` | The tables (`projects`, `rows`), and a tab on the page (`shown`, `filter`, `form`, `saving`, `removing`, `loads`) or on the dashboard (`board`). A load remembers the contents the tables have had since it was asked for; what arrives is read, list by list, in any of them (`Answers`). A write is sent (`Save`, `RemoveEntry`), takes effect (`Create`, `Delete`) and is answered (`Saved`, `Removed`) in three steps |
| `MCBudgets`, `BudgetsProofs` | | Symmetry and initial budgets for TLC; theorems about `Budgets` |

Conventions. A statement sees what is committed when it executes (READ COMMITTED,
psycopg's default), a write becomes visible with its commit, and a statement
waits for another container's uncommitted write of the same row or unique key. A
variable marked *history* in its declaration is not in the code; it remembers what
a property needs. In the modules of pages, **slips** counts what disturbs a
session: a lost request or answer, a request (a reload, too) that fails without a
reason in the data, a click made before everything under way has been answered, a
write by somebody else. Properties that only hold in an
undisturbed session say `slips = 0`; all the others hold through every slip. In `Budgets`
the properties do not look at `slips`, which only bounds the disturbances; *fresh*
says of the page, and `board.seen` of the dashboard, that nothing has been written
behind their back since they asked.

## 3. What the runs check

| Run | Shows |
|---|---|
| `deliverables_one_adder` | One container adds dependencies while another creates, updates, removes and deletes: the graph stays acyclic (`NoCycle`), dependencies stay in a project (`SameProject`), and a list filtered by project mentions no other project's deliverables (`ProjectListClosed`), although each is decided by reads made statements earlier |
| `deliverables_editor` | One container does everything that changes the graph, whatever fails, and the tables *refine* `DependencyGraph` (`ImplementsGraph`): no partial delete, no orphan (`NoOrphan`), and "circular dependency" is only answered for a dependency that closes a cycle at that moment (`RefusedOnlyForCycle`) |
| `deliverables_answered` | Every request is answered, although two adding containers have put cycles into the graph that later searches walk through |
| `deliverables_race` (violation) | README.md:36 promises circular dependency prevention. Two containers search, then both insert: `NoCycle` fails |
| `warm_connection` | Two containers, three requests, each any operation of any service, a failure at any statement: no request starts on an aborted transaction or another's writes (`IdleIsClean`), acknowledged writes are committed, no commit completes another request's writes (`NothingLeaks`) |
| `accounts` | Two containers registering and logging in: one account per address however it is typed, tokens name accounts, a correct login is never refused |
| `session` | Two tabs: pages match the token and a logout is final in every tab behind whose back the token has not changed; the spinner ends, and an expired token leaves the storage after the first load with it (`ExpiredTokenGoes`) |
| `page` | The deliverables page: until the first slip the list shows what is stored (`ListFresh`) and Save stores what it showed (`SavedAsShown`). A save that is refused halfway, say for a dependency on a deliverable of the form's project when the row has another one, has stored its update, and nothing reads the list again (`Deliverables.jsx:99` and 109): `ListFresh` then still holds of deliverables, projects and dependencies, and no more of the statuses. Through every slip, what was added in the form is stored when Save says so (`AddedIsStored`), and the button comes back (`SaveEnds`) |
| `page_retry` (violation) | A Save refused for a cycle has already stored other dependencies; unticking them and saving again succeeds and leaves them stored (`SavedExactly`) |
| `projects` | The computed `at_risk` is never saved as if chosen, a stale Save does not resurrect a deleted project; until the first slip, a failed reload being one (`Projects.jsx:46`), the filter is obeyed, and a save keeps the status and the end date its user did not touch (`UntouchedSurvives`), although it sends both and the UPDATE erases a date it is not sent |
| `resources` | No allocation outlives its resource or is listed under another's name (`AllocationsBelong`), Save and Add come back (`ButtonsReturn`); until the first slip list and dialog show the totals of the tables (`TotalsFresh`), over-allocation has been warned of, and an untouched capacity survives a save (`CapacitySurvives`) |
| `budgets` | However the three lists of a load mix and two loads overtake each other, the page is right after the load asked for last, once no write of its own waits for an answer: its list is the stored one, and a project with one card is over budget, or with what remains, exactly as it says (`CardsRight`). The dashboard's chart and its overview agree with the table in whatever has arrived (`BoardAgrees`) |

### Bounds

- `Deliverables`: two containers and three deliverables are the least in which a
  search visits an intermediate node while somebody else changes it; cycles of
  length two and three exist. Two projects where projects matter. The race and the
  run about answers use one project.
- `WarmConnection`: three requests, so that a container serves one before and one
  after the one that fails.
- `Accounts`: two containers, three ids, two addresses in two spellings, two passwords.
- `Session`: two tabs, two users, and as many logins as `Session.cfg` allows: a token to
  log in over, one that overtakes it, and each of them may expire at any moment.
- Pages: one, two or three rows, two reloads under way (`MaxLoads`, `Slots`), and one
  slip (`MaxSlips`), two in `Projects`: every ordering of two answers, and every single
  disturbance at every point of a session.
- `DeliverablesPage`: one choice of another status (`MaxEdits`) is enough for an update
  that a refused save leaves behind. `MCDeliverablesPage` starts with the projects that
  tell the deliverables apart. `page_retry` has one project, one status, and a single
  slip, which is all that its trace needs.
- `Projects`: one project, since every operation is about one row; its rows start in
  every way. One deletion under way (`MaxDeletes`) beside two reloads and a save; two
  slips, such as a failed reload and a change elsewhere. Days: today and tomorrow, which
  is before and at the deadline. `Notice` is 0 instead of 14 days: only the comparison
  matters.
- `Resources`: two resources of which one exists at first, capacity 2, allocations of 2
  hours: one of them fills a resource, a second one takes it over. What may be typed
  for a capacity is nothing or a negative number (`MCResources`), which every
  allocation exceeds.
- `Budgets`: two projects, two names, a filter by one project, two entries that each
  are the larger budget: a project is at its budget with one and over it with two. The
  project of the filter starts with the larger budget, the other one without any; both
  may change. Two requests under way (`MaxRequests`), among them two loads or a load
  beside a write, and one slip; a click after it finds at most nothing else under way,
  and others write while there is room for one more request.
- Ids are never reused (`issued`), so they bound how many rows a run creates.

### Fairness

`Deliverables`: strong fairness of each container's statements. A handler runs to its
end, and a statement that waits for a lock is granted it, since PostgreSQL serves
waiters in order; the run has no DELETE, hence no circle of waits. `Session`, `DeliverablesPage`, `Resources`: weak fairness of
the answers only: a `fetch` settles, with an answer or with an error. No fairness is
assumed of users, of `Receive`, or of failures.

### What the models have beside the checked properties

Behaviours of the code that a reader of the properties should know, each visible in
a model by taking away the condition named:

- *Deliverables*: with two containers a dependency may be inserted for a
  deliverable that is being deleted, and outlives it (`NoOrphan` with the
  operations of `TwoAdders`); a search may refuse a dependency for a cycle that another
  container's removal has just opened (`RefusedOnlyForCycle`). With a second element of `Spelling`, the self check
  of `postgres_service.py:188` and the search compare different strings for one
  uuid, and a deliverable depends on itself.
- *Accounts*: the loser of two simultaneous registrations is answered 500 with the
  database's text, not the 400 of `function.py:120`.
- *Session*: `/login` does not wait for the verification of an old token; its late
  answer replaces the user, or removes the token, of the login made meanwhile.
- *Deliverables page*: a New dialog whose Save failed after its first request creates a
  second deliverable at the next Save; the project chosen for an existing
  deliverable is not stored by `update_deliverable` (`postgres_service.py:108`); a save
  refused after its PUT leaves the list without what the PUT has stored, and a deletion
  answered with an error leaves the row (`Deliverables.jsx:109`, 115).
- *Session*: a token that expires in an open page only makes its requests fail with
  an error message; nothing leads to /login until the page is loaded again.
- *Projects*: the form is saved whole, so that a stale form overwrites a newer
  status; a reload that fails leaves the old list under the new filter, and an edit
  from it writes old values back (`LoadFails`, which counts as a slip); an API client's
  partial PUT erases both dates (`Updated`, COALESCE is missing at
  `postgres_service.py:113`); `budget_spent` is read by the projects page and the
  dashboard, and nothing ever writes it; the page offers Edit to contributors whose PUT
  is answered 403 (`function.py:52`, against README.md:30 and 48).
- *Resources*: the detail that arrives late for a closed dialog turns the open one
  into the other resource's; nothing checks a capacity, which may be negative
  (`Resources.jsx:290`), nor the hours of an allocation beside the page
  (`resources-service/function.py:48`); a stale form
  overwrites a newer capacity; a NULL capacity, which only an API client can post,
  makes the list of all resources fail for everybody until the row is changed or
  deleted; the list shows 0 hours available where the detail shows less than none.
- *Budgets*: the reload after a deletion or a creation asks with the filter of the click
  (`Removed`, `Saved`), and replaces the list of a filter chosen meanwhile; when the answer to
  a creation is lost, the dialog stays open and a second Save enters the amount twice; a
  rename splits a project over several cards; a POST with an empty type,
  or a PUT with any, stores an entry that counts neither way; entries are accepted
  for deleted projects, and keep a card that is over a budget of 0.

## 4. What is proved

The proofs are for any number of containers, requests, rows and values of the
other constants.

**`DeliverablesProofs`.** `TypeCorrect`: `Spec => []TypeOK`. `OneProject`:
`Spec => []SameProject`; the invariant adds that a container past its lookups, or
about to commit an `add`, has two deliverables of equal project (a row's project
never changes, and its id is never handed out again). `NoCycleWithOneAdder`:
assuming at most one container is sent `add` and `Spelling = {Canonical}`,
`Spec => []NoCycle`. The invariant (`CycleInv`, `SearchInv`) says of the searching
container: the target is in `visited` or `stack`, the source is not in `visited`,
and every committed dependency that leaves `visited` ends in `visited` or `stack`.
Other containers only remove dependencies, which keeps it. At the insertion `stack`
is empty, so `visited` is closed, contains the target and not the source, and the
new dependency enters it from outside: it closes no cycle (`ClosedSetAcyclic`).
Both assumptions are needed: `deliverables_race` and the two spellings above are
the counterexamples without them.

**`DeliverablesProofs`, the refinement.** `Refines`: assuming that at most one container is sent `add` and
`delete` (`OneEditing`; the others may create, update, read and remove) and
`Spelling = {Canonical}`, `Spec => ImplementsGraph`: each commit is one step of
`DependencyGraph` or none. `NothingOrphaned`: under `OneEditing`, `Spec => []NoOrphan`.
The invariant `EditInv` says of every transaction what it has written so far and that
the tables still have what it is about to change (`Shape`), of an `add` that what it has found
is still there (`Ends`), and that row locks keep the writes of two transactions apart
(`Locks`). With `TypeOK`, `ProjectInv` and `CycleInv` it gives each commit the guard of
the abstract step. `RefusedRight` (`RefusedOnlyForCycle`), assuming that no other container
removes while one adds: whatever the search has come across is reachable from where it
started (`FoundInv`). `ListClosed` (`ProjectListClosed`), without assumptions: the list's second
query filters one end of a dependency, and `SameProject` answers for the other.

**`WarmConnectionProofs`.** Assuming `WritesCommitted` (a script never ends, and
never returns early, between a write and the commit after it, which holds of every
operation of the services), `TypeCorrect`, `StartsClean` (`IdleIsClean`),
`Durable` (`AcknowledgedIsCommitted`) and `NoLeak` (`NothingLeaks`). The invariant
`Tracked`: uncommitted writes are the last thing the current request did or are lost
with their connection, and no transaction that outlives a step is aborted.

**`AccountsProofs`.** `TypeCorrect`, `UniqueAddress` (`OneAccountPerAddress`),
`TokensHold` (`TokensNameAccounts`) and `LoginFair` (`LoginRefusedOnlyIfWrong`). The
invariant: every stored or uncommitted address is in normal form, stored addresses
are distinct, and an uncommitted one is neither stored nor anybody else's, which
is what UNIQUE with its lock maintains between the lookup and the commit.

**`SessionProofs`.** `TypeCorrect`, `PagesRight` (`PagesMatchToken`) and `LogoutFinal`
(`LoggedOutStaysOut`). The invariant `InStep`: a tab that has not been overtaken
verifies the stored token and shows nobody meanwhile, or shows the stored token's
user; `Ended`: serials are handed out in turn, so that the stored token is never one
that was logged out of.

**`DeliverablesPageProofs`.** `TypeCorrect`, `ListRight` (`ListFresh`), `SavedRight`
(`SavedAsShown`) and `AddedRight` (`AddedIsStored`). `Progress` says how far a save without
a slip has got: the stored edges are those of the list, plus what has been added, minus
what has been removed so far. From it `NothingStored`: such a save is refused before
its first dependency has changed the graph or not at all, since what the dialog offers
belongs to one project and a new node closes no cycle (`NewNode`). Its update, which
stores the status, may have been carried out by then. Deliverables, projects and
dependencies are therefore still those of the list when the dialog stays open; a status
need not be, and `ListFresh` says so. `Adds`, which holds through every slip, keeps what
has been added.

**`ProjectsProofs`.** All the properties of `Projects`: `TypeCorrect`, `NothingSticks`
(`ComputedStatusNeverSticks`), `NoResurrection` (`DeletedStaysDeleted`), `FilterRight`
(`FilterObeyed`) and `OnlyTheTouched` (`UntouchedSurvives`). The stored status travels
from the table through an answer, the list and the form back into the table; `Chosen`
says of each of these copies that somebody chose it, which survives whatever happens to
the table meanwhile, because the history of choices only grows. `InOrder` is about
a session without slips: either a reload is under way or a form is open, so that every
copy the user can act on is what is stored. It speaks of sessions in which no reload has
failed: `FilterRight` and `OnlyTheTouched` say nothing of what follows one.

**`ResourcesProofs`.** All the safety properties of `Resources`, for any number of
resources, allocations and requests under way, and whatever integers are typed, since
nothing checks a capacity: `TypeCorrect`, `NoForeignAllocation` (`AllocationsBelong`),
`CapacityKept` (`CapacitySurvives`), `TotalsRight` (`TotalsFresh`) and `WarnedBefore`
(`OverAllocationWarned`). `Tables`: an allocation's resource exists, kept by the foreign
key at the INSERT and by the cascade; `Own`: name and allocations of a detail come from
one answer; `InOrder`: without a slip the list is what is stored unless a reload of it is
still to come, whose answer, once given, is what is stored, and no allocation changes
while a form is open. The two theorems about
totals need more of a session without slips (`CalmInv`). `Calm`: at most one detail
request is under way, and none beside a save or an addition that is still to take
effect; its answer, once given, is what the table says now; and such an addition was
warned of just when it takes the stored sum over the capacity. `Right`: an open dialog is
that of a stored resource, and shows what is stored unless a detail of this resource
is to come. `AllocatedMore` says what the INSERT makes of the sum.

**`BudgetsProofs`.** `TypeCorrect`, `CardsAreRight` (`CardsRight`) and `BoardIsRight`
(`BoardAgrees`), for any number of projects, names, entries and requests and any integer
amounts and budgets, NULL budgets included, which change while the page is open. The
invariant `IInv`: the load asked for last has seen nothing but what is stored,
unless something was written behind the page's back or a write of its own waits for its
answer (`LastSees`); a load that ends makes the earlier ones out of date, so that a page
which is fresh with nothing to come, and with no such write, shows an answer to the
tables as they are (`Told`); a tab on the dashboard has left nothing of the
page behind (`Away`). What remains is arithmetic. The only card of a project is the group
of all its entries (`OnlyCard`). On the dashboard a project may have many rows, one for
each of its names: each is what one part of the project's entries comes to, and
`RowsAddUp` shows, over the subsets of the rows, that the parts make up the whole.

**Sums.** The totals are sums over sets (`SumFunctionOnSet`), defined by recursion on the
set. The library's induction theorems take an operator and cannot be used here, but the
well-foundedness of the strict subset order on finite sets is a fact without such a
parameter, and with it the principle for a *set* of subsets follows from a minimal
counterexample (`SubsetInduction`). From it: the recursion has a value and only one
(`SomethingAddsUp`, `AddsUpOnce`), a sum does not depend on the element taken out first
(`SumTakesOut`), depends on its summands only (`SumAlike`), and is the sum of two parts
without a common element (`SumUnion`). `ResourcesProofs` and `BudgetsProofs` each state
the ones they need.

Assumptions on constants: numbers are natural where they are counted (`BoundAssumption`,
`BoundsAssumption`), and `Null` and the other marks are none of the values they stand
beside (`NullAssumption`, `MarksAssumption`, `FailedAssumption`). In `Budgets` the ids are
finitely many, as the rows of a table are (`IdAssumption`), amounts and budgets are
integers (`AmountAssumption`), and at least one request may be under way, since the first
load always is. In `Resources` capacities and hours are integers (`CapacityAssumption`,
`HoursAssumption`), and the capacity that the page proposes is a natural number;
allocations are numbered, and finitely many by construction. `DeliverablesPage` needs the
status of a new form to be one (`StatusAssumption`).

Only model-checked: the liveness properties (`Answered`, `SpinnerEnds`, `ExpiredTokenGoes`,
`SaveEnds` and `ButtonsReturn`), which rest on fairness and so on ENABLED. Every other
property of a passing run is the statement of a theorem.

## 5. Approximations

- A DELETE that waited for a lock takes its snapshot after the wait; in PostgreSQL it
  re-evaluates the row it waited for, with the same result for these statements.
- A DELETE takes the locks of all its rows in one step. In PostgreSQL two DELETEs that
  share rows and come across them in different orders could wait in a circle, of which
  the server's deadlock detector fails one: to that request it is a failed statement
  (`Fail`), which the model has at every point.
- The stack of `would_create_cycle` is a set: a duplicate is skipped when popped.
- The id of a new row is drawn when the request arrives; nobody sees it earlier.
- In the modules of pages a request takes effect in one step. Each such request is one
  transaction of its service, and `ImplementsGraph` justifies it for dependencies
  as long as one container adds and deletes. A read is served in one step and shown in a
  later one. A write that the page sends takes effect and is answered in one step, some
  time after the click; in `Budgets` the two are steps of their own. The two deletions of
  `Resources` (`RemoveResource`, `RemoveAllocation`) take effect at the click.
- The filtered list and the full list of the deliverables page are one. Of the fields that
  its Save updates only the status is kept. Statuses are kept up to what the code
  distinguishes (`Projects`).
- `get_resource_by_id` reads the resource and its allocations with two SELECTs; a
  change between them is left out, and the detail is read in one step.
- Amounts are integers: the rounding of SQL NUMERIC and of JavaScript's numbers is left
  out, and with it a budget that is met but for a fraction of a cent. Dates are days of one calendar: so are time zones.
- The dashboard's overview shows the first five rows of the summary; the model has no more.
- A tab that leaves the budget page forgets what it has under way: a write that is still to
  come counts as somebody else's (`OpenBoard`).
- `StrictMode`, which runs effects twice in development, is left out.

## 6. Plan

Done: the modules above, in the order of the table. What is left:

1. Deletion of a project across services: deliverables, allocations and entries that
   keep naming it.
