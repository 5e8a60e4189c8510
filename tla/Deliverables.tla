---------------------------- MODULE Deliverables ----------------------------
(***************************************************************************)
(* The deliverables service (src/backend/deliverables-service): warm       *)
(* Lambda containers, one request at a time each, over one PostgreSQL      *)
(* database.  Every SQL statement is a step of its own and sees what is    *)
(* committed at that moment (READ COMMITTED, the default of psycopg's      *)
(* connections); a write becomes visible with the COMMIT that follows it.  *)
(* A write waits for another container's uncommitted write of the same     *)
(* row or the same unique key.  A statement, the connection or the         *)
(* container may fail at any step: the transaction is rolled back, and the *)
(* handler drops its connection and answers 500 (function.py:83-84).       *)
(***************************************************************************)
EXTENDS Naturals

CONSTANTS
  Workers,      \* the warm containers of the function
  Serves,       \* the operations the gateway sends to each of them
  Deliverable,  \* the ids gen_random_uuid may hand out (bounds the model)
  Existing,     \* the deliverables present when we start looking
  Project, Status,
  Spelling,     \* the ways a client may write one uuid (letter case, say)
  Canonical,    \* the way str(uuid) writes it
  Null

Operation == {"create", "update", "delete", "get", "list", "add", "remove"}
Role == {"admin", "manager", "contributor", "viewer"}

ASSUME ServesAssumption    == Serves \in [Workers -> SUBSET Operation]
ASSUME ExistingAssumption  == Existing \subseteq Deliverable
ASSUME ProjectAssumption   == Project # {}
ASSUME NullAssumption      == Null \notin Project \cup Status
ASSUME StatusAssumption    == "pending" \in Status
ASSUME CanonicalAssumption == Canonical \in Spelling

Edge == Deliverable \X Deliverable
Row == [project : Project, status : Status, completed : BOOLEAN]

\* A uuid as the Python code holds it is a string: the id and how it is
\* written.  Text out of the database is canonical.
Text == Deliverable \X Spelling
Uuid(t) == t[1]
Str(d) == <<d, Canonical>>

Request ==
       [op : {"create"}, id : Deliverable, project : Project, status : Status]
  \cup [op : {"update"}, id : Deliverable, status : Status \cup {Null}]
  \cup [op : {"delete", "get"}, id : Deliverable]
  \cup [op : {"add"}, a : Text, b : Text]
  \cup [op : {"remove"}, edge : Edge]
  \cup [op : {"list"}, project : Project \cup {Null}, status : Status \cup {Null}]

VARIABLES
  live,     \* ids of the rows of table deliverables
  row,      \* their contents (what is left of a deleted row is never read)
  deps,     \* table deliverable_dependencies: <<deliverable_id, depends_on_id>>
  issued,   \* the ids handed out so far: a uuid is never handed out twice
  pc,       \* the statement each container executes next
  req,      \* the request it is serving
  tx,       \* the uncommitted writes of its transaction
  found,    \* what its first SELECT brought: {} or {a project}, or the ids of a list
  visited, stack,  \* the two collections of would_create_cycle
  reply     \* the response given by the last step, if that step gave one

db    == <<live, row, deps>>
local == <<found, visited, stack>>
vars  == <<db, issued, pc, req, tx, local, reply>>

NoWrites == [add |-> {}, del |-> {}, gone |-> {}, put |-> {}, new |-> Null]
NoReply == [by |-> Null, code |-> "none", rows |-> {}, links |-> {}]

Init ==
  /\ live = Existing
  /\ row \in [Deliverable ->
              [project : Project, status : {"pending"}, completed : {FALSE}]]
  /\ \A d, e \in Deliverable \ Existing : row[d] = row[e]
  /\ deps = {}
  /\ issued = Existing
  /\ pc = [w \in Workers |-> "idle"]
  /\ req = [w \in Workers |-> Null]
  /\ tx = [w \in Workers |-> NoWrites]
  /\ found = [w \in Workers |-> {}]
  /\ visited = [w \in Workers |-> {}]
  /\ stack = [w \in Workers |-> {}]
  /\ reply = NoReply

-----------------------------------------------------------------------------
(***************************************************************************)
(* Between requests and statements                                         *)
(***************************************************************************)

\* The handler returns: nothing of the request stays in the container, and
\* what was not committed is rolled back at the latest with the connection.
Respond(w, code, rows, links) ==
  /\ pc' = [pc EXCEPT ![w] = "idle"]
  /\ req' = [req EXCEPT ![w] = Null]
  /\ tx' = [tx EXCEPT ![w] = NoWrites]
  /\ found' = [found EXCEPT ![w] = {}]
  /\ visited' = [visited EXCEPT ![w] = {}]
  /\ stack' = [stack EXCEPT ![w] = {}]
  /\ reply' = [by |-> w, code |-> code, rows |-> rows, links |-> links]
  /\ UNCHANGED issued

Answer(w, code) == Respond(w, code, {}, {})

\* A statement that leaves the tables alone and goes on to the next one.
Goto(w, label) ==
  /\ pc' = [pc EXCEPT ![w] = label]
  /\ reply' = NoReply
  /\ UNCHANGED <<db, issued, req>>

\* An INSERT, UPDATE or DELETE: its effect waits for the commit.
Write(w, label, writes) ==
  /\ Goto(w, label)
  /\ tx' = [tx EXCEPT ![w] = writes]
  /\ UNCHANGED local

\* Writes of other containers that make a statement wait.
Others(w) == Workers \ {w}
EdgeLocked(w, e) == \E v \in Others(w) : e \in tx[v].add \cup tx[v].del
RowLocked(w, d) == \E v \in Others(w) : d \in tx[v].gone \cup tx[v].put

Permitted(role, op) ==
  CASE op \in {"create", "add", "remove"} -> role # "viewer"
    [] op = "delete"                      -> role \in {"admin", "manager"}
    [] OTHER                              -> TRUE

FirstStatement(op) ==
  CASE op = "create" -> "insert_row"   [] op = "update" -> "update_row"
    [] op = "delete" -> "delete_deps"  [] op = "remove" -> "delete_dep"
    [] op = "list"   -> "select_rows"  [] op = "get"    -> "select_row"
    [] op = "add"    -> "lookup_a"

\* The answers that any request of an operation may get before its first
\* statement: init_db fails, there is no valid token, the path leads nowhere,
\* a field is missing, the role will not do.
Early(op) ==
  {"500", "401", "404"}
    \cup {"400" : o \in {op} \cap {"create", "add"}}
    \cup {"403" : role \in {r \in Role : ~Permitted(r, op)}}

(***************************************************************************)
(* The gateway hands a request to an idle container.  For POST             *)
(* .../dependencies the two strings are compared before any statement.     *)
(* The id of a new row is drawn here (nobody can see it before the         *)
(* commit).                                                                *)
(***************************************************************************)
Receive(w) ==
  /\ pc[w] = "idle"
  /\ \/ \E op \in Serves[w] : \E code \in Early(op) : Answer(w, code)
     \/ \E r \in Request :
          /\ r.op \in Serves[w]
          /\ \/ /\ r.op = "add" /\ r.a = r.b
                /\ Answer(w, "400")
             \/ /\ r.op = "add" => r.a # r.b
                /\ r.op = "create" => r.id \notin issued
                /\ pc' = [pc EXCEPT ![w] = FirstStatement(r.op)]
                /\ req' = [req EXCEPT ![w] = r]
                /\ issued' = issued \cup (IF r.op = "create" THEN {r.id} ELSE {})
                /\ reply' = NoReply
                /\ UNCHANGED <<tx, local>>
  /\ UNCHANGED db

(***************************************************************************)
(* create_deliverable, update_deliverable, delete_deliverable              *)
(***************************************************************************)
InsertRow(w) ==
  /\ pc[w] = "insert_row"
  /\ LET r == req[w] IN
       Write(w, "commit",
             [NoWrites EXCEPT !.put = {r.id},
                !.new = [project |-> r.project, status |-> r.status,
                         completed |-> FALSE]])

UpdatedNoCoalesce(old, status) ==
  [old EXCEPT !.status = status]

\* The row an UPDATE ... SET makes of the old one: COALESCE keeps what the
\* body leaves out, completed_at is stamped by status 'completed' and never
\* cleared.
Updated(old, status) ==
  [project   |-> old.project,
   status    |-> IF status = Null THEN old.status ELSE status,
   completed |-> IF status = "completed" THEN TRUE ELSE old.completed]

UpdateRow(w) ==
  /\ pc[w] = "update_row"
  /\ LET d == req[w].id IN
       /\ ~RowLocked(w, d)
       /\ Write(w, "commit",
                IF d \in live
                THEN [NoWrites EXCEPT !.put = {d},
                                      !.new = Updated(row[d], req[w].status)]
                ELSE NoWrites)

\* First statement of delete_deliverable: the dependencies from and to it.
TouchingFrom(d) == {e \in deps : e[1] = d}
Touching(d) == {e \in deps : d \in {e[1], e[2]}}

\* (The rows are locked together.  Where the database locks them one after the
\* other, DELETEs may wait in a circle, and it ends one of them: see Fail.)
DeleteDeps(w) ==
  /\ pc[w] = "delete_deps"
  /\ \A e \in Touching(req[w].id) : ~EdgeLocked(w, e)
  /\ Write(w, "delete_row", [NoWrites EXCEPT !.del = Touching(req[w].id)])

\* Second statement, in the same transaction: the row itself.
DeleteRow(w) ==
  /\ pc[w] = "delete_row"
  /\ ~RowLocked(w, req[w].id)
  /\ Write(w, "commit", [tx[w] EXCEPT !.gone = {req[w].id} \cap live])

(***************************************************************************)
(* remove_dependency                                                       *)
(***************************************************************************)
DeleteDep(w) ==
  /\ pc[w] = "delete_dep"
  /\ LET e == req[w].edge IN
       /\ e \in deps => ~EdgeLocked(w, e)
       /\ Write(w, "commit", [NoWrites EXCEPT !.del = {e} \cap deps])

(***************************************************************************)
(* add_dependency with would_create_cycle                                  *)
(***************************************************************************)

ProjectOfAny(d) == IF d \in live THEN {CHOOSE p \in Project : TRUE} ELSE {}

\* The two SELECT project_id; both run before their results are looked at.
ProjectOf(d) == IF d \in live THEN {row[d].project} ELSE {}

LookupA(w) ==
  /\ pc[w] = "lookup_a"
  /\ Goto(w, "lookup_b")
  /\ found' = [found EXCEPT ![w] = ProjectOf(Uuid(req[w].a))]
  /\ UNCHANGED <<tx, visited, stack>>

LookupB(w) ==
  LET second == ProjectOf(Uuid(req[w].b)) IN
  /\ pc[w] = "lookup_b"
  /\ \/ /\ {} \in {found[w], second}
        /\ Answer(w, "404")
        /\ UNCHANGED db
     \/ /\ {} \notin {found[w], second}
        /\ found[w] # second
        /\ Answer(w, "400 project")
        /\ UNCHANGED db
     \/ /\ {} \notin {found[w], second}
        /\ found[w] = second
        /\ Goto(w, "search")
        /\ stack' = [stack EXCEPT ![w] = {req[w].b}]
        /\ UNCHANGED <<tx, found, visited>>

Dependents(t) == {Str(d) : d \in {e \in Deliverable : <<e, Uuid(t)>> \in deps}}

\* get_direct_dependencies
Successors(t) == {Str(d) : d \in {e \in Deliverable : <<Uuid(t), e>> \in deps}}

NoHit(w, current) == FALSE
Hit(w, current) == current = req[w].a

MarkedNone(w, current) == visited[w]
Marked(w, current) == visited[w] \cup {current}

\* One turn of the while loop.  The stack is a set: a duplicate would be
\* skipped when popped, and the order in which SELECT returns the successors
\* is the database's choice.
Visit(w) ==
  /\ pc[w] = "search"
  /\ \E current \in stack[w] :
       \/ /\ Hit(w, current)
          /\ Answer(w, "400 cycle")
          /\ UNCHANGED db
       \/ /\ ~Hit(w, current)
          /\ current \in visited[w]
          /\ Goto(w, "search")
          /\ stack' = [stack EXCEPT ![w] = @ \ {current}]
          /\ UNCHANGED <<tx, found, visited>>
       \/ /\ ~Hit(w, current)
          /\ current \notin visited[w]
          /\ Goto(w, "search")
          /\ visited' = [visited EXCEPT ![w] = Marked(w, current)]
          /\ stack' = [stack EXCEPT ![w] = (@ \ {current}) \cup Successors(current)]
          /\ UNCHANGED <<tx, found>>

\* The search is over without a hit.  UNIQUE (deliverable_id, depends_on_id)
\* turns a second identical row into an error, once the writer of the first
\* one has committed.
InsertDep(w) ==
  LET e == <<Uuid(req[w].a), Uuid(req[w].b)>> IN
  /\ pc[w] = "search"
  /\ stack[w] = {}
  /\ ~EdgeLocked(w, e)
  /\ \/ /\ e \in deps
        /\ Answer(w, "500")
        /\ UNCHANGED db
     \/ /\ e \notin deps
        /\ Write(w, "commit", [NoWrites EXCEPT !.add = {e}])

(***************************************************************************)
(* get_deliverables (two SELECTs) and get_deliverable_by_id                *)
(***************************************************************************)
SelectRows(w) ==
  /\ pc[w] = "select_rows"
  /\ Goto(w, "select_links")
  /\ found' = [found EXCEPT ![w] =
       {d \in live : /\ req[w].project \in {Null, row[d].project}
                     /\ req[w].status \in {Null, row[d].status}}]
  /\ UNCHANGED <<tx, visited, stack>>

SelectRow(w) ==
  /\ pc[w] = "select_row"
  /\ \/ /\ req[w].id \notin live
        /\ Answer(w, "404")
        /\ UNCHANGED db
     \/ /\ req[w].id \in live
        /\ Goto(w, "select_links")
        /\ found' = [found EXCEPT ![w] = {req[w].id}]
        /\ UNCHANGED <<tx, visited, stack>>

LinksOfAll(ids, project) == {e \in deps : e[2] \in live}

\* get_dependencies_map: the join hides a dependency on a row that is gone;
\* with a project it keeps the dependencies of that project's rows.
\* enrich_with_dependencies then drops those of rows not in the list.
LinksOf(ids, project) ==
  {e \in deps :
     /\ e[1] \in ids /\ e[2] \in live
     /\ project # Null => e[1] \in live /\ row[e[1]].project = project}

SelectLinks(w) ==
  /\ pc[w] = "select_links"
  /\ LET project == IF req[w].op = "list" THEN req[w].project ELSE Null
     IN  Respond(w, "200", found[w], LinksOf(found[w], project))
  /\ UNCHANGED db

(***************************************************************************)
(* conn.commit() and what the handler makes of it                          *)
(***************************************************************************)
CommitWrites(w) ==
  /\ live' = (live \ tx[w].gone) \cup tx[w].put
  /\ row' = [d \in Deliverable |-> IF d \in tx[w].put THEN tx[w].new ELSE row[d]]
  /\ deps' = (deps \ tx[w].del) \cup tx[w].add

Commit(w) ==
  /\ pc[w] = "commit"
  /\ CommitWrites(w)
  /\ \/ req[w].op \in {"create", "add"} /\ Answer(w, "201")
     \/ req[w].op = "delete" /\ tx[w].gone # {} /\ Answer(w, "204")
     \/ req[w].op = "remove" /\ tx[w].del # {} /\ Answer(w, "204")
     \/ req[w].op = "delete" /\ tx[w].gone = {} /\ Answer(w, "404")
     \/ req[w].op = "remove" /\ tx[w].del = {} /\ Answer(w, "404")
     \/ req[w].op = "update" /\ tx[w].put = {} /\ Answer(w, "404")
     \/ \* update_deliverable reads the dependencies once more
        /\ req[w].op = "update" /\ tx[w].put # {}
        /\ pc' = [pc EXCEPT ![w] = "select_links"]
        /\ found' = [found EXCEPT ![w] = tx[w].put]
        /\ tx' = [tx EXCEPT ![w] = NoWrites]
        /\ reply' = NoReply
        /\ UNCHANGED <<issued, req, visited, stack>>

\* The server commits, but the connection fails before the client knows.
CommitUnacknowledged(w) ==
  /\ pc[w] = "commit"
  /\ CommitWrites(w)
  /\ Answer(w, "500")

FailAutocommitted(w) ==
  /\ pc[w] # "idle"
  /\ Answer(w, "500")
  /\ CommitWrites(w)

\* A statement, the connection or the container fails: rollback.
Fail(w) ==
  /\ pc[w] # "idle"
  /\ Answer(w, "500")
  /\ UNCHANGED db

-----------------------------------------------------------------------------
\* The statements of a request being served, without failures.
Work(w) ==
  \/ InsertRow(w) \/ UpdateRow(w) \/ DeleteDeps(w) \/ DeleteRow(w)
  \/ DeleteDep(w)
  \/ LookupA(w) \/ LookupB(w) \/ Visit(w) \/ InsertDep(w)
  \/ SelectRows(w) \/ SelectRow(w) \/ SelectLinks(w)
  \/ Commit(w)

Next == \E w \in Workers : Receive(w) \/ Work(w) \/ CommitUnacknowledged(w) \/ Fail(w)

Spec == Init /\ [][Next]_vars

\* A container that serves a request keeps executing statements.  Strong
\* fairness, because a statement that waits for a lock is only enabled while
\* nobody holds it: PostgreSQL grants locks in the order of the waiters.
FairSpec == Spec /\ \A w \in Workers : SF_vars(Work(w))

-----------------------------------------------------------------------------
(***************************************************************************)
(* Properties                                                              *)
(***************************************************************************)
\* Which statements belong to which operation.
Stage == {<<"create", "insert_row">>, <<"create", "commit">>,
          <<"update", "update_row">>, <<"update", "commit">>,
          <<"update", "select_links">>,
          <<"delete", "delete_deps">>, <<"delete", "delete_row">>,
          <<"delete", "commit">>,
          <<"remove", "delete_dep">>, <<"remove", "commit">>,
          <<"add", "lookup_a">>, <<"add", "lookup_b">>, <<"add", "search">>,
          <<"add", "commit">>,
          <<"list", "select_rows">>, <<"list", "select_links">>,
          <<"get", "select_row">>, <<"get", "select_links">>}

Label == {"idle", "insert_row", "update_row", "delete_deps", "delete_row",
          "delete_dep", "lookup_a", "lookup_b", "search", "select_rows",
          "select_row", "select_links", "commit"}

Code == {"none", "200", "201", "204", "400", "400 project", "400 cycle",
         "401", "403", "404", "500"}

Writes == [add : SUBSET Edge, del : SUBSET Edge, gone : SUBSET Deliverable,
           put : SUBSET Deliverable, new : Row \cup {Null}]

\* Every variable has the type its declaration says, and a container that is
\* past the gateway executes a statement of the operation it was asked for.
TypeOK ==
  /\ live \subseteq Deliverable
  /\ issued \subseteq Deliverable
  /\ row \in [Deliverable -> Row]
  /\ deps \subseteq Edge
  /\ pc \in [Workers -> Label]
  /\ req \in [Workers -> Request \cup {Null}]
  /\ \A w \in Workers : pc[w] # "idle" => /\ req[w] \in Request
                                          /\ req[w].op \in Serves[w]
                                          /\ <<req[w].op, pc[w]>> \in Stage
  /\ tx \in [Workers -> Writes]
  /\ \A w \in Workers : tx[w].put # {} => tx[w].new \in Row
  /\ found \in [Workers -> (SUBSET Project) \cup (SUBSET Deliverable)]
  /\ \A w \in Workers : pc[w] = "select_links" => found[w] \subseteq Deliverable
  /\ visited \in [Workers -> SUBSET Text]
  /\ stack \in [Workers -> SUBSET Text]
  /\ reply \in [by : Workers \cup {Null}, code : Code,
                rows : SUBSET Deliverable, links : SUBSET Edge]

Graph == INSTANCE DependencyGraph
           WITH project <- [d \in Deliverable |-> row[d].project],
                edges   <- deps

\* README.md:36 promises circular dependency prevention: the committed
\* dependencies never form a cycle.  Each add_dependency searches the graph it
\* reads, statement by statement, and inserts later (postgres_service.py:174-206).
NoCycle == Graph!Acyclic(deps)

\* Both ends of a dependency are, or were, in one project, although the two
\* projects are read long before the dependency is written (191-199).
SameProject == \A e \in deps : row[e[1]].project = row[e[2]].project

\* No dependency outlives a deliverable it mentions: nothing but the two
\* DELETEs of delete_deliverable keeps the tables together (132-138), there is
\* no foreign key.
NoOrphan == \A e \in deps : e[1] \in live /\ e[2] \in live

Reaches(E, x, y) ==
  \A S \in SUBSET Deliverable :
    (x \in S /\ \A e \in E : e[1] \in S => e[2] \in S) => y \in S

\* "Circular dependency detected" is only answered when the new dependency
\* would close a cycle of committed dependencies at that moment.
RefusedOnlyForCycle ==
  [][\A w \in Workers :
       (reply'.by = w /\ reply'.code = "400 cycle") =>
         Reaches(deps, Uuid(req[w].b), Uuid(req[w].a))]_vars

\* A list filtered by project never shows a dependency on a deliverable of
\* another project, although its second query only filters one end (147-149).
ProjectListClosed ==
  [][\A w \in Workers :
       (pc[w] = "select_links" /\ reply'.by = w /\ reply'.code = "200"
          /\ req[w].op = "list" /\ req[w].project # Null) =>
         \A e \in reply'.links : row[e[2]].project = req[w].project]_vars

\* Every request is answered: the search ends even in a graph that already has
\* a cycle, and a container that waits for another's uncommitted dependency gets
\* its turn.
Answered == \A w \in Workers : pc[w] # "idle" ~> pc[w] = "idle"

\* The committed tables behave as the abstract dependency graph.
ImplementsGraph == Graph!GraphSpec
=============================================================================
