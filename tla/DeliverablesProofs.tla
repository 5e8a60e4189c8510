------------------------- MODULE DeliverablesProofs -------------------------
(***************************************************************************)
(* Proofs about Deliverables, for any set of containers, deliverables,     *)
(* projects and statuses.                                                  *)
(***************************************************************************)
EXTENDS Deliverables, TLAPS

\* The fields a request has, by its operation.
LEMMA RequestFields ==
  ASSUME NEW r \in Request
  PROVE  /\ r.op \in Operation
         /\ r.op \in {"create", "update", "delete", "get"} => r.id \in Deliverable
         /\ r.op = "create" => r.project \in Project /\ r.status \in Status
         /\ r.op = "update" => r.status \in Status \cup {Null}
         /\ r.op = "add" => r.a \in Text /\ r.b \in Text
         /\ r.op = "remove" => r.edge \in Edge
  BY DEF Request, Operation

\* A text is an id and a spelling; what the database writes is canonical.
LEMMA TextFacts ==
  /\ \A t \in Text : Uuid(t) \in Deliverable
  /\ \A d \in Deliverable : Str(d) \in Text /\ Uuid(Str(d)) = d
  BY CanonicalAssumption DEF Text, Uuid, Str

-----------------------------------------------------------------------------
(***************************************************************************)
(* Type correctness                                                        *)
(***************************************************************************)

\* Answering a request resets what the container holds.
LEMMA AnswerType ==
  ASSUME TypeOK, NEW w \in Workers, NEW c \in Code,
         NEW rows \in SUBSET Deliverable, NEW links \in SUBSET Edge,
         Respond(w, c, rows, links), UNCHANGED db
  PROVE  TypeOK'
  BY DEF TypeOK, Respond, NoWrites, Writes, Label, db, Stage

LEMMA PlainAnswerType ==
  ASSUME TypeOK, NEW w \in Workers, NEW c \in Code, Answer(w, c), UNCHANGED db
  PROVE  TypeOK'
<1>1. {} \in SUBSET Deliverable /\ {} \in SUBSET Edge
  OBVIOUS
<1> QED BY <1>1, AnswerType DEF Answer

\* So does a commit, with the writes of the transaction.
LEMMA CommitTables ==
  ASSUME TypeOK, NEW w \in Workers, CommitWrites(w)
  PROVE  /\ live' \subseteq Deliverable
         /\ row' \in [Deliverable -> Row]
         /\ deps' \subseteq Edge
  BY DEF TypeOK, CommitWrites, Writes

LEMMA CommitType ==
  ASSUME TypeOK, NEW w \in Workers, NEW c \in Code, CommitWrites(w), Answer(w, c)
  PROVE  TypeOK'
  BY CommitTables DEF TypeOK, Answer, Respond, NoWrites, Writes, Label, Stage

\* A statement that writes goes on within its request.
LEMMA WriteType ==
  ASSUME TypeOK, NEW w \in Workers, NEW l \in Label, NEW x \in Writes,
         Write(w, l, x), pc[w] # "idle", l # "select_links", <<req[w].op, l>> \in Stage,
         x.put # {} => x.new \in Row
  PROVE  TypeOK'
  BY DEF TypeOK, Write, Goto, db, local, NoReply, Code

LEMMA TypeInit == Init => TypeOK
<1> SUFFICES ASSUME Init PROVE TypeOK
  OBVIOUS
<1>1. row \in [Deliverable -> Row]
  BY StatusAssumption DEF Init, Row
<1>2. NoWrites \in Writes
  BY DEF NoWrites, Writes
<1>3. \A w \in Workers : tx[w].put = {}
  BY DEF Init, NoWrites
<1>4. NoReply \in [by : Workers \cup {Null}, code : Code,
                  rows : SUBSET Deliverable, links : SUBSET Edge]
  BY DEF NoReply, Code
<1> QED BY <1>1, <1>2, <1>3, <1>4, ExistingAssumption DEF Init, TypeOK, Label

LEMMA EarlyCodes ==
  ASSUME NEW op, NEW code \in Early(op)
  PROVE  code \in Code /\ code \notin {"200", "400 cycle"}
  BY DEF Early, Code

LEMMA TypeReceive ==
  ASSUME TypeOK, NEW w \in Workers, Receive(w)
  PROVE  TypeOK'
<1>0. UNCHANGED db
  BY DEF Receive
<1>1. CASE (\E op \in Serves[w] : \E code \in Early(op) : Answer(w, code)) \/ Answer(w, "400")
  <2>1. (\A op \in Serves[w] : Early(op) \subseteq Code) /\ "400" \in Code
    BY EarlyCodes DEF Code
  <2> QED BY <1>0, <1>1, <2>1, PlainAnswerType
<1>2. ASSUME NEW r \in Request, r.op \in Serves[w],
             r.op = "create" => r.id \notin issued,
             pc' = [pc EXCEPT ![w] = FirstStatement(r.op)],
             req' = [req EXCEPT ![w] = r],
             issued' = issued \cup (IF r.op = "create" THEN {r.id} ELSE {}),
             reply' = NoReply, UNCHANGED <<tx, local>>
      PROVE  TypeOK'
  <2>1. /\ <<r.op, FirstStatement(r.op)>> \in Stage /\ FirstStatement(r.op) \in Label
      /\ FirstStatement(r.op) # "select_links"
    BY RequestFields DEF Operation, FirstStatement, Stage, Label
  <2>2. issued' \subseteq Deliverable /\ issued \subseteq issued'
    BY <1>2, RequestFields DEF TypeOK
  <2> QED BY <1>0, <1>2, <2>1, <2>2 DEF TypeOK, db, local, NoReply, Code
<1> QED BY <1>1, <1>2 DEF Receive

\* The statements that only write into the transaction.
LEMMA TypeWriting ==
  ASSUME TypeOK, NEW w \in Workers,
         InsertRow(w) \/ UpdateRow(w) \/ DeleteDeps(w) \/ DeleteRow(w) \/ DeleteDep(w)
  PROVE  TypeOK'
<1>0. pc[w] # "idle" /\ req[w] \in Request /\ <<req[w].op, pc[w]>> \in Stage
  BY DEF TypeOK, InsertRow, UpdateRow, DeleteDeps, DeleteRow, DeleteDep
<1>1. CASE InsertRow(w)
  <2> DEFINE x == [NoWrites EXCEPT !.put = {req[w].id},
                     !.new = [project |-> req[w].project, status |-> req[w].status,
                              completed |-> FALSE]]
  <2>1. req[w].op = "create" /\ Write(w, "commit", x)
    BY <1>0, <1>1 DEF InsertRow, Stage
  <2>2. x \in Writes /\ x.new \in Row
    BY <1>0, <2>1, RequestFields DEF NoWrites, Writes, Row
  <2> QED BY <1>0, <2>1, <2>2, WriteType DEF Stage, Label
<1>2. CASE UpdateRow(w)
  <2> DEFINE d == req[w].id
             x == IF d \in live
                  THEN [NoWrites EXCEPT !.put = {d},
                                        !.new = Updated(row[d], req[w].status)]
                  ELSE NoWrites
  <2>1. req[w].op = "update" /\ Write(w, "commit", x)
    BY <1>0, <1>2 DEF UpdateRow, Stage
  <2>2. ASSUME d \in live PROVE Updated(row[d], req[w].status) \in Row
    BY <1>0, <2>1, <2>2, RequestFields DEF TypeOK, Updated, Row
  <2>3. x \in Writes /\ (x.put # {} => x.new \in Row)
    <3>1. CASE d \in live
      BY <2>2, <3>1 DEF NoWrites, Writes, TypeOK
    <3>2. CASE d \notin live
      BY <3>2 DEF NoWrites, Writes
    <3> QED BY <3>1, <3>2
  <2> QED BY <1>0, <2>1, <2>3, WriteType DEF Stage, Label
<1>3. CASE DeleteDeps(w)
  <2> DEFINE x == [NoWrites EXCEPT !.del = Touching(req[w].id)]
  <2>1. req[w].op = "delete" /\ Write(w, "delete_row", x)
    BY <1>0, <1>3 DEF DeleteDeps, Stage
  <2>2. x \in Writes /\ x.put = {}
    BY DEF NoWrites, Writes, TypeOK, Touching
  <2> QED BY <1>0, <2>1, <2>2, WriteType DEF Stage, Label
<1>4. CASE DeleteRow(w)
  <2> DEFINE x == [tx[w] EXCEPT !.gone = {req[w].id} \cap live]
  <2>1. req[w].op = "delete" /\ Write(w, "commit", x)
    BY <1>0, <1>4 DEF DeleteRow, Stage
  <2>2. x \in Writes /\ (x.put # {} => x.new \in Row)
    <3>1. tx[w] \in Writes /\ (tx[w].put # {} => tx[w].new \in Row)
      BY DEF TypeOK
    <3>2. x.put = tx[w].put /\ x.new = tx[w].new
      BY <3>1 DEF Writes
    <3>3. {req[w].id} \cap live \in SUBSET Deliverable
      BY DEF TypeOK
    <3> QED BY <3>1, <3>2, <3>3 DEF Writes
  <2> QED BY <1>0, <2>1, <2>2, WriteType DEF Stage, Label
<1>5. CASE DeleteDep(w)
  <2> DEFINE x == [NoWrites EXCEPT !.del = {req[w].edge} \cap deps]
  <2>1. req[w].op = "remove" /\ Write(w, "commit", x)
    BY <1>0, <1>5 DEF DeleteDep, Stage
  <2>2. x \in Writes /\ x.put = {}
    BY DEF NoWrites, Writes, TypeOK
  <2> QED BY <1>0, <2>1, <2>2, WriteType DEF Stage, Label
<1> QED BY <1>1, <1>2, <1>3, <1>4, <1>5

\* add_dependency's reads and its INSERT.
LEMMA TypeAdding ==
  ASSUME TypeOK, NEW w \in Workers,
         LookupA(w) \/ LookupB(w) \/ Visit(w) \/ InsertDep(w)
  PROVE  TypeOK'
<1>0. /\ pc[w] # "idle" /\ req[w] \in Request /\ req[w].op = "add"
      /\ req[w].a \in Text /\ req[w].b \in Text
      /\ Uuid(req[w].a) \in Deliverable /\ Uuid(req[w].b) \in Deliverable
  BY RequestFields, TextFacts DEF TypeOK, LookupA, LookupB, Visit, InsertDep, Stage
<1>1. CASE LookupA(w)
  <2>1. ProjectOf(Uuid(req[w].a)) \in SUBSET Project
    BY <1>0 DEF ProjectOf, TypeOK, Row
  <2> QED BY <1>0, <1>1, <2>1
          DEF LookupA, Goto, TypeOK, db, NoReply, Code, Label, Stage
<1>2. CASE LookupB(w)
  <2>1. CASE (Answer(w, "404") \/ Answer(w, "400 project")) /\ UNCHANGED db
    BY <2>1, PlainAnswerType DEF Code
  <2>2. CASE /\ Goto(w, "search")
             /\ stack' = [stack EXCEPT ![w] = {req[w].b}]
             /\ UNCHANGED <<tx, found, visited>>
    BY <1>0, <2>2 DEF Goto, TypeOK, db, NoReply, Code, Label, Stage
  <2> QED BY <1>2, <2>1, <2>2 DEF LookupB
<1>3. CASE Visit(w)
  <2>1. CASE Answer(w, "400 cycle") /\ UNCHANGED db
    BY <2>1, PlainAnswerType DEF Code
  <2>2. CASE /\ Goto(w, "search")
             /\ stack' \in [Workers -> SUBSET Text]
             /\ visited' \in [Workers -> SUBSET Text]
             /\ UNCHANGED <<tx, found>>
    BY <1>0, <2>2 DEF Goto, TypeOK, db, NoReply, Code, Label, Stage
  <2>3. \A t \in Text : Successors(t) \in SUBSET Text
    BY TextFacts DEF Successors
  <2>4. \A t \in stack[w] : t \in Text
    BY DEF TypeOK
  <2>5. ASSUME NEW t \in stack[w],
               \/ /\ stack' = [stack EXCEPT ![w] = @ \ {t}]
                  /\ UNCHANGED visited
               \/ /\ visited' = [visited EXCEPT ![w] = @ \cup {t}]
                  /\ stack' = [stack EXCEPT ![w] = (@ \ {t}) \cup Successors(t)]
        PROVE  stack' \in [Workers -> SUBSET Text] /\ visited' \in [Workers -> SUBSET Text]
    BY <2>3, <2>4, <2>5 DEF TypeOK
  <2> QED BY <1>3, <2>1, <2>2, <2>5 DEF Visit, Hit, Marked
<1>4. CASE InsertDep(w)
  <2> DEFINE x == [NoWrites EXCEPT !.add = {<<Uuid(req[w].a), Uuid(req[w].b)>>}]
  <2>1. CASE Answer(w, "500") /\ UNCHANGED db
    BY <2>1, PlainAnswerType DEF Code
  <2>2. CASE Write(w, "commit", x)
    <3>1. x \in Writes /\ x.put = {}
      BY <1>0 DEF NoWrites, Writes, Edge
    <3> QED BY <1>0, <2>2, <3>1, WriteType DEF Stage, Label
  <2> QED BY <1>4, <2>1, <2>2 DEF InsertDep
<1> QED BY <1>1, <1>2, <1>3, <1>4

\* The reads of GET requests and of a committed update.
LEMMA TypeReading ==
  ASSUME TypeOK, NEW w \in Workers,
         SelectRows(w) \/ SelectRow(w) \/ SelectLinks(w)
  PROVE  TypeOK'
<1>0. pc[w] # "idle" /\ req[w] \in Request /\ <<req[w].op, pc[w]>> \in Stage
  BY DEF TypeOK, SelectRows, SelectRow, SelectLinks
<1>1. CASE SelectRows(w)
  <2>1. {d \in live : /\ req[w].project \in {Null, row[d].project}
                     /\ req[w].status \in {Null, row[d].status}} \in SUBSET Deliverable
    BY DEF TypeOK
  <2>2. req[w].op = "list"
    BY <1>0, <1>1 DEF SelectRows, Stage
  <2> QED BY <1>0, <1>1, <2>1, <2>2
          DEF SelectRows, Goto, TypeOK, db, NoReply, Code, Label, Stage
<1>2. CASE SelectRow(w)
  <2>1. req[w].op = "get" /\ req[w].id \in Deliverable
    BY <1>0, <1>2, RequestFields DEF SelectRow, Stage
  <2>2. CASE Answer(w, "404") /\ UNCHANGED db
    BY <2>2, PlainAnswerType DEF Code
  <2>3. CASE /\ Goto(w, "select_links")
             /\ found' = [found EXCEPT ![w] = {req[w].id}]
             /\ UNCHANGED <<tx, visited, stack>>
    BY <1>0, <2>1, <2>3 DEF Goto, TypeOK, db, NoReply, Code, Label, Stage
  <2> QED BY <1>2, <2>2, <2>3 DEF SelectRow
<1>3. CASE SelectLinks(w)
  <2>1. PICK links \in SUBSET deps : Respond(w, "200", found[w], links)
    BY <1>3 DEF SelectLinks, LinksOf
  <2>2. found[w] \in SUBSET Deliverable /\ links \in SUBSET Edge
    BY <1>3 DEF SelectLinks, TypeOK
  <2> QED BY <1>3, <2>1, <2>2, AnswerType DEF SelectLinks, Code
<1> QED BY <1>1, <1>2, <1>3

\* Commits and failures.
LEMMA TypeEnding ==
  ASSUME TypeOK, NEW w \in Workers,
         Commit(w) \/ CommitUnacknowledged(w) \/ Fail(w)
  PROVE  TypeOK'
<1>0. pc[w] # "idle" /\ req[w] \in Request
  BY DEF TypeOK, Commit, CommitUnacknowledged, Fail
<1>1. CASE Fail(w)
  BY <1>1, PlainAnswerType DEF Fail, Code
<1>2. CASE CommitUnacknowledged(w)
  BY <1>2, CommitType DEF CommitUnacknowledged, Code
<1>3. CASE Commit(w)
  <2>1. CASE \E c \in {"201", "204", "404"} : Answer(w, c)
    BY <1>3, <2>1, CommitType DEF Commit, Code
  <2>2. CASE /\ req[w].op = "update"
             /\ pc' = [pc EXCEPT ![w] = "select_links"]
             /\ found' = [found EXCEPT ![w] = tx[w].put]
             /\ tx' = [tx EXCEPT ![w] = NoWrites]
             /\ reply' = NoReply
             /\ UNCHANGED <<issued, req, visited, stack>>
    BY <1>0, <1>3, <2>2, CommitTables
    DEF Commit, TypeOK, NoWrites, Writes, NoReply, Code, Label, Stage
  <2> QED BY <1>3, <2>1, <2>2 DEF Commit
<1> QED BY <1>1, <1>2, <1>3

\* Every reachable state is well typed.
THEOREM TypeCorrect == Spec => []TypeOK
<1>1. Init => TypeOK
  BY TypeInit
<1>2. TypeOK /\ [Next]_vars => TypeOK'
  <2> SUFFICES ASSUME TypeOK, [Next]_vars PROVE TypeOK'
    OBVIOUS
  <2>1. CASE UNCHANGED vars
    BY <2>1 DEF vars, db, local, TypeOK
  <2>2. ASSUME NEW w \in Workers,
               Receive(w) \/ Work(w) \/ CommitUnacknowledged(w) \/ Fail(w)
        PROVE  TypeOK'
    BY <2>2, TypeReceive, TypeWriting, TypeAdding, TypeReading, TypeEnding DEF Work
  <2> QED BY <2>1, <2>2 DEF Next
<1> QED BY <1>1, <1>2, PTL DEF Spec

-----------------------------------------------------------------------------
(***************************************************************************)
(* Dependencies stay within a project                                      *)
(***************************************************************************)

\* Between the INSERT of a row and its COMMIT an id is taken, but nobody else
\* can know it.  A deliverable is born once that is over.
Creating(w) == pc[w] \in {"insert_row", "commit"} /\ req[w].op = "create"
Born(d) == d \in issued /\ \A w \in Workers : Creating(w) => req[w].id # d
Siblings(d, e) == Born(d) /\ Born(e) /\ row[d].project = row[e].project

\* SameProject is not inductive: the two projects are compared long before the
\* dependency is written.  What carries over is that both ends are born, and
\* that nothing gives a born deliverable another project.
ProjectInv ==
  /\ \A d \in live : Born(d)
  /\ \A w \in Workers : Creating(w) => req[w].id \in issued
  /\ \A v, w \in Workers : Creating(v) /\ Creating(w) /\ v # w => req[v].id # req[w].id
  /\ \A e \in deps : Siblings(e[1], e[2])
  /\ \A w \in Workers : \A e \in tx[w].add : Siblings(e[1], e[2])
  /\ \A w \in Workers : \A d \in tx[w].put :
       /\ pc[w] = "commit"
       /\ Creating(w) => d = req[w].id
       /\ ~Creating(w) => Born(d) /\ tx[w].new.project = row[d].project
  /\ \A w \in Workers : pc[w] = "lookup_b" =>
       LET a == Uuid(req[w].a)
       IN  found[w] # {} => Born(a) /\ found[w] = {row[a].project}
  /\ \A w \in Workers : pc[w] = "search" => Siblings(Uuid(req[w].a), Uuid(req[w].b))

\* What a step leaves of the containers other than w.
OthersSame(w) ==
  /\ pc' \in [Workers -> Label]
  /\ \A v \in Workers \ {w} : /\ pc'[v] = pc[v] /\ req'[v] = req[v]
                              /\ tx'[v] = tx[v] /\ found'[v] = found[v]
                              /\ visited'[v] = visited[v] /\ stack'[v] = stack[v]

\* The step with which a transaction of w is over.
Leaves(w) ==
  /\ OthersSame(w)
  /\ pc'[w] \in {"idle", "select_links"}
  /\ tx'[w] = NoWrites
  /\ issued' = issued

LEMMA RespondLeaves ==
  ASSUME TypeOK, NEW w \in Workers, NEW c, NEW rows, NEW links,
         Respond(w, c, rows, links)
  PROVE  Leaves(w)
  BY DEF TypeOK, Respond, Leaves, OthersSame, Label

LEMMA ProjectAnswer ==
  ASSUME TypeOK, ProjectInv, NEW w \in Workers, Leaves(w), UNCHANGED db
  PROVE  ProjectInv'
<1>1. \A v \in Workers : Creating(v)' => v # w /\ Creating(v)
  BY DEF Creating, Leaves, OthersSame
<1>2. \A d : Born(d) => Born(d)'
  BY <1>1 DEF Born, Leaves, OthersSame
<1>3. \A d, e : Siblings(d, e) => Siblings(d, e)'
  BY <1>2 DEF Siblings, db
<1>4. \A v \in Workers : v # w => Creating(v)' = Creating(v)
  BY DEF Creating, Leaves, OthersSame
<1> QED BY <1>1, <1>2, <1>3, <1>4 DEF ProjectInv, Leaves, OthersSame, db, NoWrites

LEMMA ProjectCommit ==
  ASSUME TypeOK, ProjectInv, NEW w \in Workers, Leaves(w),
         pc[w] = "commit", CommitWrites(w)
  PROVE  ProjectInv'
<1>1. \A v \in Workers : Creating(v)' => v # w /\ Creating(v)
  BY DEF Creating, Leaves, OthersSame
<1>2. \A d : Born(d) => Born(d)'
  BY <1>1 DEF Born, Leaves, OthersSame
<1>3. \A d \in Deliverable : Born(d) => row'[d].project = row[d].project
  <2> TAKE d \in Deliverable
  <2> HAVE Born(d)
  <2>1. CASE d \in tx[w].put
    <3>1. ~(Creating(w) /\ d = req[w].id)
      BY DEF Born
    <3> QED BY <2>1, <3>1 DEF ProjectInv, CommitWrites
  <2>2. CASE d \notin tx[w].put
    BY <2>2 DEF CommitWrites
  <2> QED BY <2>1, <2>2
<1>4. \A d, e \in Deliverable : Siblings(d, e) => Siblings(d, e)'
  BY <1>2, <1>3 DEF Siblings
<1>5. \A d \in tx[w].put : Born(d)'
  <2> TAKE d \in tx[w].put
  <2>1. CASE Creating(w)
    <3>1. d = req[w].id /\ d \in issued
      BY <2>1 DEF ProjectInv
    <3>2. \A v \in Workers : Creating(v)' => req'[v].id # d
      BY <1>1, <2>1, <3>1 DEF ProjectInv, Leaves, OthersSame
    <3> QED BY <3>1, <3>2 DEF Born, Leaves
  <2>2. CASE ~Creating(w)
    BY <1>2, <2>2 DEF ProjectInv
  <2> QED BY <2>1, <2>2
<1>6. \A d \in live' : Born(d)'
  BY <1>2, <1>5 DEF CommitWrites, ProjectInv
<1>7. \A e \in deps' : Siblings(e[1], e[2])'
  <2>1. \A e \in deps \cup tx[w].add :
          e[1] \in Deliverable /\ e[2] \in Deliverable /\ Siblings(e[1], e[2])
    BY DEF ProjectInv, TypeOK, Writes, Edge
  <2> QED BY <1>4, <2>1 DEF CommitWrites
<1>8. \A v \in Workers : \A e \in tx'[v].add : Siblings(e[1], e[2])'
  <2>1. \A v \in Workers : \A e \in tx[v].add :
          e[1] \in Deliverable /\ e[2] \in Deliverable /\ Siblings(e[1], e[2])
    BY DEF ProjectInv, TypeOK, Writes, Edge
  <2> QED BY <1>4, <2>1 DEF Leaves, OthersSame, NoWrites
<1>9. \A v \in Workers : \A d \in tx'[v].put :
       /\ pc'[v] = "commit"
       /\ Creating(v)' => d = req'[v].id
       /\ ~Creating(v)' => Born(d)' /\ tx'[v].new.project = row'[d].project
  <2>1. \A v \in Workers : v # w => Creating(v)' = Creating(v)
    BY DEF Creating, Leaves, OthersSame
  <2>2. \A v \in Workers : \A d \in tx[v].put : d \in Deliverable
    BY DEF TypeOK, Writes
  <2> QED BY <1>2, <1>3, <2>1, <2>2 DEF ProjectInv, Leaves, OthersSame, NoWrites
<1>10. \A v \in Workers : pc[v] = "lookup_b" \/ pc[v] = "search" =>
         Uuid(req[v].a) \in Deliverable /\ Uuid(req[v].b) \in Deliverable
  BY RequestFields, TextFacts DEF TypeOK, Stage
<1>11. \A v \in Workers : pc'[v] \in {"lookup_b", "search"} =>
         v # w /\ pc'[v] = pc[v] /\ req'[v] = req[v] /\ found'[v] = found[v]
  BY DEF Leaves, OthersSame
<1>12. \A v \in Workers : \A a \in Deliverable :
         pc'[v] = "lookup_b" /\ a = Uuid(req'[v].a) /\ found'[v] # {}
           => Born(a)' /\ found'[v] = {row'[a].project}
  BY <1>2, <1>3, <1>11 DEF ProjectInv
<1>15. \A v \in Workers : \A a, b \in Deliverable :
         pc'[v] = "search" /\ a = Uuid(req'[v].a) /\ b = Uuid(req'[v].b)
           => Siblings(a, b)'
  BY <1>4, <1>11 DEF ProjectInv
<1>13. \A v, u \in Workers : Creating(v)' /\ Creating(u)' /\ v # u => req'[v].id # req'[u].id
  BY <1>1 DEF ProjectInv, Leaves, OthersSame
<1>14. \A v \in Workers : Creating(v)' => req'[v].id \in issued'
  BY <1>1 DEF ProjectInv, Leaves, OthersSame
<1> QED BY <1>6, <1>7, <1>8, <1>9, <1>10, <1>11, <1>12, <1>13, <1>14, <1>15 DEF ProjectInv

\* A statement within a request: the tables stay, the transaction may change.
LEMMA ProjectStatement ==
  ASSUME TypeOK, ProjectInv, NEW w \in Workers, NEW l \in Label,
         pc[w] # "idle", Goto(w, l), <<req[w].op, l>> \in Stage, OthersSame(w),
         \A e \in tx'[w].add : Siblings(e[1], e[2]),
         \A d \in tx'[w].put :
           /\ l = "commit"
           /\ Creating(w) => d = req[w].id
           /\ ~Creating(w) => Born(d) /\ tx'[w].new.project = row[d].project,
         l = "lookup_b" /\ found'[w] # {} =>
           Born(Uuid(req[w].a)) /\ found'[w] = {row[Uuid(req[w].a)].project},
         l = "search" => Siblings(Uuid(req[w].a), Uuid(req[w].b))
  PROVE  ProjectInv'
<1>1. pc'[w] = l /\ req' = req /\ issued' = issued /\ UNCHANGED db
  BY DEF Goto, TypeOK
<1>2. \A v \in Workers : Creating(v)' = Creating(v)
  BY <1>1 DEF Creating, OthersSame, TypeOK, Stage
<1>3. \A d : Born(d)' = Born(d)
  BY <1>1, <1>2 DEF Born
<1>4. \A d, e : Siblings(d, e)' = Siblings(d, e)
  BY <1>1, <1>3 DEF Siblings, db
<1>5. \A v \in Workers : \A e \in tx'[v].add : Siblings(e[1], e[2])
  BY DEF ProjectInv, OthersSame
<1>6. \A v \in Workers : \A d \in tx'[v].put :
           /\ pc'[v] = "commit"
           /\ Creating(v) => d = req[v].id
           /\ ~Creating(v) => Born(d) /\ tx'[v].new.project = row[d].project
  BY <1>1 DEF ProjectInv, OthersSame
<1>7. \A v \in Workers : pc'[v] = "lookup_b" =>
        LET a == Uuid(req[v].a)
        IN  found'[v] # {} => Born(a) /\ found'[v] = {row[a].project}
  BY <1>1 DEF ProjectInv, OthersSame
<1>8. \A v \in Workers : pc'[v] = "search" => Siblings(Uuid(req[v].a), Uuid(req[v].b))
  BY <1>1 DEF ProjectInv, OthersSame
<1> QED BY <1>1, <1>2, <1>3, <1>4, <1>5, <1>6, <1>7, <1>8 DEF ProjectInv, db

\* A new request; the id of a row to create is new to everybody.
LEMMA ProjectReceive ==
  ASSUME TypeOK, ProjectInv, NEW w \in Workers, Receive(w)
  PROVE  ProjectInv'
<1>0. UNCHANGED db /\ pc[w] = "idle"
  BY DEF Receive
<1>1. CASE \E code : Answer(w, code)
  BY <1>0, <1>1, RespondLeaves, ProjectAnswer DEF Answer
<1>2. ASSUME NEW r \in Request, r.op \in Serves[w],
             r.op = "create" => r.id \notin issued,
             pc' = [pc EXCEPT ![w] = FirstStatement(r.op)],
             req' = [req EXCEPT ![w] = r],
             issued' = issued \cup (IF r.op = "create" THEN {r.id} ELSE {}),
             reply' = NoReply, UNCHANGED <<tx, local>>
      PROVE  ProjectInv'
  <2>1. /\ pc'[w] \in {"insert_row", "update_row", "delete_deps", "delete_dep",
                       "lookup_a", "select_rows", "select_row"}
        /\ pc'[w] = "insert_row" <=> r.op = "create"
    BY <1>2, RequestFields DEF Operation, FirstStatement, TypeOK
  <2>2. \A v \in Workers : v # w => pc'[v] = pc[v] /\ req'[v] = req[v]
    BY <1>2 DEF TypeOK
  <2>3. req'[w] = r /\ issued \subseteq issued' /\ (r.op = "create" => r.id \in issued')
    BY <1>2 DEF TypeOK
  <2>4. \A v \in Workers : v # w => Creating(v)' = Creating(v)
    BY <2>2 DEF Creating
  <2>5. Creating(w)' => r.op = "create" /\ r.id \notin issued
    BY <1>2, <2>3 DEF Creating
  <2>6. \A d : Born(d) => Born(d)'
    BY <2>2, <2>3, <2>4, <2>5 DEF Born
  <2>7. \A d, e : Siblings(d, e) => Siblings(d, e)'
    BY <1>0, <2>6 DEF Siblings, db
  <2>8. tx[w].put = {}
    BY <1>0 DEF ProjectInv
  <2>9. \A v \in Workers : \A d \in tx[v].put : v # w /\ pc'[v] = pc[v] /\ req'[v] = req[v]
    BY <2>2, <2>8
  <2>10. \A v, u \in Workers : Creating(v)' /\ Creating(u)' /\ v # u => req'[v].id # req'[u].id
    <3>1. \A v \in Workers : v # w /\ Creating(v)' => req'[v].id = req[v].id /\ req[v].id \in issued
      BY <2>2, <2>4 DEF ProjectInv
    <3>2. \A v, u \in Workers : v # w /\ u # w /\ Creating(v)' /\ Creating(u)' /\ v # u
                                => req'[v].id # req'[u].id
      BY <2>2, <2>4 DEF ProjectInv
    <3>3. \A u \in Workers : u # w /\ Creating(w)' /\ Creating(u)' => req'[w].id # req'[u].id
      BY <2>3, <2>5, <3>1
    <3> QED BY <3>2, <3>3
  <2>11. \A v \in Workers : Creating(v)' => req'[v].id \in issued'
    BY <2>2, <2>3, <2>4, <2>5 DEF ProjectInv
  <2>12. tx' = tx /\ found' = found /\ UNCHANGED db
    BY <1>0, <1>2 DEF local
  <2>13. \A v \in Workers : \A d \in tx[v].put :
           /\ pc'[v] = "commit"
           /\ Creating(v)' => d = req'[v].id
           /\ ~Creating(v)' => Born(d)' /\ tx[v].new.project = row[d].project
    <3> TAKE v \in Workers
    <3> TAKE d \in tx[v].put
    <3>1. /\ pc[v] = "commit"
          /\ Creating(v) => d = req[v].id
          /\ ~Creating(v) => Born(d) /\ tx[v].new.project = row[d].project
      BY DEF ProjectInv
    <3>2. v # w /\ pc'[v] = pc[v] /\ req'[v] = req[v] /\ Creating(v)' = Creating(v)
      BY <2>4, <2>9
    <3> QED BY <2>6, <3>1, <3>2
  <2>14. \A v \in Workers : pc'[v] \in {"lookup_b", "search"} =>
           v # w /\ pc[v] = pc'[v] /\ req'[v] = req[v]
    BY <2>1, <2>2
  <2>15. \A v \in Workers : pc'[v] = "lookup_b" =>
           LET a == Uuid(req[v].a)
           IN  found[v] # {} => Born(a) /\ found[v] = {row[a].project}
    BY <2>14 DEF ProjectInv
  <2>16. \A v \in Workers : pc'[v] = "search" => Siblings(Uuid(req[v].a), Uuid(req[v].b))
    BY <2>14 DEF ProjectInv
  <2>17. /\ \A d \in live' : Born(d)'
         /\ \A e \in deps' : Siblings(e[1], e[2])'
         /\ \A v \in Workers : \A e \in tx'[v].add : Siblings(e[1], e[2])'
    BY <2>6, <2>7, <2>12 DEF ProjectInv, db
  <2> QED BY <2>6, <2>7, <2>10, <2>11, <2>12, <2>13, <2>14, <2>15, <2>16, <2>17
          DEF ProjectInv, db
<1> QED BY <1>1, <1>2 DEF Receive

LEMMA ProjectWriting ==
  ASSUME TypeOK, ProjectInv, NEW w \in Workers,
         InsertRow(w) \/ UpdateRow(w) \/ DeleteDeps(w) \/ DeleteRow(w) \/ DeleteDep(w)
  PROVE  ProjectInv'
<1>0. pc[w] # "idle" /\ req[w] \in Request /\ <<req[w].op, pc[w]>> \in Stage
  BY DEF TypeOK, InsertRow, UpdateRow, DeleteDeps, DeleteRow, DeleteDep
<1>1. OthersSame(w)
  BY DEF OthersSame, InsertRow, UpdateRow, DeleteDeps, DeleteRow, DeleteDep,
         Write, Goto, local, TypeOK, Label
<1>2. CASE InsertRow(w)
  <2>1. /\ req[w].op = "create" /\ Goto(w, "commit") /\ Creating(w)
        /\ tx'[w].add = {} /\ tx'[w].put = {req[w].id}
    BY <1>0, <1>2 DEF InsertRow, Write, NoWrites, Stage, TypeOK, Creating
  <2> QED BY <1>0, <1>1, <2>1, ProjectStatement DEF Stage, Label
<1>3. CASE UpdateRow(w)
  <2>1. /\ req[w].op = "update" /\ Goto(w, "commit") /\ ~Creating(w)
        /\ tx'[w].add = {} /\ tx'[w].put \subseteq {req[w].id} \cap live
        /\ tx'[w].put # {} => tx'[w].new = Updated(row[req[w].id], req[w].status)
    BY <1>0, <1>3 DEF UpdateRow, Write, NoWrites, Stage, TypeOK, Creating
  <2>2. \A d \in tx'[w].put : Born(d) /\ tx'[w].new.project = row[d].project
    BY <2>1 DEF Updated, ProjectInv
  <2> QED BY <1>0, <1>1, <2>1, <2>2, ProjectStatement DEF Stage, Label
<1>4. CASE DeleteDeps(w)
  <2>1. /\ req[w].op = "delete" /\ Goto(w, "delete_row")
        /\ tx'[w].add = {} /\ tx'[w].put = {}
    BY <1>0, <1>4 DEF DeleteDeps, Write, NoWrites, Stage, TypeOK
  <2> QED BY <1>0, <1>1, <2>1, ProjectStatement DEF Stage, Label
<1>5. CASE DeleteRow(w)
  <2>1. /\ req[w].op = "delete" /\ Goto(w, "commit")
        /\ tx'[w].add = tx[w].add /\ tx'[w].put = tx[w].put
    BY <1>0, <1>5 DEF DeleteRow, Write, Writes, Stage, TypeOK
  <2>2. tx[w].put = {} /\ \A e \in tx[w].add : Siblings(e[1], e[2])
    BY <1>5 DEF DeleteRow, ProjectInv
  <2> QED BY <1>0, <1>1, <2>1, <2>2, ProjectStatement DEF Stage, Label
<1>6. CASE DeleteDep(w)
  <2>1. /\ req[w].op = "remove" /\ Goto(w, "commit")
        /\ tx'[w].add = {} /\ tx'[w].put = {}
    BY <1>0, <1>6 DEF DeleteDep, Write, NoWrites, Stage, TypeOK
  <2> QED BY <1>0, <1>1, <2>1, ProjectStatement DEF Stage, Label
<1> QED BY <1>2, <1>3, <1>4, <1>5, <1>6

LEMMA ProjectReading ==
  ASSUME TypeOK, ProjectInv, NEW w \in Workers,
         SelectRows(w) \/ SelectRow(w) \/ SelectLinks(w)
  PROVE  ProjectInv'
<1>0. pc[w] # "idle" /\ <<req[w].op, pc[w]>> \in Stage
  BY DEF TypeOK, SelectRows, SelectRow, SelectLinks
<1>1. CASE (SelectLinks(w) \/ Answer(w, "404")) /\ UNCHANGED db
  BY <1>1, RespondLeaves, ProjectAnswer DEF SelectLinks, Answer
<1>2. ASSUME NEW ids, Goto(w, "select_links"), found' = [found EXCEPT ![w] = ids],
             UNCHANGED <<tx, visited, stack>>, pc[w] \in {"select_rows", "select_row"}
      PROVE  ProjectInv'
  <2>1. OthersSame(w)
    BY <1>2 DEF OthersSame, Goto, TypeOK, Label
  <2>2. <<req[w].op, "select_links">> \in Stage /\ "select_links" \in Label
    BY <1>0, <1>2 DEF Stage, Label
  <2>3. tx'[w].put = {} /\ \A e \in tx'[w].add : Siblings(e[1], e[2])
    BY <1>2 DEF ProjectInv
  <2> QED BY <1>0, <1>2, <2>1, <2>2, <2>3, ProjectStatement
<1> QED BY <1>1, <1>2 DEF SelectRows, SelectRow, SelectLinks

LEMMA ProjectAdding ==
  ASSUME TypeOK, ProjectInv, NEW w \in Workers,
         LookupA(w) \/ LookupB(w) \/ Visit(w) \/ InsertDep(w)
  PROVE  ProjectInv'
<1> DEFINE a == Uuid(req[w].a)
           b == Uuid(req[w].b)
<1>0. /\ pc[w] # "idle" /\ req[w] \in Request /\ req[w].op = "add"
      /\ a \in Deliverable /\ b \in Deliverable
  BY RequestFields, TextFacts DEF TypeOK, LookupA, LookupB, Visit, InsertDep, Stage
<1>1. tx[w].put = {} /\ \A e \in tx[w].add : Siblings(e[1], e[2])
  BY DEF ProjectInv, LookupA, LookupB, Visit, InsertDep
<1>2. \A d : d \in live => Born(d)
  BY DEF ProjectInv
<1>3. CASE LookupA(w)
  <2>1. OthersSame(w) /\ Goto(w, "lookup_b") /\ tx' = tx /\ found'[w] = ProjectOf(a)
    BY <1>3 DEF LookupA, OthersSame, Goto, TypeOK, Label
  <2>2. found'[w] # {} => Born(a) /\ found'[w] = {row[a].project}
    BY <1>2, <2>1 DEF ProjectOf
  <2> QED BY <1>0, <1>1, <2>1, <2>2, ProjectStatement DEF Stage, Label
<1>4. CASE LookupB(w)
  <2>1. CASE (Answer(w, "404") \/ Answer(w, "400 project")) /\ UNCHANGED db
    BY <2>1, RespondLeaves, ProjectAnswer DEF Answer
  <2>2. CASE /\ {} \notin {found[w], ProjectOf(b)}
             /\ found[w] = ProjectOf(b)
             /\ Goto(w, "search")
             /\ stack' = [stack EXCEPT ![w] = {req[w].b}]
             /\ UNCHANGED <<tx, found, visited>>
    <3>1. OthersSame(w)
      BY <2>2 DEF OthersSame, Goto, TypeOK, Label
    <3>2. Born(a) /\ found[w] = {row[a].project}
      BY <1>4, <2>2 DEF LookupB, ProjectInv
    <3>3. Born(b) /\ found[w] = {row[b].project}
      BY <1>2, <2>2 DEF ProjectOf
    <3>4. Siblings(a, b)
      BY <3>2, <3>3 DEF Siblings
    <3> QED BY <1>0, <1>1, <2>2, <3>1, <3>4, ProjectStatement DEF Stage, Label
  <2> QED BY <1>4, <2>1, <2>2 DEF LookupB
<1>5. ASSUME pc[w] = "search" PROVE Siblings(a, b)
  BY <1>5 DEF ProjectInv
<1>6. CASE Visit(w)
  <2>1. CASE Answer(w, "400 cycle") /\ UNCHANGED db
    BY <2>1, RespondLeaves, ProjectAnswer DEF Answer
  <2>2. CASE Goto(w, "search") /\ UNCHANGED <<tx, found>> /\ OthersSame(w)
    BY <1>0, <1>1, <1>5, <1>6, <2>2, ProjectStatement DEF Visit, Stage, Label
  <2>3. ASSUME Goto(w, "search"), UNCHANGED <<tx, found>>,
               \E s : stack' = [stack EXCEPT ![w] = s],
               visited' = visited \/ \E s : visited' = [visited EXCEPT ![w] = s]
        PROVE  OthersSame(w)
    BY <2>3 DEF OthersSame, Goto, TypeOK, Label
  <2> QED BY <1>6, <2>1, <2>2, <2>3 DEF Visit, Hit, Marked
<1>7. CASE InsertDep(w)
  <2>1. CASE Answer(w, "500") /\ UNCHANGED db
    BY <2>1, RespondLeaves, ProjectAnswer DEF Answer
  <2>2. CASE Write(w, "commit", [NoWrites EXCEPT !.add = {<<a, b>>}])
    <3>1. OthersSame(w) /\ Goto(w, "commit")
      BY <2>2 DEF OthersSame, Write, Goto, TypeOK, Label, local
    <3>2. tx'[w].put = {} /\ tx'[w].add = {<<a, b>>}
      BY <2>2 DEF Write, NoWrites, TypeOK
    <3>3. \A e \in tx'[w].add : Siblings(e[1], e[2])
      BY <1>5, <1>7, <3>2 DEF InsertDep
    <3> QED BY <1>0, <3>1, <3>2, <3>3, ProjectStatement DEF Stage, Label
  <2> QED BY <1>7, <2>1, <2>2 DEF InsertDep
<1> QED BY <1>3, <1>4, <1>6, <1>7

LEMMA ProjectEnding ==
  ASSUME TypeOK, ProjectInv, NEW w \in Workers,
         Commit(w) \/ CommitUnacknowledged(w) \/ Fail(w)
  PROVE  ProjectInv'
<1>1. CASE Fail(w)
  BY <1>1, RespondLeaves, ProjectAnswer DEF Fail, Answer
<1>2. CASE Commit(w) \/ CommitUnacknowledged(w)
  <2>1. CASE \E c : Answer(w, c)
    BY <1>2, <2>1, RespondLeaves, ProjectCommit DEF Commit, CommitUnacknowledged, Answer
  <2>2. CASE /\ pc' = [pc EXCEPT ![w] = "select_links"]
             /\ found' = [found EXCEPT ![w] = tx[w].put]
             /\ tx' = [tx EXCEPT ![w] = NoWrites]
             /\ UNCHANGED <<issued, req, visited, stack>>
    <3>1. Leaves(w)
      BY <2>2 DEF Leaves, OthersSame, TypeOK, Label
    <3> QED BY <1>2, <3>1, ProjectCommit DEF Commit, CommitUnacknowledged
  <2> QED BY <1>2, <2>1, <2>2 DEF Commit, CommitUnacknowledged
<1> QED BY <1>1, <1>2

LEMMA ProjectInit == Init => ProjectInv
  BY ExistingAssumption DEF Init, ProjectInv, Born, Creating, NoWrites

LEMMA ProjectStep ==
  ASSUME TypeOK, ProjectInv, [Next]_vars
  PROVE  ProjectInv'
<1>1. CASE UNCHANGED vars
  BY <1>1 DEF vars, db, local, ProjectInv, Siblings, Born, Creating
<1>2. ASSUME NEW w \in Workers,
             Receive(w) \/ Work(w) \/ CommitUnacknowledged(w) \/ Fail(w)
      PROVE  ProjectInv'
  BY <1>2, ProjectReceive, ProjectWriting, ProjectAdding, ProjectReading,
     ProjectEnding DEF Work
<1> QED BY <1>1, <1>2 DEF Next

\* However the requests of any number of containers interleave and fail, a
\* dependency joins deliverables of one project.
THEOREM OneProject == Spec => []SameProject
<1>1. TypeOK /\ ProjectInv /\ [Next]_vars => ProjectInv'
  BY ProjectStep
<1>2. ProjectInv => SameProject
  BY DEF ProjectInv, SameProject, Siblings
<1> QED BY ProjectInit, <1>1, <1>2, TypeCorrect, PTL DEF Spec

-----------------------------------------------------------------------------
(***************************************************************************)
(* No cycle with one adding container                                      *)
(***************************************************************************)

\* At most one container is sent POST .../dependencies requests.
OneAdding == \A v, w \in Workers : "add" \in Serves[v] /\ "add" \in Serves[w] => v = w

\* Clients write a uuid the way the service does.
OneSpelling == Spelling = {Canonical}

Adding(w) == pc[w] \in {"search", "commit"} /\ req[w].op = "add"

\* The loop invariant of would_create_cycle: the search starts at b, has not
\* met a, and whatever a visited deliverable depends on is visited or waits on
\* the stack.
SearchInv(w) ==
  /\ req[w].b \in visited[w] \cup stack[w]
  /\ req[w].a \notin visited[w]
  /\ \A t \in visited[w] : Successors(t) \subseteq visited[w] \cup stack[w]

CycleInv ==
  /\ NoCycle
  /\ \A w \in Workers : Adding(w) => SearchInv(w)
  /\ \A w \in Workers : tx[w].add # {} =>
       /\ pc[w] = "commit" /\ req[w].op = "add"
       /\ stack[w] = {}
       /\ tx[w].add = {<<Uuid(req[w].a), Uuid(req[w].b)>>}
  /\ \A w \in Workers : ~Adding(w) => visited[w] = {}

\* An edge from outside a set that no edge leaves, into it, closes no cycle.
LEMMA ClosedSetAcyclic ==
  ASSUME NEW E, Graph!Acyclic(E), NEW V \in SUBSET Deliverable,
         NEW a, NEW b \in V, a \notin V,
         \A x \in V, y \in Deliverable : <<x, y>> \in E => y \in V
  PROVE  Graph!Acyclic(E \cup {<<a, b>>})
<1> SUFFICES ASSUME NEW S \in SUBSET Deliverable, S # {}
             PROVE  \E x \in S : \A y \in S : <<x, y>> \notin E \cup {<<a, b>>}
  BY DEF Graph!Acyclic
<1>1. CASE b \in S
  <2>1. PICK x \in S \cap V : \A y \in S \cap V : <<x, y>> \notin E
    BY <1>1 DEF Graph!Acyclic
  <2>2. \A y \in S : <<x, y>> \notin E
    BY <2>1
  <2> QED BY <2>1, <2>2
<1>2. CASE b \notin S
  <2>1. PICK x \in S : \A y \in S : <<x, y>> \notin E
    BY DEF Graph!Acyclic
  <2> QED BY <1>2, <2>1
<1> QED BY <1>1, <1>2

\* Fewer dependencies have no more cycles.
LEMMA FewerEdges ==
  ASSUME NEW E, NEW F, Graph!Acyclic(E), F \subseteq E
  PROVE  Graph!Acyclic(F)
  BY DEF Graph!Acyclic

LEMMA CycleInit == Init => CycleInv
  BY DEF Init, CycleInv, NoCycle, Graph!Acyclic, Adding, NoWrites

\* SearchInv survives when dependencies only disappear.
LEMMA SearchKept ==
  ASSUME TypeOK, NEW v \in Workers, SearchInv(v), deps' \subseteq deps,
         req'[v] = req[v], visited'[v] = visited[v], stack'[v] = stack[v]
  PROVE  SearchInv(v)'
<1>1. \A t \in visited[v] : Successors(t)' \subseteq Successors(t)
  BY DEF Successors
<1> QED BY <1>1 DEF SearchInv

\* A step that adds no dependency, and that the searches of other containers
\* do not notice.
LEMMA CycleOthers ==
  ASSUME TypeOK, CycleInv, NEW w \in Workers, OthersSame(w), deps' \subseteq deps,
         Adding(w)' => SearchInv(w)',
         tx'[w].add # {} => /\ pc'[w] = "commit" /\ req'[w].op = "add"
                            /\ stack'[w] = {}
                            /\ tx'[w].add = {<<Uuid(req'[w].a), Uuid(req'[w].b)>>},
         ~Adding(w)' => visited'[w] = {}
  PROVE  CycleInv'
<1>1. NoCycle'
  BY FewerEdges DEF CycleInv, NoCycle
<1>2. ASSUME NEW v \in Workers, v # w
      PROVE  /\ Adding(v)' = Adding(v)
             /\ Adding(v) => SearchInv(v)'
  BY <1>2, SearchKept DEF OthersSame, Adding, CycleInv
<1> QED BY <1>1, <1>2 DEF CycleInv, OthersSame

LEMMA CycleAnswer ==
  ASSUME TypeOK, CycleInv, NEW w \in Workers, Leaves(w), visited'[w] = {},
         deps' \subseteq deps
  PROVE  CycleInv'
<1>1. ~Adding(w)' /\ tx'[w].add = {}
  BY DEF Leaves, Adding, NoWrites
<1> QED BY <1>1, CycleOthers DEF Leaves

\* What a finished search has shown: its dependency closes no cycle.
LEMMA FoundAcyclic ==
  ASSUME OneSpelling, TypeOK, CycleInv, NEW w \in Workers, tx[w].add # {}
  PROVE  Graph!Acyclic(deps \cup tx[w].add)
<1> DEFINE a == Uuid(req[w].a)
           b == Uuid(req[w].b)
           V == {d \in Deliverable : Str(d) \in visited[w]}
<1>1. /\ req[w].op = "add" /\ req[w] \in Request
      /\ stack[w] = {} /\ tx[w].add = {<<a, b>>} /\ SearchInv(w)
  BY DEF CycleInv, Adding, TypeOK
<1>2. \A t \in Text : t = Str(Uuid(t))
  BY DEF OneSpelling, Text, Str, Uuid
<1>3. a \in Deliverable /\ b \in Deliverable /\ req[w].a = Str(a) /\ req[w].b = Str(b)
  BY <1>1, <1>2, RequestFields, TextFacts
<1>4. b \in V /\ a \notin V
  BY <1>1, <1>3 DEF SearchInv
<1>5. \A x \in V, y \in Deliverable : <<x, y>> \in deps => y \in V
  <2> SUFFICES ASSUME NEW x \in V, NEW y \in Deliverable, <<x, y>> \in deps
               PROVE  Str(y) \in visited[w]
    OBVIOUS
  <2>1. Str(y) \in Successors(Str(x))
    BY TextFacts DEF Successors
  <2> QED BY <1>1, <2>1 DEF SearchInv
<1>6. Graph!Acyclic(deps \cup {<<a, b>>})
  BY <1>4, <1>5, ClosedSetAcyclic DEF CycleInv, NoCycle
<1> QED BY <1>1, <1>6

LEMMA CycleCommit ==
  ASSUME OneAdding, OneSpelling, TypeOK, CycleInv, NEW w \in Workers,
         Leaves(w), visited'[w] = {}, pc[w] = "commit", CommitWrites(w)
  PROVE  CycleInv'
<1>1. CASE tx[w].add = {}
  <2>1. deps' \subseteq deps
    BY <1>1 DEF CommitWrites
  <2> QED BY <2>1, CycleAnswer
<1>2. CASE tx[w].add # {}
  <2>1. req[w].op = "add" /\ "add" \in Serves[w]
    <3>1. req[w].op = "add" /\ pc[w] # "idle"
      BY <1>2 DEF CycleInv
    <3> QED BY <3>1 DEF TypeOK
  <2>2. deps' \subseteq deps \cup tx[w].add
    BY DEF CommitWrites
  <2>3. NoCycle'
    BY <1>2, <2>2, FoundAcyclic, FewerEdges DEF NoCycle
  <2>4. \A v \in Workers : v # w => ~Adding(v) /\ ~Adding(v)' /\ tx[v].add = {}
    <3> SUFFICES ASSUME NEW v \in Workers, v # w
                 PROVE  ~Adding(v) /\ ~Adding(v)' /\ tx[v].add = {}
      OBVIOUS
    <3>1. ~Adding(v)
      <4>1. pc[v] # "idle" => req[v].op \in Serves[v]
        BY DEF TypeOK
      <4> QED BY <2>1, <4>1 DEF OneAdding, Adding
    <3>2. ~Adding(v)'
      BY <3>1 DEF Adding, Leaves, OthersSame
    <3>3. tx[v].add = {}
      BY <3>1 DEF CycleInv, Adding
    <3> QED BY <3>1, <3>2, <3>3
  <2>5. ~Adding(w)' /\ tx'[w].add = {}
    BY DEF Leaves, Adding, NoWrites
  <2> QED BY <2>3, <2>4, <2>5 DEF CycleInv, Leaves, OthersSame
<1> QED BY <1>1, <1>2

LEMMA CycleReceive ==
  ASSUME TypeOK, CycleInv, NEW w \in Workers, Receive(w)
  PROVE  CycleInv'
<1>0. pc[w] = "idle" /\ visited[w] = {} /\ tx[w].add = {} /\ UNCHANGED db
  BY DEF Receive, CycleInv, Adding
<1>1. CASE \E c : Answer(w, c)
  <2>1. visited'[w] = {}
    BY <1>1 DEF Answer, Respond, TypeOK
  <2> QED BY <1>0, <1>1, <2>1, RespondLeaves, CycleAnswer DEF Answer, db
<1>2. ASSUME NEW r \in Request, pc' = [pc EXCEPT ![w] = FirstStatement(r.op)],
             req' = [req EXCEPT ![w] = r], UNCHANGED <<tx, local>>
      PROVE  CycleInv'
  <2>1. FirstStatement(r.op) \in Label \ {"search", "commit"}
    BY RequestFields DEF Operation, FirstStatement, Label
  <2>2. visited' = visited /\ stack' = stack /\ tx' = tx /\ found' = found
    BY <1>2 DEF local
  <2>3. pc' \in [Workers -> Label] /\ pc'[w] \notin {"search", "commit"}
    BY <1>2, <2>1 DEF TypeOK
  <2>4. OthersSame(w) /\ ~Adding(w)'
    BY <1>2, <2>2, <2>3 DEF OthersSame, Adding, TypeOK
  <2> QED BY <1>0, <2>2, <2>4, CycleOthers DEF db
<1> QED BY <1>1, <1>2 DEF Receive

\* Statements of requests other than add, and the two lookups of add.
LEMMA CycleOther ==
  ASSUME TypeOK, CycleInv, NEW w \in Workers,
         \/ InsertRow(w) \/ UpdateRow(w) \/ DeleteDeps(w) \/ DeleteRow(w)
         \/ DeleteDep(w) \/ SelectRows(w) \/ SelectRow(w) \/ SelectLinks(w)
         \/ LookupA(w)
  PROVE  CycleInv'
<1>0. /\ pc[w] # "search" /\ (pc[w] = "commit" => req[w].op # "add")
      /\ <<req[w].op, pc[w]>> \in Stage
  BY DEF TypeOK, InsertRow, UpdateRow, DeleteDeps, DeleteRow, DeleteDep,
         SelectRows, SelectRow, SelectLinks, LookupA
<1>1. visited[w] = {} /\ tx[w].add = {}
  BY <1>0 DEF CycleInv, Adding
<1>2. CASE /\ \E c, rows, links : Respond(w, c, rows, links)
           /\ UNCHANGED db
  <2>1. visited'[w] = {}
    BY <1>2 DEF Respond, TypeOK
  <2> QED BY <1>2, <2>1, RespondLeaves, CycleAnswer DEF db
<1>3. ASSUME NEW l \in {"commit", "delete_row", "select_links", "lookup_b"}, Goto(w, l),
             l = "commit" => req[w].op # "add",
             \A v \in Workers \ {w} : tx'[v] = tx[v] /\ found'[v] = found[v],
             tx'[w].add = {}, UNCHANGED <<visited, stack>>
      PROVE  CycleInv'
  <2>1. OthersSame(w) /\ ~Adding(w)'
    BY <1>3 DEF OthersSame, Adding, Goto, TypeOK, Label
  <2> QED BY <1>1, <1>3, <2>1, CycleOthers DEF Goto, db
<1>4. ASSUME NEW l \in {"commit", "delete_row"}, NEW x, Write(w, l, x), x.add = {},
             l = "commit" => req[w].op # "add"
      PROVE  CycleInv'
  <2>1. /\ Goto(w, l) /\ UNCHANGED <<visited, stack>> /\ tx'[w].add = {}
        /\ \A v \in Workers \ {w} : tx'[v] = tx[v] /\ found'[v] = found[v]
    BY <1>4 DEF Write, TypeOK, local
  <2> QED BY <1>3, <1>4, <2>1
<1>5. CASE InsertRow(w) \/ UpdateRow(w) \/ DeleteDeps(w) \/ DeleteRow(w) \/ DeleteDep(w)
  <2>1. req[w].op # "add"
    BY <1>0, <1>5 DEF Stage, InsertRow, UpdateRow, DeleteDeps, DeleteRow, DeleteDep
  <2>2. CASE InsertRow(w)
    <3> DEFINE x == [NoWrites EXCEPT !.put = {req[w].id},
                       !.new = [project |-> req[w].project, status |-> req[w].status,
                                completed |-> FALSE]]
    <3>1. Write(w, "commit", x) /\ x.add = {}
      BY <2>2 DEF InsertRow, NoWrites
    <3> QED BY <1>4, <2>1, <3>1
  <2>3. CASE UpdateRow(w)
    <3> DEFINE d == req[w].id
               x == IF d \in live
                    THEN [NoWrites EXCEPT !.put = {d},
                                          !.new = Updated(row[d], req[w].status)]
                    ELSE NoWrites
    <3>1. Write(w, "commit", x) /\ x.add = {}
      BY <2>3 DEF UpdateRow, NoWrites
    <3> QED BY <1>4, <2>1, <3>1
  <2>4. CASE DeleteDeps(w)
    <3> DEFINE x == [NoWrites EXCEPT !.del = Touching(req[w].id)]
    <3>1. Write(w, "delete_row", x) /\ x.add = {}
      BY <2>4 DEF DeleteDeps, NoWrites
    <3> QED BY <1>4, <2>1, <3>1
  <2>5. CASE DeleteRow(w)
    <3> DEFINE x == [tx[w] EXCEPT !.gone = {req[w].id} \cap live]
    <3>1. Write(w, "commit", x) /\ x.add = {}
      BY <1>1, <2>5 DEF DeleteRow, TypeOK, Writes
    <3> QED BY <1>4, <2>1, <3>1
  <2>6. CASE DeleteDep(w)
    <3> DEFINE x == [NoWrites EXCEPT !.del = {req[w].edge} \cap deps]
    <3>1. Write(w, "commit", x) /\ x.add = {}
      BY <2>6 DEF DeleteDep, NoWrites
    <3> QED BY <1>4, <2>1, <3>1
  <2> QED BY <1>5, <2>2, <2>3, <2>4, <2>5, <2>6
<1>6. CASE LookupA(w) \/ SelectRows(w) \/ SelectRow(w) \/ SelectLinks(w)
  <2>1. CASE \E l \in {"select_links", "lookup_b"} : \E ids :
               Goto(w, l) /\ found' = [found EXCEPT ![w] = ids] /\ UNCHANGED <<tx, visited, stack>>
    BY <1>1, <1>3, <2>1 DEF TypeOK
  <2> QED BY <1>2, <1>6, <2>1 DEF LookupA, SelectRows, SelectRow, SelectLinks, Answer
<1> QED BY <1>5, <1>6

\* The search itself: it starts at b, each turn keeps SearchInv, and the INSERT
\* comes when the stack is empty.
LEMMA CycleSearch ==
  ASSUME TypeOK, CycleInv, NEW w \in Workers,
         LookupB(w) \/ Visit(w) \/ InsertDep(w)
  PROVE  CycleInv'
<1>0. req[w].op = "add" /\ pc[w] \in {"lookup_b", "search"}
  BY DEF TypeOK, LookupB, Visit, InsertDep, Stage
<1>1. tx[w].add = {} /\ (pc[w] = "lookup_b" => visited[w] = {})
      /\ (pc[w] = "search" => SearchInv(w))
  BY <1>0 DEF CycleInv, Adding
<1>2. CASE (\E c : Answer(w, c)) /\ UNCHANGED db
  <2>1. visited'[w] = {}
    BY <1>2 DEF Answer, Respond, TypeOK
  <2> QED BY <1>2, <2>1, RespondLeaves, CycleAnswer DEF Answer, db
<1>3. ASSUME NEW s, NEW m, Goto(w, "search"),
             stack' = [stack EXCEPT ![w] = s], visited' = [visited EXCEPT ![w] = m],
             UNCHANGED <<tx, found>>,
             req[w].b \in m \cup s, req[w].a \notin m,
             \A t \in m : Successors(t) \subseteq m \cup s
      PROVE  CycleInv'
  <2>1. OthersSame(w) /\ Adding(w)'
    BY <1>0, <1>3 DEF OthersSame, Adding, Goto, TypeOK, Label
  <2>2. SearchInv(w)'
    <3>1. visited'[w] = m /\ stack'[w] = s /\ req' = req /\ deps' = deps
      BY <1>3 DEF Goto, db, TypeOK
    <3>2. \A t : Successors(t)' = Successors(t)
      BY <3>1 DEF Successors
    <3> QED BY <1>3, <3>1, <3>2 DEF SearchInv
  <2> QED BY <1>1, <1>3, <2>1, <2>2, CycleOthers DEF Goto, db
<1>4. CASE LookupB(w)
  <2>1. CASE /\ Goto(w, "search")
             /\ stack' = [stack EXCEPT ![w] = {req[w].b}]
             /\ UNCHANGED <<tx, found, visited>>
    <3> DEFINE s == {req[w].b}
               m == {}
    <3>1. visited' = [visited EXCEPT ![w] = m]
      BY <1>1, <1>4, <2>1 DEF LookupB, TypeOK
    <3>2. \A t \in m : Successors(t) \subseteq m \cup s
      OBVIOUS
    <3>3. req[w].b \in m \cup s /\ req[w].a \notin m
      OBVIOUS
    <3>4. Goto(w, "search") /\ stack' = [stack EXCEPT ![w] = s] /\ UNCHANGED <<tx, found>>
      BY <2>1
    <3> HIDE DEF s, m
    <3> QED BY <1>3, <3>1, <3>2, <3>3, <3>4
  <2> QED BY <1>2, <1>4, <2>1 DEF LookupB
<1>5. CASE Visit(w)
  <2> PICK t \in stack[w] :
        \/ Answer(w, "400 cycle") /\ UNCHANGED db
        \/ /\ t \in visited[w]
           /\ Goto(w, "search")
           /\ stack' = [stack EXCEPT ![w] = stack[w] \ {t}]
           /\ UNCHANGED <<tx, found, visited>>
        \/ /\ t # req[w].a
           /\ Goto(w, "search")
           /\ visited' = [visited EXCEPT ![w] = visited[w] \cup {t}]
           /\ stack' = [stack EXCEPT ![w] = (stack[w] \ {t}) \cup Successors(t)]
           /\ UNCHANGED <<tx, found>>
    BY <1>5 DEF Visit, Hit, Marked
  <2>0. SearchInv(w)
    BY <1>1, <1>5 DEF Visit, Hit, Marked
  <2>1. CASE /\ t \in visited[w]
             /\ Goto(w, "search")
             /\ stack' = [stack EXCEPT ![w] = stack[w] \ {t}]
             /\ UNCHANGED <<tx, found, visited>>
    <3>1. visited' = [visited EXCEPT ![w] = visited[w]]
      BY <2>1 DEF TypeOK
    <3>2. visited[w] \cup stack[w] = visited[w] \cup (stack[w] \ {t})
      BY <2>1
    <3> QED BY <1>3, <2>0, <2>1, <3>1, <3>2 DEF SearchInv
  <2>2. CASE /\ t # req[w].a
             /\ Goto(w, "search")
             /\ visited' = [visited EXCEPT ![w] = visited[w] \cup {t}]
             /\ stack' = [stack EXCEPT ![w] = (stack[w] \ {t}) \cup Successors(t)]
             /\ UNCHANGED <<tx, found>>
    <3> DEFINE m == visited[w] \cup {t}
               s == (stack[w] \ {t}) \cup Successors(t)
    <3>1. visited[w] \cup stack[w] \subseteq m \cup s
      OBVIOUS
    <3>2. req[w].b \in m \cup s /\ req[w].a \notin m
      BY <2>0, <2>2, <3>1 DEF SearchInv
    <3>3. \A u \in m : Successors(u) \subseteq m \cup s
      BY <2>0, <3>1 DEF SearchInv
    <3> HIDE DEF m, s
    <3>4. stack' = [stack EXCEPT ![w] = s] /\ visited' = [visited EXCEPT ![w] = m]
      BY <2>2 DEF m, s
    <3> QED BY <1>3, <2>2, <3>2, <3>3, <3>4
  <2> QED BY <1>2, <2>1, <2>2
<1>6. CASE InsertDep(w)
  <2> DEFINE x == [NoWrites EXCEPT !.add = {<<Uuid(req[w].a), Uuid(req[w].b)>>}]
  <2>1. CASE Write(w, "commit", x)
    <3>1. OthersSame(w) /\ Goto(w, "commit") /\ tx'[w] = x /\ UNCHANGED <<visited, stack>>
      BY <2>1 DEF OthersSame, Write, Goto, TypeOK, Label, local
    <3>2. pc'[w] = "commit" /\ req' = req /\ UNCHANGED db /\ Adding(w)'
      BY <1>0, <3>1 DEF Goto, TypeOK, Adding
    <3>3. x.add = {<<Uuid(req[w].a), Uuid(req[w].b)>>} /\ stack[w] = {} /\ SearchInv(w)
      BY <1>1, <1>6 DEF InsertDep, NoWrites
    <3>4. SearchInv(w)'
      BY <3>1, <3>2, <3>3, SearchKept DEF db
    <3> QED BY <1>0, <3>1, <3>2, <3>3, <3>4, CycleOthers DEF db
  <2> QED BY <1>2, <1>6, <2>1 DEF InsertDep
<1> QED BY <1>4, <1>5, <1>6

LEMMA CycleEnding ==
  ASSUME OneAdding, OneSpelling, TypeOK, CycleInv, NEW w \in Workers,
         Commit(w) \/ CommitUnacknowledged(w) \/ Fail(w)
  PROVE  CycleInv'
<1>1. CASE \E c : Answer(w, c)
  <2>1. visited'[w] = {} /\ Leaves(w)
    BY <1>1, RespondLeaves DEF Answer, Respond, TypeOK
  <2>2. CASE UNCHANGED db
    BY <2>1, <2>2, CycleAnswer DEF db
  <2>3. CASE pc[w] = "commit" /\ CommitWrites(w)
    BY <2>1, <2>3, CycleCommit
  <2> QED BY <2>2, <2>3 DEF Commit, CommitUnacknowledged, Fail
<1>2. CASE /\ pc[w] = "commit" /\ CommitWrites(w)
           /\ req[w].op = "update"
           /\ pc' = [pc EXCEPT ![w] = "select_links"]
           /\ found' = [found EXCEPT ![w] = tx[w].put]
           /\ tx' = [tx EXCEPT ![w] = NoWrites]
           /\ UNCHANGED <<issued, req, visited, stack>>
  <2>1. Leaves(w)
    BY <1>2 DEF Leaves, OthersSame, TypeOK, Label
  <2>2. visited'[w] = {}
    BY <1>2 DEF CycleInv, Adding
  <2> QED BY <1>2, <2>1, <2>2, CycleCommit
<1> QED BY <1>1, <1>2 DEF Commit, CommitUnacknowledged, Fail

LEMMA CycleStep ==
  ASSUME OneAdding, OneSpelling, TypeOK, CycleInv, [Next]_vars
  PROVE  CycleInv'
<1>1. CASE UNCHANGED vars
  BY <1>1 DEF vars, db, local, CycleInv, NoCycle, Adding, SearchInv, Successors
<1>2. ASSUME NEW w \in Workers,
             Receive(w) \/ Work(w) \/ CommitUnacknowledged(w) \/ Fail(w)
      PROVE  CycleInv'
  BY <1>2, CycleReceive, CycleOther, CycleSearch, CycleEnding DEF Work
<1> QED BY <1>1, <1>2 DEF Next

\* With a single container adding dependencies, the graph never has a cycle:
\* whatever other containers remove, delete and create between the statements
\* of the search, and whatever fails, the search's answer is still good when
\* the dependency is committed.
THEOREM NoCycleWithOneAdder ==
  ASSUME OneAdding, OneSpelling
  PROVE  Spec => []NoCycle
<1>1. Init => CycleInv
  BY CycleInit
<1>2. TypeOK /\ CycleInv /\ [Next]_vars => CycleInv'
  BY CycleStep
<1>3. CycleInv => NoCycle
  BY DEF CycleInv
<1> QED BY <1>1, <1>2, <1>3, TypeCorrect, PTL DEF Spec

-----------------------------------------------------------------------------
(***************************************************************************)
(* What the statements add up to: with one container that adds             *)
(* dependencies and deletes deliverables, the committed tables behave as   *)
(* the abstract DependencyGraph.  And what an answer says of them.         *)
(***************************************************************************)

\* At most one container is sent POST .../dependencies and DELETE requests.
\* Other containers may create, update, read and remove dependencies.
Joining == {"add", "delete"}
OneEditing ==
  \A v, w \in Workers :
    (\E op \in Joining : op \in Serves[v]) /\ (\E op \in Joining : op \in Serves[w])
      => v = w

-----------------------------------------------------------------------------
(***************************************************************************)
(* The invariant                                                           *)
(***************************************************************************)
\* The deliverables that add_dependency has found stay until it commits.
Ends(w) ==
  /\ \A e \in tx[w].add : e[1] \in live /\ e[2] \in live
  /\ pc[w] = "lookup_b" /\ found[w] # {} => Uuid(req[w].a) \in live
  /\ pc[w] = "search" => Uuid(req[w].a) \in live /\ Uuid(req[w].b) \in live

\* What the transaction of each operation has written, and that the tables
\* still have what it is about to change.
Shape(w) ==
  /\ tx[w].add # {} => pc[w] = "commit" /\ req[w].op = "add"
  /\ tx[w].del # {} => pc[w] \in {"delete_row", "commit"} /\ req[w].op \in {"delete", "remove"}
  /\ tx[w].gone # {} => pc[w] = "commit" /\ req[w].op = "delete"
  /\ tx[w].put # {} => pc[w] = "commit" /\ req[w].op \in {"create", "update"}
  /\ pc[w] = "commit" /\ req[w].op = "create" =>
       tx[w].put = {req[w].id} /\ tx[w].new.project = req[w].project
  /\ pc[w] = "commit" /\ req[w].op = "update" => tx[w].put \subseteq {req[w].id} \cap live
  /\ pc[w] = "commit" /\ req[w].op = "remove" => tx[w].del \subseteq {req[w].edge} \cap deps
  /\ pc[w] \in {"delete_row", "commit"} /\ req[w].op = "delete" =>
       tx[w].del = Touching(req[w].id)
  /\ pc[w] = "commit" /\ req[w].op = "delete" =>
       tx[w].gone \subseteq {req[w].id} \cap live /\ (tx[w].gone = {} => tx[w].del = {})

\* Row locks keep two transactions from deleting one dependency, and from
\* updating and deleting one row.
Locks ==
  \A v, w \in Workers : v # w => /\ \A e \in tx[v].del : e \notin tx[w].del
                                 /\ \A d \in tx[v].put : d \notin tx[w].gone

EditInv == NoOrphan /\ Locks /\ \A w \in Workers : Ends(w) /\ Shape(w)

LEMMA EditInit == Init => EditInv
  BY DEF Init, EditInv, NoOrphan, Locks, Ends, Shape, NoWrites

LEMMA OneEditingOneAdding == OneEditing => OneAdding
  BY DEF OneEditing, OneAdding, Joining

\* Two containers never have requests under way of which both add or delete.
LEMMA Alone ==
  ASSUME OneEditing, TypeOK, NEW v \in Workers, NEW w \in Workers,
         pc[v] # "idle", pc[w] # "idle", req[v].op \in Joining, req[w].op \in Joining
  PROVE  v = w
<1>1. req[v].op \in Serves[v] /\ req[w].op \in Serves[w]
  BY DEF TypeOK
<1> QED BY <1>1 DEF OneEditing

-----------------------------------------------------------------------------
(***************************************************************************)
(* Every step keeps it                                                     *)
(***************************************************************************)
\* A step that leaves the tables and the other containers alone.
LEMMA EditStatement ==
  ASSUME TypeOK, EditInv, NEW w \in Workers, OthersSame(w), UNCHANGED db,
         Ends(w)', Shape(w)',
         \A v \in Workers \ {w} : /\ \A e \in tx'[w].del : e \notin tx[v].del
                                  /\ \A d \in tx'[w].put : d \notin tx[v].gone
                                  /\ \A d \in tx[v].put : d \notin tx'[w].gone
  PROVE  EditInv'
<1>1. \A v \in Workers : v # w => Ends(v)'
  BY DEF EditInv, Ends, OthersSame, db
<1>2. \A v \in Workers : v # w => Shape(v)'
  BY DEF EditInv, Shape, Touching, OthersSame, db
<1>3. Locks'
  BY DEF EditInv, Locks, OthersSame
<1>4. NoOrphan'
  BY DEF EditInv, NoOrphan, db
<1> QED BY <1>1, <1>2, <1>3, <1>4 DEF EditInv

LEMMA EditLeaves ==
  ASSUME TypeOK, EditInv, NEW w \in Workers, Leaves(w), UNCHANGED db
  PROVE  EditInv'
<1>1. OthersSame(w) /\ pc'[w] \in {"idle", "select_links"}
  BY DEF Leaves
<1>2. tx'[w].add = {} /\ tx'[w].del = {} /\ tx'[w].gone = {} /\ tx'[w].put = {}
  BY DEF Leaves, NoWrites
<1>3. Ends(w)' /\ Shape(w)'
  BY <1>1, <1>2 DEF Ends, Shape
<1> QED BY <1>1, <1>2, <1>3, EditStatement

\* A commit gives the others' transactions no surprise.
LEMMA EditCommit ==
  ASSUME OneEditing, TypeOK, EditInv, NEW w \in Workers, Leaves(w),
         pc[w] = "commit", CommitWrites(w)
  PROVE  EditInv'
<1>0. /\ live' = (live \ tx[w].gone) \cup tx[w].put
      /\ deps' = (deps \ tx[w].del) \cup tx[w].add
  BY DEF CommitWrites
<1>1. tx'[w].add = {} /\ tx'[w].del = {} /\ tx'[w].gone = {} /\ tx'[w].put = {}
  BY DEF Leaves, NoWrites
<1>2. OthersSame(w) /\ pc'[w] \in {"idle", "select_links"}
  BY DEF Leaves
<1>3. Ends(w) /\ Shape(w)
  BY DEF EditInv
<1>4. NoOrphan'
  <2>1. \A e \in deps \ tx[w].del : e[1] \notin tx[w].gone /\ e[2] \notin tx[w].gone
    <3>1. CASE tx[w].gone = {}
      BY <3>1
    <3>2. CASE tx[w].gone # {}
      BY <1>3, <3>2 DEF Shape, Touching
    <3> QED BY <3>1, <3>2
  <2>2. \A e \in tx[w].add : /\ e[1] \in live \ tx[w].gone
                             /\ e[2] \in live \ tx[w].gone
    BY <1>3 DEF Ends, Shape
  <2> QED BY <1>0, <2>1, <2>2 DEF EditInv, NoOrphan
<1>5. Locks'
  BY <1>1, <1>2 DEF EditInv, Locks, OthersSame
<1>6. Ends(w)' /\ Shape(w)'
  BY <1>1, <1>2 DEF Ends, Shape
<1>7. ASSUME NEW v \in Workers, v # w PROVE Ends(v)' /\ Shape(v)'
  <2>1. Ends(v) /\ Shape(v)
    BY DEF EditInv
  <2>2. /\ pc'[v] = pc[v] /\ req'[v] = req[v] /\ tx'[v] = tx[v] /\ found'[v] = found[v]
    BY <1>2, <1>7 DEF OthersSame
  <2>3. /\ \A e \in tx[v].del : e \notin tx[w].del
        /\ \A d \in tx[v].put : d \notin tx[w].gone
    BY <1>7 DEF EditInv, Locks
  <2>4. ASSUME pc[v] # "idle", req[v].op \in Joining
        PROVE  tx[w].gone = {} /\ tx[w].add = {}
    <3>1. req[w].op \notin Joining
      BY <1>7, <2>4, Alone
    <3> QED BY <1>3, <3>1 DEF Shape, Joining
  <2>5. \A x : req[v].op \in Joining /\ pc[v] # "idle" /\ x \in live => x \in live'
    BY <1>0, <2>4
  <2>6. Ends(v)'
    <3>1. pc[v] \in {"lookup_b", "search"} => req[v].op \in Joining
      BY DEF TypeOK, Stage, Joining
    <3>2. tx[v].add # {} => pc[v] # "idle" /\ req[v].op \in Joining
      BY <2>1 DEF Shape, Joining
    <3>3. \A e \in tx[v].add : e[1] \in live' /\ e[2] \in live'
      BY <2>1, <2>5, <3>2 DEF Ends
    <3> QED BY <2>1, <2>2, <2>5, <3>1, <3>3 DEF Ends
  <2>7. Shape(v)'
    <3>1. req[v].op = "delete" /\ pc[v] \in {"delete_row", "commit"} =>
            Touching(req[v].id)' = Touching(req[v].id)
      <4> SUFFICES ASSUME req[v].op = "delete", pc[v] \in {"delete_row", "commit"}
                   PROVE  {e \in deps' : req[v].id \in {e[1], e[2]}} = Touching(req[v].id)
        BY <2>2 DEF Touching
      <4>1. tx[v].del = Touching(req[v].id)
        BY <2>1 DEF Shape
      <4>2. deps' = deps \ tx[w].del
        BY <1>0, <2>4 DEF Joining
      <4> QED BY <2>3, <4>1, <4>2 DEF Touching
    <3>2. req[v].op = "update" /\ pc[v] = "commit" => tx[v].put \subseteq {req[v].id} \cap live'
      BY <1>0, <2>1, <2>3 DEF Shape
    <3>3. req[v].op = "remove" /\ pc[v] = "commit" => tx[v].del \subseteq {req[v].edge} \cap deps'
      BY <1>0, <2>1, <2>3 DEF Shape
    <3>4. req[v].op = "delete" /\ pc[v] = "commit" => tx[v].gone \subseteq {req[v].id} \cap live'
      BY <2>1, <2>5 DEF Shape, Joining
    <3> QED BY <2>1, <2>2, <3>1, <3>2, <3>3, <3>4 DEF Shape
  <2> QED BY <2>6, <2>7
<1> QED BY <1>4, <1>5, <1>6, <1>7 DEF EditInv

LEMMA EditReceive ==
  ASSUME TypeOK, EditInv, NEW w \in Workers, Receive(w)
  PROVE  EditInv'
<1>0. pc[w] = "idle" /\ UNCHANGED db
  BY DEF Receive
<1>1. CASE \E c : Answer(w, c)
  BY <1>0, <1>1, RespondLeaves, EditLeaves DEF Answer
<1>2. ASSUME NEW r \in Request, pc' = [pc EXCEPT ![w] = FirstStatement(r.op)],
             req' = [req EXCEPT ![w] = r], UNCHANGED <<tx, local>>
      PROVE  EditInv'
  <2>1. FirstStatement(r.op) \in Label \ {"lookup_b", "search", "commit", "delete_row"}
    BY RequestFields DEF Operation, FirstStatement, Label
  <2>2. OthersSame(w) /\ tx' = tx
    BY <1>2, <2>1 DEF OthersSame, TypeOK, local
  <2>3. pc'[w] \notin {"lookup_b", "search", "commit", "delete_row"}
    BY <1>2, <2>1 DEF TypeOK
  <2>4. tx[w].add = {} /\ tx[w].del = {} /\ tx[w].gone = {} /\ tx[w].put = {}
    BY <1>0 DEF EditInv, Shape
  <2>5. Ends(w)' /\ Shape(w)'
    BY <2>2, <2>3, <2>4 DEF Ends, Shape
  <2> QED BY <1>0, <2>2, <2>4, <2>5, EditStatement
<1> QED BY <1>1, <1>2 DEF Receive

\* The statements that write.
LEMMA EditWriting ==
  ASSUME TypeOK, ProjectInv, EditInv, NEW w \in Workers,
         InsertRow(w) \/ UpdateRow(w) \/ DeleteDeps(w) \/ DeleteRow(w) \/ DeleteDep(w)
  PROVE  EditInv'
<1>0. req[w] \in Request /\ <<req[w].op, pc[w]>> \in Stage
  BY DEF TypeOK, InsertRow, UpdateRow, DeleteDeps, DeleteRow, DeleteDep
<1>1. /\ OthersSame(w) /\ UNCHANGED db /\ req' = req
  BY DEF OthersSame, InsertRow, UpdateRow, DeleteDeps, DeleteRow, DeleteDep,
         Write, Goto, local, TypeOK, Label
<1>2. \A v \in Workers : Shape(v)
  BY DEF EditInv
<1>3. ASSUME NEW l \in {"commit", "delete_row"}, Goto(w, l), tx'[w].add = {}
      PROVE  pc'[w] = l /\ Ends(w)'
  BY <1>3 DEF Goto, TypeOK, Ends
<1>4. \A d : d \in live => d \in live'
  BY <1>1 DEF db
<1>5. CASE InsertRow(w)
  <2>1. /\ req[w].op = "create" /\ Goto(w, "commit")
        /\ tx'[w].add = {} /\ tx'[w].del = {} /\ tx'[w].gone = {}
        /\ tx'[w].put = {req[w].id} /\ tx'[w].new.project = req[w].project
    BY <1>0, <1>5 DEF InsertRow, Write, NoWrites, Stage, TypeOK
  <2>2. req[w].id \notin live
    BY <1>5, <2>1 DEF ProjectInv, Born, Creating, InsertRow
  <2>3. \A v \in Workers : req[w].id \notin tx[v].gone
    BY <1>2, <2>2 DEF Shape
  <2>4. Shape(w)'
    BY <1>1, <1>3, <2>1 DEF Shape
  <2> QED BY <1>1, <1>3, <2>1, <2>3, <2>4, EditStatement
<1>6. CASE UpdateRow(w)
  <2>1. /\ req[w].op = "update" /\ Goto(w, "commit")
        /\ tx'[w].add = {} /\ tx'[w].del = {} /\ tx'[w].gone = {}
        /\ tx'[w].put \subseteq {req[w].id} \cap live
    BY <1>0, <1>6 DEF UpdateRow, Write, NoWrites, Stage, TypeOK
  <2>2. \A v \in Workers \ {w} : req[w].id \notin tx[v].gone
    BY <1>6 DEF UpdateRow, RowLocked, Others
  <2>3. Shape(w)'
    BY <1>1, <1>3, <1>4, <2>1 DEF Shape
  <2> QED BY <1>1, <1>3, <2>1, <2>2, <2>3, EditStatement
<1>7. CASE DeleteDeps(w)
  <2>1. /\ req[w].op = "delete" /\ Goto(w, "delete_row")
        /\ tx'[w].add = {} /\ tx'[w].put = {} /\ tx'[w].gone = {}
        /\ tx'[w].del = Touching(req[w].id)
    BY <1>0, <1>7 DEF DeleteDeps, Write, NoWrites, Stage, TypeOK
  <2>2. \A v \in Workers \ {w} : \A e \in Touching(req[w].id) : e \notin tx[v].del
    BY <1>7 DEF DeleteDeps, EdgeLocked, Others
  <2>3. Shape(w)'
    BY <1>1, <1>3, <2>1 DEF Shape, Touching, db
  <2> QED BY <1>1, <1>3, <2>1, <2>2, <2>3, EditStatement
<1>8. CASE DeleteRow(w)
  <2>1. /\ req[w].op = "delete" /\ Goto(w, "commit")
        /\ tx'[w].add = tx[w].add /\ tx'[w].put = tx[w].put /\ tx'[w].del = tx[w].del
        /\ tx'[w].gone = {req[w].id} \cap live
    BY <1>0, <1>8 DEF DeleteRow, Write, Writes, Stage, TypeOK
  <2>2. tx[w].add = {} /\ tx[w].put = {} /\ tx[w].del = Touching(req[w].id)
    BY <1>2, <1>8, <2>1 DEF Shape, DeleteRow
  <2>3. \A v \in Workers \ {w} : req[w].id \notin tx[v].put
    BY <1>8 DEF DeleteRow, RowLocked, Others
  <2>4. \A v \in Workers \ {w} : \A e \in tx[w].del : e \notin tx[v].del
    BY DEF EditInv, Locks
  <2>5. tx'[w].gone = {} => tx[w].del = {}
    BY <2>1, <2>2 DEF EditInv, NoOrphan, Touching
  <2>6. Shape(w)'
    BY <1>1, <1>3, <2>1, <2>2, <2>5 DEF Shape, Touching, db
  <2> QED BY <1>1, <1>3, <2>1, <2>2, <2>3, <2>4, <2>6, EditStatement
<1>9. CASE DeleteDep(w)
  <2>1. /\ req[w].op = "remove" /\ Goto(w, "commit")
        /\ tx'[w].add = {} /\ tx'[w].put = {} /\ tx'[w].gone = {}
        /\ tx'[w].del = {req[w].edge} \cap deps
    BY <1>0, <1>9 DEF DeleteDep, Write, NoWrites, Stage, TypeOK
  <2>2. \A v \in Workers \ {w} : \A e \in tx'[w].del : e \notin tx[v].del
    BY <1>9, <2>1 DEF DeleteDep, EdgeLocked, Others
  <2>3. Shape(w)'
    BY <1>1, <1>3, <2>1 DEF Shape, db
  <2> QED BY <1>1, <1>3, <2>1, <2>2, <2>3, EditStatement
<1> QED BY <1>5, <1>6, <1>7, <1>8, <1>9

\* The statements that read, and add_dependency.
LEMMA EditReading ==
  ASSUME TypeOK, EditInv, NEW w \in Workers,
         \/ LookupA(w) \/ LookupB(w) \/ Visit(w) \/ InsertDep(w)
         \/ SelectRows(w) \/ SelectRow(w) \/ SelectLinks(w)
  PROVE  EditInv'
<1>0. /\ pc[w] \notin {"commit", "delete_row"}
      /\ tx[w].add = {} /\ tx[w].del = {} /\ tx[w].gone = {} /\ tx[w].put = {}
  BY DEF EditInv, Shape, LookupA, LookupB, Visit, InsertDep, SelectRows, SelectRow, SelectLinks
<1>1. CASE (\E c, rows, links : Respond(w, c, rows, links)) /\ UNCHANGED db
  BY <1>1, RespondLeaves, EditLeaves
<1>2. ASSUME NEW l \in {"lookup_b", "search", "select_links"}, Goto(w, l),
             tx' = tx, \A v \in Workers \ {w} : /\ found'[v] = found[v]
                                                /\ visited'[v] = visited[v]
                                                /\ stack'[v] = stack[v],
             l = "lookup_b" /\ found'[w] # {} => Uuid(req[w].a) \in live,
             l = "search" => Uuid(req[w].a) \in live /\ Uuid(req[w].b) \in live
      PROVE  EditInv'
  <2>1. OthersSame(w) /\ UNCHANGED db /\ pc'[w] = l /\ req' = req
    BY <1>2 DEF OthersSame, Goto, TypeOK, Label
  <2>2. Ends(w)' /\ Shape(w)'
    BY <1>0, <1>2, <2>1 DEF Ends, Shape, db
  <2> QED BY <1>0, <1>2, <2>1, <2>2, EditStatement
<1>3. CASE LookupA(w)
  <2>1. found'[w] # {} => Uuid(req[w].a) \in live
    BY <1>3 DEF LookupA, ProjectOf, TypeOK
  <2>2. /\ Goto(w, "lookup_b") /\ tx' = tx /\ visited' = visited /\ stack' = stack
        /\ \A v \in Workers \ {w} : found'[v] = found[v]
    BY <1>3 DEF LookupA, TypeOK
  <2> QED BY <1>2, <2>1, <2>2
<1>4. CASE LookupB(w)
  <2>1. CASE (Answer(w, "404") \/ Answer(w, "400 project")) /\ UNCHANGED db
    BY <1>1, <2>1 DEF Answer
  <2>2. CASE /\ {} \notin {found[w], ProjectOf(Uuid(req[w].b))}
             /\ Goto(w, "search")
             /\ stack' = [stack EXCEPT ![w] = {req[w].b}]
             /\ UNCHANGED <<tx, found, visited>>
    <3>1. Uuid(req[w].a) \in live /\ Uuid(req[w].b) \in live
      BY <1>4, <2>2 DEF LookupB, ProjectOf, EditInv, Ends
    <3>2. \A v \in Workers \ {w} : stack'[v] = stack[v]
      BY <2>2 DEF TypeOK
    <3> QED BY <1>2, <2>2, <3>1, <3>2
  <2> QED BY <1>4, <2>1, <2>2 DEF LookupB
<1>5. CASE Visit(w)
  <2>1. CASE Answer(w, "400 cycle") /\ UNCHANGED db
    BY <1>1, <2>1 DEF Answer
  <2>2. ASSUME Goto(w, "search"), UNCHANGED <<tx, found>>,
               \E s : stack' = [stack EXCEPT ![w] = s],
               visited' = visited \/ \E s : visited' = [visited EXCEPT ![w] = s]
        PROVE  EditInv'
    <3>1. \A v \in Workers \ {w} : visited'[v] = visited[v] /\ stack'[v] = stack[v]
      BY <2>2 DEF TypeOK
    <3>2. Uuid(req[w].a) \in live /\ Uuid(req[w].b) \in live
      BY <1>5 DEF Visit, EditInv, Ends
    <3> QED BY <1>2, <2>2, <3>1, <3>2
  <2> QED BY <1>5, <2>1, <2>2 DEF Visit, Hit, Marked
<1>6. CASE InsertDep(w)
  <2> DEFINE a == Uuid(req[w].a)
             b == Uuid(req[w].b)
  <2>1. CASE Answer(w, "500") /\ UNCHANGED db
    BY <1>1, <2>1 DEF Answer
  <2>2. CASE Write(w, "commit", [NoWrites EXCEPT !.add = {<<a, b>>}])
    <3>1. OthersSame(w) /\ Goto(w, "commit") /\ UNCHANGED db /\ req' = req
      BY <2>2 DEF OthersSame, Write, Goto, TypeOK, Label, local
    <3>2. /\ tx'[w].put = {} /\ tx'[w].del = {} /\ tx'[w].gone = {} /\ pc'[w] = "commit"
          /\ tx'[w].add = {<<a, b>>}
      BY <2>2 DEF Write, Goto, NoWrites, TypeOK
    <3>3. req[w].op = "add" /\ a \in live /\ b \in live
      BY <1>6 DEF InsertDep, TypeOK, Stage, EditInv, Ends
    <3>4. Ends(w)'
      BY <3>1, <3>2, <3>3 DEF Ends, db
    <3>5. Shape(w)'
      BY <3>1, <3>2, <3>3 DEF Shape
    <3> QED BY <3>1, <3>2, <3>4, <3>5, EditStatement
  <2> QED BY <1>6, <2>1, <2>2 DEF InsertDep
<1>7. CASE SelectRows(w) \/ SelectRow(w) \/ SelectLinks(w)
  <2>1. ASSUME NEW ids, Goto(w, "select_links"), found' = [found EXCEPT ![w] = ids],
               UNCHANGED <<tx, visited, stack>>
        PROVE  EditInv'
    BY <1>2, <2>1 DEF TypeOK
  <2> QED BY <1>1, <1>7, <2>1 DEF SelectRows, SelectRow, SelectLinks, Answer
<1> QED BY <1>3, <1>4, <1>5, <1>6, <1>7

LEMMA EditEnding ==
  ASSUME OneEditing, TypeOK, EditInv, NEW w \in Workers,
         Commit(w) \/ CommitUnacknowledged(w) \/ Fail(w)
  PROVE  EditInv'
<1>1. Leaves(w)
  <2>1. CASE \E c : Answer(w, c)
    BY <2>1, RespondLeaves DEF Answer
  <2>2. CASE /\ pc' = [pc EXCEPT ![w] = "select_links"]
             /\ found' = [found EXCEPT ![w] = tx[w].put]
             /\ tx' = [tx EXCEPT ![w] = NoWrites]
             /\ UNCHANGED <<issued, req, visited, stack>>
    BY <2>2 DEF Leaves, OthersSame, TypeOK, Label
  <2> QED BY <2>1, <2>2 DEF Commit, CommitUnacknowledged, Fail
<1>2. CASE UNCHANGED db
  BY <1>1, <1>2, EditLeaves
<1>3. CASE pc[w] = "commit" /\ CommitWrites(w)
  BY <1>1, <1>3, EditCommit
<1> QED BY <1>2, <1>3 DEF Commit, CommitUnacknowledged, Fail

LEMMA EditStep ==
  ASSUME OneEditing, TypeOK, ProjectInv, EditInv, [Next]_vars
  PROVE  EditInv'
<1>1. CASE UNCHANGED vars
  BY <1>1 DEF vars, db, local, EditInv, NoOrphan, Locks, Ends, Shape, Touching
<1>2. ASSUME NEW w \in Workers,
             Receive(w) \/ Work(w) \/ CommitUnacknowledged(w) \/ Fail(w)
      PROVE  EditInv'
  BY <1>2, EditReceive, EditWriting, EditReading, EditEnding DEF Work
<1> QED BY <1>1, <1>2 DEF Next

\* With one container that adds and deletes, no dependency outlives a
\* deliverable it mentions, although nothing but the first statement of
\* delete_deliverable removes it: what that statement has removed is still all
\* there is when the row disappears.
THEOREM NothingOrphaned ==
  ASSUME OneEditing
  PROVE  Spec => []NoOrphan
<1>1. TypeOK /\ ProjectInv /\ [Next]_vars => ProjectInv'
  BY ProjectStep
<1>2. TypeOK /\ ProjectInv /\ EditInv /\ [Next]_vars => EditInv'
  BY EditStep
<1>3. EditInv => NoOrphan
  BY DEF EditInv
<1> QED BY EditInit, ProjectInit, <1>1, <1>2, <1>3, TypeCorrect, PTL DEF Spec

-----------------------------------------------------------------------------
(***************************************************************************)
(* The tables implement the abstract graph                                 *)
(***************************************************************************)
\* The abstract project of each deliverable.
Projects == [d \in Deliverable |-> row[d].project]

\* What a commit does to it.
LEMMA ProjectsAfter ==
  ASSUME TypeOK, ProjectInv, NEW w \in Workers, CommitWrites(w)
  PROVE  \A d \in Deliverable : row'[d].project = IF Creating(w) /\ d \in tx[w].put
                                                  THEN tx[w].new.project
                                                  ELSE row[d].project
<1> TAKE d \in Deliverable
<1>1. row'[d] = IF d \in tx[w].put THEN tx[w].new ELSE row[d]
  BY DEF CommitWrites
<1>2. d \in tx[w].put /\ ~Creating(w) => tx[w].new.project = row[d].project
  BY DEF ProjectInv
<1> QED BY <1>1, <1>2

\* A commit is one step of the abstract graph, or none.
LEMMA CommitMaps ==
  ASSUME OneSpelling, TypeOK, ProjectInv, CycleInv, EditInv, NEW w \in Workers,
         pc[w] = "commit", CommitWrites(w)
  PROVE  [Graph!GraphNext]_(Graph!graphVars)
<1>0. /\ live' = (live \ tx[w].gone) \cup tx[w].put
      /\ deps' = (deps \ tx[w].del) \cup tx[w].add
  BY DEF CommitWrites
<1>1. /\ req[w] \in Request /\ Shape(w) /\ Ends(w)
      /\ req[w].op \in {"create", "update", "delete", "remove", "add"}
  BY DEF TypeOK, Stage, EditInv
<1>2. /\ Projects \in [Deliverable -> Project] /\ Projects' \in [Deliverable -> Project]
  BY CommitTables DEF TypeOK, Row, Projects
<1>3. ~Creating(w) => Projects' = Projects
  BY ProjectsAfter DEF Projects
<1>4. Graph!graphVars = <<live, Projects, deps>>
  BY DEF Graph!graphVars, Projects
<1>5. CASE tx[w].add = {} /\ tx[w].del = {} /\ tx[w].gone = {} /\ tx[w].put = {}
  <2>1. live' = live /\ deps' = deps
    BY <1>0, <1>5
  <2>2. Projects' = Projects
    BY <1>5, ProjectsAfter DEF Projects
  <2> QED BY <2>1, <2>2 DEF Graph!graphVars, Projects
<1>6. CASE req[w].op = "create"
  <2>1. req[w].id \in Deliverable /\ req[w].project \in Project
    BY <1>1, <1>6, RequestFields
  <2> PICK d \in Deliverable, p \in Project : d = req[w].id /\ p = req[w].project
    BY <2>1
  <2>2. /\ tx[w].put = {d} /\ tx[w].new.project = p
        /\ tx[w].add = {} /\ tx[w].del = {} /\ tx[w].gone = {}
    BY <1>1, <1>6 DEF Shape
  <2>3. Creating(w) /\ d \notin live
    BY <1>6 DEF Creating, ProjectInv, Born
  <2>4. live' = live \cup {d} /\ deps' = deps
    BY <1>0, <2>2
  <2>5. Projects' = [Projects EXCEPT ![d] = p]
    BY <2>1, <2>2, <2>3, ProjectsAfter DEF Projects
  <2>6. Graph!Create(d, p)
    BY <2>3, <2>4, <2>5 DEF Graph!Create, Projects
  <2> QED BY <2>6 DEF Graph!GraphNext
<1>7. CASE req[w].op = "update"
  <2>1. /\ tx[w].put \subseteq live
        /\ tx[w].add = {} /\ tx[w].del = {} /\ tx[w].gone = {}
    BY <1>1, <1>7 DEF Shape
  <2>2. live' = live /\ deps' = deps
    BY <1>0, <2>1
  <2>3. Projects' = Projects
    BY <1>3, <1>7 DEF Creating
  <2> QED BY <2>2, <2>3 DEF Graph!graphVars, Projects
<1>8. CASE req[w].op = "delete" /\ tx[w].gone # {}
  <2> DEFINE d == req[w].id
  <2>1. /\ tx[w].gone = {d} /\ d \in live /\ tx[w].del = Touching(d)
        /\ tx[w].add = {} /\ tx[w].put = {}
    BY <1>1, <1>8 DEF Shape
  <2>2. live' = live \ {d} /\ deps' = {e \in deps : d \notin {e[1], e[2]}}
    BY <1>0, <2>1 DEF Touching
  <2>3. Projects' = Projects
    BY <1>3, <1>8 DEF Creating
  <2>4. Graph!Delete(d) /\ d \in Deliverable
    BY <2>1, <2>2, <2>3 DEF Graph!Delete, Projects, TypeOK
  <2> QED BY <2>4 DEF Graph!GraphNext
<1>9. CASE req[w].op = "remove" /\ tx[w].del # {}
  <2>1. PICK a \in Deliverable, b \in Deliverable : req[w].edge = <<a, b>>
    BY <1>1, <1>9, RequestFields DEF Edge
  <2>2. /\ tx[w].del = {<<a, b>>} /\ <<a, b>> \in deps
        /\ tx[w].add = {} /\ tx[w].put = {} /\ tx[w].gone = {}
    BY <1>1, <1>9, <2>1 DEF Shape
  <2>3. live' = live /\ deps' = deps \ {<<a, b>>}
    BY <1>0, <2>2
  <2>4. Projects' = Projects
    BY <1>3, <1>9 DEF Creating
  <2>5. Graph!RemoveDependency(a, b)
    BY <2>2, <2>3, <2>4 DEF Graph!RemoveDependency, Projects
  <2> QED BY <2>5 DEF Graph!GraphNext
<1>10. CASE req[w].op = "add" /\ tx[w].add # {}
  <2> DEFINE a == Uuid(req[w].a)
             b == Uuid(req[w].b)
  <2>1. a \in Deliverable /\ b \in Deliverable
    BY <1>1, <1>10, RequestFields, TextFacts
  <2>2. /\ tx[w].add = {<<a, b>>}
        /\ tx[w].del = {} /\ tx[w].put = {} /\ tx[w].gone = {}
    BY <1>1, <1>10 DEF Shape, CycleInv
  <2>3. a \in live /\ b \in live /\ row[a].project = row[b].project
    <3>1. <<a, b>> \in tx[w].add /\ <<a, b>>[1] = a /\ <<a, b>>[2] = b
      BY <2>2
    <3> HIDE DEF a, b
    <3> QED BY <1>1, <3>1 DEF Ends, ProjectInv, Siblings
  <2>4. Graph!Acyclic(deps \cup {<<a, b>>})
    BY <1>10, <2>2, FoundAcyclic
  <2>5. live' = live /\ deps' = deps \cup {<<a, b>>}
    BY <1>0, <2>2
  <2>6. Projects' = Projects
    BY <1>3, <1>10 DEF Creating
  <2>7. Graph!AddDependency(a, b)
    BY <2>1, <2>3, <2>4, <2>5, <2>6 DEF Graph!AddDependency, Projects
  <2> QED BY <2>1, <2>7 DEF Graph!GraphNext
<1> QED BY <1>1, <1>5, <1>6, <1>7, <1>8, <1>9, <1>10 DEF Shape

\* Every other step leaves the tables alone.
LEMMA OnlyCommits ==
  ASSUME [Next]_vars
  PROVE  UNCHANGED db \/ \E w \in Workers : pc[w] = "commit" /\ CommitWrites(w)
<1>1. ASSUME NEW w \in Workers, Work(w)
      PROVE  UNCHANGED db \/ (pc[w] = "commit" /\ CommitWrites(w))
  BY <1>1 DEF Work, InsertRow, UpdateRow, DeleteDeps, DeleteRow, DeleteDep, LookupA,
     LookupB, Visit, InsertDep, SelectRows, SelectRow, SelectLinks, Commit, Write, Goto
<1>2. ASSUME NEW w \in Workers, Receive(w) \/ CommitUnacknowledged(w) \/ Fail(w)
      PROVE  UNCHANGED db \/ (pc[w] = "commit" /\ CommitWrites(w))
  BY <1>2 DEF Receive, CommitUnacknowledged, Fail
<1>3. CASE UNCHANGED vars
  BY <1>3 DEF vars
<1> QED BY <1>1, <1>2, <1>3 DEF Next

\* With one container that adds and deletes, and clients that write uuids in
\* one way, the service keeps the promises of DependencyGraph: however its
\* statements interleave with those of other containers, and whatever fails,
\* each commit is one legal change of the graph.
THEOREM Refines ==
  ASSUME OneEditing, OneSpelling
  PROVE  Spec => ImplementsGraph
<1>1. Init => Graph!GraphInit
  <2> SUFFICES ASSUME Init PROVE Graph!GraphInit
    OBVIOUS
  <2>1. TypeOK
    BY TypeInit
  <2>2. \A d \in Deliverable : row[d].project \in Project
    BY <2>1 DEF TypeOK, Row
  <2> QED BY <2>1, <2>2 DEF Init, TypeOK, Graph!GraphInit
<1>2. TypeOK /\ ProjectInv /\ CycleInv /\ EditInv /\ [Next]_vars
        => [Graph!GraphNext]_(Graph!graphVars)
  <2> SUFFICES ASSUME TypeOK, ProjectInv, CycleInv, EditInv, [Next]_vars
               PROVE  [Graph!GraphNext]_(Graph!graphVars)
    OBVIOUS
  <2>1. CASE UNCHANGED db
    BY <2>1 DEF db, Graph!graphVars
  <2>2. CASE \E w \in Workers : pc[w] = "commit" /\ CommitWrites(w)
    BY <2>2, CommitMaps
  <2> QED BY <2>1, <2>2, OnlyCommits
<1>3. TypeOK /\ ProjectInv /\ [Next]_vars => ProjectInv'
  BY ProjectStep
<1>4. TypeOK /\ CycleInv /\ [Next]_vars => CycleInv'
  BY CycleStep, OneEditingOneAdding
<1>5. TypeOK /\ ProjectInv /\ EditInv /\ [Next]_vars => EditInv'
  BY EditStep
<1> QED BY <1>1, <1>2, <1>3, <1>4, <1>5, ProjectInit, CycleInit, EditInit, TypeCorrect, PTL
        DEF Spec, ImplementsGraph, Graph!GraphSpec

-----------------------------------------------------------------------------
(***************************************************************************)
(* What answers say of the graph                                           *)
(***************************************************************************)
\* A list filtered by project shows no dependency on another project's
\* deliverable: its second query filters one end only, and SameProject does
\* the rest.
THEOREM ListClosed == Spec => ProjectListClosed
<1>1. ASSUME SameProject, Next, NEW w \in Workers,
             pc[w] = "select_links", reply'.by = w, reply'.code = "200",
             req[w].op = "list", req[w].project # Null
      PROVE  \A e \in reply'.links : row[e[2]].project = req[w].project
  <2>1. PICK v \in Workers : Receive(v) \/ Work(v) \/ CommitUnacknowledged(v) \/ Fail(v)
    BY <1>1 DEF Next
  <2>2. ASSUME NEW c, NEW rows, NEW links, Respond(v, c, rows, links)
        PROVE  v = w /\ c = "200" /\ reply'.links = links
    BY <1>1, <2>2 DEF Respond
  <2>3. ASSUME reply' = NoReply PROVE FALSE
    BY <1>1, <2>3 DEF NoReply
  <2>4. ASSUME NEW c, Answer(v, c) PROVE c = "200"
    BY <2>2, <2>4 DEF Answer
  <2>5. SelectLinks(v)
    <3>1. ~Receive(v) /\ ~CommitUnacknowledged(v) /\ ~Fail(v)
      BY <2>3, <2>4, EarlyCodes DEF Receive, CommitUnacknowledged, Fail
    <3>2. ~InsertRow(v) /\ ~UpdateRow(v) /\ ~DeleteDeps(v) /\ ~DeleteRow(v) /\ ~DeleteDep(v)
      BY <2>3 DEF InsertRow, UpdateRow, DeleteDeps, DeleteRow, DeleteDep, Write, Goto
    <3>3. ~LookupA(v) /\ ~LookupB(v) /\ ~Visit(v) /\ ~InsertDep(v)
      BY <2>3, <2>4 DEF LookupA, LookupB, Visit, InsertDep, Write, Goto
    <3>4. ~SelectRows(v) /\ ~SelectRow(v) /\ ~Commit(v)
      BY <2>3, <2>4 DEF SelectRows, SelectRow, Commit, Goto
    <3> QED BY <2>1, <3>1, <3>2, <3>3, <3>4 DEF Work
  <2>6. v = w /\ reply'.links = LinksOf(found[w], req[w].project)
    BY <1>1, <2>2, <2>5 DEF SelectLinks
  <2> QED BY <1>1, <2>6 DEF LinksOf, SameProject
<1>2. SameProject /\ [Next]_vars =>
        [\A w \in Workers :
           (pc[w] = "select_links" /\ reply'.by = w /\ reply'.code = "200"
              /\ req[w].op = "list" /\ req[w].project # Null) =>
             \A e \in reply'.links : row[e[2]].project = req[w].project]_vars
  BY <1>1
<1> QED BY <1>2, OneProject, PTL DEF Spec, ProjectListClosed

\* No other container removes dependencies while one adds.
NoOtherRemoving ==
  \A v, w \in Workers :
    "add" \in Serves[w] /\ ("remove" \in Serves[v] \/ "delete" \in Serves[v]) => v = w

\* Whatever the search has come across is reachable from where it started, and
\* only the containers meant here write deletions.
Found(w) ==
  /\ tx[w].del # {} => pc[w] # "idle" /\ req[w].op \in {"delete", "remove"}
  /\ ~Adding(w) => visited[w] = {}
  /\ pc[w] = "search" => \A t \in visited[w] \cup stack[w] :
                           Reaches(deps, Uuid(req[w].b), Uuid(t))

FoundInv == \A w \in Workers : Found(w)

LEMMA FoundInit == Init => FoundInv
<1> SUFFICES ASSUME Init, NEW w \in Workers PROVE Found(w)
  BY DEF FoundInv
<1>1. pc[w] = "idle" /\ tx[w].del = {} /\ visited[w] = {}
  BY DEF Init, NoWrites
<1> QED BY <1>1 DEF Found

\* More dependencies reach further.
LEMMA ReachesMore ==
  ASSUME NEW E, NEW F, E \subseteq F, NEW x, NEW y, Reaches(E, x, y)
  PROVE  Reaches(F, x, y)
  BY DEF Reaches

LEMMA ReachesStep ==
  ASSUME NEW E, NEW x, NEW y, NEW z, Reaches(E, x, y), <<y, z>> \in E
  PROVE  Reaches(E, x, z)
<1>1. <<y, z>>[1] = y /\ <<y, z>>[2] = z
  OBVIOUS
<1> QED BY <1>1 DEF Reaches

\* A step of w that takes no dependency from another search.
LEMMA FoundKeeps ==
  ASSUME FoundInv, NEW w \in Workers, OthersSame(w), Found(w)',
         \A v \in Workers \ {w} : pc[v] = "search" => deps \subseteq deps'
  PROVE  FoundInv'
<1> SUFFICES ASSUME NEW v \in Workers, v # w PROVE Found(v)'
  BY DEF FoundInv
<1>1. /\ pc'[v] = pc[v] /\ req'[v] = req[v] /\ tx'[v] = tx[v]
      /\ visited'[v] = visited[v] /\ stack'[v] = stack[v]
  BY DEF OthersSame
<1>2. Found(v)
  BY DEF FoundInv
<1>3. Adding(v)' = Adding(v)
  BY <1>1 DEF Adding
<1>4. pc[v] = "search" => \A t \in visited[v] \cup stack[v] :
                            Reaches(deps', Uuid(req[v].b), Uuid(t))
  BY <1>2, ReachesMore DEF Found
<1> QED BY <1>1, <1>2, <1>3, <1>4 DEF Found

\* The end of a transaction.
LEMMA FoundLeaves ==
  ASSUME NoOtherRemoving, TypeOK, FoundInv, NEW w \in Workers, Leaves(w),
         visited'[w] = {}, UNCHANGED db \/ CommitWrites(w)
  PROVE  FoundInv'
<1>1. OthersSame(w) /\ Found(w)'
  BY DEF Leaves, Found, NoWrites
<1>2. ASSUME NEW v \in Workers \ {w}, pc[v] = "search" PROVE deps \subseteq deps'
  <2>1. "add" \in Serves[v]
    BY <1>2 DEF TypeOK, Stage
  <2>2. tx[w].del = {}
    <3>1. tx[w].del # {} => req[w].op \in Serves[w] /\ req[w].op \in {"delete", "remove"}
      BY DEF FoundInv, Found, TypeOK
    <3> QED BY <1>2, <2>1, <3>1 DEF NoOtherRemoving
  <2> QED BY <2>2 DEF CommitWrites, db
<1> QED BY <1>1, <1>2, FoundKeeps

LEMMA FoundAnswer ==
  ASSUME NoOtherRemoving, TypeOK, FoundInv, NEW w \in Workers, NEW c, NEW rows, NEW links,
         Respond(w, c, rows, links), UNCHANGED db \/ CommitWrites(w)
  PROVE  FoundInv'
<1>1. visited'[w] = {}
  BY DEF Respond, TypeOK
<1> QED BY <1>1, RespondLeaves, FoundLeaves

\* A statement other than those of the search.
LEMMA FoundStatement ==
  ASSUME TypeOK, FoundInv, NEW w \in Workers, NEW l \in Label \ {"search", "idle"},
         pc[w] # "search", Goto(w, l), UNCHANGED visited, OthersSame(w),
         tx'[w].del # {} => req[w].op \in {"delete", "remove"},
         pc[w] = "commit" => req[w].op # "add"
  PROVE  FoundInv'
<1>1. pc'[w] = l /\ req' = req /\ deps' = deps
  BY DEF Goto, TypeOK, db
<1>2. visited'[w] = {}
  BY DEF FoundInv, Found, Adding
<1> QED BY <1>1, <1>2, FoundKeeps DEF Found

LEMMA FoundReceive ==
  ASSUME NoOtherRemoving, TypeOK, FoundInv, NEW w \in Workers, Receive(w)
  PROVE  FoundInv'
<1>0. pc[w] = "idle" /\ UNCHANGED db
  BY DEF Receive
<1>1. CASE \E c : Answer(w, c)
  BY <1>0, <1>1, FoundAnswer DEF Answer
<1>2. ASSUME NEW r \in Request, pc' = [pc EXCEPT ![w] = FirstStatement(r.op)],
             req' = [req EXCEPT ![w] = r], UNCHANGED <<tx, local>>
      PROVE  FoundInv'
  <2>1. FirstStatement(r.op) \in Label \ {"search"}
    BY RequestFields DEF Operation, FirstStatement, Label
  <2>2. OthersSame(w) /\ tx' = tx /\ visited' = visited /\ pc'[w] # "search"
    BY <1>2, <2>1 DEF OthersSame, TypeOK, local
  <2>3. tx[w].del = {} /\ visited[w] = {}
    BY <1>0 DEF FoundInv, Found, Adding
  <2> QED BY <1>0, <2>2, <2>3, FoundKeeps DEF Found, db
<1> QED BY <1>1, <1>2 DEF Receive

LEMMA FoundWriting ==
  ASSUME NoOtherRemoving, TypeOK, FoundInv, NEW w \in Workers,
         InsertRow(w) \/ UpdateRow(w) \/ DeleteDeps(w) \/ DeleteRow(w) \/ DeleteDep(w)
  PROVE  FoundInv'
<1>0. /\ pc[w] \notin {"search", "commit"} /\ <<req[w].op, pc[w]>> \in Stage
      /\ UNCHANGED visited
  BY DEF TypeOK, InsertRow, UpdateRow, DeleteDeps, DeleteRow, DeleteDep, Write, local
<1>1. OthersSame(w)
  BY DEF OthersSame, InsertRow, UpdateRow, DeleteDeps, DeleteRow, DeleteDep,
         Write, Goto, local, TypeOK, Label
<1>2. CASE InsertRow(w) \/ UpdateRow(w)
  <2>1. CASE InsertRow(w)
    <3>1. Goto(w, "commit") /\ tx'[w].del = {}
      BY <2>1 DEF InsertRow, Write, NoWrites, TypeOK
    <3> QED BY <1>0, <1>1, <3>1, FoundStatement DEF Label
  <2>2. CASE UpdateRow(w)
    <3>1. Goto(w, "commit") /\ tx'[w].del = {}
      BY <2>2 DEF UpdateRow, Write, NoWrites, TypeOK
    <3> QED BY <1>0, <1>1, <3>1, FoundStatement DEF Label
  <2> QED BY <1>2, <2>1, <2>2
<1>3. CASE DeleteDeps(w) \/ DeleteRow(w) \/ DeleteDep(w)
  <2>1. (Goto(w, "commit") \/ Goto(w, "delete_row")) /\ req[w].op \in {"delete", "remove"}
    BY <1>0, <1>3 DEF DeleteDeps, DeleteRow, DeleteDep, Write, Stage
  <2> QED BY <1>0, <1>1, <2>1, FoundStatement DEF Label
<1> QED BY <1>2, <1>3

LEMMA FoundReading ==
  ASSUME NoOtherRemoving, TypeOK, FoundInv, NEW w \in Workers,
         LookupA(w) \/ SelectRows(w) \/ SelectRow(w) \/ SelectLinks(w)
  PROVE  FoundInv'
<1>1. ASSUME NEW l \in {"lookup_b", "select_links"}, NEW ids, Goto(w, l),
             found' = [found EXCEPT ![w] = ids], UNCHANGED <<tx, visited, stack>>,
             pc[w] \notin {"search", "commit"}
      PROVE  FoundInv'
  <2>1. OthersSame(w)
    BY <1>1 DEF OthersSame, Goto, TypeOK, Label
  <2>2. tx'[w].del # {} => req[w].op \in {"delete", "remove"}
    BY <1>1 DEF FoundInv, Found
  <2> QED BY <1>1, <2>1, <2>2, FoundStatement DEF Label
<1> QED BY <1>1, FoundAnswer DEF LookupA, SelectRows, SelectRow, SelectLinks, Answer

\* The search starts at b and follows dependencies.
LEMMA FoundSearch ==
  ASSUME NoOtherRemoving, TypeOK, FoundInv, NEW w \in Workers,
         LookupB(w) \/ Visit(w) \/ InsertDep(w)
  PROVE  FoundInv'
<1> DEFINE b == Uuid(req[w].b)
<1>0. /\ req[w].op = "add" /\ pc[w] \in {"lookup_b", "search"} /\ tx[w].del = {}
      /\ req[w].b \in Text /\ stack[w] \subseteq Text
  BY RequestFields DEF TypeOK, LookupB, Visit, InsertDep, Stage, FoundInv, Found
<1>1. CASE (\E c : Answer(w, c)) /\ UNCHANGED db
  BY <1>1, FoundAnswer DEF Answer
<1>2. ASSUME NEW s, NEW m, Goto(w, "search"),
             stack' = [stack EXCEPT ![w] = s], visited' = [visited EXCEPT ![w] = m],
             UNCHANGED <<tx, found>>, \A t \in m \cup s : Reaches(deps, b, Uuid(t))
      PROVE  FoundInv'
  <2>1. /\ OthersSame(w) /\ pc'[w] = "search" /\ stack'[w] = s /\ visited'[w] = m
        /\ req' = req /\ deps' = deps
    BY <1>2 DEF OthersSame, Goto, TypeOK, Label, db
  <2> QED BY <1>0, <1>2, <2>1, FoundKeeps DEF Found, Adding
<1>3. CASE LookupB(w)
  <2>1. CASE /\ Goto(w, "search")
             /\ stack' = [stack EXCEPT ![w] = {req[w].b}]
             /\ UNCHANGED <<tx, found, visited>>
    <3>1. visited[w] = {}
      BY <1>3 DEF LookupB, FoundInv, Found, Adding
    <3>2. visited' = [visited EXCEPT ![w] = {}]
      BY <2>1, <3>1 DEF TypeOK
    <3>3. Reaches(deps, b, b)
      BY DEF Reaches
    <3>4. \A t \in {} \cup {req[w].b} : Reaches(deps, b, Uuid(t))
      BY <3>3
    <3> QED BY <1>2, <2>1, <3>2, <3>4
  <2> QED BY <1>1, <1>3, <2>1 DEF LookupB
<1>4. CASE Visit(w)
  <2>1. \A t \in visited[w] \cup stack[w] : Reaches(deps, b, Uuid(t))
    BY <1>4 DEF Visit, FoundInv, Found
  <2> PICK t \in stack[w] :
        \/ Answer(w, "400 cycle") /\ UNCHANGED db
        \/ /\ Goto(w, "search")
           /\ stack' = [stack EXCEPT ![w] = stack[w] \ {t}]
           /\ UNCHANGED <<tx, found, visited>>
        \/ /\ Goto(w, "search")
           /\ visited' = [visited EXCEPT ![w] = visited[w] \cup {t}]
           /\ stack' = [stack EXCEPT ![w] = (stack[w] \ {t}) \cup Successors(t)]
           /\ UNCHANGED <<tx, found>>
    BY <1>4 DEF Visit, Hit, Marked
  <2>2. CASE /\ Goto(w, "search")
             /\ stack' = [stack EXCEPT ![w] = stack[w] \ {t}]
             /\ UNCHANGED <<tx, found, visited>>
    <3>1. visited' = [visited EXCEPT ![w] = visited[w]]
      BY <2>2 DEF TypeOK
    <3>2. \A u \in visited[w] \cup (stack[w] \ {t}) : Reaches(deps, b, Uuid(u))
      BY <2>1
    <3> QED BY <1>2, <2>2, <3>1, <3>2
  <2>3. CASE /\ Goto(w, "search")
             /\ visited' = [visited EXCEPT ![w] = visited[w] \cup {t}]
             /\ stack' = [stack EXCEPT ![w] = (stack[w] \ {t}) \cup Successors(t)]
             /\ UNCHANGED <<tx, found>>
    <3>1. ASSUME NEW u \in Successors(t) PROVE Reaches(deps, b, Uuid(u))
      <4>1. PICK d \in Deliverable : u = Str(d) /\ <<Uuid(t), d>> \in deps
        BY <3>1 DEF Successors
      <4>2. Uuid(u) = d /\ Reaches(deps, b, Uuid(t))
        BY <2>1, <4>1, TextFacts
      <4> QED BY <4>1, <4>2, ReachesStep
    <3>2. \A u \in (visited[w] \cup {t}) \cup ((stack[w] \ {t}) \cup Successors(t)) :
            Reaches(deps, b, Uuid(u))
      BY <2>1, <3>1
    <3> QED BY <1>2, <2>3, <3>2
  <2> QED BY <1>1, <2>2, <2>3
<1>5. CASE InsertDep(w)
  <2>1. CASE Write(w, "commit", [NoWrites EXCEPT !.add = {<<Uuid(req[w].a), b>>}])
    <3>1. /\ OthersSame(w) /\ pc'[w] = "commit" /\ tx'[w].del = {}
          /\ req' = req /\ deps' = deps
      BY <2>1 DEF OthersSame, Write, Goto, NoWrites, TypeOK, Label, local, db
    <3> QED BY <1>0, <3>1, FoundKeeps DEF Found, Adding
  <2> QED BY <1>1, <1>5, <2>1 DEF InsertDep
<1> QED BY <1>3, <1>4, <1>5

LEMMA FoundEnding ==
  ASSUME NoOtherRemoving, TypeOK, FoundInv, NEW w \in Workers,
         Commit(w) \/ CommitUnacknowledged(w) \/ Fail(w)
  PROVE  FoundInv'
<1>1. UNCHANGED db \/ CommitWrites(w)
  BY DEF Commit, CommitUnacknowledged, Fail
<1>2. CASE \E c : Answer(w, c)
  BY <1>1, <1>2, FoundAnswer DEF Answer
<1>3. CASE /\ req[w].op = "update"
           /\ pc' = [pc EXCEPT ![w] = "select_links"]
           /\ found' = [found EXCEPT ![w] = tx[w].put]
           /\ tx' = [tx EXCEPT ![w] = NoWrites]
           /\ UNCHANGED <<issued, req, visited, stack>>
  <2>1. Leaves(w)
    BY <1>3 DEF Leaves, OthersSame, TypeOK, Label
  <2>2. visited'[w] = {}
    BY <1>3 DEF FoundInv, Found, Adding
  <2> QED BY <1>1, <2>1, <2>2, FoundLeaves
<1> QED BY <1>2, <1>3 DEF Commit, CommitUnacknowledged, Fail

LEMMA FoundStep ==
  ASSUME NoOtherRemoving, TypeOK, FoundInv, [Next]_vars
  PROVE  FoundInv'
<1>1. CASE UNCHANGED vars
  BY <1>1 DEF vars, db, local, FoundInv, Found, Adding
<1>2. ASSUME NEW w \in Workers,
             Receive(w) \/ Work(w) \/ CommitUnacknowledged(w) \/ Fail(w)
      PROVE  FoundInv'
  BY <1>2, FoundReceive, FoundWriting, FoundReading, FoundSearch, FoundEnding DEF Work
<1> QED BY <1>1, <1>2 DEF Next

\* As long as no other container removes dependencies while one adds, a
\* refusal is justified: the new dependency would close a cycle at the moment
\* of the answer, whatever was added or failed during the search.
THEOREM RefusedRight ==
  ASSUME NoOtherRemoving
  PROVE  Spec => RefusedOnlyForCycle
<1>1. TypeOK /\ FoundInv /\ [Next]_vars => FoundInv'
  BY FoundStep
<1>2. ASSUME FoundInv, Next, NEW w \in Workers, reply'.by = w, reply'.code = "400 cycle"
      PROVE  Reaches(deps, Uuid(req[w].b), Uuid(req[w].a))
  <2>1. PICK v \in Workers : Receive(v) \/ Work(v) \/ CommitUnacknowledged(v) \/ Fail(v)
    BY <1>2 DEF Next
  <2>2. ASSUME NEW c, NEW rows, NEW links, Respond(v, c, rows, links)
        PROVE  v = w /\ c = "400 cycle" /\ c # "200"
    BY <1>2, <2>2 DEF Respond
  <2>3. ASSUME reply' = NoReply PROVE FALSE
    BY <1>2, <2>3 DEF NoReply
  <2>4. ASSUME NEW c, Answer(v, c) PROVE c = "400 cycle"
    BY <2>2, <2>4 DEF Answer
  <2>5. Visit(v)
    <3>1. ~Receive(v) /\ ~CommitUnacknowledged(v) /\ ~Fail(v)
      BY <2>3, <2>4, EarlyCodes DEF Receive, CommitUnacknowledged, Fail
    <3>2. ~InsertRow(v) /\ ~UpdateRow(v) /\ ~DeleteDeps(v) /\ ~DeleteRow(v) /\ ~DeleteDep(v)
      BY <2>3 DEF InsertRow, UpdateRow, DeleteDeps, DeleteRow, DeleteDep, Write, Goto
    <3>3. ~LookupA(v) /\ ~LookupB(v) /\ ~InsertDep(v)
      BY <2>3, <2>4 DEF LookupA, LookupB, InsertDep, Write, Goto
    <3>4. ~SelectRows(v) /\ ~SelectRow(v) /\ ~Commit(v)
      BY <2>3, <2>4 DEF SelectRows, SelectRow, Commit, Goto
    <3>5. ~SelectLinks(v)
      BY <2>2 DEF SelectLinks
    <3> QED BY <2>1, <3>1, <3>2, <3>3, <3>4, <3>5 DEF Work
  <2>6. v = w /\ pc[w] = "search" /\ req[w].a \in stack[w]
    <3>1. PICK t \in stack[v] : pc[v] = "search" /\ t = req[v].a /\ Answer(v, "400 cycle")
      BY <2>3, <2>5 DEF Visit, Hit, Goto
    <3> QED BY <2>2, <3>1 DEF Answer
  <2> QED BY <1>2, <2>6 DEF FoundInv, Found
<1>3. FoundInv /\ [Next]_vars =>
        [\A w \in Workers :
           (reply'.by = w /\ reply'.code = "400 cycle") =>
             Reaches(deps, Uuid(req[w].b), Uuid(req[w].a))]_vars
  BY <1>2
<1> QED BY FoundInit, <1>1, <1>3, TypeCorrect, PTL DEF Spec, RefusedOnlyForCycle
=============================================================================
