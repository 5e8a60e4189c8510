--------------------------- MODULE WarmConnection ---------------------------
(***************************************************************************)
(* The database connection a warm Lambda container keeps between requests: *)
(* PG_CONN with get_connection, reset_connection and init_db, the same in  *)
(* the five services' postgres_service.py, and the two except blocks of    *)
(* every handler.  A request first runs init_db (CREATE TABLE IF NOT       *)
(* EXISTS and a commit) and then its own statements; what those are is a   *)
(* script of reads "r", writes "w" and commits "c".                        *)
(*                                                                         *)
(* The connection is psycopg's: a first statement opens a transaction, an  *)
(* SQL error aborts it, COMMIT of an aborted transaction is a rollback     *)
(* that raises nothing, and a connection the server has dropped is found   *)
(* out by the next statement, not by .closed before it.                    *)
(***************************************************************************)
EXTENDS Naturals, Sequences

CONSTANTS
  Container,
  Script,       \* the statement sequences of the services' operations
  MaxRequests,  \* bounds the requests, hence the model
  Null

ASSUME ScriptAssumption == Script \subseteq Seq({"r", "w", "c"})

\* Every function of the postgres_service modules that writes goes on to the
\* commit with nothing but further writes in between.
ASSUME WritesCommitted ==
  \A s \in Script : \A i \in DOMAIN s :
    s[i] = "w" => i + 1 \in DOMAIN s /\ s[i + 1] \in {"w", "c"}

ASSUME MaxAssumption    == MaxRequests \in Nat

Id == 1 .. MaxRequests
Request == [id : Id, script : Script]
ASSUME NullAssumption   == Null \notin Request

VARIABLES
  link,       \* PG_CONN of each container and the server's side of it
  req,        \* the request it is serving
  at,         \* which statement of it comes next
  up,         \* the server accepts connections
  count,      \* requests received so far; a request is known by its number
  committed,  \* the requests with a committed write
  done        \* the requests with a write that were answered 2xx

tables == <<committed, done>>
vars   == <<link, req, at, up, count, tables>>

\* PG_CONN = None; and a connection fresh from connect().
NoLink == [status |-> "none", tx |-> "idle", writes |-> {}]
Opened == [NoLink EXCEPT !.status = "open"]
Closed == [NoLink EXCEPT !.status = "closed"]

\* What every handler executes before its own statements.
InitDb == <<"connect", "d", "c">>

Init ==
  /\ link = [c \in Container |-> NoLink]
  /\ req = [c \in Container |-> Null]
  /\ at = [c \in Container |-> 1]
  /\ up = TRUE
  /\ count = 0
  /\ committed = {}
  /\ done = {}

Serving(c) == req[c] # Null
Program(c) == InitDb \o req[c].script
Finished(c) == at[c] > Len(Program(c))

\* The next statement of the request is one of these.
At(c, statements) == Serving(c) /\ ~Finished(c) /\ Program(c)[at[c]] \in statements

-----------------------------------------------------------------------------
(***************************************************************************)
(* The handler                                                             *)
(***************************************************************************)
Receive(c) ==
  /\ ~Serving(c)
  /\ count < MaxRequests
  /\ \E s \in Script :
       req' = [req EXCEPT ![c] = [id |-> count + 1, script |-> s]]
  /\ count' = count + 1
  /\ UNCHANGED <<link, at, up, tables>>

\* The response is given; PG_CONN is all that stays.
Respond(c) ==
  /\ req' = [req EXCEPT ![c] = Null]
  /\ at' = [at EXCEPT ![c] = 1]
  /\ UNCHANGED <<up, count>>

\* All statements executed: 200, 201 or 204.
Return(c) ==
  /\ Serving(c)
  /\ Finished(c)
  /\ Respond(c)
  /\ done' = IF \E i \in DOMAIN req[c].script : req[c].script[i] = "w"
             THEN done \cup {req[c].id} ELSE done
  /\ UNCHANGED <<link, committed>>

MayReturnAnywhere(c) == at[c] > Len(InitDb)

\* Where a handler returns without its remaining statements: after init_db,
\* for a missing token, a body or a role that will not do; after a SELECT, for
\* a row that is not there or a ValueError; after the commit of an UPDATE that
\* found no row.
MayReturn(c) ==
  /\ at[c] > Len(InitDb)
  /\ Program(c)[at[c] - 1] # "w"

\* 4xx: the connection stays as it is, the transaction of its SELECTs included.
ReturnEarly(c) ==
  /\ Serving(c)
  /\ ~Finished(c)
  /\ MayReturn(c)
  /\ Respond(c)
  /\ UNCHANGED <<link, tables>>

KeptConnection(l) == l

\* reset_connection: nothing refers to the connection any more, psycopg
\* closes it and the server rolls back what it had open.
ResetConnection(l) == NoLink

RaiseIgnored(c, l) ==
  /\ link' = [link EXCEPT ![c] = l]
  /\ at' = [at EXCEPT ![c] = @ + 1]
  /\ UNCHANGED <<req, up, count, done>>

\* A statement raised, leaving connection l: the except block of init_db or of
\* the handler answers 500.
Raise(c, l) ==
  /\ link' = [link EXCEPT ![c] = ResetConnection(l)]
  /\ Respond(c)
  /\ done' = done

-----------------------------------------------------------------------------
(***************************************************************************)
(* get_connection and the statements                                       *)
(***************************************************************************)
Proceed(c, l) ==
  /\ link' = [link EXCEPT ![c] = l]
  /\ at' = [at EXCEPT ![c] = @ + 1]
  /\ UNCHANGED <<req, up, count, done>>

Usable(l) == l.status \notin {"none", "closed"}

\* get_connection: connect() when there is none or it is known to be closed.
\* The later calls of a request find the connection of the first one, for a
\* failure in between has ended the request.
Connect(c) ==
  /\ At(c, {"connect"})
  /\ \/ Usable(link[c]) /\ Proceed(c, link[c])
     \/ ~Usable(link[c]) /\ up /\ Proceed(c, Opened)
     \/ ~Usable(link[c]) /\ ~up /\ Raise(c, link[c])
  /\ UNCHANGED committed

\* The DDL, a SELECT, or a write that waits for the commit.
Execute(c) ==
  /\ At(c, {"d", "r", "w"})
  /\ link[c].status = "open"
  /\ link[c].tx # "aborted"
  /\ Proceed(c, [status |-> "open", tx |-> "open",
                 writes |-> link[c].writes \cup
                            (IF At(c, {"w"}) THEN {req[c].id} ELSE {})])
  /\ UNCHANGED committed

\* A statement the server refuses, and with it all of the transaction: a
\* constraint, a malformed uuid, two containers creating one table, or an
\* error earlier in the same transaction.
SqlError(c) ==
  /\ At(c, {"d", "r", "w"})
  /\ link[c].status = "open"
  /\ Raise(c, [link[c] EXCEPT !.tx = "aborted"])
  /\ UNCHANGED committed

\* What a COMMIT makes of the open transaction.
CommitWrites(l) ==
  committed' = IF l.tx = "aborted" THEN committed ELSE committed \cup l.writes

Commit(c) ==
  /\ At(c, {"c"})
  /\ link[c].status = "open"
  /\ CommitWrites(link[c])
  /\ Proceed(c, Opened)

\* The server commits and the connection breaks before the client knows.
CommitUnacknowledged(c) ==
  /\ At(c, {"c"})
  /\ link[c].status = "open"
  /\ CommitWrites(link[c])
  /\ Raise(c, Closed)

\* The server has dropped the connection since: OperationalError, and from
\* now on .closed is true.
StaleStatement(c) ==
  /\ At(c, {"d", "r", "w", "c"})
  /\ link[c].status = "stale"
  /\ Raise(c, Closed)
  /\ UNCHANGED committed

-----------------------------------------------------------------------------
(***************************************************************************)
(* The server and the platform                                             *)
(***************************************************************************)
Dropped(l) == IF l.status = "open" THEN [NoLink EXCEPT !.status = "stale"] ELSE l

\* The database restarts: every connection is gone, every open transaction
\* rolled back.
Outage ==
  /\ up
  /\ up' = FALSE
  /\ link' = [c \in Container |-> Dropped(link[c])]
  /\ UNCHANGED <<req, at, count, tables>>

ComeBack ==
  /\ ~up
  /\ up' = TRUE
  /\ UNCHANGED <<link, req, at, count, tables>>

\* Lambda ends a container: idle for too long, or after the 300 s timeout.
Recycle(c) ==
  /\ link' = [link EXCEPT ![c] = NoLink]
  /\ Respond(c)
  /\ UNCHANGED tables

Next ==
  \/ \E c \in Container :
       \/ Receive(c) \/ Return(c) \/ ReturnEarly(c)
       \/ Connect(c) \/ Execute(c) \/ SqlError(c) \/ Commit(c)
       \/ CommitUnacknowledged(c) \/ StaleStatement(c)
       \/ Recycle(c)
  \/ Outage \/ ComeBack

Spec == Init /\ [][Next]_vars

-----------------------------------------------------------------------------
(***************************************************************************)
(* Properties                                                              *)
(***************************************************************************)
\* Every variable has the type its declaration says; PG_CONN never refers to
\* a connection that is known to be closed.
TypeOK ==
  /\ link \in [Container -> [status : {"none", "open", "stale"},
                             tx : {"idle", "open", "aborted"},
                             writes : SUBSET Id]]
  /\ req \in [Container -> Request \cup {Null}]
  /\ at \in [Container -> Nat \ {0}]
  /\ up \in BOOLEAN
  /\ count \in 0 .. MaxRequests
  /\ committed \subseteq Id
  /\ done \subseteq Id

\* Between two requests a container's connection has no aborted transaction,
\* which the next init_db would trip over, and no uncommitted write, which
\* would hold its locks while the container is frozen.
IdleIsClean ==
  \A c \in Container :
    ~Serving(c) => link[c].tx # "aborted" /\ link[c].writes = {}

\* A request that was answered 2xx has its writes in the database, whatever
\* failed, restarted or was recycled on the way.
AcknowledgedIsCommitted == done \subseteq committed

\* A write is only ever committed by the request that made it: the commit of
\* init_db never completes what an earlier request left behind.
NothingLeaks ==
  [][committed' \ committed \subseteq
       {req[c].id : c \in {d \in Container : Serving(d)}}]_vars
=============================================================================
