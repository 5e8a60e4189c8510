------------------------ MODULE WarmConnectionProofs ------------------------
(***************************************************************************)
(* Proofs about WarmConnection: for any number of containers and requests  *)
(* and any scripts that commit what they write.                            *)
(***************************************************************************)
EXTENDS WarmConnection, TLAPS

Statement == {"connect", "d", "r", "w", "c"}
Whole(s) == InitDb \o s

\* An uncommitted write is the last thing the current request did, or is lost
\* together with its connection; and no transaction that outlives a step is
\* aborted.
Tracked(c) ==
  /\ link[c].tx # "aborted"
  /\ ~Serving(c) => at[c] = 1 /\ link[c].writes = {}
  /\ Serving(c) =>
       /\ at[c] <= Len(Program(c)) + 1
       /\ link[c].writes \subseteq {req[c].id}
       /\ link[c].writes # {} => at[c] > 1 /\ Program(c)[at[c] - 1] = "w"
       /\ \A i \in 1 .. (at[c] - 1) :
            Program(c)[i] = "w" =>
              \/ req[c].id \in committed
              \/ /\ Program(c)[at[c] - 1] = "w"
                 /\ link[c].status = "open" => req[c].id \in link[c].writes

IInv == TypeOK /\ done \subseteq committed /\ \A c \in Container : Tracked(c)

-----------------------------------------------------------------------------
\* The statements of a request: init_db's come first and are no writes, and a
\* write is followed by a write or a commit.
LEMMA WholeProgram ==
  ASSUME NEW s \in Script
  PROVE  /\ Whole(s) \in Seq(Statement)
         /\ Len(Whole(s)) = Len(s) + 3
         /\ \A i \in 1 .. Len(Whole(s)) :
              Whole(s)[i] = "w" => /\ i + 1 <= Len(Whole(s))
                                   /\ Whole(s)[i + 1] \in {"w", "c"}
         /\ \A i \in 1 .. Len(Whole(s)) : Whole(s)[i] = "connect" => i = 1
         /\ \A i \in DOMAIN s : s[i] = Whole(s)[i + 3]
<1>1. s \in Seq({"r", "w", "c"})
  BY ScriptAssumption
<1>2. \A i \in DOMAIN s : s[i] = "w" => i + 1 \in DOMAIN s /\ s[i + 1] \in {"w", "c"}
  BY WritesCommitted
<1>3. Whole(s) \in Seq(Statement) /\ Len(Whole(s)) = Len(s) + 3
  BY <1>1 DEF Whole, InitDb, Statement
<1>4. /\ Whole(s)[1] = "connect" /\ Whole(s)[2] = "d" /\ Whole(s)[3] = "c"
      /\ \A i \in 4 .. Len(s) + 3 : Whole(s)[i] = s[i - 3]
  BY <1>1 DEF Whole, InitDb
<1>5. DOMAIN s = 1 .. Len(s) /\ Len(s) \in Nat /\ \A i \in 1 .. Len(s) : s[i] \in {"r", "w", "c"}
  BY <1>1
<1>6. ASSUME NEW i \in 1 .. Len(Whole(s)), Whole(s)[i] = "w"
      PROVE  i + 1 <= Len(Whole(s)) /\ Whole(s)[i + 1] \in {"w", "c"}
  <2>1. i \in 4 .. Len(s) + 3
    BY <1>3, <1>4, <1>5, <1>6
  <2>2. s[i - 3] = "w" /\ i - 3 \in DOMAIN s
    BY <2>1, <1>4, <1>5, <1>6
  <2>3. i - 2 \in DOMAIN s /\ s[i - 2] \in {"w", "c"}
    <3>1. (i - 3) + 1 \in DOMAIN s /\ s[(i - 3) + 1] \in {"w", "c"}
      BY <2>2, <1>2
    <3> QED BY <3>1
  <2>4. i + 1 \in 4 .. Len(s) + 3 /\ Whole(s)[i + 1] = s[(i + 1) - 3]
    BY <2>3, <1>4, <1>5
  <2> QED BY <2>3, <2>4, <1>3
<1>7. ASSUME NEW i \in 1 .. Len(Whole(s)), Whole(s)[i] = "connect"
      PROVE  i = 1
  BY <1>3, <1>4, <1>5, <1>7
<1>8. \A i \in DOMAIN s : s[i] = Whole(s)[i + 3]
  BY <1>4, <1>5
<1> QED BY <1>3, <1>6, <1>7, <1>8

-----------------------------------------------------------------------------
LEMMA InitTracks == Init => IInv
<1> SUFFICES ASSUME Init PROVE IInv
  OBVIOUS
<1>1. TypeOK
  BY MaxAssumption DEF Init, TypeOK, NoLink
<1>2. done \subseteq committed /\ \A c \in Container : Tracked(c)
  BY DEF Init, Tracked, Serving, NoLink
<1> QED BY <1>1, <1>2 DEF IInv

\* What a step of container c has to show about c and about the rest.
LEMMA OneContainer ==
  ASSUME IInv, NEW c \in Container,
         TypeOK', done' \subseteq committed', committed \subseteq committed',
         \A d \in Container \ {c} :
           link'[d] = link[d] /\ req'[d] = req[d] /\ at'[d] = at[d],
         Tracked(c)'
  PROVE  IInv'
<1>1. ASSUME NEW d \in Container, d # c
      PROVE  Tracked(d)'
  <2>1. Tracked(d)
    BY DEF IInv
  <2>2. link'[d] = link[d] /\ req'[d] = req[d] /\ at'[d] = at[d]
    BY <1>1
  <2> QED BY <2>1, <2>2 DEF Tracked, Serving, Program
<1> QED BY <1>1 DEF IInv

\* A response leaves a connection that is not aborted and has no writes.
LEMMA Responds ==
  ASSUME IInv, NEW c \in Container, NEW l,
         Respond(c), link' = [link EXCEPT ![c] = l],
         l \in [status : {"none", "open", "stale"}, tx : {"idle", "open"}, writes : {{}}],
         committed \subseteq committed', committed' \subseteq Id,
         done' \subseteq committed', done' \subseteq Id
  PROVE  IInv'
<1>1. TypeOK'
  BY DEF IInv, TypeOK, Respond
<1>2. Tracked(c)'
  BY DEF IInv, TypeOK, Respond, Tracked, Serving
<1>3. \A d \in Container \ {c} :
        link'[d] = link[d] /\ req'[d] = req[d] /\ at'[d] = at[d]
  BY DEF IInv, TypeOK, Respond
<1> QED BY <1>1, <1>2, <1>3, OneContainer

LEMMA Raises ==
  ASSUME IInv, NEW c \in Container, NEW l, Raise(c, l),
         committed \subseteq committed', committed' \subseteq Id
  PROVE  IInv'
<1>1. NoLink \in [status : {"none", "open", "stale"}, tx : {"idle", "open"}, writes : {{}}]
  BY DEF NoLink
<1>2. link' = [link EXCEPT ![c] = NoLink] /\ Respond(c) /\ done' = done
  BY DEF Raise, ResetConnection
<1>3. done' \subseteq committed' /\ done' \subseteq Id
  BY <1>2 DEF IInv, TypeOK
<1> QED BY <1>1, <1>2, <1>3, Responds

\* What is known of a container that is serving a request.
LEMMA InService ==
  ASSUME IInv, NEW c \in Container, Serving(c)
  PROVE  /\ req[c] \in Request
         /\ Program(c) = Whole(req[c].script) /\ req[c].script \in Script
         /\ at[c] \in 1 .. Len(Program(c)) + 1
         /\ link[c] \in [status : {"none", "open", "stale"},
                         tx : {"idle", "open"}, writes : SUBSET {req[c].id}]
         /\ Tracked(c)
<1>1. req[c] \in Request
  BY DEF IInv, TypeOK, Serving
<1>2. Len(Whole(req[c].script)) \in Nat
  BY <1>1, WholeProgram DEF Request
<1> QED BY <1>1, <1>2 DEF IInv, TypeOK, Tracked, Request, Program, Whole

\* A statement that succeeds.
LEMMA Proceeds ==
  ASSUME IInv, NEW c \in Container, Serving(c), ~Finished(c),
         NEW l \in [status : {"none", "open", "stale"},
                    tx : {"idle", "open"}, writes : SUBSET {req[c].id}],
         Proceed(c, l),
         committed \subseteq committed', committed' \subseteq Id,
         l.writes # {} => Program(c)[at[c]] = "w",
         Program(c)[at[c]] = "w" => (l.status = "open" => req[c].id \in l.writes),
         at[c] > 1 /\ Program(c)[at[c] - 1] = "w" /\ Program(c)[at[c]] # "w" =>
           req[c].id \in committed'
  PROVE  IInv'
<1> DEFINE p == Program(c)
<1>1. /\ req[c] \in Request /\ p = Whole(req[c].script) /\ req[c].script \in Script
      /\ at[c] \in 1 .. Len(p) + 1 /\ Tracked(c)
  BY InService
<1>2. p \in Seq(Statement) /\ Len(p) \in Nat
  BY <1>1, WholeProgram
<1>3. at[c] \in 1 .. Len(p)
  BY <1>1, <1>2 DEF Finished
<1>4. /\ link' = [link EXCEPT ![c] = l] /\ at' = [at EXCEPT ![c] = @ + 1]
      /\ req' = req /\ up' = up /\ count' = count /\ done' = done
  BY DEF Proceed
<1>5. link'[c] = l /\ at'[c] = at[c] + 1 /\ req'[c] = req[c]
  BY <1>4 DEF IInv, TypeOK
<1>6. TypeOK'
  BY <1>1, <1>4 DEF IInv, TypeOK, Request
<1>7. done' \subseteq committed'
  BY <1>4 DEF IInv
<1>8. Program(c)' = p /\ Serving(c)'
  BY <1>5 DEF Program, Serving
<1>9. ASSUME NEW i \in 1 .. at[c], p[i] = "w"
      PROVE  \/ req[c].id \in committed'
             \/ p[at[c]] = "w" /\ (l.status = "open" => req[c].id \in l.writes)
  <2>1. CASE p[at[c]] = "w"
    BY <2>1
  <2>2. CASE p[at[c]] # "w"
    <3>1. i \in 1 .. at[c] - 1
      BY <1>3, <1>9, <2>2
    <3>2. req[c].id \in committed \/ p[at[c] - 1] = "w"
      BY <3>1, <1>1, <1>9 DEF Tracked
    <3> QED BY <3>1, <3>2, <2>2, <1>3
  <2> QED BY <2>1, <2>2
<1>10. Tracked(c)'
  <2>1. (at[c] + 1) - 1 = at[c] /\ at[c] + 1 > 1 /\ at[c] + 1 <= Len(p) + 1
    BY <1>2, <1>3
  <2>2. link[c]'.tx # "aborted" /\ link[c]'.writes \subseteq {req[c].id}
    BY <1>5
  <2> QED BY <2>1, <2>2, <1>5, <1>8, <1>9 DEF Tracked
<1>11. \A d \in Container \ {c} :
         link'[d] = link[d] /\ req'[d] = req[d] /\ at'[d] = at[d]
  BY <1>4 DEF IInv, TypeOK
<1> QED BY <1>6, <1>7, <1>10, <1>11, OneContainer

LEMMA ConnectTracks == ASSUME IInv, NEW c \in Container, Connect(c) PROVE IInv'
<1> USE DEF Connect, At
<1>1. /\ Program(c) = Whole(req[c].script) /\ req[c].script \in Script
      /\ at[c] \in 1 .. Len(Program(c)) + 1
      /\ link[c] \in [status : {"none", "open", "stale"},
                      tx : {"idle", "open"}, writes : SUBSET {req[c].id}]
      /\ Tracked(c)
  BY InService
<1>2. Program(c) \in Seq(Statement) /\ Len(Program(c)) \in Nat
  BY <1>1, WholeProgram
<1>3. at[c] = 1 /\ Program(c)[at[c]] = "connect"
  BY <1>1, <1>2, WholeProgram DEF Finished
<1>4. committed \subseteq committed' /\ committed' \subseteq Id
  BY DEF IInv, TypeOK
<1>5. link[c].writes = {}
  BY <1>1, <1>3 DEF Tracked
<1>6. CASE Usable(link[c]) /\ Proceed(c, link[c])
  BY <1>1, <1>3, <1>4, <1>5, <1>6, Proceeds
<1>7. CASE ~Usable(link[c]) /\ up /\ Proceed(c, Opened)
  <2>1. Opened \in [status : {"none", "open", "stale"}, tx : {"idle", "open"},
                    writes : SUBSET {req[c].id}] /\ Opened.writes = {}
    BY DEF Opened, NoLink
  <2> QED BY <1>3, <1>4, <1>7, <2>1, Proceeds
<1>8. CASE ~Usable(link[c]) /\ ~up /\ Raise(c, link[c])
  BY <1>4, <1>8, Raises
<1> QED BY <1>6, <1>7, <1>8

LEMMA ExecuteTracks == ASSUME IInv, NEW c \in Container, Execute(c) PROVE IInv'
<1> USE DEF Execute, At
<1> DEFINE l == [status |-> "open", tx |-> "open",
                 writes |-> link[c].writes \cup
                            (IF At(c, {"w"}) THEN {req[c].id} ELSE {})]
<1>1. /\ Program(c) = Whole(req[c].script) /\ req[c].script \in Script
      /\ at[c] \in 1 .. Len(Program(c)) + 1
      /\ link[c] \in [status : {"none", "open", "stale"},
                      tx : {"idle", "open"}, writes : SUBSET {req[c].id}]
      /\ Tracked(c)
  BY InService
<1>2. Program(c) \in Seq(Statement) /\ Len(Program(c)) \in Nat
  BY <1>1, WholeProgram
<1>3. at[c] \in 1 .. Len(Program(c)) /\ Program(c)[at[c]] \in {"d", "r", "w"}
  BY <1>1, <1>2 DEF Finished
<1>4. at[c] > 1 /\ Program(c)[at[c] - 1] = "w" => Program(c)[at[c]] = "w"
  <2> SUFFICES ASSUME at[c] > 1, Program(c)[at[c] - 1] = "w"
               PROVE  Program(c)[at[c]] = "w"
    OBVIOUS
  <2>1. at[c] - 1 \in 1 .. Len(Program(c)) /\ (at[c] - 1) + 1 = at[c]
    BY <1>2, <1>3
  <2>2. Program(c)[(at[c] - 1) + 1] \in {"w", "c"}
    BY <1>1, <2>1, WholeProgram
  <2> QED BY <1>3, <2>1, <2>2
<1>5. committed \subseteq committed' /\ committed' \subseteq Id
  BY DEF IInv, TypeOK
<1>6. l \in [status : {"none", "open", "stale"}, tx : {"idle", "open"},
             writes : SUBSET {req[c].id}]
  BY <1>1
<1>7. l.writes # {} => Program(c)[at[c]] = "w"
  BY <1>1, <1>4 DEF Tracked
<1>8. Program(c)[at[c]] = "w" => req[c].id \in l.writes
  BY <1>3 DEF Finished
<1>9. Proceed(c, l) /\ Serving(c) /\ ~Finished(c)
  OBVIOUS
<1> HIDE DEF l
<1> QED BY <1>4, <1>5, <1>6, <1>7, <1>8, <1>9, Proceeds

LEMMA CommitTracks == ASSUME IInv, NEW c \in Container, Commit(c) PROVE IInv'
<1> USE DEF Commit, At, CommitWrites
<1>1. /\ Program(c) = Whole(req[c].script) /\ req[c].script \in Script
      /\ at[c] \in 1 .. Len(Program(c)) + 1 /\ req[c] \in Request
      /\ link[c] \in [status : {"none", "open", "stale"},
                      tx : {"idle", "open"}, writes : SUBSET {req[c].id}]
      /\ Tracked(c)
  BY InService
<1>2. committed' = committed \cup link[c].writes
  BY <1>1
<1>3. committed \subseteq committed' /\ committed' \subseteq Id
  BY <1>1, <1>2 DEF IInv, TypeOK, Request
<1>4. Program(c)[at[c]] = "c"
  OBVIOUS
<1>5. at[c] > 1 /\ Program(c)[at[c] - 1] = "w" => req[c].id \in committed'
  <2> SUFFICES ASSUME at[c] > 1, Program(c)[at[c] - 1] = "w"
               PROVE  req[c].id \in committed'
    OBVIOUS
  <2>1. at[c] - 1 \in 1 .. (at[c] - 1)
    BY <1>1
  <2>2. req[c].id \in committed \/ req[c].id \in link[c].writes
    BY <1>1, <2>1 DEF Tracked
  <2> QED BY <1>2, <2>2
<1>6. Opened \in [status : {"none", "open", "stale"}, tx : {"idle", "open"},
                  writes : SUBSET {req[c].id}] /\ Opened.writes = {}
  BY DEF Opened, NoLink
<1> QED BY <1>3, <1>4, <1>5, <1>6, Proceeds

LEMMA CommitUnacknowledgedTracks ==
  ASSUME IInv, NEW c \in Container, CommitUnacknowledged(c) PROVE IInv'
<1> USE DEF CommitUnacknowledged, At, CommitWrites
<1>1. committed' = committed \/ committed' = committed \cup link[c].writes
  OBVIOUS
<1>2. committed \subseteq committed' /\ committed' \subseteq Id
  BY <1>1 DEF IInv, TypeOK
<1> QED BY <1>2, Raises

LEMMA ReturnTracks == ASSUME IInv, NEW c \in Container, Return(c) PROVE IInv'
<1> USE DEF Return
<1>1. /\ Program(c) = Whole(req[c].script) /\ req[c].script \in Script
      /\ at[c] \in 1 .. Len(Program(c)) + 1 /\ req[c] \in Request
      /\ link[c] \in [status : {"none", "open", "stale"},
                      tx : {"idle", "open"}, writes : SUBSET {req[c].id}]
      /\ Tracked(c)
  BY InService
<1>2. Program(c) \in Seq(Statement) /\ Len(Program(c)) = Len(req[c].script) + 3
  BY <1>1, WholeProgram
<1>3. at[c] = Len(Program(c)) + 1
  BY <1>1, <1>2 DEF Finished
<1>4. at[c] > 1 /\ Program(c)[at[c] - 1] # "w"
  <2>1. at[c] - 1 \in 1 .. Len(Program(c))
    BY <1>1, <1>2, <1>3, ScriptAssumption
  <2> QED BY <1>1, <1>2, <1>3, <2>1, WholeProgram
<1>5. ASSUME NEW i \in DOMAIN req[c].script, req[c].script[i] = "w"
      PROVE  req[c].id \in committed
  <2>1. req[c].script \in Seq({"r", "w", "c"})
    BY <1>1, ScriptAssumption
  <2>2. i + 3 \in 1 .. (at[c] - 1)
    BY <1>2, <1>3, <2>1
  <2>3. Program(c)[i + 3] = "w"
    BY <1>1, <1>5, WholeProgram
  <2> QED BY <1>1, <1>4, <2>2, <2>3 DEF Tracked
<1>6. done' \subseteq committed' /\ committed' = committed
  BY <1>5 DEF IInv
<1>7. link[c].writes = {}
  BY <1>1, <1>4 DEF Tracked
<1>8. link' = [link EXCEPT ![c] = link[c]]
  BY DEF IInv, TypeOK
<1>9. committed' \subseteq Id
  BY <1>6 DEF IInv, TypeOK
<1> QED BY <1>1, <1>6, <1>7, <1>8, <1>9, Responds

LEMMA ReturnEarlyTracks == ASSUME IInv, NEW c \in Container, ReturnEarly(c) PROVE IInv'
<1> USE DEF ReturnEarly, MayReturn
<1>1. /\ link[c] \in [status : {"none", "open", "stale"},
                      tx : {"idle", "open"}, writes : SUBSET {req[c].id}]
      /\ Tracked(c)
  BY InService
<1>2. link[c].writes = {}
  BY <1>1 DEF Tracked
<1>3. link' = [link EXCEPT ![c] = link[c]]
  BY DEF IInv, TypeOK
<1>4. committed' = committed /\ done' = done /\ done \subseteq committed /\ committed \subseteq Id
  BY DEF IInv, TypeOK, tables
<1> QED BY <1>1, <1>2, <1>3, <1>4, Responds

LEMMA ReceiveTracks == ASSUME IInv, NEW c \in Container, Receive(c) PROVE IInv'
<1>1. PICK s \in Script : req' = [req EXCEPT ![c] = [id |-> count + 1, script |-> s]]
  BY DEF Receive
<1>2. count' = count + 1 /\ count + 1 \in Id
      /\ link' = link /\ at' = at /\ up' = up /\ committed' = committed /\ done' = done
  BY MaxAssumption DEF Receive, IInv, TypeOK, tables, Id
<1>3. [id |-> count + 1, script |-> s] \in Request
  BY <1>2 DEF Request
<1>4. TypeOK'
  BY <1>1, <1>2, <1>3, MaxAssumption DEF IInv, TypeOK, Id
<1>5. req'[c] = [id |-> count + 1, script |-> s] /\ Program(c)' = Whole(s)
  BY <1>1 DEF IInv, TypeOK, Program, Whole
<1>6. Len(Whole(s)) \in Nat
  BY WholeProgram
<1>7. at[c] = 1 /\ link[c].writes = {} /\ link[c].tx # "aborted"
  BY DEF Receive, IInv, Tracked
<1>8. Tracked(c)'
  BY <1>2, <1>5, <1>6, <1>7 DEF Tracked
<1>9. \A d \in Container \ {c} :
        link'[d] = link[d] /\ req'[d] = req[d] /\ at'[d] = at[d]
  BY <1>1, <1>2 DEF IInv, TypeOK
<1>10. done' \subseteq committed' /\ committed \subseteq committed'
  BY <1>2 DEF IInv
<1> QED BY <1>4, <1>8, <1>9, <1>10, OneContainer

LEMMA FailureTracks ==
  ASSUME IInv, NEW c \in Container, SqlError(c) \/ StaleStatement(c)
  PROVE  IInv'
<1>1. committed \subseteq committed' /\ committed' \subseteq Id
  BY DEF IInv, TypeOK, SqlError, StaleStatement
<1>2. CASE SqlError(c)
  BY <1>1, <1>2, Raises DEF SqlError
<1>3. CASE StaleStatement(c)
  BY <1>1, <1>3, Raises DEF StaleStatement
<1> QED BY <1>2, <1>3

LEMMA RecycleTracks == ASSUME IInv, NEW c \in Container, Recycle(c) PROVE IInv'
<1>1. NoLink \in [status : {"none", "open", "stale"}, tx : {"idle", "open"}, writes : {{}}]
  BY DEF NoLink
<1>2. committed' = committed /\ done' = done /\ done \subseteq committed /\ committed \subseteq Id
  BY DEF IInv, TypeOK, Recycle, tables
<1>3. Respond(c) /\ link' = [link EXCEPT ![c] = NoLink]
  BY DEF Recycle
<1> QED BY <1>1, <1>2, <1>3, Responds

LEMMA OutageTracks == ASSUME IInv, Outage PROVE IInv'
<1>1. /\ req' = req /\ at' = at /\ count' = count /\ up' = FALSE
      /\ committed' = committed /\ done' = done
  BY DEF Outage, tables
<1>2. \A c \in Container : link'[c] = Dropped(link[c])
  BY DEF Outage
<1>3. TypeOK'
  BY <1>1 DEF Outage, IInv, TypeOK, Dropped, NoLink
<1>4. ASSUME NEW c \in Container
      PROVE  Tracked(c)'
  <2>1. CASE link[c].status = "open"
    <3>1. /\ link'[c].status = "stale" /\ link'[c].tx = "idle" /\ link'[c].writes = {}
      BY <1>2, <2>1 DEF Dropped, NoLink
    <3> QED BY <1>1, <3>1 DEF IInv, Tracked, Serving, Program
  <2>2. CASE link[c].status # "open"
    <3>1. link'[c] = link[c]
      BY <1>2, <2>2 DEF Dropped
    <3> QED BY <1>1, <3>1 DEF IInv, Tracked, Serving, Program
  <2> QED BY <2>1, <2>2
<1> QED BY <1>1, <1>3, <1>4 DEF IInv

LEMMA ComeBackTracks == ASSUME IInv, ComeBack PROVE IInv'
  BY DEF IInv, TypeOK, ComeBack, Tracked, Serving, Program, tables

LEMMA StutterTracks == ASSUME IInv, UNCHANGED vars PROVE IInv'
  BY DEF IInv, TypeOK, Tracked, Serving, Program, vars, tables

LEMMA StepTracks == ASSUME IInv, [Next]_vars PROVE IInv'
<1>1. CASE Outage
  BY <1>1, OutageTracks
<1>2. CASE ComeBack
  BY <1>2, ComeBackTracks
<1>3. CASE UNCHANGED vars
  BY <1>3, StutterTracks
<1>4. ASSUME NEW c \in Container,
             \/ Receive(c) \/ Return(c) \/ ReturnEarly(c)
             \/ Connect(c) \/ Execute(c) \/ SqlError(c) \/ Commit(c)
             \/ CommitUnacknowledged(c) \/ StaleStatement(c)
             \/ Recycle(c)
      PROVE  IInv'
  BY <1>4, ReceiveTracks, ReturnTracks, ReturnEarlyTracks, ConnectTracks,
     ExecuteTracks, FailureTracks, CommitTracks, CommitUnacknowledgedTracks,
     RecycleTracks
<1> QED BY <1>1, <1>2, <1>3, <1>4 DEF Next

LEMMA Tracks == Spec => []IInv
  BY InitTracks, StepTracks, PTL DEF Spec

-----------------------------------------------------------------------------
\* Every variable always has its type, and PG_CONN is never left pointing at a
\* connection known to be closed.
THEOREM TypeCorrect == Spec => []TypeOK
<1>1. IInv => TypeOK
  BY DEF IInv
<1> QED BY <1>1, Tracks, PTL

\* get_connection, reset_connection and the two except blocks are enough for
\* every request to start on a connection with nothing left over.
THEOREM StartsClean == Spec => []IdleIsClean
<1>1. IInv => IdleIsClean
  BY DEF IInv, IdleIsClean, Tracked
<1> QED BY <1>1, Tracks, PTL

\* A 2xx answer to a writing request is never given for nothing.
THEOREM Durable == Spec => []AcknowledgedIsCommitted
<1>1. IInv => AcknowledgedIsCommitted
  BY DEF IInv, AcknowledgedIsCommitted
<1> QED BY <1>1, Tracks, PTL

\* No commit ever completes what another request left behind.
THEOREM NoLeak == Spec => NothingLeaks
<1> DEFINE Own == committed' \ committed \subseteq
                    {req[c].id : c \in {d \in Container : Serving(d)}}
<1>1. ASSUME IInv, [Next]_vars
      PROVE  Own
  <2>1. CASE committed' = committed
    BY <2>1
  <2>2. ASSUME NEW c \in Container, Serving(c), CommitWrites(link[c])
        PROVE  Own
    <3>1. link[c].writes \subseteq {req[c].id}
      BY <1>1, <2>2 DEF IInv, Tracked
    <3> QED BY <2>2, <3>1 DEF CommitWrites
  <2>3. \/ committed' = committed
        \/ \E c \in Container : Commit(c) \/ CommitUnacknowledged(c)
    BY <1>1 DEF Next, vars, tables, Receive, Return, ReturnEarly, Connect,
         Execute, SqlError, StaleStatement, Recycle, Outage, ComeBack
  <2> QED BY <2>1, <2>2, <2>3 DEF Commit, CommitUnacknowledged, At
<1>2. IInv /\ [Next]_vars => [Own]_vars
  BY <1>1
<1> QED BY <1>2, Tracks, PTL DEF Spec, NothingLeaks
=============================================================================
