------------------------------ MODULE Accounts ------------------------------
(***************************************************************************)
(* The auth service (src/backend/auth-service): registration, login and    *)
(* the verification of tokens, by concurrent containers over table users.  *)
(* One step per SQL statement, as in Deliverables.  A token is the id it   *)
(* was signed for; what a client presents is an issued token, or something *)
(* that fails verification (expired, or never issued).                     *)
(***************************************************************************)
EXTENDS Naturals

CONSTANTS
  Workers,
  Id,         \* the uuids the database may hand out (bounds the accounts)
  Address,    \* mail addresses
  Spelling,   \* ways to type one: letter case, spaces around it
  Lowercase,  \* the one that strip().lower() makes of all of them
  Password,
  Null

ASSUME LowercaseAssumption == Lowercase \in Spelling
ASSUME NullAssumption      == Null \notin Id

Email == Address \X Spelling
User == [id : Id, email : Email, password : Password]

Request == [op : {"register", "login"}, email : Email, password : Password]
      \cup [op : {"verify"}, sub : Id]

VARIABLES
  users,    \* the rows of table users
  issued,   \* the ids handed out so far
  tokens,   \* the subjects of the tokens clients have been given
  pc,       \* the statement each container executes next
  req,      \* the request it is serving
  tx,       \* its uncommitted INSERT: {} or {a user}
  reply     \* the response given by the last step, if that step gave one

vars == <<users, issued, tokens, pc, req, tx, reply>>

NoReply == [by |-> Null, code |-> "none"]

Init ==
  /\ users = {} /\ issued = {} /\ tokens = {}
  /\ pc = [w \in Workers |-> "idle"]
  /\ req = [w \in Workers |-> Null]
  /\ tx = [w \in Workers |-> {}]
  /\ reply = NoReply

-----------------------------------------------------------------------------
AnswerWithoutRollback(w, code) ==
  /\ pc' = [pc EXCEPT ![w] = "idle"]
  /\ req' = [req EXCEPT ![w] = Null]
  /\ tx' = tx
  /\ reply' = [by |-> w, code |-> code]

\* The handler returns; a transaction that was not committed is rolled back.
Answer(w, code) ==
  /\ pc' = [pc EXCEPT ![w] = "idle"]
  /\ req' = [req EXCEPT ![w] = Null]
  /\ tx' = [tx EXCEPT ![w] = {}]
  /\ reply' = [by |-> w, code |-> code]

AsTyped(email) == email

\* (body.get("email") or "").strip().lower(), on registration and on login.
RegisteredAs(email) == <<email[1], Lowercase>>
LoginAs(email) == <<email[1], Lowercase>>

FirstStatement(op) ==
  CASE op = "register" -> "select_register"
    [] op = "login"    -> "select_login"
    [] op = "verify"   -> "select_id"

\* The gateway hands over a request.  A missing field, a short password or an
\* unknown role is answered 400 without a statement, a token that does not
\* verify 401.
Receive(w) ==
  /\ pc[w] = "idle"
  /\ \E r \in Request :
       /\ r.op = "verify" => r.sub \in tokens
       /\ \/ /\ pc' = [pc EXCEPT ![w] = FirstStatement(r.op)]
             /\ req' = [req EXCEPT ![w] = r]
             /\ reply' = NoReply
             /\ UNCHANGED tx
          \/ Answer(w, IF r.op = "verify" THEN "401_token" ELSE "400")
  /\ UNCHANGED <<users, issued, tokens>>

\* get_user_by_email
Found(email) == {u \in users : u.email = email}

SelectForRegister(w) ==
  /\ pc[w] = "select_register"
  /\ \/ /\ Found(RegisteredAs(req[w].email)) # {}
        /\ Answer(w, "400_registered")
     \/ /\ Found(RegisteredAs(req[w].email)) = {}
        /\ pc' = [pc EXCEPT ![w] = "insert"]
        /\ reply' = NoReply
        /\ UNCHANGED <<req, tx>>
  /\ UNCHANGED <<users, issued, tokens>>

\* create_user.  UNIQUE (email): the INSERT waits for another container's
\* uncommitted row with the same address, and is an error once that is there.
Insert(w) ==
  LET email == RegisteredAs(req[w].email) IN
  /\ pc[w] = "insert"
  /\ \A v \in Workers \ {w} : \A u \in tx[v] : u.email # email
  /\ \/ /\ Found(email) # {}
        /\ Answer(w, "500_unique")
        /\ issued' = issued
     \/ /\ Found(email) = {}
        /\ pc' = [pc EXCEPT ![w] = "commit"]
        /\ reply' = NoReply
        /\ req' = req
        /\ \E id \in Id \ issued :
             /\ issued' = issued \cup {id}
             /\ tx' = [tx EXCEPT ![w] =
                         {[id |-> id, email |-> email, password |-> req[w].password]}]
  /\ UNCHANGED <<users, tokens>>

CommitForgotten(w) == users' = users
CommitUser(w) == users' = users \cup tx[w]

\* The commit, generate_token and the answer 201.
Commit(w) ==
  /\ pc[w] = "commit"
  /\ CommitUser(w)
  /\ tokens' = tokens \cup {u.id : u \in tx[w]}
  /\ Answer(w, "201")
  /\ UNCHANGED issued

SelectForLogin(w) ==
  LET match == {u \in Found(LoginAs(req[w].email)) : u.password = req[w].password} IN
  /\ pc[w] = "select_login"
  /\ Answer(w, IF match = {} THEN "401_login" ELSE "200")
  /\ tokens' = tokens \cup {u.id : u \in match}
  /\ UNCHANGED <<users, issued>>

\* verify: get_user_by_id
SelectById(w) ==
  /\ pc[w] = "select_id"
  /\ Answer(w, IF \E u \in users : u.id = req[w].sub THEN "200" ELSE "404")
  /\ UNCHANGED <<users, issued, tokens>>

\* The server commits, the client learns of an error only.
CommitUnacknowledged(w) ==
  /\ pc[w] = "commit"
  /\ CommitUser(w)
  /\ Answer(w, "500")
  /\ UNCHANGED <<issued, tokens>>

\* A statement, the connection or the container fails: rollback.
Fail(w) ==
  /\ pc[w] # "idle"
  /\ Answer(w, "500")
  /\ UNCHANGED <<users, issued, tokens>>

Next == \E w \in Workers :
  \/ Receive(w)
  \/ SelectForRegister(w) \/ Insert(w) \/ Commit(w)
  \/ SelectForLogin(w) \/ SelectById(w)
  \/ CommitUnacknowledged(w) \/ Fail(w)

Spec == Init /\ [][Next]_vars

-----------------------------------------------------------------------------
(***************************************************************************)
(* Properties                                                              *)
(***************************************************************************)
Label == {"idle", "select_register", "insert", "commit", "select_login", "select_id"}
Code == {"none", "200", "201", "400", "400_registered", "401_login", "401_token",
         "404", "500", "500_unique"}

\* Every variable has the type its declaration says, and only a container
\* that is registering an account is on its way to an INSERT.
TypeOK ==
  /\ users \subseteq User
  /\ issued \subseteq Id
  /\ tokens \subseteq Id
  /\ pc \in [Workers -> Label]
  /\ req \in [Workers -> Request \cup {Null}]
  /\ \A w \in Workers : pc[w] # "idle" => req[w] \in Request
  /\ \A w \in Workers : pc[w] \in {"select_register", "insert", "commit"}
                          => req[w].op = "register"
  /\ \A w \in Workers : pc[w] = "select_login" => req[w].op = "login"
  /\ \A w \in Workers : pc[w] = "select_id" => req[w].op = "verify"
  /\ tx \in [Workers -> SUBSET User]
  /\ \A w \in Workers : tx[w] # {} => pc[w] = "commit"
  /\ reply \in [by : Workers \cup {Null}, code : Code]

\* However it is typed, a mail address has one account: the check and the
\* INSERT are two statements (function.py:119-122), and only their common
\* normal form makes UNIQUE (email) mean this.
OneAccountPerAddress ==
  \A u, v \in users : u.email[1] = v.email[1] => u = v

\* A token that was given out names an account that is in the database, so
\* that verify never answers "User not found" (function.py:146-148).
TokensNameAccounts == \A id \in tokens : \E u \in users : u.id = id

\* Nobody is told "Invalid email or password" who has an account for that
\* address, in whatever spelling, with that password.
LoginRefusedOnlyIfWrong ==
  [][\A w \in Workers :
       (reply'.by = w /\ reply'.code = "401_login") =>
         \A u \in users : ~(/\ u.email[1] = req[w].email[1]
                            /\ u.password = req[w].password)]_vars
=============================================================================
