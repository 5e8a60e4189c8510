--------------------------- MODULE AccountsProofs ---------------------------
(***************************************************************************)
(* Proofs about Accounts: for any number of containers, addresses,         *)
(* spellings and passwords.                                                *)
(***************************************************************************)
EXTENDS Accounts, TLAPS

\* No two accounts share an address, and every stored one is in normal form.
Distinct(rows) ==
  /\ \A u \in rows : u.email[2] = Lowercase
  /\ \A u, v \in rows : u.email = v.email => u = v

\* An uncommitted address is in normal form too, is not stored, and no other
\* container holds it: what UNIQUE (email) with its lock maintains.
Reserved ==
  \A w \in Workers : \A u \in tx[w] :
    /\ u.email[2] = Lowercase
    /\ \A x \in users : x.email # u.email
    /\ \A v \in Workers : \A x \in tx[v] : x.email = u.email => v = w /\ x = u

IInv == TypeOK /\ Distinct(users) /\ Reserved

-----------------------------------------------------------------------------
LEMMA InitSound == Init => IInv
<1> SUFFICES ASSUME Init PROVE IInv
  OBVIOUS
<1>1. TypeOK
  BY DEF Init, TypeOK, NoReply, Label, Code
<1>2. Distinct(users) /\ Reserved
  BY DEF Init, Distinct, Reserved
<1> QED BY <1>1, <1>2 DEF IInv

\* A request that ends without writing loses its uncommitted row, if any.
LEMMA Ends ==
  ASSUME IInv, NEW w \in Workers, NEW code \in Code, Answer(w, code),
         users' = users, issued' \subseteq Id, tokens' \subseteq Id
  PROVE  IInv'
<1>1. TypeOK'
  BY DEF IInv, TypeOK, Answer, Label
<1>2. \A v \in Workers : tx'[v] \subseteq tx[v]
  BY DEF IInv, TypeOK, Answer
<1>3. Distinct(users)'
  BY DEF IInv, Distinct
<1>4. Reserved'
  BY <1>2 DEF IInv, Reserved
<1> QED BY <1>1, <1>3, <1>4 DEF IInv

\* A commit makes rows of the uncommitted ones of its container, which held
\* their addresses since the INSERT.
LEMMA Commits ==
  ASSUME IInv, NEW w \in Workers, NEW code \in Code, Answer(w, code),
         CommitUser(w), issued' \subseteq Id, tokens' \subseteq Id
  PROVE  IInv'
<1>1. users' = users \cup tx[w] /\ tx[w] \subseteq User
  BY DEF CommitUser, IInv, TypeOK
<1>2. tx' = [v \in Workers |-> IF v = w THEN {} ELSE tx[v]]
  BY DEF IInv, TypeOK, Answer
<1>3. TypeOK'
  BY <1>1 DEF IInv, TypeOK, Answer, Label
<1>4. Distinct(users)'
  BY <1>1 DEF IInv, Distinct, Reserved
<1>5. Reserved'
  BY <1>1, <1>2 DEF IInv, Reserved
<1> QED BY <1>3, <1>4, <1>5 DEF IInv

\* A statement that neither writes nor answers.
LEMMA Moves ==
  ASSUME IInv, NEW w \in Workers, TypeOK', users' = users, tx' = tx
  PROVE  IInv'
BY DEF IInv, Distinct, Reserved

LEMMA ReceiveKeeps ==
  ASSUME IInv, NEW w \in Workers, Receive(w)
  PROVE  IInv'
<1> PICK r \in Request :
      \/ /\ pc[w] = "idle" /\ r.op = "verify" => r.sub \in tokens
         /\ pc' = [pc EXCEPT ![w] = FirstStatement(r.op)]
         /\ req' = [req EXCEPT ![w] = r]
         /\ reply' = NoReply
         /\ tx' = tx
      \/ Answer(w, IF r.op = "verify" THEN "401_token" ELSE "400")
  BY DEF Receive
<1>1. users' = users /\ issued' = issued /\ tokens' = tokens /\ pc[w] = "idle"
  BY DEF Receive
<1>2. issued' \subseteq Id /\ tokens' \subseteq Id
  BY <1>1 DEF IInv, TypeOK
<1>3. CASE Answer(w, IF r.op = "verify" THEN "401_token" ELSE "400")
  <2>1. (IF r.op = "verify" THEN "401_token" ELSE "400") \in Code
    BY DEF Code
  <2> QED BY <1>1, <1>2, <1>3, <2>1, Ends
<1>4. CASE /\ pc' = [pc EXCEPT ![w] = FirstStatement(r.op)]
           /\ req' = [req EXCEPT ![w] = r]
           /\ reply' = NoReply
           /\ tx' = tx
  <2>1. \/ r.op = "register" /\ FirstStatement(r.op) = "select_register"
        \/ r.op = "login" /\ FirstStatement(r.op) = "select_login"
        \/ r.op = "verify" /\ FirstStatement(r.op) = "select_id"
    BY DEF Request, FirstStatement
  <2>2. TypeOK'
    BY <1>1, <1>4, <2>1 DEF IInv, TypeOK, Label, Code, NoReply
  <2> QED BY <1>1, <1>4, <2>2, Moves
<1> QED BY <1>3, <1>4

LEMMA SelectForRegisterKeeps ==
  ASSUME IInv, NEW w \in Workers, SelectForRegister(w)
  PROVE  IInv'
<1>1. /\ users' = users /\ issued' = issued /\ tokens' = tokens
      /\ pc[w] = "select_register"
      /\ issued' \subseteq Id /\ tokens' \subseteq Id
  BY DEF SelectForRegister, IInv, TypeOK
<1>2. CASE Answer(w, "400_registered")
  BY <1>1, <1>2, Ends DEF Code
<1>3. CASE /\ pc' = [pc EXCEPT ![w] = "insert"] /\ reply' = NoReply
           /\ req' = req /\ tx' = tx
  <2>1. TypeOK'
    BY <1>1, <1>3 DEF IInv, TypeOK, Label, Code, NoReply
  <2> QED BY <1>1, <1>3, <2>1, Moves
<1> QED BY <1>2, <1>3 DEF SelectForRegister

\* The row waits for nobody and collides with nobody: it may be reserved.
LEMMA InsertKeeps ==
  ASSUME IInv, NEW w \in Workers, Insert(w)
  PROVE  IInv'
<1> DEFINE email == RegisteredAs(req[w].email)
<1>1. users' = users /\ tokens' = tokens /\ pc[w] = "insert" /\ tokens' \subseteq Id
  BY DEF Insert, IInv, TypeOK
<1>2. CASE Answer(w, "500_unique") /\ issued' = issued
  <2>1. issued' \subseteq Id
    BY <1>2 DEF IInv, TypeOK
  <2> QED BY <1>1, <1>2, <2>1, Ends DEF Code
<1>3. CASE ~(Answer(w, "500_unique") /\ issued' = issued)
  <2>1. /\ Found(email) = {}
        /\ pc' = [pc EXCEPT ![w] = "commit"] /\ reply' = NoReply /\ req' = req
        /\ \A v \in Workers \ {w} : \A u \in tx[v] : u.email # email
    BY <1>3 DEF Insert
  <2>2. PICK id \in Id \ issued :
          /\ issued' = issued \cup {id}
          /\ tx' = [tx EXCEPT ![w] =
                      {[id |-> id, email |-> email, password |-> req[w].password]}]
    BY <1>3 DEF Insert
  <2> DEFINE row == [id |-> id, email |-> email, password |-> req[w].password]
  <2>3. req[w] \in Request /\ req[w].op = "register"
    BY <1>1 DEF IInv, TypeOK
  <2>4. req[w].email \in Email /\ req[w].password \in Password
    BY <2>3 DEF Request
  <2>5. email \in Email /\ email[2] = Lowercase
    BY <2>4, LowercaseAssumption DEF Email, RegisteredAs
  <2> HIDE DEF email
  <2>6. row \in User /\ row.email = email
    BY <2>4, <2>5 DEF User
  <2>7. tx' = [v \in Workers |-> IF v = w THEN {row} ELSE tx[v]]
    BY <2>2 DEF IInv, TypeOK
  <2> HIDE DEF row
  <2>8. TypeOK'
    <3>1. pc' = [v \in Workers |-> IF v = w THEN "commit" ELSE pc[v]]
      BY <2>1 DEF IInv, TypeOK
    <3>2. issued' \subseteq Id /\ tx' \in [Workers -> SUBSET User]
      BY <2>2, <2>6, <2>7 DEF IInv, TypeOK
    <3>3. reply' \in [by : Workers \cup {Null}, code : Code]
      BY <2>1 DEF NoReply, Code
    <3>4. \A v \in Workers : tx'[v] # {} => pc'[v] = "commit"
      BY <2>7, <3>1 DEF IInv, TypeOK
    <3>5. pc' \in [Workers -> Label]
      BY <3>1 DEF IInv, TypeOK, Label
    <3> QED BY <1>1, <2>1, <2>3, <3>1, <3>2, <3>3, <3>4, <3>5 DEF IInv, TypeOK
  <2>9. Reserved'
    <3>1. \A x \in users : x.email # row.email
      BY <2>1, <2>6 DEF Found
    <3> QED BY <1>1, <2>1, <2>5, <2>6, <2>7, <3>1 DEF IInv, Reserved
  <2>10. Distinct(users)'
    BY <1>1 DEF IInv, Distinct
  <2> QED BY <2>8, <2>9, <2>10 DEF IInv
<1> QED BY <1>2, <1>3

LEMMA CommitKeeps ==
  ASSUME IInv, NEW w \in Workers, Commit(w) \/ CommitUnacknowledged(w)
  PROVE  IInv'
<1>1. tx[w] \subseteq User
  BY DEF IInv, TypeOK
<1>2. {u.id : u \in tx[w]} \subseteq Id
  BY <1>1 DEF User
<1>3. issued' \subseteq Id /\ tokens' \subseteq Id
  BY <1>2 DEF IInv, TypeOK, Commit, CommitUnacknowledged
<1>4. CommitUser(w) /\ (Answer(w, "201") \/ Answer(w, "500"))
  BY DEF Commit, CommitUnacknowledged
<1> QED BY <1>3, <1>4, Commits DEF Code

LEMMA ReadsKeep ==
  ASSUME IInv, NEW w \in Workers,
         SelectForLogin(w) \/ SelectById(w) \/ Fail(w)
  PROVE  IInv'
<1>1. CASE SelectForLogin(w)
  <2> DEFINE match == {u \in Found(LoginAs(req[w].email)) : u.password = req[w].password}
  <2>1. match \subseteq users /\ users \subseteq User
    BY DEF Found, IInv, TypeOK
  <2>2. /\ Answer(w, IF match = {} THEN "401_login" ELSE "200")
        /\ tokens' = tokens \cup {u.id : u \in match}
        /\ users' = users /\ issued' = issued
    BY <1>1 DEF SelectForLogin
  <2> HIDE DEF match
  <2>3. {u.id : u \in match} \subseteq Id
    BY <2>1 DEF User
  <2>4. issued' \subseteq Id /\ tokens' \subseteq Id
    BY <2>2, <2>3 DEF IInv, TypeOK
  <2>5. (IF match = {} THEN "401_login" ELSE "200") \in Code
    BY DEF Code
  <2> QED BY <2>2, <2>4, <2>5, Ends
<1>2. CASE SelectById(w) \/ Fail(w)
  <2>1. users' = users /\ issued' \subseteq Id /\ tokens' \subseteq Id
    BY <1>2 DEF SelectById, Fail, IInv, TypeOK
  <2>2. Answer(w, "200") \/ Answer(w, "404") \/ Answer(w, "500")
    BY <1>2 DEF SelectById, Fail
  <2> QED BY <2>1, <2>2, Ends DEF Code
<1> QED BY <1>1, <1>2

LEMMA StepSound == IInv /\ [Next]_vars => IInv'
<1> SUFFICES ASSUME IInv, [Next]_vars PROVE IInv'
  OBVIOUS
<1>1. CASE UNCHANGED vars
  BY <1>1 DEF vars, IInv, TypeOK, Distinct, Reserved
<1>2. CASE Next
  <2> PICK w \in Workers :
        \/ Receive(w) \/ SelectForRegister(w) \/ Insert(w) \/ Commit(w)
        \/ SelectForLogin(w) \/ SelectById(w) \/ CommitUnacknowledged(w) \/ Fail(w)
    BY <1>2 DEF Next
  <2> QED
    BY ReceiveKeeps, SelectForRegisterKeeps, InsertKeeps, CommitKeeps, ReadsKeep
<1> QED BY <1>1, <1>2

LEMMA Invariance == Spec => []IInv
BY InitSound, StepSound, PTL DEF Spec

-----------------------------------------------------------------------------
\* In every reachable state the variables have their types and a container
\* past the gateway executes a statement of the operation it was asked for.
THEOREM TypeCorrect == Spec => []TypeOK
<1>1. IInv => TypeOK
  BY DEF IInv
<1> QED BY <1>1, Invariance, PTL

\* However it is typed, a mail address has one account, although the lookup
\* and the INSERT of a registration are two statements (function.py:119-122).
THEOREM UniqueAddress == Spec => []OneAccountPerAddress
<1>1. ASSUME IInv PROVE OneAccountPerAddress
  <2> SUFFICES ASSUME NEW u \in users, NEW v \in users, u.email[1] = v.email[1]
               PROVE  u = v
    BY DEF OneAccountPerAddress
  <2>1. u.email \in Email /\ v.email \in Email
    BY <1>1 DEF IInv, TypeOK, User
  <2>2. u.email[2] = v.email[2]
    BY <1>1 DEF IInv, Distinct
  <2>3. u.email = v.email
    BY <2>1, <2>2 DEF Email
  <2> QED BY <1>1, <2>3 DEF IInv, Distinct
<1> QED BY <1>1, Invariance, PTL

\* A token that was given out names an account that is in the database:
\* tokens are made after the commit, and nothing deletes an account.
THEOREM TokensHold == Spec => []TokensNameAccounts
<1>1. Init => TokensNameAccounts
  BY DEF Init, TokensNameAccounts
<1>2. ASSUME TokensNameAccounts, [Next]_vars
      PROVE  TokensNameAccounts'
  <2>1. CASE UNCHANGED vars
    BY <1>2, <2>1 DEF vars, TokensNameAccounts
  <2>2. ASSUME NEW w \in Workers, Commit(w)
        PROVE  TokensNameAccounts'
    BY <1>2, <2>2 DEF Commit, CommitUser, TokensNameAccounts
  <2>3. ASSUME NEW w \in Workers, SelectForLogin(w)
        PROVE  TokensNameAccounts'
    BY <1>2, <2>3 DEF SelectForLogin, Found, TokensNameAccounts
  <2>4. ASSUME NEW w \in Workers, CommitUnacknowledged(w)
        PROVE  TokensNameAccounts'
    BY <1>2, <2>4 DEF CommitUnacknowledged, CommitUser, TokensNameAccounts
  <2>5. ASSUME NEW w \in Workers,
               \/ Receive(w) \/ SelectForRegister(w) \/ Insert(w)
               \/ SelectById(w) \/ Fail(w)
        PROVE  TokensNameAccounts'
    <3>1. users' = users /\ tokens' = tokens
      BY <2>5 DEF Receive, SelectForRegister, Insert, SelectById, Fail
    <3> QED BY <1>2, <3>1 DEF TokensNameAccounts
  <2> QED BY <1>2, <2>1, <2>2, <2>3, <2>4, <2>5 DEF Next
<1> QED BY <1>1, <1>2, PTL DEF Spec

LEMMA Answered ==
  ASSUME NEW v \in Workers, NEW code, Answer(v, code)
  PROVE  reply'.code = code /\ reply'.by = v
<1>1. reply' = [by |-> v, code |-> code]
  BY DEF Answer
<1> QED BY <1>1

\* Only the statement of a login refuses a login.
LEMMA Refuses ==
  ASSUME NEW w \in Workers, Next, reply'.by = w, reply'.code = "401_login"
  PROVE  SelectForLogin(w)
<1> PICK v \in Workers :
      \/ Receive(v) \/ SelectForRegister(v) \/ Insert(v) \/ Commit(v)
      \/ SelectForLogin(v) \/ SelectById(v) \/ CommitUnacknowledged(v) \/ Fail(v)
  BY DEF Next
<1>1. \A code : Answer(v, code) => code = "401_login" /\ v = w
  BY Answered
<1>2. reply' # NoReply
  <2>1. NoReply.code # "401_login"
    BY DEF NoReply
  <2> QED BY <2>1
<1>3. ~Receive(v)
  <2>1. Receive(v) => reply' = NoReply \/ Answer(v, "400") \/ Answer(v, "401_token")
    BY DEF Receive
  <2> QED BY <1>1, <1>2, <2>1
<1>4. ~SelectForRegister(v) /\ ~Insert(v)
  BY <1>1, <1>2 DEF SelectForRegister, Insert
<1>5. ~Commit(v) /\ ~CommitUnacknowledged(v) /\ ~Fail(v)
  BY <1>1 DEF Commit, CommitUnacknowledged, Fail
<1>6. ~SelectById(v)
  <2>1. SelectById(v) => Answer(v, "200") \/ Answer(v, "404")
    BY DEF SelectById
  <2> QED BY <1>1, <2>1
<1>7. SelectForLogin(v)
  BY <1>3, <1>4, <1>5, <1>6
<1>8. v = w
  BY <1>1, <1>7 DEF SelectForLogin
<1> QED BY <1>7, <1>8

\* An account with the address and the password typed is found.
LEMMA LoginFinds ==
  ASSUME IInv, NEW email \in Email, NEW u \in users, u.email[1] = email[1]
  PROVE  u \in Found(LoginAs(email))
<1>1. u.email \in Email /\ u.email[2] = Lowercase
  BY DEF IInv, TypeOK, Distinct, User
<1>2. u.email = <<u.email[1], u.email[2]>>
  BY <1>1 DEF Email
<1>3. u.email = LoginAs(email)
  BY <1>1, <1>2 DEF LoginAs
<1> QED BY <1>3 DEF Found

\* Nobody is told "Invalid email or password" who has an account for that
\* address, in whatever spelling, with that password: registration and login
\* bring the address to the same normal form.
THEOREM LoginFair == Spec => LoginRefusedOnlyIfWrong
<1>1. ASSUME IInv, Next, NEW w \in Workers, reply'.by = w, reply'.code = "401_login",
             NEW u \in users, u.email[1] = req[w].email[1],
             u.password = req[w].password
      PROVE  FALSE
  <2> DEFINE match == {x \in Found(LoginAs(req[w].email)) : x.password = req[w].password}
  <2>1. SelectForLogin(w)
    BY <1>1, Refuses
  <2>2. req[w].email \in Email
    BY <1>1, <2>1 DEF SelectForLogin, IInv, TypeOK, Request
  <2>3. u \in match
    BY <1>1, <2>2, LoginFinds
  <2>4. Answer(w, IF match = {} THEN "401_login" ELSE "200")
    BY <2>1 DEF SelectForLogin
  <2> HIDE DEF match
  <2>5. Answer(w, "200")
    BY <2>3, <2>4
  <2> QED BY <1>1, <2>5 DEF Answer
<1>2. ASSUME IInv, [Next]_vars
      PROVE  [\A w \in Workers :
                (reply'.by = w /\ reply'.code = "401_login") =>
                  \A u \in users : ~(/\ u.email[1] = req[w].email[1]
                                     /\ u.password = req[w].password)]_vars
  BY <1>1, <1>2
<1> QED BY <1>2, Invariance, PTL DEF Spec, LoginRefusedOnlyIfWrong
=============================================================================
