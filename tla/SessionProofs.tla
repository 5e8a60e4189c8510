--------------------------- MODULE SessionProofs ---------------------------
(***************************************************************************)
(* Proofs about Session, for any number of tabs, users and logins.         *)
(***************************************************************************)
EXTENDS Session, TLAPS

\* A tab behind whose back nothing has changed works with the stored token:
\* it verifies that one and shows nobody meanwhile, or shows its user.
InStep(t) ==
  t \notin overtaken =>
    /\ verifying[t] # Null => verifying[t] = stored /\ user[t] = Null
    /\ user[t] # Null => stored # Null /\ stored.user = user[t]

\* A tab nobody has opened holds nothing.
NotOpened(t) == page[t] = "closed" => user[t] = Null /\ verifying[t] = Null

\* Serials are handed out in turn, and a token that was logged out of is not
\* stored any more.
Ended ==
  /\ \A k \in ended : k.serial <= logins
  /\ stored # Null => stored.serial <= logins /\ stored \notin ended

IInv == TypeOK /\ Ended /\ \A t \in Tab : InStep(t) /\ NotOpened(t)

-----------------------------------------------------------------------------
LEMMA InitSound == Init => IInv
  BY BoundAssumption DEF Init, IInv, TypeOK, Ended, InStep, NotOpened

\* What is rendered is one of the two routes.
LEMMA RenderType ==
  ASSUME TypeOK, NEW t \in Tab, Render(t)
  PROVE  /\ page' \in [Tab -> {"closed", "private", "login"}]
         /\ page'[t] # "closed"
         /\ \A o \in Tab \ {t} : page'[o] = page[o]
  BY DEF TypeOK, Render, Rendered

\* A token with its fields.
LEMMA TokenFields ==
  ASSUME NEW k \in Token
  PROVE  k.user \in User /\ k.serial \in 1 .. MaxLogins
  BY DEF Token

\* The tabs that are not told of a change of the stored token.
LEMMA OvertakenOthers ==
  ASSUME TypeOK, NEW t \in Tab
  PROVE  /\ Overtaken(t) \subseteq Tab
         /\ overtaken \subseteq Overtaken(t)
         /\ \A o \in Tab \ {t} : page[o] # "closed" => o \in Overtaken(t)
  BY DEF TypeOK, Overtaken

-----------------------------------------------------------------------------
LEMMA LoadKeeps ==
  ASSUME IInv, NEW t \in Tab, Load(t)
  PROVE  IInv'
<1>1. PICK a \in Address : page' = [page EXCEPT ![t] = Rendered(a, Null, stored # Null)]
  BY DEF Load
<1>2. page' \in [Tab -> {"closed", "private", "login"}] /\ page'[t] # "closed"
  BY <1>1 DEF IInv, TypeOK, Rendered
<1>3. TypeOK'
  BY <1>2 DEF IInv, TypeOK, Load
<1>4. Ended'
  BY DEF IInv, Ended, Load
<1>5. ASSUME NEW o \in Tab PROVE InStep(o)' /\ NotOpened(o)'
  <2>1. CASE o = t
    BY <1>2, <2>1 DEF IInv, TypeOK, InStep, NotOpened, Load
  <2>2. CASE o # t
    BY <1>1, <2>2 DEF IInv, TypeOK, InStep, NotOpened, Load
  <2> QED BY <2>1, <2>2
<1> QED BY <1>3, <1>4, <1>5 DEF IInv

LEMMA VerifyKeeps ==
  ASSUME IInv, NEW t \in Tab, Answered(t)
  PROVE  IInv'
<1>1. CASE VerifySucceeds(t)
  <2>1. verifying[t] \in Token /\ verifying[t].user \in User /\ verifying[t].user # Null
    BY <1>1, TokenFields, NullAssumption DEF VerifySucceeds, IInv, TypeOK
  <2>2. Render(t)
    BY <1>1 DEF VerifySucceeds
  <2>3. TypeOK'
    BY <1>1, <2>1, <2>2, RenderType DEF IInv, TypeOK, VerifySucceeds, Settled
  <2>4. Ended'
    BY <1>1 DEF IInv, Ended, VerifySucceeds
  <2>5. ASSUME NEW o \in Tab PROVE InStep(o)' /\ NotOpened(o)'
    <3>1. CASE o = t
      BY <1>1, <2>1, <2>2, <3>1, RenderType DEF IInv, TypeOK, InStep, NotOpened, VerifySucceeds, Settled
    <3>2. CASE o # t
      BY <1>1, <2>2, <3>2, RenderType DEF IInv, TypeOK, InStep, NotOpened, VerifySucceeds, Settled
    <3> QED BY <3>1, <3>2
  <2> QED BY <2>3, <2>4, <2>5 DEF IInv
<1>2. CASE VerifyFails(t)
  <2>1. Render(t)
    BY <1>2 DEF VerifyFails
  <2>2. TypeOK'
    BY <1>2, <2>1, RenderType, OvertakenOthers DEF IInv, TypeOK, VerifyFails, Settled
  <2>3. Ended'
    BY <1>2 DEF IInv, Ended, VerifyFails
  <2>4. ASSUME NEW o \in Tab PROVE InStep(o)' /\ NotOpened(o)'
    <3>1. CASE o = t
      <4>1. o \notin overtaken' => user[o] = Null
        BY <1>2, <3>1, OvertakenOthers DEF IInv, InStep, VerifyFails
      <4> QED
        BY <1>2, <2>1, <3>1, <4>1, RenderType DEF IInv, TypeOK, InStep, NotOpened, VerifyFails, Settled
    <3>2. CASE o # t
      <4>1. o \notin overtaken' => user[o] = Null /\ verifying[o] = Null
        BY <1>2, <3>2, OvertakenOthers DEF IInv, NotOpened, VerifyFails
      <4> QED
        BY <1>2, <2>1, <3>2, <4>1, RenderType DEF IInv, TypeOK, InStep, NotOpened, VerifyFails, Settled
    <3> QED BY <3>1, <3>2
  <2> QED BY <2>2, <2>3, <2>4 DEF IInv
<1> QED BY <1>1, <1>2 DEF Answered

LEMMA SubmitKeeps ==
  ASSUME IInv, NEW t \in Tab, Submit(t) \/ SubmitFails(t)
  PROVE  IInv'
<1>1. UNCHANGED <<stored, logins, expired, ended, page, user, loading, verifying, overtaken>>
  BY DEF Submit, SubmitFails
<1>2. submitting' \in [Tab -> User \cup {Null}]
  BY DEF IInv, TypeOK, Submit, SubmitFails
<1>3. TypeOK'
  BY <1>1, <1>2 DEF IInv, TypeOK
<1>4. Ended' /\ \A o \in Tab : InStep(o)' /\ NotOpened(o)'
  BY <1>1 DEF IInv, Ended, InStep, NotOpened
<1> QED BY <1>3, <1>4 DEF IInv

LEMMA SubmitSucceedsKeeps ==
  ASSUME IInv, NEW t \in Tab, SubmitSucceeds(t)
  PROVE  IInv'
<1> DEFINE token == [user |-> submitting[t], serial |-> logins + 1]
<1>1. submitting[t] \in User /\ logins \in Nat /\ logins + 1 \in 1 .. MaxLogins
  BY BoundAssumption DEF SubmitSucceeds, IInv, TypeOK
<1>2. /\ token \in Token
      /\ token.user = submitting[t]
      /\ token.serial = logins + 1
      /\ token # Null
      /\ stored' = token
  BY <1>1, NullAssumption DEF Token, SubmitSucceeds, NewToken
<1>3. \A k \in ended : k \in Token /\ k.serial \in Nat
  BY TokenFields, BoundAssumption DEF IInv, TypeOK
<1> HIDE DEF token
<1>4. TypeOK'
  BY <1>1, <1>2, BoundAssumption, OvertakenOthers DEF IInv, TypeOK, SubmitSucceeds
<1>5. Ended'
  BY <1>1, <1>2, <1>3 DEF IInv, Ended, SubmitSucceeds
<1>6. ASSUME NEW o \in Tab PROVE InStep(o)' /\ NotOpened(o)'
  <2>1. CASE o = t
    <3>1. o \notin overtaken' => verifying[o] = Null
      BY <2>1 DEF SubmitSucceeds
    <3> QED
      BY <1>1, <1>2, <2>1, <3>1 DEF IInv, TypeOK, InStep, NotOpened, SubmitSucceeds
  <2>2. CASE o # t
    <3>1. o \notin overtaken' => user[o] = Null /\ verifying[o] = Null
      BY <2>2, OvertakenOthers DEF IInv, NotOpened, SubmitSucceeds
    <3> QED
      BY <1>2, <2>2, <3>1 DEF IInv, TypeOK, InStep, NotOpened, SubmitSucceeds
  <2> QED BY <2>1, <2>2
<1> QED BY <1>4, <1>5, <1>6 DEF IInv

LEMMA LogoutKeeps ==
  ASSUME IInv, NEW t \in Tab, Logout(t)
  PROVE  IInv'
<1>1. stored' = Null /\ ended' = ended \cup ({stored} \ {Null})
  BY DEF Logout, TokenRemoved
<1>2. TypeOK'
  BY <1>1, OvertakenOthers DEF IInv, TypeOK, Logout
<1>3. Ended'
  BY <1>1 DEF IInv, Ended, Logout
<1>4. ASSUME NEW o \in Tab PROVE InStep(o)' /\ NotOpened(o)'
  <2>1. CASE o = t
    <3>1. o \notin overtaken' => verifying[o] = Null
      BY <2>1, OvertakenOthers DEF IInv, InStep, Logout, Pages
    <3> QED
      BY <1>1, <2>1, <3>1 DEF IInv, TypeOK, InStep, NotOpened, Logout
  <2>2. CASE o # t
    <3>1. o \notin overtaken' => user[o] = Null /\ verifying[o] = Null
      BY <2>2, OvertakenOthers DEF IInv, NotOpened, Logout
    <3> QED
      BY <2>2, <3>1 DEF IInv, TypeOK, InStep, NotOpened, Logout
  <2> QED BY <2>1, <2>2
<1> QED BY <1>2, <1>3, <1>4 DEF IInv

LEMMA ExpireKeeps ==
  ASSUME IInv, Expire
  PROVE  IInv'
<1>1. TypeOK'
  BY BoundAssumption DEF IInv, TypeOK, Expire
<1>2. Ended' /\ \A o \in Tab : InStep(o)' /\ NotOpened(o)'
  BY DEF IInv, Ended, InStep, NotOpened, Expire
<1> QED BY <1>1, <1>2 DEF IInv

LEMMA StepKeeps == IInv /\ [Next]_vars => IInv'
<1> SUFFICES ASSUME IInv, [Next]_vars PROVE IInv'
  OBVIOUS
<1>1. CASE UNCHANGED vars
  BY <1>1 DEF vars, IInv, TypeOK, Ended, InStep, NotOpened
<1>2. CASE Expire
  BY <1>2, ExpireKeeps
<1>3. ASSUME NEW t \in Tab,
             \/ Load(t) \/ Answered(t)
             \/ Submit(t) \/ SubmitSucceeds(t) \/ SubmitFails(t)
             \/ Logout(t)
      PROVE  IInv'
  BY <1>3, LoadKeeps, VerifyKeeps, SubmitKeeps, SubmitSucceedsKeeps, LogoutKeeps
<1> QED BY <1>1, <1>2, <1>3 DEF Next

LEMMA Invariance == Spec => []IInv
  BY InitSound, StepKeeps, PTL DEF Spec

-----------------------------------------------------------------------------
\* Every reachable state is well typed, and a tab waits only while a verify
\* request is under way (AuthContext.jsx:10-20).
THEOREM TypeCorrect == Spec => []TypeOK
<1>1. IInv => TypeOK
  BY DEF IInv
<1> QED BY <1>1, Invariance, PTL

\* Protected pages are shown to the user whose token their requests carry, in
\* every tab behind whose back the token has not changed (App.jsx:22-26).
THEOREM PagesRight == Spec => []PagesMatchToken
<1>1. IInv => PagesMatchToken
  BY DEF IInv, InStep, PagesMatchToken, Pages
<1> QED BY <1>1, Invariance, PTL

\* A token somebody logged out of brings nobody back (AuthContext.jsx:36-39).
THEOREM LogoutFinal == Spec => LoggedOutStaysOut
<1>1. ASSUME IInv, Next, NEW t \in Tab \ overtaken,
             user[t] = Null, user'[t] # Null, verifying[t] # verifying'[t]
      PROVE  verifying[t] \notin ended
  <2>1. PICK o \in Tab : \/ Load(o) \/ Answered(o) \/ Logout(o) \/ SubmitSucceeds(o)
    BY <1>1 DEF Next, Expire, Submit, SubmitFails
  <2>2. ~Load(o) /\ ~Logout(o) /\ ~VerifyFails(o) /\ ~SubmitSucceeds(o)
    BY <1>1 DEF Load, Logout, VerifyFails, SubmitSucceeds, IInv, TypeOK
  <2>3. VerifySucceeds(o)
    BY <2>1, <2>2 DEF Answered
  <2>4. o = t
    BY <1>1, <2>3 DEF VerifySucceeds, IInv, TypeOK
  <2>5. verifying[t] # Null /\ verifying[t] = stored
    BY <1>1, <2>3, <2>4 DEF VerifySucceeds, IInv, InStep
  <2> QED BY <1>1, <2>5 DEF IInv, Ended
<1>2. IInv /\ [Next]_vars =>
        [\A t \in Tab \ overtaken :
           (user[t] = Null /\ user'[t] # Null /\ verifying[t] # verifying'[t])
             => verifying[t] \notin ended]_vars
  BY <1>1
<1> QED BY <1>2, Invariance, PTL DEF Spec, LoggedOutStaysOut
=============================================================================
