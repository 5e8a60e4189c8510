------------------------------ MODULE Session ------------------------------
(***************************************************************************)
(* The session of the web client (frontend/src): the token in              *)
(* localStorage, which all tabs of a browser share, and in every tab the   *)
(* user AuthContext holds, the verify request of a page load, the login or *)
(* registration under way, and what PrivateRoute shows.  The auth service  *)
(* is seen through its answers: any request may fail, and a verify does    *)
(* once the token has expired.  Nothing tells a page about that: its       *)
(* requests are answered 401 and it stays as it is (api.js:21).            *)
(***************************************************************************)
EXTENDS Naturals

CONSTANTS
  Tab,
  User,
  Address,    \* the addresses at which a page is loaded, or reached with the
              \* browser's Back button before it is restored
  MaxLogins,  \* bounds the tokens of the model
  Null

ASSUME AddressAssumption == Address \subseteq {"private", "login"}
ASSUME BoundAssumption   == MaxLogins \in Nat

Token == [user : User, serial : 1 .. MaxLogins]

ASSUME NullAssumption == Null \notin User \cup Token

VARIABLES
  stored,      \* localStorage.getItem('token')
  logins,      \* how many tokens the service has issued
  expired,     \* how many of them have expired: all live equally long
  ended,       \* history: the tokens somebody logged out of
  page,        \* per tab: "closed", or the route it is at
  user,        \* per tab: AuthContext's user
  loading,     \* per tab: AuthContext's loading
  verifying,   \* per tab: the token a verify request is under way for
  submitting,  \* per tab: the user a login or registration is under way for
  overtaken    \* history: the open tabs behind whose back the token changed

vars == <<stored, logins, expired, ended, page, user, loading, verifying, submitting, overtaken>>

Init ==
  /\ stored = Null
  /\ logins = 0 /\ expired = 0 /\ ended = {}
  /\ page = [t \in Tab |-> "closed"]
  /\ user = [t \in Tab |-> Null]
  /\ loading = [t \in Tab |-> FALSE]
  /\ verifying = [t \in Tab |-> Null]
  /\ submitting = [t \in Tab |-> Null]
  /\ overtaken = {}

-----------------------------------------------------------------------------
(***************************************************************************)
(* What is on the screen                                                   *)
(***************************************************************************)
\* PrivateRoute waits for the verification; /login does not.
Waiting(t) == page[t] = "private" /\ loading[t]

Form(t)  == page[t] = "login" /\ user[t] = Null
Pages(t) == page[t] = "private" /\ ~Waiting(t) /\ user[t] # Null

\* The redirects that rendering performs at once: from /login to the pages
\* when there is a user, from the pages to /login when there is none.
Rendered(address, u, l) ==
  IF u # Null \/ (address = "private" /\ l) THEN "private" ELSE "login"

Render(t) ==
  page' = [page EXCEPT ![t] = Rendered(page[t], user'[t], loading'[t])]

\* The stored token changes in tab t, unnoticed by the other open tabs.
Overtaken(t) == overtaken \cup {o \in Tab \ {t} : page[o] # "closed"}

-----------------------------------------------------------------------------
(***************************************************************************)
(* A page is loaded; what was under way in the tab is forgotten            *)
(***************************************************************************)
Load(t) ==
  /\ \E a \in Address :
       page' = [page EXCEPT ![t] = Rendered(a, Null, stored # Null)]
  /\ user' = [user EXCEPT ![t] = Null]
  /\ loading' = [loading EXCEPT ![t] = (stored # Null)]
  /\ verifying' = [verifying EXCEPT ![t] = stored]
  /\ submitting' = [submitting EXCEPT ![t] = Null]
  /\ overtaken' = overtaken \ {t}
  /\ UNCHANGED <<stored, logins, expired, ended>>

LeftLoading(t) ==
  /\ verifying' = [verifying EXCEPT ![t] = Null]
  /\ UNCHANGED loading

\* finally: setLoading(false)
Settled(t) ==
  /\ verifying' = [verifying EXCEPT ![t] = Null]
  /\ loading' = [loading EXCEPT ![t] = FALSE]

AnyToken(token) == TRUE

\* jwt.decode checks the token's exp.
Valid(token) == token.serial > expired

VerifySucceeds(t) ==
  /\ verifying[t] # Null
  /\ Valid(verifying[t])
  /\ user' = [user EXCEPT ![t] = verifying[t].user]
  /\ Settled(t)
  /\ Render(t)
  /\ UNCHANGED <<stored, logins, expired, ended, submitting, overtaken>>

\* 401, 404, 500, the network: any failure removes the token that is stored
\* by then.
VerifyFails(t) ==
  /\ verifying[t] # Null
  /\ stored' = Null
  /\ Settled(t)
  /\ overtaken' = Overtaken(t)
  /\ UNCHANGED <<logins, expired, ended, user, submitting>>
  /\ Render(t)

-----------------------------------------------------------------------------
(***************************************************************************)
(* Login, registration, logout                                             *)
(***************************************************************************)
\* The form's button is disabled while its request is under way.
Submit(t) ==
  /\ Form(t)
  /\ submitting[t] = Null
  /\ \E u \in User : submitting' = [submitting EXCEPT ![t] = u]
  /\ UNCHANGED <<stored, logins, expired, ended, page, user, loading, verifying, overtaken>>

TokenIfNone(token) == IF stored = Null THEN token ELSE stored
NewToken(token) == token

\* The service answers with a new token, whatever the tab shows by then.  A
\* verify request that is still under way for an older one will overtake it.
SubmitSucceeds(t) ==
  /\ submitting[t] # Null
  /\ logins < MaxLogins
  /\ logins' = logins + 1
  /\ stored' = NewToken([user |-> submitting[t], serial |-> logins + 1])
  /\ user' = [user EXCEPT ![t] = submitting[t]]
  /\ page' = [page EXCEPT ![t] = "private"]
  /\ submitting' = [submitting EXCEPT ![t] = Null]
  /\ overtaken' = IF verifying[t] # Null THEN Overtaken(t) \cup {t}
                                         ELSE Overtaken(t) \ {t}
  /\ UNCHANGED <<expired, ended, loading, verifying>>

SubmitFails(t) ==
  /\ submitting[t] # Null
  /\ submitting' = [submitting EXCEPT ![t] = Null]
  /\ UNCHANGED <<stored, logins, expired, ended, page, user, loading, verifying, overtaken>>

TokenKept == stored' = stored
TokenRemoved == stored' = Null

Logout(t) ==
  /\ Pages(t)
  /\ TokenRemoved
  /\ ended' = ended \cup ({stored} \ {Null})
  /\ user' = [user EXCEPT ![t] = Null]
  /\ page' = [page EXCEPT ![t] = "login"]
  /\ overtaken' = Overtaken(t)
  /\ UNCHANGED <<logins, expired, loading, verifying, submitting>>

\* JWT_EXPIRY_HOURS after it was issued.
Expire ==
  /\ expired < logins
  /\ expired' = expired + 1
  /\ UNCHANGED <<stored, logins, ended, page, user, loading, verifying, submitting, overtaken>>

Answered(t) == VerifySucceeds(t) \/ VerifyFails(t)

Next ==
  \/ \E t \in Tab :
       \/ Load(t) \/ Answered(t)
       \/ Submit(t) \/ SubmitSucceeds(t) \/ SubmitFails(t)
       \/ Logout(t)
  \/ Expire

Spec == Init /\ [][Next]_vars

\* A fetch comes to an end, with an answer or with an error.
FairSpec == Spec /\ \A t \in Tab : WF_vars(Answered(t))

-----------------------------------------------------------------------------
(***************************************************************************)
(* Properties                                                              *)
(***************************************************************************)
\* Every variable has the type its declaration says, and a tab only waits
\* while a verify request is under way.
TypeOK ==
  /\ stored \in Token \cup {Null}
  /\ logins \in 0 .. MaxLogins
  /\ expired \in 0 .. logins
  /\ ended \subseteq Token
  /\ page \in [Tab -> {"closed", "private", "login"}]
  /\ user \in [Tab -> User \cup {Null}]
  /\ loading \in [Tab -> BOOLEAN]
  /\ verifying \in [Tab -> Token \cup {Null}]
  /\ submitting \in [Tab -> User \cup {Null}]
  /\ \A t \in Tab : loading[t] <=> verifying[t] # Null
  /\ overtaken \subseteq Tab

\* Protected pages are shown to the user whose token the requests of these
\* pages carry (services/api.js reads it from localStorage at every request),
\* unless the token has changed behind the back of the tab: in another tab,
\* or by a login during the verification of an older token, which /login does
\* not wait for (App.jsx:32).
PagesMatchToken ==
  \A t \in Tab \ overtaken : Pages(t) => stored # Null /\ stored.user = user[t]

\* A token somebody logged out of restores no session: no late answer to a
\* verify request brings its user back, unless it was in another tab that the
\* user logged out.
LoggedOutStaysOut ==
  [][\A t \in Tab \ overtaken :
       (user[t] = Null /\ user'[t] # Null /\ verifying[t] # verifying'[t])
         => verifying[t] \notin ended]_vars

\* The spinner of a restored page does not spin for ever.
SpinnerEnds == \A t \in Tab : Waiting(t) ~> ~Waiting(t)

\* An expired token does not stay: the first page that is loaded with it takes
\* it out of the storage, whatever is reloaded, answered or lost on the way.
ExpiredTokenGoes ==
  \A t \in Tab :
    (stored # Null /\ stored.serial <= expired /\ verifying[t] = stored)
      ~> (stored = Null \/ stored.serial > expired)
=============================================================================
