------------------------------- MODULE Portal -------------------------------
(***************************************************************************)
(* One browser tab of the frontend and its session: the auth store, the    *)
(* routes it guards, the interceptor of the API client, the login,         *)
(* register and logout calls with the cookie they set, and the calls of    *)
(* the account page, which write the store when they end.                  *)
(*                                                                         *)
(* A call carries the cookie the browser had when it was sent, is answered *)
(* by the backend at some later moment, and its answer arrives later       *)
(* still; calls overtake each other.  Loading a document drops every call  *)
(* and all state but the cookie.  A user's visit is bounded by MaxActs.    *)
(***************************************************************************)
EXTENDS Naturals

CONSTANTS
  Users,
  Admins,    \* users with rootAdmin
  Totp,      \* users with two-factor authentication when the tab is opened
  Slots,     \* calls that may be in progress at a time
  MaxActs,   \* bound: what the user does, and what happens to the session
  None

ASSUME PortalAssumption ==
  /\ None \notin Users \cup {"ok", "twofactor", "unauthorized", "refused", "error"}
  /\ Totp \subseteq Users
  /\ MaxActs \in Nat

VARIABLES
  cookie,      \* the user of nexus_session, or None
  enabled,     \* users that may log in
  totp,        \* users with two-factor authentication
  location,    \* the route
  auth,        \* the store: user, isAuthenticated, isLoading
  busy,        \* the form of the page on screen waits for its answer
  calls,       \* the calls in progress, by slot
  acts,        \* how much has happened
  overlapped,  \* history: a call that ends in the store was sent beside another
  signedOut    \* history: a logout has succeeded since the last login or page load

vars == <<cookie, enabled, totp, location, auth, busy, calls, acts, overlapped, signedOut>>

Routes == {"login", "register", "dashboard", "admin"}
Ops == {"me", "login", "register", "logout", "account", "data"}
Answers == {None, "ok", "twofactor", "unauthorized", "refused", "error"}
NoUser == [user |-> None, isAuthenticated |-> FALSE, isLoading |-> FALSE]
First == CHOOSE s \in Slots : TRUE
Free == {s \in Slots : calls[s] = None}

\* A call whose end writes the store: everything but a page's data.
SessionCall(s) == calls[s] # None /\ calls[s].op # "data"

\* Calls of the account page write what the store has; any other pair may disagree.
Clash(op, s) ==
  SessionCall(s) /\ op # "data" /\ ~(op = "account" /\ calls[s].op = "account")

\* The body of GET /auth/me has rootAdmin; the frontend reads isAdmin.
MeFields == {"id", "email", "username", "rootAdmin", "usesTotp", "avatarUrl", "createdAt"}
IsAdmin(u) == "isAdmin" \in MeFields /\ u \in Admins

\* What the router shows for a route: ProtectedRoute and AdminRoute redirect.
Routed(l, a) ==
  IF a.isLoading THEN l
  ELSE IF l \in {"dashboard", "admin"} /\ ~a.isAuthenticated THEN "login"
  ELSE IF l = "admin" /\ ~IsAdmin(a.user) THEN "dashboard"
  ELSE l

\* The store and the route change; the form on screen is gone with its page.
Show(l, a) ==
  /\ auth' = a
  /\ location' = Routed(l, a)
  /\ busy' = (busy /\ ~a.isLoading /\ Routed(l, a) = location)

Call(op, user, then) ==
  [op |-> op, user |-> user, cookie |-> cookie, answer |-> None, then |-> then,
   page |-> location]

\* A document is loaded: App calls checkAuth when it is mounted.
Load(l) ==
  /\ auth' = [NoUser EXCEPT !.isLoading = TRUE]
  /\ location' = l
  /\ busy' = FALSE
  /\ calls' = [s \in Slots |-> IF s = First THEN Call("me", None, None) ELSE None]
  /\ overlapped' = FALSE
  /\ signedOut' = FALSE

Init ==
  /\ cookie = None
  /\ enabled = Users
  /\ totp = Totp
  /\ location = "dashboard"
  /\ auth = [NoUser EXCEPT !.isLoading = TRUE]
  /\ busy = FALSE
  /\ calls = [s \in Slots |-> IF s = First THEN Call("me", None, None) ELSE None]
  /\ acts = 0
  /\ overlapped = FALSE
  /\ signedOut = FALSE

-----------------------------------------------------------------------------
(* The user; nothing can be pressed while the spinner replaces the router  *)

Act == acts < MaxActs /\ acts' = acts + 1

Send(op, u) ==
  /\ Free # {}
  /\ calls' = [calls EXCEPT ![CHOOSE s \in Free : TRUE] = Call(op, u, None)]
  /\ overlapped' = (overlapped \/ \E s \in Slots : Clash(op, s))

\* The button of the form is disabled until its answer is there.
SubmitLogin ==
  /\ Act /\ ~auth.isLoading /\ location = "login" /\ ~busy
  /\ \E u \in Users \cup {None} : Send("login", u)
  /\ busy' = TRUE
  /\ signedOut' = FALSE
  /\ UNCHANGED <<cookie, enabled, totp, location, auth>>

SubmitRegister ==
  /\ Act /\ ~auth.isLoading /\ location = "register" /\ ~busy
  /\ Send("register", None)
  /\ busy' = TRUE
  /\ UNCHANGED <<cookie, enabled, totp, location, auth, signedOut>>

ClickLogout ==
  /\ Act /\ ~auth.isLoading /\ location \in {"dashboard", "admin"}
  /\ Send("logout", None)
  /\ UNCHANGED <<cookie, enabled, totp, location, auth, busy, signedOut>>

\* A page asks the backend for something.
Request ==
  /\ Act /\ ~auth.isLoading /\ location \in {"dashboard", "admin"}
  /\ Send("data", None)
  /\ UNCHANGED <<cookie, enabled, totp, location, auth, busy, signedOut>>

\* AccountSettingsPage behind ProtectedRoute: the handler keeps the user it was rendered
\* with.  PATCH /account has no route and disable2FA sends no code: only verify2FA succeeds.
ClickAccount ==
  /\ Act /\ ~auth.isLoading /\ auth.isAuthenticated /\ location = "dashboard"
  /\ Send("account", auth.user)
  /\ UNCHANGED <<cookie, enabled, totp, location, auth, busy, signedOut>>

\* A link, an entry of the sidebar, or back to a route of the tab's history.
Navigate ==
  /\ Act /\ ~auth.isLoading
  /\ \E l \in {"login", "register", "dashboard"}
              \cup IF IsAdmin(auth.user) THEN {"admin"} ELSE {} :
       l # location /\ Show(l, auth)
  /\ UNCHANGED <<cookie, enabled, totp, calls, overlapped, signedOut>>

Reload ==
  /\ Act
  /\ \E l \in Routes : Load(l)
  /\ UNCHANGED <<cookie, enabled, totp>>

-----------------------------------------------------------------------------
(* The session and the backend                                             *)

\* The cookie and the token in it last 15 minutes; nothing refreshes them.
Expire ==
  /\ Act /\ cookie # None
  /\ cookie' = None
  /\ calls' = [s \in Slots |-> IF calls[s] # None /\ calls[s].answer = None
                               THEN [calls[s] EXCEPT !.cookie = None] ELSE calls[s]]
  /\ UNCHANGED <<enabled, totp, location, auth, busy, overlapped, signedOut>>

Disable(u) ==
  /\ Act /\ u \in enabled
  /\ enabled' = enabled \ {u}
  /\ UNCHANGED <<cookie, totp, location, auth, busy, calls, overlapped, signedOut>>

\* What the backend answers.  A login without an email, from a username, is refused, and
\* so may any input be; AuthService.login does not look at the code.
Answered(c) ==
  CASE c.op = "login" ->
         IF c.user \in enabled
         THEN {"unauthorized", IF c.user \in totp THEN "twofactor" ELSE "ok"}
         ELSE {"unauthorized", "refused"}
    [] c.op = "register" -> {"ok", "refused"}
    [] OTHER -> {IF c.cookie \in enabled THEN "ok" ELSE "unauthorized"}

Serve(s) ==
  /\ calls[s] # None /\ calls[s].answer = None
  /\ \E a \in Answered(calls[s]) \cup {"error"} :
       /\ calls' = [calls EXCEPT ![s].answer = a]
       /\ totp' = totp \cup IF calls[s].op = "account" /\ a = "ok"
                           THEN {calls[s].cookie} ELSE {}
  /\ UNCHANGED <<cookie, enabled, location, auth, busy, acts, overlapped, signedOut>>

-----------------------------------------------------------------------------
(* Answers                                                                 *)

Arrived(s, ops, answers) ==
  calls[s] # None /\ calls[s].op \in ops /\ calls[s].answer \in answers
Done(s) == calls' = [calls EXCEPT ![s] = None]

\* The form of the page is there to be told, unless the user has left it.
FormTold(s) == busy' = (busy /\ location # calls[s].page)

\* Mutant: the interceptor does not leave /auth/me alone.
InterceptedMe(s) == Arrived(s, {"register", "logout", "account", "data", "me"}, {"unauthorized"})

\* Mutant: the interceptor leaves the data of the pages alone.
InterceptedNoData(s) == Arrived(s, {"register", "logout", "account"}, {"unauthorized"})

\* The interceptor leaves /auth/login and /auth/me alone.
Intercepted(s) == Arrived(s, {"register", "logout", "account", "data"}, {"unauthorized"})

\* Mutant: the form does not go on with checkAuth.
StayAsWas(s, session) ==
  /\ cookie' = session
  /\ Show("dashboard", auth)
  /\ Done(s)
  /\ UNCHANGED overlapped

\* login and register go on with checkAuth: the spinner, and GET /auth/me.
CheckAuth(s, session) ==
  /\ cookie' = session
  /\ Show(location, [auth EXCEPT !.isLoading = TRUE])
  /\ calls' = [calls EXCEPT ![s] = [Call("me", None, "dashboard") EXCEPT !.cookie = session]]
  /\ overlapped' = (overlapped \/ \E t \in Slots \ {s} : Clash("me", t))

Proceed(s) ==
  /\ Arrived(s, {"login", "register"}, {"ok"})
  /\ CheckAuth(s, IF calls[s].op = "login" THEN calls[s].user ELSE cookie)
  /\ UNCHANGED <<enabled, totp, acts, signedOut>>

\* The page asks for the code, or shows the error.
FormFails(s) ==
  /\ Arrived(s, {"login", "register"}, {"twofactor", "unauthorized", "refused", "error"})
  /\ ~Intercepted(s)
  /\ Done(s)
  /\ FormTold(s)
  /\ UNCHANGED <<cookie, enabled, totp, location, auth, acts, overlapped, signedOut>>

\* checkAuth ends, and then what called it.
MeArrives(s) ==
  /\ Arrived(s, {"me"}, Answers \ {None}) /\ ~Intercepted(s)
  /\ Show(IF calls[s].then = None THEN location ELSE calls[s].then,
          IF calls[s].answer = "ok"
          THEN [user |-> calls[s].cookie, isAuthenticated |-> TRUE, isLoading |-> FALSE]
          ELSE NoUser)
  /\ Done(s)
  /\ UNCHANGED <<cookie, enabled, totp, acts, overlapped, signedOut>>

\* Mutant: the answer to logout leaves the cookies.
ClearedNever(s) == cookie

\* The cookies an answer to logout leaves.
Cleared(s) == IF calls[s].answer = "ok" THEN None ELSE cookie

\* Mutant: the store forgets the user and stays authenticated.
ForgottenUser == [auth EXCEPT !.user = None]

\* The store after logout.
Forgotten == [NoUser EXCEPT !.isLoading = auth.isLoading]

\* The store forgets the user however the call ended; the cookie goes if it succeeded.
LogoutArrives(s) ==
  /\ Arrived(s, {"logout"}, {"ok", "error"})
  /\ cookie' = Cleared(s)
  /\ signedOut' = (calls[s].answer = "ok")
  /\ Show(IF calls[s].answer = "ok" THEN "login" ELSE location, Forgotten)
  /\ Done(s)
  /\ UNCHANGED <<enabled, totp, acts, overlapped>>

\* window.location: the login page is loaded anew.
Unauthorized(s) ==
  /\ Intercepted(s)
  /\ Load("login")
  /\ UNCHANGED <<cookie, enabled, totp, acts>>

\* setUser, with the user of the handler, and nothing on a failure.
AccountArrives(s) ==
  /\ Arrived(s, {"account"}, {"ok", "error"})
  /\ Show(location, IF calls[s].answer = "ok"
                    THEN [auth EXCEPT !.user = calls[s].user,
                                      !.isAuthenticated = calls[s].user # None]
                    ELSE auth)
  /\ Done(s)
  /\ UNCHANGED <<cookie, enabled, totp, acts, overlapped, signedOut>>

\* What a page shows of its data is not the session's.
DataArrives(s) ==
  /\ Arrived(s, {"data"}, Answers \ {None}) /\ ~Intercepted(s)
  /\ Done(s)
  /\ UNCHANGED <<cookie, enabled, totp, location, auth, busy, acts, overlapped, signedOut>>

Arrive(s) ==
  \/ Proceed(s) \/ FormFails(s) \/ MeArrives(s) \/ LogoutArrives(s)
  \/ Unauthorized(s) \/ AccountArrives(s) \/ DataArrives(s)

UserActs ==
  \/ SubmitLogin \/ SubmitRegister \/ ClickLogout \/ Request \/ ClickAccount
  \/ Navigate \/ Reload

Next ==
  \/ UserActs \/ Expire \/ (\E u \in Users : Disable(u))
  \/ \E s \in Slots : Serve(s) \/ Arrive(s)

\* A call is answered or fails in the end.
Spec ==
  /\ Init /\ [][Next]_vars
  /\ \A s \in Slots : WF_vars(Serve(s)) /\ WF_vars(Arrive(s))

-----------------------------------------------------------------------------
TypeOK ==
  /\ cookie \in Users \cup {None} /\ {enabled, totp} \subseteq SUBSET Users
  /\ location \in Routes
  /\ auth \in [user : Users \cup {None}, isAuthenticated : BOOLEAN, isLoading : BOOLEAN]
  /\ auth.isAuthenticated <=> auth.user # None
  /\ \A s \in Slots : calls[s] # None =>
       calls[s].op \in Ops /\ calls[s].answer \in Answers
  /\ acts \in 0 .. MaxActs
  /\ {busy, overlapped, signedOut} \subseteq BOOLEAN

\* Whom the pages show is whom the backend will take the next request for, after any
\* logins, registrations, reloads and changes of the account, unless two calls that end in
\* the store overlapped: a 2FA verification that ends after a logout shows its user again.
ShownUserIsSession ==
  auth.isAuthenticated /\ ~auth.isLoading /\ cookie # None /\ ~overlapped
    => auth.user = cookie

\* After a logout that succeeded the browser holds no session and the pages show no
\* user, until somebody logs in again, unless a call that ends in the store overlapped it.
SignedOutStays == signedOut /\ ~overlapped => cookie = None /\ ~auth.isAuthenticated

\* Whatever the user has done, in the end every answer is there, the spinner is gone and
\* the login page does not load itself again and again.
Settles == <>[](Free = Slots /\ ~auth.isLoading)

\* Someone whose session has ended does not stay on a page behind the login after the
\* backend has refused a request of it.
RefusedLeaves ==
  \A s \in Slots :
    (calls[s] # None /\ calls[s].op = "data" /\ calls[s].answer = "unauthorized")
      ~> (auth.isLoading \/ location = "login")

\* Why: calls that do not overlap are at most one, or all of the account page; a checkAuth in
\* flight asks with the session the browser has, and a handler of the account page keeps its
\* user.  After a logout that nothing overlapped nothing in flight can bring a user back.
Calls == [op : Ops, user : Users \cup {None}, cookie : Users \cup {None}, answer : Answers,
          then : {None, "dashboard"}, page : Routes]

PortalInv ==
  /\ TypeOK /\ ShownUserIsSession /\ SignedOutStays
  /\ calls \in [Slots -> Calls \cup {None}]
  /\ \A s \in Slots : calls[s] # None /\ calls[s].answer = "ok" =>
       /\ calls[s].op = "login" => calls[s].user \in Users
       /\ calls[s].op \in {"me", "logout", "account", "data"} => calls[s].cookie \in Users
  /\ \A s \in Slots : calls[s] # None /\ calls[s].op = "account" => calls[s].user \in Users
  /\ ~overlapped =>
       /\ \A s, t \in Slots : SessionCall(s) /\ SessionCall(t) =>
            s = t \/ (calls[s].op = "account" /\ calls[t].op = "account")
       /\ \A s \in Slots : calls[s] # None /\ calls[s].op = "me" /\ cookie # None =>
            calls[s].cookie = cookie
       /\ \A s \in Slots : calls[s] # None /\ calls[s].op = "account" /\ cookie # None =>
            calls[s].user = cookie
       /\ signedOut => \A s \in Slots : calls[s] # None =>
            /\ calls[s].op \notin {"login", "account"}
            /\ calls[s].op = "me" => calls[s].cookie = None
=============================================================================
