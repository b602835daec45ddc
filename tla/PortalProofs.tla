----------------------------- MODULE PortalProofs -----------------------------
(***************************************************************************)
(* Whom the pages show and whom the backend takes the browser for: the     *)
(* invariants of Portal, for any users, any number of calls in flight and  *)
(* a visit of any length.                                                  *)
(***************************************************************************)
EXTENDS Portal, TLAPS

\* What the store holds.
Auth == [user : Users \cup {None}, isAuthenticated : BOOLEAN, isLoading : BOOLEAN]
Known(a) == a \in Auth /\ (a.isAuthenticated <=> a.user # None)

\* The invariant's types, unfolded once.
LEMMA PortalTypes ==
  ASSUME PortalInv
  PROVE  /\ cookie \in Users \cup {None} /\ location \in Routes
         /\ enabled \subseteq Users /\ totp \subseteq Users
         /\ Known(auth) /\ calls \in [Slots -> Calls \cup {None}] /\ acts \in 0 .. MaxActs
         /\ busy \in BOOLEAN /\ overlapped \in BOOLEAN /\ signedOut \in BOOLEAN
BY DEF PortalInv, TypeOK, Known, Auth

\* And what types of the next state are enough.
LEMMA PortalTyped ==
  ASSUME cookie' \in Users \cup {None}, enabled' \subseteq Users, totp' \subseteq Users,
         location' \in Routes,
         Known(auth'), calls' \in [Slots -> Calls \cup {None}], acts' \in 0 .. MaxActs,
         busy' \in BOOLEAN, overlapped' \in BOOLEAN, signedOut' \in BOOLEAN
  PROVE  TypeOK'
<1>1. \A s \in Slots : calls'[s] # None => calls'[s].op \in Ops /\ calls'[s].answer \in Answers
  BY DEF Calls
<1> QED
  BY <1>1 DEF TypeOK, Known, Auth

\* The router shows a route.
LEMMA PortalShow ==
  ASSUME NEW l \in Routes, NEW a, busy \in BOOLEAN, Show(l, a)
  PROVE  auth' = a /\ location' \in Routes /\ busy' \in BOOLEAN
BY DEF Show, Routed, Routes

\* The stores there are.
LEMMA PortalStores ==
  ASSUME PortalInv
  PROVE  /\ Known(NoUser) /\ NoUser.isAuthenticated = FALSE
         /\ Known([NoUser EXCEPT !.isLoading = TRUE])
         /\ [NoUser EXCEPT !.isLoading = TRUE].isAuthenticated = FALSE
         /\ Known(Forgotten) /\ Forgotten.isAuthenticated = FALSE
         /\ Known([auth EXCEPT !.isLoading = TRUE])
         /\ [auth EXCEPT !.isLoading = TRUE].isLoading = TRUE
         /\ [auth EXCEPT !.isLoading = TRUE].isAuthenticated = auth.isAuthenticated
         /\ \A u \in Users :
              /\ Known([user |-> u, isAuthenticated |-> TRUE, isLoading |-> FALSE])
              /\ Known([auth EXCEPT !.user = u, !.isAuthenticated = u # None])
              /\ [auth EXCEPT !.user = u, !.isAuthenticated = u # None].user = u
BY PortalTypes, PortalAssumption DEF Known, Auth, NoUser, Forgotten

\* A call carries the cookie of its moment.
LEMMA PortalCall ==
  ASSUME PortalInv, NEW op \in Ops, NEW u \in Users \cup {None}, NEW then \in {None, "dashboard"}
  PROVE  /\ Call(op, u, then) \in Calls /\ Call(op, u, then).op = op
         /\ Call(op, u, then).user = u /\ Call(op, u, then).cookie = cookie
         /\ Call(op, u, then).answer = None
BY PortalTypes DEF Call, Calls, Answers

\* And that of a session which has just begun.
LEMMA PortalCallAs ==
  ASSUME PortalInv, NEW op \in Ops, NEW u \in Users \cup {None}, NEW then \in {None, "dashboard"},
         NEW k \in Users \cup {None}
  PROVE  /\ [Call(op, u, then) EXCEPT !.cookie = k] \in Calls
         /\ [Call(op, u, then) EXCEPT !.cookie = k].op = op
         /\ [Call(op, u, then) EXCEPT !.cookie = k].cookie = k
         /\ [Call(op, u, then) EXCEPT !.cookie = k].answer = None
BY PortalTypes DEF Call, Calls, Answers

\* A document is loaded: one call of the session, with the session there is.
LEMMA LoadKeeps ==
  ASSUME PortalInv, NEW l \in Routes, Load(l), UNCHANGED <<cookie, enabled, totp>>,
         acts' \in 0 .. MaxActs
  PROVE  PortalInv'
<1>1. PICK c \in Calls : /\ c = Call("me", None, None) /\ c.op = "me" /\ c.cookie = cookie
                         /\ c.answer = None
  <2>1. "me" \in Ops /\ None \in Users \cup {None} /\ None \in {None, "dashboard"}
    BY DEF Ops
  <2>2. LET c == Call("me", None, None)
        IN  c \in Calls /\ c.op = "me" /\ c.cookie = cookie /\ c.answer = None
    BY <2>1, PortalCall
  <2> QED
    BY <2>2
<1>2. /\ calls' \in [Slots -> Calls \cup {None}]
      /\ \A s \in Slots : calls'[s] = IF s = First THEN c ELSE None
  BY <1>1 DEF Load
<1>3. /\ Known(auth') /\ auth'.isAuthenticated = FALSE /\ location' \in Routes /\ busy' = FALSE
      /\ overlapped' = FALSE /\ signedOut' = FALSE
  BY PortalStores DEF Load
<1>4. TypeOK'
  BY <1>2, <1>3, PortalTypes, PortalTyped
<1>5. ShownUserIsSession' /\ SignedOutStays'
  BY <1>3 DEF ShownUserIsSession, SignedOutStays
<1>6. None # "ok"
  BY PortalAssumption
<1> QED
  BY <1>1, <1>2, <1>3, <1>4, <1>5, <1>6 DEF PortalInv, SessionCall

\* A call is sent; one of the session beside another is remembered.
LEMMA SendKeeps ==
  ASSUME PortalInv, NEW op \in {"login", "register", "logout", "account", "data"},
         NEW u \in Users \cup {None}, Send(op, u),
         UNCHANGED <<cookie, enabled, totp, location, auth>>, busy' \in BOOLEAN,
         acts' \in 0 .. MaxActs, signedOut' \in {signedOut, FALSE}, op = "login" => ~signedOut',
         op = "account" => u = auth.user /\ auth.isAuthenticated /\ ~auth.isLoading
  PROVE  PortalInv'
<1>1. PICK n \in Slots : calls[n] = None /\ calls' = [calls EXCEPT ![n] = Call(op, u, None)]
  <2>1. (CHOOSE s \in Free : TRUE) \in Free
    BY DEF Send
  <2> QED
    BY <2>1 DEF Send, Free
<1>2. PICK c \in Calls : c.op = op /\ c.user = u /\ c.answer = None /\ c = Call(op, u, None)
  <2>1. op \in Ops /\ None \in Users \cup {None} /\ None \in {None, "dashboard"}
    BY DEF Ops
  <2>2. LET c == Call(op, u, None)
        IN  c \in Calls /\ c.op = op /\ c.user = u /\ c.answer = None
    BY <2>1, PortalCall
  <2> QED
    BY <2>2
<1>3. /\ calls' \in [Slots -> Calls \cup {None}]
      /\ \A s \in Slots : calls'[s] = IF s = n THEN c ELSE calls[s]
  BY <1>1, <1>2, PortalTypes
<1>4. /\ overlapped' \in BOOLEAN /\ (overlapped => overlapped')
      /\ ~overlapped' /\ op # "data" => \A s \in Slots :
           SessionCall(s) => op = "account" /\ calls[s].op = "account"
  BY PortalTypes DEF Send, Clash
<1>5. TypeOK'
  BY <1>3, <1>4, PortalTypes, PortalTyped
<1>6. ShownUserIsSession' /\ SignedOutStays'
  <2>1. signedOut' => signedOut
    BY PortalTypes
  <2>2. ShownUserIsSession /\ SignedOutStays
    BY DEF PortalInv
  <2>3. ShownUserIsSession'
    BY <1>4, <2>2 DEF ShownUserIsSession
  <2>4. SignedOutStays'
    BY <1>4, <2>1, <2>2 DEF SignedOutStays
  <2> QED
    BY <2>3, <2>4
<1>7. None # "ok"
  BY PortalAssumption
<1>8. \A s \in Slots : SessionCall(s)' <=> IF s = n THEN op # "data" /\ c # None ELSE SessionCall(s)
  BY <1>2, <1>3 DEF SessionCall
<1>9. ~overlapped' => \A s, t \in Slots : SessionCall(s)' /\ SessionCall(t)' =>
         s = t \/ (calls'[s].op = "account" /\ calls'[t].op = "account")
  BY <1>1, <1>2, <1>3, <1>4, <1>8 DEF PortalInv
<1>10. \A s \in Slots : calls'[s] # None /\ calls'[s].answer = "ok" =>
         /\ calls'[s].op = "login" => calls'[s].user \in Users
         /\ calls'[s].op \in {"me", "logout", "account", "data"} => calls'[s].cookie \in Users
  BY <1>2, <1>3, <1>7 DEF PortalInv
<1>12. op = "account" => u \in Users /\ (~overlapped => (cookie # None => u = cookie))
                         /\ (~overlapped => ~signedOut)
  BY PortalTypes DEF PortalInv, ShownUserIsSession, SignedOutStays, Known
<1>13. \A s \in Slots : calls'[s] # None /\ calls'[s].op = "account" => calls'[s].user \in Users
  BY <1>2, <1>3, <1>12 DEF PortalInv
<1>11. ~overlapped' =>
         /\ \A s \in Slots : calls'[s] # None /\ calls'[s].op = "me" /\ cookie' # None =>
              calls'[s].cookie = cookie'
         /\ \A s \in Slots : calls'[s] # None /\ calls'[s].op = "account" /\ cookie' # None =>
              calls'[s].user = cookie'
         /\ signedOut' => \A s \in Slots : calls'[s] # None =>
              /\ calls'[s].op \notin {"login", "account"}
              /\ calls'[s].op = "me" => calls'[s].cookie = None
  BY <1>2, <1>3, <1>4, <1>12, PortalTypes, ZenonT(40) DEF PortalInv
<1> QED
  BY <1>3, <1>5, <1>6, <1>9, <1>10, <1>11, <1>13 DEF PortalInv

\* A call has ended, and the session is still there or gone.
LEMMA DoneKeeps ==
  ASSUME PortalInv, NEW s \in Slots, Done(s),
         UNCHANGED <<enabled, totp, acts, overlapped, signedOut>>,
         cookie' = cookie, location' \in Routes, busy' \in BOOLEAN, Known(auth'),
         ShownUserIsSession', SignedOutStays'
  PROVE  PortalInv'
<1>1. /\ calls' \in [Slots -> Calls \cup {None}]
      /\ \A t \in Slots : calls'[t] = IF t = s THEN None ELSE calls[t]
  BY PortalTypes DEF Done
<1>2. TypeOK'
  BY <1>1, PortalTypes, PortalTyped
<1>3. \A t \in Slots : SessionCall(t)' => SessionCall(t) /\ calls'[t] = calls[t]
  BY <1>1 DEF SessionCall
<1>4. ~overlapped' => \A t, q \in Slots : SessionCall(t)' /\ SessionCall(q)' =>
        t = q \/ (calls'[t].op = "account" /\ calls'[q].op = "account")
  BY <1>3 DEF PortalInv
<1>5. \A t \in Slots : calls'[t] # None => calls'[t] = calls[t]
  BY <1>1
<1> QED
  BY <1>1, <1>2, <1>4, <1>5 DEF PortalInv

\* The answers after which neither the session nor the store changes.
LEMMA QuietKeeps ==
  ASSUME PortalInv, NEW s \in Slots, FormFails(s) \/ DataArrives(s)
  PROVE  PortalInv'
<1>1. /\ Done(s) /\ UNCHANGED <<cookie, enabled, totp, location, auth, acts, overlapped, signedOut>>
      /\ busy' \in BOOLEAN
  BY PortalTypes DEF FormFails, DataArrives, FormTold
<1>2. ShownUserIsSession' /\ SignedOutStays'
  BY <1>1 DEF PortalInv, ShownUserIsSession, SignedOutStays
<1> QED
  BY <1>1, <1>2, PortalTypes, DoneKeeps

\* checkAuth ends with the user its call was sent as.
LEMMA MeArrivesKeeps ==
  ASSUME PortalInv, NEW s \in Slots, MeArrives(s)
  PROVE  PortalInv'
<1>1. PICK a, l : /\ l = (IF calls[s].then = None THEN location ELSE calls[s].then)
                  /\ a = IF calls[s].answer = "ok"
                         THEN [user |-> calls[s].cookie, isAuthenticated |-> TRUE,
                               isLoading |-> FALSE]
                         ELSE NoUser
  OBVIOUS
<1>2. /\ calls[s] # None /\ calls[s].op = "me" /\ Show(l, a) /\ Done(s)
      /\ UNCHANGED <<cookie, enabled, totp, acts, overlapped, signedOut>>
  BY <1>1 DEF MeArrives, Arrived
<1>3. calls[s] \in Calls
  BY <1>2, PortalTypes
<1>4. l \in Routes
  BY <1>1, <1>3, PortalTypes DEF Calls, Routes
<1>5. auth' = a /\ location' \in Routes /\ busy' \in BOOLEAN
  BY <1>2, <1>4, PortalTypes, PortalShow
<1>6. CASE calls[s].answer = "ok"
  <2>1. calls[s].cookie \in Users
    BY <1>2, <1>6 DEF PortalInv
  <2>2. Known(a) /\ a.user = calls[s].cookie /\ a.isAuthenticated = TRUE
    BY <1>1, <1>6, <2>1, PortalStores
  <2>3. ~overlapped /\ cookie # None => calls[s].cookie = cookie
    BY <1>2 DEF PortalInv
  <2>4. signedOut => overlapped
    BY <1>2, <2>1, PortalTypes, PortalAssumption DEF PortalInv
  <2>5. ShownUserIsSession' /\ SignedOutStays'
    BY <1>2, <1>5, <2>2, <2>3, <2>4 DEF ShownUserIsSession, SignedOutStays
  <2> QED
    BY <1>2, <1>5, <2>2, <2>5, DoneKeeps
<1>7. CASE calls[s].answer # "ok"
  <2>1. a = NoUser
    BY <1>1, <1>7
  <2>2. Known(a) /\ a.isAuthenticated = FALSE
    BY <2>1, PortalStores
  <2>3. ShownUserIsSession' /\ SignedOutStays'
    BY <1>2, <1>5, <2>2 DEF PortalInv, ShownUserIsSession, SignedOutStays
  <2> QED
    BY <1>2, <1>5, <2>2, <2>3, DoneKeeps
<1> QED
  BY <1>6, <1>7

\* setUser writes the user its handler was rendered with.
LEMMA AccountArrivesKeeps ==
  ASSUME PortalInv, NEW s \in Slots, AccountArrives(s)
  PROVE  PortalInv'
<1>1. PICK a : a = IF calls[s].answer = "ok"
                   THEN [auth EXCEPT !.user = calls[s].user,
                                     !.isAuthenticated = calls[s].user # None]
                   ELSE auth
  OBVIOUS
<1>2. /\ calls[s] # None /\ calls[s].op = "account" /\ Show(location, a) /\ Done(s)
      /\ UNCHANGED <<cookie, enabled, totp, acts, overlapped, signedOut>>
  BY <1>1 DEF AccountArrives, Arrived
<1>3. auth' = a /\ location' \in Routes /\ busy' \in BOOLEAN
  BY <1>2, PortalTypes, PortalShow
<1>4. calls[s].user \in Users
  BY <1>2 DEF PortalInv
<1>5. /\ Known(a) /\ (a = auth \/ a.user = calls[s].user)
  BY <1>1, <1>4, PortalTypes, PortalStores
<1>6. ~overlapped => /\ cookie # None => calls[s].user = cookie
                     /\ ~signedOut
  BY <1>2 DEF PortalInv
<1>7. ShownUserIsSession'
  <2>1. CASE a = auth
    BY <1>2, <1>3, <2>1 DEF PortalInv, ShownUserIsSession
  <2>2. CASE a.user = calls[s].user
    BY <1>2, <1>3, <1>6, <2>2 DEF ShownUserIsSession
  <2> QED
    BY <1>5, <2>1, <2>2
<1>8. SignedOutStays'
  BY <1>2, <1>6 DEF SignedOutStays
<1> QED
  BY <1>2, <1>3, <1>5, <1>7, <1>8, DoneKeeps

\* logout forgets the user, and the session if the backend has.
LEMMA LogoutArrivesKeeps ==
  ASSUME PortalInv, NEW s \in Slots, LogoutArrives(s)
  PROVE  PortalInv'
<1>1. PICK a, l : a = Forgotten /\ l = (IF calls[s].answer = "ok" THEN "login" ELSE location)
  OBVIOUS
<1>2. /\ SessionCall(s) /\ cookie' \in {cookie, None} /\ (signedOut' => cookie' = None)
      /\ signedOut' \in BOOLEAN /\ Show(l, a) /\ Done(s)
      /\ UNCHANGED <<enabled, totp, acts, overlapped>>
  BY <1>1 DEF LogoutArrives, Arrived, SessionCall, Cleared
<1>3. l \in Routes
  BY <1>1, PortalTypes DEF Routes
<1>4. auth' = a /\ location' \in Routes /\ busy' \in BOOLEAN
  BY <1>2, <1>3, PortalTypes, PortalShow
<1>5. Known(auth') /\ auth'.isAuthenticated = FALSE
  BY <1>1, <1>4, PortalStores
<1>6. /\ calls' \in [Slots -> Calls \cup {None}]
      /\ \A t \in Slots : calls'[t] = IF t = s THEN None ELSE calls[t]
  BY <1>2, PortalTypes DEF Done
<1>7. TypeOK'
  BY <1>2, <1>4, <1>5, <1>6, PortalTypes, PortalTyped
<1>8. ShownUserIsSession' /\ SignedOutStays'
  BY <1>2, <1>5 DEF ShownUserIsSession, SignedOutStays
<1>9. ~overlapped' => \A t \in Slots : ~SessionCall(t)'
  <2>1. calls[s].op = "logout"
    BY DEF LogoutArrives, Arrived
  <2> QED
    BY <1>2, <1>6, <2>1 DEF PortalInv, SessionCall
<1>10. ~overlapped' => \A t \in Slots : calls'[t] # None => calls'[t].op = "data"
  BY <1>9 DEF SessionCall
<1>11. \A t \in Slots : calls'[t] # None /\ calls'[t].answer = "ok" =>
         /\ calls'[t].op = "login" => calls'[t].user \in Users
         /\ calls'[t].op \in {"me", "logout", "account", "data"} => calls'[t].cookie \in Users
  BY <1>6 DEF PortalInv
<1> QED
  BY <1>6, <1>7, <1>8, <1>9, <1>10, <1>11 DEF PortalInv

\* login and register go on with checkAuth.
LEMMA ProceedKeeps ==
  ASSUME PortalInv, NEW s \in Slots, Proceed(s)
  PROVE  PortalInv'
<1>1. PICK k, a, c : /\ k = (IF calls[s].op = "login" THEN calls[s].user ELSE cookie)
                     /\ a = [auth EXCEPT !.isLoading = TRUE]
                     /\ c = [Call("me", None, "dashboard") EXCEPT !.cookie = k]
  OBVIOUS
<1>2. /\ calls[s] # None /\ calls[s].op \in {"login", "register"} /\ calls[s].answer = "ok"
      /\ cookie' = k /\ Show(location, a) /\ calls' = [calls EXCEPT ![s] = c]
      /\ overlapped' = (overlapped \/ \E t \in Slots \ {s} : Clash("me", t))
      /\ UNCHANGED <<enabled, totp, acts, signedOut>>
  BY <1>1 DEF Proceed, CheckAuth, Arrived
<1>3. k \in Users \cup {None}
  BY <1>1, <1>2, PortalTypes DEF PortalInv
<1>4. c \in Calls /\ c.op = "me" /\ c.cookie = k /\ c.answer = None
  <2>1. "me" \in Ops /\ None \in Users \cup {None} /\ "dashboard" \in {None, "dashboard"}
    BY DEF Ops
  <2> QED
    BY <1>1, <1>3, <2>1, PortalCallAs
<1>5. auth' = a /\ location' \in Routes /\ busy' \in BOOLEAN
  BY <1>2, PortalTypes, PortalShow
<1>6. Known(a) /\ a.isLoading = TRUE /\ a.isAuthenticated = auth.isAuthenticated
  BY <1>1, PortalStores
<1>7. /\ calls' \in [Slots -> Calls \cup {None}]
      /\ \A t \in Slots : calls'[t] = IF t = s THEN c ELSE calls[t]
  BY <1>2, <1>4, PortalTypes
<1>8. /\ overlapped' \in BOOLEAN /\ (overlapped => overlapped')
      /\ ~overlapped' => \A t \in Slots \ {s} : ~SessionCall(t)
  BY <1>2, PortalTypes DEF Clash
<1>9. TypeOK'
  BY <1>2, <1>3, <1>5, <1>6, <1>7, <1>8, PortalTypes, PortalTyped
<1>10. signedOut /\ ~overlapped => k = None
  BY <1>1, <1>2 DEF PortalInv, SignedOutStays
<1>11. ShownUserIsSession' /\ SignedOutStays'
  BY <1>2, <1>5, <1>6, <1>8, <1>10 DEF PortalInv, ShownUserIsSession, SignedOutStays
<1>12. \A t \in Slots : calls'[t] # None /\ calls'[t].answer = "ok" =>
         /\ calls'[t].op = "login" => calls'[t].user \in Users
         /\ calls'[t].op \in {"me", "logout", "account", "data"} => calls'[t].cookie \in Users
  BY <1>4, <1>7, PortalAssumption DEF PortalInv
<1>13. ~overlapped' => \A t \in Slots \ {s} : calls'[t] # None => calls'[t].op = "data"
  BY <1>7, <1>8 DEF SessionCall
<1>14. ~overlapped' =>
         /\ \A t, q \in Slots : SessionCall(t)' /\ SessionCall(q)' => t = q
         /\ \A t \in Slots : calls'[t] # None /\ calls'[t].op = "me" /\ cookie' # None =>
              calls'[t].cookie = cookie'
         /\ \A t \in Slots : calls'[t] # None => calls'[t].op # "account"
         /\ signedOut' => \A t \in Slots : calls'[t] # None =>
              /\ calls'[t].op \notin {"login", "account"}
              /\ calls'[t].op = "me" => calls'[t].cookie = None
  BY <1>2, <1>4, <1>7, <1>8, <1>10, <1>13 DEF SessionCall
<1>15. \A t \in Slots : calls'[t] # None /\ calls'[t].op = "account" => calls'[t].user \in Users
  BY <1>4, <1>7 DEF PortalInv
<1> QED
  BY <1>7, <1>9, <1>11, <1>12, <1>14, <1>15 DEF PortalInv

\* The cookie expires, in the calls the backend has not looked at too.
LEMMA ExpireKeeps ==
  ASSUME PortalInv, Expire
  PROVE  PortalInv'
<1>1. /\ cookie' = None /\ acts' \in 0 .. MaxActs
      /\ UNCHANGED <<enabled, totp, location, auth, busy, overlapped, signedOut>>
  BY PortalTypes, PortalAssumption DEF Expire, Act
<1>2. \A s \in Slots : calls[s] # None =>
        /\ calls[s] \in Calls
        /\ [calls[s] EXCEPT !.cookie = None] \in Calls
        /\ [calls[s] EXCEPT !.cookie = None].op = calls[s].op
        /\ [calls[s] EXCEPT !.cookie = None].answer = calls[s].answer
        /\ [calls[s] EXCEPT !.cookie = None].user = calls[s].user
        /\ [calls[s] EXCEPT !.cookie = None].cookie = None
  BY PortalTypes DEF Calls
<1>3. calls' \in [Slots -> Calls \cup {None}]
  BY <1>2, PortalTypes DEF Expire
<1>4. ASSUME NEW s \in Slots, calls'[s] # None
      PROVE  /\ calls[s] # None /\ calls'[s].op = calls[s].op
             /\ calls'[s].answer = calls[s].answer /\ calls'[s].user = calls[s].user
             /\ calls'[s].cookie \in {calls[s].cookie, None}
             /\ calls[s].answer = "ok" => calls'[s].cookie = calls[s].cookie
  BY <1>2, <1>4, PortalAssumption DEF Expire
<1>5. TypeOK'
  BY <1>1, <1>3, PortalTypes, PortalTyped
<1>6. ShownUserIsSession' /\ SignedOutStays'
  BY <1>1 DEF PortalInv, ShownUserIsSession, SignedOutStays
<1>7. \A s \in Slots : SessionCall(s)' => SessionCall(s)
  BY <1>4 DEF SessionCall
<1>8. \A s \in Slots : calls'[s] # None /\ calls'[s].answer = "ok" =>
         /\ calls'[s].op = "login" => calls'[s].user \in Users
         /\ calls'[s].op \in {"me", "logout", "account", "data"} => calls'[s].cookie \in Users
  BY <1>4 DEF PortalInv
<1>9. ~overlapped' /\ signedOut' => \A s \in Slots : calls'[s] # None =>
         /\ calls'[s].op \notin {"login", "account"}
         /\ calls'[s].op = "me" => calls'[s].cookie = None
  BY <1>1, <1>4 DEF PortalInv
<1>10. \A s \in Slots : calls'[s] # None /\ calls'[s].op = "account" => calls'[s].user \in Users
  BY <1>4 DEF PortalInv
<1>11. ~overlapped' => \A s, t \in Slots : SessionCall(s)' /\ SessionCall(t)' =>
         s = t \/ (calls'[s].op = "account" /\ calls'[t].op = "account")
  BY <1>1, <1>4, <1>7 DEF PortalInv, SessionCall
<1>12. /\ \A s \in Slots : calls'[s] # None /\ calls'[s].op = "me" /\ cookie' # None =>
            calls'[s].cookie = cookie'
       /\ \A s \in Slots : calls'[s] # None /\ calls'[s].op = "account" /\ cookie' # None =>
            calls'[s].user = cookie'
  BY <1>1
<1> QED
  BY <1>3, <1>5, <1>6, <1>8, <1>9, <1>10, <1>11, <1>12 DEF PortalInv

\* The backend answers a call, from the session the call carries.
LEMMA ServeKeeps ==
  ASSUME PortalInv, NEW s \in Slots, Serve(s)
  PROVE  PortalInv'
<1>1. PICK answer \in Answered(calls[s]) \cup {"error"} :
        /\ calls' = [calls EXCEPT ![s].answer = answer]
        /\ totp' = totp \cup IF calls[s].op = "account" /\ answer = "ok"
                            THEN {calls[s].cookie} ELSE {}
  BY DEF Serve
<1>2. /\ calls[s] # None
      /\ UNCHANGED <<cookie, enabled, location, auth, busy, acts, overlapped, signedOut>>
  BY DEF Serve
<1>3. calls[s] \in Calls
  BY <1>2, PortalTypes
<1>4. /\ answer \in Answers
      /\ answer = "ok" /\ calls[s].op = "login" => calls[s].user \in Users
      /\ answer = "ok" /\ calls[s].op \in {"me", "logout", "account", "data"} =>
           calls[s].cookie \in Users
  <2>1. CASE calls[s].op = "login"
    BY <2>1, PortalTypes DEF Answered, Answers
  <2>2. CASE calls[s].op = "register"
    BY <2>2 DEF Answered, Answers
  <2>3. CASE calls[s].op \notin {"login", "register"}
    BY <2>3, PortalTypes DEF Answered, Answers
  <2> QED
    BY <2>1, <2>2, <2>3
<1> DEFINE x == [calls[s] EXCEPT !.answer = answer]
<1>5. /\ x \in Calls /\ x.op = calls[s].op /\ x.user = calls[s].user
      /\ x.cookie = calls[s].cookie /\ x.answer = answer
  BY <1>3, <1>4 DEF Calls
<1>6. calls' = [calls EXCEPT ![s] = x]
  BY <1>1, PortalTypes
<1> HIDE DEF x
<1>7. /\ calls' \in [Slots -> Calls \cup {None}]
      /\ \A t \in Slots : calls'[t] = IF t = s THEN x ELSE calls[t]
  BY <1>5, <1>6, PortalTypes
<1>8. TypeOK'
  <2>1. totp' \subseteq Users
    BY <1>1, <1>4, PortalTypes
  <2> QED
    BY <1>2, <1>7, <2>1, PortalTypes, PortalTyped
<1>9. ShownUserIsSession' /\ SignedOutStays'
  BY <1>2 DEF PortalInv, ShownUserIsSession, SignedOutStays
<1>10. \A t \in Slots : SessionCall(t)' => SessionCall(t)
  BY <1>2, <1>5, <1>7 DEF SessionCall
<1>11. \A t \in Slots : calls'[t] # None /\ calls'[t].answer = "ok" =>
         /\ calls'[t].op = "login" => calls'[t].user \in Users
         /\ calls'[t].op \in {"me", "logout", "account", "data"} => calls'[t].cookie \in Users
  BY <1>4, <1>5, <1>7 DEF PortalInv
<1>12. ~overlapped' =>
         /\ \A t \in Slots : calls'[t] # None /\ calls'[t].op = "me" /\ cookie' # None =>
              calls'[t].cookie = cookie'
         /\ \A t \in Slots : calls'[t] # None /\ calls'[t].op = "account" /\ cookie' # None =>
              calls'[t].user = cookie'
         /\ signedOut' => \A t \in Slots : calls'[t] # None =>
              /\ calls'[t].op \notin {"login", "account"}
              /\ calls'[t].op = "me" => calls'[t].cookie = None
  BY <1>2, <1>5, <1>7 DEF PortalInv
<1>13. \A t \in Slots : calls'[t] # None =>
         /\ calls[t] # None /\ calls'[t].op = calls[t].op /\ calls'[t].user = calls[t].user
  BY <1>2, <1>5, <1>7
<1>14. \A t \in Slots : calls'[t] # None /\ calls'[t].op = "account" => calls'[t].user \in Users
  BY <1>13 DEF PortalInv
<1>15. ~overlapped' => \A t, q \in Slots : SessionCall(t)' /\ SessionCall(q)' =>
         t = q \/ (calls'[t].op = "account" /\ calls'[q].op = "account")
  BY <1>2, <1>10, <1>13 DEF PortalInv, SessionCall
<1> QED
  BY <1>2, <1>7, <1>8, <1>9, <1>11, <1>12, <1>14, <1>15 DEF PortalInv

\* Steps that leave the calls, the cookie and who is shown alone.
LEMMA AroundKeeps ==
  ASSUME PortalInv, UNCHANGED <<cookie, auth, calls, overlapped, signedOut>>,
         enabled' \subseteq Users, totp' \subseteq Users, location' \in Routes,
         busy' \in BOOLEAN, acts' \in 0 .. MaxActs
  PROVE  PortalInv'
<1>1. TypeOK'
  BY PortalTypes, PortalTyped
<1>2. ShownUserIsSession' /\ SignedOutStays'
  BY DEF PortalInv, ShownUserIsSession, SignedOutStays
<1>3. \A s \in Slots : SessionCall(s)' <=> SessionCall(s)
  BY DEF SessionCall
<1> QED
  BY <1>1, <1>2, <1>3 DEF PortalInv

\* What the user does.
LEMMA UserActsKeep ==
  ASSUME PortalInv, UserActs
  PROVE  PortalInv'
<1>1. acts' \in 0 .. MaxActs
  BY PortalTypes, PortalAssumption
  DEF UserActs, SubmitLogin, SubmitRegister, ClickLogout, Request, ClickAccount, Navigate, Reload,
      Act
<1>2. CASE SubmitLogin
  <2>1. PICK u \in Users \cup {None} : Send("login", u)
    BY <1>2 DEF SubmitLogin
  <2> QED
    BY <1>1, <1>2, <2>1, SendKeeps DEF SubmitLogin
<1>3. CASE SubmitRegister
  BY <1>1, <1>3, SendKeeps DEF SubmitRegister
<1>4. CASE ClickLogout
  BY <1>1, <1>4, PortalTypes, SendKeeps DEF ClickLogout
<1>5. CASE Request
  BY <1>1, <1>5, PortalTypes, SendKeeps DEF Request
<1>6. CASE Navigate
  <2>1. PICK l \in Routes : Show(l, auth)
    BY <1>6 DEF Navigate, Routes
  <2> QED
    BY <1>1, <1>6, <2>1, PortalTypes, PortalShow, AroundKeeps DEF Navigate
<1>7. CASE Reload
  BY <1>1, <1>7, LoadKeeps DEF Reload
<1>8. CASE ClickAccount
  <2>1. auth.user \in Users \cup {None}
    BY PortalTypes DEF Known, Auth
  <2> QED
    BY <1>1, <1>8, <2>1, PortalTypes, SendKeeps DEF ClickAccount
<1> QED
  BY <1>2, <1>3, <1>4, <1>5, <1>6, <1>7, <1>8 DEF UserActs

\* Every step keeps the invariant.
LEMMA PortalStep == PortalInv /\ [Next]_vars => PortalInv'
<1> SUFFICES ASSUME PortalInv, [Next]_vars PROVE PortalInv'
  OBVIOUS
<1>1. CASE UNCHANGED vars
  BY <1>1, PortalTypes, AroundKeeps DEF vars
<1>2. CASE UserActs
  BY <1>2, UserActsKeep
<1>3. CASE Expire
  BY <1>3, ExpireKeeps
<1>4. CASE \E u \in Users : Disable(u)
  <2>1. /\ UNCHANGED <<cookie, totp, auth, calls, overlapped, signedOut, location, busy>>
        /\ enabled' \subseteq Users /\ acts' \in 0 .. MaxActs
    BY <1>4, PortalTypes, PortalAssumption DEF Disable, Act
  <2> QED
    BY <2>1, PortalTypes, AroundKeeps
<1>5. ASSUME NEW s \in Slots, Serve(s) PROVE PortalInv'
  BY <1>5, ServeKeeps
<1>6. ASSUME NEW s \in Slots, Arrive(s) PROVE PortalInv'
  <2>1. CASE Unauthorized(s)
    <3>1. Load("login") /\ UNCHANGED <<cookie, enabled, totp, acts>> /\ "login" \in Routes
      BY <2>1 DEF Unauthorized, Routes
    <3> QED
      BY <3>1, PortalTypes, LoadKeeps
  <2>2. CASE FormFails(s) \/ DataArrives(s)
    BY <2>2, QuietKeeps
  <2> QED
    BY <1>6, <2>1, <2>2, ProceedKeeps, MeArrivesKeeps, LogoutArrivesKeeps, AccountArrivesKeeps
    DEF Arrive
<1> QED
  BY <1>1, <1>2, <1>3, <1>4, <1>5, <1>6 DEF Next

\* The tab is opened without a session and asks for it.
LEMMA PortalInit == Init => PortalInv
<1> SUFFICES ASSUME Init PROVE PortalInv
  OBVIOUS
<1>1. PICK c : c = Call("me", None, None)
  OBVIOUS
<1>2. /\ cookie = None /\ enabled = Users /\ totp = Totp /\ location = "dashboard"
      /\ busy = FALSE /\ acts = 0 /\ overlapped = FALSE /\ signedOut = FALSE
      /\ auth = [NoUser EXCEPT !.isLoading = TRUE]
      /\ calls = [s \in Slots |-> IF s = First THEN c ELSE None]
  BY <1>1 DEF Init
<1>3. c \in Calls /\ c.op = "me" /\ c.cookie = None /\ c.answer = None
  BY <1>1, <1>2 DEF Call, Calls, Ops, Answers, Routes
<1>4. /\ calls \in [Slots -> Calls \cup {None}]
      /\ \A s \in Slots : calls[s] = IF s = First THEN c ELSE None
  BY <1>2, <1>3
<1>5. Known(auth) /\ auth.isAuthenticated = FALSE
  BY <1>2 DEF Known, Auth, NoUser
<1>6. TypeOK
  <2>1. \A s \in Slots : calls[s] # None => calls[s].op \in Ops /\ calls[s].answer \in Answers
    BY <1>4 DEF Calls
  <2>2. acts \in 0 .. MaxActs
    BY <1>2, PortalAssumption
  <2> QED
    BY <1>2, <1>5, <2>1, <2>2, PortalAssumption DEF TypeOK, Known, Auth, Routes
<1>7. ShownUserIsSession /\ SignedOutStays
  BY <1>2, <1>5 DEF ShownUserIsSession, SignedOutStays
<1> QED
  BY <1>2, <1>3, <1>4, <1>6, <1>7, PortalAssumption DEF PortalInv, SessionCall

\* The invariant of the tab holds in every behaviour.
THEOREM PortalAlways == Spec => []PortalInv
<1> QED
  BY PortalInit, PortalStep, PTL DEF Spec

\* The store, the cookie and the calls keep their types.
THEOREM TypeAlwaysOK == Spec => []TypeOK
<1>1. PortalInv => TypeOK
  BY DEF PortalInv
<1> QED
  BY <1>1, PortalAlways, PTL

\* Whom the pages show is whom the backend takes the browser for, unless two calls that end
\* in the store overlapped.
THEOREM ShownUserIsAlwaysSession == Spec => []ShownUserIsSession
<1>1. PortalInv => ShownUserIsSession
  BY DEF PortalInv
<1> QED
  BY <1>1, PortalAlways, PTL

\* After a logout that succeeded, and that no call that ends in the store overlapped, there is
\* no session and no user on screen until somebody logs in again.
THEOREM SignedOutAlwaysStays == Spec => []SignedOutStays
<1>1. PortalInv => SignedOutStays
  BY DEF PortalInv
<1> QED
  BY <1>1, PortalAlways, PTL
=============================================================================
