---------------------------- MODULE AccountProofs ----------------------------
(***************************************************************************)
(* Nobody is locked out of an account by handlers that save stale rows:    *)
(* the invariant SecondFactorPossible of Account, for any number of        *)
(* requests, sessions, secrets and codes.                                  *)
(***************************************************************************)
EXTENDS MCRows, TLAPS

\* The row of a new account satisfies what AccountInv asks of every row, and a request
\* that is not in progress is one with that row.
LEMMA IdlePossible ==
  /\ A!NewUser \in A!User
  /\ A!Possible(A!NewUser)
  /\ A!Idle \in A!Request
  /\ A!Idle.pc = "idle"
  /\ A!Idle.user = A!NewUser
<1>1. A!NewUser \in A!User
  BY DEF A!NewUser, A!User
<1>2. A!Possible(A!NewUser)
  BY DEF A!NewUser, A!Possible
<1> QED
  BY <1>1, <1>2 DEF A!Idle, A!Request

\* Init establishes the invariant: the row is that of a new account, no request holds one.
LEMMA InitAccountInv == A!Init => A!AccountInv
<1> SUFFICES ASSUME A!Init PROVE A!AccountInv
  OBVIOUS
<1>1. A!TypeOK
  BY IdlePossible DEF A!Init, A!TypeOK
<1>2. A!Possible(user) /\ \A r \in Requests : A!LoadedPossible(r)
  BY IdlePossible DEF A!Init, A!LoadedPossible
<1>3. \A r \in Requests : accountReq[r].pc = "idle"
  BY IdlePossible DEF A!Init
<1> QED
  BY <1>1, <1>2, <1>3 DEF A!AccountInv

\* What the steps below know of the state before them.
LEMMA Before ==
  ASSUME A!AccountInv, NEW r \in Requests
  PROVE  /\ user \in A!User /\ (~crossed => A!Possible(user))
         /\ accountReq[r] \in A!Request /\ accountReq[r].user \in A!User
         /\ ~crossed /\ accountReq[r].pc # "write" => A!Possible(accountReq[r].user)
         /\ ~crossed /\ accountReq[r].pc = "write" => A!Possible(A!Written(r))
         /\ accountReq[r].pc = "verify" => accountReq[r].user.pendingTotpSecret # None
         /\ accountReq[r].pc = "code" => accountReq[r].c \in Codes
         /\ session \in [Sessions -> {"none", "active", "revoked"}]
         /\ cookie \subseteq Sessions /\ challenge \in BOOLEAN
         /\ generated \subseteq Codes /\ used \subseteq Codes /\ crossed \in BOOLEAN
<1>1. accountReq[r] \in A!Request
  BY DEF A!AccountInv, A!TypeOK
<1>2. accountReq[r].user \in A!User
  BY <1>1 DEF A!Request
<1> QED
  BY <1>1, <1>2 DEF A!AccountInv, A!TypeOK, A!LoadedPossible

\* The columns of a save are written to a row that stays one.
LEMMA WrittenIsRow ==
  ASSUME A!AccountInv, NEW r \in Requests
  PROVE  A!Written(r) \in A!User
<1>1. user \in A!User /\ accountReq[r].user \in A!User
  BY Before
<1> QED
  BY <1>1 DEF A!Written, A!User

\* One request moves on and the row stays: if what it carries is possible, or will be once
\* it is written, and a verification carries a pending secret, the invariant is kept.
LEMMA RequestMoves ==
  ASSUME A!AccountInv, NEW r \in Requests, NEW rec \in A!Request,
         accountReq' = [accountReq EXCEPT ![r] = rec],
         ~crossed /\ rec.pc # "write" => A!Possible(rec.user),
         ~crossed /\ rec.pc = "write" => A!Possible(A!Written(r)'),
         rec.pc = "verify" => rec.user.pendingTotpSecret # None,
         rec.pc = "code" => rec.c \in Codes,
         user' = user, crossed' = crossed,
         session' \in [Sessions -> {"none", "active", "revoked"}],
         cookie' \subseteq Sessions, challenge' \in BOOLEAN,
         generated' \subseteq Codes, used' \subseteq Codes
  PROVE  A!AccountInv'
<1>1. A!TypeOK'
  BY DEF A!AccountInv, A!TypeOK
<1>2. accountReq'[r] = rec
  BY DEF A!AccountInv, A!TypeOK
<1>3. ASSUME NEW q \in Requests, q # r
      PROVE  accountReq'[q] = accountReq[q] /\ A!Written(q)' = A!Written(q)
  <2>1. accountReq'[q] = accountReq[q]
    BY <1>3 DEF A!AccountInv, A!TypeOK
  <2> QED
    BY <2>1 DEF A!Written
<1>4. \A q \in Requests :
        /\ accountReq'[q].pc = "verify" => accountReq'[q].user.pendingTotpSecret # None
        /\ accountReq'[q].pc = "code" => accountReq'[q].c \in Codes
  BY <1>2, <1>3 DEF A!AccountInv
<1>5. ~crossed' => A!Possible(user') /\ \A q \in Requests : A!LoadedPossible(q)'
  <2> SUFFICES ASSUME ~crossed PROVE A!Possible(user) /\ \A q \in Requests : A!LoadedPossible(q)'
    OBVIOUS
  <2>1. A!Possible(user)
    BY DEF A!AccountInv
  <2>2. A!LoadedPossible(r)'
    BY <1>2 DEF A!LoadedPossible
  <2>3. ASSUME NEW q \in Requests, q # r PROVE A!LoadedPossible(q)'
    <3>1. A!LoadedPossible(q)
      BY DEF A!AccountInv
    <3> QED
      BY <1>3, <2>3, <3>1 DEF A!LoadedPossible
  <2> QED
    BY <2>1, <2>2, <2>3
<1> QED
  BY <1>1, <1>4, <1>5 DEF A!AccountInv

\* A request that goes on without the row.
LEMMA RequestGoes ==
  ASSUME A!AccountInv, NEW r \in Requests, NEW pc \in {"session", "refresh"}, A!Goto(r, pc),
         user' = user, crossed' = crossed,
         session' \in [Sessions -> {"none", "active", "revoked"}],
         cookie' \subseteq Sessions, challenge' \in BOOLEAN,
         generated' \subseteq Codes, used' \subseteq Codes
  PROVE  A!AccountInv'
<1> DEFINE rec == A!Found(pc, accountReq[r].s)
<1>1. rec \in A!Request /\ rec.pc = pc /\ rec.user = A!NewUser
  BY Before, IdlePossible DEF A!Found, A!Request
<1>2. accountReq' = [accountReq EXCEPT ![r] = rec]
  BY DEF A!Goto
<1> HIDE DEF rec
<1> QED
  BY <1>1, <1>2, IdlePossible, RequestMoves

\* The records that requests are given have the type of a request.
LEMMA Records ==
  /\ \A pc \in {"password", "session", "code", "setup", "verify", "disable", "update"},
        u \in A!User, c \in Codes \cup {None}, e \in BOOLEAN :
       /\ A!Loaded(pc, u, c, e) \in A!Request
       /\ A!Loaded(pc, u, c, e).pc = pc
       /\ A!Loaded(pc, u, c, e).user = u
       /\ A!Loaded(pc, u, c, e).c = c
  /\ \A pc \in {"refresh_user", "revoke"}, s \in Sessions :
       /\ A!Found(pc, s) \in A!Request
       /\ A!Found(pc, s).pc = pc
       /\ A!Found(pc, s).user = A!NewUser
<1>1. A!NewUser \in A!User
  BY IdlePossible
<1> QED
  BY <1>1 DEF A!Loaded, A!Found, A!Request

\* A request that loads the row keeps the invariant,
LEMMA RequestLoads ==
  ASSUME A!AccountInv, NEW r \in Requests, NEW c \in Codes \cup {None}, NEW e \in BOOLEAN,
         NEW pc \in {"password", "session", "code", "setup", "verify", "disable", "update"},
         accountReq' = [accountReq EXCEPT ![r] = A!Loaded(pc, user, c, e)],
         pc = "verify" => user.pendingTotpSecret # None,
         pc = "code" => c \in Codes,
         UNCHANGED <<user, session, cookie, challenge, generated, used, crossed>>
  PROVE  A!AccountInv'
<1> DEFINE rec == A!Loaded(pc, user, c, e)
<1>1. rec \in A!Request /\ rec.pc = pc /\ rec.user = user /\ rec.c = c
  <2>1. user \in A!User
    BY DEF A!AccountInv, A!TypeOK
  <2> QED
    BY <2>1, Records
<1> HIDE DEF rec
<1>2. accountReq' = [accountReq EXCEPT ![r] = rec]
  BY DEF rec
<1> QED
  BY <1>1, <1>2, Before, RequestMoves

\* and so does one that ends and leaves the row,
LEMMA RequestEnds ==
  ASSUME A!AccountInv, NEW r \in Requests, A!Finish(r), user' = user, crossed' = crossed,
         session' \in [Sessions -> {"none", "active", "revoked"}],
         cookie' \subseteq Sessions, challenge' \in BOOLEAN,
         generated' \subseteq Codes, used' \subseteq Codes
  PROVE  A!AccountInv'
<1>1. accountReq' = [accountReq EXCEPT ![r] = A!Idle]
  BY DEF A!Finish
<1>2. A!Idle \in A!Request /\ A!Possible(A!Idle.user) /\ A!Idle.pc = "idle"
  BY IdlePossible
<1> QED
  BY <1>1, <1>2, RequestMoves

\* and one that selects what it will write: nobody has written the row yet, so that what is
\* written is what is to be saved, but for the columns that are undefined.
LEMMA RequestSelects ==
  ASSUME A!AccountInv, NEW r \in Requests, NEW u \in A!User, NEW undefined,
         A!SelectSaved(r, u, undefined),
         ~crossed => \/ A!Possible(u) /\ undefined \cap {"usesTotp", "totpSecret"} = {}
                     \/ ~u.usesTotp /\ "usesTotp" \notin undefined,
         UNCHANGED <<user, session, cookie, challenge, used, crossed>>,
         generated' \subseteq Codes
  PROVE  A!AccountInv'
<1> DEFINE cols == {c \in A!Columns : u[c] # user[c]} \ undefined
           rec == [accountReq[r] EXCEPT !.pc = "write", !.user = u, !.columns = cols]
<1>1. accountReq[r] \in A!Request
  BY Before
<1>2. rec \in A!Request /\ rec.pc = "write" /\ rec.user = u /\ rec.columns = cols
  BY <1>1 DEF A!Request
<1>3. accountReq' = [accountReq EXCEPT ![r] = rec]
  BY DEF A!SelectSaved
<1>4. accountReq'[r] = rec
  BY <1>3 DEF A!AccountInv, A!TypeOK
<1>5. /\ "usesTotp" \notin undefined /\ "usesTotp" \notin cols =>
           user["usesTotp"] = u["usesTotp"]
      /\ "totpSecret" \notin undefined /\ "totpSecret" \notin cols =>
           user["totpSecret"] = u["totpSecret"]
  BY DEF A!Columns
<1> HIDE DEF rec, cols
<1>6. /\ A!Written(r)'.usesTotp = IF "usesTotp" \in cols THEN u.usesTotp ELSE user.usesTotp
      /\ A!Written(r)'.totpSecret =
           IF "totpSecret" \in cols THEN u.totpSecret ELSE user.totpSecret
  BY <1>2, <1>4 DEF A!Written
<1>7. ~crossed => A!Possible(A!Written(r)')
  BY <1>5, <1>6 DEF A!Possible
<1> QED
  BY <1>2, <1>3, <1>7, Before, RequestMoves

\* The UPDATE of a save.  If another save has made its SELECT, it is crossed from here on;
\* otherwise every other request carries a row that it has loaded.
LEMMA WriteSavedKeeps ==
  ASSUME A!AccountInv, NEW r \in Requests, A!WriteSaved(r)
  PROVE  A!AccountInv'
<1>1. PICK rec \in A!Request : /\ accountReq' = [accountReq EXCEPT ![r] = rec]
                             /\ rec.pc \in {"idle", "session"} /\ rec.user = A!NewUser
  <2>1. CASE A!Finish(r)
    BY <2>1, IdlePossible DEF A!Finish
  <2>2. CASE A!Goto(r, "session")
    <3>1. A!Found("session", accountReq[r].s) \in A!Request
      BY Before, IdlePossible DEF A!Found, A!Request
    <3> QED
      BY <2>2, <3>1 DEF A!Goto, A!Found
  <2> QED
    BY <2>1, <2>2 DEF A!WriteSaved
<1>2. /\ accountReq[r].pc = "write" /\ user' = A!Written(r) /\ crossed' \in BOOLEAN
      /\ ~crossed' => ~crossed /\ \A q \in Requests \ {r} : accountReq[q].pc # "write"
      /\ UNCHANGED <<session, cookie, challenge, generated>>
  BY DEF A!WriteSaved
<1>3. used' \subseteq Codes
  <2>1. accountReq[r].c \in Codes \cup {None} /\ used \subseteq Codes
    BY Before DEF A!Request
  <2> QED
    BY <2>1 DEF A!WriteSaved
<1>4. A!TypeOK'
  BY <1>1, <1>2, <1>3, WrittenIsRow DEF A!AccountInv, A!TypeOK
<1>5. accountReq'[r] = rec /\ \A q \in Requests \ {r} : accountReq'[q] = accountReq[q]
  BY <1>1 DEF A!AccountInv, A!TypeOK
<1>6. \A q \in Requests :
        /\ accountReq'[q].pc = "verify" => accountReq'[q].user.pendingTotpSecret # None
        /\ accountReq'[q].pc = "code" => accountReq'[q].c \in Codes
  BY <1>1, <1>5 DEF A!AccountInv
<1>7. ~crossed' => A!Possible(user') /\ \A q \in Requests : A!LoadedPossible(q)'
  <2> SUFFICES ASSUME ~crossed'
      PROVE  A!Possible(user') /\ \A q \in Requests : A!LoadedPossible(q)'
    OBVIOUS
  <2>1. A!Possible(user')
    BY <1>2, Before
  <2>2. A!LoadedPossible(r)'
    BY <1>1, <1>5, IdlePossible DEF A!LoadedPossible
  <2>3. ASSUME NEW q \in Requests \ {r} PROVE A!LoadedPossible(q)'
    BY <1>2, <1>5, <2>3, Before DEF A!LoadedPossible
  <2> QED
    BY <2>1, <2>2, <2>3
<1> QED
  BY <1>4, <1>6, <1>7 DEF A!AccountInv

\* The steps of a login keep the invariant.  Only ConsumeBackupCode will write the row: the
\* one that was loaded, with a code less.
LEMMA LogInKeeps ==
  ASSUME A!AccountInv, NEW r \in Requests, A!LogIn(r)
  PROVE  A!AccountInv'
<1> USE Before
<1>1. CASE A!Login(r)
  BY <1>1, RequestLoads DEF A!Login, A!Load
<1>2. CASE A!CheckPassword(r)
  <2>1. CASE A!Finish(r)
    BY <1>2, <2>1, RequestEnds DEF A!CheckPassword
  <2>2. CASE A!Goto(r, "session")
    BY <1>2, <2>2, RequestGoes DEF A!CheckPassword
  <2> QED
    BY <1>2, <2>1, <2>2 DEF A!CheckPassword
<1>3. CASE A!CreateSession(r)
  <2>1. /\ session' \in [Sessions -> {"none", "active", "revoked"}]
        /\ cookie' \subseteq Sessions
    BY <1>3 DEF A!CreateSession
  <2> QED
    BY <1>3, <2>1, RequestEnds DEF A!CreateSession
<1>4. CASE A!VerifyTwoFactorLogin(r)
  <2>1. CASE A!Goto(r, "session")
    BY <1>4, <2>1, RequestGoes DEF A!VerifyTwoFactorLogin
  <2>2. CASE \E c \in user.backupCodes :
               accountReq' = [accountReq EXCEPT ![r] = A!Loaded("code", user, c, TRUE)]
    <3>1. PICK c \in Codes :
            accountReq' = [accountReq EXCEPT ![r] = A!Loaded("code", user, c, TRUE)]
      BY <2>2 DEF A!User
    <3> QED
      BY <1>4, <3>1, RequestLoads DEF A!VerifyTwoFactorLogin
  <2> QED
    BY <1>4, <2>1, <2>2 DEF A!VerifyTwoFactorLogin
<1>5. CASE A!ConsumeBackupCode(r)
  <2> DEFINE u == [accountReq[r].user EXCEPT !.backupCodes = @ \ {accountReq[r].c}]
  <2>1. /\ u \in A!User /\ u.usesTotp = accountReq[r].user.usesTotp
        /\ u.totpSecret = accountReq[r].user.totpSecret
    BY DEF A!User
  <2>2. /\ A!SelectSaved(r, u, {})
        /\ UNCHANGED <<user, session, cookie, challenge, generated, used, crossed>>
    BY <1>5 DEF A!ConsumeBackupCode
  <2> HIDE DEF u
  <2>3. ~crossed => A!Possible(u)
    BY <1>5, <2>1 DEF A!Possible, A!ConsumeBackupCode
  <2> QED
    BY <2>1, <2>2, <2>3, RequestSelects
<1> QED
  BY <1>1, <1>2, <1>3, <1>4, <1>5 DEF A!LogIn

\* The handlers of sessions keep the invariant: they do not touch the row.
LEMMA ManageSessionsKeeps ==
  ASSUME A!AccountInv, NEW r \in Requests, A!ManageSessions(r)
  PROVE  A!AccountInv'
<1> USE Before
<1>1. ASSUME NEW s \in Sessions, NEW pc \in {"refresh_user", "revoke"},
             accountReq' = [accountReq EXCEPT ![r] = A!Found(pc, s)],
             UNCHANGED <<user, session, cookie, challenge, generated, used, crossed>>
      PROVE  A!AccountInv'
  <2> DEFINE rec == A!Found(pc, s)
  <2>1. rec \in A!Request /\ rec.pc = pc /\ A!Possible(rec.user)
    BY Records, IdlePossible
  <2> HIDE DEF rec
  <2>2. accountReq' = [accountReq EXCEPT ![r] = rec]
    BY <1>1 DEF rec
  <2> QED
    BY <1>1, <2>1, <2>2, RequestMoves
<1>2. ASSUME NEW s \in Sessions, A!RefreshToken(r, s) PROVE A!AccountInv'
  BY <1>1, <1>2 DEF A!RefreshToken
<1>3. ASSUME NEW s \in Sessions, A!RevokeSession(r, s) PROVE A!AccountInv'
  BY <1>1, <1>3 DEF A!RevokeSession
<1>4. CASE A!RefreshUser(r)
  BY <1>4, RequestEnds, RequestGoes DEF A!RefreshUser
<1>5. CASE A!SaveRefreshed(r)
  <2>1. session' \in [Sessions -> {"none", "active", "revoked"}]
    BY <1>5 DEF A!SaveRefreshed
  <2> QED
    BY <1>5, <2>1, RequestEnds DEF A!SaveRefreshed
<1>6. CASE A!SaveRevoked(r)
  <2>1. session' \in [Sessions -> {"none", "active", "revoked"}]
    BY <1>6 DEF A!SaveRevoked
  <2> QED
    BY <1>6, <2>1, RequestEnds DEF A!SaveRevoked
<1> QED
  BY <1>2, <1>3, <1>4, <1>5, <1>6 DEF A!ManageSessions

\* The handlers of the row keep the invariant: what they load is possible, and so is what
\* they make of it.  SaveDisabled leaves the secret undefined, but it clears the flag;
\* SaveVerified sets the flag and a secret together.
LEMMA ManageUserKeeps ==
  ASSUME A!AccountInv, NEW r \in Requests, A!ManageUser(r)
  PROVE  A!AccountInv'
<1> USE Before
<1>0. accountReq[r].pc # "write" /\ ~crossed => A!Possible(accountReq[r].user)
  OBVIOUS
<1>1. CASE A!SetupTwoFactor(r)
  BY <1>1, RequestLoads DEF A!SetupTwoFactor, A!Load
<1>2. CASE A!SaveSetup(r)
  <2>1. ASSUME NEW k \in Secrets,
               A!SelectSaved(r, [accountReq[r].user EXCEPT !.pendingTotpSecret = k], {})
        PROVE  A!AccountInv'
    <3> DEFINE u == [accountReq[r].user EXCEPT !.pendingTotpSecret = k]
    <3>1. /\ u \in A!User /\ u.usesTotp = accountReq[r].user.usesTotp
          /\ u.totpSecret = accountReq[r].user.totpSecret
      BY DEF A!User
    <3>2. A!SelectSaved(r, u, {})
      BY <2>1
    <3> HIDE DEF u
    <3>3. /\ UNCHANGED <<user, session, cookie, challenge, generated, used, crossed>>
          /\ accountReq[r].pc = "setup"
      BY <1>2 DEF A!SaveSetup
    <3>4. ~crossed => A!Possible(u)
      BY <1>0, <3>1, <3>3 DEF A!Possible
    <3> QED
      BY <3>1, <3>2, <3>3, <3>4, RequestSelects
  <2> QED
    BY <1>2, <2>1 DEF A!SaveSetup
<1>3. CASE A!VerifyTwoFactorSetup(r)
  BY <1>3, RequestLoads DEF A!VerifyTwoFactorSetup, A!Load
<1>4. CASE A!SaveVerified(r)
  <2> DEFINE u(C) == [accountReq[r].user EXCEPT !.usesTotp = TRUE, !.backupCodes = C,
                                         !.totpSecret = accountReq[r].user.pendingTotpSecret]
  <2>1. ASSUME NEW C \in SUBSET (Codes \ generated), generated' = generated \cup C,
               A!SelectSaved(r, u(C), {"pendingTotpSecret"})
        PROVE  A!AccountInv'
    <3>1. /\ accountReq[r].user.pendingTotpSecret # None
          /\ UNCHANGED <<user, session, cookie, challenge, used, crossed>>
      BY <1>4 DEF A!SaveVerified
    <3>2. u(C) \in A!User /\ A!Possible(u(C))
      BY <3>1 DEF A!User, A!Possible
    <3> HIDE DEF u
    <3> QED
      BY <2>1, <3>1, <3>2, RequestSelects
  <2> QED
    BY <1>4, <2>1 DEF A!SaveVerified
<1>5. CASE A!DisableTwoFactor(r)
  BY <1>5, RequestLoads DEF A!DisableTwoFactor, A!Load
<1>6. CASE A!SaveDisabled(r)
  <2> DEFINE u == [accountReq[r].user EXCEPT !.usesTotp = FALSE]
  <2>1. u \in A!User /\ ~u.usesTotp
    BY DEF A!User
  <2>2. /\ A!SelectSaved(r, u, {"totpSecret", "backupCodes"})
        /\ UNCHANGED <<user, session, cookie, challenge, generated, used, crossed>>
    BY <1>6 DEF A!SaveDisabled
  <2> HIDE DEF u
  <2> QED
    BY <2>1, <2>2, RequestSelects
<1>7. ASSUME NEW e \in BOOLEAN, A!UpdateUser(r, e) PROVE A!AccountInv'
  BY <1>7, RequestLoads DEF A!UpdateUser
<1>8. CASE A!SaveUpdated(r)
  <2> DEFINE u == [accountReq[r].user EXCEPT !.enabled = accountReq[r].enabled]
  <2>1. /\ u \in A!User /\ u.usesTotp = accountReq[r].user.usesTotp
        /\ u.totpSecret = accountReq[r].user.totpSecret
    BY DEF A!User, A!Request
  <2>2. /\ A!SelectSaved(r, u, {}) /\ accountReq[r].pc = "update"
        /\ UNCHANGED <<user, session, cookie, challenge, generated, used, crossed>>
    BY <1>8 DEF A!SaveUpdated
  <2> HIDE DEF u
  <2>3. ~crossed => A!Possible(u)
    BY <1>0, <2>1, <2>2 DEF A!Possible
  <2> QED
    BY <2>1, <2>2, <2>3, RequestSelects
<1>9. CASE A!WriteSaved(r)
  BY <1>9, WriteSavedKeeps
<1> QED
  BY <1>1, <1>2, <1>3, <1>4, <1>5, <1>6, <1>7, <1>8, <1>9 DEF A!ManageUser

\* Every step keeps the invariant.
LEMMA NextKeeps == A!AccountInv /\ [A!Next]_(A!vars) => A!AccountInv'
<1> SUFFICES ASSUME A!AccountInv, [A!Next]_(A!vars) PROVE A!AccountInv'
  OBVIOUS
<1>1. ASSUME NEW r \in Requests, A!LogIn(r) \/ A!ManageSessions(r) \/ A!ManageUser(r)
      PROVE  A!AccountInv'
  BY <1>1, LogInKeeps, ManageSessionsKeeps, ManageUserKeeps
<1>2. ASSUME UNCHANGED <<user, session, generated, used, crossed, accountReq>>,
             cookie' \subseteq Sessions, challenge' \in BOOLEAN
      PROVE  A!AccountInv'
  BY <1>2 DEF A!AccountInv, A!TypeOK, A!LoadedPossible, A!Possible, A!Written
<1>3. ASSUME NEW s \in Sessions, A!Logout(s) PROVE A!AccountInv'
  BY <1>2, <1>3 DEF A!Logout, A!AccountInv, A!TypeOK
<1>4. CASE A!ExpireChallenge
  BY <1>2, <1>4 DEF A!ExpireChallenge, A!AccountInv, A!TypeOK
<1>5. CASE UNCHANGED A!vars
  BY <1>2, <1>5 DEF A!vars, A!AccountInv, A!TypeOK
<1> QED
  BY <1>1, <1>3, <1>4, <1>5 DEF A!Next

\* Handlers that load the account's row and save their copy over each other's writes never
\* leave it asking for a second factor that it has no secret for, as long as no save writes
\* between the SELECT and the UPDATE of another.
THEOREM NobodyLockedOut == A!Spec => [](A!TypeOK /\ SecondFactorPossible)
<1>1. A!AccountInv => A!TypeOK /\ SecondFactorPossible
  BY DEF SecondFactorPossible, A!AccountInv, A!SecondFactorPossible, A!Possible
<1> QED
  BY InitAccountInv, NextKeeps, <1>1, PTL DEF A!Spec

\* The run of MCRows, in which one part moves at a time, is a run of both: the theorems about
\* Account and NodeLink are about everything TLC explores there.
THEOREM RowsRun == MCSpec => Spec /\ A!Spec
<1> DEFINE all == <<part, vars, accountVars>>
<1>1. MCInit => Init /\ A!Init
  BY DEF MCInit
<1>2. [MCNext]_all => [Next]_vars
  BY DEF MCNext
<1>3. [MCNext]_all => [A!Next]_(A!vars)
  BY DEF MCNext, accountVars, A!vars
<1> QED
  BY <1>1, <1>2, <1>3, PTL DEF MCSpec, Spec, A!Spec
==============================================================================
