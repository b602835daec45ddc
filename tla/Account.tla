------------------------------- MODULE Account -------------------------------
(***************************************************************************)
(* One user account of the Panel: the two-factor columns of its row, its   *)
(* sessions, and the handlers of AuthService, UsersService and the admin   *)
(* controller that change them.  Accounts share nothing, so one is enough. *)
(*                                                                         *)
(* Every handler loads the whole row (or the whole session), works on the  *)
(* copy and saves it.  TypeORM's save is a SELECT and an UPDATE of the     *)
(* columns whose value in the copy differs from what the SELECT found: it  *)
(* also restores what others have changed since the copy was loaded, and   *)
(* leaves what they change between the two.  A property set to undefined   *)
(* is not written at all: its column stays as it is.  A session has one    *)
(* column that matters here, and its save is one step.                     *)
(*                                                                         *)
(* Passwords, one-time codes and tokens are abstracted to whether the      *)
(* check succeeds; a check that fails ends the request with no effect and  *)
(* is left out.                                                            *)
(***************************************************************************)
EXTENDS Naturals, FiniteSets

CONSTANTS
  Requests,       \* the requests that may be in progress together
  Sessions,       \* identifiers the database can give to sessions
  Secrets,        \* the TOTP secrets that can be generated
  Codes,          \* the backup codes that can be generated
  CodesPerSetup,  \* how many are generated at once (8 in the code)
  None

AccountAssumption ==
  /\ CodesPerSetup \in Nat
  /\ None \notin Secrets \cup Sessions \cup Codes

VARIABLES
  user,       \* the row of "users"
  session,    \* "sessions"
  cookie,     \* the sessions whose refresh token some browser still holds
  challenge,  \* a token for the second step of a login is valid
  issued,     \* backup codes ever generated
  used,       \* backup codes that have completed a login
  crossed,    \* history: a save wrote the row between the SELECT and the UPDATE of another
  req         \* the handlers in progress, with what they have loaded

vars == <<user, session, cookie, challenge, issued, used, crossed, req>>

User ==
  [enabled: BOOLEAN, usesTotp: BOOLEAN, totpSecret: Secrets \cup {None},
   pendingTotpSecret: Secrets \cup {None}, backupCodes: SUBSET Codes]

NewUser ==
  [enabled |-> TRUE, usesTotp |-> FALSE, totpSecret |-> None,
   pendingTotpSecret |-> None, backupCodes |-> {}]

Columns == {"enabled", "usesTotp", "totpSecret", "pendingTotpSecret", "backupCodes"}

Request ==
  [pc: {"idle", "password", "session", "code", "refresh_user", "refresh", "revoke",
        "setup", "verify", "disable", "update", "write"},
   user: User,                  \* the loaded row, and then what is to be saved
   columns: SUBSET Columns,     \* those that the UPDATE of a save writes
   s: Sessions \cup {None},     \* the loaded session
   c: Codes \cup {None},        \* the backup code that matched
   enabled: BOOLEAN]            \* dto.enabled of an update

Idle == [pc |-> "idle", user |-> NewUser, columns |-> {}, s |-> None, c |-> None,
         enabled |-> TRUE]

Init ==
  /\ user = NewUser
  /\ session = [s \in Sessions |-> "none"]
  /\ cookie = {}
  /\ challenge = FALSE
  /\ issued = {}
  /\ used = {}
  /\ crossed = FALSE
  /\ req = [r \in Requests |-> Idle]

\* The request goes on with the row u, or with the session s.
Loaded(pc, u, c, e) ==
  [pc |-> pc, user |-> u, columns |-> {}, s |-> None, c |-> c, enabled |-> e]
Found(pc, s) ==
  [pc |-> pc, user |-> NewUser, columns |-> {}, s |-> s, c |-> None, enabled |-> TRUE]

Load(r, pc) ==
  /\ req[r].pc = "idle"
  /\ req' = [req EXCEPT ![r] = Loaded(pc, user, None, TRUE)]

\* The row is not needed any more.
Goto(r, pc) == req' = [req EXCEPT ![r] = Found(pc, req[r].s)]
Finish(r) == req' = [req EXCEPT ![r] = Idle]

\* The SELECT of a save of u, of which some columns are undefined.
SelectSaved(r, u, undefined) ==
  req' = [req EXCEPT ![r].pc = "write", ![r].user = u,
                     ![r].columns = {c \in Columns : u[c] # user[c]} \ undefined]

\* What the row is after the UPDATE.
Written(r) ==
  LET q == req[r]
  IN  [enabled |-> IF "enabled" \in q.columns THEN q.user.enabled ELSE user.enabled,
       usesTotp |-> IF "usesTotp" \in q.columns THEN q.user.usesTotp ELSE user.usesTotp,
       totpSecret |->
         IF "totpSecret" \in q.columns THEN q.user.totpSecret ELSE user.totpSecret,
       pendingTotpSecret |-> IF "pendingTotpSecret" \in q.columns
                             THEN q.user.pendingTotpSecret ELSE user.pendingTotpSecret,
       backupCodes |->
         IF "backupCodes" \in q.columns THEN q.user.backupCodes ELSE user.backupCodes]

\* The UPDATE of a save.  With it the request is done, or its backup code is consumed.
WriteSaved(r) ==
  /\ req[r].pc = "write"
  /\ user' = Written(r)
  /\ crossed' = (crossed \/ \E q \in Requests \ {r} : req[q].pc = "write")
  /\ IF req[r].c = None THEN Finish(r) /\ UNCHANGED used
     ELSE Goto(r, "session") /\ used' = used \cup {req[r].c}
  /\ UNCHANGED <<session, cookie, challenge, issued>>

-----------------------------------------------------------------------------
(* Logins                                                                  *)

\* login: the user is read, then the password is compared.
Login(r) ==
  /\ user.enabled
  /\ Load(r, "password")
  /\ UNCHANGED <<user, session, cookie, challenge, issued, used, crossed>>

\* A user with a second factor gets a token for the second step, valid 5 minutes;
\* anyone else gets a session.
CheckPassword(r) ==
  /\ req[r].pc = "password"
  /\ IF req[r].user.usesTotp
     THEN challenge' = TRUE /\ Finish(r)
     ELSE challenge' = challenge /\ Goto(r, "session")
  /\ UNCHANGED <<user, session, cookie, issued, used, crossed>>

\* The new session is saved and its token set as a cookie.
CreateSession(r) ==
  /\ req[r].pc = "session"
  /\ \/ \E s \in Sessions :
          /\ session[s] = "none"
          /\ session' = [session EXCEPT ![s] = "active"]
          /\ cookie' = cookie \cup {s}
     \/ /\ \A s \in Sessions : session[s] # "none"   \* no identifiers left
        /\ UNCHANGED <<session, cookie>>
  /\ Finish(r)
  /\ UNCHANGED <<user, challenge, issued, used, crossed>>

\* verifyTwoFactorLogin: the secret is asked for, not usesTotp; the code is a valid
\* one-time code, or is compared with the backup codes that were loaded.
VerifyTwoFactorLogin(r) ==
  /\ challenge
  /\ user.enabled
  /\ user.totpSecret # None
  /\ req[r].pc = "idle"
  /\ \/ Goto(r, "session")
     \/ \E c \in user.backupCodes :
          req' = [req EXCEPT ![r] = Loaded("code", user, c, TRUE)]
  /\ UNCHANGED <<user, session, cookie, challenge, issued, used, crossed>>

\* "Consume the backup code (single-use)": in the loaded list, which is saved.
ConsumeBackupCode(r) ==
  /\ req[r].pc = "code"
  /\ SelectSaved(r, [req[r].user EXCEPT !.backupCodes = @ \ {req[r].c}], {})
  /\ UNCHANGED <<user, session, cookie, challenge, issued, used, crossed>>

\* The token of the second step expires.
ExpireChallenge ==
  /\ challenge
  /\ challenge' = FALSE
  /\ UNCHANGED <<user, session, cookie, issued, used, crossed, req>>

-----------------------------------------------------------------------------
(* Sessions                                                                *)

\* refreshToken: the session is found by its token if it is not revoked,
RefreshToken(r, s) ==
  /\ req[r].pc = "idle"
  /\ s \in cookie
  /\ session[s] = "active"
  /\ req' = [req EXCEPT ![r] = Found("refresh_user", s)]
  /\ UNCHANGED <<user, session, cookie, challenge, issued, used, crossed>>

\* then its user is read,
RefreshUser(r) ==
  /\ req[r].pc = "refresh_user"
  /\ IF user.enabled THEN Goto(r, "refresh") ELSE Finish(r)
  /\ UNCHANGED <<user, session, cookie, challenge, issued, used, crossed>>

\* and the session is saved with a new lastActiveAt, and as it was loaded otherwise.
SaveRefreshed(r) ==
  /\ req[r].pc = "refresh"
  /\ session' = [session EXCEPT ![req[r].s] = "active"]
  /\ Finish(r)
  /\ UNCHANGED <<user, cookie, challenge, issued, used, crossed>>

RevokeSession(r, s) ==
  /\ req[r].pc = "idle"
  /\ session[s] # "none"
  /\ req' = [req EXCEPT ![r] = Found("revoke", s)]
  /\ UNCHANGED <<user, session, cookie, challenge, issued, used, crossed>>

SaveRevoked(r) ==
  /\ req[r].pc = "revoke"
  /\ session' = [session EXCEPT ![req[r].s] = "revoked"]
  /\ Finish(r)
  /\ UNCHANGED <<user, cookie, challenge, issued, used, crossed>>

\* AuthController.logout clears the cookies.  It does not call AuthService.logout.
Logout(s) ==
  /\ s \in cookie
  /\ cookie' = cookie \ {s}
  /\ UNCHANGED <<user, session, challenge, issued, used, crossed, req>>

-----------------------------------------------------------------------------
(* The second factor, and the rest of the row                              *)

SetupTwoFactor(r) ==
  /\ ~user.usesTotp
  /\ Load(r, "setup")
  /\ UNCHANGED <<user, session, cookie, challenge, issued, used, crossed>>

\* Two secrets that were generated may be equal here, since nothing tells them apart.
SaveSetup(r) ==
  /\ req[r].pc = "setup"
  /\ \E k \in Secrets : SelectSaved(r, [req[r].user EXCEPT !.pendingTotpSecret = k], {})
  /\ UNCHANGED <<user, session, cookie, challenge, issued, used, crossed>>

\* verifyTwoFactorSetup, with a code of the pending secret.
VerifyTwoFactorSetup(r) ==
  /\ user.pendingTotpSecret # None
  /\ Load(r, "verify")
  /\ UNCHANGED <<user, session, cookie, challenge, issued, used, crossed>>

\* The pending secret is set to undefined, hence not cleared.
SaveVerified(r) ==
  /\ req[r].pc = "verify"
  /\ \E C \in SUBSET (Codes \ issued) :
       /\ \/ Cardinality(C) = CodesPerSetup
          \/ C = Codes \ issued /\ Cardinality(C) < CodesPerSetup   \* all that are left
       /\ SelectSaved(r,
            [req[r].user EXCEPT !.usesTotp = TRUE, !.backupCodes = C,
                                !.totpSecret = req[r].user.pendingTotpSecret],
            {"pendingTotpSecret"})
       /\ issued' = issued \cup C
  /\ UNCHANGED <<user, session, cookie, challenge, used, crossed>>

\* disableTwoFactor, with a code of the secret.
DisableTwoFactor(r) ==
  /\ user.usesTotp
  /\ user.totpSecret # None
  /\ Load(r, "disable")
  /\ UNCHANGED <<user, session, cookie, challenge, issued, used, crossed>>

\* Mutant: the columns are cleared and the flag is forgotten.
SaveDisabledFlagKept(r) ==
  /\ req[r].pc = "disable"
  /\ SelectSaved(r, [req[r].user EXCEPT !.totpSecret = None], {"backupCodes"})
  /\ UNCHANGED <<user, session, cookie, challenge, issued, used, crossed>>

\* Secret and backup codes are set to undefined, hence not cleared.
SaveDisabled(r) ==
  /\ req[r].pc = "disable"
  /\ SelectSaved(r, [req[r].user EXCEPT !.usesTotp = FALSE], {"totpSecret", "backupCodes"})
  /\ UNCHANGED <<user, session, cookie, challenge, issued, used, crossed>>

\* UsersService.update and AdminUsersController.update: the user is read, e-mail and
\* username are looked up, a password is hashed, and the row is saved.
UpdateUser(r, e) ==
  /\ req[r].pc = "idle"
  /\ req' = [req EXCEPT ![r] = Loaded("update", user, None, e)]
  /\ UNCHANGED <<user, session, cookie, challenge, issued, used, crossed>>

SaveUpdated(r) ==
  /\ req[r].pc = "update"
  /\ SelectSaved(r, [req[r].user EXCEPT !.enabled = req[r].enabled], {})
  /\ UNCHANGED <<user, session, cookie, challenge, issued, used, crossed>>

-----------------------------------------------------------------------------
LogIn(r) ==
  \/ Login(r) \/ CheckPassword(r) \/ CreateSession(r)
  \/ VerifyTwoFactorLogin(r) \/ ConsumeBackupCode(r)

ManageSessions(r) ==
  \/ \E s \in Sessions : RefreshToken(r, s) \/ RevokeSession(r, s)
  \/ RefreshUser(r)
  \/ SaveRefreshed(r)
  \/ SaveRevoked(r)

ManageUser(r) ==
  \/ SetupTwoFactor(r) \/ SaveSetup(r)
  \/ VerifyTwoFactorSetup(r) \/ SaveVerified(r)
  \/ DisableTwoFactor(r) \/ SaveDisabled(r)
  \/ \E e \in BOOLEAN : UpdateUser(r, e)
  \/ SaveUpdated(r)
  \/ WriteSaved(r)

Next ==
  \/ \E r \in Requests : LogIn(r) \/ ManageSessions(r) \/ ManageUser(r)
  \/ \E s \in Sessions : Logout(s)
  \/ ExpireChallenge

Spec == Init /\ [][Next]_vars

-----------------------------------------------------------------------------
(* Properties                                                              *)

\* The row, the sessions and the handlers hold values of their types.
TypeOK ==
  /\ user \in User
  /\ session \in [Sessions -> {"none", "active", "revoked"}]
  /\ cookie \subseteq Sessions
  /\ challenge \in BOOLEAN
  /\ issued \subseteq Codes
  /\ used \subseteq Codes
  /\ crossed \in BOOLEAN
  /\ req \in [Requests -> Request]

\* Nobody is locked out: login asks for a second step when usesTotp is set, and the
\* second step refuses everybody without a secret.  Flag and secret are written by
\* handlers that overwrite each other's saves; still a set flag has a secret, unless one
\* save wrote the row between the SELECT and the UPDATE of another: that one may then write
\* the flag or the secret alone.
SecondFactorPossible == user.usesTotp /\ ~crossed => user.totpSecret # None

\* What it rests on: every row a handler has loaded or will leave satisfies it, and the
\* pending secret that a verification will make the secret is there (as is the code to be
\* consumed).
Possible(u) == u.usesTotp => u.totpSecret # None

LoadedPossible(r) ==
  /\ req[r].pc # "write" => Possible(req[r].user)
  /\ req[r].pc = "write" => Possible(Written(r))

AccountInv ==
  /\ TypeOK
  /\ \A r \in Requests :
       /\ req[r].pc = "verify" => req[r].user.pendingTotpSecret # None
       /\ req[r].pc = "code" => req[r].c \in Codes
  /\ ~crossed => Possible(user) /\ \A r \in Requests : LoadedPossible(r)

\* "Consume the backup code (single-use)": no code completes two logins.
BackupCodeSingleUse ==
  [][\A r \in Requests :
       (req[r].pc = "write" /\ req'[r].pc = "session") => req[r].c \notin used]_vars
=============================================================================
