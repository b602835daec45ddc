------------------------------ MODULE Records ------------------------------
(***************************************************************************)
(* The tables of the Panel whose rows stand alone: users, locations,       *)
(* subusers, API keys and server databases.  Their services share one      *)
(* shape: read what is there, decide, then save or remove the entity that  *)
(* was loaded.  Every query is a step of its own, so that requests         *)
(* interleave between them; a constraint of the database is checked by the *)
(* statement that writes.                                                  *)
(*                                                                         *)
(* A row is its unique key (short, email or username, the subuser's user,  *)
(* keyStart), its other columns as one value, and the row it belongs to.   *)
(* Saving an entity writes every column of it that differs from the table, *)
(* and inserts the row again when it is gone.                              *)
(***************************************************************************)
EXTENDS FiniteSets

CONSTANTS
  Requests,   \* requests that may run at a time
  Ids,        \* primary keys; one is given out again once nobody knows it
  Keys,       \* values of the unique column; for subusers, users
  Vals,       \* values of the other columns
  Parents,    \* servers, or users for API keys
  Host,       \* a database host
  None

RecordsAssumption ==
  /\ None \notin Ids
  /\ None \notin [key : Keys, val : Vals, parent : Parents \cup {None}]

VARIABLES
  kind,     \* the table
  rows,     \* its rows by id, None where there is none
  live,     \* the rows of other tables that exist
  req,      \* the requests in progress
  wanted,   \* history: the rows as the requests that succeeded asked for
  raced     \* history: rows written while another request held a copy

recordVars == <<kind, rows, live, req, wanted, raced>>

Kinds == {"user", "location", "subuser", "apikey", "database"}

-----------------------------------------------------------------------------
(* The tables: columns, foreign keys and unique constraints.  Nothing in   *)
(* the Panel inserts a database host, so that Host never exists.           *)

UserRow == [key : Keys, val : Vals, parent : {None}]
LocationRow == [key : Keys, val : Vals, parent : {None}]
SubuserRow == [key : Keys, val : Vals, parent : Parents]
ApiKeyRow == [key : Keys, val : Vals, parent : Parents]
DatabaseRow == [key : Keys, val : Vals, parent : Parents]

RowOf ==
  CASE kind = "user" -> UserRow
    [] kind = "location" -> LocationRow
    [] kind = "subuser" -> SubuserRow
    [] kind = "apikey" -> ApiKeyRow
    [] kind = "database" -> DatabaseRow

SubuserRefs(row) == {row.parent, row.key}
ApiKeyRefs(row) == {row.parent}
DatabaseRefs(row) == {row.parent, Host}

Refs(row) ==
  CASE kind = "subuser"  -> SubuserRefs(row)
    [] kind = "apikey"   -> ApiKeyRefs(row)
    [] kind = "database" -> DatabaseRefs(row)
    [] OTHER             -> {}

UserClash(a, b) == a.key = b.key
LocationClash(a, b) == a.key = b.key
SubuserClash(a, b) == a.key = b.key /\ a.parent = b.parent

Clash(a, b) ==
  CASE kind = "user"     -> UserClash(a, b)
    [] kind = "location" -> LocationClash(a, b)
    [] kind = "subuser"  -> SubuserClash(a, b)
    [] OTHER             -> FALSE

Present == {i \in Ids : rows[i] # None}

Insertable(i, row) ==
  /\ Refs(row) \subseteq live
  /\ \A j \in Present \ {i} : ~Clash(rows[j], row)

-----------------------------------------------------------------------------
(* The bodies of the requests; None is a column that is left out.  A user  *)
(* who changes the own profile, an administrator who changes anybody's.    *)

CreateUserDto == [key : Keys, val : Vals]
UpdateUserDto == [key : Keys \cup {None}, val : Vals \cup {None}]
UpdateProfileDto == [key : Keys \cup {None}, val : Vals \cup {None}]
CreateLocationDto == [key : Keys, val : Vals]
UpdateLocationDto == [key : Keys \cup {None}, val : Vals \cup {None}]
InviteSubuserDto == [key : Keys, val : Vals]
UpdateSubuserDto == [key : {None}, val : Vals]
CreateApiKeyDto == [key : Keys, val : Vals]
CreateDatabaseDto == [key : Keys, val : Vals]

NoDto == [key |-> None, val |-> None]
Idle == [op |-> "none", pc |-> "idle", id |-> None, row |-> None, dto |-> NoDto]

Init ==
  /\ kind \in Kinds
  /\ rows = [i \in Ids |-> None]
  /\ live = Parents \cup IF kind = "subuser" THEN Keys ELSE {}
  /\ req = [r \in Requests |-> Idle]
  /\ wanted = [i \in Ids |-> None]
  /\ raced = {}

At(r, k, op, pc) == kind = k /\ req[r].op = op /\ req[r].pc = pc
Goto(r, pc) == req' = [req EXCEPT ![r].pc = pc]
Finish(r) == req' = [req EXCEPT ![r] = Idle]
Reads == UNCHANGED <<kind, rows, live, wanted, raced>>
RefuseIf(r, refused) == (IF refused THEN Finish(r) ELSE Goto(r, "save")) /\ Reads

\* Requests other than r that hold a copy of row i, or are about to write one.
Holding(r, i) == \E q \in Requests \ {r} : req[q].id = i
Write(r, i) == raced' = IF Holding(r, i) THEN raced \cup {i} ELSE raced

\* A request for a new row with the columns of dto that belongs to p.
Make(r, dto, p, pc) ==
  /\ req[r] = Idle
  /\ \E i \in Ids :
       /\ wanted[i] = None /\ rows[i] = None /\ i \notin raced
       /\ \A q \in Requests : req[q].id # i
       /\ req' = [req EXCEPT ![r] =
            [op |-> "create", pc |-> pc, id |-> i, dto |-> NoDto,
             row |-> [key |-> dto.key, val |-> dto.val, parent |-> p]]]
  /\ Reads

\* A request that begins by loading row i.
Load(r, op, i, dto, pc) ==
  /\ req[r] = Idle
  /\ req' = [req EXCEPT ![r] = [op |-> op, pc |-> pc, id |-> i, row |-> rows[i], dto |-> dto]]
  /\ Reads

Insert(r) ==
  /\ Insertable(req[r].id, req[r].row)
  /\ rows' = [rows EXCEPT ![req[r].id] = req[r].row]
  /\ wanted' = [wanted EXCEPT ![req[r].id] = req[r].row]
  /\ Finish(r)
  /\ UNCHANGED <<kind, live, raced>>

\* Mutant: a column the request does not carry is emptied.
AssignAbsent(row, dto) == [row EXCEPT !.key = dto.key, !.val = dto.val]

\* Mutant: a column the request does not carry gets a default.
AssignAll(row, dto) ==
  [row EXCEPT !.key = IF dto.key = None THEN @ ELSE dto.key,
              !.val = IF dto.val = None THEN CHOOSE v \in Vals : TRUE ELSE dto.val]

\* The columns of the request replace those of the row, the others stay.
Assign(row, dto) ==
  [row EXCEPT !.key = IF dto.key = None THEN @ ELSE dto.key,
              !.val = IF dto.val = None THEN @ ELSE dto.val]

\* What the request asks of a row: the columns it carries, and no other.
Requested(row, dto) ==
  [row EXCEPT !.key = IF dto.key = None THEN row.key ELSE dto.key,
              !.val = IF dto.val = None THEN row.val ELSE dto.val]

SaveEntity(r) ==
  LET i == req[r].id
      dto == req[r].dto
      row == Assign(req[r].row, dto)
  IN  /\ Insertable(i, row)
      /\ rows' = [rows EXCEPT ![i] = row]
      /\ wanted' = [wanted EXCEPT ![i] = IF @ = None THEN None ELSE Requested(@, dto)]
      /\ Write(r, i)
      /\ Finish(r)
      /\ UNCHANGED <<kind, live>>

RemoveEntity(r) ==
  LET i == req[r].id
  IN  /\ rows' = [rows EXCEPT ![i] = None]
      /\ wanted' = [wanted EXCEPT ![i] = None]
      /\ Write(r, i)
      /\ Finish(r)
      /\ UNCHANGED <<kind, live>>

-----------------------------------------------------------------------------
(* Users.  The administration has its own copy of the service, which       *)
(* refuses to delete a user who owns servers (PanelStore).                 *)

CreateUser(r) == kind = "user" /\ \E d \in CreateUserDto : Make(r, d, None, "check")
AdminCreateUser(r) == kind = "user" /\ \E d \in CreateUserDto : Make(r, d, None, "check")

CheckUser(r) ==
  /\ At(r, "user", "create", "check")
  /\ RefuseIf(r, \E j \in Present : UserClash(rows[j], req[r].row))

SaveUser(r) == At(r, "user", "create", "save") /\ Insert(r)

\* A conflict is looked for when the key is to change.
UserCheck(i, d) == IF d.key \in {None, rows[i].key} THEN "save" ELSE "check"
UpdateUser(r) ==
  kind = "user" /\ \E i \in Present, d \in UpdateUserDto : Load(r, "update", i, d, UserCheck(i, d))
AdminUpdateUser(r) ==
  kind = "user" /\ \E i \in Present, d \in UpdateUserDto : Load(r, "update", i, d, UserCheck(i, d))
UpdateMe(r) ==
  kind = "user" /\ \E i \in Present, d \in UpdateProfileDto : Load(r, "update", i, d, UserCheck(i, d))

CheckUserConflict(r) ==
  /\ At(r, "user", "update", "check")
  /\ RefuseIf(r, \E j \in Present : rows[j].key = req[r].dto.key)

SaveUserUpdate(r) == At(r, "user", "update", "save") /\ SaveEntity(r)

DeleteUser(r) == kind = "user" /\ \E i \in Present : Load(r, "delete", i, NoDto, "save")
AdminDeleteUser(r) == kind = "user" /\ \E i \in Present : Load(r, "delete", i, NoDto, "save")
RemoveUser(r) == At(r, "user", "delete", "save") /\ RemoveEntity(r)

-----------------------------------------------------------------------------
(* Locations.  A conflict is looked for whenever a short code is given.    *)
(* The nodes counted before a deletion are none: no request gives a node a *)
(* location.  A short code of other letters is refused, as by Fail.        *)

CreateLocation(r) == kind = "location" /\ \E d \in CreateLocationDto : Make(r, d, None, "check")

CheckShort(r) ==
  /\ At(r, "location", "create", "check")
  /\ RefuseIf(r, \E j \in Present : LocationClash(rows[j], req[r].row))

SaveLocation(r) == At(r, "location", "create", "save") /\ Insert(r)

UpdateLocation(r) ==
  /\ kind = "location"
  /\ \E i \in Present, d \in UpdateLocationDto :
       Load(r, "update", i, d, IF d.key = None THEN "save" ELSE "check")

CheckShortConflict(r) ==
  /\ At(r, "location", "update", "check")
  /\ RefuseIf(r, \E j \in Present \ {req[r].id} : rows[j].key = req[r].dto.key)

SaveLocationUpdate(r) == At(r, "location", "update", "save") /\ SaveEntity(r)

DeleteLocation(r) == kind = "location" /\ \E i \in Present : Load(r, "delete", i, NoDto, "save")
RemoveLocation(r) == At(r, "location", "delete", "save") /\ RemoveEntity(r)

-----------------------------------------------------------------------------
(* Subusers.  The controller looks the server up and checks the access of  *)
(* the caller; whether the row belongs to that server nobody checks.       *)

InviteSubuser(r) ==
  kind = "subuser" /\ \E d \in InviteSubuserDto, p \in live \cap Parents : Make(r, d, p, "user")

\* The user is found by the email.
FindInvited(r) ==
  /\ At(r, "subuser", "create", "user")
  /\ IF req[r].row.key \in live THEN Goto(r, "check") ELSE Finish(r)
  /\ Reads

CheckSubuser(r) ==
  /\ At(r, "subuser", "create", "check")
  /\ RefuseIf(r, \E j \in Present : SubuserClash(rows[j], req[r].row))

SaveSubuser(r) == At(r, "subuser", "create", "save") /\ Insert(r)

UpdateSubuser(r) ==
  kind = "subuser" /\ \E i \in Present, d \in UpdateSubuserDto : Load(r, "update", i, d, "save")
SaveSubuserUpdate(r) == At(r, "subuser", "update", "save") /\ SaveEntity(r)

RemoveSubuser(r) == kind = "subuser" /\ \E i \in Present : Load(r, "delete", i, NoDto, "save")
SubuserRemoved(r) == At(r, "subuser", "delete", "save") /\ RemoveEntity(r)

-----------------------------------------------------------------------------
(* API keys belong to the caller; keyStart is drawn at random and is not   *)
(* unique.  Databases belong to the server; saving one always fails, since *)
(* its host does not exist, so that there is never one to delete.          *)

CreateApiKey(r) ==
  kind = "apikey" /\ \E d \in CreateApiKeyDto, p \in live \cap Parents : Make(r, d, p, "save")
SaveApiKey(r) == At(r, "apikey", "create", "save") /\ Insert(r)
DeleteApiKey(r) == kind = "apikey" /\ \E i \in Present : Load(r, "delete", i, NoDto, "save")
RemoveApiKey(r) == At(r, "apikey", "delete", "save") /\ RemoveEntity(r)

CreateDatabase(r) ==
  kind = "database" /\ \E d \in CreateDatabaseDto, p \in live \cap Parents : Make(r, d, p, "save")

-----------------------------------------------------------------------------
\* A statement violates a constraint, or the database is not reached: nothing is written.
Fail(r) ==
  /\ req[r] # Idle
  /\ Finish(r)
  /\ Reads

\* Mutant: the foreign keys do not cascade.
CascadedNone(p) == {}

\* A server or user is deleted, and the rows that belong to it with it.
Cascaded(p) == {i \in Present : p \in Refs(rows[i])}

DeleteParent(p) ==
  /\ p \in live
  /\ live' = live \ {p}
  /\ rows' = [i \in Ids |-> IF i \in Cascaded(p) THEN None ELSE rows[i]]
  /\ wanted' = [i \in Ids |-> IF i \in Cascaded(p) THEN None ELSE wanted[i]]
  /\ raced' = raced \cup {i \in Cascaded(p) : \E q \in Requests : req[q].id = i}
  /\ UNCHANGED <<kind, req>>

Next ==
  \/ \E r \in Requests :
       \/ CreateUser(r) \/ AdminCreateUser(r) \/ CheckUser(r) \/ SaveUser(r)
       \/ UpdateUser(r) \/ AdminUpdateUser(r) \/ UpdateMe(r)
       \/ CheckUserConflict(r) \/ SaveUserUpdate(r)
       \/ DeleteUser(r) \/ AdminDeleteUser(r) \/ RemoveUser(r)
       \/ CreateLocation(r) \/ CheckShort(r) \/ SaveLocation(r)
       \/ UpdateLocation(r) \/ CheckShortConflict(r) \/ SaveLocationUpdate(r)
       \/ DeleteLocation(r) \/ RemoveLocation(r)
       \/ InviteSubuser(r) \/ FindInvited(r) \/ CheckSubuser(r) \/ SaveSubuser(r)
       \/ UpdateSubuser(r) \/ SaveSubuserUpdate(r) \/ RemoveSubuser(r) \/ SubuserRemoved(r)
       \/ CreateApiKey(r) \/ SaveApiKey(r) \/ DeleteApiKey(r) \/ RemoveApiKey(r)
       \/ CreateDatabase(r)
       \/ Fail(r)
  \/ \E p \in Parents \cup Keys : DeleteParent(p)

Spec == Init /\ [][Next]_recordVars

-----------------------------------------------------------------------------
TypeOK ==
  /\ kind \in Kinds
  /\ rows \in [Ids -> RowOf \cup {None}]
  /\ live \subseteq Parents \cup Keys
  /\ \A r \in Requests :
       /\ req[r].op \in {"none", "create", "update", "delete"}
       /\ req[r].pc \in {"idle", "user", "check", "save"}
       /\ req[r].id \in Ids \cup {None} /\ req[r].row \in RowOf \cup {None}
       /\ req[r].dto \in UpdateUserDto
  /\ wanted \in [Ids -> RowOf \cup {None}]
  /\ raced \subseteq Ids

\* However the checks of two requests interleave with their writes, no two users have the
\* same email, no two locations the same short code, and no user is a subuser twice.
UniqueRows == \A i, j \in Present : i # j => ~Clash(rows[i], rows[j])

\* No row outlives the server or the user it belongs to, also when it was being created,
\* or being written back, while that was deleted.
RefsLive == \A i \in Present : Refs(rows[i]) \subseteq live

\* A row is what the requests that succeeded asked for: a column an update does not carry
\* keeps its value and a row that was deleted stays deleted, unless another request
\* had loaded the row when it was written.
AsRequested == \A i \in Ids \ raced : rows[i] = wanted[i]

\* Why: an identifier that a request creates is its own until the row is inserted, and a
\* request that updates a row holds it as it is, unless it was written since.
RecordsInv ==
  /\ TypeOK /\ UniqueRows /\ RefsLive /\ AsRequested
  /\ req \in [Requests -> [op : {"none", "create", "update", "delete"},
                           pc : {"idle", "user", "check", "save"}, id : Ids \cup {None},
                           row : RowOf \cup {None}, dto : UpdateUserDto]]
  /\ \A r \in Requests :
       /\ req[r].op # "none" => req[r].id \in Ids /\ req[r].row # None
       /\ req[r].op = "create" =>
            /\ rows[req[r].id] = None
            /\ \A q \in Requests \ {r} : req[q].id # req[r].id
       /\ req[r].op = "update" /\ req[r].id \notin raced => rows[req[r].id] = req[r].row
=============================================================================
