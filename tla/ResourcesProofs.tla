---------------------------- MODULE ResourcesProofs ----------------------------
(***************************************************************************)
(* The rows that requests write while others hold copies of them: the      *)
(* invariants of Composites and Records, for any number of requests,       *)
(* identifiers, keys and batches.                                          *)
(***************************************************************************)
EXTENDS MCResources, TLAPS, FiniteSetTheorems

-----------------------------------------------------------------------------
(* Users, locations, subusers, API keys and databases.                     *)

\* What a request in progress is.
CallType ==
  [op : {"none", "create", "update", "delete"}, pc : {"idle", "user", "check", "save"},
   id : RowIds \cup {None}, row : R!RowOf \cup {None}, dto : R!UpdateUserDto]

\* The rows of every table have the same columns, and None is not a row.
LEMMA RowFact ==
  ASSUME table \in R!Kinds
  PROVE  /\ None \notin R!RowOf /\ None \notin RowIds
         /\ \E P \in SUBSET (Parents \cup {None}) :
               R!RowOf = [key : Keys, val : Vals, parent : P]
<1> USE ResourcesAssumption DEF R!RecordsAssumption, R!Kinds
<1>1. CASE table \in {"user", "location"}
  BY <1>1 DEF R!RowOf, R!UserRow, R!LocationRow
<1>2. CASE table \in {"subuser", "apikey", "database"}
  BY <1>2 DEF R!RowOf, R!SubuserRow, R!ApiKeyRow, R!DatabaseRow
<1> QED
  BY <1>1, <1>2

\* Two rows clash in either order.
LEMMA ClashSymmetric ==
  ASSUME NEW a, NEW b, R!Clash(a, b), table \in R!Kinds PROVE R!Clash(b, a)
BY DEF R!Clash, R!UserClash, R!LocationClash, R!SubuserClash, R!Kinds

\* A request that has ended, or not begun.
LEMMA RecordsIdle ==
  /\ R!Idle \in CallType
  /\ R!Idle.op = "none" /\ R!Idle.id = None
BY DEF R!Idle, R!NoDto, R!UpdateUserDto, CallType

\* A query: what the request then holds is its own row or one that is there.
LEMMA RecordsRead ==
  ASSUME R!RecordsInv, R!Reads, NEW r \in Requests, NEW x \in CallType,
         call' = [call EXCEPT ![r] = x],
         x.op # "none" => x.id \in RowIds /\ x.row # None,
         x.op = "create" =>
           rows[x.id] = None /\ \A q \in Requests \ {r} : call[q].id # x.id,
         x.op = "update" /\ x.id \notin shared => rows[x.id] = x.row,
         \A q \in Requests \ {r} : call[q].op = "create" => call[q].id # x.id
  PROVE  R!RecordsInv'
<1> USE DEF R!RecordsInv, R!Reads
<1>1. /\ table' = table /\ rows' = rows /\ live' = live /\ asked' = asked /\ shared' = shared
      /\ R!RowOf' = R!RowOf
  BY DEF R!RowOf
<1>2. call' \in [Requests -> CallType]
  BY DEF CallType
<1>3. \A q \in Requests : call'[q] = IF q = r THEN x ELSE call[q]
  OBVIOUS
<1>4. R!TypeOK'
  BY <1>1, <1>2 DEF R!TypeOK, CallType
<1>5. R!UniqueRows' /\ R!RefsLive' /\ R!AsRequested'
  BY <1>1 DEF R!UniqueRows, R!RefsLive, R!AsRequested, R!Present, R!Clash, R!Refs
<1>6. ASSUME NEW q \in Requests
      PROVE  /\ call'[q].op # "none" => call'[q].id \in RowIds /\ call'[q].row # None
             /\ call'[q].op = "create" =>
                  /\ rows'[call'[q].id] = None
                  /\ \A p \in Requests \ {q} : call'[p].id # call'[q].id
             /\ call'[q].op = "update" /\ call'[q].id \notin shared' =>
                  rows'[call'[q].id] = call'[q].row
  BY <1>1, <1>3
<1> QED
  BY <1>1, <1>2, <1>4, <1>5, <1>6 DEF CallType

\* A request that ends without having written.
LEMMA RecordsFinish ==
  ASSUME R!RecordsInv, R!Reads, NEW r \in Requests, R!Finish(r)
  PROVE  R!RecordsInv'
<1>1. \A q \in Requests : call[q].op = "create" => call[q].id # None
  BY RowFact DEF R!RecordsInv, R!TypeOK
<1> QED
  BY <1>1, RecordsIdle, RecordsRead DEF R!Finish

\* A request that goes on to its next query.
LEMMA RecordsGoto ==
  ASSUME R!RecordsInv, R!Reads, NEW r \in Requests,
         NEW pos \in {"user", "check", "save"}, R!Goto(r, pos)
  PROVE  R!RecordsInv'
<1> DEFINE x == [call[r] EXCEPT !.pc = pos]
<1>1. call[r] \in CallType
  BY DEF R!RecordsInv, CallType
<1>2. /\ x \in CallType /\ x.op = call[r].op /\ x.id = call[r].id /\ x.row = call[r].row
  BY <1>1 DEF CallType
<1>3. call' = [call EXCEPT ![r] = x]
  BY DEF R!Goto
<1>4. /\ call[r].op # "none" => call[r].id \in RowIds /\ call[r].row # None
      /\ call[r].op = "create" =>
           rows[call[r].id] = None /\ \A q \in Requests \ {r} : call[q].id # call[r].id
      /\ call[r].op = "update" /\ call[r].id \notin shared => rows[call[r].id] = call[r].row
      /\ \A q \in Requests \ {r} : call[q].op = "create" => call[q].id # call[r].id
  BY DEF R!RecordsInv
<1>5. /\ x.op # "none" => x.id \in RowIds /\ x.row # None
      /\ x.op = "create" =>
           rows[x.id] = None /\ \A q \in Requests \ {r} : call[q].id # x.id
      /\ x.op = "update" /\ x.id \notin shared => rows[x.id] = x.row
      /\ \A q \in Requests \ {r} : call[q].op = "create" => call[q].id # x.id
  BY <1>2, <1>4
<1> HIDE DEF x
<1> QED
  BY <1>2, <1>3, <1>5, RecordsRead

\* A request that begins by loading a row.
LEMMA RecordsLoad ==
  ASSUME R!RecordsInv, NEW r \in Requests, NEW op \in {"update", "delete"},
         NEW i \in R!Present, NEW dto \in R!UpdateUserDto, NEW pos \in {"check", "save"},
         R!Load(r, op, i, dto, pos)
  PROVE  R!RecordsInv'
<1> DEFINE x == [op |-> op, pc |-> pos, id |-> i, row |-> rows[i], dto |-> dto]
<1>1. i \in RowIds /\ rows[i] # None /\ rows[i] \in R!RowOf
  BY DEF R!Present, R!RecordsInv, R!TypeOK
<1>2. x \in CallType
  BY <1>1 DEF CallType
<1>3. \A q \in Requests : call[q].op = "create" => call[q].id # i
  BY <1>1 DEF R!RecordsInv
<1>4. call' = [call EXCEPT ![r] = x] /\ R!Reads
  BY DEF R!Load
<1> QED
  BY <1>1, <1>2, <1>3, <1>4, RecordsRead, ZenonT(40)

\* A request for a new row.
LEMMA RecordsMake ==
  ASSUME R!RecordsInv, NEW r \in Requests, NEW dto \in [key : Keys, val : Vals],
         NEW p \in Parents \cup {None}, NEW pos \in {"user", "check", "save"},
         [key |-> dto.key, val |-> dto.val, parent |-> p] \in R!RowOf,
         R!Make(r, dto, p, pos)
  PROVE  R!RecordsInv'
<1> DEFINE row == [key |-> dto.key, val |-> dto.val, parent |-> p]
<1>1. PICK i \in RowIds :
        /\ rows[i] = None
        /\ \A q \in Requests : call[q].id # i
        /\ call' = [call EXCEPT ![r] = [op |-> "create", pc |-> pos, id |-> i,
                                        dto |-> R!NoDto, row |-> row]]
  BY DEF R!Make
<1> DEFINE x == [op |-> "create", pc |-> pos, id |-> i, dto |-> R!NoDto, row |-> row]
<1>2. row # None
  BY RowFact DEF R!RecordsInv, R!TypeOK
<1>3. x \in CallType
  BY DEF CallType, R!NoDto, R!UpdateUserDto
<1>4. /\ x.op = "create" /\ x.id = i /\ x.row = row
      /\ call' = [call EXCEPT ![r] = x] /\ R!Reads
  BY <1>1 DEF R!Make
<1>5. /\ x.id \in RowIds /\ x.row # None /\ rows[x.id] = None
      /\ \A q \in Requests \ {r} : call[q].id # x.id
  BY <1>1, <1>2, <1>4
<1> HIDE DEF x, row
<1> QED
  BY <1>3, <1>4, <1>5, RecordsRead, ZenonT(40)

\* A statement that writes one row, or removes it.
LEMMA RecordsWrite ==
  ASSUME R!RecordsInv, NEW r \in Requests, NEW i \in RowIds,
         NEW v \in R!RowOf \cup {None}, NEW w \in R!RowOf \cup {None},
         UNCHANGED <<table, live>>, R!Finish(r),
         rows' = [rows EXCEPT ![i] = v], asked' = [asked EXCEPT ![i] = w],
         v = None \/ R!Insertable(i, v),
         shared' \in SUBSET RowIds, shared \subseteq shared',
         i \notin shared' => v = w /\ \A q \in Requests \ {r} : call[q].id # i,
         \A q \in Requests \ {r} : call[q].op = "create" => call[q].id # i
  PROVE  R!RecordsInv'
<1> USE DEF R!RecordsInv
<1>1. table \in R!Kinds /\ rows \in [RowIds -> R!RowOf \cup {None}]
      /\ asked \in [RowIds -> R!RowOf \cup {None}] /\ R!RowOf' = R!RowOf
  BY DEF R!TypeOK, R!RowOf
<1>2. \A q \in Requests : call'[q] = IF q = r THEN R!Idle ELSE call[q]
  BY DEF R!Finish
<1>3. call' \in [Requests -> CallType]
  BY RecordsIdle DEF R!Finish, CallType
<1>4. /\ \A j \in RowIds : rows'[j] = IF j = i THEN v ELSE rows[j]
      /\ \A j \in RowIds : asked'[j] = IF j = i THEN w ELSE asked[j]
  BY <1>1
<1>5. R!TypeOK'
  BY <1>1, <1>3 DEF R!TypeOK, CallType
<1>6. R!UniqueRows'
  <2> SUFFICES ASSUME NEW j \in RowIds, NEW k \in RowIds, rows'[j] # None, rows'[k] # None, j # k
               PROVE  ~R!Clash(rows'[j], rows'[k])
    BY DEF R!UniqueRows, R!Present, R!Clash
  <2>1. CASE j # i /\ k # i
    BY <1>4, <2>1 DEF R!UniqueRows, R!Present
  <2>2. CASE j = i
    <3>1. ~R!Clash(rows[k], v) /\ rows'[j] = v /\ rows'[k] = rows[k]
      BY <1>4, <2>2 DEF R!Insertable, R!Present
    <3> QED
      BY <1>1, <3>1, ClashSymmetric
  <2>3. CASE k = i
    BY <1>4, <2>3 DEF R!Insertable, R!Present
  <2> QED
    BY <2>1, <2>2, <2>3
<1>7. R!RefsLive'
  BY <1>1, <1>4 DEF R!RefsLive, R!Present, R!Insertable, R!Refs
<1>8. R!AsRequested'
  BY <1>4 DEF R!AsRequested
<1>9. ASSUME NEW q \in Requests
      PROVE  /\ call'[q].op # "none" => call'[q].id \in RowIds /\ call'[q].row # None
             /\ call'[q].op = "create" =>
                  /\ rows'[call'[q].id] = None
                  /\ \A p \in Requests \ {q} : call'[p].id # call'[q].id
             /\ call'[q].op = "update" /\ call'[q].id \notin shared' =>
                  rows'[call'[q].id] = call'[q].row
  <2>1. CASE q = r
    BY <1>2, <2>1, RecordsIdle
  <2>2. CASE q # r
    <3>1. call'[q] = call[q]
      BY <1>2, <2>2
    <3>2. call[q].op = "create" => call[q].id # None
      BY <1>1, RowFact
    <3> QED
      BY <1>2, <1>4, <2>2, <3>1, <3>2, RecordsIdle
  <2> QED
    BY <2>1, <2>2
<1> QED
  BY <1>1, <1>3, <1>5, <1>6, <1>7, <1>8, <1>9 DEF CallType

\* The INSERT of a request that made its row.
LEMMA RecordsInsert ==
  ASSUME R!RecordsInv, NEW r \in Requests, call[r].op = "create", R!Insert(r)
  PROVE  R!RecordsInv'
<1>1. /\ call[r].id \in RowIds /\ call[r].row # None /\ call[r].row \in R!RowOf \cup {None}
      /\ \A q \in Requests \ {r} : call[q].id # call[r].id
      /\ shared \in SUBSET RowIds
  BY DEF R!RecordsInv, R!TypeOK
<1> QED
  BY <1>1, RecordsWrite DEF R!Insert

\* The entity a request has loaded is saved with the columns the request carries.
LEMMA RecordsSave ==
  ASSUME R!RecordsInv, NEW r \in Requests, call[r].op = "update", R!SaveEntity(r)
  PROVE  R!RecordsInv'
<1> DEFINE i == call[r].id
           dto == call[r].dto
           row == R!Assign(call[r].row, dto)
           w == IF asked[i] = None THEN None ELSE R!Requested(asked[i], dto)
<1>1. /\ i \in RowIds /\ call[r].row # None /\ call[r].row \in R!RowOf
      /\ dto \in R!UpdateUserDto /\ shared \in SUBSET RowIds /\ table \in R!Kinds
      /\ asked \in [RowIds -> R!RowOf \cup {None}]
      /\ i \notin shared => rows[i] = call[r].row /\ rows[i] = asked[i]
      /\ \A q \in Requests \ {r} : call[q].op = "create" => call[q].id # i
  BY DEF R!RecordsInv, R!TypeOK, R!AsRequested
<1>2. \A old \in R!RowOf :
        R!Assign(old, dto) \in R!RowOf /\ R!Requested(old, dto) = R!Assign(old, dto)
  <2>1. PICK P : R!RowOf = [key : Keys, val : Vals, parent : P]
    BY <1>1, RowFact
  <2>2. ASSUME NEW old \in [key : Keys, val : Vals, parent : P], NEW k \in Keys, NEW v \in Vals
        PROVE  [old EXCEPT !.key = k, !.val = v] \in [key : Keys, val : Vals, parent : P]
    OBVIOUS
  <2>3. ASSUME NEW old \in [key : Keys, val : Vals, parent : P]
        PROVE  /\ (IF dto.key = None THEN old.key ELSE dto.key) \in Keys
               /\ (IF dto.val = None THEN old.val ELSE dto.val) \in Vals
    BY <1>1 DEF R!UpdateUserDto
  <2> QED
    BY <2>1, <2>2, <2>3 DEF R!Assign, R!Requested
<1>3. row \in R!RowOf \cup {None} /\ w \in R!RowOf \cup {None}
  BY <1>1, <1>2
<1>4. i \notin shared => row = w
  BY <1>1, <1>2
<1>5. /\ R!Insertable(i, row)
      /\ rows' = [rows EXCEPT ![i] = row]
      /\ asked' = [asked EXCEPT ![i] = w]
      /\ shared' = IF R!Holding(r, i) THEN shared \cup {i} ELSE shared
      /\ R!Finish(r) /\ UNCHANGED <<table, live>>
  <2> HIDE DEF w
  <2>1. asked' = [asked EXCEPT ![i] = w]
    BY DEF R!SaveEntity, w
  <2>2. R!Insertable(i, row) /\ rows' = [rows EXCEPT ![i] = row]
    BY DEF R!SaveEntity
  <2>3. /\ shared' = IF R!Holding(r, i) THEN shared \cup {i} ELSE shared
        /\ R!Finish(r) /\ UNCHANGED <<table, live>>
    BY DEF R!SaveEntity, R!Write
  <2> QED
    BY <2>1, <2>2, <2>3
<1>6. i \notin shared' => i \notin shared /\ \A q \in Requests \ {r} : call[q].id # i
  BY <1>5 DEF R!Holding
<1>7. shared' \in SUBSET RowIds /\ shared \subseteq shared'
  BY <1>1, <1>5
<1>8. i \in RowIds /\ \A q \in Requests \ {r} : call[q].op = "create" => call[q].id # i
  BY <1>1
<1> HIDE DEF i, row, w
<1> QED
  BY <1>3, <1>4, <1>5, <1>6, <1>7, <1>8, RecordsWrite

\* The entity a request has loaded is removed.
LEMMA RecordsRemove ==
  ASSUME R!RecordsInv, NEW r \in Requests, call[r].op = "delete", R!RemoveEntity(r)
  PROVE  R!RecordsInv'
<1> DEFINE i == call[r].id
<1>1. /\ i \in RowIds /\ shared \in SUBSET RowIds
      /\ \A q \in Requests \ {r} : call[q].op = "create" => call[q].id # i
  BY DEF R!RecordsInv, R!TypeOK
<1>2. /\ rows' = [rows EXCEPT ![i] = None] /\ asked' = [asked EXCEPT ![i] = None]
      /\ shared' = IF R!Holding(r, i) THEN shared \cup {i} ELSE shared
      /\ R!Finish(r) /\ UNCHANGED <<table, live>>
  BY DEF R!RemoveEntity, R!Write
<1>3. i \notin shared' => \A q \in Requests \ {r} : call[q].id # i
  BY <1>2 DEF R!Holding
<1>4. shared' \in SUBSET RowIds /\ shared \subseteq shared'
  BY <1>1, <1>2
<1> HIDE DEF i
<1> QED
  BY <1>1, <1>2, <1>3, <1>4, RecordsWrite

\* A server or a user goes, and its rows with it.
LEMMA RecordsCascade ==
  ASSUME R!RecordsInv, NEW p \in Parents \cup Keys, R!DeleteParent(p)
  PROVE  R!RecordsInv'
<1> USE DEF R!RecordsInv
<1>1. /\ rows \in [RowIds -> R!RowOf \cup {None}] /\ asked \in [RowIds -> R!RowOf \cup {None}]
      /\ R!RowOf' = R!RowOf /\ table' = table /\ call' = call
  BY DEF R!TypeOK, R!RowOf, R!DeleteParent
<1>2. \A i \in RowIds :
        IF i \in R!Cascaded(p) THEN rows'[i] = None /\ asked'[i] = None
        ELSE rows'[i] = rows[i] /\ asked'[i] = asked[i]
  BY DEF R!DeleteParent
<1>3. \A i \in RowIds : i \in R!Cascaded(p) <=> rows[i] # None /\ p \in R!Refs(rows[i])
  BY DEF R!Cascaded, R!Present
<1>4. R!TypeOK'
  <2>1. rows' \in [RowIds -> R!RowOf \cup {None}] /\ asked' \in [RowIds -> R!RowOf \cup {None}]
    BY <1>1, <1>2 DEF R!DeleteParent
  <2> QED
    BY <1>1, <2>1 DEF R!TypeOK, R!DeleteParent, R!Cascaded, R!Present
<1>5. R!UniqueRows'
  BY <1>1, <1>2 DEF R!UniqueRows, R!Present, R!Clash
<1>6. R!RefsLive'
  BY <1>1, <1>2, <1>3 DEF R!RefsLive, R!Present, R!Refs, R!DeleteParent
<1>7. R!AsRequested'
  BY <1>2 DEF R!AsRequested, R!DeleteParent
<1>8. ASSUME NEW q \in Requests, call[q].op = "update", call[q].id \notin shared'
      PROVE  rows'[call[q].id] = call[q].row
  <2>1. call[q].id \in RowIds /\ call[q].id \notin shared
    BY <1>8 DEF R!DeleteParent
  <2>2. call[q].id \notin R!Cascaded(p)
    BY <1>8 DEF R!DeleteParent
  <2> QED
    BY <1>2, <1>8, <2>1, <2>2
<1> QED
  BY <1>1, <1>2, <1>4, <1>5, <1>6, <1>7, <1>8

\* Every step of these services keeps the invariant.
LEMMA RecordsStep == R!RecordsInv /\ [R!Next]_recordVars => R!RecordsInv'
<1> SUFFICES ASSUME R!RecordsInv, [R!Next]_recordVars PROVE R!RecordsInv'
  OBVIOUS
<1>1. CASE UNCHANGED recordVars
  BY <1>1 DEF recordVars, R!RecordsInv, R!TypeOK, R!UniqueRows, R!RefsLive, R!AsRequested,
     R!RowOf, R!Present, R!Clash, R!Refs
<1>2. ASSUME NEW r \in Requests, NEW refused \in BOOLEAN, R!RefuseIf(r, refused)
      PROVE  R!RecordsInv'
  BY <1>2, RecordsFinish, RecordsGoto DEF R!RefuseIf
<1>3. R!NoDto \in R!UpdateUserDto
  BY DEF R!NoDto, R!UpdateUserDto
<1>4. ASSUME NEW r \in Requests,
             \/ R!CreateUser(r) \/ R!AdminCreateUser(r) \/ R!CreateLocation(r)
      PROVE  R!RecordsInv'
  <2>1. PICK d \in [key : Keys, val : Vals] :
           R!Make(r, d, None, "check") /\ table \in {"user", "location"}
    BY <1>4 DEF R!CreateUser, R!AdminCreateUser, R!CreateLocation, R!CreateUserDto,
       R!CreateLocationDto
  <2>2. [key |-> d.key, val |-> d.val, parent |-> None] \in R!RowOf
    BY <2>1 DEF R!RowOf, R!UserRow, R!LocationRow
  <2> QED
    BY <2>1, <2>2, RecordsMake
<1>5. ASSUME NEW r \in Requests,
             \/ R!InviteSubuser(r) \/ R!CreateApiKey(r) \/ R!CreateDatabase(r)
      PROVE  R!RecordsInv'
  <2>1. PICK d \in [key : Keys, val : Vals], p \in Parents, pos \in {"user", "save"} :
           R!Make(r, d, p, pos) /\ table \in {"subuser", "apikey", "database"}
    BY <1>5 DEF R!InviteSubuser, R!CreateApiKey, R!CreateDatabase, R!InviteSubuserDto,
       R!CreateApiKeyDto, R!CreateDatabaseDto
  <2>2. [key |-> d.key, val |-> d.val, parent |-> p] \in R!RowOf
    BY <2>1 DEF R!RowOf, R!SubuserRow, R!ApiKeyRow, R!DatabaseRow
  <2> QED
    BY <2>1, <2>2, RecordsMake
<1>6. ASSUME NEW r \in Requests,
             \/ R!UpdateUser(r) \/ R!AdminUpdateUser(r) \/ R!UpdateMe(r)
             \/ R!UpdateLocation(r) \/ R!UpdateSubuser(r)
      PROVE  R!RecordsInv'
  <2>1. PICK i \in R!Present, d \in R!UpdateUserDto, pos \in {"check", "save"} :
           R!Load(r, "update", i, d, pos)
    BY <1>6 DEF R!UpdateUser, R!AdminUpdateUser, R!UpdateMe, R!UpdateLocation,
       R!UpdateSubuser, R!UpdateUserDto, R!UpdateProfileDto, R!UpdateLocationDto,
       R!UpdateSubuserDto, R!UserCheck
  <2> QED
    BY <2>1, RecordsLoad
<1>7. ASSUME NEW r \in Requests,
             \/ R!DeleteUser(r) \/ R!AdminDeleteUser(r) \/ R!DeleteLocation(r)
             \/ R!RemoveSubuser(r) \/ R!DeleteApiKey(r)
      PROVE  R!RecordsInv'
  <2>1. PICK i \in R!Present : R!Load(r, "delete", i, R!NoDto, "save")
    BY <1>7 DEF R!DeleteUser, R!AdminDeleteUser, R!DeleteLocation, R!RemoveSubuser,
       R!DeleteApiKey
  <2> QED
    BY <1>3, <2>1, RecordsLoad
<1>8. ASSUME NEW r \in Requests,
             \/ R!CheckUser(r) \/ R!CheckUserConflict(r) \/ R!CheckShort(r)
             \/ R!CheckShortConflict(r) \/ R!CheckSubuser(r)
      PROVE  R!RecordsInv'
  BY <1>2, <1>8 DEF R!CheckUser, R!CheckUserConflict, R!CheckShort, R!CheckShortConflict,
     R!CheckSubuser
<1>9. ASSUME NEW r \in Requests, R!FindInvited(r) \/ R!Fail(r) PROVE R!RecordsInv'
  BY <1>9, RecordsFinish, RecordsGoto DEF R!FindInvited, R!Fail
<1>10. ASSUME NEW r \in Requests,
              \/ R!SaveUser(r) \/ R!SaveLocation(r) \/ R!SaveSubuser(r) \/ R!SaveApiKey(r)
       PROVE  R!RecordsInv'
  BY <1>10, RecordsInsert DEF R!SaveUser, R!SaveLocation, R!SaveSubuser, R!SaveApiKey, R!At
<1>11. ASSUME NEW r \in Requests,
              R!SaveUserUpdate(r) \/ R!SaveLocationUpdate(r) \/ R!SaveSubuserUpdate(r)
       PROVE  R!RecordsInv'
  BY <1>11, RecordsSave DEF R!SaveUserUpdate, R!SaveLocationUpdate, R!SaveSubuserUpdate, R!At
<1>12. ASSUME NEW r \in Requests,
              \/ R!RemoveUser(r) \/ R!RemoveLocation(r) \/ R!SubuserRemoved(r)
              \/ R!RemoveApiKey(r)
       PROVE  R!RecordsInv'
  BY <1>12, RecordsRemove DEF R!RemoveUser, R!RemoveLocation, R!SubuserRemoved,
     R!RemoveApiKey, R!At
<1> QED
  BY <1>1, <1>4, <1>5, <1>6, <1>7, <1>8, <1>9, <1>10, <1>11, <1>12, RecordsCascade DEF R!Next

\* The tables are empty at first.
LEMMA RecordsInit == R!Init => R!RecordsInv
<1> SUFFICES ASSUME R!Init PROVE R!RecordsInv
  OBVIOUS
<1>1. call \in [Requests -> CallType] /\ \A r \in Requests : call[r] = R!Idle
  BY RecordsIdle DEF R!Init
<1>2. R!TypeOK
  BY <1>1 DEF R!Init, R!TypeOK, CallType
<1> QED
  BY <1>1, <1>2, RecordsIdle
  DEF R!Init, R!RecordsInv, R!UniqueRows, R!RefsLive, R!AsRequested, R!Present, CallType

-----------------------------------------------------------------------------
(* Schedules and eggs.                                                     *)

\* The owners whose rows are of one request.
Apart == Ids \ (IF kind = "schedule" THEN crossed ELSE raced)

\* The rows of an owner have the same type in both tables.
OwnerType == IF kind = "schedule" THEN Schedule ELSE Egg

\* What the invariant says of the tables, unfolded once.
LEMMA CompositeTypes ==
  CompositeInv =>
    /\ kind \in {"schedule", "egg"} /\ server \in BOOLEAN /\ batch \in 0 .. MaxBatch
    /\ owners \in [Ids -> OwnerType] /\ children \in [Ids -> SUBSET (1 .. MaxBatch)]
    /\ wanted \in [Ids -> SUBSET (1 .. MaxBatch)] /\ raced \in SUBSET Ids
    /\ crossed \in SUBSET Ids /\ broken \in SUBSET Ids /\ req \in [Requests -> Request]
    /\ OwnerType \subseteq Ids \cup {None, Gone}
BY DEF CompositeInv, TypeOK, OwnerType, Schedule, Egg, Tasks, EggVariables

\* And what types of the next state are enough.
LEMMA CompositeTypeOK ==
  ASSUME CompositeInv, kind' = kind, server' \in BOOLEAN, batch' \in 0 .. MaxBatch,
         owners' \in [Ids -> OwnerType], children' \in [Ids -> SUBSET (1 .. MaxBatch)],
         wanted' \in [Ids -> SUBSET (1 .. MaxBatch)], raced' \in SUBSET Ids,
         crossed' \in SUBSET Ids, broken' \in SUBSET Ids, req' \in [Requests -> Request]
  PROVE  TypeOK'
BY DEF CompositeInv, TypeOK, OwnerType, Schedule, Egg, Tasks, EggVariables, Request

\* A request that has ended, or not begun.
LEMMA CompositeIdle ==
  /\ Idle \in Request /\ Sound(Idle) /\ Sound(Idle)'
  /\ Idle.op = "none" /\ Idle.pc = "idle" /\ Idle.id = None /\ Idle.dto = None
  /\ ~Emptied(Idle)
BY CompositesAssumption DEF Idle, Request, Sound, OneRow, Emptied

\* The rows of a request are one batch, and the number of batches is counted.
LEMMA CompositeRows ==
  ASSUME CompositeInv, NEW b \in Batches
  PROVE  /\ Rows(b) \in SUBSET (1 .. MaxBatch) /\ OneRow(Rows(b)) /\ Rows(b) # None
         /\ Number(b) => batch' \in 0 .. MaxBatch
         /\ b # Omitted
BY CompositeTypes, CompositesAssumption DEF Batches, Rows, OneRow, Number, Omitted

\* A request that loads or selects what it is about to change.
LEMMA CompositeRead ==
  ASSUME CompositeInv, NEW r \in Requests, NEW x \in Request,
         Emptied(req[r]) => Emptied(x) /\ x.id = req[r].id,
         req' = [req EXCEPT ![r] = x], Sound(x)', batch' \in 0 .. MaxBatch,
         UNCHANGED <<kind, owners, server, children, wanted, raced, crossed, broken>>
  PROVE  CompositeInv'
<1>1. req' \in [Requests -> Request] /\ \A q \in Requests : req'[q] = IF q = r THEN x ELSE req[q]
  BY CompositeTypes
<1>2. TypeOK'
  BY <1>1, CompositeTypes, CompositeTypeOK
<1>3. ChildrenOwned' /\ (\A o \in Apart : OneRow(children[o]))'
  BY DEF CompositeInv, ChildrenOwned, Present, Apart
<1>4. LastUpdateKept'
  BY <1>1 DEF CompositeInv, LastUpdateKept, Emptied
<1>5. ASSUME NEW q \in Requests PROVE Sound(req[q])'
  <2>1. CASE q = r
    BY <1>1, <2>1 DEF Sound
  <2>2. CASE q # r
    <3>1. req'[q] = req[q] /\ Sound(req[q])
      BY <1>1, <2>2 DEF CompositeInv
    <3> QED
      BY <3>1 DEF Sound
  <2> QED
    BY <2>1, <2>2
<1> QED
  BY <1>1, <1>2, <1>3, <1>4, <1>5 DEF CompositeInv, Apart

\* Another save of the owner is between its SELECT and its write.
Writing(r, o) == \E q \in Requests \ {r} : req[q].id = o /\ req[q].pc = "write"

\* A step gives the owner o rows c that no other save of it in progress has missed.
Clear(r, o, c) == kind = "egg" \/ o \in crossed' \/ c \subseteq children[o] \/ ~Writing(r, o)

\* A statement that changes one owner and its rows, in a request that holds that owner or
\* has just begun.
LEMMA CompositeWrite ==
  ASSUME CompositeInv, NEW r \in Requests, NEW o \in Ids, req[r] = Idle \/ req[r].id = o,
         NEW x \in Request, req' = [req EXCEPT ![r] = x], Sound(x)',
         x = Idle \/ x.id = o,
         NEW w \in OwnerType, owners' = [owners EXCEPT ![o] = w],
         NEW c \in SUBSET (1 .. MaxBatch), children' = [children EXCEPT ![o] = c],
         NEW v \in SUBSET (1 .. MaxBatch), wanted' = [wanted EXCEPT ![o] = v],
         UNCHANGED <<kind, server, broken>>, batch' \in 0 .. MaxBatch,
         raced \subseteq raced', raced' \subseteq Ids,
         crossed \subseteq crossed', crossed' \subseteq Ids,
         o \notin raced' => ~Holding(r, o),
         Clear(r, o, c),
         c # {} => w # Gone,
         o \in Apart' => OneRow(c),
         o \notin raced' => c = v \/ (c = {} /\ (o \in broken \/ (x.id = o /\ Emptied(x))))
  PROVE  CompositeInv'
<1>1. req' \in [Requests -> Request] /\ \A q \in Requests : req'[q] = IF q = r THEN x ELSE req[q]
  BY CompositeTypes
<1>2. /\ \A p \in Ids : owners'[p] = IF p = o THEN w ELSE owners[p]
      /\ \A p \in Ids : children'[p] = IF p = o THEN c ELSE children[p]
      /\ \A p \in Ids : wanted'[p] = IF p = o THEN v ELSE wanted[p]
  BY CompositeTypes
<1>3. TypeOK'
  BY <1>1, CompositeTypes, CompositeTypeOK
<1>4. ChildrenOwned' /\ (\A p \in Apart : OneRow(children[p]))'
  <2>1. ChildrenOwned'
    BY <1>2 DEF CompositeInv, ChildrenOwned, Present
  <2>2. \A p \in Apart' : p \in Apart \/ p = o
    BY DEF Apart
  <2>3. \A p \in Apart : OneRow(children[p])
    BY DEF CompositeInv, Apart
  <2>4. \A p \in Apart' : OneRow(children'[p])
    BY <1>2, <2>2, <2>3 DEF Apart
  <2> QED
    BY <2>1, <2>4
<1>5. LastUpdateKept'
  <2> SUFFICES ASSUME NEW p \in Ids \ raced'
               PROVE  \/ children'[p] = wanted'[p]
                      \/ /\ children'[p] = {}
                         /\ \/ p \in broken'
                            \/ \E q \in Requests : req'[q].id = p /\ Emptied(req'[q])
    BY DEF LastUpdateKept, Emptied
  <2>1. CASE p = o
    BY <1>1, <1>2, <2>1
  <2>2. CASE p # o
    <3>1. p # None /\ req[r].id # p
      BY <2>2, CompositeIdle, CompositesAssumption
    <3> QED
      BY <1>1, <1>2, <2>2, <3>1 DEF CompositeInv, LastUpdateKept
  <2> QED
    BY <2>1, <2>2
<1>6. ASSUME NEW q \in Requests PROVE Sound(req[q])'
  <2>1. CASE q = r
    BY <1>1, <2>1 DEF Sound
  <2>2. CASE q # r
    <3>1. req'[q] = req[q] /\ Sound(req[q])
      BY <1>1, <2>2 DEF CompositeInv
    <3>2. req[q].id = o => o \in raced'
      BY <2>2 DEF Holding
    <3>3. req[q].pc # "idle" => req[q].id \in Ids
      BY <3>1, CompositeIdle DEF Sound
    <3>4. req[q].id = o /\ req[q].pc = "write" =>
            kind = "egg" \/ o \in crossed' \/ c \subseteq children[o]
      BY <2>2 DEF Writing, Clear
    <3>5. CASE req[q].pc = "idle"
      BY <3>1, <3>5 DEF Sound
    <3>7. CASE req[q].pc # "idle" /\ req[q].id = o
      <4>1. children'[o] = c /\ o \in raced'
        BY <1>2, <3>2, <3>7
      <4>2. kind = "schedule" /\ req[q].pc = "write" /\ o \notin crossed' => c \subseteq req[q].rows
        BY <3>1, <3>4, <3>7 DEF Sound
      <4> QED
        BY <3>1, <3>7, <4>1, <4>2 DEF Sound
    <3>6. CASE req[q].pc # "idle" /\ req[q].id # o
      <4>1. children'[req[q].id] = children[req[q].id] /\ owners'[req[q].id] = owners[req[q].id]
        BY <1>2, <3>3, <3>6
      <4> QED
        BY <3>1, <3>6, <4>1 DEF Sound
    <3> QED
      BY <3>5, <3>6, <3>7
  <2> QED
    BY <2>1, <2>2
<1> QED
  BY <1>1, <1>3, <1>4, <1>5, <1>6 DEF CompositeInv, Apart

\* Tables that a statement does not change, as the lemma above wants them.
LEMMA CompositeSame ==
  ASSUME CompositeInv, NEW o \in Ids
  PROVE  /\ owners = [owners EXCEPT ![o] = owners[o]]
         /\ children = [children EXCEPT ![o] = children[o]]
         /\ wanted = [wanted EXCEPT ![o] = wanted[o]]
         /\ owners[o] \in OwnerType /\ children[o] \in SUBSET (1 .. MaxBatch)
         /\ wanted[o] \in SUBSET (1 .. MaxBatch)
         /\ children[o] # {} => owners[o] # Gone
BY CompositeTypes DEF CompositeInv, ChildrenOwned, Present

\* The history of who wrote a row that somebody else held.
LEMMA CompositeWrote ==
  ASSUME CompositeInv, NEW r \in Requests, NEW o \in Ids, Wrote(r, o)
  PROVE  raced \subseteq raced' /\ raced' \subseteq Ids /\ (o \notin raced' => ~Holding(r, o))
BY CompositeTypes DEF Wrote

\* A request in progress.
LEMMA CompositeHeld ==
  ASSUME CompositeInv, NEW r \in Requests, req[r].pc # "idle"
  PROVE  /\ req[r] \in Request /\ req[r].id \in Ids /\ Sound(req[r])
         /\ \A pos \in {"clear", "select", "save"} :
              /\ [req[r] EXCEPT !.pc = pos] \in Request
              /\ [req[r] EXCEPT !.pc = pos].pc = pos
              /\ [req[r] EXCEPT !.pc = pos].op = req[r].op
              /\ [req[r] EXCEPT !.pc = pos].id = req[r].id
              /\ [req[r] EXCEPT !.pc = pos].dto = req[r].dto
              /\ [req[r] EXCEPT !.pc = pos].loaded = req[r].loaded
<1>1. req[r] \in Request /\ Sound(req[r])
  BY CompositeTypes DEF CompositeInv
<1>2. req[r].id \in Ids
  BY <1>1, CompositeIdle DEF Sound
<1>3. \A pos \in {"clear", "select", "save"} :
              /\ [req[r] EXCEPT !.pc = pos] \in Request
              /\ [req[r] EXCEPT !.pc = pos].pc = pos
              /\ [req[r] EXCEPT !.pc = pos].op = req[r].op
              /\ [req[r] EXCEPT !.pc = pos].id = req[r].id
              /\ [req[r] EXCEPT !.pc = pos].dto = req[r].dto
              /\ [req[r] EXCEPT !.pc = pos].loaded = req[r].loaded
  BY <1>1 DEF Request
<1> QED
  BY <1>1, <1>2, <1>3

\* A new schedule is saved with its tasks.
LEMMA CreateScheduleKeeps ==
  ASSUME CompositeInv, NEW r \in Requests, CreateSchedule(r)
  PROVE  CompositeInv'
<1>1. PICK o \in Ids \ (Present \cup raced \cup broken), b \in Batches :
        /\ ~Holding(r, o) /\ Number(b) /\ owners' = [owners EXCEPT ![o] = None]
        /\ children' = [children EXCEPT ![o] = Rows(b)]
        /\ wanted' = [wanted EXCEPT ![o] = Rows(b)]
  BY DEF CreateSchedule, CreateScheduleDto
<1>2. req[r] = Idle /\ req' = [req EXCEPT ![r] = Idle] /\ kind = "schedule"
  BY CompositeTypes DEF CreateSchedule
<1>3. None \in OwnerType /\ None # Gone
  BY <1>2, CompositesAssumption DEF OwnerType, Schedule
<1> DEFINE c == Rows(b)
<1>4. /\ owners' = [owners EXCEPT ![o] = None] /\ children' = [children EXCEPT ![o] = c]
      /\ c \in SUBSET (1 .. MaxBatch) /\ OneRow(c) /\ batch' \in 0 .. MaxBatch
      /\ UNCHANGED <<kind, server, raced, crossed, broken>>
  BY <1>1, CompositeRows DEF CreateSchedule
<1>5. raced \in SUBSET Ids /\ crossed \in SUBSET Ids /\ Clear(r, o, c) /\ (o \in Apart' => OneRow(c))
  BY <1>1, <1>4, CompositeTypes DEF Holding, Writing, Clear
<1> HIDE DEF c
<1> QED
  BY <1>1, <1>2, <1>3, <1>4, <1>5, CompositeIdle, CompositeWrite DEF c

\* A request that begins, and what it then carries.
LEMMA CompositeBegins ==
  ASSUME CompositeInv, NEW r \in Requests, req[r] = Idle, NEW x \in Request,
         req' = [req EXCEPT ![r] = x],
         x.id \in Ids, x.pc # "idle",
         x.dto # None => OneRow(x.dto) /\ x.op = "update",
         x.pc = "clear" => x.dto # None,
         x.pc \notin {"save", "write"},
         x.loaded = {} \/ (x.loaded = children[x.id] /\ kind = "schedule"),
         x.pc = "select" /\ kind = "schedule" => x.loaded = children[x.id],
         UNCHANGED <<kind, owners, server, children, wanted, raced, crossed, broken>>,
         batch' \in 0 .. MaxBatch
  PROVE  CompositeInv'
<1>1. (x.id \notin crossed /\ kind = "schedule" => OneRow(x.loaded)) /\ kind \in {"schedule", "egg"}
  BY CompositeTypes DEF CompositeInv, OneRow
<1>2. Sound(x)'
  BY <1>1 DEF Sound
<1> QED
  BY <1>2, CompositeIdle, CompositeRead

\* The requests that find their schedule or egg.
LEMMA CompositeStarts ==
  ASSUME CompositeInv, NEW r \in Requests,
         \/ UpdateSchedule(r) \/ ExecuteSchedule(r) \/ DeleteSchedule(r)
         \/ UpdateEgg(r) \/ DeleteEgg(r)
  PROVE  CompositeInv'
<1>0. batch \in 0 .. MaxBatch /\ \A o \in Ids : children[o] \in SUBSET (1 .. MaxBatch)
  BY CompositeTypes
<1>1. ASSUME NEW o \in Present, NEW op \in {"update", "execute", "delete"},
             FindSchedule(r, op, o)
      PROVE  CompositeInv'
  <2> DEFINE pos == IF op = "delete" THEN "remove" ELSE "select"
             x == [Idle EXCEPT !.op = op, !.pc = pos, !.id = o, !.loaded = children[o]]
  <2>1. /\ req[r] = Idle /\ o \in Ids /\ kind = "schedule"
        /\ req' = [req EXCEPT ![r] = x]
        /\ UNCHANGED <<kind, owners, server, children, wanted, raced, crossed, broken, batch>>
    BY <1>1 DEF FindSchedule, Present
  <2>2. /\ x \in Request /\ x.id = o /\ x.pc \in {"select", "remove"} /\ x.op = op /\ x.dto = None
        /\ x.loaded = children[o]
    BY <1>0, <2>1 DEF Idle, Request
  <2> HIDE DEF x
  <2> QED
    BY <1>0, <2>1, <2>2, CompositeBegins
<1>2. ASSUME NEW o \in Present, NEW b \in Batches, Number(b), kind = "schedule", req[r] = Idle,
             req' = [req EXCEPT ![r] = [Idle EXCEPT !.op = "update", !.pc = "clear",
                                                    !.id = o, !.dto = Rows(b)]],
             UNCHANGED <<kind, owners, server, children, wanted, raced, crossed, broken>>
      PROVE  CompositeInv'
  <2> DEFINE new == Rows(b)
             x == [Idle EXCEPT !.op = "update", !.pc = "clear", !.id = o, !.dto = new]
  <2>1. /\ new \in SUBSET (1 .. MaxBatch) /\ OneRow(new) /\ new # None
        /\ batch' \in 0 .. MaxBatch
    BY <1>2, CompositeRows
  <2>2. req' = [req EXCEPT ![r] = x] /\ o \in Ids
    BY <1>2 DEF Present
  <2> HIDE DEF new
  <2>3. /\ x \in Request /\ x.id = o /\ x.pc = "clear" /\ x.op = "update" /\ x.dto = new
        /\ x.loaded = {}
    BY <2>1, <2>2 DEF Idle, Request
  <2> HIDE DEF x
  <2> QED
    BY <1>2, <2>1, <2>2, <2>3, CompositeBegins
<1>3. CASE UpdateEgg(r)
  <2>1. PICK o \in Present, dto \in UpdateEggDto :
          /\ IF dto.rows = Omitted THEN UNCHANGED batch ELSE Number(dto.rows)
          /\ req' = [req EXCEPT ![r] =
               [Idle EXCEPT !.op = "update", !.pc = "select", !.id = o,
                            !.copy = IF dto.copy = Gone THEN owners[o] ELSE dto.copy,
                            !.dto = IF dto.rows = Omitted THEN None ELSE Rows(dto.rows)]]
    BY <1>3 DEF UpdateEgg
  <2> DEFINE copy == IF dto.copy = Gone THEN owners[o] ELSE dto.copy
             new == IF dto.rows = Omitted THEN None ELSE Rows(dto.rows)
             x == [Idle EXCEPT !.op = "update", !.pc = "select", !.id = o, !.copy = copy,
                               !.dto = new]
  <2>2. o \in Ids /\ copy \in Ids \cup {None, Gone}
    BY CompositeTypes DEF Present, UpdateEggDto
  <2>3. dto.rows \in Batches \/ dto.rows = Omitted
    BY DEF UpdateEggDto
  <2>4. /\ new \in {None} \cup SUBSET (1 .. MaxBatch) /\ (new # None => OneRow(new))
        /\ batch' \in 0 .. MaxBatch
    BY <1>0, <2>1, <2>3, CompositeRows
  <2>5. req' = [req EXCEPT ![r] = x]
    BY <2>1
  <2>6. /\ req[r] = Idle /\ kind = "egg"
        /\ UNCHANGED <<kind, owners, server, children, wanted, raced, crossed, broken>>
    BY <1>3 DEF UpdateEgg
  <2> HIDE DEF copy, new
  <2>7. /\ x \in Request /\ x.id = o /\ x.pc = "select" /\ x.op = "update" /\ x.dto = new
        /\ x.loaded = {}
    BY <2>2, <2>4 DEF Idle, Request
  <2> HIDE DEF x
  <2>9. /\ x.id \in Ids /\ x.pc # "idle"
        /\ x.dto # None => OneRow(x.dto) /\ x.op = "update"
        /\ x.pc = "clear" => x.dto # None
        /\ x.pc \notin {"save", "write"}
        /\ x.loaded = {} \/ (x.loaded = children[x.id] /\ kind = "schedule")
        /\ x.pc = "select" /\ kind = "schedule" => x.loaded = children[x.id]
    BY <2>2, <2>4, <2>6, <2>7
  <2> QED
    BY <2>4, <2>5, <2>6, <2>7, <2>9, CompositeBegins
<1>4. CASE DeleteEgg(r)
  <2>1. PICK o \in Present :
          req' = [req EXCEPT ![r] = [Idle EXCEPT !.op = "delete", !.pc = "remove", !.id = o]]
    BY <1>4 DEF DeleteEgg
  <2> DEFINE x == [Idle EXCEPT !.op = "delete", !.pc = "remove", !.id = o]
  <2>2. /\ o \in Ids /\ kind = "egg" /\ req[r] = Idle
        /\ UNCHANGED <<kind, owners, server, children, wanted, raced, crossed, broken, batch>>
    BY <1>4 DEF DeleteEgg, Present
  <2>3. /\ x \in Request /\ x.id = o /\ x.pc = "remove" /\ x.op = "delete" /\ x.dto = None
        /\ x.loaded = {}
    BY <2>2 DEF Idle, Request
  <2>4. req' = [req EXCEPT ![r] = x]
    BY <2>1
  <2> HIDE DEF x
  <2>9. /\ x.id \in Ids /\ x.pc # "idle"
        /\ x.dto # None => OneRow(x.dto) /\ x.op = "update"
        /\ x.pc = "clear" => x.dto # None
        /\ x.pc \notin {"save", "write"}
        /\ x.loaded = {} \/ (x.loaded = children[x.id] /\ kind = "schedule")
        /\ x.pc = "select" /\ kind = "schedule" => x.loaded = children[x.id]
    BY <2>2, <2>3
  <2> QED
    BY <1>0, <2>2, <2>3, <2>4, <2>9, CompositeBegins
<1>5. CASE UpdateSchedule(r)
  <2>1. PICK o \in Present, b \in Batches \cup {Omitted} :
           IF b = Omitted THEN FindSchedule(r, "update", o)
           ELSE /\ Number(b)
                /\ req' = [req EXCEPT ![r] = [Idle EXCEPT !.op = "update", !.pc = "clear",
                                                          !.id = o, !.dto = Rows(b)]]
                /\ UNCHANGED <<kind, owners, server, children, wanted, raced, crossed, broken>>
    BY <1>5 DEF UpdateSchedule, UpdateScheduleDto
  <2>2. kind = "schedule" /\ req[r] = Idle
    BY <1>5 DEF UpdateSchedule
  <2> QED
    BY <1>1, <1>2, <2>1, <2>2
<1> QED
  BY <1>1, <1>3, <1>4, <1>5 DEF ExecuteSchedule, DeleteSchedule

\* The SELECT of a save.
LEMMA SelectSavedKeeps ==
  ASSUME CompositeInv, NEW r \in Requests, SelectSaved(r)
  PROVE  CompositeInv'
<1>0. PICK o, seen, copy, found, x :
        /\ o = req[r].id /\ seen = IF o \in Present THEN None ELSE Gone
        /\ copy = IF kind = "egg" /\ req[r].copy = owners[o] THEN Gone ELSE req[r].copy
        /\ found = IF kind = "schedule" THEN children[o] ELSE {}
        /\ x = [req[r] EXCEPT !.pc = "write", !.seen = seen, !.copy = copy, !.rows = found]
  OBVIOUS
<1>1. /\ req[r].pc = "select" /\ req[r].op \in {"update", "execute"}
      /\ UNCHANGED <<kind, owners, server, children, wanted, raced, crossed, broken, batch>>
  BY DEF SelectSaved, At
<1>2. o \in Ids /\ Sound(req[r]) /\ req[r] \in Request
  BY <1>0, <1>1, CompositeHeld
<1>3. req' = [req EXCEPT ![r] = x]
  BY <1>0, CompositeTypes DEF SelectSaved
<1>4. seen \in {None, Gone} /\ copy \in Ids \cup {None, Gone} /\ found \in SUBSET (1 .. MaxBatch)
  BY <1>0, <1>2, CompositeTypes DEF Request
<1>5. kind = "schedule" => found = children[o] /\ seen = owners[o]
  BY <1>0, <1>2, CompositeTypes DEF OwnerType, Schedule, Present
<1>6. /\ x \in Request /\ x.pc = "write" /\ x.op = req[r].op /\ x.id = o /\ x.seen = seen
      /\ x.rows = found /\ x.dto = req[r].dto /\ x.loaded = req[r].loaded /\ o = req[r].id
  BY <1>0, <1>2, <1>4, ZenonT(40) DEF Request
<1>7. Sound(x)'
  BY <1>1, <1>2, <1>5, <1>6 DEF Sound
<1>8. Emptied(req[r]) => Emptied(x) /\ x.id = req[r].id
  BY <1>1, <1>6 DEF Emptied
<1>9. batch' \in 0 .. MaxBatch
  BY <1>1, CompositeTypes
<1> QED
  BY <1>1, <1>3, <1>6, <1>7, <1>8, <1>9, CompositeRead

\* A statement of a request in progress that is the last one.
LEMMA CompositeEnds ==
  ASSUME CompositeInv, NEW r \in Requests, NEW o \in Ids, req[r].id = o, Finish(r), Wrote(r, o),
         NEW w \in OwnerType, owners' = [owners EXCEPT ![o] = w],
         NEW c \in SUBSET (1 .. MaxBatch), children' = [children EXCEPT ![o] = c],
         NEW v \in SUBSET (1 .. MaxBatch), wanted' = [wanted EXCEPT ![o] = v],
         UNCHANGED <<kind, server, batch, broken>>,
         crossed \subseteq crossed', crossed' \subseteq Ids,
         c # {} => w # Gone,
         Clear(r, o, c),
         o \in Apart' => OneRow(c),
         o \notin raced' => c = v \/ (c = {} /\ o \in broken)
  PROVE  CompositeInv'
<1>1. raced \subseteq raced' /\ raced' \subseteq Ids /\ (o \notin raced' => ~Holding(r, o))
  BY CompositeWrote
<1>2. batch' \in 0 .. MaxBatch
  BY CompositeTypes
<1>3. PICK x \in Request : /\ Sound(x)' /\ x = Idle /\ req' = [req EXCEPT ![r] = x]
  BY CompositeIdle DEF Finish
<1> QED
  BY <1>1, <1>2, <1>3, CompositeWrite

\* update deletes the old tasks, or the old variables.
LEMMA DeleteTasksKeeps ==
  ASSUME CompositeInv, NEW r \in Requests, DeleteTasks(r) \/ DeleteVariables(r)
  PROVE  CompositeInv'
<1>0. PICK pos, o, x :
        /\ pos \in {"select", "save"} /\ pos = (IF kind = "schedule" THEN "select" ELSE "save")
        /\ o = req[r].id /\ x = [req[r] EXCEPT !.pc = pos]
  OBVIOUS
<1>1. /\ req[r].pc = "clear" /\ req[r].op = "update" /\ Wrote(r, o)
      /\ children' = [children EXCEPT ![o] = {}] /\ req' = [req EXCEPT ![r] = x]
      /\ UNCHANGED <<kind, owners, server, batch, wanted, crossed, broken>>
  <2>1. Goto(r, pos) => req' = [req EXCEPT ![r] = x]
    BY <1>0, CompositeTypes DEF Goto
  <2>2. Goto(r, pos)
    BY <1>0 DEF DeleteTasks, DeleteVariables
  <2> QED
    BY <1>0, <2>1, <2>2 DEF DeleteTasks, DeleteVariables, At
<1>2. /\ o \in Ids /\ Sound(req[r]) /\ x \in Request /\ x.pc = pos /\ x.op = req[r].op
      /\ x.id = o /\ x.dto = req[r].dto /\ x.loaded = req[r].loaded
  BY <1>0, <1>1, CompositeHeld, ZenonT(40)
<1>3. raced \subseteq raced' /\ raced' \subseteq Ids /\ (o \notin raced' => ~Holding(r, o))
  BY <1>1, <1>2, CompositeWrote
<1>4. x.dto # None /\ children'[o] = {} /\ Emptied(x) /\ kind \in {"schedule", "egg"}
  BY <1>0, <1>1, <1>2, CompositeTypes DEF Sound, Emptied
<1>5. Sound(x)'
  BY <1>0, <1>1, <1>2, <1>4 DEF Sound
<1>6. PICK w, c, v : /\ w = owners[o] /\ c = {} /\ v = wanted[o]
                     /\ owners' = [owners EXCEPT ![o] = w] /\ w \in OwnerType
                     /\ wanted' = [wanted EXCEPT ![o] = v] /\ v \in SUBSET (1 .. MaxBatch)
  BY <1>1, <1>2, CompositeSame
<1>7. /\ req[r] = Idle \/ req[r].id = o
      /\ x = Idle \/ x.id = o
      /\ c \in SUBSET (1 .. MaxBatch) /\ OneRow(c) /\ children' = [children EXCEPT ![o] = c]
      /\ batch' \in 0 .. MaxBatch
      /\ c # {} => w # Gone
      /\ Clear(r, o, c) /\ crossed' \subseteq Ids /\ crossed \subseteq crossed'
      /\ o \in Apart' => OneRow(c)
      /\ o \notin raced' => c = v \/ (c = {} /\ (o \in broken \/ (x.id = o /\ Emptied(x))))
  BY <1>0, <1>1, <1>2, <1>4, <1>6, CompositeTypes DEF OneRow, Clear
<1>8. /\ UNCHANGED <<kind, server, broken>> /\ req' = [req EXCEPT ![r] = x]
      /\ x \in Request /\ o \in Ids
  BY <1>1, <1>2
<1>9. /\ owners' = [owners EXCEPT ![o] = w] /\ w \in OwnerType
      /\ wanted' = [wanted EXCEPT ![o] = v] /\ v \in SUBSET (1 .. MaxBatch)
  BY <1>6
<1> QED
  BY <1>3, <1>5, <1>7, <1>8, <1>9, CompositeWrite

\* update and executeSchedule save the schedule with its tasks.
LEMMA SaveLoadedKeeps ==
  ASSUME CompositeInv, NEW r \in Requests, SaveLoaded(r)
  PROVE  CompositeInv'
<1> DEFINE o == req[r].id
           tasks == IF req[r].dto = None THEN req[r].loaded ELSE req[r].dto
           found == req[r].rows
           v == IF req[r].dto = None THEN wanted[o] ELSE tasks
           w == IF req[r].seen = Gone THEN None ELSE owners[o]
           c == children[o] \cup (tasks \ found)
<1>1. /\ kind = "schedule" /\ req[r].pc = "write" /\ req[r].op \in {"update", "execute"}
      /\ req[r].seen # Gone => tasks \subseteq found \/ o \in Present
      /\ (found \ tasks) \cap children[o] = {}
      /\ wanted' = IF req[r].dto = None THEN wanted ELSE [wanted EXCEPT ![o] = tasks]
      /\ crossed' = IF Writing(r, o) THEN crossed \cup {o} ELSE crossed
      /\ Wrote(r, o) /\ Finish(r) /\ UNCHANGED <<kind, server, batch, broken>>
  BY DEF SaveLoaded, WriteSchedule, At, Writing
<1>2. o \in Ids /\ Sound(req[r]) /\ req[r] \in Request
  BY <1>1, CompositeHeld
<1>3. owners' = [owners EXCEPT ![o] = w] /\ children' = [children EXCEPT ![o] = c]
  <2>1. /\ owners' = IF req[r].seen = Gone THEN [owners EXCEPT ![o] = None] ELSE owners
        /\ children' = [children EXCEPT ![o] = @ \cup (tasks \ found)]
    BY DEF SaveLoaded, WriteSchedule
  <2> QED
    BY <1>2, <2>1, CompositeSame
<1>4. tasks \in SUBSET (1 .. MaxBatch) /\ found \in SUBSET (1 .. MaxBatch)
  BY <1>2 DEF Request
<1>5. c \in SUBSET (1 .. MaxBatch)
  BY <1>2, <1>4, CompositeSame
<1>6. v \in SUBSET (1 .. MaxBatch) /\ wanted' = [wanted EXCEPT ![o] = v]
  BY <1>1, <1>2, <1>4, CompositeSame
<1>7. w \in OwnerType /\ (c # {} => w # Gone)
  <2>1. None \in OwnerType /\ None # Gone
    BY <1>1, CompositesAssumption DEF OwnerType, Schedule
  <2>2. owners[o] \in OwnerType /\ (children[o] # {} => owners[o] # Gone)
    BY <1>2, CompositeSame
  <2> QED
    BY <1>1, <2>1, <2>2 DEF Present
<1>8. crossed \subseteq crossed' /\ crossed' \subseteq Ids /\ Clear(r, o, c)
  BY <1>1, <1>2, CompositeTypes DEF Clear
<1>9. o \in Apart' => OneRow(c)
  <2> SUFFICES ASSUME o \notin crossed PROVE OneRow(c)
    BY <1>1, <1>8 DEF Apart
  <2>1. OneRow(tasks) /\ children[o] \subseteq found
    BY <1>1, <1>2 DEF Sound
  <2>2. c \subseteq tasks
    BY <1>1, <2>1
  <2> QED
    BY <2>1, <2>2 DEF OneRow
<1>10. o \notin raced' => c = v \/ (c = {} /\ o \in broken)
  <2> SUFFICES ASSUME o \notin raced' PROVE c = v \/ (c = {} /\ o \in broken)
    OBVIOUS
  <2>1. o \notin raced /\ ~Holding(r, o)
    BY <1>1, <1>2, CompositeWrote
  <2>2. found = children[o] /\ (req[r].dto = None => tasks = children[o])
    BY <1>1, <1>2, <2>1 DEF Sound
  <2>3. c = tasks
    BY <1>1, <2>2
  <2>4. ASSUME req[r].dto = None PROVE c = wanted[o] \/ (c = {} /\ o \in broken)
    <3>1. ~\E q \in Requests : req[q].id = o /\ Emptied(req[q])
      BY <2>1, <2>4 DEF Holding, Emptied
    <3> QED
      BY <1>2, <2>1, <2>2, <2>3, <2>4, <3>1 DEF CompositeInv, LastUpdateKept
  <2> QED
    BY <2>3, <2>4
<1>11. req[r].id = o
  OBVIOUS
<1> HIDE DEF o, tasks, found, v, w, c
<1> QED
  BY <1>1, <1>2, <1>3, <1>5, <1>6, <1>7, <1>8, <1>9, <1>10, <1>11, CompositeEnds

\* The variables of an egg are saved when it was found without any.
LEMMA SaveVariablesKeeps ==
  ASSUME CompositeInv, NEW r \in Requests, SaveVariables(r)
  PROVE  CompositeInv'
<1> DEFINE o == req[r].id
           c == children[o] \cup req[r].dto
           v == req[r].dto
<1>1. /\ kind = "egg" /\ req[r].pc = "save" /\ req[r].op \in {"create", "update"}
      /\ o \in Present /\ children' = [children EXCEPT ![o] = c]
      /\ wanted' = [wanted EXCEPT ![o] = v]
      /\ Wrote(r, o) /\ Finish(r) /\ UNCHANGED <<kind, owners, server, batch, crossed, broken>>
  <2>1. children' = [children EXCEPT ![o] = c]
    BY DEF SaveVariables
  <2> QED
    BY <2>1 DEF SaveVariables, VariablesSaveable, At
<1>2. o \in Ids /\ Sound(req[r]) /\ req[r] \in Request
  BY <1>1, CompositeHeld
<1>3. v \in SUBSET (1 .. MaxBatch) /\ OneRow(v) /\ c \in SUBSET (1 .. MaxBatch)
  <2>1. req[r].dto # None /\ req[r].dto \in {None} \cup SUBSET (1 .. MaxBatch)
    BY <1>1, <1>2 DEF Sound, Request
  <2> QED
    BY <1>2, <2>1, CompositeSame DEF Sound
<1>4. owners' = [owners EXCEPT ![o] = owners[o]] /\ owners[o] \in OwnerType /\ owners[o] # Gone
  BY <1>1, <1>2, CompositeSame DEF Present
<1>5. o \notin raced' => c = v
  <2> SUFFICES ASSUME o \notin raced' PROVE c = v
    OBVIOUS
  <2>1. o \notin raced
    BY <1>1, <1>2, CompositeWrote
  <2>2. children[o] = {}
    BY <1>1, <1>2, <2>1 DEF Sound
  <2> QED
    BY <2>2
<1>6. o \in Apart' => OneRow(c)
  BY <1>1, <1>3, <1>5 DEF Apart
<1>7. crossed \subseteq crossed' /\ crossed' \subseteq Ids /\ Clear(r, o, c) /\ req[r].id = o
  BY <1>1, CompositeTypes DEF Clear
<1>8. PICK w : w = owners[o]
  OBVIOUS
<1> HIDE DEF o, c, v
<1> QED
  BY <1>1, <1>2, <1>3, <1>4, <1>5, <1>6, <1>7, <1>8, CompositeEnds

\* remove takes the rows with their owner.
LEMMA RemoveKeeps ==
  ASSUME CompositeInv, NEW r \in Requests, RemoveSchedule(r) \/ RemoveEgg(r)
  PROVE  CompositeInv'
<1>1. req[r].pc = "remove" /\ Remove(r, req[r].id)
  BY DEF RemoveSchedule, RemoveEgg, At
<1>2. Gone \in OwnerType /\ {} \in SUBSET (1 .. MaxBatch) /\ OneRow({})
  BY DEF OwnerType, Schedule, Egg, OneRow
<1>3. PICK o \in Ids, c \in SUBSET (1 .. MaxBatch) : o = req[r].id /\ c = {}
  BY <1>1, CompositeHeld
<1>4. /\ crossed \subseteq crossed' /\ crossed' \subseteq Ids /\ Clear(r, o, c)
      /\ owners' = [owners EXCEPT ![o] = Gone] /\ children' = [children EXCEPT ![o] = c]
      /\ wanted' = [wanted EXCEPT ![o] = c] /\ Wrote(r, o) /\ Finish(r)
      /\ UNCHANGED <<kind, server, batch, broken>>
  BY <1>1, <1>3, CompositeTypes DEF Remove, Clear
<1> QED
  BY <1>2, <1>3, <1>4, CompositeEnds

\* The columns of an egg are saved.
LEMMA SaveEggKeeps ==
  ASSUME CompositeInv, NEW r \in Requests, SaveEgg(r)
  PROVE  CompositeInv'
<1>0. PICK o, w : /\ o = req[r].id
                  /\ w = IF req[r].copy # Gone /\ (req[r].seen = Gone \/ o \in Present)
                         THEN req[r].copy ELSE owners[o]
  OBVIOUS
<1>1. /\ kind = "egg" /\ req[r].pc = "write" /\ req[r].op = "update"
      /\ owners' = [owners EXCEPT ![o] = w] /\ Wrote(r, o)
      /\ IF req[r].dto = None THEN Finish(r)
         ELSE req' = [req EXCEPT ![r].pc = "clear", ![r].copy = None, ![r].seen = None]
      /\ UNCHANGED <<kind, server, children, batch, wanted, crossed, broken>>
  BY <1>0 DEF SaveEgg, At
<1>2. o \in Ids /\ Sound(req[r]) /\ req[r] \in Request
  BY <1>0, <1>1, CompositeHeld
<1>3. w \in OwnerType /\ (children[o] # {} => w # Gone)
  <2>1. owners[o] \in OwnerType /\ (children[o] # {} => owners[o] # Gone)
    BY <1>2, CompositeSame
  <2>2. req[r].copy \in OwnerType
    BY <1>1, <1>2 DEF OwnerType, Egg, Request
  <2> QED
    BY <1>0, <2>1, <2>2
<1>4. raced \subseteq raced' /\ raced' \subseteq Ids /\ (o \notin raced' => ~Holding(r, o))
  BY <1>1, <1>2, CompositeWrote
<1>5. /\ children' = [children EXCEPT ![o] = children[o]]
      /\ wanted' = [wanted EXCEPT ![o] = wanted[o]]
      /\ children[o] \in SUBSET (1 .. MaxBatch) /\ wanted[o] \in SUBSET (1 .. MaxBatch)
      /\ batch' \in 0 .. MaxBatch
  BY <1>1, <1>2, CompositeSame, CompositeTypes
<1>6. o \in Apart' => OneRow(children[o])
  BY <1>1, <1>2, <1>4 DEF CompositeInv, Apart
<1>7. o \notin raced' => children[o] = wanted[o] \/ (children[o] = {} /\ o \in broken)
  <2> SUFFICES ASSUME o \notin raced'
               PROVE  children[o] = wanted[o] \/ (children[o] = {} /\ o \in broken)
    OBVIOUS
  <2>1. ~\E q \in Requests : req[q].id = o /\ Emptied(req[q])
    BY <1>0, <1>1, <1>4 DEF Holding, Emptied
  <2> QED
    BY <1>2, <1>4, <2>1 DEF CompositeInv, LastUpdateKept
<1>8. crossed \subseteq crossed' /\ crossed' \subseteq Ids
  BY <1>1, CompositeTypes
<1>9. CASE req[r].dto = None
  <2>1. PICK c, v : c = children[o] /\ v = wanted[o] /\ o = req[r].id
    BY <1>0
  <2>2. /\ c \in SUBSET (1 .. MaxBatch) /\ children' = [children EXCEPT ![o] = c]
        /\ v \in SUBSET (1 .. MaxBatch) /\ wanted' = [wanted EXCEPT ![o] = v]
        /\ c # {} => w # Gone
        /\ o \in Apart' => OneRow(c)
        /\ o \notin raced' => c = v \/ (c = {} /\ o \in broken)
        /\ Clear(r, o, c)
    BY <1>1, <1>3, <1>5, <1>6, <1>7, <2>1 DEF Clear
  <2>3. Finish(r) /\ req[r].id = o
    BY <1>1, <1>9, <2>1
  <2> QED
    BY <1>1, <1>2, <1>3, <1>8, <2>2, <2>3, CompositeEnds
<1>10. CASE req[r].dto # None
  <2>0. PICK x : x = [req[r] EXCEPT !.pc = "clear", !.copy = None, !.seen = None]
    OBVIOUS
  <2>1. req' = [req EXCEPT ![r] = x]
    BY <1>1, <1>10, <2>0, CompositeTypes
  <2>2. /\ x \in Request /\ x.pc = "clear" /\ x.op = req[r].op /\ x.id = o
        /\ x.dto = req[r].dto
    BY <1>0, <1>2, <2>0 DEF Request
  <2>3. Sound(x)'
    BY <1>1, <1>2, <1>10, <2>2 DEF Sound
  <2>4. req[r].id = o
    BY <1>0
  <2>5. PICK c, v : c = children[o] /\ v = wanted[o]
    OBVIOUS
  <2>6. /\ req[r] = Idle \/ req[r].id = o
        /\ x = Idle \/ x.id = o
        /\ c \in SUBSET (1 .. MaxBatch) /\ children' = [children EXCEPT ![o] = c]
        /\ v \in SUBSET (1 .. MaxBatch) /\ wanted' = [wanted EXCEPT ![o] = v]
        /\ c # {} => w # Gone
        /\ o \in Apart' => OneRow(c)
        /\ o \notin raced' => c = v \/ (c = {} /\ (o \in broken \/ (x.id = o /\ Emptied(x))))
        /\ Clear(r, o, c)
    BY <1>1, <1>3, <1>5, <1>6, <1>7, <1>8, <2>2, <2>4, <2>5 DEF Clear
  <2>7. /\ UNCHANGED <<kind, server, broken>> /\ owners' = [owners EXCEPT ![o] = w]
        /\ batch' \in 0 .. MaxBatch /\ o \in Ids /\ x \in Request
    BY <1>1, <1>2, <1>5, <2>2
  <2> QED
    BY <1>3, <1>4, <1>8, <2>1, <2>3, <2>6, <2>7, CompositeWrite
<1> QED
  BY <1>9, <1>10

\* A new egg is saved before its variables.
LEMMA SaveNewEggKeeps ==
  ASSUME CompositeInv, NEW r \in Requests, CreateEgg(r) \/ ImportEgg(r)
  PROVE  CompositeInv'
<1>1. PICK dto \in [copy : Present \cup {None}, rows : Batches] : SaveNewEgg(r, dto)
  BY DEF CreateEgg, ImportEgg, CreateEggDto, ImportedEgg
<1>2. PICK o \in Ids \ (Present \cup raced \cup broken) :
        /\ ~Holding(r, o) /\ Number(dto.rows)
        /\ owners' = [owners EXCEPT ![o] = dto.copy]
        /\ wanted' = [wanted EXCEPT ![o] = Rows(dto.rows)]
        /\ IF dto.rows = 0 THEN UNCHANGED req
           ELSE req' = [req EXCEPT ![r] = [Idle EXCEPT !.op = "create", !.pc = "save",
                                                       !.id = o, !.dto = Rows(dto.rows)]]
  BY <1>1 DEF SaveNewEgg
<1> DEFINE v == Rows(dto.rows)
           w == dto.copy
           x == IF dto.rows = 0 THEN Idle
                ELSE [Idle EXCEPT !.op = "create", !.pc = "save", !.id = o, !.dto = v]
<1>3. /\ kind = "egg" /\ req[r] = Idle /\ UNCHANGED <<kind, server, children, raced, crossed, broken>>
  BY <1>1 DEF SaveNewEgg
<1>4. /\ v \in SUBSET (1 .. MaxBatch) /\ OneRow(v) /\ v # None /\ batch' \in 0 .. MaxBatch
      /\ dto.rows = 0 => v = {}
  BY <1>2, CompositeRows DEF Rows
<1>5. req' = [req EXCEPT ![r] = x]
  BY <1>2, <1>3, CompositeTypes
<1>6. w \in OwnerType /\ w # Gone
  BY <1>3, CompositesAssumption DEF OwnerType, Egg, Present
<1>7. children[o] = {} /\ children' = [children EXCEPT ![o] = {}]
  BY <1>3, CompositeTypes DEF CompositeInv, ChildrenOwned
<1>8. CASE dto.rows = 0
  <2> HIDE DEF v, w
  <2> QED
    BY <1>2, <1>3, <1>4, <1>5, <1>6, <1>7, <1>8, CompositeIdle, CompositeTypes, CompositeWrite
    DEF OneRow, v, w, Clear
<1>9. CASE dto.rows # 0
  <2> HIDE DEF v
  <2>1. /\ x \in Request /\ x.id = o /\ x.pc = "save" /\ x.op = "create" /\ x.dto = v
        /\ x.loaded = {}
    BY <1>4, <1>9 DEF Idle, Request
  <2>2. /\ owners' = [owners EXCEPT ![o] = w] /\ wanted' = [wanted EXCEPT ![o] = v]
    BY <1>2 DEF v
  <2> HIDE DEF x, w
  <2>3. Sound(x)'
    BY <1>3, <1>4, <1>7, <2>1 DEF Sound
  <2>4. {} \in SUBSET (1 .. MaxBatch) /\ OneRow({}) /\ raced \subseteq Ids
    BY CompositeTypes DEF OneRow
  <2>5. PICK c : c = {}
    OBVIOUS
  <2>6. /\ req[r] = Idle \/ req[r].id = o
        /\ x = Idle \/ x.id = o
        /\ c \in SUBSET (1 .. MaxBatch) /\ children' = [children EXCEPT ![o] = c]
        /\ c # {} => w # Gone
        /\ o \in Apart' => OneRow(c)
        /\ o \notin raced' => ~Holding(r, o)
        /\ raced \subseteq raced' /\ raced' \subseteq Ids
        /\ crossed \subseteq crossed' /\ crossed' \subseteq Ids /\ Clear(r, o, c)
        /\ o \notin raced' => c = v \/ (c = {} /\ (o \in broken \/ (x.id = o /\ Emptied(x))))
    BY <1>2, <1>3, <1>4, <1>7, <2>1, <2>4, <2>5, CompositeTypes DEF Emptied, Clear
  <2>7. UNCHANGED <<kind, server, broken>> /\ o \in Ids
    BY <1>3
  <2> QED
    BY <1>4, <1>5, <1>6, <2>1, <2>2, <2>3, <2>6, <2>7, CompositeWrite
<1> QED
  BY <1>8, <1>9

\* A statement fails, and the request with it.
LEMMA CompositeFails ==
  ASSUME CompositeInv, NEW r \in Requests, Fail(r)
  PROVE  CompositeInv'
<1>1. /\ req' = [req EXCEPT ![r] = Idle] /\ req[r].id \in Ids /\ broken' \subseteq Ids
      /\ broken \subseteq broken'
      /\ Emptied(req[r]) => req[r].id \in broken'
      /\ UNCHANGED <<kind, owners, server, children, batch, wanted, raced, crossed>>
  BY CompositeTypes DEF Fail, Finish, CompositeInv, Sound
<1>2. /\ req' \in [Requests -> Request]
      /\ \A q \in Requests : req'[q] = IF q = r THEN Idle ELSE req[q]
  BY <1>1, CompositeTypes, CompositeIdle
<1>3. TypeOK'
  BY <1>1, <1>2, CompositeTypes, CompositeTypeOK
<1>4. ChildrenOwned' /\ (\A o \in Apart : OneRow(children[o]))'
  BY <1>1 DEF CompositeInv, ChildrenOwned, Present, Apart
<1>5. LastUpdateKept'
  BY <1>1, <1>2 DEF CompositeInv, LastUpdateKept, Emptied
<1>6. ASSUME NEW q \in Requests PROVE Sound(req[q])'
  <2>1. req'[q] = req[q] \/ req'[q] = Idle
    BY <1>2
  <2>2. Sound(req[q])
    BY DEF CompositeInv
  <2> QED
    BY <1>1, <2>1, <2>2, CompositeIdle DEF Sound
<1> QED
  BY <1>2, <1>3, <1>4, <1>5, <1>6 DEF CompositeInv, Apart

\* The server goes, its schedules and their tasks with it.
LEMMA DeleteServerKeeps ==
  ASSUME CompositeInv, DeleteServer
  PROVE  CompositeInv'
<1>1. /\ kind = "schedule" /\ server' = FALSE /\ owners' = [o \in Ids |-> Gone]
      /\ children' = [o \in Ids |-> {}] /\ wanted' = [o \in Ids |-> {}]
      /\ raced' = raced \cup {o \in Ids : \E r \in Requests : req[r].id = o}
      /\ UNCHANGED <<kind, req, batch, crossed, broken>>
  BY DEF DeleteServer
<1>2. Gone \in OwnerType
  BY DEF OwnerType, Schedule, Egg
<1>3. TypeOK'
  <2>1. /\ owners' \in [Ids -> OwnerType] /\ children' \in [Ids -> SUBSET (1 .. MaxBatch)]
        /\ wanted' \in [Ids -> SUBSET (1 .. MaxBatch)] /\ server' \in BOOLEAN
    BY <1>1, <1>2
  <2> QED
    BY <1>1, <2>1, CompositeTypes, CompositeTypeOK
<1>4. ChildrenOwned' /\ LastUpdateKept'
  BY <1>1 DEF ChildrenOwned, LastUpdateKept
<1>5. \A o \in Ids : OneRow(children'[o])
  BY <1>1 DEF OneRow
<1>6. ASSUME NEW q \in Requests PROVE Sound(req[q])'
  <2>1. Sound(req[q])
    BY DEF CompositeInv
  <2>2. req[q].pc # "idle" => req[q].id \in raced'
    BY <1>1, <2>1, CompositeHeld
  <2>3. \A o \in Ids : children'[o] = {}
    BY <1>1
  <2>4. req[q].pc = "write" => children'[req[q].id] = {}
    BY <2>1, <2>3, CompositeHeld
  <2> QED
    BY <1>1, <2>1, <2>2, <2>4 DEF Sound
<1> QED
  BY <1>1, <1>3, <1>4, <1>5, <1>6, CompositeTypes DEF CompositeInv

\* Every statement keeps the invariant.
LEMMA CompositeStep == CompositeInv /\ [Next]_compositeVars => CompositeInv'
<1> SUFFICES ASSUME CompositeInv, [Next]_compositeVars PROVE CompositeInv'
  OBVIOUS
<1>1. CASE UNCHANGED compositeVars
  <2>1. UNCHANGED <<kind, owners, server, children, req, batch, wanted, raced, crossed, broken>>
    BY <1>1 DEF compositeVars
  <2>2. TypeOK' /\ ChildrenOwned' /\ LastUpdateKept'
    BY <2>1 DEF CompositeInv, TypeOK, ChildrenOwned, LastUpdateKept, Present, Emptied
  <2>3. \A q \in Requests : Sound(req[q])'
    BY <2>1 DEF CompositeInv, Sound
  <2> QED
    BY <2>1, <2>2, <2>3 DEF CompositeInv
<1>2. CASE DeleteServer
  BY <1>2, DeleteServerKeeps
<1>3. ASSUME NEW r \in Requests, CreateSchedule(r)
      PROVE  CompositeInv'
  BY <1>3, CreateScheduleKeeps
<1>4. ASSUME NEW r \in Requests,
             \/ UpdateSchedule(r) \/ ExecuteSchedule(r) \/ DeleteSchedule(r)
             \/ UpdateEgg(r) \/ DeleteEgg(r)
      PROVE  CompositeInv'
  BY <1>4, CompositeStarts
<1>5. ASSUME NEW r \in Requests, DeleteTasks(r) \/ DeleteVariables(r)
      PROVE  CompositeInv'
  BY <1>5, DeleteTasksKeeps
<1>6. ASSUME NEW r \in Requests, SaveLoaded(r)
      PROVE  CompositeInv'
  BY <1>6, SaveLoadedKeeps
<1>7. ASSUME NEW r \in Requests, CreateEgg(r) \/ ImportEgg(r)
      PROVE  CompositeInv'
  BY <1>7, SaveNewEggKeeps
<1>8. ASSUME NEW r \in Requests, SaveEgg(r)
      PROVE  CompositeInv'
  BY <1>8, SaveEggKeeps
<1>9. ASSUME NEW r \in Requests, SaveVariables(r)
      PROVE  CompositeInv'
  BY <1>9, SaveVariablesKeeps
<1>10. ASSUME NEW r \in Requests, RemoveSchedule(r) \/ RemoveEgg(r)
       PROVE  CompositeInv'
  BY <1>10, RemoveKeeps
<1>11. ASSUME NEW r \in Requests, Fail(r)
       PROVE  CompositeInv'
  BY <1>11, CompositeFails
<1>12. ASSUME NEW r \in Requests, SelectSaved(r)
       PROVE  CompositeInv'
  BY <1>12, SelectSavedKeeps
<1> QED
  BY <1>1, <1>2, <1>3, <1>4, <1>5, <1>6, <1>7, <1>8, <1>9, <1>10, <1>11, <1>12 DEF Next

\* No request has begun and the tables are empty.
LEMMA CompositeInit == Init => CompositeInv
<1> SUFFICES ASSUME Init PROVE CompositeInv
  OBVIOUS
<1>1. /\ kind \in {"schedule", "egg"} /\ owners = [o \in Ids |-> Gone] /\ server = TRUE
      /\ children = [o \in Ids |-> {}] /\ req = [r \in Requests |-> Idle]
      /\ batch = 0 /\ wanted = [o \in Ids |-> {}] /\ raced = {} /\ crossed = {}
      /\ broken = {}
  BY DEF Init
<1>2. req \in [Requests -> Request] /\ \A r \in Requests : Sound(req[r]) /\ req[r] \in Request
  BY <1>1, CompositeIdle
<1>3. TypeOK
  <2>1. owners \in [Ids -> IF kind = "schedule" THEN Schedule ELSE Egg]
    BY <1>1 DEF Schedule, Egg
  <2>2. children \in [Ids -> IF kind = "schedule" THEN Tasks ELSE EggVariables]
    BY <1>1 DEF Tasks, EggVariables
  <2>3. batch \in 0 .. MaxBatch /\ wanted \in [Ids -> SUBSET (1 .. MaxBatch)]
    BY <1>1, CompositesAssumption
  <2> QED
    BY <1>1, <1>2, <2>1, <2>2, <2>3 DEF TypeOK, Request
<1>4. ChildrenOwned /\ LastUpdateKept /\ \A o \in Ids : OneRow(children[o])
  BY <1>1 DEF ChildrenOwned, LastUpdateKept, OneRow
<1> QED
  BY <1>2, <1>3, <1>4 DEF CompositeInv

\* One batch is at most one.
LEMMA CompositeOneBatch == CompositeInv => OneBatch
<1> SUFFICES ASSUME CompositeInv, NEW o \in Apart PROVE Cardinality(children[o]) <= 1
  BY DEF OneBatch, Apart
<1>1. OneRow(children[o])
  BY DEF CompositeInv, Apart
<1>2. CASE children[o] = {}
  BY <1>2, FS_EmptySet
<1>3. CASE \E b \in children[o] : children[o] = {b}
  <2>1. PICK b \in children[o] : children[o] = {b}
    BY <1>3
  <2>2. Cardinality({b}) = 1
    BY FS_Singleton
  <2> QED
    BY <2>1, <2>2
<1> QED
  BY <1>1, <1>2, <1>3 DEF OneRow

-----------------------------------------------------------------------------
(* The theorems.                                                           *)

\* What the invariants of the two parts say of every behaviour of each.
THEOREM CompositeAlways == Spec => []CompositeInv
<1> QED
  BY CompositeInit, CompositeStep, PTL DEF Spec

\* The same of the rows of Records.
THEOREM RecordsAlways == R!Spec => []R!RecordsInv
<1>1. R!Init => R!RecordsInv
  BY RecordsInit
<1>2. R!RecordsInv /\ [R!Next]_(R!recordVars) => R!RecordsInv'
  BY RecordsStep DEF R!recordVars, recordVars
<1> QED
  BY <1>1, <1>2, PTL DEF R!Spec

\* The tasks of a schedule come from one request (scheduleRepo.save after tasks are deleted)
\* unless one save wrote between the SELECT and the write of another, and so do the variables
\* of an egg that no two requests wrote at a time.
THEOREM OneBatchAlways == Spec => []OneBatch
<1> QED
  BY CompositeAlways, CompositeOneBatch, PTL

\* The tasks or variables of an owner that was not written while another request held it are
\* those the last update that succeeded asked for, unless an update is between deleting and
\* saving them, or failed there.
THEOREM LastUpdateAlwaysKept == Spec => []LastUpdateKept
<1>1. CompositeInv => LastUpdateKept
  BY DEF CompositeInv
<1> QED
  BY <1>1, CompositeAlways, PTL

\* A row of the plain tables is what the requests that succeeded asked for, unless two of
\* them overlapped: the load and save of a service's update.
THEOREM RowsAlwaysAsRequested == R!Spec => []AsRequested
<1>1. R!RecordsInv => AsRequested
  BY DEF R!RecordsInv, AsRequested
<1> QED
  BY <1>1, RecordsAlways, PTL

\* Whatever the requests race, unique columns stay unique and no row outlives its owner.
THEOREM RowsAlwaysConsistent == Spec /\ R!Spec => []RowsConsistent
<1>1. CompositeInv /\ R!RecordsInv => RowsConsistent
  BY DEF CompositeInv, R!RecordsInv, RowsConsistent
<1> QED
  BY <1>1, CompositeAlways, RecordsAlways, PTL

\* The variables of the two modules keep their types.
THEOREM TypesAlwaysOK == Spec /\ R!Spec => []TypesOK
<1>1. CompositeInv /\ R!RecordsInv => TypesOK
  BY DEF CompositeInv, R!RecordsInv, TypesOK
<1> QED
  BY <1>1, CompositeAlways, RecordsAlways, PTL

\* The run of MCResources, in which one part moves at a time, is a run of both: the theorems
\* above are about everything TLC explores there.
THEOREM ResourcesRun == MCSpec => Spec /\ R!Spec
<1> DEFINE all == <<part, compositeVars, recordVars>>
<1>1. MCInit => Init /\ R!Init
  BY DEF MCInit
<1>2. [MCNext]_all => [Next]_compositeVars
  BY DEF MCNext
<1>3. [MCNext]_all => [R!Next]_(R!recordVars)
  BY DEF MCNext, recordVars, R!recordVars
<1> QED
  BY <1>1, <1>2, <1>3, PTL DEF MCSpec, Spec, R!Spec
=============================================================================
