-------------------------- MODULE PanelStoreProofs --------------------------
(***************************************************************************)
(* PanelStore for any number of servers, allocations, nodes, users and     *)
(* concurrent requests: the server-allocation relation stays consistent    *)
(* (OwnerConsistent), no allocation is handed over (AllocationNeverStolen),*)
(* the handlers implement Ownership, and as long as nothing is updated or  *)
(* released created servers stay bound to their allocations.               *)
(*                                                                         *)
(* Every action changes one request; most change no table.  FinishKeeps    *)
(* reduces an action that ends its request to what it does to the tables,  *)
(* ReadKeeps one that only reads to what the request holds afterwards.     *)
(***************************************************************************)
EXTENDS PanelStore, TLAPS

UpdatePcs == {"u_save"}
CreatePcs == {"c_alloc", "c_user", "c_capacity", "c_commit"}

Tables == <<nodes, users, server, allocation, issuedS, issuedA>>

TablesOK ==
  /\ nodes \subseteq Nodes
  /\ users \subseteq Users
  /\ server \in [Servers -> ServerRow \cup {None}]
  /\ allocation \in [Allocs -> AllocRow \cup {None}]
  /\ issuedS \subseteq Servers
  /\ issuedA \subseteq Allocs
  /\ OwnerConsistent
  /\ UniqueAllocation
  /\ RowsIssued

\* What a step may do to the rows other requests have read.
RowsKept ==
  /\ issuedS \subseteq issuedS'
  /\ issuedA \subseteq issuedA'
  /\ \A a \in issuedA : allocation'[a] # None =>
       allocation[a] # None /\ allocation'[a].node = allocation[a].node
  /\ \A q \in Requests : (req[q].pc = "u_save" /\ server'[req[q].s] # None) =>
       /\ server'[req[q].s].alloc = req[q].a
       /\ server'[req[q].s].node = req[q].n

-----------------------------------------------------------------------------
\* A server that is loaded with its relation has the allocation it names.
LEMMA JoinedFact ==
  ASSUME IndInv, NEW s \in Servers, server[s] # None, Joined(s) # None
  PROVE  /\ Joined(s) \in Rows
         /\ allocation[Joined(s)].server = s
         /\ server[s].alloc = Joined(s)
         /\ server[s].node = allocation[Joined(s)].node
<1>1. HeldBy(s) # {}
  BY DEF Joined
<1>2. Joined(s) \in HeldBy(s)
  BY <1>1 DEF Joined
<1>3. Joined(s) \in Rows /\ allocation[Joined(s)].server = s
  BY <1>2 DEF HeldBy
<1>4. s # None
  BY NoneAssumption
<1> QED
  BY <1>3, <1>4 DEF IndInv, OwnerConsistent

\* The relation findByUuid loads is an allocation or nothing.
LEMMA JoinedType == ASSUME NEW s PROVE Joined(s) \in Allocs \cup {None}
<1>1. CASE HeldBy(s) = {}
  BY <1>1 DEF Joined
<1>2. CASE HeldBy(s) # {}
  <2>1. Joined(s) \in HeldBy(s)
    BY <1>2 DEF Joined
  <2> QED
    BY <2>1 DEF HeldBy, Rows
<1> QED
  BY <1>1, <1>2

\* A request that has ended, or not begun, is well-typed.
LEMMA IdleType == Idle \in Request
BY DEF Idle, Request, Pc

\* A step that replaces request r by one that is neither creating nor updating
\* keeps the invariant when the tables do.
LEMMA EndKeeps ==
  ASSUME IndInv, NEW r \in Requests, NEW x \in Request,
         x.pc \notin CreatePcs \cup UpdatePcs,
         req' = [req EXCEPT ![r] = x],
         TablesOK', RowsKept
  PROVE  IndInv'
<1> USE DEF IndInv
<1>1. TypeOK'
  BY DEF TypeOK, TablesOK
<1>2. ASSUME NEW q \in Requests PROVE req'[q] = IF q = r THEN x ELSE req[q]
  BY DEF TypeOK
<1>3. ASSUME NEW q \in Requests PROVE CreateLocals(q)'
  <2>1. CASE q = r
    BY <1>2, <2>1 DEF CreateLocals, CreatePcs
  <2>2. CASE q # r
    <3>1. req'[q] = req[q]
      BY <1>2, <2>2
    <3> QED
      BY <3>1 DEF CreateLocals, RowsKept, Rows
  <2> QED
    BY <2>1, <2>2
<1>4. ASSUME NEW q \in Requests PROVE UpdateLocals(q)'
  <2>1. CASE q = r
    BY <1>2, <2>1 DEF UpdateLocals, UpdatePcs
  <2>2. CASE q # r
    <3>1. req'[q] = req[q]
      BY <1>2, <2>2
    <3> QED
      BY <3>1 DEF UpdateLocals, RowsKept, Rows, Live
  <2> QED
    BY <2>1, <2>2
<1>5. ASSUME NEW p \in Requests, NEW q \in Requests PROVE UpdatesAgree(p, q)'
  BY <1>2 DEF UpdatesAgree, UpdatePcs
<1> QED
  BY <1>1, <1>3, <1>4, <1>5 DEF TablesOK

\* A step that only reads keeps the invariant when what the request then holds
\* satisfies it.
LEMMA ReadKeeps ==
  ASSUME IndInv, NEW r \in Requests, NEW x \in Request,
         req' = [req EXCEPT ![r] = x],
         UNCHANGED Tables,
         CreateLocals(r)', UpdateLocals(r)',
         \A q \in Requests : UpdatesAgree(r, q)'
  PROVE  IndInv'
<1> USE DEF IndInv, Tables
<1>1. TypeOK'
  BY DEF TypeOK
<1>2. ASSUME NEW q \in Requests PROVE req'[q] = IF q = r THEN x ELSE req[q]
  BY DEF TypeOK
<1>3. (OwnerConsistent /\ UniqueAllocation /\ RowsIssued)'
  BY DEF OwnerConsistent, UniqueAllocation, RowsIssued, Rows, Live
<1>4. ASSUME NEW q \in Requests PROVE CreateLocals(q)' /\ UpdateLocals(q)'
  <2>1. CASE q # r
    <3>1. req'[q] = req[q]
      BY <1>2, <2>1
    <3> QED
      BY <3>1 DEF CreateLocals, UpdateLocals, Rows, Live
  <2> QED
    BY <2>1
<1>5. ASSUME NEW p \in Requests, NEW q \in Requests PROVE UpdatesAgree(p, q)'
  <2>1. CASE p = r
    BY <2>1
  <2>2. CASE q = r
    BY <2>2 DEF UpdatesAgree
  <2>3. CASE p # r /\ q # r
    BY <1>2, <2>3 DEF UpdatesAgree
  <2> QED
    BY <2>1, <2>2, <2>3
<1> QED
  BY <1>1, <1>3, <1>4, <1>5

\* A query changes no table, so the tables keep their part of the invariant.
LEMMA SameTables == ASSUME IndInv, UNCHANGED Tables PROVE TablesOK' /\ RowsKept
<1> USE DEF Tables
<1>1. TablesOK'
  BY DEF IndInv, TypeOK, TablesOK, OwnerConsistent, UniqueAllocation, RowsIssued, Rows, Live
<1>2. RowsKept
  <2>1. ASSUME NEW q \in Requests, req[q].pc = "u_save", server'[req[q].s] # None
        PROVE  server'[req[q].s].alloc = req[q].a /\ server'[req[q].s].node = req[q].n
    <3>1. UpdateLocals(q) /\ issuedS \subseteq Servers
      BY DEF IndInv, TypeOK
    <3> QED
      BY <2>1, <3>1 DEF UpdateLocals, Live
  <2> QED
    BY <2>1 DEF RowsKept
<1> QED
  BY <1>1, <1>2

\* A step that reads and ends its request, or moves it on outside create and update.
LEMMA FinishReading ==
  ASSUME IndInv, NEW r \in Requests, Finish(r), UNCHANGED Tables
  PROVE  IndInv'
<1>1. Idle.pc \notin CreatePcs \cup UpdatePcs
  BY DEF Idle, CreatePcs, UpdatePcs
<1> QED
  BY <1>1, IdleType, SameTables, EndKeeps DEF Finish

\* A request that moves to another step keeps its type.
LEMMA GotoType ==
  ASSUME IndInv, NEW r \in Requests, NEW pc \in Pc, Goto(r, pc)
  PROVE  /\ [req[r] EXCEPT !.pc = pc] \in Request
         /\ req' = [req EXCEPT ![r] = [req[r] EXCEPT !.pc = pc]]
BY DEF IndInv, TypeOK, Goto, Request

\* A query that moves a request on, outside create and update, keeps the invariant.
LEMMA GotoReading ==
  ASSUME IndInv, NEW r \in Requests, NEW pc \in Pc \ (CreatePcs \cup UpdatePcs),
         Goto(r, pc), TablesOK', RowsKept
  PROVE  IndInv'
<1> DEFINE x == [req[r] EXCEPT !.pc = pc]
<1>1. x \in Request /\ req' = [req EXCEPT ![r] = x]
  BY GotoType
<1>2. x.pc = pc
  BY DEF IndInv, TypeOK, Request
<1> QED
  BY <1>1, <1>2, EndKeeps

-----------------------------------------------------------------------------
\* create: the facts about the allocation are established by the read of its row
\* and survive because a deleted row's identifier is never given out again.
LEMMA CreateReads ==
  ASSUME IndInv, NEW r \in Requests, NEW pc \in {"c_user", "c_capacity", "c_commit"},
         Goto(r, pc), UNCHANGED Tables,
         req[r].a \in issuedA,
         req[r].a \in Rows => allocation[req[r].a].node = req[r].n
  PROVE  IndInv'
<1> DEFINE x == [req[r] EXCEPT !.pc = pc]
<1>0. pc \in Pc
  BY DEF Pc
<1>1. x \in Request /\ req' = [req EXCEPT ![r] = x]
  BY <1>0, GotoType
<1>2. req'[r] = x /\ x.pc = pc /\ x.a = req[r].a /\ x.n = req[r].n
  BY <1>1 DEF IndInv, TypeOK, Request
<1>3. issuedA \subseteq Allocs
  BY DEF IndInv, TypeOK
<1>4. CreateLocals(r)'
  BY <1>2, <1>3 DEF CreateLocals, Tables, Rows
<1>5. UpdateLocals(r)' /\ \A q \in Requests : UpdatesAgree(r, q)'
  BY <1>2 DEF UpdateLocals, UpdatesAgree
<1> QED
  BY <1>1, <1>4, <1>5, ReadKeeps

\* The first query of ServersService.create keeps the invariant.
LEMMA StartCreateKeeps ==
  ASSUME IndInv, NEW r \in Requests, NEW n \in Nodes, NEW a \in Allocs,
         NEW u \in Users, NEW m \in Memories, StartCreate(r, n, a, u, m)
  PROVE  IndInv'
<1> DEFINE x == [Idle EXCEPT !.pc = "c_alloc", !.n = n, !.a = a, !.u = u, !.m = m]
<1>1. x \in Request
  BY NumbersAssumption DEF Idle, Request, Pc
<1>2. req' = [req EXCEPT ![r] = x] /\ UNCHANGED Tables
  BY DEF StartCreate, Tables
<1>3. req'[r] = x
  BY <1>2 DEF IndInv, TypeOK
<1>4. x.pc = "c_alloc" /\ x.a = a
  BY DEF Idle
<1>5. CreateLocals(r)' /\ UpdateLocals(r)' /\ \A q \in Requests : UpdatesAgree(r, q)'
  BY <1>3, <1>4 DEF CreateLocals, UpdateLocals, UpdatesAgree
<1> QED
  BY <1>1, <1>2, <1>5, ReadKeeps

\* The transaction of create: the row it inserts is alone in claiming its allocation
\* (UNIQUE), hence the allocation it assigns is held by nobody else.
LEMMA CommitKeeps ==
  ASSUME IndInv, NEW r \in Requests, Commit(r)
  PROVE  IndInv'
<1> DEFINE a == req[r].a
           row == [alloc |-> a, node |-> req[r].n, user |-> req[r].u, memory |-> req[r].m]
<1>1. PICK s \in Servers \ issuedS :
        /\ issuedS' = issuedS \cup {s}
        /\ server' = [server EXCEPT ![s] = row]
        /\ allocation' = IF allocation[a] = None THEN allocation
                         ELSE [allocation EXCEPT ![a].server = s]
  BY DEF Commit
<1>2. /\ nodes' = nodes /\ users' = users /\ issuedA' = issuedA
      /\ Finish(r)
      /\ ServerInsertable(req[r].n, req[r].u, a)
  BY DEF Commit
<1>3. TypeOK /\ OwnerConsistent /\ UniqueAllocation /\ RowsIssued
  BY DEF IndInv
<1>4. a \in issuedA /\ a \in Allocs /\ (allocation[a] # None => allocation[a].node = req[r].n)
  BY DEF IndInv, CreateLocals, Commit, Rows
<1>5. row \in ServerRow /\ row # None
  <2>1. req[r].n \in Nodes /\ req[r].u \in Users
    BY <1>2, <1>3 DEF ServerInsertable, TypeOK
  <2>2. req[r].m \in Nat
    BY <1>3 DEF TypeOK, Request
  <2> QED
    BY <2>1, <2>2, <1>4, NoneAssumption DEF ServerRow
<1>6. server[s] = None /\ s # None
  BY <1>1, <1>3, NoneAssumption DEF RowsIssued, Live
<1>7. \A t \in Servers : server'[t] = IF t = s THEN row ELSE server[t]
  BY <1>1, <1>3 DEF TypeOK
<1>8. \A b \in Allocs :
        IF b = a /\ allocation[b] # None
        THEN /\ allocation'[b] # None
             /\ allocation'[b].node = allocation[b].node
             /\ allocation'[b].server = s
        ELSE allocation'[b] = allocation[b]
  BY <1>1, <1>3, <1>4, NoneAssumption DEF TypeOK, AllocRow
<1>9. TablesOK'
  <2>1. server' \in [Servers -> ServerRow \cup {None}]
    BY <1>1, <1>3, <1>5 DEF TypeOK
  <2>2. allocation' \in [Allocs -> AllocRow \cup {None}]
    BY <1>1, <1>3, <1>4 DEF TypeOK, AllocRow
  <2>3. OwnerConsistent'
    <3>1. SUFFICES ASSUME NEW b \in Allocs, allocation'[b] # None, allocation'[b].server # None
                   PROVE  /\ allocation'[b].server \in Servers
                          /\ server'[allocation'[b].server] # None
                          /\ server'[allocation'[b].server].alloc = b
                          /\ server'[allocation'[b].server].node = allocation'[b].node
      BY DEF OwnerConsistent, Rows, Live
    <3>2. CASE b = a
      BY <3>1, <3>2, <1>4, <1>5, <1>7, <1>8
    <3>3. CASE b # a
      <4>1. allocation'[b].server = allocation[b].server /\ allocation[b] # None
        BY <3>1, <3>3, <1>8
      <4>2. allocation[b].server # s
        BY <3>1, <4>1, <1>3, <1>6 DEF OwnerConsistent, Rows, Live
      <4> QED
        BY <3>1, <4>1, <4>2, <1>3, <1>7, <1>8 DEF OwnerConsistent, Rows, Live
    <3> QED
      BY <3>2, <3>3
  <2>4. UniqueAllocation'
    BY <1>2, <1>3, <1>5, <1>7 DEF UniqueAllocation, ServerInsertable, Live
  <2>5. RowsIssued'
    BY <1>1, <1>2, <1>3, <1>7, <1>8 DEF RowsIssued, Rows, Live
  <2> QED
    BY <2>1, <2>2, <2>3, <2>4, <2>5, <1>1, <1>2, <1>3 DEF TablesOK, TypeOK
<1>10. RowsKept
  <2>1. ASSUME NEW q \in Requests, req[q].pc = "u_save", server'[req[q].s] # None
        PROVE  server'[req[q].s].alloc = req[q].a /\ server'[req[q].s].node = req[q].n
    <3>1. UpdateLocals(q)
      BY DEF IndInv
    <3>2. req[q].s \in Servers /\ req[q].s # s
      BY <2>1, <3>1, <1>1, <1>3 DEF UpdateLocals, TypeOK
    <3> QED
      BY <2>1, <3>1, <3>2, <1>7 DEF UpdateLocals, Live
  <2> QED
    BY <2>1, <1>1, <1>2, <1>3, <1>8 DEF RowsKept, TypeOK
<1>11. Idle.pc \notin CreatePcs \cup UpdatePcs
  BY DEF Idle, CreatePcs, UpdatePcs
<1> QED
  BY <1>2, <1>9, <1>10, <1>11, IdleType, EndKeeps DEF Finish

\* ServersService.create as a whole.
LEMMA CreateServerKeeps ==
  ASSUME IndInv, NEW r \in Requests, CreateServer(r)
  PROVE  IndInv'
<1>1. CASE \E n \in Nodes, a \in Allocs, u \in Users, m \in Memories :
            StartCreate(r, n, a, u, m)
  BY <1>1, StartCreateKeeps
<1>2. CASE ReadAllocation(r)
  <2>1. UNCHANGED Tables
    BY <1>2 DEF ReadAllocation, Tables
  <2>2. CASE Finish(r)
    BY <2>1, <2>2, FinishReading
  <2>3. CASE /\ Goto(r, "c_user")
            /\ allocation[req[r].a] # None
            /\ allocation[req[r].a].node = req[r].n
    <3>1. req[r].a \in Allocs
      BY <1>2 DEF ReadAllocation, IndInv, CreateLocals
    <3>2. req[r].a \in issuedA
      BY <2>3, <3>1 DEF IndInv, RowsIssued, Rows
    <3> QED
      BY <2>1, <2>3, <3>2, CreateReads
  <2> QED
    BY <1>2, <2>2, <2>3 DEF ReadAllocation
<1>3. CASE ReadUser(r) \/ ReadCapacity(r)
  <2>1. UNCHANGED Tables /\ (Finish(r) \/ Goto(r, "c_capacity") \/ Goto(r, "c_commit"))
    BY <1>3 DEF ReadUser, ReadCapacity, Tables
  <2>2. /\ req[r].a \in issuedA
        /\ req[r].a \in Rows => allocation[req[r].a].node = req[r].n
    BY <1>3 DEF ReadUser, ReadCapacity, IndInv, CreateLocals
  <2> QED
    BY <2>1, <2>2, FinishReading, CreateReads
<1>4. CASE CreateAbort(r) \/ Rollback(r)
  BY <1>4, FinishReading DEF CreateAbort, Rollback, Tables
<1>5. CASE Commit(r)
  BY <1>5, CommitKeeps
<1> QED
  BY <1>1, <1>2, <1>3, <1>4, <1>5 DEF CreateServer

-----------------------------------------------------------------------------
\* update: it loads a row together with the allocation that references it, and
\* re-inserts that row only where UNIQUE allocationId lets it.
LEMMA StartUpdateKeeps ==
  ASSUME IndInv, NEW r \in Requests, NEW s \in Servers, NEW m \in Memories,
         StartUpdate(r, s, m)
  PROVE  IndInv'
<1> DEFINE x == [Idle EXCEPT !.pc = "u_save", !.s = s, !.a = server[s].alloc,
                   !.n = server[s].node, !.u = server[s].user, !.m = m, !.rel = Joined(s)]
<1>1. /\ server[s] # None
      /\ req' = [req EXCEPT ![r] = x]
      /\ UNCHANGED Tables
  BY DEF StartUpdate, Live, Tables
<1>2. TypeOK /\ RowsIssued
  BY DEF IndInv
<1>3. server[s] \in ServerRow
  BY <1>1, <1>2 DEF TypeOK
<1>4. server[s].alloc \in Allocs /\ server[s].node \in Nodes /\ server[s].user \in Users
  BY <1>3 DEF ServerRow
<1>5. x \in Request
  BY <1>4, JoinedType, NumbersAssumption DEF Idle, Request, Pc
<1>6. /\ x.pc = "u_save" /\ x.s = s /\ x.a = server[s].alloc /\ x.n = server[s].node
      /\ x.u = server[s].user /\ x.rel = Joined(s)
  BY DEF Idle
<1>7. req'[r] = x
  BY <1>1, <1>2 DEF TypeOK
<1>8. ASSUME x.rel # None
      PROVE  x.rel = x.a /\ x.a \in Rows /\ allocation[x.a].node = x.n
  BY <1>1, <1>6, <1>8, JoinedFact
<1>9. UpdateLocals(r)'
  <2>1. /\ server' = server /\ allocation' = allocation
        /\ issuedS' = issuedS /\ issuedA' = issuedA
    BY <1>1 DEF Tables
  <2>2. s \in issuedS
    BY <1>1, <1>2 DEF RowsIssued, Live
  <2>3. x.rel # None => x.a \in issuedA
    BY <1>2, <1>8 DEF RowsIssued
  <2> QED
    BY <2>1, <2>2, <2>3, <1>4, <1>6, <1>7, <1>8 DEF UpdateLocals, Live, Rows
<1>10. CreateLocals(r)'
  BY <1>6, <1>7 DEF CreateLocals
<1>11. ASSUME NEW q \in Requests PROVE UpdatesAgree(r, q)'
  <2>1. CASE q = r
    BY <2>1 DEF UpdatesAgree
  <2>2. CASE q # r
    <3>1. req'[q] = req[q]
      BY <1>1, <1>2, <2>2 DEF TypeOK
    <3>2. UpdateLocals(q)
      BY DEF IndInv
    <3>3. /\ req'[r].s = s
          /\ req'[r].a = server[s].alloc
          /\ req'[r].n = server[s].node
      BY <1>6, <1>7
    <3>4. s \in Live
      BY <1>1 DEF Live
    <3>5. (req[q].pc = "u_save" /\ req[q].s = s)
             => (server[s].alloc = req[q].a /\ server[s].node = req[q].n)
      BY <3>2, <3>4 DEF UpdateLocals
    <3> QED
      BY <3>1, <3>3, <3>5 DEF UpdatesAgree
  <2> QED
    BY <2>1, <2>2
<1> QED
  BY <1>1, <1>5, <1>9, <1>10, <1>11, ReadKeeps

\* save() of ServersService.update, whether it updates the row or inserts it again.
LEMMA SaveUpdateKeeps ==
  ASSUME IndInv, NEW r \in Requests, SaveUpdate(r)
  PROVE  IndInv'
<1> DEFINE s == req[r].s
           a == req[r].a
           rel == req[r].rel
           row == [alloc |-> a, node |-> req[r].n, user |-> req[r].u, memory |-> req[r].m]
<1>1. /\ req[r].pc = "u_save"
      /\ server[s] = None => ServerInsertable(req[r].n, req[r].u, a)
      /\ server' = [server EXCEPT ![s] = row]
      /\ Finish(r)
      /\ nodes' = nodes /\ users' = users /\ issuedS' = issuedS /\ issuedA' = issuedA
  BY DEF SaveUpdate
<1>2. TypeOK /\ OwnerConsistent /\ UniqueAllocation /\ RowsIssued
  BY DEF IndInv
<1>3. /\ s \in issuedS /\ s \in Servers /\ s # None
      /\ a \in Allocs /\ req[r].n \in Nodes /\ req[r].u \in Users
      /\ server[s] # None => server[s].alloc = a /\ server[s].node = req[r].n
      /\ rel # None => rel = a /\ (allocation[a] # None => allocation[a].node = req[r].n)
  BY <1>1, <1>2, NoneAssumption DEF IndInv, UpdateLocals, TypeOK, Live, Rows
<1>4. row \in ServerRow /\ row # None
  <2>1. req[r].m \in Nat
    BY <1>2 DEF TypeOK, Request
  <2> QED
    BY <2>1, <1>3, NoneAssumption DEF ServerRow
<1>5. \A t \in Servers : server'[t] = IF t = s THEN row ELSE server[t]
  BY <1>1, <1>2 DEF TypeOK
<1>6. allocation' = [b \in Allocs |->
         IF allocation[b] # None /\ b = rel
         THEN [allocation[b] EXCEPT !.server = s]
         ELSE IF allocation[b] # None /\ allocation[b].server = s
         THEN [allocation[b] EXCEPT !.server = None]
         ELSE allocation[b]]
  BY DEF SaveUpdate, Rows, HeldBy
<1>7. \A b \in Allocs :
        IF allocation[b] = None THEN allocation'[b] = None
        ELSE /\ allocation'[b] \in AllocRow
             /\ allocation'[b] # None
             /\ allocation'[b].node = allocation[b].node
             /\ allocation'[b].server = IF b = rel THEN s
                                        ELSE IF allocation[b].server = s THEN None
                                        ELSE allocation[b].server
  <2>1. SUFFICES ASSUME NEW b \in Allocs, allocation[b] # None
                 PROVE  /\ allocation'[b] \in AllocRow
                        /\ allocation'[b].node = allocation[b].node
                        /\ allocation'[b].server = IF b = rel THEN s
                                        ELSE IF allocation[b].server = s THEN None
                                        ELSE allocation[b].server
    BY <1>6, NoneAssumption
  <2>2. allocation[b] \in AllocRow
    BY <2>1, <1>2 DEF TypeOK
  <2> QED
    BY <2>1, <2>2, <1>3, <1>6 DEF AllocRow
<1>8. TablesOK'
  <2>1. server' \in [Servers -> ServerRow \cup {None}]
    BY <1>1, <1>2, <1>4 DEF TypeOK
  <2>2. allocation' \in [Allocs -> AllocRow \cup {None}]
    BY <1>6, <1>7
  <2>3. OwnerConsistent'
    <3>1. SUFFICES ASSUME NEW b \in Allocs, allocation'[b] # None, allocation'[b].server # None
                   PROVE  /\ allocation'[b].server \in Servers
                          /\ server'[allocation'[b].server] # None
                          /\ server'[allocation'[b].server].alloc = b
                          /\ server'[allocation'[b].server].node = allocation'[b].node
      BY DEF OwnerConsistent, Rows, Live
    <3>2. allocation[b] # None /\ allocation'[b].node = allocation[b].node
      BY <3>1, <1>7
    <3>3. CASE b = rel
      <4>1. allocation'[b].server = s /\ b = a /\ allocation[b].node = req[r].n
        BY <3>2, <3>3, <1>3, <1>7, NoneAssumption
      <4>2. server'[s] = row
        BY <1>3, <1>5
      <4> QED
        BY <3>2, <4>1, <4>2, <1>3, <1>4
    <3>4. CASE b # rel
      <4>1. allocation'[b].server = allocation[b].server /\ allocation[b].server # s
        BY <3>1, <3>2, <3>4, <1>7
      <4>2. /\ allocation[b].server \in Servers
            /\ server[allocation[b].server] # None
            /\ server[allocation[b].server].alloc = b
            /\ server[allocation[b].server].node = allocation[b].node
        BY <3>1, <3>2, <4>1, <1>2 DEF OwnerConsistent, Rows, Live
      <4> QED
        BY <3>2, <4>1, <4>2, <1>5
    <3> QED
      BY <3>3, <3>4
  <2>4. UniqueAllocation'
    BY <1>1, <1>2, <1>3, <1>4, <1>5 DEF UniqueAllocation, ServerInsertable, Live
  <2>5. RowsIssued'
    BY <1>1, <1>2, <1>3, <1>5, <1>7 DEF RowsIssued, Rows, Live
  <2> QED
    BY <2>1, <2>2, <2>3, <2>4, <2>5, <1>1, <1>2 DEF TablesOK, TypeOK
<1>9. RowsKept
  <2>1. ASSUME NEW q \in Requests, req[q].pc = "u_save", server'[req[q].s] # None
        PROVE  server'[req[q].s].alloc = req[q].a /\ server'[req[q].s].node = req[q].n
    <3>1. UpdateLocals(q) /\ UpdatesAgree(r, q)
      BY DEF IndInv
    <3>2. req[q].s \in Servers
      BY <2>1, <3>1, <1>2 DEF UpdateLocals, TypeOK
    <3>3. CASE req[q].s = s
      BY <2>1, <3>1, <3>2, <3>3, <1>1, <1>5 DEF UpdatesAgree
    <3>4. CASE req[q].s # s
      BY <2>1, <3>1, <3>2, <3>4, <1>5 DEF UpdateLocals, Live
    <3> QED
      BY <3>3, <3>4
  <2>2. issuedA \subseteq Allocs
    BY <1>2 DEF TypeOK
  <2> QED
    BY <2>1, <2>2, <1>1, <1>7 DEF RowsKept
<1>10. Idle.pc \notin CreatePcs \cup UpdatePcs
  BY DEF Idle, CreatePcs, UpdatePcs
<1> QED
  BY <1>1, <1>8, <1>9, <1>10, IdleType, EndKeeps DEF Finish

\* ServersService.update as a whole.
LEMMA UpdateServerKeeps ==
  ASSUME IndInv, NEW r \in Requests, UpdateServer(r)
  PROVE  IndInv'
<1>1. CASE \E s \in Servers, m \in Memories : StartUpdate(r, s, m)
  BY <1>1, StartUpdateKeeps
<1>2. CASE SaveUpdate(r)
  BY <1>2, SaveUpdateKeeps
<1>3. CASE SaveUpdateFails(r)
  BY <1>3, FinishReading DEF SaveUpdateFails, Tables
<1> QED
  BY <1>1, <1>2, <1>3 DEF UpdateServer

-----------------------------------------------------------------------------
\* Steps that change the allocation table without assigning anything: an allocation
\* is freed, or removed, or inserted free with a new identifier.
LEMMA UnassigningTables ==
  ASSUME IndInv,
         UNCHANGED <<nodes, users, server, issuedS>>,
         issuedA \subseteq issuedA', issuedA' \subseteq Allocs,
         allocation' \in [Allocs -> AllocRow \cup {None}],
         \A a \in Allocs : allocation'[a] # None =>
           \/ /\ allocation[a] # None
              /\ allocation'[a].node = allocation[a].node
              /\ allocation'[a].server \in {None, allocation[a].server}
           \/ a \in issuedA' \ issuedA /\ allocation'[a].server = None
  PROVE  TablesOK' /\ RowsKept
<1>1. TypeOK /\ OwnerConsistent /\ UniqueAllocation /\ RowsIssued
  BY DEF IndInv
<1>2. OwnerConsistent'
  BY <1>1 DEF OwnerConsistent, Rows, Live
<1>3. UniqueAllocation' /\ RowsIssued'
  BY <1>1 DEF UniqueAllocation, RowsIssued, Rows, Live
<1>4. TablesOK'
  BY <1>1, <1>2, <1>3 DEF TablesOK, TypeOK
<1>5. ASSUME NEW q \in Requests, req[q].pc = "u_save", server'[req[q].s] # None
      PROVE  server'[req[q].s].alloc = req[q].a /\ server'[req[q].s].node = req[q].n
  <2>1. UpdateLocals(q) /\ issuedS \subseteq Servers
    BY <1>1 DEF IndInv, TypeOK
  <2> QED
    BY <1>5, <2>1 DEF UpdateLocals, Live
<1>6. issuedA \subseteq Allocs
  BY <1>1 DEF TypeOK
<1>7. RowsKept
  BY <1>5, <1>6 DEF RowsKept
<1> QED
  BY <1>4, <1>7

\* Steps that delete servers that no remaining allocation references, and perhaps
\* allocations with them.
LEMMA DeletingTables ==
  ASSUME IndInv, NEW S, NEW A,
         nodes' \subseteq nodes, users' \subseteq users,
         UNCHANGED <<issuedS, issuedA>>,
         server' = [s \in Servers |-> IF s \in S THEN None ELSE server[s]],
         allocation' = [a \in Allocs |-> IF a \in A THEN None ELSE allocation[a]],
         \A a \in Rows \ A : allocation[a].server \notin S
  PROVE  TablesOK' /\ RowsKept
<1>1. TypeOK /\ OwnerConsistent /\ UniqueAllocation /\ RowsIssued
  BY DEF IndInv
<1>2. OwnerConsistent'
  BY <1>1 DEF OwnerConsistent, Rows, Live
<1>3. UniqueAllocation' /\ RowsIssued'
  BY <1>1 DEF UniqueAllocation, RowsIssued, Rows, Live
<1>4. server' \in [Servers -> ServerRow \cup {None}]
  BY <1>1 DEF TypeOK
<1>5. allocation' \in [Allocs -> AllocRow \cup {None}]
  BY <1>1 DEF TypeOK
<1>6. TablesOK'
  BY <1>1, <1>2, <1>3, <1>4, <1>5 DEF TablesOK, TypeOK
<1>7. ASSUME NEW q \in Requests, req[q].pc = "u_save", server'[req[q].s] # None
      PROVE  server'[req[q].s].alloc = req[q].a /\ server'[req[q].s].node = req[q].n
  <2>1. UpdateLocals(q) /\ issuedS \subseteq Servers
    BY <1>1 DEF IndInv, TypeOK
  <2> QED
    BY <1>7, <2>1 DEF UpdateLocals, Live
<1>8. issuedA \subseteq Allocs
  BY <1>1 DEF TypeOK
<1>9. RowsKept
  BY <1>7, <1>8 DEF RowsKept
<1> QED
  BY <1>6, <1>9

\* A request that ends after its write.
LEMMA FinishKeeps ==
  ASSUME IndInv, NEW r \in Requests, Finish(r), TablesOK', RowsKept
  PROVE  IndInv'
<1>1. Idle.pc \notin CreatePcs \cup UpdatePcs
  BY DEF Idle, CreatePcs, UpdatePcs
<1> QED
  BY <1>1, IdleType, EndKeeps DEF Finish

\* A request that starts outside create and update.
LEMMA StartKeeps ==
  ASSUME IndInv, NEW r \in Requests, NEW x \in Request,
         x.pc \notin CreatePcs \cup UpdatePcs,
         req' = [req EXCEPT ![r] = x], UNCHANGED Tables
  PROVE  IndInv'
BY SameTables, EndKeeps

-----------------------------------------------------------------------------
\* ServersService.delete: it frees the allocation it has loaded, whoever holds it by
\* now, and removes the row only if no allocation references it.
LEMMA DeleteServerKeeps ==
  ASSUME IndInv, NEW r \in Requests, DeleteServer(r)
  PROVE  IndInv'
<1>1. ASSUME NEW s \in Servers, StartDelete(r, s) PROVE IndInv'
  <2> DEFINE x == [Idle EXCEPT !.pc = IF Joined(s) = None THEN "d_remove" ELSE "d_free",
                               !.s = s, !.rel = Joined(s)]
  <2>1. x \in Request /\ x.pc \notin CreatePcs \cup UpdatePcs
    BY JoinedType DEF Idle, Request, Pc, CreatePcs, UpdatePcs
  <2>2. req' = [req EXCEPT ![r] = x] /\ UNCHANGED Tables
    BY <1>1 DEF StartDelete, Tables
  <2> QED
    BY <2>1, <2>2, StartKeeps
<1>2. CASE FreeAllocation(r)
  <2>1. TypeOK
    BY DEF IndInv
  <2>2. /\ allocation' \in [Allocs -> AllocRow \cup {None}]
        /\ \A a \in Allocs : allocation'[a] # None =>
              /\ allocation[a] # None
              /\ allocation'[a].node = allocation[a].node
              /\ allocation'[a].server \in {None, allocation[a].server}
    <3> DEFINE rel == req[r].rel
    <3>1. CASE allocation[rel] = None
      BY <1>2, <2>1, <3>1 DEF FreeAllocation, TypeOK
    <3>2. CASE allocation[rel] # None /\ rel \in Allocs
      <4>1. allocation[rel] \in AllocRow
        BY <2>1, <3>2 DEF TypeOK
      <4>2. allocation' = [allocation EXCEPT ![rel] = [allocation[rel] EXCEPT !.server = None]]
        BY <1>2, <3>2 DEF FreeAllocation
      <4>3. /\ [allocation[rel] EXCEPT !.server = None] \in AllocRow
            /\ [allocation[rel] EXCEPT !.server = None].node = allocation[rel].node
            /\ [allocation[rel] EXCEPT !.server = None].server = None
        BY <4>1 DEF AllocRow
      <4> QED
        BY <2>1, <3>2, <4>1, <4>2, <4>3 DEF TypeOK
    <3>3. CASE rel \notin Allocs
      BY <1>2, <2>1, <3>3 DEF FreeAllocation, TypeOK
    <3> QED
      BY <3>1, <3>2, <3>3
  <2>3. TablesOK' /\ RowsKept
    BY <1>2, <2>1, <2>2, UnassigningTables DEF FreeAllocation, TypeOK
  <2>4. "d_remove" \in Pc \ (CreatePcs \cup UpdatePcs)
    BY DEF Pc, CreatePcs, UpdatePcs
  <2> QED
    BY <1>2, <2>3, <2>4, GotoReading DEF FreeAllocation
<1>3. CASE RemoveServer(r)
  <2>1. TypeOK
    BY DEF IndInv
  <2>2. CASE Unreferenced({req[r].s}, {})
    <3> DEFINE S == {req[r].s}
               A == {}
    <3>1. server' = [s \in Servers |-> IF s \in S THEN None ELSE server[s]]
      BY <1>3, <2>1, <2>2 DEF RemoveServer, TypeOK
    <3>2. allocation' = [a \in Allocs |-> IF a \in A THEN None ELSE allocation[a]]
      BY <1>3, <2>1 DEF RemoveServer, TypeOK
    <3>3. \A a \in Rows \ A : allocation[a].server \notin S
      BY <2>2 DEF Unreferenced
    <3>4. /\ nodes' \subseteq nodes /\ users' \subseteq users
          /\ UNCHANGED <<issuedS, issuedA>>
          /\ Finish(r)
      BY <1>3 DEF RemoveServer
    <3> HIDE DEF S, A
    <3>5. TablesOK' /\ RowsKept
      BY <3>1, <3>2, <3>3, <3>4, DeletingTables
    <3> QED
      BY <3>4, <3>5, FinishKeeps
  <2>3. CASE ~Unreferenced({req[r].s}, {})
    BY <1>3, <2>3, FinishReading DEF RemoveServer, Tables
  <2> QED
    BY <2>2, <2>3
<1> QED
  BY <1>1, <1>2, <1>3 DEF DeleteServer

\* The handlers that create and delete allocations.
LEMMA ManageAllocationsKeeps ==
  ASSUME IndInv, NEW r \in Requests, ManageAllocations(r)
  PROVE  IndInv'
<1> USE DEF CreatePcs, UpdatePcs
<1>1. TypeOK
  BY DEF IndInv
<1>2. ASSUME NEW n \in Nodes, NEW lo \in Ports, NEW hi \in Ports,
             StartAllocCreate(r, n, lo, hi)
      PROVE  IndInv'
  <2> DEFINE P == {p \in lo..hi : ~PortTaken(n, p)}
             x == [Idle EXCEPT !.pc = "a_save", !.n = n, !.ports = P]
  <2>1. P \subseteq Ports
    BY NumbersAssumption
  <2>2. req' = [req EXCEPT ![r] = x] /\ UNCHANGED Tables
    BY <1>2 DEF StartAllocCreate, Tables
  <2> HIDE DEF P
  <2>3. x \in Request /\ x.pc = "a_save"
    BY <2>1 DEF Idle, Request, Pc
  <2> QED
    BY <2>2, <2>3, StartKeeps
<1>3. ASSUME NEW n \in Nodes, NEW lo \in Ports, NEW hi \in Ports,
             StartAdminAllocCreate(r, n, lo, hi)
      PROVE  IndInv'
  <2> DEFINE P == lo..hi
             x == [Idle EXCEPT !.pc = "a_scan", !.n = n, !.todo = P]
  <2>1. P \subseteq Ports
    BY NumbersAssumption
  <2>2. req' = [req EXCEPT ![r] = x] /\ UNCHANGED Tables
    BY <1>3 DEF StartAdminAllocCreate, Tables
  <2> HIDE DEF P
  <2>3. x \in Request /\ x.pc = "a_scan"
    BY <2>1 DEF Idle, Request, Pc
  <2> QED
    BY <2>2, <2>3, StartKeeps
<1>4. CASE ScanPort(r)
  <2>1. UNCHANGED Tables
    BY <1>4 DEF ScanPort, Tables
  <2>2. CASE Goto(r, "a_save")
    <3>1. "a_save" \in Pc \ (CreatePcs \cup UpdatePcs)
      BY DEF Pc
    <3> QED
      BY <2>1, <2>2, <3>1, SameTables, GotoReading
  <2>3. ASSUME NEW p \in req[r].todo,
               req' = [req EXCEPT ![r] = [req[r] EXCEPT
                  !.todo = req[r].todo \ {p},
                  !.ports = req[r].ports \cup {q \in {p} : ~PortTaken(req[r].n, q)}]]
        PROVE  IndInv'
    <3> DEFINE P == req[r].ports \cup {q \in {p} : ~PortTaken(req[r].n, q)}
               x == [req[r] EXCEPT !.todo = req[r].todo \ {p}, !.ports = P]
    <3>1. req[r] \in Request
      BY <1>1 DEF TypeOK
    <3>2. P \subseteq Ports /\ req[r].todo \ {p} \subseteq Ports
      BY <2>3, <3>1 DEF Request
    <3>3. req' = [req EXCEPT ![r] = x]
      BY <2>3
    <3> HIDE DEF P
    <3>4. x \in Request
      BY <3>1, <3>2 DEF Request
    <3>5. x.pc = "a_scan"
      BY <1>4, <3>1 DEF ScanPort, Request
    <3> QED
      BY <2>1, <3>3, <3>4, <3>5, StartKeeps
  <2> QED
    BY <1>4, <2>2, <2>3 DEF ScanPort
<1>5. CASE SaveAllocations(r)
  <2>1. PICK f \in Injection(req[r].ports, Allocs \ issuedA) :
          /\ issuedA' = issuedA \cup Range(f)
          /\ allocation' = [a \in Allocs |->
               IF a \in Range(f)
               THEN [node |-> req[r].n, port |-> CHOOSE p \in req[r].ports : f[p] = a,
                     server |-> None]
               ELSE allocation[a]]
    BY <1>5 DEF SaveAllocations
  <2>2. /\ PortsInsertable(req[r].n, req[r].ports)
        /\ UNCHANGED <<nodes, users, server, issuedS>>
        /\ Finish(r)
    BY <1>5 DEF SaveAllocations
  <2>3. f \in [req[r].ports -> Allocs \ issuedA]
    BY DEF Injection, IsInjective
  <2>4. Range(f) \subseteq Allocs \ issuedA
    BY <2>3 DEF Range
  <2>5. ASSUME NEW a \in Range(f)
        PROVE  /\ req[r].n \in Nodes
               /\ (CHOOSE p \in req[r].ports : f[p] = a) \in Ports
    <3>1. PICK p \in req[r].ports : f[p] = a
      BY <2>3, <2>5 DEF Range
    <3>2. req[r].n \in Nodes
      BY <1>1, <2>2, <3>1 DEF PortsInsertable, TypeOK
    <3>3. (CHOOSE p2 \in req[r].ports : f[p2] = a) \in req[r].ports
      BY <3>1
    <3>4. req[r].ports \subseteq Ports
      BY <1>1 DEF TypeOK, Request
    <3> QED
      BY <3>2, <3>3, <3>4
  <2>6. allocation' \in [Allocs -> AllocRow \cup {None}]
    <3>1. ASSUME NEW a \in Range(f)
          PROVE  [node |-> req[r].n, port |-> CHOOSE p \in req[r].ports : f[p] = a,
                  server |-> None] \in AllocRow
      BY <2>5 DEF AllocRow
    <3> QED
      BY <2>1, <3>1, <1>1 DEF TypeOK
  <2>7. \A a \in Allocs : allocation'[a] # None =>
           \/ /\ allocation[a] # None
              /\ allocation'[a].node = allocation[a].node
              /\ allocation'[a].server \in {None, allocation[a].server}
           \/ a \in issuedA' \ issuedA /\ allocation'[a].server = None
    <3>1. SUFFICES ASSUME NEW a \in Allocs, allocation'[a] # None
                   PROVE  \/ allocation[a] # None /\ allocation'[a] = allocation[a]
                          \/ a \in issuedA' \ issuedA /\ allocation'[a].server = None
      OBVIOUS
    <3>2. CASE a \in Range(f)
      BY <3>2, <2>1, <2>4
    <3>3. CASE a \notin Range(f)
      BY <3>1, <3>3, <2>1
    <3> QED
      BY <3>2, <3>3
  <2>8. issuedA \subseteq issuedA' /\ issuedA' \subseteq Allocs
    BY <2>1, <2>4, <1>1 DEF TypeOK
  <2>9. TablesOK' /\ RowsKept
    BY <2>2, <2>6, <2>7, <2>8, UnassigningTables
  <2> QED
    BY <2>2, <2>9, FinishKeeps
<1>6. CASE SaveAllocationsFails(r)
  BY <1>6, FinishReading DEF SaveAllocationsFails, Tables
<1>7. ASSUME NEW a \in Allocs, StartAllocDelete(r, a) PROVE IndInv'
  <2> DEFINE x == [Idle EXCEPT !.pc = "x_remove", !.a = a]
  <2>1. x \in Request /\ x.pc = "x_remove"
    BY DEF Idle, Request, Pc
  <2> QED
    BY <1>7, <2>1, StartKeeps DEF StartAllocDelete, Tables
<1>8. CASE RemoveAllocation(r)
  <2>1. allocation' = [allocation EXCEPT ![req[r].a] = None]
    BY <1>8 DEF RemoveAllocation
  <2>2. /\ allocation' \in [Allocs -> AllocRow \cup {None}]
        /\ \A a \in Allocs : allocation'[a] # None => allocation'[a] = allocation[a]
    BY <2>1, <1>1 DEF TypeOK
  <2>3. TablesOK' /\ RowsKept
    BY <1>1, <1>8, <2>2, UnassigningTables DEF RemoveAllocation, TypeOK
  <2> QED
    BY <1>8, <2>3, FinishKeeps DEF RemoveAllocation
<1>9. ASSUME NEW n \in Nodes, BulkDelete(r, n) PROVE IndInv'
  <2>1. /\ allocation' \in [Allocs -> AllocRow \cup {None}]
        /\ \A a \in Allocs : allocation'[a] # None => allocation'[a] = allocation[a]
    BY <1>1, <1>9 DEF BulkDelete, TypeOK
  <2>2. TablesOK' /\ RowsKept
    BY <1>1, <1>9, <2>1, UnassigningTables DEF BulkDelete, TypeOK
  <2>3. req[r] \in Request /\ req' = [req EXCEPT ![r] = req[r]] /\ req[r].pc = "idle"
    BY <1>1, <1>9 DEF BulkDelete, TypeOK
  <2> QED
    BY <2>2, <2>3, EndKeeps
<1> QED
  BY <1>2, <1>3, <1>4, <1>5, <1>6, <1>7, <1>8, <1>9 DEF ManageAllocations

\* The handlers that delete a node: its servers and allocations go together.
LEMMA DeleteNodeKeeps ==
  ASSUME IndInv, NEW r \in Requests, DeleteNode(r)
  PROVE  IndInv'
<1> USE DEF CreatePcs, UpdatePcs
<1>1. ASSUME NEW n \in Nodes, StartNodeDelete(r, n) PROVE IndInv'
  <2> DEFINE x == [Idle EXCEPT !.pc = "n_remove", !.n = n]
  <2>1. x \in Request /\ x.pc = "n_remove"
    BY DEF Idle, Request, Pc
  <2> QED
    BY <1>1, <2>1, StartKeeps DEF StartNodeDelete, Tables
<1>2. ASSUME NEW n \in Nodes, StartAdminNodeDelete(r, n) PROVE IndInv'
  <2> DEFINE x == [Idle EXCEPT !.pc = "n_read", !.n = n]
  <2>1. x \in Request /\ x.pc = "n_read"
    BY DEF Idle, Request, Pc
  <2> QED
    BY <1>2, <2>1, StartKeeps DEF StartAdminNodeDelete, Tables
<1>3. CASE ReadNode(r)
  <2>1. UNCHANGED Tables /\ (Goto(r, "n_remove") \/ Finish(r))
    BY <1>3 DEF ReadNode, Tables
  <2>2. "n_remove" \in Pc \ (CreatePcs \cup UpdatePcs)
    BY DEF Pc
  <2> QED
    BY <2>1, <2>2, SameTables, GotoReading, FinishReading
<1>4. CASE RemoveNode(r)
  <2> DEFINE S == OnNode(req[r].n)
             A == {a \in Rows : allocation[a].node = req[r].n}
  <2>1. CASE Unreferenced(S, A)
    <3>1. /\ nodes' \subseteq nodes
          /\ server' = [s \in Servers |-> IF s \in S THEN None ELSE server[s]]
          /\ allocation' = [a \in Allocs |-> IF a \in A THEN None ELSE allocation[a]]
          /\ users' \subseteq users
          /\ UNCHANGED <<issuedS, issuedA>>
          /\ Finish(r)
      BY <1>4, <2>1 DEF RemoveNode
    <3>2. \A a \in Rows \ A : allocation[a].server \notin S
      BY <2>1 DEF Unreferenced
    <3> HIDE DEF S, A
    <3>3. TablesOK' /\ RowsKept
      BY <3>1, <3>2, DeletingTables
    <3> QED
      BY <3>1, <3>3, FinishKeeps
  <2>2. CASE ~Unreferenced(S, A)
    BY <1>4, <2>2, FinishReading DEF RemoveNode, Tables
  <2> QED
    BY <2>1, <2>2
<1> QED
  BY <1>1, <1>2, <1>3, <1>4 DEF DeleteNode

\* The handlers that delete a user: its servers go only if no allocation references them.
LEMMA DeleteUserKeeps ==
  ASSUME IndInv, NEW r \in Requests, DeleteUser(r)
  PROVE  IndInv'
<1> USE DEF CreatePcs, UpdatePcs
<1>1. ASSUME NEW u \in Users, StartUserDelete(r, u) PROVE IndInv'
  <2> DEFINE x == [Idle EXCEPT !.pc = "v_remove", !.u = u]
  <2>1. x \in Request /\ x.pc = "v_remove"
    BY DEF Idle, Request, Pc
  <2> QED
    BY <1>1, <2>1, StartKeeps DEF StartUserDelete, Tables
<1>2. ASSUME NEW u \in Users, StartAdminUserDelete(r, u) PROVE IndInv'
  <2> DEFINE x == [Idle EXCEPT !.pc = "v_count", !.u = u]
  <2>1. x \in Request /\ x.pc = "v_count"
    BY DEF Idle, Request, Pc
  <2> QED
    BY <1>2, <2>1, StartKeeps DEF StartAdminUserDelete, Tables
<1>3. CASE CountServers(r)
  <2>1. UNCHANGED Tables /\ (Goto(r, "v_remove") \/ Finish(r))
    BY <1>3 DEF CountServers, Tables
  <2>2. "v_remove" \in Pc \ (CreatePcs \cup UpdatePcs)
    BY DEF Pc
  <2> QED
    BY <2>1, <2>2, SameTables, GotoReading, FinishReading
<1>4. CASE RemoveUser(r)
  <2> DEFINE S == OwnedBy(req[r].u)
             A == {}
  <2>1. CASE Unreferenced(S, A)
    <3>1. /\ nodes' \subseteq nodes
          /\ server' = [s \in Servers |-> IF s \in S THEN None ELSE server[s]]
          /\ users' \subseteq users
          /\ UNCHANGED <<issuedS, issuedA>>
          /\ Finish(r)
      BY <1>4, <2>1 DEF RemoveUser
    <3>2. allocation' = [a \in Allocs |-> IF a \in A THEN None ELSE allocation[a]]
      BY <1>4 DEF RemoveUser, IndInv, TypeOK
    <3>3. \A a \in Rows \ A : allocation[a].server \notin S
      BY <2>1 DEF Unreferenced
    <3> HIDE DEF S, A
    <3>4. TablesOK' /\ RowsKept
      BY <3>1, <3>2, <3>3, DeletingTables
    <3> QED
      BY <3>1, <3>4, FinishKeeps
  <2>2. CASE ~Unreferenced(S, A)
    BY <1>4, <2>2, FinishReading DEF RemoveUser, Tables
  <2> QED
    BY <2>1, <2>2
<1> QED
  BY <1>1, <1>2, <1>3, <1>4 DEF DeleteUser

-----------------------------------------------------------------------------
\* The invariant holds of the freshly seeded database.
LEMMA IndInvInit == Init => IndInv
<1> SUFFICES ASSUME Init PROVE IndInv
  OBVIOUS
<1>1. TypeOK
  BY IdleType, InitAllocAssumption DEF Init, TypeOK
<1>2. OwnerConsistent /\ UniqueAllocation /\ RowsIssued
  BY InitAllocAssumption DEF Init, OwnerConsistent, UniqueAllocation, RowsIssued, Rows, Live
<1>3. ASSUME NEW r \in Requests PROVE req[r].pc = "idle"
  BY DEF Init, Idle
<1> QED
  BY <1>1, <1>2, <1>3 DEF IndInv, CreateLocals, UpdateLocals, UpdatesAgree

\* Every step of every handler keeps the invariant.
LEMMA IndInvNext == IndInv /\ [Next]_vars => IndInv'
<1> SUFFICES ASSUME IndInv, [Next]_vars PROVE IndInv'
  OBVIOUS
<1>1. CASE UNCHANGED vars
  BY <1>1 DEF vars, IndInv, TypeOK, OwnerConsistent, UniqueAllocation, RowsIssued,
     CreateLocals, UpdateLocals, UpdatesAgree, Rows, Live
<1>2. ASSUME NEW r \in Requests, DatabaseError(r) PROVE IndInv'
  BY <1>2, FinishReading DEF DatabaseError, Tables
<1> QED
  BY <1>1, <1>2, CreateServerKeeps, UpdateServerKeeps, DeleteServerKeeps,
     ManageAllocationsKeeps, DeleteNodeKeeps, DeleteUserKeeps DEF Next

\* For every number of concurrent requests, whatever they interleave: the tables and
\* the requests keep their types, and each allocation that names a server names one
\* that exists, names it back and is on its node (servers.service.ts create, update
\* and delete; the foreign keys and unique columns of the two entities).
THEOREM RelationConsistent == Spec => [](TypeOK /\ OwnerConsistent)
<1>1. IndInv => TypeOK /\ OwnerConsistent
  BY DEF IndInv
<1> QED
  BY <1>1, IndInvInit, IndInvNext, PTL DEF Spec

\* The same invariant makes the blind UPDATE of create and the relation that update
\* writes back harmless: an allocation a server holds never passes to another server.
THEOREM NeverStolen == Spec => AllocationNeverStolen
<1> DEFINE Kept == \A a \in Rows :
       (allocation[a].server # None /\ allocation'[a] # None)
         => allocation'[a].server \in {None, allocation[a].server}
<1>1. ASSUME IndInv, [Next]_vars PROVE [Kept]_vars
  <2>1. CASE UNCHANGED vars
    BY <2>1
  <2>2. CASE allocation' = allocation
    BY <2>2
  <2>3. ASSUME NEW r \in Requests, Commit(r) PROVE Kept
    <3>1. SUFFICES ASSUME NEW a \in Allocs, allocation[a] # None, allocation[a].server # None
                   PROVE  allocation'[a] # None =>
                             allocation'[a].server \in {None, allocation[a].server}
      BY DEF Rows
    <3>2. a # req[r].a
      BY <1>1, <2>3, <3>1 DEF Commit, ServerInsertable, IndInv, OwnerConsistent, Rows
    <3>3. allocation'[a] = allocation[a]
      BY <1>1, <2>3, <3>2 DEF Commit, IndInv, TypeOK
    <3> QED
      BY <3>3
  <2>4. ASSUME NEW r \in Requests, SaveUpdate(r) PROVE Kept
    <3>1. SUFFICES ASSUME NEW a \in Allocs, allocation[a] # None, allocation[a].server # None
                   PROVE  allocation'[a].server \in {None, allocation[a].server}
      BY DEF Rows
    <3>2. TypeOK /\ OwnerConsistent /\ UniqueAllocation /\ UpdateLocals(r)
      BY <1>1 DEF IndInv
    <3>3. allocation[a] \in AllocRow
      BY <3>1, <3>2 DEF TypeOK
    <3>4. /\ allocation[a].server \in Live
          /\ server[allocation[a].server].alloc = a
      BY <3>1, <3>2 DEF OwnerConsistent, Rows
    <3>5. CASE a = req[r].rel
      <4>1. allocation'[a].server = req[r].s
        BY <2>4, <3>1, <3>3, <3>5 DEF SaveUpdate, Rows, AllocRow
      <4>2. req[r].rel # None /\ req[r].a = a
        BY <2>4, <3>2, <3>5, NoneAssumption DEF SaveUpdate, UpdateLocals
      <4>3. CASE server[req[r].s] = None
        BY <2>4, <3>4, <4>2, <4>3 DEF SaveUpdate, ServerInsertable
      <4>4. CASE server[req[r].s] # None
        <5>1. req[r].s \in Live /\ server[req[r].s].alloc = a
          BY <2>4, <3>2, <4>2, <4>4 DEF SaveUpdate, UpdateLocals, TypeOK, Live
        <5> QED
          BY <3>2, <3>4, <4>1, <5>1 DEF UniqueAllocation
      <4> QED
        BY <4>3, <4>4
    <3>6. CASE a # req[r].rel /\ a \in HeldBy(req[r].s)
      BY <2>4, <3>3, <3>6 DEF SaveUpdate, AllocRow
    <3>7. CASE a # req[r].rel /\ a \notin HeldBy(req[r].s)
      BY <2>4, <3>7 DEF SaveUpdate
    <3> QED
      BY <3>5, <3>6, <3>7
  <2>5. ASSUME NEW r \in Requests, FreeAllocation(r) PROVE Kept
    <3>1. SUFFICES ASSUME NEW a \in Allocs, allocation[a] # None
                   PROVE  allocation'[a].server \in {None, allocation[a].server}
      BY DEF Rows
    <3>2. allocation \in [Allocs -> AllocRow \cup {None}] /\ allocation[a] \in AllocRow
      BY <1>1, <3>1 DEF IndInv, TypeOK
    <3>3. CASE a = req[r].rel
      BY <2>5, <3>1, <3>2, <3>3 DEF FreeAllocation, AllocRow
    <3>4. CASE a # req[r].rel
      BY <2>5, <3>2, <3>4 DEF FreeAllocation
    <3> QED
      BY <3>3, <3>4
  <2>6. ASSUME NEW r \in Requests, SaveAllocations(r) PROVE Kept
    <3>1. SUFFICES ASSUME NEW a \in Allocs, allocation[a] # None
                   PROVE  allocation'[a].server \in {None, allocation[a].server}
      BY DEF Rows
    <3>2. PICK f \in Injection(req[r].ports, Allocs \ issuedA) :
            allocation' = [b \in Allocs |->
              IF b \in Range(f)
              THEN [node |-> req[r].n, port |-> CHOOSE p \in req[r].ports : f[p] = b,
                    server |-> None]
              ELSE allocation[b]]
      BY <2>6 DEF SaveAllocations
    <3> QED
      BY <3>2
  <2>7. ASSUME NEW r \in Requests, RemoveAllocation(r) PROVE Kept
    BY <1>1, <2>7 DEF RemoveAllocation, IndInv, TypeOK, Rows
  <2>8. ASSUME NEW r \in Requests, NEW n \in Nodes, BulkDelete(r, n) PROVE Kept
    BY <2>8 DEF BulkDelete, Rows
  <2>9. ASSUME NEW r \in Requests, RemoveNode(r) PROVE Kept
    BY <2>9 DEF RemoveNode, Rows
  <2>10. ASSUME NEW r \in Requests, CreateServer(r) PROVE Kept
    BY <2>2, <2>3, <2>10 DEF CreateServer, StartCreate, ReadAllocation, ReadUser,
       ReadCapacity, CreateAbort, Rollback
  <2>11. ASSUME NEW r \in Requests, UpdateServer(r) PROVE Kept
    BY <2>2, <2>4, <2>11 DEF UpdateServer, StartUpdate, SaveUpdateFails
  <2>12. ASSUME NEW r \in Requests, DeleteServer(r) PROVE Kept
    BY <2>2, <2>5, <2>12 DEF DeleteServer, StartDelete, RemoveServer
  <2>13. ASSUME NEW r \in Requests, ManageAllocations(r) PROVE Kept
    BY <2>2, <2>6, <2>7, <2>8, <2>13 DEF ManageAllocations, StartAllocCreate,
       StartAdminAllocCreate, ScanPort, SaveAllocationsFails, StartAllocDelete
  <2>14. ASSUME NEW r \in Requests, DeleteNode(r) PROVE Kept
    BY <2>2, <2>9, <2>14 DEF DeleteNode, StartNodeDelete, StartAdminNodeDelete, ReadNode
  <2>15. ASSUME NEW r \in Requests, DeleteUser(r) \/ DatabaseError(r) PROVE Kept
    BY <2>2, <2>15 DEF DeleteUser, StartUserDelete, StartAdminUserDelete, CountServers,
       RemoveUser, DatabaseError
  <2> HIDE DEF Kept
  <2> QED
    BY <1>1, <2>1, <2>10, <2>11, <2>12, <2>13, <2>14, <2>15 DEF Next
<1> QED
  BY <1>1, IndInvInit, IndInvNext, PTL DEF Spec, AllocationNeverStolen

-----------------------------------------------------------------------------
(* The refinement of Ownership.                                            *)

\* The owner of an allocation, by the table.
LEMMA OwnerFact ==
  TypeOK => /\ \A a \in Allocs :
                 Owner[a] = IF allocation[a] = None THEN None ELSE allocation[a].server
            /\ Owner = [a \in Allocs |-> Owner[a]]
            /\ \A a \in Allocs : Owner[a] \in Servers \cup {None}
BY DEF Owner, TypeOK, AllocRow

\* A step after which every allocation has its owner or none is a step of Ownership.
LEMMA ReleasesStep ==
  ASSUME TypeOK, TypeOK', \A a \in Allocs : Owner'[a] \in {None, Owner[a]}
  PROVE  [Abstract!Next]_Owner
<1> DEFINE A == {a \in Allocs : Owner[a] # None /\ Owner'[a] = None}
<1>1. Owner' = [a \in Allocs |-> IF a \in A THEN None ELSE Owner[a]]
  <2>1. Owner' = [a \in Allocs |-> Owner'[a]]
    BY DEF Owner
  <2>2. \A a \in Allocs : Owner'[a] = IF a \in A THEN None ELSE Owner[a]
    OBVIOUS
  <2> QED
    BY <2>1, <2>2
<1>2. CASE A = {}
  BY <1>1, <1>2, OwnerFact
<1>3. CASE A # {}
  <2>1. A \in SUBSET Allocs /\ \A a \in A : Owner[a] # None
    OBVIOUS
  <2> HIDE DEF A
  <2>2. Abstract!Release(A)
    BY <1>1, <1>3, <2>1 DEF Abstract!Release
  <2> QED
    BY <2>1, <2>2 DEF Abstract!Next
<1> QED
  BY <1>2, <1>3

\* Nothing is held by a server that does not exist, and nothing but the allocation it names
\* by one that does.
LEMMA HoldsFact ==
  ASSUME IndInv, NEW a \in Allocs, NEW s \in Servers, Owner[a] = s
  PROVE  s \in Live /\ server[s].alloc = a
<1>1. s # None /\ allocation[a] # None /\ allocation[a].server = s
  BY OwnerFact, NoneAssumption DEF IndInv
<1> QED
  BY <1>1 DEF IndInv, OwnerConsistent, Rows

\* The commit of a create hands the allocation out.
LEMMA CommitStep ==
  ASSUME IndInv, IndInv', NEW r \in Requests, Commit(r)
  PROVE  [Abstract!Next]_Owner
<1> DEFINE a == req[r].a
<1>0. TypeOK /\ TypeOK' /\ a \in Allocs
  BY DEF IndInv, CreateLocals, Commit
<1>1. PICK s \in Servers \ issuedS :
         allocation' = IF allocation[a] = None THEN allocation
                       ELSE [allocation EXCEPT ![a].server = s]
  BY DEF Commit
<1>2. CASE allocation[a] = None
  <2>1. Owner' = Owner
    BY <1>1, <1>2 DEF Owner
  <2> QED
    BY <2>1
<1>3. CASE allocation[a] # None
  <2>1. allocation[a] \in AllocRow /\ allocation' = [allocation EXCEPT ![a].server = s]
    BY <1>0, <1>1, <1>3 DEF TypeOK
  <2>2. Owner[a] = None
    <3>1. \A t \in Live : server[t].alloc # a
      BY DEF Commit, ServerInsertable
    <3> QED
      BY <1>0, <3>1, HoldsFact, OwnerFact
  <2>3. Abstract!Holds(s) = {}
    <3>1. s \notin Live
      BY DEF IndInv, RowsIssued
    <3> QED
      BY <3>1, HoldsFact DEF Abstract!Holds
  <2>4. Owner' = [Owner EXCEPT ![a] = s]
    <3>1. Owner'[a] = s
      BY <1>0, <2>1, OwnerFact, NoneAssumption DEF Owner, TypeOK, AllocRow
    <3>2. \A b \in Allocs \ {a} : Owner'[b] = Owner[b]
      BY <1>0, <2>1 DEF Owner, TypeOK
    <3>3. Owner' = [b \in Allocs |-> Owner'[b]] /\ Owner = [b \in Allocs |-> Owner[b]]
      BY DEF Owner
    <3> QED
      BY <1>0, <3>1, <3>2, <3>3
  <2> QED
    BY <1>0, <2>2, <2>3, <2>4 DEF Abstract!Next, Abstract!HandOut
<1> QED
  BY <1>2, <1>3

\* The save of an update hands the loaded allocation out again, if it was freed since, or
\* leaves it where it is.
LEMMA SaveUpdateStep ==
  ASSUME IndInv, IndInv', NEW r \in Requests, SaveUpdate(r)
  PROVE  [Abstract!Next]_Owner
<1> DEFINE s == req[r].s
           a == req[r].rel
<1>0. TypeOK /\ TypeOK' /\ UpdateLocals(r) /\ req[r].pc = "u_save"
  BY DEF IndInv, SaveUpdate
<1>1. s \in Servers /\ s # None
  BY <1>0, NoneAssumption DEF UpdateLocals, TypeOK
<1>2. \A b \in Allocs :
        Owner'[b] = IF allocation[b] # None /\ b = a THEN s
                    ELSE IF Owner[b] = s THEN None ELSE Owner[b]
  <2>1. ASSUME NEW b \in Allocs
        PROVE  Owner'[b] = IF allocation[b] # None /\ b = a THEN s
                           ELSE IF Owner[b] = s THEN None ELSE Owner[b]
    <3>1. allocation'[b] =
             IF allocation[b] # None /\ b = a
             THEN [allocation[b] EXCEPT !.server = s]
             ELSE IF allocation[b] # None /\ allocation[b].server = s
             THEN [allocation[b] EXCEPT !.server = None]
             ELSE allocation[b]
      BY DEF SaveUpdate, Rows, HeldBy
    <3>2. Owner'[b] = IF allocation'[b] = None THEN None ELSE allocation'[b].server
      BY <1>0, OwnerFact DEF Owner
    <3>3. CASE allocation[b] = None
      BY <1>0, <1>1, <3>1, <3>2, <3>3, OwnerFact
    <3>4. CASE allocation[b] # None
      <4>1. allocation[b] \in AllocRow /\ allocation'[b] \in AllocRow \cup {None}
        BY <1>0, <3>4 DEF TypeOK
      <4>2. /\ [allocation[b] EXCEPT !.server = s] \in AllocRow
            /\ [allocation[b] EXCEPT !.server = None] \in AllocRow
            /\ [allocation[b] EXCEPT !.server = s].server = s
            /\ [allocation[b] EXCEPT !.server = None].server = None
        BY <1>1, <4>1 DEF AllocRow
      <4>3. Owner[b] = allocation[b].server
        BY <1>0, <3>4, OwnerFact
      <4> QED
        BY <3>1, <3>2, <3>4, <4>1, <4>2, <4>3, NoneAssumption
    <3> QED
      BY <3>3, <3>4
  <2> QED
    BY <2>1
<1>3. CASE a \notin Rows \/ Owner[a] = s
  <2>1. \A b \in Allocs : Owner'[b] \in {None, Owner[b]}
    BY <1>2, <1>3 DEF Rows
  <2> QED
    BY <1>0, <2>1, ReleasesStep
<1>4. CASE a \in Rows /\ Owner[a] # s
  <2>1. a \in Allocs /\ a # None /\ req[r].a = a
    BY <1>0, <1>4, NoneAssumption DEF UpdateLocals, Rows
  <2>2. Owner[a] = None
    <3>1. ASSUME NEW t \in Servers, Owner[a] = t PROVE FALSE
      <4>1. t \in Live /\ server[t].alloc = a
        BY <2>1, <3>1, HoldsFact
      <4>2. s \in Live
        BY <1>1, <2>1, <4>1 DEF SaveUpdate, ServerInsertable, Live
      <4>3. server[s].alloc = a
        BY <1>0, <2>1, <4>2 DEF UpdateLocals
      <4> QED
        BY <1>4, <3>1, <4>1, <4>2, <4>3 DEF IndInv, UniqueAllocation
    <3> QED
      BY <1>0, <2>1, <3>1, OwnerFact
  <2>3. \A b \in Allocs : Owner[b] # s
    <3>1. ASSUME NEW b \in Allocs, Owner[b] = s PROVE FALSE
      <4>1. s \in Live /\ server[s].alloc = b
        BY <1>1, <3>1, HoldsFact
      <4>2. b = a
        BY <1>0, <2>1, <4>1 DEF UpdateLocals
      <4> QED
        BY <1>4, <3>1, <4>2
    <3> QED
      BY <3>1
  <2>4. Owner' = [Owner EXCEPT ![a] = s]
    <3>1. \A b \in Allocs : Owner'[b] = IF b = a THEN s ELSE Owner[b]
      BY <1>2, <1>4, <2>3 DEF Rows
    <3>2. Owner' = [b \in Allocs |-> Owner'[b]] /\ Owner = [b \in Allocs |-> Owner[b]]
      BY DEF Owner
    <3> QED
      BY <2>1, <3>1, <3>2
  <2> QED
    BY <1>1, <2>1, <2>2, <2>3, <2>4 DEF Abstract!Next, Abstract!HandOut, Abstract!Holds
<1> QED
  BY <1>3, <1>4

\* Every other step releases allocations or leaves them alone.
LEMMA ReleasingStep ==
  ASSUME IndInv, IndInv', Next,
         ~ \E r \in Requests : Commit(r) \/ SaveUpdate(r)
  PROVE  [Abstract!Next]_Owner
<1> DEFINE Kept == \A a \in Allocs : allocation'[a] # None =>
                     \/ allocation'[a].server = None
                     \/ allocation[a] # None /\ allocation'[a].server = allocation[a].server
<1>1. TypeOK /\ TypeOK'
  BY DEF IndInv
<1>2. ASSUME Kept PROVE [Abstract!Next]_Owner
  <2>1. \A a \in Allocs : Owner'[a] \in {None, Owner[a]}
    BY <1>2 DEF Owner
  <2> QED
    BY <1>1, <2>1, ReleasesStep
<1>3. ASSUME allocation' = allocation PROVE Kept
  BY <1>3
<1>4. ASSUME NEW r \in Requests, FreeAllocation(r) PROVE Kept
  BY <1>1, <1>4 DEF FreeAllocation, TypeOK, AllocRow
<1>5. ASSUME NEW r \in Requests, SaveAllocations(r) PROVE Kept
  <2>1. PICK f \in Injection(req[r].ports, Allocs \ issuedA) :
          allocation' = [b \in Allocs |->
            IF b \in Range(f)
            THEN [node |-> req[r].n, port |-> CHOOSE p \in req[r].ports : f[p] = b,
                  server |-> None]
            ELSE allocation[b]]
    BY <1>5 DEF SaveAllocations
  <2> QED
    BY <2>1
<1>6. ASSUME NEW r \in Requests, RemoveAllocation(r) PROVE Kept
  BY <1>1, <1>6 DEF RemoveAllocation, TypeOK
<1>7. ASSUME NEW r \in Requests, NEW n \in Nodes, BulkDelete(r, n) PROVE Kept
  BY <1>7 DEF BulkDelete
<1>8. ASSUME NEW r \in Requests, RemoveNode(r) PROVE Kept
  BY <1>8 DEF RemoveNode
<1>9. ASSUME NEW r \in Requests, CreateServer(r), ~Commit(r) PROVE Kept
  BY <1>3, <1>9 DEF CreateServer, StartCreate, ReadAllocation, ReadUser, ReadCapacity,
     CreateAbort, Rollback
<1>10. ASSUME NEW r \in Requests, UpdateServer(r), ~SaveUpdate(r) PROVE Kept
  BY <1>3, <1>10 DEF UpdateServer, StartUpdate, SaveUpdateFails
<1>11. ASSUME NEW r \in Requests, DeleteServer(r) PROVE Kept
  BY <1>3, <1>4, <1>11 DEF DeleteServer, StartDelete, RemoveServer
<1>12. ASSUME NEW r \in Requests, ManageAllocations(r) PROVE Kept
  BY <1>3, <1>5, <1>6, <1>7, <1>12 DEF ManageAllocations, StartAllocCreate,
     StartAdminAllocCreate, ScanPort, SaveAllocationsFails, StartAllocDelete
<1>13. ASSUME NEW r \in Requests, DeleteNode(r) PROVE Kept
  BY <1>3, <1>8, <1>13 DEF DeleteNode, StartNodeDelete, StartAdminNodeDelete, ReadNode
<1>14. ASSUME NEW r \in Requests, DeleteUser(r) \/ DatabaseError(r) PROVE Kept
  BY <1>3, <1>14 DEF DeleteUser, StartUserDelete, StartAdminUserDelete, CountServers,
     RemoveUser, DatabaseError
<1> HIDE DEF Kept
<1> QED
  BY <1>2, <1>9, <1>10, <1>11, <1>12, <1>13, <1>14 DEF Next

\* Every step of the handlers is one of Ownership, or none.
LEMMA OwnershipStep == IndInv /\ IndInv' /\ [Next]_vars => [Abstract!Next]_Owner
<1>1. UNCHANGED vars => UNCHANGED Owner
  BY DEF vars, Owner
<1> QED
  BY <1>1, CommitStep, SaveUpdateStep, ReleasingStep

\* The database starts with free allocations only.
LEMMA OwnershipInit == Init => Abstract!Init
BY InitAllocAssumption DEF Init, Owner, Abstract!Init

\* The handlers of the Panel, which write rows from stale reads and in several statements,
\* implement Ownership: one step hands out at most one allocation, from free to a server
\* that holds none, or releases some (create, update and delete in servers.service.ts, the
\* handlers of allocations, nodes and users).
THEOREM OwnershipImplemented == Spec => ImplementsOwnership
<1> QED
  BY IndInvInit, IndInvNext, OwnershipInit, OwnershipStep, PTL
  DEF Spec, ImplementsOwnership, Abstract!Spec

-----------------------------------------------------------------------------
(* Servers that are created, and not updated or deleted.                   *)

\* A handler that starts none of the operations that update or release.
LEMMA NothingReleasedStarts ==
  ASSUME BoundInv, NEW r \in Requests
  PROVE  /\ ~UpdateServer(r) /\ ~DeleteServer(r)
         /\ \A a \in Allocs : ~StartAllocDelete(r, a)
         /\ \A n \in Nodes : ~BulkDelete(r, n)
         /\ ~RemoveAllocation(r)
BY DEF BoundInv, NothingReleased, UpdateServer, DeleteServer, StartUpdate, SaveUpdate,
   SaveUpdateFails, StartDelete, FreeAllocation, RemoveServer, StartAllocDelete,
   BulkDelete, RemoveAllocation

\* What the handlers in progress may be at, and what one that creates has read.
ReqBound(r) ==
  /\ req[r].pc \notin {"u_save", "d_free", "d_remove", "x_remove"}
  /\ req[r].pc \in {"c_user", "c_capacity", "c_commit"} /\ req[r].n \in nodes =>
       req[r].a \in Rows

\* A step of one handler that keeps the rows of the nodes that stay.
LEMMA BoundKeeps ==
  ASSUME BoundInv, IndInv', NEW r \in Requests, ServersBound', ReqBound(r)',
         \A q \in Requests \ {r} : req'[q] = req[q],
         nodes' \subseteq nodes,
         \A a \in Rows : allocation[a].node \in nodes' => a \in Rows'
  PROVE  BoundInv'
<1>1. NothingReleased'
  BY DEF BoundInv, NothingReleased
<1>2. ASSUME NEW q \in Requests PROVE ReqBound(q)'
  <2>1. CASE q # r
    <3>1. req'[q] = req[q] /\ CreateLocals(q)
      BY <2>1 DEF BoundInv, IndInv
    <3> QED
      BY <3>1 DEF BoundInv, ReqBound, CreateLocals
  <2> QED
    BY <2>1
<1> QED
  BY <1>1, <1>2 DEF BoundInv, ReqBound

\* A step that changes the request only.
LEMMA BoundReads ==
  ASSUME BoundInv, IndInv', NEW r \in Requests, ReqBound(r)', UNCHANGED Tables,
         \A q \in Requests \ {r} : req'[q] = req[q]
  PROVE  BoundInv'
<1>1. ServersBound' /\ Rows' = Rows
  BY DEF BoundInv, ServersBound, Tables, Live, Rows
<1> QED
  BY <1>1, BoundKeeps DEF Tables

\* The commit of a create leaves the new server and its allocation bound to each other.
LEMMA CommitBound ==
  ASSUME BoundInv, IndInv', NEW r \in Requests, Commit(r)
  PROVE  BoundInv'
<1> DEFINE a == req[r].a
           row == [alloc |-> a, node |-> req[r].n, user |-> req[r].u, memory |-> req[r].m]
<1>1. PICK s \in Servers \ issuedS :
        /\ server' = [server EXCEPT ![s] = row]
        /\ allocation' = IF allocation[a] = None THEN allocation
                         ELSE [allocation EXCEPT ![a].server = s]
  BY DEF Commit
<1>2. /\ nodes' = nodes /\ Finish(r) /\ req[r].pc = "c_commit"
      /\ req[r].n \in nodes /\ \A t \in Live : server[t].alloc # a
  BY DEF Commit, ServerInsertable
<1>3. TypeOK /\ RowsIssued /\ ServersBound
  BY DEF BoundInv, IndInv
<1>4. a \in Allocs /\ allocation[a] # None /\ allocation[a].node = req[r].n
  BY <1>2 DEF BoundInv, IndInv, CreateLocals, Rows
<1>5. allocation[a] \in AllocRow /\ allocation' = [allocation EXCEPT ![a].server = s]
  BY <1>1, <1>3, <1>4 DEF TypeOK
<1>6. /\ allocation'[a].server = s /\ allocation'[a].node = req[r].n
      /\ allocation'[a] # None
  BY <1>1, <1>3, <1>4, <1>5, NoneAssumption DEF TypeOK, AllocRow
<1>7. \A b \in Allocs \ {a} : allocation'[b] = allocation[b]
  BY <1>3, <1>5 DEF TypeOK
<1>8. Rows' = Rows
  BY <1>4, <1>6, <1>7 DEF Rows
<1>9. ServersBound'
  <2>1. SUFFICES ASSUME NEW t \in Servers, server'[t] # None
                 PROVE  /\ server'[t].alloc \in Rows
                        /\ allocation'[server'[t].alloc].server = t
                        /\ allocation'[server'[t].alloc].node = server'[t].node
    BY <1>8 DEF ServersBound, Live
  <2>2. CASE t = s
    <3>1. server'[t] = row
      BY <1>1, <1>3, <2>2 DEF TypeOK
    <3>2. a \in Rows
      BY <1>4 DEF Rows
    <3> QED
      BY <1>6, <2>2, <3>1, <3>2
  <2>3. CASE t # s
    <3>1. server'[t] = server[t]
      BY <1>1, <1>3, <2>3 DEF TypeOK
    <3>2. t \in Live
      BY <2>1, <3>1 DEF Live
    <3> QED
      BY <1>2, <1>3, <1>7, <3>1, <3>2 DEF ServersBound, Rows
  <2> QED
    BY <2>2, <2>3
<1>10. req'[r] = Idle /\ \A q \in Requests \ {r} : req'[q] = req[q]
  BY <1>2, <1>3 DEF Finish, TypeOK
<1>11. ReqBound(r)'
  BY <1>10 DEF ReqBound, Idle
<1> QED
  BY <1>2, <1>8, <1>9, <1>10, <1>11, BoundKeeps

\* The rows that a batch of allocations adds are new ones.
LEMMA SaveAllocationsBound ==
  ASSUME BoundInv, IndInv', NEW r \in Requests, SaveAllocations(r)
  PROVE  BoundInv'
<1>1. TypeOK /\ TypeOK' /\ RowsIssued /\ ServersBound
  BY DEF BoundInv, IndInv
<1>2. PICK f \in Injection(req[r].ports, Allocs \ issuedA) :
        allocation' = [b \in Allocs |->
          IF b \in Range(f)
          THEN [node |-> req[r].n, port |-> CHOOSE p \in req[r].ports : f[p] = b,
                server |-> None]
          ELSE allocation[b]]
  BY DEF SaveAllocations
<1>3. f \in [req[r].ports -> Allocs \ issuedA]
  BY DEF Injection, IsInjective
<1>4. \A b \in Rows : allocation'[b] = allocation[b]
  BY <1>1, <1>2, <1>3 DEF RowsIssued, Range, Rows
<1>5. Rows \subseteq Rows'
  BY <1>4 DEF Rows
<1>6. ServersBound'
  BY <1>1, <1>4, <1>5 DEF SaveAllocations, ServersBound, Live
<1>7. req'[r] = Idle /\ \A q \in Requests \ {r} : req'[q] = req[q]
  BY <1>1 DEF SaveAllocations, Finish, TypeOK
<1>8. ReqBound(r)'
  BY <1>7 DEF ReqBound, Idle
<1> QED
  BY <1>5, <1>6, <1>7, <1>8, BoundKeeps DEF SaveAllocations

\* A node takes with it exactly the servers and the allocations that are bound to each other.
LEMMA RemoveNodeBound ==
  ASSUME BoundInv, IndInv', NEW r \in Requests, RemoveNode(r)
  PROVE  BoundInv'
<1> DEFINE n == req[r].n
<1>1. TypeOK /\ ServersBound
  BY DEF BoundInv, IndInv
<1>2. req'[r] = Idle /\ \A q \in Requests \ {r} : req'[q] = req[q]
  BY <1>1 DEF RemoveNode, Finish, TypeOK
<1>3. ReqBound(r)'
  BY <1>2 DEF ReqBound, Idle
<1>4. CASE UNCHANGED <<nodes, server, allocation>>
  BY <1>2, <1>3, <1>4, BoundReads DEF RemoveNode, Tables
<1>5. CASE /\ nodes' = nodes \ {n}
           /\ server' = [s \in Servers |-> IF s \in OnNode(n) THEN None ELSE server[s]]
           /\ allocation' = [a \in Allocs |->
                IF a \in {b \in Rows : allocation[b].node = n} THEN None ELSE allocation[a]]
  <2>1. \A a \in Rows : allocation[a].node # n => a \in Rows' /\ allocation'[a] = allocation[a]
    BY <1>5 DEF Rows
  <2>2. \A s \in Live' : s \in Live /\ server[s].node # n /\ server'[s] = server[s]
    BY <1>5 DEF Live, OnNode
  <2>3. ServersBound'
    BY <1>1, <2>1, <2>2 DEF ServersBound
  <2> QED
    BY <1>2, <1>3, <1>5, <2>1, <2>3, BoundKeeps
<1> QED
  BY <1>4, <1>5 DEF RemoveNode

\* Deleting a user changes no server, since every server is referenced.
LEMMA RemoveUserKeepsServers ==
  ASSUME TypeOK, ServersBound, NEW r \in Requests, RemoveUser(r)
  PROVE  server' = server
<1> DEFINE S == OwnedBy(req[r].u)
<1>1. CASE Unreferenced(S, {})
  <2>1. S = {}
    BY <1>1 DEF Unreferenced, OwnedBy, ServersBound
  <2>2. server' = [s \in Servers |-> IF s \in S THEN None ELSE server[s]]
    BY <1>1 DEF RemoveUser
  <2> QED
    BY <2>1, <2>2 DEF TypeOK
<1>2. CASE ~Unreferenced(S, {})
  BY <1>2 DEF RemoveUser
<1> QED
  BY <1>1, <1>2

\* So the deletion of a user keeps what binds servers and allocations.
LEMMA RemoveUserBound ==
  ASSUME BoundInv, IndInv', NEW r \in Requests, RemoveUser(r)
  PROVE  BoundInv'
<1>1. TypeOK /\ ServersBound
  BY DEF BoundInv, IndInv
<1>2. req'[r] = Idle /\ \A q \in Requests \ {r} : req'[q] = req[q]
  BY <1>1 DEF RemoveUser, Finish, TypeOK
<1>3. ReqBound(r)'
  BY <1>2 DEF ReqBound, Idle
<1>4. server' = server /\ allocation' = allocation /\ nodes' = nodes
  BY <1>1, RemoveUserKeepsServers DEF RemoveUser
<1>5. ServersBound' /\ Rows' = Rows
  BY <1>1, <1>4 DEF ServersBound, Live, Rows
<1> QED
  BY <1>2, <1>3, <1>4, <1>5, BoundKeeps

\* Every step keeps servers bound.
LEMMA BoundNext == BoundInv /\ IndInv' /\ [Next]_vars => BoundInv'
<1> SUFFICES ASSUME BoundInv, IndInv', [Next]_vars PROVE BoundInv'
  OBVIOUS
<1>1. TypeOK
  BY DEF BoundInv, IndInv
<1>2. CASE UNCHANGED vars
  BY <1>2 DEF vars, BoundInv, NothingReleased, ServersBound, Live, Rows
<1>3. ASSUME NEW r \in Requests, UNCHANGED Tables,
             NEW x, x.pc \notin {"c_user", "c_capacity", "c_commit", "u_save", "d_free",
                                 "d_remove", "x_remove"},
             req' = [req EXCEPT ![r] = x]
      PROVE  BoundInv'
  <2>1. req'[r] = x /\ \A q \in Requests \ {r} : req'[q] = req[q]
    BY <1>1, <1>3 DEF TypeOK
  <2> QED
    BY <1>3, <2>1, BoundReads DEF ReqBound
<1>4. Idle.pc = "idle"
  BY DEF Idle
<1>5. ASSUME NEW r \in Requests, UNCHANGED Tables, Finish(r) PROVE BoundInv'
  BY <1>3, <1>4, <1>5 DEF Finish
<1>6. ASSUME NEW r \in Requests, UNCHANGED Tables,
             NEW pc \in {"c_user", "c_capacity", "c_commit"}, Goto(r, pc),
             req[r].n \in nodes => req[r].a \in Rows
      PROVE  BoundInv'
  <2>1. /\ req'[r].pc = pc /\ req'[r].n = req[r].n /\ req'[r].a = req[r].a
        /\ \A q \in Requests \ {r} : req'[q] = req[q]
    BY <1>1, <1>6 DEF TypeOK, Goto, Request
  <2>2. ReqBound(r)'
    BY <1>6, <2>1 DEF ReqBound, Tables, Rows
  <2> QED
    BY <1>6, <2>1, <2>2, BoundReads
<1>7. ASSUME NEW r \in Requests, UNCHANGED Tables,
             NEW pc \in {"a_save", "n_remove", "v_remove"}, Goto(r, pc)
      PROVE  BoundInv'
  <2>1. [req[r] EXCEPT !.pc = pc].pc = pc
    BY <1>1 DEF TypeOK, Request
  <2> QED
    BY <1>3, <1>7, <2>1 DEF Goto
<1>8. ASSUME NEW r \in Requests, CreateServer(r) PROVE BoundInv'
  <2>1. ASSUME NEW n \in Nodes, NEW a \in Allocs, NEW u \in Users, NEW m \in Memories,
               StartCreate(r, n, a, u, m)
        PROVE  BoundInv'
    <3>1. [Idle EXCEPT !.pc = "c_alloc", !.n = n, !.a = a, !.u = u, !.m = m].pc = "c_alloc"
      BY DEF Idle
    <3> QED
      BY <1>3, <2>1, <3>1 DEF StartCreate, Tables
  <2>2. CASE ReadAllocation(r)
    <3>1. req[r].a \in Allocs
      BY <2>2 DEF ReadAllocation, BoundInv, IndInv, CreateLocals
    <3> QED
      BY <1>5, <1>6, <2>2, <3>1 DEF ReadAllocation, Tables, Rows
  <2>3. CASE ReadUser(r) \/ ReadCapacity(r)
    <3>1. req[r].n \in nodes => req[r].a \in Rows
      BY <2>3 DEF ReadUser, ReadCapacity, BoundInv
    <3> QED
      BY <1>5, <1>6, <2>3, <3>1 DEF ReadUser, ReadCapacity, Tables
  <2>4. CASE CreateAbort(r) \/ Rollback(r)
    BY <1>5, <2>4 DEF CreateAbort, Rollback, Tables
  <2>5. CASE Commit(r)
    BY <2>5, CommitBound
  <2> QED
    BY <1>8, <2>1, <2>2, <2>3, <2>4, <2>5 DEF CreateServer
<1>9. ASSUME NEW r \in Requests, ManageAllocations(r) PROVE BoundInv'
  <2>1. ASSUME NEW n \in Nodes, NEW lo \in Ports, NEW hi \in Ports,
               StartAllocCreate(r, n, lo, hi)
        PROVE  BoundInv'
    <3> DEFINE P == {p \in lo..hi : ~PortTaken(n, p)}
    <3>1. [Idle EXCEPT !.pc = "a_save", !.n = n, !.ports = P].pc = "a_save"
      BY DEF Idle
    <3> QED
      BY <1>3, <2>1, <3>1 DEF StartAllocCreate, Tables
  <2>2. ASSUME NEW n \in Nodes, NEW lo \in Ports, NEW hi \in Ports,
               StartAdminAllocCreate(r, n, lo, hi)
        PROVE  BoundInv'
    <3>1. [Idle EXCEPT !.pc = "a_scan", !.n = n, !.todo = lo..hi].pc = "a_scan"
      BY DEF Idle
    <3> QED
      BY <1>3, <2>2, <3>1 DEF StartAdminAllocCreate, Tables
  <2>3. CASE ScanPort(r)
    <3>1. ASSUME NEW p \in req[r].todo,
                 req' = [req EXCEPT ![r] = [req[r] EXCEPT
                    !.todo = req[r].todo \ {p},
                    !.ports = req[r].ports \cup {q \in {p} : ~PortTaken(req[r].n, q)}]]
          PROVE  BoundInv'
      <4> DEFINE T == req[r].todo \ {p}
                 P == req[r].ports \cup {q \in {p} : ~PortTaken(req[r].n, q)}
      <4>1. [req[r] EXCEPT !.todo = T, !.ports = P].pc = "a_scan"
        BY <1>1, <2>3, ZenonT(40) DEF ScanPort, TypeOK, Request
      <4>2. req' = [req EXCEPT ![r] = [req[r] EXCEPT !.todo = T, !.ports = P]]
        BY <3>1
      <4> QED
        BY <1>3, <2>3, <4>1, <4>2 DEF ScanPort, Tables
    <3> QED
      BY <1>7, <2>3, <3>1 DEF ScanPort, Tables
  <2>4. CASE SaveAllocations(r)
    BY <2>4, SaveAllocationsBound
  <2>5. CASE SaveAllocationsFails(r)
    BY <1>5, <2>5 DEF SaveAllocationsFails, Tables
  <2> QED
    BY <1>9, <2>1, <2>2, <2>3, <2>4, <2>5, NothingReleasedStarts DEF ManageAllocations
<1>10. ASSUME NEW r \in Requests, DeleteNode(r) PROVE BoundInv'
  <2>1. ASSUME NEW n \in Nodes, StartNodeDelete(r, n) \/ StartAdminNodeDelete(r, n)
        PROVE  BoundInv'
    <3>1. \A pc \in {"n_remove", "n_read"} : [Idle EXCEPT !.pc = pc, !.n = n].pc = pc
      BY DEF Idle
    <3> QED
      BY <1>3, <2>1, <3>1 DEF StartNodeDelete, StartAdminNodeDelete, Tables
  <2>2. CASE ReadNode(r)
    BY <1>5, <1>7, <2>2 DEF ReadNode, Tables
  <2> QED
    BY <1>10, <2>1, <2>2, RemoveNodeBound DEF DeleteNode
<1>11. ASSUME NEW r \in Requests, DeleteUser(r) PROVE BoundInv'
  <2>1. ASSUME NEW u \in Users, StartUserDelete(r, u) \/ StartAdminUserDelete(r, u)
        PROVE  BoundInv'
    <3>1. \A pc \in {"v_remove", "v_count"} : [Idle EXCEPT !.pc = pc, !.u = u].pc = pc
      BY DEF Idle
    <3> QED
      BY <1>3, <2>1, <3>1 DEF StartUserDelete, StartAdminUserDelete, Tables
  <2>2. CASE CountServers(r)
    BY <1>5, <1>7, <2>2 DEF CountServers, Tables
  <2> QED
    BY <1>11, <2>1, <2>2, RemoveUserBound DEF DeleteUser
<1>12. ASSUME NEW r \in Requests, DatabaseError(r) PROVE BoundInv'
  BY <1>5, <1>12 DEF DatabaseError, Tables
<1> QED
  BY <1>2, <1>8, <1>9, <1>10, <1>11, <1>12, NothingReleasedStarts DEF Next

\* The empty database binds nothing.
LEMMA BoundInit == Init /\ NothingReleased => BoundInv
<1> SUFFICES ASSUME Init, NothingReleased PROVE BoundInv
  OBVIOUS
<1>1. ServersBound /\ \A r \in Requests : req[r].pc = "idle"
  BY DEF Init, Idle, ServersBound, Live
<1> QED
  BY <1>1, IndInvInit DEF BoundInv

\* As long as nobody updates or deletes servers and allocations go only with their node:
\* every server that create leaves behind is reachable from its allocation, whatever else
\* creates, batches of allocations and the deletion of users and nodes are interleaved.
THEOREM CreatedServersBound == Spec /\ NothingReleased => []ServersBound
<1>1. BoundInv => IndInv /\ ServersBound
  BY DEF BoundInv
<1> QED
  BY <1>1, BoundInit, IndInvNext, BoundNext, PTL DEF Spec

\* And then the deletion of a user never takes a server with it, although its handler
\* counts the servers in an earlier step: the foreign key of the allocation refuses it.
THEOREM UserDeletionSpares == Spec /\ NothingReleased => UserDeletionSparesServers
<1> DEFINE Spared == users' # users => \A s \in Live : server'[s] # None
<1>1. ASSUME BoundInv, [Next]_vars PROVE [Spared]_vars
  <2>1. TypeOK /\ ServersBound
    BY <1>1 DEF BoundInv, IndInv
  <2>2. ASSUME NEW r \in Requests, RemoveUser(r) PROVE Spared
    BY <2>1, <2>2, RemoveUserKeepsServers DEF Live
  <2>3. CASE \E r \in Requests : RemoveUser(r)
    BY <2>2, <2>3
  <2>4. ASSUME Next, ~ \E r \in Requests : RemoveUser(r) PROVE users' = users
    <3>1. PICK r \in Requests : \/ CreateServer(r) \/ UpdateServer(r) \/ DeleteServer(r)
                                \/ ManageAllocations(r) \/ DeleteNode(r)
                                \/ DeleteUser(r) \/ DatabaseError(r)
      BY <2>4 DEF Next
    <3>2. CASE CreateServer(r)
      BY <3>2 DEF CreateServer, StartCreate, ReadAllocation, ReadUser, ReadCapacity,
         CreateAbort, Commit, Rollback
    <3>3. CASE UpdateServer(r)
      BY <3>3 DEF UpdateServer, StartUpdate, SaveUpdate, SaveUpdateFails
    <3>4. CASE DeleteServer(r)
      BY <3>4 DEF DeleteServer, StartDelete, FreeAllocation, RemoveServer
    <3>5. CASE ManageAllocations(r)
      BY <3>5 DEF ManageAllocations, StartAllocCreate, StartAdminAllocCreate, ScanPort,
         SaveAllocations, SaveAllocationsFails, StartAllocDelete, RemoveAllocation, BulkDelete
    <3>6. CASE DeleteNode(r)
      BY <3>6 DEF DeleteNode, StartNodeDelete, StartAdminNodeDelete, ReadNode, RemoveNode
    <3>7. CASE DeleteUser(r)
      BY <2>4, <3>7 DEF DeleteUser, StartUserDelete, StartAdminUserDelete, CountServers
    <3>8. CASE DatabaseError(r)
      BY <3>8 DEF DatabaseError
    <3> QED
      BY <3>1, <3>2, <3>3, <3>4, <3>5, <3>6, <3>7, <3>8
  <2> QED
    BY <1>1, <2>3, <2>4
<1>2. BoundInv => IndInv
  BY DEF BoundInv
<1> QED
  BY <1>1, <1>2, BoundInit, IndInvNext, BoundNext, PTL DEF Spec, UserDeletionSparesServers
=============================================================================
