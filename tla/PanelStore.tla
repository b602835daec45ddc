----------------------------- MODULE PanelStore -----------------------------
(***************************************************************************)
(* The relational state of the Panel: nodes, users, servers and            *)
(* allocations, and the request handlers that change it.                   *)
(*                                                                         *)
(* Handlers run concurrently in one Node.js process: between two awaits a  *)
(* handler runs alone, and at every await another handler may run.  One    *)
(* action is therefore one awaited database call together with the code    *)
(* that uses its result.  What a handler has read is kept in its request   *)
(* record and may be stale when it is written back.                        *)
(*                                                                         *)
(* The only mutual exclusion is what the schema declares: UNIQUE           *)
(* servers.allocationId, UNIQUE allocations(nodeId, ip, port), UNIQUE      *)
(* allocations.serverId, and the foreign keys servers.userId and .nodeId   *)
(* (CASCADE), allocations.nodeId (CASCADE) and allocations.serverId (NO    *)
(* ACTION).  servers.allocationId is a plain column, not a foreign key.    *)
(*                                                                         *)
(* Abstractions: one IP per node; disk is checked exactly as memory is and *)
(* is left out; the status column and the calls to Wings are the subject   *)
(* of ServerLifecycle; a check that reads none of these tables (heartbeat, *)
(* Wings reachable, egg, variables) may fail at any point of create.       *)
(***************************************************************************)
EXTENDS Integers, FiniteSets, FiniteSetsExt, Functions

CONSTANTS
  Servers,      \* identifiers the database can give to servers
  Allocs,       \* identifiers the database can give to allocations
  Nodes,        \* the nodes registered at the start
  Users,        \* the users registered at the start
  Requests,     \* the requests that may be in progress together
  Ports,        \* the ports an administrator asks for
  Memories,     \* the memory sizes a client asks for
  Capacity,     \* node.memory * (1 + node.memoryOverallocate / 100)
  MaxRange,     \* the literal 1000 of the allocation handlers
  InitAlloc,    \* the allocation table at the start
  Ops,          \* the operations clients call
  None          \* SQL NULL, and the absence of a row

ServerRow == [alloc: Allocs, node: Nodes, user: Users, memory: Nat]
AllocRow == [node: Nodes, port: Ports, server: Servers \cup {None}]

ASSUME NoneAssumption ==
  /\ None \notin Servers \cup Allocs \cup Nodes \cup Users
  /\ None \notin ServerRow
  /\ None \notin AllocRow

ASSUME NumbersAssumption ==
  /\ Ports \subseteq Nat
  /\ \A lo, hi \in Ports : lo..hi \subseteq Ports
  /\ Memories \subseteq Nat
  /\ Capacity \in Nat
  /\ MaxRange \in Nat

ASSUME InitAllocAssumption ==
  /\ InitAlloc \in [Allocs -> AllocRow \cup {None}]
  /\ \A a \in Allocs : InitAlloc[a] # None => InitAlloc[a].server = None
  /\ \A a, b \in Allocs :
       /\ InitAlloc[a] # None
       /\ InitAlloc[b] # None
       /\ InitAlloc[a].node = InitAlloc[b].node
       /\ InitAlloc[a].port = InitAlloc[b].port
       => a = b

VARIABLES
  nodes,        \* rows of "nodes"
  users,        \* rows of "users"
  server,       \* "servers": the row of each identifier, or None
  allocation,   \* "allocations": the row of each identifier, or None
  issuedS,      \* server identifiers ever given out (never given again)
  issuedA,      \* allocation identifiers ever given out
  req           \* the handlers in progress, with what they have read

vars == <<nodes, users, server, allocation, issuedS, issuedA, req>>

Pc == {"idle", "c_alloc", "c_user", "c_capacity", "c_commit", "u_save",
       "d_free", "d_remove", "a_scan", "a_save", "x_remove", "n_read",
       "n_remove", "v_count", "v_remove"}

Request ==
  [pc: Pc,
   s: Servers \cup {None},         \* the server named or loaded
   a: Allocs \cup {None},          \* the allocation named, or server.allocationId
   rel: Allocs \cup {None},        \* the loaded relation server.allocation
   n: Nodes \cup {None},
   u: Users \cup {None},
   m: Nat,
   todo: SUBSET Ports,             \* ports a port-by-port scan has still to read
   ports: SUBSET Ports]            \* ports to insert

Idle == [pc |-> "idle", s |-> None, a |-> None, rel |-> None, n |-> None,
         u |-> None, m |-> 0, todo |-> {}, ports |-> {}]

Init ==
  /\ nodes = Nodes
  /\ users = Users
  /\ server = [s \in Servers |-> None]
  /\ allocation = InitAlloc
  /\ issuedS = {}
  /\ issuedA = {a \in Allocs : InitAlloc[a] # None}
  /\ req = [r \in Requests |-> Idle]

-----------------------------------------------------------------------------
(* The tables, as the queries see them.                                    *)

Live == {s \in Servers : server[s] # None}
Rows == {a \in Allocs : allocation[a] # None}

\* The rows of allocations that reference server s.
HeldBy(s) == {a \in Rows : allocation[a].server = s}

\* The relation 'allocation' that findByUuid and findById load with a server:
\* the inverse side of allocations.serverId, not the column allocationId.
Joined(s) == IF HeldBy(s) = {} THEN None ELSE CHOOSE a \in HeldBy(s) : TRUE

OnNode(n) == {s \in Live : server[s].node = n}
OwnedBy(u) == {s \in Live : server[s].user = u}

\* SELECT COALESCE(SUM(memory), 0) FROM servers WHERE nodeId = n
AllocatedMemory(n) == MapThenSumSet(LAMBDA s : server[s].memory, OnNode(n))

PortTaken(n, p) == \E a \in Rows : allocation[a].node = n /\ allocation[a].port = p

\* Mutant: the schema without UNIQUE on servers.allocationId.
ServerInsertableNoUnique(n, u, a) == n \in nodes /\ u \in users

\* INSERT INTO servers succeeds: both foreign keys and UNIQUE allocationId.
ServerInsertable(n, u, a) ==
  /\ n \in nodes
  /\ u \in users
  /\ \A t \in Live : server[t].alloc # a

\* Mutant: the schema without the foreign key on allocations.serverId.
UnreferencedNoForeignKey(S, doomed) == TRUE

\* allocations.serverId is NO ACTION: the servers in S cannot be deleted while
\* a row that outlives the statement references one of them.
Unreferenced(S, doomed) == \A a \in Rows \ doomed : allocation[a].server \notin S

Finish(r) == req' = [req EXCEPT ![r] = Idle]
Goto(r, pc) == req' = [req EXCEPT ![r].pc = pc]

-----------------------------------------------------------------------------
(* ServersService.create                                                   *)

\* The node row is read; a missing node ends the request with 404.
StartCreate(r, n, a, u, m) ==
  /\ "create" \in Ops
  /\ req[r].pc = "idle"
  /\ n \in nodes
  /\ req' = [req EXCEPT ![r] = [Idle EXCEPT !.pc = "c_alloc", !.n = n, !.a = a,
                                            !.u = u, !.m = m]]
  /\ UNCHANGED <<nodes, users, server, allocation, issuedS, issuedA>>

\* The allocation must exist, be on the node and be unassigned.
ReadAllocation(r) ==
  /\ req[r].pc = "c_alloc"
  /\ IF /\ allocation[req[r].a] # None
        /\ allocation[req[r].a].node = req[r].n
        /\ allocation[req[r].a].server = None
     THEN Goto(r, "c_user")
     ELSE Finish(r)
  /\ UNCHANGED <<nodes, users, server, allocation, issuedS, issuedA>>

ReadUser(r) ==
  /\ req[r].pc = "c_user"
  /\ IF req[r].u \in users THEN Goto(r, "c_capacity") ELSE Finish(r)
  /\ UNCHANGED <<nodes, users, server, allocation, issuedS, issuedA>>

\* The aggregate query and the comparison with the node's capacity.
ReadCapacity(r) ==
  /\ req[r].pc = "c_capacity"
  /\ IF AllocatedMemory(req[r].n) + req[r].m <= Capacity
     THEN Goto(r, "c_commit")
     ELSE Finish(r)
  /\ UNCHANGED <<nodes, users, server, allocation, issuedS, issuedA>>

\* The node is offline, Wings does not answer, the egg is missing or a variable
\* is invalid: an exception before anything is written.
CreateAbort(r) ==
  /\ req[r].pc \in {"c_alloc", "c_user", "c_capacity", "c_commit"}
  /\ Finish(r)
  /\ UNCHANGED <<nodes, users, server, allocation, issuedS, issuedA>>

\* Mutant: the assignment of the allocation is left out of the transaction.
CommitUnassigned(r) ==
  /\ req[r].pc = "c_commit"
  /\ ServerInsertable(req[r].n, req[r].u, req[r].a)
  /\ \E s \in Servers \ issuedS :
       /\ issuedS' = issuedS \cup {s}
       /\ server' = [server EXCEPT ![s] =
            [alloc |-> req[r].a, node |-> req[r].n, user |-> req[r].u,
             memory |-> req[r].m]]
  /\ Finish(r)
  /\ UNCHANGED <<nodes, users, allocation, issuedA>>

\* The transaction: INSERT the server, then UPDATE allocations SET serverId
\* WHERE id = allocationId, whatever that row holds by now and even if it is gone.
Commit(r) ==
  /\ req[r].pc = "c_commit"
  /\ ServerInsertable(req[r].n, req[r].u, req[r].a)
  /\ \E s \in Servers \ issuedS :
       /\ issuedS' = issuedS \cup {s}
       /\ server' = [server EXCEPT ![s] =
            [alloc |-> req[r].a, node |-> req[r].n, user |-> req[r].u,
             memory |-> req[r].m]]
       /\ allocation' = IF allocation[req[r].a] = None THEN allocation
                        ELSE [allocation EXCEPT ![req[r].a].server = s]
  /\ Finish(r)
  /\ UNCHANGED <<nodes, users, issuedA>>

\* A constraint fails (or the model has run out of identifiers): rollback.
Rollback(r) ==
  /\ req[r].pc = "c_commit"
  /\ ~ServerInsertable(req[r].n, req[r].u, req[r].a) \/ issuedS = Servers
  /\ Finish(r)
  /\ UNCHANGED <<nodes, users, server, allocation, issuedS, issuedA>>

-----------------------------------------------------------------------------
(* ServersService.update: findByUuid, Object.assign, save.                 *)

StartUpdate(r, s, m) ==
  /\ "update" \in Ops
  /\ req[r].pc = "idle"
  /\ s \in Live
  /\ req' = [req EXCEPT ![r] = [Idle EXCEPT !.pc = "u_save", !.s = s,
                !.a = server[s].alloc, !.n = server[s].node, !.u = server[s].user,
                !.m = m, !.rel = Joined(s)]]
  /\ UNCHANGED <<nodes, users, server, allocation, issuedS, issuedA>>

\* TypeORM's save of a loaded server: an UPDATE when the row is still there, an
\* INSERT with the old id when it is not; the loaded relation is written back
\* to allocations.serverId.
SaveUpdate(r) ==
  /\ req[r].pc = "u_save"
  /\ server[req[r].s] = None => ServerInsertable(req[r].n, req[r].u, req[r].a)
  /\ server' = [server EXCEPT ![req[r].s] =
       [alloc |-> req[r].a, node |-> req[r].n, user |-> req[r].u,
        memory |-> req[r].m]]
  /\ allocation' = [a \in Allocs |->
       IF a \in Rows /\ a = req[r].rel
       THEN [allocation[a] EXCEPT !.server = req[r].s]
       ELSE IF a \in HeldBy(req[r].s)
       THEN [allocation[a] EXCEPT !.server = None]
       ELSE allocation[a]]
  /\ Finish(r)
  /\ UNCHANGED <<nodes, users, issuedS, issuedA>>

SaveUpdateFails(r) ==
  /\ req[r].pc = "u_save"
  /\ server[req[r].s] = None
  /\ ~ServerInsertable(req[r].n, req[r].u, req[r].a)
  /\ Finish(r)
  /\ UNCHANGED <<nodes, users, server, allocation, issuedS, issuedA>>

-----------------------------------------------------------------------------
(* ServersService.delete: findByUuid, the call to Wings (whose failure is  *)
(* only logged), free the loaded allocation, remove the row.  The three    *)
(* writes are not in a transaction.                                        *)

StartDelete(r, s) ==
  /\ "delete" \in Ops
  /\ req[r].pc = "idle"
  /\ s \in Live
  /\ req' = [req EXCEPT ![r] = [Idle EXCEPT
                !.pc = IF Joined(s) = None THEN "d_remove" ELSE "d_free",
                !.s = s, !.rel = Joined(s)]]
  /\ UNCHANGED <<nodes, users, server, allocation, issuedS, issuedA>>

\* UPDATE allocations SET serverId = NULL WHERE id = server.allocation.id, which
\* was read before the call to Wings.
FreeAllocation(r) ==
  /\ req[r].pc = "d_free"
  /\ allocation' = IF allocation[req[r].rel] = None THEN allocation
                   ELSE [allocation EXCEPT ![req[r].rel].server = None]
  /\ Goto(r, "d_remove")
  /\ UNCHANGED <<nodes, users, server, issuedS, issuedA>>

RemoveServer(r) ==
  /\ req[r].pc = "d_remove"
  /\ server' = IF Unreferenced({req[r].s}, {})
               THEN [server EXCEPT ![req[r].s] = None]
               ELSE server
  /\ Finish(r)
  /\ UNCHANGED <<nodes, users, allocation, issuedS, issuedA>>

-----------------------------------------------------------------------------
(* Allocations                                                             *)

RangeAccepted(lo, hi) == lo <= hi /\ hi - lo <= MaxRange

\* AllocationsService.create reads all ports of the range in one query.
StartAllocCreate(r, n, lo, hi) ==
  /\ "alloc_create" \in Ops
  /\ req[r].pc = "idle"
  /\ RangeAccepted(lo, hi)
  /\ req' = [req EXCEPT ![r] = [Idle EXCEPT !.pc = "a_save", !.n = n,
                !.ports = {p \in lo..hi : ~PortTaken(n, p)}]]
  /\ UNCHANGED <<nodes, users, server, allocation, issuedS, issuedA>>

\* AdminAllocationsController.create reads them one by one.
StartAdminAllocCreate(r, n, lo, hi) ==
  /\ "admin_alloc_create" \in Ops
  /\ req[r].pc = "idle"
  /\ RangeAccepted(lo, hi)
  /\ req' = [req EXCEPT ![r] = [Idle EXCEPT !.pc = "a_scan", !.n = n,
                !.todo = lo..hi]]
  /\ UNCHANGED <<nodes, users, server, allocation, issuedS, issuedA>>

ScanPort(r) ==
  /\ req[r].pc = "a_scan"
  /\ \/ /\ req[r].todo = {}
        /\ Goto(r, "a_save")
     \/ \E p \in req[r].todo :
          /\ \A o \in req[r].todo : p <= o
          /\ req' = [req EXCEPT ![r] = [req[r] EXCEPT
                !.todo = req[r].todo \ {p},
                !.ports = req[r].ports \cup {q \in {p} : ~PortTaken(req[r].n, q)}]]
  /\ UNCHANGED <<nodes, users, server, allocation, issuedS, issuedA>>

\* save(allocations) inserts all rows in one transaction.
PortsInsertable(n, ports) ==
  ports = {} \/ (n \in nodes /\ \A p \in ports : ~PortTaken(n, p))

SaveAllocations(r) ==
  /\ req[r].pc = "a_save"
  /\ PortsInsertable(req[r].n, req[r].ports)
  /\ \E f \in Injection(req[r].ports, Allocs \ issuedA) :
       /\ issuedA' = issuedA \cup Range(f)
       /\ allocation' = [a \in Allocs |->
            IF a \in Range(f)
            THEN [node |-> req[r].n, port |-> CHOOSE p \in req[r].ports : f[p] = a,
                  server |-> None]
            ELSE allocation[a]]
  /\ Finish(r)
  /\ UNCHANGED <<nodes, users, server, issuedS>>

\* A constraint fails (or the model has run out of identifiers).
SaveAllocationsFails(r) ==
  /\ req[r].pc = "a_save"
  /\ \/ ~PortsInsertable(req[r].n, req[r].ports)
     \/ Cardinality(req[r].ports) > Cardinality(Allocs \ issuedA)
  /\ Finish(r)
  /\ UNCHANGED <<nodes, users, server, allocation, issuedS, issuedA>>

\* Both delete handlers read the row and refuse an assigned one.
StartAllocDelete(r, a) ==
  /\ "alloc_delete" \in Ops
  /\ req[r].pc = "idle"
  /\ a \in Rows
  /\ allocation[a].server = None
  /\ req' = [req EXCEPT ![r] = [Idle EXCEPT !.pc = "x_remove", !.a = a]]
  /\ UNCHANGED <<nodes, users, server, allocation, issuedS, issuedA>>

\* DELETE FROM allocations WHERE id = a: nothing references allocations.
RemoveAllocation(r) ==
  /\ req[r].pc = "x_remove"
  /\ allocation' = [allocation EXCEPT ![req[r].a] = None]
  /\ Finish(r)
  /\ UNCHANGED <<nodes, users, server, issuedS, issuedA>>

\* DELETE FROM allocations WHERE nodeId = n AND serverId IS NULL
BulkDelete(r, n) ==
  /\ "bulk_delete" \in Ops
  /\ req[r].pc = "idle"
  /\ \E a \in Rows : allocation[a].node = n /\ allocation[a].server = None
  /\ allocation' = [a \in Allocs |->
       IF a \in Rows /\ allocation[a].node = n /\ allocation[a].server = None
       THEN None ELSE allocation[a]]
  /\ UNCHANGED <<nodes, users, server, issuedS, issuedA, req>>

-----------------------------------------------------------------------------
(* Nodes and users                                                         *)

\* NodesController.delete calls NodesService.delete at once.
StartNodeDelete(r, n) ==
  /\ "node_delete" \in Ops
  /\ req[r].pc = "idle"
  /\ n \in nodes
  /\ req' = [req EXCEPT ![r] = [Idle EXCEPT !.pc = "n_remove", !.n = n]]
  /\ UNCHANGED <<nodes, users, server, allocation, issuedS, issuedA>>

\* AdminNodesController.delete counts the servers of the node first.
StartAdminNodeDelete(r, n) ==
  /\ "admin_node_delete" \in Ops
  /\ req[r].pc = "idle"
  /\ OnNode(n) = {}
  /\ req' = [req EXCEPT ![r] = [Idle EXCEPT !.pc = "n_read", !.n = n]]
  /\ UNCHANGED <<nodes, users, server, allocation, issuedS, issuedA>>

ReadNode(r) ==
  /\ req[r].pc = "n_read"
  /\ IF req[r].n \in nodes THEN Goto(r, "n_remove") ELSE Finish(r)
  /\ UNCHANGED <<nodes, users, server, allocation, issuedS, issuedA>>

\* DELETE FROM nodes: servers and allocations of the node go with it.
RemoveNode(r) ==
  /\ req[r].pc = "n_remove"
  /\ LET S == OnNode(req[r].n)
         A == {a \in Rows : allocation[a].node = req[r].n}
     IN IF Unreferenced(S, A)
        THEN /\ nodes' = nodes \ {req[r].n}
             /\ server' = [s \in Servers |-> IF s \in S THEN None ELSE server[s]]
             /\ allocation' = [a \in Allocs |-> IF a \in A THEN None ELSE allocation[a]]
        ELSE UNCHANGED <<nodes, server, allocation>>
  /\ Finish(r)
  /\ UNCHANGED <<users, issuedS, issuedA>>

\* UsersService.delete removes the user it has read.
StartUserDelete(r, u) ==
  /\ "user_delete" \in Ops
  /\ req[r].pc = "idle"
  /\ u \in users
  /\ req' = [req EXCEPT ![r] = [Idle EXCEPT !.pc = "v_remove", !.u = u]]
  /\ UNCHANGED <<nodes, users, server, allocation, issuedS, issuedA>>

\* AdminUsersController.delete reads the user, then counts its servers.
StartAdminUserDelete(r, u) ==
  /\ "admin_user_delete" \in Ops
  /\ req[r].pc = "idle"
  /\ u \in users
  /\ req' = [req EXCEPT ![r] = [Idle EXCEPT !.pc = "v_count", !.u = u]]
  /\ UNCHANGED <<nodes, users, server, allocation, issuedS, issuedA>>

CountServers(r) ==
  /\ req[r].pc = "v_count"
  /\ IF OwnedBy(req[r].u) = {} THEN Goto(r, "v_remove") ELSE Finish(r)
  /\ UNCHANGED <<nodes, users, server, allocation, issuedS, issuedA>>

\* DELETE FROM users: the user's servers go with it, unless an allocation still
\* references one of them.
RemoveUser(r) ==
  /\ req[r].pc = "v_remove"
  /\ LET S == OwnedBy(req[r].u)
     IN IF Unreferenced(S, {})
        THEN /\ users' = users \ {req[r].u}
             /\ server' = [s \in Servers |-> IF s \in S THEN None ELSE server[s]]
        ELSE UNCHANGED <<users, server>>
  /\ Finish(r)
  /\ UNCHANGED <<nodes, allocation, issuedS, issuedA>>

-----------------------------------------------------------------------------
\* The connection to the database fails: the handler throws where it is, and
\* what it has written stays.
DatabaseError(r) ==
  /\ "db_error" \in Ops
  /\ req[r].pc # "idle"
  /\ Finish(r)
  /\ UNCHANGED <<nodes, users, server, allocation, issuedS, issuedA>>

CreateServer(r) ==
  \/ \E n \in Nodes, a \in Allocs, u \in Users, m \in Memories :
       StartCreate(r, n, a, u, m)
  \/ ReadAllocation(r)
  \/ ReadUser(r)
  \/ ReadCapacity(r)
  \/ CreateAbort(r)
  \/ Commit(r)
  \/ Rollback(r)

UpdateServer(r) ==
  \/ \E s \in Servers, m \in Memories : StartUpdate(r, s, m)
  \/ SaveUpdate(r)
  \/ SaveUpdateFails(r)

DeleteServer(r) ==
  \/ \E s \in Servers : StartDelete(r, s)
  \/ FreeAllocation(r)
  \/ RemoveServer(r)

ManageAllocations(r) ==
  \/ \E n \in Nodes, lo, hi \in Ports : StartAllocCreate(r, n, lo, hi)
  \/ \E n \in Nodes, lo, hi \in Ports : StartAdminAllocCreate(r, n, lo, hi)
  \/ ScanPort(r)
  \/ SaveAllocations(r)
  \/ SaveAllocationsFails(r)
  \/ \E a \in Allocs : StartAllocDelete(r, a)
  \/ RemoveAllocation(r)
  \/ \E n \in Nodes : BulkDelete(r, n)

DeleteNode(r) ==
  \/ \E n \in Nodes : StartNodeDelete(r, n)
  \/ \E n \in Nodes : StartAdminNodeDelete(r, n)
  \/ ReadNode(r)
  \/ RemoveNode(r)

DeleteUser(r) ==
  \/ \E u \in Users : StartUserDelete(r, u)
  \/ \E u \in Users : StartAdminUserDelete(r, u)
  \/ CountServers(r)
  \/ RemoveUser(r)

Next ==
  \E r \in Requests :
    \/ CreateServer(r)
    \/ UpdateServer(r)
    \/ DeleteServer(r)
    \/ ManageAllocations(r)
    \/ DeleteNode(r)
    \/ DeleteUser(r)
    \/ DatabaseError(r)

Spec == Init /\ [][Next]_vars

-----------------------------------------------------------------------------
(* Properties                                                              *)

\* Every table and every request in progress holds values of its columns' types,
\* and identifiers that exist were given out.
TypeOK ==
  /\ nodes \subseteq Nodes
  /\ users \subseteq Users
  /\ server \in [Servers -> ServerRow \cup {None}]
  /\ allocation \in [Allocs -> AllocRow \cup {None}]
  /\ issuedS \subseteq Servers
  /\ issuedA \subseteq Allocs
  /\ req \in [Requests -> Request]

\* The two sides of the server-allocation relation are written by different
\* statements of different handlers, most of them from stale reads.  Whatever the
\* interleaving: an allocation that names a server names one that exists, that
\* names it back in allocationId, and that lives on the allocation's node.
OwnerConsistent ==
  \A a \in Rows : allocation[a].server # None =>
    /\ allocation[a].server \in Live
    /\ server[allocation[a].server].alloc = a
    /\ server[allocation[a].server].node = allocation[a].node

\* The transaction of create assigns the allocation without looking at it again,
\* and update writes back the relation it loaded.  Still no step hands an
\* allocation that one server holds to another server.
AllocationNeverStolen ==
  [][\A a \in Rows :
       (allocation[a].server # None /\ allocation'[a] # None)
         => allocation'[a].server \in {None, allocation[a].server}]_vars

\* The server each allocation is held by, according to the table.
Owner == [a \in Allocs |-> IF allocation[a] = None THEN None ELSE allocation[a].server]

Abstract == INSTANCE Ownership WITH owner <- Owner

\* The handlers, with everything stale they write back, implement Ownership: one step hands
\* out at most one allocation, from free to a server that holds none, or releases some.
ImplementsOwnership == Abstract!Spec

\* What the properties above rest on.  The rows that exist were given their
\* identifier; no two servers claim one allocation; and what a create or an update
\* still carries from its reads agrees with the rows it will write, if they exist.
UniqueAllocation == \A s, t \in Live : server[s].alloc = server[t].alloc => s = t

RowsIssued == Live \subseteq issuedS /\ Rows \subseteq issuedA

CreateLocals(r) ==
  /\ req[r].pc \in {"c_alloc", "c_user", "c_capacity", "c_commit"} => req[r].a \in Allocs
  /\ req[r].pc \in {"c_user", "c_capacity", "c_commit"} =>
       /\ req[r].a \in issuedA
       /\ req[r].a \in Rows => allocation[req[r].a].node = req[r].n

UpdateLocals(r) ==
  req[r].pc = "u_save" =>
    /\ req[r].s \in issuedS
    /\ req[r].a \in Allocs
    /\ req[r].n \in Nodes
    /\ req[r].u \in Users
    /\ req[r].s \in Live => /\ server[req[r].s].alloc = req[r].a
                           /\ server[req[r].s].node = req[r].n
    /\ req[r].rel # None =>
         /\ req[r].rel = req[r].a
         /\ req[r].a \in issuedA
         /\ req[r].a \in Rows => allocation[req[r].a].node = req[r].n

UpdatesAgree(r, q) ==
  (req[r].pc = "u_save" /\ req[q].pc = "u_save" /\ req[r].s = req[q].s)
    => (req[r].a = req[q].a /\ req[r].n = req[q].n)

\* The inductive invariant: the type invariant, the consistency of the relation, and
\* the facts about stale reads that keep it.
IndInv ==
  /\ TypeOK
  /\ OwnerConsistent
  /\ UniqueAllocation
  /\ RowsIssued
  /\ \A r \in Requests : CreateLocals(r) /\ UpdateLocals(r)
  /\ \A r, q \in Requests : UpdatesAgree(r, q)

\* Every server is reachable from its allocation (findByUuid loads the port from
\* there), which is on the server's node: what create must leave behind.
ServersBound ==
  \A s \in Live :
    /\ server[s].alloc \in Rows
    /\ allocation[server[s].alloc].server = s
    /\ allocation[server[s].alloc].node = server[s].node

\* When this holds: nobody updates or deletes servers, and allocations go only with their
\* node.  (A deletion of a server, or of an allocation that a create has read, may leave
\* a server without a row to be found by.)
NothingReleased == Ops \cap {"update", "delete", "alloc_delete", "bulk_delete"} = {}

\* Why: the row that a create has read stays for as long as its node, without which the
\* INSERT fails, and no handler is in progress that frees or removes a row by itself.
BoundInv ==
  /\ NothingReleased
  /\ IndInv
  /\ ServersBound
  /\ \A r \in Requests :
       /\ req[r].pc \notin {"u_save", "d_free", "d_remove", "x_remove"}
       /\ req[r].pc \in {"c_user", "c_capacity", "c_commit"} /\ req[r].n \in nodes =>
            req[r].a \in Rows

\* Deleting a user never takes a server with it: the administrator's handler counts
\* the servers first, and a server created after the count is protected by the
\* allocation that references it.
UserDeletionSparesServers ==
  [][users' # users => \A s \in Live : server'[s] # None]_vars
=============================================================================
