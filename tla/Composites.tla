----------------------------- MODULE Composites -----------------------------
(***************************************************************************)
(* The rows of the Panel that own other rows: a schedule and its tasks, an *)
(* egg and its variables.  Both are updated by deleting the owned rows and *)
(* saving new ones, in statements that do not share a transaction.  The    *)
(* save of TypeORM is two of them: a SELECT of the row, with the tasks of  *)
(* a schedule, and a transaction that writes what differs from it.  Tasks  *)
(* it has found and the entity has not lose their schedule, which the      *)
(* column does not allow: the save fails.  The variables of an egg are     *)
(* saved on their own.                                                     *)
(*                                                                         *)
(* The rows one request writes for an owner are one batch, numbered;       *)
(* children[o] is the set of the batches that owner o has rows of.         *)
(***************************************************************************)
EXTENDS Naturals, FiniteSets

CONSTANTS
  Requests,   \* requests that may run at a time
  Ids,        \* primary keys of owners
  MaxBatch,   \* bound: batches written
  None,
  Gone        \* stands for a row that does not exist

ASSUME CompositesAssumption ==
  /\ MaxBatch \in Nat
  /\ None \notin Ids /\ Gone \notin Ids /\ None # Gone
  /\ \A rows \in SUBSET (1 .. MaxBatch) : rows # None

VARIABLES
  kind,       \* "schedule" or "egg"
  owners,     \* the owner rows: the egg whose script is copied, or None; Gone if no row
  server,     \* the server the schedules belong to exists
  children,   \* the batches of owned rows, by owner
  req,        \* the requests in progress
  batch,      \* batches so far
  wanted,     \* history: the owned rows the requests that succeeded asked for
  raced,      \* history: owners written while another request held a copy
  crossed,    \* history: schedules given tasks between the SELECT and the write of another save
  broken      \* history: owners of which a request failed half-way

compositeVars == <<kind, owners, server, children, req, batch, wanted, raced, crossed, broken>>

\* The columns that matter: of a schedule none, of an egg the one it copies its script from.
Schedule == {None, Gone}
Egg == Ids \cup {None, Gone}
Tasks == SUBSET (1 .. MaxBatch)
EggVariables == SUBSET (1 .. MaxBatch)

Present == {o \in Ids : owners[o] # Gone}
Idle == [op |-> "none", pc |-> "idle", id |-> None, copy |-> None,
         loaded |-> {}, dto |-> None, seen |-> None, rows |-> {}]

Init ==
  /\ kind \in {"schedule", "egg"}
  /\ owners = [o \in Ids |-> Gone]
  /\ server = TRUE
  /\ children = [o \in Ids |-> {}]
  /\ req = [r \in Requests |-> Idle]
  /\ batch = 0
  /\ wanted = [o \in Ids |-> {}]
  /\ raced = {}
  /\ crossed = {}
  /\ broken = {}

At(r, ops, pc) == req[r].op \in ops /\ req[r].pc = pc
Goto(r, pc) == req' = [req EXCEPT ![r].pc = pc]
Finish(r) == req' = [req EXCEPT ![r] = Idle]
Holding(r, o) == \E q \in Requests \ {r} : req[q].id = o
Wrote(r, o) == raced' = IF Holding(r, o) THEN raced \cup {o} ELSE raced

\* A request that has deleted the owned rows, or not yet written them, and is to save its own.
Emptied(q) ==
  q.dto # None /\ q.pc \in (IF kind = "schedule" THEN {"select", "write"} ELSE {"save"})

\* The SELECT of save, before its transaction, finds the row or not, and the tasks of a
\* schedule; Gone stands for a column of an egg that does not differ and is not written.
SelectSaved(r) ==
  LET o == req[r].id
  IN  /\ At(r, {"update", "execute"}, "select")
      /\ req' = [req EXCEPT
           ![r].pc = "write",
           ![r].seen = IF o \in Present THEN None ELSE Gone,
           ![r].copy = IF kind = "egg" /\ @ = owners[o] THEN Gone ELSE @,
           ![r].rows = IF kind = "schedule" THEN children[o] ELSE {}]
      /\ UNCHANGED <<kind, owners, server, children, batch, wanted, raced, crossed, broken>>

\* The rows a request carries: none, or a batch of its own.
Batches == {b \in {0, batch + 1} : b <= MaxBatch}
Rows(b) == IF b = 0 THEN {} ELSE {b}
Number(b) == batch' = IF b = 0 THEN batch ELSE b

\* The bodies: the tasks of a schedule, and the columns and variables of an egg.  An update
\* may leave out the rows it owns, and then carries Omitted; a body that is imported is not validated.
Omitted == MaxBatch + 1
CreateScheduleDto == Batches
UpdateScheduleDto == Batches \cup {Omitted}
CreateEggDto == [copy : Present \cup {None}, rows : Batches]
UpdateEggDto == [copy : Present \cup {None, Gone}, rows : Batches \cup {Omitted}]
ImportedEgg == [copy : Present \cup {None}, rows : Batches]

-----------------------------------------------------------------------------
(* Schedules                                                               *)

\* Mutant: the tasks are saved through their own repository.
WriteScheduleLoose(o, tasks, q) ==
  /\ IF q.seen = Gone THEN server /\ o \notin Present ELSE tasks \subseteq q.rows \/ o \in Present
  /\ (tasks \ q.rows) \cap children[o] = {}
  /\ owners' = IF q.seen = Gone THEN [owners EXCEPT ![o] = None] ELSE owners
  /\ children' = [children EXCEPT ![o] = @ \cup (tasks \ q.rows)]

\* The transaction of a save that has found q.seen and q.rows.  A schedule it has not found
\* is inserted, and the tasks it has not found are: they need their schedule, and keys that
\* are free.  A task that was found and is not the entity's fails it, if it is still there.
WriteSchedule(o, tasks, q) ==
  /\ IF q.seen = Gone THEN server /\ o \notin Present ELSE tasks \subseteq q.rows \/ o \in Present
  /\ (tasks \ q.rows) \cap children[o] = {} /\ (q.rows \ tasks) \cap children[o] = {}
  /\ owners' = IF q.seen = Gone THEN [owners EXCEPT ![o] = None] ELSE owners
  /\ children' = [children EXCEPT ![o] = @ \cup (tasks \ q.rows)]

\* create: neither the schedule nor its tasks have a key to look for.
CreateSchedule(r) ==
  /\ kind = "schedule" /\ req[r] = Idle
  /\ \E o \in Ids \ (Present \cup raced \cup broken), b \in CreateScheduleDto :
       /\ ~Holding(r, o)
       /\ Number(b)
       /\ server
       /\ owners' = [owners EXCEPT ![o] = None]
       /\ children' = [children EXCEPT ![o] = Rows(b)]
       /\ wanted' = [wanted EXCEPT ![o] = Rows(b)]
  /\ UNCHANGED <<kind, server, req, raced, crossed, broken>>

\* findById loads the schedule with its tasks.
FindSchedule(r, op, o) ==
  /\ kind = "schedule" /\ req[r] = Idle
  /\ req' = [req EXCEPT ![r] =
       [Idle EXCEPT !.op = op, !.pc = IF op = "delete" THEN "remove" ELSE "select", !.id = o,
                    !.loaded = children[o]]]
  /\ UNCHANGED <<kind, owners, server, children, batch, wanted, raced, crossed, broken>>

\* With tasks in the body, those that were loaded are not used.
UpdateSchedule(r) ==
  /\ kind = "schedule" /\ req[r] = Idle
  /\ \E o \in Present, b \in UpdateScheduleDto :
       IF b = Omitted THEN FindSchedule(r, "update", o)
       ELSE /\ Number(b)
            /\ req' = [req EXCEPT ![r] = [Idle EXCEPT !.op = "update", !.pc = "clear",
                                                      !.id = o, !.dto = Rows(b)]]
            /\ UNCHANGED <<kind, owners, server, children, wanted, raced, crossed, broken>>

ExecuteSchedule(r) == \E o \in Present : FindSchedule(r, "execute", o)
DeleteSchedule(r) == \E o \in Present : FindSchedule(r, "delete", o)

\* update with tasks: the old ones are deleted first.
DeleteTasks(r) ==
  /\ kind = "schedule" /\ At(r, {"update"}, "clear")
  /\ children' = [children EXCEPT ![req[r].id] = {}]
  /\ Wrote(r, req[r].id)
  /\ Goto(r, "select")
  /\ UNCHANGED <<kind, owners, server, batch, wanted, crossed, broken>>

\* update and executeSchedule save the entity they loaded, update with its new tasks.
SaveLoaded(r) ==
  LET o == req[r].id
      tasks == IF req[r].dto = None THEN req[r].loaded ELSE req[r].dto
  IN  /\ kind = "schedule" /\ At(r, {"update", "execute"}, "write")
      /\ WriteSchedule(o, tasks, req[r])
      /\ wanted' = IF req[r].dto = None THEN wanted ELSE [wanted EXCEPT ![o] = tasks]
      /\ Wrote(r, o)
      /\ crossed' = IF \E q \in Requests \ {r} : req[q].id = o /\ req[q].pc = "write"
                    THEN crossed \cup {o} ELSE crossed
      /\ Finish(r)
      /\ UNCHANGED <<kind, server, batch, broken>>

\* The server is deleted and its schedules with it.
DeleteServer ==
  /\ kind = "schedule" /\ server
  /\ server' = FALSE
  /\ owners' = [o \in Ids |-> Gone]
  /\ children' = [o \in Ids |-> {}]
  /\ wanted' = [o \in Ids |-> {}]
  /\ raced' = raced \cup {o \in Ids : \E r \in Requests : req[r].id = o}
  /\ UNCHANGED <<kind, req, batch, crossed, broken>>

-----------------------------------------------------------------------------
(* Eggs; that their nest is in its table is taken as given                 *)

\* The egg is saved, and then its variables.
SaveNewEgg(r, dto) ==
  /\ kind = "egg" /\ req[r] = Idle
  /\ \E o \in Ids \ (Present \cup raced \cup broken) :
       /\ ~Holding(r, o)
       /\ Number(dto.rows)
       /\ owners' = [owners EXCEPT ![o] = dto.copy]
       /\ wanted' = [wanted EXCEPT ![o] = Rows(dto.rows)]
       /\ IF dto.rows = 0 THEN UNCHANGED req
          ELSE req' = [req EXCEPT ![r] = [Idle EXCEPT !.op = "create", !.pc = "save",
                                                      !.id = o, !.dto = Rows(dto.rows)]]
  /\ UNCHANGED <<kind, server, children, raced, crossed, broken>>

CreateEgg(r) == \E dto \in CreateEggDto : SaveNewEgg(r, dto)
ImportEgg(r) == \E dto \in ImportedEgg : SaveNewEgg(r, dto)

\* The egg is loaded without its variables.  Gone is a copyScriptFrom that is left out.
UpdateEgg(r) ==
  /\ kind = "egg" /\ req[r] = Idle
  /\ \E o \in Present, dto \in UpdateEggDto :
       /\ dto.rows # Omitted => dto.copy = Gone   \* bound: one of the two in a request
       /\ IF dto.rows = Omitted THEN UNCHANGED batch ELSE Number(dto.rows)
       /\ req' = [req EXCEPT ![r] =
            [Idle EXCEPT !.op = "update", !.pc = "select", !.id = o,
                         !.copy = IF dto.copy = Gone THEN owners[o] ELSE dto.copy,
                         !.dto = IF dto.rows = Omitted THEN None ELSE Rows(dto.rows)]]
  /\ UNCHANGED <<kind, owners, server, children, wanted, raced, crossed, broken>>

DeleteEgg(r) ==
  /\ kind = "egg" /\ req[r] = Idle
  /\ \E o \in Present :
       req' = [req EXCEPT ![r] = [Idle EXCEPT !.op = "delete", !.pc = "remove", !.id = o]]
  /\ UNCHANGED <<kind, owners, server, children, batch, wanted, raced, crossed, broken>>

\* The egg's own columns are saved: an egg the SELECT has not found is inserted again, one
\* it has found is given the column that differs, if it is still there.
SaveEgg(r) ==
  LET o == req[r].id
      copy == IF req[r].copy # Gone /\ (req[r].seen = Gone \/ o \in Present)
              THEN req[r].copy ELSE owners[o]
  IN  /\ kind = "egg" /\ At(r, {"update"}, "write")
      /\ req[r].seen = Gone => o \notin Present
      /\ copy \in {owners[o], None} \cup Present \cup {o}
      /\ owners' = [owners EXCEPT ![o] = copy]
      /\ Wrote(r, o)
      /\ IF req[r].dto = None THEN Finish(r)
         ELSE req' = [req EXCEPT ![r].pc = "clear", ![r].copy = None, ![r].seen = None]
      /\ UNCHANGED <<kind, server, children, batch, wanted, crossed, broken>>

\* Mutant: an empty list of variables is taken for no list.
DeleteVariablesIfAny(r) ==
  /\ kind = "egg" /\ At(r, {"update"}, "clear")
  /\ children' = IF req[r].dto = {} THEN children ELSE [children EXCEPT ![req[r].id] = {}]
  /\ Wrote(r, req[r].id)
  /\ Goto(r, "save")
  /\ UNCHANGED <<kind, owners, server, batch, wanted, crossed, broken>>

DeleteVariables(r) ==
  /\ kind = "egg" /\ At(r, {"update"}, "clear")
  /\ children' = [children EXCEPT ![req[r].id] = {}]
  /\ Wrote(r, req[r].id)
  /\ Goto(r, "save")
  /\ UNCHANGED <<kind, owners, server, batch, wanted, crossed, broken>>

\* A variable needs its egg.
VariablesSaveable(o) == o \in Present

SaveVariables(r) ==
  LET o == req[r].id
  IN  /\ kind = "egg" /\ At(r, {"create", "update"}, "save")
      /\ VariablesSaveable(o)
      /\ children' = [children EXCEPT ![o] = @ \cup req[r].dto]
      /\ wanted' = [wanted EXCEPT ![o] = req[r].dto]
      /\ Wrote(r, o)
      /\ Finish(r)
      /\ UNCHANGED <<kind, owners, server, batch, crossed, broken>>

-----------------------------------------------------------------------------
\* remove: the owned rows go with the row.
Remove(r, o) ==
  /\ owners' = [owners EXCEPT ![o] = Gone]
  /\ children' = [children EXCEPT ![o] = {}]
  /\ wanted' = [wanted EXCEPT ![o] = {}]
  /\ Wrote(r, o)
  /\ Finish(r)
  /\ UNCHANGED <<kind, server, batch, crossed, broken>>

RemoveSchedule(r) == kind = "schedule" /\ At(r, {"delete"}, "remove") /\ Remove(r, req[r].id)

\* An egg another one copies from cannot go.
RemoveEgg(r) ==
  /\ kind = "egg" /\ At(r, {"delete"}, "remove")
  /\ \A p \in Present \ {req[r].id} : owners[p] # req[r].id
  /\ Remove(r, req[r].id)

\* The next statement of a request fails; what it has already written stays.
Fail(r) ==
  /\ req[r] # Idle
  /\ broken' = IF Emptied(req[r]) THEN broken \cup {req[r].id} ELSE broken
  /\ Finish(r)
  /\ UNCHANGED <<kind, owners, server, children, batch, wanted, raced, crossed>>

Next ==
  \/ \E r \in Requests :
       \/ CreateSchedule(r) \/ UpdateSchedule(r) \/ ExecuteSchedule(r) \/ DeleteSchedule(r)
       \/ SelectSaved(r) \/ DeleteTasks(r) \/ SaveLoaded(r) \/ RemoveSchedule(r)
       \/ CreateEgg(r) \/ ImportEgg(r) \/ UpdateEgg(r) \/ DeleteEgg(r)
       \/ SaveEgg(r) \/ DeleteVariables(r) \/ SaveVariables(r) \/ RemoveEgg(r)
       \/ Fail(r)
  \/ DeleteServer

Spec == Init /\ [][Next]_compositeVars

-----------------------------------------------------------------------------
TypeOK ==
  /\ kind \in {"schedule", "egg"}
  /\ owners \in [Ids -> IF kind = "schedule" THEN Schedule ELSE Egg]
  /\ server \in BOOLEAN
  /\ children \in [Ids -> IF kind = "schedule" THEN Tasks ELSE EggVariables]
  /\ \A r \in Requests :
       /\ req[r].op \in {"none", "create", "update", "execute", "delete"}
       /\ req[r].pc \in {"idle", "clear", "select", "write", "save", "remove"}
       /\ req[r].id \in Ids \cup {None} /\ req[r].copy \in Ids \cup {None, Gone}
       /\ req[r].loaded \subseteq 1 .. MaxBatch /\ req[r].rows \subseteq 1 .. MaxBatch
       /\ req[r].seen \in {None, Gone}
       /\ req[r].dto = None \/ req[r].dto \subseteq 1 .. MaxBatch
  /\ batch \in 0 .. MaxBatch
  /\ wanted \in [Ids -> SUBSET (1 .. MaxBatch)]
  /\ raced \subseteq Ids /\ crossed \subseteq Ids /\ broken \subseteq Ids

\* The tasks of a schedule were all written by one request, however updates, executions
\* and deletions with older copies of it interleave and fail: the save that finds tasks
\* beside its own fails.  Only a save that wrote between the SELECT and the write of another
\* may leave two batches.  The variables of an egg have no such check, and are of one
\* request unless two wrote the egg at a time.
OneBatch ==
  \A o \in Ids \ (IF kind = "schedule" THEN crossed ELSE raced) : Cardinality(children[o]) <= 1

\* Tasks and variables never outlive their schedule or egg.
ChildrenOwned == \A o \in Ids : children[o] # {} => o \in Present

\* The tasks or variables are those of the last request that succeeded, of an owner that
\* was not written while another request held a copy of it.  They are missing only while a
\* request is between deleting and saving them, or after it failed there.
LastUpdateKept ==
  \A o \in Ids \ raced :
    \/ children[o] = wanted[o]
    \/ /\ children[o] = {}
       /\ \/ o \in broken
          \/ \E r \in Requests : req[r].id = o /\ Emptied(req[r])

\* Why: a request carries one batch, and what a request has loaded or selected of a schedule,
\* or found cleared of an egg, is still so unless somebody else has written the row since; and
\* what a save has selected of a schedule is all there is until another save adds to it.
OneRow(batches) == batches = {} \/ \E b \in batches : batches = {b}

Request == [op : {"none", "create", "update", "execute", "delete"},
            pc : {"idle", "clear", "select", "write", "save", "remove"},
            id : Ids \cup {None}, copy : Ids \cup {None, Gone},
            loaded : SUBSET (1 .. MaxBatch), dto : {None} \cup SUBSET (1 .. MaxBatch),
            seen : {None, Gone}, rows : SUBSET (1 .. MaxBatch)]

Sound(q) ==
  /\ q # Idle => q.pc # "idle" /\ q.id \in Ids
  /\ q.dto # None => OneRow(q.dto)
  /\ q.pc = "clear" => q.dto # None
  /\ q.op \in {"delete", "execute"} => q.dto = None
  /\ kind = "schedule" /\ q.id \notin crossed => OneRow(q.loaded)
  /\ q.pc = "save" => kind = "egg" /\ q.dto # None
  /\ q.pc = "save" /\ q.id \notin raced => children[q.id] = {}
  /\ kind = "schedule" /\ q.pc \in {"select", "write"} /\ q.id \notin raced =>
       /\ q.dto = None => q.loaded = children[q.id]
       /\ q.pc = "write" => q.rows = children[q.id] /\ q.seen = owners[q.id]
  /\ kind = "schedule" /\ q.pc = "write" /\ q.id \notin crossed => children[q.id] \subseteq q.rows

CompositeInv ==
  /\ TypeOK /\ ChildrenOwned /\ LastUpdateKept
  /\ req \in [Requests -> Request]
  /\ \A o \in Ids \ (IF kind = "schedule" THEN crossed ELSE raced) : OneRow(children[o])
  /\ \A r \in Requests : Sound(req[r])
=============================================================================
