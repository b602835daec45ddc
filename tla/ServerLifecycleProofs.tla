----------------------- MODULE ServerLifecycleProofs -----------------------
(***************************************************************************)
(* For any number of requests, any operations and any faults: a server is  *)
(* ready or installed only if one of its install scripts has succeeded, if *)
(* a suspension was lifted, or if Docker cut a wait short, which the code  *)
(* takes for a success (ReadyNeedsSuccess).                                *)
(*                                                                         *)
(* The property is not inductive.  An update writes back the status it has *)
(* read, so what it carries must have been earned as well; and a success   *)
(* is remembered in the task of the request that started it, so a request  *)
(* must not start a second task over the first.  ReadyInv adds the two.    *)
(* Every step but a restart of Wings belongs to one request; StepOf says   *)
(* what it does to the invariant, and each action is shown to be such a    *)
(* step.                                                                   *)
(*                                                                         *)
(* And, where the Panel guards the creation, a container never exists      *)
(* without the configuration Wings would create it again from              *)
(* (ContainerRecoverable).  RecoverInv says what the creation relies on    *)
(* while its call is out, and why the per-server mutex is enough after it. *)
(***************************************************************************)
EXTENDS ServerLifecycle, FiniteSetTheorems, TLAPS

\* What a step of request r (of its handler, its call or its task) does to the parts of
\* the invariant: others keep what they have, and what the row and an update in
\* progress claim afterwards was earned before.
StepOf(r) ==
  /\ \A q \in Requests \ {r} :
       req'[q] = req[q] /\ rpc'[q].pc = rpc[q].pc /\ task'[q] = task[q]
  /\ task[r].result \in {"success", "assumed"} => task'[r].result = task[r].result
  /\ req[r].op = "unsuspend" => req'[r].op = "unsuspend"
  /\ Live' => Earned(row')
  /\ req'[r].pc = "new" => req'[r].op = None
  /\ req'[r].pc \in {"new", "write"} => rpc'[r].pc = "none"
  /\ rpc'[r].pc \in {"none", "sent", "pulling"} => task'[r] = NoTask
  /\ task'[r].pc \in {"pull", "remove", "create", "run"} => task'[r].result = "none"
  /\ task'[r].pc = "post" => task'[r].result \in {"success", "assumed"}
  /\ task'[r].result = "assumed" => "docker" \in Faults
  /\ (req'[r].op = "update" /\ req'[r].pc = "write") => Earned(req'[r].loaded)

\* Such a step keeps the invariant.
LEMMA StepKeeps ==
  ASSUME ReadyInv, TypeOK', NEW r \in Requests, StepOf(r)
  PROVE  ReadyInv'
<1>1. Succeeded => Succeeded'
  BY DEF StepOf, Succeeded
<1>2. Lifted => Lifted'
  BY DEF StepOf, Lifted
<1>3. ReadyNeedsSuccess'
  BY <1>1, <1>2 DEF StepOf, ReadyNeedsSuccess, Earned
<1>4. ASSUME NEW q \in Requests
      PROVE  /\ req'[q].pc = "new" => req'[q].op = None
             /\ req'[q].pc \in {"new", "write"} => rpc'[q].pc = "none"
             /\ rpc'[q].pc \in {"none", "sent", "pulling"} => task'[q] = NoTask
             /\ task'[q].pc \in {"pull", "remove", "create", "run"} => task'[q].result = "none"
             /\ task'[q].pc = "post" => task'[q].result \in {"success", "assumed"}
             /\ task'[q].result = "assumed" => "docker" \in Faults
             /\ (req'[q].op = "update" /\ req'[q].pc = "write") => Earned(req[q].loaded)'
  <2>1. CASE q = r
    BY <1>1, <1>2, <2>1 DEF StepOf, Earned
  <2>2. CASE q # r
    BY <1>1, <1>2, <2>2 DEF StepOf, Earned, ReadyInv
  <2> QED
    BY <2>1, <2>2
<1> QED
  BY <1>3, <1>4 DEF ReadyInv

-----------------------------------------------------------------------------
\* The pieces the handlers are made of keep the types: a request that moves on,
LEMMA AskType ==
  ASSUME TypeOK, NEW r \in Requests, NEW op \in OpKinds,
         NEW pc \in {"new", "wait", "write", "done"}, Ask(r, op, pc)
  PROVE  req' \in [Requests -> Req]
BY DEF TypeOK, Ask, Req, NoRow, Row, Status

\* that calls Wings,
LEMMA CallType ==
  ASSUME TypeOK, NEW r \in Requests, NEW op \in OpKinds, Call(r, op)
  PROVE  req' \in [Requests -> Req] /\ rpc' \in [Requests -> Rpc]
BY AskType DEF TypeOK, Call, Rpc

\* that is done,
LEMMA DoneType ==
  ASSUME TypeOK, NEW r \in Requests, Done(r)
  PROVE  req' \in [Requests -> Req]
BY DEF TypeOK, Done, Req

\* a call that is answered,
LEMMA AnswerType ==
  ASSUME TypeOK, NEW r \in Requests, NEW a \in {"ok", "err"}, Answer(r, a)
  PROVE  rpc' \in [Requests -> Rpc]
BY DEF TypeOK, Answer, Rpc

\* a call that pulls an image,
LEMMA PullType ==
  ASSUME TypeOK, NEW r \in Requests, NEW v \in Volumes, Pull(r, v)
  PROVE  rpc' \in [Requests -> Rpc]
BY DEF TypeOK, Pull, Rpc

\* a task that starts,
LEMMA SpawnType ==
  ASSUME TypeOK, NEW r \in Requests, NEW v \in Volumes \cup {None}, Spawn(r, v)
  PROVE  task' \in [Requests -> Task]
BY DEF TypeOK, Spawn, Task, NoTask, TaskPc

\* a task that moves on,
LEMMA TaskToType ==
  ASSUME TypeOK, NEW r \in Requests, NEW pc \in TaskPc, TaskTo(r, pc)
  PROVE  task' \in [Requests -> Task]
BY DEF TypeOK, TaskTo, Task

\* and the UPDATE of a status.
LEMMA SetStatusType ==
  ASSUME TypeOK, NEW st \in Status, SetStatus(st)
  PROVE  row' \in Row
BY DEF TypeOK, SetStatus, Row

\* The mutexes that server_locks has held are numbered.
LEMMA DropLockType ==
  ASSUME TypeOK, NEW r \in Requests, DropLock(r)
  PROVE  mutex' \in [Requests -> Nat]
<1> DEFINE D == {d \in Requests : req[d].op = "delete" /\ rpc[d].pc = "ok"}
<1>1. Cardinality(D) \in Nat
  BY ConstantsAssumption, FS_Subset, FS_CardinalityType
<1> QED
  BY <1>1 DEF TypeOK, DropLock

-----------------------------------------------------------------------------
\* The first step of a request: what it reads, and the call it makes.
LEMMA RequestKeeps ==
  ASSUME ReadyInv, NEW r \in Requests, Request(r)
  PROVE  ReadyInv'
<1> USE DEF ReadyInv
<1>0. req[r].pc = "new" => req[r].op # "unsuspend"
  BY ConstantsAssumption DEF OpKinds
<1>1. ASSUME Create(r) PROVE ReadyInv'
  <2>1. TypeOK'
    BY <1>1, CallType DEF TypeOK, wings, OpKinds, Create, Row, Status
  <2>2. StepOf(r)
    BY <1>1, <1>0 DEF ReadyNeedsSuccess, Earned, StepOf, TypeOK, Live, wings, Req, Rpc,
       Create, Call, Ask
  <2> QED
    BY <2>1, <2>2, StepKeeps
<1>2. ASSUME Update(r) PROVE ReadyInv'
  <2>1. TypeOK'
    BY <1>2 DEF TypeOK, wings, OpKinds, Update, Req, RestPower, SocketPower
  <2>2. StepOf(r)
    BY <1>2, <1>0 DEF ReadyNeedsSuccess, Earned, StepOf, TypeOK, Live, wings, Req, Rpc,
       Update, Row
  <2> QED
    BY <2>1, <2>2, StepKeeps
<1>3. ASSUME Suspend(r) PROVE ReadyInv'
  <2>1. TypeOK'
    BY <1>3, CallType, AskType DEF TypeOK, wings, OpKinds, Suspend, Reject
  <2>2. StepOf(r)
    BY <1>3, <1>0 DEF ReadyNeedsSuccess, Earned, StepOf, TypeOK, Live, wings, Req, Rpc,
       Suspend, Call, Ask, Reject
  <2> QED
    BY <2>1, <2>2, StepKeeps
<1>4. ASSUME Unsuspend(r) PROVE ReadyInv'
  <2>1. TypeOK'
    BY <1>4, AskType DEF TypeOK, wings, OpKinds, Unsuspend
  <2>2. StepOf(r)
    BY <1>4, <1>0 DEF ReadyNeedsSuccess, Earned, StepOf, TypeOK, Live, wings, Req, Rpc,
       Unsuspend, Ask
  <2> QED
    BY <2>1, <2>2, StepKeeps
<1>5. ASSUME Reinstall(r) PROVE ReadyInv'
  <2>1. TypeOK'
    BY <1>5, AskType DEF TypeOK, wings, OpKinds, Reinstall
  <2>2. StepOf(r)
    BY <1>5, <1>0 DEF ReadyNeedsSuccess, Earned, StepOf, TypeOK, Live, wings, Req, Rpc,
       Reinstall, Ask
  <2> QED
    BY <2>1, <2>2, StepKeeps
<1>6. ASSUME Delete(r) PROVE ReadyInv'
  <2>1. TypeOK'
    BY <1>6, CallType DEF TypeOK, wings, OpKinds, Delete
  <2>2. StepOf(r)
    BY <1>6, <1>0 DEF ReadyNeedsSuccess, Earned, StepOf, TypeOK, Live, wings, Req, Rpc,
       Delete, Call, Ask
  <2> QED
    BY <2>1, <2>2, StepKeeps
<1>7. ASSUME NEW op \in RestPower, Power(r, op) PROVE ReadyInv'
  <2>1. TypeOK'
    BY <1>7, CallType, AskType DEF TypeOK, wings, OpKinds, Reject, Power
  <2>2. StepOf(r)
    BY <1>7, <1>0 DEF ReadyNeedsSuccess, Earned, StepOf, TypeOK, Live, wings, Req, Rpc,
       Power, RestPower, Call, Ask, Reject
  <2> QED
    BY <2>1, <2>2, StepKeeps
<1>8. ASSUME NEW op \in SocketPower, SocketPowerAction(r, op) PROVE ReadyInv'
  <2>1. TypeOK'
    BY <1>8, CallType DEF TypeOK, wings, OpKinds, SocketPowerAction
  <2>2. StepOf(r)
    BY <1>8, <1>0 DEF ReadyNeedsSuccess, Earned, StepOf, TypeOK, Live, wings, Req, Rpc,
       SocketPowerAction, SocketPower, Call, Ask
  <2> QED
    BY <2>1, <2>2, StepKeeps
<1> QED
  BY <1>1, <1>2, <1>3, <1>4, <1>5, <1>6, <1>7, <1>8 DEF Request

\* What a handler of the Panel writes after its read or its call.
LEMMA ContinueKeeps ==
  ASSUME ReadyInv, NEW r \in Requests, Continue(r) \/ Timeout(r)
  PROVE  ReadyInv'
<1> USE DEF ReadyInv
<1>1. ASSUME UpdateWrite(r) PROVE ReadyInv'
  <2>1. TypeOK'
    <3>1. req[r].loaded \in Row /\ NoRow \in Row
      BY DEF TypeOK, Req, Row, NoRow, Status
    <3>2. row' \in Row
      BY <1>1, <3>1 DEF TypeOK, UpdateWrite
    <3>3. req' \in [Requests -> Req]
      BY <1>1, <3>1 DEF TypeOK, UpdateWrite, Req
    <3> QED
      BY <1>1, <3>2, <3>3 DEF TypeOK, UpdateWrite, wings
  <2>2. StepOf(r)
    BY <1>1, ConstantsAssumption DEF ReadyNeedsSuccess, Earned, StepOf, TypeOK, Live,
       wings, Req, Rpc, UpdateWrite, Req, Row
  <2> QED
    BY <2>1, <2>2, StepKeeps
<1>2. ASSUME UnsuspendWrite(r) PROVE ReadyInv'
  <2>1. TypeOK'
    BY <1>2, DoneType, SetStatusType DEF TypeOK, wings, Status, UnsuspendWrite
  <2>2. StepOf(r)
    BY <1>2, ConstantsAssumption DEF ReadyNeedsSuccess, Earned, StepOf, TypeOK, Live,
       Lifted, wings, Req, Rpc, UnsuspendWrite, SetStatus, Done, Row
  <2> QED
    BY <2>1, <2>2, StepKeeps
<1>3. ASSUME ReinstallWrite(r) PROVE ReadyInv'
  <2>1. TypeOK'
    BY <1>3, CallType DEF TypeOK, wings, OpKinds, ReinstallWrite, Row
  <2>2. StepOf(r)
    BY <1>3, ConstantsAssumption DEF ReadyNeedsSuccess, Earned, StepOf, TypeOK, Live,
       wings, Req, Rpc, ReinstallWrite, Call, Ask, Row
  <2> QED
    BY <2>1, <2>2, StepKeeps
<1>4. ASSUME Reply(r) PROVE ReadyInv'
  <2>1. TypeOK'
    BY <1>4, DoneType, SetStatusType DEF TypeOK, wings, Status, Row, Reply, Resume
  <2>2. StepOf(r)
    BY <1>4, ConstantsAssumption DEF ReadyNeedsSuccess, Earned, StepOf, TypeOK, Live,
       wings, Req, Rpc, Row, Reply, Resume, SetStatus, Done
  <2> QED
    BY <2>1, <2>2, StepKeeps
<1>5. ASSUME Timeout(r) PROVE ReadyInv'
  <2>1. TypeOK'
    BY <1>5, DoneType, SetStatusType DEF TypeOK, wings, Status, Row, Timeout, Resume
  <2>2. StepOf(r)
    BY <1>5, ConstantsAssumption DEF ReadyNeedsSuccess, Earned, StepOf, TypeOK, Live,
       wings, Req, Rpc, Row, Timeout, Resume, SetStatus, Done
  <2> QED
    BY <2>1, <2>2, StepKeeps
<1> QED
  BY <1>1, <1>2, <1>3, <1>4, <1>5 DEF Continue

\* The handlers of Wings: none touches the row, and only a call that was still
\* open starts a task.
LEMMA HandleKeeps ==
  ASSUME ReadyInv, NEW r \in Requests, Handle(r) \/ Background(r) \/ Cancel(r)
  PROVE  ReadyInv'
<1> USE DEF ReadyInv
<1>1. ASSUME HandleCreate(r) PROVE ReadyInv'
  <2>1. TypeOK'
    BY <1>1, PullType DEF TypeOK, Volumes, HandleCreate
  <2>2. StepOf(r)
    BY <1>1, ConstantsAssumption DEF ReadyNeedsSuccess, Earned, StepOf, TypeOK, Live,
       Handling, Req, Rpc, Task, NoTask, HandleCreate, Pull
  <2> QED
    BY <2>1, <2>2, StepKeeps
<1>2. ASSUME CreateContainer(r) PROVE ReadyInv'
  <2>1. TypeOK'
    BY <1>2, AnswerType, SpawnType DEF TypeOK, Volumes, CreateContainer, Rpc
  <2>2. StepOf(r)
    BY <1>2, ConstantsAssumption DEF ReadyNeedsSuccess, Earned, StepOf, TypeOK, Live,
       Handling, Req, Rpc, Task, NoTask, CreateContainer, Answer, Spawn
  <2> QED
    BY <2>1, <2>2, StepKeeps
<1>3. ASSUME HandleStart(r) PROVE ReadyInv'
  <2>1. TypeOK'
    BY <1>3, AnswerType, PullType DEF TypeOK, Volumes, HandleStart
  <2>2. StepOf(r)
    BY <1>3, ConstantsAssumption DEF ReadyNeedsSuccess, Earned, StepOf, TypeOK, Live,
       Handling, Req, Rpc, Task, NoTask, HandleStart, Answer, Pull
  <2> QED
    BY <2>1, <2>2, StepKeeps
<1>4. ASSUME Recreate(r) PROVE ReadyInv'
  <2>1. TypeOK'
    BY <1>4, AnswerType DEF TypeOK, Volumes, Recreate, Rpc
  <2>2. StepOf(r)
    BY <1>4, ConstantsAssumption DEF ReadyNeedsSuccess, Earned, StepOf, TypeOK, Live,
       Handling, Req, Rpc, Task, NoTask, Recreate, Answer
  <2> QED
    BY <2>1, <2>2, StepKeeps
<1>5. ASSUME HandlePower(r) PROVE ReadyInv'
  <2>1. TypeOK'
    BY <1>5, AnswerType DEF TypeOK, Volumes, HandlePower
  <2>2. StepOf(r)
    BY <1>5, ConstantsAssumption DEF ReadyNeedsSuccess, Earned, StepOf, TypeOK, Live,
       Handling, Req, Rpc, Task, NoTask, HandlePower, Answer
  <2> QED
    BY <2>1, <2>2, StepKeeps
<1>6. ASSUME HandleDelete(r) PROVE ReadyInv'
  <2>1. TypeOK'
    BY <1>6, AnswerType, DropLockType DEF TypeOK, Volumes, HandleDelete
  <2>2. StepOf(r)
    BY <1>6, ConstantsAssumption DEF ReadyNeedsSuccess, Earned, StepOf, TypeOK, Live,
       Handling, Req, Rpc, Task, NoTask, HandleDelete, Answer
  <2> QED
    BY <2>1, <2>2, StepKeeps
<1>7. ASSUME HandleReinstall(r) PROVE ReadyInv'
  <2>1. TypeOK'
    BY <1>7, AnswerType, SpawnType DEF TypeOK, Volumes, HandleReinstall
  <2>2. StepOf(r)
    BY <1>7, ConstantsAssumption DEF ReadyNeedsSuccess, Earned, StepOf, TypeOK, Live,
       Handling, Req, Rpc, Task, NoTask, HandleReinstall, Answer, Spawn
  <2> QED
    BY <2>1, <2>2, StepKeeps
<1>8. ASSUME Background(r) PROVE ReadyInv'
  <2>1. TypeOK'
    BY <1>8 DEF TypeOK, Volumes, Background
  <2>2. StepOf(r)
    BY <1>8, ConstantsAssumption DEF ReadyNeedsSuccess, Earned, StepOf, TypeOK, Live,
       Handling, Req, Rpc, Task, NoTask, Background
  <2> QED
    BY <2>1, <2>2, StepKeeps
<1>9. ASSUME Cancel(r) PROVE ReadyInv'
  <2>1. TypeOK'
    BY <1>9, AnswerType DEF TypeOK, Volumes, Cancel, wings
  <2>2. StepOf(r)
    BY <1>9, ConstantsAssumption DEF ReadyNeedsSuccess, Earned, StepOf, TypeOK, Live,
       Handling, Req, Rpc, Task, NoTask, Cancel, Answer, wings
  <2> QED
    BY <2>1, <2>2, StepKeeps
<1> QED
  BY <1>1, <1>2, <1>3, <1>4, <1>5, <1>6, <1>7, <1>8, <1>9 DEF Handle

\* The steps of an install task, and what may go wrong in them.
LEMMA InstallKeeps ==
  ASSUME ReadyInv, NEW r \in Requests,
         Install(r) \/ InstallFails(r) \/ WaitEnds(r) \/ CallbackLost(r)
  PROVE  ReadyInv'
<1> USE DEF ReadyInv
<1>1. ASSUME PullImage(r) PROVE ReadyInv'
  <2>1. TypeOK'
    BY <1>1, TaskToType DEF TypeOK, Volumes, PullImage, TaskPc
  <2>2. StepOf(r)
    BY <1>1, ConstantsAssumption DEF ReadyNeedsSuccess, Earned, StepOf, TypeOK, Live,
       Handling, Req, Rpc, Task, NoTask, PullImage, TaskTo
  <2> QED
    BY <2>1, <2>2, StepKeeps
<1>2. ASSUME RemoveLeftover(r) PROVE ReadyInv'
  <2>1. TypeOK'
    BY <1>2, TaskToType DEF TypeOK, Volumes, Box, NoBox, RemoveLeftover, TaskPc
  <2>2. StepOf(r)
    BY <1>2, ConstantsAssumption DEF ReadyNeedsSuccess, Earned, StepOf, TypeOK, Live,
       Handling, Req, Rpc, Task, NoTask, RemoveLeftover, TaskTo
  <2> QED
    BY <2>1, <2>2, StepKeeps
<1>3. ASSUME StartScript(r) PROVE ReadyInv'
  <2>1. TypeOK'
    BY <1>3, TaskToType DEF TypeOK, Volumes, Box, NoBox, StartScript, TaskPc
  <2>2. StepOf(r)
    BY <1>3, ConstantsAssumption DEF ReadyNeedsSuccess, Earned, StepOf, TypeOK, Live,
       Handling, Req, Rpc, Task, NoTask, StartScript, TaskTo
  <2> QED
    BY <2>1, <2>2, StepKeeps
<1>4. ASSUME WaitReturns(r) \/ WaitEnds(r) PROVE ReadyInv'
  <2>0. PICK result \in {"success", "assumed"} :
          /\ task' = [task EXCEPT ![r].pc = "post", ![r].result = result]
          /\ result = "assumed" => "docker" \in Faults
    BY <1>4 DEF WaitReturns, WaitEnds
  <2>1. TypeOK'
    BY <1>4, <2>0 DEF TypeOK, Task, NoTask, TaskPc, WaitReturns, WaitEnds
  <2>2. StepOf(r)
    BY <1>4, <2>0 DEF ReadyNeedsSuccess, Earned, StepOf, TypeOK, Live, Req, Rpc, Task,
       NoTask, WaitReturns, WaitEnds
  <2> QED
    BY <2>1, <2>2, StepKeeps
<1>5. ASSUME WaitFails(r) PROVE ReadyInv'
  <2>0. PICK result \in {"none", "failed"} :
          task' = [task EXCEPT ![r].pc = "dead", ![r].result = result]
    BY <1>5 DEF WaitFails
  <2>1. TypeOK'
    <3>0. task[r] \in Task /\ task \in [Requests -> Task]
      BY DEF TypeOK
    <3>1. [task[r] EXCEPT !.pc = "dead", !.result = result] \in Task
      BY <3>0 DEF Task, TaskPc
    <3>2. task' \in [Requests -> Task]
      BY <2>0, <3>0, <3>1
    <3> QED
      BY <1>5, <3>2 DEF TypeOK, WaitFails
  <2>2. StepOf(r)
    BY <1>5, <2>0 DEF ReadyNeedsSuccess, Earned, StepOf, TypeOK, Live, Req, Rpc, Task,
       NoTask, WaitFails
  <2> QED
    BY <2>1, <2>2, StepKeeps
<1>6. ASSUME InstallFails(r) PROVE ReadyInv'
  <2>1. TypeOK'
    BY <1>6, TaskToType DEF TypeOK, Volumes, InstallFails, TaskPc
  <2>2. StepOf(r)
    BY <1>6, ConstantsAssumption DEF ReadyNeedsSuccess, Earned, StepOf, TypeOK, Live,
       Handling, Req, Rpc, Task, NoTask, InstallFails, TaskTo
  <2> QED
    BY <2>1, <2>2, StepKeeps
<1>7. ASSUME Callback(r) PROVE ReadyInv'
  <2>1. TypeOK'
    <3>1. row' \in Row
      BY <1>7 DEF TypeOK, Row, Status, UpdateInstallStatus, Callback
    <3> QED
      BY <1>7, <3>1, TaskToType DEF TypeOK, TaskPc, Callback
  <2>2. StepOf(r)
    BY <1>7, ConstantsAssumption DEF ReadyNeedsSuccess, Earned, StepOf, TypeOK, Live,
       Succeeded, Req, Rpc, Task, NoTask, Row, TaskTo, UpdateInstallStatus, Callback
  <2> QED
    BY <2>1, <2>2, StepKeeps
<1>8. ASSUME CallbackLost(r) PROVE ReadyInv'
  <2>1. TypeOK'
    BY <1>8, TaskToType DEF TypeOK, Volumes, CallbackLost, TaskPc
  <2>2. StepOf(r)
    BY <1>8, ConstantsAssumption DEF ReadyNeedsSuccess, Earned, StepOf, TypeOK, Live,
       Handling, Req, Rpc, Task, NoTask, CallbackLost, TaskTo
  <2> QED
    BY <2>1, <2>2, StepKeeps
<1>9. ASSUME Cleanup(r) PROVE ReadyInv'
  <2>1. TypeOK'
    BY <1>9, TaskToType DEF TypeOK, Volumes, Box, NoBox, Cleanup, TaskPc
  <2>2. StepOf(r)
    BY <1>9, ConstantsAssumption DEF ReadyNeedsSuccess, Earned, StepOf, TypeOK, Live,
       Handling, Req, Rpc, Task, NoTask, Cleanup, TaskTo
  <2> QED
    BY <2>1, <2>2, StepKeeps
<1>10. ASSUME NEW result \in {"success", "failed"}, ScriptExits(r, result) PROVE ReadyInv'
  <2>1. TypeOK'
    BY <1>10 DEF TypeOK, Box, ScriptExits
  <2>2. StepOf(r)
    BY <1>10 DEF ReadyNeedsSuccess, Earned, StepOf, TypeOK, Live, Req, Rpc, Task, NoTask,
       ScriptExits
  <2> QED
    BY <2>1, <2>2, StepKeeps
<1> QED
  BY <1>1, <1>2, <1>3, <1>4, <1>5, <1>6, <1>7, <1>8, <1>9, <1>10 DEF Install

\* A restart of Wings forgets calls and tasks, but no result.
LEMMA CrashKeeps == ReadyInv /\ Crash => ReadyInv'
<1> SUFFICES ASSUME ReadyInv, Crash PROVE ReadyInv'
  OBVIOUS
<1> USE DEF ReadyInv, Crash
<1>1. TypeOK'
  BY SMTT(30) DEF TypeOK, Rpc, Task, NoTask, TaskPc, Active
<1>2. \A i \in Requests : /\ task'[i].result = task[i].result
                         /\ task[i] = NoTask => task'[i] = NoTask
  BY DEF TypeOK, Task, NoTask, Active
<1>3. \A i \in Requests : rpc'[i].pc \in {"none", "sent", "pulling"} => rpc'[i].pc = rpc[i].pc
  BY DEF TypeOK, Rpc
<1>4. (Succeeded => Succeeded') /\ (Lifted => Lifted')
  BY <1>2 DEF Succeeded, Lifted
<1>5. ReadyNeedsSuccess'
  BY <1>4 DEF ReadyNeedsSuccess, Earned, Live
<1>6. ASSUME NEW q \in Requests
      PROVE  /\ req'[q].pc = "new" => req'[q].op = None
             /\ req'[q].pc \in {"new", "write"} => rpc'[q].pc = "none"
             /\ rpc'[q].pc \in {"none", "sent", "pulling"} => task'[q] = NoTask
             /\ task'[q].pc \in {"pull", "remove", "create", "run"} => task'[q].result = "none"
             /\ task'[q].pc = "post" => task'[q].result \in {"success", "assumed"}
             /\ task'[q].result = "assumed" => "docker" \in Faults
             /\ (req'[q].op = "update" /\ req'[q].pc = "write") => Earned(req[q].loaded)'
  BY <1>2, <1>3, <1>4 DEF Earned, TypeOK, Rpc
<1> QED
  BY <1>1, <1>5, <1>6

-----------------------------------------------------------------------------
\* The invariant holds before any request.
LEMMA ReadyInvInit == Init => ReadyInv
<1> SUFFICES ASSUME Init PROVE ReadyInv
  OBVIOUS
<1>1. TypeOK
  BY DEF Init, TypeOK, Row, Status, Req, Rpc, Task, NoTask, TaskPc, NoRow, Box, NoBox
<1> QED
  BY <1>1 DEF Init, ReadyInv, ReadyNeedsSuccess, Live, NoRow, NoTask

\* Every step keeps it.
LEMMA ReadyInvNext == ReadyInv /\ [Next]_vars => ReadyInv'
<1> SUFFICES ASSUME ReadyInv, [Next]_vars PROVE ReadyInv'
  OBVIOUS
<1>1. CASE UNCHANGED vars
  BY <1>1 DEF vars, ReadyInv, TypeOK, ReadyNeedsSuccess, Earned, Succeeded, Lifted, Live
<1>2. ASSUME NEW r \in Requests, Fault(r) PROVE ReadyInv'
  BY <1>2, ContinueKeeps, HandleKeeps, InstallKeeps DEF Fault
<1> QED
  BY <1>1, <1>2, RequestKeeps, ContinueKeeps, HandleKeeps, InstallKeeps,
     CrashKeeps DEF Next

\* For every number of requests, every choice of operations and every combination of
\* lost calls, lost reports, late handlers, Docker errors and restarts: the columns
\* status and installed say ready only after a script has succeeded, a suspension was
\* lifted, or, where Docker may fail, it has cut the wait for a script short (servers.service.ts updateInstallStatus, update and unsuspend; run_install).
THEOREM ReadyAfterSuccess == Spec => [](TypeOK /\ ReadyNeedsSuccess)
<1>1. ReadyInv => TypeOK /\ ReadyNeedsSuccess
  BY DEF ReadyInv
<1> QED
  BY <1>1, ReadyInvInit, ReadyInvNext, PTL DEF Spec
-----------------------------------------------------------------------------
(* The container is recoverable while the creation is guarded              *)

\* Requests made and answered are of the operations there are, and only an update keeps
\* a row.  Under CreationGuarded no request lifts a suspension, installs again, or starts
\* by the socket.
LEMMA GuardedOps ==
  ASSUME CreationGuarded, ReadyInv, RecoverInv, NEW r \in Requests
  PROVE  /\ req[r].op \notin {"ws_start", "unsuspend", "reinstall"}
         /\ req[r].pc # "new" => row.life # "never"
BY ConstantsAssumption DEF CreationGuarded, RecoverInv, OneCreate, OpKinds, RestPower,
   SocketPower

\* The first step of a request that finds the row: an update reads a status that refuses
\* a start if a creation is in progress, and power finds the same status itself.
AsksWings(r) ==
  /\ req[r].pc = "new" /\ Live
  /\ UNCHANGED <<row, wings>>
  /\ \A q \in Requests \ {r} : req'[q] = req[q] /\ rpc'[q] = rpc[q]
  /\ req'[r].op \in Ops \ {"create"}
  /\ req'[r].pc # "new"
  /\ rpc'[r].pc \in {"none", "sent"}
  /\ req'[r].op = "update" => req'[r].loaded = row
  /\ req'[r].op \in Starting /\ rpc'[r].pc # "none" => row.status \notin Refusing

\* Such a step keeps the invariant.
LEMMA AsksRecovers ==
  ASSUME CreationGuarded, ReadyInv, RecoverInv, NEW r \in Requests, AsksWings(r)
  PROVE  RecoverInv'
<1> USE DEF AsksWings, RecoverInv, ReadyInv, wings, Live
<1>0. \A q \in Requests : Creating(q)' => Creating(q) /\ q # r
  BY DEF Creating
<1>1. ContainerRecoverable'
  BY DEF ContainerRecoverable
<1>2. OneCreate'
  BY DEF OneCreate
<1>3. CreationInv'
  <2> SUFFICES ASSUME NEW p \in Requests, Creating(p)', NEW q \in Requests
               PROVE  Guarded(q)' /\ container' = "none" /\ row'.status \in Refusing
                        /\ (rpc'[p].pc = "pulling" => registry' # None)
    BY DEF CreationInv
  <2>1. Creating(p) /\ p # r
    BY <1>0
  <2>2. container = "none" /\ row.status \in Refusing /\ Guarded(q)
        /\ (rpc[p].pc = "pulling" => registry # None)
    BY <2>1 DEF CreationInv
  <2>3. Guarded(q)'
    BY <2>2 DEF Guarded
  <2> QED
    BY <2>1, <2>2, <2>3
<1>4. OneMutex'
  BY <1>0 DEF OneMutex
<1> QED
  BY <1>1, <1>2, <1>3, <1>4

\* The creation itself: it finds no request before it, so nothing on the node, no other
\* call and no task.
LEMMA CreateRecovers ==
  ASSUME CreationGuarded, ReadyInv, RecoverInv, NEW r \in Requests, Create(r)
  PROVE  RecoverInv'
<1> USE DEF RecoverInv, ReadyInv, wings
<1>0. /\ \A q \in Requests : req[q].pc = "new" /\ req[q].op = None /\ rpc[q].pc = "none"
                              /\ task[q] = NoTask
      /\ container = "none" /\ registry = None
  BY DEF Create, OneCreate
<1>1. /\ req'[r].op = "create" /\ req'[r].pc = "wait" /\ rpc'[r].pc = "sent"
      /\ \A q \in Requests \ {r} : req'[q] = req[q] /\ rpc'[q] = rpc[q]
      /\ row'.life = "live" /\ row'.status = "installing" /\ UNCHANGED wings
      /\ "create" \in Ops
  BY DEF Create, Call, Ask, TypeOK
<1>2. ContainerRecoverable'
  BY <1>1 DEF ContainerRecoverable
<1>3. OneCreate'
  BY <1>0, <1>1, ConstantsAssumption DEF OneCreate, OpKinds
<1>4. \A q \in Requests : Guarded(q)'
  BY <1>0, <1>1, ConstantsAssumption DEF Guarded, OpKinds, RestPower, SocketPower, Starting
<1>5. CreationInv'
  BY <1>0, <1>1, <1>4, ConstantsAssumption DEF CreationInv, Creating, Refusing, OpKinds
<1>6. OneMutex'
  BY <1>1 DEF OneMutex, Create
<1> QED
  BY <1>0, <1>1, <1>2, <1>3, <1>5, <1>6, ConstantsAssumption DEF OpKinds, RestPower,
     SocketPower, Starting

\* The first step of any request.
LEMMA RequestRecovers ==
  ASSUME CreationGuarded, ReadyInv, RecoverInv, NEW r \in Requests, Request(r)
  PROVE  RecoverInv'
<1> USE DEF ReadyInv, TypeOK, AsksWings, Starting
<1>1. ASSUME Update(r) PROVE AsksWings(r)
  BY <1>1 DEF Update
<1>2. ASSUME NEW op \in RestPower, Power(r, op) PROVE AsksWings(r)
  BY <1>2 DEF Power, RestPower, Reject, Call, Ask, Refusing
<1>3. ASSUME NEW op \in SocketPower, SocketPowerAction(r, op) PROVE AsksWings(r)
  BY <1>3 DEF SocketPowerAction, SocketPower, Call, Ask, CreationGuarded
<1>4. ASSUME Suspend(r) PROVE AsksWings(r)
  BY <1>4 DEF Suspend, Reject, Call, Ask
<1>5. ASSUME Delete(r) PROVE AsksWings(r)
  BY <1>5 DEF Delete, Call, Ask
<1>6. ~Unsuspend(r) /\ ~Reinstall(r)
  BY DEF Unsuspend, Reinstall, CreationGuarded
<1> QED
  BY <1>1, <1>2, <1>3, <1>4, <1>5, <1>6, CreateRecovers, AsksRecovers DEF Request

\* What the Panel writes after its read or its call: while a creation is in progress an
\* update writes a status back that refuses a start, and the only request that would
\* write install_failed is the creation itself, once its call has ended.
LEMMA ContinueRecovers ==
  ASSUME CreationGuarded, ReadyInv, RecoverInv, NEW r \in Requests, Continue(r)
  PROVE  RecoverInv'
<1> USE DEF RecoverInv, ReadyInv, wings
<1>0. ~UnsuspendWrite(r) /\ ~ReinstallWrite(r)
  BY GuardedOps DEF UnsuspendWrite, ReinstallWrite
<1>1. /\ UNCHANGED <<rpc, wings>>
      /\ req[r].pc # "new"
      /\ \A q \in Requests \ {r} : req'[q] = req[q]
      /\ req'[r].op = req[r].op /\ req'[r].pc = "done"
  BY <1>0 DEF Continue, UpdateWrite, Reply, Resume, Done, TypeOK, Req
<1>2. row.life # "never"
  BY <1>1, GuardedOps
<1>3. row'.life # "never"
  BY <1>0, <1>2 DEF Continue, UpdateWrite, Reply, Resume, SetStatus, Live, TypeOK, Row
<1>4. \A q \in Requests : Creating(q)' <=> Creating(q)
  BY <1>1 DEF Creating
<1>5. ASSUME NEW p \in Requests, Creating(p)
      PROVE  row'.status \in Refusing
  <2>1. row.status \in Refusing /\ Guarded(r)
    BY <1>5 DEF CreationInv
  <2>2. CASE UpdateWrite(r)
    BY <2>1, <2>2 DEF UpdateWrite, Guarded
  <2>3. CASE Reply(r)
    <3>1. ~(req[r].op = "create" /\ rpc[r].pc = "err")
      BY <1>5 DEF Creating, OneCreate
    <3> QED
      BY <2>1, <2>3, <3>1 DEF Reply, Resume, SetStatus, Refusing, TypeOK, Row
  <2> QED
    BY <1>0, <2>2, <2>3 DEF Continue
<1>6. ContainerRecoverable'
  BY <1>1 DEF ContainerRecoverable
<1>7. OneCreate'
  BY <1>1, <1>3 DEF OneCreate
<1>8. \A q \in Requests : Guarded(q) => Guarded(q)'
  BY <1>1 DEF Guarded
<1>9. CreationInv'
  BY <1>1, <1>4, <1>5, <1>8 DEF CreationInv
<1>10. OneMutex'
  BY <1>1, <1>3, <1>4 DEF OneMutex
<1> QED
  BY <1>1, <1>6, <1>7, <1>9, <1>10

\* create_server: it stores the configuration while no other mutex than the first exists,
\* and makes the container when no deletion has found one to remove.
LEMMA CreationRecovers ==
  ASSUME ReadyInv, RecoverInv, NEW r \in Requests, HandleCreate(r) \/ CreateContainer(r)
  PROVE  RecoverInv'
<1> USE DEF RecoverInv, ReadyInv
<1>0. /\ Creating(r) /\ container = "none" /\ row.status \in Refusing
      /\ \A q \in Requests : Guarded(q)
      /\ \A q, p \in Requests : mutex[q] = mutex[p]
      /\ \A q \in Requests \ {r} : rpc'[q] = rpc[q] /\ req[q].op # "create"
      /\ row' = row /\ req' = req /\ mutex' = mutex
  BY DEF HandleCreate, CreateContainer, Handling, Creating, CreationInv, OneMutex,
     OneCreate, Pull, Answer, TypeOK
<1>1. row.life # "never"
  BY <1>0, ConstantsAssumption DEF Creating, OneCreate, OpKinds
<1>2. registry' # None
  BY ConstantsAssumption DEF HandleCreate, CreateContainer, CreationInv, Creating, Volumes
<1>3. OneCreate' /\ OneMutex' /\ ContainerRecoverable'
  BY <1>0, <1>1, <1>2 DEF OneCreate, OneMutex, ContainerRecoverable
<1>4. \A q \in Requests : Creating(q)' => q = r
  BY <1>0 DEF Creating
<1>5. CreationInv'
  <2>1. CASE HandleCreate(r)
    <3>1. \A q \in Requests : Guarded(q)'
      BY <1>0, <2>1 DEF Guarded, HandleCreate, Creating, Starting
    <3> QED
      BY <1>0, <1>2, <2>1, <3>1 DEF CreationInv, HandleCreate
  <2>2. CASE CreateContainer(r)
    <3>1. ~Creating(r)'
      BY <2>2 DEF CreateContainer, Answer, Creating, TypeOK, Rpc
    <3> QED
      BY <1>4, <3>1 DEF CreationInv
  <2> QED
    BY <2>1, <2>2
<1> QED
  BY <1>0, <1>2, <1>3, <1>5

\* A step that opens no call and leaves the configuration and the mutexes as they are, and
\* while a creation is in progress the container as well.
Settles(r) ==
  /\ UNCHANGED <<row, req, mutex, registry, task>>
  /\ \A q \in Requests \ {r} : rpc'[q] = rpc[q]
  /\ rpc'[r].pc \in {"ok", "err", rpc[r].pc}
  /\ container' # "none" => registry # None
  /\ rpc'[r].pc # rpc[r].pc => rpc[r].pc # "none"
  /\ \/ container' = "none" <=> container = "none"
     \/ \A q \in Requests : ~Creating(q)

\* It keeps the invariant too.
LEMMA SettlesRecovers ==
  ASSUME ReadyInv, RecoverInv, NEW r \in Requests, Settles(r)
  PROVE  RecoverInv'
<1> USE DEF RecoverInv, ReadyInv, Settles
<1>1. \A q \in Requests : Creating(q)' => Creating(q)
  BY DEF Creating
<1>2. ContainerRecoverable' /\ OneCreate' /\ OneMutex'
  BY <1>1 DEF ContainerRecoverable, OneCreate, OneMutex
<1>3. CreationInv'
  <2> SUFFICES ASSUME NEW p \in Requests, Creating(p)', NEW q \in Requests
               PROVE  Guarded(q)' /\ container' = "none" /\ row'.status \in Refusing
                        /\ (rpc'[p].pc = "pulling" => registry' # None)
    BY DEF CreationInv
  <2>1. container = "none" /\ row.status \in Refusing /\ Guarded(q)
        /\ (rpc[p].pc = "pulling" => registry # None)
    BY <1>1 DEF CreationInv
  <2> QED
    BY <1>1, <2>1 DEF Guarded
<1> QED
  BY <1>2, <1>3

\* Calls are those of requests that have found the row.
LEMMA CallsFindRow ==
  ASSUME ReadyInv, RecoverInv, NEW r \in Requests, rpc[r].pc # "none"
  PROVE  row.life # "never"
BY DEF ReadyInv, RecoverInv, OneCreate

\* The start of a server finds the creation over, and a configuration where there is a
\* container.
LEMMA StartRecovers ==
  ASSUME ReadyInv, RecoverInv, NEW r \in Requests, HandleStart(r) \/ Recreate(r)
  PROVE  RecoverInv'
<1> USE DEF RecoverInv, ReadyInv
<1>0. /\ rpc[r].pc \in {"sent", "pulling"} /\ req[r].op \in Starting
      /\ UNCHANGED <<row, req, mutex, registry, task>>
      /\ \A q \in Requests \ {r} : rpc'[q] = rpc[q]
  BY DEF HandleStart, Recreate, Handling, Answer, Pull, TypeOK
<1>1. \A q \in Requests : ~Creating(q)
  BY <1>0 DEF CreationInv, Guarded
<1>2. row.life # "never"
  BY <1>0, CallsFindRow
<1>3. CASE Settles(r)
  BY <1>3, SettlesRecovers
<1>4. CASE HandleStart(r) /\ rpc'[r].pc = "pulling"
  <2>1. container' = container /\ registry # None
    BY <1>4 DEF HandleStart, Answer, TypeOK, Rpc
  <2>2. \A q \in Requests : ~Creating(q)'
    BY <1>0, <1>1 DEF Creating, Starting
  <2> QED
    BY <1>0, <1>2, <2>1, <2>2 DEF ContainerRecoverable, OneCreate, CreationInv, OneMutex
<1>5. CASE HandleStart(r) /\ rpc'[r].pc # "pulling"
  BY <1>0, <1>1, <1>3, <1>5 DEF HandleStart, Answer, Pull, Settles, TypeOK, Rpc,
     ContainerRecoverable
<1>6. CASE Recreate(r)
  BY <1>0, <1>1, <1>3, <1>6 DEF Recreate, Answer, Settles, TypeOK, Rpc,
     ContainerRecoverable
<1> QED
  BY <1>4, <1>5, <1>6

\* A deletion removes container and configuration together, so it must find no start that
\* has the configuration in hand: those hold the one mutex, which it has.
LEMMA DeleteRecovers ==
  ASSUME ReadyInv, RecoverInv, NEW r \in Requests, HandleDelete(r)
  PROVE  RecoverInv'
<1> USE DEF RecoverInv, ReadyInv
<1>0. /\ rpc[r].pc = "sent" /\ req[r].op = "delete"
      /\ UNCHANGED <<row, req, task>>
      /\ \A q \in Requests \ {r} : rpc'[q] = rpc[q]
      /\ rpc'[r].pc \in {"ok", "err"}
  BY DEF HandleDelete, Handling, Answer, TypeOK
<1>1. row.life # "never"
  BY <1>0, CallsFindRow
<1>2. CASE registry' = None /\ container # "none" /\ container' = "none"
  <2>1. \A q \in Requests : ~Creating(q)
    BY <1>2 DEF CreationInv
  <2>2. \A q \in Requests : ~Creating(q)'
    BY <1>0, <2>1 DEF Creating
  <2>3. \A q \in Requests : ~(rpc[q].pc = "pulling" /\ req[q].op \in Starting)
    BY <1>2 DEF HandleDelete, Locked, ContainerRecoverable, OneMutex
  <2>4. ContainerRecoverable' /\ OneCreate' /\ CreationInv' /\ OneMutex'
    BY <1>0, <1>1, <1>2, <2>2 DEF ContainerRecoverable, OneCreate, CreationInv, OneMutex
  <2> QED
    BY <1>0, <2>3, <2>4
<1>3. CASE UNCHANGED <<registry, mutex>>
  <2>1. Settles(r)
    BY <1>0, <1>3 DEF HandleDelete, Settles, ContainerRecoverable, CreationInv
  <2> QED
    BY <2>1, SettlesRecovers
<1> QED
  BY <1>2, <1>3 DEF HandleDelete

\* The handlers of Wings together; the others touch neither container nor configuration.
LEMMA HandleRecovers ==
  ASSUME CreationGuarded, ReadyInv, RecoverInv, NEW r \in Requests,
         Handle(r) \/ Background(r)
  PROVE  RecoverInv'
<1>1. ~HandleReinstall(r)
  BY GuardedOps DEF HandleReinstall, Handling
<1>2. ASSUME HandlePower(r) PROVE RecoverInv'
  <2>1. Settles(r)
    BY <1>2 DEF HandlePower, Handling, Answer, Settles, ReadyInv, TypeOK,
       RecoverInv, ContainerRecoverable
  <2> QED
    BY <2>1, SettlesRecovers
<1>3. ASSUME Background(r) PROVE RecoverInv'
  <2>1. Settles(r)
    BY <1>3 DEF Background, Settles, ReadyInv, TypeOK, RecoverInv, ContainerRecoverable
  <2> QED
    BY <2>1, SettlesRecovers
<1> QED
  BY <1>1, <1>2, <1>3, CreationRecovers, StartRecovers, DeleteRecovers DEF Handle

\* The steps of a task: there is none while a creation is in progress.
LEMMA InstallRecovers ==
  ASSUME ReadyInv, RecoverInv, NEW r \in Requests,
         Install(r) \/ InstallFails(r) \/ WaitEnds(r) \/ CallbackLost(r)
  PROVE  RecoverInv'
<1> USE DEF RecoverInv, ReadyInv
<1>1. UNCHANGED <<req, rpc, mutex, container, registry>>
  BY DEF Install, InstallFails, WaitEnds, CallbackLost, PullImage, RemoveLeftover, StartScript,
     ScriptExits, WaitReturns, WaitFails, Callback, Cleanup
<1>2. row' = row \/ row'.life = row.life
  BY DEF Install, InstallFails, WaitEnds, CallbackLost, PullImage, RemoveLeftover, StartScript,
     ScriptExits, WaitReturns, WaitFails, Callback, Cleanup, UpdateInstallStatus, Live
<1>3. task[r] # NoTask \/ (row' = row /\ task' = task)
  BY DEF Install, InstallFails, WaitEnds, CallbackLost, PullImage, RemoveLeftover, StartScript,
     ScriptExits, WaitReturns, WaitFails, Callback, Cleanup, NoTask
<1>4. \A q \in Requests : Creating(q)' <=> Creating(q)
  BY <1>1 DEF Creating
<1>5. ContainerRecoverable' /\ OneCreate' /\ OneMutex'
  BY <1>1, <1>2, <1>4 DEF ContainerRecoverable, OneCreate, OneMutex
<1>6. CreationInv'
  <2>1. CASE task[r] # NoTask
    <3>1. \A q \in Requests : ~Creating(q)
      BY <2>1 DEF CreationInv, Guarded
    <3> QED
      BY <1>4, <3>1 DEF CreationInv
  <2>2. CASE row' = row /\ task' = task
    <3>1. \A q \in Requests : Guarded(q)' <=> Guarded(q)
      BY <1>1, <2>2 DEF Guarded
    <3> QED
      BY <1>1, <1>4, <2>2, <3>1 DEF CreationInv
  <2> QED
    BY <1>3, <2>1, <2>2
<1> QED
  BY <1>1, <1>5, <1>6

\* A restart of Wings: no call is out afterwards, and the mutexes are new ones.
LEMMA CrashRecovers ==
  ASSUME ReadyInv, RecoverInv, Crash
  PROVE  RecoverInv'
<1> USE DEF RecoverInv, ReadyInv, Crash
<1>1. \A q \in Requests : rpc'[q].pc \notin {"sent", "pulling"}
  BY DEF TypeOK, Rpc
<1>2. \A q \in Requests : ~Creating(q)'
  BY <1>1 DEF Creating
<1>3. ContainerRecoverable' /\ OneCreate' /\ OneMutex' /\ CreationInv'
  BY <1>2 DEF ContainerRecoverable, OneCreate, OneMutex, CreationInv
<1> QED
  BY <1>1, <1>3

\* The invariant holds before any request,
LEMMA RecoverInvInit == Init => RecoverInv
BY ConstantsAssumption DEF Init, RecoverInv, ContainerRecoverable, OneCreate, CreationInv,
   OneMutex, Creating, NoRow, OpKinds

\* and every step that a guarded creation leaves keeps it.
LEMMA RecoverInvNext ==
  ASSUME CreationGuarded, ReadyInv, RecoverInv, [Next]_vars
  PROVE  RecoverInv'
<1>1. CASE UNCHANGED vars
  <2>1. \A q \in Requests : (Creating(q)' <=> Creating(q)) /\ (Guarded(q)' <=> Guarded(q))
    BY <1>1 DEF vars, Creating, Guarded
  <2> QED
    BY <1>1, <2>1 DEF vars, RecoverInv, ContainerRecoverable, OneCreate, CreationInv,
       OneMutex
<1>2. ASSUME NEW r \in Requests, Fault(r) PROVE RecoverInv'
  BY <1>2, InstallRecovers DEF Fault, Timeout, Cancel, CreationGuarded
<1> QED
  BY <1>1, <1>2, RequestRecovers, ContinueRecovers, HandleRecovers, InstallRecovers,
     CrashRecovers DEF Next

\* As long as power that starts comes by REST, no other installation and no lifted
\* suspension changes the status, and the creation does not outlive its deadline, Wings
\* can create again every container it has: for any number of requests, whatever Docker
\* refuses and however often Wings restarts (wings grpc.rs create_server, send_power_action,
\* delete_server; servers.service.ts power).
THEOREM ContainersRecoverable == CreationGuarded /\ Spec => []ContainerRecoverable
<1>1. ASSUME CreationGuarded
      PROVE  ReadyInv /\ RecoverInv /\ [Next]_vars => (ReadyInv /\ RecoverInv)'
  BY <1>1, ReadyInvNext, RecoverInvNext
<1>2. ReadyInv /\ RecoverInv => ContainerRecoverable
  BY DEF RecoverInv
<1>3. Init => ReadyInv /\ RecoverInv
  BY ReadyInvInit, RecoverInvInit
<1>4. ASSUME CreationGuarded PROVE Spec => []ContainerRecoverable
  <2>1. ReadyInv /\ RecoverInv /\ [Next]_vars => (ReadyInv /\ RecoverInv)'
    BY <1>1, <1>4
  <2> QED
    BY <2>1, <1>2, <1>3, PTL DEF Spec
<1> QED
  BY <1>4
=============================================================================
