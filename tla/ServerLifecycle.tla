--------------------------- MODULE ServerLifecycle ---------------------------
(***************************************************************************)
(* The life of one server across the Panel and the Wings daemon of its     *)
(* node: the columns status and installed, the container and the stored    *)
(* configuration on the node, the install tasks and their callbacks.       *)
(* Servers do not share any of this, so one server is enough.              *)
(*                                                                         *)
(* A request of the Panel reads the row, calls Wings and writes what it    *)
(* decided from the read.  The call is a gRPC with a 30 second deadline:   *)
(* it may fail at the Panel and still be carried out by Wings, then or     *)
(* later.  Wings answers stop, restart and kill before it has carried them *)
(* out, and reports the end of an installation with one POST to the Panel, *)
(* without a retry.  Install tasks share one container name.               *)
(*                                                                         *)
(* A Wings handler is one step, except where an image is pulled between    *)
(* its decision and its effect: create_server, which takes no lock, and    *)
(* the start of a server whose container is missing.  The per-server mutex *)
(* serialises power and delete only, and a deletion drops it from the map  *)
(* although others may wait for it.                                        *)
(***************************************************************************)
EXTENDS Integers, FiniteSets

CONSTANTS
  Requests,   \* requests ever made; a request is made once
  Ops,        \* the operations they may be
  Faults,     \* what may go wrong: see FaultKinds
  HasScript,  \* the egg has an install script and an install image
  None

FaultKinds ==
  {"timeout",        \* the deadline of a gRPC expires, or the connection breaks
   "callback",       \* the POST that reports an installation fails
   "docker",         \* a call of the Docker API fails, or its answer is cut short
   "crash"}          \* Wings restarts

RestPower == {"start", "stop", "restart", "kill"}
SocketPower == {"ws_start", "ws_stop", "ws_restart", "ws_kill"}
OpKinds ==
  {"create", "update", "suspend", "unsuspend", "reinstall", "delete"}
    \cup RestPower \cup SocketPower

Volumes == {"data", "daemon"}

ASSUME ConstantsAssumption ==
  /\ IsFiniteSet(Requests)
  /\ None \notin Requests
  /\ None \notin OpKinds
  /\ None \notin Volumes
  /\ Ops \subseteq OpKinds
  /\ Faults \subseteq FaultKinds
  /\ HasScript \in BOOLEAN

VARIABLES
  row,        \* the row of "servers"
  req,        \* requests: their operation and where they are
  rpc,        \* the call to Wings of each request
  mutex,      \* the mutex each call takes: one per entry server_locks ever had
  container,  \* the container of the server, in Docker
  volume,     \* the host directory it mounts
  registry,   \* volume_path of the configuration Wings has stored, or None
  bg,         \* requests whose stop, restart or kill runs in the background
  task,       \* the install task started by each request
  box         \* the container named nexus-install-<uuid>: its task, and its exit

vars == <<row, req, rpc, mutex, container, volume, registry, bg, task, box>>

Status == {"null", "installing", "install_failed", "suspended"}
Row == [life: {"never", "live", "deleted"}, status: Status, installed: 0..2]
Req == [op: OpKinds \cup {None}, pc: {"new", "wait", "write", "done"}, loaded: Row]
NoRow == [life |-> "never", status |-> "null", installed |-> 0]
Rpc == [pc: {"none", "sent", "pulling", "ok", "err"}, volume: Volumes \cup {None}]
TaskPc == {"none", "pull", "remove", "create", "run", "post", "cleanup", "done", "dead"}
Task == [pc: TaskPc, volume: Volumes \cup {None},
         result: {"none", "success", "failed", "assumed"}]
Box == [task: Requests \cup {None}, exit: {"none", "success", "failed"}]

NoTask == [pc |-> "none", volume |-> None, result |-> "none"]
NoBox == [task |-> None, exit |-> "none"]

Init ==
  /\ row = NoRow
  /\ req = [r \in Requests |-> [op |-> None, pc |-> "new", loaded |-> NoRow]]
  /\ rpc = [r \in Requests |-> [pc |-> "none", volume |-> None]]
  /\ mutex = [r \in Requests |-> 0]
  /\ container = "none"
  /\ volume = None
  /\ registry = None
  /\ bg = {}
  /\ task = [r \in Requests |-> NoTask]
  /\ box = NoBox

wings == <<mutex, container, volume, registry, bg, task, box>>
Live == row.life = "live"

\* A task that will still touch the node or the Panel.
Active(i) == task[i].pc \notin {"none", "done", "dead"}

\* The action a power request asks Wings for; suspend sends a kill.
PowerOf(op) ==
  CASE op \in {"start", "ws_start"} -> "start"
    [] op \in {"restart", "ws_restart"} -> "restart"
    [] op \in {"stop", "ws_stop"} -> "stop"
    [] OTHER -> "kill"

\* A request that has read the row is at pc; only an update keeps what it has read.
Ask(r, op, pc) == req' = [req EXCEPT ![r] = [op |-> op, pc |-> pc, loaded |-> NoRow]]

Call(r, op) ==
  /\ Ask(r, op, "wait")
  /\ rpc' = [rpc EXCEPT ![r] = [pc |-> "sent", volume |-> None]]

Done(r) == req' = [req EXCEPT ![r].pc = "done"]
Reject(r, op) == Ask(r, op, "done")

\* UPDATE servers SET ... WHERE id: nothing happens to a row that is gone.
SetStatus(s) == row' = IF Live THEN [row EXCEPT !.status = s] ELSE row

-----------------------------------------------------------------------------
(* Panel: ServersService and WebsocketGateway                              *)

\* Mutant: the row is inserted without a status.
CreateReady(r) ==
  /\ "create" \in Ops
  /\ req[r].pc = "new"
  /\ row.life = "never"
  /\ row' = [life |-> "live", status |-> "null", installed |-> 0]
  /\ Call(r, "create")
  /\ UNCHANGED wings

\* create, from its transaction on (what precedes it is in PanelStore).
Create(r) ==
  /\ "create" \in Ops
  /\ req[r].pc = "new"
  /\ row.life = "never"
  /\ row' = [life |-> "live", status |-> "installing", installed |-> 0]
  /\ Call(r, "create")
  /\ UNCHANGED wings

\* Mutant: power without the check of the status installing.
PowerWhileInstalling(r, op) ==
  /\ op \in Ops \cap RestPower
  /\ req[r].pc = "new"
  /\ Live
  /\ IF row.status = "suspended" THEN Reject(r, op) /\ rpc' = rpc ELSE Call(r, op)
  /\ UNCHANGED <<row, wings>>

\* power: refused while the status read is installing or suspended.
Power(r, op) ==
  /\ op \in Ops \cap RestPower
  /\ req[r].pc = "new"
  /\ Live
  /\ IF row.status \in {"installing", "suspended"}
     THEN Reject(r, op) /\ rpc' = rpc
     ELSE Call(r, op)
  /\ UNCHANGED <<row, wings>>

\* handleSendPowerAction: the row is read for its node only.
SocketPowerAction(r, op) ==
  /\ op \in Ops \cap SocketPower
  /\ req[r].pc = "new"
  /\ Live
  /\ Call(r, op)
  /\ UNCHANGED <<row, wings>>

Suspend(r) ==
  /\ "suspend" \in Ops
  /\ req[r].pc = "new"
  /\ Live
  /\ IF row.status = "suspended"
     THEN Reject(r, "suspend") /\ rpc' = rpc
     ELSE Call(r, "suspend")
  /\ UNCHANGED <<row, wings>>

\* unsuspend and reinstall write before, or without, a call to Wings.
Unsuspend(r) ==
  /\ "unsuspend" \in Ops
  /\ req[r].pc = "new"
  /\ Live
  /\ Ask(r, "unsuspend", IF row.status = "suspended" THEN "write" ELSE "done")
  /\ UNCHANGED <<row, rpc, wings>>

UnsuspendWrite(r) ==
  /\ req[r].op = "unsuspend"
  /\ req[r].pc = "write"
  /\ SetStatus("null")
  /\ Done(r)
  /\ UNCHANGED <<rpc, wings>>

Reinstall(r) ==
  /\ "reinstall" \in Ops
  /\ req[r].pc = "new"
  /\ Live
  /\ Ask(r, "reinstall", "write")
  /\ UNCHANGED <<row, rpc, wings>>

ReinstallWrite(r) ==
  /\ req[r].op = "reinstall"
  /\ req[r].pc = "write"
  /\ row' = IF Live THEN [row EXCEPT !.installed = 0] ELSE row
  /\ Call(r, "reinstall")
  /\ UNCHANGED wings

\* update: findByUuid, then save, which writes every column that differs from the row
\* by now, the status that was read included; a row that is gone is inserted again.
Update(r) ==
  /\ "update" \in Ops
  /\ req[r].pc = "new"
  /\ Live
  /\ req' = [req EXCEPT ![r] = [op |-> "update", pc |-> "write", loaded |-> row]]
  /\ UNCHANGED <<row, rpc, wings>>

UpdateWrite(r) ==
  /\ req[r].op = "update"
  /\ req[r].pc = "write"
  /\ row' \in {req[r].loaded} \cup {g \in {row} : ~Live}
  /\ req' = [req EXCEPT ![r] = [op |-> "update", pc |-> "done", loaded |-> NoRow]]
  /\ UNCHANGED <<rpc, wings>>

Delete(r) ==
  /\ "delete" \in Ops
  /\ req[r].pc = "new"
  /\ Live
  /\ Call(r, "delete")
  /\ UNCHANGED <<row, wings>>

\* What the handler does after the call: with an error, create marks the server;
\* suspend and delete only log it and go on; power and reinstall report it.
Resume(r, failed) ==
  /\ req[r].pc = "wait"
  /\ CASE req[r].op = "create" /\ failed -> SetStatus("install_failed")
       [] req[r].op = "suspend" -> SetStatus("suspended")
       [] req[r].op = "delete" -> row' = [row EXCEPT !.life = "deleted"]
       [] OTHER -> row' = row
  /\ Done(r)
  /\ UNCHANGED <<rpc, wings>>

Reply(r) == rpc[r].pc \in {"ok", "err"} /\ Resume(r, rpc[r].pc = "err")

\* The deadline expires; Wings may still carry the call out.
Timeout(r) ==
  /\ "timeout" \in Faults
  /\ Resume(r, TRUE)

\* updateInstallStatus: whatever the status was.  A result other than success is what the
\* code means to report of a script that failed; see WaitFails.
UpdateInstallStatus(result) ==
  row' = IF ~Live THEN row
         ELSE IF result = "success" THEN [life |-> "live", status |-> "null", installed |-> 1]
         ELSE [life |-> "live", status |-> "install_failed", installed |-> 2]

-----------------------------------------------------------------------------
(* Wings: the gRPC handlers                                                *)

Handling(r, ops) == rpc[r].pc = "sent" /\ req[r].op \in ops
Answer(r, a) == rpc' = [rpc EXCEPT ![r] = [pc |-> a, volume |-> None]]

\* The handler has a configuration in hand and pulls the image of the server.
Pull(r, vol) == rpc' = [rpc EXCEPT ![r] = [pc |-> "pulling", volume |-> vol]]

Starting == {"start", "ws_start"}
Stopping == {"stop", "ws_stop", "restart", "ws_restart", "kill", "ws_kill", "suspend"}
Locking == Starting \cup Stopping \cup {"delete"}

\* get_lock and lock().await: no other call holds the mutex of call r.  Only a
\* start that pulls an image holds one across a step.
Locked(r) ==
  \A q \in Requests :
    (rpc[q].pc = "pulling" /\ req[q].op \in Starting) => mutex[q] # mutex[r]

\* server_locks.remove: the calls in W wait for the old mutex, later ones take a new one.
DropLock(r) ==
  \E W \in SUBSET {q \in Requests \ {r} : Handling(q, Locking)} :
    mutex' = [q \in Requests |->
      IF q \in W THEN mutex[q]
      ELSE 1 + Cardinality({d \in Requests : req[d].op = "delete" /\ rpc[d].pc = "ok"})]

\* tokio::spawn(run_install)
Spawn(r, vol) ==
  task' = [task EXCEPT ![r] = [pc |-> "pull", volume |-> vol, result |-> "none"]]

\* create_server: the configuration is stored first, with Wings' own data
\* directory as volume, and the image is pulled.  No lock is taken.
HandleCreate(r) ==
  /\ Handling(r, {"create"})
  /\ registry' = "data"
  /\ Pull(r, "data")
  /\ UNCHANGED <<row, req, mutex, container, volume, bg, task, box>>

\* The rest of create_server: the container, then the script if there is one.
CreateContainer(r) ==
  /\ rpc[r].pc = "pulling"
  /\ req[r].op = "create"
  /\ \/ /\ container = "none"
        /\ container' = "stopped"
        /\ volume' = rpc[r].volume
        /\ Answer(r, "ok")
        /\ IF HasScript THEN Spawn(r, rpc[r].volume) ELSE task' = task
     \/ /\ "docker" \in Faults \/ container # "none"
        /\ Answer(r, "err")
        /\ UNCHANGED <<container, volume, task>>
  /\ UNCHANGED <<row, req, mutex, registry, bg, box>>

\* send_power_action, start: a missing container is to be created again from the
\* stored configuration.
HandleStart(r) ==
  /\ Handling(r, Starting)
  /\ Locked(r)
  /\ \/ /\ container # "none"
        /\ container' = "running"
        /\ Answer(r, "ok")
     \/ /\ container = "none"
        /\ IF registry = None THEN Answer(r, "err") ELSE Pull(r, registry)
        /\ container' = container
     \/ /\ "docker" \in Faults
        /\ Answer(r, "err")
        /\ container' = container
  /\ UNCHANGED <<row, req, mutex, volume, registry, bg, task, box>>

\* The missing container is created, unless the name is taken by now, and started.
Recreate(r) ==
  /\ rpc[r].pc = "pulling"
  /\ req[r].op \in Starting
  /\ \/ /\ container = "none"
        /\ \/ container' = "running" /\ Answer(r, "ok")
           \/ "docker" \in Faults /\ container' = "stopped" /\ Answer(r, "err")
        /\ volume' = rpc[r].volume
     \/ /\ container # "none" \/ "docker" \in Faults
        /\ Answer(r, "err")
        /\ UNCHANGED <<container, volume>>
  /\ UNCHANGED <<row, req, mutex, registry, bg, task, box>>

\* Mutant: the answer is left to the background task, which has no way to send it.
HandlePowerUnanswered(r) ==
  /\ Handling(r, Stopping)
  /\ Locked(r)
  /\ r \notin bg
  /\ bg' = bg \cup {r}
  /\ UNCHANGED <<row, req, rpc, mutex, container, volume, registry, task, box>>

\* stop, restart, kill: spawned, and answered at once.
HandlePower(r) ==
  /\ Handling(r, Stopping)
  /\ Locked(r)
  /\ bg' = bg \cup {r}
  /\ Answer(r, "ok")
  /\ UNCHANGED <<row, req, mutex, container, volume, registry, task, box>>

\* The spawned task; an error of Docker is logged.
Background(r) ==
  /\ r \in bg
  /\ bg' = bg \ {r}
  /\ \/ /\ container # "none"
        /\ container' = IF PowerOf(req[r].op) = "restart" THEN "running" ELSE "stopped"
     \/ /\ container = "none" \/ "docker" \in Faults
        /\ container' = container
  /\ UNCHANGED <<row, req, rpc, mutex, volume, registry, task, box>>

\* delete_server: removing a container that is missing is an error, and then the
\* stored configuration and the lock stay; so they do when the handler is cut short.
HandleDelete(r) ==
  /\ Handling(r, {"delete"})
  /\ Locked(r)
  /\ \/ /\ container # "none"
        /\ container' = "none"
        /\ volume' = None
        /\ \/ registry' = None /\ DropLock(r) /\ Answer(r, "ok")
           \/ /\ Faults \cap {"timeout", "crash"} # {}
              /\ Answer(r, "err")
              /\ UNCHANGED <<registry, mutex>>
     \/ /\ container = "none" \/ "docker" \in Faults
        /\ Answer(r, "err")
        /\ UNCHANGED <<mutex, container, volume, registry>>
  /\ UNCHANGED <<row, req, bg, task, box>>

\* reinstall_server: the configuration is stored as the Panel sent it, with
\* volumePath /srv/daemon-data/<uuid>, and the script is run in any case.
HandleReinstall(r) ==
  /\ Handling(r, {"reinstall"})
  /\ registry' = "daemon"
  /\ Spawn(r, "daemon")
  /\ Answer(r, "ok")
  /\ UNCHANGED <<row, req, mutex, container, volume, bg, box>>

\* The call is cancelled once the Panel has given it up: the server drops the handler.
Cancel(r) ==
  /\ "timeout" \in Faults
  /\ req[r].pc = "done"
  /\ rpc[r].pc \in {"sent", "pulling"}
  /\ Answer(r, "err")
  /\ UNCHANGED <<row, req, wings>>

-----------------------------------------------------------------------------
(* Wings: run_install.  Every error return before the wait has ended, and   *)
(* an error of the wait itself, ends the task without a callback.          *)

TaskTo(i, pc) == task' = [task EXCEPT ![i].pc = pc]

PullImage(i) ==
  /\ task[i].pc = "pull"
  /\ TaskTo(i, "remove")
  /\ UNCHANGED <<row, req, rpc, mutex, container, volume, registry, bg, box>>

\* "Clean up any leftover container": by name, whoever it belongs to.
RemoveLeftover(i) ==
  /\ task[i].pc = "remove"
  /\ box' = NoBox
  /\ TaskTo(i, "create")
  /\ UNCHANGED <<row, req, rpc, mutex, container, volume, registry, bg>>

\* Create and start the install container; the name may be taken again.
StartScript(i) ==
  /\ task[i].pc = "create"
  /\ IF box = NoBox
     THEN box' = [task |-> i, exit |-> "none"] /\ TaskTo(i, "run")
     ELSE box' = box /\ TaskTo(i, "dead")
  /\ UNCHANGED <<row, req, rpc, mutex, container, volume, registry, bg>>

\* The script in the install container exits, whether or not its task still runs.
ScriptExits(i, result) ==
  /\ box = [task |-> i, exit |-> "none"]
  /\ box' = [task |-> i, exit |-> result]
  /\ UNCHANGED <<row, req, rpc, mutex, container, volume, registry, bg, task>>

\* The log has ended and the wait, by name, returns the exit code 0 of the container which
\* has the name by now, another task's perhaps: success is to be reported.
WaitReturns(i) ==
  /\ task[i].pc = "run"
  /\ box.exit = "success"
  /\ task' = [task EXCEPT ![i].pc = "post", ![i].result = "success"]
  /\ UNCHANGED <<row, req, rpc, mutex, container, volume, registry, bg, box>>

\* The stream of the wait ends without an answer: the code goes on to report success.
WaitEnds(i) ==
  /\ "docker" \in Faults
  /\ task[i].pc = "run"
  /\ task' = [task EXCEPT ![i].pc = "post", ![i].result = "assumed"]
  /\ UNCHANGED <<row, req, rpc, mutex, container, volume, registry, bg, box>>

\* Mutant: a wait may fail although the container is still the task's own.
WaitFailsAnyway(i) ==
  /\ task[i].pc = "run"
  /\ TaskTo(i, "dead")
  /\ UNCHANGED <<row, req, rpc, mutex, container, volume, registry, bg, box>>

\* The wait fails, and the task with it, before anything is reported: the container exited
\* with another code than 0, which the client library (bollard 0.18) makes an error, it was
\* removed under the task, or Docker fails.
WaitFails(i) ==
  /\ task[i].pc = "run"
  /\ box.exit = "failed" \/ box.task # i \/ "docker" \in Faults
  /\ task' = [task EXCEPT ![i].pc = "dead",
                           ![i].result = IF box.exit = "failed" THEN "failed" ELSE "none"]
  /\ UNCHANGED <<row, req, rpc, mutex, container, volume, registry, bg, box>>

\* Docker refuses the pull, the creation or the start.
InstallFails(i) ==
  /\ "docker" \in Faults
  /\ task[i].pc \in {"pull", "create"}
  /\ TaskTo(i, "dead")
  /\ UNCHANGED <<row, req, rpc, mutex, container, volume, registry, bg, box>>

\* The POST reaches ServerCallbacksController.installStatus; the one that says "failed" is
\* never sent.
Callback(i) ==
  /\ task[i].pc = "post"
  /\ UpdateInstallStatus("success")
  /\ TaskTo(i, "cleanup")
  /\ UNCHANGED <<req, rpc, mutex, container, volume, registry, bg, box>>

\* The POST fails: logged, or not even that; never sent again.
CallbackLost(i) ==
  /\ "callback" \in Faults
  /\ task[i].pc = "post"
  /\ TaskTo(i, "cleanup")
  /\ UNCHANGED <<row, req, rpc, mutex, container, volume, registry, bg, box>>

\* Remove the install container, by name again.
Cleanup(i) ==
  /\ task[i].pc = "cleanup"
  /\ box' = NoBox
  /\ TaskTo(i, "done")
  /\ UNCHANGED <<row, req, rpc, mutex, container, volume, registry, bg>>

\* Wings restarts: tasks are gone and calls break; Docker's containers and the
\* configurations on disk stay.
Crash ==
  /\ "crash" \in Faults
  /\ bg # {} \/ \E r \in Requests : rpc[r].pc \in {"sent", "pulling"} \/ Active(r)
  /\ bg' = {}
  /\ rpc' = [r \in Requests |-> IF rpc[r].pc \in {"sent", "pulling"}
                                THEN [pc |-> "err", volume |-> None] ELSE rpc[r]]
  /\ mutex' = [r \in Requests |-> 0]
  /\ task' = [i \in Requests |-> IF Active(i) THEN [task[i] EXCEPT !.pc = "dead"] ELSE task[i]]
  /\ UNCHANGED <<row, req, container, volume, registry, box>>

-----------------------------------------------------------------------------
Request(r) ==
  \/ Create(r)
  \/ Update(r)
  \/ \E op \in RestPower : Power(r, op)
  \/ \E op \in SocketPower : SocketPowerAction(r, op)
  \/ Suspend(r)
  \/ Unsuspend(r)
  \/ Reinstall(r)
  \/ Delete(r)

\* The rest of a request in the Panel, and its call in Wings.
Continue(r) == UpdateWrite(r) \/ UnsuspendWrite(r) \/ ReinstallWrite(r) \/ Reply(r)
Handle(r) ==
  \/ HandleCreate(r) \/ CreateContainer(r)
  \/ HandleStart(r) \/ Recreate(r)
  \/ HandlePower(r)
  \/ HandleDelete(r)
  \/ HandleReinstall(r)

Install(i) ==
  \/ PullImage(i)
  \/ RemoveLeftover(i)
  \/ StartScript(i)
  \/ \E result \in {"success", "failed"} : ScriptExits(i, result)
  \/ WaitReturns(i)
  \/ WaitFails(i)
  \/ Callback(i)
  \/ Cleanup(i)

Fault(r) == Timeout(r) \/ Cancel(r) \/ InstallFails(r) \/ WaitEnds(r) \/ CallbackLost(r)

Next ==
  \/ \E r \in Requests :
       Request(r) \/ Continue(r) \/ Handle(r) \/ Background(r) \/ Install(r) \/ Fault(r)
  \/ Crash

Spec == Init /\ [][Next]_vars

\* The event loop of the Panel, the tasks of tokio and the script itself all make
\* progress; users ask when they like, and faults need not happen.
Fairness ==
  \A r \in Requests : /\ WF_vars(Continue(r))
                      /\ WF_vars(Handle(r))
                      /\ WF_vars(Background(r))
                      /\ WF_vars(Install(r))

-----------------------------------------------------------------------------
(* Properties                                                              *)

\* Columns, containers, calls and tasks hold values of their types.
TypeOK ==
  /\ row \in Row
  /\ req \in [Requests -> Req]
  /\ rpc \in [Requests -> Rpc]
  /\ mutex \in [Requests -> Nat]
  /\ container \in {"none", "stopped", "running"}
  /\ volume \in Volumes \cup {None}
  /\ registry \in Volumes \cup {None}
  /\ bg \subseteq Requests
  /\ task \in [Requests -> Task]
  /\ box \in Box

\* Wings can create again every container it has ("Store config in registry for later
\* reconstruction"): a container never exists without a stored configuration.  A
\* creation takes no lock, so this needs more than store-before-create and
\* remove-after-delete: if a start makes the container while create_server still
\* pulls, and a deletion removes both, then create_server brings back the container
\* only.  It is the Panel that prevents it, refusing power while the status is
\* installing, and it does so only as long as power comes by REST, no other
\* installation changes the status, and the creation does not outlive its deadline.
ContainerRecoverable == container # "none" => registry # None

\* The operations and faults under which it does: starts by REST only, nothing that lifts
\* the status while the creation is in progress, no deadline that expires before Wings
\* has answered.
CreationGuarded ==
  Ops \cap {"ws_start", "unsuspend", "reinstall"} = {} /\ "timeout" \notin Faults

\* What it rests on.  There is one creation, and while its call is out nothing has started
\* or installed, the status that would refuse a start is kept, in the row and in what
\* updates will write back, and so the deletion finds no container and leaves the
\* configuration.  A start that recreates the container holds the only mutex there is
\* until a deletion has removed the configuration for good.
Creating(r) == req[r].op = "create" /\ rpc[r].pc \in {"sent", "pulling"}
Refusing == {"installing", "suspended"}

OneCreate ==
  /\ \A r \in Requests : req[r].op \in Ops \cup {None}
  /\ \A q, r \in Requests : req[q].op = "create" /\ req[r].op = "create" => q = r
  /\ row.life = "never" =>
       container = "none" /\ registry = None /\ \A r \in Requests : req[r].pc = "new"

Guarded(r) ==
  /\ req[r].op = "update" /\ req[r].pc = "write" => req[r].loaded.status \in Refusing
  /\ req[r].op \in Starting => rpc[r].pc = "none"
  /\ task[r] = NoTask

CreationInv ==
  \A r \in Requests : Creating(r) =>
    /\ container = "none"
    /\ row.status \in Refusing
    /\ rpc[r].pc = "pulling" => registry # None
    /\ \A q \in Requests : Guarded(q)

OneMutex ==
  \/ \A q, r \in Requests : mutex[q] = mutex[r]
  \/ registry = None /\ row.life # "never" /\ \A r \in Requests : ~Creating(r)

RecoverInv ==
  /\ ContainerRecoverable
  /\ OneCreate
  /\ CreationInv
  /\ OneMutex
  /\ \A r \in Requests :
       /\ req[r].op = "update" /\ req[r].pc = "write" => req[r].loaded.life = "live"
       /\ rpc[r].pc = "pulling" /\ req[r].op \in Starting => registry # None

\* Whatever is lost, late or restarted, a server counts as ready (status NULL) or as
\* installed only if an install script of it has exited with 0, or, where Docker may fail,
\* it has cut the wait for one short, or, for the status, if somebody has asked to lift a
\* suspension.
Succeeded ==
  \E i \in Requests :
    task[i].result = "success" \/ ("docker" \in Faults /\ task[i].result = "assumed")
Lifted == \E r \in Requests : req[r].op = "unsuspend"

Earned(w) ==
  /\ w.installed = 1 => Succeeded
  /\ w.status = "null" => Succeeded \/ Lifted

ReadyNeedsSuccess == Live => Earned(row)

\* What it rests on: the row that an update will write back was earned too, and a call
\* that is not answered has not started its install task, a script exits once, so that no
\* success is forgotten, and only a fault of Docker lets one be assumed.
ReadyInv ==
  /\ TypeOK
  /\ ReadyNeedsSuccess
  /\ \A r \in Requests :
       /\ req[r].pc = "new" => req[r].op = None
       /\ req[r].pc \in {"new", "write"} => rpc[r].pc = "none"
       /\ rpc[r].pc \in {"none", "sent", "pulling"} => task[r] = NoTask
       /\ task[r].pc \in {"pull", "remove", "create", "run"} => task[r].result = "none"
       /\ task[r].pc = "post" => task[r].result \in {"success", "assumed"}
       /\ task[r].result = "assumed" => "docker" \in Faults
       /\ (req[r].op = "update" /\ req[r].pc = "write") => Earned(req[r].loaded)

\* A server does not stay installing, unless a script has failed, which nobody is told.
\* Concurrent install tasks remove each other's container and wait for each other's, by
\* name, and end without a report when it is gone; still one of them reports, or has run
\* its script to a failure.
Unreported(i) == task[i].pc = "dead" /\ task[i].result = "failed"

InstallResolves ==
  (Live /\ row.status = "installing") ~>
    (row.status # "installing" \/ ~Live \/ \E i \in Requests : Unreported(i))

\* "Notify Panel of install failure": once a script has failed, the server does not remain
\* installing.
FailureReported ==
  (\E i \in Requests : box = [task |-> i, exit |-> "failed"]) ~> (row.status # "installing")

\* Every request of the Panel is answered: since each is made once, in the end none is
\* in progress.
RequestsFinish == <>[](\A r \in Requests : req[r].pc \in {"new", "done"})
=============================================================================
