# Nexus Panel: specifications, model checking and proofs

TLA+ modules that model the Panel (`packages/backend`, NestJS and TypeORM on PostgreSQL), the
Wings daemon (`wings/`, Rust on Docker) and the part of the frontend (`packages/frontend`,
React) that keeps state across requests; TLC configurations that check them on small instances,
and proofs that TLAPS checks for every instance. `PROJECT.json` relates every definition to the
lines it models and lists runs, mutants, findings, hazards and theorems.

## 1. The system

| Component | State | Operations | Interacts with |
|---|---|---|---|
| Servers (`servers/`) | `servers` rows: owner, node, allocation, resources, status, installed | create, update, delete, power, suspend, unsuspend, reinstall | allocations, nodes, users (SQL), Wings (gRPC) |
| Allocations (`allocations/`, `admin/`) | `allocations` rows: node, ip, port, serverId | create a range (two handlers), delete, bulk delete | servers by `serverId` |
| Nodes (`nodes/`, `admin/`) | `nodes` rows, heartbeats in memory | CRUD, heartbeat, health, token regeneration | servers and allocations by cascade, Wings |
| Users (`users/`, `admin/`) | `users` rows | CRUD | servers by cascade |
| Authentication (`auth/`) | two-factor columns of `users`, `sessions` | login, second factor, refresh, revoke, logout, setup, verify, disable | users |
| Schedules, eggs | an owner row with tasks, or variables | CRUD, execute, import | servers |
| Locations, subusers, API keys, databases | their rows | CRUD | servers, users |
| WebSocket gateway | sockets, rooms, subscriptions, two polling timers | auth, subscribe, command, power | servers, Wings, the browser hook |
| Install callback | - | installStatus | called by Wings over HTTP |
| Wings gRPC (`grpc.rs`) | per-server mutexes, event channel | create, delete, reinstall, power, command, status, event stream | Docker, registry, Panel |
| Wings registry (`state.rs`) | server configurations, in memory and on disk | store, get, remove, load at start | gRPC handlers |
| Wings installer (`installer.rs`) | one container name per server | run_install | Docker, Panel callback |
| Wings heartbeat (`heartbeat.rs`) | the daemon token, a timer | POST every 30 s | the Panel's guard and heartbeat store |
| Browser session (`authStore`, routes, interceptor) | the user shown, the cookie | checkAuth, login, register, logout | authentication |
| Console page (hook, terminal) | a socket, its timer, the lines | connect, send, reconnect | gateway |
| Server dialog | the five steps of a form, lists in flight | open, choose, submit | nests, eggs, allocations, servers |
| Pages with dialogs | the list shown, the dialog, flags | create, edit, delete, reload | the routes of their table |
| Seed | administrator, nests, eggs, variables | look up and insert; throws before its first statement | the database |

What is hard here:

* **Interleaving at every await.** A Panel handler reads, awaits (another query, bcrypt, a
  gRPC of up to 30 s) and writes what it decided from the read. No handler takes a lock; the
  one transaction is in `ServersService.create`. What remains is the schema: unique columns and
  foreign keys with and without cascade.
* **Whole-row saves.** `repository.save(entity)` reads the row again and then writes every column
  that differs from it, so a stale copy undoes other writes, a row that is gone is inserted again,
  and what another save writes between the two statements is missed.
  A property set to `undefined` is not written at all. A save that cascades to children
  orphans the children it does not name, and fails where the column forbids that.
* **Calls with deadlines.** A gRPC may fail at the Panel and be carried out by Wings, then or
  later; Wings answers stop, restart and kill before it has carried them out.
* **One report per installation**, not repeated, and no report on most error paths.
* **Restarts.** Wings keeps configurations on disk and forgets install tasks; the Panel forgets
  heartbeats and sockets; a page load forgets everything but cookies and localStorage.
* **Answers out of order.** No page cancels a request: an answer is applied to whatever the
  page has become. Timers fire after what they were set for is gone.
* **Boundaries of time.** The heartbeat's interval and timeout, and what it waits for before the
  POST, against the threshold; polls that may take longer than their interval.

What makes each component correct, in short: the server-allocation relation is consistent and
never silently reassigned; deletions do not take servers along; a server counts as installed only
after a script succeeded, an installation resolves, also a failed one; Wings can recreate what it
runs; every request is answered; backup codes work once and nobody is locked out; a healthy node
is shown as such and the token handed out is the one accepted; a schedule has the tasks of one
request, and a row is what was asked for; a page shows its own server, session and list, sends
what the user chose, and comes back from a broken connection.

## 2. Modules

| Module | Models |
|---|---|
| `PanelStore` | `servers`, `allocations`, `nodes`, `users` and the handlers that change them |
| `Ownership` | the abstract specification that `PanelStore` implements: who holds an allocation |
| `ServerLifecycle` | one server across the Panel and Wings: status, calls, containers, installations |
| `Account` | one user account: second factor, backup codes, sessions, updates of the row |
| `NodeLink` | one node across the Panel and Wings: heartbeats, `connectionStatus`, the daemon token |
| `Console` | the console page, its socket, the gateway with its polls, the terminal |
| `Composites` | rows with children: a schedule and its tasks, an egg and its variables |
| `Records` | rows on their own: users, locations, subusers, API keys, server databases |
| `Portal` | one browser tab: the auth store, guarded routes, the interceptor, the cookie |
| `Wizard` | the dialog that creates a server, and the page around it |
| `Pages` | eight pages that list rows and change them through dialogs |
| `MCPanelStore`, `MCServerLifecycle`, `MCAccount`, `MCConsole` | symmetry sets and constant tables for TLC |
| `MCRows`, `MCResources`, `MCFrontend` | NodeLink and Account, Composites and Records, and Wizard and Pages, as alternatives in one run |
| `PanelStoreProofs`, `ServerLifecycleProofs`, `AccountProofs`, `NodeLinkProofs`, `ConsoleProofs`, `PortalProofs` | the theorems about each module |
| `ResourcesProofs`, `FrontendProofs` | the theorems about the modules of `MCResources` and `MCFrontend`; `AccountProofs` is about `Account` as `MCRows` has it |

Everywhere **one action is one awaited call with the code that uses its result**, up to the next
await. A handler in progress is a record that holds what it has read. Variables commented
`history` are read by properties only. An operator marked `Mutant` is not part of the model: it
is the form a plausible bug would give the definition after it.

### PanelStore and Ownership

`server` and `allocation` are the tables (a row or `None`), `nodes` and `users` the identifiers
that exist, `req` the handlers in progress with everything they have read.
`ServersService.create` is `StartCreate` (node), `ReadAllocation`, `ReadUser`, `ReadCapacity`,
then `Commit` or `Rollback` (the transaction); `update` is `StartUpdate` and `SaveUpdate`;
`delete` is `StartDelete`, `FreeAllocation`, `RemoveServer`. The schema appears as the guards
`ServerInsertable`, `PortsInsertable` and `Unreferenced`. `Joined` is the relation that
`findByUuid` loads: the inverse of `allocations.serverId`, which need not agree with the column
`servers.allocationId`.

`Ownership` is what remains when tables, reads and requests are taken away: an allocation is
free or held by one server, is handed out only while it is free and only to a server that holds
none, and any number are released at once. `PanelStore!Abstract` maps `owner[a]` to the
`serverId` of the row; `ImplementsOwnership` is the refinement.

Abstractions: one IP per node; disk, checked exactly as memory, is left out; checks that read none
of these tables may fail at any point (`CreateAbort`). `save` of an entity is one step here, in
`Records` and in `NodeLink!Update`; `Account` and `Composites` have its SELECT and its write as
two, since only there does a property depend on it. `nodes` only loses members here: an update of
a node (`nodes.service.ts:80`) that saves what was deleted since inserts the row again, which is
in `NodeLink!Update`, where a node without servers and allocations is what comes back. Identifiers
are drawn from finite sets and never used twice; a model that runs out of them fails the insertion
as a constraint would.

### ServerLifecycle

`row` is the server's row (status, installed, life); `req` the Panel's requests, each made once;
`rpc` their calls to Wings; `mutex` which mutex a call takes (a deletion replaces the map's
entry); `container`, `volume` and `registry` what the node has; `bg` the spawned stop, restart
and kill; `task` the install tasks; `box` the container named `nexus-install-<uuid>`.

Panel: `Create`, `Power`, `SocketPowerAction`, `Suspend`, `Unsuspend`, `Reinstall`, `Update`,
`Delete` read the row and call Wings, or go on to a write. `Resume` is what follows the answer
(`Reply`) or the deadline (`Timeout`). Wings: `HandleCreate`/`CreateContainer` is `create_server`
with the image pull between them, `HandleStart`/`Recreate` the start of a server whose container
is missing, `HandlePower`/`Background` the answer and the work of the others, `HandleDelete`,
`HandleReinstall`. `run_install` is `PullImage`, `RemoveLeftover`, `StartScript`, one of the three
ends of the wait, `Callback`, `Cleanup`; `ScriptExits` is the script itself. The wait is by name:
a task whose container was removed may see the exit code of another task's container.
`WaitReturns` is an exit with 0. `WaitFails` is every error: an exit with another code is one too,
because `wait_container` of the bollard in `Cargo.lock` (0.18.1) turns it into an `Err`, and the
`?` on it ends the task without a report, so that the branch for `status_code != 0` is never
reached. `WaitEnds` is a stream that ends without an item, which the code takes for success.

What may go wrong is a constant, `Faults`: deadline (and `Cancel`, the dropped handler), lost
report, failing Docker call or answer cut short, restart. A script may fail in every run. Which
operations exist is a constant too, `Ops`, so that a run can ask about a combination.

Abstractions: other servers, resources, the event channel, logs; errors writing the stored
configuration to disk (`state.rs:60`) do not occur. The egg's script either exists
or not (`HasScript`).

### Account

`user` is the row, `session` the table, `cookie` the sessions whose token a browser holds,
`challenge` whether a token for the second step is valid, `issued` and `used` the backup codes
generated and consumed. Every handler is a load and a save, and a save is two statements: the
SELECT that finds the columns that differ (`SelectSaved`) and the UPDATE of these (`WriteSaved`).
`crossed` is a save that wrote between the two of another. Passwords, one-time codes and tokens
are abstracted to a check that succeeds: a failing check has no effect.

### NodeLink

A tick is ten seconds, the timeout of the POST. `wings.due` is the timer of the heartbeat loop,
`beat` the heartbeat it is busy with, `age` the heartbeat store of the Panel, `row` the columns
`connectionStatus` and daemon token. A heartbeat begins with `Collect`, which ends when Docker has
listed the containers: that call has no deadline, and the next tick of the loop waits for it.
`SendHeartbeat` is the POST, with one. `Slack` is the time Docker is *expected* to take; it may
take longer, and `steady` says whether it has. The interval of tokio makes up for ticks it missed,
at most `MaxLate` of them here. `CanActivate` is the guard, `ProcessHeartbeat` and
`WriteConnected` the handler (load, store, conditional write), `GetHealth` and `WriteDisconnected`
the health check. `Update`, `RegenerateToken`/`HandToken` and `Delete` are the administrators, any
number at once; `contended` is that they overlapped since a token was generated. Restarts of Wings
and the Panel and lost or late POSTs are actions.

### Console

A run of the hook's effect is an instance `h` with a socket, a reconnection timer and a buffer
(`hook`); the instance of a page that was left stays in the browser. `retries` is the count of
reconnections, one for a mounted component and all the runs of its effect, as `retriesRef` is.
`HandleConnection` accepts a socket or refuses it, by the cookie, which may be invalid by now, and
the token. `client` is what the gateway
keeps of a connection, `sent` what it has not handled yet, `tasks` the commands and power actions
waiting for Wings, `poll` the polls in progress: a poll reads one server after the other and
emits what it read in a later step. `page` is the mounted component with the terminal.
Whether the browser has a token in `localStorage` is a choice of the initial state: nothing in
this program puts one there.

Socket.io delivers in order, so what the gateway emits is received in the same step. Console
output other than echoes does not exist: the status Wings answers with carries none.

### Composites, Records

`Composites` numbers the sets of children that requests write (batches), which is enough to say
whether what is there stems from one request and from the last. An update of a schedule deletes
its tasks and saves the new ones with the schedule; the update of an egg deletes and saves its
variables; neither is one transaction. The save of a schedule is `SelectSaved`, which loads the
tasks there are and decides which are orphans, and then its transaction (`WriteSchedule`).

`Records` has one copy of the shape its services share, read then save or remove, and the
differences per table: columns, foreign keys, unique constraints, what an update carries. Primary
keys are reused only when no request knows them any more. No code creates a database host, so
that `create` of a server database always ends in an error.

### Portal

`calls` are the requests in flight: sent with the cookie of that moment, served in a later step
(`Serve`), answered in another (`Arrive`). `Load` is a page load, by the user or by the
interceptor's `window.location`. `Routed` is what `ProtectedRoute` and `AdminRoute` make of a
route. `ClickAccount` and `AccountArrives` are the handlers of the account page, which end in
`setUser` with the user they were rendered with. Of the three only the verification of the second
factor can succeed: `PATCH /account` has no route, and disabling sends `password` where the DTO
requires `code`.

### Wizard and Pages

`Wizard`: `form` is the dialog's state, `gets` the lists in flight, `post` the creations in
flight. An allocation is known by its node and the environment by the egg its variables belong to,
which is all the properties tell apart. The page shows the dialog only while it shows its list, so
that a success, which reloads the list, unmounts the dialog and loses its state. `LeaveAndReturn`
is Cancel, the sidebar or the browser's buttons: the page and its dialog are mounted anew, with
`saving = false`, and creations in flight go on `unheard`, which `PostUnheard` ends.

`Pages`: a page is a record (`Handlers`, `Table`, `Flags`) that says which requests the routes
behind it accept, whether it reads the list they answer with, which dialogs it opens and which
flag a handler holds. `runs` are handlers that wait; `rows` is the table of the backend, `shown`
the list on the page, `dialog` what is open. Every submission of a dialog may have another key,
since its fields stay editable. The pages ask for lists without parameters, so what they get is
`FirstPage` (25 rows, or 50 allocations). `Closes` says which dialogs a success closes: the page
of the API keys closes none. The edit button of a node leads to `nodes/:id`, which shows the list
again.

## 3. Runs

For each property of a passing run `PROJECT.json` names a mutant of the model that breaks it.

| Run | Instance | Shows |
|---|---|---|
| `PanelStoreRaces` | 3 requests of any kind at once, 2 servers, 2 allocations, database errors | `OwnerConsistent`: the two sides of the server-allocation relation agree, whatever is stale. `AllocationNeverStolen`: no step hands a held allocation to another server. `ImplementsOwnership`: the tables implement `Ownership` |
| `PanelStoreCreates` | 3 requests: creations of servers and allocations, deletions of users and nodes; 2 nodes, 2 users | `ServersBound`: every server holds an allocation of its node. `UserDeletionSparesServers`: no server goes with its user, although the count is stale |
| `LifecycleFaults` | 3 requests, every operation class, every fault | `ReadyNeedsSuccess`: a server counts as installed only after a script exited with 0, or after Docker cut the wait for one short |
| `LifecycleRegistry` | 4 requests: create, update, start, restart by web socket, suspend, delete; Docker faults and restarts of Wings | `ContainerRecoverable`: Wings has no container whose configuration it has not stored |
| `LifecycleProgress` | 3 requests: create, reinstall, start and restart by web socket, delete; scripts may fail, no faults, fairness | `InstallResolves`: a server does not stay installing, unless a script has failed. `RequestsFinish`: every request is answered |
| `LifecycleFailure` (violation) | one creation, no faults, fairness | `FailureReported` fails: a script that fails is not reported, and its server stays installing |
| `AccountCodeRace` (violation) | 2 logins with one backup code | `BackupCodeSingleUse` fails: both load the list before either saves it |
| `Rows` | a node: 2 handlers, 2 tokens, a Docker that may hang, restarts and lost POSTs; an account: 2 requests, 1 secret, 1 backup code | `SteadyNodeOnline`: a node whose heartbeats arrive, and whose Docker answers in time, is online without a gap; `SteadyInv` is the arithmetic behind it. `StatusFollows`: `connectionStatus` agrees with the heartbeats when nothing is in progress. `HandedTokenAccepted`: the token handed out last is the one the guard accepts. `SecondFactorPossible`: nobody is asked for a second factor that does not exist |
| `Console` | 2 servers, up to 2 runs of the effect, 3 commands, 2 overlapping polls, broken connections | `DelayBounded`, `ShowsItsServer`, `CommandOnce`, `TerminalFollows`, `NewerUnlessOverlapped`, `ComesBack`: see below |
| `Resources` | 2 requests, on one owner with children in `Composites` and on 2 ids in every table of `Records` | `OneBatch`, `LastUpdateKept`: a schedule or egg has the children of one request, the last. `RowsConsistent`: unique columns and references hold whatever races. `AsRequested`: a row is what was asked for |
| `Portal` | 3 users (one administrator, one with a second factor), 2 calls in flight, 5 acts | `ShownUserIsSession`: the user shown is the one the cookie stands for. `SignedOutStays`: after a logout nobody is shown (both also with the answers of the account page). `Settles`: no page load waits, or loads itself, for ever. `RefusedLeaves`: who is refused comes to the login page |
| `Frontend` | 2 nodes, nests and eggs, 2 openings of the dialog; 3 dialogs and 4 handlers on each page | `PayloadFits`, `OneCreation`: the dialog sends what was chosen, and once for each mounted dialog. `ListCurrent`, `FlagsHeld`, `DetailsOfNode`: the pages show the first page of what the backend has, release their buttons and delete under the right node |

What the properties of `Console` say of the code:

* `DelayBounded`: the count of retries, which doubles the delay, is at most the number of the
  component's sockets that are not open. It does not grow with the number of times a connection
  breaks: a timer is started by a disconnect only, a disconnect needs a connection, and a
  connection resets the count. A page that was not moved has one socket and waits the first delay
  every time. After a navigation the old and the new socket may both drop before either connects,
  and the second timer waits 2000 ms.
* `ComesBack`: a broken connection is tried again once; after a `connect_error` no timer runs, and
  the page shows the error until it is loaded again. That outcome is part of the property.
* `ShowsItsServer`: the timer of a page that was left connects its socket again, which stays
  subscribed for good; still no page shows another server's statistics, except one that the
  router moved from one server to another without unmounting it.
* `NewerUnlessOverlapped`: the page goes back to an older state only when two polls overlapped.
* `CommandOnce`: what was typed while the socket was closed is sent when it opens, once, and is
  echoed only after Wings has executed it.
* `TerminalFollows`: every line is written once and in order, up to the 2000th. Then the count of
  written lines equals the length of the window and the terminal writes nothing any more.

**Exceptions inside properties.** Where the code gives a guarantee up in a race, the race is part
of the property, as a history variable: `overlapped` (two polls; two calls that end in the store
of the session, other than two of the account page), `moved` (a page that the router took to
another server), `raced` (a row written while another request held a copy), `crossed` (a save that
wrote between the SELECT and the write of another), `broken` (a set of children deleted and not
saved), `disturbed` (a heartbeat and another handler of the status overlapped or a write failed; a
list failed or was overtaken, or an answer was lost), `contended` (administrators of a node
overlapped), `steady` (no heartbeat is missing and Docker took no longer than `Slack`), `late` (an
answer of the dialog came after the choice it was for). `ReadyNeedsSuccess` has the result
`assumed` (a wait that Docker cut short), `InstallResolves` a failed script. The property says
that nothing else breaks it. Without the exception TLC finds the race, so that the exempted
hazards are reachable in the models and not prevented by the code.

**Properties of one setting.** `ServersBound` fails when a server is deleted (`FreeAllocation`
and `RemoveServer` are two statements, and the first one writes an allocation read before the
call to Wings). `ContainerRecoverable` fails when a *start* comes by web socket, which
unlike REST does not look at the status: while `create_server` pulls the image the start creates
the container, a deletion removes container and configuration, and then `create_server` creates
a container of its own; it also needs creations that end before their deadline, for a creation
that timed out can be deleted while it pulls.
`InstallResolves` and `RequestsFinish` are checked without faults: with a lost report
(`installer.rs:176`), a restart (`state.rs:67`) or a failing Docker call a server does stay
installing. A failing script is no fault, and part of the property.

**Bounds.** Two handlers are enough for every race found; the racing runs of `PanelStore` and
`ServerLifecycle` have three or four, so that a third party may change what two have read (a
deletion that frees an allocation, a creation that takes it, an update that writes it back). Two
allocations and two servers allow the wrong one to be named. `MaxRange` is 1 instead of 1000:
the comparison is with the difference of the bounds, so any value shows the boundary. `Capacity`
is 2 with size 1. `CodesPerSetup` is 1 instead of 8.

In `NodeLink` a tick is 10 s: `Interval` 3, `Delay` 1 and `Threshold` 6 are the code's 30, 10 and
60 s. `Slack` 1 is the 10 s that Docker may take in a node called steady: 19 s would do in the
code, 2 ticks would not (30 + 20 + 10 is the threshold). `MaxLate` 2 lets the loop be late by two
ticks, after a hang, and make up for them. `MaxToken` 1 allows one regeneration, at any point of
another administrator's load and save; the token the node was created with is the one before it.
In `Account` one secret is enough: handlers ask whether there is one, not which, so that every
setup may draw it again. A verification that finds no backup codes left takes none;
`AccountCodeRace`, which is about codes, has two of each. In `Console` what a behaviour may
contain is one of the records of `Loads`: one run of the effect with three commands; two runs with
two commands; with a command, a changing container and an empty store; two polls at once with a
command and a changing container; one poll across two pages, with and without a token. `MaxLines`
is 2 instead of 2000: two lines have an order, and the third meets the limit. Polls and commands
that wait for Wings end or fail at any time, which covers every delay. In `Composites` owners
share nothing, so that one is enough; `MaxBatch` 3 lets what replaced its children be replaced.
`Portal`: two calls in flight can overtake each other, five acts are login, logout, login as
somebody else with a request and a reload between. In `Wizard` two openings let the answers and
the timer of the first meet the second; in `Pages` three dialogs do the same for create, edit and
delete, four handlers for lists that overtake each other. `PerPage` 2 with three identifiers
leaves a row out and lets it move up when one is deleted; `AllocsPerPage` 1 does so for
allocations.

**Symmetry.** Requests, servers, secrets, codes and rows of `Records` are interchangeable and
reduced by symmetry, except where a run checks liveness: `LifecycleProgress` takes its requests in
the order of their numbers instead (`OrderedLiveSpec`), which loses no behaviour but for the
names. In `MCFrontend` the nodes of the dialog are interchangeable, and an egg together with its
nest; the rows of the pages have an order, and are not.

**Deadlock** is checked for `PanelStore`, `Account` and `NodeLink`, whose requests are made again
and again. Elsewhere requests or acts are bounded and the system comes to rest.

**Fairness** is weak fairness everywhere.

* `ServerLifecycle`: of a request's next step in the Panel, of a call's next step in Wings, of a
  spawned background action, and of an install task, each by itself. The event loop of Node.js and
  the runtime of tokio run what is ready, Docker answers, and scripts end.
* `Console`: of each socket's connection attempt and timer, and of the gateway's handling of each
  connection's messages. Connecting succeeds or raises `connect_error`, after a timeout of its
  own.
* `Portal`: of the backend answering a call and of the answer arriving, for each call. A
  connection that is lost is closed by one side in the end, and the call then arrives as an error.

New requests, faults, the user and the network are not fair: nobody has to ask, nothing has to go
wrong.

## 4. Proofs

Every safety property of the runs, invariant or action property, is a theorem of the specification
it is checked for. The theorems hold for any constants that satisfy the `ASSUME`s of the modules:
`None` is not a value of anything, bounds are natural numbers, sets of requests or polls are
finite where they are counted, the initial allocations are unassigned and unique by node and port,
and in `NodeLink` the interval, the time Docker is expected to take and the timeout of the POST
together are below the threshold (30 s + `Slack` + 10 s < 60 s). So the small sets and the bounds
of section 3 are not part of the claim: these theorems are for any number of requests, rows,
users, sockets, calls in flight, commands, openings and lines.

Few of the properties are inductive: a step writes what was read long before, so an invariant
must also say what is on its way. The strengthenings stand beside the properties in the modules,
and TLC checked each of them on the run's instance before it was proved.

* `PanelStoreProofs!RelationConsistent`: `Spec => [](TypeOK /\ OwnerConsistent)`.
  `OwnerConsistent` is not inductive: a commit or a save writes what was read long ago. `IndInv`
  adds that no two servers claim one allocation (the unique column), that identifiers in use were
  issued (so that a stale identifier never names a new row), and what the requests in progress
  carry: a creation's allocation, if it still exists, is on the creation's node; an update's copy
  agrees with the row, if it still exists, and with the copy of every other update of that server.
  One lemma per action shows that `IndInv` is kept.
* `NeverStolen` and `OwnershipImplemented`: `Spec => AllocationNeverStolen` and
  `Spec => ImplementsOwnership`, from `IndInv`. Of the actions that write `serverId`, `Commit` is
  stopped by the unique column and `SaveUpdate` by the agreement of copies with rows; each action
  is shown to be a step of `Ownership` or to leave every owner as it is.
* `CreatedServersBound` and `UserDeletionSpares`: `ServersBound` and `UserDeletionSparesServers`
  under `NothingReleased` (no request updates or deletes servers or deletes allocations), which is
  the setting of their run and a condition on the constant `Ops`. `BoundInv` says that the
  row a creation has read stays for as long as its node.
* `ServerLifecycleProofs!ReadyAfterSuccess`: `Spec => [](TypeOK /\ ReadyNeedsSuccess)`, for any
  faults. The one exception, a wait that Docker cut short, is there only with the fault `docker`.
  The strengthening `ReadyInv` says that the row an update will write back was earned as well, and
  that no success is forgotten: a call that is not answered has no install task yet, and a task
  has no result before its wait returned. `StepKeeps` reduces each action to what it does to the
  request it belongs to.
* `ServerLifecycleProofs!ContainersRecoverable`: `CreationGuarded /\ Spec =>
  []ContainerRecoverable`. `CreationGuarded` is the setting of the run as a condition on `Ops` and
  `Faults` (section 3 says what happens outside it); Docker errors, lost reports and restarts
  remain. `RecoverInv` says what the creation relies on: it is the only one; while its call is out
  the status refuses a start, in the row and in every copy an update will write back, no start is
  on its way and no task exists, so there is no container for a deletion to find. After it, the
  mutex is enough: there is only one until a deletion has removed the configuration for good, and
  a start that has the configuration in hand holds it.
* `AccountProofs!NobodyLockedOut`: `A!Spec => [](A!TypeOK /\ SecondFactorPossible)`, with `A` the
  module `Account`. While no two saves crossed, `AccountInv` says the same of every row a handler
  has loaded and of every row an UPDATE will leave, and always that a verification carries a
  pending secret. A handful of lemmas say what moving on, loading, SELECT and UPDATE keep; the
  actions follow. `RowsRun` relates the run of `MCRows` to the two modules.
* `NodeLinkProofs`: `SteadyBounded` is the arithmetic of the heartbeat, with `Awaited` (the POST
  in flight has come as far as its handler) beside it; `SteadyIsOnline` follows. Both are about a
  node whose Docker answers within `Slack`, for any `Slack` the assumption admits.
  `StatusAlwaysFollows` rests on `StatusInv`: while nothing was disturbed, a status that is behind
  has a heartbeat about to write it, and what handlers carry agrees. `HandedTokenAlwaysAccepted`
  rests on `TokenInv`: while no administrators contended, an update carries the token of the row.
* `ConsoleProofs`: `ConsoleAlways` is the inductive invariant `ConsoleInv`, in five parts: a
  socket and the gateway's view of it agree (`SocketInv`), the mounted page and its run of the
  effect (`PageInv`), what polls carry is no newer than the container and no older than what the
  page shows (`PollInv`), every command is in one place (buffer, connection, waiting, executed)
  and in none twice (`CommandInv`), the terminal is a prefix of what was received (`TerminalInv`).
  `AlwaysShowsItsServer`, `CommandAlwaysOnce`, `TerminalAlwaysFollows` and the action property
  `NewerAlwaysUnlessOverlapped` follow from it. `DelayAlwaysBounded` is by itself: `DelayInv` is
  the property and the type of the count, and a socket that connects resets the count of all the
  sockets of its component.
* `ResourcesProofs`: `CompositeInv` (what a request in progress carries has one batch, and agrees
  with the children unless they were written since) gives `OneBatchAlways` and
  `LastUpdateAlwaysKept`; `RecordsInv` (an identifier being created is its request's own, and an
  update holds the row as it is unless it was written since) gives `RowsAlwaysAsRequested` and
  `RowsAlwaysConsistent`. Of a schedule `OneBatchAlways` holds while no two saves crossed, of an
  egg while no two requests wrote it at a time. `ResourcesRun` shows that the run is a run of both
  modules, so that the theorems are about what TLC explores.
* `PortalProofs`: `PortalInv` says that, while nothing has overlapped, the calls that end in the
  store are at most one or all of the account page, that a `checkAuth` in flight asks with the
  session the browser has, that a handler of the account page keeps the user of that session, and
  that after a logout nothing in flight can bring a user back. An answer of the account page
  that comes after a logout does: there the calls have overlapped. `ShownUserIsAlwaysSession` and
  `SignedOutAlwaysStays` follow.
* `FrontendProofs`: `WizardInv` (past its step a choice was made; while no list was overtaken,
  what is listed or loading is of the choice) gives `PayloadAlwaysFits` and `OneCreationAlways`;
  `PagesInv` (dialogs and handlers are numbered, a list on its way is the first page of the table
  or a handler will load it again, allocations on their way are of the node shown) gives
  `ListAlwaysCurrent`, `FlagsAlwaysHeld` and `DetailsAlwaysOfNode`. `OneCreationAlways` is about a
  mounted dialog: a page that was left and entered again may send a second creation. `FrontendRun`
  relates the run to the two modules.

The type invariants of all modules are proved along the way.

Only model-checked: the temporal properties under fairness (`InstallResolves`, `RequestsFinish`,
`ComesBack`, `Settles`, `RefusedLeaves`), which are out of the prover's reach, and the two
violations (`BackupCodeSingleUse`, `FailureReported`).

## 5. What the models contain that disagrees with a message, a document or an intention

Two disagreements are checked as violations (`AccountCodeRace`, `LifecycleFailure`). The others
were met while modelling; the models behave as the code does, and no property denies it.

Servers and nodes:

* creations that read the same sum overcommit a node (`servers.service.ts:145`);
* an allocation assigned between the check and the DELETE is deleted under its server
  (`allocations.service.ts:70`);
* a range of 1001 ports is accepted, where the message says 1000 (`allocations.service.ts:40`);
* a node deletion takes along a server created after the count (`admin-nodes.controller.ts:141`);
* an update inserts a server again that was deleted since the load, and undoes a suspension
  written since the load (`servers.service.ts:254`);
* a start that passed the check of the status is carried out after a suspension
  (`servers.service.ts:285`), and one by web socket is not checked (`websocket.gateway.ts:219`);
* the report of an installation overwrites the status suspended (`servers.service.ts:389`);
* a reinstallation leaves the status alone, so power actions are accepted while its script runs
  (`servers.service.ts:342`), and works on another directory than the server's volume
  (`/srv/daemon-data` against the configured `data_dir`);
* a failed script is never reported: the client library makes an error of its exit code, and the
  branch that notifies the Panel of a failure is not reached (`installer.rs:118`,
  `FailureReported`);
* a wait for a script that ends without an item is reported as a success (`installer.rs:117`);
* a script whose one report is lost leaves its server installing (`installer.rs:176`), and so does
  an egg without a script (`grpc.rs:134`);
* nothing starts a server after its installation (`grpc.rs:170`);
* the mutex is released before the stop, restart or kill it serialises has run (`grpc.rs:298`);
* an install task removes, as a leftover, the container of a script that runs (`installer.rs:62`);
* a Docker that takes 20 s to list the containers takes its node offline, and one that hangs stops
  the heartbeats (`heartbeat.rs:69`);
* of two administrators of a node, one may save a row that was loaded before the other generated a
  token: the token handed out is then refused (`nodes.service.ts:86`);
* no request sets `locationId` of a node; the heartbeat of a deleted node stays in the store.

Accounts and the browser:

* a save that writes the account between the SELECT and the UPDATE of another can leave the flag
  of the second factor without a secret: nobody can log in to that account then;
* an answer of the account page that comes after a logout shows the old user again
  (`AccountSettingsPage.tsx:77`, `auth.store.ts:66`), until the next request is refused;
* profile changes and disabling the second factor always fail on the page (no route `PATCH
  /account`; `password` instead of `code`);
* a refresh in progress makes a session valid again that was revoked since
  (`auth.service.ts:149`), and logging out does not revoke the session (`auth.controller.ts:105`);
* `register` sets no cookie, no page calls `refresh`, a user with a second factor cannot finish a
  login on the page, a login by user name is refused by the validation of `email`;
* `/auth/me` returns `rootAdmin` and the frontend reads `isAdmin`: the routes of `AdminRoute` show
  the dashboard. The administrator's pages in `Pages` are modelled as they behave once shown;
* `/admin/servers` has no route; the dialog of `Wizard` behaves as its component does;
* a failed logout clears the store and keeps the cookie: the next page load shows the user again;
* `ApiKeyGuard` and `CombinedAuthGuard` are on no route, so API keys open nothing.

Console:

* the hook sends the token of `localStorage`, which nothing writes: the cookie has
  authenticated the socket by then, and an empty token disconnects it (`websocket.gateway.ts`);
* the power state shown after a poll is always `offline`: the names of the proto enumeration
  (`STATE_RUNNING`) are compared with `running`;
* the terminal stops at 2000 lines (`TerminalFollows`).

Rows and pages:

* two updates of a schedule that both delete and read before either inserts leave the tasks of
  both (`schedules.service.ts:73`, `:85`);
* the seed never gets to its first statement: its `DataSource` lists the entities by hand and
  omits the location, which `node.entity.ts:88` refers to, so that `initialize()` throws
  (`seed.ts:28`, `seed.ts:38`). With `createNest` failing as well (below), no code at this commit
  inserts a nest; `Composites` and `Wizard` take nests as given;
* the page of the server dialog may be left and entered again while a creation is in flight, and
  the new dialog sends another (`CreateServerDialog.tsx:78`);
* the pages show the first 25 rows of their lists and never ask for more;
* the page of the API keys does not close its dialog after a success (`ApiKeysPage.tsx:43`);
* a creation of a location whose answer was lost may be submitted again with another key, and then
  is done twice;
* a save of a schedule with tasks the table does not know beside others fails, since the
  orphaned tasks may not lose their schedule; `execute` saves the tasks it loaded, and so brings
  superseded ones back; it executes nothing but the date;
* update and delete of subusers, schedules and databases look rows up by their id and do not
  compare their server;
* creating a nest lacks the author its entity requires, and creating a database needs a host of
  which no code inserts a row: both always fail;
* `NotificationsService.create` has no caller, SSE is fed by event handlers whose events nothing
  emits, and the receiver of the Wings event channel is never read;
* pages whose list route answers with a bare array show an empty list (locations, subusers,
  schedules, databases); the bodies that create a user, node, allocation, schedule or database
  carry fields the validation refuses; the routes that edit a user, those below `/admin/eggs` and
  `/account/api-keys`, and those that rotate a key or mark a notification as read do not exist;
* the success message of the server dialog is never seen, since success unmounts it.

Hazards that no model holds: the gRPC client of a node is cached by its address, so a node whose
scheme alone changes keeps the old credentials (`wings.service.ts:43`); `StatsPanel` divides by
limits that may be 0; handlers of pages without a `catch` leave a rejected promise.

## 6. Not modelled

* Wings' event channel and console buffer, the Panel's event handlers, SSE: nothing reads or
  feeds them today, as said above.
* Files (`files.rs`, the Panel's file routes, the files page): input and output of one request
  each. Wings' REST routes are a second front end to the Docker calls the Panel does not use.
* Search, audit log, health, notifications: they append or read.
* The seed: as it throws before its first statement, it has no behaviour worth a model.
* The variable validator: a pure function on rules and strings, better served by its unit tests.
* Pages that show, or send one form: dashboards, settings, startup, sessions, audit log; layout
  and theme.
* Configuration files, wiring, shared type declarations.
* The container of a server is named after the first eight hex digits of its UUID; that two
  servers of a node share them is not modelled.
* `assign` and `unassign` of the allocation service, `validateApiKey` and the deletion from the
  heartbeat store have no caller that runs.

What is left of the plan: an abstract server (absent, installing, ready, failed, suspended) that
`ServerLifecycle` implements in the settings of its runs, with its refinement proved; and the
safety half of the liveness properties as theorems (what may delay an installation or keep a call
of the session in flight, as an invariant).
