------------------------------- MODULE Console -------------------------------
(***************************************************************************)
(* The console page of a server: the socket of useServerWebSocket, the     *)
(* gateway behind it with its rooms, subscriptions and polls, and the      *)
(* terminal that writes the lines the hook keeps.                          *)
(* A run of the hook's effect is an instance h: navigating to another      *)
(* server starts a new one in the same component, leaving the page         *)
(* unmounts the component; the socket of an old instance stays in the      *)
(* browser.  Socket.io delivers in order, so that what the gateway emits   *)
(* is received in the step that emits it; what a client emits waits in     *)
(* sent[h].  A command is its number, a line the number of the command it  *)
(* echoes: the status Wings answers with has no console output.            *)
(***************************************************************************)
EXTENDS Integers, Sequences, FiniteSets

CONSTANTS
  Servers,
  Polls,        \* polls that may be in progress at a time
  Loads,        \* bounds of a behaviour: runs of the effect, commands and power actions,
                \* polls at a time, changes of a container after which none changes
  MaxHooks,     \* the largest bound of runs of the effect of the hook
  MaxCommands,  \* the largest bound of commands
  MaxChanges,   \* the largest bound of changes
  MaxLines,     \* lines the hook keeps (2000)
  None

Hooks == 1 .. MaxHooks
Commands == 1 .. MaxCommands

\* What a page, a socket of it and the gateway's view of that socket are made of.
Message ==
  [type : {"send_command"}, id : Commands]
    \cup [type : {"send_power_action"}, id : Commands, action : {"start", "stop", "restart", "kill"}]
Page ==
  [hook : Hooks, server : Servers,
   connection : {"connecting", "connected", "disconnected", "error"},
   power : {"offline", "starting", "running", "stopping"},
   stats : [server : Servers, changes : 0 .. MaxChanges] \cup {None},
   lines : Seq(Commands), received : Seq(Commands), written : Nat, terminal : Seq(Commands)]
Socket ==
  [server : Servers \cup {None}, mounted : BOOLEAN,
   component : Hooks \cup {None}, link : {"unused", "connecting", "open", "closed"},
   timer : BOOLEAN, buffer : Seq(Message)]
Client ==
  [user : BOOLEAN, server : Servers \cup {None}, rooms : SUBSET Servers, console : BOOLEAN,
   stats : BOOLEAN]

ASSUME ConstantsAssumption ==
  /\ MaxHooks \in Nat \ {0} /\ MaxCommands \in Nat /\ MaxChanges \in Nat
  /\ MaxLines \in Nat \ {0}
  /\ Loads \subseteq [hooks : 0 .. MaxHooks, commands : 0 .. MaxCommands,
                       polls : SUBSET Polls, changes : 0 .. MaxChanges, stored : {"", "jwt"}]
  /\ IsFiniteSet(Polls)
  /\ None \notin Hooks /\ None \notin Servers /\ None \notin Page /\ None \notin Client

VARIABLES
  load,       \* the bounds of this behaviour, and accessToken of localStorage: "" unless
              \* something else than this program has put it there
  container,  \* per server: the state Docker reports, and how often it has changed
  page,       \* the mounted component, or None
  hooks,      \* how often the effect has run
  hook,       \* the socket of each run of the effect, and the component the run is of: a
              \* component goes by the number of its first run
  retries,    \* retriesRef of each component
  sent,       \* messages the gateway has not handled yet, per connection
  client,     \* the gateway's view of each connection, or None
  tasks,      \* commands the gateway waits for Wings with
  poll,       \* the polls in progress
  typed,      \* commands and power actions sent so far
  executed,   \* history: commands Wings has executed, in order
  moved,      \* history: the mounted page has been moved to another server
  overlapped  \* history: polls of statistics in progress have overlapped

vars == <<load, container, page, hooks, hook, retries, sent, client, tasks, poll, typed, executed,
          moved, overlapped>>

DockerState == {"created", "running", "exited"}
ProtoState == {"STATE_RUNNING", "STATE_STARTING", "STATE_OFFLINE", "STATE_UNKNOWN"}

\* docker_state_to_proto, and the name proto-loader gives the value (enums: String).
DockerStateToProto(state) ==
  CASE state = "running" -> "STATE_RUNNING"
    [] state \in {"created", "restarting"} -> "STATE_STARTING"
    [] state \in {"paused", "exited", "dead", "removing"} -> "STATE_OFFLINE"
    [] OTHER -> "STATE_UNKNOWN"

\* The names are no numbers, and with their prefix none of the names compared.
MapGrpcState(state) ==
  IF state \in {"running", "starting", "stopping"} THEN state ELSE "offline"

\* The buttons of the page that are not disabled.
PowerButtons(powerState) ==
  (IF powerState \in {"running", "starting"} THEN {} ELSE {"start"})
    \cup (IF powerState = "offline" THEN {} ELSE {"stop", "restart", "kill"})

NoHook == [server |-> None, mounted |-> FALSE, component |-> None, link |-> "unused",
           timer |-> FALSE, buffer |-> << >>]
NoPoll == [todo |-> {}, at |-> None, status |-> None]

NewPage(u) ==
  [hook |-> 1, server |-> u, connection |-> "connecting", power |-> "offline",
   stats |-> None, lines |-> << >>, received |-> << >>,
   written |-> 0, terminal |-> << >>]

Init ==
  /\ load \in Loads
  /\ typed = 0
  /\ container = [u \in Servers |-> [state |-> "created", changes |-> 0]]
  /\ page = None
  /\ hooks = 0
  /\ hook = [h \in Hooks |-> NoHook]
  /\ retries = [h \in Hooks |-> 0]
  /\ sent = [h \in Hooks |-> << >>]
  /\ client = [h \in Hooks |-> None]
  /\ tasks = {}
  /\ poll = [p \in Polls |-> NoPoll]
  /\ executed = << >>
  /\ moved = FALSE
  /\ overlapped = FALSE

-----------------------------------------------------------------------------
(* The socket of a run of the effect                                       *)

Mounted == page # None
\* setState of the component the run h belongs to; a no-op when it is unmounted.
SetPage(h, new) == IF hook[h].mounted THEN new ELSE page

\* What the handler of 'connect' emits.
Greeting == <<[type |-> "auth"], [type |-> "subscribe_console"], [type |-> "subscribe_stats"]>>

NewSocket(u, c) ==
  [NoHook EXCEPT !.server = u, !.mounted = TRUE, !.component = c, !.link = "connecting"]

\* The handler of 'disconnect': offline, and one timer to connect again, after a time that
\* doubles with every retry the component has counted.  It runs for the disconnect of the
\* clean-up as well.
Disconnected(s) == [s EXCEPT !.link = "closed", !.timer = TRUE]
Retried(h) == [retries EXCEPT ![hook[h].component] = @ + 1]
PageDisconnected(pg) == [pg EXCEPT !.connection = "disconnected", !.power = "offline"]

\* socket.disconnect() raises 'disconnect' only on a socket that is connected.
CleanUp(s) == IF s.link = "open" THEN Disconnected(s) ELSE [s EXCEPT !.link = "closed"]
RetriedByCleanUp(h) == IF hook[h].link = "open" THEN Retried(h) ELSE retries

\* Mutant: the subscriptions of the client are not deleted.
HandleDisconnectKeeping(h) ==
  /\ sent' = [sent EXCEPT ![h] = << >>]
  /\ tasks' = {[t EXCEPT !.hook = IF @ = h THEN None ELSE @] : t \in tasks}
  /\ UNCHANGED client

\* The connection of h is gone on the side of the gateway: handleDisconnect.
HandleDisconnect(h) ==
  /\ client' = [client EXCEPT ![h] = None]
  /\ sent' = [sent EXCEPT ![h] = << >>]
  /\ tasks' = {[t EXCEPT !.hook = IF @ = h THEN None ELSE @] : t \in tasks}

\* The page of server u is opened and the effect runs.
Open(u) ==
  /\ ~Mounted /\ hooks < load.hooks
  /\ hooks' = hooks + 1
  /\ page' = [NewPage(u) EXCEPT !.hook = hooks + 1]
  /\ hook' = [hook EXCEPT ![hooks + 1] = NewSocket(u, hooks + 1)]
  /\ moved' = FALSE
  /\ UNCHANGED <<retries, container, sent, client, tasks, poll, executed>>

\* The route changes to the console of another server: the component stays, its state
\* with it; the effect is cleaned up and runs again.
Navigate(u) ==
  /\ Mounted /\ page.server # u /\ hooks < load.hooks
  /\ hooks' = hooks + 1
  /\ LET old == page.hook IN
     /\ hook' = [hook EXCEPT ![hooks + 1] = NewSocket(u, hook[old].component),
                             ![old] = CleanUp(hook[old])]
     /\ retries' = RetriedByCleanUp(old)
     /\ HandleDisconnect(old)
     /\ page' = [(IF hook[old].link = "open" THEN PageDisconnected(page) ELSE page)
                   EXCEPT !.hook = hooks + 1, !.server = u]
  /\ moved' = TRUE
  /\ UNCHANGED <<container, poll, executed>>

Leave ==
  /\ Mounted
  /\ page' = None
  /\ hook' = [h \in Hooks |->
               [(IF h = page.hook THEN CleanUp(hook[h]) ELSE hook[h]) EXCEPT !.mounted = FALSE]]
  /\ retries' = RetriedByCleanUp(page.hook)
  /\ HandleDisconnect(page.hook)
  /\ UNCHANGED <<container, hooks, poll, executed, moved>>

\* handleConnection: with a session cookie that verifies the client is a user's and in the
\* room of the server; without one it is left to handleAuth.
HandleConnection(h, valid) ==
  [user |-> valid, server |-> IF valid THEN hook[h].server ELSE None,
   rooms |-> IF valid THEN {hook[h].server} ELSE {}, console |-> valid, stats |-> valid]

\* Mutant: the number of retries is kept when the socket connects.
ConnectKeepingRetries(h) ==
  /\ hook[h].link = "connecting"
  /\ \E valid \in BOOLEAN : client' = [client EXCEPT ![h] = HandleConnection(h, valid)]
  /\ hook' = [hook EXCEPT ![h].link = "open", ![h].buffer = << >>]
  /\ UNCHANGED retries
  /\ sent' = [sent EXCEPT ![h] = hook[h].buffer \o Greeting]
  /\ page' = SetPage(h, [page EXCEPT !.connection = "connected"])
  /\ UNCHANGED <<container, hooks, tasks, poll, executed, moved>>

\* Mutant: the buffer is not emptied when it is sent.
ConnectKeepingBuffer(h) ==
  /\ hook[h].link = "connecting"
  /\ \E valid \in BOOLEAN : client' = [client EXCEPT ![h] = HandleConnection(h, valid)]
  /\ hook' = [hook EXCEPT ![h].link = "open"]
  /\ retries' = [retries EXCEPT ![hook[h].component] = 0]
  /\ sent' = [sent EXCEPT ![h] = hook[h].buffer \o Greeting]
  /\ page' = SetPage(h, [page EXCEPT !.connection = "connected"])
  /\ UNCHANGED <<container, hooks, tasks, poll, executed, moved>>

\* The hook's 'connect' emits after what the socket has buffered while it was closed.
Connect(h) ==
  /\ hook[h].link = "connecting"
  /\ \E valid \in BOOLEAN : client' = [client EXCEPT ![h] = HandleConnection(h, valid)]
  /\ hook' = [hook EXCEPT ![h].link = "open", ![h].buffer = << >>]
  /\ retries' = [retries EXCEPT ![hook[h].component] = 0]
  /\ sent' = [sent EXCEPT ![h] = hook[h].buffer \o Greeting]
  /\ page' = SetPage(h, [page EXCEPT !.connection = "connected"])
  /\ UNCHANGED <<container, hooks, tasks, poll, executed, moved>>

\* 'connect_error' sets the status and nothing else: reconnection is off.
ConnectError(h) ==
  /\ hook[h].link = "connecting"
  /\ hook' = [hook EXCEPT ![h].link = "closed"]
  /\ page' = SetPage(h, [page EXCEPT !.connection = "error"])
  /\ UNCHANGED <<retries, container, hooks, sent, client, tasks, poll, executed, moved>>

\* The connection breaks (or the Panel restarts).
Close(h) ==
  /\ hook[h].link = "open"
  /\ hook' = [hook EXCEPT ![h] = Disconnected(@)]
  /\ retries' = Retried(h)
  /\ page' = SetPage(h, PageDisconnected(page))
  /\ HandleDisconnect(h)
  /\ UNCHANGED <<container, hooks, poll, executed, moved>>

\* Mutant: the timer connects only the sockets of pages that were left.
TimerFiresNever(h) ==
  /\ hook[h].timer /\ ~hook[h].mounted
  /\ hook' = [hook EXCEPT ![h].timer = FALSE,
                          ![h].link = IF @ = "closed" THEN "connecting" ELSE @]
  /\ UNCHANGED <<retries, container, page, hooks, sent, client, tasks, poll, executed, moved>>

\* The timer calls socket.connect(), whether or not the page is still there.
TimerFires(h) ==
  /\ hook[h].timer
  /\ hook' = [hook EXCEPT ![h].timer = FALSE,
                          ![h].link = IF @ = "closed" THEN "connecting" ELSE @]
  /\ UNCHANGED <<retries, container, page, hooks, sent, client, tasks, poll, executed, moved>>

-----------------------------------------------------------------------------
(* Commands and power actions                                              *)

\* socketRef.current.emit: a socket that is closed keeps the message in its buffer.
Emit(msg) ==
  LET h == page.hook IN
  IF hook[h].link = "open"
  THEN sent' = [sent EXCEPT ![h] = Append(@, msg)] /\ UNCHANGED hook
  ELSE hook' = [hook EXCEPT ![h].buffer = Append(@, msg)] /\ UNCHANGED sent

\* handleSend of the page and Enter in the terminal; the buttons of PowerControls.
SendCommand ==
  /\ Mounted /\ typed < load.commands
  /\ typed' = typed + 1
  /\ Emit([type |-> "send_command", id |-> typed + 1])
  /\ UNCHANGED <<retries, container, page, hooks, client, tasks, poll, executed, moved>>

ClickPower ==
  /\ Mounted /\ typed < load.commands
  /\ typed' = typed + 1
  /\ \E action \in PowerButtons(page.power) : 
       Emit([type |-> "send_power_action", id |-> typed + 1, action |-> action])
  /\ UNCHANGED <<retries, container, page, hooks, client, tasks, poll, executed, moved>>

\* A message of the gateway reaches the handler of 'message' of run h.
ConsoleOutput(pg, line) ==
  [pg EXCEPT !.lines = LET next == Append(@, line)
                       IN  IF Len(next) > MaxLines THEN Tail(next) ELSE next,
             !.received = Append(@, line)]
PowerStateMessage(pg, state) ==
  [pg EXCEPT !.power = MapGrpcState(state)]
StatsUpdate(pg, u, status) ==
  [PowerStateMessage(pg, status.state) EXCEPT
     !.stats = [server |-> u, changes |-> status.changes]]

-----------------------------------------------------------------------------
(* The gateway                                                             *)

Handled(h) == sent' = [sent EXCEPT ![h] = Tail(@)]

\* handleAuth: with a token that does not verify the client is disconnected.
HandleAuth(h) ==
  /\ sent[h] # << >> /\ Head(sent[h]).type = "auth"
  /\ IF load.stored = "jwt"
     THEN /\ client' = [client EXCEPT ![h].user = TRUE, ![h].server = hook[h].server,
                                      ![h].rooms = @ \cup {hook[h].server}]
          /\ Handled(h)
          /\ UNCHANGED <<hook, retries, page, tasks>>
     ELSE /\ hook' = [hook EXCEPT ![h] = Disconnected(@)]
          /\ retries' = Retried(h)
          /\ page' = SetPage(h, PageDisconnected(page))
          /\ HandleDisconnect(h)
  /\ UNCHANGED <<container, hooks, poll, executed, moved>>

HandleSubscribe(h) ==
  /\ sent[h] # << >> /\ Head(sent[h]).type \in {"subscribe_console", "subscribe_stats"}
  /\ client' = IF client[h].user
               THEN [client EXCEPT ![h].console = @ \/ Head(sent[h]).type = "subscribe_console",
                                   ![h].stats = @ \/ Head(sent[h]).type = "subscribe_stats"]
               ELSE client
  /\ Handled(h)
  /\ UNCHANGED <<retries, container, page, hooks, hook, tasks, poll, executed, moved>>

\* handleSendCommand and handleSendPowerAction up to their first await.
HandleSend(h) ==
  /\ sent[h] # << >> /\ Head(sent[h]).type \in {"send_command", "send_power_action"}
  /\ tasks' = IF client[h].user /\ client[h].server # None
              THEN tasks \cup {[hook |-> h, server |-> client[h].server, message |-> Head(sent[h])]}
              ELSE tasks
  /\ Handled(h)
  /\ UNCHANGED <<retries, container, page, hooks, hook, client, poll, executed, moved>>

IsCommand(t) == t.message.type = "send_command"

MayChange == \A u \in Servers : container[u].changes < load.changes

AfterAction(c, action) ==
  IF MayChange
  THEN [state |-> IF action \in {"stop", "kill"} THEN "exited" ELSE "running",
        changes |-> c.changes + 1]
  ELSE c

\* Wings has executed it; the client that sent it, if it is still there, is told.
TaskSucceeds(t) ==
  /\ t \in tasks
  /\ tasks' = tasks \ {t}
  /\ IF IsCommand(t)
     THEN executed' = Append(executed, t.message.id) /\ UNCHANGED container
     ELSE /\ container' = [container EXCEPT ![t.server] = AfterAction(@, t.message.action)]
          /\ UNCHANGED executed
  /\ page' = IF t.hook = None THEN page
             ELSE SetPage(t.hook, IF IsCommand(t) THEN ConsoleOutput(page, t.message.id)
                                  ELSE PowerStateMessage(page, t.message.action))
  /\ UNCHANGED <<retries, hooks, hook, sent, client, poll, moved>>

\* The row is gone, or Wings fails: an error message, which the hook ignores.  When
\* only the answer is lost Wings has executed it all the same.
TaskFails(t) ==
  /\ t \in tasks
  /\ tasks' = tasks \ {t}
  /\ executed' \in {executed} \cup
                   (IF IsCommand(t) THEN {Append(executed, t.message.id)} ELSE {})
  /\ UNCHANGED <<retries, container, page, hooks, hook, sent, client, poll, moved>>

\* getSubscribedServerUuids("stats")
Subscribed ==
  {client[h].server : h \in {g \in Hooks : client[g] # None /\ client[g].server # None
                                          /\ client[g].stats}}

\* The timer of pollStats, whether or not the last poll has ended.  pollConsole asks for
\* the same status on a timer of its own, finds no output in it and does nothing.
StartPoll(p) ==
  /\ p \in load.polls /\ poll[p] = NoPoll
  /\ Subscribed # {}
  /\ poll' = [poll EXCEPT ![p].todo = Subscribed]
  /\ UNCHANGED <<retries, container, page, hooks, hook, sent, client, tasks, executed, moved>>

\* Mutant: the answers of a poll are kept for the whole poll, as if the first status
\* that was read were that of every server.
GetServerStatusOnce(p) ==
  /\ poll[p].todo # {} /\ poll[p].at = None
  /\ \E u \in poll[p].todo :
        poll' = [poll EXCEPT ![p] =
          [todo |-> @.todo \ {u}, at |-> u,
           status |-> IF @.status # None THEN @.status
                      ELSE [state |-> DockerStateToProto(container[u].state),
                            changes |-> container[u].changes]]]
  /\ UNCHANGED <<retries, container, page, hooks, hook, sent, client, tasks, executed, moved>>

\* The row of the next server is found and getServerStatus of Wings reads the state of
\* its container.
GetServerStatus(p) ==
  /\ poll[p].todo # {} /\ poll[p].at = None
  /\ \E u \in poll[p].todo :
        poll' = [poll EXCEPT ![p] =
          [todo |-> @.todo \ {u}, at |-> u,
           status |-> [state |-> DockerStateToProto(container[u].state),
                       changes |-> container[u].changes]]]
  /\ UNCHANGED <<retries, container, page, hooks, hook, sent, client, tasks, executed, moved>>

\* The poll goes on with the next server, or has ended.
PollDone(p) ==
  poll' = [poll EXCEPT ![p] = IF @.todo = {} THEN NoPoll
                              ELSE [@ EXCEPT !.at = None]]

\* Mutant: the answer is emitted to every client.
PollAnsweredToAll(p) ==
  /\ poll[p].at # None
  /\ PollDone(p)
  /\ page' = IF Mounted /\ \E h \in Hooks : client[h] # None
             THEN StatsUpdate(page, poll[p].at, poll[p].status) ELSE page
  /\ UNCHANGED <<retries, container, hooks, hook, sent, client, tasks, executed, moved>>

\* emitStatsUpdate and emitPowerState to the room of the server.
PollAnswered(p) ==
  /\ poll[p].at # None
  /\ PollDone(p)
  /\ LET u == poll[p].at
         room == {h \in Hooks : client[h] # None /\ u \in client[h].rooms}
     IN  page' = IF \E h \in room : hook[h].mounted
                 THEN StatsUpdate(page, u, poll[p].status) ELSE page
  /\ UNCHANGED <<retries, container, hooks, hook, sent, client, tasks, executed, moved>>

\* The row is gone, Wings does not know the server, or the deadline of 30 s has passed.
PollFails(p) ==
  /\ poll[p].at # None
  /\ PollDone(p)
  /\ UNCHANGED <<retries, container, page, hooks, hook, sent, client, tasks, executed, moved>>

\* The container changes for other reasons: it ends, or the REST route starts it.
ContainerChanges(u) ==
  /\ MayChange
  /\ container' = [container EXCEPT ![u] =
       [state |-> IF @.state = "running" THEN "exited" ELSE "running", changes |-> @.changes + 1]]
  /\ UNCHANGED <<retries, page, hooks, hook, sent, client, tasks, poll, executed, moved>>

-----------------------------------------------------------------------------
(* The terminal                                                            *)

\* Mutant: the count is not brought up to date.
WriteLinesAgain ==
  /\ Mounted /\ page.written < Len(page.lines)
  /\ page' = [page EXCEPT !.terminal = @ \o SubSeq(page.lines, page.written + 1, Len(page.lines))]
  /\ Len(page.terminal) < MaxCommands
  /\ UNCHANGED <<retries, container, hooks, hook, sent, client, tasks, poll, executed, moved>>

\* The effect on [lines] writes what lies behind the count of lines written.
WriteLines ==
  /\ Mounted /\ page.written < Len(page.lines)
  /\ page' = [page EXCEPT
       !.terminal = @ \o SubSeq(page.lines, page.written + 1, Len(page.lines)),
       !.written = Len(page.lines)]
  /\ UNCHANGED <<retries, container, hooks, hook, sent, client, tasks, poll, executed, moved>>

-----------------------------------------------------------------------------

Browser ==
  \/ \E u \in Servers : Open(u) \/ Navigate(u)
  \/ Leave \/ WriteLines
  \/ \E h \in Hooks : ConnectError(h) \/ Close(h)

Reconnection(h) == Connect(h) \/ TimerFires(h)
GatewayHandles(h) == HandleAuth(h) \/ HandleSubscribe(h) \/ HandleSend(h)

Polling(p) ==
  StartPoll(p) \/ GetServerStatus(p) \/ PollAnswered(p) \/ PollFails(p)

StatsPolls == {p \in Polls : poll[p] # NoPoll}

\* What every step leaves alone, and the overlap of polls it remembers.
Frame ==
  /\ load' = load
  /\ overlapped' = (Cardinality(StatsPolls') > 1 \/ (overlapped /\ StatsPolls' # {}))

Typing == (SendCommand \/ ClickPower) /\ Frame
Other ==
  /\ \/ Browser
     \/ \E h \in Hooks : Reconnection(h) \/ GatewayHandles(h)
     \/ \E t \in tasks : TaskSucceeds(t) \/ TaskFails(t)
     \/ \E p \in Polls : Polling(p)
     \/ \E u \in Servers : ContainerChanges(u)
  /\ UNCHANGED typed
  /\ Frame

Next == Typing \/ Other

\* The timers of the browser and the event loop of the Panel run; the user, the network
\* and Wings owe nothing.
Spec ==
  /\ Init /\ [][Next]_vars
  /\ \A h \in Hooks : /\ WF_vars(Reconnection(h) /\ UNCHANGED typed /\ Frame)
                      /\ WF_vars(GatewayHandles(h) /\ UNCHANGED typed /\ Frame)

-----------------------------------------------------------------------------
(* Properties                                                              *)

SetOf(s) == {s[i] : i \in 1 .. Len(s)}

\* Sockets, connections, polls and the page hold values of their types.
TypeOK ==
  /\ \A u \in Servers : container[u] \in [state : DockerState, changes : 0 .. MaxChanges]
  /\ hooks \in 0 .. MaxHooks /\ typed \in 0 .. MaxCommands
  /\ \A h \in Hooks :
       /\ hook[h].server \in Servers \cup {None}
       /\ hook[h].link \in {"unused", "connecting", "open", "closed"}
       /\ hook[h].component \in Hooks \cup {None} /\ retries[h] \in Nat
       /\ hook[h].timer \in BOOLEAN /\ hook[h].mounted \in BOOLEAN
       /\ SetOf(hook[h].buffer) \subseteq Message
       /\ SetOf(sent[h]) \subseteq SetOf(Greeting) \cup Message
       /\ client[h] # None => client[h].rooms \subseteq Servers
       /\ (client[h] # None) = (hook[h].link = "open")
  /\ \A t \in tasks : t.message \in Message /\ t.hook \in Hooks \cup {None}
  /\ \A p \in Polls : poll[p].at \in Servers \cup {None} /\ poll[p].todo \subseteq Servers
  /\ Mounted => /\ page.power \in {"offline", "starting", "running", "stopping"}
                /\ page.server \in Servers /\ page.hook \in Hooks
                /\ SetOf(page.lines) \subseteq Commands

\* The time after which a socket connects again doubles with every retry the component has
\* counted since one of its sockets connected.  It does not grow with the number of times a
\* connection breaks: the timer is started by a disconnect only, which needs a connection,
\* and that resets the count.  All sockets of a component share the count, and so it may
\* reach the number of those that are not open: 1 on a page that was not moved, which waits
\* the first delay every time.
Waiting(c) == {h \in Hooks : hook[h].component = c /\ hook[h].link # "open"}
DelayBounded == \A c \in Hooks : retries[c] <= Cardinality(Waiting(c))

\* The statistics the page shows are those of its server, although sockets of earlier
\* visits stay connected and polled; only a page that was moved to another server
\* without leaving it may show those of the server it was opened with.
ShowsItsServer == (Mounted /\ page.stats # None) => page.stats.server = page.server \/ moved

\* What the page shows of a server goes back to an older state only when polls
\* overlapped, which nothing prevents: the interval does not wait for the last poll.
NewerUnlessOverlapped ==
  [][(/\ Mounted /\ Mounted' /\ page.stats # None /\ page'.stats # None
      /\ page.stats.server = page'.stats.server
      /\ page'.stats.changes < page.stats.changes) => overlapped]_vars

\* A command is executed once at most, although the socket keeps what is sent while it
\* is closed and sends it when it is open again, and the page echoes it only after that.
CommandOnce ==
  /\ \A i, j \in 1 .. Len(executed) : executed[i] = executed[j] => i = j
  /\ Mounted => SetOf(page.received) \subseteq SetOf(executed)

\* Up to MAX_LINES lines the terminal shows every line received, in order and once,
\* as soon as its effect has run.  From then on the count of written lines is as long
\* as the window of the hook, and nothing is written any more.
TerminalFollows ==
  Mounted =>
    /\ Len(page.received) <= MaxLines =>
         page.terminal = SubSeq(page.received, 1, page.written)
    /\ Len(page.terminal) <= MaxLines

-----------------------------------------------------------------------------
(* The inductive invariants the safety properties rest on                  *)

\* The gateway knows a connection exactly while the socket of it is open; what waits is
\* either in the buffer of a closed socket or on its way from an open one; and a connection
\* is in no other room than that of the server its effect has run for.
Consistent(s, c, q) ==
  /\ s.link = "open" <=> c # None
  /\ s.link = "open" => s.buffer = << >>
  /\ s.link # "open" => q = << >>
  /\ s.link # "unused" => s.server \in Servers /\ s.component \in Hooks
  /\ c # None => c.server \in {s.server, None} /\ c.rooms \subseteq {s.server}

SocketInv ==
  /\ load \in Loads /\ hooks \in 0 .. MaxHooks
  /\ hook \in [Hooks -> Socket] /\ client \in [Hooks -> Client \cup {None}]
  /\ sent \in [Hooks -> Seq(SetOf(Greeting) \cup Message)]
  /\ \A h \in Hooks : Consistent(hook[h], client[h], sent[h])
  /\ \A h \in Hooks : h > hooks => hook[h] = NoHook

\* Why: a run of the effect that still changes the page is that of the page, unless the
\* page was moved, so that the room it is in is that of the server shown.
PageInv ==
  /\ page \in Page \cup {None} /\ moved \in BOOLEAN
  /\ \A h \in Hooks : hook[h].mounted => Mounted /\ (moved \/ h = page.hook)
  /\ Mounted => /\ page.hook \in 1 .. hooks /\ hook[page.hook].server = page.server
                /\ hook[page.hook].component \in Hooks
  /\ ShowsItsServer

\* Why: without overlap there is one poll, and the status it has read is no older than
\* what the page shows, nor newer than the container.
PollInv ==
  /\ container \in [Servers -> [state : DockerState, changes : 0 .. MaxChanges]]
  /\ poll \in [Polls -> [todo : SUBSET Servers, at : Servers \cup {None},
                         status : [state : ProtoState, changes : 0 .. MaxChanges] \cup {None}]]
  /\ overlapped \in BOOLEAN
  /\ ~overlapped => \A p, q \in StatsPolls : p = q
  /\ \A p \in Polls : poll[p].at # None =>
       /\ poll[p].status \in [state : ProtoState, changes : 0 .. MaxChanges]
       /\ poll[p].status.changes <= container[poll[p].at].changes
  /\ Mounted /\ page.stats # None =>
       /\ page.stats.changes <= container[page.stats.server].changes
       /\ ~overlapped => \A p \in Polls : poll[p].at = page.stats.server =>
            page.stats.changes <= poll[p].status.changes

\* Why: a message with a number is in one place at a time, in a buffer or under way, with
\* Wings, or executed.
Queue(h) == IF hook[h].link = "open" THEN sent[h] ELSE hook[h].buffer
Numbered(m) == m.type \in {"send_command", "send_power_action"}

CommandInv ==
  /\ typed \in 0 .. MaxCommands
  /\ tasks \subseteq [hook : Hooks \cup {None}, server : Servers, message : Message]
  /\ executed \in Seq(Commands)
  /\ \A h \in Hooks : \A i \in 1 .. Len(Queue(h)) : LET m == Queue(h)[i] IN Numbered(m) =>
       /\ m.id <= typed
       /\ \A g \in Hooks : \A j \in 1 .. Len(Queue(g)) :
            Numbered(Queue(g)[j]) /\ Queue(g)[j].id = m.id => g = h /\ j = i
       /\ \A t \in tasks : t.message.id # m.id
       /\ \A k \in 1 .. Len(executed) : executed[k] # m.id
  /\ \A t \in tasks :
       /\ t.message.id <= typed
       /\ \A o \in tasks : o.message.id = t.message.id => o = t
       /\ \A k \in 1 .. Len(executed) : executed[k] # t.message.id
  /\ \A k \in 1 .. Len(executed) : executed[k] <= typed
  /\ CommandOnce

\* Why: the terminal has as many lines as the count says, and the window of the hook is
\* all that was received until it slides.
TerminalInv ==
  Mounted =>
    /\ Len(page.lines) <= MaxLines /\ Len(page.lines) <= Len(page.received)
    /\ Len(page.received) <= MaxLines => page.lines = page.received
    /\ page.written <= Len(page.lines) /\ Len(page.terminal) = page.written
    /\ TerminalFollows

\* The count of retries, with its type.
DelayInv == retries \in [Hooks -> Nat] /\ DelayBounded

ConsoleInv == SocketInv /\ PageInv /\ PollInv /\ CommandInv /\ TerminalInv

\* A page whose connection broke is connected again, fails to, or is left: with one
\* attempt only, since connect_error starts no timer.
ComesBack ==
  (Mounted /\ page.connection = "disconnected")
    ~> (~Mounted \/ page.connection \in {"connected", "error"})
=============================================================================
