----------------------------- MODULE ConsoleProofs -----------------------------
(***************************************************************************)
(* The console page, its sockets and the gateway behind them: the          *)
(* invariants of Console, for any servers and any number of visits,        *)
(* broken connections, commands and overlapping polls.                     *)
(***************************************************************************)
EXTENDS Console, FiniteSetTheorems, SequenceTheorems, TLAPS

-----------------------------------------------------------------------------
(* The socket of a run of the effect, the gateway's view of it and what    *)
(* is on its way.                                                          *)

Wire == SetOf(Greeting) \cup Message

\* The bounds are numbers.
LEMMA Bounds == MaxHooks \in Nat /\ MaxCommands \in Nat /\ MaxChanges \in Nat /\ MaxLines \in Nat
BY ConstantsAssumption

\* The greeting carries no command and no power action.
LEMMA GreetingQuiet ==
  /\ Greeting \in Seq(Wire) /\ Len(Greeting) = 3
  /\ \A i \in 1 .. 3 : ~Numbered(Greeting[i])
  /\ \A m \in Message : Numbered(m)
  /\ \A m \in Wire : Numbered(m) => m \in Message /\ m.id \in Commands
<1>1. Len(Greeting) = 3
  BY DEF Greeting
<1>2. \A i \in 1 .. 3 : ~Numbered(Greeting[i]) /\ Greeting[i] \in Wire
  BY <1>1 DEF Greeting, Numbered, Wire, SetOf
<1>3. Greeting \in Seq(Wire)
  BY <1>1, <1>2 DEF Greeting
<1>4. \A m \in Message : Numbered(m) /\ m.id \in Commands
  BY DEF Message, Numbered
<1>5. \A m \in SetOf(Greeting) : ~Numbered(m)
  BY <1>1, <1>2 DEF SetOf
<1> QED
  BY <1>1, <1>2, <1>3, <1>4, <1>5 DEF Wire

\* A new socket.
LEMMA NewForm ==
  ASSUME NEW u \in Servers, NEW k \in Hooks
  PROVE  /\ NewSocket(u, k) \in Socket /\ NewSocket(u, k).link = "connecting"
         /\ NewSocket(u, k).buffer = << >> /\ NewSocket(u, k).server = u
         /\ NewSocket(u, k).mounted /\ NewSocket(u, k).component = k
<1>1. << >> \in Seq(Message)
  BY EmptySeq
<1> QED
  BY <1>1 DEF NewSocket, NoHook, Socket

\* What a disconnect and the clean-up make of a socket.
LEMMA SocketForms ==
  ASSUME NEW s \in Socket
  PROVE  /\ Disconnected(s) \in Socket /\ Disconnected(s).link = "closed"
         /\ Disconnected(s).buffer = s.buffer /\ Disconnected(s).server = s.server
         /\ Disconnected(s).mounted = s.mounted /\ Disconnected(s).component = s.component
         /\ CleanUp(s) \in Socket /\ CleanUp(s).link = "closed"
         /\ CleanUp(s).buffer = s.buffer /\ CleanUp(s).server = s.server
         /\ CleanUp(s).mounted = s.mounted /\ CleanUp(s).component = s.component
<1>1. /\ Disconnected(s) \in Socket /\ Disconnected(s).link = "closed"
      /\ Disconnected(s).buffer = s.buffer /\ Disconnected(s).server = s.server
      /\ Disconnected(s).mounted = s.mounted /\ Disconnected(s).component = s.component
  BY DEF Disconnected, Socket
<1>2. LET c == [s EXCEPT !.link = "closed"]
      IN  /\ c \in Socket /\ c.link = "closed" /\ c.buffer = s.buffer
          /\ c.server = s.server /\ c.mounted = s.mounted /\ c.component = s.component
  BY DEF Socket
<1> QED
  BY <1>1, <1>2 DEF CleanUp

\* A step that changes the socket of one run of the effect.
LEMMA OneSocket ==
  ASSUME SocketInv, load' = load, hooks' = hooks,
         NEW h \in Hooks, h <= hooks,
         NEW s \in Socket, NEW c \in Client \cup {None}, NEW q \in Seq(Wire),
         hook' = [hook EXCEPT ![h] = s], client' = [client EXCEPT ![h] = c],
         sent' = [sent EXCEPT ![h] = q], Consistent(s, c, q)
  PROVE  SocketInv'
<1>1. \A g \in Hooks : /\ hook'[g] = IF g = h THEN s ELSE hook[g]
                       /\ client'[g] = IF g = h THEN c ELSE client[g]
                       /\ sent'[g] = IF g = h THEN q ELSE sent[g]
  BY DEF SocketInv
<1>2. \A g \in Hooks : Consistent(hook'[g], client'[g], sent'[g])
  BY <1>1 DEF SocketInv
<1>3. \A g \in Hooks : g > hooks' => hook'[g] = NoHook
  BY <1>1 DEF SocketInv, Hooks
<1>4. /\ hook' \in [Hooks -> Socket] /\ client' \in [Hooks -> Client \cup {None}]
      /\ sent' \in [Hooks -> Seq(Wire)]
  BY DEF SocketInv, Wire
<1> QED
  BY <1>2, <1>3, <1>4 DEF SocketInv, Wire

\* What the invariant says of one socket.
LEMMA SocketOf ==
  ASSUME SocketInv, NEW h \in Hooks
  PROVE  /\ hook[h] \in Socket /\ client[h] \in Client \cup {None} /\ sent[h] \in Seq(Wire)
         /\ hook[h].link = "open" <=> client[h] # None
         /\ hook[h].link = "open" => hook[h].buffer = << >>
         /\ hook[h].link # "open" => sent[h] = << >>
         /\ hook[h].link # "unused" =>
              hook[h].server \in Servers /\ hook[h].component \in Hooks /\ h <= hooks
         /\ client[h] # None => client[h].server \in {hook[h].server, None}
                                /\ client[h].rooms \subseteq {hook[h].server}
         /\ Queue(h) \in Seq(Wire)
<1>1. /\ hook[h] \in Socket /\ client[h] \in Client \cup {None} /\ sent[h] \in Seq(Wire)
      /\ Consistent(hook[h], client[h], sent[h]) /\ (h > hooks => hook[h] = NoHook)
  BY DEF SocketInv, Wire
<1>2. hook[h].buffer \in Seq(Message)
  BY <1>1 DEF Socket
<1>3. hook[h].buffer \in Seq(Wire)
  BY <1>2, SeqMonotonic DEF Wire
<1>4. hook[h].link # "unused" => h <= hooks
  BY <1>1 DEF NoHook, SocketInv, Hooks
<1> QED
  BY <1>1, <1>3, <1>4 DEF Consistent, Queue

\* What waits on a socket after a step is, but for greetings, what waited before it,
\* with d messages of it handled.
Shift(q, r, d) ==
  \A i \in 1 .. Len(r) : Numbered(r[i]) => i + d \in 1 .. Len(q) /\ q[i + d] = r[i]
QueuesShift == \A g \in Hooks : \E d \in {0, 1} : Shift(Queue(g), Queue(g)', d)

\* The ways it does: nothing happens, all is lost, the first is handled, a greeting is
\* appended.
LEMMA ShiftForms ==
  ASSUME NEW q \in Seq(Wire)
  PROVE  /\ Shift(q, q, 0) /\ Shift(q, << >>, 0)
         /\ q # << >> => Shift(q, Tail(q), 1) /\ Tail(q) \in Seq(Wire)
         /\ Shift(q, q \o Greeting, 0) /\ q \o Greeting \in Seq(Wire)
<1>1. Len(q) \in Nat
  OBVIOUS
<1>2. Shift(q, q, 0) /\ Shift(q, << >>, 0)
  BY <1>1 DEF Shift
<1>3. ASSUME q # << >> PROVE Shift(q, Tail(q), 1) /\ Tail(q) \in Seq(Wire)
  <2>1. /\ Tail(q) \in Seq(Wire) /\ Len(Tail(q)) = Len(q) - 1
        /\ \A i \in 1 .. Len(Tail(q)) : Tail(q)[i] = q[i + 1]
    BY <1>3, HeadTailProperties
  <2> QED
    BY <1>1, <2>1 DEF Shift
<1>4. Shift(q, q \o Greeting, 0) /\ q \o Greeting \in Seq(Wire)
  <2>1. /\ q \o Greeting \in Seq(Wire) /\ Len(q \o Greeting) = Len(q) + 3
        /\ \A i \in 1 .. Len(q) + 3 : (q \o Greeting)[i] =
             IF i <= Len(q) THEN q[i] ELSE Greeting[i - Len(q)]
    BY GreetingQuiet, ConcatProperties, ZenonT(40)
  <2> SUFFICES ASSUME NEW i \in 1 .. Len(q) + 3, Numbered((q \o Greeting)[i])
               PROVE  i + 0 \in 1 .. Len(q) /\ q[i + 0] = (q \o Greeting)[i]
    BY <2>1 DEF Shift
  <2>2. i <= Len(q)
    <3> SUFFICES ASSUME ~(i <= Len(q)) PROVE FALSE
      OBVIOUS
    <3>1. i - Len(q) \in 1 .. 3
      BY <1>1
    <3>2. (q \o Greeting)[i] = Greeting[i - Len(q)]
      BY <2>1
    <3> QED
      BY <3>1, <3>2, GreetingQuiet
  <2> QED
    BY <1>1, <2>1, <2>2
<1> QED
  BY <1>2, <1>3, <1>4

\* A step that changes one socket changes one queue.
LEMMA OneQueue ==
  ASSUME SocketInv, NEW h \in Hooks, NEW s, NEW q, NEW d \in {0, 1},
         hook' = [hook EXCEPT ![h] = s], sent' = [sent EXCEPT ![h] = q],
         Shift(Queue(h), IF s.link = "open" THEN q ELSE s.buffer, d)
  PROVE  QueuesShift
<1>1. \A g \in Hooks : /\ hook'[g] = IF g = h THEN s ELSE hook[g]
                       /\ sent'[g] = IF g = h THEN q ELSE sent[g]
  BY DEF SocketInv
<1>2. Shift(Queue(h), Queue(h)', d)
  BY <1>1 DEF Queue
<1>3. \A g \in Hooks : g # h => Queue(g)' = Queue(g)
  BY <1>1 DEF Queue
<1>4. \A g \in Hooks : Shift(Queue(g), Queue(g), 0)
  BY SocketOf, ShiftForms
<1> QED
  BY <1>2, <1>3, <1>4 DEF QueuesShift

\* Sockets that a step leaves alone.
LEMMA SocketsAlone ==
  ASSUME SocketInv, load' = load, UNCHANGED <<hooks, hook, client, sent>>
  PROVE  SocketInv' /\ QueuesShift
<1>1. SocketInv'
  BY DEF SocketInv
<1>2. \A g \in Hooks : Queue(g)' = Queue(g) /\ Shift(Queue(g), Queue(g), 0)
  BY SocketOf, ShiftForms DEF Queue
<1> QED
  BY <1>1, <1>2 DEF QueuesShift

\* The socket opens and the buffer is sent.
LEMMA ConnectSockets ==
  ASSUME SocketInv, load' = load, NEW h \in Hooks, Connect(h)
  PROVE  SocketInv' /\ QueuesShift
<1> PICK valid \in BOOLEAN : client' = [client EXCEPT ![h] = HandleConnection(h, valid)]
  BY DEF Connect
<1> DEFINE s == [hook[h] EXCEPT !.link = "open", !.buffer = << >>]
           c == HandleConnection(h, valid)
           q == hook[h].buffer \o Greeting
<1>1. /\ hook[h].link = "connecting" /\ hook[h] \in Socket /\ hook[h].server \in Servers
      /\ hook[h].component \in Hooks /\ h <= hooks
  BY SocketOf DEF Connect
<1>2. hook' = [hook EXCEPT ![h] = s]
  BY <1>1 DEF Connect, SocketInv
<1>3. client' = [client EXCEPT ![h] = c] /\ sent' = [sent EXCEPT ![h] = q] /\ hooks' = hooks
  BY DEF Connect
<1>4. /\ s \in Socket /\ s.link = "open" /\ s.buffer = << >>
      /\ s.server = hook[h].server /\ s.component = hook[h].component
  BY <1>1, EmptySeq DEF Socket
<1>5. c \in Client
  BY <1>1 DEF Client, HandleConnection
<1>6. hook[h].buffer = Queue(h) /\ Queue(h) \in Seq(Wire)
  BY <1>1, SocketOf DEF Queue
<1>7. q \in Seq(Wire) /\ Shift(Queue(h), q, 0)
  BY <1>6, ShiftForms
<1>8. Consistent(s, c, q)
  <2>1. c.server \in {hook[h].server, None} /\ c.rooms \subseteq {hook[h].server}
    BY DEF HandleConnection
  <2> HIDE DEF c, s, q
  <2>2. c # None
    BY <1>5, ConstantsAssumption
  <2> QED
    BY <1>1, <1>4, <2>1, <2>2 DEF Consistent
<1> HIDE DEF s, c, q
<1>9. SocketInv'
  BY <1>1, <1>2, <1>3, <1>4, <1>5, <1>7, <1>8, OneSocket
<1>10. QueuesShift
  BY <1>2, <1>3, <1>4, <1>7, OneQueue
<1> QED
  BY <1>9, <1>10

\* The socket is closed or begins to connect, and is not open before or after.
LEMMA SocketWaits ==
  ASSUME SocketInv, load' = load, NEW h \in Hooks, NEW s \in Socket,
         hook' = [hook EXCEPT ![h] = s], UNCHANGED <<hooks, client, sent>>,
         hook[h].link \notin {"unused", "open"}, s.link \in {"connecting", "closed"},
         s.buffer = hook[h].buffer, s.server = hook[h].server,
         s.component = hook[h].component
  PROVE  SocketInv' /\ QueuesShift
<1>1. /\ client[h] = None /\ sent[h] = << >> /\ hook[h].server \in Servers /\ h <= hooks
      /\ hook[h].component \in Hooks
      /\ Queue(h) = s.buffer /\ Queue(h) \in Seq(Wire) /\ sent[h] \in Seq(Wire)
  BY SocketOf DEF Queue
<1>2. client' = [client EXCEPT ![h] = None] /\ sent' = [sent EXCEPT ![h] = << >>]
  BY <1>1 DEF SocketInv
<1>3. Consistent(s, None, << >>)
  BY <1>1 DEF Consistent
<1>4. Shift(Queue(h), s.buffer, 0)
  BY <1>1, ShiftForms
<1>5. SocketInv'
  BY <1>1, <1>2, <1>3, OneSocket
<1>6. QueuesShift
  BY <1>2, <1>4, OneQueue
<1> QED
  BY <1>5, <1>6

\* The attempt to connect fails: the buffer stays.
LEMMA ConnectErrorSockets ==
  ASSUME SocketInv, load' = load, NEW h \in Hooks, ConnectError(h)
  PROVE  SocketInv' /\ QueuesShift
<1> DEFINE s == [hook[h] EXCEPT !.link = "closed"]
<1>1. hook[h] \in Socket /\ hook[h].link = "connecting"
  BY SocketOf DEF ConnectError
<1>2. hook' = [hook EXCEPT ![h] = s] /\ UNCHANGED <<hooks, client, sent>>
  BY DEF ConnectError
<1>3. /\ s \in Socket /\ s.link = "closed" /\ s.buffer = hook[h].buffer
      /\ s.server = hook[h].server /\ s.component = hook[h].component
  BY <1>1 DEF Socket
<1> HIDE DEF s
<1> QED
  BY <1>1, <1>2, <1>3, SocketWaits

\* The timer connects a socket that is closed and leaves another alone.
LEMMA TimerFiresSockets ==
  ASSUME SocketInv, load' = load, NEW h \in Hooks, TimerFires(h)
  PROVE  SocketInv' /\ QueuesShift
<1> DEFINE l == IF hook[h].link = "closed" THEN "connecting" ELSE hook[h].link
           s == [hook[h] EXCEPT !.timer = FALSE, !.link = l]
<1>1. hook[h] \in Socket /\ hook[h].timer
  BY SocketOf DEF TimerFires
<1>2. hook' = [hook EXCEPT ![h] = s] /\ UNCHANGED <<hooks, client, sent>>
  BY <1>1 DEF TimerFires, SocketInv
<1>3. /\ s \in Socket /\ s.link = l /\ s.buffer = hook[h].buffer /\ s.server = hook[h].server
      /\ s.component = hook[h].component
  BY <1>1 DEF Socket
<1>4. h <= hooks
  BY <1>1 DEF SocketInv, NoHook, Hooks
<1>5. CASE hook[h].link = "closed"
  <2>1. s.link = "connecting"
    BY <1>3, <1>5
  <2> HIDE DEF s
  <2> QED
    BY <1>2, <1>3, <1>5, <2>1, SocketWaits
<1>6. CASE hook[h].link # "closed"
  <2>1. s.link = hook[h].link
    BY <1>3, <1>6
  <2> HIDE DEF s
  <2>2. client' = [client EXCEPT ![h] = client[h]] /\ sent' = [sent EXCEPT ![h] = sent[h]]
    BY <1>2 DEF SocketInv
  <2>3. Consistent(s, client[h], sent[h])
    BY <1>3, <2>1 DEF Consistent, SocketInv
  <2>4. /\ Shift(Queue(h), IF s.link = "open" THEN sent[h] ELSE s.buffer, 0)
        /\ client[h] \in Client \cup {None} /\ sent[h] \in Seq(Wire)
    BY <1>3, <2>1, SocketOf, ShiftForms DEF Queue
  <2>5. SocketInv'
    BY <1>2, <1>3, <1>4, <2>2, <2>3, <2>4, OneSocket
  <2>6. QueuesShift
    BY <1>2, <2>2, <2>4, OneQueue
  <2> QED
    BY <2>5, <2>6
<1> QED
  BY <1>5, <1>6

\* The connection of an open socket is gone.
LEMMA SocketCloses ==
  ASSUME SocketInv, load' = load, NEW h \in Hooks, hook[h].link = "open",
         hook' = [hook EXCEPT ![h] = Disconnected(@)], HandleDisconnect(h), hooks' = hooks
  PROVE  SocketInv' /\ QueuesShift
<1> DEFINE s == Disconnected(hook[h])
<1>1. /\ hook[h] \in Socket /\ hook[h].buffer = << >> /\ hook[h].component \in Hooks
      /\ hook[h].server \in Servers /\ h <= hooks /\ Queue(h) \in Seq(Wire)
  BY SocketOf
<1>2. /\ s \in Socket /\ s.link = "closed" /\ s.buffer = << >>
      /\ s.server = hook[h].server /\ s.component = hook[h].component
  BY <1>1, SocketForms
<1>3. /\ hook' = [hook EXCEPT ![h] = s] /\ client' = [client EXCEPT ![h] = None]
      /\ sent' = [sent EXCEPT ![h] = << >>]
  BY DEF HandleDisconnect
<1> HIDE DEF s
<1>4. Consistent(s, None, << >>) /\ << >> \in Seq(Wire)
  BY <1>1, <1>2, EmptySeq DEF Consistent
<1>5. Shift(Queue(h), << >>, 0)
  BY <1>1, ShiftForms
<1>6. SocketInv'
  BY <1>1, <1>2, <1>3, <1>4, OneSocket
<1>7. QueuesShift
  BY <1>2, <1>3, <1>5, OneQueue
<1> QED
  BY <1>6, <1>7

\* The first message of an open socket is handled, and the client changed, or not.
LEMMA SocketHandles ==
  ASSUME SocketInv, load' = load, NEW h \in Hooks, sent[h] # << >>, Handled(h),
         UNCHANGED <<hooks, hook>>, NEW c \in Client, client' = [client EXCEPT ![h] = c],
         c.server \in {hook[h].server, None}, c.rooms \subseteq {hook[h].server}
  PROVE  SocketInv' /\ QueuesShift
<1>1. /\ hook[h].link = "open" /\ hook[h] \in Socket /\ h <= hooks /\ sent[h] \in Seq(Wire)
      /\ Queue(h) = sent[h]
  BY SocketOf DEF Queue
<1>2. c # None
  BY ConstantsAssumption
<1>3. Consistent(hook[h], c, Tail(sent[h]))
  BY <1>1, <1>2 DEF SocketInv, Consistent
<1>4. Tail(sent[h]) \in Seq(Wire) /\ Shift(Queue(h), Tail(sent[h]), 1)
  BY <1>1, ShiftForms
<1>5. hook' = [hook EXCEPT ![h] = hook[h]] /\ sent' = [sent EXCEPT ![h] = Tail(sent[h])]
  BY DEF SocketInv, Handled
<1>6. SocketInv'
  BY <1>1, <1>3, <1>4, <1>5, OneSocket
<1>7. QueuesShift
  BY <1>1, <1>4, <1>5, OneQueue
<1> QED
  BY <1>6, <1>7

\* A token that verifies joins the room the connection is in already; without one
\* the gateway closes it.
LEMMA HandleAuthSockets ==
  ASSUME SocketInv, load' = load, NEW h \in Hooks, HandleAuth(h)
  PROVE  SocketInv' /\ QueuesShift
<1>1. sent[h] # << >> /\ hook[h].link = "open" /\ client[h] \in Client /\ hook[h].server \in Servers
      /\ client[h].rooms \subseteq {hook[h].server}
  BY SocketOf DEF HandleAuth
<1>2. CASE load.stored = "jwt"
  <2> DEFINE c == [client[h] EXCEPT !.user = TRUE, !.server = hook[h].server,
                                    !.rooms = @ \cup {hook[h].server}]
  <2>1. c \in Client /\ c.server = hook[h].server /\ c.rooms = {hook[h].server}
    BY <1>1 DEF Client
  <2>2. client' = [client EXCEPT ![h] = c]
    BY <1>1, <1>2 DEF HandleAuth, SocketInv
  <2>3. Handled(h) /\ UNCHANGED <<hooks, hook>>
    BY <1>2 DEF HandleAuth
  <2> HIDE DEF c
  <2> QED
    BY <1>1, <2>1, <2>2, <2>3, SocketHandles
<1>3. CASE load.stored # "jwt"
  BY <1>1, <1>3, SocketCloses DEF HandleAuth
<1> QED
  BY <1>2, <1>3

\* A subscription changes the client's flags only.
LEMMA HandleSubscribeSockets ==
  ASSUME SocketInv, load' = load, NEW h \in Hooks, HandleSubscribe(h)
  PROVE  SocketInv' /\ QueuesShift
<1>1. /\ sent[h] # << >> /\ client[h] \in Client
      /\ client[h].rooms \subseteq {hook[h].server}
      /\ client[h].server \in {hook[h].server, None}
  BY SocketOf DEF HandleSubscribe
<1>2. Handled(h) /\ UNCHANGED <<hooks, hook>>
  BY DEF HandleSubscribe
<1>3. CASE client[h].user
  <2> DEFINE c == [client[h] EXCEPT !.console = @ \/ Head(sent[h]).type = "subscribe_console",
                                    !.stats = @ \/ Head(sent[h]).type = "subscribe_stats"]
  <2>1. /\ c \in Client /\ c.server \in {hook[h].server, None}
        /\ c.rooms \subseteq {hook[h].server}
    BY <1>1 DEF Client
  <2>2. client' = [client EXCEPT ![h] = c]
    BY <1>1, <1>3 DEF HandleSubscribe, SocketInv
  <2> HIDE DEF c
  <2> QED
    BY <1>1, <1>2, <2>1, <2>2, SocketHandles
<1>4. CASE ~client[h].user
  <2>1. client' = [client EXCEPT ![h] = client[h]]
    BY <1>4 DEF HandleSubscribe, SocketInv
  <2> QED
    BY <1>1, <1>2, <2>1, SocketHandles
<1> QED
  BY <1>3, <1>4

\* A command or a power action is taken off the queue.
LEMMA HandleSendSockets ==
  ASSUME SocketInv, load' = load, NEW h \in Hooks, HandleSend(h)
  PROVE  SocketInv' /\ QueuesShift
<1>1. /\ sent[h] # << >> /\ client[h] \in Client
      /\ client[h].rooms \subseteq {hook[h].server}
      /\ client[h].server \in {hook[h].server, None}
  BY SocketOf DEF HandleSend
<1>2. Handled(h) /\ UNCHANGED <<hooks, hook>> /\ client' = [client EXCEPT ![h] = client[h]]
  BY DEF HandleSend, SocketInv
<1> QED
  BY <1>1, <1>2, SocketHandles

\* The runs of the effect so far.
LEMMA UsedHook ==
  ASSUME SocketInv, NEW h \in 1 .. hooks
  PROVE  h \in Hooks /\ h <= hooks /\ h # hooks + 1
<1>1. hooks \in 0 .. MaxHooks /\ MaxHooks \in Nat
  BY Bounds DEF SocketInv
<1> QED
  BY <1>1 DEF Hooks

\* What the page emits goes to the end of the queue of its socket.
LEMMA EmitSockets ==
  ASSUME SocketInv, load' = load, NEW msg \in Message, Emit(msg),
         page.hook \in 1 .. hooks, UNCHANGED <<hooks, client>>
  PROVE  /\ SocketInv'
         /\ \A g \in Hooks : Queue(g)' = IF g = page.hook THEN Append(Queue(g), msg)
                                          ELSE Queue(g)
<1> DEFINE h == page.hook
<1>1. /\ h \in Hooks /\ h <= hooks /\ hook[h] \in Socket /\ client[h] \in Client \cup {None}
      /\ sent[h] \in Seq(Wire) /\ hook[h].buffer \in Seq(Message) /\ msg \in Wire
  <2>1. h \in Hooks /\ h <= hooks
    BY UsedHook
  <2> QED
    BY <2>1, SocketOf DEF Socket, Wire
<1>2. CASE hook[h].link = "open"
  <2>1. /\ hook' = [hook EXCEPT ![h] = hook[h]] /\ client' = [client EXCEPT ![h] = client[h]]
        /\ sent' = [sent EXCEPT ![h] = Append(sent[h], msg)]
    BY <1>2 DEF Emit, SocketInv
  <2>2. Append(sent[h], msg) \in Seq(Wire)
    BY <1>1, AppendProperties
  <2>3. Consistent(hook[h], client[h], Append(sent[h], msg))
    BY <1>1, <1>2 DEF SocketInv, Consistent
  <2>4. SocketInv'
    BY <1>1, <2>1, <2>2, <2>3, OneSocket
  <2>5. \A g \in Hooks : hook'[g] = hook[g]
                         /\ sent'[g] = IF g = h THEN Append(sent[h], msg) ELSE sent[g]
    BY <2>1 DEF SocketInv
  <2> QED
    BY <1>2, <2>4, <2>5 DEF Queue
<1>3. CASE hook[h].link # "open"
  <2> DEFINE s == [hook[h] EXCEPT !.buffer = Append(@, msg)]
  <2>1. /\ hook' = [hook EXCEPT ![h] = s] /\ client' = [client EXCEPT ![h] = client[h]]
        /\ sent' = [sent EXCEPT ![h] = sent[h]]
    BY <1>1, <1>3 DEF Emit, SocketInv
  <2>2. Append(hook[h].buffer, msg) \in Seq(Message)
    BY <1>1, AppendProperties
  <2>3. /\ s \in Socket /\ s.link = hook[h].link /\ s.server = hook[h].server
        /\ s.component = hook[h].component /\ s.buffer = Append(hook[h].buffer, msg)
    BY <1>1, <2>2 DEF Socket
  <2> HIDE DEF s
  <2>4. Consistent(s, client[h], sent[h])
    BY <1>1, <1>3, <2>3 DEF SocketInv, Consistent
  <2>5. SocketInv'
    BY <1>1, <2>1, <2>3, <2>4, OneSocket
  <2>6. \A g \in Hooks : hook'[g] = IF g = h THEN s ELSE hook[g]
    BY <2>1 DEF SocketInv
  <2>7. sent' = sent
    BY <1>3 DEF Emit
  <2> QED
    BY <1>3, <2>3, <2>5, <2>6, <2>7 DEF Queue
<1> QED
  BY <1>2, <1>3

\* A run of the effect starts with a socket no run has used.
LEMMA FreshSocket ==
  ASSUME SocketInv, hooks < load.hooks
  PROVE  /\ hooks + 1 \in Hooks /\ hooks + 1 \in 0 .. MaxHooks
         /\ hook[hooks + 1] = NoHook /\ client[hooks + 1] = None /\ sent[hooks + 1] = << >>
         /\ Queue(hooks + 1) = << >>
<1>1. load.hooks \in 0 .. MaxHooks /\ hooks \in 0 .. MaxHooks
  BY ConstantsAssumption DEF SocketInv
<1>2. hooks + 1 \in Hooks /\ hooks + 1 \in 0 .. MaxHooks /\ hooks + 1 > hooks
  BY <1>1, Bounds DEF Hooks
<1>3. hook[hooks + 1] = NoHook
  BY <1>2 DEF SocketInv
<1>4. hook[hooks + 1].link = "unused" /\ hook[hooks + 1].buffer = << >>
  BY <1>3 DEF NoHook
<1> QED
  BY <1>2, <1>3, <1>4, SocketOf DEF Queue

\* A page is opened: a socket no run has used begins to connect.
LEMMA OpenSockets ==
  ASSUME SocketInv, load' = load, NEW u \in Servers, Open(u)
  PROVE  SocketInv' /\ QueuesShift
<1> DEFINE n == hooks + 1
<1>1. /\ n \in Hooks /\ n \in 0 .. MaxHooks /\ client[n] = None /\ sent[n] = << >>
      /\ Queue(n) = << >> /\ hook[n] \in Socket
  BY FreshSocket, SocketOf DEF Open
<1>2. hooks' = n /\ hook' = [hook EXCEPT ![n] = NewSocket(u, n)] /\ UNCHANGED <<client, sent>>
  BY DEF Open
<1>3. /\ NewSocket(u, n) \in Socket /\ NewSocket(u, n).link = "connecting"
      /\ NewSocket(u, n).buffer = << >> /\ NewSocket(u, n).server = u
      /\ NewSocket(u, n).component = n
  BY <1>1, NewForm
<1> HIDE DEF n
<1>4. \A g \in Hooks : hook'[g] = IF g = n THEN NewSocket(u, n) ELSE hook[g]
  BY <1>2 DEF SocketInv
<1>5. Consistent(NewSocket(u, n), client[n], sent[n])
  BY <1>1, <1>3 DEF Consistent
<1>6. \A g \in Hooks : Consistent(hook'[g], client'[g], sent'[g])
  BY <1>2, <1>4, <1>5 DEF SocketInv
<1>7. \A g \in Hooks : g > n => hook'[g] = NoHook
  BY <1>4 DEF SocketInv, Hooks, n
<1>8. SocketInv'
  BY <1>1, <1>2, <1>3, <1>6, <1>7 DEF SocketInv
<1>9. \A g \in Hooks : Queue(g)' = Queue(g)
  BY <1>1, <1>2, <1>3, <1>4 DEF Queue
<1>10. \A g \in Hooks : Shift(Queue(g), Queue(g), 0)
  BY SocketOf, ShiftForms
<1> QED
  BY <1>8, <1>9, <1>10 DEF QueuesShift

\* The socket of the page is cleaned up and the gateway has forgotten it.
LEMMA CleanedUp ==
  ASSUME SocketInv, NEW h \in Hooks, NEW s \in Socket, hook[h].server \in Servers,
         s.component \in Hooks, s.link = "closed", s.server = hook[h].server, s.buffer = hook[h].buffer
  PROVE  /\ Consistent(s, None, << >>)
         /\ \E d \in {0, 1} : Shift(Queue(h), s.buffer, d)
<1>1. Consistent(s, None, << >>)
  BY DEF Consistent
<1>2. Queue(h) \in Seq(Wire) /\ (s.buffer = Queue(h) \/ s.buffer = << >>)
  BY SocketOf DEF Queue
<1> QED
  BY <1>1, <1>2, ShiftForms

\* The page is moved: the old socket is cleaned up beside the new one.
LEMMA NavigateSockets ==
  ASSUME SocketInv, load' = load, NEW u \in Servers, Navigate(u), page.hook \in 1 .. hooks,
         hook[page.hook].server \in Servers, hook[page.hook].component \in Hooks
  PROVE  SocketInv' /\ QueuesShift
<1> DEFINE n == hooks + 1
           h == page.hook
           k == hook[h].component
           s == CleanUp(hook[h])
<1>1. /\ n \in Hooks /\ n \in 0 .. MaxHooks /\ client[n] = None /\ sent[n] = << >>
      /\ Queue(n) = << >>
  BY FreshSocket DEF Navigate
<1>2. h \in Hooks /\ h # n /\ hook[h] \in Socket /\ k \in Hooks
  <2>1. h \in Hooks /\ h # n
    BY UsedHook
  <2> QED
    BY <2>1, SocketOf
<1>3. /\ NewSocket(u, k) \in Socket /\ NewSocket(u, k).link = "connecting"
      /\ NewSocket(u, k).buffer = << >> /\ NewSocket(u, k).server = u
      /\ NewSocket(u, k).component = k /\ s.component = k
      /\ s \in Socket /\ s.link = "closed" /\ s.server = hook[h].server
      /\ s.buffer = hook[h].buffer
  BY <1>2, SocketForms, NewForm
<1>4. /\ hooks' = n /\ hook' = [hook EXCEPT ![n] = NewSocket(u, k), ![h] = s]
      /\ client' = [client EXCEPT ![h] = None] /\ sent' = [sent EXCEPT ![h] = << >>]
  BY DEF Navigate, HandleDisconnect
<1>5. Consistent(s, None, << >>) /\ \E d \in {0, 1} : Shift(Queue(h), s.buffer, d)
  BY <1>2, <1>3, CleanedUp
<1>6. \A g \in Hooks : g > n => hook[g] = NoHook
  BY DEF SocketInv, Hooks
<1> HIDE DEF n, h, k, s
<1>7. \A g \in Hooks :
        /\ hook'[g] = IF g = h THEN s ELSE IF g = n THEN NewSocket(u, k) ELSE hook[g]
        /\ client'[g] = IF g = h THEN None ELSE client[g]
        /\ sent'[g] = IF g = h THEN << >> ELSE sent[g]
  BY <1>1, <1>2, <1>4 DEF SocketInv
<1>8. Consistent(NewSocket(u, k), client[n], sent[n])
  BY <1>1, <1>2, <1>3 DEF Consistent
<1>9. \A g \in Hooks : Consistent(hook'[g], client'[g], sent'[g])
  BY <1>2, <1>5, <1>7, <1>8 DEF SocketInv
<1>10. h < n
  BY DEF h, n, SocketInv
<1>11. \A g \in Hooks : g > n => hook'[g] = NoHook
  BY <1>1, <1>2, <1>6, <1>7, <1>10 DEF Hooks
<1>12. << >> \in Seq(Wire)
  BY EmptySeq
<1>13. /\ hook' \in [Hooks -> Socket] /\ client' \in [Hooks -> Client \cup {None}]
       /\ sent' \in [Hooks -> Seq(Wire)]
  BY <1>3, <1>4, <1>12 DEF SocketInv, Wire
<1>14. SocketInv'
  BY <1>1, <1>4, <1>9, <1>11, <1>13 DEF SocketInv, Wire
<1>15. \A g \in Hooks : Queue(g)' = IF g = h THEN s.buffer ELSE Queue(g)
  BY <1>1, <1>2, <1>3, <1>7 DEF Queue
<1>16. \A g \in Hooks : Shift(Queue(g), Queue(g), 0)
  BY SocketOf, ShiftForms
<1> QED
  BY <1>5, <1>14, <1>15, <1>16 DEF QueuesShift

\* The page is left: its socket is cleaned up, and no run has a page any more.
LEMMA LeaveSockets ==
  ASSUME SocketInv, load' = load, Leave, page.hook \in 1 .. hooks,
         hook[page.hook].server \in Servers, hook[page.hook].component \in Hooks
  PROVE  SocketInv' /\ QueuesShift /\ \A g \in Hooks : hook'[g].mounted = FALSE
<1> DEFINE h == page.hook
           s(g) == [(IF g = h THEN CleanUp(hook[g]) ELSE hook[g]) EXCEPT !.mounted = FALSE]
<1>1. h \in Hooks /\ h <= hooks
  BY UsedHook
<1>2. /\ hooks' = hooks /\ hook' = [g \in Hooks |-> s(g)]
      /\ client' = [client EXCEPT ![h] = None] /\ sent' = [sent EXCEPT ![h] = << >>]
  BY DEF Leave, HandleDisconnect
<1>3. \A g \in Hooks :
        /\ hook'[g] \in Socket /\ hook'[g].mounted = FALSE
        /\ hook'[g].link = IF g = h THEN "closed" ELSE hook[g].link
        /\ hook'[g].server = hook[g].server /\ hook'[g].buffer = hook[g].buffer
        /\ hook'[g].component = hook[g].component
        /\ g # h /\ hook[g] = NoHook => hook'[g] = NoHook
  <2> SUFFICES ASSUME NEW g \in Hooks
               PROVE  /\ hook'[g] \in Socket /\ hook'[g].mounted = FALSE
                      /\ hook'[g].link = IF g = h THEN "closed" ELSE hook[g].link
                      /\ hook'[g].server = hook[g].server /\ hook'[g].buffer = hook[g].buffer
                      /\ hook'[g].component = hook[g].component
                      /\ g # h /\ hook[g] = NoHook => hook'[g] = NoHook
    OBVIOUS
  <2> DEFINE c == IF g = h THEN CleanUp(hook[g]) ELSE hook[g]
  <2>1. /\ c \in Socket /\ c.server = hook[g].server /\ c.buffer = hook[g].buffer
        /\ c.component = hook[g].component
        /\ c.link = IF g = h THEN "closed" ELSE hook[g].link
        /\ g # h => c = hook[g]
    BY SocketForms, SocketOf
  <2>2. hook'[g] = [c EXCEPT !.mounted = FALSE]
    BY <1>2
  <2> HIDE DEF c
  <2>3. c.mounted = FALSE => [c EXCEPT !.mounted = FALSE] = c
    BY <2>1 DEF Socket
  <2>4. NoHook.mounted = FALSE
    BY DEF NoHook
  <2>5. g # h /\ hook[g] = NoHook => hook'[g] = NoHook
    BY <2>1, <2>2, <2>3, <2>4
  <2>6. /\ hook'[g] \in Socket /\ hook'[g].mounted = FALSE /\ hook'[g].link = c.link
        /\ hook'[g].server = c.server /\ hook'[g].buffer = c.buffer
        /\ hook'[g].component = c.component
    BY <2>1, <2>2 DEF Socket
  <2> QED
    BY <2>1, <2>5, <2>6
<1> HIDE DEF s, h
<1>4. \A g \in Hooks : /\ client'[g] = IF g = h THEN None ELSE client[g]
                       /\ sent'[g] = IF g = h THEN << >> ELSE sent[g]
  BY <1>2 DEF SocketInv
<1>5. hook[h].server \in Servers /\ hook[h].component \in Hooks
  BY DEF h
<1>6. Consistent(hook'[h], None, << >>) /\ \E d \in {0, 1} : Shift(Queue(h), hook'[h].buffer, d)
  BY <1>1, <1>3, <1>5, CleanedUp
<1>7. \A g \in Hooks : Consistent(hook'[g], client'[g], sent'[g])
  <2> SUFFICES ASSUME NEW g \in Hooks, g # h
               PROVE  Consistent(hook'[g], client'[g], sent'[g])
    BY <1>1, <1>4, <1>6
  <2>1. Consistent(hook[g], client[g], sent[g])
    BY DEF SocketInv
  <2>2. client'[g] = client[g] /\ sent'[g] = sent[g]
    BY <1>4
  <2> QED
    BY <1>3, <2>1, <2>2 DEF Consistent
<1>8. \A g \in Hooks : g > hooks' => hook'[g] = NoHook
  BY <1>1, <1>2, <1>3 DEF SocketInv, Hooks
<1>9. << >> \in Seq(Wire)
  BY EmptySeq
<1>10. /\ hook' \in [Hooks -> Socket] /\ client' \in [Hooks -> Client \cup {None}]
       /\ sent' \in [Hooks -> Seq(Wire)]
  BY <1>2, <1>3, <1>9 DEF SocketInv, Wire
<1>11. SocketInv'
  BY <1>2, <1>7, <1>8, <1>10 DEF SocketInv, Wire
<1>12. \A g \in Hooks : Queue(g)' = IF g = h THEN hook'[h].buffer ELSE Queue(g)
  BY <1>1, <1>3, <1>4 DEF Queue
<1>13. \A g \in Hooks : Shift(Queue(g), Queue(g), 0)
  BY SocketOf, ShiftForms
<1> QED
  BY <1>3, <1>6, <1>11, <1>12, <1>13 DEF QueuesShift

-----------------------------------------------------------------------------
(* The page.                                                               *)

PageText(pg) == <<pg.lines, pg.received, pg.written, pg.terminal>>

\* A step that changes at most what the page says of the connection and the power.
PageKept ==
  \/ page' = page
  \/ /\ Mounted /\ page' \in Page
     /\ page'.hook = page.hook /\ page'.server = page.server /\ page'.stats = page.stats
     /\ PageText(page') = PageText(page)
HooksSame ==
  \A g \in Hooks : /\ hook'[g].mounted = hook[g].mounted /\ hook'[g].server = hook[g].server
                     /\ hook'[g].component = hook[g].component

\* The name of a state that the page shows is one of four, whatever it is made from.
LEMMA PowerNames ==
  ASSUME NEW state
  PROVE  MapGrpcState(state) \in {"offline", "starting", "running", "stopping"}
BY DEF MapGrpcState

\* What the handlers make of a page.
LEMMA PageForms ==
  ASSUME NEW pg \in Page
  PROVE  /\ \A c \in {"connecting", "connected", "disconnected", "error"} :
              LET n == [pg EXCEPT !.connection = c]
              IN  /\ n \in Page /\ n.hook = pg.hook /\ n.server = pg.server
                  /\ n.stats = pg.stats /\ PageText(n) = PageText(pg)
         /\ LET n == PageDisconnected(pg)
            IN  /\ n \in Page /\ n.hook = pg.hook /\ n.server = pg.server
                /\ n.stats = pg.stats /\ PageText(n) = PageText(pg)
         /\ \A state : LET n == PowerStateMessage(pg, state)
            IN  /\ n \in Page /\ n.hook = pg.hook /\ n.server = pg.server
                /\ n.stats = pg.stats /\ PageText(n) = PageText(pg)
<1>1. \A c \in {"connecting", "connected", "disconnected", "error"} :
        LET n == [pg EXCEPT !.connection = c]
        IN  /\ n \in Page /\ n.hook = pg.hook /\ n.server = pg.server
            /\ n.stats = pg.stats /\ PageText(n) = PageText(pg)
  BY DEF Page, PageText
<1>2. LET n == PageDisconnected(pg)
      IN  /\ n \in Page /\ n.hook = pg.hook /\ n.server = pg.server
          /\ n.stats = pg.stats /\ PageText(n) = PageText(pg)
  BY DEF Page, PageText, PageDisconnected
<1>3. ASSUME NEW power \in {"offline", "starting", "running", "stopping"}
      PROVE  LET n == [pg EXCEPT !.power = power]
             IN  /\ n \in Page /\ n.hook = pg.hook /\ n.server = pg.server
                 /\ n.stats = pg.stats /\ PageText(n) = PageText(pg)
  BY DEF Page, PageText
<1> QED
  BY <1>1, <1>2, <1>3, PowerNames DEF PowerStateMessage

\* setState through a run of the effect reaches a page only if there is one.
LEMMA SetPageKept ==
  ASSUME PageInv, NEW h \in Hooks, NEW new, page' = SetPage(h, new),
         Mounted => /\ new \in Page /\ new.hook = page.hook /\ new.server = page.server
                    /\ new.stats = page.stats /\ PageText(new) = PageText(page)
  PROVE  PageKept
BY DEF PageInv, SetPage, PageKept

\* Sockets that keep their servers and a page that keeps its own.
LEMMA PageKeeps ==
  ASSUME PageInv, HooksSame, PageKept, UNCHANGED <<hooks, moved>>
  PROVE  PageInv'
<1>1. page' \in Page \cup {None} /\ moved' \in BOOLEAN
  BY DEF PageInv, PageKept
<1>2. Mounted' = Mounted
  <2>1. Mounted => page \in Page
    BY DEF PageInv, Mounted
  <2> QED
    BY <2>1, ConstantsAssumption DEF PageKept, Mounted
<1>3. Mounted => page'.hook = page.hook /\ page'.server = page.server /\ page'.stats = page.stats
  BY DEF PageKept
<1>4. \A h \in Hooks : hook'[h].mounted => Mounted' /\ (moved' \/ h = page'.hook)
  BY <1>2, <1>3 DEF PageInv, HooksSame
<1>5. Mounted' => /\ page'.hook \in 1 .. hooks' /\ hook'[page'.hook].server = page'.server
                  /\ hook'[page'.hook].component \in Hooks
  <2> SUFFICES ASSUME Mounted
               PROVE  /\ page'.hook \in 1 .. hooks' /\ hook'[page'.hook].server = page'.server
                      /\ hook'[page'.hook].component \in Hooks
    BY <1>2
  <2>1. /\ page.hook \in 1 .. hooks /\ hook[page.hook].server = page.server
        /\ page.hook \in Hooks /\ hook[page.hook].component \in Hooks
    <3>1. page \in Page
      BY DEF PageInv, Mounted
    <3> QED
      BY <3>1 DEF PageInv, Page
  <2> QED
    BY <1>3, <2>1 DEF HooksSame
<1>6. ShowsItsServer'
  BY <1>2, <1>3 DEF PageInv, ShowsItsServer
<1> QED
  BY <1>1, <1>4, <1>5, <1>6 DEF PageInv

\* What the invariant says of the page there is.
LEMMA PageOf ==
  ASSUME PageInv, Mounted
  PROVE  /\ page \in Page /\ page.hook \in 1 .. hooks /\ page.hook \in Hooks
         /\ page.server \in Servers /\ hook[page.hook].server = page.server
         /\ hook[page.hook].component \in Hooks
<1>1. page \in Page
  BY DEF PageInv, Mounted
<1> QED
  BY <1>1 DEF PageInv, Page

\* A socket that opens, closes or waits stays that of the same run and server.
LEMMA SocketsSame ==
  ASSUME SocketInv, NEW h \in Hooks,
         Connect(h) \/ ConnectError(h) \/ TimerFires(h) \/ Close(h) \/ HandleAuth(h)
  PROVE  HooksSame
<1>1. /\ hook[h] \in Socket
      /\ (sent[h] # << >> => hook[h].link = "open")
  BY SocketOf
<1>2. ASSUME NEW s, s.mounted = hook[h].mounted, s.server = hook[h].server,
             s.component = hook[h].component, hook' = [hook EXCEPT ![h] = s]
      PROVE  HooksSame
  <2>1. \A g \in Hooks : hook'[g] = IF g = h THEN s ELSE hook[g]
    BY <1>2 DEF SocketInv
  <2> QED
    BY <1>2, <2>1 DEF HooksSame
<1>3. CASE Connect(h)
  <2> DEFINE s == [hook[h] EXCEPT !.link = "open", !.buffer = << >>]
  <2>1. /\ hook' = [hook EXCEPT ![h] = s] /\ s.mounted = hook[h].mounted
        /\ s.server = hook[h].server /\ s.component = hook[h].component
    BY <1>1, <1>3 DEF Connect, SocketInv, Socket
  <2> HIDE DEF s
  <2> QED
    BY <1>2, <2>1
<1>4. CASE ConnectError(h)
  <2> DEFINE s == [hook[h] EXCEPT !.link = "closed"]
  <2>1. /\ hook' = [hook EXCEPT ![h] = s] /\ s.mounted = hook[h].mounted
        /\ s.server = hook[h].server /\ s.component = hook[h].component
    BY <1>1, <1>4 DEF ConnectError, SocketInv, Socket
  <2> HIDE DEF s
  <2> QED
    BY <1>2, <2>1
<1>5. CASE TimerFires(h)
  <2> DEFINE s == [hook[h] EXCEPT !.timer = FALSE,
                                  !.link = IF @ = "closed" THEN "connecting" ELSE @]
  <2>1. /\ hook' = [hook EXCEPT ![h] = s] /\ s.mounted = hook[h].mounted
        /\ s.server = hook[h].server /\ s.component = hook[h].component
    BY <1>1, <1>5 DEF TimerFires, SocketInv, Socket
  <2> HIDE DEF s
  <2> QED
    BY <1>2, <2>1
<1>6. CASE hook' = [hook EXCEPT ![h] = Disconnected(@)] /\ hook[h].link = "open"
  <2>1. /\ Disconnected(hook[h]).mounted = hook[h].mounted
        /\ Disconnected(hook[h]).server = hook[h].server
        /\ Disconnected(hook[h]).component = hook[h].component
    BY <1>1, <1>6, SocketForms
  <2> QED
    BY <1>2, <1>6, <2>1
<1>7. CASE hook' = hook
  BY <1>7 DEF HooksSame
<1>8. Close(h) => hook' = [hook EXCEPT ![h] = Disconnected(@)] /\ hook[h].link = "open"
  BY DEF Close
<1>9. HandleAuth(h) =>
        \/ hook' = hook
        \/ hook' = [hook EXCEPT ![h] = Disconnected(@)] /\ hook[h].link = "open"
  BY <1>1 DEF HandleAuth
<1> QED
  BY <1>3, <1>4, <1>5, <1>6, <1>7, <1>8, <1>9

-----------------------------------------------------------------------------
(* The polls and what the page shows of them.                              *)

Status == [state : ProtoState, changes : 0 .. MaxChanges]
Poll == [todo : SUBSET Servers, at : Servers \cup {None}, status : Status \cup {None}]

\* A step that does not overlap polls has one poll at most, and forgets an overlap only
\* when there is none.
LEMMA OverlapStep ==
  ASSUME overlapped \in BOOLEAN, Frame
  PROVE  /\ overlapped' \in BOOLEAN
         /\ ~overlapped' => \A p, q \in StatsPolls' : p = q
         /\ ~overlapped' => ~overlapped \/ StatsPolls' = {}
<1>1. /\ overlapped' \in BOOLEAN
      /\ ~overlapped' => ~(Cardinality(StatsPolls') > 1) /\ (~overlapped \/ StatsPolls' = {})
  BY DEF Frame
<1>2. ASSUME NEW p \in StatsPolls', NEW q \in StatsPolls', p # q
      PROVE  Cardinality(StatsPolls') > 1
  <2>1. StatsPolls' \subseteq Polls
    BY DEF StatsPolls
  <2>2. IsFiniteSet(StatsPolls')
    BY <2>1, FS_Subset, ConstantsAssumption
  <2>3. IsFiniteSet({p}) /\ Cardinality({p}) = 1 /\ q \notin {p}
    BY <1>2, FS_Singleton
  <2>4. Cardinality({p} \cup {q}) = 2
    BY <2>3, FS_AddElement
  <2>5. {p} \cup {q} \in SUBSET StatsPolls'
    OBVIOUS
  <2>6. Cardinality({p} \cup {q}) <= Cardinality(StatsPolls')
    BY <2>2, <2>5, FS_Subset
  <2>7. Cardinality(StatsPolls') \in Nat
    BY <2>2, FS_CardinalityType
  <2> QED
    BY <2>4, <2>6, <2>7
<1> QED
  BY <1>1, <1>2

\* What the invariant says of one poll, and what a status the page shows is.
LEMMA PollOf ==
  ASSUME PollInv, NEW p \in Polls
  PROVE  /\ poll[p] \in Poll /\ poll \in [Polls -> Poll]
         /\ poll[p].at # None =>
              /\ poll[p].at \in Servers /\ poll[p].status \in Status
              /\ poll[p].status.changes <= container[poll[p].at].changes
         /\ poll[p].at # None => p \in StatsPolls
<1>1. poll[p] \in Poll /\ poll \in [Polls -> Poll]
  BY DEF PollInv, Poll, Status
<1>2. NoPoll.at = None
  BY DEF NoPoll
<1>3. poll[p].at \in Servers \cup {None}
  BY <1>1 DEF Poll
<1>4. poll[p].at # None => /\ poll[p].status \in Status
                           /\ poll[p].status.changes <= container[poll[p].at].changes
  BY DEF PollInv, Status
<1> QED
  BY <1>1, <1>2, <1>3, <1>4 DEF StatsPolls

\* The statistics of a page are those of some server.
LEMMA StatsOf ==
  ASSUME PageInv, Mounted, page.stats # None
  PROVE  page.stats.server \in Servers /\ page.stats.changes \in 0 .. MaxChanges
         /\ page.stats.server # None
<1>1. page.stats \in [server : Servers, changes : 0 .. MaxChanges]
  BY PageOf DEF Page
<1>2. None \notin Servers
  BY ConstantsAssumption
<1> QED
  BY <1>1, <1>2

\* A step that leaves the polls alone, changes containers forwards and shows no other
\* statistics.
LEMMA ContainersGrow ==
  ASSUME PageInv, PollInv, Frame, poll' = poll,
         container' \in [Servers -> [state : DockerState, changes : 0 .. MaxChanges]],
         \A u \in Servers : container[u].changes <= container'[u].changes,
         Mounted' /\ page'.stats # None => Mounted /\ page'.stats = page.stats
  PROVE  PollInv'
<1>1. overlapped \in BOOLEAN /\ StatsPolls' = StatsPolls
  BY DEF PollInv, StatsPolls
<1>2. /\ overlapped' \in BOOLEAN
      /\ ~overlapped' => \A p, q \in StatsPolls' : p = q
      /\ ~overlapped' => ~overlapped \/ StatsPolls = {}
  BY <1>1, OverlapStep
<1>3. \A u \in Servers : container[u].changes \in Nat /\ container'[u].changes \in Nat
  BY DEF PollInv
<1>4. ASSUME Mounted', page'.stats # None
      PROVE  /\ page'.stats.changes <= container'[page'.stats.server].changes
             /\ ~overlapped' => \A p \in Polls : poll'[p].at = page'.stats.server =>
                  page'.stats.changes <= poll'[p].status.changes
  <2>1. Mounted /\ page'.stats = page.stats /\ page.stats # None
    BY <1>4
  <2>2. page.stats.changes <= container[page.stats.server].changes
    BY <2>1 DEF PollInv
  <2>3. ASSUME ~overlapped', NEW p \in Polls, poll[p].at = page.stats.server
        PROVE  page.stats.changes <= poll[p].status.changes
    <3>1. CASE ~overlapped
      BY <2>1, <2>3, <3>1 DEF PollInv
    <3>2. CASE overlapped
      <4>1. StatsPolls = {}
        BY <1>2, <2>3, <3>2
      <4>2. poll[p].at = None
        BY <4>1, PollOf
      <4> QED
        BY <2>1, <2>3, <4>2, StatsOf
    <3> QED
      BY <3>1, <3>2
  <2>4. page.stats.changes \in Nat /\ page.stats.server \in Servers
    BY <2>1, StatsOf
  <2>5. page.stats.changes <= container'[page.stats.server].changes
    BY <1>3, <2>2, <2>4
  <2> QED
    BY <2>1, <2>3, <2>5
<1>5. ASSUME NEW p \in Polls, poll'[p].at # None
      PROVE  /\ poll'[p].status \in [state : ProtoState, changes : 0 .. MaxChanges]
             /\ poll'[p].status.changes <= container'[poll'[p].at].changes
  <2>1. /\ poll[p].at \in Servers /\ poll[p].status \in Status
        /\ poll[p].status.changes <= container[poll[p].at].changes
    BY <1>5, PollOf
  <2>2. poll[p].status.changes \in Nat
    BY <2>1 DEF Status
  <2> QED
    BY <1>3, <2>1, <2>2 DEF Status
<1> QED
  BY <1>1, <1>2, <1>4, <1>5 DEF PollInv

\* A step that leaves polls and containers alone, and shows no other statistics.
LEMMA PollKeeps ==
  ASSUME PageInv, PollInv, Frame, UNCHANGED <<container, poll>>,
         Mounted' /\ page'.stats # None => Mounted /\ page'.stats = page.stats
  PROVE  PollInv'
<1>1. /\ container' \in [Servers -> [state : DockerState, changes : 0 .. MaxChanges]]
      /\ \A u \in Servers : container[u].changes <= container'[u].changes
  BY DEF PollInv
<1> QED
  BY <1>1, ContainersGrow

\* A step of one poll.
LEMMA OnePoll ==
  ASSUME PageInv, PollInv, Frame, container' = container,
         NEW p \in Polls, NEW x \in Poll, poll' = [poll EXCEPT ![p] = x],
         x.at # None => x.status \in Status /\ x.status.changes <= container[x.at].changes,
         Mounted' /\ page'.stats # None =>
           /\ page'.stats.server # None
           /\ page'.stats.changes <= container[page'.stats.server].changes
           /\ x.at = page'.stats.server => page'.stats.changes <= x.status.changes
           /\ ~overlapped => \A q \in Polls \ {p} : poll[q].at = page'.stats.server =>
                page'.stats.changes <= poll[q].status.changes
  PROVE  PollInv'
<1>1. overlapped \in BOOLEAN
  BY DEF PollInv
<1>2. /\ overlapped' \in BOOLEAN
      /\ ~overlapped' => \A q, r \in StatsPolls' : q = r
      /\ ~overlapped' => ~overlapped \/ StatsPolls' = {}
  BY <1>1, OverlapStep
<1>3. poll' \in [Polls -> Poll] /\ \A q \in Polls : poll'[q] = IF q = p THEN x ELSE poll[q]
  BY PollOf
<1>4. \A q \in Polls : poll'[q].at # None =>
        /\ poll'[q].status \in Status
        /\ poll'[q].status.changes <= container'[poll'[q].at].changes
  BY <1>3, PollOf
<1>5. \A q \in Polls : StatsPolls' = {} => poll'[q].at = None
  BY DEF StatsPolls, NoPoll
<1>6. ASSUME Mounted', page'.stats # None
      PROVE  /\ page'.stats.changes <= container'[page'.stats.server].changes
             /\ ~overlapped' => \A q \in Polls : poll'[q].at = page'.stats.server =>
                  page'.stats.changes <= poll'[q].status.changes
  BY <1>2, <1>3, <1>5, <1>6
<1> QED
  BY <1>2, <1>3, <1>4, <1>6 DEF PollInv, Poll, Status

\* The same when the page is left alone and the poll asks nothing, or reads a status now.
LEMMA OnePollUnseen ==
  ASSUME PageInv, PollInv, Frame, UNCHANGED <<container, page>>,
         NEW p \in Polls, NEW x \in Poll, poll' = [poll EXCEPT ![p] = x],
         x.at # None => x.status \in Status /\ x.status.changes = container[x.at].changes
  PROVE  PollInv'
<1>1. x.at # None => x.status \in Status /\ x.status.changes <= container[x.at].changes
  BY DEF Status
<1>2. Mounted' = Mounted
  BY DEF Mounted
<1>3. ASSUME Mounted, page.stats # None
      PROVE  /\ page'.stats.server # None
             /\ page'.stats.changes <= container[page'.stats.server].changes
             /\ x.at = page'.stats.server => page'.stats.changes <= x.status.changes
             /\ ~overlapped => \A q \in Polls \ {p} : poll[q].at = page'.stats.server =>
                  page'.stats.changes <= poll[q].status.changes
  <2>1. /\ page.stats.changes <= container[page.stats.server].changes
        /\ ~overlapped => \A q \in Polls : poll[q].at = page.stats.server =>
             page.stats.changes <= poll[q].status.changes
    BY <1>3 DEF PollInv
  <2> QED
    BY <1>3, <2>1, StatsOf
<1> QED
  BY <1>1, <1>2, <1>3, OnePoll

\* The servers that are polled are servers.
LEMMA SubscribedServers == SocketInv => Subscribed \subseteq Servers
<1> SUFFICES ASSUME SocketInv, NEW h \in Hooks, client[h] # None, client[h].server # None
             PROVE  client[h].server \in Servers
  BY DEF Subscribed
<1>1. client[h] \in Client
  BY SocketOf
<1> QED
  BY <1>1 DEF Client

\* A poll starts with the servers subscribed and has read nothing.
LEMMA StartPollPolls ==
  ASSUME SocketInv, PageInv, PollInv, Frame, NEW p \in Polls, StartPoll(p)
  PROVE  PollInv'
<1> DEFINE x == [poll[p] EXCEPT !.todo = Subscribed]
<1>1. poll[p] \in Poll /\ poll[p].at = None /\ Subscribed \subseteq Servers
  BY PollOf, SubscribedServers DEF StartPoll, NoPoll
<1>2. x \in Poll /\ x.at = None
  BY <1>1 DEF Poll
<1>3. poll' = [poll EXCEPT ![p] = x] /\ UNCHANGED <<container, page>>
  BY DEF StartPoll
<1> HIDE DEF x
<1> QED
  BY <1>2, <1>3, OnePollUnseen

\* A status that is read now is no older than any the page shows.
LEMMA GetServerStatusPolls ==
  ASSUME PageInv, PollInv, Frame, NEW p \in Polls, GetServerStatus(p)
  PROVE  PollInv'
<1>1. PICK u \in poll[p].todo :
        poll' = [poll EXCEPT ![p] =
          [todo |-> @.todo \ {u}, at |-> u,
           status |-> [state |-> DockerStateToProto(container[u].state),
                       changes |-> container[u].changes]]]
  BY DEF GetServerStatus
<1> DEFINE t == [state |-> DockerStateToProto(container[u].state),
                 changes |-> container[u].changes]
           x == [todo |-> poll[p].todo \ {u}, at |-> u, status |-> t]
<1>2. poll[p] \in Poll /\ u \in Servers /\ poll[p].todo \subseteq Servers
  BY PollOf DEF Poll
<1>3. container[u].state \in DockerState /\ container[u].changes \in 0 .. MaxChanges
  BY <1>2 DEF PollInv
<1>4. DockerStateToProto(container[u].state) \in ProtoState
  <2>1. \/ container[u].state = "running"
        \/ container[u].state = "created"
        \/ container[u].state = "exited"
    BY <1>3 DEF DockerState
  <2>2. /\ DockerStateToProto("running") = "STATE_RUNNING"
        /\ DockerStateToProto("created") = "STATE_STARTING"
        /\ DockerStateToProto("exited") = "STATE_OFFLINE"
    BY DEF DockerStateToProto
  <2> QED
    BY <2>1, <2>2 DEF ProtoState
<1>5. t \in Status /\ t.changes = container[u].changes
  BY <1>3, <1>4 DEF Status
<1>6. poll' = [poll EXCEPT ![p] = x] /\ UNCHANGED <<container, page>>
  BY <1>1 DEF GetServerStatus
<1> HIDE DEF t
<1>7. x \in Poll /\ x.at = u /\ x.status = t
  BY <1>2, <1>5 DEF Poll
<1> HIDE DEF x
<1> QED
  BY <1>5, <1>6, <1>7, OnePollUnseen

\* A poll that goes on or has ended waits for nothing.
LEMMA PollDoneForm ==
  ASSUME PollInv, NEW p \in Polls, PollDone(p)
  PROVE  \E x \in Poll : poll' = [poll EXCEPT ![p] = x] /\ x.at = None
<1>1. poll[p] \in Poll /\ NoPoll \in Poll /\ NoPoll.at = None
  BY PollOf DEF NoPoll, Poll
<1>2. [poll[p] EXCEPT !.at = None] \in Poll /\ [poll[p] EXCEPT !.at = None].at = None
  BY <1>1 DEF Poll
<1> QED
  BY <1>1, <1>2 DEF PollDone

\* A poll that fails shows nothing.
LEMMA PollFailsPolls ==
  ASSUME PageInv, PollInv, Frame, NEW p \in Polls, PollFails(p)
  PROVE  PollInv'
<1>1. PollDone(p) /\ UNCHANGED <<container, page>>
  BY DEF PollFails
<1> QED
  BY <1>1, PollDoneForm, OnePollUnseen

\* What an answer makes of the page.
LEMMA StatsUpdateForm ==
  ASSUME NEW pg \in Page, NEW u \in Servers, NEW status \in Status
  PROVE  LET n == StatsUpdate(pg, u, status)
         IN  /\ n \in Page /\ n.hook = pg.hook /\ n.server = pg.server
             /\ n.stats.server = u /\ n.stats.changes = status.changes
             /\ PageText(n) = PageText(pg)
<1> DEFINE m == PowerStateMessage(pg, status.state)
           t == [server |-> u, changes |-> status.changes]
<1>1. /\ m \in Page /\ m.hook = pg.hook /\ m.server = pg.server
      /\ PageText(m) = PageText(pg)
  <2> HIDE DEF t
  <2>1. LET n == PowerStateMessage(pg, status.state)
        IN  /\ n \in Page /\ n.hook = pg.hook /\ n.server = pg.server
            /\ n.stats = pg.stats /\ PageText(n) = PageText(pg)
    BY PageForms
  <2> QED
    BY <2>1
<1>2. t \in [server : Servers, changes : 0 .. MaxChanges] /\ t.server = u
      /\ t.changes = status.changes
  BY DEF Status
<1>3. StatsUpdate(pg, u, status) = [m EXCEPT !.stats = t]
  BY DEF StatsUpdate
<1> HIDE DEF m, t
<1>4. /\ [m EXCEPT !.stats = t] \in Page /\ [m EXCEPT !.stats = t].hook = m.hook
      /\ [m EXCEPT !.stats = t].server = m.server /\ [m EXCEPT !.stats = t].stats = t
      /\ PageText([m EXCEPT !.stats = t]) = PageText(m)
  BY <1>1, <1>2 DEF Page, PageText
<1> QED
  BY <1>1, <1>2, <1>3, <1>4

\* An answer changes a page that is there and nothing of it but the statistics and the
\* power; it is of the page's server, unless the page was moved.
LEMMA PollAnsweredPage ==
  ASSUME SocketInv, PageInv, PollInv, NEW p \in Polls, PollAnswered(p)
  PROVE  \/ page' = page
         \/ /\ Mounted /\ page' \in Page /\ page'.hook = page.hook /\ page'.server = page.server
            /\ PageText(page') = PageText(page)
            /\ page'.stats.server = poll[p].at
            /\ page'.stats.changes = poll[p].status.changes
            /\ poll[p].at = page.server \/ moved
<1>1. poll[p].at \in Servers /\ poll[p].status \in Status
  BY PollOf DEF PollAnswered
<1>2. CASE ~\E h \in Hooks : client[h] # None /\ poll[p].at \in client[h].rooms /\ hook[h].mounted
  BY <1>2 DEF PollAnswered
<1>3. ASSUME NEW h \in Hooks, client[h] # None, poll[p].at \in client[h].rooms, hook[h].mounted
      PROVE  /\ Mounted /\ page' \in Page /\ page'.hook = page.hook /\ page'.server = page.server
             /\ PageText(page') = PageText(page)
             /\ page'.stats.server = poll[p].at
             /\ page'.stats.changes = poll[p].status.changes
             /\ poll[p].at = page.server \/ moved
  <2>1. Mounted /\ (moved \/ h = page.hook)
    BY <1>3 DEF PageInv
  <2>2. page' = StatsUpdate(page, poll[p].at, poll[p].status)
    BY <1>3 DEF PollAnswered
  <2>3. page \in Page /\ hook[page.hook].server = page.server
    BY <2>1, PageOf
  <2>4. poll[p].at = hook[h].server
    BY <1>3, SocketOf
  <2> QED
    BY <1>1, <2>1, <2>2, <2>3, <2>4, StatsUpdateForm
<1> QED
  BY <1>2, <1>3

\* The answer is shown: no other poll waits with an older one, unless they overlap.
LEMMA PollAnsweredPolls ==
  ASSUME SocketInv, PageInv, PollInv, Frame, NEW p \in Polls, PollAnswered(p)
  PROVE  PollInv'
<1>1. PollDone(p) /\ container' = container /\ poll[p].at # None
  BY DEF PollAnswered
<1>2. CASE page' = page
  BY <1>1, <1>2, PollDoneForm, OnePollUnseen
<1>3. CASE page'.stats.server = poll[p].at /\ page'.stats.changes = poll[p].status.changes
  <2>1. PICK x \in Poll : poll' = [poll EXCEPT ![p] = x] /\ x.at = None
    BY <1>1, PollDoneForm
  <2>2. page'.stats.changes <= container[page'.stats.server].changes
    BY <1>1, <1>3, PollOf
  <2>3. ASSUME ~overlapped, NEW q \in Polls \ {p}, poll[q].at = page'.stats.server
        PROVE  FALSE
    <3>1. p \in StatsPolls /\ q \in StatsPolls
      BY <1>1, <1>3, <2>3, PollOf
    <3> QED
      BY <2>3, <3>1 DEF PollInv
  <2> QED
    BY <1>1, <1>3, <2>1, <2>2, <2>3, OnePoll
<1> QED
  BY <1>2, <1>3, PollAnsweredPage

-----------------------------------------------------------------------------
(* Commands and power actions.                                             *)

TaskType == [hook : Hooks \cup {None}, server : Servers, message : Message]

\* The message at place i of the queue of h, if it has a number.
At(h, i) == i \in 1 .. Len(Queue(h)) /\ Numbered(Queue(h)[i])

\* What the invariant says of one place, one task and one command executed.
LEMMA CommandOf ==
  ASSUME CommandInv
  PROVE  /\ typed \in Nat /\ tasks \subseteq TaskType /\ executed \in Seq(Commands)
         /\ \A h \in Hooks : \A i : At(h, i) =>
              /\ Queue(h)[i].id <= typed
              /\ \A t \in tasks : t.message.id # Queue(h)[i].id
              /\ \A k \in 1 .. Len(executed) : executed[k] # Queue(h)[i].id
         /\ \A h, g \in Hooks : \A i, j :
              At(h, i) /\ At(g, j) /\ Queue(g)[j].id = Queue(h)[i].id => g = h /\ j = i
         /\ \A t \in tasks :
              /\ t.message.id <= typed
              /\ \A o \in tasks : o.message.id = t.message.id => o = t
              /\ \A k \in 1 .. Len(executed) : executed[k] # t.message.id
         /\ \A k \in 1 .. Len(executed) : executed[k] <= typed
         /\ CommandOnce
BY Bounds DEF CommandInv, At, TaskType

\* And what is enough of the next state.
LEMMA CommandParts ==
  ASSUME typed' \in 0 .. MaxCommands, tasks' \subseteq TaskType, executed' \in Seq(Commands),
         \A h \in Hooks : \A i : At(h, i)' =>
           /\ Queue(h)'[i].id <= typed'
           /\ \A t \in tasks' : t.message.id # Queue(h)'[i].id
           /\ \A k \in 1 .. Len(executed') : executed'[k] # Queue(h)'[i].id,
         \A h, g \in Hooks : \A i, j :
           At(h, i)' /\ At(g, j)' /\ Queue(g)'[j].id = Queue(h)'[i].id => g = h /\ j = i,
         \A t \in tasks' :
           /\ t.message.id <= typed'
           /\ \A o \in tasks' : o.message.id = t.message.id => o = t
           /\ \A k \in 1 .. Len(executed') : executed'[k] # t.message.id,
         \A k \in 1 .. Len(executed') : executed'[k] <= typed',
         CommandOnce'
  PROVE  CommandInv'
BY DEF CommandInv, At, TaskType

\* A place in a queue that was shifted is the place of the same message before.
LEMMA ShiftedAt ==
  ASSUME SocketInv, NEW h \in Hooks, NEW d \in {0, 1}, Shift(Queue(h), Queue(h)', d),
         NEW i, At(h, i)'
  PROVE  At(h, i + d) /\ Queue(h)[i + d] = Queue(h)'[i] /\ i \in Int
BY DEF Shift, At

\* Queues that only shrink, and tasks with the messages they had.
LEMMA CommandsShift ==
  ASSUME SocketInv, CommandInv, QueuesShift, UNCHANGED <<typed, executed>>,
         tasks' \subseteq TaskType,
         \A t \in tasks' : \E o \in tasks : o.message = t.message,
         \A t, o \in tasks' : o.message.id = t.message.id => o = t,
         CommandOnce'
  PROVE  CommandInv'
<1>1. ASSUME NEW h \in Hooks, NEW i, At(h, i)'
      PROVE  /\ Queue(h)'[i].id <= typed
             /\ \A t \in tasks' : t.message.id # Queue(h)'[i].id
             /\ \A k \in 1 .. Len(executed) : executed[k] # Queue(h)'[i].id
  <2>1. PICK d \in {0, 1} : Shift(Queue(h), Queue(h)', d)
    BY DEF QueuesShift
  <2>2. At(h, i + d) /\ Queue(h)[i + d] = Queue(h)'[i]
    BY <1>1, <2>1, ShiftedAt
  <2> QED
    BY <2>2, CommandOf
<1>2. ASSUME NEW h \in Hooks, NEW g \in Hooks, NEW i, NEW j, At(h, i)', At(g, j)',
             Queue(g)'[j].id = Queue(h)'[i].id
      PROVE  g = h /\ j = i
  <2>1. PICK d \in {0, 1} : Shift(Queue(h), Queue(h)', d)
    BY DEF QueuesShift
  <2>2. PICK e \in {0, 1} : Shift(Queue(g), Queue(g)', e)
    BY DEF QueuesShift
  <2>3. At(h, i + d) /\ Queue(h)[i + d] = Queue(h)'[i] /\ i \in Int
    BY <1>2, <2>1, ShiftedAt
  <2>4. At(g, j + e) /\ Queue(g)[j + e] = Queue(g)'[j] /\ j \in Int
    BY <1>2, <2>2, ShiftedAt
  <2>5. g = h
    BY <1>2, <2>3, <2>4, CommandOf
  <2>6. At(h, j + d) /\ Queue(h)[j + d] = Queue(h)'[j]
    BY <1>2, <2>1, <2>5, ShiftedAt
  <2>7. j + d = i + d
    BY <1>2, <2>3, <2>5, <2>6, CommandOf
  <2> QED
    BY <2>3, <2>4, <2>5, <2>7
<1>3. \A t \in tasks' : /\ t.message.id <= typed
                        /\ \A k \in 1 .. Len(executed) : executed[k] # t.message.id
  BY CommandOf
<1>4. typed' \in 0 .. MaxCommands /\ executed' \in Seq(Commands)
  BY DEF CommandInv
<1>5. \A k \in 1 .. Len(executed') : executed'[k] <= typed'
  BY CommandOf
<1> QED
  BY <1>1, <1>2, <1>3, <1>4, <1>5, CommandParts

\* The tasks of a connection that is gone answer nobody.
LEMMA TasksOrphaned ==
  ASSUME CommandInv, NEW h \in Hooks,
         tasks' = {[t EXCEPT !.hook = IF @ = h THEN None ELSE @] : t \in tasks}
  PROVE  /\ tasks' \subseteq TaskType
         /\ \A t \in tasks' : \E o \in tasks : o.message = t.message
         /\ \A t, o \in tasks' : o.message.id = t.message.id => o = t
<1> DEFINE f(t) == [t EXCEPT !.hook = IF @ = h THEN None ELSE @]
<1>1. \A t \in tasks : f(t) \in TaskType /\ f(t).message = t.message
  BY CommandOf DEF TaskType
<1>2. tasks' = {f(t) : t \in tasks}
  OBVIOUS
<1> HIDE DEF f
<1> QED
  BY <1>1, <1>2, CommandOf, SMTT(30)

\* The same tasks.
LEMMA TasksSame ==
  ASSUME CommandInv, tasks' = tasks
  PROVE  /\ tasks' \subseteq TaskType
         /\ \A t \in tasks' : \E o \in tasks : o.message = t.message
         /\ \A t, o \in tasks' : o.message.id = t.message.id => o = t
BY CommandOf

\* What was received stays among what was executed.
LEMMA OnceKept ==
  ASSUME CommandInv, executed' = executed,
         Mounted' => page'.received = << >> \/ (Mounted /\ page'.received = page.received)
  PROVE  CommandOnce'
<1>1. CommandOnce
  BY DEF CommandInv
<1>2. SetOf(<< >>) = {}
  BY DEF SetOf
<1>3. Mounted' => SetOf(page'.received) \subseteq SetOf(executed)
  BY <1>1, <1>2 DEF CommandOnce
<1>4. SetOf(page.received)' = SetOf(page'.received) /\ SetOf(executed)' = SetOf(executed)
  BY DEF SetOf
<1> QED
  BY <1>1, <1>3, <1>4 DEF CommandOnce

\* A command or a power action is given the next number.
LEMMA TypingCommands ==
  ASSUME SocketInv, CommandInv, NEW msg \in Message, msg.id = typed + 1, NEW h \in Hooks,
         typed < load.commands, typed' = typed + 1, UNCHANGED <<tasks, executed, page>>,
         \A g \in Hooks : Queue(g)' = IF g = h THEN Append(Queue(g), msg) ELSE Queue(g)
  PROVE  CommandInv'
<1>1. typed \in Nat /\ typed' \in 0 .. MaxCommands
  <2>1. load.commands \in 0 .. MaxCommands /\ typed \in 0 .. MaxCommands
    BY ConstantsAssumption DEF SocketInv, CommandInv
  <2> QED
    BY <2>1, Bounds
<1>2. /\ Queue(h) \in Seq(Wire) /\ Len(Queue(h)) \in Nat
      /\ Len(Append(Queue(h), msg)) = Len(Queue(h)) + 1
      /\ \A i \in 1 .. Len(Queue(h)) : Append(Queue(h), msg)[i] = Queue(h)[i]
      /\ Append(Queue(h), msg)[Len(Queue(h)) + 1] = msg
  BY SocketOf, AppendProperties DEF Wire
<1>3. ASSUME NEW g \in Hooks, NEW i, At(g, i)'
      PROVE  \/ At(g, i) /\ Queue(g)'[i] = Queue(g)[i] /\ Queue(g)[i].id <= typed
             \/ g = h /\ i = Len(Queue(h)) + 1 /\ Queue(g)'[i] = msg
  <2>1. /\ Queue(g)' = IF g = h THEN Append(Queue(g), msg) ELSE Queue(g)
        /\ i \in 1 .. Len(Queue(g)') /\ Numbered(Queue(g)'[i])
    BY <1>3 DEF At
  <2>2. CASE g # h
    BY <2>1, <2>2, CommandOf DEF At
  <2>3. CASE g = h
    <3>1. i \in 1 .. Len(Queue(h)) \/ i = Len(Queue(h)) + 1
      BY <1>2, <2>1, <2>3
    <3>2. CASE i = Len(Queue(h)) + 1
      BY <1>2, <2>1, <2>3, <3>2
    <3>3. CASE i \in 1 .. Len(Queue(h))
      <4>1. Queue(g)'[i] = Queue(g)[i]
        BY <1>2, <2>1, <2>3, <3>3
      <4>2. At(g, i)
        BY <2>1, <2>3, <3>3, <4>1 DEF At
      <4> QED
        BY <4>1, <4>2, CommandOf
    <3> QED
      BY <3>1, <3>2, <3>3
  <2> QED
    BY <2>2, <2>3
<1>4. \A g \in Hooks : \A i : At(g, i)' => Queue(g)'[i].id <= typed \/ Queue(g)'[i].id = typed + 1
  BY <1>3
<1>5. \A t \in tasks : t.message.id \in Nat /\ t.message.id <= typed
  BY CommandOf, GreetingQuiet DEF TaskType, Wire, Commands
<1>6. \A k \in 1 .. Len(executed) : executed[k] \in Nat /\ executed[k] <= typed
  <2>1. \A k \in 1 .. Len(executed) : executed[k] \in Commands
    BY CommandOf, ElementOfSeq
  <2> QED
    BY <2>1, CommandOf DEF Commands
<1>7. \A g \in Hooks : \A i : At(g, i) => Queue(g)[i].id \in Nat
  <2> SUFFICES ASSUME NEW g \in Hooks, NEW i, At(g, i) PROVE Queue(g)[i].id \in Nat
    OBVIOUS
  <2>1. Queue(g)[i] \in Wire /\ Numbered(Queue(g)[i])
    BY SocketOf, ElementOfSeq DEF At
  <2> QED
    BY <2>1, GreetingQuiet DEF Commands
<1>8. ASSUME NEW g \in Hooks, NEW i, At(g, i)'
      PROVE  /\ Queue(g)'[i].id <= typed'
             /\ \A t \in tasks : t.message.id # Queue(g)'[i].id
             /\ \A k \in 1 .. Len(executed) : executed[k] # Queue(g)'[i].id
  <2>1. CASE At(g, i) /\ Queue(g)'[i] = Queue(g)[i] /\ Queue(g)[i].id <= typed
    BY <1>1, <1>7, <2>1, CommandOf
  <2>2. CASE Queue(g)'[i] = msg
    BY <1>1, <1>5, <1>6, <2>2
  <2> QED
    BY <1>3, <1>8, <2>1, <2>2
<1>9. ASSUME NEW f \in Hooks, NEW g \in Hooks, NEW i, NEW j, At(f, i)', At(g, j)',
             Queue(g)'[j].id = Queue(f)'[i].id
      PROVE  g = f /\ j = i
  <2>1. \/ At(f, i) /\ Queue(f)'[i] = Queue(f)[i] /\ Queue(f)[i].id <= typed
        \/ f = h /\ i = Len(Queue(h)) + 1 /\ Queue(f)'[i] = msg
    BY <1>3, <1>9
  <2>2. \/ At(g, j) /\ Queue(g)'[j] = Queue(g)[j] /\ Queue(g)[j].id <= typed
        \/ g = h /\ j = Len(Queue(h)) + 1 /\ Queue(g)'[j] = msg
    BY <1>3, <1>9
  <2>3. ~(typed + 1 <= typed)
    BY <1>1
  <2> QED
    BY <1>9, <2>1, <2>2, <2>3, CommandOf
<1>10. CommandOnce'
  BY OnceKept DEF Mounted
<1>11. \A t \in tasks' :
         /\ t.message.id <= typed'
         /\ \A o \in tasks' : o.message.id = t.message.id => o = t
         /\ \A k \in 1 .. Len(executed') : executed'[k] # t.message.id
  BY <1>1, <1>5, CommandOf
<1>12. \A k \in 1 .. Len(executed') : executed'[k] <= typed'
  BY <1>1, <1>6
<1>13. tasks' \subseteq TaskType /\ executed' \in Seq(Commands)
  BY CommandOf
<1> QED
  BY <1>1, <1>8, <1>9, <1>10, <1>11, <1>12, <1>13, CommandParts

\* The gateway takes the first message off a queue and asks Wings.
LEMMA HandleSendCommands ==
  ASSUME SocketInv, CommandInv, NEW h \in Hooks, HandleSend(h), typed' = typed
  PROVE  CommandInv'
<1>1. /\ sent[h] # << >> /\ Queue(h) = sent[h] /\ Queue(h) \in Seq(Wire)
      /\ client[h] \in Client /\ Numbered(Head(Queue(h)))
  BY SocketOf DEF HandleSend, Queue, Numbered
<1>2. /\ Len(Queue(h)) \in Nat \ {0} /\ Head(Queue(h)) = Queue(h)[1] /\ Head(Queue(h)) \in Wire
      /\ Len(Tail(Queue(h))) = Len(Queue(h)) - 1
      /\ \A i \in 1 .. Len(Tail(Queue(h))) : Tail(Queue(h))[i] = Queue(h)[i + 1]
  BY <1>1, EmptySeq, HeadTailProperties
<1> DEFINE m == Head(Queue(h))
           n == [hook |-> h, server |-> client[h].server, message |-> m]
<1>3. At(h, 1) /\ m \in Message /\ Queue(h)[1] = m
  BY <1>1, <1>2, GreetingQuiet DEF At
<1>4. n.message = m /\ (client[h].server # None => n \in TaskType)
  BY <1>1, <1>3 DEF TaskType, Client
<1>5. tasks' = tasks \/ (tasks' = tasks \cup {n} /\ n \in TaskType)
  BY <1>1, <1>4 DEF HandleSend
<1>6. UNCHANGED <<executed, page, hook>> /\ sent' = [sent EXCEPT ![h] = Tail(@)]
  BY DEF HandleSend, Handled
<1>7. \A g \in Hooks : Queue(g)' = IF g = h THEN Tail(Queue(g)) ELSE Queue(g)
  <2>1. \A g \in Hooks : sent'[g] = IF g = h THEN Tail(sent[g]) ELSE sent[g]
    BY <1>6 DEF SocketInv
  <2>2. hook[h].link = "open"
    BY <1>1, SocketOf
  <2> QED
    BY <1>1, <1>6, <2>1, <2>2 DEF Queue
<1> HIDE DEF m, n
<1>8. ASSUME NEW g \in Hooks, NEW i, At(g, i)'
      PROVE  /\ At(g, IF g = h THEN i + 1 ELSE i) /\ i \in Nat /\ i # 0
             /\ Queue(g)'[i] = Queue(g)[IF g = h THEN i + 1 ELSE i]
  <2>1. i \in 1 .. Len(Queue(g)') /\ Numbered(Queue(g)'[i])
    BY <1>8 DEF At
  <2>2. CASE g = h
    <3>1. i \in 1 .. Len(Tail(Queue(h))) /\ Numbered(Tail(Queue(h))[i])
      BY <1>7, <2>1, <2>2
    <3>2. i + 1 \in 1 .. Len(Queue(h)) /\ Queue(h)[i + 1] = Tail(Queue(h))[i] /\ i \in Nat /\ i # 0
      BY <1>2, <3>1
    <3> QED
      BY <1>7, <2>2, <3>1, <3>2 DEF At
  <2>3. CASE g # h
    <3>1. Queue(g)' = Queue(g)
      BY <1>7, <2>3
    <3> QED
      BY <2>1, <2>3, <3>1 DEF At
  <2> QED
    BY <2>2, <2>3
<1>9. ASSUME NEW g \in Hooks, NEW i, At(g, i)'
      PROVE  /\ Queue(g)'[i].id <= typed
             /\ \A t \in tasks : t.message.id # Queue(g)'[i].id
             /\ m.id # Queue(g)'[i].id
             /\ \A k \in 1 .. Len(executed) : executed[k] # Queue(g)'[i].id
  <2> DEFINE j == IF g = h THEN i + 1 ELSE i
  <2>1. At(g, j) /\ Queue(g)'[i] = Queue(g)[j] /\ (g = h => j # 1)
    BY <1>8, <1>9
  <2> HIDE DEF j
  <2> QED
    BY <1>3, <2>1, CommandOf
<1>10. ASSUME NEW f \in Hooks, NEW g \in Hooks, NEW i, NEW j, At(f, i)', At(g, j)',
              Queue(g)'[j].id = Queue(f)'[i].id
       PROVE  g = f /\ j = i
  <2>1. /\ At(f, IF f = h THEN i + 1 ELSE i) /\ i \in Nat
        /\ Queue(f)'[i] = Queue(f)[IF f = h THEN i + 1 ELSE i]
    BY <1>8, <1>10
  <2>2. /\ At(g, IF g = h THEN j + 1 ELSE j) /\ j \in Nat
        /\ Queue(g)'[j] = Queue(g)[IF g = h THEN j + 1 ELSE j]
    BY <1>8, <1>10
  <2>3. g = f /\ (IF g = h THEN j + 1 ELSE j) = (IF f = h THEN i + 1 ELSE i)
    BY <1>10, <2>1, <2>2, CommandOf
  <2> QED
    BY <2>1, <2>2, <2>3
<1>11. \A t \in tasks' :
         /\ t.message.id <= typed
         /\ \A o \in tasks' : o.message.id = t.message.id => o = t
         /\ \A k \in 1 .. Len(executed) : executed[k] # t.message.id
  BY <1>3, <1>4, <1>5, CommandOf
<1>12. CommandOnce'
  BY <1>6, OnceKept DEF Mounted
<1>13. \A g \in Hooks : \A i : At(g, i)' => \A t \in tasks' : t.message.id # Queue(g)'[i].id
  BY <1>4, <1>5, <1>9
<1>14. /\ typed' \in 0 .. MaxCommands /\ tasks' \subseteq TaskType /\ executed' \in Seq(Commands)
       /\ \A k \in 1 .. Len(executed') : executed'[k] <= typed'
  BY <1>4, <1>5, <1>6, CommandOf DEF CommandInv
<1> QED
  BY <1>6, <1>9, <1>10, <1>11, <1>12, <1>13, <1>14, CommandParts

\* What a sequence holds, with one more at its end.
LEMMA SetOfAppend ==
  ASSUME NEW S, NEW q \in Seq(S), NEW x \in S
  PROVE  SetOf(Append(q, x)) = SetOf(q) \cup {x}
<1>1. /\ Len(q) \in Nat /\ Len(Append(q, x)) = Len(q) + 1
      /\ \A i \in 1 .. Len(q) : Append(q, x)[i] = q[i]
      /\ Append(q, x)[Len(q) + 1] = x
  BY AppendProperties
<1>2. 1 .. Len(q) + 1 = (1 .. Len(q)) \cup {Len(q) + 1}
  BY <1>1
<1> QED
  BY <1>1, <1>2 DEF SetOf

\* Wings has executed a command, or not, and the gateway no longer waits for it.
LEMMA TaskDoneCommands ==
  ASSUME SocketInv, CommandInv, UNCHANGED <<typed, hook, sent>>, NEW t \in tasks,
         tasks' = tasks \ {t}, executed' \in {executed, Append(executed, t.message.id)},
         Mounted' => SetOf(page'.received) \subseteq SetOf(executed')
  PROVE  CommandInv'
<1>1. \A g \in Hooks : Queue(g)' = Queue(g) /\ \A i : At(g, i)' = At(g, i)
  BY DEF Queue, At
<1>2. t.message.id \in Commands /\ executed \in Seq(Commands) /\ t \in TaskType
  BY CommandOf DEF TaskType, Message
<1>3. Len(executed) \in Nat /\ executed' \in Seq(Commands)
  BY <1>2, AppendProperties
<1>4. \A k \in 1 .. Len(executed') :
        \/ k \in 1 .. Len(executed) /\ executed'[k] = executed[k]
        \/ k = Len(executed) + 1 /\ executed'[k] = t.message.id
  <2>1. CASE executed' = executed
    BY <2>1
  <2>2. CASE executed' = Append(executed, t.message.id)
    <3>1. /\ Len(executed') = Len(executed) + 1 /\ executed'[Len(executed) + 1] = t.message.id
          /\ \A k \in 1 .. Len(executed) : executed'[k] = executed[k]
      BY <1>2, <2>2, AppendProperties
    <3> QED
      BY <1>3, <3>1
  <2> QED
    BY <2>1, <2>2
<1>5. \A g \in Hooks : \A i : At(g, i) =>
        /\ Queue(g)[i].id <= typed
        /\ \A o \in tasks' : o.message.id # Queue(g)[i].id
        /\ \A k \in 1 .. Len(executed') : executed'[k] # Queue(g)[i].id
  BY <1>4, CommandOf
<1>6. \A f, g \in Hooks : \A i, j :
        At(f, i) /\ At(g, j) /\ Queue(g)[j].id = Queue(f)[i].id => g = f /\ j = i
  BY CommandOf
<1>7. \A o \in tasks' :
        /\ o.message.id <= typed
        /\ \A r \in tasks' : r.message.id = o.message.id => r = o
        /\ \A k \in 1 .. Len(executed') : executed'[k] # o.message.id
  BY <1>4, CommandOf
<1>8. \A k \in 1 .. Len(executed') : executed'[k] <= typed
  BY <1>4, CommandOf
<1>9. \A i, j \in 1 .. Len(executed') : executed'[i] = executed'[j] => i = j
  BY <1>4, CommandOf DEF CommandOnce
<1>10. CommandOnce'
  <2>1. SetOf(page.received)' = SetOf(page'.received) /\ SetOf(executed)' = SetOf(executed')
    BY DEF SetOf
  <2> QED
    BY <1>9, <2>1 DEF CommandOnce
<1>11. typed' \in 0 .. MaxCommands /\ tasks' \subseteq TaskType
  BY CommandOf DEF CommandInv
<1> QED
  BY <1>1, <1>3, <1>5, <1>6, <1>7, <1>8, <1>10, <1>11, CommandParts

-----------------------------------------------------------------------------
(* The terminal.                                                           *)

\* The text of a page that is left alone, or of a new page.
LEMMA TerminalKept ==
  ASSUME TerminalInv,
         Mounted' => \/ Mounted /\ PageText(page') = PageText(page)
                     \/ PageText(page') = << << >>, << >>, 0, << >> >>
  PROVE  TerminalInv'
<1> SUFFICES ASSUME Mounted'
             PROVE  /\ Len(page'.lines) <= MaxLines /\ Len(page'.lines) <= Len(page'.received)
                    /\ Len(page'.received) <= MaxLines => page'.lines = page'.received
                    /\ page'.written <= Len(page'.lines) /\ Len(page'.terminal) = page'.written
                    /\ Len(page'.received) <= MaxLines =>
                         page'.terminal = SubSeq(page'.received, 1, page'.written)
                    /\ Len(page'.terminal) <= MaxLines
  BY DEF TerminalInv, TerminalFollows
<1>1. CASE Mounted /\ PageText(page') = PageText(page)
  <2>1. /\ page'.lines = page.lines /\ page'.received = page.received
        /\ page'.written = page.written /\ page'.terminal = page.terminal
    BY <1>1 DEF PageText
  <2> QED
    BY <1>1, <2>1 DEF TerminalInv, TerminalFollows
<1>2. CASE PageText(page') = << << >>, << >>, 0, << >> >>
  <2>1. page'.lines = << >> /\ page'.received = << >> /\ page'.written = 0 /\ page'.terminal = << >>
    BY <1>2 DEF PageText
  <2>2. SubSeq(<< >>, 1, 0) = << >> /\ Len(<< >>) = 0 /\ 0 <= MaxLines
    BY SubSeqEmpty, EmptySeq, Bounds
  <2> QED
    BY <2>1, <2>2
<1> QED
  BY <1>1, <1>2

\* A line is received.
LEMMA ConsoleOutputForm ==
  ASSUME NEW pg \in Page, NEW line \in Commands
  PROVE  LET n == ConsoleOutput(pg, line)
             next == Append(pg.lines, line)
         IN  /\ n \in Page /\ n.hook = pg.hook /\ n.server = pg.server /\ n.stats = pg.stats
             /\ n.lines = (IF Len(next) > MaxLines THEN Tail(next) ELSE next)
             /\ n.received = Append(pg.received, line)
             /\ n.written = pg.written /\ n.terminal = pg.terminal
<1> DEFINE next == Append(pg.lines, line)
           ls == IF Len(next) > MaxLines THEN Tail(next) ELSE next
           rs == Append(pg.received, line)
<1>1. pg.lines \in Seq(Commands) /\ pg.received \in Seq(Commands)
  BY DEF Page
<1>2. next \in Seq(Commands) /\ next # << >> /\ rs \in Seq(Commands)
  BY <1>1, AppendProperties
<1>3. ls \in Seq(Commands)
  BY <1>2, HeadTailProperties
<1>4. ConsoleOutput(pg, line) = [pg EXCEPT !.lines = ls, !.received = rs]
  BY DEF ConsoleOutput
<1> HIDE DEF ls, rs
<1>5. LET n == [pg EXCEPT !.lines = ls, !.received = rs]
      IN  /\ n \in Page /\ n.hook = pg.hook /\ n.server = pg.server /\ n.stats = pg.stats
          /\ n.lines = ls /\ n.received = rs
          /\ n.written = pg.written /\ n.terminal = pg.terminal
  BY <1>2, <1>3 DEF Page
<1> QED
  BY <1>4, <1>5 DEF ls, rs

\* A line is received: the window slides once it is full, the terminal waits.
LEMMA OutputTerminal ==
  ASSUME PageInv, TerminalInv, Mounted, NEW line \in Commands,
         page' = ConsoleOutput(page, line)
  PROVE  TerminalInv'
<1> DEFINE next == Append(page.lines, line)
<1>1. page \in Page
  BY PageOf
<1>2. /\ page.lines \in Seq(Commands) /\ page.received \in Seq(Commands)
      /\ page.terminal \in Seq(Commands) /\ page.written \in Nat
      /\ Len(page.lines) \in Nat /\ Len(page.received) \in Nat /\ Len(page.terminal) \in Nat
  BY <1>1 DEF Page
<1>3. /\ page'.lines = (IF Len(next) > MaxLines THEN Tail(next) ELSE next)
      /\ page'.received = Append(page.received, line)
      /\ page'.written = page.written /\ page'.terminal = page.terminal
  BY <1>1, ConsoleOutputForm
<1>4. /\ Len(page.lines) <= MaxLines /\ Len(page.lines) <= Len(page.received)
      /\ Len(page.received) <= MaxLines => page.lines = page.received
      /\ page.written <= Len(page.lines) /\ Len(page.terminal) = page.written
      /\ Len(page.received) <= MaxLines =>
           page.terminal = SubSeq(page.received, 1, page.written)
      /\ Len(page.terminal) <= MaxLines
  BY DEF TerminalInv, TerminalFollows
<1>5. /\ next \in Seq(Commands) /\ next # << >> /\ Len(next) = Len(page.lines) + 1
      /\ Len(page'.received) = Len(page.received) + 1 /\ page'.received \in Seq(Commands)
      /\ \A i \in 1 .. Len(page.received) : page'.received[i] = page.received[i]
  <2>1. next \in Seq(Commands) /\ next # << >> /\ Len(next) = Len(page.lines) + 1
    BY <1>2, AppendProperties
  <2>2. LET a == Append(page.received, line)
        IN  /\ Len(a) = Len(page.received) + 1 /\ a \in Seq(Commands)
            /\ \A i \in 1 .. Len(page.received) : a[i] = page.received[i]
    BY <1>2, AppendProperties
  <2> QED
    BY <1>3, <2>1, <2>2
<1>6. Len(Tail(next)) = Len(page.lines)
  BY <1>2, <1>5, HeadTailProperties
<1>7. /\ Len(page'.lines) <= MaxLines /\ Len(page'.lines) <= Len(page'.received)
      /\ page'.written <= Len(page'.lines)
  <2>1. CASE Len(next) > MaxLines
    BY <1>2, <1>3, <1>4, <1>5, <1>6, <2>1, Bounds
  <2>2. CASE ~(Len(next) > MaxLines)
    BY <1>2, <1>3, <1>4, <1>5, <2>2, Bounds, SMTT(30)
  <2> QED
    BY <2>1, <2>2
<1>8. ASSUME Len(page'.received) <= MaxLines
      PROVE  /\ page'.lines = page'.received
             /\ page'.terminal = SubSeq(page'.received, 1, page'.written)
  <2>1. Len(page.received) <= MaxLines /\ page.lines = page.received
    BY <1>2, <1>4, <1>5, <1>8, Bounds
  <2>2. ~(Len(next) > MaxLines)
    BY <1>2, <1>5, <1>8, <2>1, Bounds
  <2>3. page'.lines = page'.received
    BY <1>3, <2>1, <2>2
  <2>4. page.written <= Len(page.received)
    BY <1>2, <1>4
  <2>5. SubSeq(page'.received, 1, page.written) = SubSeq(page.received, 1, page.written)
    <3> DEFINE a == SubSeq(page'.received, 1, page.written)
               b == SubSeq(page.received, 1, page.written)
    <3>1. \A i \in 1 .. page.written : page'.received[i] = page.received[i]
                                       /\ page.received[i] \in Commands
      BY <1>2, <1>5, <2>4, ElementOfSeq
    <3>2. /\ a \in Seq(Commands) /\ b \in Seq(Commands)
          /\ Len(a) = page.written /\ Len(b) = page.written
          /\ \A i \in 1 .. page.written : a[i] = page'.received[i] /\ b[i] = page.received[i]
      BY <1>2, <3>1, SubSeqProperties
    <3> HIDE DEF a, b
    <3>3. a = b
      BY <3>1, <3>2, SeqEqual
    <3> QED
      BY <3>3 DEF a, b
  <2> QED
    BY <1>3, <1>4, <2>1, <2>3, <2>5
<1> QED
  BY <1>3, <1>4, <1>7, <1>8 DEF TerminalInv, TerminalFollows

\* The effect writes the rest of the window behind the lines written.
LEMMA WriteLinesTerminal ==
  ASSUME PageInv, TerminalInv, WriteLines
  PROVE  /\ TerminalInv' /\ page' \in Page /\ page'.hook = page.hook
         /\ page'.server = page.server /\ page'.stats = page.stats
         /\ page'.received = page.received
<1> DEFINE l == page.lines
           w == page.written
           r == SubSeq(l, w + 1, Len(l))
           t == page.terminal \o r
<1>1. Mounted /\ page \in Page /\ w < Len(l)
  BY PageOf DEF WriteLines
<1>2. /\ l \in Seq(Commands) /\ page.received \in Seq(Commands)
      /\ page.terminal \in Seq(Commands) /\ w \in Nat
      /\ Len(l) \in Nat /\ Len(page.received) \in Nat /\ Len(page.terminal) \in Nat
  BY <1>1 DEF Page
<1>3. /\ Len(l) <= MaxLines /\ Len(l) <= Len(page.received)
      /\ Len(page.received) <= MaxLines => l = page.received
      /\ Len(page.terminal) = w
      /\ Len(page.received) <= MaxLines => page.terminal = SubSeq(page.received, 1, w)
  BY <1>1 DEF TerminalInv, TerminalFollows
<1>4. r \in Seq(Commands) /\ Len(r) = Len(l) - w
  <2>1. \A i \in w + 1 .. Len(l) : l[i] \in Commands
    BY <1>2, ElementOfSeq
  <2> QED
    BY <1>1, <1>2, <2>1, SubSeqProperties
<1>5. t \in Seq(Commands) /\ Len(t) = Len(l)
  <2>1. t \in Seq(Commands) /\ Len(t) = Len(page.terminal) + Len(r)
    BY <1>2, <1>4, ConcatProperties
  <2> QED
    BY <1>2, <1>3, <1>4, <2>1
<1>6. page' = [page EXCEPT !.terminal = t, !.written = Len(l)]
  BY DEF WriteLines
<1>7. Len(page.received) <= MaxLines => t = SubSeq(page.received, 1, Len(l))
  <2> SUFFICES ASSUME Len(page.received) <= MaxLines PROVE t = SubSeq(page.received, 1, Len(l))
    OBVIOUS
  <2>1. l = page.received /\ page.terminal = SubSeq(l, 1, w)
    BY <1>3
  <2>2. 1 \in 1 .. Len(l) + 1 /\ w \in 1 - 1 .. Len(l) /\ Len(l) \in w .. Len(l)
    BY <1>1, <1>2
  <2>3. SubSeq(l, 1, w) \o SubSeq(l, w + 1, Len(l)) = SubSeq(l, 1, Len(l))
    BY <1>2, <2>2, ConcatAdjacentSubSeq
  <2> QED
    BY <2>1, <2>3
<1> HIDE DEF t, r
<1>8. /\ page' \in Page /\ page'.hook = page.hook /\ page'.server = page.server
      /\ page'.stats = page.stats /\ page'.lines = l /\ page'.received = page.received
      /\ page'.terminal = t /\ page'.written = Len(l)
  BY <1>1, <1>2, <1>5, <1>6 DEF Page
<1> HIDE DEF l, w
<1>9. TerminalInv'
  BY <1>2, <1>3, <1>5, <1>7, <1>8 DEF TerminalInv, TerminalFollows
<1> QED
  BY <1>8, <1>9

-----------------------------------------------------------------------------
(* One step.                                                               *)

TasksKept ==
  /\ tasks' \subseteq TaskType
  /\ \A t \in tasks' : \E o \in tasks : o.message = t.message
  /\ \A t, o \in tasks' : o.message.id = t.message.id => o = t

\* A step of the sockets that says at most something of the connection to the page.
LEMMA QuietStep ==
  ASSUME ConsoleInv, Frame, SocketInv', QueuesShift, HooksSame, PageKept, TasksKept,
         UNCHANGED <<hooks, moved, container, poll, executed, typed>>
  PROVE  ConsoleInv'
<1>1. SocketInv /\ PageInv /\ PollInv /\ CommandInv /\ TerminalInv
  BY DEF ConsoleInv
<1>2. Mounted' => /\ Mounted /\ page'.stats = page.stats
                  /\ PageText(page') = PageText(page)
  BY DEF PageKept, Mounted
<1>3. PageText(page') = PageText(page) => page'.received = page.received
  BY DEF PageText
<1>4. PageInv'
  BY <1>1, PageKeeps
<1>5. PollInv'
  BY <1>1, <1>2, PollKeeps
<1>6. CommandOnce'
  BY <1>1, <1>2, <1>3, OnceKept
<1>7. CommandInv'
  BY <1>1, <1>6, CommandsShift DEF TasksKept
<1>8. TerminalInv'
  BY <1>1, <1>2, TerminalKept
<1> QED
  BY <1>4, <1>5, <1>7, <1>8 DEF ConsoleInv

\* connect, connect_error and the timer.
LEMMA ReconnectionKeeps ==
  ASSUME ConsoleInv, Frame, typed' = typed, NEW h \in Hooks,
         Connect(h) \/ ConnectError(h) \/ TimerFires(h)
  PROVE  ConsoleInv'
<1>1. SocketInv /\ PageInv /\ CommandInv /\ load' = load
  BY DEF ConsoleInv, Frame
<1>2. SocketInv' /\ QueuesShift
  BY <1>1, ConnectSockets, ConnectErrorSockets, TimerFiresSockets
<1>3. HooksSame
  BY <1>1, SocketsSame
<1>4. tasks' = tasks /\ UNCHANGED <<hooks, moved, container, poll, executed>>
  BY DEF Connect, ConnectError, TimerFires
<1>5. TasksKept
  BY <1>1, <1>4, TasksSame DEF TasksKept
<1>6. ASSUME NEW c \in {"connected", "error"}, page' = SetPage(h, [page EXCEPT !.connection = c])
      PROVE  PageKept
  <2>1. ASSUME Mounted
        PROVE  LET n == [page EXCEPT !.connection = c]
               IN  /\ n \in Page /\ n.hook = page.hook /\ n.server = page.server
                   /\ n.stats = page.stats /\ PageText(n) = PageText(page)
    <3>1. page \in Page /\ c \in {"connecting", "connected", "disconnected", "error"}
      BY <1>1, <2>1, PageOf
    <3> QED
      BY <3>1, PageForms
  <2> QED
    BY <1>1, <1>6, <2>1, SetPageKept
<1>7. PageKept
  <2>1. CASE Connect(h)
    BY <1>6, <2>1 DEF Connect
  <2>2. CASE ConnectError(h)
    BY <1>6, <2>2 DEF ConnectError
  <2>3. CASE TimerFires(h)
    BY <2>3 DEF TimerFires, PageKept
  <2> QED
    BY <2>1, <2>2, <2>3
<1> QED
  BY <1>2, <1>3, <1>4, <1>5, <1>7, QuietStep

\* The connection breaks, or the gateway closes it or goes on after handleAuth.
LEMMA CloseKeeps ==
  ASSUME ConsoleInv, Frame, typed' = typed, NEW h \in Hooks, Close(h) \/ HandleAuth(h)
  PROVE  ConsoleInv'
<1>1. SocketInv /\ PageInv /\ CommandInv /\ load' = load
  BY DEF ConsoleInv, Frame
<1>2. HooksSame
  BY <1>1, SocketsSame
<1>3. UNCHANGED <<hooks, moved, container, poll, executed>>
  BY DEF Close, HandleAuth
<1>4. CASE /\ hook[h].link = "open" /\ hook' = [hook EXCEPT ![h] = Disconnected(@)]
           /\ HandleDisconnect(h) /\ page' = SetPage(h, PageDisconnected(page))
  <2>1. SocketInv' /\ QueuesShift
    BY <1>1, <1>3, <1>4, SocketCloses
  <2>2. TasksKept
    BY <1>1, <1>4, TasksOrphaned DEF TasksKept, HandleDisconnect
  <2>3. Mounted => LET n == PageDisconnected(page)
                   IN  /\ n \in Page /\ n.hook = page.hook /\ n.server = page.server
                       /\ n.stats = page.stats /\ PageText(n) = PageText(page)
    BY <1>1, PageOf, PageForms
  <2>4. PageKept
    BY <1>1, <1>4, <2>3, SetPageKept
  <2> QED
    BY <1>2, <1>3, <2>1, <2>2, <2>4, QuietStep
<1>5. CASE HandleAuth(h) /\ load.stored = "jwt"
  <2>1. SocketInv' /\ QueuesShift
    BY <1>1, <1>5, HandleAuthSockets
  <2>2. tasks' = tasks /\ page' = page
    BY <1>5 DEF HandleAuth
  <2>3. TasksKept /\ PageKept
    BY <1>1, <2>2, TasksSame DEF TasksKept, PageKept
  <2> QED
    BY <1>2, <1>3, <2>1, <2>3, QuietStep
<1>6. HandleAuth(h) => hook[h].link = "open"
  BY <1>1, SocketOf DEF HandleAuth
<1> QED
  BY <1>4, <1>5, <1>6 DEF Close, HandleAuth

\* handleSubscribe.
LEMMA HandleSubscribeKeeps ==
  ASSUME ConsoleInv, Frame, typed' = typed, NEW h \in Hooks, HandleSubscribe(h)
  PROVE  ConsoleInv'
<1>1. SocketInv /\ CommandInv /\ load' = load
  BY DEF ConsoleInv, Frame
<1>2. SocketInv' /\ QueuesShift
  BY <1>1, HandleSubscribeSockets
<1>3. UNCHANGED <<hooks, moved, container, poll, executed, tasks, page, hook>>
  BY DEF HandleSubscribe
<1>4. TasksKept /\ PageKept /\ HooksSame
  BY <1>1, <1>3, TasksSame DEF TasksKept, PageKept, HooksSame
<1> QED
  BY <1>2, <1>3, <1>4, QuietStep

\* handleSendCommand and handleSendPowerAction up to their first await.
LEMMA HandleSendKeeps ==
  ASSUME ConsoleInv, Frame, typed' = typed, NEW h \in Hooks, HandleSend(h)
  PROVE  ConsoleInv'
<1>1. SocketInv /\ PageInv /\ PollInv /\ CommandInv /\ TerminalInv /\ load' = load
  BY DEF ConsoleInv, Frame
<1>2. SocketInv'
  BY <1>1, HandleSendSockets
<1>3. UNCHANGED <<hooks, moved, container, poll, page, hook>> /\ Mounted' = Mounted
  BY DEF HandleSend, Mounted
<1>4. PageInv'
  BY <1>1, <1>3, PageKeeps DEF PageKept, HooksSame
<1>5. PollInv'
  BY <1>1, <1>3, PollKeeps
<1>6. CommandInv'
  BY <1>1, HandleSendCommands
<1>7. TerminalInv'
  BY <1>1, <1>3, TerminalKept
<1> QED
  BY <1>2, <1>4, <1>5, <1>6, <1>7 DEF ConsoleInv

\* A command is typed or a button of PowerControls clicked.
LEMMA TypingKeeps ==
  ASSUME ConsoleInv, Frame, SendCommand \/ ClickPower
  PROVE  ConsoleInv'
<1>1. SocketInv /\ PageInv /\ PollInv /\ CommandInv /\ TerminalInv /\ load' = load
  BY DEF ConsoleInv, Frame
<1>2. /\ Mounted /\ typed < load.commands /\ typed' = typed + 1
      /\ UNCHANGED <<container, page, hooks, client, tasks, poll, executed, moved>>
  BY DEF SendCommand, ClickPower
<1>3. typed + 1 \in Commands
  <2>1. load.commands \in 0 .. MaxCommands /\ typed \in 0 .. MaxCommands
    BY <1>1, ConstantsAssumption DEF SocketInv, CommandInv
  <2> QED
    BY <1>2, <2>1, Bounds DEF Commands
<1>4. PICK msg \in Message : msg.id = typed + 1 /\ Emit(msg)
  <2>1. CASE SendCommand
    <3>1. [type |-> "send_command", id |-> typed + 1] \in Message
      BY <1>3 DEF Message
    <3> QED
      BY <2>1, <3>1 DEF SendCommand
  <2>2. CASE ClickPower
    <3>1. PICK action \in PowerButtons(page.power) :
            Emit([type |-> "send_power_action", id |-> typed + 1, action |-> action])
      BY <2>2 DEF ClickPower
    <3>2. action \in {"start", "stop", "restart", "kill"}
      BY DEF PowerButtons
    <3>3. [type |-> "send_power_action", id |-> typed + 1, action |-> action] \in Message
      BY <1>3, <3>2 DEF Message
    <3> QED
      BY <3>1, <3>3
  <2> QED
    BY <2>1, <2>2
<1>5. PICK h \in Hooks : h = page.hook
  BY <1>1, <1>2, PageOf
<1>6. /\ SocketInv'
      /\ \A g \in Hooks : Queue(g)' = IF g = h THEN Append(Queue(g), msg) ELSE Queue(g)
  BY <1>1, <1>2, <1>4, <1>5, PageOf, EmitSockets
<1>7. CommandInv'
  BY <1>1, <1>2, <1>4, <1>6, TypingCommands
<1>8. HooksSame
  <2>1. CASE hook' = hook
    BY <2>1 DEF HooksSame
  <2>2. CASE hook' = [hook EXCEPT ![h].buffer = Append(@, msg)]
    <3>1. \A g \in Hooks : hook'[g] = IF g = h THEN [hook[h] EXCEPT !.buffer = Append(@, msg)]
                                      ELSE hook[g]
      BY <1>1, <2>2 DEF SocketInv
    <3>2. hook[h] \in Socket
      BY <1>1, SocketOf
    <3>3. LET s == [hook[h] EXCEPT !.buffer = Append(@, msg)]
          IN  /\ s.mounted = hook[h].mounted /\ s.server = hook[h].server
              /\ s.component = hook[h].component
      BY <3>2 DEF Socket
    <3> QED
      BY <3>1, <3>3 DEF HooksSame
  <2> QED
    BY <1>4, <1>5, <2>1, <2>2 DEF Emit
<1>9. PageInv'
  BY <1>1, <1>2, <1>8, PageKeeps DEF PageKept
<1>10. Mounted' = Mounted
  BY <1>2 DEF Mounted
<1>11. PollInv'
  BY <1>1, <1>2, PollKeeps
<1>12. TerminalInv'
  BY <1>1, <1>2, <1>10, TerminalKept
<1> QED
  BY <1>6, <1>7, <1>9, <1>11, <1>12 DEF ConsoleInv

\* The page of a server is opened.
LEMMA OpenKeeps ==
  ASSUME ConsoleInv, Frame, typed' = typed, NEW u \in Servers, Open(u)
  PROVE  ConsoleInv'
<1>1. SocketInv /\ PageInv /\ PollInv /\ CommandInv /\ TerminalInv /\ load' = load
  BY DEF ConsoleInv, Frame
<1>2. SocketInv' /\ QueuesShift
  BY <1>1, OpenSockets
<1>3. PICK n \in Hooks : n = hooks + 1 /\ n \in 1 .. n
  <2>1. hooks + 1 \in Hooks
    BY <1>1, FreshSocket DEF Open
  <2> QED
    BY <2>1 DEF Hooks
<1>4. /\ ~Mounted /\ hooks' = n /\ moved' = FALSE /\ hook' = [hook EXCEPT ![n] = NewSocket(u, n)]
      /\ page' = [NewPage(u) EXCEPT !.hook = n]
      /\ UNCHANGED <<container, tasks, poll, executed>>
  BY <1>3 DEF Open
<1>5. /\ page' \in Page /\ page'.hook = n /\ page'.server = u /\ page'.stats = None
      /\ PageText(page') = << << >>, << >>, 0, << >> >>
      /\ page'.received = << >>
  <2>1. << >> \in Seq(Commands)
    BY EmptySeq
  <2> QED
    BY <1>3, <1>4, <2>1 DEF NewPage, Page, PageText
<1>6. \A g \in Hooks : /\ hook'[g].mounted => g = n
                       /\ g = n => hook'[g].server = u /\ hook'[g].component = n
  <2>1. \A g \in Hooks : ~hook[g].mounted
    BY <1>1, <1>4 DEF PageInv
  <2>2. \A g \in Hooks : hook'[g] = IF g = n THEN NewSocket(u, n) ELSE hook[g]
    BY <1>1, <1>4 DEF SocketInv
  <2>3. NewSocket(u, n).server = u /\ NewSocket(u, n).component = n
    BY <1>3, NewForm
  <2> QED
    BY <2>1, <2>2, <2>3
<1>7. Mounted'
  BY <1>5, ConstantsAssumption DEF Mounted
<1>8. ShowsItsServer'
  BY <1>5 DEF ShowsItsServer
<1>9. PageInv'
  BY <1>3, <1>4, <1>5, <1>6, <1>7, <1>8 DEF PageInv
<1>10. PollInv'
  BY <1>1, <1>4, <1>5, PollKeeps
<1>11. CommandOnce'
  BY <1>1, <1>4, <1>5, OnceKept
<1>12. CommandInv'
  BY <1>1, <1>2, <1>4, <1>11, TasksSame, CommandsShift
<1>13. TerminalInv'
  BY <1>1, <1>5, TerminalKept
<1> QED
  BY <1>2, <1>9, <1>10, <1>12, <1>13 DEF ConsoleInv

\* The page is moved to another server.
LEMMA NavigateKeeps ==
  ASSUME ConsoleInv, Frame, typed' = typed, NEW u \in Servers, Navigate(u)
  PROVE  ConsoleInv'
<1>1. SocketInv /\ PageInv /\ PollInv /\ CommandInv /\ TerminalInv /\ load' = load
  BY DEF ConsoleInv, Frame
<1>2. /\ Mounted /\ page \in Page /\ page.hook \in 1 .. hooks /\ page.hook \in Hooks
      /\ page.server \in Servers /\ hook[page.hook].server = page.server
      /\ hook[page.hook].component \in Hooks
  BY <1>1, PageOf DEF Navigate
<1>3. SocketInv' /\ QueuesShift
  BY <1>1, <1>2, NavigateSockets
<1>4. PICK n \in Hooks : n = hooks + 1 /\ n \in 1 .. n /\ n # page.hook
  <2>1. hooks + 1 \in Hooks
    BY <1>1, FreshSocket DEF Navigate
  <2>2. page.hook # hooks + 1
    BY <1>1, <1>2, UsedHook
  <2> QED
    BY <2>1, <2>2 DEF Hooks
<1> DEFINE b == IF hook[page.hook].link = "open" THEN PageDisconnected(page) ELSE page
<1>5. b \in Page /\ b.stats = page.stats /\ PageText(b) = PageText(page)
  BY <1>2, PageForms
<1>6. /\ hooks' = n /\ moved' = TRUE /\ HandleDisconnect(page.hook)
      /\ hook' = [hook EXCEPT ![n] = NewSocket(u, hook[page.hook].component),
                              ![page.hook] = CleanUp(hook[page.hook])]
      /\ page' = [b EXCEPT !.hook = n, !.server = u]
      /\ UNCHANGED <<container, poll, executed>>
  BY <1>4 DEF Navigate
<1> HIDE DEF b
<1>7. /\ page' \in Page /\ page'.hook = n /\ page'.server = u /\ page'.stats = page.stats
      /\ PageText(page') = PageText(page)
  <2>1. /\ page' \in Page /\ page'.hook = n /\ page'.server = u /\ page'.stats = b.stats
        /\ PageText(page') = PageText(b)
    BY <1>5, <1>6 DEF Page, PageText
  <2> QED
    BY <1>5, <2>1
<1>8. page'.received = page.received
  BY <1>7 DEF PageText
<1>9. hook'[n].server = u /\ hook'[n].component \in Hooks
  <2>1. hook'[n] = NewSocket(u, hook[page.hook].component)
    BY <1>1, <1>4, <1>6 DEF SocketInv
  <2> QED
    BY <1>2, <2>1, NewForm
<1>10. Mounted'
  BY <1>7, ConstantsAssumption DEF Mounted
<1>11. ShowsItsServer'
  BY <1>6 DEF ShowsItsServer
<1>12. PageInv'
  BY <1>4, <1>6, <1>7, <1>9, <1>10, <1>11 DEF PageInv
<1>13. PollInv'
  BY <1>1, <1>2, <1>6, <1>7, PollKeeps
<1>14. CommandOnce'
  BY <1>1, <1>2, <1>6, <1>8, OnceKept
<1>15. CommandInv'
  <2>1. TasksKept
    BY <1>1, <1>2, <1>6, TasksOrphaned DEF TasksKept, HandleDisconnect
  <2> QED
    BY <1>1, <1>3, <1>6, <1>14, <2>1, CommandsShift DEF TasksKept
<1>16. TerminalInv'
  BY <1>1, <1>2, <1>7, TerminalKept
<1> QED
  BY <1>3, <1>12, <1>13, <1>15, <1>16 DEF ConsoleInv

\* The page is left.
LEMMA LeaveKeeps ==
  ASSUME ConsoleInv, Frame, typed' = typed, Leave
  PROVE  ConsoleInv'
<1>1. SocketInv /\ PageInv /\ PollInv /\ CommandInv /\ TerminalInv /\ load' = load
  BY DEF ConsoleInv, Frame
<1>2. /\ Mounted /\ page.hook \in 1 .. hooks /\ page.hook \in Hooks
      /\ hook[page.hook].server \in Servers /\ hook[page.hook].component \in Hooks
  BY <1>1, PageOf DEF Leave
<1>3. SocketInv' /\ QueuesShift /\ \A g \in Hooks : hook'[g].mounted = FALSE
  BY <1>1, <1>2, LeaveSockets
<1>4. /\ page' = None /\ HandleDisconnect(page.hook)
      /\ UNCHANGED <<hooks, moved, container, poll, executed>>
  BY DEF Leave
<1>5. ~Mounted'
  BY <1>4 DEF Mounted
<1>6. PageInv'
  BY <1>1, <1>3, <1>4, <1>5 DEF PageInv, ShowsItsServer
<1>7. PollInv'
  BY <1>1, <1>4, <1>5, PollKeeps
<1>8. CommandOnce'
  BY <1>1, <1>4, <1>5, OnceKept
<1>9. CommandInv'
  <2>1. TasksKept
    BY <1>1, <1>2, <1>4, TasksOrphaned DEF TasksKept, HandleDisconnect
  <2> QED
    BY <1>1, <1>3, <1>4, <1>8, <2>1, CommandsShift DEF TasksKept
<1>10. TerminalInv'
  BY <1>5 DEF TerminalInv
<1> QED
  BY <1>3, <1>6, <1>7, <1>9, <1>10 DEF ConsoleInv

\* A step of the page or of the polls that leaves sockets, tasks and commands alone.
LEMMA ApartKeeps ==
  ASSUME ConsoleInv, Frame,
         UNCHANGED <<hooks, hook, client, sent, tasks, typed, executed, moved>>,
         PageInv', PollInv', TerminalInv',
         Mounted' => Mounted /\ page'.received = page.received
  PROVE  ConsoleInv'
<1>1. SocketInv /\ CommandInv /\ load' = load
  BY DEF ConsoleInv, Frame
<1>2. SocketInv' /\ QueuesShift
  BY <1>1, SocketsAlone
<1>3. CommandOnce'
  BY <1>1, OnceKept
<1>4. CommandInv'
  BY <1>1, <1>2, <1>3, TasksSame, CommandsShift
<1> QED
  BY <1>2, <1>4 DEF ConsoleInv

\* The page is the same but for its text or its statistics.
LEMMA PageAlters ==
  ASSUME PageInv, UNCHANGED <<hooks, hook, moved>>, Mounted, page' \in Page,
         page'.hook = page.hook, page'.server = page.server,
         page'.stats = page.stats \/ page'.stats.server = page.server \/ moved
  PROVE  PageInv' /\ Mounted'
<1>1. Mounted'
  BY ConstantsAssumption DEF Mounted
<1>2. ShowsItsServer'
  BY DEF PageInv, ShowsItsServer
<1> QED
  BY <1>1, <1>2 DEF PageInv

\* The effect of the terminal.
LEMMA WriteLinesKeeps ==
  ASSUME ConsoleInv, Frame, typed' = typed, WriteLines
  PROVE  ConsoleInv'
<1>1. SocketInv /\ PageInv /\ PollInv /\ CommandInv /\ TerminalInv
  BY DEF ConsoleInv
<1>2. /\ Mounted
      /\ UNCHANGED <<container, hooks, hook, sent, client, tasks, poll, executed, moved>>
  BY DEF WriteLines
<1>3. /\ TerminalInv' /\ page' \in Page /\ page'.hook = page.hook /\ page'.server = page.server
      /\ page'.stats = page.stats /\ page'.received = page.received
  BY <1>1, WriteLinesTerminal
<1>4. PageInv'
  BY <1>1, <1>2, <1>3, PageAlters
<1>5. PollInv'
  BY <1>1, <1>2, <1>3, PollKeeps
<1> QED
  BY <1>2, <1>3, <1>4, <1>5, ApartKeeps

\* pollStats of the gateway.
LEMMA PollingKeeps ==
  ASSUME ConsoleInv, Frame, typed' = typed, NEW p \in Polls, Polling(p)
  PROVE  ConsoleInv'
<1>1. SocketInv /\ PageInv /\ PollInv /\ CommandInv /\ TerminalInv
  BY DEF ConsoleInv
<1>2. UNCHANGED <<container, hooks, hook, sent, client, tasks, executed, moved>>
  BY DEF Polling, StartPoll, GetServerStatus, PollAnswered, PollFails
<1>3. PollInv'
  BY <1>1, StartPollPolls, GetServerStatusPolls, PollAnsweredPolls, PollFailsPolls DEF Polling
<1>4. CASE page' = page
  <2>1. Mounted' = Mounted
    BY <1>4 DEF Mounted
  <2>2. PageInv'
    BY <1>1, <1>2, <1>4, PageKeeps DEF PageKept, HooksSame
  <2>3. TerminalInv'
    BY <1>1, <1>4, <2>1, TerminalKept
  <2> QED
    BY <1>2, <1>3, <1>4, <2>1, <2>2, <2>3, ApartKeeps
<1>5. CASE PollAnswered(p) /\ page' # page
  <2>1. /\ Mounted /\ page' \in Page /\ page'.hook = page.hook /\ page'.server = page.server
        /\ PageText(page') = PageText(page)
        /\ page'.stats.server = page.server \/ moved
    BY <1>1, <1>5, PollAnsweredPage
  <2>2. PageInv'
    BY <1>1, <1>2, <2>1, PageAlters
  <2>3. TerminalInv'
    BY <1>1, <2>1, TerminalKept
  <2>4. page'.received = page.received
    BY <2>1 DEF PageText
  <2> QED
    BY <1>2, <1>3, <2>1, <2>2, <2>3, <2>4, ApartKeeps
<1> QED
  BY <1>4, <1>5 DEF Polling, StartPoll, GetServerStatus, PollFails

\* A container that may change is counted within the bound.
LEMMA MayChangeOnce ==
  ASSUME SocketInv, PollInv, MayChange, NEW u \in Servers
  PROVE  container[u].changes \in Nat /\ container[u].changes + 1 \in 0 .. MaxChanges
<1>1. container[u].changes \in 0 .. MaxChanges /\ load.changes \in 0 .. MaxChanges
  BY ConstantsAssumption DEF SocketInv, PollInv
<1>2. container[u].changes < load.changes
  BY DEF MayChange
<1> QED
  BY <1>1, <1>2, Bounds

\* A container changes, or not.
LEMMA OneContainer ==
  ASSUME SocketInv, PollInv, NEW u \in Servers,
         NEW state \in DockerState,
         \/ container' = container
         \/ /\ MayChange
            /\ container' = [container EXCEPT ![u] =
                               [state |-> state, changes |-> @.changes + 1]]
  PROVE  /\ container' \in [Servers -> [state : DockerState, changes : 0 .. MaxChanges]]
         /\ \A v \in Servers : container[v].changes <= container'[v].changes
<1>1. /\ container \in [Servers -> [state : DockerState, changes : 0 .. MaxChanges]]
      /\ \A v \in Servers : container[v].changes \in Nat
  BY DEF PollInv
<1>2. CASE container' = container
  BY <1>1, <1>2
<1>3. CASE /\ MayChange
           /\ container' = [container EXCEPT ![u] =
                              [state |-> state, changes |-> @.changes + 1]]
  <2> DEFINE c == [state |-> state, changes |-> container[u].changes + 1]
  <2>1. c \in [state : DockerState, changes : 0 .. MaxChanges]
        /\ container[u].changes <= c.changes
    BY <1>3, MayChangeOnce
  <2>2. container' = [container EXCEPT ![u] = c]
    BY <1>3
  <2> HIDE DEF c
  <2>3. \A v \in Servers : container'[v] = IF v = u THEN c ELSE container[v]
    BY <1>1, <2>2
  <2> QED
    BY <1>1, <2>1, <2>2, <2>3
<1> QED
  BY <1>2, <1>3

\* The container changes for reasons of its own.
LEMMA ContainerChangesKeeps ==
  ASSUME ConsoleInv, Frame, typed' = typed, NEW u \in Servers, ContainerChanges(u)
  PROVE  ConsoleInv'
<1>1. SocketInv /\ PageInv /\ PollInv /\ CommandInv /\ TerminalInv
  BY DEF ConsoleInv
<1>2. UNCHANGED <<page, hooks, hook, sent, client, tasks, poll, executed, moved>>
  BY DEF ContainerChanges
<1> DEFINE n == IF container[u].state = "running" THEN "exited" ELSE "running"
<1>3. /\ n \in DockerState /\ MayChange
      /\ container' = [container EXCEPT ![u] = [state |-> n, changes |-> @.changes + 1]]
  BY DEF ContainerChanges, DockerState
<1> HIDE DEF n
<1>4. Mounted' = Mounted
  BY <1>2 DEF Mounted
<1>5. /\ container' \in [Servers -> [state : DockerState, changes : 0 .. MaxChanges]]
      /\ \A v \in Servers : container[v].changes <= container'[v].changes
  BY <1>1, <1>3, OneContainer
<1>6. PollInv'
  BY <1>1, <1>2, <1>4, <1>5, ContainersGrow
<1>7. PageInv'
  BY <1>1, <1>2, PageKeeps DEF PageKept, HooksSame
<1>8. TerminalInv'
  BY <1>1, <1>2, <1>4, TerminalKept
<1> QED
  BY <1>2, <1>4, <1>6, <1>7, <1>8, ApartKeeps

\* A task that has ended with the page left alone, or told of a power action.
LEMMA TaskEnds ==
  ASSUME ConsoleInv, Frame, typed' = typed, NEW t \in tasks, tasks' = tasks \ {t},
         executed' \in {executed, Append(executed, t.message.id)},
         UNCHANGED <<hooks, hook, sent, client, poll, moved>>,
         container' \in [Servers -> [state : DockerState, changes : 0 .. MaxChanges]],
         \A v \in Servers : container[v].changes <= container'[v].changes,
         PageKept
  PROVE  ConsoleInv'
<1>1. SocketInv /\ PageInv /\ PollInv /\ CommandInv /\ TerminalInv /\ load' = load
  BY DEF ConsoleInv, Frame
<1>2. Mounted' => /\ Mounted /\ page'.stats = page.stats
                  /\ PageText(page') = PageText(page)
  BY DEF PageKept, Mounted
<1>3. SocketInv'
  BY <1>1, SocketsAlone
<1>4. PageInv'
  BY <1>1, PageKeeps DEF HooksSame
<1>5. PollInv'
  BY <1>1, <1>2, ContainersGrow
<1>6. TerminalInv'
  BY <1>1, <1>2, TerminalKept
<1>7. SetOf(executed) \subseteq SetOf(executed')
  <2>1. executed \in Seq(Commands) /\ t.message.id \in Commands
    BY <1>1, CommandOf DEF TaskType, Message
  <2>2. SetOf(Append(executed, t.message.id)) = SetOf(executed) \cup {t.message.id}
    BY <2>1, SetOfAppend
  <2> QED
    BY <2>2
<1>8. Mounted' => SetOf(page'.received) \subseteq SetOf(executed')
  <2>1. Mounted' => page'.received = page.received
    BY <1>2 DEF PageText
  <2>2. Mounted => SetOf(page.received) \subseteq SetOf(executed)
    BY <1>1, CommandOf DEF CommandOnce
  <2> QED
    BY <1>2, <1>7, <2>1, <2>2
<1>9. CommandInv'
  BY <1>1, <1>8, TaskDoneCommands
<1> QED
  BY <1>3, <1>4, <1>5, <1>6, <1>9 DEF ConsoleInv

\* Wings fails, or only its answer is lost.
LEMMA TaskFailsKeeps ==
  ASSUME ConsoleInv, Frame, typed' = typed, NEW t \in tasks, TaskFails(t)
  PROVE  ConsoleInv'
<1>1. PollInv
  BY DEF ConsoleInv
<1>2. /\ tasks' = tasks \ {t} /\ executed' \in {executed, Append(executed, t.message.id)}
      /\ UNCHANGED <<container, page, hooks, hook, sent, client, poll, moved>>
  BY DEF TaskFails
<1>3. /\ container' \in [Servers -> [state : DockerState, changes : 0 .. MaxChanges]]
      /\ \A v \in Servers : container[v].changes <= container'[v].changes
  BY <1>1, <1>2 DEF PollInv
<1> QED
  BY <1>2, <1>3, TaskEnds DEF PageKept

\* Wings has executed a command, which the page echoes, or a power action.
LEMMA TaskSucceedsKeeps ==
  ASSUME ConsoleInv, Frame, typed' = typed, NEW t \in tasks, TaskSucceeds(t)
  PROVE  ConsoleInv'
<1>1. SocketInv /\ PageInv /\ PollInv /\ CommandInv /\ TerminalInv /\ load' = load
  BY DEF ConsoleInv, Frame
<1>2. /\ t.message \in Message /\ t.message.id \in Commands /\ t.server \in Servers
      /\ t.hook \in Hooks \cup {None} /\ executed \in Seq(Commands)
  BY <1>1, CommandOf DEF TaskType, Message
<1>3. tasks' = tasks \ {t} /\ UNCHANGED <<hooks, hook, sent, client, poll, moved>>
  BY DEF TaskSucceeds
<1>4. CASE ~IsCommand(t)
  <2>1. /\ executed' = executed
        /\ container' = [container EXCEPT ![t.server] = AfterAction(@, t.message.action)]
    BY <1>4 DEF TaskSucceeds
  <2> DEFINE n == IF t.message.action \in {"stop", "kill"} THEN "exited" ELSE "running"
  <2>2. /\ n \in DockerState
        /\ \/ container' = container
           \/ /\ MayChange
              /\ container' = [container EXCEPT ![t.server] =
                                 [state |-> n, changes |-> @.changes + 1]]
    <3>1. CASE MayChange
      BY <2>1, <3>1 DEF AfterAction, DockerState
    <3>2. CASE ~MayChange
      BY <1>1, <2>1, <3>2 DEF AfterAction, DockerState, PollInv
    <3> QED
      BY <3>1, <3>2
  <2> HIDE DEF n
  <2>3. /\ container' \in [Servers -> [state : DockerState, changes : 0 .. MaxChanges]]
        /\ \A v \in Servers : container[v].changes <= container'[v].changes
    BY <1>1, <1>2, <2>2, OneContainer
  <2>4. PageKept
    <3>1. CASE t.hook = None
      BY <3>1 DEF TaskSucceeds, PageKept
    <3>2. CASE t.hook # None
      <4>1. Mounted => LET m == PowerStateMessage(page, t.message.action)
                       IN  /\ m \in Page /\ m.hook = page.hook /\ m.server = page.server
                           /\ m.stats = page.stats /\ PageText(m) = PageText(page)
        BY <1>1, PageOf, PageForms
      <4>2. page' = SetPage(t.hook, PowerStateMessage(page,
      t.message.action)) /\ t.hook \in Hooks
        BY <1>2, <1>4, <3>2 DEF TaskSucceeds
      <4> QED
        BY <1>1, <4>1, <4>2, SetPageKept
    <3> QED
      BY <3>1, <3>2
  <2> QED
    BY <1>3, <2>1, <2>3, <2>4, TaskEnds
<1>5. CASE IsCommand(t)
  <2>1. executed' = Append(executed, t.message.id) /\ container' = container
    BY <1>5 DEF TaskSucceeds
  <2>2. /\ container' \in [Servers -> [state : DockerState, changes : 0 .. MaxChanges]]
        /\ \A v \in Servers : container[v].changes <= container'[v].changes
    BY <1>1, <2>1 DEF PollInv
  <2>3. CASE page' = page
    BY <1>3, <2>1, <2>2, <2>3, TaskEnds DEF PageKept
  <2>4. CASE page' # page
    <3>1. t.hook \in Hooks /\ hook[t.hook].mounted
          /\ page' = ConsoleOutput(page, t.message.id)
      BY <1>2, <1>5, <2>4 DEF TaskSucceeds, SetPage
    <3>2. Mounted /\ page \in Page
      BY <1>1, <3>1, PageOf DEF PageInv
    <3>3. /\ page' \in Page /\ page'.hook = page.hook /\ page'.server = page.server
          /\ page'.stats = page.stats /\ page'.received = Append(page.received, t.message.id)
      BY <1>2, <3>1, <3>2, ConsoleOutputForm
    <3>4. SocketInv'
      BY <1>1, <1>3, SocketsAlone
    <3>5. PageInv' /\ Mounted'
      BY <1>1, <1>3, <3>2, <3>3, PageAlters
    <3>6. PollInv'
      BY <1>1, <1>3, <2>1, <3>2, <3>3, PollKeeps
    <3>7. TerminalInv'
      BY <1>1, <1>2, <3>1, <3>2, OutputTerminal
    <3>8. SetOf(page'.received) \subseteq SetOf(executed')
      <4>1. page.received \in Seq(Commands)
        BY <3>2 DEF Page
      <4>2. /\ SetOf(Append(page.received, t.message.id)) =
                 SetOf(page.received) \cup {t.message.id}
            /\ SetOf(Append(executed, t.message.id)) = SetOf(executed) \cup {t.message.id}
        BY <1>2, <4>1, SetOfAppend
      <4>3. SetOf(page.received) \subseteq SetOf(executed)
        BY <1>1, <3>2, CommandOf DEF CommandOnce
      <4> QED
        BY <2>1, <3>3, <4>2, <4>3
    <3>9. CommandInv'
      BY <1>1, <1>3, <2>1, <3>8, TaskDoneCommands
    <3> QED
      BY <3>4, <3>5, <3>6, <3>7, <3>9 DEF ConsoleInv
  <2> QED
    BY <2>3, <2>4
<1> QED
  BY <1>4, <1>5

-----------------------------------------------------------------------------
(* The invariants of every behaviour.                                      *)

\* Nothing is open yet.
LEMMA ConsoleInit == Init => ConsoleInv
<1> SUFFICES ASSUME Init PROVE ConsoleInv
  OBVIOUS
<1>1. page = None /\ ~Mounted
  BY DEF Init, Mounted
<1>2. \A S : << >> \in Seq(S)
  BY EmptySeq
<1>3. /\ NoHook \in Socket /\ NoHook.link = "unused" /\ NoHook.buffer = << >>
      /\ NoHook.mounted = FALSE
  BY <1>2 DEF NoHook, Socket
<1>4. /\ \A h \in Hooks : hook[h] = NoHook /\ client[h] = None /\ sent[h] = << >>
      /\ hook \in [Hooks -> Socket] /\ client \in [Hooks -> Client \cup {None}]
      /\ sent \in [Hooks -> Seq(SetOf(Greeting) \cup Message)]
      /\ load \in Loads /\ hooks \in 0 .. MaxHooks
  BY <1>2, <1>3, Bounds DEF Init
<1>5. \A h \in Hooks : Consistent(hook[h], client[h], sent[h])
  BY <1>3, <1>4 DEF Consistent
<1>6. SocketInv
  BY <1>4, <1>5 DEF SocketInv
<1>7. PageInv
  BY <1>1, <1>3, <1>4 DEF PageInv, ShowsItsServer, Init
<1>8. PollInv
  <2>1. NoPoll \in Poll /\ NoPoll.at = None
    BY DEF NoPoll, Poll
  <2>2. poll \in [Polls -> Poll] /\ \A p \in Polls : poll[p] = NoPoll
    BY <2>1 DEF Init
  <2>3. container \in [Servers -> [state : DockerState, changes : 0 .. MaxChanges]]
    BY Bounds DEF Init, DockerState
  <2>4. StatsPolls = {} /\ overlapped = FALSE
    BY <2>2 DEF StatsPolls, Init
  <2> QED
    BY <1>1, <2>1, <2>2, <2>3, <2>4 DEF PollInv, Poll, Status
<1>9. CommandInv
  <2>1. \A h \in Hooks : Queue(h) = << >>
    BY <1>3, <1>4 DEF Queue
  <2>2. typed = 0 /\ tasks = {} /\ executed = << >> /\ executed \in Seq(Commands)
        /\ Len(<< >>) = 0
    BY <1>2 DEF Init
  <2>3. CommandOnce
    BY <1>1, <2>2 DEF CommandOnce
  <2> QED
    BY <2>1, <2>2, <2>3, Bounds DEF CommandInv
<1>10. TerminalInv
  BY <1>1 DEF TerminalInv
<1> QED
  BY <1>6, <1>7, <1>8, <1>9, <1>10 DEF ConsoleInv

\* Nothing happens.
LEMMA ConsoleStutter == ConsoleInv /\ UNCHANGED vars => ConsoleInv'
<1> SUFFICES ASSUME ConsoleInv, UNCHANGED vars PROVE ConsoleInv'
  OBVIOUS
<1>1. Mounted' = Mounted /\ \A h \in Hooks : Queue(h)' = Queue(h)
  BY DEF vars, Mounted, Queue
<1>2. SocketInv' /\ TerminalInv'
  BY <1>1 DEF vars, ConsoleInv, SocketInv, TerminalInv, TerminalFollows
<1>3. PageInv' /\ CommandOnce'
  <2>1. PageInv'
    BY <1>1 DEF vars, ConsoleInv, PageInv, ShowsItsServer
  <2>2. CommandOnce'
    BY <1>1, OnceKept DEF vars, ConsoleInv
  <2> QED
    BY <2>1, <2>2
<1>4. PollInv'
  BY <1>1 DEF vars, ConsoleInv, PollInv, StatsPolls
<1>5. CommandInv'
  BY <1>1, <1>3 DEF vars, ConsoleInv, CommandInv
<1> QED
  BY <1>2, <1>3, <1>4, <1>5 DEF ConsoleInv

\* The invariant is inductive.
LEMMA ConsoleNext == ConsoleInv /\ [Next]_vars => ConsoleInv'
<1> SUFFICES ASSUME ConsoleInv, [Next]_vars PROVE ConsoleInv'
  OBVIOUS
<1>1. CASE Typing
  BY <1>1, TypingKeeps DEF Typing
<1>2. CASE Other
  <2> USE <1>2
  <2>1. Frame /\ typed' = typed
    BY DEF Other
  <2>2. CASE Browser
    BY <2>1, <2>2, OpenKeeps, NavigateKeeps, LeaveKeeps, WriteLinesKeeps, ReconnectionKeeps,
       CloseKeeps DEF Browser
  <2>3. ASSUME NEW h \in Hooks, Reconnection(h) \/ GatewayHandles(h) PROVE ConsoleInv'
    BY <2>1, <2>3, ReconnectionKeeps, CloseKeeps, HandleSubscribeKeeps, HandleSendKeeps
    DEF Reconnection, GatewayHandles
  <2>4. ASSUME NEW t \in tasks, TaskSucceeds(t) \/ TaskFails(t) PROVE ConsoleInv'
    BY <2>1, <2>4, TaskSucceedsKeeps, TaskFailsKeeps
  <2>5. ASSUME NEW p \in Polls, Polling(p) PROVE ConsoleInv'
    BY <2>1, <2>5, PollingKeeps
  <2>6. ASSUME NEW u \in Servers, ContainerChanges(u) PROVE ConsoleInv'
    BY <2>1, <2>6, ContainerChangesKeeps
  <2> QED
    BY <2>2, <2>3, <2>4, <2>5, <2>6 DEF Other
<1>3. CASE UNCHANGED vars
  BY <1>3, ConsoleStutter
<1> QED
  BY <1>1, <1>2, <1>3 DEF Next

\* The inductive invariant: sockets, page, polls, commands and terminal together.
THEOREM ConsoleAlways == Spec => []ConsoleInv
BY ConsoleInit, ConsoleNext, PTL DEF Spec

-----------------------------------------------------------------------------
(* The count of retries, which the sockets of a component share.           *)

\* The sockets of a component are finitely many.
LEMMA WaitingFinite == \A c : IsFiniteSet(Waiting(c))
<1>1. IsFiniteSet(Hooks)
  BY Bounds, FS_Interval DEF Hooks
<1>2. \A c : Waiting(c) \subseteq Hooks
  BY DEF Waiting
<1> QED
  BY <1>1, <1>2, FS_Subset

\* The bound is kept where the count is reset, where none more is counted than before, and
\* where one more is counted and a socket that was open is not any more.
LEMMA DelayStep ==
  ASSUME DelayInv, retries' \in [Hooks -> Nat],
         \A c \in Hooks :
           \/ retries'[c] = 0
           \/ retries'[c] = retries[c] /\ Waiting(c) \subseteq Waiting(c)'
           \/ /\ retries'[c] = retries[c] + 1
              /\ \E h : h \notin Waiting(c) /\ Waiting(c) \cup {h} \subseteq Waiting(c)'
  PROVE  DelayInv'
<1> SUFFICES ASSUME NEW c \in Hooks PROVE retries'[c] <= Cardinality(Waiting(c)')
  BY DEF DelayInv, DelayBounded
<1> DEFINE W == Waiting(c)
           V == Waiting(c)'
<1>1. IsFiniteSet(W)
  BY WaitingFinite
<1>2. IsFiniteSet(V)
  <2>1. IsFiniteSet(Hooks)
    BY Bounds, FS_Interval DEF Hooks
  <2>2. V \subseteq Hooks
    BY DEF Waiting
  <2> QED
    BY <2>1, <2>2, FS_Subset
<1>3. retries[c] \in Nat /\ retries'[c] \in Nat /\ retries[c] <= Cardinality(W)
  BY DEF DelayInv, DelayBounded
<1>4. Cardinality(W) \in Nat /\ Cardinality(V) \in Nat
  BY <1>1, <1>2, FS_CardinalityType
<1> HIDE DEF W, V
<1>5. CASE retries'[c] = 0
  BY <1>4, <1>5 DEF V
<1>6. CASE retries'[c] = retries[c] /\ W \subseteq V
  <2>1. Cardinality(W) <= Cardinality(V)
    BY <1>2, <1>6, FS_Subset
  <2> QED
    BY <1>3, <1>4, <1>6, <2>1 DEF V
<1>7. CASE retries'[c] = retries[c] + 1 /\ \E h : h \notin W /\ W \cup {h} \subseteq V
  <2>1. PICK h : h \notin W /\ W \cup {h} \subseteq V
    BY <1>7
  <2>2. Cardinality(W \cup {h}) = Cardinality(W) + 1
    BY <1>1, <2>1, FS_AddElement
  <2>3. Cardinality(W \cup {h}) <= Cardinality(V)
    BY <1>2, <2>1, FS_Subset
  <2> QED
    BY <1>3, <1>4, <1>7, <2>2, <2>3 DEF V
<1> QED
  BY <1>5, <1>6, <1>7 DEF W, V

\* A step that opens no socket and counts no retry.
LEMMA DelayKept ==
  ASSUME DelayInv, retries' = retries,
         \A h \in Hooks : hook[h].component \in Hooks /\ hook[h].link # "open" =>
           hook'[h].component = hook[h].component /\ hook'[h].link # "open"
  PROVE  DelayInv'
<1>1. \A c \in Hooks : Waiting(c) \subseteq Waiting(c)'
  BY DEF Waiting
<1>2. retries' \in [Hooks -> Nat]
  BY DEF DelayInv
<1> QED
  BY <1>1, <1>2, DelayStep

\* A step that closes an open socket and counts it.
LEMMA DelayCounted ==
  ASSUME DelayInv, NEW o \in Hooks, retries' = Retried(o), hook[o].link = "open",
         hook[o].component \in Hooks, hook'[o].component = hook[o].component,
         hook'[o].link # "open",
         \A h \in Hooks : hook[h].component \in Hooks /\ hook[h].link # "open" =>
           hook'[h].component = hook[h].component /\ hook'[h].link # "open"
  PROVE  DelayInv'
<1>1. retries \in [Hooks -> Nat]
  BY DEF DelayInv
<1>2. retries' \in [Hooks -> Nat] /\ retries'[hook[o].component] = retries[hook[o].component] + 1
      /\ \A c \in Hooks : c # hook[o].component => retries'[c] = retries[c]
  BY <1>1 DEF Retried
<1>3. \A c \in Hooks : Waiting(c) \subseteq Waiting(c)'
  BY DEF Waiting
<1>4. o \notin Waiting(hook[o].component) /\ o \in Waiting(hook[o].component)'
  BY DEF Waiting
<1>5. \A c \in Hooks : c = hook[o].component =>
         \E h : h \notin Waiting(c) /\ Waiting(c) \cup {h} \subseteq Waiting(c)'
  <2> SUFFICES ASSUME NEW c \in Hooks, c = hook[o].component
               PROVE  \E h : h \notin Waiting(c) /\ Waiting(c) \cup {h} \subseteq Waiting(c)'
    OBVIOUS
  <2>1. o \notin Waiting(c) /\ o \in Waiting(c)'
    BY DEF Waiting
  <2> QED
    BY <1>3, <2>1
<1> QED
  BY <1>2, <1>3, <1>5, DelayStep

\* The count when a socket connects.
LEMMA DelayReset ==
  ASSUME SocketInv, DelayInv, NEW o \in Hooks, Connect(o)
  PROVE  DelayInv'
<1>1. hook \in [Hooks -> Socket] /\ hook[o].component \in Hooks
  BY SocketOf DEF Connect, SocketInv
<1>2. retries \in [Hooks -> Nat]
  BY DEF DelayInv
<1>3. /\ retries' \in [Hooks -> Nat] /\ retries'[hook[o].component] = 0
      /\ \A c \in Hooks : c # hook[o].component => retries'[c] = retries[c]
  BY <1>1, <1>2 DEF Connect
<1>4. \A h \in Hooks : hook'[h].component = hook[h].component
                       /\ (h # o => hook'[h].link = hook[h].link)
  BY <1>1 DEF Connect, Socket
<1>5. \A c \in Hooks : c # hook[o].component => Waiting(c) \subseteq Waiting(c)'
  BY <1>4 DEF Waiting
<1> QED
  BY <1>3, <1>5, DelayStep

\* The count when a connection is gone, by itself or because handleAuth ends it.
LEMMA DelayClosed ==
  ASSUME SocketInv, DelayInv, NEW o \in Hooks, hook[o].link = "open",
         hook' = [hook EXCEPT ![o] = Disconnected(@)], retries' = Retried(o)
  PROVE  DelayInv'
<1>1. hook \in [Hooks -> Socket] /\ hook[o].component \in Hooks
  BY SocketOf DEF SocketInv
<1>2. \A h \in Hooks : /\ hook'[h].component = hook[h].component
                       /\ h # o => hook'[h].link = hook[h].link
                       /\ hook'[o].link = "closed"
  BY <1>1 DEF Disconnected, Socket
<1> QED
  BY <1>1, <1>2, DelayCounted

\* The count when the page is opened, moved and left.
LEMMA DelayVisits ==
  ASSUME SocketInv, PageInv, DelayInv,
         Leave \/ \E u \in Servers : Open(u) \/ Navigate(u)
  PROVE  DelayInv'
<1>1. hook \in [Hooks -> Socket] /\ hooks \in Nat /\ \A h \in Hooks : h > hooks => hook[h] = NoHook
  BY Bounds DEF SocketInv
<1>2. None \notin Hooks
  BY ConstantsAssumption
<1>3. hooks + 1 \in Hooks => hook[hooks + 1].component \notin Hooks
  BY <1>1, <1>2 DEF NoHook
<1>4. Mounted => /\ page.hook \in Hooks /\ page.hook # hooks + 1
                 /\ hook[page.hook].component \in Hooks
  BY PageOf, UsedHook
<1>5. ASSUME NEW u \in Servers, Open(u) PROVE DelayInv'
  <2>1. \A h \in Hooks : h # hooks + 1 => hook'[h] = hook[h]
    BY <1>1, <1>5 DEF Open
  <2> QED
    BY <1>3, <1>5, <2>1, DelayKept DEF Open
<1>6. \A s \in Socket : /\ CleanUp(s).component = s.component
                        /\ CleanUp(s).link = "closed"
  BY DEF CleanUp, Disconnected, Socket
<1>7. ASSUME NEW u \in Servers, Navigate(u) PROVE DelayInv'
  <2> DEFINE old == page.hook
  <2>1. old \in Hooks /\ old # hooks + 1 /\ hook[old] \in Socket /\ hook[old].component \in Hooks
    BY <1>1, <1>4, <1>7 DEF Navigate
  <2>2. /\ \A h \in Hooks : h # hooks + 1 /\ h # old => hook'[h] = hook[h]
        /\ hook'[old] = CleanUp(hook[old])
    BY <1>1, <1>7, <2>1 DEF Navigate
  <2>3. \A h \in Hooks : hook[h].component \in Hooks /\ hook[h].link # "open" =>
           hook'[h].component = hook[h].component /\ hook'[h].link # "open"
    BY <1>3, <1>6, <2>1, <2>2
  <2>4. hook'[old].component = hook[old].component /\ hook'[old].link # "open"
    BY <1>6, <2>1, <2>2
  <2>5. retries' = RetriedByCleanUp(old)
    BY <1>7 DEF Navigate
  <2> HIDE DEF old
  <2>6. CASE hook[old].link = "open"
    BY <2>1, <2>3, <2>4, <2>5, <2>6, DelayCounted DEF RetriedByCleanUp
  <2>7. CASE hook[old].link # "open"
    BY <2>3, <2>5, <2>7, DelayKept DEF RetriedByCleanUp
  <2> QED
    BY <2>6, <2>7
<1>8. ASSUME Leave PROVE DelayInv'
  <2> DEFINE old == page.hook
  <2>1. old \in Hooks /\ hook[old] \in Socket /\ hook[old].component \in Hooks
    BY <1>1, <1>4, <1>8 DEF Leave
  <2>2. \A h \in Hooks : hook'[h] = [(IF h = old THEN CleanUp(hook[h]) ELSE hook[h])
                                        EXCEPT !.mounted = FALSE]
    BY <1>8 DEF Leave
  <2>3. \A s \in Socket : /\ [s EXCEPT !.mounted = FALSE].component = s.component
                          /\ [s EXCEPT !.mounted = FALSE].link = s.link
                          /\ CleanUp(s) \in Socket
    BY DEF Socket, CleanUp, Disconnected
  <2>4. /\ \A h \in Hooks : hook'[h].component = hook[h].component
        /\ hook'[old].link # "open"
        /\ \A h \in Hooks : h # old => hook'[h].link = hook[h].link
    <3> SUFFICES ASSUME NEW h \in Hooks
                 PROVE  /\ hook'[h].component = hook[h].component
                        /\ IF h = old THEN hook'[h].link # "open"
                                      ELSE hook'[h].link = hook[h].link
      BY <2>1
    <3>1. hook[h] \in Socket
      BY <1>1
    <3>2. CASE h = old
      <4>1. hook'[h] = [CleanUp(hook[h]) EXCEPT !.mounted = FALSE]
        BY <2>2, <3>2
      <4> QED
        BY <1>6, <2>3, <3>1, <3>2, <4>1
    <3>3. CASE h # old
      BY <2>2, <2>3, <3>1, <3>3
    <3> QED
      BY <3>2, <3>3
  <2>5. retries' = RetriedByCleanUp(old)
    BY <1>8 DEF Leave
  <2> HIDE DEF old
  <2>6. CASE hook[old].link = "open"
    BY <2>1, <2>4, <2>5, <2>6, DelayCounted DEF RetriedByCleanUp
  <2>7. CASE hook[old].link # "open"
    BY <2>4, <2>5, <2>7, DelayKept DEF RetriedByCleanUp
  <2> QED
    BY <2>6, <2>7
<1> QED
  BY <1>5, <1>7, <1>8

\* Every step keeps the bound.
LEMMA DelayNext == ConsoleInv /\ DelayInv /\ [Next]_vars => DelayInv'
<1> SUFFICES ASSUME ConsoleInv, DelayInv, [Next]_vars PROVE DelayInv'
  OBVIOUS
<1>1. SocketInv /\ PageInv
  BY DEF ConsoleInv
<1>2. hook \in [Hooks -> Socket]
  BY <1>1, SocketOf DEF SocketInv
<1>3. ASSUME UNCHANGED <<hook, retries>> PROVE DelayInv'
  BY <1>3, DelayKept
<1>4. ASSUME NEW h \in Hooks, ConnectError(h) \/ TimerFires(h) PROVE DelayInv'
  <2>1. CASE ConnectError(h)
    BY <1>2, <2>1, DelayKept DEF ConnectError, Socket
  <2>2. CASE TimerFires(h)
    <3>1. \A g \in Hooks : hook'[g] = IF g = h THEN [hook[g] EXCEPT !.timer = FALSE,
                               !.link = IF @ = "closed" THEN "connecting" ELSE @] ELSE hook[g]
      BY <1>2, <2>2 DEF TimerFires, Socket
    <3>2. \A g \in Hooks : /\ hook'[g].component = hook[g].component
                           /\ hook[g].link # "open" => hook'[g].link # "open"
      BY <1>2, <3>1 DEF Socket
    <3> QED
      BY <2>2, <3>2, DelayKept DEF TimerFires
  <2> QED
    BY <1>4, <2>1, <2>2
<1>5. ASSUME NEW h \in Hooks, Close(h) PROVE DelayInv'
  BY <1>1, <1>5, DelayClosed DEF Close
<1>6. ASSUME NEW h \in Hooks, HandleAuth(h) PROVE DelayInv'
  <2>1. hook[h].link = "open"
    BY <1>1, <1>6, SocketOf DEF HandleAuth
  <2> QED
    BY <1>1, <1>3, <1>6, <2>1, DelayClosed DEF HandleAuth
<1>7. ASSUME Typing PROVE DelayInv'
  <2>1. \/ UNCHANGED hook
        \/ \E msg : hook' = [hook EXCEPT ![page.hook].buffer = Append(@, msg)]
    BY <1>7 DEF Typing, SendCommand, ClickPower, Emit
  <2>2. \A g \in Hooks : hook'[g].component = hook[g].component /\ hook'[g].link = hook[g].link
    <3> SUFFICES ASSUME NEW msg, hook' = [hook EXCEPT ![page.hook].buffer = Append(@, msg)],
                        NEW g \in Hooks
                 PROVE  hook'[g].component = hook[g].component /\ hook'[g].link = hook[g].link
      BY <2>1
    <3>1. hook'[g] = IF g = page.hook THEN [hook[g] EXCEPT !.buffer = Append(@, msg)] ELSE hook[g]
      BY <1>2
    <3>2. hook[g] \in Socket
      BY <1>2
    <3> QED
      BY <3>1, <3>2 DEF Socket
  <2>3. retries' = retries
    BY <1>7 DEF Typing, SendCommand, ClickPower
  <2> QED
    BY <2>2, <2>3, DelayKept
<1>8. ASSUME NEW h \in Hooks, HandleSubscribe(h) \/ HandleSend(h) PROVE DelayInv'
  BY <1>3, <1>8 DEF HandleSubscribe, HandleSend
<1>9. ASSUME NEW t \in tasks, TaskSucceeds(t) \/ TaskFails(t) PROVE DelayInv'
  BY <1>3, <1>9 DEF TaskSucceeds, TaskFails
<1>10. ASSUME NEW p \in Polls, Polling(p) PROVE DelayInv'
  BY <1>3, <1>10 DEF Polling, StartPoll, GetServerStatus, PollAnswered, PollFails
<1>11. ASSUME WriteLines \/ \E u \in Servers : ContainerChanges(u) PROVE DelayInv'
  BY <1>3, <1>11 DEF WriteLines, ContainerChanges
<1>12. CASE Other
  BY <1>1, <1>4, <1>5, <1>6, <1>8, <1>9, <1>10, <1>11, <1>12, DelayReset, DelayVisits
     DEF Other, Browser, Reconnection, GatewayHandles
<1>13. CASE UNCHANGED vars
  BY <1>3, <1>13 DEF vars
<1> QED
  BY <1>7, <1>12, <1>13 DEF Next

\* At first no component has counted a retry.
LEMMA DelayInit == Init => DelayInv
<1> SUFFICES ASSUME Init PROVE DelayInv
  OBVIOUS
<1>1. retries \in [Hooks -> Nat] /\ \A c \in Hooks : retries[c] = 0
  BY DEF Init
<1>2. \A c \in Hooks : Cardinality(Waiting(c)) \in Nat
  BY WaitingFinite, FS_CardinalityType
<1> QED
  BY <1>1, <1>2 DEF DelayInv, DelayBounded

\* The invariant of the count, for any number of visits and broken connections.
LEMMA DelayAlways == Spec => []DelayInv
BY ConsoleAlways, DelayInit, DelayNext, PTL DEF Spec

\* The invariant implies the types.
LEMMA ConsoleTypes == ConsoleInv /\ DelayInv => TypeOK
<1> SUFFICES ASSUME ConsoleInv, DelayInv PROVE TypeOK
  OBVIOUS
<1>1. SocketInv /\ PageInv /\ PollInv /\ CommandInv
  BY DEF ConsoleInv
<1>2. \A S : \A q \in Seq(S) : SetOf(q) \subseteq S
  BY ElementOfSeq DEF SetOf
<1>3. \A h \in Hooks :
        /\ hook[h].server \in Servers \cup {None}
        /\ hook[h].link \in {"unused", "connecting", "open", "closed"}
        /\ hook[h].component \in Hooks \cup {None} /\ retries[h] \in Nat
        /\ hook[h].timer \in BOOLEAN /\ hook[h].mounted \in BOOLEAN
        /\ SetOf(hook[h].buffer) \subseteq Message
        /\ SetOf(sent[h]) \subseteq SetOf(Greeting) \cup Message
        /\ client[h] # None => client[h].rooms \subseteq Servers
        /\ (client[h] # None) = (hook[h].link = "open")
  <2> SUFFICES ASSUME NEW h \in Hooks
               PROVE  /\ hook[h].server \in Servers \cup {None}
                      /\ hook[h].link \in {"unused", "connecting", "open", "closed"}
                      /\ hook[h].component \in Hooks \cup {None} /\ retries[h] \in Nat
                      /\ hook[h].timer \in BOOLEAN /\ hook[h].mounted \in BOOLEAN
                      /\ SetOf(hook[h].buffer) \subseteq Message
                      /\ SetOf(sent[h]) \subseteq SetOf(Greeting) \cup Message
                      /\ client[h] # None => client[h].rooms \subseteq Servers
                      /\ (client[h] # None) = (hook[h].link = "open")
    OBVIOUS
  <2>1. /\ hook[h] \in Socket /\ client[h] \in Client \cup {None} /\ sent[h] \in Seq(Wire)
        /\ (hook[h].link = "open" <=> client[h] # None)
    BY <1>1, SocketOf
  <2>2. /\ hook[h].server \in Servers \cup {None}
        /\ hook[h].link \in {"unused", "connecting", "open", "closed"}
        /\ hook[h].component \in Hooks \cup {None}
        /\ hook[h].timer \in BOOLEAN /\ hook[h].mounted \in BOOLEAN
        /\ hook[h].buffer \in Seq(Message)
    BY <2>1 DEF Socket
  <2>3. client[h] # None => client[h].rooms \subseteq Servers
    BY <2>1 DEF Client
  <2>4. retries[h] \in Nat
    BY DEF DelayInv
  <2> QED
    BY <1>2, <2>1, <2>2, <2>3, <2>4 DEF Wire
<1>4. \A t \in tasks : t.message \in Message /\ t.hook \in Hooks \cup {None}
  BY <1>1, CommandOf DEF TaskType
<1>5. \A p \in Polls : poll[p].at \in Servers \cup {None} /\ poll[p].todo \subseteq Servers
  BY <1>1, PollOf DEF Poll
<1>6. Mounted => /\ page.power \in {"offline", "starting", "running", "stopping"}
                 /\ page.server \in Servers /\ page.hook \in Hooks
                 /\ SetOf(page.lines) \subseteq Commands
  <2>1. Mounted => /\ page.power \in {"offline", "starting", "running", "stopping"}
                   /\ page.server \in Servers /\ page.hook \in Hooks
                   /\ page.lines \in Seq(Commands)
    BY <1>1, PageOf DEF Page
  <2> QED
    BY <1>2, <2>1
<1>7. /\ \A u \in Servers : container[u] \in [state : DockerState, changes : 0 .. MaxChanges]
      /\ hooks \in 0 .. MaxHooks /\ typed \in 0 .. MaxCommands
  BY <1>1 DEF PollInv, SocketInv, CommandInv
<1> QED
  BY <1>3, <1>4, <1>5, <1>6, <1>7 DEF TypeOK

\* Sockets, connections, polls and the page keep to their types.
THEOREM TypeAlwaysOK == Spec => []TypeOK
BY ConsoleAlways, DelayAlways, ConsoleTypes, PTL

\* The delay before a socket connects again never grows past the sockets of its component
\* that are not open, however often connections break: every disconnect of the hook's
\* 'disconnect' handler follows a connection, which has reset the count.
THEOREM DelayAlwaysBounded == Spec => []DelayBounded
<1>1. DelayInv => DelayBounded
  BY DEF DelayInv
<1> QED
  BY <1>1, DelayAlways, PTL

\* Statistics the gateway emits to a room reach no page of another server, unless the
\* page was moved to it without being left.
THEOREM AlwaysShowsItsServer == Spec => []ShowsItsServer
<1>1. ConsoleInv => ShowsItsServer
  BY DEF ConsoleInv, PageInv
<1> QED
  BY <1>1, ConsoleAlways, PTL

\* No command is executed twice, through whatever broken connections it was buffered and
\* sent, and the page echoes none that was not executed.
THEOREM CommandAlwaysOnce == Spec => []CommandOnce
<1>1. ConsoleInv => CommandOnce
  BY DEF ConsoleInv, CommandInv
<1> QED
  BY <1>1, ConsoleAlways, PTL

\* The terminal shows each line received in order and once, for any length of the window,
\* until the window slides.
THEOREM TerminalAlwaysFollows == Spec => []TerminalFollows
<1>1. ConsoleInv => TerminalFollows
  BY DEF ConsoleInv, TerminalInv, TerminalFollows
<1> QED
  BY <1>1, ConsoleAlways, PTL

\* The statistics of a server go back to an older state only while polls overlap or have
\* overlapped.
THEOREM NewerAlwaysUnlessOverlapped == Spec => NewerUnlessOverlapped
<1> DEFINE Older == /\ Mounted /\ Mounted' /\ page.stats # None /\ page'.stats # None
                    /\ page.stats.server = page'.stats.server
                    /\ page'.stats.changes < page.stats.changes
<1>1. ConsoleInv /\ [Next]_vars => [Older => overlapped]_vars
  <2> SUFFICES ASSUME ConsoleInv, Next, Older, ~overlapped PROVE FALSE
    BY DEF vars
  <2>1. SocketInv /\ PageInv /\ PollInv /\ CommandInv
    BY DEF ConsoleInv
  <2>2. page'.stats # page.stats
    <3>1. page.stats.changes \in 0 .. MaxChanges
      BY <2>1, StatsOf
    <3>2. ~(page.stats.changes < page.stats.changes)
      BY <3>1, Bounds
    <3> QED
      BY <3>2
  <2>3. ASSUME NEW p \in Polls, PollAnswered(p) PROVE FALSE
    <3>1. page'.stats.server = poll[p].at /\ page'.stats.changes = poll[p].status.changes
      BY <2>1, <2>2, <2>3, PollAnsweredPage
    <3>2. page.stats.changes <= poll[p].status.changes
      BY <2>1, <3>1 DEF PollInv
    <3>3. poll[p].status.changes \in 0 .. MaxChanges /\ page.stats.changes \in 0 .. MaxChanges
      BY <2>1, <2>3, PollOf, StatsOf DEF PollAnswered, Status
    <3> QED
      BY <3>1, <3>2, <3>3, Bounds
  <2>4. page' # page
    BY <2>2
  <2>5. page \in Page
    BY <2>1, PageOf
  <2>6. ASSUME NEW h \in Hooks, Connect(h) \/ ConnectError(h) \/ Close(h) \/ HandleAuth(h)
        PROVE  FALSE
    <3>1. \/ page' = page \/ page' = PageDisconnected(page)
          \/ \E c \in {"connecting", "connected", "disconnected", "error"} :
               page' = [page EXCEPT !.connection = c]
      BY <2>6 DEF Connect, ConnectError, Close, HandleAuth, SetPage
    <3> QED
      BY <2>2, <2>5, <3>1, PageForms, ZenonT(40)
  <2>7. ASSUME NEW u \in Servers, Navigate(u) PROVE FALSE
    <3> DEFINE b == IF hook[page.hook].link = "open" THEN PageDisconnected(page) ELSE page
    <3>1. b \in Page /\ b.stats = page.stats
      BY <2>5, PageForms
    <3>2. page' = [b EXCEPT !.hook = hooks + 1, !.server = u]
      BY <2>7 DEF Navigate
    <3> HIDE DEF b
    <3>3. page'.stats = b.stats
      BY <3>1, <3>2 DEF Page
    <3> QED
      BY <2>2, <3>1, <3>3
  <2>8. ASSUME NEW t \in tasks, TaskSucceeds(t) PROVE FALSE
    <3>1. t.message.id \in Commands
      BY <2>1, CommandOf DEF TaskType, Message
    <3>2. \/ page' = page \/ page' = ConsoleOutput(page, t.message.id)
          \/ page' = PowerStateMessage(page, t.message.action)
      BY <2>8 DEF TaskSucceeds, SetPage
    <3>3. ConsoleOutput(page, t.message.id).stats = page.stats
      BY <2>5, <3>1, ConsoleOutputForm
    <3>4. PowerStateMessage(page, t.message.action).stats = page.stats
      BY <2>5, PageForms
    <3> QED
      BY <2>2, <3>2, <3>3, <3>4
  <2>9. ASSUME WriteLines PROVE FALSE
    BY <2>1, <2>2, <2>9, WriteLinesTerminal DEF ConsoleInv
  <2>10. ~Leave /\ \A u \in Servers : ~Open(u)
    BY DEF Leave, Open, Mounted
  <2>11. ~(SendCommand \/ ClickPower)
    BY <2>4 DEF SendCommand, ClickPower
  <2>12. \A h \in Hooks : ~(TimerFires(h) \/ HandleSubscribe(h) \/ HandleSend(h))
    BY <2>4 DEF TimerFires, HandleSubscribe, HandleSend
  <2>13. /\ \A t \in tasks : ~TaskFails(t)
         /\ \A p \in Polls : ~(StartPoll(p) \/ GetServerStatus(p) \/ PollFails(p))
         /\ \A u \in Servers : ~ContainerChanges(u)
    BY <2>4 DEF TaskFails, StartPoll, GetServerStatus, PollFails, ContainerChanges
  <2> QED
    BY <2>3, <2>6, <2>7, <2>8, <2>9, <2>10, <2>11, <2>12, <2>13
    DEF Next, Typing, Other, Browser, Reconnection, GatewayHandles, Polling
<1>2. Spec => [][Older => overlapped]_vars
  BY <1>1, ConsoleAlways, PTL DEF Spec
<1> QED
  BY <1>2 DEF NewerUnlessOverlapped
=============================================================================
