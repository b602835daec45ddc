------------------------------ MODULE NodeLink ------------------------------
(***************************************************************************)
(* The link between the Panel and one Wings node: the heartbeat loop of    *)
(* Wings, the heartbeat the Panel keeps in memory, the column              *)
(* connectionStatus that follows it, and the daemon token it carries.      *)
(* Time is discrete; a tick stands for ten seconds, the timeout of the     *)
(* POST.  What Wings collects before the POST has no timeout: Docker       *)
(* answers when it does.  A handler of the Panel is a record in req: what  *)
(* it does, where it is, the row it has loaded.  A read, what is done with *)
(* its result, and a write are steps of their own.                         *)
(***************************************************************************)
EXTENDS Integers

CONSTANTS
  Requests,    \* handlers that may run at a time
  Interval,    \* ticks between two heartbeats (30 s)
  Slack,       \* ticks within which Docker is expected to have listed the containers; what
               \* the code allows it is without limit
  Delay,       \* ticks until the POST of a heartbeat is given up (10 s)
  Threshold,   \* age in ticks from which a node is offline (60 s)
  MaxLate,     \* bound: ticks the loop catches up with after it was late
  MaxToken,    \* bound: daemon tokens that are generated
  None

ASSUME TimingAssumption ==
  /\ Interval \in Nat \ {0} /\ Slack \in Nat /\ Delay \in Nat /\ Threshold \in Nat
  /\ MaxLate \in Nat
  /\ Delay <= Interval
  /\ Interval + Slack + Delay < Threshold

VARIABLES
  row,        \* the node's row, or None
  age,        \* ticks since a heartbeat was stored (at most Threshold), or None
  handed,     \* the token an administrator was given last, None while a new one is made
  issued,     \* tokens generated so far
  wings,      \* the daemon: running or not, its token, ticks to the next heartbeat
  beat,       \* the heartbeat Wings is busy with, or None
  req,        \* the handlers in progress
  steady,     \* history: since a heartbeat was stored none went missing or waited for Docker
              \* longer than Slack
  disturbed,  \* history: handlers of the status overlapped, or one failed to write
  contended   \* history: administrators have overlapped since a token was generated alone

vars == <<row, age, handed, issued, wings, beat, req, steady, disturbed, contended>>

Token == 0 .. MaxToken
Row == [status : {"connected", "disconnected"}, token : Token]
Beat == [token : Token, left : 0 .. Slack + Delay, at : {"collect", "net", "panel", "stored"}]
Idle == [op |-> "none", pc |-> "idle", node |-> None, waited |-> FALSE]
AdminOps == {"update", "regenerate", "delete"}
Request == [op : {"none", "heartbeat", "health"} \cup AdminOps,
            pc : {"idle", "loaded", "write", "answer"},
            node : Row \cup {None}, waited : BOOLEAN]

ASSUME ConstantsAssumption == MaxToken \in Nat /\ None \notin Int \cup Row \cup Beat

Init ==
  /\ row = [status |-> "disconnected", token |-> 0]
  /\ age = None
  /\ handed = 0
  /\ issued = 0
  /\ wings = [up |-> FALSE, token |-> 0, due |-> 0]
  /\ beat = None
  /\ req = [r \in Requests |-> Idle]
  /\ steady = FALSE
  /\ disturbed = FALSE
  /\ contended = FALSE

\* Mutant: the threshold is that of one interval.
IsOnlineForInterval == age # None /\ age < Interval

IsOnline == age # None /\ age < Threshold

At(r, op, pc) == req[r].op = op /\ req[r].pc = pc
Load(r, op) ==
  /\ req[r] = Idle
  /\ row # None
  /\ req' = [req EXCEPT ![r] =
              [op |-> op, pc |-> "loaded", node |-> row, waited |-> op = "heartbeat"]]
Goto(r, pc) == req' = [req EXCEPT ![r].pc = pc]
Finish(r) == req' = [req EXCEPT ![r] = Idle]

\* The handler is done, and its POST is answered if Wings still waits for it.
Answer(r) == Finish(r) /\ beat' = IF req[r].waited THEN None ELSE beat

\* Nobody waits any more for the answer to the heartbeat.
Abandoned == [r \in Requests |-> [req[r] EXCEPT !.waited = FALSE]]

-----------------------------------------------------------------------------
(* Wings                                                                   *)

\* The interval of the loop ticks at once and then every Interval ticks, whatever became
\* of the last heartbeat; ticks that were missed are made up for.  Memory, disk and CPU are
\* read, and Docker lists the containers.
Collect ==
  /\ wings.up /\ wings.due <= 0 /\ beat = None
  /\ wings' = [wings EXCEPT !.due = @ + Interval]
  /\ beat' = [token |-> wings.token, left |-> Slack, at |-> "collect"]
  /\ UNCHANGED <<row, age, handed, issued, req, steady>>

\* Docker has answered, or failed, which gives an empty list: the POST is sent.
SendHeartbeat ==
  /\ beat # None /\ beat.at = "collect"
  /\ beat' = [beat EXCEPT !.left = Delay, !.at = "net"]
  /\ UNCHANGED <<row, age, handed, issued, wings, req, steady>>

\* The POST fails: lost, refused by the guard, or not answered within its timeout.
HeartbeatFails ==
  /\ beat # None /\ beat.at # "collect"
  /\ beat' = None
  /\ steady' = (steady /\ beat.at = "stored")
  /\ req' = Abandoned
  /\ UNCHANGED <<row, age, handed, issued, wings>>

StopWings ==
  /\ wings.up
  /\ wings' = [wings EXCEPT !.up = FALSE]
  /\ beat' = None
  /\ steady' = FALSE
  /\ req' = Abandoned
  /\ UNCHANGED <<row, age, handed, issued>>

\* Wings starts with its configuration file as it is, or after the administrator has
\* put the token that was handed out into it.
StartWings ==
  /\ ~wings.up
  /\ \E t \in {wings.token, handed} \ {None} :
        wings' = [up |-> TRUE, token |-> t, due |-> 0]
  /\ UNCHANGED <<row, age, handed, issued, beat, req, steady>>

Later == IF wings.due > -MaxLate THEN [wings EXCEPT !.due = @ - 1] ELSE wings
Slow == beat # None /\ beat.at = "collect" /\ beat.left = 0

\* Time passes up to the moment the loop, if it waits, or the timeout of the POST is due.
Tick ==
  /\ wings.up /\ beat = None => wings.due > 0
  /\ beat # None /\ beat.at # "collect" => beat.left > 0
  /\ age' = IF age = None \/ age = Threshold THEN age ELSE age + 1
  /\ wings' = IF wings.up THEN Later ELSE wings
  /\ beat' = IF beat = None \/ Slow THEN beat ELSE [beat EXCEPT !.left = @ - 1]
  /\ steady' = (steady /\ ~Slow)
  /\ UNCHANGED <<row, handed, issued, req>>

-----------------------------------------------------------------------------
(* Heartbeats and health checks in the Panel                               *)

\* DaemonTokenGuard looks the node up by the token and compares it.
CanActivate(r) ==
  /\ beat # None /\ beat.at = "net"
  /\ Load(r, "heartbeat")
  /\ beat.token = row.token
  /\ beat' = [beat EXCEPT !.at = "panel"]
  /\ UNCHANGED <<row, age, handed, issued, wings, steady>>

\* Mutant: the heartbeat is stored only when the node was not online.
ProcessHeartbeatOnce(r) ==
  /\ At(r, "heartbeat", "loaded")
  /\ age' = IF IsOnline THEN age ELSE 0
  /\ steady' = (steady \/ req[r].waited)
  /\ IF ~IsOnline /\ req[r].node.status # "connected"
     THEN /\ Goto(r, "write")
          /\ beat' = IF req[r].waited THEN [beat EXCEPT !.at = "stored"] ELSE beat
     ELSE Answer(r)
  /\ UNCHANGED <<row, handed, issued, wings>>

\* Mutant: the heartbeat is stored before the node is asked for being online.
ProcessHeartbeatStoredFirst(r) ==
  /\ At(r, "heartbeat", "loaded")
  /\ age' = 0
  /\ steady' = (steady \/ req[r].waited)
  /\ Answer(r)
  /\ UNCHANGED <<row, handed, issued, wings>>

\* processHeartbeat up to its await: it asks whether the node was online, stores the
\* heartbeat, and compares the status of the row that the guard loaded.  Without a
\* write the POST is answered.
ProcessHeartbeat(r) ==
  /\ At(r, "heartbeat", "loaded")
  /\ age' = 0
  /\ steady' = (steady \/ req[r].waited)
  /\ IF ~IsOnline /\ req[r].node.status # "connected"
     THEN /\ Goto(r, "write")
          /\ beat' = IF req[r].waited THEN [beat EXCEPT !.at = "stored"] ELSE beat
     ELSE Answer(r)
  /\ UNCHANGED <<row, handed, issued, wings>>

SetStatus(status) == row' = IF row = None THEN None ELSE [row EXCEPT !.status = status]

\* Mutant: the loaded row is saved, not the one column.
WriteConnectedRow(r) ==
  /\ At(r, "heartbeat", "write")
  /\ row' = [req[r].node EXCEPT !.status = "connected"]
  /\ Answer(r)
  /\ UNCHANGED <<age, handed, issued, wings, steady>>

\* The second part of processHeartbeat, and the answer.
WriteConnected(r) ==
  /\ At(r, "heartbeat", "write")
  /\ SetStatus("connected")
  /\ Answer(r)
  /\ UNCHANGED <<age, handed, issued, wings, steady>>

LoadHealth(r) ==
  /\ Load(r, "health")
  /\ UNCHANGED <<row, age, handed, issued, wings, beat, steady>>

\* getHealth writes only when a node that is not online is CONNECTED in the loaded row.
GetHealth(r) ==
  /\ At(r, "health", "loaded")
  /\ IF ~IsOnline /\ req[r].node.status = "connected" THEN Goto(r, "write") ELSE Finish(r)
  /\ UNCHANGED <<row, age, handed, issued, wings, beat, steady>>

WriteDisconnected(r) ==
  /\ At(r, "health", "write")
  /\ SetStatus("disconnected")
  /\ Finish(r)
  /\ UNCHANGED <<age, handed, issued, wings, beat, steady>>

-----------------------------------------------------------------------------
(* Administrators                                                          *)

LoadNode(r, op) ==
  /\ Load(r, op)
  /\ UNCHANGED <<row, age, handed, issued, wings, beat, steady>>

\* update saves the whole row as it was loaded, with fields that do not matter here.
Update(r) ==
  /\ At(r, "update", "loaded")
  /\ row' = req[r].node
  /\ Finish(r)
  /\ UNCHANGED <<age, handed, issued, wings, beat, steady>>

\* regenerateToken writes a new token; with the answer the administrator has it.
RegenerateToken(r) ==
  /\ At(r, "regenerate", "loaded")
  /\ issued < MaxToken
  /\ issued' = issued + 1
  /\ row' = IF row = None THEN None ELSE [row EXCEPT !.token = issued + 1]
  /\ handed' = None
  /\ req' = [req EXCEPT ![r].pc = "answer", ![r].node.token = issued + 1]
  /\ UNCHANGED <<age, wings, beat, steady>>

HandToken(r) ==
  /\ At(r, "regenerate", "answer")
  /\ handed' = req[r].node.token
  /\ Finish(r)
  /\ UNCHANGED <<row, age, issued, wings, beat, steady>>

\* delete removes the row; the stored heartbeat stays.
Delete(r) ==
  /\ At(r, "delete", "loaded")
  /\ row' = None
  /\ Finish(r)
  /\ UNCHANGED <<age, handed, issued, wings, beat, steady>>

-----------------------------------------------------------------------------
(* Faults of the Panel                                                     *)

\* A write fails and the handler with it.
WriteFails(r) ==
  /\ req[r].pc = "write" \/ (req[r].op \in AdminOps /\ req[r].pc = "loaded")
  /\ Answer(r)
  /\ UNCHANGED <<row, age, handed, issued, wings, steady>>

\* The Panel restarts: heartbeats and handlers are in memory only.
RestartPanel ==
  /\ age' = None
  /\ req' = [r \in Requests |-> Idle]
  /\ beat' = None
  /\ steady' = FALSE
  /\ UNCHANGED <<row, handed, issued, wings>>

-----------------------------------------------------------------------------

Quiet == \A r \in Requests : req[r] = Idle

\* A heartbeat and another handler that writes the status are in progress together.
Overlapping ==
  \E r, q \in Requests : req[r].op = "heartbeat" /\ req[q].op \in {"health", "update"}

Contending ==
  \E r, q \in Requests : r # q /\ req[r].op \in AdminOps /\ req[q].op \in AdminOps

\* A disturbance is over once the node is offline and nothing is in progress; administrators
\* no longer contend once one has generated a token alone.
Remember(failed) ==
  /\ disturbed' = ((disturbed \/ failed \/ Overlapping') /\ ~(Quiet /\ ~IsOnline)')
  /\ contended' = (Contending' \/ (contended /\ issued' = issued))

Handler(r) ==
  \/ CanActivate(r) \/ ProcessHeartbeat(r) \/ WriteConnected(r)
  \/ LoadHealth(r) \/ GetHealth(r) \/ WriteDisconnected(r)
  \/ \E op \in AdminOps : LoadNode(r, op)
  \/ Update(r) \/ RegenerateToken(r) \/ HandToken(r) \/ Delete(r)

Daemon == Collect \/ SendHeartbeat \/ HeartbeatFails \/ StopWings \/ StartWings

Next ==
  \/ (Daemon \/ Tick \/ RestartPanel \/ \E r \in Requests : Handler(r)) /\ Remember(FALSE)
  \/ (\E r \in Requests : WriteFails(r)) /\ Remember(TRUE)

Spec == Init /\ [][Next]_vars

-----------------------------------------------------------------------------
(* Properties                                                              *)

\* Columns, timers and handlers hold values of their types.
TypeOK ==
  /\ row \in Row \cup {None}
  /\ age \in 0 .. Threshold \cup {None}
  /\ handed \in Token \cup {None} /\ issued \in Token
  /\ wings \in [up : BOOLEAN, token : Token, due : -MaxLate .. Interval]
  /\ beat \in Beat \cup {None}
  /\ req \in [Requests -> Request]
  /\ steady \in BOOLEAN /\ disturbed \in BOOLEAN /\ contended \in BOOLEAN

\* A node whose heartbeats all arrive, and whose Docker lists the containers within Slack
\* each time, is online without a gap: the interval of the loop (30 s), that time (10 s) and
\* the timeout of the POST (10 s) together stay below the threshold (60 s), whatever else
\* the handlers do.  Neither exception can be left out: one heartbeat lost costs a second
\* interval, and nothing in the code limits the time Docker takes.
SteadyNodeOnline == steady => IsOnline

\* What it rests on: the age of the stored heartbeat and the time until the next one is
\* stored never add up to more than the interval, Slack and the timeout, although the loop
\* may be late and then sends at once.
SteadyInv ==
  /\ TypeOK
  /\ steady =>
       /\ age # None
       /\ wings.up
       /\ beat = None => age + wings.due <= Interval /\ age <= Interval
       /\ beat # None =>
            /\ beat.at = "stored" => age + wings.due <= Interval /\ age + beat.left <= Interval
            /\ beat.at = "collect" => age + beat.left <= Interval + Slack
            /\ beat.at \in {"net", "panel"} => age + beat.left <= Interval + Slack + Delay

\* And what that rests on: a heartbeat that is waited for is one of a running daemon, is
\* handled by one handler, and has come as far as that handler has; every handler at work
\* carries the row it loaded.
Awaited ==
  /\ beat # None => wings.up /\ (beat.at # "collect" => beat.left <= Delay)
  /\ \A r \in Requests : req[r].op # "none" => req[r].node # None
  /\ \A r \in Requests : req[r].waited =>
       /\ beat # None
       /\ \/ At(r, "heartbeat", "loaded") /\ beat.at = "panel"
          \/ At(r, "heartbeat", "write") /\ beat.at = "stored"
  /\ \A r, q \in Requests : req[r].waited /\ req[q].waited => r = q

\* connectionStatus follows heartbeats through two conditional writes made from stale
\* rows.  When no handler is in progress, an online node is CONNECTED, unless since it
\* came online a heartbeat overlapped a health check or an update of the node, or a
\* write failed: then the row may say DISCONNECTED until the node goes offline.
StatusFollows == (Quiet /\ IsOnline /\ row # None /\ ~disturbed) => row.status = "connected"

\* Why: as long as nothing disturbed them, handlers of the status exclude each other, an
\* online node that is not CONNECTED has a heartbeat about to write, and no handler carries
\* a row or a decision that would take the node back.
Undisturbed ==
  /\ ~Overlapping
  /\ IsOnline /\ row # None /\ row.status # "connected" =>
       \E r \in Requests : At(r, "heartbeat", "write")
  /\ \A r \in Requests :
       /\ At(r, "heartbeat", "loaded") /\ row # None /\ req[r].node.status = "connected" =>
            row.status = "connected"
       /\ req[r].op = "update" /\ IsOnline => req[r].node.status = "connected"
       /\ At(r, "health", "write") => ~IsOnline

StatusInv == ~disturbed => Undisturbed

\* The token an administrator was handed last is the one the guard accepts, although
\* heartbeats, health checks and updates write the row as well, unless since it was
\* generated two administrators have been at work at once: an update then may save a row
\* that was loaded before the token was written.
HandedTokenAccepted == (row # None /\ handed # None /\ ~contended) => row.token = handed

\* Why: of administrators that do not overlap, an update still carries the token of the
\* row, and the token being handed out is the last one written.
TokenInv ==
  ~contended =>
    /\ HandedTokenAccepted
    /\ ~Contending
    /\ \A r \in Requests :
         /\ req[r].op = "update" => row # None /\ req[r].node.token = row.token
         /\ At(r, "regenerate", "answer") /\ row # None => row.token = req[r].node.token
=============================================================================
