---------------------------- MODULE NodeLinkProofs ----------------------------
(***************************************************************************)
(* A node whose heartbeats arrive stays online, its connectionStatus       *)
(* follows, and the token handed out is the one accepted: the invariants   *)
(* of NodeLink, for any number of handlers and any timing that satisfies   *)
(* TimingAssumption.                                                       *)
(***************************************************************************)
EXTENDS NodeLink, TLAPS

\* When the POST is given up the handlers go on, and none is waited for.
LEMMA Abandons ==
  TypeOK => /\ Abandoned \in [Requests -> Request]
            /\ \A r \in Requests : /\ Abandoned[r].op = req[r].op
                                   /\ Abandoned[r].pc = req[r].pc
                                   /\ Abandoned[r].node = req[r].node
                                   /\ Abandoned[r].waited = FALSE
<1> SUFFICES ASSUME TypeOK
             PROVE  /\ Abandoned \in [Requests -> Request]
                    /\ \A r \in Requests : /\ Abandoned[r].op = req[r].op
                                           /\ Abandoned[r].pc = req[r].pc
                                           /\ Abandoned[r].node = req[r].node
                                           /\ Abandoned[r].waited = FALSE
  OBVIOUS
<1>1. \A r \in Requests : [req[r] EXCEPT !.waited = FALSE] \in Request
  BY DEF TypeOK, Request
<1>2. \A r \in Requests : req[r] \in Request
  BY DEF TypeOK
<1> QED
  BY <1>1, <1>2 DEF Abandoned, Request

\* A heartbeat that moves on is one still.
LEMMA BeatMoves ==
  ASSUME NEW b \in Beat, NEW l \in 0 .. Slack + Delay,
         NEW a \in {"collect", "net", "panel", "stored"}
  PROVE  /\ [b EXCEPT !.left = l] \in Beat /\ [b EXCEPT !.left = l, !.at = a] \in Beat
         /\ None \notin Beat
  BY ConstantsAssumption DEF Beat

\* A handler that goes on, or is done, has the type of a handler, and the others stay.
LEMMA HandlerMoves ==
  ASSUME TypeOK, NEW r \in Requests, NEW pc \in {"loaded", "write", "answer"},
         Goto(r, pc) \/ Finish(r)
  PROVE  /\ req' \in [Requests -> Request]
         /\ \A q \in Requests \ {r} : req'[q] = req[q]
         /\ req'[r] \in {[req[r] EXCEPT !.pc = pc], Idle}
<1>1. req[r] \in Request
  BY DEF TypeOK
<1>2. [req[r] EXCEPT !.pc = pc] \in Request /\ Idle \in Request
  BY <1>1 DEF Request, Idle
<1> QED
  BY <1>2 DEF TypeOK, Goto, Finish

\* Every step keeps the types.
LEMMA StepTypeOK == TypeOK /\ Awaited /\ [Next]_vars => TypeOK'
<1> SUFFICES ASSUME TypeOK, Awaited, [Next]_vars PROVE TypeOK'
  OBVIOUS
<1> USE TimingAssumption, ConstantsAssumption
    DEF TypeOK, Awaited, Idle, Request, AdminOps, Row, Token, Beat, At
<1>0. disturbed' \in BOOLEAN /\ contended' \in BOOLEAN
  BY DEF Next, Remember, vars, Contending
<1>c. CASE Collect
  BY <1>0, <1>c DEF Collect
<1>1. CASE SendHeartbeat
  <2>1. Delay \in 0 .. Slack + Delay
    OBVIOUS
  <2> QED
    BY <1>0, <1>1, <2>1 DEF SendHeartbeat
<1>2. CASE HeartbeatFails
  BY <1>0, <1>2, Abandons DEF HeartbeatFails
<1>3. CASE StopWings
  BY <1>0, <1>3, Abandons DEF StopWings
<1>4. CASE StartWings
  BY <1>0, <1>4 DEF StartWings
<1>5. CASE Tick
  <2>1. age' \in 0 .. Threshold \cup {None}
    <3>1. age' = IF age = None \/ age = Threshold THEN age ELSE age + 1
      BY <1>5 DEF Tick
    <3>2. age \in 0 .. Threshold \cup {None}
      OBVIOUS
    <3> HIDE DEF TypeOK, Awaited
    <3> QED
      BY <3>1, <3>2
  <2>2. wings' \in [up : BOOLEAN, token : Token, due : -MaxLate .. Interval]
    BY <1>5 DEF Tick, Later
  <2>3. beat' \in Beat \cup {None}
    BY <1>5 DEF Tick, Slow
  <2>4. steady' \in BOOLEAN
    BY <1>5 DEF Tick, Slow
  <2> QED
    BY <1>0, <1>5, <2>1, <2>2, <2>3, <2>4 DEF Tick
<1>6. CASE RestartPanel
  BY <1>0, <1>6 DEF RestartPanel
<1>7. ASSUME NEW r \in Requests, CanActivate(r) PROVE TypeOK'
  BY <1>0, <1>7 DEF CanActivate, Load
<1>8. ASSUME NEW r \in Requests, ProcessHeartbeat(r) PROVE TypeOK'
  <2>1. Goto(r, "write") \/ Finish(r)
    BY <1>8 DEF ProcessHeartbeat, Answer
  <2>2. req' \in [Requests -> Request]
    BY <2>1, HandlerMoves
  <2>3. beat' \in Beat \cup {None}
    BY <1>8 DEF ProcessHeartbeat, Answer
  <2>4. steady' \in BOOLEAN
    BY <1>8 DEF ProcessHeartbeat
  <2> QED
    BY <1>0, <1>8, <2>2, <2>3, <2>4 DEF ProcessHeartbeat
<1>9. ASSUME NEW r \in Requests, WriteConnected(r) PROVE TypeOK'
  BY <1>0, <1>9 DEF WriteConnected, Answer, Finish, At, SetStatus
<1>10. ASSUME NEW r \in Requests, LoadHealth(r) PROVE TypeOK'
  BY <1>0, <1>10 DEF LoadHealth, Load
<1>11. ASSUME NEW r \in Requests, GetHealth(r) PROVE TypeOK'
  <2>1. Goto(r, "write") \/ Finish(r)
    BY <1>11 DEF GetHealth
  <2>2. req' \in [Requests -> Request]
    BY <2>1, HandlerMoves
  <2> QED
    BY <1>0, <1>11, <2>2 DEF GetHealth
<1>12. ASSUME NEW r \in Requests, WriteDisconnected(r) PROVE TypeOK'
  BY <1>0, <1>12 DEF WriteDisconnected, SetStatus, Finish, At
<1>13. ASSUME NEW r \in Requests, Update(r) PROVE TypeOK'
  BY <1>0, <1>13 DEF Update, Finish, At
<1>14. ASSUME NEW r \in Requests, RegenerateToken(r) PROVE TypeOK'
  <2>1. issued + 1 \in Token /\ req[r].node \in Row
    BY <1>14 DEF RegenerateToken
  <2>2. [req[r] EXCEPT !.pc = "answer", !.node.token = issued + 1] \in Request
    <3>1. [req[r].node EXCEPT !.token = issued + 1] \in Row
      BY <2>1
    <3>2. ASSUME NEW n \in Row
          PROVE  [req[r] EXCEPT !.pc = "answer", !.node = n] \in Request
      <4> HIDE DEF Row, Awaited
      <4> QED
        BY <3>2, ZenonT(40)
    <3>3. req[r] \in Request
      OBVIOUS
    <3> HIDE DEF TypeOK, Awaited, Row
    <3> QED
      BY <3>1, <3>2, <3>3
  <2>3. req' \in [Requests -> Request]
    BY <1>14, <2>2 DEF RegenerateToken
  <2>4. row' \in Row \cup {None}
    BY <1>14, <2>1 DEF RegenerateToken
  <2> QED
    BY <1>0, <1>14, <2>1, <2>3, <2>4 DEF RegenerateToken
<1>15. ASSUME NEW r \in Requests, HandToken(r) PROVE TypeOK'
  <2>1. req[r].node \in Row /\ req[r].node.token \in Token
    BY <1>15 DEF HandToken
  <2> QED
    BY <1>0, <1>15, <2>1 DEF HandToken, Finish
<1>16. ASSUME NEW r \in Requests, Delete(r) PROVE TypeOK'
  BY <1>0, <1>16 DEF Delete, Finish, At
<1>17. ASSUME NEW r \in Requests, WriteFails(r) PROVE TypeOK'
  BY <1>0, <1>17 DEF WriteFails, Answer, Finish
<1>18. ASSUME NEW r \in Requests, NEW op \in AdminOps, LoadNode(r, op) PROVE TypeOK'
  BY <1>0, <1>18 DEF LoadNode, Load
<1>19. CASE UNCHANGED vars
  BY <1>0, <1>19 DEF vars
<1> HIDE DEF TypeOK, Awaited, Idle, Request, AdminOps, Row, Token, Beat, At
<1> QED
  BY <1>0, <1>c, <1>1, <1>2, <1>3, <1>4, <1>5, <1>6, <1>7, <1>8, <1>9, <1>10, <1>11, <1>12,
     <1>13,
     <1>14, <1>15, <1>16, <1>17, <1>18, <1>19 DEF Next, Daemon, Handler

\* A heartbeat that is waited for stays one of a running daemon and of one handler.
LEMMA StepAwaited == TypeOK /\ Awaited /\ [Next]_vars => Awaited'
<1> SUFFICES ASSUME TypeOK, Awaited, [Next]_vars PROVE Awaited'
  OBVIOUS
<1>0. TypeOK'
  BY StepTypeOK
<1> USE ConstantsAssumption DEF TypeOK, Awaited, Idle, AdminOps, Request, Beat, At
<1>c. CASE Collect
  BY <1>c DEF Collect
<1>1. CASE SendHeartbeat
  BY <1>1, TimingAssumption DEF SendHeartbeat
<1>2. CASE HeartbeatFails
  BY <1>2, Abandons DEF HeartbeatFails
<1>3. CASE StopWings
  BY <1>3, Abandons DEF StopWings
<1>4. CASE StartWings
  BY <1>4 DEF StartWings
<1>5. CASE Tick
  <2>1. req' = req /\ wings'.up = wings.up
    BY <1>5 DEF Tick, Later
  <2>2. beat = None => beat' = None
    BY <1>5 DEF Tick
  <2>3. beat # None => beat' # None /\ beat'.at = beat.at /\ beat'.left <= beat.left
    <3> SUFFICES ASSUME beat # None
                 PROVE  beat' # None /\ beat'.at = beat.at /\ beat'.left <= beat.left
      OBVIOUS
    <3>1. CASE Slow
      BY <1>5, <3>1, TimingAssumption DEF Tick
    <3>2. CASE ~Slow
      <4>1. beat' = [beat EXCEPT !.left = @ - 1] /\ beat \in Beat
        BY <1>5, <3>2 DEF Tick
      <4>2. beat'.at = beat.at /\ beat'.left = beat.left - 1 /\ beat.left \in Int
        BY <4>1, TimingAssumption
      <4>3. beat.left - 1 \in 0 .. Slack + Delay
        BY <1>5, <3>2, TimingAssumption DEF Tick, Slow
      <4>4. beat' # None
        <5> HIDE DEF Beat, TypeOK, Awaited
        <5> QED
          BY <4>1, <4>3, BeatMoves
      <4> QED
        BY <4>2, <4>4
    <3> QED
      BY <3>1, <3>2
  <2>4. beat' # None => wings'.up /\ (beat'.at # "collect" => beat'.left <= Delay)
    BY <2>1, <2>2, <2>3, <1>0, TimingAssumption
  <2> QED
    BY <2>1, <2>2, <2>3, <2>4
<1>6. CASE RestartPanel
  BY <1>6 DEF RestartPanel
<1>7. ASSUME NEW r \in Requests, CanActivate(r) PROVE Awaited'
  BY <1>7 DEF CanActivate, Load
<1>8. ASSUME NEW r \in Requests, ProcessHeartbeat(r) PROVE Awaited'
  BY <1>8 DEF ProcessHeartbeat, Answer, Finish, Goto
<1>9. ASSUME NEW r \in Requests, WriteConnected(r) PROVE Awaited'
  BY <1>9 DEF WriteConnected, Answer, Finish, SetStatus
<1>10. ASSUME NEW r \in Requests, LoadHealth(r) PROVE Awaited'
  BY <1>10 DEF LoadHealth, Load
<1>11. ASSUME NEW r \in Requests, GetHealth(r) PROVE Awaited'
  BY <1>11 DEF GetHealth, Goto, Finish
<1>12. ASSUME NEW r \in Requests, WriteDisconnected(r) PROVE Awaited'
  BY <1>12 DEF WriteDisconnected, SetStatus, Finish
<1>13. ASSUME NEW r \in Requests, Update(r) PROVE Awaited'
  BY <1>13 DEF Update, Finish
<1>14. ASSUME NEW r \in Requests, RegenerateToken(r) PROVE Awaited'
  <2>1. req[r].node \in Row /\ req'[r].op = "regenerate" /\ ~req'[r].waited
    BY <1>14 DEF RegenerateToken
  <2>2. req'[r].node # None
    BY <1>14, <2>1 DEF RegenerateToken, Row
  <2> QED
    BY <1>14, <2>1, <2>2 DEF RegenerateToken
<1>15. ASSUME NEW r \in Requests, HandToken(r) PROVE Awaited'
  BY <1>15 DEF HandToken, Finish
<1>16. ASSUME NEW r \in Requests, Delete(r) PROVE Awaited'
  BY <1>16 DEF Delete, Finish
<1>17. ASSUME NEW r \in Requests, WriteFails(r) PROVE Awaited'
  BY <1>17 DEF WriteFails, Answer, Finish
<1>18. ASSUME NEW r \in Requests, NEW op \in AdminOps, LoadNode(r, op) PROVE Awaited'
  BY <1>18 DEF LoadNode, Load
<1>19. CASE UNCHANGED vars
  BY <1>19 DEF vars
<1> HIDE DEF TypeOK, Awaited, Idle, AdminOps, Request, Beat, At
<1> QED
  BY <1>c, <1>1, <1>2, <1>3, <1>4, <1>5, <1>6, <1>7, <1>8, <1>9, <1>10, <1>11, <1>12, <1>13,
     <1>14,
     <1>15, <1>16, <1>17, <1>18, <1>19 DEF Next, Daemon, Handler

\* The age of the stored heartbeat and the time to the next stay within their bound.
LEMMA StepSteady == SteadyInv /\ Awaited /\ [Next]_vars => SteadyInv'
<1> SUFFICES ASSUME SteadyInv, Awaited, [Next]_vars PROVE SteadyInv'
  OBVIOUS
<1>0. TypeOK /\ TypeOK'
  BY StepTypeOK DEF SteadyInv
<1> USE <1>0, TimingAssumption, ConstantsAssumption
    DEF TypeOK, Awaited, SteadyInv, Idle, AdminOps, Request, Beat, At
<1>c. CASE Collect
  BY <1>c DEF Collect
<1>1. CASE SendHeartbeat
  <2>1. beat \in Beat /\ beat' = [beat EXCEPT !.left = Delay, !.at = "net"]
    BY <1>1 DEF SendHeartbeat
  <2>2. beat'.at = "net" /\ beat'.left = Delay
    BY <2>1
  <2>3. steady => age \in Nat /\ age <= Interval + Slack
    BY <1>1 DEF SendHeartbeat
  <2> QED
    <3>1. steady' = steady /\ age' = age /\ wings' = wings
      BY <1>1 DEF SendHeartbeat
    <3>2. beat' # None
      <4>1. Delay \in 0 .. Slack + Delay
        OBVIOUS
      <4> HIDE DEF Beat, TypeOK, Awaited, SteadyInv
      <4> QED
        BY <2>1, <4>1, BeatMoves
    <3>3. steady => age # None /\ wings.up
      OBVIOUS
    <3>4. SteadyInv' <=> (steady' => /\ age' # None /\ wings'.up
                                    /\ age' + beat'.left <= Interval + Slack + Delay)
      BY <2>2, <3>2
    <3> HIDE DEF SteadyInv, TypeOK
    <3> QED
      BY <2>2, <2>3, <3>1, <3>3, <3>4
<1>2. CASE HeartbeatFails
  <2> SUFFICES ASSUME steady' PROVE SteadyInv'
    OBVIOUS
  <2>1. steady /\ beat # None /\ beat.at = "stored" /\ beat' = None
    BY <1>2 DEF HeartbeatFails
  <2>2. age \in Nat /\ age + wings.due <= Interval /\ age <= Interval
    BY <2>1
  <2> QED
    BY <1>2, <2>1, <2>2 DEF HeartbeatFails
<1>3. CASE StopWings
  BY <1>3, Abandons DEF StopWings
<1>4. CASE StartWings
  BY <1>4 DEF StartWings
<1>5. CASE Tick
  <2> SUFFICES ASSUME steady' PROVE SteadyInv'
    OBVIOUS
  <2>1. steady /\ ~Slow /\ age \in Nat /\ wings.up
    <3>1. steady' = (steady /\ ~Slow)
      BY <1>5 DEF Tick
    <3>2. steady /\ ~Slow
      BY <3>1
    <3> QED
      BY <3>2
  <2>2. age' \in Nat /\ age' <= age + 1
    BY <1>5, <2>1 DEF Tick
  <2>3. /\ wings'.up
        /\ \/ wings.due <= -MaxLate /\ wings'.due = wings.due
           \/ wings'.due = wings.due - 1
    BY <1>5, <2>1 DEF Tick, Later
  <2>4. CASE beat = None
    <3>1. wings.due > 0 /\ beat' = None
      BY <1>5, <2>1, <2>4 DEF Tick
    <3>2. age + wings.due <= Interval
      BY <2>1, <2>4
    <3>3. age' + wings'.due <= Interval /\ age' <= Interval /\ age' # None
      BY <2>1, <2>2, <2>3, <3>1, <3>2
    <3> HIDE DEF TypeOK, Awaited, Beat, Request, At
    <3> QED
      BY <2>3, <3>1, <3>3
  <2>5. CASE beat # None
    <3>1. beat'.at = beat.at /\ beat'.left = beat.left - 1 /\ beat' # None
      BY <1>5, <2>1, <2>5 DEF Tick, Slow
    <3>2. beat.at = "stored" => age' + beat'.left <= Interval
      BY <2>1, <2>2, <2>5, <3>1
    <3>3. beat.at = "stored" => age' + wings'.due <= Interval
      BY <2>1, <2>2, <2>3, <2>5, <3>1, <3>2
    <3>4. beat.at = "collect" => age' + beat'.left <= Interval + Slack
      BY <2>1, <2>2, <2>5, <3>1
    <3>5. beat.at \in {"net", "panel"} => age' + beat'.left <= Interval + Slack + Delay
      BY <2>1, <2>2, <2>5, <3>1
    <3>6. age' # None
      BY <2>2
    <3> HIDE DEF TypeOK, Awaited, Beat, Request, At
    <3> QED
      BY <2>3, <3>1, <3>2, <3>3, <3>4, <3>5, <3>6
  <2> QED
    BY <2>4, <2>5
<1>6. CASE RestartPanel
  BY <1>6 DEF RestartPanel
<1>7. ASSUME NEW r \in Requests, CanActivate(r) PROVE SteadyInv'
  BY <1>7 DEF CanActivate, Load
<1>8. ASSUME NEW r \in Requests, ProcessHeartbeat(r) PROVE SteadyInv'
  BY <1>8 DEF ProcessHeartbeat, Answer, Finish, Goto
<1>9. ASSUME NEW r \in Requests, WriteConnected(r) PROVE SteadyInv'
  BY <1>9 DEF WriteConnected, Answer, Finish, SetStatus
<1>10. ASSUME NEW r \in Requests, LoadHealth(r) PROVE SteadyInv'
  BY <1>10 DEF LoadHealth, Load
<1>11. ASSUME NEW r \in Requests, GetHealth(r) PROVE SteadyInv'
  BY <1>11 DEF GetHealth, Goto, Finish
<1>12. ASSUME NEW r \in Requests, WriteDisconnected(r) PROVE SteadyInv'
  BY <1>12 DEF WriteDisconnected, SetStatus, Finish
<1>13. ASSUME NEW r \in Requests, Update(r) PROVE SteadyInv'
  BY <1>13 DEF Update, Finish
<1>14. ASSUME NEW r \in Requests, RegenerateToken(r) PROVE SteadyInv'
  BY <1>14 DEF RegenerateToken
<1>15. ASSUME NEW r \in Requests, HandToken(r) PROVE SteadyInv'
  BY <1>15 DEF HandToken, Finish
<1>16. ASSUME NEW r \in Requests, Delete(r) PROVE SteadyInv'
  BY <1>16 DEF Delete, Finish
<1>17. ASSUME NEW r \in Requests, WriteFails(r) PROVE SteadyInv'
  BY <1>17 DEF WriteFails, Answer, Finish
<1>18. ASSUME NEW r \in Requests, NEW op \in AdminOps, LoadNode(r, op) PROVE SteadyInv'
  BY <1>18 DEF LoadNode, Load
<1>19. CASE UNCHANGED vars
  BY <1>19 DEF vars
<1> HIDE DEF TypeOK, Awaited, Idle, AdminOps, Request, Beat, At, SteadyInv
<1> QED
  BY <1>c, <1>1, <1>2, <1>3, <1>4, <1>5, <1>6, <1>7, <1>8, <1>9, <1>10, <1>11, <1>12, <1>13,
     <1>14,
     <1>15, <1>16, <1>17, <1>18, <1>19 DEF Next, Daemon, Handler

\* The status follows: a step that leaves the node undisturbed keeps its handlers apart and
\* lets none of them carry a row or a decision that is stale.
LEMMA StepStatus == TypeOK /\ TypeOK' /\ StatusInv /\ [Next]_vars => StatusInv'
<1> SUFFICES ASSUME TypeOK, TypeOK', StatusInv, [Next]_vars, ~disturbed' PROVE Undisturbed'
  BY DEF StatusInv
<1> USE ConstantsAssumption DEF TypeOK, Idle, AdminOps, Request, Row, At, IsOnline
<1>a. CASE (Quiet /\ ~IsOnline)'
  BY <1>a DEF Quiet, Undisturbed, Overlapping
<1>b. CASE UNCHANGED vars
  BY <1>b DEF vars, StatusInv, Undisturbed, Overlapping
<1>c. CASE Next /\ ~(Quiet /\ ~IsOnline)'
  <2> HIDE DEF TypeOK, Idle, AdminOps, Request, Row, At, IsOnline
  <2>0. /\ ~disturbed /\ ~Overlapping' /\ Undisturbed
        /\ Daemon \/ Tick \/ RestartPanel \/ \E r \in Requests : Handler(r)
    BY <1>c DEF Next, Remember, StatusInv
  <2> USE DEF TypeOK, Idle, AdminOps, Request, Row, At, IsOnline
  <2> USE <2>0 DEF Undisturbed, Overlapping
  <2>c. CASE Collect
    BY <2>c DEF Collect
  <2>1. CASE SendHeartbeat
    BY <2>1 DEF SendHeartbeat
  <2>2. CASE HeartbeatFails
    BY <2>2, Abandons DEF HeartbeatFails
  <2>3. CASE StopWings
    BY <2>3, Abandons DEF StopWings
  <2>4. CASE StartWings
    BY <2>4 DEF StartWings
  <2>5. CASE Tick
    <3>1. IsOnline' => IsOnline
      BY <2>5, TimingAssumption DEF Tick, Later, Slow
    <3>2. row' = row /\ req' = req
      BY <2>5 DEF Tick, Later, Slow
    <3> HIDE DEF IsOnline
    <3> QED
      BY <3>1, <3>2
  <2>6. CASE RestartPanel
    BY <2>6 DEF RestartPanel
  <2>7. ASSUME NEW r \in Requests, CanActivate(r) PROVE Undisturbed'
    BY <2>7 DEF CanActivate, Load
  <2>8. ASSUME NEW r \in Requests, ProcessHeartbeat(r) PROVE Undisturbed'
    BY <2>8 DEF ProcessHeartbeat, Answer, Finish, Goto
  <2>9. ASSUME NEW r \in Requests, WriteConnected(r) PROVE Undisturbed'
    BY <2>9 DEF WriteConnected, Answer, Finish, SetStatus
  <2>10. ASSUME NEW r \in Requests, LoadHealth(r) PROVE Undisturbed'
    BY <2>10 DEF LoadHealth, Load
  <2>11. ASSUME NEW r \in Requests, GetHealth(r) PROVE Undisturbed'
    BY <2>11 DEF GetHealth, Goto, Finish
  <2>12. ASSUME NEW r \in Requests, WriteDisconnected(r) PROVE Undisturbed'
    BY <2>12 DEF WriteDisconnected, SetStatus, Finish
  <2>13. ASSUME NEW r \in Requests, Update(r) PROVE Undisturbed'
    BY <2>13 DEF Update, Finish
  <2>14. ASSUME NEW r \in Requests, RegenerateToken(r) PROVE Undisturbed'
    BY <2>14 DEF RegenerateToken
  <2>15. ASSUME NEW r \in Requests, HandToken(r) PROVE Undisturbed'
    BY <2>15 DEF HandToken, Finish
  <2>16. ASSUME NEW r \in Requests, Delete(r) PROVE Undisturbed'
    BY <2>16 DEF Delete, Finish
  <2>17. ASSUME NEW r \in Requests, NEW op \in AdminOps, LoadNode(r, op) PROVE Undisturbed'
    BY <2>17 DEF LoadNode, Load
  <2> HIDE DEF TypeOK, Idle, AdminOps, Request, Row, At, IsOnline, Undisturbed, Overlapping
  <2> QED
    BY <2>c, <2>1, <2>2, <2>3, <2>4, <2>5, <2>6, <2>7, <2>8, <2>9, <2>10, <2>11, <2>12, <2>13,
       <2>14, <2>15, <2>16, <2>17, <2>0 DEF Daemon, Handler
<1> QED
  BY <1>a, <1>b, <1>c

\* No step parts the token of the row from the one that is handed out.
LEMMA StepToken == TypeOK /\ TypeOK' /\ Awaited /\ TokenInv /\ [Next]_vars => TokenInv'
<1> SUFFICES ASSUME TypeOK, TypeOK', Awaited, TokenInv, [Next]_vars, ~contended' PROVE TokenInv'
  BY DEF TokenInv
<1>0. CASE UNCHANGED vars
  BY <1>0
  DEF vars, TokenInv, HandedTokenAccepted, Contending, At
<1> SUFFICES ASSUME Next PROVE TokenInv'
  BY <1>0
<1>n. ~Contending' /\ (contended => issued' # issued)
  BY DEF Next, Remember
<1> USE ConstantsAssumption
    DEF Contending, TypeOK, TokenInv, HandedTokenAccepted, Idle, AdminOps, Request, Row, At
<1>c. CASE Collect
  BY <1>n, <1>c DEF Collect
<1>1. CASE SendHeartbeat
  BY <1>n, <1>1 DEF SendHeartbeat
<1>2. CASE HeartbeatFails
  BY <1>n, <1>2, Abandons DEF HeartbeatFails
<1>3. CASE StopWings
  BY <1>n, <1>3, Abandons DEF StopWings
<1>4. CASE StartWings
  BY <1>n, <1>4 DEF StartWings
<1>5. CASE Tick
  BY <1>n, <1>5 DEF Tick, Later, Slow
<1>6. CASE RestartPanel
  BY <1>n, <1>6 DEF RestartPanel
<1>7. ASSUME NEW r \in Requests, CanActivate(r) PROVE TokenInv'
  BY <1>n, <1>7 DEF CanActivate, Load
<1>8. ASSUME NEW r \in Requests, ProcessHeartbeat(r) PROVE TokenInv'
  BY <1>n, <1>8 DEF ProcessHeartbeat, Answer, Finish, Goto
<1>9. ASSUME NEW r \in Requests, WriteConnected(r) PROVE TokenInv'
  BY <1>n, <1>9 DEF WriteConnected, Answer, Finish, SetStatus
<1>10. ASSUME NEW r \in Requests, LoadHealth(r) PROVE TokenInv'
  BY <1>n, <1>10 DEF LoadHealth, Load
<1>11. ASSUME NEW r \in Requests, GetHealth(r) PROVE TokenInv'
  BY <1>n, <1>11 DEF GetHealth, Goto, Finish
<1>12. ASSUME NEW r \in Requests, WriteDisconnected(r) PROVE TokenInv'
  BY <1>n, <1>12 DEF WriteDisconnected, SetStatus, Finish
<1>13. ASSUME NEW r \in Requests, Update(r) PROVE TokenInv'
  BY <1>n, <1>13 DEF Update, Finish
<1>14. ASSUME NEW r \in Requests, RegenerateToken(r) PROVE TokenInv'
  BY <1>n, <1>14 DEF RegenerateToken
<1>15. ASSUME NEW r \in Requests, HandToken(r) PROVE TokenInv'
  BY <1>n, <1>15 DEF HandToken, Finish
<1>16. ASSUME NEW r \in Requests, Delete(r) PROVE TokenInv'
  BY <1>n, <1>16 DEF Delete, Finish
<1>17. ASSUME NEW r \in Requests, WriteFails(r) PROVE TokenInv'
  BY <1>n, <1>17 DEF WriteFails, Answer, Finish
<1>18. ASSUME NEW r \in Requests, NEW op \in AdminOps, LoadNode(r, op) PROVE TokenInv'
  BY <1>n, <1>18 DEF LoadNode, Load
<1> HIDE DEF Contending, TypeOK, TokenInv, HandedTokenAccepted, Idle, AdminOps, Request, Row, At
<1> QED
  BY <1>c, <1>1, <1>2, <1>3, <1>4, <1>5, <1>6, <1>7, <1>8, <1>9, <1>10, <1>11, <1>12, <1>13,
     <1>14,
     <1>15, <1>16, <1>17, <1>18 DEF Next, Daemon, Handler

-----------------------------------------------------------------------------

\* Nothing has been stored, is waited for or was disturbed when the system starts.
LEMMA InitInv == Init => SteadyInv /\ Awaited /\ StatusInv /\ TokenInv
<1> SUFFICES ASSUME Init PROVE SteadyInv /\ Awaited /\ StatusInv /\ TokenInv
  OBVIOUS
<1> USE TimingAssumption, ConstantsAssumption DEF Init, Idle, At
<1>1. TypeOK
  <2>1. Idle \in Request /\ 0 \in Token /\ 0 \in -MaxLate .. Interval
    BY DEF Request, Token
  <2> HIDE DEF Idle
  <2> QED
    BY <2>1 DEF TypeOK, Row, Token
<1>2. SteadyInv /\ Awaited
  BY <1>1 DEF SteadyInv, Awaited
<1>3. StatusInv
  BY DEF StatusInv, Undisturbed, Overlapping, IsOnline
<1>4. TokenInv
  BY DEF TokenInv, HandedTokenAccepted, AdminOps, Contending
<1> QED
  BY <1>2, <1>3, <1>4

\* The age of the stored heartbeat and the time until the next one is stored never add up
\* to more than Interval, Slack and Delay: the loop of Wings, what Docker takes to list the
\* containers before the POST, and the timeout of the POST.  A list that takes longer than
\* Slack, which nothing in the loop prevents, ends the steady time.
THEOREM SteadyBounded == Spec => []SteadyInv
<1>1. Init => SteadyInv /\ Awaited
  BY InitInv
<1>2. SteadyInv /\ Awaited /\ [Next]_vars => SteadyInv' /\ Awaited'
  BY StepSteady, StepAwaited DEF SteadyInv
<1> QED
  BY <1>1, <1>2, PTL DEF Spec

\* A node whose heartbeats all arrive and whose Docker lists the containers within Slack is
\* online without a gap, whatever health checks, updates, token changes and failed writes of
\* processHeartbeat do in between.
THEOREM SteadyIsOnline == Spec => []SteadyNodeOnline
<1>1. SteadyInv => SteadyNodeOnline
  BY TimingAssumption, ConstantsAssumption
  DEF SteadyInv, SteadyNodeOnline, TypeOK, IsOnline, Beat
<1> QED
  BY <1>1, SteadyBounded, PTL

\* The invariants of the columns, each with the typing it rests on.
LEMMA ColumnsInv == Spec => [](TypeOK /\ StatusInv /\ TokenInv)
<1>1. Init => SteadyInv /\ Awaited /\ StatusInv /\ TokenInv
  BY InitInv
<1>2. SteadyInv /\ Awaited /\ StatusInv /\ TokenInv /\ [Next]_vars
        => (SteadyInv /\ Awaited /\ StatusInv /\ TokenInv)'
  <2> SUFFICES ASSUME SteadyInv, Awaited, StatusInv, TokenInv, [Next]_vars
               PROVE  (SteadyInv /\ Awaited /\ StatusInv /\ TokenInv)'
    OBVIOUS
  <2>1. TypeOK /\ TypeOK'
    BY StepTypeOK DEF SteadyInv
  <2> QED
    BY <2>1, StepSteady, StepAwaited, StepStatus, StepToken
<1>3. SteadyInv => TypeOK
  BY DEF SteadyInv
<1> QED
  BY <1>1, <1>2, <1>3, PTL DEF Spec

\* With no handler in progress an online node is CONNECTED, unless since it came online a
\* heartbeat overlapped a health check or an update, or a write failed: the conditional
\* writes of processHeartbeat and getHealth from stale rows do no other harm.
THEOREM StatusAlwaysFollows == Spec => []StatusFollows
<1>1. TypeOK /\ StatusInv => StatusFollows
  <2> SUFFICES ASSUME TypeOK, StatusInv, Quiet, IsOnline, row # None, ~disturbed,
                      row.status # "connected"
               PROVE  FALSE
    BY DEF StatusFollows
  <2>1. PICK r \in Requests : At(r, "heartbeat", "write")
    BY DEF StatusInv, Undisturbed
  <2> QED
    BY <2>1 DEF Quiet, At, Idle
<1> QED
  BY <1>1, ColumnsInv, PTL

\* The token that regenerateToken handed out last is the one the guard accepts, although
\* update saves a whole row that was loaded before, unless administrators have overlapped
\* since it was generated.
THEOREM HandedTokenAlwaysAccepted == Spec => []HandedTokenAccepted
<1>1. TokenInv => HandedTokenAccepted
  BY DEF TokenInv, HandedTokenAccepted
<1> QED
  BY <1>1, ColumnsInv, PTL
=============================================================================
