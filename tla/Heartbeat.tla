----------------------------- MODULE Heartbeat -----------------------------
(***************************************************************************)
(* The control link in time: the settings with their defaults              *)
(* (internal/config/config.go), the heartbeats each end sends and the read *)
(* deadline each end renews with every message (heartbeatLoop and          *)
(* controlLoop of internal/client/client.go, writeLoop and readLoop of     *)
(* internal/server/control.go), and the backoff of runLoop.                *)
(*                                                                         *)
(* Time passes in ticks. A timer holds the ticks it has left; what is due  *)
(* happens before the next tick, in any order. A message takes at most     *)
(* Delay ticks on a working link. A link may lose a direction for good     *)
(* without telling anyone; what is written to it is then lost, and the     *)
(* kernel's keepalive, which takes minutes, comes too late to matter. The  *)
(* server's table of clients has this client's id alone: the connection in *)
(* use, an older one the server still holds, or none.                      *)
(***************************************************************************)
EXTENDS Integers

CONSTANTS
  HeartbeatTimeouts, HeartbeatIntervals, ReconnectIntervals, DialTimeouts,
                        \* BOUND: the settings as written, 0 if left out
  DefaultHeartbeatTO, DefaultHeartbeatIv, DefaultReconnectIv, DefaultDialTO,
  MinServerInterval,    \* one second
  MinReadTimeout,       \* 30 seconds
  MaxReconnectInterval, \* 30 seconds
  StableRunDuration,    \* a minute
  Delay                 \* longest way of a message over a working link

Larger(a, b)  == IF a >= b THEN a ELSE b
Smaller(a, b) == IF a <= b THEN a ELSE b

\* A setting that is missing, zero or negative gets its default.
OrDefault(v, default) == IF v <= 0 THEN default ELSE v

Settings ==
  [hbt  : {OrDefault(v, DefaultHeartbeatTO) : v \in HeartbeatTimeouts},
   iv   : {OrDefault(v, DefaultHeartbeatIv) : v \in HeartbeatIntervals},
   base : {OrDefault(v, DefaultReconnectIv) : v \in ReconnectIntervals},
   dial : {OrDefault(v, DefaultDialTO) : v \in DialTimeouts}]

\* A message arrives before its sender's next one.
ASSUME HeartbeatAssumption ==
  /\ HeartbeatTimeouts \cup HeartbeatIntervals \cup ReconnectIntervals \cup DialTimeouts
       \subseteq Int
  /\ {DefaultHeartbeatTO, DefaultHeartbeatIv, DefaultReconnectIv, DefaultDialTO,
      MinServerInterval, MinReadTimeout, MaxReconnectInterval, StableRunDuration}
       \subseteq Nat \ {0}
  /\ Delay \in Nat
  /\ \A x \in Settings : Delay < x.iv /\ Delay < x.dial /\ Delay < x.hbt \div 3

VARIABLES
  set,       \* the settings both ends run with
  client,    \* progress of runLoop: dial, login, serve, wait, fatal
  cDue,      \* its deadline: of the dial, the login, the next message, the wait
  cTick,     \* the ticker of heartbeatLoop
  backoff,
  ran,       \* age of the attempt, counted up to StableRunDuration
  held,      \* what the server has registered: none, this connection, an old one
  sDue,      \* the read deadline of readLoop
  sTick,     \* the ticker of writeLoop
  toServer,  \* the message on its way from client to server
  toClient,  \* the message on its way from server to client
  toOld,     \* the last message on the old connection
  up, down,  \* the two directions of the connection in use work
  net,       \* a dial reaches the server
  lostFor,   \* history: ticks since the connection in use lost a direction, from 1
  oldLostFor,\* history: the same for the old one
  calm       \* history: ticks without a fault in which the client was not served

clientVars == <<client, cDue, cTick, backoff, ran>>
serverVars == <<held, sDue, sTick>>
lineVars   == <<up, down, net>>
vars == <<set, clientVars, serverVars, toServer, toClient, toOld, lineVars, lostFor,
          oldLostFor, calm>>

Off == -1
Nothing == [what |-> "none", left |-> Off]
Sent(what, works) == IF works THEN [what |-> what, left |-> Delay] ELSE Nothing

ServerInterval == Larger(set.hbt \div 3, MinServerInterval)
ClientReadTimeout == Larger(3 * set.iv, MinReadTimeout)

Init ==
  /\ set \in Settings
  /\ client = "dial" /\ cDue = set.dial /\ cTick = Off /\ backoff = set.base /\ ran = 0
  /\ held = "none" /\ sDue = Off /\ sTick = Off
  /\ toServer = Nothing /\ toClient = Nothing /\ toOld = Nothing
  /\ up = TRUE /\ down = TRUE /\ net = TRUE
  /\ lostFor = 0 /\ oldLostFor = 0 /\ calm = 0

-----------------------------------------------------------------------------
(* Plausible mistakes, each the changed form of the definition it is named *)
(* for; no specification uses them.                                        *)

\* Retry without the limit.
RetryUncapped ==
  /\ backoff' = IF ran >= StableRunDuration THEN set.base ELSE 2 * backoff
  /\ client' = "wait" /\ cDue' = backoff'
  /\ cTick' = Off

\* controlLoop sets its deadline once, before the loop.
ClientHearsOnly ==
  /\ client = "serve" /\ toClient.what = "heartbeat"
  /\ toClient' = Nothing
  /\ UNCHANGED <<set, clientVars, serverVars, toServer, toOld, lineVars, lostFor,
                 oldLostFor, calm>>

\* writeLoop renews the deadline of both directions.
ServerSendsRenews ==
  /\ held = "cur" /\ sTick = 0
  /\ sTick' = ServerInterval /\ sDue' = set.hbt
  /\ toClient' = Sent("heartbeat", down)
  /\ UNCHANGED <<set, clientVars, held, toServer, toOld, lineVars, lostFor, oldLostFor, calm>>

\* client.close leaves the deadline running.
DropKeepsDeadline ==
  /\ held' = "none" /\ sTick' = Off
  /\ toClient' = Sent("fin", down) /\ toServer' = Nothing
  /\ UNCHANGED <<set, clientVars, sDue, toOld, lineVars, lostFor, oldLostFor, calm>>

-----------------------------------------------------------------------------
(* runLoop and connectAndServe                                             *)

Connect ==
  /\ client = "dial" /\ net
  /\ client' = "login" /\ cDue' = set.dial
  /\ toServer' = Sent("login", TRUE)
  /\ UNCHANGED <<set, cTick, backoff, ran, serverVars, toClient, toOld, lineVars, lostFor,
                 oldLostFor, calm>>

\* The next wait: a run of a minute or more resets it, others double it.
Retry ==
  /\ backoff' = IF ran >= StableRunDuration THEN set.base
                ELSE Smaller(2 * backoff, MaxReconnectInterval)
  /\ client' = "wait" /\ cDue' = backoff'
  /\ cTick' = Off

DialFails ==
  /\ client = "dial" /\ ~net
  /\ Retry
  /\ UNCHANGED <<set, ran, serverVars, toServer, toClient, toOld, lineVars, lostFor,
                 oldLostFor, calm>>

WaitEnds ==
  /\ client = "wait" /\ cDue = 0
  /\ client' = "dial" /\ cDue' = set.dial /\ ran' = 0
  /\ UNCHANGED <<set, cTick, backoff, serverVars, toServer, toClient, toOld, lineVars,
                 lostFor, oldLostFor, calm>>

\* The client closes its connection. If the server still has it, it is an
\* old one from now on, and the close is on its way.
Leave ==
  /\ IF held = "cur"
     THEN /\ held' = "old" /\ sTick' = Off /\ oldLostFor' = lostFor
          /\ toOld' = IF up THEN Sent("fin", TRUE) ELSE toServer
     ELSE UNCHANGED <<held, sTick, toOld, oldLostFor>>
  /\ toServer' = Nothing /\ toClient' = Nothing
  /\ up' = TRUE /\ down' = TRUE /\ lostFor' = 0
  /\ UNCHANGED <<set, sDue, net, calm>>

LoginTimesOut == client = "login" /\ cDue = 0 /\ Retry /\ Leave /\ UNCHANGED ran

LoginAnswered ==
  /\ client = "login" /\ toClient.what = "ok"
  /\ client' = "serve" /\ cDue' = ClientReadTimeout /\ cTick' = set.iv
  /\ toClient' = Nothing
  /\ UNCHANGED <<set, backoff, ran, serverVars, toServer, toOld, lineVars, lostFor,
                 oldLostFor, calm>>

\* CodeClientExists: exitOnFatal.
LoginRefused ==
  /\ client = "login" /\ toClient.what = "exists"
  /\ client' = "fatal" /\ cDue' = Off /\ cTick' = Off
  /\ Leave
  /\ UNCHANGED <<backoff, ran>>

-----------------------------------------------------------------------------
(* controlLoop and heartbeatLoop                                           *)

ClientHears ==
  /\ client = "serve" /\ toClient.what = "heartbeat"
  /\ cDue' = ClientReadTimeout
  /\ toClient' = Nothing
  /\ UNCHANGED <<set, client, cTick, backoff, ran, serverVars, toServer, toOld, lineVars,
                 lostFor, oldLostFor, calm>>

ClientSends ==
  /\ client = "serve" /\ cTick = 0
  /\ cTick' = set.iv
  /\ toServer' = Sent("heartbeat", up /\ held = "cur")
  /\ UNCHANGED <<set, client, cDue, backoff, ran, serverVars, toClient, toOld, lineVars,
                 lostFor, oldLostFor, calm>>

\* The read deadline passes, or the server closed.
ClientGivesUp ==
  /\ client = "serve" /\ (cDue = 0 \/ toClient.what = "fin")
  /\ Retry /\ Leave
  /\ UNCHANGED ran

-----------------------------------------------------------------------------
(* The server: registerClient, readLoop, writeLoop.                        *)

ServerLogin ==
  /\ toServer.what = "login"
  /\ toServer' = Nothing
  /\ IF held = "none"
     THEN /\ held' = "cur" /\ sDue' = set.hbt /\ sTick' = ServerInterval
          /\ toClient' = Sent("ok", down)
     ELSE toClient' = Sent("exists", down) /\ UNCHANGED serverVars
  /\ UNCHANGED <<set, clientVars, toOld, lineVars, lostFor, oldLostFor, calm>>

ServerHears ==
  /\ held = "cur" /\ toServer.what = "heartbeat"
  /\ toServer' = Nothing
  /\ sDue' = set.hbt
  /\ UNCHANGED <<set, clientVars, held, sTick, toClient, toOld, lineVars, lostFor,
                 oldLostFor, calm>>

ServerSends ==
  /\ held = "cur" /\ sTick = 0
  /\ sTick' = ServerInterval
  /\ toClient' = Sent("heartbeat", down)
  /\ UNCHANGED <<set, clientVars, held, sDue, toServer, toOld, lineVars, lostFor,
                 oldLostFor, calm>>

\* client.close frees the id and closes the connection.
Drop ==
  /\ held' = "none" /\ sDue' = Off /\ sTick' = Off
  /\ IF held = "cur"
     THEN /\ toClient' = Sent("fin", down) /\ toServer' = Nothing
          /\ UNCHANGED <<toOld, oldLostFor>>
     ELSE /\ toOld' = Nothing /\ oldLostFor' = 0
          /\ UNCHANGED <<toServer, toClient>>
  /\ UNCHANGED <<set, clientVars, lineVars, lostFor, calm>>

ServerGivesUp == held # "none" /\ sDue = 0 /\ Drop

ServerSeesClose == held = "old" /\ toOld.what = "fin" /\ Drop

\* What the client had sent before it left.
ServerHearsOld ==
  /\ held = "old" /\ toOld.what = "heartbeat"
  /\ toOld' = Nothing
  /\ sDue' = set.hbt
  /\ UNCHANGED <<set, clientVars, held, sTick, toServer, toClient, lineVars, lostFor,
                 oldLostFor, calm>>

-----------------------------------------------------------------------------
(* The network                                                             *)

\* What was on its way may still arrive.
LoseDirections(u, d) ==
  /\ up' = (up /\ u) /\ down' = (down /\ d)
  /\ toServer' = toServer \/ (~u /\ toServer' = Nothing)
  /\ toClient' = toClient \/ (~d /\ toClient' = Nothing)
  /\ lostFor' = 1

Lose ==
  /\ client \in {"login", "serve"}
  /\ \E u, d \in BOOLEAN :
       ((up /\ ~u) \/ (down /\ ~d)) /\ LoseDirections(u, d)
  /\ calm' = 0
  /\ UNCHANGED <<set, clientVars, serverVars, toOld, net, oldLostFor>>

LoseOld ==
  /\ toOld.what # "none"
  /\ toOld' = Nothing
  /\ oldLostFor' = 1 /\ calm' = 0
  /\ UNCHANGED <<set, clientVars, serverVars, toServer, toClient, lineVars, lostFor>>

NetDown ==
  /\ net
  /\ net' = FALSE /\ calm' = 0
  /\ IF client \in {"login", "serve"}
     THEN LoseDirections(FALSE, FALSE)
     ELSE UNCHANGED <<up, down, toServer, toClient, lostFor>>
  /\ UNCHANGED <<set, clientVars, serverVars, toOld, oldLostFor>>

NetUp ==
  /\ ~net
  /\ net' = TRUE
  /\ UNCHANGED <<set, clientVars, serverVars, toServer, toClient, toOld, up, down, lostFor,
                 oldLostFor, calm>>

-----------------------------------------------------------------------------
DueNow ==
  \/ 0 \in {cDue, cTick, sDue, sTick, toServer.left, toClient.left, toOld.left}
  \/ client = "dial" /\ net

Less(t) == IF t = Off THEN Off ELSE t - 1
OneLess(m) == [m EXCEPT !.left = Less(@)]
OneMore(n) == IF n = 0 THEN 0 ELSE n + 1

Tick ==
  /\ ~DueNow
  /\ cDue' = Less(cDue) /\ cTick' = Less(cTick)
  /\ sDue' = Less(sDue) /\ sTick' = Less(sTick)
  /\ toServer' = OneLess(toServer) /\ toClient' = OneLess(toClient)
  /\ toOld' = OneLess(toOld)
  /\ ran' = Smaller(ran + 1, StableRunDuration)
  /\ lostFor' = OneMore(lostFor) /\ oldLostFor' = OneMore(oldLostFor)
  /\ calm' = IF net /\ held # "old" /\ client \in {"dial", "login", "wait"}
             THEN calm + 1 ELSE 0
  /\ UNCHANGED <<set, client, backoff, held, lineVars>>

Handlers ==
  \/ Connect \/ DialFails \/ WaitEnds \/ LoginTimesOut \/ LoginAnswered \/ LoginRefused
  \/ ClientHears \/ ClientSends \/ ClientGivesUp
  \/ ServerLogin \/ ServerHears \/ ServerSends \/ ServerGivesUp
  \/ ServerSeesClose \/ ServerHearsOld

Next == Handlers \/ Lose \/ LoseOld \/ NetDown \/ NetUp \/ Tick

Spec == Init /\ [][Next]_vars

-----------------------------------------------------------------------------
Messages(kinds) == {Nothing} \cup [what : kinds, left : 0..Delay]
Timer(limit) == Off..limit
LongestWait == Larger(set.base, MaxReconnectInterval)

\* The values of the link's state: no timer runs longer than it was set for,
\* and no setting is zero.
TypeOK ==
  /\ set \in [hbt : Nat \ {0}, iv : Nat \ {0}, base : Nat \ {0}, dial : Nat \ {0}]
  /\ client \in {"dial", "login", "serve", "wait", "fatal"}
  /\ cDue \in Timer(CASE client = "serve" -> ClientReadTimeout
                      [] client = "wait"  -> LongestWait
                      [] OTHER            -> set.dial)
  /\ cTick \in Timer(set.iv)
  /\ backoff \in 1..LongestWait /\ ran \in 0..StableRunDuration
  /\ held \in {"none", "cur", "old"}
  /\ sDue \in Timer(set.hbt) /\ sTick \in Timer(ServerInterval)
  /\ (held = "none") = (sDue = Off)
  /\ toServer \in Messages({"login", "heartbeat"})
  /\ toClient \in Messages({"ok", "exists", "heartbeat", "fin"})
  /\ toOld \in Messages({"heartbeat", "fin"})
  /\ up \in BOOLEAN /\ down \in BOOLEAN /\ net \in BOOLEAN
  /\ lostFor \in Nat /\ oldLostFor \in Nat /\ calm \in Nat

\* What the settings of the two ends must satisfy together; no code checks it.
\* The client's first heartbeat follows the answer, which is itself on its way.
Compatible ==
  /\ ServerInterval + Delay < ClientReadTimeout
  /\ set.iv + 2 * Delay < set.hbt

Healthy == client = "serve" /\ held = "cur" /\ up /\ down

\* "保证偶发丢包或调度延迟不会误判为断线" (controlReadTimeout), "客户端心跳间隔应小于该值"
\* (readLoop): with compatible settings neither end gives up a link that
\* works, whatever the phase of the two tickers and the way of each message.
HealthyKept == [][Compatible /\ Healthy => Healthy' \/ lostFor' > 0]_vars

\* However a link dies, in one direction or both, in the login or later, both
\* ends are rid of it after the longest of their deadlines and two messages.
LossLimit == Larger(set.dial, Larger(set.hbt, ClientReadTimeout)) + 2 * Delay
LossNoticed == lostFor <= LossLimit + 1 /\ oldLostFor <= LossLimit + 1

\* "断线后按指数退避自动重连" (runLoop): once the network works and the server
\* holds no old connection the client is served again within one timed out
\* dial, the longest wait and one login.
BackSoon == 2 * Delay < set.dial => calm <= set.dial + LongestWait + 2 * Delay

\* "这属于配置冲突而非临时故障" (errClientExists): no other client has this id here,
\* so the client never gives up for good.
FatalOnlyOnConflict == client # "fatal"
=============================================================================
