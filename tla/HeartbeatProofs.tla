--------------------------- MODULE HeartbeatProofs ---------------------------
(***************************************************************************)
(* Proofs about Heartbeat, for any settings, limits and message delay that *)
(* satisfy its assumption.                                                 *)
(***************************************************************************)
EXTENDS Heartbeat, TLAPS

-----------------------------------------------------------------------------
(* The inductive invariant.                                                *)

ToServerKinds == {"login", "heartbeat"}
ToClientKinds == {"ok", "exists", "heartbeat", "fin"}
ToOldKinds    == {"heartbeat", "fin"}

\* The types in a form for arithmetic: what is on its way, and the rest in
\* plain numbers.
Letters ==
  /\ toServer \in Messages(ToServerKinds) /\ toClient \in Messages(ToClientKinds)
  /\ toOld \in Messages(ToOldKinds)

Clocks ==
  /\ client \in {"dial", "login", "serve", "wait", "fatal"}
  /\ held \in {"none", "cur", "old"}
  /\ {cDue, cTick, sDue, sTick} \subseteq Nat \cup {-1}
  /\ cTick <= set.iv /\ sDue <= set.hbt /\ sTick <= ServerInterval
  /\ client = "serve" => cDue <= ClientReadTimeout
  /\ client = "wait" => cDue <= LongestWait
  /\ client \notin {"serve", "wait"} => cDue <= set.dial
  /\ backoff \in Nat \ {0} /\ backoff <= LongestWait
  /\ ran \in Nat /\ ran <= StableRunDuration
  /\ (held = "none") = (sDue = -1)
  /\ up \in BOOLEAN /\ down \in BOOLEAN /\ net \in BOOLEAN
  /\ lostFor \in Nat /\ oldLostFor \in Nat /\ calm \in Nat

\* Which ends are there, what they are doing, and what may be on its way.
Roles ==
  /\ client \notin {"login", "serve"} =>
       held # "cur" /\ toServer.what = "none" /\ toClient.what = "none" /\ up /\ down
  /\ client = "serve" => cTick # Off /\ held # "old"
  /\ (client = "fatal") = (cDue = Off)
  /\ held = "cur" => sTick # Off
  /\ toServer.what = "login" => client = "login" /\ held # "cur"
  /\ toServer.what = "heartbeat" => client = "serve" /\ held = "cur"
  /\ toClient.what = "ok" => client = "login" /\ held = "cur"
  /\ toClient.what = "exists" => client = "login" /\ held # "cur"
  /\ toClient.what = "heartbeat" => client = "serve" /\ held = "cur"
  /\ toClient.what = "fin" => client = "serve" /\ held # "cur"
  /\ client = "serve" /\ down /\ held # "cur" => toClient.what = "fin"
  /\ client = "login" /\ down /\ held = "cur" => toClient.what = "ok"
  /\ client = "login" /\ up /\ down /\ held # "cur" =>
       toServer.what = "login" \/ toClient.what = "exists"
  /\ (lostFor = 0) = (up /\ down)
  /\ held # "old" => toOld.what = "none" /\ oldLostFor = 0

\* A message is heard before its sender's next one, and the answer to a login
\* long before the server's deadline.
Paced ==
  /\ toClient.what \in {"ok", "heartbeat"} => toClient.left < sTick
  /\ toServer.what = "heartbeat" => toServer.left < cTick
  /\ toClient.what = "ok" => set.hbt + toClient.left <= sDue + Delay

\* Each end has more time than the next message needs.
InTime ==
  Compatible /\ Healthy =>
    /\ IF toClient.what = "none" THEN sTick + Delay < cDue ELSE toClient.left < cDue
    /\ IF toServer.what = "none" THEN cTick + Delay < sDue ELSE toServer.left < sDue

\* A direction that is lost brings nothing new: after what was on its way the
\* deadlines only run down.
Fading ==
  /\ ~down =>
       /\ toClient.what # "none" => lostFor + toClient.left <= 1 + Delay
       /\ toClient.what = "none" /\ client = "serve" =>
            lostFor + cDue <= 1 + Delay + ClientReadTimeout
  /\ ~up =>
       /\ toServer.what # "none" => lostFor + toServer.left <= 1 + Delay
       /\ toServer.what = "none" /\ held = "cur" => lostFor + sDue <= 1 + Delay + set.hbt
       /\ down /\ toClient.what = "fin" =>
            lostFor + toClient.left <= 1 + 2 * Delay + set.hbt
  /\ client = "login" /\ lostFor > 0 => lostFor + cDue <= 1 + set.dial

\* The same for the connection the client has left.
OldFading ==
  held = "old" =>
    CASE toOld.what = "fin"       -> oldLostFor + toOld.left <= 1 + LossLimit
      [] toOld.what = "heartbeat" -> oldLostFor + toOld.left <= 1 + Delay
      [] OTHER                    -> oldLostFor + sDue <= 1 + Delay + set.hbt

\* Where the client is on its way back.
SoonLimit == set.dial + LongestWait + 2 * Delay

OnTheWay ==
  2 * Delay < set.dial =>
    /\ ~net => calm = 0
    /\ client = "dial" => calm <= set.dial + LongestWait
    /\ client = "wait" => calm + cDue <= set.dial + LongestWait
    /\ client = "fatal" => calm <= SoonLimit
    /\ client = "serve" /\ calm > set.dial =>
         lostFor = 0 /\ held = "cur" /\ 0 < cDue /\ 0 < sDue /\ calm <= SoonLimit
    /\ client = "login" /\ lostFor > 0 => calm + cDue <= set.dial
    /\ client = "login" /\ lostFor = 0 =>
         /\ toServer.what = "login" => /\ calm + toServer.left + Delay <= SoonLimit
                                       /\ toServer.left + set.dial <= cDue + Delay
         /\ toClient.what \in {"ok", "exists"} => /\ calm + toClient.left <= SoonLimit
                                                  /\ toClient.left < cDue

Typed == set \in Settings /\ Letters /\ Clocks
Lasting == Roles /\ Paced /\ InTime /\ Fading /\ OldFading /\ OnTheWay
IInv == Typed /\ Lasting

-----------------------------------------------------------------------------
(* The settings and the messages.                                          *)

\* No setting is zero, and a message arrives well before any deadline.
LEMMA SetFacts ==
  ASSUME set \in Settings
  PROVE  /\ set \in [hbt : Nat \ {0}, iv : Nat \ {0}, base : Nat \ {0}, dial : Nat \ {0}]
         /\ Delay \in Nat /\ Delay < set.iv /\ Delay < set.dial /\ 3 * Delay < set.hbt
         /\ ServerInterval \in Nat /\ Delay < ServerInterval
         /\ ClientReadTimeout \in Nat /\ Delay < ClientReadTimeout
         /\ LongestWait \in Nat \ {0} /\ set.base <= LongestWait
         /\ MaxReconnectInterval \in Nat \ {0} /\ MaxReconnectInterval <= LongestWait
         /\ StableRunDuration \in Nat \ {0}
<1> USE HeartbeatAssumption
<1>1. ASSUME NEW v \in Int, NEW d \in Nat \ {0} PROVE OrDefault(v, d) \in Nat \ {0}
  BY DEF OrDefault
<1>2. set \in [hbt : Nat \ {0}, iv : Nat \ {0}, base : Nat \ {0}, dial : Nat \ {0}]
  <2>1. /\ {OrDefault(v, DefaultHeartbeatTO) : v \in HeartbeatTimeouts} \subseteq Nat \ {0}
        /\ {OrDefault(v, DefaultHeartbeatIv) : v \in HeartbeatIntervals} \subseteq Nat \ {0}
        /\ {OrDefault(v, DefaultReconnectIv) : v \in ReconnectIntervals} \subseteq Nat \ {0}
        /\ {OrDefault(v, DefaultDialTO) : v \in DialTimeouts} \subseteq Nat \ {0}
    BY <1>1
  <2> QED
    BY <2>1 DEF Settings
<1>3. Delay \in Nat /\ Delay < set.iv /\ Delay < set.dial /\ Delay < set.hbt \div 3
  OBVIOUS
<1>4. 3 * Delay < set.hbt
  BY <1>2, <1>3
<1>5. ServerInterval \in Nat /\ Delay < ServerInterval
  BY <1>2, <1>3 DEF ServerInterval, Larger
<1>6. ClientReadTimeout \in Nat /\ Delay < ClientReadTimeout
  BY <1>2, <1>3 DEF ClientReadTimeout, Larger
<1>7. /\ LongestWait \in Nat \ {0} /\ set.base <= LongestWait
      /\ MaxReconnectInterval \in Nat \ {0} /\ MaxReconnectInterval <= LongestWait
  BY <1>2 DEF LongestWait, Larger
<1> QED
  BY <1>2, <1>3, <1>4, <1>5, <1>6, <1>7

LEMMA MessageFacts ==
  ASSUME NEW K, "none" \notin K, NEW m \in Messages(K)
  PROVE  \/ m = Nothing /\ m.what = "none" /\ m.left = Off
         \/ m.what \in K /\ m.left \in 0..Delay /\ m.what # "none"
  BY DEF Messages, Nothing

LEMMA SentFacts ==
  ASSUME NEW w, NEW b
  PROVE  /\ Sent(w, b).what = IF b THEN w ELSE "none"
         /\ Sent(w, b).left = IF b THEN Delay ELSE Off
         /\ ~b => Sent(w, b) = Nothing
         /\ b /\ Delay \in Nat => \A K : w \in K => Sent(w, b) \in Messages(K)
  BY DEF Sent, Nothing, Messages

\* A tick takes one from every timer and message that runs, and none was due.
LEMMA OneLessFacts ==
  ASSUME NEW K, "none" \notin K, NEW m \in Messages(K), m.left # 0, Delay \in Nat
  PROVE  /\ OneLess(m).what = m.what /\ OneLess(m) \in Messages(K)
         /\ OneLess(m).left = IF m.what = "none" THEN Off ELSE m.left - 1
<1>1. CASE m = Nothing
  BY <1>1 DEF OneLess, Less, Nothing, Messages, Off
<1>2. CASE m \in [what : K, left : 0..Delay]
  <2>1. m.left - 1 \in 0..Delay /\ m.left # Off
    BY <1>2 DEF Off
  <2>2. OneLess(m) = [m EXCEPT !.left = m.left - 1]
    BY <2>1 DEF OneLess, Less
  <2> QED
    BY <1>2, <2>1, <2>2 DEF Messages
<1> QED
  BY <1>1, <1>2 DEF Messages


-----------------------------------------------------------------------------
(* The types.                                                              *)

LEMMA TypedIsTypeOK == Typed => TypeOK
<1> SUFFICES ASSUME Typed PROVE TypeOK
  OBVIOUS
<1>1. /\ set \in [hbt : Nat \ {0}, iv : Nat \ {0}, base : Nat \ {0}, dial : Nat \ {0}]
      /\ set.iv \in Nat /\ set.hbt \in Nat /\ set.dial \in Nat /\ ServerInterval \in Nat
      /\ ClientReadTimeout \in Nat /\ LongestWait \in Nat /\ StableRunDuration \in Nat
  BY SetFacts DEF Typed
<1>2. Letters /\ Clocks
  BY DEF Typed
<1>3. ASSUME NEW n \in Nat, NEW x \in Nat \cup {-1}, x <= n PROVE x \in Timer(n)
  BY <1>3 DEF Timer, Off
<1>4. cTick \in Timer(set.iv) /\ sDue \in Timer(set.hbt) /\ sTick \in Timer(ServerInterval)
  BY <1>1, <1>2, <1>3 DEF Clocks
<1>5. cDue \in Timer(CASE client = "serve" -> ClientReadTimeout
                      [] client = "wait"  -> LongestWait
                      [] OTHER            -> set.dial)
  <2>1. CASE client = "serve"
    BY <1>1, <1>2, <1>3, <2>1 DEF Clocks
  <2>2. CASE client = "wait"
    BY <1>1, <1>2, <1>3, <2>2 DEF Clocks
  <2>3. CASE client \notin {"serve", "wait"}
    BY <1>1, <1>2, <1>3, <2>3 DEF Clocks
  <2> QED
    BY <2>1, <2>2, <2>3
<1>6. backoff \in 1..LongestWait /\ ran \in 0..StableRunDuration
  BY <1>1, <1>2 DEF Clocks
<1> QED
  BY <1>1, <1>2, <1>4, <1>5, <1>6
  DEF TypeOK, Letters, Clocks, ToServerKinds, ToClientKinds, ToOldKinds, Off

\* The same of the three messages, in plain values.
Ways ==
  /\ toServer.what \in {"none", "login", "heartbeat"}
  /\ toServer.left \in Nat \cup {-1} /\ toServer.left <= Delay
  /\ (toServer.what = "none") = (toServer.left = -1)
  /\ toClient.what \in {"none", "ok", "exists", "heartbeat", "fin"}
  /\ toClient.left \in Nat \cup {-1} /\ toClient.left <= Delay
  /\ (toClient.what = "none") = (toClient.left = -1)
  /\ toOld.what \in {"none", "heartbeat", "fin"}
  /\ toOld.left \in Nat \cup {-1} /\ toOld.left <= Delay
  /\ (toOld.what = "none") = (toOld.left = -1)

LEMMA LettersWays == Letters => Ways
<1> SUFFICES ASSUME Letters PROVE Ways
  OBVIOUS
<1>1. Delay \in Nat
  BY HeartbeatAssumption
<1>2. ASSUME NEW K, "none" \notin K, NEW m \in Messages(K)
      PROVE  /\ m.what \in K \cup {"none"} /\ m.left \in Nat \cup {-1} /\ m.left <= Delay
             /\ (m.what = "none") = (m.left = -1)
  <2>1. \/ m.what = "none" /\ m.left = -1
        \/ m.what \in K /\ m.left \in 0..Delay /\ m.what # "none"
    BY <1>2, MessageFacts DEF Off
  <2> QED
    BY <1>1, <2>1
<1>3. "none" \notin ToServerKinds /\ "none" \notin ToClientKinds /\ "none" \notin ToOldKinds
  BY DEF ToServerKinds, ToClientKinds, ToOldKinds
<1>4. /\ toServer.what \in ToServerKinds \cup {"none"}
      /\ toServer.left \in Nat \cup {-1} /\ toServer.left <= Delay
      /\ (toServer.what = "none") = (toServer.left = -1)
  BY <1>2, <1>3 DEF Letters
<1>5. /\ toClient.what \in ToClientKinds \cup {"none"}
      /\ toClient.left \in Nat \cup {-1} /\ toClient.left <= Delay
      /\ (toClient.what = "none") = (toClient.left = -1)
  BY <1>2, <1>3 DEF Letters
<1>6. /\ toOld.what \in ToOldKinds \cup {"none"}
      /\ toOld.left \in Nat \cup {-1} /\ toOld.left <= Delay
      /\ (toOld.what = "none") = (toOld.left = -1)
  BY <1>2, <1>3 DEF Letters
<1> QED
  BY <1>4, <1>5, <1>6 DEF Ways, ToServerKinds, ToClientKinds, ToOldKinds

\* The settings and what follows from them stay.
LEMMA SetStep ==
  [Next]_vars =>
    UNCHANGED <<set, ServerInterval, ClientReadTimeout, LongestWait, LossLimit>>
<1> SUFFICES ASSUME [Next]_vars PROVE set' = set
  BY DEF ServerInterval, ClientReadTimeout, LongestWait, LossLimit
<1> QED
  BY DEF Next, Handlers, vars, Connect, DialFails, WaitEnds, LoginTimesOut, LoginAnswered,
     LoginRefused, ClientHears, ClientSends, ClientGivesUp, ServerLogin, ServerHears,
     ServerSends, ServerGivesUp, ServerSeesClose, ServerHearsOld, Lose, LoseOld, NetDown,
     NetUp, Tick, Leave, Drop

-----------------------------------------------------------------------------
(* The parts the actions share.                                            *)

LEMMA Building ==
  /\ \A K : Nothing \in Messages(K)
  /\ \A b : \A w \in ToServerKinds : Sent(w, b) \in Messages(ToServerKinds)
  /\ \A b : \A w \in ToClientKinds : Sent(w, b) \in Messages(ToClientKinds)
  /\ \A b : \A w \in ToOldKinds : Sent(w, b) \in Messages(ToOldKinds)
  /\ "login" \in ToServerKinds /\ "heartbeat" \in ToServerKinds
  /\ {"ok", "exists", "heartbeat", "fin"} \subseteq ToClientKinds
  /\ {"heartbeat", "fin"} \subseteq ToOldKinds
<1>1. \A K : Nothing \in Messages(K)
  BY DEF Messages
<1>2. Delay \in Nat
  BY HeartbeatAssumption
<1>3. \A K, w, b : w \in K => Sent(w, b) \in Messages(K)
  BY <1>1, <1>2, SentFacts
<1> QED
  BY <1>1, <1>3 DEF ToServerKinds, ToClientKinds, ToOldKinds

\* What is left behind when the client closes its connection.
LEMMA LeaveFacts ==
  ASSUME Leave
  PROVE  /\ held' = IF held = "cur" THEN "old" ELSE held
         /\ sTick' = IF held = "cur" THEN -1 ELSE sTick
         /\ oldLostFor' = IF held = "cur" THEN lostFor ELSE oldLostFor
         /\ toServer' = Nothing /\ toClient' = Nothing
         /\ toServer'.what = "none" /\ toClient'.what = "none"
         /\ toOld' = IF held = "cur" THEN IF up THEN Sent("fin", TRUE) ELSE toServer
                     ELSE toOld
         /\ toOld'.what = IF held = "cur" THEN IF up THEN "fin" ELSE toServer.what
                          ELSE toOld.what
         /\ toOld'.left = IF held = "cur" THEN IF up THEN Delay ELSE toServer.left
                          ELSE toOld.left
         /\ up' = TRUE /\ down' = TRUE /\ lostFor' = 0
         /\ UNCHANGED <<set, sDue, net, calm>>
<1>1. CASE held = "cur"
  BY <1>1 DEF Leave, Sent, Nothing, Off
<1>2. CASE held # "cur"
  BY <1>2 DEF Leave, Sent, Nothing, Off
<1> QED
  BY <1>1, <1>2

LEMMA DropFacts ==
  ASSUME Drop
  PROVE  /\ held' = "none" /\ sDue' = -1 /\ sTick' = -1
         /\ toServer' = IF held = "cur" THEN Nothing ELSE toServer
         /\ toServer'.what = IF held = "cur" THEN "none" ELSE toServer.what
         /\ toClient' = IF held = "cur" THEN Sent("fin", down) ELSE toClient
         /\ toClient'.what = IF held = "cur" THEN IF down THEN "fin" ELSE "none"
                             ELSE toClient.what
         /\ toClient'.left = IF held = "cur" THEN IF down THEN Delay ELSE -1
                             ELSE toClient.left
         /\ toOld' = IF held = "cur" THEN toOld ELSE Nothing
         /\ toOld'.what = IF held = "cur" THEN toOld.what ELSE "none"
         /\ oldLostFor' = IF held = "cur" THEN oldLostFor ELSE 0
         /\ UNCHANGED <<set, client, cDue, cTick, backoff, ran, up, down, net, lostFor, calm>>
<1>1. CASE held = "cur"
  BY <1>1 DEF Drop, Sent, Nothing, Off, clientVars, lineVars
<1>2. CASE held # "cur"
  BY <1>2 DEF Drop, Sent, Nothing, Off, clientVars, lineVars
<1> QED
  BY <1>1, <1>2

LEMMA RetryFacts ==
  ASSUME Typed, Retry
  PROVE  /\ client' = "wait" /\ cDue' = backoff' /\ cTick' = -1
         /\ backoff' \in Nat \ {0} /\ backoff' <= LongestWait
<1>1. /\ set.base \in Nat \ {0} /\ set.base <= LongestWait /\ LongestWait \in Nat \ {0}
      /\ MaxReconnectInterval \in Nat \ {0} /\ MaxReconnectInterval <= LongestWait
  BY SetFacts DEF Typed
<1>2. backoff \in Nat \ {0}
  BY DEF Typed, Clocks
<1> QED
  BY <1>1, <1>2 DEF Retry, Smaller, Off

LEMMA LoseFacts ==
  ASSUME NEW u \in BOOLEAN, NEW d \in BOOLEAN, LoseDirections(u, d)
  PROVE  /\ up' = (up /\ u) /\ down' = (down /\ d) /\ lostFor' = 1
         /\ toServer' = toServer \/ (~u /\ toServer' = Nothing /\ toServer'.what = "none")
         /\ toClient' = toClient \/ (~d /\ toClient' = Nothing /\ toClient'.what = "none")
<1>1. toServer' = toServer \/ (~u /\ toServer' = Nothing)
  BY DEF LoseDirections
<1>2. toClient' = toClient \/ (~d /\ toClient' = Nothing)
  BY DEF LoseDirections
<1> QED
  BY <1>1, <1>2 DEF LoseDirections, Nothing

LEMMA LessFacts ==
  \A x \in Nat \cup {-1} : x # 0 =>
    /\ Less(x) \in Nat \cup {-1} /\ Less(x) <= x
    /\ Less(x) = IF x = -1 THEN -1 ELSE x - 1
  BY DEF Less, Off

\* No timer has run out when time passes, and each that runs loses one tick.
LEMMA TickFacts ==
  ASSUME Typed, Tick
  PROVE  /\ cDue # 0 /\ cDue' = IF cDue = -1 THEN -1 ELSE cDue - 1
         /\ cTick # 0 /\ cTick' = IF cTick = -1 THEN -1 ELSE cTick - 1
         /\ sDue # 0 /\ sDue' = IF sDue = -1 THEN -1 ELSE sDue - 1
         /\ sTick # 0 /\ sTick' = IF sTick = -1 THEN -1 ELSE sTick - 1
         /\ toServer.left # 0 /\ toServer' \in Messages(ToServerKinds)
         /\ toServer'.what = toServer.what
         /\ toServer'.left = IF toServer.what = "none" THEN -1 ELSE toServer.left - 1
         /\ toClient.left # 0 /\ toClient' \in Messages(ToClientKinds)
         /\ toClient'.what = toClient.what
         /\ toClient'.left = IF toClient.what = "none" THEN -1 ELSE toClient.left - 1
         /\ toOld.left # 0 /\ toOld' \in Messages(ToOldKinds)
         /\ toOld'.what = toOld.what
         /\ toOld'.left = IF toOld.what = "none" THEN -1 ELSE toOld.left - 1
         /\ ran' \in Nat /\ ran' <= StableRunDuration
         /\ lostFor' = (IF lostFor = 0 THEN 0 ELSE lostFor + 1)
         /\ oldLostFor' = (IF oldLostFor = 0 THEN 0 ELSE oldLostFor + 1)
         /\ calm' = (IF net /\ held # "old" /\ client \in {"dial", "login", "wait"}
                     THEN calm + 1 ELSE 0)
         /\ ~(client = "dial" /\ net)
         /\ UNCHANGED <<set, client, backoff, held, up, down, net>>
<1>1. /\ 0 \notin {cDue, cTick, sDue, sTick, toServer.left, toClient.left, toOld.left}
      /\ ~(client = "dial" /\ net)
  BY DEF Tick, DueNow
<1>2. cDue \in Nat \cup {-1} /\ cTick \in Nat \cup {-1} /\ sDue \in Nat \cup {-1}
      /\ sTick \in Nat \cup {-1} /\ ran \in Nat /\ Letters
  BY DEF Typed, Clocks
<1>3. /\ cDue' = Less(cDue) /\ cTick' = Less(cTick) /\ sDue' = Less(sDue)
      /\ sTick' = Less(sTick) /\ toServer' = OneLess(toServer)
      /\ toClient' = OneLess(toClient) /\ toOld' = OneLess(toOld)
      /\ ran' = Smaller(ran + 1, StableRunDuration)
      /\ lostFor' = OneMore(lostFor) /\ oldLostFor' = OneMore(oldLostFor)
      /\ calm' = (IF net /\ held # "old" /\ client \in {"dial", "login", "wait"}
                  THEN calm + 1 ELSE 0)
      /\ UNCHANGED <<set, client, backoff, held, up, down, net>>
  BY DEF Tick, lineVars
<1>4. /\ cDue' = IF cDue = -1 THEN -1 ELSE cDue - 1
      /\ cTick' = IF cTick = -1 THEN -1 ELSE cTick - 1
      /\ sDue' = IF sDue = -1 THEN -1 ELSE sDue - 1
      /\ sTick' = IF sTick = -1 THEN -1 ELSE sTick - 1
  BY <1>1, <1>2, <1>3, LessFacts
<1>5. "none" \notin ToServerKinds /\ "none" \notin ToClientKinds /\ "none" \notin ToOldKinds
  BY DEF ToServerKinds, ToClientKinds, ToOldKinds
<1>6. Delay \in Nat
  BY HeartbeatAssumption
<1>7. /\ toServer' \in Messages(ToServerKinds) /\ toServer'.what = toServer.what
      /\ toServer'.left = IF toServer.what = "none" THEN -1 ELSE toServer.left - 1
  <2>1. toServer \in Messages(ToServerKinds) /\ toServer.left # 0
    BY <1>1, <1>2 DEF Letters
  <2> QED
    BY <1>3, <1>5, <1>6, <2>1, OneLessFacts DEF Off
<1>8. /\ toClient' \in Messages(ToClientKinds) /\ toClient'.what = toClient.what
      /\ toClient'.left = IF toClient.what = "none" THEN -1 ELSE toClient.left - 1
  <2>1. toClient \in Messages(ToClientKinds) /\ toClient.left # 0
    BY <1>1, <1>2 DEF Letters
  <2> QED
    BY <1>3, <1>5, <1>6, <2>1, OneLessFacts DEF Off
<1>9. /\ toOld' \in Messages(ToOldKinds) /\ toOld'.what = toOld.what
      /\ toOld'.left = IF toOld.what = "none" THEN -1 ELSE toOld.left - 1
  <2>1. toOld \in Messages(ToOldKinds) /\ toOld.left # 0
    BY <1>1, <1>2 DEF Letters
  <2> QED
    BY <1>3, <1>5, <1>6, <2>1, OneLessFacts DEF Off
<1>10. ran' \in Nat /\ ran' <= StableRunDuration
  <2>1. StableRunDuration \in Nat
    BY HeartbeatAssumption
  <2> QED
    BY <1>2, <1>3, <2>1 DEF Smaller
<1>11. /\ lostFor' = (IF lostFor = 0 THEN 0 ELSE lostFor + 1)
       /\ oldLostFor' = (IF oldLostFor = 0 THEN 0 ELSE oldLostFor + 1)
  BY <1>3 DEF OneMore
<1> QED
  BY <1>1, <1>3, <1>4, <1>7, <1>8, <1>9, <1>10, <1>11

-----------------------------------------------------------------------------
(* What every step has to work with: the invariant, the types after the    *)
(* step, and the settings.                                                 *)

Numbers ==
  /\ set.iv \in Nat \ {0} /\ set.hbt \in Nat \ {0} /\ set.dial \in Nat \ {0}
  /\ ServerInterval \in Nat /\ ClientReadTimeout \in Nat /\ LongestWait \in Nat
  /\ Delay \in Nat /\ Delay < set.iv /\ Delay < set.dial /\ 3 * Delay < set.hbt
  /\ Delay < ServerInterval /\ Delay < ClientReadTimeout
  /\ StableRunDuration \in Nat
  /\ LossLimit \in Nat /\ set.dial + 2 * Delay <= LossLimit
  /\ set.hbt + 2 * Delay <= LossLimit /\ ClientReadTimeout + 2 * Delay <= LossLimit

LEMMA NumbersHold == ASSUME set \in Settings PROVE Numbers
<1>1. LossLimit \in Nat /\ set.dial + 2 * Delay <= LossLimit
      /\ set.hbt + 2 * Delay <= LossLimit /\ ClientReadTimeout + 2 * Delay <= LossLimit
  BY SetFacts DEF LossLimit, Larger
<1> QED
  BY <1>1, SetFacts DEF Numbers

Around ==
  /\ Numbers /\ Clocks /\ Ways /\ Lasting
  /\ UNCHANGED <<set, ServerInterval, ClientReadTimeout, LongestWait, LossLimit>>

LEMMA AroundHolds == IInv /\ [Next]_vars => Around
<1> SUFFICES ASSUME IInv, [Next]_vars PROVE Around
  OBVIOUS
<1>1. Typed /\ Lasting /\ set \in Settings /\ Letters /\ Clocks
  BY DEF IInv, Typed
<1> QED
  BY <1>1, NumbersHold, LettersWays, SetStep DEF Around

-----------------------------------------------------------------------------
(* The actions.                                                            *)

LEMMA ConnectStep == Typed /\ Around /\ Connect => Letters' /\ Clocks' /\ Lasting'
<1> SUFFICES ASSUME Typed, Around, Connect PROVE Letters' /\ Clocks' /\ Lasting'
  OBVIOUS
<1>0. Numbers /\ Clocks /\ Ways /\ Roles /\ Paced /\ InTime /\ Fading /\ OldFading /\ OnTheWay
      /\ UNCHANGED <<set, ServerInterval, ClientReadTimeout, LongestWait, LossLimit>>
  BY DEF Around, Lasting
<1>1. /\ client = "dial" /\ net /\ client' = "login" /\ cDue' = set.dial
      /\ toServer'.what = "login" /\ toServer'.left = Delay
      /\ UNCHANGED <<cTick, backoff, ran, held, sDue, sTick, toClient, toOld, up, down,
                    net, lostFor, oldLostFor, calm>>
  BY DEF Connect, Sent, Nothing, Off, clientVars, serverVars, lineVars
<1>2. Letters'
  BY Building DEF Connect, Typed, Letters, clientVars, serverVars, lineVars
<1>3. Clocks'
  BY <1>0, <1>1 DEF Numbers, Clocks, Roles, Off
<1>4. Ways'
  BY <1>2, LettersWays, PTL
<1>5. Roles'
  BY <1>0, <1>1, <1>3, <1>4 DEF Numbers, Clocks, Ways, Roles, Paced, Off
<1>6. Paced'
  BY <1>0, <1>1, <1>3, <1>4 DEF Numbers, Clocks, Ways, Paced, Roles, Off
<1>7. InTime'
  BY <1>0, <1>1, <1>3, <1>4 DEF Numbers, Clocks, Ways, InTime, Paced, Roles, Compatible, Healthy, Off
<1>8. Fading'
  BY <1>0, <1>1, <1>3, <1>4 DEF Numbers, Clocks, Ways, Fading, Paced, Roles, Off
<1>9. OldFading'
  BY <1>0, <1>1, <1>3, <1>4 DEF Numbers, Clocks, Ways, OldFading, Fading, Roles, Off
<1>10. OnTheWay'
  BY <1>0, <1>1, <1>3, <1>4 DEF Numbers, Clocks, Ways, OnTheWay, Paced, Roles, SoonLimit, Off
<1> QED
  BY <1>2, <1>3, <1>5, <1>6, <1>7, <1>8, <1>9, <1>10 DEF Lasting

LEMMA DialFailsStep == Typed /\ Around /\ DialFails => Letters' /\ Clocks' /\ Lasting'
<1> SUFFICES ASSUME Typed, Around, DialFails PROVE Letters' /\ Clocks' /\ Lasting'
  OBVIOUS
<1>0. Numbers /\ Clocks /\ Ways /\ Roles /\ Paced /\ InTime /\ Fading /\ OldFading /\ OnTheWay
      /\ UNCHANGED <<set, ServerInterval, ClientReadTimeout, LongestWait, LossLimit>>
  BY DEF Around, Lasting
<1>1. /\ client = "dial" /\ ~net
      /\ client' = "wait" /\ cDue' = backoff' /\ cTick' = -1 /\ backoff' \in Nat \ {0}
      /\ backoff' <= LongestWait
      /\ UNCHANGED <<ran, held, sDue, sTick, toServer, toClient, toOld, up, down, net,
                    lostFor, oldLostFor, calm>>
  BY RetryFacts DEF DialFails, Sent, Nothing, Off, clientVars, serverVars, lineVars
<1>2. Letters'
  BY Building DEF DialFails, Typed, Letters, clientVars, serverVars, lineVars
<1>3. Clocks'
  BY <1>0, <1>1 DEF Numbers, Clocks, Roles, Off
<1>4. Ways'
  BY <1>2, LettersWays, PTL
<1>5. Roles'
  BY <1>0, <1>1, <1>3, <1>4 DEF Numbers, Clocks, Ways, Roles, Paced, Off
<1>6. Paced'
  BY <1>0, <1>1, <1>3, <1>4 DEF Numbers, Clocks, Ways, Paced, Roles, Off
<1>7. InTime'
  BY <1>0, <1>1, <1>3, <1>4 DEF Numbers, Clocks, Ways, InTime, Paced, Roles, Compatible, Healthy, Off
<1>8. Fading'
  BY <1>0, <1>1, <1>3, <1>4 DEF Numbers, Clocks, Ways, Fading, Paced, Roles, Off
<1>9. OldFading'
  BY <1>0, <1>1, <1>3, <1>4 DEF Numbers, Clocks, Ways, OldFading, Fading, Roles, Off
<1>10. OnTheWay'
  BY <1>0, <1>1, <1>3, <1>4 DEF Numbers, Clocks, Ways, OnTheWay, Paced, Roles, SoonLimit, Off
<1> QED
  BY <1>2, <1>3, <1>5, <1>6, <1>7, <1>8, <1>9, <1>10 DEF Lasting

LEMMA WaitEndsStep == Typed /\ Around /\ WaitEnds => Letters' /\ Clocks' /\ Lasting'
<1> SUFFICES ASSUME Typed, Around, WaitEnds PROVE Letters' /\ Clocks' /\ Lasting'
  OBVIOUS
<1>0. Numbers /\ Clocks /\ Ways /\ Roles /\ Paced /\ InTime /\ Fading /\ OldFading /\ OnTheWay
      /\ UNCHANGED <<set, ServerInterval, ClientReadTimeout, LongestWait, LossLimit>>
  BY DEF Around, Lasting
<1>1. /\ client = "wait" /\ cDue = 0 /\ client' = "dial" /\ cDue' = set.dial /\ ran' = 0
      /\ UNCHANGED <<cTick, backoff, held, sDue, sTick, toServer, toClient, toOld, up,
                    down, net, lostFor, oldLostFor, calm>>
  BY DEF WaitEnds, Sent, Nothing, Off, clientVars, serverVars, lineVars
<1>2. Letters'
  BY Building DEF WaitEnds, Typed, Letters, clientVars, serverVars, lineVars
<1>3. Clocks'
  BY <1>0, <1>1 DEF Numbers, Clocks, Roles, Off
<1>4. Ways'
  BY <1>2, LettersWays, PTL
<1>5. Roles'
  BY <1>0, <1>1, <1>3, <1>4 DEF Numbers, Clocks, Ways, Roles, Paced, Off
<1>6. Paced'
  BY <1>0, <1>1, <1>3, <1>4 DEF Numbers, Clocks, Ways, Paced, Roles, Off
<1>7. InTime'
  BY <1>0, <1>1, <1>3, <1>4 DEF Numbers, Clocks, Ways, InTime, Paced, Roles, Compatible, Healthy, Off
<1>8. Fading'
  BY <1>0, <1>1, <1>3, <1>4 DEF Numbers, Clocks, Ways, Fading, Paced, Roles, Off
<1>9. OldFading'
  BY <1>0, <1>1, <1>3, <1>4 DEF Numbers, Clocks, Ways, OldFading, Fading, Roles, Off
<1>10. OnTheWay'
  BY <1>0, <1>1, <1>3, <1>4 DEF Numbers, Clocks, Ways, OnTheWay, Paced, Roles, SoonLimit, Off
<1> QED
  BY <1>2, <1>3, <1>5, <1>6, <1>7, <1>8, <1>9, <1>10 DEF Lasting

LEMMA LoginTimesOutStep == Typed /\ Around /\ LoginTimesOut => Letters' /\ Clocks' /\ Lasting'
<1> SUFFICES ASSUME Typed, Around, LoginTimesOut PROVE Letters' /\ Clocks' /\ Lasting'
  OBVIOUS
<1>0. Numbers /\ Clocks /\ Ways /\ Roles /\ Paced /\ InTime /\ Fading /\ OldFading /\ OnTheWay
      /\ UNCHANGED <<set, ServerInterval, ClientReadTimeout, LongestWait, LossLimit>>
  BY DEF Around, Lasting
<1>1. /\ client = "login" /\ cDue = 0
      /\ client' = "wait" /\ cDue' = backoff' /\ cTick' = -1 /\ backoff' \in Nat \ {0}
      /\ backoff' <= LongestWait
      /\ held' = IF held = "cur" THEN "old" ELSE held
      /\ sTick' = IF held = "cur" THEN -1 ELSE sTick
      /\ oldLostFor' = IF held = "cur" THEN lostFor ELSE oldLostFor
      /\ toServer'.what = "none" /\ toClient'.what = "none"
      /\ toOld'.what = IF held = "cur" THEN IF up THEN "fin" ELSE toServer.what ELSE toOld.what
      /\ toOld'.left = IF held = "cur" THEN IF up THEN Delay ELSE toServer.left ELSE toOld.left
      /\ up' = TRUE /\ down' = TRUE /\ lostFor' = 0
      /\ UNCHANGED <<ran, sDue, net, calm>>
  BY RetryFacts, LeaveFacts DEF LoginTimesOut, Sent, Nothing, Off, clientVars, serverVars, lineVars
<1>2. Letters'
  <2>1. held = "cur" /\ ~up => toServer \in Messages(ToOldKinds)
    BY <1>0 DEF Typed, Letters, Roles, Messages, ToServerKinds, ToOldKinds, Nothing
  <2> QED
    BY <2>1, Building, LeaveFacts DEF LoginTimesOut, Typed, Letters
<1>3. Clocks'
  BY <1>0, <1>1 DEF Numbers, Clocks, Roles, Off
<1>4. Ways'
  BY <1>2, LettersWays, PTL
<1>5. Roles'
  BY <1>0, <1>1, <1>3, <1>4 DEF Numbers, Clocks, Ways, Roles, Paced, Off
<1>6. Paced'
  BY <1>0, <1>1, <1>3, <1>4 DEF Numbers, Clocks, Ways, Paced, Roles, Off
<1>7. InTime'
  BY <1>0, <1>1, <1>3, <1>4 DEF Numbers, Clocks, Ways, InTime, Paced, Roles, Compatible, Healthy, Off
<1>8. Fading'
  BY <1>0, <1>1, <1>3, <1>4 DEF Numbers, Clocks, Ways, Fading, Paced, Roles, Off
<1>9. OldFading'
  BY <1>0, <1>1, <1>3, <1>4 DEF Numbers, Clocks, Ways, OldFading, Fading, Roles, Off
<1>10. OnTheWay'
  BY <1>0, <1>1, <1>3, <1>4 DEF Numbers, Clocks, Ways, OnTheWay, Paced, Roles, SoonLimit, Off
<1> QED
  BY <1>2, <1>3, <1>5, <1>6, <1>7, <1>8, <1>9, <1>10 DEF Lasting

LEMMA LoginAnsweredStep == Typed /\ Around /\ LoginAnswered => Letters' /\ Clocks' /\ Lasting'
<1> SUFFICES ASSUME Typed, Around, LoginAnswered PROVE Letters' /\ Clocks' /\ Lasting'
  OBVIOUS
<1>0. Numbers /\ Clocks /\ Ways /\ Roles /\ Paced /\ InTime /\ Fading /\ OldFading /\ OnTheWay
      /\ UNCHANGED <<set, ServerInterval, ClientReadTimeout, LongestWait, LossLimit>>
  BY DEF Around, Lasting
<1>1. /\ client = "login" /\ toClient.what = "ok" /\ client' = "serve"
      /\ cDue' = ClientReadTimeout /\ cTick' = set.iv
      /\ toClient'.what = "none" /\ toClient'.left = -1
      /\ UNCHANGED <<backoff, ran, held, sDue, sTick, toServer, toOld, up, down, net,
                    lostFor, oldLostFor, calm>>
  BY DEF LoginAnswered, Sent, Nothing, Off, clientVars, serverVars, lineVars
<1>2. Letters'
  BY Building DEF LoginAnswered, Typed, Letters, clientVars, serverVars, lineVars
<1>3. Clocks'
  BY <1>0, <1>1 DEF Numbers, Clocks, Roles, Off
<1>4. Ways'
  BY <1>2, LettersWays, PTL
<1>5. Roles'
  BY <1>0, <1>1, <1>3, <1>4 DEF Numbers, Clocks, Ways, Roles, Paced, Off
<1>6. Paced'
  BY <1>0, <1>1, <1>3, <1>4 DEF Numbers, Clocks, Ways, Paced, Roles, Off
<1>7. InTime'
  BY <1>0, <1>1, <1>3, <1>4 DEF Numbers, Clocks, Ways, InTime, Paced, Roles, Compatible, Healthy, Off
<1>8. Fading'
  BY <1>0, <1>1, <1>3, <1>4 DEF Numbers, Clocks, Ways, Fading, Paced, Roles, Off
<1>9. OldFading'
  BY <1>0, <1>1, <1>3, <1>4 DEF Numbers, Clocks, Ways, OldFading, Fading, Roles, Off
<1>10. OnTheWay'
  BY <1>0, <1>1, <1>3, <1>4 DEF Numbers, Clocks, Ways, OnTheWay, Paced, Roles, SoonLimit, Off
<1> QED
  BY <1>2, <1>3, <1>5, <1>6, <1>7, <1>8, <1>9, <1>10 DEF Lasting

LEMMA LoginRefusedStep == Typed /\ Around /\ LoginRefused => Letters' /\ Clocks' /\ Lasting'
<1> SUFFICES ASSUME Typed, Around, LoginRefused PROVE Letters' /\ Clocks' /\ Lasting'
  OBVIOUS
<1>0. Numbers /\ Clocks /\ Ways /\ Roles /\ Paced /\ InTime /\ Fading /\ OldFading /\ OnTheWay
      /\ UNCHANGED <<set, ServerInterval, ClientReadTimeout, LongestWait, LossLimit>>
  BY DEF Around, Lasting
<1>1. /\ client = "login" /\ toClient.what = "exists" /\ client' = "fatal"
      /\ cDue' = -1 /\ cTick' = -1
      /\ held' = IF held = "cur" THEN "old" ELSE held
      /\ sTick' = IF held = "cur" THEN -1 ELSE sTick
      /\ oldLostFor' = IF held = "cur" THEN lostFor ELSE oldLostFor
      /\ toServer'.what = "none" /\ toClient'.what = "none"
      /\ toOld'.what = IF held = "cur" THEN IF up THEN "fin" ELSE toServer.what ELSE toOld.what
      /\ toOld'.left = IF held = "cur" THEN IF up THEN Delay ELSE toServer.left ELSE toOld.left
      /\ up' = TRUE /\ down' = TRUE /\ lostFor' = 0
      /\ UNCHANGED <<backoff, ran, sDue, net, calm>>
  BY LeaveFacts DEF LoginRefused, Sent, Nothing, Off, clientVars, serverVars, lineVars
<1>2. Letters'
  <2>1. held = "cur" /\ ~up => toServer \in Messages(ToOldKinds)
    BY <1>0 DEF Typed, Letters, Roles, Messages, ToServerKinds, ToOldKinds, Nothing
  <2> QED
    BY <2>1, Building, LeaveFacts DEF LoginRefused, Typed, Letters
<1>3. Clocks'
  BY <1>0, <1>1 DEF Numbers, Clocks, Roles, Off
<1>4. Ways'
  BY <1>2, LettersWays, PTL
<1>5. Roles'
  BY <1>0, <1>1, <1>3, <1>4 DEF Numbers, Clocks, Ways, Roles, Paced, Off
<1>6. Paced'
  BY <1>0, <1>1, <1>3, <1>4 DEF Numbers, Clocks, Ways, Paced, Roles, Off
<1>7. InTime'
  BY <1>0, <1>1, <1>3, <1>4 DEF Numbers, Clocks, Ways, InTime, Paced, Roles, Compatible, Healthy, Off
<1>8. Fading'
  BY <1>0, <1>1, <1>3, <1>4 DEF Numbers, Clocks, Ways, Fading, Paced, Roles, Off
<1>9. OldFading'
  BY <1>0, <1>1, <1>3, <1>4 DEF Numbers, Clocks, Ways, OldFading, Fading, Roles, Off
<1>10. OnTheWay'
  BY <1>0, <1>1, <1>3, <1>4 DEF Numbers, Clocks, Ways, OnTheWay, Paced, Roles, SoonLimit, Off
<1> QED
  BY <1>2, <1>3, <1>5, <1>6, <1>7, <1>8, <1>9, <1>10 DEF Lasting

LEMMA ClientHearsStep == Typed /\ Around /\ ClientHears => Letters' /\ Clocks' /\ Lasting'
<1> SUFFICES ASSUME Typed, Around, ClientHears PROVE Letters' /\ Clocks' /\ Lasting'
  OBVIOUS
<1>0. Numbers /\ Clocks /\ Ways /\ Roles /\ Paced /\ InTime /\ Fading /\ OldFading /\ OnTheWay
      /\ UNCHANGED <<set, ServerInterval, ClientReadTimeout, LongestWait, LossLimit>>
  BY DEF Around, Lasting
<1>1. /\ client = "serve" /\ toClient.what = "heartbeat" /\ cDue' = ClientReadTimeout
      /\ toClient'.what = "none" /\ toClient'.left = -1
      /\ UNCHANGED <<client, cTick, backoff, ran, held, sDue, sTick, toServer, toOld,
                    up, down, net, lostFor, oldLostFor, calm>>
  BY DEF ClientHears, Sent, Nothing, Off, clientVars, serverVars, lineVars
<1>2. Letters'
  BY Building DEF ClientHears, Typed, Letters, clientVars, serverVars, lineVars
<1>3. Clocks'
  BY <1>0, <1>1 DEF Numbers, Clocks, Roles, Off
<1>4. Ways'
  BY <1>2, LettersWays, PTL
<1>5. Roles'
  BY <1>0, <1>1, <1>3, <1>4 DEF Numbers, Clocks, Ways, Roles, Paced, Off
<1>6. Paced'
  BY <1>0, <1>1, <1>3, <1>4 DEF Numbers, Clocks, Ways, Paced, Roles, Off
<1>7. InTime'
  BY <1>0, <1>1, <1>3, <1>4 DEF Numbers, Clocks, Ways, InTime, Paced, Roles, Compatible, Healthy, Off
<1>8. Fading'
  BY <1>0, <1>1, <1>3, <1>4 DEF Numbers, Clocks, Ways, Fading, Paced, Roles, Off
<1>9. OldFading'
  BY <1>0, <1>1, <1>3, <1>4 DEF Numbers, Clocks, Ways, OldFading, Fading, Roles, Off
<1>10. OnTheWay'
  BY <1>0, <1>1, <1>3, <1>4 DEF Numbers, Clocks, Ways, OnTheWay, Paced, Roles, SoonLimit, Off
<1> QED
  BY <1>2, <1>3, <1>5, <1>6, <1>7, <1>8, <1>9, <1>10 DEF Lasting

LEMMA ClientSendsStep == Typed /\ Around /\ ClientSends => Letters' /\ Clocks' /\ Lasting'
<1> SUFFICES ASSUME Typed, Around, ClientSends PROVE Letters' /\ Clocks' /\ Lasting'
  OBVIOUS
<1>0. Numbers /\ Clocks /\ Ways /\ Roles /\ Paced /\ InTime /\ Fading /\ OldFading /\ OnTheWay
      /\ UNCHANGED <<set, ServerInterval, ClientReadTimeout, LongestWait, LossLimit>>
  BY DEF Around, Lasting
<1>1. /\ client = "serve" /\ cTick = 0 /\ cTick' = set.iv
      /\ toServer'.what = IF up /\ held = "cur" THEN "heartbeat" ELSE "none"
      /\ toServer'.left = IF up /\ held = "cur" THEN Delay ELSE -1
      /\ UNCHANGED <<client, cDue, backoff, ran, held, sDue, sTick, toClient, toOld, up,
                    down, net, lostFor, oldLostFor, calm>>
  BY DEF ClientSends, Sent, Nothing, Off, clientVars, serverVars, lineVars
<1>2. Letters'
  BY Building DEF ClientSends, Typed, Letters, clientVars, serverVars, lineVars
<1>3. Clocks'
  BY <1>0, <1>1 DEF Numbers, Clocks, Roles, Off
<1>4. Ways'
  BY <1>2, LettersWays, PTL
<1>5. Roles'
  BY <1>0, <1>1, <1>3, <1>4 DEF Numbers, Clocks, Ways, Roles, Paced, Off
<1>6. Paced'
  BY <1>0, <1>1, <1>3, <1>4 DEF Numbers, Clocks, Ways, Paced, Roles, Off
<1>7. InTime'
  BY <1>0, <1>1, <1>3, <1>4 DEF Numbers, Clocks, Ways, InTime, Paced, Roles, Compatible, Healthy, Off
<1>8. Fading'
  BY <1>0, <1>1, <1>3, <1>4 DEF Numbers, Clocks, Ways, Fading, Paced, Roles, Off
<1>9. OldFading'
  BY <1>0, <1>1, <1>3, <1>4 DEF Numbers, Clocks, Ways, OldFading, Fading, Roles, Off
<1>10. OnTheWay'
  BY <1>0, <1>1, <1>3, <1>4 DEF Numbers, Clocks, Ways, OnTheWay, Paced, Roles, SoonLimit, Off
<1> QED
  BY <1>2, <1>3, <1>5, <1>6, <1>7, <1>8, <1>9, <1>10 DEF Lasting

LEMMA ClientGivesUpStep == Typed /\ Around /\ ClientGivesUp => Letters' /\ Clocks' /\ Lasting'
<1> SUFFICES ASSUME Typed, Around, ClientGivesUp PROVE Letters' /\ Clocks' /\ Lasting'
  OBVIOUS
<1>0. Numbers /\ Clocks /\ Ways /\ Roles /\ Paced /\ InTime /\ Fading /\ OldFading /\ OnTheWay
      /\ UNCHANGED <<set, ServerInterval, ClientReadTimeout, LongestWait, LossLimit>>
  BY DEF Around, Lasting
<1>1. /\ client = "serve" /\ (cDue = 0 \/ toClient.what = "fin")
      /\ client' = "wait" /\ cDue' = backoff' /\ cTick' = -1 /\ backoff' \in Nat \ {0}
      /\ backoff' <= LongestWait
      /\ held' = IF held = "cur" THEN "old" ELSE held
      /\ sTick' = IF held = "cur" THEN -1 ELSE sTick
      /\ oldLostFor' = IF held = "cur" THEN lostFor ELSE oldLostFor
      /\ toServer'.what = "none" /\ toClient'.what = "none"
      /\ toOld'.what = IF held = "cur" THEN IF up THEN "fin" ELSE toServer.what ELSE toOld.what
      /\ toOld'.left = IF held = "cur" THEN IF up THEN Delay ELSE toServer.left ELSE toOld.left
      /\ up' = TRUE /\ down' = TRUE /\ lostFor' = 0
      /\ UNCHANGED <<ran, sDue, net, calm>>
  BY RetryFacts, LeaveFacts DEF ClientGivesUp, Sent, Nothing, Off, clientVars, serverVars, lineVars
<1>2. Letters'
  <2>1. held = "cur" /\ ~up => toServer \in Messages(ToOldKinds)
    BY <1>0 DEF Typed, Letters, Roles, Messages, ToServerKinds, ToOldKinds, Nothing
  <2> QED
    BY <2>1, Building, LeaveFacts DEF ClientGivesUp, Typed, Letters
<1>3. Clocks'
  BY <1>0, <1>1 DEF Numbers, Clocks, Roles, Off
<1>4. Ways'
  BY <1>2, LettersWays, PTL
<1>5. Roles'
  BY <1>0, <1>1, <1>3, <1>4 DEF Numbers, Clocks, Ways, Roles, Paced, Off
<1>6. Paced'
  BY <1>0, <1>1, <1>3, <1>4 DEF Numbers, Clocks, Ways, Paced, Roles, Off
<1>7. InTime'
  BY <1>0, <1>1, <1>3, <1>4 DEF Numbers, Clocks, Ways, InTime, Paced, Roles, Compatible, Healthy, Off
<1>8. Fading'
  BY <1>0, <1>1, <1>3, <1>4 DEF Numbers, Clocks, Ways, Fading, Paced, Roles, Off
<1>9. OldFading'
  BY <1>0, <1>1, <1>3, <1>4 DEF Numbers, Clocks, Ways, OldFading, Fading, Roles, Off
<1>10. OnTheWay'
  BY <1>0, <1>1, <1>3, <1>4 DEF Numbers, Clocks, Ways, OnTheWay, Paced, Roles, SoonLimit, Off
<1> QED
  BY <1>2, <1>3, <1>5, <1>6, <1>7, <1>8, <1>9, <1>10 DEF Lasting

LEMMA ServerLoginStep == Typed /\ Around /\ ServerLogin => Letters' /\ Clocks' /\ Lasting'
<1> SUFFICES ASSUME Typed, Around, ServerLogin PROVE Letters' /\ Clocks' /\ Lasting'
  OBVIOUS
<1>0. Numbers /\ Clocks /\ Ways /\ Roles /\ Paced /\ InTime /\ Fading /\ OldFading /\ OnTheWay
      /\ UNCHANGED <<set, ServerInterval, ClientReadTimeout, LongestWait, LossLimit>>
  BY DEF Around, Lasting
<1>1. /\ toServer.what = "login"
      /\ toServer'.what = "none" /\ toServer'.left = -1
      /\ held' = IF held = "none" THEN "cur" ELSE held
      /\ sDue' = IF held = "none" THEN set.hbt ELSE sDue
      /\ sTick' = IF held = "none" THEN ServerInterval ELSE sTick
      /\ toClient'.what = IF ~down THEN "none" ELSE IF held = "none" THEN "ok" ELSE "exists"
      /\ toClient'.left = IF down THEN Delay ELSE -1
      /\ UNCHANGED <<client, cDue, cTick, backoff, ran, toOld, up, down, net, lostFor,
                    oldLostFor, calm>>
  BY DEF ServerLogin, Sent, Nothing, Off, clientVars, serverVars, lineVars
<1>2. Letters'
  BY Building DEF ServerLogin, Typed, Letters, clientVars, serverVars, lineVars
<1>3. Clocks'
  BY <1>0, <1>1 DEF Numbers, Clocks, Roles, Off
<1>4. Ways'
  BY <1>2, LettersWays, PTL
<1>5. Roles'
  BY <1>0, <1>1, <1>3, <1>4 DEF Numbers, Clocks, Ways, Roles, Paced, Off
<1>6. Paced'
  BY <1>0, <1>1, <1>3, <1>4 DEF Numbers, Clocks, Ways, Paced, Roles, Off
<1>7. InTime'
  BY <1>0, <1>1, <1>3, <1>4 DEF Numbers, Clocks, Ways, InTime, Paced, Roles, Compatible, Healthy, Off
<1>8. Fading'
  BY <1>0, <1>1, <1>3, <1>4 DEF Numbers, Clocks, Ways, Fading, Paced, Roles, Off
<1>9. OldFading'
  BY <1>0, <1>1, <1>3, <1>4 DEF Numbers, Clocks, Ways, OldFading, Fading, Roles, Off
<1>10. OnTheWay'
  BY <1>0, <1>1, <1>3, <1>4 DEF Numbers, Clocks, Ways, OnTheWay, Paced, Roles, SoonLimit, Off
<1> QED
  BY <1>2, <1>3, <1>5, <1>6, <1>7, <1>8, <1>9, <1>10 DEF Lasting

LEMMA ServerHearsStep == Typed /\ Around /\ ServerHears => Letters' /\ Clocks' /\ Lasting'
<1> SUFFICES ASSUME Typed, Around, ServerHears PROVE Letters' /\ Clocks' /\ Lasting'
  OBVIOUS
<1>0. Numbers /\ Clocks /\ Ways /\ Roles /\ Paced /\ InTime /\ Fading /\ OldFading /\ OnTheWay
      /\ UNCHANGED <<set, ServerInterval, ClientReadTimeout, LongestWait, LossLimit>>
  BY DEF Around, Lasting
<1>1. /\ held = "cur" /\ toServer.what = "heartbeat" /\ sDue' = set.hbt
      /\ toServer'.what = "none" /\ toServer'.left = -1
      /\ UNCHANGED <<client, cDue, cTick, backoff, ran, held, sTick, toClient, toOld,
                    up, down, net, lostFor, oldLostFor, calm>>
  BY DEF ServerHears, Sent, Nothing, Off, clientVars, serverVars, lineVars
<1>2. Letters'
  BY Building DEF ServerHears, Typed, Letters, clientVars, serverVars, lineVars
<1>3. Clocks'
  BY <1>0, <1>1 DEF Numbers, Clocks, Roles, Off
<1>4. Ways'
  BY <1>2, LettersWays, PTL
<1>5. Roles'
  BY <1>0, <1>1, <1>3, <1>4 DEF Numbers, Clocks, Ways, Roles, Paced, Off
<1>6. Paced'
  BY <1>0, <1>1, <1>3, <1>4 DEF Numbers, Clocks, Ways, Paced, Roles, Off
<1>7. InTime'
  BY <1>0, <1>1, <1>3, <1>4 DEF Numbers, Clocks, Ways, InTime, Paced, Roles, Compatible, Healthy, Off
<1>8. Fading'
  BY <1>0, <1>1, <1>3, <1>4 DEF Numbers, Clocks, Ways, Fading, Paced, Roles, Off
<1>9. OldFading'
  BY <1>0, <1>1, <1>3, <1>4 DEF Numbers, Clocks, Ways, OldFading, Fading, Roles, Off
<1>10. OnTheWay'
  BY <1>0, <1>1, <1>3, <1>4 DEF Numbers, Clocks, Ways, OnTheWay, Paced, Roles, SoonLimit, Off
<1> QED
  BY <1>2, <1>3, <1>5, <1>6, <1>7, <1>8, <1>9, <1>10 DEF Lasting

LEMMA ServerSendsStep == Typed /\ Around /\ ServerSends => Letters' /\ Clocks' /\ Lasting'
<1> SUFFICES ASSUME Typed, Around, ServerSends PROVE Letters' /\ Clocks' /\ Lasting'
  OBVIOUS
<1>0. Numbers /\ Clocks /\ Ways /\ Roles /\ Paced /\ InTime /\ Fading /\ OldFading /\ OnTheWay
      /\ UNCHANGED <<set, ServerInterval, ClientReadTimeout, LongestWait, LossLimit>>
  BY DEF Around, Lasting
<1>1. /\ held = "cur" /\ sTick = 0 /\ sTick' = ServerInterval
      /\ toClient'.what = IF down THEN "heartbeat" ELSE "none"
      /\ toClient'.left = IF down THEN Delay ELSE -1
      /\ UNCHANGED <<client, cDue, cTick, backoff, ran, held, sDue, toServer, toOld, up,
                    down, net, lostFor, oldLostFor, calm>>
  BY DEF ServerSends, Sent, Nothing, Off, clientVars, serverVars, lineVars
<1>2. Letters'
  BY Building DEF ServerSends, Typed, Letters, clientVars, serverVars, lineVars
<1>3. Clocks'
  BY <1>0, <1>1 DEF Numbers, Clocks, Roles, Off
<1>4. Ways'
  BY <1>2, LettersWays, PTL
<1>5. Roles'
  BY <1>0, <1>1, <1>3, <1>4 DEF Numbers, Clocks, Ways, Roles, Paced, Off
<1>6. Paced'
  BY <1>0, <1>1, <1>3, <1>4 DEF Numbers, Clocks, Ways, Paced, Roles, Off
<1>7. InTime'
  BY <1>0, <1>1, <1>3, <1>4 DEF Numbers, Clocks, Ways, InTime, Paced, Roles, Compatible, Healthy, Off
<1>8. Fading'
  BY <1>0, <1>1, <1>3, <1>4 DEF Numbers, Clocks, Ways, Fading, Paced, Roles, Off
<1>9. OldFading'
  BY <1>0, <1>1, <1>3, <1>4 DEF Numbers, Clocks, Ways, OldFading, Fading, Roles, Off
<1>10. OnTheWay'
  BY <1>0, <1>1, <1>3, <1>4 DEF Numbers, Clocks, Ways, OnTheWay, Paced, Roles, SoonLimit, Off
<1> QED
  BY <1>2, <1>3, <1>5, <1>6, <1>7, <1>8, <1>9, <1>10 DEF Lasting

LEMMA ServerGivesUpStep == Typed /\ Around /\ ServerGivesUp => Letters' /\ Clocks' /\ Lasting'
<1> SUFFICES ASSUME Typed, Around, ServerGivesUp PROVE Letters' /\ Clocks' /\ Lasting'
  OBVIOUS
<1>0. Numbers /\ Clocks /\ Ways /\ Roles /\ Paced /\ InTime /\ Fading /\ OldFading /\ OnTheWay
      /\ UNCHANGED <<set, ServerInterval, ClientReadTimeout, LongestWait, LossLimit>>
  BY DEF Around, Lasting
<1>1. /\ held # "none" /\ sDue = 0
      /\ held' = "none" /\ sDue' = -1 /\ sTick' = -1
      /\ toServer'.what = IF held = "cur" THEN "none" ELSE toServer.what
      /\ toServer'.left = IF held = "cur" THEN -1 ELSE toServer.left
      /\ toClient'.what = IF held = "cur" THEN IF down THEN "fin" ELSE "none" ELSE toClient.what
      /\ toClient'.left = IF held = "cur" THEN IF down THEN Delay ELSE -1 ELSE toClient.left
      /\ toOld'.what = IF held = "cur" THEN toOld.what ELSE "none"
      /\ toOld'.left = IF held = "cur" THEN toOld.left ELSE -1
      /\ oldLostFor' = IF held = "cur" THEN oldLostFor ELSE 0
      /\ UNCHANGED <<client, cDue, cTick, backoff, ran, up, down, net, lostFor, calm>>
  BY DropFacts DEF ServerGivesUp, Sent, Nothing, Off, clientVars, serverVars, lineVars
<1>2. Letters'
  BY Building, DropFacts DEF ServerGivesUp, Typed, Letters, clientVars, serverVars, lineVars
<1>3. Clocks'
  BY <1>0, <1>1 DEF Numbers, Clocks, Roles, Off
<1>4. Ways'
  BY <1>2, LettersWays, PTL
<1>5. Roles'
  BY <1>0, <1>1, <1>3, <1>4 DEF Numbers, Clocks, Ways, Roles, Paced, Off
<1>6. Paced'
  BY <1>0, <1>1, <1>3, <1>4 DEF Numbers, Clocks, Ways, Paced, Roles, Off
<1>7. InTime'
  BY <1>0, <1>1, <1>3, <1>4 DEF Numbers, Clocks, Ways, InTime, Paced, Roles, Compatible, Healthy, Off
<1>8. Fading'
  BY <1>0, <1>1, <1>3, <1>4 DEF Numbers, Clocks, Ways, Fading, Paced, Roles, Off
<1>9. OldFading'
  BY <1>0, <1>1, <1>3, <1>4 DEF Numbers, Clocks, Ways, OldFading, Fading, Roles, Off
<1>10. OnTheWay'
  BY <1>0, <1>1, <1>3, <1>4 DEF Numbers, Clocks, Ways, OnTheWay, Paced, Roles, SoonLimit, Off
<1> QED
  BY <1>2, <1>3, <1>5, <1>6, <1>7, <1>8, <1>9, <1>10 DEF Lasting

LEMMA ServerSeesCloseStep == Typed /\ Around /\ ServerSeesClose => Letters' /\ Clocks' /\ Lasting'
<1> SUFFICES ASSUME Typed, Around, ServerSeesClose PROVE Letters' /\ Clocks' /\ Lasting'
  OBVIOUS
<1>0. Numbers /\ Clocks /\ Ways /\ Roles /\ Paced /\ InTime /\ Fading /\ OldFading /\ OnTheWay
      /\ UNCHANGED <<set, ServerInterval, ClientReadTimeout, LongestWait, LossLimit>>
  BY DEF Around, Lasting
<1>1. /\ held = "old" /\ toOld.what = "fin"
      /\ held' = "none" /\ sDue' = -1 /\ sTick' = -1
      /\ toServer'.what = IF held = "cur" THEN "none" ELSE toServer.what
      /\ toServer'.left = IF held = "cur" THEN -1 ELSE toServer.left
      /\ toClient'.what = IF held = "cur" THEN IF down THEN "fin" ELSE "none" ELSE toClient.what
      /\ toClient'.left = IF held = "cur" THEN IF down THEN Delay ELSE -1 ELSE toClient.left
      /\ toOld'.what = IF held = "cur" THEN toOld.what ELSE "none"
      /\ toOld'.left = IF held = "cur" THEN toOld.left ELSE -1
      /\ oldLostFor' = IF held = "cur" THEN oldLostFor ELSE 0
      /\ UNCHANGED <<client, cDue, cTick, backoff, ran, up, down, net, lostFor, calm>>
  BY DropFacts DEF ServerSeesClose, Sent, Nothing, Off, clientVars, serverVars, lineVars
<1>2. Letters'
  BY Building, DropFacts DEF ServerSeesClose, Typed, Letters, clientVars, serverVars, lineVars
<1>3. Clocks'
  BY <1>0, <1>1 DEF Numbers, Clocks, Roles, Off
<1>4. Ways'
  BY <1>2, LettersWays, PTL
<1>5. Roles'
  BY <1>0, <1>1, <1>3, <1>4 DEF Numbers, Clocks, Ways, Roles, Paced, Off
<1>6. Paced'
  BY <1>0, <1>1, <1>3, <1>4 DEF Numbers, Clocks, Ways, Paced, Roles, Off
<1>7. InTime'
  BY <1>0, <1>1, <1>3, <1>4 DEF Numbers, Clocks, Ways, InTime, Paced, Roles, Compatible, Healthy, Off
<1>8. Fading'
  BY <1>0, <1>1, <1>3, <1>4 DEF Numbers, Clocks, Ways, Fading, Paced, Roles, Off
<1>9. OldFading'
  BY <1>0, <1>1, <1>3, <1>4 DEF Numbers, Clocks, Ways, OldFading, Fading, Roles, Off
<1>10. OnTheWay'
  BY <1>0, <1>1, <1>3, <1>4 DEF Numbers, Clocks, Ways, OnTheWay, Paced, Roles, SoonLimit, Off
<1> QED
  BY <1>2, <1>3, <1>5, <1>6, <1>7, <1>8, <1>9, <1>10 DEF Lasting

LEMMA ServerHearsOldStep == Typed /\ Around /\ ServerHearsOld => Letters' /\ Clocks' /\ Lasting'
<1> SUFFICES ASSUME Typed, Around, ServerHearsOld PROVE Letters' /\ Clocks' /\ Lasting'
  OBVIOUS
<1>0. Numbers /\ Clocks /\ Ways /\ Roles /\ Paced /\ InTime /\ Fading /\ OldFading /\ OnTheWay
      /\ UNCHANGED <<set, ServerInterval, ClientReadTimeout, LongestWait, LossLimit>>
  BY DEF Around, Lasting
<1>1. /\ held = "old" /\ toOld.what = "heartbeat" /\ sDue' = set.hbt
      /\ toOld'.what = "none" /\ toOld'.left = -1
      /\ UNCHANGED <<client, cDue, cTick, backoff, ran, held, sTick, toServer, toClient,
                    up, down, net, lostFor, oldLostFor, calm>>
  BY DEF ServerHearsOld, Sent, Nothing, Off, clientVars, serverVars, lineVars
<1>2. Letters'
  BY Building DEF ServerHearsOld, Typed, Letters, clientVars, serverVars, lineVars
<1>3. Clocks'
  BY <1>0, <1>1 DEF Numbers, Clocks, Roles, Off
<1>4. Ways'
  BY <1>2, LettersWays, PTL
<1>5. Roles'
  BY <1>0, <1>1, <1>3, <1>4 DEF Numbers, Clocks, Ways, Roles, Paced, Off
<1>6. Paced'
  BY <1>0, <1>1, <1>3, <1>4 DEF Numbers, Clocks, Ways, Paced, Roles, Off
<1>7. InTime'
  BY <1>0, <1>1, <1>3, <1>4 DEF Numbers, Clocks, Ways, InTime, Paced, Roles, Compatible, Healthy, Off
<1>8. Fading'
  BY <1>0, <1>1, <1>3, <1>4 DEF Numbers, Clocks, Ways, Fading, Paced, Roles, Off
<1>9. OldFading'
  BY <1>0, <1>1, <1>3, <1>4 DEF Numbers, Clocks, Ways, OldFading, Fading, Roles, Off
<1>10. OnTheWay'
  BY <1>0, <1>1, <1>3, <1>4 DEF Numbers, Clocks, Ways, OnTheWay, Paced, Roles, SoonLimit, Off
<1> QED
  BY <1>2, <1>3, <1>5, <1>6, <1>7, <1>8, <1>9, <1>10 DEF Lasting

LEMMA LoseStep == Typed /\ Around /\ Lose => Letters' /\ Clocks' /\ Lasting'
<1> SUFFICES ASSUME Typed, Around, Lose PROVE Letters' /\ Clocks' /\ Lasting'
  OBVIOUS
<1>0. Numbers /\ Clocks /\ Ways /\ Roles /\ Paced /\ InTime /\ Fading /\ OldFading /\ OnTheWay
      /\ UNCHANGED <<set, ServerInterval, ClientReadTimeout, LongestWait, LossLimit>>
  BY DEF Around, Lasting
<1>1. /\ client \in {"login", "serve"} /\ lostFor' = 1 /\ calm' = 0
      /\ up' \in BOOLEAN /\ down' \in BOOLEAN
      /\ (up' => up) /\ (down' => down) /\ ~(up' /\ down')
      /\ toServer' = toServer \/ (~up' /\ toServer'.what = "none")
      /\ toClient' = toClient \/ (~down' /\ toClient'.what = "none")
      /\ UNCHANGED <<client, cDue, cTick, backoff, ran, held, sDue, sTick, toOld, net,
                    oldLostFor>>
  BY LoseFacts DEF Lose, Sent, Nothing, Off, clientVars, serverVars, lineVars
<1>2. Letters'
  BY Building, LoseFacts DEF Lose, Typed, Letters, clientVars, serverVars, lineVars
<1>3. Clocks'
  BY <1>0, <1>1 DEF Numbers, Clocks, Roles, Off
<1>4. Ways'
  BY <1>2, LettersWays, PTL
<1>5. Roles'
  BY <1>0, <1>1, <1>3, <1>4 DEF Numbers, Clocks, Ways, Roles, Paced, Off
<1>6. Paced'
  BY <1>0, <1>1, <1>3, <1>4 DEF Numbers, Clocks, Ways, Paced, Roles, Off
<1>7. InTime'
  BY <1>0, <1>1, <1>3, <1>4 DEF Numbers, Clocks, Ways, InTime, Paced, Roles, Compatible, Healthy, Off
<1>8. Fading'
  BY <1>0, <1>1, <1>3, <1>4 DEF Numbers, Clocks, Ways, Fading, Paced, Roles, Off
<1>9. OldFading'
  BY <1>0, <1>1, <1>3, <1>4 DEF Numbers, Clocks, Ways, OldFading, Fading, Roles, Off
<1>10. OnTheWay'
  BY <1>0, <1>1, <1>3, <1>4 DEF Numbers, Clocks, Ways, OnTheWay, Paced, Roles, SoonLimit, Off
<1> QED
  BY <1>2, <1>3, <1>5, <1>6, <1>7, <1>8, <1>9, <1>10 DEF Lasting

LEMMA LoseOldStep == Typed /\ Around /\ LoseOld => Letters' /\ Clocks' /\ Lasting'
<1> SUFFICES ASSUME Typed, Around, LoseOld PROVE Letters' /\ Clocks' /\ Lasting'
  OBVIOUS
<1>0. Numbers /\ Clocks /\ Ways /\ Roles /\ Paced /\ InTime /\ Fading /\ OldFading /\ OnTheWay
      /\ UNCHANGED <<set, ServerInterval, ClientReadTimeout, LongestWait, LossLimit>>
  BY DEF Around, Lasting
<1>1. /\ toOld.what # "none" /\ oldLostFor' = 1 /\ calm' = 0
      /\ toOld'.what = "none" /\ toOld'.left = -1
      /\ UNCHANGED <<client, cDue, cTick, backoff, ran, held, sDue, sTick, toServer,
                    toClient, up, down, net, lostFor>>
  BY DEF LoseOld, Sent, Nothing, Off, clientVars, serverVars, lineVars
<1>2. Letters'
  BY Building DEF LoseOld, Typed, Letters, clientVars, serverVars, lineVars
<1>3. Clocks'
  BY <1>0, <1>1 DEF Numbers, Clocks, Roles, Off
<1>4. Ways'
  BY <1>2, LettersWays, PTL
<1>5. Roles'
  BY <1>0, <1>1, <1>3, <1>4 DEF Numbers, Clocks, Ways, Roles, Paced, Off
<1>6. Paced'
  BY <1>0, <1>1, <1>3, <1>4 DEF Numbers, Clocks, Ways, Paced, Roles, Off
<1>7. InTime'
  BY <1>0, <1>1, <1>3, <1>4 DEF Numbers, Clocks, Ways, InTime, Paced, Roles, Compatible, Healthy, Off
<1>8. Fading'
  BY <1>0, <1>1, <1>3, <1>4 DEF Numbers, Clocks, Ways, Fading, Paced, Roles, Off
<1>9. OldFading'
  BY <1>0, <1>1, <1>3, <1>4 DEF Numbers, Clocks, Ways, OldFading, Fading, Roles, Off
<1>10. OnTheWay'
  BY <1>0, <1>1, <1>3, <1>4 DEF Numbers, Clocks, Ways, OnTheWay, Paced, Roles, SoonLimit, Off
<1> QED
  BY <1>2, <1>3, <1>5, <1>6, <1>7, <1>8, <1>9, <1>10 DEF Lasting

LEMMA NetDownStep == Typed /\ Around /\ NetDown => Letters' /\ Clocks' /\ Lasting'
<1> SUFFICES ASSUME Typed, Around, NetDown PROVE Letters' /\ Clocks' /\ Lasting'
  OBVIOUS
<1>0. Numbers /\ Clocks /\ Ways /\ Roles /\ Paced /\ InTime /\ Fading /\ OldFading /\ OnTheWay
      /\ UNCHANGED <<set, ServerInterval, ClientReadTimeout, LongestWait, LossLimit>>
  BY DEF Around, Lasting
<1>1. /\ net /\ net' = FALSE /\ calm' = 0
      /\ IF client \in {"login", "serve"}
         THEN /\ lostFor' = 1 /\ up' = FALSE /\ down' = FALSE
              /\ toServer' = toServer \/ toServer'.what = "none"
              /\ toClient' = toClient \/ toClient'.what = "none"
         ELSE UNCHANGED <<up, down, toServer, toClient, lostFor>>
      /\ UNCHANGED <<client, cDue, cTick, backoff, ran, held, sDue, sTick, toOld,
                    oldLostFor>>
  BY LoseFacts DEF NetDown, Sent, Nothing, Off, clientVars, serverVars, lineVars
<1>2. Letters'
  <2>1. CASE client \in {"login", "serve"}
    BY <2>1, Building, LoseFacts DEF NetDown, Typed, Letters
  <2>2. CASE client \notin {"login", "serve"}
    BY <2>2 DEF NetDown, Typed, Letters
  <2> QED
    BY <2>1, <2>2
<1>3. Clocks'
  <2>1. up' \in BOOLEAN /\ down' \in BOOLEAN /\ lostFor' \in Nat
    <3>1. CASE client \in {"login", "serve"}
      <4>1. up' = FALSE /\ down' = FALSE /\ lostFor' = 1
        BY <1>1, <3>1
      <4> QED
        BY <4>1
    <3>2. CASE client \notin {"login", "serve"}
      BY <1>0, <1>1, <3>2 DEF Clocks
    <3> QED
      BY <3>1, <3>2
  <2>2. net' \in BOOLEAN /\ calm' \in Nat
    BY <1>1
  <2> QED
    BY <1>0, <1>1, <2>1, <2>2 DEF Numbers, Clocks
<1>4. Ways'
  BY <1>2, LettersWays, PTL
<1>5. Roles'
  BY <1>0, <1>1, <1>3, <1>4 DEF Numbers, Clocks, Ways, Roles, Paced, Off
<1>6. Paced'
  BY <1>0, <1>1, <1>3, <1>4 DEF Numbers, Clocks, Ways, Paced, Roles, Off
<1>7. InTime'
  BY <1>0, <1>1, <1>3, <1>4 DEF Numbers, Clocks, Ways, InTime, Paced, Roles, Compatible, Healthy, Off
<1>8. Fading'
  BY <1>0, <1>1, <1>3, <1>4 DEF Numbers, Clocks, Ways, Fading, Paced, Roles, Off
<1>9. OldFading'
  BY <1>0, <1>1, <1>3, <1>4 DEF Numbers, Clocks, Ways, OldFading, Fading, Roles, Off
<1>10. OnTheWay'
  BY <1>0, <1>1, <1>3, <1>4 DEF Numbers, Clocks, Ways, OnTheWay, Paced, Roles, SoonLimit, Off
<1> QED
  BY <1>2, <1>3, <1>5, <1>6, <1>7, <1>8, <1>9, <1>10 DEF Lasting

LEMMA NetUpStep == Typed /\ Around /\ NetUp => Letters' /\ Clocks' /\ Lasting'
<1> SUFFICES ASSUME Typed, Around, NetUp PROVE Letters' /\ Clocks' /\ Lasting'
  OBVIOUS
<1>0. Numbers /\ Clocks /\ Ways /\ Roles /\ Paced /\ InTime /\ Fading /\ OldFading /\ OnTheWay
      /\ UNCHANGED <<set, ServerInterval, ClientReadTimeout, LongestWait, LossLimit>>
  BY DEF Around, Lasting
<1>1. /\ ~net /\ net' = TRUE
      /\ UNCHANGED <<client, cDue, cTick, backoff, ran, held, sDue, sTick, toServer,
                    toClient, toOld, up, down, lostFor, oldLostFor, calm>>
  BY DEF NetUp, Sent, Nothing, Off, clientVars, serverVars, lineVars
<1>2. Letters'
  BY Building DEF NetUp, Typed, Letters, clientVars, serverVars, lineVars
<1>3. Clocks'
  BY <1>0, <1>1 DEF Numbers, Clocks, Roles, Off
<1>4. Ways'
  BY <1>2, LettersWays, PTL
<1>5. Roles'
  BY <1>0, <1>1, <1>3, <1>4 DEF Numbers, Clocks, Ways, Roles, Paced, Off
<1>6. Paced'
  BY <1>0, <1>1, <1>3, <1>4 DEF Numbers, Clocks, Ways, Paced, Roles, Off
<1>7. InTime'
  BY <1>0, <1>1, <1>3, <1>4 DEF Numbers, Clocks, Ways, InTime, Paced, Roles, Compatible, Healthy, Off
<1>8. Fading'
  BY <1>0, <1>1, <1>3, <1>4 DEF Numbers, Clocks, Ways, Fading, Paced, Roles, Off
<1>9. OldFading'
  BY <1>0, <1>1, <1>3, <1>4 DEF Numbers, Clocks, Ways, OldFading, Fading, Roles, Off
<1>10. OnTheWay'
  BY <1>0, <1>1, <1>3, <1>4 DEF Numbers, Clocks, Ways, OnTheWay, Paced, Roles, SoonLimit, Off
<1> QED
  BY <1>2, <1>3, <1>5, <1>6, <1>7, <1>8, <1>9, <1>10 DEF Lasting

LEMMA TickStep == Typed /\ Around /\ Tick => Letters' /\ Clocks' /\ Lasting'
<1> SUFFICES ASSUME Typed, Around, Tick PROVE Letters' /\ Clocks' /\ Lasting'
  OBVIOUS
<1>0. Numbers /\ Clocks /\ Ways /\ Roles /\ Paced /\ InTime /\ Fading /\ OldFading /\ OnTheWay
      /\ UNCHANGED <<set, ServerInterval, ClientReadTimeout, LongestWait, LossLimit>>
  BY DEF Around, Lasting
<1>2. Letters'
  BY TickFacts DEF Letters
<1>3. Clocks'
  BY <1>0, TickFacts DEF Numbers, Clocks, Roles, Off
<1>4. Ways'
  BY <1>2, LettersWays, PTL
<1>5. Roles'
  BY <1>0, TickFacts, <1>3, <1>4 DEF Numbers, Clocks, Ways, Roles, Paced, Off
<1>6. Paced'
  BY <1>0, TickFacts, <1>3, <1>4 DEF Numbers, Clocks, Ways, Paced, Roles, Off
<1>7. InTime'
  <2>1. CASE ~(Compatible /\ Healthy)
    BY <1>0, TickFacts, <2>1 DEF InTime, Compatible, Healthy
  <2>2. CASE Compatible /\ Healthy
    <3>1. /\ client = "serve" /\ held = "cur"
          /\ IF toClient.what = "none" THEN sTick + Delay < cDue ELSE toClient.left < cDue
          /\ IF toServer.what = "none" THEN cTick + Delay < sDue ELSE toServer.left < sDue
      BY <1>0, <2>2 DEF InTime, Healthy
    <3>2. cDue # -1 /\ cTick # -1 /\ sDue # -1 /\ sTick # -1
      BY <1>0, <3>1 DEF Clocks, Roles, Off
    <3>3. IF toClient'.what = "none" THEN sTick' + Delay < cDue' ELSE toClient'.left < cDue'
      BY <1>0, TickFacts, <3>1, <3>2 DEF Numbers, Clocks, Ways
    <3>4. IF toServer'.what = "none" THEN cTick' + Delay < sDue' ELSE toServer'.left < sDue'
      BY <1>0, TickFacts, <3>1, <3>2 DEF Numbers, Clocks, Ways
    <3> QED
      BY <3>3, <3>4 DEF InTime
  <2> QED
    BY <2>1, <2>2
<1>8. Fading'
  BY <1>0, TickFacts, <1>3, <1>4 DEF Numbers, Clocks, Ways, Fading, Paced, Roles, Off
<1>9. OldFading'
  BY <1>0, TickFacts, <1>3, <1>4 DEF Numbers, Clocks, Ways, OldFading, Fading, Roles, Off
<1>10. OnTheWay'
  BY <1>0, TickFacts, <1>3, <1>4 DEF Numbers, Clocks, Ways, OnTheWay, Paced, Roles, SoonLimit, Off
<1> QED
  BY <1>2, <1>3, <1>5, <1>6, <1>7, <1>8, <1>9, <1>10 DEF Lasting

LEMMA StutterStep == Typed /\ Around /\ UNCHANGED vars => Letters' /\ Clocks' /\ Lasting'
<1> SUFFICES ASSUME Typed, Around, UNCHANGED vars PROVE Letters' /\ Clocks' /\ Lasting'
  OBVIOUS
<1>1. Letters /\ Clocks /\ Roles /\ Paced /\ InTime /\ Fading /\ OldFading /\ OnTheWay
  BY DEF Typed, Around, Lasting
<1>2. /\ UNCHANGED <<set, ServerInterval, ClientReadTimeout, LongestWait, LossLimit>>
      /\ UNCHANGED <<client, cDue, cTick, backoff, ran, held, sDue, sTick>>
      /\ UNCHANGED <<toServer, toClient, toOld, up, down, net, lostFor, oldLostFor, calm>>
  BY DEF Around, vars, clientVars, serverVars, lineVars
<1>3. Letters' /\ Clocks'
  BY <1>1, <1>2 DEF Letters, Clocks
<1>4. Roles' /\ Paced' /\ InTime'
  BY <1>1, <1>2 DEF Roles, Paced, InTime, Compatible, Healthy
<1>5. Fading' /\ OldFading' /\ OnTheWay'
  BY <1>1, <1>2 DEF Fading, OldFading, OnTheWay, SoonLimit
<1> QED
  BY <1>3, <1>4, <1>5 DEF Lasting

-----------------------------------------------------------------------------
(* The theorems.                                                           *)

LEMMA InitHolds == Init => IInv
<1> SUFFICES ASSUME Init PROVE IInv
  OBVIOUS
<1>1. set \in Settings
  BY DEF Init
<1>2. Numbers /\ set.base \in Nat \ {0} /\ set.base <= LongestWait
  BY <1>1, NumbersHold, SetFacts
<1>3. Letters
  BY DEF Init, Letters, Messages
<1>4. Clocks
  BY <1>2 DEF Init, Clocks, Numbers, Off
<1>5. Ways
  BY <1>3, LettersWays
<1>6. toServer.what = "none" /\ toClient.what = "none" /\ toOld.what = "none"
  BY DEF Init, Nothing
<1>7. Roles /\ Paced /\ InTime /\ Fading /\ OldFading
  BY <1>6, <1>2 DEF Init, Roles, Paced, InTime, Healthy, Fading, OldFading, Off, Numbers
<1>8. OnTheWay
  BY <1>6, <1>2 DEF Init, OnTheWay, Numbers
<1> QED
  BY <1>1, <1>3, <1>4, <1>7, <1>8 DEF IInv, Typed, Lasting

\* Every handler, every fault of the network and every tick keeps the
\* invariant, whatever the settings and the delay of the messages.
LEMMA InductiveStep == IInv /\ [Next]_vars => IInv'
<1> SUFFICES ASSUME IInv, [Next]_vars PROVE Letters' /\ Clocks' /\ Lasting'
  BY SetStep DEF IInv, Typed
<1>1. Typed /\ Around
  BY AroundHolds DEF IInv
<1>2. CASE Connect
  BY <1>1, <1>2, ConnectStep
<1>3. CASE DialFails
  BY <1>1, <1>3, DialFailsStep
<1>4. CASE WaitEnds
  BY <1>1, <1>4, WaitEndsStep
<1>5. CASE LoginTimesOut
  BY <1>1, <1>5, LoginTimesOutStep
<1>6. CASE LoginAnswered
  BY <1>1, <1>6, LoginAnsweredStep
<1>7. CASE LoginRefused
  BY <1>1, <1>7, LoginRefusedStep
<1>8. CASE ClientHears
  BY <1>1, <1>8, ClientHearsStep
<1>9. CASE ClientSends
  BY <1>1, <1>9, ClientSendsStep
<1>10. CASE ClientGivesUp
  BY <1>1, <1>10, ClientGivesUpStep
<1>11. CASE ServerLogin
  BY <1>1, <1>11, ServerLoginStep
<1>12. CASE ServerHears
  BY <1>1, <1>12, ServerHearsStep
<1>13. CASE ServerSends
  BY <1>1, <1>13, ServerSendsStep
<1>14. CASE ServerGivesUp
  BY <1>1, <1>14, ServerGivesUpStep
<1>15. CASE ServerSeesClose
  BY <1>1, <1>15, ServerSeesCloseStep
<1>16. CASE ServerHearsOld
  BY <1>1, <1>16, ServerHearsOldStep
<1>17. CASE Lose
  BY <1>1, <1>17, LoseStep
<1>18. CASE LoseOld
  BY <1>1, <1>18, LoseOldStep
<1>19. CASE NetDown
  BY <1>1, <1>19, NetDownStep
<1>20. CASE NetUp
  BY <1>1, <1>20, NetUpStep
<1>21. CASE Tick
  BY <1>1, <1>21, TickStep
<1>22. CASE UNCHANGED vars
  BY <1>1, <1>22, StutterStep
<1> QED
  BY <1>2, <1>3, <1>4, <1>5, <1>6, <1>7, <1>8, <1>9, <1>10, <1>11, <1>12, <1>13, <1>14,
     <1>15, <1>16, <1>17, <1>18, <1>19, <1>20, <1>21, <1>22 DEF Next, Handlers

\* In every behaviour of the two ends, the network and the clock the
\* inductive invariant holds.
THEOREM Inductive == Spec => []IInv
<1>1. Init => IInv
  BY InitHolds
<1>2. IInv /\ [Next]_vars => IInv'
  BY InductiveStep
<1> QED
  BY <1>1, <1>2, PTL DEF Spec

\* Every timer stays within what it was set for, and every message on its way
\* is one its receiver can meet (the timers of internal/client/client.go and
\* internal/server/control.go).
THEOREM TypeInvariant == Spec => []TypeOK
<1>1. IInv => TypeOK
  BY TypedIsTypeOK DEF IInv
<1> QED
  BY <1>1, Inductive, PTL

LEMMA HealthyStep ==
  IInv /\ [Next]_vars => (Compatible /\ Healthy => Healthy' \/ lostFor' > 0)
<1> SUFFICES ASSUME IInv, [Next]_vars, Compatible, Healthy
             PROVE  Healthy' \/ lostFor' > 0
  OBVIOUS
<1>1. Typed /\ Around
  BY AroundHolds DEF IInv
<1>2. Numbers /\ Clocks /\ Ways /\ Roles /\ Paced /\ InTime
  BY <1>1 DEF Around, Lasting
<1>3. client = "serve" /\ held = "cur" /\ up /\ down
  BY DEF Healthy
<1>4. 0 < cDue /\ 0 < sDue /\ toClient.what # "fin"
  BY <1>2, <1>3 DEF InTime, Roles, Ways, Clocks, Numbers, Healthy, Off
<1>5. UNCHANGED <<client, held, up, down>> \/ lostFor' > 0
  <2>1. CASE ClientHears \/ ClientSends \/ ServerHears \/ ServerSends
    BY <2>1 DEF ClientHears, ClientSends, ServerHears, ServerSends, clientVars, serverVars, lineVars
  <2>2. CASE ServerLogin
    BY <1>3, <2>2 DEF ServerLogin, clientVars, serverVars, lineVars
  <2>3. CASE Lose
    BY <2>3 DEF Lose, LoseDirections
  <2>4. CASE NetDown
    BY <1>3, <2>4 DEF NetDown, LoseDirections
  <2>5. CASE LoseOld
    BY <2>5 DEF LoseOld, clientVars, serverVars, lineVars
  <2>6. CASE NetUp
    BY <2>6 DEF NetUp, clientVars, serverVars, lineVars
  <2>7. CASE Tick
    BY <2>7 DEF Tick, lineVars
  <2>8. CASE UNCHANGED vars
    BY <2>8 DEF vars, clientVars, serverVars, lineVars
  <2>9. ~(ClientGivesUp \/ ServerGivesUp \/ ServerSeesClose \/ ServerHearsOld)
    BY <1>3, <1>4 DEF ClientGivesUp, ServerGivesUp, ServerSeesClose, ServerHearsOld
  <2>10. ~(Connect \/ DialFails \/ WaitEnds \/ LoginTimesOut \/ LoginAnswered \/ LoginRefused)
    BY <1>3 DEF Connect, DialFails, WaitEnds, LoginTimesOut, LoginAnswered, LoginRefused
  <2> QED
    BY <2>1, <2>2, <2>3, <2>4, <2>5, <2>6, <2>7, <2>8, <2>9, <2>10 DEF Next, Handlers
<1> QED
  BY <1>3, <1>5 DEF Healthy

\* With settings that satisfy Compatible a link that works in both directions
\* is given up by neither end, for any delay of the messages below a tick of
\* either ticker (controlReadTimeout and readLoop).
THEOREM HealthyKeptHolds == Spec => HealthyKept
<1>1. IInv /\ [Next]_vars => [Compatible /\ Healthy => Healthy' \/ lostFor' > 0]_vars
  BY HealthyStep
<1> QED
  BY <1>1, Inductive, PTL DEF Spec, HealthyKept

\* No direction of a connection stays lost longer than the longest deadline
\* and two messages without both ends being rid of it (readLoop,
\* controlReadTimeout and the login deadline of connectAndServe).
THEOREM LossNoticedHolds == Spec => []LossNoticed
<1>1. IInv => LossNoticed
  <2> SUFFICES ASSUME IInv PROVE LossNoticed
    OBVIOUS
  <2>1. Numbers /\ Clocks /\ Ways /\ Roles /\ Fading /\ OldFading
    BY NumbersHold, LettersWays DEF IInv, Typed, Lasting
  <2>2. lostFor <= LossLimit + 1
    <3>1. CASE lostFor = 0
      BY <2>1, <3>1 DEF Numbers
    <3>2. CASE ~down
      BY <2>1, <3>2 DEF Numbers, Clocks, Ways, Roles, Fading, Off
    <3>3. CASE down /\ ~up
      BY <2>1, <3>3 DEF Numbers, Clocks, Ways, Roles, Fading, Off
    <3> QED
      BY <2>1, <3>1, <3>2, <3>3 DEF Roles
  <2>3. oldLostFor <= LossLimit + 1
    BY <2>1 DEF Numbers, Clocks, Ways, Roles, OldFading
  <2> QED
    BY <2>2, <2>3 DEF LossNoticed
<1> QED
  BY <1>1, Inductive, PTL

\* While the network works and the server holds no old connection the client
\* is served again within one dial, the longest wait and one login (runLoop).
THEOREM BackSoonHolds == Spec => []BackSoon
<1>1. IInv => BackSoon
  <2> SUFFICES ASSUME IInv, 2 * Delay < set.dial PROVE calm <= SoonLimit
    BY DEF BackSoon, SoonLimit
  <2>1. Numbers /\ Clocks /\ Ways /\ Roles /\ OnTheWay
    BY NumbersHold, LettersWays DEF IInv, Typed, Lasting
  <2> QED
    BY <2>1 DEF Numbers, Clocks, Ways, Roles, OnTheWay, SoonLimit, Off
<1> QED
  BY <1>1, Inductive, PTL
=============================================================================
