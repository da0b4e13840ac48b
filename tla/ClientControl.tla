--------------------------- MODULE ClientControl ---------------------------
(***************************************************************************)
(* The client's life (internal/client/client.go, and openWorkConn's users  *)
(* in internal/client/proxy.go): the reconnect loop, one control           *)
(* connection at a time, the goroutines that carry work connections, and   *)
(* Stop. The server is what the client sees of it: it registers the id of  *)
(* a login or refuses it because the id is taken, and frees the id when it *)
(* notices that the connection is gone.                                    *)
(*                                                                         *)
(* A link works, or it is broken and neither end hears the other; each end *)
(* then learns of it from its read timeout alone. Heartbeats are messages  *)
(* that wake controlLoop; the lengths of the timeouts are not modelled.    *)
(***************************************************************************)
EXTENDS Naturals, FiniteSets

CONSTANTS Works,      \* BOUND: goroutines that handle a NewProxy notice
          MaxFaults,  \* BOUND: failures of network or server during a run
          Base,       \* reconnect_interval
          Cap,        \* maxReconnectInterval
          Other       \* another client configured with the same id

Attempts == 1..(MaxFaults + 1)   \* every attempt but the last ends in a fault
Nil == 0

ASSUME ClientAssumption ==
  /\ MaxFaults \in Nat /\ Base \in Nat \ {0} /\ Cap \in Nat \ {0}
  /\ Other \notin Attempts \cup {Nil}

VARIABLES
  loop,      \* progress of runLoop and of connectAndServe inside it
  cur,       \* the attempt it is at
  backoff,
  conn,      \* Client.conn
  done,      \* Client.done is closed
  fatal,     \* Client.fatalErr is set
  stop,      \* progress of Stop
  stopConn,  \* the connection Stop read
  cli,       \* the client's end of each control connection
  link,      \* works or not
  srv,       \* the server's handler of each control connection
  reply,     \* the login response on its way
  holder,    \* who has the id in the server's table
  work,      \* progress of each handleNewProxy
  of,        \* the control connection its notice came on
  wEnd,      \* the client's end of its work connection
  workConns, \* Client.workConns
  loopDrain, \* connections closeWorkConns, called by the loop, has still to close
  stopDrain, \* the same, called by Stop
  faults

loopVars == <<loop, cur, backoff, conn>>
endVars  == <<done, fatal, stop, stopConn>>
linkVars == <<cli, link>>
srvVars  == <<srv, reply, holder>>
workVars == <<work, of, wEnd, workConns, loopDrain, stopDrain>>
vars == <<loopVars, endVars, linkVars, srvVars, workVars, faults>>

Init ==
  /\ loop = "top" /\ cur = Nil /\ backoff = Base /\ conn = Nil
  /\ done = FALSE /\ fatal = FALSE /\ stop = "no" /\ stopConn = Nil
  /\ cli = [k \in Attempts |-> "none"]
  /\ link = [k \in Attempts |-> "up"]
  /\ srv = [k \in Attempts |-> "none"]
  /\ reply = [k \in Attempts |-> "none"]
  /\ holder = Nil
  /\ work = [w \in Works |-> "none"]
  /\ of = [w \in Works |-> Nil]
  /\ wEnd = [w \in Works |-> "none"]
  /\ workConns = {} /\ loopDrain = {} /\ stopDrain = {}
  /\ faults = 0

Fault == faults < MaxFaults /\ faults' = faults + 1

Smaller(a, b) == IF a <= b THEN a ELSE b

-----------------------------------------------------------------------------
(* Plausible mistakes, each the changed form of the action it is named     *)
(* for; no specification uses them.                                        *)

\* The reset of the backoff loses the configured interval.
OverResetsToZero ==
  /\ loop = "over" /\ ~done
  /\ loop' = "wait"
  /\ backoff' \in {0, Smaller(2 * backoff, Cap)}
  /\ UNCHANGED <<cur, conn, endVars, linkVars, srvVars, workVars, faults>>

\* A refused login returns without closing the connection.
AnsweredLeavesOpen ==
  /\ loop = "login"
  /\ \/ reply[cur] = "ok" /\ loop' = "publish"
     \/ reply[cur] = "exists" /\ loop' = "refused"
     \/ reply[cur] = "error" /\ loop' = "over"
  /\ UNCHANGED <<cur, backoff, conn, endVars, linkVars, srvVars, workVars, faults>>

\* runLoop ends with the connection that ended.
OverGivesUp ==
  /\ loop = "over"
  /\ loop' = "exited"
  /\ UNCHANGED <<cur, backoff, conn, endVars, linkVars, srvVars, workVars, faults>>

\* controlLoop looks at done only after a message.
CheckNothing ==
  /\ loop = "check"
  /\ loop' = "serve"
  /\ UNCHANGED <<cur, backoff, conn, endVars, linkVars, srvVars, workVars, faults>>

\* controlLoop without a read timeout.
ReadWithoutTimeout ==
  /\ loop = "serve"
  /\ cli[cur] = "closed" \/ (srv[cur] = "gone" /\ link[cur] = "up")
  /\ loop' = "unset"
  /\ UNCHANGED <<cur, backoff, conn, endVars, linkVars, srvVars, workVars, faults>>

\* closeWorkConns replaces the table and forgets what it held.
LoopForgets ==
  /\ loop = "take"
  /\ workConns' = {}
  /\ loop' = "drain"
  /\ UNCHANGED <<cur, backoff, conn, endVars, linkVars, srvVars, work, of, wEnd, loopDrain,
                 stopDrain, faults>>

\* Stop does not wait for runLoop.
StopWithoutWait ==
  /\ stop = "wait"
  /\ stop' = "returned"
  /\ UNCHANGED <<loopVars, done, fatal, stopConn, linkVars, srvVars, workVars, faults>>

-----------------------------------------------------------------------------
(* runLoop                                                                 *)

Top ==
  /\ loop = "top"
  /\ loop' = IF done THEN "exited" ELSE "dial"
  /\ UNCHANGED <<cur, backoff, conn, endVars, linkVars, srvVars, workVars, faults>>

\* connectAndServe returned; a run of a minute or more resets the backoff.
Over ==
  /\ loop = "over"
  /\ \/ /\ done
        /\ loop' = "exited" /\ UNCHANGED backoff
     \/ /\ ~done
        /\ loop' = "wait"
        /\ backoff' \in {Base, Smaller(2 * backoff, Cap)}
  /\ UNCHANGED <<cur, conn, endVars, linkVars, srvVars, workVars, faults>>

\* The timer or done; when both are ready either is taken.
Wait ==
  /\ loop = "wait"
  /\ \/ loop' = "top"
     \/ done /\ loop' = "exited"
  /\ UNCHANGED <<cur, backoff, conn, endVars, linkVars, srvVars, workVars, faults>>

\* exitOnFatal: the error first, then the signal.
SetFatal ==
  /\ loop = "refused"
  /\ fatal' = TRUE
  /\ loop' = "fatal"
  /\ UNCHANGED <<cur, backoff, conn, done, stop, stopConn, linkVars, srvVars, workVars,
                 faults>>

CloseDone ==
  /\ loop = "fatal"
  /\ done' = TRUE
  /\ loop' = "exited"
  /\ UNCHANGED <<cur, backoff, conn, fatal, stop, stopConn, linkVars, srvVars, workVars,
                 faults>>

-----------------------------------------------------------------------------
(* connectAndServe                                                         *)

\* The connection stands and the login is sent.
Dial ==
  /\ loop = "dial" /\ cur + 1 \in Attempts
  /\ cur' = cur + 1
  /\ cli' = [cli EXCEPT ![cur + 1] = "open"]
  /\ loop' = "login"
  /\ UNCHANGED <<backoff, conn, endVars, link, srvVars, workVars, faults>>

DialFails ==
  /\ loop = "dial" /\ Fault
  /\ loop' = "over"
  /\ UNCHANGED <<cur, backoff, conn, endVars, linkVars, srvVars, workVars>>

LoginAnswered ==
  /\ loop = "login"
  /\ \/ /\ reply[cur] = "ok"
        /\ loop' = "publish" /\ UNCHANGED cli
     \/ /\ reply[cur] = "exists"
        /\ loop' = "refused" /\ cli' = [cli EXCEPT ![cur] = "closed"]
     \/ /\ reply[cur] = "error"
        /\ loop' = "over" /\ cli' = [cli EXCEPT ![cur] = "closed"]
  /\ UNCHANGED <<cur, backoff, conn, endVars, link, srvVars, workVars, faults>>

\* The read deadline of the login: nothing comes over a broken link, and a
\* server may be too slow.
LoginTimesOut ==
  /\ loop = "login"
  /\ \/ link[cur] = "broken" /\ UNCHANGED faults
     \/ link[cur] = "up" /\ Fault
  /\ cli' = [cli EXCEPT ![cur] = "closed"]
  /\ loop' = "over"
  /\ UNCHANGED <<cur, backoff, conn, endVars, link, srvVars, workVars>>

Publish ==
  /\ loop = "publish"
  /\ conn' = cur
  /\ loop' = "check"
  /\ UNCHANGED <<cur, backoff, endVars, linkVars, srvVars, workVars, faults>>

\* The top of controlLoop.
CheckDone ==
  /\ loop = "check"
  /\ loop' = IF done THEN "unset" ELSE "serve"
  /\ UNCHANGED <<cur, backoff, conn, endVars, linkVars, srvVars, workVars, faults>>

Heard == cli[cur] = "open" /\ link[cur] = "up" /\ srv[cur] = "online"

\* A heartbeat.
Heartbeat ==
  /\ loop = "serve" /\ Heard
  /\ loop' = "check"
  /\ UNCHANGED <<cur, backoff, conn, endVars, linkVars, srvVars, workVars, faults>>

Notice(w) ==
  /\ loop = "serve" /\ Heard /\ work[w] = "none"
  /\ work' = [work EXCEPT ![w] = "spawned"]
  /\ of' = [of EXCEPT ![w] = cur]
  /\ loop' = "check"
  /\ UNCHANGED <<cur, backoff, conn, endVars, linkVars, srvVars, wEnd, workConns,
                 loopDrain, stopDrain, faults>>

\* Stop closed the connection, the server did, or the read timed out.
ReadFails ==
  /\ loop = "serve"
  /\ cli[cur] = "closed" \/ link[cur] = "broken" \/ srv[cur] = "gone"
  /\ loop' = "unset"
  /\ UNCHANGED <<cur, backoff, conn, endVars, linkVars, srvVars, workVars, faults>>

\* The deferred cleanup.
Unset ==
  /\ loop = "unset"
  /\ conn' = IF conn = cur THEN Nil ELSE conn
  /\ loop' = "shut"
  /\ UNCHANGED <<cur, backoff, endVars, linkVars, srvVars, workVars, faults>>

Shut ==
  /\ loop = "shut"
  /\ cli' = [cli EXCEPT ![cur] = "closed"]
  /\ loop' = "take"
  /\ UNCHANGED <<cur, backoff, conn, endVars, link, srvVars, workVars, faults>>

\* closeWorkConns: the table is replaced under the lock ...
LoopTakes ==
  /\ loop = "take"
  /\ loopDrain' = workConns /\ workConns' = {}
  /\ loop' = "drain"
  /\ UNCHANGED <<cur, backoff, conn, endVars, linkVars, srvVars, work, of, wEnd, stopDrain,
                 faults>>

\* ... and what it held is closed without the lock.
LoopDrains ==
  /\ loop = "drain"
  /\ \/ /\ loopDrain = {} /\ loop' = "over"
        /\ UNCHANGED <<loopDrain, wEnd>>
     \/ /\ UNCHANGED loop
        /\ \E w \in loopDrain : /\ loopDrain' = loopDrain \ {w}
                                /\ wEnd' = [wEnd EXCEPT ![w] = "closed"]
  /\ UNCHANGED <<cur, backoff, conn, endVars, linkVars, srvVars, work, of, workConns,
                 stopDrain, faults>>

-----------------------------------------------------------------------------
(* handleNewProxy: one goroutine for each notice, and nobody waits for it. *)

WorkChecks(w) ==
  /\ work[w] = "spawned"
  /\ work' = [work EXCEPT ![w] = IF done THEN "ended" ELSE "dial"]
  /\ UNCHANGED <<loopVars, endVars, linkVars, srvVars, of, wEnd, workConns, loopDrain,
                 stopDrain, faults>>

\* The server pairs the connection; its response is on the way.
WorkPaired(w) ==
  /\ work[w] = "dial" /\ srv[of[w]] = "online"
  /\ work' = [work EXCEPT ![w] = "paired"]
  /\ wEnd' = [wEnd EXCEPT ![w] = "open"]
  /\ UNCHANGED <<loopVars, endVars, linkVars, srvVars, of, workConns, loopDrain, stopDrain,
                 faults>>

\* The local service or the server is out of reach, or the server refuses.
WorkFails(w) ==
  /\ work[w] \in {"dial", "paired"}
  /\ work' = [work EXCEPT ![w] = "ended"]
  /\ wEnd' = [wEnd EXCEPT ![w] = IF @ = "open" THEN "closed" ELSE @]
  /\ UNCHANGED <<loopVars, endVars, linkVars, srvVars, of, workConns, loopDrain, stopDrain,
                 faults>>

\* openWorkConn has the response; trackWorkConn.
WorkTracks(w) ==
  /\ work[w] = "paired"
  /\ workConns' = workConns \cup {w}
  /\ work' = [work EXCEPT ![w] = "joined"]
  /\ UNCHANGED <<loopVars, endVars, linkVars, srvVars, of, wEnd, loopDrain, stopDrain,
                 faults>>

\* Join returns, because one end was closed or both sides finished.
WorkLeaves(w) ==
  /\ work[w] = "joined"
  /\ work' = [work EXCEPT ![w] = "untrack"]
  /\ wEnd' = [wEnd EXCEPT ![w] = "closed"]
  /\ UNCHANGED <<loopVars, endVars, linkVars, srvVars, of, workConns, loopDrain, stopDrain,
                 faults>>

Untrack(w) ==
  /\ work[w] = "untrack"
  /\ workConns' = workConns \ {w}
  /\ work' = [work EXCEPT ![w] = "ended"]
  /\ UNCHANGED <<loopVars, endVars, linkVars, srvVars, of, wEnd, loopDrain, stopDrain,
                 faults>>

-----------------------------------------------------------------------------
(* Stop                                                                    *)

StopMark ==
  /\ stop = "no"
  /\ done' = TRUE
  /\ stop' = "marked"
  /\ UNCHANGED <<loopVars, fatal, stopConn, linkVars, srvVars, workVars, faults>>

StopReads ==
  /\ stop = "marked"
  /\ stopConn' = conn
  /\ stop' = "read"
  /\ UNCHANGED <<loopVars, done, fatal, linkVars, srvVars, workVars, faults>>

StopCloses ==
  /\ stop = "read"
  /\ cli' = [k \in Attempts |-> IF k = stopConn THEN "closed" ELSE cli[k]]
  /\ stop' = "take"
  /\ UNCHANGED <<loopVars, done, fatal, stopConn, link, srvVars, workVars, faults>>

StopTakes ==
  /\ stop = "take"
  /\ stopDrain' = workConns /\ workConns' = {}
  /\ stop' = "drain"
  /\ UNCHANGED <<loopVars, done, fatal, stopConn, linkVars, srvVars, work, of, wEnd,
                 loopDrain, faults>>

StopDrains ==
  /\ stop = "drain"
  /\ \/ /\ stopDrain = {} /\ stop' = "wait"
        /\ UNCHANGED <<stopDrain, wEnd>>
     \/ /\ UNCHANGED stop
        /\ \E w \in stopDrain : /\ stopDrain' = stopDrain \ {w}
                                /\ wEnd' = [wEnd EXCEPT ![w] = "closed"]
  /\ UNCHANGED <<loopVars, done, fatal, stopConn, linkVars, srvVars, work, of, workConns,
                 loopDrain, faults>>

StopReturns ==
  /\ stop = "wait" /\ loop = "exited"
  /\ stop' = "returned"
  /\ UNCHANGED <<loopVars, done, fatal, stopConn, linkVars, srvVars, workVars, faults>>

-----------------------------------------------------------------------------
(* The server and the network.                                             *)

\* The login reaches a handler, the client may have given up meanwhile.
ServerAccepts(k) ==
  /\ srv[k] = "none" /\ cli[k] # "none" /\ link[k] = "up"
  /\ srv' = [srv EXCEPT ![k] = "login"]
  /\ UNCHANGED <<loopVars, endVars, linkVars, reply, holder, workVars, faults>>

Sent(k, code) == reply' = [reply EXCEPT ![k] = IF link[k] = "up" THEN code ELSE "lost"]

ServerRegisters(k) ==
  /\ srv[k] = "login" /\ holder = Nil
  /\ holder' = k
  /\ srv' = [srv EXCEPT ![k] = "online"]
  /\ Sent(k, "ok")
  /\ UNCHANGED <<loopVars, endVars, linkVars, workVars, faults>>

ServerHasIt(k) ==
  /\ srv[k] = "login" /\ holder # Nil
  /\ srv' = [srv EXCEPT ![k] = "gone"]
  /\ Sent(k, "exists")
  /\ UNCHANGED <<loopVars, endVars, linkVars, holder, workVars, faults>>

\* A port is taken, the server is full or stopping.
ServerRefuses(k) ==
  /\ srv[k] = "login" /\ Fault
  /\ srv' = [srv EXCEPT ![k] = "gone"]
  /\ Sent(k, "error")
  /\ UNCHANGED <<loopVars, endVars, linkVars, holder, workVars>>

\* readLoop sees the end of the connection, or its own timeout.
ServerNotices(k) ==
  /\ srv[k] = "online" /\ (cli[k] = "closed" \/ link[k] = "broken")
  /\ srv' = [srv EXCEPT ![k] = "gone"]
  /\ holder' = Nil
  /\ UNCHANGED <<loopVars, endVars, linkVars, reply, workVars, faults>>

\* The server closes a connection that works.
ServerDrops(k) ==
  /\ srv[k] = "online" /\ Fault
  /\ srv' = [srv EXCEPT ![k] = "gone"]
  /\ holder' = Nil
  /\ UNCHANGED <<loopVars, endVars, linkVars, reply, workVars>>

LinkBreaks(k) ==
  /\ cli[k] = "open" /\ link[k] = "up" /\ Fault
  /\ link' = [link EXCEPT ![k] = "broken"]
  /\ UNCHANGED <<loopVars, endVars, cli, srvVars, workVars>>

OtherLogsIn ==
  /\ holder = Nil
  /\ holder' = Other
  /\ UNCHANGED <<loopVars, endVars, linkVars, srv, reply, workVars, faults>>

OtherLeaves ==
  /\ holder = Other
  /\ holder' = Nil
  /\ UNCHANGED <<loopVars, endVars, linkVars, srv, reply, workVars, faults>>

-----------------------------------------------------------------------------
LoopStep ==
  \/ Top \/ Over \/ Wait \/ SetFatal \/ CloseDone
  \/ Dial \/ LoginAnswered \/ Publish \/ CheckDone \/ ReadFails
  \/ Unset \/ Shut \/ LoopTakes \/ LoopDrains

WorkStep(w) ==
  WorkChecks(w) \/ WorkPaired(w) \/ WorkFails(w) \/ WorkTracks(w) \/ Untrack(w)

StopStep == StopReads \/ StopCloses \/ StopTakes \/ StopDrains \/ StopReturns

ServerStep(k) ==
  ServerAccepts(k) \/ ServerRegisters(k) \/ ServerHasIt(k) \/ ServerNotices(k)

Next ==
  \/ LoopStep \/ DialFails \/ LoginTimesOut \/ Heartbeat
  \/ \E w \in Works : Notice(w) \/ WorkStep(w) \/ WorkLeaves(w)
  \/ StopMark \/ StopStep
  \/ \E k \in Attempts :
       ServerStep(k) \/ ServerRefuses(k) \/ ServerDrops(k) \/ LinkBreaks(k)
  \/ OtherLogsIn \/ OtherLeaves

Spec == Init /\ [][Next]_vars

\* Goroutines and the server run, deadlines expire. Nothing obliges the link
\* to break, a message to come, a session to end or anyone to stop.
Fairness ==
  /\ WF_vars(LoopStep) /\ WF_vars(StopStep)
  /\ WF_vars(loop = "login" /\ link[cur] = "broken" /\ LoginTimesOut)
  /\ \A w \in Works : WF_vars(WorkStep(w))
  /\ \A k \in Attempts : WF_vars(ServerStep(k))

FairSpec == Spec /\ Fairness

-----------------------------------------------------------------------------
Serving == {"check", "serve", "unset", "shut", "take", "drain"}

\* The values of the client's state; the backoff is never zero.
TypeOK ==
  /\ loop \in {"top", "over", "wait", "refused", "fatal", "exited", "dial", "login",
               "publish"} \cup Serving
  /\ cur \in Attempts \cup {Nil} /\ backoff \in Nat \ {0}
  /\ conn \in Attempts \cup {Nil} /\ stopConn \in Attempts \cup {Nil}
  /\ done \in BOOLEAN /\ fatal \in BOOLEAN
  /\ stop \in {"no", "marked", "read", "take", "drain", "wait", "returned"}
  /\ cli \in [Attempts -> {"none", "open", "closed"}]
  /\ link \in [Attempts -> {"up", "broken"}]
  /\ srv \in [Attempts -> {"none", "login", "online", "gone"}]
  /\ reply \in [Attempts -> {"none", "ok", "exists", "error", "lost"}]
  /\ holder \in Attempts \cup {Nil, Other}
  /\ work \in [Works -> {"none", "spawned", "dial", "paired", "joined", "untrack", "ended"}]
  /\ of \in [Works -> Attempts \cup {Nil}]
  /\ wEnd \in [Works -> {"none", "open", "closed"}]
  /\ workConns \subseteq Works /\ loopDrain \subseteq Works /\ stopDrain \subseteq Works
  /\ faults \in 0..MaxFaults

\* The client never has two control connections: an open one belongs to the
\* attempt runLoop is in, and Client.conn never names another.
OneControl ==
  /\ \A k \in Attempts : cli[k] = "open" =>
       k = cur /\ loop \in {"login", "publish", "check", "serve", "unset", "shut"}
  /\ conn # Nil => conn = cur /\ loop \in {"check", "serve", "unset"}

\* No work connection falls between the table and the two goroutines that
\* empty it: while it carries data it is where a cleanup finds it. That none is
\* tracked after the last cleanup is another matter, WorkEndsWithControl.
JoinedKept ==
  \A w \in Works : work[w] = "joined" /\ wEnd[w] = "open" =>
    w \in workConns \cup loopDrain \cup stopDrain

\* "关闭控制连接 ... 并退出重连循环" (Stop): whenever Stop came, also while a login
\* was under way that Stop could not see.
StoppedQuiet ==
  stop = "returned" =>
    loop = "exited" /\ conn = Nil /\ \A k \in Attempts : cli[k] # "open"

\* "控制连接断开后，残留的工作连接已无意义，需一并回收" (connectAndServe): a work
\* connection does not outlive the cleanup after its control connection.
WorkEndsWithControl ==
  \A w \in Works : work[w] = "joined" /\ wEnd[w] = "open" =>
    of[w] = cur /\ loop \in Serving

\* Stop, whenever it is called, returns: it closes the connection it sees,
\* and controlLoop's check finds the signal when it saw none.
StopEnds == stop = "marked" ~> stop = "returned"

\* A link that broke without a word is given up by both ends, so that the
\* server frees the id.
HalfOpenEnds ==
  \A k \in Attempts :
    link[k] = "broken" ~> cli[k] = "closed" /\ srv[k] \in {"none", "gone"}

\* "断线后 ... 自动重连，直至被停止" (runLoop): after a lost connection the client
\* serves again, unless it was told to end, by Stop or by a refusal.
Reconnects == loop = "over" ~> loop = "serve" \/ done
=============================================================================
