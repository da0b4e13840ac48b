------------------------------ MODULE UdpTunnel ------------------------------
(***************************************************************************)
(* A UDP mapping with both ends of its tunnels: UdpSession for the server  *)
(* and, for each session, handleUDPWorkConn of the client                  *)
(* (internal/client/proxy.go) with its local socket, its end of the tunnel *)
(* and its two copying goroutines. The ends meet in the notice a session   *)
(* sends, in the work connection and in the datagrams on it.               *)
(*                                                                         *)
(* Buffers of TCP are not limited, and a datagram sent to the local        *)
(* service arrives unless the socket refuses it.                           *)
(***************************************************************************)
EXTENDS UdpSession

CONSTANT MaxReplies  \* BOUND: replies of a session in its tunnel at a time

ASSUME UdpTunnelAssumption == MaxReplies \in Nat \ {0}

VARIABLES
  handler,   \* progress of handleUDPWorkConn
  local,     \* its socket to the local service
  workEnd,   \* the client's end of the tunnel
  delivered, \* the work connection is in pend.ch, or was
  inward,    \* tunnelToLocal
  outward,   \* localToTunnel
  taken,     \* frames tunnelToLocal has read
  toLocal,   \* datagrams the local service got
  back,      \* replies written to the tunnel and not read
  workConns  \* the sessions whose work connection is in Client.workConns

dialVars == <<handler, local, workEnd, delivered>>
copyVars == <<inward, outward, taken, toLocal, back>>
clientVars == <<dialVars, copyVars, workConns>>
tunnelVars == <<vars, clientVars>>

TunnelInit ==
  /\ Init
  /\ handler = [s \in Sess |-> "none"]
  /\ local = [s \in Sess |-> "none"] /\ workEnd = [s \in Sess |-> "none"]
  /\ delivered = [s \in Sess |-> FALSE]
  /\ inward = [s \in Sess |-> "none"] /\ outward = [s \in Sess |-> "none"]
  /\ taken = [s \in Sess |-> 0] /\ toLocal = [s \in Sess |-> <<>>]
  /\ back = [s \in Sess |-> 0]
  /\ workConns = {}

\* The server's end is closed: by the session, or by releasePending if the
\* session had stopped waiting.
ServerEndClosed(s) ==
  \/ tunnel[s] = "closed"
  \/ delivered[s] /\ tunnel[s] = "none" /\ run[s] # "dial"

-----------------------------------------------------------------------------
(* Plausible mistakes, each the changed form of the action it is named     *)
(* for; no specification uses them.                                        *)

\* handleUDPWorkConn that returns after the first direction.
EndsAfterOne(s) ==
  /\ handler[s] = "second"
  /\ handler' = [handler EXCEPT ![s] = "ended"]
  /\ local' = [local EXCEPT ![s] = "closed"]
  /\ workConns' = workConns \ {s}
  /\ UNCHANGED <<vars, workEnd, delivered, copyVars>>

\* tunnelToLocal that skips a datagram the socket refuses.
ToLocalSkips(s) ==
  /\ inward[s] = "run" /\ workEnd[s] = "open" /\ taken[s] < Len(frames[s])
  /\ taken' = [taken EXCEPT ![s] = @ + 1]
  /\ \/ /\ local[s] = "open"
        /\ toLocal' = [toLocal EXCEPT ![s] = Append(@, frames[s][taken'[s]])]
     \/ UNCHANGED toLocal
  /\ UNCHANGED <<vars, dialVars, inward, outward, back, workConns>>

\* tunnelToLocal that reads on into the buffer it has still to write.
ToLocalReuses(s) ==
  /\ inward[s] = "run" /\ workEnd[s] = "open" /\ taken[s] < Len(frames[s])
  /\ local[s] = "open"
  /\ taken' = [taken EXCEPT ![s] = @ + 1]
  /\ toLocal' = [toLocal EXCEPT ![s] = Append(@, frames[s][Len(frames[s])])]
  /\ UNCHANGED <<vars, dialVars, inward, outward, back, workConns>>

\* handleUDPWorkConn that leaves the local socket to its defer.
ShutLocalNot(s) ==
  /\ handler[s] = "forward" /\ "ended" \in {inward[s], outward[s]}
  /\ workEnd' = [workEnd EXCEPT ![s] = "closed"]
  /\ handler' = [handler EXCEPT ![s] = "second"]
  /\ UNCHANGED <<vars, local, delivered, copyVars, workConns>>

-----------------------------------------------------------------------------
(* handleUDPWorkConn: one goroutine for each notice.                       *)

\* The notice is read, unless it was lost, and the local socket opened.
OpenLocal(s) ==
  /\ heard[s] /\ handler[s] = "none"
  /\ \/ handler' = [handler EXCEPT ![s] = "dial"] /\ local' = [local EXCEPT ![s] = "open"]
     \/ handler' = [handler EXCEPT ![s] = "ended"] /\ UNCHANGED local
  /\ UNCHANGED <<vars, workEnd, delivered, copyVars, workConns>>

\* openWorkConn, until it waits for the answer.
OpenWorkConn(s) ==
  /\ handler[s] = "dial"
  /\ \/ /\ handler' = [handler EXCEPT ![s] = "asked"]
        /\ workEnd' = [workEnd EXCEPT ![s] = "open"]
        /\ UNCHANGED local
     \/ /\ handler' = [handler EXCEPT ![s] = "ended"]
        /\ local' = [local EXCEPT ![s] = "closed"]
        /\ UNCHANGED workEnd
  /\ UNCHANGED <<vars, delivered, copyVars, workConns>>

\* The server's deliverWorkConn finds the session.
Delivered(s) ==
  /\ handler[s] = "asked" /\ run[s] = "dial" /\ ~delivered[s]
  /\ delivered' = [delivered EXCEPT ![s] = TRUE]
  /\ UNCHANGED <<vars, handler, local, workEnd, copyVars, workConns>>

\* The answer comes after the delivery; the goroutines start.
Answered(s) ==
  /\ handler[s] = "asked" /\ delivered[s]
  /\ handler' = [handler EXCEPT ![s] = "forward"]
  /\ inward' = [inward EXCEPT ![s] = "run"] /\ outward' = [outward EXCEPT ![s] = "run"]
  /\ workConns' = workConns \cup {s}
  /\ UNCHANGED <<vars, local, workEnd, delivered, taken, toLocal, back>>

\* A refusal, the read deadline or a broken connection.
AskFails(s) ==
  /\ handler[s] = "asked"
  /\ handler' = [handler EXCEPT ![s] = "ended"]
  /\ workEnd' = [workEnd EXCEPT ![s] = "closed"]
  /\ local' = [local EXCEPT ![s] = "closed"]
  /\ UNCHANGED <<vars, delivered, copyVars, workConns>>

\* One direction ended: close both ends, which releases the other direction.
Shut(s) ==
  /\ handler[s] = "forward" /\ "ended" \in {inward[s], outward[s]}
  /\ workEnd' = [workEnd EXCEPT ![s] = "closed"]
  /\ local' = [local EXCEPT ![s] = "closed"]
  /\ handler' = [handler EXCEPT ![s] = "second"]
  /\ UNCHANGED <<vars, delivered, copyVars, workConns>>

HandlerEnds(s) ==
  /\ handler[s] = "second" /\ inward[s] = "ended" /\ outward[s] = "ended"
  /\ handler' = [handler EXCEPT ![s] = "ended"]
  /\ local' = [local EXCEPT ![s] = "closed"]
  /\ workConns' = workConns \ {s}
  /\ UNCHANGED <<vars, workEnd, delivered, copyVars>>

-----------------------------------------------------------------------------
(* tunnelToLocal and localToTunnel                                         *)

ToLocal(s) ==
  /\ inward[s] = "run" /\ workEnd[s] = "open" /\ taken[s] < Len(frames[s])
  /\ taken' = [taken EXCEPT ![s] = @ + 1]
  /\ \/ /\ local[s] = "open"
        /\ toLocal' = [toLocal EXCEPT ![s] = Append(@, frames[s][taken'[s]])]
        /\ UNCHANGED inward
     \/ inward' = [inward EXCEPT ![s] = "ended"] /\ UNCHANGED toLocal
  /\ UNCHANGED <<vars, dialVars, outward, back, workConns>>

ToLocalEnds(s) ==
  /\ inward[s] = "run"
  /\ inward' = [inward EXCEPT ![s] = "ended"]
  /\ UNCHANGED <<vars, dialVars, outward, taken, toLocal, back, workConns>>

ToTunnel(s) ==
  /\ outward[s] = "run" /\ local[s] = "open" /\ workEnd[s] = "open"
  /\ back[s] < MaxReplies
  /\ back' = [back EXCEPT ![s] = @ + 1]
  /\ UNCHANGED <<vars, dialVars, inward, outward, taken, toLocal, workConns>>

\* The socket reports that the service refused a datagram, or is closed; or
\* the tunnel refuses the frame.
ToTunnelEnds(s) ==
  /\ outward[s] = "run"
  /\ outward' = [outward EXCEPT ![s] = "ended"]
  /\ UNCHANGED <<vars, dialVars, inward, taken, toLocal, back, workConns>>

\* The client's control connection ended, which the server may not know yet:
\* closeWorkConns, in one step; ClientControl has its two halves.
CleanUp ==
  /\ workConns # {}
  /\ workEnd' = [s \in Sess |-> IF s \in workConns THEN "closed" ELSE workEnd[s]]
  /\ workConns' = {}
  /\ UNCHANGED <<vars, handler, local, delivered, copyVars>>

-----------------------------------------------------------------------------
(* The server, where it meets the client.                                  *)

TunnelDelivered(s) ==
  /\ delivered[s] /\ TunnelArrives(s)
  /\ UNCHANGED clientVars

ReadReply(s) ==
  /\ back[s] > 0 /\ ReadFrame(s)
  /\ back' = [back EXCEPT ![s] = @ - 1]
  /\ UNCHANGED <<dialVars, inward, outward, taken, toLocal, workConns>>

Handler(s) ==
  OpenWorkConn(s) \/ Answered(s) \/ AskFails(s) \/ Shut(s) \/ HandlerEnds(s)

Client(s) ==
  \/ OpenLocal(s) \/ Handler(s) \/ Delivered(s)
  \/ ToLocal(s) \/ ToLocalEnds(s) \/ ToTunnel(s) \/ ToTunnelEnds(s)

TunnelNext ==
  \/ ServerNext /\ UNCHANGED clientVars
  \/ \E s \in Sess : Client(s) \/ TunnelDelivered(s) \/ ReadReply(s)
  \/ CleanUp

TunnelSpec == TunnelInit /\ [][TunnelNext]_tunnelVars

TunnelRunner(s) == (Runner(s) /\ UNCHANGED clientVars) \/ TunnelDelivered(s)

\* A turn of tunnelToLocal, while there is something to read.
Inward(s) ==
  \/ ToLocal(s)
  \/ ToLocalEnds(s) /\ (workEnd[s] = "closed" \/ ServerEndClosed(s))

\* Goroutines run, and a read of a connection that either side closed ends
\* (a close that does not arrive is found by TCP keepalive). Nothing obliges
\* anyone to send, to fall silent or to leave, nor a notice to arrive.
TunnelFairness ==
  /\ WF_vars(Loop) /\ WF_vars(ReapNext) /\ WF_vars(ProxyClose)
  /\ \A s \in Sess :
       /\ WF_tunnelVars(TunnelRunner(s))
       /\ WF_vars(Closing(s)) /\ WF_vars(Reap(s)) /\ WF_vars(ReaderEnds(s))
       /\ WF_vars("closed" \in {tunnel[s], workEnd[s]} /\ ReadTunnelFails(s))
       /\ WF_clientVars(Handler(s))
       /\ WF_clientVars(Inward(s))
       /\ WF_clientVars(local[s] = "closed" /\ ToTunnelEnds(s))

TunnelFairSpec == TunnelSpec /\ TunnelFairness

-----------------------------------------------------------------------------
\* The values of the client's state; goroutines run only in a handler that
\* waits for them, and a tracked connection belongs to one that forwards.
TunnelTypeOK ==
  /\ handler \in [Sess -> {"none", "dial", "asked", "forward", "second", "ended"}]
  /\ local \in [Sess -> {"none", "open", "closed"}]
  /\ workEnd \in [Sess -> {"none", "open", "closed"}]
  /\ delivered \in [Sess -> BOOLEAN]
  /\ inward \in [Sess -> {"none", "run", "ended"}]
  /\ outward \in [Sess -> {"none", "run", "ended"}]
  /\ taken \in [Sess -> Nat] /\ \A s \in Sess : taken[s] <= Len(frames[s])
  /\ toLocal \in [Sess -> Seq(1..MaxPkts)]
  /\ back \in [Sess -> 0..MaxReplies]
  /\ workConns \subseteq {s \in Sess : handler[s] \in {"forward", "second"}}
  /\ \A s \in Sess : "run" \in {inward[s], outward[s]} =>
                       handler[s] \in {"forward", "second"}

\* tunnelToLocal: the local service gets what the session wrote, from the
\* first datagram on and in that order, and while the goroutine runs nothing
\* it read is missing.
LocalPrefix ==
  \A s \in Sess :
    /\ \A i \in DOMAIN toLocal[s] :
         i \in DOMAIN frames[s] /\ toLocal[s][i] = frames[s][i]
    /\ inward[s] = "run" => Len(toLocal[s]) = taken[s]

\* After the mapping's close a session the receive loop was just creating is
\* torn down as well, though closeUDPSessions did not see it.
MappingDrains ==
  proxy = "done" ~>
    /\ proxy = "closed" /\ loop = "exited"
    /\ Live = {} /\ \A s \in Sess : tunnel[s] # "open"

\* A session one of whose directions ended, on either side, is taken out of
\* the table and its tunnel closed, so the source can start again; "任一方向
\* 结束后关闭双方以释放资源" (handleUDPWorkConn): the client's handler, both
\* its goroutines and its socket end as well.
SessionEnds ==
  \A s \in Sess :
    /\ Done(s) ~> cl[s] = "closed" /\ tunnel[s] # "open"
    /\ Done(s) /\ handler[s] # "none" ~>
         /\ handler[s] = "ended" /\ s \notin workConns
         /\ "open" \notin {local[s], workEnd[s]}
    /\ "ended" \in {inward[s], outward[s]} ~> Done(s)

\* "从而获得可靠、有序、不重复的投递" (handleUDPWorkConn): what a session has
\* queued reaches the local service unless the session ends.
QueuedDelivered ==
  \A s \in Sess, d \in 1..MaxPkts :
    (\E i \in DOMAIN queue[s] : queue[s][i] = d) ~>
      Done(s) \/ \E i \in DOMAIN toLocal[s] : toLocal[s][i] = d
=============================================================================
