---------------------------- MODULE Rendezvous ----------------------------
(***************************************************************************)
(* How the server of netunnel pairs a public TCP connection with a work    *)
(* connection dialled by the client (internal/server/control.go and        *)
(* proxy.go, internal/client/proxy.go), for one port mapping.              *)
(*                                                                         *)
(* A public session registers itself in s.pending, queues a notice on the  *)
(* owner's control connection and waits; the client's handler of the       *)
(* notice dials a work connection that names the session; the server's     *)
(* handler of that connection hands it over through the session's channel  *)
(* and answers the client on the same connection.                          *)
(*                                                                         *)
(* One action is one critical section, channel operation or socket write.  *)
(* The duration of a timeout is abstracted: it may expire at any moment.   *)
(* p.closed of a pending entry is left out: it is set in the critical      *)
(* section that removes the entry from the map, so no lookup sees it.      *)
(***************************************************************************)
EXTENDS Naturals, Sequences

CONSTANTS Sessions,   \* public connections; each has its own random session id
          WorkConns,  \* work connections, one for each run of a client handler
          None,       \* no session or no connection
          SendCap,    \* capacity of client.sendCh (64 in the code)
          SockBuf     \* BOUND: forwarding stops while this much is unread

ASSUME RendezvousAssumption ==
  /\ None \notin Sessions
  /\ None \notin WorkConns
  /\ SendCap \in Nat \ {0}
  /\ SockBuf \in Nat

VARIABLES
  owner,    \* the client that owns the mapping, as the server sees it
  proxy,    \* the mapping: "open", "closing" (done closed), "closed" (ln too)
  sendCh,   \* client.sendCh
  ctrl,     \* notices in flight on the control connection
  pending,  \* keys of Server.pending
  pc,       \* progress of handleTCPConn
  ch,       \* pending.ch, a channel of capacity 1
  held,     \* the work connection a session is forwarding on
  srvEnd,   \* the server's end of a work connection
  hpc,      \* progress of handleWorkConn
  found,    \* what deliverWorkConn returned
  claim,    \* the session a work connection names
  cpc,      \* progress of the client's handler, and of its end of the connection
  wire      \* what the server wrote and the client has not read

sessVars   == <<pending, pc, held>>
ownerVars  == <<owner, proxy, sendCh>>
handlerVars == <<hpc, found>>
clientVars == <<claim, cpc>>
vars == <<owner, proxy, sendCh, ctrl, pending, pc, ch, held,
          srvEnd, hpc, found, claim, cpc, wire>>

Init ==
  /\ owner = "login" /\ proxy = "open"
  /\ sendCh = <<>> /\ ctrl = <<>> /\ pending = {}
  /\ pc = [s \in Sessions |-> "none"]
  /\ ch = [s \in Sessions |-> None]
  /\ held = [s \in Sessions |-> None]
  /\ srvEnd = [w \in WorkConns |-> "none"]
  /\ hpc = [w \in WorkConns |-> "none"]
  /\ found = [w \in WorkConns |-> FALSE]
  /\ claim = [w \in WorkConns |-> None]
  /\ cpc = [w \in WorkConns |-> "idle"]
  /\ wire = [w \in WorkConns |-> <<>>]

-----------------------------------------------------------------------------
(* Variants with a plausible bug, substituted for an action to confirm that *)
(* the property named beside it notices. No specification below uses them.  *)

\* TypeOK: the timeout returns without running the deferred calls.
GiveUpReturns(s) ==
  /\ pc[s] = "wait"
  /\ pc' = [pc EXCEPT ![s] = "returned"]
  /\ UNCHANGED <<ownerVars, ctrl, pending, ch, held, srvEnd,
                 handlerVars, clientVars, wire>>

\* Resolved: only p.done ends the wait.
GiveUpOnDone(s) ==
  /\ pc[s] = "wait" /\ proxy # "open"
  /\ pc' = [pc EXCEPT ![s] = "release"]
  /\ UNCHANGED <<ownerVars, ctrl, pending, ch, held, srvEnd,
                 handlerVars, clientVars, wire>>

\* PairingSpec: the entry stays in the map.
ReleaseKeepsEntry(s) ==
  /\ pc[s] = "release"
  /\ pc' = [pc EXCEPT ![s] = "drain"]
  /\ UNCHANGED <<ownerVars, ctrl, pending, ch, held, srvEnd,
                 handlerVars, clientVars, wire>>

\* NoOrphan: releasePending ends after its critical section.
DrainNothing(s) ==
  /\ pc[s] = "drain"
  /\ pc' = [pc EXCEPT ![s] = "done"]
  /\ UNCHANGED <<ownerVars, ctrl, pending, ch, held, srvEnd,
                 handlerVars, clientVars, wire>>

\* PendingSound: no delete after the lookup.
DeliverKeepsEntry(w) ==
  /\ hpc[w] = "read"
  /\ \/ /\ claim[w] \in pending /\ ch[claim[w]] = None
        /\ ch' = [ch EXCEPT ![claim[w]] = w]
        /\ found' = [found EXCEPT ![w] = TRUE]
     \/ claim[w] \notin pending /\ UNCHANGED <<ch, found>>
  /\ hpc' = [hpc EXCEPT ![w] = "header"]
  /\ UNCHANGED <<ownerVars, ctrl, pending, pc, held, srvEnd, clientVars, wire>>

\* NoCrossTalk: any waiting session is served.
DeliverToAnyone(w) ==
  /\ hpc[w] = "read"
  /\ \E s \in pending : /\ pending' = pending \ {s}
                        /\ ch' = [ch EXCEPT ![s] = w]
  /\ found' = [found EXCEPT ![w] = TRUE]
  /\ hpc' = [hpc EXCEPT ![w] = "header"]
  /\ UNCHANGED <<ownerVars, ctrl, pc, held, srvEnd, clientVars, wire>>

\* Resolved: the rejected connection is not closed.
RejectLeavesOpen(w) ==
  /\ hpc[w] = "body" /\ srvEnd[w] = "open"
  /\ wire' = [wire EXCEPT ![w] = Append(@, IF found[w] THEN "ok" ELSE "rej")]
  /\ hpc' = [hpc EXCEPT ![w] = "done"]
  /\ UNCHANGED <<ownerVars, ctrl, sessVars, ch, srvEnd, found, clientVars>>

\* Resolved: the client reads the response without a deadline.
ReadFailsNever(w) == FALSE /\ UNCHANGED vars

-----------------------------------------------------------------------------
(* handleTCPConn: one goroutine for each accepted public connection.       *)

\* The accept loop starts in listen, before the owner's login is answered,
\* and ends when the listener is closed, after p.done.
Accept(s) ==
  /\ pc[s] = "none" /\ proxy # "closed"
  /\ pc' = [pc EXCEPT ![s] = "accepted"]
  /\ UNCHANGED <<ownerVars, ctrl, pending, ch, held, srvEnd,
                 handlerVars, clientVars, wire>>

RegisterPending(s) ==
  /\ pc[s] = "accepted"
  /\ pending' = pending \cup {s}
  /\ pc' = [pc EXCEPT ![s] = "send"]
  /\ UNCHANGED <<ownerVars, ctrl, ch, held, srvEnd, handlerVars, clientVars, wire>>

\* The select of client.send may take the queue even when done is closed.
SendNotify(s) ==
  /\ pc[s] = "send" /\ Len(sendCh) < SendCap
  /\ sendCh' = Append(sendCh, s)
  /\ pc' = [pc EXCEPT ![s] = "wait"]
  /\ UNCHANGED <<owner, proxy, ctrl, pending, ch, held, srvEnd,
                 handlerVars, clientVars, wire>>

\* c.done is closed, or the queue stayed full for sendTimeout.
SendFails(s) ==
  /\ pc[s] = "send"
  /\ owner = "gone" \/ Len(sendCh) >= SendCap
  /\ pc' = [pc EXCEPT ![s] = "release"]
  /\ UNCHANGED <<ownerVars, ctrl, pending, ch, held, srvEnd,
                 handlerVars, clientVars, wire>>

TakeWorkConn(s) ==
  /\ pc[s] = "wait" /\ ch[s] # None
  /\ held' = [held EXCEPT ![s] = ch[s]]
  /\ ch' = [ch EXCEPT ![s] = None]
  /\ pc' = [pc EXCEPT ![s] = "join"]
  /\ UNCHANGED <<ownerVars, ctrl, pending, srvEnd, handlerVars, clientVars, wire>>

\* The timeout of WorkConnDuration, or p.done. The select may choose either
\* although a connection is in the channel.
GiveUpWaiting(s) ==
  /\ pc[s] = "wait"
  /\ pc' = [pc EXCEPT ![s] = "release"]
  /\ UNCHANGED <<ownerVars, ctrl, pending, ch, held, srvEnd,
                 handlerVars, clientVars, wire>>

\* Join copies bytes of the public connection to the work connection.
Forward(s) ==
  /\ pc[s] = "join"
  /\ srvEnd[held[s]] = "open" /\ Len(wire[held[s]]) < SockBuf
  /\ wire' = [wire EXCEPT ![held[s]] = Append(@, "data")]
  /\ UNCHANGED <<ownerVars, ctrl, sessVars, ch, srvEnd, handlerVars, clientVars>>

\* Join returns after both directions ended and both connections are closed.
JoinEnd(s) ==
  /\ pc[s] = "join"
  /\ srvEnd' = [srvEnd EXCEPT ![held[s]] = "closed"]
  /\ held' = [held EXCEPT ![s] = None]
  /\ pc' = [pc EXCEPT ![s] = "release"]
  /\ UNCHANGED <<ownerVars, ctrl, pending, ch, handlerVars, clientVars, wire>>

\* releasePending, the critical section ...
ReleasePending(s) ==
  /\ pc[s] = "release"
  /\ pending' = pending \ {s}
  /\ pc' = [pc EXCEPT ![s] = "drain"]
  /\ UNCHANGED <<ownerVars, ctrl, ch, held, srvEnd, handlerVars, clientVars, wire>>

\* ... and the receive that closes a connection nobody took.
Drain(s) ==
  /\ pc[s] = "drain"
  /\ srvEnd' = [w \in WorkConns |-> IF w = ch[s] THEN "closed" ELSE srvEnd[w]]
  /\ ch' = [ch EXCEPT ![s] = None]
  /\ pc' = [pc EXCEPT ![s] = "done"]
  /\ UNCHANGED <<ownerVars, ctrl, pending, held, handlerVars, clientVars, wire>>

-----------------------------------------------------------------------------
(* The owner: handleLogin, writeLoop, close, and the mapping's close.      *)

LoginDone ==
  /\ owner = "login"
  /\ owner' = "online"
  /\ UNCHANGED <<proxy, sendCh, ctrl, sessVars, ch, srvEnd, handlerVars, clientVars, wire>>

\* A later mapping fails to start or the answer cannot be written: done of
\* the owner is never closed and nobody reads sendCh.
LoginFails ==
  /\ owner = "login"
  /\ owner' = "failed"
  /\ UNCHANGED <<proxy, sendCh, ctrl, sessVars, ch, srvEnd, handlerVars, clientVars, wire>>

WriteLoop ==
  /\ owner = "online" /\ sendCh # <<>>
  /\ ctrl' = Append(ctrl, Head(sendCh))
  /\ sendCh' = Tail(sendCh)
  /\ UNCHANGED <<owner, proxy, sessVars, ch, srvEnd, handlerVars, clientVars, wire>>

\* client.close: a read or write error, a heartbeat timeout or Server.Stop.
CloseOwner ==
  /\ owner \in {"login", "online"}
  /\ owner' = "gone"
  /\ UNCHANGED <<proxy, sendCh, ctrl, sessVars, ch, srvEnd, handlerVars, clientVars, wire>>

CtrlLost ==
  /\ owner = "gone" /\ ctrl # <<>>
  /\ ctrl' = <<>>
  /\ UNCHANGED <<ownerVars, sessVars, ch, srvEnd, handlerVars, clientVars, wire>>

CloseProxy ==
  /\ owner \in {"gone", "failed"}
  /\ \/ proxy = "open" /\ proxy' = "closing"
     \/ proxy = "closing" /\ proxy' = "closed"
  /\ UNCHANGED <<owner, sendCh, ctrl, sessVars, ch, srvEnd, handlerVars, clientVars, wire>>

-----------------------------------------------------------------------------
(* The client: handleNewProxy runs in a goroutine of its own.              *)

ClientNotice(w) ==
  /\ cpc[w] = "idle" /\ ctrl # <<>>
  /\ cpc' = [cpc EXCEPT ![w] = "dial"]
  /\ claim' = [claim EXCEPT ![w] = Head(ctrl)]
  /\ ctrl' = Tail(ctrl)
  /\ UNCHANGED <<ownerVars, sessVars, ch, srvEnd, handlerVars, wire>>

\* The local service or the server cannot be reached, or the client stops.
ClientGiveUp(w) ==
  /\ cpc[w] = "dial"
  /\ cpc' = [cpc EXCEPT ![w] = "closed"]
  /\ UNCHANGED <<ownerVars, ctrl, sessVars, ch, srvEnd, handlerVars, claim, wire>>

\* openWorkConn dials and sends the request; the server starts handleConn.
ClientOpen(w) ==
  /\ cpc[w] = "dial"
  /\ cpc' = [cpc EXCEPT ![w] = "reading"]
  /\ srvEnd' = [srvEnd EXCEPT ![w] = "open"]
  /\ hpc' = [hpc EXCEPT ![w] = "read"]
  /\ UNCHANGED <<ownerVars, ctrl, sessVars, ch, found, claim, wire>>

\* ReadMessage consumes a header and a body; what does not decode to an
\* accepting response ends the handshake.
ReadResponse(w) ==
  /\ cpc[w] = "reading" /\ Len(wire[w]) >= 2
  /\ cpc' = [cpc EXCEPT ![w] =
               IF wire[w][1] = "hdr" /\ wire[w][2] = "ok" THEN "open" ELSE "closed"]
  /\ wire' = [wire EXCEPT ![w] = SubSeq(@, 3, Len(@))]
  /\ UNCHANGED <<ownerVars, ctrl, sessVars, ch, srvEnd, handlerVars, claim>>

\* The request cannot be sent, the answer is late or the connection breaks.
ReadFails(w) ==
  /\ cpc[w] = "reading"
  /\ cpc' = [cpc EXCEPT ![w] = "closed"]
  /\ UNCHANGED <<ownerVars, ctrl, sessVars, ch, srvEnd, handlerVars, claim, wire>>

\* Bytes forwarded after the response, and the end of the forwarding.
ClientRead(w) ==
  /\ cpc[w] = "open" /\ wire[w] # <<>>
  /\ wire' = [wire EXCEPT ![w] = Tail(@)]
  /\ UNCHANGED <<ownerVars, ctrl, sessVars, ch, srvEnd, handlerVars, clientVars>>

ClientClose(w) ==
  /\ cpc[w] = "open"
  /\ cpc' = [cpc EXCEPT ![w] = "closed"]
  /\ UNCHANGED <<ownerVars, ctrl, sessVars, ch, srvEnd, handlerVars, claim, wire>>

-----------------------------------------------------------------------------
(* handleConn and handleWorkConn: one goroutine for each work connection.  *)

\* The handshake deadline passes or the connection breaks.
HandshakeFails(w) ==
  /\ hpc[w] = "read"
  /\ hpc' = [hpc EXCEPT ![w] = "done"]
  /\ srvEnd' = [srvEnd EXCEPT ![w] = "closed"]
  /\ UNCHANGED <<ownerVars, ctrl, sessVars, ch, found, clientVars, wire>>

\* The lookup, the removal and the send are one critical section of s.mu.
\* The send would block there with the lock held if the channel were full.
DeliverWorkConn(w) ==
  /\ hpc[w] = "read"
  /\ \/ /\ claim[w] \in pending /\ ch[claim[w]] = None
        /\ pending' = pending \ {claim[w]}
        /\ ch' = [ch EXCEPT ![claim[w]] = w]
        /\ found' = [found EXCEPT ![w] = TRUE]
     \/ /\ claim[w] \notin pending
        /\ UNCHANGED <<pending, ch, found>>
  /\ hpc' = [hpc EXCEPT ![w] = "header"]
  /\ UNCHANGED <<ownerVars, ctrl, pc, held, srvEnd, clientVars, wire>>

\* WriteMessage writes the length and the JSON text in two calls.
WriteHeader(w) ==
  /\ hpc[w] = "header" /\ srvEnd[w] = "open"
  /\ wire' = [wire EXCEPT ![w] = Append(@, "hdr")]
  /\ hpc' = [hpc EXCEPT ![w] = "body"]
  /\ UNCHANGED <<ownerVars, ctrl, sessVars, ch, srvEnd, found, clientVars>>

WriteBody(w) ==
  /\ hpc[w] = "body" /\ srvEnd[w] = "open"
  /\ wire' = [wire EXCEPT ![w] = Append(@, IF found[w] THEN "ok" ELSE "rej")]
  /\ srvEnd' = [srvEnd EXCEPT ![w] = IF found[w] THEN "open" ELSE "closed"]
  /\ hpc' = [hpc EXCEPT ![w] = "done"]
  /\ UNCHANGED <<ownerVars, ctrl, sessVars, ch, found, clientVars>>

\* The session already closed the connection, or the client did.
WriteFails(w) ==
  /\ hpc[w] \in {"header", "body"}
  /\ srvEnd[w] = "closed" \/ cpc[w] = "closed"
  /\ srvEnd' = [srvEnd EXCEPT ![w] = "closed"]
  /\ hpc' = [hpc EXCEPT ![w] = "done"]
  /\ UNCHANGED <<ownerVars, ctrl, sessVars, ch, found, clientVars, wire>>

-----------------------------------------------------------------------------
Send(s)    == SendNotify(s) \/ SendFails(s)
Wait(s)    == TakeWorkConn(s) \/ GiveUpWaiting(s)
Respond(w) == WriteHeader(w) \/ WriteBody(w) \/ WriteFails(w)
Dial(w)    == ClientGiveUp(w) \/ ClientOpen(w)
AwaitResponse(w) == ReadResponse(w) \/ ReadFails(w)

Session(s) ==
  \/ Accept(s) \/ RegisterPending(s) \/ Send(s) \/ Wait(s)
  \/ Forward(s) \/ JoinEnd(s) \/ ReleasePending(s) \/ Drain(s)

Owner ==
  LoginDone \/ LoginFails \/ WriteLoop \/ CloseOwner \/ CtrlLost \/ CloseProxy

Client(w) ==
  \/ ClientNotice(w) \/ Dial(w) \/ AwaitResponse(w)
  \/ ClientRead(w) \/ ClientClose(w)

Handler(w) == HandshakeFails(w) \/ DeliverWorkConn(w) \/ Respond(w)

Next ==
  \/ \E s \in Sessions : Session(s)
  \/ Owner
  \/ \E w \in WorkConns : Client(w) \/ Handler(w)

Spec == Init /\ [][Next]_vars

\* Goroutines are scheduled and every wait of theirs has a deadline. Nothing
\* obliges a public peer to connect, a forwarding to end or a link to break.
Fairness ==
  /\ \A s \in Sessions :
       /\ WF_vars(RegisterPending(s)) /\ WF_vars(Send(s)) /\ WF_vars(Wait(s))
       /\ WF_vars(ReleasePending(s)) /\ WF_vars(Drain(s))
  /\ \A w \in WorkConns :
       /\ WF_vars(Dial(w)) /\ WF_vars(AwaitResponse(w))
       /\ WF_vars(HandshakeFails(w) \/ DeliverWorkConn(w)) /\ WF_vars(Respond(w))

FairSpec == Spec /\ Fairness

-----------------------------------------------------------------------------
\* The values each variable of the pairing can take.
TypeOK ==
  /\ owner \in {"login", "online", "gone", "failed"}
  /\ proxy \in {"open", "closing", "closed"}
  /\ sendCh \in Seq(Sessions) /\ ctrl \in Seq(Sessions)
  /\ pending \subseteq Sessions
  /\ pc \in [Sessions -> {"none", "accepted", "send", "wait", "join",
                          "release", "drain", "done"}]
  /\ ch \in [Sessions -> WorkConns \cup {None}]
  /\ held \in [Sessions -> WorkConns \cup {None}]
  /\ srvEnd \in [WorkConns -> {"none", "open", "closed"}]
  /\ hpc \in [WorkConns -> {"none", "read", "header", "body", "done"}]
  /\ found \in [WorkConns -> BOOLEAN]
  /\ claim \in [WorkConns -> Sessions \cup {None}]
  /\ cpc \in [WorkConns -> {"idle", "dial", "reading", "open", "closed"}]
  /\ wire \in [WorkConns -> Seq({"hdr", "ok", "rej", "data"})]

\* A session keeps an entry of s.pending only while its handler will still
\* remove it ("防止 pending 表无界增长").
PendingLive == \A s \in pending : pc[s] \in {"send", "wait", "release"}

\* deliverWorkConn never blocks on the channel while it holds s.mu, which
\* would stop every other operation of the server.
DeliverNeverBlocks == \A s \in pending : ch[s] = None

\* The table of pending sessions neither grows without bound nor holds a
\* session to which a delivery would block.
PendingSound == PendingLive /\ DeliverNeverBlocks

\* Work connection w is in the hands of session s.
Carries(s, w) ==
  \/ ch[s] = w /\ pc[s] \in {"send", "wait", "release", "drain"}
  \/ held[s] = w /\ pc[s] = "join"

\* An open server end always has a goroutine that will close it: its own
\* handler before delivery or on rejection, one session after delivery.
NoOrphan ==
  \A w \in WorkConns : srvEnd[w] = "open" =>
    IF found[w] THEN \E s \in Sessions : Carries(s, w)
                ELSE hpc[w] \in {"read", "header", "body"}

\* Public traffic reaches only the connection dialled for that session, and
\* no connection serves two sessions.
NoCrossTalk ==
  \A s \in Sessions, w \in WorkConns :
    Carries(s, w) => /\ claim[w] = s
                     /\ \A t \in Sessions \ {s} : ~Carries(t, w)

\* "通知客户端配对成功，之后连接进入数据转发阶段" (handleWorkConn): nothing
\* precedes the response on the connection the client reads it from.
ResponseFirst ==
  \A w \in WorkConns :
    cpc[w] = "reading" =>
      /\ Len(wire[w]) >= 1 => wire[w][1] = "hdr"
      /\ Len(wire[w]) >= 2 => wire[w][2] \in {"ok", "rej"}

-----------------------------------------------------------------------------
(* The inductive invariant behind the safety properties.                   *)

Bound(s, w) == found[w] /\ claim[w] = s

\* A session that is still registered, or not yet, has received nothing.
UnboundWhilePending ==
  \A s \in Sessions : (s \in pending \/ pc[s] \in {"none", "accepted"}) =>
    \A w \in WorkConns : ~Bound(s, w)

\* What a session has in its channel or forwards on was delivered to it.
DeliveredToClaim ==
  \A s \in Sessions, w \in WorkConns : (ch[s] = w \/ held[s] = w) => Bound(s, w)

\* A delivered connection that is open is with the session it claims.
CarriedByClaim ==
  \A w \in WorkConns : (found[w] /\ srvEnd[w] = "open") =>
    claim[w] \in Sessions /\ Carries(claim[w], w)

\* Until delivery the handler of the connection is responsible for it.
HandledUntilFound ==
  \A w \in WorkConns : (srvEnd[w] = "open" /\ ~found[w]) =>
    hpc[w] \in {"read", "header", "body"}

\* How far the two ends of a connection can be apart.
Phases ==
  \A w \in WorkConns :
    /\ hpc[w] = "none" <=> srvEnd[w] = "none"
    /\ hpc[w] = "none" => ~found[w]
    /\ hpc[w] = "read" => ~found[w] /\ srvEnd[w] = "open"
    /\ cpc[w] \in {"idle", "dial"} => hpc[w] = "none"
    /\ cpc[w] # "idle" => claim[w] \in Sessions

JoinHolds == \A s \in Sessions : pc[s] = "join" => held[s] \in WorkConns

Inv ==
  /\ PendingLive /\ UnboundWhilePending /\ DeliveredToClaim /\ CarriedByClaim
  /\ HandledUntilFound /\ Phases /\ JoinHolds

IInv == TypeOK /\ Inv

-----------------------------------------------------------------------------
\* What the pairing promises, with the mechanism removed.
sessBar == [s \in Sessions |-> IF pc[s] = "none" THEN "idle"
                              ELSE IF pc[s] = "done" THEN "ended" ELSE "open"]
connBar == [w \in WorkConns |-> IF srvEnd[w] = "none" THEN "idle"
                               ELSE IF srvEnd[w] = "closed" THEN "closed"
                               ELSE IF found[w] THEN "bound" ELSE "offered"]
peerBar == [w \in WorkConns |-> IF found[w] THEN claim[w] ELSE None]

P == INSTANCE Pairing WITH sess <- sessBar, conn <- connBar, peer <- peerBar

\* The handlers implement Pairing: a session ends with nothing bound to it
\* left open, and each connection is bound to at most one session.
PairingSpec == P!Spec

\* Every accepted public connection is joined or turned away, and every
\* handshake a client starts is decided: lost notices, a full queue and a
\* silent client are all covered by the deadlines. No server end stays open
\* without a session that forwards on it.
Resolved ==
  /\ \A s \in Sessions : pc[s] = "accepted" ~> pc[s] \in {"join", "done"}
  /\ \A w \in WorkConns :
       /\ cpc[w] = "dial" ~> cpc[w] \in {"open", "closed"}
       /\ srvEnd[w] = "open" ~> \/ srvEnd[w] = "closed"
                                \/ \E s \in Sessions : pc[s] = "join" /\ held[s] = w
=============================================================================
