----------------------------- MODULE UdpSession -----------------------------
(***************************************************************************)
(* The UDP mapping of the server (internal/server/udp.go and the UDP parts *)
(* of proxy.go): one receive loop, and for each source address a session   *)
(* with an outgoing queue, a goroutine that dials a tunnel and writes to   *)
(* it, a goroutine that reads from it, an idle reaper, and the close of    *)
(* the mapping. A session is closed by whichever of these comes first.     *)
(*                                                                         *)
(* Time is abstract: a session may become idle at any moment until it is   *)
(* touched, and every timeout may expire at any moment. How a tunnel is    *)
(* paired with a session is the subject of Rendezvous; here it arrives, or *)
(* dialTunnel fails.                                                       *)
(***************************************************************************)
EXTENDS Integers, Sequences, FiniteSets

CONSTANTS Sources,    \* public addresses
          Sess,       \* BOUND: session objects the run may create
          None,
          QueueCap,   \* capacity of sendCh (256 in the code)
          MaxPkts     \* BOUND: datagrams received from the public side

ASSUME UdpAssumption ==
  /\ None \notin Sess /\ None \notin Sources
  /\ QueueCap \in Nat \ {0} /\ MaxPkts \in Nat

VARIABLES
  loop,     \* progress of readUDP
  hand,     \* the session readUDP has in hand
  received, \* datagrams received so far; each is named by its number
  origin,   \* history: the source of each of them
  sessions, \* proxy.udpSessions
  key,      \* the source of a session; None before it is created
  queue,    \* sendCh
  idle,     \* lastActive is older than the idle limit
  run,      \* progress of run: dialTunnel, attach, writeTunnel
  heard,    \* the owner got the notice that asks for a tunnel
  tunnel,   \* the work connection dialTunnel returned
  attached, \* conn is set
  reader,   \* progress of readTunnel
  frames,   \* datagrams written to the tunnel
  cl,       \* progress of udpSession.close; done is closed once it is not "no"
  current,  \* stats.currentConns
  stale,    \* sessions the reaper found idle and still has to close
  owner,    \* the owner's control connection is up
  proxy,    \* progress of proxy.close
  pTodo     \* sessions closeUDPSessions still has to close

loopVars == <<loop, hand, received, origin>>
sessVars == <<key, queue, idle>>
runVars  == <<run, heard, tunnel, attached, reader, frames>>
endVars  == <<stale, owner, proxy, pTodo>>
vars == <<loopVars, sessions, sessVars, runVars, cl, current, endVars>>

Init ==
  /\ loop = "read" /\ hand = None
  /\ received = 0 /\ origin = [d \in 1..MaxPkts |-> None]
  /\ sessions = [a \in Sources |-> None]
  /\ key = [s \in Sess |-> None]
  /\ queue = [s \in Sess |-> <<>>]
  /\ idle = [s \in Sess |-> FALSE]
  /\ run = [s \in Sess |-> "none"]
  /\ heard = [s \in Sess |-> FALSE]
  /\ tunnel = [s \in Sess |-> "none"]
  /\ attached = [s \in Sess |-> FALSE]
  /\ reader = [s \in Sess |-> "none"]
  /\ frames = [s \in Sess |-> <<>>]
  /\ cl = [s \in Sess |-> "no"]
  /\ current = 0
  /\ stale = <<>> /\ owner = "up" /\ proxy = "open" /\ pTodo = <<>>

Done(s) == cl[s] # "no"
Live == {s \in Sess : \E a \in Sources : sessions[a] = s}
FreshSess == CHOOSE s \in Sess : key[s] = None
Orders(S) == {q \in [1..Cardinality(S) -> S] : \A s \in S : \E i \in DOMAIN q : q[i] = s}

-----------------------------------------------------------------------------
(* Plausible mistakes, each the changed form of the action it is named     *)
(* for; no specification uses them.                                        *)

\* enqueue without the bound of the channel.
EnqueueUnbounded ==
  /\ loop = "enqueue"
  /\ queue' = [queue EXCEPT ![hand] = Append(@, received)]
  /\ loop' = "read" /\ hand' = None
  /\ UNCHANGED <<received, origin, sessions, key, idle, runVars, cl, current, endVars>>

\* dialTunnel that waits for s.done only.
DialFailsOnDone(s) ==
  /\ run[s] = "dial" /\ Done(s)
  /\ run' = [run EXCEPT ![s] = "fail"]
  /\ UNCHANGED <<loopVars, sessions, sessVars, heard, tunnel, attached, reader, frames,
                 cl, current, endVars>>

\* attach without the check of done.
AttachUnchecked(s) ==
  /\ run[s] = "attach"
  /\ attached' = [attached EXCEPT ![s] = TRUE]
  /\ run' = [run EXCEPT ![s] = "write"]
  /\ reader' = [reader EXCEPT ![s] = "read"]
  /\ UNCHANGED <<loopVars, sessions, sessVars, heard, tunnel, frames, cl, current,
                 endVars>>

\* A key without the port: the sessions of a host are one.
LookupByHost ==
  /\ loop = "lookup"
  /\ IF Live = {}
     THEN /\ \E s \in Sess : key[s] = None
          /\ hand' = FreshSess /\ loop' = "add"
          /\ key' = [key EXCEPT ![FreshSess] = origin[received]]
     ELSE hand' \in Live /\ loop' = "touch" /\ UNCHANGED key
  /\ UNCHANGED <<received, origin, sessions, queue, idle, runVars, cl, current, endVars>>

\* Datagrams handed over by a goroutine each, in any order.
WriteAny(s) ==
  /\ run[s] = "write" /\ queue[s] # <<>> /\ tunnel[s] = "open"
  /\ \E i \in DOMAIN queue[s] :
       /\ queue' = [queue EXCEPT ![s] = SubSeq(@, 1, i - 1) \o SubSeq(@, i + 1, Len(@))]
       /\ frames' = [frames EXCEPT ![s] = Append(@, queue[s][i])]
  /\ idle' = [idle EXCEPT ![s] = FALSE]
  /\ UNCHANGED <<loopVars, sessions, key, run, heard, tunnel, attached, reader, cl,
                 current, endVars>>

\* close without closeOnce.
MarkDoneAgain(s) == cl[s] \in {"no", "closed"} /\ cl' = [cl EXCEPT ![s] = "done"]

\* close that forgets the tunnel.
CloseTunnelNot(s) ==
  /\ cl[s] = "done"
  /\ cl' = [cl EXCEPT ![s] = "detached"]
  /\ UNCHANGED <<loopVars, sessions, sessVars, runVars, current, endVars>>

\* removeUDPSession that resets the table, as closeWorkConns does.
RemoveAll(s) ==
  /\ cl[s] = "detached"
  /\ sessions' = [a \in Sources |-> None]
  /\ cl' = [cl EXCEPT ![s] = "removed"]
  /\ UNCHANGED <<loopVars, sessVars, runVars, current, endVars>>

\* reapUDPSessions that takes the idle sessions out of the table at once.
ScanDetaches ==
  /\ stale = <<>>
  /\ \E q \in Orders({s \in Live : idle[s]}) : q # <<>> /\ stale' = q
  /\ sessions' = [a \in Sources |-> IF sessions[a] # None /\ idle[sessions[a]]
                                    THEN None ELSE sessions[a]]
  /\ UNCHANGED <<loopVars, sessVars, runVars, cl, current, owner, proxy, pTodo>>

-----------------------------------------------------------------------------
(* readUDP: one goroutine.                                                 *)

\* ReadFromUDP. The socket is closed after p.done, so a datagram may still
\* be read once p.done is closed.
Receive(a) ==
  /\ loop = "read" /\ proxy \in {"open", "done"} /\ received < MaxPkts
  /\ received' = received + 1
  /\ origin' = [origin EXCEPT ![received'] = a]
  /\ loop' = "lookup"
  /\ UNCHANGED <<hand, sessions, sessVars, runVars, cl, current, endVars>>

\* The lookup of getOrCreateUDPSession, under p.mu, and newUDPSession. BOUND:
\* without a session object left for a new source the datagram is dropped.
Lookup ==
  /\ loop = "lookup"
  /\ LET a == origin[received]
         left == \E s \in Sess : key[s] = None IN
     \/ /\ sessions[a] # None
        /\ hand' = sessions[a] /\ loop' = "touch"
        /\ UNCHANGED key
     \/ /\ sessions[a] = None /\ left
        /\ hand' = FreshSess /\ loop' = "add"
        /\ key' = [key EXCEPT ![FreshSess] = a]
     \/ /\ sessions[a] = None /\ ~left
        /\ loop' = "read"
        /\ UNCHANGED <<hand, key>>
  /\ UNCHANGED <<received, origin, sessions, queue, idle, runVars, cl, current, endVars>>

AddSession ==
  /\ loop = "add"
  /\ sessions' = [sessions EXCEPT ![key[hand]] = hand]
  /\ loop' = "count"
  /\ UNCHANGED <<hand, received, origin, sessVars, runVars, cl, current, endVars>>

\* OpenConn, and the goroutine of run starts.
CountAndRun ==
  /\ loop = "count"
  /\ current' = current + 1
  /\ run' = [run EXCEPT ![hand] = "notify"]
  /\ loop' = "touch"
  /\ UNCHANGED <<hand, received, origin, sessions, sessVars, heard, tunnel, attached, reader,
                 frames, cl, endVars>>

Touch ==
  /\ loop = "touch"
  /\ idle' = [idle EXCEPT ![hand] = FALSE]
  /\ loop' = "enqueue"
  /\ UNCHANGED <<hand, received, origin, sessions, key, queue, runVars, cl, current, endVars>>

\* The select of enqueue: the queue may be chosen although done is closed.
Enqueue ==
  /\ loop = "enqueue"
  /\ \/ /\ Len(queue[hand]) < QueueCap
        /\ queue' = [queue EXCEPT ![hand] = Append(@, received)]
     \/ /\ Done(hand) \/ Len(queue[hand]) >= QueueCap
        /\ UNCHANGED queue
  /\ loop' = "read" /\ hand' = None
  /\ UNCHANGED <<received, origin, sessions, key, idle, runVars, cl, current, endVars>>

\* The read fails because the socket is closed.
LoopExits ==
  /\ loop = "read" /\ proxy \notin {"open", "done"}
  /\ loop' = "exited"
  /\ UNCHANGED <<hand, received, origin, sessions, sessVars, runVars, cl, current, endVars>>

-----------------------------------------------------------------------------
(* run: one goroutine for each session.                                    *)

\* registerPending and client.send. A notice queued for an owner that is
\* gone is never read; one queued before may be lost with the connection.
Notify(s) ==
  /\ run[s] = "notify"
  /\ \/ /\ run' = [run EXCEPT ![s] = "dial"]
        /\ heard' = [heard EXCEPT ![s] = owner = "up"]
     \/ run' = [run EXCEPT ![s] = "fail"] /\ UNCHANGED heard
  /\ UNCHANGED <<loopVars, sessions, sessVars, tunnel, attached, reader, frames, cl,
                 current, endVars>>

TunnelArrives(s) ==
  /\ run[s] = "dial" /\ heard[s]
  /\ tunnel' = [tunnel EXCEPT ![s] = "open"]
  /\ run' = [run EXCEPT ![s] = "attach"]
  /\ UNCHANGED <<loopVars, sessions, sessVars, heard, attached, reader, frames, cl,
                 current, endVars>>

\* The timeout, p.done or s.done.
DialFails(s) ==
  /\ run[s] = "dial"
  /\ run' = [run EXCEPT ![s] = "fail"]
  /\ UNCHANGED <<loopVars, sessions, sessVars, heard, tunnel, attached, reader, frames,
                 cl, current, endVars>>

\* Under s.mu: the check of done and the assignment of conn.
Attach(s) ==
  /\ run[s] = "attach"
  /\ \/ /\ Done(s)
        /\ tunnel' = [tunnel EXCEPT ![s] = "closed"]
        /\ run' = [run EXCEPT ![s] = "ended"]
        /\ UNCHANGED <<attached, reader>>
     \/ /\ ~Done(s)
        /\ attached' = [attached EXCEPT ![s] = TRUE]
        /\ run' = [run EXCEPT ![s] = "write"]
        /\ reader' = [reader EXCEPT ![s] = "read"]
        /\ UNCHANGED tunnel
  /\ UNCHANGED <<loopVars, sessions, sessVars, heard, frames, cl, current, endVars>>

\* One turn of writeTunnel that takes a datagram; WriteFrame is one write.
WriteFrame(s) ==
  /\ run[s] = "write" /\ queue[s] # <<>>
  /\ queue' = [queue EXCEPT ![s] = Tail(@)]
  /\ \/ /\ tunnel[s] = "open"
        /\ frames' = [frames EXCEPT ![s] = Append(@, Head(queue[s]))]
        /\ idle' = [idle EXCEPT ![s] = FALSE]
        /\ UNCHANGED run
     \/ /\ run' = [run EXCEPT ![s] = "fail"]
        /\ UNCHANGED <<frames, idle>>
  /\ UNCHANGED <<loopVars, sessions, key, heard, tunnel, attached, reader, cl, current,
                 endVars>>

WriterSeesDone(s) ==
  /\ run[s] = "write" /\ Done(s)
  /\ run' = [run EXCEPT ![s] = "ended"]
  /\ UNCHANGED <<loopVars, sessions, sessVars, heard, tunnel, attached, reader, frames,
                 cl, current, endVars>>

\* run returns when the close it called, or found running, is over.
RunEnds(s) ==
  /\ run[s] = "fail" /\ cl[s] = "closed"
  /\ run' = [run EXCEPT ![s] = "ended"]
  /\ UNCHANGED <<loopVars, sessions, sessVars, heard, tunnel, attached, reader, frames,
                 cl, current, endVars>>

-----------------------------------------------------------------------------
(* readTunnel, and the client's traffic.                                   *)

ReadFrame(s) ==
  /\ reader[s] = "read" /\ tunnel[s] = "open"
  /\ idle' = [idle EXCEPT ![s] = FALSE]
  /\ UNCHANGED <<loopVars, sessions, key, queue, runVars, cl, current, endVars>>

\* The tunnel is closed or breaks, or the socket refuses the reply.
ReadTunnelFails(s) ==
  /\ reader[s] = "read"
  /\ reader' = [reader EXCEPT ![s] = "fail"]
  /\ UNCHANGED <<loopVars, sessions, sessVars, run, heard, tunnel, attached, frames, cl,
                 current, endVars>>

ReaderEnds(s) ==
  /\ reader[s] = "fail" /\ cl[s] = "closed"
  /\ reader' = [reader EXCEPT ![s] = "ended"]
  /\ UNCHANGED <<loopVars, sessions, sessVars, run, heard, tunnel, attached, frames, cl,
                 current, endVars>>

-----------------------------------------------------------------------------
(* udpSession.close, run once by its first caller.                         *)

MarkDone(s) == cl[s] = "no" /\ cl' = [cl EXCEPT ![s] = "done"]

OwnGoroutineCloses(s) ==
  /\ run[s] = "fail" \/ reader[s] = "fail"
  /\ MarkDone(s)
  /\ UNCHANGED <<loopVars, sessions, sessVars, runVars, current, endVars>>

\* Under s.mu.
CloseTunnel(s) ==
  /\ cl[s] = "done"
  /\ tunnel' = [tunnel EXCEPT ![s] = IF attached[s] THEN "closed" ELSE @]
  /\ cl' = [cl EXCEPT ![s] = "detached"]
  /\ UNCHANGED <<loopVars, sessions, sessVars, run, heard, attached, reader, frames,
                 current, endVars>>

\* removeUDPSession, under p.mu.
RemoveSession(s) ==
  /\ cl[s] = "detached"
  /\ sessions' = [a \in Sources |-> IF sessions[a] = s THEN None ELSE sessions[a]]
  /\ cl' = [cl EXCEPT ![s] = "removed"]
  /\ UNCHANGED <<loopVars, sessVars, runVars, current, endVars>>

CountClosed(s) ==
  /\ cl[s] = "removed"
  /\ current' = current - 1
  /\ cl' = [cl EXCEPT ![s] = "closed"]
  /\ UNCHANGED <<loopVars, sessions, sessVars, runVars, endVars>>

-----------------------------------------------------------------------------
(* cleanUDP                                                                *)

BecomeIdle(s) ==
  /\ s \in Live /\ ~idle[s]
  /\ idle' = [idle EXCEPT ![s] = TRUE]
  /\ UNCHANGED <<loopVars, sessions, key, queue, runVars, cl, current, endVars>>

\* The first half of reapUDPSessions, under p.mu. The select may take the
\* ticker although p.done is closed.
Scan ==
  /\ stale = <<>>
  /\ \E q \in Orders({s \in Live : idle[s]}) : q # <<>> /\ stale' = q
  /\ UNCHANGED <<loopVars, sessions, sessVars, runVars, cl, current, owner, proxy, pTodo>>

\* The second half, without the lock.
Reap(s) ==
  /\ stale # <<>> /\ s = Head(stale)
  /\ MarkDone(s)
  /\ UNCHANGED <<loopVars, sessions, sessVars, runVars, current, endVars>>

ReapNext ==
  /\ stale # <<>> /\ cl[Head(stale)] = "closed"
  /\ stale' = Tail(stale)
  /\ UNCHANGED <<loopVars, sessions, sessVars, runVars, cl, current, owner, proxy, pTodo>>

-----------------------------------------------------------------------------
(* The owner leaves and proxy.close runs.                                  *)

\* client.close closes the control connection before the mappings.
OwnerLeaves ==
  /\ owner = "up"
  /\ owner' = "gone"
  /\ UNCHANGED <<loopVars, sessions, sessVars, runVars, cl, current, stale, proxy, pTodo>>

CloseDone ==
  /\ owner = "gone" /\ proxy = "open"
  /\ proxy' = "done"
  /\ UNCHANGED <<loopVars, sessions, sessVars, runVars, cl, current, stale, owner, pTodo>>

CloseSocket ==
  /\ proxy = "done"
  /\ proxy' = "unbound"
  /\ UNCHANGED <<loopVars, sessions, sessVars, runVars, cl, current, stale, owner, pTodo>>

\* closeUDPSessions: the copy under p.mu, then one session after the other.
SnapshotSessions ==
  /\ proxy = "unbound"
  /\ proxy' = "closing"
  /\ pTodo' \in Orders(Live)
  /\ UNCHANGED <<loopVars, sessions, sessVars, runVars, cl, current, stale, owner>>

ProxyCloses ==
  /\ proxy = "closing"
  /\ \/ pTodo # <<>> /\ MarkDone(Head(pTodo)) /\ UNCHANGED <<proxy, pTodo>>
     \/ /\ pTodo # <<>> /\ cl[Head(pTodo)] = "closed"
        /\ pTodo' = Tail(pTodo) /\ UNCHANGED <<proxy, cl>>
     \/ pTodo = <<>> /\ proxy' = "closed" /\ UNCHANGED <<pTodo, cl>>
  /\ UNCHANGED <<loopVars, sessions, sessVars, runVars, current, stale, owner>>

-----------------------------------------------------------------------------
Loop == Lookup \/ AddSession \/ CountAndRun \/ Touch \/ Enqueue \/ LoopExits

Runner(s) ==
  \/ Notify(s) \/ DialFails(s) \/ Attach(s) \/ WriteFrame(s)
  \/ WriterSeesDone(s) \/ RunEnds(s)

Closing(s) ==
  OwnGoroutineCloses(s) \/ CloseTunnel(s) \/ RemoveSession(s) \/ CountClosed(s)

ProxyClose == CloseSocket \/ SnapshotSessions \/ ProxyCloses

\* What the server does without a word from the client.
ServerNext ==
  \/ \E a \in Sources : Receive(a)
  \/ Loop
  \/ \E s \in Sess :
       \/ Runner(s) \/ ReadTunnelFails(s) \/ ReaderEnds(s)
       \/ Closing(s) \/ BecomeIdle(s) \/ Reap(s)
  \/ Scan \/ ReapNext
  \/ OwnerLeaves \/ CloseDone \/ ProxyClose

Next == ServerNext \/ \E s \in Sess : TunnelArrives(s) \/ ReadFrame(s)

Spec == Init /\ [][Next]_vars
-----------------------------------------------------------------------------
\* The values of the UDP mapping's state; a queue never exceeds its capacity.
TypeOK ==
  /\ loop \in {"read", "lookup", "add", "count", "touch", "enqueue", "exited"}
  /\ hand \in Sess \cup {None} /\ received \in 0..MaxPkts
  /\ origin \in [1..MaxPkts -> Sources \cup {None}]
  /\ sessions \in [Sources -> Sess \cup {None}]
  /\ key \in [Sess -> Sources \cup {None}]
  /\ queue \in [Sess -> Seq(1..MaxPkts)] /\ \A s \in Sess : Len(queue[s]) <= QueueCap
  /\ idle \in [Sess -> BOOLEAN]
  /\ run \in [Sess -> {"none", "notify", "dial", "attach", "write", "fail", "ended"}]
  /\ heard \in [Sess -> BOOLEAN]
  /\ tunnel \in [Sess -> {"none", "open", "closed"}]
  /\ attached \in [Sess -> BOOLEAN]
  /\ reader \in [Sess -> {"none", "read", "fail", "ended"}]
  /\ frames \in [Sess -> Seq(1..MaxPkts)]
  /\ cl \in [Sess -> {"no", "done", "detached", "removed", "closed"}]
  /\ current \in Int
  /\ stale \in Seq(Sess) /\ pTodo \in Seq(Sess)
  /\ owner \in {"up", "gone"}
  /\ proxy \in {"open", "done", "unbound", "closing", "closed"}

\* A source has one session at a time: a second one is created only after
\* the first is marked.
OneSessionPerSource ==
  \A s, t \in Sess :
    s # t /\ key[s] = key[t] /\ key[s] # None => Done(s) \/ Done(t)

\* While the receive loop is not creating a session, every session that is
\* not closing can be found under its source.
Findable ==
  \A s \in Sess :
    key[s] # None /\ ~Done(s) /\ ~(loop = "add" /\ hand = s) => sessions[key[s]] = s

\* The table says which session a source has: there is at most one, and
\* removeUDPSession of an old one never takes the entry of its successor.
SessionTable == OneSessionPerSource /\ Findable

\* "数据报以定长帧 ... 可靠、有序、去重" (udpSession): a tunnel carries datagrams
\* of its session's source only, in the order of reception, and no datagram
\* is twice in a tunnel or in two of them.
TunnelOrdered ==
  /\ \A s \in Sess : \A i, j \in DOMAIN frames[s] : i < j => frames[s][i] < frames[s][j]
  /\ \A s \in Sess : \A i \in DOMAIN frames[s] : origin[frames[s][i]] = key[s]
  /\ \A s, t \in Sess : \A i \in DOMAIN frames[s], j \in DOMAIN frames[t] :
       frames[s][i] = frames[t][j] => s = t

\* A tunnel is open only while some goroutine of its session is bound to
\* close it: the dialer before attach, close afterwards.
TunnelOwned ==
  \A s \in Sess : tunnel[s] = "open" =>
    IF attached[s] THEN cl[s] \in {"no", "done"} ELSE run[s] = "attach"

\* The counter is right whenever nobody is between the table and the counter.
CounterExact ==
  (loop \notin {"add", "count"} /\ \A s \in Sess : cl[s] \in {"no", "closed"}) =>
    current = Cardinality(Live)
=============================================================================
