------------------------------ MODULE Registry ------------------------------
(***************************************************************************)
(* The server's registry (internal/server/server.go, control.go and        *)
(* proxy.go): logins, the tables clients, proxies and portOwner, the       *)
(* creation and the closing of port mappings, and Server.Stop.             *)
(*                                                                         *)
(* A login is one control connection, the client object made for it and    *)
(* its handler goroutine. client.close and proxy.close run at most once    *)
(* (closeOnce), in whichever goroutine comes first, and every other caller *)
(* waits for the end of that run: each is a small machine of its own that  *)
(* any caller starts. Server.mu protects one action at a time.             *)
(***************************************************************************)
EXTENDS Naturals, Sequences, FiniteSets

CONSTANTS Logins,      \* control connections that reach handleLogin
          Ids, Names, Ports,   \* client ids, mapping names, protocol/port keys
          Requests,    \* login messages: [id, specs], a spec is [name, port]
          MaxSpecs,    \* BOUND: specs of one request
          BindKeys,    \* the keys, TCP and UDP, with the number of the control port
          MaxClients,  \* the configured limit; 0 means none
          None

Specs == [name : Names, port : Ports]

ASSUME RegistryAssumption ==
  /\ MaxSpecs \in Nat \ {0} /\ MaxClients \in Nat
  /\ IsFiniteSet(Logins)
  /\ None \notin Logins /\ None \notin Logins \X (1..MaxSpecs)
  /\ \A r \in Requests :
       /\ r.id \in Ids /\ r.specs \in Seq(Specs)
       /\ Len(r.specs) <= MaxSpecs

Proxies == Logins \X (1..MaxSpecs)   \* <<login, index of the spec>>

VARIABLES
  clients,    \* Server.clients
  proxies,    \* Server.proxies
  portOwner,  \* the keys of Server.portOwner
  stop,       \* progress of Server.Stop
  stopTodo,   \* clients Stop still has to close
  req,        \* the request of each login
  login,      \* progress of handleLogin
  idx,        \* the spec its current loop is at
  mine,       \* length of client.proxies
  hTodo,      \* mappings the handler still has to close
  conn,       \* the control connection, open or closed by the server
  cclose,     \* progress of client.close
  cTodo,      \* mappings client.close still has to close
  px          \* life of each mapping

tables  == <<clients, proxies, portOwner>>
stopVars == <<stop, stopTodo>>
handler == <<req, login, idx, mine, hTodo>>
closer  == <<cclose, cTodo>>
vars == <<tables, stopVars, handler, conn, closer, px>>

Init ==
  /\ clients = [i \in Ids |-> None]
  /\ proxies = [n \in Names |-> None]
  /\ portOwner = {}
  /\ stop = "running" /\ stopTodo = <<>>
  /\ req = [l \in Logins |-> None]
  /\ login = [l \in Logins |-> "none"]
  /\ idx = [l \in Logins |-> 1]
  /\ mine = [l \in Logins |-> 0]
  /\ hTodo = [l \in Logins |-> <<>>]
  /\ conn = [l \in Logins |-> "open"]
  /\ cclose = [l \in Logins |-> "no"]
  /\ cTodo = [l \in Logins |-> <<>>]
  /\ px = [p \in Proxies |-> "new"]

FirstN(n) == [i \in 1..n |-> i]
NameOf(p) == req[p[1]].specs[p[2]].name
PortOf(p) == req[p[1]].specs[p[2]].port
Current(l) == <<l, idx[l]>>
Last(l) == idx[l] = Len(req[l].specs)

\* The mapping has its port in the table.
Holds(p) == px[p] \in {"claimed", "listening", "closing"}

-----------------------------------------------------------------------------
(* Variants with a plausible bug, substituted for a definition to confirm   *)
(* that the property named beside it notices. No specification uses them.   *)

\* ServedExactly: the id is not looked up.
CanRegisterTwice(l) ==
  /\ stop = "running"
  /\ MaxClients = 0 \/ Cardinality({i \in Ids : clients[i] # None}) < MaxClients

\* CloseEnds: a login that arrives during Stop is accepted.
CanRegisterAnytime(l) ==
  /\ MaxClients = 0 \/ Cardinality({i \in Ids : clients[i] # None}) < MaxClients
  /\ clients[req[l].id] = None

\* PortExclusive, PortLeaseSpec: the operating system is trusted to refuse.
ClaimUnchecked(l) ==
  /\ login[l] = "claim"
  /\ portOwner' = portOwner \cup {PortOf(Current(l))}
  /\ px' = [px EXCEPT ![Current(l)] = "claimed"]
  /\ login' = [login EXCEPT ![l] = "listen"]
  /\ UNCHANGED <<clients, proxies, stopVars, req, idx, mine, hTodo, conn, closer>>

\* CleanAfter: no rollback.
ClaimFailsKeeps(l) ==
  /\ login[l] = "claim" /\ PortOf(Current(l)) \in portOwner
  /\ login' = [login EXCEPT ![l] = "rollback"]
  /\ UNCHANGED <<tables, stopVars, req, idx, mine, hTodo, conn, closer, px>>

\* TypeOK: the second loop over the specs continues where the first ended.
ListenOn(l) ==
  /\ login[l] = "listen"
  /\ px' = [px EXCEPT ![Current(l)] = "listening"]
  /\ login' = [login EXCEPT ![l] = IF Last(l) THEN "add" ELSE "claim"]
  /\ idx' = [idx EXCEPT ![l] = @ + 1]
  /\ UNCHANGED <<tables, stopVars, req, mine, hTodo, conn, closer>>

\* CloseEnds: the handler returns and leaves the rest to the close.
AnswerFailsReturns(l) ==
  /\ login[l] = "answer"
  /\ login' = [login EXCEPT ![l] = "ended"]
  /\ UNCHANGED <<tables, stopVars, req, idx, mine, hTodo, conn, closer, px>>

\* ServedExactly: the client leaves the table before its mappings close.
UnregisterFirst(l) ==
  /\ \/ /\ cclose[l] = "closing" /\ cclose' = [cclose EXCEPT ![l] = "drain"]
        /\ UNCHANGED cTodo
     \/ /\ cclose[l] = "unregistered" /\ cclose' = [cclose EXCEPT ![l] = "redrain"]
        /\ cTodo' = [cTodo EXCEPT ![l] = FirstN(mine[l])]
  /\ UNCHANGED <<tables, stopVars, handler, conn, px>>

\* CleanAfter: Stop does not wait for the handlers.
StopWithoutWait ==
  /\ stop = "closing" /\ stopTodo = <<>>
  /\ stop' = "stopped"
  /\ UNCHANGED <<tables, stopTodo, handler, conn, closer, px>>

-----------------------------------------------------------------------------
(* handleLogin                                                             *)

\* setupProxies checks all of them before it starts any.
ValidSpecs(specs) ==
  /\ specs # <<>>
  /\ \A i, j \in 1..Len(specs) : specs[i].name = specs[j].name => i = j
  /\ \A i \in 1..Len(specs) : specs[i].port \notin BindKeys

\* acceptLoop runs until the listener is closed; what it accepted goes on.
Arrive(l, r) ==
  /\ login[l] = "none" /\ stop \in {"running", "marked"}
  /\ req' = [req EXCEPT ![l] = r]
  /\ login' = [login EXCEPT ![l] = "register"]
  /\ UNCHANGED <<tables, stopVars, idx, mine, hTodo, conn, closer, px>>

CanRegister(l) ==
  /\ stop = "running"
  /\ MaxClients = 0 \/ Cardinality({i \in Ids : clients[i] # None}) < MaxClients
  /\ clients[req[l].id] = None

RegisterClient(l) ==
  /\ login[l] = "register" /\ CanRegister(l)
  /\ clients' = [clients EXCEPT ![req[l].id] = l]
  /\ login' = [login EXCEPT ![l] = IF ValidSpecs(req[l].specs) THEN "claim" ELSE "refuse"]
  /\ UNCHANGED <<proxies, portOwner, stopVars, req, idx, mine, hTodo, conn, closer, px>>

RegisterFails(l) ==
  /\ login[l] = "register" /\ ~CanRegister(l)
  /\ login' = [login EXCEPT ![l] = "ended"]
  /\ conn' = [conn EXCEPT ![l] = "closed"]
  /\ UNCHANGED <<tables, stopVars, req, idx, mine, hTodo, closer, px>>

\* start: claimPort ...
ClaimPort(l) ==
  /\ login[l] = "claim" /\ PortOf(Current(l)) \notin portOwner
  /\ portOwner' = portOwner \cup {PortOf(Current(l))}
  /\ px' = [px EXCEPT ![Current(l)] = "claimed"]
  /\ login' = [login EXCEPT ![l] = "listen"]
  /\ UNCHANGED <<clients, proxies, stopVars, req, idx, mine, hTodo, conn, closer>>

\* The mappings created so far are closed in order.
ClaimFails(l) ==
  /\ login[l] = "claim" /\ PortOf(Current(l)) \in portOwner
  /\ login' = [login EXCEPT ![l] = "rollback"]
  /\ hTodo' = [hTodo EXCEPT ![l] = FirstN(idx[l] - 1)]
  /\ UNCHANGED <<tables, stopVars, req, idx, mine, conn, closer, px>>

\* ... and listen, with the port free in the operating system or not.
Listen(l) ==
  /\ login[l] = "listen"
  /\ px' = [px EXCEPT ![Current(l)] = "listening"]
  /\ login' = [login EXCEPT ![l] = IF Last(l) THEN "add" ELSE "claim"]
  /\ idx' = [idx EXCEPT ![l] = IF Last(l) THEN 1 ELSE @ + 1]
  /\ UNCHANGED <<tables, stopVars, req, mine, hTodo, conn, closer>>

ListenFails(l) ==
  /\ login[l] = "listen"
  /\ login' = [login EXCEPT ![l] = "unclaim"]
  /\ UNCHANGED <<tables, stopVars, req, idx, mine, hTodo, conn, closer, px>>

Unclaim(l) ==
  /\ login[l] = "unclaim"
  /\ portOwner' = portOwner \ {PortOf(Current(l))}
  /\ px' = [px EXCEPT ![Current(l)] = "failed"]
  /\ login' = [login EXCEPT ![l] = "rollback"]
  /\ hTodo' = [hTodo EXCEPT ![l] = FirstN(idx[l] - 1)]
  /\ UNCHANGED <<clients, proxies, stopVars, req, idx, mine, conn, closer>>

RolledBack(l) ==
  /\ login[l] = "rollback" /\ hTodo[l] = <<>>
  /\ login' = [login EXCEPT ![l] = "refuse"]
  /\ UNCHANGED <<tables, stopVars, req, idx, mine, hTodo, conn, closer, px>>

\* replyLoginError comes before unregisterClient.
Refuse(l) ==
  /\ login[l] = "refuse"
  /\ conn' = [conn EXCEPT ![l] = "closed"]
  /\ login' = [login EXCEPT ![l] = "unregister"]
  /\ UNCHANGED <<tables, stopVars, req, idx, mine, hTodo, closer, px>>

AddProxy(l) ==
  /\ login[l] = "add"
  /\ mine' = [mine EXCEPT ![l] = @ + 1]
  /\ login' = [login EXCEPT ![l] = "publish"]
  /\ UNCHANGED <<tables, stopVars, req, idx, hTodo, conn, closer, px>>

RegisterProxy(l) ==
  /\ login[l] = "publish"
  /\ proxies' = [proxies EXCEPT ![NameOf(Current(l))] = Current(l)]
  /\ login' = [login EXCEPT ![l] = IF Last(l) THEN "answer" ELSE "add"]
  /\ idx' = [idx EXCEPT ![l] = IF Last(l) THEN @ ELSE @ + 1]
  /\ UNCHANGED <<clients, portOwner, stopVars, req, mine, hTodo, conn, closer, px>>

Answer(l) ==
  /\ login[l] = "answer" /\ conn[l] = "open"
  /\ login' = [login EXCEPT ![l] = "online"]
  /\ UNCHANGED <<tables, stopVars, req, idx, mine, hTodo, conn, closer, px>>

\* Stop closed the connection, or it broke.
AnswerFails(l) ==
  /\ login[l] = "answer"
  /\ login' = [login EXCEPT ![l] = "unregister"]
  /\ UNCHANGED <<tables, stopVars, req, idx, mine, hTodo, conn, closer, px>>

WithoutClient(l) ==
  [i \in Ids |-> IF i = req[l].id /\ clients[i] = l THEN None ELSE clients[i]]

\* unregisterClient on the paths where the login fails.
UnregisterClient(l) ==
  /\ login[l] = "unregister"
  /\ clients' = WithoutClient(l)
  /\ hTodo' = [hTodo EXCEPT ![l] = FirstN(mine[l])]
  /\ login' = [login EXCEPT ![l] = "discard"]
  /\ UNCHANGED <<proxies, portOwner, stopVars, req, idx, mine, conn, closer, px>>

EndLogin(l) ==
  /\ login[l] = "discard" /\ hTodo[l] = <<>>
  /\ login' = [login EXCEPT ![l] = "ended"]
  /\ conn' = [conn EXCEPT ![l] = "closed"]
  /\ UNCHANGED <<tables, stopVars, req, idx, mine, hTodo, closer, px>>

\* readLoop is left and the deferred close has run or been waited for.
EndReadLoop(l) ==
  /\ login[l] = "online" /\ cclose[l] = "done"
  /\ login' = [login EXCEPT ![l] = "ended"]
  /\ UNCHANGED <<tables, stopVars, req, idx, mine, hTodo, conn, closer, px>>

-----------------------------------------------------------------------------
(* client.close                                                            *)

BeginClose(l) ==
  /\ cclose[l] = "no"
  /\ cclose' = [cclose EXCEPT ![l] = "closing"]
  /\ conn' = [conn EXCEPT ![l] = "closed"]
  /\ UNCHANGED <<tables, stopVars, handler, cTodo, px>>

\* A read error or a heartbeat timeout in readLoop, a write error in writeLoop.
LinkBreaks(l) == login[l] = "online" /\ BeginClose(l)

\* closeProxies copies client.proxies: first here, again in unregisterClient.
SnapshotProxies(l) ==
  /\ \/ cclose[l] = "closing" /\ cclose' = [cclose EXCEPT ![l] = "drain"]
     \/ cclose[l] = "unregistered" /\ cclose' = [cclose EXCEPT ![l] = "redrain"]
  /\ cTodo' = [cTodo EXCEPT ![l] = FirstN(mine[l])]
  /\ UNCHANGED <<tables, stopVars, handler, conn, px>>

UnregisterOnClose(l) ==
  /\ cclose[l] = "drain" /\ cTodo[l] = <<>>
  /\ clients' = WithoutClient(l)
  /\ cclose' = [cclose EXCEPT ![l] = "unregistered"]
  /\ UNCHANGED <<proxies, portOwner, stopVars, handler, conn, cTodo, px>>

EndClose(l) ==
  /\ cclose[l] = "redrain" /\ cTodo[l] = <<>>
  /\ cclose' = [cclose EXCEPT ![l] = "done"]
  /\ UNCHANGED <<tables, stopVars, handler, conn, cTodo, px>>

-----------------------------------------------------------------------------
(* proxy.close                                                             *)

\* The first caller closes done and the listener.
ShutListener(p) ==
  /\ px[p] = "listening"
  /\ px' = [px EXCEPT ![p] = "closing"]
  /\ UNCHANGED <<tables, stopVars, handler, conn, closer>>

ReleasePort(p) ==
  /\ px[p] = "closing"
  /\ portOwner' = portOwner \ {PortOf(p)}
  /\ px' = [px EXCEPT ![p] = "released"]
  /\ UNCHANGED <<clients, proxies, stopVars, handler, conn, closer>>

UnregisterProxy(p) ==
  /\ px[p] = "released"
  /\ proxies' = [n \in Names |-> IF n = NameOf(p) /\ proxies[n] = p THEN None ELSE proxies[n]]
  /\ px' = [px EXCEPT ![p] = "closed"]
  /\ UNCHANGED <<clients, portOwner, stopVars, handler, conn, closer>>

\* A caller starts the close of the first mapping of its list, or waits for
\* whoever did, and goes on to the next one.
HandlerCloses(l) ==
  /\ hTodo[l] # <<>>
  /\ \/ ShutListener(<<l, Head(hTodo[l])>>)
     \/ /\ px[<<l, Head(hTodo[l])>>] = "closed"
        /\ hTodo' = [hTodo EXCEPT ![l] = Tail(@)]
        /\ UNCHANGED <<tables, stopVars, req, login, idx, mine, conn, closer, px>>

CloserCloses(l) ==
  /\ cTodo[l] # <<>>
  /\ \/ ShutListener(<<l, Head(cTodo[l])>>)
     \/ /\ px[<<l, Head(cTodo[l])>>] = "closed"
        /\ cTodo' = [cTodo EXCEPT ![l] = Tail(@)]
        /\ UNCHANGED <<tables, stopVars, handler, conn, cclose, px>>

-----------------------------------------------------------------------------
(* Server.Stop                                                             *)

StopMark ==
  /\ stop = "running"
  /\ stop' = "marked"
  /\ UNCHANGED <<tables, stopTodo, handler, conn, closer, px>>

StopListener ==
  /\ stop = "marked"
  /\ stop' = "unlistened"
  /\ UNCHANGED <<tables, stopTodo, handler, conn, closer, px>>

Online == {l \in Logins : \E i \in Ids : clients[i] = l}

\* The map is iterated in any order.
StopSnapshot ==
  /\ stop = "unlistened"
  /\ stop' = "closing"
  /\ \E q \in [1..Cardinality(Online) -> Online] :
       /\ \A l \in Online : \E i \in DOMAIN q : q[i] = l
       /\ stopTodo' = q
  /\ UNCHANGED <<tables, handler, conn, closer, px>>

StopClient ==
  /\ stop = "closing" /\ stopTodo # <<>>
  /\ \/ BeginClose(Head(stopTodo))
     \/ /\ cclose[Head(stopTodo)] = "done"
        /\ stopTodo' = Tail(stopTodo)
        /\ UNCHANGED <<tables, stop, handler, conn, closer, px>>

\* wg.Wait: every handler has returned.
StopReturns ==
  /\ stop = "closing" /\ stopTodo = <<>>
  /\ \A l \in Logins : login[l] \in {"none", "ended"}
  /\ stop' = "stopped"
  /\ UNCHANGED <<tables, stopTodo, handler, conn, closer, px>>

-----------------------------------------------------------------------------
\* What the handler goroutine of a login does next, when it need not wait.
HandlerStep(l) ==
  \/ RegisterClient(l) \/ RegisterFails(l)
  \/ ClaimPort(l) \/ ClaimFails(l) \/ Listen(l) \/ ListenFails(l) \/ Unclaim(l)
  \/ RolledBack(l) \/ Refuse(l) \/ AddProxy(l) \/ RegisterProxy(l)
  \/ Answer(l) \/ AnswerFails(l) \/ UnregisterClient(l) \/ EndLogin(l)
  \/ EndReadLoop(l) \/ HandlerCloses(l)

CloserStep(l) ==
  SnapshotProxies(l) \/ UnregisterOnClose(l) \/ EndClose(l) \/ CloserCloses(l)

ProxyStep(p) == ReleasePort(p) \/ UnregisterProxy(p)

StopStep == StopListener \/ StopSnapshot \/ StopClient \/ StopReturns

Next ==
  \/ \E l \in Logins :
       \/ \E r \in Requests : Arrive(l, r)
       \/ HandlerStep(l) \/ LinkBreaks(l) \/ CloserStep(l)
  \/ \E p \in Proxies : ProxyStep(p)
  \/ StopMark \/ StopStep

Spec == Init /\ [][Next]_vars

\* Goroutines run. No one is obliged to connect, to disconnect or to stop.
Fairness ==
  /\ \A l \in Logins : WF_vars(HandlerStep(l)) /\ WF_vars(CloserStep(l))
  /\ \A p \in Proxies : WF_vars(ProxyStep(p))
  /\ WF_vars(StopStep)

FairSpec == Spec /\ Fairness

-----------------------------------------------------------------------------
\* The values each table, program counter and list can take.
TypeOK ==
  /\ clients \in [Ids -> Logins \cup {None}]
  /\ proxies \in [Names -> Proxies \cup {None}]
  /\ portOwner \subseteq Ports
  /\ stop \in {"running", "marked", "unlistened", "closing", "stopped"}
  /\ stopTodo \in Seq(Logins)
  /\ req \in [Logins -> Requests \cup {None}]
  /\ login \in [Logins -> {"none", "register", "claim", "listen", "unclaim", "rollback",
                           "refuse", "add", "publish", "answer", "online",
                           "unregister", "discard", "ended"}]
  /\ idx \in [Logins -> 1..MaxSpecs]
  /\ mine \in [Logins -> 0..MaxSpecs]
  /\ hTodo \in [Logins -> Seq(1..MaxSpecs)]
  /\ conn \in [Logins -> {"open", "closed"}]
  /\ cclose \in [Logins -> {"no", "closing", "drain", "unregistered", "redrain", "done"}]
  /\ cTodo \in [Logins -> Seq(1..MaxSpecs)]
  /\ px \in [Proxies -> {"new", "claimed", "failed", "listening", "closing",
                         "released", "closed"}]

\* The port table is exactly what the live mappings hold, and no two of them
\* hold the same port: claimPort decides before the operating system is asked,
\* and releasePort, which deletes whatever the key holds, never deletes the
\* claim of another mapping.
PortExclusive ==
  /\ portOwner = {PortOf(p) : p \in {q \in Proxies : Holds(q)}}
  /\ \A p, q \in Proxies : Holds(p) /\ Holds(q) /\ PortOf(p) = PortOf(q) => p = q

\* An online client has all its mappings until its close begins.
OnlineServed ==
  \A l \in Logins : login[l] = "online" /\ cclose[l] = "no" =>
    /\ clients[req[l].id] = l
    /\ \A i \in 1..Len(req[l].specs) : px[<<l, i>>] = "listening"

\* The id of a client that was online is free for its next login only after
\* all its ports are, so the login does not meet its own old mappings.
PortsBeforeId ==
  \A l \in Logins : login[l] = "online" /\ clients[req[l].id] # l =>
    \A i \in 1..MaxSpecs : ~Holds(<<l, i>>)

\* The table of clients tells the truth about the mappings of online clients,
\* from the answer to the login until the id is free again.
ServedExactly == OnlineServed /\ PortsBeforeId

\* A login that is over left nothing behind: no listener, no port, no id.
NoResidue ==
  \A l \in Logins : login[l] = "ended" =>
    /\ \A i \in Ids : clients[i] # l
    /\ \A i \in 1..MaxSpecs : px[<<l, i>>] \in {"new", "failed", "closed"}

\* "关闭监听、断开所有客户端并回收端口映射" (Stop), also for the logins that were
\* being set up when Stop began.
StoppedClean ==
  stop = "stopped" =>
    /\ portOwner = {}
    /\ \A p \in Proxies : ~Holds(p)
    /\ \A i \in Ids : clients[i] = None

\* What ends, a login or the server, leaves nothing behind.
CleanAfter == NoResidue /\ StoppedClean

-----------------------------------------------------------------------------
(* The inductive invariant behind PortExclusive.                           *)

RequestKnown ==
  \A l \in Logins :
    IF login[l] = "none" THEN \A i \in 1..MaxSpecs : px[<<l, i>>] = "new"
                         ELSE req[l] \in Requests

\* Where the loops of setupProxies are.
LoopBounds ==
  \A l \in Logins :
    /\ login[l] \in {"none", "register"} => idx[l] = 1
    /\ login[l] \in {"claim", "listen", "unclaim", "add", "publish"} =>
         idx[l] <= Len(req[l].specs)
    /\ login[l] \in {"none", "register", "claim", "listen", "unclaim"} => mine[l] = 0
    /\ login[l] = "add" => mine[l] = idx[l] - 1
    /\ login[l] = "publish" => mine[l] = idx[l]

\* The first loop has touched exactly the mappings before the current one.
ClaimPhase ==
  \A l \in Logins, i \in 1..MaxSpecs :
    /\ px[<<l, i>>] # "new" => i <= Len(req[l].specs)
    /\ px[<<l, i>>] = "claimed" => login[l] \in {"listen", "unclaim"} /\ i = idx[l]
    /\ login[l] = "register" => px[<<l, i>>] = "new"
    /\ login[l] = "claim" /\ i >= idx[l] => px[<<l, i>>] = "new"
    /\ login[l] \in {"listen", "unclaim"} /\ i > idx[l] => px[<<l, i>>] = "new"
    /\ login[l] \in {"listen", "unclaim"} /\ i = idx[l] => px[<<l, i>>] = "claimed"

IInv == TypeOK /\ RequestKnown /\ LoopBounds /\ ClaimPhase /\ PortExclusive

-----------------------------------------------------------------------------
\* The mapping that holds a port; there is one if PortExclusive.
Holders(k) == {p \in Proxies : Holds(p) /\ PortOf(p) = k}
leaseBar == [k \in Ports |-> IF Holders(k) = {} THEN None ELSE CHOOSE p \in Holders(k) : TRUE]
listeningBar == {p \in Proxies : px[p] = "listening"}

PX == INSTANCE PortLease WITH Nobody <- None, lease <- leaseBar, listening <- listeningBar

\* The tables and the order of close implement exclusive leases of ports.
PortLeaseSpec == PX!Spec

\* Stop, once begun, returns: closeOnce, the lists and wg.Wait never wait for
\* each other in a circle. A client whose close began is eventually gone with
\* everything it held.
CloseEnds ==
  /\ stop = "marked" ~> stop = "stopped"
  /\ \A l \in Logins : cclose[l] = "closing" ~>
       login[l] = "ended" /\ \A i \in 1..MaxSpecs : ~Holds(<<l, i>>)
=============================================================================
