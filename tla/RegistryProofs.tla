--------------------------- MODULE RegistryProofs ---------------------------
(***************************************************************************)
(* Proofs about Registry, for any number of logins, any requests and any   *)
(* limit on clients.                                                       *)
(***************************************************************************)
EXTENDS Registry, FiniteSetTheorems, TLAPS

\* The states of the program counters and lists that Init assigns are typed.
LEMMA InitIInv == Init => IInv
<1> SUFFICES ASSUME Init PROVE IInv
  OBVIOUS
<1> USE RegistryAssumption DEF Init
<1>1. TypeOK
  BY DEF TypeOK, Proxies
<1>2. RequestKnown /\ LoopBounds /\ ClaimPhase
  BY DEF RequestKnown, LoopBounds, ClaimPhase, Proxies
<1>3. PortExclusive
  BY DEF PortExclusive, Holds
<1> QED
  BY <1>1, <1>2, <1>3 DEF IInv

LEMMA FirstNType ==
  ASSUME NEW n \in 0..MaxSpecs
  PROVE  FirstN(n) \in Seq(1..MaxSpecs)
  BY RegistryAssumption DEF FirstN

LEMMA FunctionIsSeq ==
  ASSUME NEW n \in Nat, NEW S, NEW q \in [1..n -> S]
  PROVE  q \in Seq(S)
<1>1. q = [i \in 1..n |-> q[i]]
  OBVIOUS
<1>2. [i \in 1..n |-> q[i]] \in Seq(S)
  OBVIOUS
<1> QED
  BY <1>1, <1>2

\* What a login that arrived asked for.
LEMMA RequestFacts ==
  ASSUME IInv, NEW l \in Logins, login[l] # "none"
  PROVE  /\ req[l] \in Requests /\ req[l].id \in Ids
         /\ Len(req[l].specs) \in 0..MaxSpecs
         /\ \A i \in 1..Len(req[l].specs) : /\ NameOf(<<l, i>>) \in Names
                                            /\ PortOf(<<l, i>>) \in Ports
<1>1. req[l] \in Requests
  BY DEF IInv, RequestKnown
<1>2. /\ req[l].id \in Ids /\ req[l].specs \in Seq(Specs)
      /\ Len(req[l].specs) \in 0..MaxSpecs
  BY <1>1, RegistryAssumption
<1>3. \A i \in 1..Len(req[l].specs) : req[l].specs[i] \in Specs
  BY <1>2
<1> QED
  BY <1>1, <1>2, <1>3 DEF Specs, NameOf, PortOf

\* The mapping a loop of setupProxies is at.
LEMMA CurrentFacts ==
  ASSUME IInv, NEW l \in Logins,
         login[l] \in {"claim", "listen", "unclaim", "add", "publish"}
  PROVE  /\ idx[l] \in 1..Len(req[l].specs) /\ idx[l] \in 1..MaxSpecs
         /\ Current(l) \in Proxies
         /\ NameOf(Current(l)) \in Names /\ PortOf(Current(l)) \in Ports
         /\ ~Last(l) => idx[l] + 1 \in 1..Len(req[l].specs) /\ idx[l] + 1 \in 1..MaxSpecs
<1>1. /\ idx[l] \in 1..MaxSpecs /\ idx[l] <= Len(req[l].specs)
      /\ Len(req[l].specs) \in 0..MaxSpecs
  BY RequestFacts DEF IInv, TypeOK, LoopBounds
<1>2. idx[l] \in 1..Len(req[l].specs)
  BY <1>1, RegistryAssumption
<1>3. NameOf(Current(l)) \in Names /\ PortOf(Current(l)) \in Ports
  BY <1>2, RequestFacts DEF Current
<1> QED
  BY <1>1, <1>2, <1>3, RegistryAssumption DEF Current, Proxies, Last

LEMMA TypeStep == IInv /\ [Next]_vars => TypeOK'
<1> SUFFICES ASSUME IInv, [Next]_vars PROVE TypeOK'
  OBVIOUS
<1> TypeOK
  BY DEF IInv
<1> USE RegistryAssumption DEF TypeOK, tables, stopVars, handler, closer, Proxies
<1>1. ASSUME NEW l \in Logins, NEW r \in Requests, Arrive(l, r) PROVE TypeOK'
  BY <1>1 DEF Arrive
<1>2. ASSUME NEW l \in Logins, HandlerStep(l) PROVE TypeOK'
  <2>1. CASE RegisterClient(l)
    BY <2>1 DEF RegisterClient
  <2>2. CASE RegisterFails(l)
    BY <2>2 DEF RegisterFails
  <2>3. CASE ClaimPort(l)
    BY <2>3, CurrentFacts DEF ClaimPort
  <2>4. CASE ClaimFails(l)
    <3>1. idx[l] - 1 \in 0..MaxSpecs
      OBVIOUS
    <3>2. FirstN(idx[l] - 1) \in Seq(1..MaxSpecs)
      BY <3>1, FirstNType
    <3> QED
      BY <2>4, <3>2 DEF ClaimFails
  <2>5. CASE Listen(l)
    BY <2>5, CurrentFacts DEF Listen
  <2>6. CASE ListenFails(l)
    BY <2>6 DEF ListenFails
  <2>7. CASE Unclaim(l)
    <3>1. idx[l] - 1 \in 0..MaxSpecs
      OBVIOUS
    <3>2. FirstN(idx[l] - 1) \in Seq(1..MaxSpecs)
      BY <3>1, FirstNType
    <3> QED
      BY <2>7, <3>2 DEF Unclaim
  <2>8. CASE RolledBack(l)
    BY <2>8 DEF RolledBack
  <2>9. CASE Refuse(l)
    BY <2>9 DEF Refuse
  <2>10. CASE AddProxy(l)
    <3>1. mine[l] + 1 \in 0..MaxSpecs
      BY <2>10 DEF AddProxy, IInv, LoopBounds
    <3> QED
      BY <2>10, <3>1 DEF AddProxy
  <2>11. CASE RegisterProxy(l)
    BY <2>11, CurrentFacts DEF RegisterProxy
  <2>12. CASE Answer(l)
    BY <2>12 DEF Answer
  <2>13. CASE AnswerFails(l)
    BY <2>13 DEF AnswerFails
  <2>14. CASE UnregisterClient(l)
    <3>1. FirstN(mine[l]) \in Seq(1..MaxSpecs)
      BY FirstNType
    <3> QED
      BY <2>14, <3>1 DEF UnregisterClient, WithoutClient
  <2>15. CASE EndLogin(l)
    BY <2>15 DEF EndLogin
  <2>16. CASE EndReadLoop(l)
    BY <2>16 DEF EndReadLoop
  <2>17. CASE HandlerCloses(l)
    <3>1. CASE ShutListener(<<l, Head(hTodo[l])>>)
      BY <3>1 DEF ShutListener
    <3>2. CASE /\ hTodo' = [hTodo EXCEPT ![l] = Tail(@)]
               /\ UNCHANGED <<tables, stopVars, req, login, idx, mine, conn, closer, px>>
      <4>1. Tail(hTodo[l]) \in Seq(1..MaxSpecs)
        BY <2>17 DEF HandlerCloses
      <4> QED
        BY <3>2, <4>1
    <3> QED
      BY <2>17, <3>1, <3>2 DEF HandlerCloses
  <2> QED
    BY <1>2, <2>1, <2>2, <2>3, <2>4, <2>5, <2>6, <2>7, <2>8, <2>9, <2>10, <2>11, <2>12, <2>13, <2>14, <2>15, <2>16, <2>17
    DEF HandlerStep
<1>3. ASSUME NEW l \in Logins, LinkBreaks(l) \/ CloserStep(l) PROVE TypeOK'
  <2>1. CASE BeginClose(l)
    BY <2>1 DEF BeginClose
  <2>2. CASE SnapshotProxies(l)
    BY <2>2, FirstNType DEF SnapshotProxies
  <2>3. CASE UnregisterOnClose(l)
    BY <2>3 DEF UnregisterOnClose, WithoutClient
  <2>4. CASE EndClose(l)
    BY <2>4 DEF EndClose
  <2>5. CASE CloserCloses(l)
    <3>1. CASE ShutListener(<<l, Head(cTodo[l])>>)
      BY <3>1 DEF ShutListener
    <3>2. CASE /\ cTodo' = [cTodo EXCEPT ![l] = Tail(@)]
               /\ UNCHANGED <<tables, stopVars, handler, conn, cclose, px>>
      <4>1. Tail(cTodo[l]) \in Seq(1..MaxSpecs)
        BY <2>5 DEF CloserCloses
      <4> QED
        BY <3>2, <4>1
    <3> QED
      BY <2>5, <3>1, <3>2 DEF CloserCloses
  <2> QED
    BY <1>3, <2>1, <2>2, <2>3, <2>4, <2>5 DEF LinkBreaks, CloserStep
<1>4. ASSUME NEW p \in Proxies, ProxyStep(p) PROVE TypeOK'
  <2>1. CASE ReleasePort(p)
    BY <2>1 DEF ReleasePort
  <2>2. CASE UnregisterProxy(p)
    BY <2>2 DEF UnregisterProxy
  <2> QED
    BY <1>4, <2>1, <2>2 DEF ProxyStep
<1>5. CASE StopMark \/ StopStep
  <2>1. CASE StopMark \/ StopListener \/ StopReturns
    BY <2>1 DEF StopMark, StopListener, StopReturns
  <2>2. CASE StopSnapshot
    <3>1. Cardinality(Online) \in Nat
      BY FS_Subset, FS_CardinalityType DEF Online
    <3>2. stopTodo' \in Seq(Logins)
      <4>1. PICK q \in [1..Cardinality(Online) -> Online] : stopTodo' = q
        BY <2>2 DEF StopSnapshot
      <4>2. q \in Seq(Online)
        BY <3>1, <4>1, FunctionIsSeq
      <4> QED
        BY <4>1, <4>2 DEF Online
    <3> QED
      BY <2>2, <3>2 DEF StopSnapshot
  <2>3. CASE StopClient
    <3>1. CASE BeginClose(Head(stopTodo))
      BY <3>1 DEF BeginClose
    <3>2. CASE /\ stopTodo' = Tail(stopTodo)
               /\ UNCHANGED <<tables, stop, handler, conn, closer, px>>
      <4>1. Tail(stopTodo) \in Seq(Logins)
        BY <2>3 DEF StopClient
      <4> QED
        BY <3>2, <4>1
    <3> QED
      BY <2>3, <3>1, <3>2 DEF StopClient
  <2> QED
    BY <1>5, <2>1, <2>2, <2>3 DEF StopStep
<1>6. CASE UNCHANGED vars
  BY <1>6 DEF vars
<1> QED
  BY <1>1, <1>2, <1>3, <1>4, <1>5, <1>6 DEF Next

-----------------------------------------------------------------------------
Loops == RequestKnown /\ LoopBounds /\ ClaimPhase

\* A handler changes only its own counters and the mapping it is at; the
\* closers touch only mappings that listen or are already closing.
LEMMA LoopStep == IInv /\ [Next]_vars => Loops'
<1> SUFFICES ASSUME IInv, [Next]_vars PROVE Loops'
  OBVIOUS
<1> TypeOK /\ Loops
  BY DEF IInv, Loops
<1> USE RegistryAssumption
    DEF TypeOK, Loops, RequestKnown, LoopBounds, ClaimPhase,
        tables, stopVars, handler, closer, Proxies
<1>0. ASSUME NEW p \in Proxies, px[p] \in {"listening", "closing", "released"},
             NEW v \in {"closing", "released", "closed"},
             px' = [px EXCEPT ![p] = v], UNCHANGED <<req, login, idx, mine>>
      PROVE  Loops'
  <2>1. PICK k \in Logins, j \in 1..MaxSpecs : p = <<k, j>>
    OBVIOUS
  <2>2. \A l \in Logins, i \in 1..MaxSpecs :
          px'[<<l, i>>] = IF l = k /\ i = j THEN v ELSE px[<<l, i>>]
    <3>1. px' = [px EXCEPT ![<<k, j>>] = v]
      BY <1>0, <2>1
    <3> SUFFICES ASSUME NEW l \in Logins, NEW i \in 1..MaxSpecs
                 PROVE  px'[<<l, i>>] = IF l = k /\ i = j THEN v ELSE px[<<l, i>>]
      OBVIOUS
    <3>2. <<l, i>> \in DOMAIN px
      OBVIOUS
    <3>3. <<l, i>> = <<k, j>> <=> l = k /\ i = j
      OBVIOUS
    <3> QED
      BY <3>1, <3>2, <3>3
  <2>3. px[<<k, j>>] \notin {"new", "claimed"} /\ v \notin {"new", "claimed"}
    BY <1>0, <2>1
  <2>4. ClaimPhase'
    <3> SUFFICES ASSUME NEW l \in Logins, NEW i \in 1..MaxSpecs
                 PROVE  (ClaimPhase!(l, i))'
      OBVIOUS
    <3>1. CASE l = k /\ i = j
      <4>1. px'[<<l, i>>] = v /\ px[<<l, i>>] \notin {"new", "claimed"}
        BY <2>2, <2>3, <3>1
      <4>2. /\ i <= Len(req[l].specs)
            /\ login[l] \notin {"register", "listen", "unclaim"} \/ i # idx[l]
            /\ ~(login[l] = "claim" /\ i >= idx[l]) /\ login[l] # "register"
            /\ ~(login[l] \in {"listen", "unclaim"} /\ i >= idx[l])
        BY <4>1
      <4> QED
        BY <1>0, <2>3, <4>1, <4>2
    <3>2. CASE ~(l = k /\ i = j)
      BY <1>0, <2>2, <3>2
    <3> QED
      BY <3>1, <3>2
  <2>5. RequestKnown'
    <3> SUFFICES ASSUME NEW l \in Logins PROVE (RequestKnown!(l))'
      OBVIOUS
    <3>1. login[l] = "none" => l # k
      BY <2>3
    <3> QED
      BY <1>0, <2>2, <3>1
  <2>6. LoopBounds'
    BY <1>0
  <2> QED
    BY <2>4, <2>5, <2>6
<1>00. ASSUME UNCHANGED <<req, login, idx, mine, px>>
       PROVE  Loops'
  BY <1>00
<1>1. ASSUME NEW l \in Logins, NEW r \in Requests, Arrive(l, r) PROVE Loops'
  BY <1>1 DEF Arrive
<1>2. ASSUME NEW l \in Logins, HandlerStep(l) PROVE Loops'
  <2>1. CASE RegisterClient(l)
    BY <2>1 DEF RegisterClient, ValidSpecs
  <2>2. CASE RegisterFails(l)
    BY <2>2 DEF RegisterFails
  <2>3. CASE ClaimPort(l)
    BY <2>3, CurrentFacts DEF ClaimPort, Current
  <2>4. CASE ClaimFails(l)
    BY <2>4 DEF ClaimFails
  <2>5. CASE Listen(l)
    BY <2>5, CurrentFacts DEF Listen, Last, Current
  <2>6. CASE ListenFails(l)
    BY <2>6 DEF ListenFails
  <2>7. CASE Unclaim(l)
    BY <2>7, CurrentFacts DEF Unclaim, Current
  <2>8. CASE RolledBack(l)
    BY <2>8 DEF RolledBack
  <2>9. CASE Refuse(l)
    BY <2>9 DEF Refuse
  <2>10. CASE AddProxy(l)
    <3>1. /\ login[l] = "add" /\ login' = [login EXCEPT ![l] = "publish"]
          /\ mine' = [mine EXCEPT ![l] = mine[l] + 1]
          /\ mine[l] = idx[l] - 1 /\ idx[l] \in 1..MaxSpecs
          /\ UNCHANGED <<req, idx, px>>
      BY <2>10 DEF AddProxy
    <3>2. mine[l] + 1 = idx[l]
      BY <3>1
    <3>5. /\ login'[l] = "publish"
          /\ \A k \in Logins : k # l => login'[k] = login[k]
      BY <3>1
    <3>3. RequestKnown' /\ ClaimPhase'
      <4>1. RequestKnown'
        BY <3>1, <3>5
      <4>2. ClaimPhase'
        <5> SUFFICES ASSUME NEW k \in Logins, NEW i \in 1..MaxSpecs
                     PROVE  (ClaimPhase!(k, i))'
          OBVIOUS
        <5>1. CASE k = l
          BY <3>1, <3>5, <5>1
        <5>2. CASE k # l
          BY <3>1, <3>5, <5>2
        <5> QED
          BY <5>1, <5>2
      <4> QED
        BY <4>1, <4>2
    <3>4. LoopBounds'
      BY <3>1, <3>2
    <3> QED
      BY <3>3, <3>4
  <2>11. CASE RegisterProxy(l)
    <3>1. /\ login[l] = "publish" /\ mine[l] = idx[l]
          /\ login' = [login EXCEPT ![l] = IF Last(l) THEN "answer" ELSE "add"]
          /\ idx' = [idx EXCEPT ![l] = IF Last(l) THEN idx[l] ELSE idx[l] + 1]
          /\ UNCHANGED <<req, mine, px>>
      BY <2>11 DEF RegisterProxy
    <3>2. ~Last(l) => idx[l] + 1 <= Len(req[l].specs) /\ mine[l] = (idx[l] + 1) - 1
      BY <3>1, CurrentFacts
    <3>5. /\ login'[l] \in {"answer", "add"}
          /\ \A k \in Logins : k # l => login'[k] = login[k] /\ idx'[k] = idx[k]
      BY <3>1
    <3>3. RequestKnown' /\ ClaimPhase'
      BY <3>1, <3>5
    <3>4. LoopBounds'
      BY <3>1, <3>2
    <3> QED
      BY <3>3, <3>4
  <2>12. CASE Answer(l)
    BY <2>12 DEF Answer
  <2>13. CASE AnswerFails(l)
    BY <2>13 DEF AnswerFails
  <2>14. CASE UnregisterClient(l)
    BY <2>14 DEF UnregisterClient
  <2>15. CASE EndLogin(l)
    BY <2>15 DEF EndLogin
  <2>16. CASE EndReadLoop(l)
    BY <2>16 DEF EndReadLoop
  <2>17. CASE HandlerCloses(l)
    <3>1. <<l, Head(hTodo[l])>> \in Proxies
      BY <2>17 DEF HandlerCloses
    <3>2. CASE ShutListener(<<l, Head(hTodo[l])>>)
      BY <1>0, <3>1, <3>2 DEF ShutListener
    <3> QED
      BY <1>00, <2>17, <3>2 DEF HandlerCloses
  <2> QED
    BY <1>2, <2>1, <2>2, <2>3, <2>4, <2>5, <2>6, <2>7, <2>8, <2>9, <2>10,
       <2>11, <2>12, <2>13, <2>14, <2>15, <2>16, <2>17
    DEF HandlerStep
<1>3. ASSUME NEW l \in Logins, LinkBreaks(l) \/ CloserStep(l) PROVE Loops'
  <2>1. CASE LinkBreaks(l) \/ SnapshotProxies(l) \/ UnregisterOnClose(l) \/ EndClose(l)
    BY <1>00, <2>1 DEF LinkBreaks, BeginClose, SnapshotProxies, UnregisterOnClose, EndClose
  <2>2. CASE CloserCloses(l)
    <3>1. <<l, Head(cTodo[l])>> \in Proxies
      BY <2>2 DEF CloserCloses
    <3>2. CASE ShutListener(<<l, Head(cTodo[l])>>)
      BY <1>0, <3>1, <3>2 DEF ShutListener
    <3> QED
      BY <1>00, <2>2, <3>2 DEF CloserCloses
  <2> QED
    BY <1>3, <2>1, <2>2 DEF CloserStep
<1>4. ASSUME NEW p \in Proxies, ProxyStep(p) PROVE Loops'
  BY <1>0, <1>4 DEF ProxyStep, ReleasePort, UnregisterProxy
<1>5. CASE StopMark \/ StopStep
  BY <1>00, <1>5 DEF StopMark, StopStep, StopListener, StopSnapshot, StopClient,
                     BeginClose, StopReturns
<1>6. CASE UNCHANGED vars
  BY <1>00, <1>6 DEF vars
<1> QED
  BY <1>1, <1>2, <1>3, <1>4, <1>5, <1>6 DEF Next

-----------------------------------------------------------------------------
(* The port table and the leases.                                          *)

\* A step that changes who holds no port, or holds it under another name.
LEMMA PortsFrame ==
  ASSUME PortExclusive, UNCHANGED portOwner,
         \A p \in Proxies : Holds(p)' = Holds(p),
         \A p \in Proxies : Holds(p) => PortOf(p)' = PortOf(p)
  PROVE  PortExclusive' /\ \A k \in Ports : Holders(k)' = Holders(k)
<1>1. \A k \in Ports : Holders(k)' = Holders(k)
  BY DEF Holders
<1>2. portOwner' = {PortOf(p)' : p \in {q \in Proxies : Holds(q)'}}
  <2>1. {PortOf(p)' : p \in {q \in Proxies : Holds(q)'}}
          = {PortOf(p) : p \in {q \in Proxies : Holds(q)}}
    OBVIOUS
  <2> QED
    BY <2>1 DEF PortExclusive
<1>3. \A p, q \in Proxies : Holds(p)' /\ Holds(q)' /\ PortOf(p)' = PortOf(q)' => p = q
  BY DEF PortExclusive
<1> QED
  BY <1>1, <1>2, <1>3 DEF PortExclusive

\* claimPort adds the port of a mapping that held none.
LEMMA PortsClaim ==
  ASSUME PortExclusive, NEW c \in Proxies, ~Holds(c), PortOf(c) \notin portOwner,
         portOwner' = portOwner \cup {PortOf(c)},
         \A p \in Proxies : PortOf(p)' = PortOf(p),
         \A p \in Proxies : Holds(p)' <=> Holds(p) \/ p = c
  PROVE  /\ PortExclusive'
         /\ Holders(PortOf(c)) = {}
         /\ \A k \in Ports : Holders(k)' = Holders(k) \cup (IF k = PortOf(c) THEN {c} ELSE {})
<1>1. \A p \in Proxies : Holds(p) => PortOf(p) # PortOf(c)
  BY DEF PortExclusive
<1>2. portOwner' = {PortOf(p)' : p \in {q \in Proxies : Holds(q)'}}
  <2>1. {PortOf(p)' : p \in {q \in Proxies : Holds(q)'}}
          = {PortOf(p) : p \in {q \in Proxies : Holds(q)}} \cup {PortOf(c)}
    OBVIOUS
  <2> QED
    BY <2>1 DEF PortExclusive
<1>3. \A p, q \in Proxies : Holds(p)' /\ Holds(q)' /\ PortOf(p)' = PortOf(q)' => p = q
  BY <1>1 DEF PortExclusive
<1> QED
  BY <1>1, <1>2, <1>3 DEF PortExclusive, Holders

\* releasePort removes the port of one holder, and with it nobody else's.
LEMMA PortsRelease ==
  ASSUME PortExclusive, NEW c \in Proxies, Holds(c),
         portOwner' = portOwner \ {PortOf(c)},
         \A p \in Proxies : PortOf(p)' = PortOf(p),
         \A p \in Proxies : Holds(p)' <=> Holds(p) /\ p # c
  PROVE  /\ PortExclusive'
         /\ \A k \in Ports : Holders(k)' = Holders(k) \ {c}
<1>1. \A p \in Proxies : Holds(p) /\ p # c => PortOf(p) # PortOf(c)
  BY DEF PortExclusive
<1>2. portOwner' = {PortOf(p)' : p \in {q \in Proxies : Holds(q)'}}
  <2>1. {PortOf(p)' : p \in {q \in Proxies : Holds(q)'}}
          = {PortOf(p) : p \in {q \in Proxies : Holds(q)}} \ {PortOf(c)}
    BY <1>1
  <2> QED
    BY <2>1 DEF PortExclusive
<1>3. \A p, q \in Proxies : Holds(p)' /\ Holds(q)' /\ PortOf(p)' = PortOf(q)' => p = q
  BY DEF PortExclusive
<1> QED
  BY <1>1, <1>2, <1>3 DEF PortExclusive, Holders

\* The lease of a port is read off its only holder.
LEMMA LeaseIs ==
  PortExclusive => \A k \in Ports :
    /\ Holders(k) = {} => leaseBar[k] = None
    /\ \A p \in Holders(k) : leaseBar[k] = p
<1> SUFFICES ASSUME PortExclusive, NEW k \in Ports
             PROVE  /\ Holders(k) = {} => leaseBar[k] = None
                    /\ \A p \in Holders(k) : leaseBar[k] = p
  OBVIOUS
<1>1. Holders(k) = {} => leaseBar[k] = None
  BY DEF leaseBar
<1>2. ASSUME NEW p \in Holders(k) PROVE leaseBar[k] = p
  <2>1. Holders(k) = {p}
    BY <1>2 DEF Holders, PortExclusive
  <2> QED
    BY <2>1 DEF leaseBar
<1> QED
  BY <1>1, <1>2

LEMMA LeaseFrame ==
  ASSUME \A k \in Ports : Holders(k)' = Holders(k)
  PROVE  UNCHANGED leaseBar
<1>1. ASSUME NEW k \in Ports PROVE leaseBar'[k] = leaseBar[k]
  <2>1. Holders(k)' = Holders(k)
    OBVIOUS
  <2> QED
    BY <2>1 DEF leaseBar
<1> QED
  BY <1>1 DEF leaseBar

\* What a step does to the port table and to the leases.
PortEffect == PortExclusive' /\ [PX!Next]_(PX!vars)

\* Most steps change neither the holders of ports nor the listeners.
LEMMA QuietStep ==
  ASSUME IInv, UNCHANGED <<portOwner, req, px>>
  PROVE  PortEffect
<1>1. /\ \A p \in Proxies : Holds(p)' = Holds(p)
      /\ \A p \in Proxies : Holds(p) => PortOf(p)' = PortOf(p)
  BY DEF Holds, PortOf
<1>2. PortExclusive' /\ UNCHANGED leaseBar
  BY <1>1, PortsFrame, LeaseFrame DEF IInv
<1>3. UNCHANGED listeningBar
  BY DEF listeningBar
<1> QED
  BY <1>2, <1>3 DEF PortEffect, PX!vars

LEMMA ArriveStep ==
  ASSUME IInv, NEW l \in Logins, NEW r \in Requests, Arrive(l, r)
  PROVE  PortEffect
<1>1. \A p \in Proxies : Holds(p) => p[1] # l /\ p[1] \in Logins
  BY DEF Arrive, IInv, RequestKnown, Holds, Proxies
<1>2. /\ \A p \in Proxies : Holds(p)' = Holds(p)
      /\ \A p \in Proxies : Holds(p) => PortOf(p)' = PortOf(p)
  BY <1>1 DEF Arrive, Holds, PortOf, IInv, TypeOK
<1>3. PortExclusive' /\ UNCHANGED leaseBar
  BY <1>2, PortsFrame, LeaseFrame DEF IInv, Arrive, tables
<1>4. UNCHANGED listeningBar
  BY DEF listeningBar, Arrive
<1> QED
  BY <1>3, <1>4 DEF PortEffect, PX!vars

LEMMA ClaimStep ==
  ASSUME IInv, NEW l \in Logins, ClaimPort(l)
  PROVE  PortEffect
<1> DEFINE c == Current(l)
           k == PortOf(c)
<1>1. c \in Proxies /\ k \in Ports
  BY CurrentFacts DEF ClaimPort
<1>2. px[c] = "new" /\ idx[l] \in 1..MaxSpecs
  BY CurrentFacts DEF ClaimPort, IInv, ClaimPhase, Current
<1>3. \A p \in Proxies : px'[p] = IF p = c THEN "claimed" ELSE px[p]
  BY DEF ClaimPort, IInv, TypeOK
<1>4. /\ ~Holds(c) /\ PortOf(c) \notin portOwner
      /\ portOwner' = portOwner \cup {PortOf(c)}
      /\ \A p \in Proxies : PortOf(p)' = PortOf(p)
      /\ \A p \in Proxies : Holds(p)' <=> Holds(p) \/ p = c
  BY <1>1, <1>2, <1>3 DEF ClaimPort, Holds, PortOf
<1> HIDE DEF c
<1>5. /\ PortExclusive' /\ Holders(k) = {}
      /\ \A j \in Ports : Holders(j)' = Holders(j) \cup (IF j = k THEN {c} ELSE {})
  BY <1>1, <1>4, PortsClaim DEF IInv
<1>6. leaseBar[k] = None
  BY <1>1, <1>5, LeaseIs DEF IInv
<1>7. leaseBar' = [leaseBar EXCEPT ![k] = c]
  <2>1. ASSUME NEW j \in Ports PROVE leaseBar'[j] = IF j = k THEN c ELSE leaseBar[j]
    <3>1. CASE j = k
      <4>1. Holders(j)' = {c}
        BY <1>5, <3>1
      <4> QED
        BY <3>1, <4>1 DEF leaseBar
    <3>2. CASE j # k
      <4>1. Holders(j)' = Holders(j)
        BY <1>5, <3>2
      <4> QED
        BY <3>2, <4>1 DEF leaseBar
    <3> QED
      BY <3>1, <3>2
  <2> QED
    BY <1>1, <2>1 DEF leaseBar
<1>8. UNCHANGED listeningBar
  BY <1>1, <1>2, <1>3 DEF listeningBar
<1>9. PX!Lease(c, k)
  BY <1>6, <1>7, <1>8 DEF PX!Lease
<1> QED
  BY <1>1, <1>5, <1>9 DEF PortEffect, PX!Next

\* The mapping keeps its port when it starts to listen, and when it stops.
LEMMA HoldsFrame ==
  ASSUME IInv, NEW c \in Proxies, Holds(c), NEW v \in {"listening", "closing"},
         px' = [px EXCEPT ![c] = v], UNCHANGED <<portOwner, req>>
  PROVE  PortExclusive' /\ UNCHANGED leaseBar
<1>1. \A p \in Proxies : px'[p] = IF p = c THEN v ELSE px[p]
  BY DEF IInv, TypeOK
<1>2. /\ \A p \in Proxies : Holds(p)' = Holds(p)
      /\ \A p \in Proxies : Holds(p) => PortOf(p)' = PortOf(p)
  BY <1>1 DEF Holds, PortOf
<1> QED
  BY <1>2, PortsFrame, LeaseFrame DEF IInv

LEMMA ListenStep ==
  ASSUME IInv, NEW l \in Logins, Listen(l)
  PROVE  PortEffect
<1> DEFINE c == Current(l)
           k == PortOf(c)
<1>1. c \in Proxies /\ k \in Ports
  BY CurrentFacts DEF Listen
<1>2. px[c] = "claimed"
  BY CurrentFacts DEF Listen, IInv, ClaimPhase, Current
<1>3. px' = [px EXCEPT ![c] = "listening"] /\ UNCHANGED <<portOwner, req>>
  BY DEF Listen, tables
<1> HIDE DEF c
<1>4. Holds(c) /\ c \in Holders(k)
  BY <1>1, <1>2 DEF Holds, Holders
<1>5. PortExclusive' /\ UNCHANGED leaseBar
  BY <1>1, <1>3, <1>4, HoldsFrame
<1>6. leaseBar[k] = c
  BY <1>1, <1>4, LeaseIs DEF IInv
<1>7. listeningBar' = listeningBar \cup {c}
  BY <1>1, <1>3 DEF listeningBar, IInv, TypeOK
<1>8. PX!Listen(c, k)
  BY <1>5, <1>6, <1>7 DEF PX!Listen
<1> QED
  BY <1>1, <1>5, <1>8 DEF PortEffect, PX!Next

LEMMA ShutStep ==
  ASSUME IInv, NEW c \in Proxies, ShutListener(c)
  PROVE  PortEffect
<1>1. Holds(c)
  BY DEF ShutListener, Holds
<1>2. PortExclusive' /\ UNCHANGED leaseBar
  BY <1>1, HoldsFrame DEF ShutListener, tables, handler
<1>3. c \in listeningBar /\ listeningBar' = listeningBar \ {c}
  BY DEF ShutListener, listeningBar, IInv, TypeOK
<1>4. PX!Shut(c)
  BY <1>2, <1>3 DEF PX!Shut
<1> QED
  BY <1>2, <1>4 DEF PortEffect, PX!Next

\* A mapping that does not listen any more, or never did, returns its port.
LEMMA ReturnStep ==
  ASSUME IInv, NEW c \in Proxies, px[c] \in {"claimed", "closing"}, PortOf(c) \in Ports,
         NEW v \in {"failed", "released"}, px' = [px EXCEPT ![c] = v],
         portOwner' = portOwner \ {PortOf(c)}, UNCHANGED req
  PROVE  PortEffect
<1> DEFINE k == PortOf(c)
<1>1. \A p \in Proxies : px'[p] = IF p = c THEN v ELSE px[p]
  BY DEF IInv, TypeOK
<1>2. /\ Holds(c)
      /\ \A p \in Proxies : PortOf(p)' = PortOf(p)
      /\ \A p \in Proxies : Holds(p)' <=> Holds(p) /\ p # c
  BY <1>1 DEF Holds, PortOf
<1>3. PortExclusive' /\ \A j \in Ports : Holders(j)' = Holders(j) \ {c}
  BY <1>2, PortsRelease DEF IInv
<1>4. Holders(k) = {c} /\ \A j \in Ports : j # k => c \notin Holders(j)
  BY <1>2 DEF Holders, IInv, PortExclusive
<1>5. leaseBar[k] = c
  BY <1>4, LeaseIs DEF IInv
<1>6. leaseBar' = [leaseBar EXCEPT ![k] = None]
  <2>1. ASSUME NEW j \in Ports PROVE leaseBar'[j] = IF j = k THEN None ELSE leaseBar[j]
    <3>1. CASE j = k
      <4>1. Holders(j)' = {}
        BY <1>3, <1>4, <3>1
      <4> QED
        BY <3>1, <4>1 DEF leaseBar
    <3>2. CASE j # k
      <4>1. Holders(j)' = Holders(j)
        BY <1>3, <1>4, <3>2
      <4> QED
        BY <3>2, <4>1 DEF leaseBar
    <3> QED
      BY <3>1, <3>2
  <2> QED
    BY <2>1 DEF leaseBar
<1>7. c \notin listeningBar /\ UNCHANGED listeningBar
  BY <1>1 DEF listeningBar
<1>8. PX!Return(c, k)
  BY <1>5, <1>6, <1>7 DEF PX!Return
<1> QED
  BY <1>3, <1>8 DEF PortEffect, PX!Next

LEMMA PortStep == IInv /\ [Next]_vars => PortEffect
<1> SUFFICES ASSUME IInv, [Next]_vars PROVE PortEffect
  OBVIOUS
<1> USE DEF tables, stopVars, handler, closer
<1>1. ASSUME NEW l \in Logins, HandlerStep(l) PROVE PortEffect
  <2>1. CASE ClaimPort(l)
    BY <2>1, ClaimStep
  <2>2. CASE Listen(l)
    BY <2>2, ListenStep
  <2>3. CASE Unclaim(l)
    <3>1. Current(l) \in Proxies /\ PortOf(Current(l)) \in Ports /\ px[Current(l)] = "claimed"
      BY <2>3, CurrentFacts DEF Unclaim, Current, IInv, ClaimPhase
    <3> QED
      BY <2>3, <3>1, ReturnStep DEF Unclaim
  <2>4. CASE HandlerCloses(l)
    <3>1. <<l, Head(hTodo[l])>> \in Proxies
      <4>1. hTodo[l] \in Seq(1..MaxSpecs) /\ hTodo[l] # <<>>
        BY <2>4 DEF HandlerCloses, IInv, TypeOK
      <4> QED
        BY <4>1, RegistryAssumption DEF Proxies
    <3>2. CASE ShutListener(<<l, Head(hTodo[l])>>)
      BY <3>1, <3>2, ShutStep
    <3> QED
      BY <2>4, <3>2, QuietStep DEF HandlerCloses
  <2>5. CASE \/ RegisterClient(l) \/ RegisterFails(l) \/ ClaimFails(l) \/ ListenFails(l)
             \/ RolledBack(l) \/ Refuse(l) \/ AddProxy(l) \/ RegisterProxy(l)
             \/ Answer(l) \/ AnswerFails(l) \/ UnregisterClient(l) \/ EndLogin(l)
             \/ EndReadLoop(l)
    BY <2>5, QuietStep
    DEF RegisterClient, RegisterFails, ClaimFails, ListenFails, RolledBack, Refuse, AddProxy,
        RegisterProxy, Answer, AnswerFails, UnregisterClient, EndLogin, EndReadLoop
  <2> QED
    BY <1>1, <2>1, <2>2, <2>3, <2>4, <2>5 DEF HandlerStep
<1>2. ASSUME NEW l \in Logins, LinkBreaks(l) \/ CloserStep(l) PROVE PortEffect
  <2>1. CASE CloserCloses(l)
    <3>1. <<l, Head(cTodo[l])>> \in Proxies
      <4>1. cTodo[l] \in Seq(1..MaxSpecs) /\ cTodo[l] # <<>>
        BY <2>1 DEF CloserCloses, IInv, TypeOK
      <4> QED
        BY <4>1, RegistryAssumption DEF Proxies
    <3>2. CASE ShutListener(<<l, Head(cTodo[l])>>)
      BY <3>1, <3>2, ShutStep
    <3> QED
      BY <2>1, <3>2, QuietStep DEF CloserCloses
  <2>2. CASE LinkBreaks(l) \/ SnapshotProxies(l) \/ UnregisterOnClose(l) \/ EndClose(l)
    BY <2>2, QuietStep
    DEF LinkBreaks, BeginClose, SnapshotProxies, UnregisterOnClose, EndClose
  <2> QED
    BY <1>2, <2>1, <2>2 DEF CloserStep
<1>3. ASSUME NEW p \in Proxies, ProxyStep(p) PROVE PortEffect
  <2>1. CASE ReleasePort(p)
    <3>1. PortOf(p) \in Ports
      <4>1. PICK l \in Logins, i \in 1..MaxSpecs : p = <<l, i>>
        BY DEF Proxies
      <4>2. px[<<l, i>>] = "closing"
        BY <2>1, <4>1 DEF ReleasePort
      <4>3. login[l] # "none" /\ i \in 1..Len(req[l].specs)
        BY <4>2 DEF IInv, RequestKnown, ClaimPhase
      <4> QED
        BY <4>1, <4>3, RequestFacts
    <3> QED
      BY <2>1, <3>1, ReturnStep DEF ReleasePort
  <2>2. CASE UnregisterProxy(p)
    <3>1. \A q \in Proxies : px'[q] = IF q = p THEN "closed" ELSE px[q]
      BY <2>2 DEF UnregisterProxy, IInv, TypeOK
    <3>2. /\ \A q \in Proxies : Holds(q)' = Holds(q)
          /\ \A q \in Proxies : Holds(q) => PortOf(q)' = PortOf(q)
      BY <2>2, <3>1 DEF UnregisterProxy, Holds, PortOf
    <3>3. PortExclusive' /\ UNCHANGED leaseBar
      BY <2>2, <3>2, PortsFrame, LeaseFrame DEF IInv, UnregisterProxy
    <3>4. UNCHANGED listeningBar
      BY <2>2, <3>1 DEF UnregisterProxy, listeningBar
    <3> QED
      BY <3>3, <3>4 DEF PortEffect, PX!vars
  <2> QED
    BY <1>3, <2>1, <2>2 DEF ProxyStep
<1>4. ASSUME NEW l \in Logins, NEW r \in Requests, Arrive(l, r) PROVE PortEffect
  BY <1>4, ArriveStep
<1>5. CASE StopMark \/ StopStep
  BY <1>5, QuietStep DEF StopMark, StopStep, StopListener, StopSnapshot, StopClient,
                         BeginClose, StopReturns
<1>6. CASE UNCHANGED vars
  BY <1>6, QuietStep DEF vars
<1> QED
  BY <1>1, <1>2, <1>3, <1>4, <1>5, <1>6 DEF Next

\* IInv holds in every reachable state.
THEOREM Inductive == Spec => []IInv
<1>1. IInv /\ [Next]_vars => IInv'
  BY TypeStep, LoopStep, PortStep DEF IInv, Loops, PortEffect
<1> QED
  BY <1>1, InitIInv, PTL DEF Spec

\* Every variable keeps its type.
THEOREM TypeInvariant == Spec => []TypeOK
  BY Inductive, PTL DEF IInv

\* The port table is exact and exclusive, whatever Stop, broken links and
\* failing logins interleave with.
THEOREM PortExclusiveHolds == Spec => []PortExclusive
  BY Inductive, PTL DEF IInv

\* The registry implements exclusive leases: in particular no mapping listens
\* on a port that is not leased to it, and no lease ends under a listener.
THEOREM Implements == Spec => PortLeaseSpec
<1>1. Init => PX!Init
  BY DEF Init, PX!Init, leaseBar, listeningBar, Holders, Holds
<1>2. IInv /\ [Next]_vars => [PX!Next]_(PX!vars)
  BY PortStep DEF PortEffect
<1> QED
  BY <1>1, <1>2, Inductive, PTL DEF Spec, PortLeaseSpec, PX!Spec

-----------------------------------------------------------------------------
(* Closing: the invariant behind ServedExactly and CleanAfter, login by    *)
(* login.                                                                  *)

Gone == {"new", "failed", "closed"}
Among(i, list) == \E j \in 1..Len(list) : list[j] = i

\* The table of clients has a login exactly between its registration and the
\* first of the two places that unregister it.
TableExact(l) ==
  \A i \in Ids :
    clients[i] = l <=> /\ login[l] \notin {"none", "register", "discard", "ended"}
                       /\ req[l].id = i
                       /\ cclose[l] \in {"no", "closing", "drain"}

\* Only a login that was registered is closed, and its connection first.
CloseBegun(l) ==
  cclose[l] # "no" => login[l] \notin {"none", "register"} /\ conn[l] = "closed"

\* A list of mappings to close is worked on in one place only.
ListsInUse(l) ==
  /\ hTodo[l] # <<>> => login[l] \in {"rollback", "discard"}
  /\ cTodo[l] # <<>> => cclose[l] \in {"drain", "redrain"}
  /\ \A j \in 1..Len(cTodo[l]) : cTodo[l][j] <= mine[l]

\* No one closes a mapping of a login that succeeds.
StillServed(l) ==
  /\ login[l] \in {"answer", "online"} => mine[l] = Len(req[l].specs)
  /\ \A i \in 1..MaxSpecs :
       /\ login[l] \in {"claim", "listen", "unclaim"} /\ i < idx[l] =>
            px[<<l, i>>] = "listening"
       /\ login[l] \in {"add", "publish", "answer", "online"} /\ cclose[l] = "no"
            /\ i <= Len(req[l].specs) => px[<<l, i>>] = "listening"

\* Each mapping of a login that ends is closed, or on a list of those to close.
Disposed(l) ==
  \A i \in 1..MaxSpecs :
    /\ login[l] \in {"refuse", "ended"} => px[<<l, i>>] \in Gone
    /\ login[l] \in {"rollback", "discard"} =>
         px[<<l, i>>] \in Gone \/ Among(i, hTodo[l])
    /\ login[l] = "unregister" => px[<<l, i>>] \in Gone \/ i <= mine[l]
    /\ login[l] = "online" /\ cclose[l] = "drain" =>
         px[<<l, i>>] \in Gone \/ Among(i, cTodo[l])
    /\ login[l] = "online" /\ cclose[l] \in {"unregistered", "redrain", "done"} =>
         px[<<l, i>>] \in Gone

Life(l) == TableExact(l) /\ CloseBegun(l) /\ ListsInUse(l) /\ StillServed(l) /\ Disposed(l)

\* Stop closes only registered clients and waits for every handler.
StopSound ==
  /\ \A j \in 1..Len(stopTodo) : login[stopTodo[j]] \notin {"none", "register"}
  /\ stop = "stopped" => \A l \in Logins : login[l] \in {"none", "ended"}

Closing == IInv /\ StopSound /\ \A l \in Logins : Life(l)

\* A step of one login leaves the others as they are.
Others(l) ==
  \A k \in Logins \ {l} :
    /\ UNCHANGED <<login[k], req[k], idx[k], mine[k], hTodo[k]>>
    /\ UNCHANGED <<conn[k], cclose[k], cTodo[k]>>
    /\ \A i \in Ids : clients'[i] = k <=> clients[i] = k
    /\ \A i \in 1..MaxSpecs : px'[<<k, i>>] = px[<<k, i>>]

LEMMA OthersLive ==
  ASSUME NEW l \in Logins, \A k \in Logins : Life(k), Others(l), Life(l)'
  PROVE  \A k \in Logins : Life(k)'
<1> SUFFICES ASSUME NEW k \in Logins, k # l PROVE Life(k)'
  OBVIOUS
<1>1. /\ UNCHANGED <<login[k], req[k], idx[k], mine[k], hTodo[k]>>
      /\ UNCHANGED <<conn[k], cclose[k], cTodo[k]>>
      /\ \A i \in Ids : clients'[i] = k <=> clients[i] = k
      /\ \A i \in 1..MaxSpecs : px'[<<k, i>>] = px[<<k, i>>]
  BY DEF Others
<1>2. Life(k)
  OBVIOUS
<1>3. TableExact(k)' /\ CloseBegun(k)' /\ ListsInUse(k)'
  BY <1>1, <1>2 DEF Life, TableExact, CloseBegun, ListsInUse
<1>4. StillServed(k)'
  BY <1>1, <1>2 DEF Life, StillServed
<1>5. Disposed(k)'
  BY <1>1, <1>2 DEF Life, Disposed, Among
<1> QED
  BY <1>3, <1>4, <1>5 DEF Life

LEMMA FirstNFacts ==
  ASSUME NEW n \in Nat
  PROVE  /\ n = 0 <=> FirstN(n) = <<>>
         /\ Len(FirstN(n)) = n /\ \A j \in 1..n : FirstN(n)[j] = j
         /\ \A i \in 1..n : Among(i, FirstN(n))
<1>1. Len(FirstN(n)) = n /\ \A j \in 1..n : FirstN(n)[j] = j
  BY DEF FirstN
<1>2. n = 0 <=> FirstN(n) = <<>>
  BY <1>1
<1> QED
  BY <1>1, <1>2 DEF Among

LEMMA ElementOf ==
  ASSUME NEW S, NEW s \in Seq(S), NEW j \in 1..Len(s)
  PROVE  s[j] \in S
  OBVIOUS

LEMMA AmongTail ==
  ASSUME NEW S, NEW s \in Seq(S), s # <<>>, NEW i, Among(i, s), i # Head(s)
  PROVE  Among(i, Tail(s))
<1>1. PICK j \in 1..Len(s) : s[j] = i
  BY DEF Among
<1>2. j # 1 /\ j - 1 \in 1..Len(Tail(s)) /\ Tail(s)[j - 1] = i
  BY <1>1
<1> QED
  BY <1>2 DEF Among

LEMMA RegisterClientLife ==
  ASSUME Closing, NEW l \in Logins, RegisterClient(l)
  PROVE  Others(l) /\ Life(l)'
<1>0. Life(l) /\ IInv /\ TypeOK /\ RequestKnown /\ LoopBounds /\ ClaimPhase
  BY DEF Closing, IInv
<1>1. /\ login[l] = "register" /\ CanRegister(l)
      /\ login'[l] = IF ValidSpecs(req[l].specs) THEN "claim" ELSE "refuse"
      /\ UNCHANGED <<req[l], idx[l], mine[l], hTodo[l], conn[l], cclose[l], cTodo[l]>>
  BY <1>0 DEF RegisterClient, TypeOK, tables, stopVars, handler, closer
<1>2. \A k \in Logins, i \in 1..MaxSpecs : px'[<<k, i>>] = px[<<k, i>>]
  BY DEF RegisterClient
<1>3. \A k \in Logins \ {l}, i \in Ids : clients'[i] = k <=> clients[i] = k
  BY <1>0, RegistryAssumption DEF RegisterClient, CanRegister, TypeOK
<1>4. Others(l)
  BY <1>0, <1>2, <1>3 DEF RegisterClient, Others, TypeOK, tables, stopVars, handler, closer
<1>5. TableExact(l)'
  BY <1>0, <1>1, RequestFacts, RegistryAssumption DEF RegisterClient, Life, TableExact, CloseBegun, TypeOK
<1>6. CloseBegun(l)'
  BY <1>0, <1>1 DEF Life, CloseBegun
<1>7. ListsInUse(l)'
  BY <1>0, <1>1 DEF Life, ListsInUse
<1>8. StillServed(l)'
  BY <1>0, <1>1, <1>2 DEF Life, StillServed, LoopBounds, TypeOK
<1>9. Disposed(l)'
  BY <1>0, <1>1, <1>2 DEF Life, Disposed, Gone, ClaimPhase
<1> QED
  BY <1>4, <1>5, <1>6, <1>7, <1>8, <1>9 DEF Life

LEMMA RegisterFailsLife ==
  ASSUME Closing, NEW l \in Logins, RegisterFails(l)
  PROVE  Others(l) /\ Life(l)'
<1>0. Life(l) /\ IInv /\ TypeOK /\ RequestKnown /\ LoopBounds /\ ClaimPhase
  BY DEF Closing, IInv
<1>1. /\ login[l] = "register"
      /\ login'[l] = "ended" /\ conn'[l] = "closed"
      /\ UNCHANGED <<req[l], idx[l], mine[l], hTodo[l], cclose[l], cTodo[l]>>
  BY <1>0 DEF RegisterFails, TypeOK, tables, stopVars, handler, closer
<1>2. \A k \in Logins, i \in 1..MaxSpecs : px'[<<k, i>>] = px[<<k, i>>]
  BY DEF RegisterFails
<1>3. \A k \in Logins \ {l}, i \in Ids : clients'[i] = k <=> clients[i] = k
  BY <1>0 DEF RegisterFails, tables
<1>4. Others(l)
  BY <1>0, <1>2, <1>3 DEF RegisterFails, Others, TypeOK, tables, stopVars, handler, closer
<1>5. TableExact(l)'
  BY <1>0, <1>1 DEF RegisterFails, Life, TableExact, tables
<1>6. CloseBegun(l)'
  BY <1>0, <1>1 DEF Life, CloseBegun
<1>7. ListsInUse(l)'
  BY <1>0, <1>1 DEF Life, ListsInUse
<1>8. StillServed(l)'
  BY <1>0, <1>1, <1>2 DEF Life, StillServed
<1>9. Disposed(l)'
  BY <1>0, <1>1, <1>2 DEF Life, Disposed, Gone, ClaimPhase
<1> QED
  BY <1>4, <1>5, <1>6, <1>7, <1>8, <1>9 DEF Life

LEMMA ClaimPortLife ==
  ASSUME Closing, NEW l \in Logins, ClaimPort(l)
  PROVE  Others(l) /\ Life(l)'
<1>0. Life(l) /\ IInv /\ TypeOK /\ RequestKnown /\ LoopBounds /\ ClaimPhase
  BY DEF Closing, IInv
<1>1. /\ login[l] = "claim" /\ login'[l] = "listen"
      /\ UNCHANGED <<req[l], idx[l], mine[l], hTodo[l], conn[l], cclose[l], cTodo[l]>>
  BY <1>0 DEF ClaimPort, TypeOK, tables, stopVars, handler, closer
<1>2. \A k \in Logins, i \in 1..MaxSpecs :
        px'[<<k, i>>] = IF k = l /\ i = idx[l] THEN "claimed" ELSE px[<<k, i>>]
  <2> SUFFICES ASSUME NEW k \in Logins, NEW i \in 1..MaxSpecs
               PROVE  px'[<<k, i>>] = IF k = l /\ i = idx[l] THEN "claimed" ELSE px[<<k, i>>]
    OBVIOUS
  <2>1. px' = [px EXCEPT ![<<l, idx[l]>>] = "claimed"]
    BY DEF ClaimPort, Current
  <2>2. <<k, i>> \in DOMAIN px
    BY <1>0 DEF TypeOK, Proxies
  <2>3. <<k, i>> = <<l, idx[l]>> <=> k = l /\ i = idx[l]
    OBVIOUS
  <2> QED
    BY <2>1, <2>2, <2>3
<1>3. \A k \in Logins \ {l}, i \in Ids : clients'[i] = k <=> clients[i] = k
  BY <1>0 DEF ClaimPort, tables
<1>4. Others(l)
  BY <1>0, <1>2, <1>3 DEF ClaimPort, Others, TypeOK, tables, stopVars, handler, closer
<1>5. TableExact(l)'
  BY <1>0, <1>1 DEF ClaimPort, Life, TableExact, tables
<1>6. CloseBegun(l)'
  BY <1>0, <1>1 DEF Life, CloseBegun
<1>7. ListsInUse(l)'
  BY <1>0, <1>1 DEF Life, ListsInUse
<1>8. StillServed(l)'
  BY <1>0, <1>1, <1>2 DEF Life, StillServed
<1>9. Disposed(l)'
  BY <1>0, <1>1, <1>2 DEF Life, Disposed, Among
<1> QED
  BY <1>4, <1>5, <1>6, <1>7, <1>8, <1>9 DEF Life

LEMMA ClaimFailsLife ==
  ASSUME Closing, NEW l \in Logins, ClaimFails(l)
  PROVE  Others(l) /\ Life(l)'
<1>0. Life(l) /\ IInv /\ TypeOK /\ RequestKnown /\ LoopBounds /\ ClaimPhase
  BY DEF Closing, IInv
<1>1. /\ login[l] = "claim" /\ login'[l] = "rollback" /\ hTodo'[l] = FirstN(idx[l] - 1)
      /\ UNCHANGED <<req[l], idx[l], mine[l], conn[l], cclose[l], cTodo[l]>>
  BY <1>0 DEF ClaimFails, TypeOK, tables, stopVars, handler, closer
<1>2. \A k \in Logins, i \in 1..MaxSpecs : px'[<<k, i>>] = px[<<k, i>>]
  BY DEF ClaimFails
<1>3. \A k \in Logins \ {l}, i \in Ids : clients'[i] = k <=> clients[i] = k
  BY <1>0 DEF ClaimFails, tables
<1>4. Others(l)
  BY <1>0, <1>2, <1>3 DEF ClaimFails, Others, TypeOK, tables, stopVars, handler, closer
<1>5. TableExact(l)'
  BY <1>0, <1>1 DEF ClaimFails, Life, TableExact, tables
<1>6. CloseBegun(l)'
  BY <1>0, <1>1 DEF Life, CloseBegun
<1>7. ListsInUse(l)'
  BY <1>0, <1>1 DEF Life, ListsInUse
<1>8. StillServed(l)'
  BY <1>0, <1>1, <1>2 DEF Life, StillServed
<1>9. Disposed(l)'
  <2> SUFFICES ASSUME NEW i \in 1..MaxSpecs
               PROVE  px'[<<l, i>>] \in Gone \/ Among(i, FirstN(idx[l] - 1))
    BY <1>1 DEF Disposed
  <2>1. idx[l] - 1 \in Nat /\ MaxSpecs \in Nat
    BY <1>0, RegistryAssumption DEF TypeOK
  <2>2. i \in 1..(idx[l] - 1) => Among(i, FirstN(idx[l] - 1))
    BY <2>1, FirstNFacts
  <2>3. i \notin 1..(idx[l] - 1) => ~(i <= idx[l] - 1)
    BY <2>1
  <2>4. idx[l] \in Nat /\ (~(i <= idx[l] - 1) => i >= idx[l])
    BY <1>0, RegistryAssumption DEF TypeOK
  <2>5. i >= idx[l] => px'[<<l, i>>] \in Gone
    BY <1>0, <1>1, <1>2, <2>4 DEF ClaimPhase, Gone
  <2> QED
    BY <2>2, <2>3, <2>4, <2>5
<1> QED
  BY <1>4, <1>5, <1>6, <1>7, <1>8, <1>9 DEF Life

LEMMA ListenLife ==
  ASSUME Closing, NEW l \in Logins, Listen(l)
  PROVE  Others(l) /\ Life(l)'
<1>0. Life(l) /\ IInv /\ TypeOK /\ RequestKnown /\ LoopBounds /\ ClaimPhase
  BY DEF Closing, IInv
<1>1. /\ login[l] = "listen" /\ login'[l] = IF Last(l) THEN "add" ELSE "claim"
      /\ idx'[l] = IF Last(l) THEN 1 ELSE idx[l] + 1
      /\ UNCHANGED <<req[l], mine[l], hTodo[l], conn[l], cclose[l], cTodo[l]>>
  BY <1>0 DEF Listen, TypeOK, tables, stopVars, handler, closer
<1>2. \A k \in Logins, i \in 1..MaxSpecs :
        px'[<<k, i>>] = IF k = l /\ i = idx[l] THEN "listening" ELSE px[<<k, i>>]
  <2> SUFFICES ASSUME NEW k \in Logins, NEW i \in 1..MaxSpecs
               PROVE  px'[<<k, i>>] = IF k = l /\ i = idx[l] THEN "listening" ELSE px[<<k, i>>]
    OBVIOUS
  <2>1. px' = [px EXCEPT ![<<l, idx[l]>>] = "listening"]
    BY DEF Listen, Current
  <2>2. <<k, i>> \in DOMAIN px
    BY <1>0 DEF TypeOK, Proxies
  <2>3. <<k, i>> = <<l, idx[l]>> <=> k = l /\ i = idx[l]
    OBVIOUS
  <2> QED
    BY <2>1, <2>2, <2>3
<1>3. \A k \in Logins \ {l}, i \in Ids : clients'[i] = k <=> clients[i] = k
  BY <1>0 DEF Listen, tables
<1>4. Others(l)
  BY <1>0, <1>2, <1>3 DEF Listen, Others, TypeOK, tables, stopVars, handler, closer
<1>5. TableExact(l)'
  BY <1>0, <1>1 DEF Listen, Life, TableExact, tables
<1>6. CloseBegun(l)'
  BY <1>0, <1>1 DEF Life, CloseBegun
<1>7. ListsInUse(l)'
  BY <1>0, <1>1 DEF Life, ListsInUse
<1>8. StillServed(l)'
  <2>1. /\ idx[l] \in 1..Len(req[l].specs) /\ login[l] = "listen" /\ mine[l] = 0
        /\ Len(req[l].specs) \in Nat
    BY <1>0, <1>1, CurrentFacts, RequestFacts DEF LoopBounds
  <2>2. \A i \in 1..MaxSpecs : i < idx[l] => px[<<l, i>>] = "listening"
    BY <1>0, <2>1 DEF Life, StillServed
  <2>3. \A i \in 1..MaxSpecs : i <= idx[l] => px'[<<l, i>>] = "listening"
    BY <1>2, <2>1, <2>2
  <2>4. CASE Last(l)
    BY <1>1, <2>1, <2>3, <2>4 DEF StillServed, Last
  <2>5. CASE ~Last(l)
    BY <1>1, <2>1, <2>3, <2>5 DEF StillServed
  <2> QED
    BY <2>4, <2>5
<1>9. Disposed(l)'
  BY <1>0, <1>1, <1>2 DEF Life, Disposed, Among
<1> QED
  BY <1>4, <1>5, <1>6, <1>7, <1>8, <1>9 DEF Life

LEMMA ListenFailsLife ==
  ASSUME Closing, NEW l \in Logins, ListenFails(l)
  PROVE  Others(l) /\ Life(l)'
<1>0. Life(l) /\ IInv /\ TypeOK /\ RequestKnown /\ LoopBounds /\ ClaimPhase
  BY DEF Closing, IInv
<1>1. /\ login[l] = "listen" /\ login'[l] = "unclaim"
      /\ UNCHANGED <<req[l], idx[l], mine[l], hTodo[l], conn[l], cclose[l], cTodo[l]>>
  BY <1>0 DEF ListenFails, TypeOK, tables, stopVars, handler, closer
<1>2. \A k \in Logins, i \in 1..MaxSpecs : px'[<<k, i>>] = px[<<k, i>>]
  BY DEF ListenFails
<1>3. \A k \in Logins \ {l}, i \in Ids : clients'[i] = k <=> clients[i] = k
  BY <1>0 DEF ListenFails, tables
<1>4. Others(l)
  BY <1>0, <1>2, <1>3 DEF ListenFails, Others, TypeOK, tables, stopVars, handler, closer
<1>5. TableExact(l)'
  BY <1>0, <1>1 DEF ListenFails, Life, TableExact, tables
<1>6. CloseBegun(l)'
  BY <1>0, <1>1 DEF Life, CloseBegun
<1>7. ListsInUse(l)'
  BY <1>0, <1>1 DEF Life, ListsInUse
<1>8. StillServed(l)'
  BY <1>0, <1>1, <1>2 DEF Life, StillServed
<1>9. Disposed(l)'
  BY <1>0, <1>1, <1>2 DEF Life, Disposed, Among
<1> QED
  BY <1>4, <1>5, <1>6, <1>7, <1>8, <1>9 DEF Life

LEMMA UnclaimLife ==
  ASSUME Closing, NEW l \in Logins, Unclaim(l)
  PROVE  Others(l) /\ Life(l)'
<1>0. Life(l) /\ IInv /\ TypeOK /\ RequestKnown /\ LoopBounds /\ ClaimPhase
  BY DEF Closing, IInv
<1>1. /\ login[l] = "unclaim" /\ login'[l] = "rollback" /\ hTodo'[l] = FirstN(idx[l] - 1)
      /\ UNCHANGED <<req[l], idx[l], mine[l], conn[l], cclose[l], cTodo[l]>>
  BY <1>0 DEF Unclaim, TypeOK, tables, stopVars, handler, closer
<1>2. \A k \in Logins, i \in 1..MaxSpecs :
        px'[<<k, i>>] = IF k = l /\ i = idx[l] THEN "failed" ELSE px[<<k, i>>]
  <2> SUFFICES ASSUME NEW k \in Logins, NEW i \in 1..MaxSpecs
               PROVE  px'[<<k, i>>] = IF k = l /\ i = idx[l] THEN "failed" ELSE px[<<k, i>>]
    OBVIOUS
  <2>1. px' = [px EXCEPT ![<<l, idx[l]>>] = "failed"]
    BY DEF Unclaim, Current
  <2>2. <<k, i>> \in DOMAIN px
    BY <1>0 DEF TypeOK, Proxies
  <2>3. <<k, i>> = <<l, idx[l]>> <=> k = l /\ i = idx[l]
    OBVIOUS
  <2> QED
    BY <2>1, <2>2, <2>3
<1>3. \A k \in Logins \ {l}, i \in Ids : clients'[i] = k <=> clients[i] = k
  BY <1>0 DEF Unclaim, tables
<1>4. Others(l)
  BY <1>0, <1>2, <1>3 DEF Unclaim, Others, TypeOK, tables, stopVars, handler, closer
<1>5. TableExact(l)'
  BY <1>0, <1>1 DEF Unclaim, Life, TableExact, tables
<1>6. CloseBegun(l)'
  BY <1>0, <1>1 DEF Life, CloseBegun
<1>7. ListsInUse(l)'
  BY <1>0, <1>1 DEF Life, ListsInUse
<1>8. StillServed(l)'
  BY <1>0, <1>1, <1>2 DEF Life, StillServed
<1>9. Disposed(l)'
  <2> SUFFICES ASSUME NEW i \in 1..MaxSpecs
               PROVE  px'[<<l, i>>] \in Gone \/ Among(i, FirstN(idx[l] - 1))
    BY <1>1 DEF Disposed
  <2>1. idx[l] - 1 \in Nat /\ MaxSpecs \in Nat
    BY <1>0, RegistryAssumption DEF TypeOK
  <2>2. i \in 1..(idx[l] - 1) => Among(i, FirstN(idx[l] - 1))
    BY <2>1, FirstNFacts
  <2>3. i \notin 1..(idx[l] - 1) => ~(i <= idx[l] - 1)
    BY <2>1
  <2>4. idx[l] \in Nat /\ (~(i <= idx[l] - 1) => i >= idx[l])
    BY <1>0, RegistryAssumption DEF TypeOK
  <2>5. i >= idx[l] => px'[<<l, i>>] \in Gone
    BY <1>0, <1>1, <1>2, <2>4 DEF ClaimPhase, Gone
  <2> QED
    BY <2>2, <2>3, <2>4, <2>5
<1> QED
  BY <1>4, <1>5, <1>6, <1>7, <1>8, <1>9 DEF Life

LEMMA RolledBackLife ==
  ASSUME Closing, NEW l \in Logins, RolledBack(l)
  PROVE  Others(l) /\ Life(l)'
<1>0. Life(l) /\ IInv /\ TypeOK /\ RequestKnown /\ LoopBounds /\ ClaimPhase
  BY DEF Closing, IInv
<1>1. /\ login[l] = "rollback" /\ hTodo[l] = <<>> /\ login'[l] = "refuse"
      /\ UNCHANGED <<req[l], idx[l], mine[l], hTodo[l], conn[l], cclose[l], cTodo[l]>>
  BY <1>0 DEF RolledBack, TypeOK, tables, stopVars, handler, closer
<1>2. \A k \in Logins, i \in 1..MaxSpecs : px'[<<k, i>>] = px[<<k, i>>]
  BY DEF RolledBack
<1>3. \A k \in Logins \ {l}, i \in Ids : clients'[i] = k <=> clients[i] = k
  BY <1>0 DEF RolledBack, tables
<1>4. Others(l)
  BY <1>0, <1>2, <1>3 DEF RolledBack, Others, TypeOK, tables, stopVars, handler, closer
<1>5. TableExact(l)'
  BY <1>0, <1>1 DEF RolledBack, Life, TableExact, tables
<1>6. CloseBegun(l)'
  BY <1>0, <1>1 DEF Life, CloseBegun
<1>7. ListsInUse(l)'
  BY <1>0, <1>1 DEF Life, ListsInUse
<1>8. StillServed(l)'
  BY <1>0, <1>1, <1>2 DEF Life, StillServed
<1>9. Disposed(l)'
  BY <1>0, <1>1, <1>2 DEF Life, Disposed, Among
<1> QED
  BY <1>4, <1>5, <1>6, <1>7, <1>8, <1>9 DEF Life

LEMMA RefuseLife ==
  ASSUME Closing, NEW l \in Logins, Refuse(l)
  PROVE  Others(l) /\ Life(l)'
<1>0. Life(l) /\ IInv /\ TypeOK /\ RequestKnown /\ LoopBounds /\ ClaimPhase
  BY DEF Closing, IInv
<1>1. /\ login[l] = "refuse" /\ login'[l] = "unregister" /\ conn'[l] = "closed"
      /\ UNCHANGED <<req[l], idx[l], mine[l], hTodo[l], cclose[l], cTodo[l]>>
  BY <1>0 DEF Refuse, TypeOK, tables, stopVars, handler, closer
<1>2. \A k \in Logins, i \in 1..MaxSpecs : px'[<<k, i>>] = px[<<k, i>>]
  BY DEF Refuse
<1>3. \A k \in Logins \ {l}, i \in Ids : clients'[i] = k <=> clients[i] = k
  BY <1>0 DEF Refuse, tables
<1>4. Others(l)
  BY <1>0, <1>2, <1>3 DEF Refuse, Others, TypeOK, tables, stopVars, handler, closer
<1>5. TableExact(l)'
  BY <1>0, <1>1 DEF Refuse, Life, TableExact, tables
<1>6. CloseBegun(l)'
  BY <1>0, <1>1 DEF Life, CloseBegun
<1>7. ListsInUse(l)'
  BY <1>0, <1>1 DEF Life, ListsInUse
<1>8. StillServed(l)'
  BY <1>0, <1>1, <1>2 DEF Life, StillServed
<1>9. Disposed(l)'
  BY <1>0, <1>1, <1>2 DEF Life, Disposed, Among
<1> QED
  BY <1>4, <1>5, <1>6, <1>7, <1>8, <1>9 DEF Life

LEMMA AddProxyLife ==
  ASSUME Closing, NEW l \in Logins, AddProxy(l)
  PROVE  Others(l) /\ Life(l)'
<1>0. Life(l) /\ IInv /\ TypeOK /\ RequestKnown /\ LoopBounds /\ ClaimPhase
  BY DEF Closing, IInv
<1>1. /\ login[l] = "add" /\ login'[l] = "publish" /\ mine'[l] = mine[l] + 1
      /\ UNCHANGED <<req[l], idx[l], hTodo[l], conn[l], cclose[l], cTodo[l]>>
  BY <1>0 DEF AddProxy, TypeOK, tables, stopVars, handler, closer
<1>2. \A k \in Logins, i \in 1..MaxSpecs : px'[<<k, i>>] = px[<<k, i>>]
  BY DEF AddProxy
<1>3. \A k \in Logins \ {l}, i \in Ids : clients'[i] = k <=> clients[i] = k
  BY <1>0 DEF AddProxy, tables
<1>4. Others(l)
  BY <1>0, <1>2, <1>3 DEF AddProxy, Others, TypeOK, tables, stopVars, handler, closer
<1>5. TableExact(l)'
  BY <1>0, <1>1 DEF AddProxy, Life, TableExact, tables
<1>6. CloseBegun(l)'
  BY <1>0, <1>1 DEF Life, CloseBegun
<1>7. ListsInUse(l)'
  <2>1. cTodo[l] \in Seq(1..MaxSpecs) /\ mine[l] \in Nat
    BY <1>0 DEF TypeOK
  <2>2. \A j \in 1..Len(cTodo[l]) : cTodo[l][j] \in 1..MaxSpecs
    BY <2>1, ElementOf
  <2> QED
    BY <1>0, <1>1, <2>1, <2>2, RegistryAssumption DEF Life, ListsInUse
<1>8. StillServed(l)'
  BY <1>0, <1>1, <1>2 DEF Life, StillServed
<1>9. Disposed(l)'
  BY <1>0, <1>1, <1>2 DEF Life, Disposed, Among
<1> QED
  BY <1>4, <1>5, <1>6, <1>7, <1>8, <1>9 DEF Life

LEMMA RegisterProxyLife ==
  ASSUME Closing, NEW l \in Logins, RegisterProxy(l)
  PROVE  Others(l) /\ Life(l)'
<1>0. Life(l) /\ IInv /\ TypeOK /\ RequestKnown /\ LoopBounds /\ ClaimPhase
  BY DEF Closing, IInv
<1>1. /\ login[l] = "publish" /\ login'[l] = IF Last(l) THEN "answer" ELSE "add"
      /\ UNCHANGED <<req[l], mine[l], hTodo[l], conn[l], cclose[l], cTodo[l]>>
  BY <1>0 DEF RegisterProxy, TypeOK, tables, stopVars, handler, closer
<1>2. \A k \in Logins, i \in 1..MaxSpecs : px'[<<k, i>>] = px[<<k, i>>]
  BY DEF RegisterProxy
<1>3. \A k \in Logins \ {l}, i \in Ids : clients'[i] = k <=> clients[i] = k
  BY <1>0 DEF RegisterProxy, tables
<1>4. Others(l)
  BY <1>0, <1>2, <1>3 DEF RegisterProxy, Others, TypeOK, tables, stopVars, handler, closer
<1>5. TableExact(l)'
  BY <1>0, <1>1 DEF RegisterProxy, Life, TableExact, tables
<1>6. CloseBegun(l)'
  BY <1>0, <1>1 DEF Life, CloseBegun
<1>7. ListsInUse(l)'
  BY <1>0, <1>1 DEF Life, ListsInUse
<1>8. StillServed(l)'
  BY <1>0, <1>1, <1>2, CurrentFacts DEF Life, StillServed, Last, LoopBounds, TypeOK
<1>9. Disposed(l)'
  BY <1>0, <1>1, <1>2 DEF Life, Disposed, Among
<1> QED
  BY <1>4, <1>5, <1>6, <1>7, <1>8, <1>9 DEF Life

LEMMA AnswerLife ==
  ASSUME Closing, NEW l \in Logins, Answer(l)
  PROVE  Others(l) /\ Life(l)'
<1>0. Life(l) /\ IInv /\ TypeOK /\ RequestKnown /\ LoopBounds /\ ClaimPhase
  BY DEF Closing, IInv
<1>1. /\ login[l] = "answer" /\ conn[l] = "open" /\ login'[l] = "online"
      /\ UNCHANGED <<req[l], idx[l], mine[l], hTodo[l], conn[l], cclose[l], cTodo[l]>>
  BY <1>0 DEF Answer, TypeOK, tables, stopVars, handler, closer
<1>2. \A k \in Logins, i \in 1..MaxSpecs : px'[<<k, i>>] = px[<<k, i>>]
  BY DEF Answer
<1>3. \A k \in Logins \ {l}, i \in Ids : clients'[i] = k <=> clients[i] = k
  BY <1>0 DEF Answer, tables
<1>4. Others(l)
  BY <1>0, <1>2, <1>3 DEF Answer, Others, TypeOK, tables, stopVars, handler, closer
<1>5. TableExact(l)'
  BY <1>0, <1>1 DEF Answer, Life, TableExact, tables
<1>6. CloseBegun(l)'
  BY <1>0, <1>1 DEF Life, CloseBegun
<1>7. ListsInUse(l)'
  BY <1>0, <1>1 DEF Life, ListsInUse
<1>8. StillServed(l)'
  BY <1>0, <1>1, <1>2 DEF Life, StillServed
<1>9. Disposed(l)'
  BY <1>0, <1>1, <1>2 DEF Life, Disposed, CloseBegun
<1> QED
  BY <1>4, <1>5, <1>6, <1>7, <1>8, <1>9 DEF Life

LEMMA AnswerFailsLife ==
  ASSUME Closing, NEW l \in Logins, AnswerFails(l)
  PROVE  Others(l) /\ Life(l)'
<1>0. Life(l) /\ IInv /\ TypeOK /\ RequestKnown /\ LoopBounds /\ ClaimPhase
  BY DEF Closing, IInv
<1>1. /\ login[l] = "answer" /\ login'[l] = "unregister"
      /\ UNCHANGED <<req[l], idx[l], mine[l], hTodo[l], conn[l], cclose[l], cTodo[l]>>
  BY <1>0 DEF AnswerFails, TypeOK, tables, stopVars, handler, closer
<1>2. \A k \in Logins, i \in 1..MaxSpecs : px'[<<k, i>>] = px[<<k, i>>]
  BY DEF AnswerFails
<1>3. \A k \in Logins \ {l}, i \in Ids : clients'[i] = k <=> clients[i] = k
  BY <1>0 DEF AnswerFails, tables
<1>4. Others(l)
  BY <1>0, <1>2, <1>3 DEF AnswerFails, Others, TypeOK, tables, stopVars, handler, closer
<1>5. TableExact(l)'
  BY <1>0, <1>1 DEF AnswerFails, Life, TableExact, tables
<1>6. CloseBegun(l)'
  BY <1>0, <1>1 DEF Life, CloseBegun
<1>7. ListsInUse(l)'
  BY <1>0, <1>1 DEF Life, ListsInUse
<1>8. StillServed(l)'
  BY <1>0, <1>1, <1>2 DEF Life, StillServed
<1>9. Disposed(l)'
  <2>1. \A i \in 1..MaxSpecs : px[<<l, i>>] = "new" \/ i <= mine[l]
    BY <1>0, <1>1 DEF Life, StillServed, ClaimPhase
  <2> QED
    BY <1>1, <1>2, <2>1 DEF Disposed, Gone
<1> QED
  BY <1>4, <1>5, <1>6, <1>7, <1>8, <1>9 DEF Life

LEMMA UnregisterClientLife ==
  ASSUME Closing, NEW l \in Logins, UnregisterClient(l)
  PROVE  Others(l) /\ Life(l)'
<1>0. Life(l) /\ IInv /\ TypeOK /\ RequestKnown /\ LoopBounds /\ ClaimPhase
  BY DEF Closing, IInv
<1>1. /\ login[l] = "unregister" /\ login'[l] = "discard" /\ hTodo'[l] = FirstN(mine[l])
      /\ UNCHANGED <<req[l], idx[l], mine[l], conn[l], cclose[l], cTodo[l]>>
  BY <1>0 DEF UnregisterClient, TypeOK, tables, stopVars, handler, closer
<1>2. \A k \in Logins, i \in 1..MaxSpecs : px'[<<k, i>>] = px[<<k, i>>]
  BY DEF UnregisterClient
<1>3. \A k \in Logins \ {l}, i \in Ids : clients'[i] = k <=> clients[i] = k
  BY <1>0, RegistryAssumption DEF UnregisterClient, WithoutClient, TypeOK
<1>4. Others(l)
  BY <1>0, <1>2, <1>3 DEF UnregisterClient, Others, TypeOK, tables, stopVars, handler, closer
<1>5. TableExact(l)'
  BY <1>0, <1>1, RequestFacts, RegistryAssumption DEF UnregisterClient, Life, TableExact, WithoutClient, TypeOK
<1>6. CloseBegun(l)'
  BY <1>0, <1>1 DEF Life, CloseBegun
<1>7. ListsInUse(l)'
  BY <1>0, <1>1 DEF Life, ListsInUse
<1>8. StillServed(l)'
  BY <1>0, <1>1, <1>2 DEF Life, StillServed
<1>9. Disposed(l)'
  <2> SUFFICES ASSUME NEW i \in 1..MaxSpecs
               PROVE  px'[<<l, i>>] \in Gone \/ Among(i, FirstN(mine[l]))
    BY <1>1 DEF Disposed
  <2>1. mine[l] \in Nat /\ MaxSpecs \in Nat
    BY <1>0, RegistryAssumption DEF TypeOK
  <2>2. i \in 1..(mine[l]) => Among(i, FirstN(mine[l]))
    BY <2>1, FirstNFacts
  <2>3. i \notin 1..(mine[l]) => ~(i <= mine[l])
    BY <2>1
  <2>4. ~(i <= mine[l]) => px'[<<l, i>>] \in Gone
    BY <1>0, <1>1, <1>2 DEF Life, Disposed
  <2> QED
    BY <2>2, <2>3, <2>4
<1> QED
  BY <1>4, <1>5, <1>6, <1>7, <1>8, <1>9 DEF Life

LEMMA EndLoginLife ==
  ASSUME Closing, NEW l \in Logins, EndLogin(l)
  PROVE  Others(l) /\ Life(l)'
<1>0. Life(l) /\ IInv /\ TypeOK /\ RequestKnown /\ LoopBounds /\ ClaimPhase
  BY DEF Closing, IInv
<1>1. /\ login[l] = "discard" /\ hTodo[l] = <<>>
      /\ login'[l] = "ended" /\ conn'[l] = "closed"
      /\ UNCHANGED <<req[l], idx[l], mine[l], hTodo[l], cclose[l], cTodo[l]>>
  BY <1>0 DEF EndLogin, TypeOK, tables, stopVars, handler, closer
<1>2. \A k \in Logins, i \in 1..MaxSpecs : px'[<<k, i>>] = px[<<k, i>>]
  BY DEF EndLogin
<1>3. \A k \in Logins \ {l}, i \in Ids : clients'[i] = k <=> clients[i] = k
  BY <1>0 DEF EndLogin, tables
<1>4. Others(l)
  BY <1>0, <1>2, <1>3 DEF EndLogin, Others, TypeOK, tables, stopVars, handler, closer
<1>5. TableExact(l)'
  BY <1>0, <1>1 DEF EndLogin, Life, TableExact, tables
<1>6. CloseBegun(l)'
  BY <1>0, <1>1 DEF Life, CloseBegun
<1>7. ListsInUse(l)'
  BY <1>0, <1>1 DEF Life, ListsInUse
<1>8. StillServed(l)'
  BY <1>0, <1>1, <1>2 DEF Life, StillServed
<1>9. Disposed(l)'
  BY <1>0, <1>1, <1>2 DEF Life, Disposed, Among
<1> QED
  BY <1>4, <1>5, <1>6, <1>7, <1>8, <1>9 DEF Life

LEMMA EndReadLoopLife ==
  ASSUME Closing, NEW l \in Logins, EndReadLoop(l)
  PROVE  Others(l) /\ Life(l)'
<1>0. Life(l) /\ IInv /\ TypeOK /\ RequestKnown /\ LoopBounds /\ ClaimPhase
  BY DEF Closing, IInv
<1>1. /\ login[l] = "online" /\ cclose[l] = "done" /\ login'[l] = "ended"
      /\ UNCHANGED <<req[l], idx[l], mine[l], hTodo[l], conn[l], cclose[l], cTodo[l]>>
  BY <1>0 DEF EndReadLoop, TypeOK, tables, stopVars, handler, closer
<1>2. \A k \in Logins, i \in 1..MaxSpecs : px'[<<k, i>>] = px[<<k, i>>]
  BY DEF EndReadLoop
<1>3. \A k \in Logins \ {l}, i \in Ids : clients'[i] = k <=> clients[i] = k
  BY <1>0 DEF EndReadLoop, tables
<1>4. Others(l)
  BY <1>0, <1>2, <1>3 DEF EndReadLoop, Others, TypeOK, tables, stopVars, handler, closer
<1>5. TableExact(l)'
  BY <1>0, <1>1 DEF EndReadLoop, Life, TableExact, tables
<1>6. CloseBegun(l)'
  BY <1>0, <1>1 DEF Life, CloseBegun
<1>7. ListsInUse(l)'
  BY <1>0, <1>1 DEF Life, ListsInUse
<1>8. StillServed(l)'
  BY <1>0, <1>1, <1>2 DEF Life, StillServed
<1>9. Disposed(l)'
  BY <1>0, <1>1, <1>2 DEF Life, Disposed, Among
<1> QED
  BY <1>4, <1>5, <1>6, <1>7, <1>8, <1>9 DEF Life

LEMMA BeginCloseLife ==
  ASSUME Closing, NEW l \in Logins, BeginClose(l), login[l] \notin {"none", "register"}
  PROVE  Others(l) /\ Life(l)'
<1>0. Life(l) /\ IInv /\ TypeOK /\ RequestKnown /\ LoopBounds /\ ClaimPhase
  BY DEF Closing, IInv
<1>1. /\ cclose[l] = "no" /\ cclose'[l] = "closing" /\ conn'[l] = "closed"
      /\ login[l] \notin {"none", "register"}
      /\ UNCHANGED <<login[l], req[l], idx[l], mine[l], hTodo[l], cTodo[l]>>
  BY <1>0 DEF BeginClose, TypeOK, tables, stopVars, handler, closer
<1>2. \A k \in Logins, i \in 1..MaxSpecs : px'[<<k, i>>] = px[<<k, i>>]
  BY DEF BeginClose
<1>3. \A k \in Logins \ {l}, i \in Ids : clients'[i] = k <=> clients[i] = k
  BY <1>0 DEF BeginClose, tables
<1>4. Others(l)
  BY <1>0, <1>2, <1>3 DEF BeginClose, Others, TypeOK, tables, stopVars, handler, closer
<1>5. TableExact(l)'
  BY <1>0, <1>1 DEF BeginClose, Life, TableExact, tables
<1>6. CloseBegun(l)'
  BY <1>0, <1>1 DEF Life, CloseBegun
<1>7. ListsInUse(l)'
  BY <1>0, <1>1 DEF Life, ListsInUse
<1>8. StillServed(l)'
  BY <1>0, <1>1, <1>2 DEF Life, StillServed
<1>9. Disposed(l)'
  BY <1>0, <1>1, <1>2 DEF Life, Disposed, Among
<1> QED
  BY <1>4, <1>5, <1>6, <1>7, <1>8, <1>9 DEF Life

LEMMA SnapshotProxiesLife ==
  ASSUME Closing, NEW l \in Logins, SnapshotProxies(l)
  PROVE  Others(l) /\ Life(l)'
<1>0. Life(l) /\ IInv /\ TypeOK /\ RequestKnown /\ LoopBounds /\ ClaimPhase
  BY DEF Closing, IInv
<1>1. /\ \/ cclose[l] = "closing" /\ cclose'[l] = "drain"
         \/ cclose[l] = "unregistered" /\ cclose'[l] = "redrain"
      /\ cTodo'[l] = FirstN(mine[l])
      /\ UNCHANGED <<login[l], req[l], idx[l], mine[l], hTodo[l], conn[l]>>
  BY <1>0 DEF SnapshotProxies, TypeOK, tables, stopVars, handler, closer
<1>2. \A k \in Logins, i \in 1..MaxSpecs : px'[<<k, i>>] = px[<<k, i>>]
  BY DEF SnapshotProxies
<1>3. \A k \in Logins \ {l}, i \in Ids : clients'[i] = k <=> clients[i] = k
  BY <1>0 DEF SnapshotProxies, tables
<1>4. Others(l)
  BY <1>0, <1>2, <1>3 DEF SnapshotProxies, Others, TypeOK, tables, stopVars, handler, closer
<1>5. TableExact(l)'
  BY <1>0, <1>1 DEF SnapshotProxies, Life, TableExact, tables
<1>6. CloseBegun(l)'
  BY <1>0, <1>1 DEF Life, CloseBegun
<1>7. ListsInUse(l)'
  <2>1. mine[l] \in Nat
    BY <1>0 DEF TypeOK
  <2> QED
    BY <1>0, <1>1, <2>1, FirstNFacts DEF Life, ListsInUse
<1>8. StillServed(l)'
  BY <1>0, <1>1, <1>2 DEF Life, StillServed
<1>9. Disposed(l)'
  <2>1. mine[l] \in Nat /\ \A i \in 1..mine[l] : Among(i, FirstN(mine[l]))
    BY <1>0, FirstNFacts DEF TypeOK
  <2>2. login[l] = "online" => \A i \in 1..MaxSpecs :
          px[<<l, i>>] \in Gone \/ i \in 1..mine[l]
    BY <1>0, <2>1 DEF Life, StillServed, ClaimPhase, Gone
  <2> QED
    BY <1>0, <1>1, <1>2, <2>1, <2>2 DEF Life, Disposed
<1> QED
  BY <1>4, <1>5, <1>6, <1>7, <1>8, <1>9 DEF Life

LEMMA UnregisterOnCloseLife ==
  ASSUME Closing, NEW l \in Logins, UnregisterOnClose(l)
  PROVE  Others(l) /\ Life(l)'
<1>0. Life(l) /\ IInv /\ TypeOK /\ RequestKnown /\ LoopBounds /\ ClaimPhase
  BY DEF Closing, IInv
<1>1. /\ cclose[l] = "drain" /\ cTodo[l] = <<>> /\ cclose'[l] = "unregistered"
      /\ UNCHANGED <<login[l], req[l], idx[l], mine[l], hTodo[l], conn[l], cTodo[l]>>
  BY <1>0 DEF UnregisterOnClose, TypeOK, tables, stopVars, handler, closer
<1>2. \A k \in Logins, i \in 1..MaxSpecs : px'[<<k, i>>] = px[<<k, i>>]
  BY DEF UnregisterOnClose
<1>3. \A k \in Logins \ {l}, i \in Ids : clients'[i] = k <=> clients[i] = k
  BY <1>0, RegistryAssumption DEF UnregisterOnClose, WithoutClient, TypeOK
<1>4. Others(l)
  BY <1>0, <1>2, <1>3 DEF UnregisterOnClose, Others, TypeOK, tables, stopVars, handler, closer
<1>5. TableExact(l)'
  BY <1>0, <1>1, RequestFacts, RegistryAssumption DEF UnregisterOnClose, Life, TableExact, WithoutClient, TypeOK
<1>6. CloseBegun(l)'
  BY <1>0, <1>1 DEF Life, CloseBegun
<1>7. ListsInUse(l)'
  BY <1>0, <1>1 DEF Life, ListsInUse
<1>8. StillServed(l)'
  BY <1>0, <1>1, <1>2 DEF Life, StillServed
<1>9. Disposed(l)'
  BY <1>0, <1>1, <1>2 DEF Life, Disposed, Among
<1> QED
  BY <1>4, <1>5, <1>6, <1>7, <1>8, <1>9 DEF Life

LEMMA EndCloseLife ==
  ASSUME Closing, NEW l \in Logins, EndClose(l)
  PROVE  Others(l) /\ Life(l)'
<1>0. Life(l) /\ IInv /\ TypeOK /\ RequestKnown /\ LoopBounds /\ ClaimPhase
  BY DEF Closing, IInv
<1>1. /\ cclose[l] = "redrain" /\ cTodo[l] = <<>> /\ cclose'[l] = "done"
      /\ UNCHANGED <<login[l], req[l], idx[l], mine[l], hTodo[l], conn[l], cTodo[l]>>
  BY <1>0 DEF EndClose, TypeOK, tables, stopVars, handler, closer
<1>2. \A k \in Logins, i \in 1..MaxSpecs : px'[<<k, i>>] = px[<<k, i>>]
  BY DEF EndClose
<1>3. \A k \in Logins \ {l}, i \in Ids : clients'[i] = k <=> clients[i] = k
  BY <1>0 DEF EndClose, tables
<1>4. Others(l)
  BY <1>0, <1>2, <1>3 DEF EndClose, Others, TypeOK, tables, stopVars, handler, closer
<1>5. TableExact(l)'
  BY <1>0, <1>1 DEF EndClose, Life, TableExact, tables
<1>6. CloseBegun(l)'
  BY <1>0, <1>1 DEF Life, CloseBegun
<1>7. ListsInUse(l)'
  BY <1>0, <1>1 DEF Life, ListsInUse
<1>8. StillServed(l)'
  BY <1>0, <1>1, <1>2 DEF Life, StillServed
<1>9. Disposed(l)'
  BY <1>0, <1>1, <1>2 DEF Life, Disposed, Among
<1> QED
  BY <1>4, <1>5, <1>6, <1>7, <1>8, <1>9 DEF Life

LEMMA ArriveLife ==
  ASSUME Closing, NEW l \in Logins, NEW r \in Requests, Arrive(l, r)
  PROVE  Others(l) /\ Life(l)'
<1>0. Life(l) /\ IInv /\ TypeOK
  BY DEF Closing, IInv
<1>1. /\ login[l] = "none" /\ login'[l] = "register"
      /\ UNCHANGED <<idx[l], mine[l], hTodo[l], conn[l], cclose[l], cTodo[l]>>
  BY <1>0 DEF Arrive, TypeOK, tables, closer
<1>2. Others(l)
  BY <1>0 DEF Arrive, Others, TypeOK, tables, closer
<1>3. TableExact(l)'
  BY <1>0, <1>1 DEF Arrive, Life, TableExact, tables
<1>4. CloseBegun(l)' /\ ListsInUse(l)' /\ StillServed(l)' /\ Disposed(l)'
  BY <1>0, <1>1 DEF Life, CloseBegun, ListsInUse, StillServed, Disposed
<1> QED
  BY <1>2, <1>3, <1>4 DEF Life

\* The second halves of HandlerCloses and CloserCloses.
HandlerGoesOn(l) ==
  /\ hTodo[l] # <<>> /\ px[<<l, Head(hTodo[l])>>] = "closed"
  /\ hTodo' = [hTodo EXCEPT ![l] = Tail(@)]
  /\ UNCHANGED <<tables, stopVars, req, login, idx, mine, conn, closer, px>>

CloserGoesOn(l) ==
  /\ cTodo[l] # <<>> /\ px[<<l, Head(cTodo[l])>>] = "closed"
  /\ cTodo' = [cTodo EXCEPT ![l] = Tail(@)]
  /\ UNCHANGED <<tables, stopVars, handler, conn, cclose, px>>

LEMMA HandlerGoesOnLife ==
  ASSUME Closing, NEW l \in Logins, HandlerGoesOn(l)
  PROVE  Others(l) /\ Life(l)'
<1>0. Life(l) /\ IInv /\ TypeOK
  BY DEF Closing, IInv
<1>1. /\ hTodo[l] # <<>> /\ px[<<l, Head(hTodo[l])>>] = "closed"
      /\ hTodo[l] \in Seq(1..MaxSpecs) /\ hTodo'[l] = Tail(hTodo[l])
      /\ UNCHANGED <<login, req, idx, mine, conn, cclose, cTodo, clients, px>>
  BY <1>0 DEF HandlerGoesOn, TypeOK, tables, closer
<1>2. Others(l)
  BY <1>0, <1>1 DEF HandlerGoesOn, Others, TypeOK
<1>3. TableExact(l)' /\ CloseBegun(l)' /\ StillServed(l)'
  BY <1>0, <1>1 DEF Life, TableExact, CloseBegun, StillServed
<1>4. ListsInUse(l)'
  BY <1>0, <1>1 DEF Life, ListsInUse
<1>5. ASSUME NEW i, Among(i, hTodo[l]) PROVE i = Head(hTodo[l]) \/ Among(i, hTodo'[l])
  BY <1>1, <1>5, AmongTail
<1>6. Disposed(l)'
  BY <1>0, <1>1, <1>5 DEF Life, Disposed, Gone
<1> QED
  BY <1>2, <1>3, <1>4, <1>6 DEF Life

LEMMA CloserGoesOnLife ==
  ASSUME Closing, NEW l \in Logins, CloserGoesOn(l)
  PROVE  Others(l) /\ Life(l)'
<1>0. Life(l) /\ IInv /\ TypeOK
  BY DEF Closing, IInv
<1>1. /\ cTodo[l] # <<>> /\ px[<<l, Head(cTodo[l])>>] = "closed"
      /\ cTodo[l] \in Seq(1..MaxSpecs) /\ cTodo'[l] = Tail(cTodo[l])
      /\ UNCHANGED <<login, req, idx, mine, hTodo, conn, cclose, clients, px>>
  BY <1>0 DEF CloserGoesOn, TypeOK, tables, handler
<1>2. Others(l)
  BY <1>0, <1>1 DEF CloserGoesOn, Others, TypeOK
<1>3. TableExact(l)' /\ CloseBegun(l)' /\ StillServed(l)'
  BY <1>0, <1>1 DEF Life, TableExact, CloseBegun, StillServed
<1>4. ListsInUse(l)'
  <2>1. \A j \in 1..Len(Tail(cTodo[l])) :
          j + 1 \in 1..Len(cTodo[l]) /\ Tail(cTodo[l])[j] = cTodo[l][j + 1]
    BY <1>1
  <2> QED
    BY <1>0, <1>1, <2>1 DEF Life, ListsInUse
<1>5. ASSUME NEW i, Among(i, cTodo[l]) PROVE i = Head(cTodo[l]) \/ Among(i, cTodo'[l])
  BY <1>1, <1>5, AmongTail
<1>6. Disposed(l)'
  BY <1>0, <1>1, <1>5 DEF Life, Disposed, Gone
<1> QED
  BY <1>2, <1>3, <1>4, <1>6 DEF Life

\* One of the three steps of proxy.close, the first at the request of a list.
Moves(l, j) ==
  /\ \/ px[<<l, j>>] = "listening" /\ (hTodo[l] # <<>> \/ cTodo[l] # <<>>)
     \/ px[<<l, j>>] \in {"closing", "released"}
  /\ \E v \in {"closing", "released", "closed"} : px' = [px EXCEPT ![<<l, j>>] = v]
  /\ UNCHANGED <<clients, stopVars, handler, conn, closer>>

LEMMA MovesLife ==
  ASSUME Closing, NEW l \in Logins, NEW j \in 1..MaxSpecs, Moves(l, j)
  PROVE  Others(l) /\ Life(l)'
<1>0. Life(l) /\ IInv /\ TypeOK /\ LoopBounds
  BY DEF Closing, IInv
<1>1. UNCHANGED <<login, req, idx, mine, hTodo, conn, cclose, cTodo, clients>>
  BY DEF Moves, handler, closer
<1>2. \A k \in Logins, i \in 1..MaxSpecs :
        ~(k = l /\ i = j) => px'[<<k, i>>] = px[<<k, i>>]
  <2> SUFFICES ASSUME NEW k \in Logins, NEW i \in 1..MaxSpecs, ~(k = l /\ i = j)
               PROVE  px'[<<k, i>>] = px[<<k, i>>]
    OBVIOUS
  <2>1. PICK v : px' = [px EXCEPT ![<<l, j>>] = v]
    BY DEF Moves
  <2>2. <<k, i>> # <<l, j>>
    OBVIOUS
  <2>3. <<k, i>> \in DOMAIN px
    BY <1>0 DEF TypeOK, Proxies
  <2> QED
    BY <2>1, <2>2, <2>3
<1>3. Others(l)
  BY <1>1, <1>2 DEF Others
<1>4. TableExact(l)' /\ CloseBegun(l)' /\ ListsInUse(l)'
  BY <1>0, <1>1 DEF Life, TableExact, CloseBegun, ListsInUse
<1>5. px[<<l, j>>] \notin Gone
  BY DEF Moves, Gone
<1>6. Disposed(l)'
  BY <1>0, <1>1, <1>2, <1>5 DEF Life, Disposed
<1>7. px[<<l, j>>] = "listening" =>
        \/ login[l] \notin {"claim", "listen", "unclaim", "add", "publish", "answer", "online"}
        \/ login[l] \notin {"claim", "listen", "unclaim"} /\ cclose[l] # "no"
  <2>1. CASE hTodo[l] # <<>>
    BY <1>0, <2>1 DEF Life, ListsInUse
  <2>2. CASE cTodo[l] # <<>>
    <3>1. cTodo[l] \in Seq(1..MaxSpecs) /\ MaxSpecs \in Nat /\ mine[l] \in Nat
      BY <1>0, RegistryAssumption DEF TypeOK
    <3>2. 1 \in 1..Len(cTodo[l]) /\ cTodo[l][1] \in 1..MaxSpecs
      BY <2>2, <3>1
    <3>3. mine[l] # 0
      BY <1>0, <3>1, <3>2 DEF Life, ListsInUse
    <3> QED
      BY <1>0, <2>2, <3>3 DEF Life, ListsInUse, LoopBounds
  <2> QED
    BY <2>1, <2>2 DEF Moves
<1>8. StillServed(l)'
  <2>1. px[<<l, j>>] = "listening" \/ px[<<l, j>>] \in {"closing", "released"}
    BY DEF Moves
  <2> QED
    BY <1>0, <1>1, <1>2, <1>7, <2>1 DEF Life, StillServed
<1> QED
  BY <1>3, <1>4, <1>6, <1>8 DEF Life

-----------------------------------------------------------------------------
(* The steps of Next, by what they are to a login.                         *)

HandlerAlone(l) ==
  \/ RegisterClient(l) \/ RegisterFails(l)
  \/ ClaimPort(l) \/ ClaimFails(l) \/ Listen(l) \/ ListenFails(l) \/ Unclaim(l)
  \/ RolledBack(l) \/ Refuse(l) \/ AddProxy(l) \/ RegisterProxy(l)
  \/ Answer(l) \/ AnswerFails(l) \/ UnregisterClient(l) \/ EndLogin(l) \/ EndReadLoop(l)

Closes(l) == BeginClose(l) /\ login[l] \notin {"none", "register"}

OfLogin(l) ==
  \/ \E r \in Requests : Arrive(l, r)
  \/ HandlerAlone(l) \/ HandlerGoesOn(l) \/ CloserGoesOn(l)
  \/ SnapshotProxies(l) \/ UnregisterOnClose(l) \/ EndClose(l) \/ Closes(l)
  \/ \E j \in 1..MaxSpecs : Moves(l, j)

LEMMA OfLoginLife ==
  ASSUME Closing, NEW l \in Logins, OfLogin(l)
  PROVE  \A k \in Logins : Life(k)'
<1>1. Others(l) /\ Life(l)'
  <2>1. CASE \E r \in Requests : Arrive(l, r)
    BY <2>1, ArriveLife
  <2>2. CASE HandlerAlone(l)
    BY <2>2, RegisterClientLife, RegisterFailsLife, ClaimPortLife, ClaimFailsLife, ListenLife,
       ListenFailsLife, UnclaimLife, RolledBackLife, RefuseLife, AddProxyLife,
       RegisterProxyLife, AnswerLife, AnswerFailsLife, UnregisterClientLife, EndLoginLife,
       EndReadLoopLife
    DEF HandlerAlone
  <2>3. CASE HandlerGoesOn(l) \/ CloserGoesOn(l)
    BY <2>3, HandlerGoesOnLife, CloserGoesOnLife
  <2>4. CASE SnapshotProxies(l) \/ UnregisterOnClose(l) \/ EndClose(l) \/ Closes(l)
    BY <2>4, SnapshotProxiesLife, UnregisterOnCloseLife, EndCloseLife, BeginCloseLife
    DEF Closes
  <2>5. CASE \E j \in 1..MaxSpecs : Moves(l, j)
    BY <2>5, MovesLife
  <2> QED
    BY <2>1, <2>2, <2>3, <2>4, <2>5 DEF OfLogin
<1> QED
  BY <1>1, OthersLive DEF Closing

\* What is left of Next: Stop, without its call of client.close.
OfStop ==
  /\ \/ StopMark \/ StopListener \/ StopSnapshot \/ StopReturns
     \/ /\ stop = "closing" /\ stopTodo # <<>> /\ stopTodo' = Tail(stopTodo)
        /\ UNCHANGED stop
     \/ UNCHANGED stopVars
  /\ UNCHANGED <<tables, handler, conn, closer, px>>

LEMMA StepOf ==
  Closing /\ [Next]_vars => OfStop \/ \E l \in Logins : OfLogin(l) /\ UNCHANGED stopVars
<1> SUFFICES ASSUME Closing, [Next]_vars
             PROVE  OfStop \/ \E l \in Logins : OfLogin(l) /\ UNCHANGED stopVars
  OBVIOUS
<1>0. TypeOK /\ StopSound
  BY DEF Closing, IInv
<1> USE DEF OfLogin
<1>1. ASSUME NEW l \in Logins, NEW j \in 1..MaxSpecs, ShutListener(<<l, j>>),
             hTodo[l] # <<>> \/ cTodo[l] # <<>>
      PROVE  OfLogin(l) /\ UNCHANGED stopVars
  <2>1. Moves(l, j)
    BY <1>1 DEF ShutListener, Moves, tables
  <2> QED
    BY <1>1, <2>1 DEF ShutListener
<1>2. ASSUME NEW l \in Logins, NEW r \in Requests, Arrive(l, r)
      PROVE  OfLogin(l) /\ UNCHANGED stopVars
  BY <1>2 DEF Arrive
<1>3. ASSUME NEW l \in Logins, HandlerStep(l)
      PROVE  OfLogin(l) /\ UNCHANGED stopVars
  <2>1. CASE HandlerAlone(l)
    BY <2>1
    DEF HandlerAlone, RegisterClient, RegisterFails, ClaimPort, ClaimFails, Listen,
        ListenFails, Unclaim, RolledBack, Refuse, AddProxy, RegisterProxy, Answer,
        AnswerFails, UnregisterClient, EndLogin, EndReadLoop
  <2>2. CASE HandlerCloses(l)
    <3>1. hTodo[l] # <<>> /\ Head(hTodo[l]) \in 1..MaxSpecs
      <4>1. hTodo[l] \in Seq(1..MaxSpecs) /\ hTodo[l] # <<>>
        BY <1>0, <2>2 DEF HandlerCloses, TypeOK
      <4>2. ASSUME NEW S, NEW s \in Seq(S), s # <<>> PROVE Head(s) \in S
        BY <4>2
      <4> QED
        BY <4>1, <4>2
    <3>2. CASE ShutListener(<<l, Head(hTodo[l])>>)
      BY <1>1, <3>1, <3>2
    <3>3. CASE HandlerGoesOn(l)
      BY <3>3 DEF HandlerGoesOn
    <3> QED
      BY <2>2, <3>2, <3>3 DEF HandlerCloses, HandlerGoesOn
  <2> QED
    BY <1>3, <2>1, <2>2 DEF HandlerStep, HandlerAlone
<1>4. ASSUME NEW l \in Logins, LinkBreaks(l) PROVE OfLogin(l) /\ UNCHANGED stopVars
  BY <1>4 DEF LinkBreaks, Closes, BeginClose
<1>5. ASSUME NEW l \in Logins, CloserStep(l) PROVE OfLogin(l) /\ UNCHANGED stopVars
  <2>1. CASE SnapshotProxies(l) \/ UnregisterOnClose(l) \/ EndClose(l)
    BY <2>1 DEF SnapshotProxies, UnregisterOnClose, EndClose
  <2>2. CASE CloserCloses(l)
    <3>1. cTodo[l] # <<>> /\ Head(cTodo[l]) \in 1..MaxSpecs
      <4>1. cTodo[l] \in Seq(1..MaxSpecs) /\ cTodo[l] # <<>>
        BY <1>0, <2>2 DEF CloserCloses, TypeOK
      <4>2. ASSUME NEW S, NEW s \in Seq(S), s # <<>> PROVE Head(s) \in S
        BY <4>2
      <4> QED
        BY <4>1, <4>2
    <3>2. CASE ShutListener(<<l, Head(cTodo[l])>>)
      BY <1>1, <3>1, <3>2
    <3>3. CASE CloserGoesOn(l)
      BY <3>3 DEF CloserGoesOn
    <3> QED
      BY <2>2, <3>2, <3>3 DEF CloserCloses, CloserGoesOn
  <2> QED
    BY <1>5, <2>1, <2>2 DEF CloserStep
<1>6. ASSUME NEW p \in Proxies, ProxyStep(p)
      PROVE  \E l \in Logins : OfLogin(l) /\ UNCHANGED stopVars
  <2>1. PICK l \in Logins, j \in 1..MaxSpecs : p = <<l, j>>
    BY DEF Proxies
  <2>2. Moves(l, j)
    BY <1>6, <2>1 DEF ProxyStep, ReleasePort, UnregisterProxy, Moves
  <2> QED
    BY <2>2 DEF Moves
<1>7. CASE StopClient
  <2>1. stopTodo # <<>> /\ Head(stopTodo) \in Logins /\ login[Head(stopTodo)] \notin {"none", "register"}
    <3>1. stopTodo \in Seq(Logins) /\ stopTodo # <<>>
      BY <1>0, <1>7 DEF StopClient, TypeOK
    <3>2. Head(stopTodo) = stopTodo[1] /\ 1 \in 1..Len(stopTodo) /\ Head(stopTodo) \in Logins
      BY <3>1
    <3> QED
      BY <1>0, <3>1, <3>2 DEF StopSound
  <2>2. CASE BeginClose(Head(stopTodo))
    BY <2>1, <2>2 DEF Closes, BeginClose
  <2>3. CASE ~BeginClose(Head(stopTodo))
    BY <1>7, <2>3 DEF StopClient, OfStop
  <2> QED
    BY <2>2, <2>3
<1>8. CASE StopMark \/ StopListener \/ StopSnapshot \/ StopReturns
  BY <1>8 DEF OfStop, StopMark, StopListener, StopSnapshot, StopReturns
<1>9. CASE UNCHANGED vars
  BY <1>9 DEF vars, OfStop
<1> QED
  BY <1>2, <1>3, <1>4, <1>5, <1>6, <1>7, <1>8, <1>9 DEF Next, StopStep

-----------------------------------------------------------------------------
(* The theorems about closing.                                            *)

\* The handler of a login leaves its first two states for good, and no login
\* arrives once Stop is past its listener.
LEMMA LoginGoesOn ==
  ASSUME Closing, NEW l \in Logins, OfLogin(l), UNCHANGED stopVars
  PROVE  StopSound'
<1>0. TypeOK /\ StopSound
  BY DEF Closing, IInv
<1>1. /\ \A k \in Logins : login[k] \notin {"none", "register"} =>
                           login'[k] \notin {"none", "register"}
      /\ stop = "stopped" => UNCHANGED login
  <2>1. CASE \E r \in Requests : Arrive(l, r)
    BY <1>0, <2>1 DEF Arrive, TypeOK
  <2>2. CASE HandlerAlone(l)
    <3>1. /\ login[l] \notin {"none", "ended"}
          /\ \E v : v \notin {"none", "register"} /\ login' = [login EXCEPT ![l] = v]
      <4>1. CASE RegisterClient(l) \/ Listen(l) \/ RegisterProxy(l)
        <5>1. CASE RegisterClient(l)
          <6>1. /\ login[l] = "register"
                /\ login' = [login EXCEPT ![l] = "claim"] \/ login' = [login EXCEPT ![l] = "refuse"]
            BY <5>1 DEF RegisterClient
          <6> QED
            BY <6>1
        <5>2. CASE Listen(l)
          <6>1. /\ login[l] = "listen"
                /\ login' = [login EXCEPT ![l] = "add"] \/ login' = [login EXCEPT ![l] = "claim"]
            BY <5>2 DEF Listen
          <6> QED
            BY <6>1
        <5>3. CASE RegisterProxy(l)
          <6>1. /\ login[l] = "publish"
                /\ login' = [login EXCEPT ![l] = "answer"] \/ login' = [login EXCEPT ![l] = "add"]
            BY <5>3 DEF RegisterProxy
          <6> QED
            BY <6>1
        <5> QED
          BY <4>1, <5>1, <5>2, <5>3
      <4>2. CASE RegisterFails(l) \/ ClaimPort(l) \/ ClaimFails(l) \/ ListenFails(l) \/ Unclaim(l)
        BY <4>2 DEF RegisterFails, ClaimPort, ClaimFails, ListenFails, Unclaim
      <4>3. CASE RolledBack(l) \/ Refuse(l) \/ AddProxy(l) \/ Answer(l) \/ AnswerFails(l)
        BY <4>3 DEF RolledBack, Refuse, AddProxy, Answer, AnswerFails
      <4>4. CASE UnregisterClient(l) \/ EndLogin(l) \/ EndReadLoop(l)
        BY <4>4 DEF UnregisterClient, EndLogin, EndReadLoop
      <4> QED
        BY <2>2, <4>1, <4>2, <4>3, <4>4 DEF HandlerAlone
    <3> QED
      BY <1>0, <3>1 DEF TypeOK, StopSound
  <2>3. CASE \/ HandlerGoesOn(l) \/ CloserGoesOn(l) \/ SnapshotProxies(l)
             \/ UnregisterOnClose(l) \/ EndClose(l) \/ Closes(l)
             \/ \E j \in 1..MaxSpecs : Moves(l, j)
    BY <2>3
    DEF HandlerGoesOn, CloserGoesOn, SnapshotProxies, UnregisterOnClose, EndClose, Closes,
        BeginClose, Moves, handler
  <2> QED
    BY <2>1, <2>2, <2>3 DEF OfLogin
<1>2. \A j \in 1..Len(stopTodo) : stopTodo[j] \in Logins
  BY <1>0 DEF TypeOK
<1> QED
  BY <1>0, <1>1, <1>2 DEF StopSound, stopVars

LEMMA StopGoesOn ==
  ASSUME Closing, OfStop
  PROVE  StopSound' /\ \A l \in Logins : Life(l)'
<1>0. TypeOK /\ StopSound
  BY DEF Closing, IInv
<1>1. UNCHANGED <<clients, req, login, idx, mine, hTodo, conn, cclose, cTodo, px>>
  BY DEF OfStop, tables, handler, closer
<1>2. ASSUME NEW l \in Logins PROVE Life(l)'
  <2>1. Life(l)
    BY DEF Closing
  <2>2. TableExact(l)' /\ CloseBegun(l)' /\ ListsInUse(l)' /\ StillServed(l)'
    BY <1>1, <2>1 DEF Life, TableExact, CloseBegun, ListsInUse, StillServed
  <2>3. Disposed(l)'
    BY <1>1, <2>1 DEF Life, Disposed
  <2> QED
    BY <2>2, <2>3 DEF Life
<1>3. StopSound'
  <2>1. CASE StopMark \/ StopListener
    BY <1>0, <1>1, <2>1 DEF StopMark, StopListener, StopSound
  <2>2. CASE StopSnapshot
    <3>1. PICK q \in [1..Cardinality(Online) -> Online] : stopTodo' = q
      BY <2>2 DEF StopSnapshot
    <3>2. Cardinality(Online) \in Nat
      BY RegistryAssumption, FS_Subset, FS_CardinalityType DEF Online
    <3>3. q \in Seq(Online)
      BY <3>1, <3>2, FunctionIsSeq
    <3>4. \A k \in Online : k \in Logins /\ login[k] \notin {"none", "register"}
      BY DEF Online, Closing, Life, TableExact
    <3>5. ASSUME NEW j \in 1..Len(stopTodo')
          PROVE  login'[stopTodo'[j]] \notin {"none", "register"}
      BY <1>1, <3>1, <3>3, <3>4, <3>5, ElementOf
    <3>6. stop' = "closing"
      BY <2>2 DEF StopSnapshot
    <3> QED
      BY <3>5, <3>6 DEF StopSound
  <2>3. CASE StopReturns
    BY <1>0, <1>1, <2>3 DEF StopReturns, StopSound
  <2>4. CASE stop = "closing" /\ stopTodo # <<>> /\ stopTodo' = Tail(stopTodo) /\ UNCHANGED stop
    <3>1. stopTodo \in Seq(Logins)
      BY <1>0 DEF TypeOK
    <3>2. ASSUME NEW j \in 1..Len(Tail(stopTodo))
          PROVE  j + 1 \in 1..Len(stopTodo) /\ Tail(stopTodo)[j] = stopTodo[j + 1]
      BY <2>4, <3>1, <3>2
    <3> QED
      BY <1>0, <1>1, <2>4, <3>2 DEF StopSound
  <2>5. CASE UNCHANGED stopVars
    BY <1>0, <1>1, <2>5 DEF StopSound, stopVars
  <2> QED
    BY <2>1, <2>2, <2>3, <2>4, <2>5 DEF OfStop
<1> QED
  BY <1>2, <1>3

LEMMA InitClosing == Init => Closing
<1> SUFFICES ASSUME Init PROVE Closing
  OBVIOUS
<1>1. StopSound
  BY DEF Init, StopSound
<1>2. ASSUME NEW l \in Logins PROVE Life(l)
  <2>1. TableExact(l)
    BY RegistryAssumption DEF Init, TableExact
  <2>2. CloseBegun(l) /\ ListsInUse(l)
    BY DEF Init, CloseBegun, ListsInUse
  <2>3. StillServed(l) /\ Disposed(l)
    BY DEF Init, StillServed, Disposed
  <2> QED
    BY <2>1, <2>2, <2>3 DEF Life
<1> QED
  BY <1>1, <1>2, InitIInv DEF Closing

\* Closing holds always: at every step of every login, of its close and of
\* Stop, each login's mappings are accounted for.
THEOREM ClosingInductive == Spec => []Closing
<1>1. Closing /\ [Next]_vars => Closing'
  <2> SUFFICES ASSUME Closing, [Next]_vars PROVE Closing'
    OBVIOUS
  <2>1. IInv'
    BY TypeStep, LoopStep, PortStep DEF Closing, IInv, Loops, PortEffect
  <2>2. StopSound' /\ \A l \in Logins : Life(l)'
    <3>1. CASE OfStop
      BY <3>1, StopGoesOn
    <3>2. CASE \E l \in Logins : OfLogin(l) /\ UNCHANGED stopVars
      BY <3>2, OfLoginLife, LoginGoesOn
    <3> QED
      BY <3>1, <3>2, StepOf
  <2> QED
    BY <2>1, <2>2 DEF Closing
<1> QED
  BY <1>1, InitClosing, PTL DEF Spec

\* From the answer to its login until its id is free again an online client
\* has exactly what the table says: all its mappings listen until its close
\* begins, and none holds a port any more when the id is free.
THEOREM ServedExactlyHolds == Spec => []ServedExactly
<1>1. Closing => ServedExactly
  <2> SUFFICES ASSUME Closing PROVE ServedExactly
    OBVIOUS
  <2>0. ASSUME NEW l \in Logins, login[l] = "online"
        PROVE  /\ Life(l) /\ req[l].id \in Ids /\ Len(req[l].specs) \in 0..MaxSpecs
               /\ TypeOK
    BY <2>0, RequestFacts DEF Closing, IInv
  <2>1. OnlineServed
    <3> SUFFICES ASSUME NEW l \in Logins, login[l] = "online", cclose[l] = "no"
                 PROVE  /\ clients[req[l].id] = l
                        /\ \A i \in 1..Len(req[l].specs) : px[<<l, i>>] = "listening"
      BY DEF OnlineServed
    <3>1. clients[req[l].id] = l
      BY <2>0 DEF Life, TableExact
    <3>2. ASSUME NEW i \in 1..Len(req[l].specs) PROVE px[<<l, i>>] = "listening"
      <4>1. i \in 1..MaxSpecs /\ i <= Len(req[l].specs)
        BY <2>0, <3>2, RegistryAssumption
      <4> QED
        BY <2>0, <4>1 DEF Life, StillServed
    <3> QED
      BY <3>1, <3>2
  <2>2. PortsBeforeId
    <3> SUFFICES ASSUME NEW l \in Logins, login[l] = "online", clients[req[l].id] # l,
                        NEW i \in 1..MaxSpecs
                 PROVE  ~Holds(<<l, i>>)
      BY DEF PortsBeforeId
    <3>1. cclose[l] \in {"unregistered", "redrain", "done"}
      <4>1. cclose[l] \in {"no", "closing", "drain", "unregistered", "redrain", "done"}
        BY <2>0 DEF TypeOK
      <4>2. TableExact(l) /\ req[l].id \in Ids
        BY <2>0 DEF Life
      <4> QED
        BY <4>1, <4>2 DEF TableExact
    <3>2. px[<<l, i>>] \in Gone
      BY <2>0, <3>1 DEF Life, Disposed
    <3> QED
      BY <3>2 DEF Holds, Gone
  <2> QED
    BY <2>1, <2>2 DEF ServedExactly
<1> QED
  BY <1>1, ClosingInductive, PTL

\* A login that is over, whichever way it went, left no listener, no port and
\* no id behind, and when Stop has returned the server holds nothing at all.
THEOREM CleanAfterHolds == Spec => []CleanAfter
<1>1. Closing => CleanAfter
  <2> SUFFICES ASSUME Closing PROVE CleanAfter
    OBVIOUS
  <2>0. TypeOK /\ RequestKnown /\ PortExclusive /\ StopSound
    BY DEF Closing, IInv
  <2>1. NoResidue
    BY DEF NoResidue, Closing, Life, TableExact, Disposed, Gone
  <2>2. StoppedClean
    <3> SUFFICES ASSUME stop = "stopped"
                 PROVE  /\ portOwner = {} /\ \A p \in Proxies : ~Holds(p)
                        /\ \A i \in Ids : clients[i] = None
      BY DEF StoppedClean
    <3>1. \A l \in Logins : login[l] \in {"none", "ended"}
      BY <2>0 DEF StopSound
    <3>2. ASSUME NEW p \in Proxies PROVE ~Holds(p)
      <4>1. PICK l \in Logins, i \in 1..MaxSpecs : p = <<l, i>>
        BY DEF Proxies
      <4>2. px[<<l, i>>] \in {"new", "failed", "closed"}
        BY <2>0, <2>1, <3>1 DEF RequestKnown, NoResidue
      <4> QED
        BY <4>1, <4>2 DEF Holds
    <3>3. portOwner = {}
      BY <2>0, <3>2 DEF PortExclusive
    <3>4. ASSUME NEW i \in Ids PROVE clients[i] = None
      <4>1. \A l \in Logins : clients[i] # l
        BY <3>1 DEF Closing, Life, TableExact
      <4> QED
        BY <2>0, <4>1 DEF TypeOK
    <3> QED
      BY <3>2, <3>3, <3>4
  <2> QED
    BY <2>1, <2>2 DEF CleanAfter
<1> QED
  BY <1>1, ClosingInductive, PTL
=============================================================================
