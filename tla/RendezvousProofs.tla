-------------------------- MODULE RendezvousProofs --------------------------
(***************************************************************************)
(* Proofs about Rendezvous, for any number of sessions and connections and *)
(* any queue capacity.                                                     *)
(***************************************************************************)
EXTENDS Rendezvous, TLAPS

\* The initial state satisfies the inductive invariant.
LEMMA InitIInv == Init => IInv
  BY RendezvousAssumption
  DEF Init, IInv, TypeOK, Inv, PendingLive, UnboundWhilePending, DeliveredToClaim,
      CarriedByClaim, HandledUntilFound, Phases, JoinHolds, Bound, Carries

LEMMA TypeStep == TypeOK /\ [Next]_vars => TypeOK'
<1> SUFFICES ASSUME TypeOK, [Next]_vars PROVE TypeOK'
  OBVIOUS
<1> USE RendezvousAssumption DEF TypeOK, sessVars, ownerVars, handlerVars, clientVars
<1>1. ASSUME NEW s \in Sessions, Session(s) PROVE TypeOK'
  <2>1. CASE Accept(s)
    BY <2>1 DEF Accept
  <2>2. CASE RegisterPending(s)
    BY <2>2 DEF RegisterPending
  <2>3. CASE SendNotify(s)
    BY <2>3 DEF SendNotify
  <2>4. CASE SendFails(s)
    BY <2>4 DEF SendFails
  <2>5. CASE TakeWorkConn(s)
    BY <2>5 DEF TakeWorkConn
  <2>6. CASE GiveUpWaiting(s)
    BY <2>6 DEF GiveUpWaiting
  <2>7. CASE Forward(s)
    <3>1. \A w \in WorkConns : Append(wire[w], "data") \in Seq({"hdr", "ok", "rej", "data"})
      OBVIOUS
    <3>2. wire' \in [WorkConns -> Seq({"hdr", "ok", "rej", "data"})]
      BY <2>7, <3>1 DEF Forward
    <3> QED
      BY <2>7, <3>2 DEF Forward
  <2>8. CASE JoinEnd(s)
    BY <2>8 DEF JoinEnd
  <2>9. CASE ReleasePending(s)
    BY <2>9 DEF ReleasePending
  <2>10. CASE Drain(s)
    BY <2>10 DEF Drain
  <2> QED
    BY <1>1, <2>1, <2>2, <2>3, <2>4, <2>5, <2>6, <2>7, <2>8, <2>9, <2>10
    DEF Session, Send, Wait
<1>2. ASSUME Owner PROVE TypeOK'
  <2>1. CASE WriteLoop
    BY <2>1 DEF WriteLoop
  <2>2. CASE LoginDone \/ LoginFails \/ CloseOwner
    BY <2>2 DEF LoginDone, LoginFails, CloseOwner
  <2>3. CASE CtrlLost
    BY <2>3 DEF CtrlLost
  <2>4. CASE CloseProxy
    BY <2>4 DEF CloseProxy
  <2> QED
    BY <1>2, <2>1, <2>2, <2>3, <2>4 DEF Owner
<1>3. ASSUME NEW w \in WorkConns, Client(w) PROVE TypeOK'
  <2>1. CASE ClientNotice(w)
    BY <2>1 DEF ClientNotice
  <2>2. CASE Dial(w)
    BY <2>2 DEF Dial, ClientGiveUp, ClientOpen
  <2>3. CASE ReadResponse(w)
    BY <2>3 DEF ReadResponse
  <2>4. CASE ReadFails(w)
    BY <2>4 DEF ReadFails
  <2>5. CASE ClientRead(w)
    BY <2>5 DEF ClientRead
  <2>6. CASE ClientClose(w)
    BY <2>6 DEF ClientClose
  <2> QED
    BY <1>3, <2>1, <2>2, <2>3, <2>4, <2>5, <2>6 DEF Client, AwaitResponse
<1>4. ASSUME NEW w \in WorkConns, Handler(w) PROVE TypeOK'
  <2>1. CASE HandshakeFails(w)
    BY <2>1 DEF HandshakeFails
  <2>2. CASE DeliverWorkConn(w)
    <3>1. CASE claim[w] \in pending
      <4>1. /\ pending' = pending \ {claim[w]}
            /\ ch' = [ch EXCEPT ![claim[w]] = w]
            /\ found' = [found EXCEPT ![w] = TRUE]
        BY <2>2, <3>1 DEF DeliverWorkConn
      <4> QED
        BY <2>2, <4>1 DEF DeliverWorkConn
    <3>2. CASE claim[w] \notin pending
      <4>1. UNCHANGED <<pending, ch, found>>
        BY <2>2, <3>2 DEF DeliverWorkConn
      <4> QED
        BY <2>2, <4>1 DEF DeliverWorkConn
    <3> QED
      BY <3>1, <3>2
  <2>3. CASE WriteHeader(w)
    BY <2>3 DEF WriteHeader
  <2>4. CASE WriteBody(w)
    BY <2>4 DEF WriteBody
  <2>5. CASE WriteFails(w)
    BY <2>5 DEF WriteFails
  <2> QED
    BY <1>4, <2>1, <2>2, <2>3, <2>4, <2>5 DEF Handler, Respond
<1>5. CASE UNCHANGED vars
  BY <1>5 DEF vars
<1> QED
  BY <1>1, <1>2, <1>3, <1>4, <1>5 DEF Next

\* The steps of the sessions, the owner, the client and the server's handler
\* each preserve the inductive invariant.
LEMMA SessionStep ==
  ASSUME IInv, NEW s \in Sessions, Session(s)
  PROVE  Inv'
<1> USE RendezvousAssumption
    DEF IInv, TypeOK, Inv, PendingLive, UnboundWhilePending, DeliveredToClaim,
        CarriedByClaim, HandledUntilFound, Phases, JoinHolds, Bound, Carries,
        sessVars, ownerVars, handlerVars, clientVars
<1>1. CASE Accept(s)
  BY <1>1 DEF Accept
<1>2. CASE RegisterPending(s)
  BY <1>2 DEF RegisterPending
<1>3. CASE SendNotify(s)
  BY <1>3 DEF SendNotify
<1>4. CASE SendFails(s)
  BY <1>4 DEF SendFails
<1>5. CASE TakeWorkConn(s)
  BY <1>5 DEF TakeWorkConn
<1>6. CASE GiveUpWaiting(s)
  BY <1>6 DEF GiveUpWaiting
<1>7. CASE Forward(s)
  BY <1>7 DEF Forward
<1>8. CASE JoinEnd(s)
  BY <1>8 DEF JoinEnd
<1>9. CASE ReleasePending(s)
  BY <1>9 DEF ReleasePending
<1>10. CASE Drain(s)
  BY <1>10 DEF Drain
<1> QED
  BY <1>1, <1>2, <1>3, <1>4, <1>5, <1>6, <1>7, <1>8, <1>9, <1>10
  DEF Session, Send, Wait

LEMMA OwnerStep ==
  ASSUME IInv, Owner
  PROVE  Inv'
<1> USE RendezvousAssumption
    DEF IInv, TypeOK, Inv, PendingLive, UnboundWhilePending, DeliveredToClaim,
        CarriedByClaim, HandledUntilFound, Phases, JoinHolds, Bound, Carries,
        sessVars, ownerVars, handlerVars, clientVars
<1>1. CASE WriteLoop
  BY <1>1 DEF WriteLoop
<1>2. CASE LoginDone \/ LoginFails \/ CloseOwner \/ CtrlLost \/ CloseProxy
  BY <1>2 DEF LoginDone, LoginFails, CloseOwner, CtrlLost, CloseProxy
<1> QED
  BY <1>1, <1>2 DEF Owner

LEMMA ClientStep ==
  ASSUME IInv, NEW w \in WorkConns, Client(w)
  PROVE  Inv'
<1> USE RendezvousAssumption
    DEF IInv, TypeOK, Inv, PendingLive, UnboundWhilePending, DeliveredToClaim,
        CarriedByClaim, HandledUntilFound, Phases, JoinHolds, Bound, Carries,
        sessVars, ownerVars, handlerVars, clientVars
<1>1. CASE ClientNotice(w)
  BY <1>1 DEF ClientNotice
<1>2. CASE ClientGiveUp(w)
  BY <1>2 DEF ClientGiveUp
<1>3. CASE ClientOpen(w)
  BY <1>3 DEF ClientOpen
<1>4. CASE ReadResponse(w)
  BY <1>4 DEF ReadResponse
<1>5. CASE ReadFails(w)
  BY <1>5 DEF ReadFails
<1>6. CASE ClientRead(w)
  BY <1>6 DEF ClientRead
<1>7. CASE ClientClose(w)
  BY <1>7 DEF ClientClose
<1> QED
  BY <1>1, <1>2, <1>3, <1>4, <1>5, <1>6, <1>7 DEF Client, Dial, AwaitResponse

LEMMA HandlerStep ==
  ASSUME IInv, NEW w \in WorkConns, Handler(w)
  PROVE  Inv'
<1> USE RendezvousAssumption
    DEF IInv, TypeOK, Inv, PendingLive, UnboundWhilePending, DeliveredToClaim,
        CarriedByClaim, HandledUntilFound, Phases, JoinHolds, Bound, Carries,
        sessVars, ownerVars, handlerVars, clientVars
<1>1. CASE HandshakeFails(w)
  BY <1>1 DEF HandshakeFails
<1>2. CASE DeliverWorkConn(w)
  <2>1. CASE claim[w] \in pending
    <3>1. /\ pending' = pending \ {claim[w]}
          /\ ch[claim[w]] = None
          /\ ch' = [ch EXCEPT ![claim[w]] = w]
          /\ found' = [found EXCEPT ![w] = TRUE]
          /\ hpc[w] = "read" /\ hpc' = [hpc EXCEPT ![w] = "header"]
          /\ UNCHANGED <<pc, held, srvEnd, claim, cpc>>
      BY <1>2, <2>1 DEF DeliverWorkConn
    <3>2. PendingLive'
      BY <2>1, <3>1
    <3>6. UnboundWhilePending'
      <4> SUFFICES ASSUME NEW t \in Sessions, NEW v \in WorkConns,
                          t \in pending' \/ pc'[t] \in {"none", "accepted"}
                   PROVE  ~(found'[v] /\ claim'[v] = t)
        OBVIOUS
      <4>1. t # claim[w]
        BY <2>1, <3>1
      <4>2. t \in pending \/ pc[t] \in {"none", "accepted"}
        BY <3>1
      <4> QED
        BY <3>1, <4>1, <4>2
    <3>3. DeliveredToClaim'
      BY <2>1, <3>1
    <3>4. CarriedByClaim'
      BY <2>1, <3>1
    <3>5. HandledUntilFound' /\ Phases' /\ JoinHolds'
      BY <2>1, <3>1
    <3> QED
      BY <3>2, <3>6, <3>3, <3>4, <3>5
  <2>2. CASE claim[w] \notin pending
    <3>1. /\ UNCHANGED <<pending, ch, found, pc, held, srvEnd, claim, cpc>>
          /\ hpc[w] = "read" /\ hpc' = [hpc EXCEPT ![w] = "header"]
      BY <1>2, <2>2 DEF DeliverWorkConn
    <3> QED
      BY <3>1
  <2> QED
    BY <2>1, <2>2
<1>3. CASE WriteHeader(w)
  BY <1>3 DEF WriteHeader
<1>4. CASE WriteBody(w)
  BY <1>4 DEF WriteBody
<1>5. CASE WriteFails(w)
  BY <1>5 DEF WriteFails
<1> QED
  BY <1>1, <1>2, <1>3, <1>4, <1>5 DEF Handler, Respond

LEMMA StutterStep == IInv /\ UNCHANGED vars => IInv'
  BY DEF vars, IInv, TypeOK, Inv, PendingLive, UnboundWhilePending, DeliveredToClaim,
      CarriedByClaim, HandledUntilFound, Phases, JoinHolds, Bound, Carries

\* IInv holds in every reachable state.
THEOREM Inductive == Spec => []IInv
<1>1. IInv /\ [Next]_vars => IInv'
  <2> SUFFICES ASSUME IInv, [Next]_vars PROVE IInv'
    OBVIOUS
  <2>1. TypeOK'
    BY TypeStep DEF IInv
  <2>2. CASE UNCHANGED vars
    BY <2>2, StutterStep
  <2>3. CASE Next
    BY <2>1, <2>3, SessionStep, OwnerStep, ClientStep, HandlerStep DEF Next, IInv
  <2> QED
    BY <2>2, <2>3
<1> QED
  BY <1>1, InitIInv, PTL DEF Spec

-----------------------------------------------------------------------------
\* Every variable keeps its type.
THEOREM TypeInvariant == Spec => []TypeOK
  BY Inductive, PTL DEF IInv

\* An entry of s.pending always has a handler that will remove it, and
\* deliverWorkConn never blocks with the lock held.
THEOREM PendingSafe == Spec => []PendingSound
<1>1. IInv => PendingSound
  BY RendezvousAssumption
  DEF IInv, TypeOK, Inv, PendingSound, PendingLive, DeliverNeverBlocks, UnboundWhilePending,
      DeliveredToClaim
<1> QED
  BY <1>1, Inductive, PTL

\* No open server end is ever without a goroutine that will close it.
THEOREM NoOrphanHolds == Spec => []NoOrphan
<1>1. IInv => NoOrphan
  BY DEF IInv, Inv, NoOrphan, CarriedByClaim, HandledUntilFound
<1> QED
  BY <1>1, Inductive, PTL

\* Public traffic reaches only the connection dialled for that session.
THEOREM NoCrossTalkHolds == Spec => []NoCrossTalk
<1>1. IInv => NoCrossTalk
  BY DEF IInv, Inv, NoCrossTalk, DeliveredToClaim, Bound, Carries
<1> QED
  BY <1>1, Inductive, PTL

-----------------------------------------------------------------------------
(* Refinement: every step of the handlers is a step of Pairing or a stutter. *)

LEMMA InitRefines == Init => P!Init
  BY DEF Init, P!Init, sessBar, connBar, peerBar

LEMMA SessionRefines ==
  ASSUME IInv, NEW s \in Sessions, Session(s)
  PROVE  [P!Next]_(P!vars)
<1> USE RendezvousAssumption
    DEF sessBar, connBar, peerBar, sessVars, ownerVars, handlerVars, clientVars
<1> TypeOK /\ Inv
  BY DEF IInv
<1>1. CASE Accept(s)
  <2>1. P!Open(s)
    BY <1>1 DEF Accept, P!Open, TypeOK
  <2> QED
    BY <2>1 DEF P!Next
<1>2. CASE RegisterPending(s) \/ Send(s) \/ Wait(s) \/ Forward(s) \/ ReleasePending(s)
  <2>1. UNCHANGED P!vars
    BY <1>2 DEF RegisterPending, Send, SendNotify, SendFails, Wait, TakeWorkConn,
                GiveUpWaiting, Forward, ReleasePending, P!vars, TypeOK
  <2> QED
    BY <2>1
<1>3. CASE JoinEnd(s)
  <2> PICK w \in WorkConns : w = held[s]
    BY <1>3 DEF JoinEnd, Inv, JoinHolds
  <2>1. found[w]
    BY DEF Inv, DeliveredToClaim, Bound
  <2>2. CASE srvEnd[w] = "open"
    <3>1. P!Close(w)
      BY <1>3, <2>1, <2>2 DEF JoinEnd, P!Close, TypeOK
    <3> QED
      BY <3>1 DEF P!Next
  <2>3. CASE srvEnd[w] # "open"
    <3>1. srvEnd[w] = "closed"
      BY <2>1, <2>3 DEF Inv, Phases, TypeOK
    <3>2. UNCHANGED P!vars
      BY <1>3, <2>1, <3>1 DEF JoinEnd, P!vars, TypeOK
    <3> QED
      BY <3>2
  <2> QED
    BY <2>2, <2>3
<1>4. CASE Drain(s)
  <2>1. \A w \in WorkConns : peerBar[w] = s /\ srvEnd[w] = "open" => ch[s] = w
    BY <1>4 DEF Drain, Inv, CarriedByClaim, Carries
  <2>2. \A w \in WorkConns : peerBar[w] = s => srvEnd[w] # "none"
    BY DEF Inv, Phases
  <2>3. \A w \in WorkConns : ch[s] = w => peerBar[w] = s
    BY DEF Inv, DeliveredToClaim, Bound
  <2>5. /\ sessBar[s] = "open"
        /\ sessBar' = [sessBar EXCEPT ![s] = "ended"]
        /\ UNCHANGED peerBar
    BY <1>4 DEF Drain, TypeOK
  <2>6. ASSUME NEW w \in WorkConns
        PROVE  connBar'[w] = IF peerBar[w] = s THEN "closed" ELSE connBar[w]
    <3>1. CASE ch[s] = w
      BY <1>4, <2>2, <2>3, <3>1 DEF Drain, TypeOK
    <3>2. CASE ch[s] # w
      BY <1>4, <2>1, <2>2, <3>2 DEF Drain, TypeOK
    <3> QED
      BY <3>1, <3>2
  <2>7. connBar' = [w \in WorkConns |-> IF peerBar[w] = s THEN "closed" ELSE connBar[w]]
    BY <2>6
  <2>4. P!End(s)
    BY <2>5, <2>7 DEF P!End
  <2> QED
    BY <2>4 DEF P!Next
<1> QED
  BY <1>1, <1>2, <1>3, <1>4 DEF Session

LEMMA OwnerRefines ==
  ASSUME IInv, Owner
  PROVE  UNCHANGED P!vars
  BY DEF Owner, LoginDone, LoginFails, WriteLoop, CloseOwner, CtrlLost, CloseProxy,
         P!vars, sessBar, connBar, peerBar, sessVars, ownerVars, handlerVars, clientVars

LEMMA ClientRefines ==
  ASSUME IInv, NEW w \in WorkConns, Client(w)
  PROVE  [P!Next]_(P!vars)
<1> USE RendezvousAssumption
    DEF sessBar, connBar, peerBar, sessVars, ownerVars, handlerVars, clientVars
<1> TypeOK /\ Inv
  BY DEF IInv
<1>1. CASE ClientOpen(w)
  <2>1. srvEnd[w] = "none" /\ ~found[w]
    BY <1>1 DEF ClientOpen, Inv, Phases
  <2>2. P!Offer(w)
    BY <1>1, <2>1 DEF ClientOpen, P!Offer, TypeOK
  <2> QED
    BY <2>2 DEF P!Next
<1>2. CASE ClientNotice(w)
  <2>1. ~found[w]
    BY <1>2 DEF ClientNotice, Inv, Phases
  <2>2. UNCHANGED P!vars
    BY <1>2, <2>1 DEF ClientNotice, P!vars, TypeOK
  <2> QED
    BY <2>2
<1>3. CASE ClientGiveUp(w) \/ AwaitResponse(w) \/ ClientRead(w) \/ ClientClose(w)
  <2>1. UNCHANGED P!vars
    BY <1>3 DEF ClientGiveUp, AwaitResponse, ReadResponse, ReadFails, ClientRead,
                ClientClose, P!vars
  <2> QED
    BY <2>1
<1> QED
  BY <1>1, <1>2, <1>3 DEF Client, Dial

LEMMA HandlerRefines ==
  ASSUME IInv, NEW w \in WorkConns, Handler(w)
  PROVE  [P!Next]_(P!vars)
<1> USE RendezvousAssumption
    DEF sessBar, connBar, peerBar, sessVars, ownerVars, handlerVars, clientVars
<1> TypeOK /\ Inv
  BY DEF IInv
<1>1. ASSUME srvEnd[w] \in {"open", "closed"},
             srvEnd' = [srvEnd EXCEPT ![w] = "closed"], UNCHANGED <<pc, found, claim>>
      PROVE  [P!Next]_(P!vars)
  <2>1. CASE srvEnd[w] = "open"
    <3>1. P!Close(w)
      BY <1>1, <2>1 DEF P!Close, TypeOK
    <3> QED
      BY <3>1 DEF P!Next
  <2>2. CASE srvEnd[w] = "closed"
    <3>1. UNCHANGED P!vars
      BY <1>1, <2>2 DEF P!vars, TypeOK
    <3> QED
      BY <3>1
  <2> QED
    BY <1>1, <2>1, <2>2
<1>2. CASE HandshakeFails(w)
  <2>1. srvEnd[w] = "open"
    BY <1>2 DEF HandshakeFails, Inv, Phases
  <2> QED
    BY <1>1, <1>2, <2>1 DEF HandshakeFails
<1>3. CASE WriteFails(w)
  <2>1. srvEnd[w] \in {"open", "closed"}
    BY <1>3 DEF WriteFails, Inv, Phases, TypeOK
  <2> QED
    BY <1>1, <1>3, <2>1 DEF WriteFails
<1>4. CASE WriteHeader(w)
  <2>1. UNCHANGED P!vars
    BY <1>4 DEF WriteHeader, P!vars
  <2> QED
    BY <2>1
<1>5. CASE WriteBody(w)
  <2>1. CASE found[w]
    <3>1. UNCHANGED P!vars
      BY <1>5, <2>1 DEF WriteBody, P!vars, TypeOK
    <3> QED
      BY <3>1
  <2>2. CASE ~found[w]
    BY <1>1, <1>5, <2>2 DEF WriteBody
  <2> QED
    BY <2>1, <2>2
<1>6. CASE DeliverWorkConn(w)
  <2>1. srvEnd[w] = "open" /\ ~found[w]
    BY <1>6 DEF DeliverWorkConn, Inv, Phases
  <2>2. CASE claim[w] \in pending
    <3>1. claim[w] \in Sessions /\ pc[claim[w]] \in {"send", "wait", "release"}
      BY <2>2 DEF Inv, PendingLive, TypeOK
    <3>2. \A v \in WorkConns : peerBar[v] # claim[w]
      BY <2>2, <3>1 DEF Inv, UnboundWhilePending, Bound
    <3>3. /\ found' = [found EXCEPT ![w] = TRUE]
          /\ UNCHANGED <<pc, srvEnd, claim>>
      BY <1>6, <2>2 DEF DeliverWorkConn
    <3>4. P!Bind(claim[w], w)
      BY <2>1, <3>1, <3>2, <3>3 DEF P!Bind, TypeOK
    <3> QED
      BY <3>1, <3>4 DEF P!Next
  <2>3. CASE claim[w] \notin pending
    <3>1. UNCHANGED P!vars
      BY <1>6, <2>3 DEF DeliverWorkConn, P!vars
    <3> QED
      BY <3>1
  <2> QED
    BY <2>2, <2>3
<1> QED
  BY <1>2, <1>3, <1>4, <1>5, <1>6 DEF Handler, Respond

\* The handlers, the channels and the lock implement the pairing they stand
\* for: whatever the interleaving, a session ends with its connection closed.
THEOREM Implements == Spec => PairingSpec
<1>1. IInv /\ [Next]_vars => [P!Next]_(P!vars)
  <2> SUFFICES ASSUME IInv, [Next]_vars PROVE [P!Next]_(P!vars)
    OBVIOUS
  <2>1. CASE UNCHANGED vars
    BY <2>1 DEF vars, P!vars, sessBar, connBar, peerBar
  <2>2. CASE Next
    BY <2>2, SessionRefines, OwnerRefines, ClientRefines, HandlerRefines DEF Next
  <2> QED
    BY <2>1, <2>2
<1> QED
  BY <1>1, InitRefines, Inductive, PTL DEF Spec, PairingSpec, P!Spec
=============================================================================
