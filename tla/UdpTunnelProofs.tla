--------------------------- MODULE UdpTunnelProofs ---------------------------
(***************************************************************************)
(* Proofs about UdpTunnel, for any sources, sessions, datagrams and        *)
(* replies. Its server is UdpSession, so the invariant of UdpSessionProofs *)
(* holds here too, whatever the client does.                               *)
(***************************************************************************)
EXTENDS UdpTunnel, UdpSessionProofs

-----------------------------------------------------------------------------
\* Beside the client nothing of the server changes but through its actions.
LEMMA ServerStep == [TunnelNext]_tunnelVars => [Next]_vars
<1> SUFFICES ASSUME [TunnelNext]_tunnelVars PROVE [Next]_vars
  OBVIOUS
<1>1. CASE ServerNext
  BY <1>1 DEF Next
<1>2. ASSUME NEW s \in Sess, Client(s) PROVE [Next]_vars
  BY <1>2
  DEF Client, Handler, OpenLocal, OpenWorkConn, Delivered, Answered, AskFails, Shut,
      HandlerEnds, ToLocal, ToLocalEnds, ToTunnel, ToTunnelEnds
<1>3. ASSUME NEW s \in Sess, TunnelDelivered(s) \/ ReadReply(s) PROVE [Next]_vars
  BY <1>3 DEF TunnelDelivered, ReadReply, Next
<1>4. CASE CleanUp
  BY <1>4 DEF CleanUp
<1>5. CASE UNCHANGED tunnelVars
  BY <1>5 DEF tunnelVars
<1> QED
  BY <1>1, <1>2, <1>3, <1>4, <1>5 DEF TunnelNext

\* With the client's handlers attached the server's half of a UDP mapping
\* still behaves as UdpSession says; handleUDPWorkConn can only slow it down.
THEOREM ServerImplemented == TunnelSpec => Spec
<1>1. TunnelInit => Init
  BY DEF TunnelInit
<1> QED
  BY <1>1, ServerStep, PTL DEF TunnelSpec, Spec

\* The server's invariant does not depend on the client.
THEOREM ServerInvariant == TunnelSpec => []IInv
  BY ServerImplemented, Inductive, PTL

-----------------------------------------------------------------------------
(* The inductive invariant of the client's half, given the server's.       *)

\* The goroutines of a session start once, with nothing read.
Passed ==
  \A s \in Sess :
    /\ handler[s] \in {"none", "dial", "asked"} => inward[s] = "none"
    /\ inward[s] \in {"none", "run"} => Len(toLocal[s]) = taken[s]
    /\ Len(toLocal[s]) <= taken[s]
    /\ \A i \in 1..Len(toLocal[s]) : toLocal[s][i] = frames[s][i]

TInv == TunnelTypeOK /\ Passed

LEMMA InitTInv == TunnelInit => TInv
  BY UdpAssumption, UdpTunnelAssumption
  DEF TunnelInit, Init, TInv, TunnelTypeOK, Passed

\* What the server writes stays: frames only grows.
LEMMA FramesGrow ==
  ASSUME TypeOK, [Next]_vars, NEW s \in Sess
  PROVE  /\ frames[s] \in Seq(1..MaxPkts) /\ Len(frames[s]) <= Len(frames'[s])
         /\ \A i \in 1..Len(frames[s]) : frames'[s][i] = frames[s][i]
<1>1. frames[s] \in Seq(1..MaxPkts) /\ frames \in [Sess -> Seq(1..MaxPkts)]
  BY DEF TypeOK
<1>2. ASSUME NEW t \in Sess, WriteFrame(t) PROVE
        frames'[s] = frames[s] \/ frames'[s] = Append(frames[s], Head(queue[t]))
  BY <1>1, <1>2 DEF WriteFrame
<1>3. UNCHANGED frames \/ \E t \in Sess : WriteFrame(t)
  BY DEF Next, ServerNext, Receive, Loop, Lookup, AddSession, CountAndRun, Touch, Enqueue,
     LoopExits, Runner, Notify, DialFails, Attach, WriterSeesDone, RunEnds, TunnelArrives, ReadFrame,
     ReadTunnelFails, ReaderEnds, Closing, OwnGoroutineCloses, CloseTunnel, RemoveSession,
     CountClosed, BecomeIdle, Scan, Reap, ReapNext, OwnerLeaves, CloseDone, ProxyClose,
     CloseSocket, SnapshotSessions, ProxyCloses, vars, loopVars, sessVars, runVars, endVars
<1>4. CASE frames'[s] = frames[s]
  BY <1>1, <1>4
<1>5. ASSUME NEW e, frames'[s] = Append(frames[s], e)
      PROVE  /\ Len(frames[s]) <= Len(frames'[s])
             /\ \A i \in 1..Len(frames[s]) : frames'[s][i] = frames[s][i]
  BY <1>1, <1>5
<1> QED
  BY <1>1, <1>2, <1>3, <1>4, <1>5

\* A step that leaves the client alone, or changes only what is named.
LEMMA QuietClient ==
  ASSUME IInv, TInv, [Next]_vars,
         UNCHANGED <<handler, local, workEnd, inward, outward, taken, toLocal, workConns>>,
         delivered' \in [Sess -> BOOLEAN], back' \in [Sess -> 0..MaxReplies]
  PROVE  TInv'
<1>1. \A s \in Sess : /\ frames[s] \in Seq(1..MaxPkts) /\ Len(frames[s]) <= Len(frames'[s])
                      /\ \A i \in 1..Len(frames[s]) : frames'[s][i] = frames[s][i]
  BY FramesGrow DEF IInv
<1>2. \A s \in Sess : /\ Len(frames[s]) \in Nat /\ taken[s] \in Nat /\ taken[s] <= Len(frames[s])
                      /\ Len(toLocal[s]) \in Nat /\ Len(toLocal[s]) <= taken[s]
  BY <1>1 DEF TInv, TunnelTypeOK, Passed
<1>3. \A s \in Sess : Len(frames'[s]) \in Nat
  <2>1. TypeOK'
    BY TypeStep
  <2> QED
    BY <2>1 DEF TypeOK
<1>4. \A s \in Sess : taken[s] <= Len(frames'[s])
  BY <1>1, <1>2, <1>3
<1>5. TunnelTypeOK'
  BY <1>4 DEF TInv, TunnelTypeOK
<1>6. \A s \in Sess : \A i \in 1..Len(toLocal[s]) : toLocal[s][i] = frames'[s][i]
  <2> TAKE s \in Sess
  <2> TAKE i \in 1..Len(toLocal[s])
  <2>1. i \in 1..Len(frames[s])
    BY <1>2
  <2> QED
    BY <1>1, <2>1 DEF TInv, Passed
<1>7. Passed'
  BY <1>6 DEF TInv, Passed
<1> QED
  BY <1>5, <1>7 DEF TInv

\* handleUDPWorkConn before its goroutines start: s is not yet tracked.
LEMMA HandlerTypes ==
  ASSUME TunnelTypeOK, NEW s \in Sess, handler[s] \in {"none", "dial"},
         NEW h \in {"dial", "asked", "ended"}, handler' = [handler EXCEPT ![s] = h],
         local' \in [Sess -> {"none", "open", "closed"}],
         workEnd' \in [Sess -> {"none", "open", "closed"}],
         UNCHANGED <<frames, delivered, inward, outward, taken, toLocal, back, workConns>>
  PROVE  TunnelTypeOK'
<1>1. \A t \in Sess : handler'[t] = IF t = s THEN h ELSE handler[t]
  BY DEF TunnelTypeOK
<1>2. workConns \subseteq {t \in Sess : handler'[t] \in {"forward", "second"}}
  BY <1>1 DEF TunnelTypeOK
<1>3. \A t \in Sess : "run" \in {inward[t], outward[t]} => handler'[t] \in {"forward", "second"}
  BY <1>1 DEF TunnelTypeOK
<1> QED
  BY <1>2, <1>3 DEF TunnelTypeOK

LEMMA TInvStep == IInv /\ TInv /\ [TunnelNext]_tunnelVars => TInv'
<1> SUFFICES ASSUME IInv, TInv, [TunnelNext]_tunnelVars PROVE TInv'
  OBVIOUS
<1> TunnelTypeOK /\ Passed
  BY DEF TInv
<1> [Next]_vars
  BY ServerStep
<1> USE UdpTunnelAssumption DEF clientVars, dialVars, copyVars
<1>1. CASE UNCHANGED clientVars
  BY <1>1, QuietClient DEF TunnelTypeOK
<1>2. ASSUME NEW s \in Sess, ReadReply(s) PROVE TInv'
  <2>1. back' \in [Sess -> 0..MaxReplies]
    BY <1>2 DEF ReadReply, TunnelTypeOK
  <2> QED
    BY <1>2, <2>1, QuietClient DEF ReadReply, TunnelTypeOK
<1>3. ASSUME NEW s \in Sess, ToTunnel(s) PROVE TInv'
  <2>1. back' \in [Sess -> 0..MaxReplies]
    BY <1>3 DEF ToTunnel, TunnelTypeOK
  <2> QED
    BY <1>3, <2>1, QuietClient DEF ToTunnel, TunnelTypeOK
<1>4. ASSUME NEW s \in Sess, Delivered(s) PROVE TInv'
  BY <1>4, QuietClient DEF Delivered, TunnelTypeOK
<1>5. ASSUME NEW s \in Sess, Handler(s) \/ OpenLocal(s) \/ ToLocalEnds(s) \/ ToTunnelEnds(s)
      PROVE  TInv'
  <2>1. CASE OpenLocal(s)
    <3>1. PICK h \in {"dial", "ended"} : handler' = [handler EXCEPT ![s] = h]
      BY <2>1 DEF OpenLocal
    <3>2. /\ handler[s] = "none" /\ local' \in [Sess -> {"none", "open", "closed"}]
          /\ UNCHANGED <<frames, workEnd, delivered, inward, outward, taken, toLocal, back,
                         workConns>>
      BY <2>1 DEF OpenLocal, TunnelTypeOK, vars, runVars
    <3>3. TunnelTypeOK'
      BY <3>1, <3>2, HandlerTypes DEF TunnelTypeOK
    <3>4. \A t \in Sess : handler'[t] = IF t = s THEN h ELSE handler[t]
      BY <3>1 DEF TunnelTypeOK
    <3>5. Passed'
      BY <3>1, <3>2, <3>4 DEF Passed
    <3> QED
      BY <3>3, <3>5 DEF TInv
  <2>2. CASE OpenWorkConn(s)
    <3>1. PICK h \in {"asked", "ended"} : handler' = [handler EXCEPT ![s] = h]
      BY <2>2 DEF OpenWorkConn
    <3>2. /\ handler[s] = "dial" /\ local' \in [Sess -> {"none", "open", "closed"}]
          /\ workEnd' \in [Sess -> {"none", "open", "closed"}]
          /\ UNCHANGED <<frames, delivered, inward, outward, taken, toLocal, back, workConns>>
      BY <2>2 DEF OpenWorkConn, TunnelTypeOK, vars, runVars
    <3>3. TunnelTypeOK'
      BY <3>1, <3>2, HandlerTypes
    <3>4. Passed'
      BY <3>1, <3>2 DEF Passed, TunnelTypeOK
    <3> QED
      BY <3>3, <3>4 DEF TInv
  <2> USE DEF TInv, TunnelTypeOK, Passed, vars, runVars
  <2>3. CASE Answered(s)
    BY <2>3 DEF Answered
  <2>4. CASE AskFails(s)
    BY <2>4 DEF AskFails
  <2>5. CASE Shut(s)
    BY <2>5 DEF Shut
  <2>6. CASE HandlerEnds(s)
    BY <2>6 DEF HandlerEnds
  <2>7. CASE ToLocalEnds(s)
    BY <2>7 DEF ToLocalEnds
  <2>8. CASE ToTunnelEnds(s)
    BY <2>8 DEF ToTunnelEnds
  <2> QED
    BY <1>5, <2>1, <2>2, <2>3, <2>4, <2>5, <2>6, <2>7, <2>8 DEF Handler
<1>6. ASSUME NEW s \in Sess, ToLocal(s) PROVE TInv'
  <2>1. /\ frames[s] \in Seq(1..MaxPkts) /\ taken[s] < Len(frames[s]) /\ taken[s] \in Nat
        /\ toLocal[s] \in Seq(1..MaxPkts) /\ Len(toLocal[s]) = taken[s]
        /\ inward[s] = "run" /\ handler[s] \in {"forward", "second"}
        /\ Len(frames[s]) \in Nat
    BY <1>6 DEF ToLocal, TunnelTypeOK, Passed, IInv, TypeOK
  <2>2. /\ \A t \in Sess : taken'[t] = IF t = s THEN taken[s] + 1 ELSE taken[t]
        /\ taken' \in [Sess -> Nat]
        /\ UNCHANGED <<frames, handler, local, workEnd, delivered, outward, back, workConns>>
    BY <1>6 DEF ToLocal, TunnelTypeOK, vars, runVars
  <2>5. taken[s] + 1 \in 1..Len(frames[s])
    BY <2>1
  <2>6. \A t \in Sess : taken'[t] <= Len(frames[t])
    <3> TAKE t \in Sess
    <3>1. CASE t = s
      BY <2>2, <2>5, <3>1
    <3>2. CASE t # s
      BY <2>2, <3>2 DEF TunnelTypeOK
    <3> QED
      BY <3>1, <3>2
  <2>3. CASE UNCHANGED toLocal /\ inward' = [inward EXCEPT ![s] = "ended"]
    <3>1. TunnelTypeOK'
      BY <2>2, <2>3, <2>6 DEF TunnelTypeOK
    <3>2. \A t \in Sess : Len(toLocal[t]) <= taken'[t]
      BY <2>1, <2>2 DEF Passed
    <3>3. Passed'
      BY <2>1, <2>2, <2>3, <3>2 DEF Passed, TunnelTypeOK
    <3> QED
      BY <3>1, <3>3 DEF TInv
  <2>4. CASE /\ UNCHANGED inward
             /\ toLocal' = [toLocal EXCEPT ![s] = Append(@, frames[s][taken'[s]])]
    <3> DEFINE e == frames[s][taken[s] + 1]
    <3>1. e \in 1..MaxPkts
      BY <2>1, <2>5, SeqFacts
    <3>2. /\ \A t \in Sess : toLocal'[t] = IF t = s THEN Append(toLocal[s], e) ELSE toLocal[t]
          /\ toLocal' \in [Sess -> Seq(1..MaxPkts)]
      BY <2>1, <2>2, <2>4, <3>1 DEF TunnelTypeOK
    <3> HIDE DEF e
    <3>3. /\ Len(Append(toLocal[s], e)) = taken[s] + 1
          /\ \A i \in 1..taken[s] : Append(toLocal[s], e)[i] = toLocal[s][i]
          /\ Append(toLocal[s], e)[taken[s] + 1] = e
      BY <2>1
    <3>4. \A i \in 1..(taken[s] + 1) : i \in 1..taken[s] \/ i = taken[s] + 1
      BY <2>1
    <3>5. \A i \in 1..(taken[s] + 1) : Append(toLocal[s], e)[i] = frames[s][i]
      BY <2>1, <3>3, <3>4 DEF Passed, e
    <3>6. TunnelTypeOK'
      BY <2>2, <2>4, <2>6, <3>2 DEF TunnelTypeOK
    <3>7. Passed'
      <4> SUFFICES ASSUME NEW t \in Sess
                   PROVE  /\ handler[t] \in {"none", "dial", "asked"} => inward[t] = "none"
                          /\ inward[t] \in {"none", "run"} => Len(toLocal'[t]) = taken'[t]
                          /\ Len(toLocal'[t]) <= taken'[t]
                          /\ \A i \in 1..Len(toLocal'[t]) : toLocal'[t][i] = frames[t][i]
        BY <2>2, <2>4 DEF Passed
      <4>1. CASE t = s
        <5>1. toLocal'[t] = Append(toLocal[s], e) /\ taken'[t] = taken[s] + 1
          BY <2>2, <3>2, <4>1
        <5>2. Len(toLocal'[t]) = taken'[t] /\ taken'[t] <= taken'[t]
          BY <2>1, <3>3, <5>1
        <5>3. \A i \in 1..Len(toLocal'[t]) : toLocal'[t][i] = frames[t][i]
          BY <3>3, <3>5, <4>1, <5>1
        <5> QED
          BY <2>1, <4>1, <5>2, <5>3
      <4>2. CASE t # s
        BY <2>2, <3>2, <4>2 DEF Passed
      <4> QED
        BY <4>1, <4>2
    <3> QED
      BY <3>6, <3>7 DEF TInv
  <2> QED
    BY <1>6, <2>3, <2>4 DEF ToLocal
<1>7. CASE CleanUp
  BY <1>7 DEF CleanUp, TInv, TunnelTypeOK, Passed, vars, runVars
<1> QED
  BY <1>1, <1>2, <1>3, <1>4, <1>5, <1>6, <1>7
  DEF TunnelNext, Client, TunnelDelivered, tunnelVars

-----------------------------------------------------------------------------
(* The theorems.                                                           *)

THEOREM TunnelInductive == TunnelSpec => [](IInv /\ TInv)
<1>1. TunnelInit /\ [][TunnelNext]_tunnelVars /\ []IInv => []TInv
  BY InitTInv, TInvStep, PTL
<1> QED
  BY <1>1, ServerInvariant, PTL DEF TunnelSpec

\* The state of the client's half stays in its sets: it reads no frame that
\* was not written, its goroutines run only inside handleUDPWorkConn, and a
\* tracked work connection belongs to a handler that forwards.
THEOREM TunnelTypeInvariant == TunnelSpec => []TunnelTypeOK
<1>1. TInv => TunnelTypeOK
  BY DEF TInv
<1> QED
  BY <1>1, TunnelInductive, PTL

\* readTunnel, tunnelToLocal: the local service gets a prefix of what the
\* session wrote to its tunnel, and all that was read while the copy runs.
THEOREM LocalPrefixHolds == TunnelSpec => []LocalPrefix
<1>1. IInv /\ TInv => LocalPrefix
  <2> SUFFICES ASSUME IInv, TInv, NEW s \in Sess
               PROVE  /\ \A i \in DOMAIN toLocal[s] :
                           i \in DOMAIN frames[s] /\ toLocal[s][i] = frames[s][i]
                      /\ inward[s] = "run" => Len(toLocal[s]) = taken[s]
    BY DEF LocalPrefix
  <2>1. /\ toLocal[s] \in Seq(1..MaxPkts) /\ frames[s] \in Seq(1..MaxPkts)
        /\ taken[s] \in Nat /\ taken[s] <= Len(frames[s]) /\ Len(toLocal[s]) <= taken[s]
    BY DEF IInv, TypeOK, TInv, TunnelTypeOK, Passed
  <2> QED
    BY <2>1 DEF TInv, Passed
<1> QED
  BY <1>1, TunnelInductive, PTL
=============================================================================
