-------------------------- MODULE UdpSessionProofs --------------------------
(***************************************************************************)
(* Proofs about UdpSession, for any sources and sessions, any number of    *)
(* datagrams and any capacity of the queues.                               *)
(***************************************************************************)
EXTENDS UdpSession, FiniteSetTheorems, TLAPS

-----------------------------------------------------------------------------
(* The inductive invariant.                                                *)

Created == {s \in Sess : key[s] # None}
Started == {s \in Sess : run[s] # "none"}
Ended   == {s \in Sess : cl[s] = "closed"}

\* The session is in the table, or was.
Entered(s) == key[s] # None /\ ~(loop = "add" /\ hand = s)

\* What readUDP has in hand.
LoopHand ==
  /\ IF loop \in {"read", "lookup", "exited"}
     THEN hand = None
     ELSE hand \in Sess /\ key[hand] # None /\ received > 0
  /\ loop = "lookup" => received > 0 /\ origin[received] \in Sources
  /\ loop = "add" => sessions[key[hand]] = None

\* An entry of the table is under the source of its session, and is gone
\* before the session's close ends.
TableSound ==
  \A a \in Sources : sessions[a] # None =>
    key[sessions[a]] = a /\ cl[sessions[a]] \notin {"removed", "closed"}

\* Nobody closes a session before it is in the table, and its goroutine
\* starts right after.
Beginnings ==
  \A s \in Sess :
    /\ ~Entered(s) => cl[s] = "no"
    /\ run[s] = "none" <=> ~Entered(s) \/ (loop = "count" /\ hand = s)

\* Who may use the tunnel of a session, and when it is closed.
Tunnels ==
  \A s \in Sess :
    /\ attached[s] => run[s] \in {"write", "fail", "ended"}
    /\ reader[s] # "none" => attached[s]
    /\ tunnel[s] = "open" =>
         IF attached[s] THEN cl[s] \in {"no", "done"} ELSE run[s] = "attach"

\* The reaper and proxy.close hold sessions they found in the table.
ListsEntered ==
  /\ \A i \in DOMAIN stale : Entered(stale[i])
  /\ \A i \in DOMAIN pTodo : Entered(pTodo[i])

\* What is written, then what is still queued, rises.
Ordered(f, q) ==
  /\ \A i, j \in DOMAIN f : i < j => f[i] < f[j]
  /\ \A i, j \in DOMAIN q : i < j => q[i] < q[j]
  /\ \A i \in DOMAIN f, j \in DOMAIN q : f[i] < q[j]

In(q, d) == \E i \in DOMAIN q : q[i] = d

Carries(s, d) == In(frames[s], d) \/ In(queue[s], d)

\* A datagram is with one session, and the one in hand is with none yet.
Datagrams ==
  /\ \A s \in Sess : Ordered(frames[s], queue[s])
  /\ \A s \in Sess, d \in 1..MaxPkts : Carries(s, d) =>
       /\ IF loop \in {"read", "exited"} THEN d <= received ELSE d < received
       /\ \A t \in Sess : Carries(t, d) => s = t

\* A session has datagrams of its source only, and the one readUDP passes to
\* it is one of these.
Sourced ==
  /\ \A s \in Sess, d \in 1..MaxPkts :
       Carries(s, d) => key[s] # None /\ origin[d] = key[s]
  /\ loop \in {"add", "count", "touch", "enqueue"} => origin[received] = key[hand]

\* OpenConn and CloseConn so far.
Counted ==
  /\ IsFiniteSet(Created)
  /\ current = Cardinality(Started) - Cardinality(Ended)

IInv ==
  /\ TypeOK /\ LoopHand /\ TableSound /\ Findable /\ Beginnings /\ Tunnels
  /\ ListsEntered /\ Datagrams /\ Sourced /\ Counted

-----------------------------------------------------------------------------
LEMMA InitIInv == Init => IInv
<1> SUFFICES ASSUME Init PROVE IInv
  OBVIOUS
<1> USE UdpAssumption DEF Init
<1>1. TypeOK
  BY DEF TypeOK
<1>2. LoopHand /\ TableSound /\ Findable /\ Beginnings /\ Tunnels /\ ListsEntered
  BY DEF LoopHand, TableSound, Findable, Beginnings, Tunnels, ListsEntered, Entered, Done
<1>3. Datagrams /\ Sourced
  BY DEF Datagrams, Sourced, Ordered, Carries, In
<1>4. Counted
  <2>1. Created = {} /\ Started = {} /\ Ended = {}
    BY DEF Created, Started, Ended
  <2> QED
    BY <2>1, FS_EmptySet DEF Counted
<1> QED
  BY <1>1, <1>2, <1>3, <1>4 DEF IInv

\* The session the loop creates is new.
LEMMA FreshFacts ==
  ASSUME TypeOK, \E s \in Sess : key[s] = None
  PROVE  FreshSess \in Sess /\ key[FreshSess] = None
  BY DEF FreshSess

\* Sessions in the table were created; there are finitely many.
LEMMA LiveFacts ==
  ASSUME IInv
  PROVE  /\ Live \subseteq Created /\ IsFiniteSet(Live)
         /\ \A s \in Live : Entered(s) /\ cl[s] \notin {"removed", "closed"}
<1>1. ASSUME NEW s \in Live PROVE Entered(s) /\ cl[s] \notin {"removed", "closed"}
  <2>1. PICK a \in Sources : sessions[a] = s
    BY DEF Live
  <2>2. s # None /\ key[s] = a /\ cl[s] \notin {"removed", "closed"} /\ a # None
    BY <2>1, UdpAssumption DEF IInv, TableSound, Live
  <2> QED
    BY <2>1, <2>2 DEF IInv, LoopHand, Entered
<1>2. Live \subseteq Created
  BY <1>1 DEF Live, Created, Entered
<1> QED
  BY <1>1, <1>2, FS_Subset DEF IInv, Counted

LEMMA OrdersType ==
  ASSUME NEW S, IsFiniteSet(S), NEW q \in Orders(S)
  PROVE  q \in Seq(S)
<1>1. Cardinality(S) \in Nat /\ q \in [1..Cardinality(S) -> S]
  BY FS_CardinalityType DEF Orders
<1>2. q = [i \in 1..Cardinality(S) |-> q[i]]
  BY <1>1
<1>3. [i \in 1..Cardinality(S) |-> q[i]] \in Seq(S)
  BY <1>1
<1> QED
  BY <1>2, <1>3

-----------------------------------------------------------------------------
LEMMA TypeStep == IInv /\ [Next]_vars => TypeOK'
<1> SUFFICES ASSUME IInv, [Next]_vars PROVE TypeOK'
  OBVIOUS
<1> TypeOK /\ LoopHand
  BY DEF IInv
<1> USE UdpAssumption DEF TypeOK, loopVars, sessVars, runVars, endVars
<1>1. ASSUME NEW a \in Sources, Receive(a) PROVE TypeOK'
  BY <1>1 DEF Receive
<1>2. CASE Loop
  <2>6. CASE Lookup
    <3>1. received \in 1..MaxPkts /\ origin[received] \in Sources
      BY <2>6 DEF Lookup, LoopHand
    <3>2. /\ hand' \in Sess \cup {None}
          /\ loop' \in {"touch", "add", "read"}
          /\ key' \in [Sess -> Sources \cup {None}]
      BY <2>6, <3>1, FreshFacts DEF Lookup
    <3>3. UNCHANGED <<received, origin, sessions, queue, idle, runVars, cl, current, endVars>>
      BY <2>6 DEF Lookup
    <3> QED
      BY <3>2, <3>3
  <2>1. CASE AddSession
    <3>1. hand \in Sess /\ key[hand] \in Sources
      BY <2>1 DEF AddSession, LoopHand
    <3> QED
      BY <2>1, <3>1 DEF AddSession
  <2>2. CASE CountAndRun
    BY <2>2 DEF CountAndRun, LoopHand
  <2>3. CASE Touch
    BY <2>3 DEF Touch, LoopHand
  <2>4. CASE Enqueue
    <3>1. hand \in Sess /\ received \in 1..MaxPkts
      BY <2>4 DEF Enqueue, LoopHand
    <3>2. CASE UNCHANGED queue
      BY <2>4, <3>2 DEF Enqueue
    <3>3. CASE /\ Len(queue[hand]) < QueueCap
               /\ queue' = [queue EXCEPT ![hand] = Append(@, received)]
      <4>1. /\ Append(queue[hand], received) \in Seq(1..MaxPkts)
            /\ Len(Append(queue[hand], received)) <= QueueCap
        BY <3>1, <3>3
      <4>2. /\ queue' \in [Sess -> Seq(1..MaxPkts)]
            /\ \A s \in Sess : Len(queue'[s]) <= QueueCap
        BY <3>1, <3>3, <4>1
      <4> QED
        BY <2>4, <4>2 DEF Enqueue
    <3> QED
      BY <2>4, <3>2, <3>3 DEF Enqueue
  <2>5. CASE LoopExits
    BY <2>5 DEF LoopExits
  <2> QED
    BY <1>2, <2>1, <2>2, <2>3, <2>4, <2>5, <2>6 DEF Loop
<1>3. ASSUME NEW s \in Sess, Runner(s) PROVE TypeOK'
  <2>1. CASE Notify(s) \/ DialFails(s) \/ WriterSeesDone(s) \/ RunEnds(s)
    BY <2>1 DEF Notify, DialFails, WriterSeesDone, RunEnds
  <2>2. CASE Attach(s)
    BY <2>2 DEF Attach
  <2>3. CASE WriteFrame(s)
    <3>1. /\ Tail(queue[s]) \in Seq(1..MaxPkts) /\ Len(Tail(queue[s])) <= QueueCap
          /\ Head(queue[s]) \in 1..MaxPkts
      BY <2>3 DEF WriteFrame
    <3>2. /\ queue' \in [Sess -> Seq(1..MaxPkts)]
          /\ \A t \in Sess : Len(queue'[t]) <= QueueCap
      BY <2>3, <3>1 DEF WriteFrame
    <3>3. frames' \in [Sess -> Seq(1..MaxPkts)]
      <4>1. Append(frames[s], Head(queue[s])) \in Seq(1..MaxPkts)
        BY <3>1
      <4> QED
        BY <2>3, <4>1 DEF WriteFrame
    <3> QED
      BY <2>3, <3>2, <3>3 DEF WriteFrame
  <2> QED
    BY <1>3, <2>1, <2>2, <2>3 DEF Runner
<1>4. ASSUME NEW s \in Sess,
             TunnelArrives(s) \/ ReadFrame(s) \/ ReadTunnelFails(s) \/ ReaderEnds(s)
      PROVE  TypeOK'
  BY <1>4 DEF TunnelArrives, ReadFrame, ReadTunnelFails, ReaderEnds
<1>5. ASSUME NEW s \in Sess, Closing(s) PROVE TypeOK'
  <2>1. CASE OwnGoroutineCloses(s)
    BY <2>1 DEF OwnGoroutineCloses, MarkDone
  <2>2. CASE CloseTunnel(s)
    BY <2>2 DEF CloseTunnel
  <2>3. CASE RemoveSession(s)
    BY <2>3 DEF RemoveSession
  <2>4. CASE CountClosed(s)
    BY <2>4 DEF CountClosed
  <2> QED
    BY <1>5, <2>1, <2>2, <2>3, <2>4 DEF Closing
<1>6. ASSUME NEW s \in Sess, BecomeIdle(s) \/ Reap(s) PROVE TypeOK'
  BY <1>6 DEF BecomeIdle, Reap, MarkDone
<1>7. CASE Scan
  <2> DEFINE S == {s \in Live : idle[s]}
  <2>1. IsFiniteSet(S) /\ S \subseteq Sess
    BY LiveFacts, FS_Subset DEF Live
  <2>2. PICK q \in Orders(S) : stale' = q
    BY <1>7 DEF Scan
  <2>3. q \in Seq(S)
    BY <2>1, OrdersType
  <2>4. stale' \in Seq(Sess)
    BY <2>1, <2>2, <2>3
  <2> QED
    BY <1>7, <2>4 DEF Scan
<1>8. CASE ReapNext
  BY <1>8 DEF ReapNext
<1>9. CASE OwnerLeaves \/ CloseDone \/ CloseSocket
  BY <1>9 DEF OwnerLeaves, CloseDone, CloseSocket
<1>10. CASE SnapshotSessions
  <2>1. pTodo' \in Seq(Live) /\ Live \subseteq Sess
    BY <1>10, LiveFacts, OrdersType DEF SnapshotSessions, Live
  <2>2. pTodo' \in Seq(Sess)
    BY <2>1
  <2> QED
    BY <1>10, <2>2 DEF SnapshotSessions
<1>11. CASE ProxyCloses
  <2>1. CASE pTodo # <<>> /\ MarkDone(Head(pTodo)) /\ UNCHANGED <<proxy, pTodo>>
    BY <1>11, <2>1 DEF ProxyCloses, MarkDone
  <2>2. CASE pTodo # <<>> /\ pTodo' = Tail(pTodo) /\ UNCHANGED <<proxy, cl>>
    BY <1>11, <2>2 DEF ProxyCloses
  <2>3. CASE pTodo = <<>> /\ proxy' = "closed" /\ UNCHANGED <<pTodo, cl>>
    BY <1>11, <2>3 DEF ProxyCloses
  <2> QED
    BY <1>11, <2>1, <2>2, <2>3 DEF ProxyCloses
<1>12. CASE UNCHANGED vars
  BY <1>12 DEF vars
<1> QED
  BY <1>1, <1>2, <1>3, <1>4, <1>5, <1>6, <1>7, <1>8, <1>9, <1>10, <1>11, <1>12
  DEF Next, ServerNext, ProxyClose

-----------------------------------------------------------------------------
(* The table, the close of a session and its tunnel.                       *)

Table == LoopHand /\ TableSound /\ Findable /\ Beginnings /\ ListsEntered

\* Steps that change neither the table nor what the loop has in hand.
LEMMA TableFrame ==
  ASSUME TypeOK, Table,
         UNCHANGED <<loop, hand, received, origin, sessions, key, stale, pTodo>>,
         \A s \in Sess : cl'[s] = cl[s] \/ (Entered(s) /\ cl[s] = "no" /\ cl'[s] = "done")
                                        \/ (cl[s] = "done" /\ cl'[s] = "detached")
                                        \/ (cl[s] = "removed" /\ cl'[s] = "closed"),
         \A s \in Sess : run'[s] = "none" <=> run[s] = "none"
  PROVE  Table'
<1> USE DEF Table
<1>1. \A s \in Sess : Entered(s)' = Entered(s)
  BY DEF Entered
<1>2. LoopHand' /\ ListsEntered'
  BY DEF LoopHand, ListsEntered, Entered
<1>3. TableSound'
  <2> SUFFICES ASSUME NEW a \in Sources, sessions[a] # None
               PROVE  key[sessions[a]] = a /\ cl'[sessions[a]] \notin {"removed", "closed"}
    BY DEF TableSound
  <2>1. sessions[a] \in Sess /\ key[sessions[a]] = a
        /\ cl[sessions[a]] \notin {"removed", "closed"}
    BY DEF TypeOK, TableSound
  <2> QED
    BY <2>1
<1>4. Findable'
  BY DEF Findable, Done
<1>5. Beginnings'
  BY <1>1 DEF Beginnings
<1> QED
  BY <1>2, <1>3, <1>4, <1>5

LEMMA TableStep == IInv /\ [Next]_vars => Table'
<1> SUFFICES ASSUME IInv, [Next]_vars PROVE Table'
  OBVIOUS
<1> TypeOK /\ Table
  BY DEF IInv, Table
<1> USE UdpAssumption DEF TypeOK, loopVars, sessVars, runVars, endVars
<1>1. ASSUME NEW a \in Sources, Receive(a) PROVE Table'
  <2>1. /\ received' \in 1..MaxPkts /\ origin'[received'] = a
        /\ loop = "read" /\ loop' = "lookup"
        /\ UNCHANGED <<hand, sessions, key, run, cl, stale, pTodo>>
    BY <1>1 DEF Receive
  <2> QED
    BY <2>1
    DEF Table, LoopHand, TableSound, Findable, Beginnings, ListsEntered, Entered, Done
<1>13. CASE Lookup
  <2> DEFINE a == origin[received]
             n == FreshSess
  <2>1. /\ a \in Sources /\ received > 0 /\ loop = "lookup"
        /\ UNCHANGED <<received, origin, sessions, run, cl, stale, pTodo>>
    BY <1>13 DEF Lookup, Table, LoopHand
  <2>2. CASE sessions[a] # None /\ hand' = sessions[a] /\ loop' = "touch" /\ UNCHANGED key
    BY <2>1, <2>2
    DEF Table, LoopHand, TableSound, Findable, Beginnings, ListsEntered, Entered, Done
  <2>3. CASE /\ sessions[a] = None /\ \E s \in Sess : key[s] = None
             /\ hand' = n /\ loop' = "add" /\ key' = [key EXCEPT ![n] = a]
    <3>1. /\ n \in Sess /\ key[n] = None
          /\ \A s \in Sess : key'[s] = IF s = n THEN a ELSE key[s]
      BY <2>3, FreshFacts
    <3> HIDE DEF n, a
    <3>2. \A s \in Sess : Entered(s)' <=> Entered(s)
      BY <2>1, <2>3, <3>1 DEF Entered
    <3>3. LoopHand'
      BY <2>1, <2>3, <3>1 DEF LoopHand
    <3>4. TableSound'
      BY <2>1, <3>1 DEF TableSound, Table
    <3>5. Findable'
      BY <2>1, <2>3, <3>1 DEF Findable, Table, Done
    <3>6. Beginnings'
      BY <2>1, <2>3, <3>2 DEF Beginnings, Table
    <3>7. ListsEntered'
      BY <2>1, <3>2 DEF ListsEntered, Table
    <3> QED
      BY <3>3, <3>4, <3>5, <3>6, <3>7 DEF Table
  <2>4. CASE loop' = "read" /\ UNCHANGED <<hand, key>>
    BY <2>1, <2>4
    DEF Table, LoopHand, TableSound, Findable, Beginnings, ListsEntered, Entered, Done
  <2> QED
    BY <1>13, <2>2, <2>3, <2>4 DEF Lookup
<1>2. CASE AddSession
  <2> DEFINE k == key[hand]
  <2>1. /\ hand \in Sess /\ k \in Sources /\ sessions[k] = None
        /\ loop = "add" /\ loop' = "count" /\ hand' = hand /\ received > 0
        /\ \A a \in Sources : sessions'[a] = IF a = k THEN hand ELSE sessions[a]
        /\ UNCHANGED <<received, origin, key, run, cl, stale, pTodo>>
    BY <1>2 DEF AddSession, LoopHand, Table
  <2>2. /\ \A s \in Sess : Entered(s)' <=> Entered(s) \/ s = hand
        /\ ~Entered(hand)
    BY <2>1 DEF Entered
  <2> HIDE DEF k
  <2>3. LoopHand'
    BY <2>1 DEF LoopHand, k
  <2>4. TableSound'
    <3>1. cl[hand] = "no" /\ key[hand] = k
      BY <2>1, <2>2 DEF Table, Beginnings, k
    <3> SUFFICES ASSUME NEW a \in Sources, sessions'[a] # None
                 PROVE  key[sessions'[a]] = a /\ cl[sessions'[a]] \notin {"removed", "closed"}
      BY <2>1 DEF TableSound
    <3>2. CASE a = k
      BY <2>1, <3>1, <3>2
    <3>3. CASE a # k
      <4>1. sessions'[a] = sessions[a]
        BY <2>1, <3>3
      <4> QED
        BY <4>1 DEF Table, TableSound
    <3> QED
      BY <3>2, <3>3
  <2>5. Findable'
    <3> SUFFICES ASSUME NEW s \in Sess, key[s] # None, cl[s] = "no"
                 PROVE  sessions'[key[s]] = s
      BY <2>1 DEF Findable, Done
    <3>1. CASE s = hand
      BY <2>1, <3>1 DEF k
    <3>2. CASE s # hand
      <4>1. sessions[key[s]] = s /\ key[s] \in Sources
        BY <3>2 DEF Table, Findable, Done
      <4> QED
        BY <2>1, <4>1, <3>2
    <3> QED
      BY <3>1, <3>2
  <2>6. Beginnings'
    BY <2>1, <2>2 DEF Beginnings, Table
  <2>7. ListsEntered'
    BY <2>1, <2>2 DEF ListsEntered, Table
  <2> QED
    BY <2>3, <2>4, <2>5, <2>6, <2>7 DEF Table
<1>3. CASE CountAndRun \/ Touch \/ Enqueue \/ LoopExits
  <2> USE DEF Table, LoopHand, TableSound, Findable, Beginnings, ListsEntered, Entered, Done
  <2>1. CASE CountAndRun
    BY <2>1 DEF CountAndRun
  <2>2. CASE Touch
    BY <2>2 DEF Touch
  <2>3. CASE Enqueue
    BY <2>3 DEF Enqueue
  <2>4. CASE LoopExits
    BY <2>4 DEF LoopExits
  <2> QED
    BY <1>3, <2>1, <2>2, <2>3, <2>4
<1>4. ASSUME NEW s \in Sess, Runner(s) PROVE Table'
  BY <1>4, TableFrame
  DEF Runner, Notify, DialFails, Attach, WriteFrame, WriterSeesDone, RunEnds
<1>5. ASSUME NEW s \in Sess,
             TunnelArrives(s) \/ ReadFrame(s) \/ ReadTunnelFails(s) \/ ReaderEnds(s)
                              \/ BecomeIdle(s)
      PROVE  Table'
  BY <1>5, TableFrame DEF TunnelArrives, ReadFrame, ReadTunnelFails, ReaderEnds, BecomeIdle
<1>6. ASSUME NEW s \in Sess, Closing(s) PROVE Table'
  <2>1. CASE OwnGoroutineCloses(s)
    <3>1. Entered(s)
      BY <2>1 DEF OwnGoroutineCloses, IInv, Beginnings, Tunnels
    <3> QED
      BY <2>1, <3>1, TableFrame DEF OwnGoroutineCloses, MarkDone
  <2>2. CASE CloseTunnel(s) \/ CountClosed(s)
    BY <2>2, TableFrame DEF CloseTunnel, CountClosed
  <2>3. CASE RemoveSession(s)
    <3>1. /\ cl[s] = "detached" /\ \A t \in Sess : cl'[t] = IF t = s THEN "removed" ELSE cl[t]
          /\ \A a \in Sources : sessions'[a] = IF sessions[a] = s THEN None ELSE sessions[a]
          /\ UNCHANGED <<loop, hand, received, origin, key, run, stale, pTodo>>
      BY <2>3 DEF RemoveSession
    <3>2. LoopHand' /\ ListsEntered'
      BY <3>1 DEF Table, LoopHand, ListsEntered, Entered
    <3>3. TableSound'
      <4> SUFFICES ASSUME NEW a \in Sources, sessions'[a] # None
                   PROVE  key[sessions'[a]] = a /\ cl'[sessions'[a]] \notin {"removed", "closed"}
        BY <3>1 DEF TableSound
      <4>1. sessions'[a] = sessions[a] /\ sessions[a] \in Sess /\ sessions[a] # s
        BY <3>1
      <4> QED
        BY <3>1, <4>1 DEF Table, TableSound
    <3>4. Findable'
      <4> SUFFICES ASSUME NEW t \in Sess, key[t] # None, cl'[t] = "no",
                          ~(loop = "add" /\ hand = t)
                   PROVE  sessions'[key[t]] = t
        BY <3>1 DEF Findable, Done
      <4>1. t # s /\ sessions[key[t]] = t /\ key[t] \in Sources
        BY <3>1 DEF Table, Findable, Done
      <4> QED
        BY <3>1, <4>1
    <3>5. Beginnings'
      BY <3>1 DEF Table, Beginnings, Entered
    <3> QED
      BY <3>2, <3>3, <3>4, <3>5 DEF Table
  <2> QED
    BY <1>6, <2>1, <2>2, <2>3 DEF Closing
<1>7. CASE Scan
  <2>1. stale' \in Seq(Live)
    <3> DEFINE S == {s \in Live : idle[s]}
    <3>1. IsFiniteSet(S) /\ S \subseteq Live
      BY LiveFacts, FS_Subset
    <3>2. stale' \in Seq(S)
      BY <1>7, <3>1, OrdersType DEF Scan
    <3> QED
      BY <3>1, <3>2
  <2>2. \A i \in DOMAIN stale' : Entered(stale'[i])
    BY <2>1, LiveFacts
  <2>3. UNCHANGED <<loop, hand, received, origin, sessions, key, run, cl, pTodo>>
    BY <1>7 DEF Scan
  <2> QED
    BY <2>2, <2>3
    DEF Table, LoopHand, TableSound, Findable, Beginnings, ListsEntered, Entered, Done
<1>8. CASE SnapshotSessions
  <2>1. pTodo' \in Seq(Live)
    BY <1>8, LiveFacts, OrdersType DEF SnapshotSessions
  <2>2. \A i \in DOMAIN pTodo' : Entered(pTodo'[i])
    BY <2>1, LiveFacts
  <2>3. UNCHANGED <<loop, hand, received, origin, sessions, key, run, cl, stale>>
    BY <1>8 DEF SnapshotSessions
  <2> QED
    BY <2>2, <2>3
    DEF Table, LoopHand, TableSound, Findable, Beginnings, ListsEntered, Entered, Done
<1>9. CASE (\E s \in Sess : Reap(s)) \/ ReapNext
  <2>1. stale # <<>> /\ Entered(Head(stale)) /\ Head(stale) \in Sess
    BY <1>9 DEF Reap, ReapNext, Table, ListsEntered
  <2>2. ASSUME NEW s \in Sess, Reap(s) PROVE Table'
    BY <2>1, <2>2, TableFrame DEF Reap, MarkDone
  <2>3. CASE ReapNext
    <3>1. /\ stale' = Tail(stale)
          /\ UNCHANGED <<loop, hand, received, origin, sessions, key, run, cl, pTodo>>
      BY <2>3 DEF ReapNext
    <3>2. \A i \in DOMAIN stale' : i + 1 \in DOMAIN stale /\ stale'[i] = stale[i + 1]
      BY <2>1, <3>1
    <3> QED
      BY <3>1, <3>2
      DEF Table, LoopHand, TableSound, Findable, Beginnings, ListsEntered, Entered, Done
  <2> QED
    BY <1>9, <2>2, <2>3
<1>10. CASE OwnerLeaves \/ CloseDone \/ CloseSocket
  BY <1>10, TableFrame DEF OwnerLeaves, CloseDone, CloseSocket
<1>11. CASE ProxyCloses
  <2>1. CASE pTodo # <<>> /\ MarkDone(Head(pTodo)) /\ UNCHANGED <<proxy, pTodo>>
    <3>1. Entered(Head(pTodo)) /\ Head(pTodo) \in Sess
      BY <2>1 DEF Table, ListsEntered
    <3> QED
      BY <1>11, <2>1, <3>1, TableFrame DEF ProxyCloses, MarkDone
  <2>2. CASE pTodo # <<>> /\ pTodo' = Tail(pTodo) /\ UNCHANGED <<proxy, cl>>
    <3>1. \A i \in DOMAIN pTodo' : i + 1 \in DOMAIN pTodo /\ pTodo'[i] = pTodo[i + 1]
      BY <2>2
    <3> QED
      BY <1>11, <2>2, <3>1
      DEF ProxyCloses, Table, LoopHand, TableSound, Findable, Beginnings, ListsEntered,
          Entered, Done
  <2>3. CASE pTodo = <<>> /\ proxy' = "closed" /\ UNCHANGED <<pTodo, cl>>
    BY <1>11, <2>3, TableFrame DEF ProxyCloses
  <2> QED
    BY <1>11, <2>1, <2>2, <2>3 DEF ProxyCloses
<1>12. CASE UNCHANGED vars
  BY <1>12, TableFrame DEF vars
<1> QED
  BY <1>1, <1>2, <1>3, <1>4, <1>5, <1>6, <1>7, <1>8, <1>9, <1>10, <1>11, <1>12, <1>13
  DEF Next, ServerNext, Loop, ProxyClose

LEMMA TunnelStep == IInv /\ [Next]_vars => Tunnels'
<1> SUFFICES ASSUME IInv, [Next]_vars PROVE Tunnels'
  OBVIOUS
<1> TypeOK /\ Tunnels
  BY DEF IInv
<1> USE DEF TypeOK, Tunnels, loopVars, sessVars, runVars, endVars
<1>0. ASSUME UNCHANGED <<run, tunnel, attached, reader, cl>> PROVE Tunnels'
  BY <1>0
<1>1. ASSUME NEW s \in Sess, MarkDone(s), UNCHANGED <<run, tunnel, attached, reader>>
      PROVE  Tunnels'
  BY <1>1 DEF MarkDone
<1>2. CASE CountAndRun
  <2>1. hand \in Sess /\ run[hand] = "none"
    BY <1>2 DEF CountAndRun, IInv, LoopHand, Beginnings
  <2>2. /\ \A s \in Sess : run'[s] = IF s = hand THEN "notify" ELSE run[s]
        /\ UNCHANGED <<tunnel, attached, reader, cl>>
    BY <1>2, <2>1 DEF CountAndRun
  <2> QED
    BY <2>1, <2>2
<1>3. CASE \/ \E a \in Sources : Receive(a)
           \/ Lookup \/ AddSession \/ Touch \/ Enqueue \/ LoopExits
  BY <1>0, <1>3 DEF Receive, Lookup, AddSession, Touch, Enqueue, LoopExits
<1>4. ASSUME NEW s \in Sess, Runner(s) \/ TunnelArrives(s) PROVE Tunnels'
  <2>1. CASE Notify(s)
    BY <2>1 DEF Notify
  <2>2. CASE DialFails(s)
    BY <2>2 DEF DialFails
  <2>6. CASE TunnelArrives(s)
    BY <2>6 DEF TunnelArrives
  <2>3. CASE Attach(s)
    BY <2>3 DEF Attach, Done
  <2>4. CASE WriteFrame(s)
    BY <2>4 DEF WriteFrame
  <2>5. CASE WriterSeesDone(s)
    BY <2>5 DEF WriterSeesDone
  <2>7. CASE RunEnds(s)
    BY <2>7 DEF RunEnds
  <2> QED
    BY <1>4, <2>1, <2>2, <2>3, <2>4, <2>5, <2>6, <2>7 DEF Runner
<1>5. ASSUME NEW s \in Sess, ReadFrame(s) \/ ReadTunnelFails(s) \/ ReaderEnds(s) PROVE Tunnels'
  BY <1>5 DEF ReadFrame, ReadTunnelFails, ReaderEnds
<1>6. ASSUME NEW s \in Sess, Closing(s) PROVE Tunnels'
  <2>1. CASE OwnGoroutineCloses(s)
    BY <2>1, <1>1 DEF OwnGoroutineCloses
  <2>2. CASE CloseTunnel(s)
    BY <2>2 DEF CloseTunnel
  <2>3. CASE RemoveSession(s)
    BY <2>3 DEF RemoveSession
  <2>4. CASE CountClosed(s)
    BY <2>4 DEF CountClosed
  <2> QED
    BY <1>6, <2>1, <2>2, <2>3, <2>4 DEF Closing
<1>7. CASE (\E s \in Sess : BecomeIdle(s) \/ Reap(s)) \/ Scan \/ ReapNext
  BY <1>0, <1>1, <1>7 DEF BecomeIdle, Reap, Scan, ReapNext
<1>8. CASE OwnerLeaves \/ CloseDone \/ CloseSocket \/ SnapshotSessions
  BY <1>0, <1>8 DEF OwnerLeaves, CloseDone, CloseSocket, SnapshotSessions
<1>9. CASE ProxyCloses
  <2>1. pTodo # <<>> => Head(pTodo) \in Sess
    OBVIOUS
  <2> QED
    BY <1>0, <1>1, <1>9, <2>1 DEF ProxyCloses
<1>10. CASE UNCHANGED vars
  BY <1>0, <1>10 DEF vars
<1> QED
  BY <1>2, <1>3, <1>4, <1>5, <1>6, <1>7, <1>8, <1>9, <1>10
  DEF Next, ServerNext, Loop, ProxyClose

-----------------------------------------------------------------------------
(* The datagrams.                                                          *)

\* How far the numbers of the datagrams with some session may go.
Within(d) == IF loop \in {"read", "exited"} THEN d <= received ELSE d < received

LEMMA SeqFacts ==
  ASSUME NEW S, NEW q \in Seq(S)
  PROVE  DOMAIN q = 1..Len(q) /\ Len(q) \in Nat /\ \A i \in 1..Len(q) : q[i] \in S
  OBVIOUS

LEMMA SeqWider ==
  ASSUME NEW S, NEW T, S \subseteq T, NEW q \in Seq(S)
  PROVE  q \in Seq(T)
  OBVIOUS

LEMMA AppendFacts ==
  ASSUME NEW S, NEW q \in Seq(S), NEW e
  PROVE  /\ DOMAIN Append(q, e) = 1..(Len(q) + 1)
         /\ \A i \in 1..Len(q) : Append(q, e)[i] = q[i]
         /\ Append(q, e)[Len(q) + 1] = e
  OBVIOUS

LEMMA TailFacts ==
  ASSUME NEW S, NEW q \in Seq(S), q # <<>>
  PROVE  /\ DOMAIN Tail(q) = 1..(Len(q) - 1)
         /\ \A i \in 1..(Len(q) - 1) : i + 1 \in 1..Len(q) /\ Tail(q)[i] = q[i + 1]
         /\ 1 \in 1..Len(q) /\ Head(q) = q[1]
  OBVIOUS

LEMMA InAppend ==
  ASSUME NEW q \in Seq(Int), NEW e, NEW d
  PROVE  In(Append(q, e), d) <=> In(q, d) \/ d = e
<1> DEFINE n == Len(q)
<1>1. n \in Nat /\ DOMAIN q = 1..n
  BY SeqFacts
<1>2. /\ DOMAIN Append(q, e) = 1..(n + 1)
      /\ \A i \in 1..n : Append(q, e)[i] = q[i]
      /\ Append(q, e)[n + 1] = e
  BY AppendFacts
<1> HIDE DEF n
<1>3. 1..(n + 1) = 1..n \cup {n + 1}
  BY <1>1
<1> QED
  BY <1>1, <1>2, <1>3 DEF In

LEMMA InTail ==
  ASSUME NEW q \in Seq(Int), q # <<>>, NEW d
  PROVE  In(q, Head(q)) /\ (In(Tail(q), d) => In(q, d))
<1>1. DOMAIN q = 1..Len(q)
  BY SeqFacts
<1>2. /\ DOMAIN Tail(q) = 1..(Len(q) - 1)
      /\ \A i \in 1..(Len(q) - 1) : i + 1 \in 1..Len(q) /\ Tail(q)[i] = q[i + 1]
      /\ 1 \in 1..Len(q) /\ Head(q) = q[1]
  BY TailFacts
<1> QED
  BY <1>1, <1>2 DEF In

\* A number above all others keeps the order at the end of the queue, ...
LEMMA OrderedAppend ==
  ASSUME NEW f \in Seq(Int), NEW q \in Seq(Int), NEW e \in Int, Ordered(f, q),
         \A i \in DOMAIN f : f[i] < e, \A i \in DOMAIN q : q[i] < e
  PROVE  Ordered(f, Append(q, e))
<1> DEFINE n == Len(q)
           r == Append(q, e)
<1>1. n \in Nat /\ DOMAIN q = 1..n
  BY SeqFacts
<1>2. DOMAIN r = 1..(n + 1) /\ (\A i \in 1..n : r[i] = q[i]) /\ r[n + 1] = e
  BY AppendFacts
<1> HIDE DEF n, r
<1>3. ASSUME NEW i \in 1..(n + 1), NEW j \in 1..(n + 1), i < j PROVE r[i] < r[j]
  <2>1. i \in 1..n /\ (j \in 1..n \/ j = n + 1)
    BY <1>1, <1>3
  <2> QED
    BY <1>1, <1>2, <1>3, <2>1 DEF Ordered
<1>4. ASSUME NEW i \in DOMAIN f, NEW j \in 1..(n + 1) PROVE f[i] < r[j]
  <2>1. j \in 1..n \/ j = n + 1
    BY <1>1
  <2> QED
    BY <1>1, <1>2, <2>1 DEF Ordered
<1>5. Ordered(f, r)
  BY <1>2, <1>3, <1>4 DEF Ordered
<1> QED
  BY <1>5 DEF r

\* ... and so do the loss of the queue's head and its move to the end of
\* what is written.
LEMMA OrderedTail ==
  ASSUME NEW f \in Seq(Int), NEW q \in Seq(Int), q # <<>>, Ordered(f, q)
  PROVE  Ordered(f, Tail(q))
<1> DEFINE n == Len(q)
           r == Tail(q)
<1>1. n \in Nat /\ DOMAIN q = 1..n
  BY SeqFacts
<1>2. DOMAIN r = 1..(n - 1) /\ \A i \in 1..(n - 1) : i + 1 \in 1..n /\ r[i] = q[i + 1]
  BY TailFacts
<1> HIDE DEF n, r
<1>3. ASSUME NEW i \in 1..(n - 1), NEW j \in 1..(n - 1), i < j PROVE r[i] < r[j]
  <2>1. i + 1 \in 1..n /\ j + 1 \in 1..n /\ i + 1 < j + 1
    BY <1>1, <1>3
  <2> QED
    BY <1>1, <1>2, <2>1 DEF Ordered
<1>4. ASSUME NEW i \in DOMAIN f, NEW j \in 1..(n - 1) PROVE f[i] < r[j]
  BY <1>1, <1>2 DEF Ordered
<1>5. Ordered(f, r)
  BY <1>2, <1>3, <1>4 DEF Ordered
<1> QED
  BY <1>5 DEF r

LEMMA OrderedMove ==
  ASSUME NEW f \in Seq(Int), NEW q \in Seq(Int), q # <<>>, Ordered(f, q)
  PROVE  Ordered(Append(f, Head(q)), Tail(q))
<1> DEFINE n == Len(q)
           m == Len(f)
           r == Tail(q)
           g == Append(f, Head(q))
<1>1. n \in Nat /\ DOMAIN q = 1..n /\ m \in Nat /\ DOMAIN f = 1..m
  BY SeqFacts
<1>2. /\ DOMAIN r = 1..(n - 1) /\ \A i \in 1..(n - 1) : i + 1 \in 1..n /\ r[i] = q[i + 1]
      /\ 1 \in 1..n /\ Head(q) = q[1]
  BY TailFacts
<1>3. DOMAIN g = 1..(m + 1) /\ (\A i \in 1..m : g[i] = f[i]) /\ g[m + 1] = q[1]
  BY <1>2, AppendFacts
<1>6. Ordered(f, r)
  BY OrderedTail
<1> HIDE DEF n, m, r, g
<1>4. ASSUME NEW i \in 1..(m + 1), NEW j \in 1..(m + 1), i < j PROVE g[i] < g[j]
  <2>1. i \in 1..m /\ (j \in 1..m \/ j = m + 1)
    BY <1>1, <1>4
  <2>2. CASE j \in 1..m
    BY <1>1, <1>3, <1>4, <2>1, <2>2 DEF Ordered
  <2>3. CASE j = m + 1
    BY <1>1, <1>2, <1>3, <2>1, <2>3 DEF Ordered
  <2> QED
    BY <2>1, <2>2, <2>3
<1>5. ASSUME NEW i \in 1..(m + 1), NEW j \in 1..(n - 1) PROVE g[i] < r[j]
  <2>1. i \in 1..m \/ i = m + 1
    BY <1>1
  <2>2. j + 1 \in 1..n /\ 1 < j + 1 /\ r[j] = q[j + 1]
    BY <1>1, <1>2
  <2> QED
    BY <1>1, <1>2, <1>3, <2>1, <2>2 DEF Ordered
<1>7. Ordered(g, r)
  BY <1>2, <1>3, <1>4, <1>5, <1>6 DEF Ordered
<1> QED
  BY <1>7 DEF g, r

\* A step that leaves the datagrams where they are.
LEMMA DatagramFrame ==
  ASSUME Datagrams, UNCHANGED <<queue, frames>>,
         \A d \in 1..MaxPkts : Within(d) => Within(d)'
  PROVE  Datagrams'
  BY DEF Datagrams, Carries, Within

LEMMA QueueTypes ==
  ASSUME TypeOK, NEW s \in Sess
  PROVE  /\ queue[s] \in Seq(Int) /\ frames[s] \in Seq(Int)
         /\ \A d : Carries(s, d) => d \in 1..MaxPkts
<1> DEFINE D == 1..MaxPkts
<1>1. queue[s] \in Seq(D) /\ frames[s] \in Seq(D) /\ D \subseteq Int
  BY DEF TypeOK
<1> HIDE DEF D
<1>2. \A d : Carries(s, d) => d \in D
  BY <1>1, SeqFacts DEF Carries, In
<1>3. queue[s] \in Seq(Int) /\ frames[s] \in Seq(Int)
  BY <1>1, SeqWider
<1> QED
  BY <1>2, <1>3 DEF D

\* enqueue gives the datagram in hand to its session and nothing else.
LEMMA EnqueueCarries ==
  ASSUME IInv, loop = "enqueue", UNCHANGED frames,
         queue' = [queue EXCEPT ![hand] = Append(@, received)]
  PROVE  /\ hand \in Sess /\ received \in 1..MaxPkts
         /\ \A s \in Sess : queue'[s] = IF s = hand THEN Append(queue[hand], received)
                                                    ELSE queue[s]
         /\ \A s \in Sess, d \in 1..MaxPkts :
              Carries(s, d)' <=> Carries(s, d) \/ (s = hand /\ d = received)
<1>1. hand \in Sess /\ received \in 1..MaxPkts
  BY UdpAssumption DEF IInv, LoopHand, TypeOK
<1>2. \A s \in Sess : queue'[s] = IF s = hand THEN Append(queue[hand], received) ELSE queue[s]
  BY <1>1 DEF IInv, TypeOK
<1>3. \A s \in Sess, d \in 1..MaxPkts :
        Carries(s, d)' <=> Carries(s, d) \/ (s = hand /\ d = received)
  BY <1>2, QueueTypes, InAppend DEF Carries, IInv
<1> QED
  BY <1>1, <1>2, <1>3

\* The datagram in hand is newer than everything any session has.
LEMMA EnqueueOrdered ==
  ASSUME IInv, loop = "enqueue", loop' = "read", received' = received,
         queue' = [queue EXCEPT ![hand] = Append(@, received)], UNCHANGED frames
  PROVE  Datagrams'
<1>1. hand \in Sess /\ received \in 1..MaxPkts
  BY EnqueueCarries
<1>2. \A s \in Sess : queue'[s] = IF s = hand THEN Append(queue[hand], received) ELSE queue[s]
  BY EnqueueCarries
<1>3. /\ \A s \in Sess : Ordered(frames[s], queue[s])
      /\ \A s \in Sess, d \in 1..MaxPkts : Carries(s, d) =>
           d < received /\ \A t \in Sess : Carries(t, d) => s = t
  BY DEF IInv, Datagrams
<1>4. \A s \in Sess, d \in 1..MaxPkts :
        Carries(s, d)' <=> Carries(s, d) \/ (s = hand /\ d = received)
  BY EnqueueCarries
<1>5. ASSUME NEW s \in Sess PROVE Ordered(frames[s], queue[s])'
  <2>1. CASE s # hand
    BY <1>2, <1>3, <2>1
  <2>2. CASE s = hand
    <3>1. queue[s] \in Seq(Int) /\ frames[s] \in Seq(Int)
      BY QueueTypes DEF IInv
    <3>2. /\ \A i \in DOMAIN frames[s] : frames[s][i] < received
          /\ \A i \in DOMAIN queue[s] : queue[s][i] < received
      BY <1>3, QueueTypes DEF Carries, In, IInv
    <3>3. Ordered(frames[s], queue[s]) /\ received \in Int
      BY <1>1, <1>3
    <3>4. Ordered(frames[s], Append(queue[s], received))
      BY <3>1, <3>2, <3>3, OrderedAppend
    <3> QED
      BY <1>2, <2>2, <3>4
  <2> QED
    BY <2>1, <2>2
<1>6. ASSUME NEW s \in Sess, NEW d \in 1..MaxPkts, Carries(s, d)'
      PROVE  d <= received /\ \A t \in Sess : Carries(t, d)' => s = t
  <2>1. CASE Carries(s, d)
    BY <1>1, <1>3, <1>4, <2>1
  <2>2. CASE s = hand /\ d = received
    BY <1>1, <1>3, <1>4, <2>2
  <2> QED
    BY <1>4, <1>6, <2>1, <2>2
<1> QED
  BY <1>5, <1>6 DEF Datagrams

\* writeTunnel: a session never gets a datagram by writing one, ...
LEMMA WriteCarries ==
  ASSUME IInv, NEW s \in Sess, WriteFrame(s), NEW t \in Sess, NEW d, Carries(t, d)'
  PROVE  Carries(t, d)
<1>1. /\ queue[s] \in Seq(Int) /\ frames[s] \in Seq(Int) /\ queue[s] # <<>>
  BY QueueTypes DEF WriteFrame, IInv
<1>2. /\ queue'[t] = IF t = s THEN Tail(queue[s]) ELSE queue[t]
      /\ t # s => frames'[t] = frames[t]
  BY DEF WriteFrame, IInv, TypeOK
<1>3. \/ frames'[s] = Append(frames[s], Head(queue[s]))
      \/ frames'[s] = frames[s]
  BY DEF WriteFrame, IInv, TypeOK
<1>4. CASE t # s
  BY <1>2, <1>4 DEF Carries
<1>5. CASE t = s
  <2>1. In(queue'[s], d) => In(queue[s], d)
    BY <1>1, <1>2, <1>5, InTail
  <2>2. In(frames'[s], d) => In(frames[s], d) \/ d = Head(queue[s])
    BY <1>1, <1>3, InAppend
  <2>3. In(queue[s], Head(queue[s]))
    BY <1>1, InTail
  <2> QED
    BY <1>5, <2>1, <2>2, <2>3 DEF Carries
<1> QED
  BY <1>4, <1>5

\* ... and the head of its queue follows what it has written.
LEMMA WriteOrdered ==
  ASSUME IInv, NEW s \in Sess, WriteFrame(s)
  PROVE  Datagrams'
<1>1. /\ queue[s] \in Seq(Int) /\ frames[s] \in Seq(Int) /\ queue[s] # <<>>
      /\ Ordered(frames[s], queue[s])
  BY QueueTypes DEF WriteFrame, IInv, Datagrams
<1>2. \A t \in Sess : /\ queue'[t] = IF t = s THEN Tail(queue[s]) ELSE queue[t]
                      /\ t # s => frames'[t] = frames[t]
  BY DEF WriteFrame, IInv, TypeOK
<1>3. \/ frames'[s] = Append(frames[s], Head(queue[s]))
      \/ frames'[s] = frames[s]
  BY DEF WriteFrame, IInv, TypeOK
<1>4. Ordered(frames[s], queue[s])'
  BY <1>1, <1>2, <1>3, OrderedTail, OrderedMove
<1>5. UNCHANGED <<loop, received>>
  BY DEF WriteFrame, loopVars
<1>6. ASSUME NEW t \in Sess PROVE Ordered(frames[t], queue[t])'
  <2>1. CASE t # s
    BY <1>2, <2>1 DEF Datagrams, IInv
  <2> QED
    BY <1>4, <2>1
<1> QED
  BY <1>5, <1>6, WriteCarries DEF Datagrams, IInv

LEMMA DatagramStep == IInv /\ [Next]_vars => Datagrams'
<1> SUFFICES ASSUME IInv, [Next]_vars PROVE Datagrams'
  OBVIOUS
<1> TypeOK /\ Datagrams
  BY DEF IInv
<1> USE DEF TypeOK, loopVars, sessVars, runVars, endVars
<1>0. ASSUME UNCHANGED <<queue, frames, loop, received>> PROVE Datagrams'
  BY <1>0, DatagramFrame DEF Within
<1>1. CASE \/ \E a \in Sources : Receive(a)
           \/ Lookup \/ AddSession \/ CountAndRun \/ Touch \/ LoopExits
  BY <1>1, DatagramFrame, UdpAssumption
  DEF Within, Receive, Lookup, AddSession, CountAndRun, Touch, LoopExits
<1>2. CASE Enqueue
  <2>1. CASE UNCHANGED queue
    BY <1>2, <2>1, DatagramFrame, UdpAssumption DEF Within, Enqueue
  <2>2. CASE queue' = [queue EXCEPT ![hand] = Append(@, received)]
    BY <1>2, <2>2, EnqueueOrdered DEF Enqueue
  <2> QED
    BY <1>2, <2>1, <2>2 DEF Enqueue
<1>3. ASSUME NEW s \in Sess, Runner(s) PROVE Datagrams'
  BY <1>0, <1>3, WriteOrdered
  DEF Runner, Notify, DialFails, Attach, WriterSeesDone, RunEnds
<1>4. ASSUME NEW s \in Sess,
             TunnelArrives(s) \/ ReadFrame(s) \/ ReadTunnelFails(s) \/ ReaderEnds(s)
                              \/ BecomeIdle(s) \/ Reap(s)
      PROVE  Datagrams'
  BY <1>0, <1>4 DEF TunnelArrives, ReadFrame, ReadTunnelFails, ReaderEnds, BecomeIdle, Reap
<1>5. ASSUME NEW s \in Sess, Closing(s) PROVE Datagrams'
  BY <1>0, <1>5 DEF Closing, OwnGoroutineCloses, CloseTunnel, RemoveSession, CountClosed
<1>6. CASE Scan \/ ReapNext
  BY <1>0, <1>6 DEF Scan, ReapNext
<1>7. CASE OwnerLeaves \/ CloseDone \/ ProxyClose
  BY <1>0, <1>7 DEF OwnerLeaves, CloseDone, ProxyClose, CloseSocket, SnapshotSessions, ProxyCloses
<1>8. CASE UNCHANGED vars
  BY <1>0, <1>8 DEF vars
<1> QED
  BY <1>1, <1>2, <1>3, <1>4, <1>5, <1>6, <1>7, <1>8 DEF Next, ServerNext, Loop

\* A step that gives no session a datagram and no datagram to the loop.
LEMMA SourcedFrame ==
  ASSUME Sourced, UNCHANGED <<hand, received, origin, key, queue, frames>>,
         loop' = loop \/ loop' \notin {"add", "count", "touch", "enqueue"}
                      \/ loop \in {"add", "count", "touch", "enqueue"}
  PROVE  Sourced'
  BY DEF Sourced, Carries

LEMMA SourcedStep == IInv /\ [Next]_vars => Sourced'
<1> SUFFICES ASSUME IInv, [Next]_vars PROVE Sourced'
  OBVIOUS
<1> TypeOK /\ Sourced
  BY DEF IInv
<1> USE DEF TypeOK, loopVars, sessVars, runVars, endVars
<1>1. ASSUME NEW a \in Sources, Receive(a) PROVE Sourced'
  <2>1. /\ loop = "read" /\ loop' = "lookup" /\ received \in Nat
        /\ \A d \in 1..MaxPkts : d # received + 1 => origin'[d] = origin[d]
        /\ UNCHANGED <<key, queue, frames>>
    BY <1>1 DEF Receive
  <2>2. \A s \in Sess, d \in 1..MaxPkts : Carries(s, d) => d <= received
    BY <2>1 DEF IInv, Datagrams
  <2>3. \A s \in Sess, d \in 1..MaxPkts : Carries(s, d) => d # received + 1
    BY <2>1, <2>2
  <2> QED
    BY <2>1, <2>3 DEF Sourced, Carries
<1>2. CASE Lookup
  <2>1. /\ origin[received] \in Sources
        /\ UNCHANGED <<received, origin, sessions, queue, frames>>
    BY <1>2 DEF Lookup, IInv, LoopHand
  <2>2. CASE /\ sessions[origin[received]] # None /\ hand' = sessions[origin[received]]
             /\ UNCHANGED key
    <3>1. key[hand'] = origin[received]
      BY <2>1, <2>2 DEF IInv, TableSound
    <3> QED
      BY <2>1, <2>2, <3>1 DEF Sourced, Carries
  <2>3. CASE /\ \E s \in Sess : key[s] = None
             /\ hand' = FreshSess /\ key' = [key EXCEPT ![FreshSess] = origin[received]]
    <3>1. /\ FreshSess \in Sess /\ key[FreshSess] = None
          /\ \A s \in Sess : key'[s] = IF s = FreshSess THEN origin[received] ELSE key[s]
      BY <2>3, FreshFacts
    <3>2. \A s \in Sess, d \in 1..MaxPkts : Carries(s, d)' => Carries(s, d) /\ s # FreshSess
      BY <2>1, <3>1 DEF Sourced, Carries
    <3> QED
      BY <2>1, <2>3, <3>1, <3>2 DEF Sourced
  <2>4. CASE loop' = "read" /\ UNCHANGED <<hand, key>>
    BY <2>1, <2>4, SourcedFrame
  <2> QED
    BY <1>2, <2>2, <2>3, <2>4 DEF Lookup
<1>3. CASE AddSession \/ CountAndRun \/ Touch \/ LoopExits
  BY <1>3, SourcedFrame DEF AddSession, CountAndRun, Touch, LoopExits
<1>4. CASE Enqueue
  <2>1. loop = "enqueue" /\ loop' = "read" /\ UNCHANGED <<received, origin, key, frames>>
    BY <1>4 DEF Enqueue
  <2>2. CASE UNCHANGED queue
    BY <2>1, <2>2 DEF Sourced, Carries
  <2>3. CASE queue' = [queue EXCEPT ![hand] = Append(@, received)]
    <3>1. \A s \in Sess, d \in 1..MaxPkts :
            Carries(s, d)' => Carries(s, d) \/ (s = hand /\ d = received)
      BY <2>1, <2>3, EnqueueCarries
    <3>2. key[hand] # None /\ origin[received] = key[hand]
      BY <2>1 DEF Sourced, IInv, LoopHand
    <3> QED
      BY <2>1, <3>1, <3>2 DEF Sourced
  <2> QED
    BY <1>4, <2>2, <2>3 DEF Enqueue
<1>5. ASSUME NEW s \in Sess, WriteFrame(s) PROVE Sourced'
  <2>1. UNCHANGED <<loop, hand, received, origin, key>>
    BY <1>5 DEF WriteFrame
  <2>2. \A t \in Sess, d \in 1..MaxPkts : Carries(t, d)' => Carries(t, d)
    BY <1>5, WriteCarries
  <2> QED
    BY <2>1, <2>2 DEF Sourced
<1>6. ASSUME NEW s \in Sess, Runner(s), ~WriteFrame(s) PROVE Sourced'
  BY <1>6, SourcedFrame DEF Runner, Notify, DialFails, Attach, WriterSeesDone, RunEnds
<1>7. ASSUME NEW s \in Sess,
             TunnelArrives(s) \/ ReadFrame(s) \/ ReadTunnelFails(s) \/ ReaderEnds(s)
                              \/ BecomeIdle(s) \/ Reap(s) \/ Closing(s)
      PROVE  Sourced'
  BY <1>7, SourcedFrame
  DEF TunnelArrives, ReadFrame, ReadTunnelFails, ReaderEnds, BecomeIdle, Reap, Closing,
      OwnGoroutineCloses, CloseTunnel, RemoveSession, CountClosed
<1>8. CASE Scan \/ ReapNext \/ OwnerLeaves \/ CloseDone \/ ProxyClose
  BY <1>8, SourcedFrame
  DEF Scan, ReapNext, OwnerLeaves, CloseDone, ProxyClose, CloseSocket, SnapshotSessions,
      ProxyCloses
<1>9. CASE UNCHANGED vars
  BY <1>9, SourcedFrame DEF vars
<1> QED
  BY <1>1, <1>2, <1>3, <1>4, <1>5, <1>6, <1>7, <1>8, <1>9 DEF Next, ServerNext, Loop

-----------------------------------------------------------------------------
(* The counter.                                                            *)

\* A session that ends before the loop has counted it is in Ended first.
LEMMA CountedFinite ==
  ASSUME IInv
  PROVE  /\ IsFiniteSet(Started) /\ IsFiniteSet(Ended)
         /\ loop # "count" => Ended \subseteq Started
<1>1. Started \subseteq Created
  BY DEF Started, Created, IInv, Beginnings, Entered
<1>2. Ended \subseteq Created
  BY DEF Ended, Created, IInv, Beginnings, Entered
<1>3. loop # "count" => Ended \subseteq Started
  BY DEF Ended, Started, IInv, Beginnings, Entered
<1> QED
  BY <1>1, <1>2, <1>3, FS_Subset DEF IInv, Counted

\* A step that neither counts nor creates a session.
LEMMA CountFrame ==
  ASSUME Counted, UNCHANGED <<key, current>>,
         \A s \in Sess : run'[s] = "none" <=> run[s] = "none",
         \A s \in Sess : cl'[s] = "closed" <=> cl[s] = "closed"
  PROVE  Counted'
<1>1. UNCHANGED <<Created, Started, Ended>>
  BY DEF Created, Started, Ended
<1> QED
  BY <1>1 DEF Counted

LEMMA CountStep == IInv /\ [Next]_vars => Counted'
<1> SUFFICES ASSUME IInv, [Next]_vars PROVE Counted'
  OBVIOUS
<1> TypeOK /\ Counted
  BY DEF IInv
<1> USE DEF TypeOK, loopVars, sessVars, runVars, endVars
<1>1. CASE Lookup
  <2>1. CASE UNCHANGED key
    BY <1>1, <2>1, CountFrame DEF Lookup
  <2>2. CASE /\ \E s \in Sess : key[s] = None
             /\ key' = [key EXCEPT ![FreshSess] = origin[received]]
    <3>1. FreshSess \in Sess /\ origin[received] \in Sources
      BY <1>1, <2>2, FreshFacts DEF Lookup, IInv, LoopHand
    <3>2. Created' = Created \cup {FreshSess}
      BY <2>2, <3>1, UdpAssumption DEF Created
    <3>3. IsFiniteSet(Created')
      BY <3>2, FS_AddElement DEF Counted
    <3>4. UNCHANGED <<Started, Ended, current>>
      BY <1>1 DEF Lookup, Started, Ended
    <3> QED
      BY <3>3, <3>4 DEF Counted
  <2> QED
    BY <1>1, <2>1, <2>2 DEF Lookup
<1>2. CASE CountAndRun
  <2>1. hand \in Sess /\ hand \notin Started
    BY <1>2 DEF CountAndRun, IInv, LoopHand, Beginnings, Started
  <2>2. Started' = Started \cup {hand}
    BY <1>2, <2>1 DEF CountAndRun, Started
  <2>3. UNCHANGED <<Created, Ended>> /\ current' = current + 1
    BY <1>2 DEF CountAndRun, Created, Ended
  <2>4. Cardinality(Started') = Cardinality(Started) + 1
    BY <2>1, <2>2, CountedFinite, FS_AddElement
  <2>5. Cardinality(Started) \in Nat /\ Cardinality(Ended) \in Nat
    BY CountedFinite, FS_CardinalityType
  <2> QED
    BY <2>3, <2>4, <2>5 DEF Counted
<1>3. CASE (\E a \in Sources : Receive(a)) \/ AddSession \/ Touch \/ Enqueue \/ LoopExits
  BY <1>3, CountFrame DEF Receive, AddSession, Touch, Enqueue, LoopExits
<1>4. ASSUME NEW s \in Sess, Runner(s) PROVE Counted'
  BY <1>4, CountFrame
  DEF Runner, Notify, DialFails, Attach, WriteFrame, WriterSeesDone, RunEnds
<1>5. ASSUME NEW s \in Sess,
             TunnelArrives(s) \/ ReadFrame(s) \/ ReadTunnelFails(s) \/ ReaderEnds(s)
                              \/ BecomeIdle(s)
      PROVE  Counted'
  BY <1>5, CountFrame DEF TunnelArrives, ReadFrame, ReadTunnelFails, ReaderEnds, BecomeIdle
<1>6. ASSUME NEW s \in Sess, CountClosed(s) PROVE Counted'
  <2>1. s \notin Ended /\ Ended' = Ended \cup {s}
    BY <1>6 DEF CountClosed, Ended
  <2>2. UNCHANGED <<Created, Started>> /\ current' = current - 1
    BY <1>6 DEF CountClosed, Created, Started
  <2>3. Cardinality(Ended') = Cardinality(Ended) + 1
    BY <2>1, CountedFinite, FS_AddElement
  <2>4. Cardinality(Started) \in Nat /\ Cardinality(Ended) \in Nat
    BY CountedFinite, FS_CardinalityType
  <2> QED
    BY <2>2, <2>3, <2>4 DEF Counted
<1>7. ASSUME NEW s \in Sess,
             OwnGoroutineCloses(s) \/ CloseTunnel(s) \/ RemoveSession(s) \/ Reap(s)
      PROVE  Counted'
  BY <1>7, CountFrame DEF OwnGoroutineCloses, CloseTunnel, RemoveSession, Reap, MarkDone
<1>8. CASE Scan \/ ReapNext \/ OwnerLeaves \/ CloseDone \/ CloseSocket \/ SnapshotSessions
  BY <1>8, CountFrame
  DEF Scan, ReapNext, OwnerLeaves, CloseDone, CloseSocket, SnapshotSessions
<1>9. CASE ProxyCloses
  BY <1>9, CountFrame DEF ProxyCloses, MarkDone
<1>10. CASE UNCHANGED vars
  BY <1>10, CountFrame DEF vars
<1> QED
  BY <1>1, <1>2, <1>3, <1>4, <1>5, <1>6, <1>7, <1>8, <1>9, <1>10
  DEF Next, ServerNext, Loop, Closing, ProxyClose

-----------------------------------------------------------------------------
(* The theorems.                                                           *)

\* The receive loop, the goroutines of the sessions, the reaper and the
\* close of the mapping keep the invariant together.
THEOREM Inductive == Spec => []IInv
<1>1. IInv /\ [Next]_vars => IInv'
  BY TypeStep, TableStep, TunnelStep, DatagramStep, SourcedStep, CountStep DEF IInv, Table
<1> QED
  BY InitIInv, <1>1, PTL DEF Spec

\* The state of a UDP mapping stays in its sets, and no sendCh holds more
\* datagrams than its capacity.
THEOREM TypeInvariant == Spec => []TypeOK
<1>1. IInv => TypeOK
  BY DEF IInv
<1> QED
  BY <1>1, Inductive, PTL

\* getOrCreateUDPSession and removeUDPSession: a source never has two
\* sessions of which neither is closing, and a session that is not closing
\* is the one its source finds.
THEOREM SessionTableHolds == Spec => []SessionTable
<1>1. IInv => SessionTable
  <2> SUFFICES ASSUME IInv PROVE OneSessionPerSource
    BY DEF SessionTable, IInv
  <2> SUFFICES ASSUME NEW s \in Sess, NEW t \in Sess, s # t, key[s] = key[t],
                      key[s] # None, ~Done(s), ~Done(t)
               PROVE  FALSE
    BY DEF OneSessionPerSource
  <2>1. ~(loop = "add" /\ hand = s) => sessions[key[s]] = s
    BY DEF IInv, Findable
  <2>2. ~(loop = "add" /\ hand = t) => sessions[key[s]] = t
    BY DEF IInv, Findable
  <2>3. loop = "add" => sessions[key[hand]] = None
    BY DEF IInv, LoopHand
  <2> QED
    BY <2>1, <2>2, <2>3, UdpAssumption
<1> QED
  BY <1>1, Inductive, PTL

\* udpSession: the datagrams in a tunnel came from the source of its session,
\* in the order in which readUDP received them, and none is twice in a tunnel
\* or in two of them.
THEOREM TunnelOrderedHolds == Spec => []TunnelOrdered
<1>1. IInv => TunnelOrdered
  <2> SUFFICES ASSUME IInv PROVE TunnelOrdered
    OBVIOUS
  <2>1. \A s \in Sess : Ordered(frames[s], queue[s])
    BY DEF IInv, Datagrams
  <2>2. ASSUME NEW s \in Sess, NEW i \in DOMAIN frames[s]
        PROVE  Carries(s, frames[s][i]) /\ frames[s][i] \in 1..MaxPkts
    <3>1. Carries(s, frames[s][i])
      BY DEF Carries, In
    <3> QED
      BY <3>1, QueueTypes DEF IInv
  <2>3. \A s \in Sess : \A i \in DOMAIN frames[s] : origin[frames[s][i]] = key[s]
    BY <2>2 DEF IInv, Sourced
  <2>4. ASSUME NEW s \in Sess, NEW t \in Sess, NEW i \in DOMAIN frames[s],
               NEW j \in DOMAIN frames[t], frames[s][i] = frames[t][j]
        PROVE  s = t
    BY <2>2, <2>4 DEF IInv, Datagrams
  <2> QED
    BY <2>1, <2>3, <2>4 DEF TunnelOrdered, Ordered
<1> QED
  BY <1>1, Inductive, PTL

\* attach and close: an open tunnel has a goroutine that will close it.
THEOREM TunnelOwnedHolds == Spec => []TunnelOwned
<1>1. IInv => TunnelOwned
  BY DEF IInv, Tunnels, TunnelOwned
<1> QED
  BY <1>1, Inductive, PTL

\* OpenConn and CloseConn of the sessions: the current connections of the
\* statistics are the sessions in the table whenever no step is half done.
THEOREM CounterExactHolds == Spec => []CounterExact
<1>1. IInv => CounterExact
  <2> SUFFICES ASSUME IInv, loop \notin {"add", "count"},
                      \A s \in Sess : cl[s] \in {"no", "closed"}
               PROVE  current = Cardinality(Live)
    BY DEF CounterExact
  <2>1. Live = Started \ Ended
    <3>1. ASSUME NEW s \in Live PROVE s \in Started \ Ended
      BY LiveFacts DEF Live, Started, Ended, IInv, Beginnings
    <3>2. ASSUME NEW s \in Started \ Ended PROVE s \in Live
      <4>1. s \in Sess /\ ~Done(s) /\ Entered(s)
        BY DEF Started, Ended, Done, IInv, Beginnings
      <4>2. sessions[key[s]] = s /\ key[s] \in Sources
        BY <4>1 DEF IInv, Findable, Entered, TypeOK
      <4> QED
        BY <4>1, <4>2 DEF Live
    <3> QED
      BY <3>1, <3>2
  <2>2. Cardinality(Live) = Cardinality(Started) - Cardinality(Started \cap Ended)
    BY <2>1, CountedFinite, FS_Difference
  <2>3. Started \cap Ended = Ended
    BY CountedFinite
  <2> QED
    BY <2>2, <2>3 DEF IInv, Counted
<1> QED
  BY <1>1, Inductive, PTL
=============================================================================
