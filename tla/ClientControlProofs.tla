------------------------- MODULE ClientControlProofs -------------------------
(***************************************************************************)
(* Proofs about ClientControl, for any number of faults and work           *)
(* connections and any backoff.                                            *)
(***************************************************************************)
EXTENDS ClientControl, TLAPS

-----------------------------------------------------------------------------
(* The inductive invariant.                                                *)

\* closeWorkConns, whoever calls it, starts with empty hands.
Drained ==
  /\ loop # "drain" => loopDrain = {}
  /\ stop # "drain" => stopDrain = {}

\* Stop returns after runLoop.
Waited == stop = "returned" => loop = "exited"

IInv == TypeOK /\ OneControl /\ JoinedKept /\ Drained /\ Waited

LEMMA InitIInv == Init => IInv
<1> SUFFICES ASSUME Init PROVE IInv
  OBVIOUS
<1>1. TypeOK
  <2>1. Nil \in Attempts \cup {Nil} /\ 0 \in 0..MaxFaults /\ Base \in Nat \ {0}
    BY ClientAssumption
  <2> QED
    BY <2>1 DEF Init, TypeOK
<1>2. OneControl /\ JoinedKept /\ Drained /\ Waited
  BY DEF Init, OneControl, JoinedKept, Drained, Waited
<1> QED
  BY <1>1, <1>2 DEF IInv

-----------------------------------------------------------------------------
LEMMA TypeStep == IInv /\ [Next]_vars => TypeOK'
<1> SUFFICES ASSUME IInv, [Next]_vars PROVE TypeOK'
  OBVIOUS
<1> TypeOK
  BY DEF IInv
<1> Attempts \subseteq Nat \ {0} /\ Nil \notin Attempts
  BY ClientAssumption DEF Attempts, Nil
<1> USE ClientAssumption DEF TypeOK, Serving, loopVars, endVars, linkVars, srvVars, workVars
<1>1. CASE Top
  BY <1>1 DEF Top
<1>2. CASE Over
  BY <1>2 DEF Over, Smaller
<1>3. CASE Wait
  BY <1>3 DEF Wait
<1>4. CASE SetFatal
  BY <1>4 DEF SetFatal
<1>5. CASE CloseDone
  BY <1>5 DEF CloseDone
<1>6. CASE Dial
  BY <1>6 DEF Dial
<1>7. CASE DialFails
  BY <1>7 DEF DialFails, Fault
<1>8. CASE LoginAnswered
  BY <1>8 DEF LoginAnswered
<1>9. CASE LoginTimesOut
  <2>1. cli' = [cli EXCEPT ![cur] = "closed"] /\ loop' = "over"
        /\ UNCHANGED <<cur, backoff, conn, endVars, link, srvVars, workVars>>
    BY <1>9 DEF LoginTimesOut
  <2>2. faults' \in 0..MaxFaults
    BY <1>9 DEF LoginTimesOut, Fault
  <2> QED
    BY <2>1, <2>2
<1>10. CASE Publish
  BY <1>10 DEF Publish
<1>11. CASE CheckDone
  BY <1>11 DEF CheckDone
<1>12. CASE Heartbeat
  BY <1>12 DEF Heartbeat
<1>13. CASE ReadFails
  BY <1>13 DEF ReadFails
<1>14. CASE Unset
  BY <1>14 DEF Unset
<1>15. CASE Shut
  BY <1>15 DEF Shut
<1>16. CASE LoopTakes
  BY <1>16 DEF LoopTakes
<1>17. CASE LoopDrains
  BY <1>17 DEF LoopDrains
<1>18. CASE StopMark
  BY <1>18 DEF StopMark
<1>19. CASE StopReads
  BY <1>19 DEF StopReads
<1>20. CASE StopCloses
  BY <1>20 DEF StopCloses
<1>21. CASE StopTakes
  BY <1>21 DEF StopTakes
<1>22. CASE StopDrains
  BY <1>22 DEF StopDrains
<1>23. CASE StopReturns
  BY <1>23 DEF StopReturns
<1>24. CASE OtherLogsIn
  BY <1>24 DEF OtherLogsIn
<1>25. CASE OtherLeaves
  BY <1>25 DEF OtherLeaves
<1>26. ASSUME NEW w \in Works, Notice(w) PROVE TypeOK'
  BY <1>26 DEF Notice
<1>27. ASSUME NEW w \in Works, WorkChecks(w) PROVE TypeOK'
  BY <1>27 DEF WorkChecks
<1>28. ASSUME NEW w \in Works, WorkPaired(w) PROVE TypeOK'
  BY <1>28 DEF WorkPaired
<1>29. ASSUME NEW w \in Works, WorkFails(w) PROVE TypeOK'
  BY <1>29 DEF WorkFails
<1>30. ASSUME NEW w \in Works, WorkTracks(w) PROVE TypeOK'
  BY <1>30 DEF WorkTracks
<1>31. ASSUME NEW w \in Works, Untrack(w) PROVE TypeOK'
  BY <1>31 DEF Untrack
<1>32. ASSUME NEW w \in Works, WorkLeaves(w) PROVE TypeOK'
  BY <1>32 DEF WorkLeaves
<1>33. ASSUME NEW k \in Attempts, ServerAccepts(k) PROVE TypeOK'
  BY <1>33 DEF ServerAccepts
<1>34. ASSUME NEW k \in Attempts, ServerRegisters(k) PROVE TypeOK'
  BY <1>34 DEF ServerRegisters, Sent
<1>35. ASSUME NEW k \in Attempts, ServerHasIt(k) PROVE TypeOK'
  BY <1>35 DEF ServerHasIt, Sent
<1>36. ASSUME NEW k \in Attempts, ServerRefuses(k) PROVE TypeOK'
  BY <1>36 DEF ServerRefuses, Sent, Fault
<1>37. ASSUME NEW k \in Attempts, ServerNotices(k) PROVE TypeOK'
  BY <1>37 DEF ServerNotices
<1>38. ASSUME NEW k \in Attempts, ServerDrops(k) PROVE TypeOK'
  BY <1>38 DEF ServerDrops, Fault
<1>39. ASSUME NEW k \in Attempts, LinkBreaks(k) PROVE TypeOK'
  BY <1>39 DEF LinkBreaks, Fault
<1>40. CASE UNCHANGED vars
  BY <1>40 DEF vars
<1> QED
  BY <1>1, <1>2, <1>3, <1>4, <1>5, <1>6, <1>7, <1>8, <1>9, <1>10, <1>11, <1>12, <1>13, <1>14, <1>15, <1>16, <1>17, <1>18, <1>19, <1>20, <1>21, <1>22, <1>23, <1>24, <1>25, <1>26, <1>27, <1>28, <1>29, <1>30, <1>31, <1>32, <1>33, <1>34, <1>35, <1>36, <1>37, <1>38, <1>39, <1>40
  DEF Next, LoopStep, StopStep, WorkStep, ServerStep

-----------------------------------------------------------------------------
(* Actions that cannot disturb the rest of the invariant.                  *)

Rest == OneControl /\ JoinedKept /\ Drained /\ Waited

\* A step that opens no connection, moves no drain and does not end Stop.
LEMMA Frame ==
  ASSUME TypeOK, Rest, UNCHANGED <<workVars, stop>>, loop \notin {"exited", "drain"},
         loop' # "drain", UNCHANGED <<cur, conn>>,
         \A k \in Attempts : cli'[k] = "open" => cli[k] = "open",
         loop \in {"login", "publish", "check", "serve", "unset", "shut"} =>
           \/ loop' \in {"login", "publish", "check", "serve", "unset", "shut"}
           \/ cli' = [cli EXCEPT ![cur] = "closed"],
         loop \in {"check", "serve", "unset"} => loop' \in {"check", "serve", "unset"}
  PROVE  Rest'
<1> USE DEF Rest, TypeOK
<1>1. OneControl'
  BY DEF OneControl
<1>2. JoinedKept'
  BY DEF JoinedKept, workVars
<1>3. Drained' /\ Waited'
  BY DEF Drained, Waited, workVars
<1> QED
  BY <1>1, <1>2, <1>3

\* A step of the server, the network or the other client.
LEMMA OutsideFrame ==
  ASSUME Rest, UNCHANGED <<loopVars, stop, cli, workVars>>
  PROVE  Rest'
  BY DEF Rest, OneControl, JoinedKept, Drained, Waited, loopVars, workVars

\* A step of a work connection's goroutine.
LEMMA WorkFrame ==
  ASSUME Rest, UNCHANGED <<loopVars, stop, cli, loopDrain, stopDrain>>,
         \A w \in Works : work'[w] = "joined" /\ wEnd'[w] = "open" =>
           \/ w \in workConns'
           \/ work[w] = "joined" /\ wEnd[w] = "open" /\ (w \in workConns => w \in workConns')
  PROVE  Rest'
<1> USE DEF Rest
<1>1. OneControl' /\ Drained' /\ Waited'
  BY DEF OneControl, Drained, Waited, loopVars
<1>2. JoinedKept'
  BY DEF JoinedKept
<1> QED
  BY <1>1, <1>2

LEMMA LoopStepRest ==
  ASSUME IInv, LoopStep \/ DialFails \/ LoginTimesOut \/ Heartbeat
  PROVE  Rest'
<1> TypeOK /\ Rest
  BY DEF IInv, Rest
<1> USE DEF loopVars, endVars, linkVars, srvVars, workVars
<1>1. CASE Top
  BY <1>1, Frame DEF Top, TypeOK
<1>2. CASE Over
  BY <1>2, Frame DEF Over, TypeOK
<1>3. CASE Wait
  BY <1>3, Frame DEF Wait, TypeOK
<1>4. CASE SetFatal
  BY <1>4, Frame DEF SetFatal, TypeOK
<1>5. CASE CloseDone
  BY <1>5, Frame DEF CloseDone, TypeOK
<1>6. CASE DialFails
  BY <1>6, Frame DEF DialFails, TypeOK
<1>7. CASE LoginAnswered
  BY <1>7, Frame DEF LoginAnswered, TypeOK
<1>8. CASE LoginTimesOut
  BY <1>8, Frame DEF LoginTimesOut, TypeOK
<1>9. CASE CheckDone
  BY <1>9, Frame DEF CheckDone, TypeOK
<1>10. CASE Heartbeat
  BY <1>10, Frame DEF Heartbeat, TypeOK
<1>11. CASE ReadFails
  BY <1>11, Frame DEF ReadFails, TypeOK
<1>12. CASE Shut
  BY <1>12, Frame DEF Shut, TypeOK
<1>13. CASE Dial
  <2>1. /\ loop = "dial" /\ cur' = cur + 1 /\ loop' = "login" /\ cur + 1 \in Attempts
        /\ \A k \in Attempts : cli'[k] = IF k = cur + 1 THEN "open" ELSE cli[k]
        /\ UNCHANGED <<conn, stop, work, wEnd, workConns, loopDrain, stopDrain>>
    BY <1>13 DEF Dial, TypeOK
  <2> QED
    BY <2>1 DEF Rest, OneControl, JoinedKept, Drained, Waited
<1>14. CASE Publish \/ Unset
  BY <1>14 DEF Publish, Unset, Rest, OneControl, JoinedKept, Drained, Waited
<1>15. CASE LoopTakes
  BY <1>15 DEF LoopTakes, Rest, OneControl, JoinedKept, Drained, Waited
<1>16. CASE LoopDrains
  <2>1. CASE loopDrain = {} /\ loop' = "over" /\ UNCHANGED <<loopDrain, wEnd>>
    BY <1>16, <2>1 DEF LoopDrains, Rest, OneControl, JoinedKept, Drained, Waited
  <2>2. ASSUME NEW w \in loopDrain, loopDrain' = loopDrain \ {w}, UNCHANGED loop,
               wEnd' = [wEnd EXCEPT ![w] = "closed"]
        PROVE  Rest'
    <3>1. JoinedKept'
      BY <1>16, <2>2 DEF LoopDrains, Rest, JoinedKept, TypeOK
    <3>2. OneControl' /\ Drained' /\ Waited'
      BY <1>16, <2>2 DEF LoopDrains, Rest, OneControl, Drained, Waited
    <3> QED
      BY <3>1, <3>2 DEF Rest
  <2> QED
    BY <1>16, <2>1, <2>2 DEF LoopDrains
<1> QED
  BY <1>1, <1>2, <1>3, <1>4, <1>5, <1>6, <1>7, <1>8, <1>9, <1>10, <1>11, <1>12, <1>13, <1>14, <1>15, <1>16
  DEF LoopStep

LEMMA StopStepRest ==
  ASSUME IInv, StopMark \/ StopStep
  PROVE  Rest'
<1> TypeOK /\ Rest
  BY DEF IInv, Rest
<1> USE DEF loopVars, linkVars, srvVars, workVars
<1>1. CASE StopMark \/ StopReads \/ StopReturns
  BY <1>1 DEF StopMark, StopReads, StopReturns, Rest, OneControl, JoinedKept, Drained, Waited
<1>2. CASE StopCloses
  <2>1. \A k \in Attempts : cli'[k] = "open" => cli[k] = "open"
    BY <1>2 DEF StopCloses
  <2> QED
    BY <1>2, <2>1 DEF StopCloses, Rest, OneControl, JoinedKept, Drained, Waited
<1>3. CASE StopTakes
  BY <1>3 DEF StopTakes, Rest, OneControl, JoinedKept, Drained, Waited
<1>4. CASE StopDrains
  <2>1. CASE stopDrain = {} /\ stop' = "wait" /\ UNCHANGED <<stopDrain, wEnd>>
    BY <1>4, <2>1 DEF StopDrains, Rest, OneControl, JoinedKept, Drained, Waited
  <2>2. ASSUME NEW w \in stopDrain, stopDrain' = stopDrain \ {w}, UNCHANGED stop,
               wEnd' = [wEnd EXCEPT ![w] = "closed"]
        PROVE  Rest'
    <3>1. JoinedKept'
      BY <1>4, <2>2 DEF StopDrains, Rest, JoinedKept, TypeOK
    <3>2. OneControl' /\ Drained' /\ Waited'
      BY <1>4, <2>2 DEF StopDrains, Rest, OneControl, Drained, Waited
    <3> QED
      BY <3>1, <3>2 DEF Rest
  <2> QED
    BY <1>4, <2>1, <2>2 DEF StopDrains
<1> QED
  BY <1>1, <1>2, <1>3, <1>4 DEF StopStep

LEMMA RestStep == IInv /\ [Next]_vars => Rest'
<1> SUFFICES ASSUME IInv, [Next]_vars PROVE Rest'
  OBVIOUS
<1> TypeOK /\ Rest
  BY DEF IInv, Rest
<1>1. CASE LoopStep \/ DialFails \/ LoginTimesOut \/ Heartbeat
  BY <1>1, LoopStepRest
<1>2. CASE StopMark \/ StopStep
  BY <1>2, StopStepRest
<1>3. ASSUME NEW w \in Works PROVE /\ Notice(w) => Rest'
                                   /\ WorkStep(w) \/ WorkLeaves(w) => Rest'
  <2> USE DEF TypeOK, loopVars, endVars, linkVars, srvVars
  <2>1. CASE Notice(w)
    <3>1. /\ loop = "serve" /\ loop' = "check"
          /\ UNCHANGED <<cur, conn, stop, cli, wEnd, workConns, loopDrain, stopDrain>>
          /\ \A v \in Works : work'[v] = "joined" => work[v] = "joined"
      BY <2>1 DEF Notice
    <3> QED
      BY <3>1 DEF Rest, OneControl, JoinedKept, Drained, Waited
  <2>2. CASE WorkChecks(w)
    BY <2>2, WorkFrame DEF WorkChecks
  <2>3. CASE WorkPaired(w)
    BY <2>3, WorkFrame DEF WorkPaired
  <2>4. CASE WorkFails(w)
    BY <2>4, WorkFrame DEF WorkFails
  <2>5. CASE WorkTracks(w)
    BY <2>5, WorkFrame DEF WorkTracks
  <2>6. CASE Untrack(w)
    BY <2>6, WorkFrame DEF Untrack
  <2>7. CASE WorkLeaves(w)
    BY <2>7, WorkFrame DEF WorkLeaves
  <2> QED
    BY <2>1, <2>2, <2>3, <2>4, <2>5, <2>6, <2>7 DEF WorkStep
<1>4. ASSUME NEW k \in Attempts,
             ServerStep(k) \/ ServerRefuses(k) \/ ServerDrops(k) \/ LinkBreaks(k)
      PROVE  Rest'
  BY <1>4, OutsideFrame
  DEF ServerStep, ServerAccepts, ServerRegisters, ServerHasIt, ServerNotices, ServerRefuses,
      ServerDrops, LinkBreaks, endVars, linkVars
<1>5. CASE OtherLogsIn \/ OtherLeaves \/ UNCHANGED vars
  BY <1>5, OutsideFrame DEF OtherLogsIn, OtherLeaves, vars, endVars, linkVars
<1> QED
  BY <1>1, <1>2, <1>3, <1>4, <1>5 DEF Next

-----------------------------------------------------------------------------
(* The theorems.                                                           *)

\* runLoop, Stop, the goroutines of the work connections and the server keep
\* the invariant together.
THEOREM Inductive == Spec => []IInv
<1>1. IInv /\ [Next]_vars => IInv'
  BY TypeStep, RestStep DEF IInv, Rest
<1> QED
  BY InitIInv, <1>1, PTL DEF Spec

\* The client's state stays in its sets; the reconnect interval never drops
\* to zero.
THEOREM TypeInvariant == Spec => []TypeOK
<1>1. IInv => TypeOK
  BY DEF IInv
<1> QED
  BY <1>1, Inductive, PTL

\* connectAndServe: there is never a second control connection, and
\* Client.conn names the one in use or none.
THEOREM OneControlHolds == Spec => []OneControl
<1>1. IInv => OneControl
  BY DEF IInv
<1> QED
  BY <1>1, Inductive, PTL

\* trackWorkConn and the two callers of closeWorkConns: a work connection
\* that carries data is in the table or in the hands of one that closes it.
THEOREM JoinedKeptHolds == Spec => []JoinedKept
<1>1. IInv => JoinedKept
  BY DEF IInv
<1> QED
  BY <1>1, Inductive, PTL

\* Stop: when it returns runLoop has ended and no control connection is open,
\* whatever the loop was doing when it came.
THEOREM StoppedQuietHolds == Spec => []StoppedQuiet
<1>1. IInv => StoppedQuiet
  BY DEF IInv, Waited, OneControl, StoppedQuiet
<1> QED
  BY <1>1, Inductive, PTL
=============================================================================
