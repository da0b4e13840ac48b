---------------------------- MODULE ForwardProofs ----------------------------
(***************************************************************************)
(* Proofs about Forward, for any number of bytes, any buffer and any       *)
(* connections that may break.                                             *)
(***************************************************************************)
EXTENDS Forward, TLAPS

-----------------------------------------------------------------------------
(* The inductive invariant.                                                *)

\* What a relay took from its source it has passed on, but for the byte in
\* hand or, after an error, what it could not write.
PassesOn(r, d) ==
  /\ copy[r][d] = "read" => put[d][Dst(r, d)] = got[d][Src(r, d)]
  /\ copy[r][d] = "write" => put[d][Dst(r, d)] + 1 = got[d][Src(r, d)]
  /\ put[d][Dst(r, d)] <= got[d][Src(r, d)]

\* The end is passed on by the relay that has seen it, after every byte.
EndsClean(r, d) ==
  /\ fin[d][Dst(r, d)] => copy[r][d] = "done"
  /\ ~Failed /\ copy[r][d] \in {"half", "done"} =>
       AtEnd(d, Src(r, d)) /\ put[d][Dst(r, d)] = got[d][Src(r, d)]

Relaying == \A r \in Relays, d \in Dirs : PassesOn(r, d) /\ EndsClean(r, d)

IInv == TypeOK /\ Relaying

-----------------------------------------------------------------------------
(* The connections in a row.                                               *)

LEMMA RowFacts ==
  /\ \A d \in Dirs : First(d) \in Conns /\ Final(d) \in Conns /\ First(d) # Final(d)
  /\ \A r \in Relays, d \in Dirs :
       /\ Src(r, d) \in Conns /\ Dst(r, d) \in Conns /\ Src(r, d) # Dst(r, d)
       /\ Dst(r, d) # First(d) /\ Src(r, d) # Final(d)
  /\ \A r, q \in Relays, d \in Dirs :
       (Src(r, d) = Src(q, d) \/ Dst(r, d) = Dst(q, d)) => r = q
  BY DEF Dirs, Relays, Conns, First, Final, Src, Dst, Left

\* The relay the sender of a direction talks to, and the receiver's.
Near(d) == IF d = "up" THEN "server" ELSE "client"
Far(d)  == IF d = "up" THEN "client" ELSE "server"

LEMMA NearFar ==
  \A d \in Dirs :
    /\ Near(d) \in Relays /\ Far(d) \in Relays
    /\ Src(Near(d), d) = First(d) /\ Dst(Near(d), d) = Src(Far(d), d)
    /\ Dst(Far(d), d) = Final(d)
  BY DEF Dirs, Relays, Near, Far, First, Final, Src, Dst, Left

LEMMA Update ==
  ASSUME NEW A, NEW B, NEW S, NEW f \in [A -> [B -> S]], NEW a \in A, NEW b \in B, NEW v \in S
  PROVE  /\ [f EXCEPT ![a][b] = v] \in [A -> [B -> S]]
         /\ \A x \in A, y \in B :
              [f EXCEPT ![a][b] = v][x][y] = IF x = a /\ y = b THEN v ELSE f[x][y]
  OBVIOUS

-----------------------------------------------------------------------------
LEMMA InitIInv == Init => IInv
<1> SUFFICES ASSUME Init PROVE IInv
  OBVIOUS
<1>1. TypeOK
  BY ForwardAssumption DEF Init, TypeOK
<1>2. Relaying
  BY RowFacts DEF Init, Relaying, PassesOn, EndsClean
<1> QED
  BY <1>1, <1>2 DEF IInv

\* The pieces of the state that change, one entry at a time.
LEMMA ReadStep ==
  ASSUME IInv, NEW r \in Relays, NEW d \in Dirs, Read(r, d)
  PROVE  IInv'
<1> DEFINE k == Src(r, d)
           o == CounterOf(d)
<1>1. k \in Conns /\ o \in {"in", "out"}
  BY RowFacts DEF CounterOf
<1>2. /\ got[d][k] \in Nat /\ put[d][k] \in Nat /\ got[d][k] < put[d][k]
      /\ total[r][o] \in Nat /\ copy[r][d] = "read"
  BY <1>1 DEF IInv, TypeOK, Read, Unread
<1>3. /\ got' \in [Dirs -> [Conns -> Nat]]
      /\ \A e \in Dirs, c \in Conns :
           got'[e][c] = IF e = d /\ c = k THEN got[d][k] + 1 ELSE got[e][c]
  <2>1. got' = [got EXCEPT ![d][k] = got[d][k] + 1]
    BY DEF Read
  <2>2. got \in [Dirs -> [Conns -> Nat]] /\ got[d][k] + 1 \in Nat
    BY <1>2 DEF IInv, TypeOK
  <2> HIDE DEF k
  <2> QED
    BY <1>1, <2>1, <2>2, Update
<1>4. total' \in [Relays -> [{"in", "out"} -> Nat]]
  BY <1>1, <1>2, Update DEF IInv, TypeOK, Read
<1>5. /\ copy' \in [Relays -> [Dirs -> {"read", "write", "half", "done"}]]
      /\ \A q \in Relays, e \in Dirs :
           copy'[q][e] = IF q = r /\ e = d THEN "write" ELSE copy[q][e]
  BY Update DEF IInv, TypeOK, Read
<1>6. UNCHANGED <<put, fin, broken, join, eof>>
  BY DEF Read
<1> HIDE DEF k, o
<1>7. TypeOK'
  <2>1. \A e \in Dirs, c \in Conns : got'[e][c] <= put[e][c] /\ put[e][c] <= got'[e][c] + Buf
    <3> TAKE e \in Dirs, c \in Conns
    <3>1. /\ got[e][c] \in Nat /\ put[e][c] \in Nat /\ got[e][c] <= put[e][c]
          /\ put[e][c] <= got[e][c] + Buf
      BY DEF IInv, TypeOK
    <3>2. CASE e = d /\ c = k
      BY <1>2, <1>3, <3>1, <3>2, ForwardAssumption
    <3>3. CASE ~(e = d /\ c = k)
      BY <1>3, <3>1, <3>3
    <3> QED
      BY <3>2, <3>3
  <2> QED
    BY <1>3, <1>4, <1>5, <1>6, <2>1 DEF IInv, TypeOK
<1>8. ASSUME NEW q \in Relays, NEW e \in Dirs PROVE (PassesOn(q, e) /\ EndsClean(q, e))'
  <2>1. Src(q, e) \in Conns /\ Dst(q, e) \in Conns
    BY RowFacts
  <2>2. CASE q = r /\ e = d
    BY <1>2, <1>3, <1>5, <1>6, <2>1, <2>2
    DEF k, IInv, TypeOK, Relaying, PassesOn, EndsClean
  <2>3. CASE ~(q = r /\ e = d)
    <3>1. ~(e = d /\ Src(q, e) = k)
      BY <2>3, RowFacts DEF k
    <3>2. got'[e][Src(q, e)] = got[e][Src(q, e)] /\ copy'[q][e] = copy[q][e]
      BY <1>3, <1>5, <2>1, <2>3, <3>1
    <3> QED
      BY <1>6, <3>2 DEF IInv, Relaying, PassesOn, EndsClean, AtEnd, Failed
  <2> QED
    BY <2>2, <2>3
<1> QED
  BY <1>7, <1>8 DEF IInv, Relaying

LEMMA WriteStep ==
  ASSUME IInv, NEW r \in Relays, NEW d \in Dirs, Write(r, d)
  PROVE  IInv'
<1> DEFINE k == Dst(r, d)
<1>1. k \in Conns
  BY RowFacts
<1>2. /\ got[d][k] \in Nat /\ put[d][k] \in Nat /\ put[d][k] - got[d][k] < Buf
      /\ copy[r][d] = "write" /\ ~fin[d][k]
  BY <1>1 DEF IInv, TypeOK, Relaying, EndsClean, Write, Room
<1>3. /\ put' \in [Dirs -> [Conns -> Nat]]
      /\ \A e \in Dirs, c \in Conns :
           put'[e][c] = IF e = d /\ c = k THEN put[d][k] + 1 ELSE put[e][c]
  <2>1. put' = [put EXCEPT ![d][k] = put[d][k] + 1]
    BY DEF Write
  <2>2. put \in [Dirs -> [Conns -> Nat]] /\ put[d][k] + 1 \in Nat
    BY <1>2 DEF IInv, TypeOK
  <2> HIDE DEF k
  <2> QED
    BY <1>1, <2>1, <2>2, Update
<1>4. /\ copy' \in [Relays -> [Dirs -> {"read", "write", "half", "done"}]]
      /\ \A q \in Relays, e \in Dirs :
           copy'[q][e] = IF q = r /\ e = d THEN "read" ELSE copy[q][e]
  BY Update DEF IInv, TypeOK, Write
<1>5. UNCHANGED <<got, fin, broken, join, total, eof>>
  BY DEF Write
<1> HIDE DEF k
<1>6. TypeOK'
  <2>1. \A e \in Dirs, c \in Conns : got[e][c] <= put'[e][c] /\ put'[e][c] <= got[e][c] + Buf
    <3> TAKE e \in Dirs, c \in Conns
    <3>1. /\ got[e][c] \in Nat /\ put[e][c] \in Nat /\ got[e][c] <= put[e][c]
          /\ put[e][c] <= got[e][c] + Buf
      BY DEF IInv, TypeOK
    <3>2. CASE e = d /\ c = k
      BY <1>2, <1>3, <3>1, <3>2, ForwardAssumption
    <3>3. CASE ~(e = d /\ c = k)
      BY <1>3, <3>1, <3>3
    <3> QED
      BY <3>2, <3>3
  <2> QED
    BY <1>3, <1>4, <1>5, <2>1 DEF IInv, TypeOK
<1>7. ASSUME NEW q \in Relays, NEW e \in Dirs PROVE (PassesOn(q, e) /\ EndsClean(q, e))'
  <2>1. Src(q, e) \in Conns /\ Dst(q, e) \in Conns /\ Src(q, e) # Dst(q, e)
    BY RowFacts
  <2>2. CASE q = r /\ e = d
    BY <1>2, <1>3, <1>4, <1>5, <2>1, <2>2
    DEF k, IInv, TypeOK, Relaying, PassesOn, EndsClean
  <2>3. CASE ~(q = r /\ e = d)
    <3>1. ~(e = d /\ Dst(q, e) = k)
      BY <2>3, RowFacts DEF k
    <3>2. put'[e][Dst(q, e)] = put[e][Dst(q, e)] /\ copy'[q][e] = copy[q][e]
      BY <1>3, <1>4, <2>1, <2>3, <3>1
    <3>3. fin[e][Src(q, e)] => put'[e][Src(q, e)] = put[e][Src(q, e)]
      BY <1>2, <1>3, <2>1
    <3> QED
      BY <1>5, <3>2, <3>3 DEF IInv, Relaying, PassesOn, EndsClean, AtEnd, Failed
  <2> QED
    BY <2>2, <2>3
<1> QED
  BY <1>6, <1>7 DEF IInv, Relaying

LEMMA CopyEndsStep ==
  ASSUME IInv, NEW r \in Relays, NEW d \in Dirs, CopyEnds(r, d)
  PROVE  IInv'
<1>1. /\ copy' \in [Relays -> [Dirs -> {"read", "write", "half", "done"}]]
      /\ \A q \in Relays, e \in Dirs :
           copy'[q][e] = IF q = r /\ e = d THEN "half" ELSE copy[q][e]
  BY Update DEF IInv, TypeOK, CopyEnds
<1>2. UNCHANGED <<put, got, fin, broken, join, total, eof>>
  BY DEF CopyEnds
<1>3. TypeOK'
  BY <1>1, <1>2 DEF IInv, TypeOK
<1>4. ASSUME NEW q \in Relays, NEW e \in Dirs PROVE (PassesOn(q, e) /\ EndsClean(q, e))'
  <2>1. Src(r, d) \in Conns /\ Dst(r, d) \in Conns
    BY RowFacts
  <2>2. CASE q = r /\ e = d
    BY <1>1, <1>2, <2>1, <2>2
    DEF IInv, Relaying, PassesOn, EndsClean, CopyEnds, AtEnd, Failed
  <2>3. CASE ~(q = r /\ e = d)
    BY <1>1, <1>2, <2>3 DEF IInv, Relaying, PassesOn, EndsClean, AtEnd, Failed
  <2> QED
    BY <2>2, <2>3
<1> QED
  BY <1>3, <1>4 DEF IInv, Relaying

LEMMA HalfCloseStep ==
  ASSUME IInv, NEW r \in Relays, NEW d \in Dirs, HalfClose(r, d)
  PROVE  IInv'
<1> DEFINE k == Dst(r, d)
<1>1. k \in Conns /\ copy[r][d] = "half"
  BY RowFacts DEF HalfClose
<1>2. /\ fin' \in [Dirs -> [Conns -> BOOLEAN]]
      /\ \A e \in Dirs, c \in Conns : fin'[e][c] = IF e = d /\ c = k THEN TRUE ELSE fin[e][c]
  <2>1. fin' = [fin EXCEPT ![d][k] = TRUE] /\ fin \in [Dirs -> [Conns -> BOOLEAN]]
    BY DEF HalfClose, IInv, TypeOK
  <2>2. k \in Conns
    BY <1>1
  <2> HIDE DEF k
  <2>3. fin' \in [Dirs -> [Conns -> BOOLEAN]]
    BY <2>1, <2>2
  <2>4. \A e \in Dirs, c \in Conns : fin'[e][c] = IF e = d /\ c = k THEN TRUE ELSE fin[e][c]
    BY <2>1, <2>2
  <2> QED
    BY <2>3, <2>4
<1>3. /\ copy' \in [Relays -> [Dirs -> {"read", "write", "half", "done"}]]
      /\ \A q \in Relays, e \in Dirs :
           copy'[q][e] = IF q = r /\ e = d THEN "done" ELSE copy[q][e]
  BY Update DEF IInv, TypeOK, HalfClose
<1>4. UNCHANGED <<put, got, broken, join, total, eof>>
  BY DEF HalfClose
<1> HIDE DEF k
<1>5. TypeOK'
  BY <1>2, <1>3, <1>4 DEF IInv, TypeOK
<1>6. ASSUME NEW q \in Relays, NEW e \in Dirs PROVE (PassesOn(q, e) /\ EndsClean(q, e))'
  <2>1. Src(q, e) \in Conns /\ Dst(q, e) \in Conns
    BY RowFacts
  <2>2. fin[e][Src(q, e)] => fin'[e][Src(q, e)]
    BY <1>2, <2>1
  <2>3. CASE q = r /\ e = d
    BY <1>1, <1>3, <1>4, <2>2, <2>3 DEF IInv, Relaying, PassesOn, EndsClean, AtEnd, Failed
  <2>4. CASE ~(q = r /\ e = d)
    <3>1. ~(e = d /\ Dst(q, e) = k)
      BY <2>4, RowFacts DEF k
    <3>2. fin'[e][Dst(q, e)] = fin[e][Dst(q, e)] /\ copy'[q][e] = copy[q][e]
      BY <1>2, <1>3, <2>1, <2>4, <3>1
    <3> QED
      BY <1>4, <2>2, <3>2 DEF IInv, Relaying, PassesOn, EndsClean, AtEnd, Failed
  <2> QED
    BY <2>3, <2>4
<1> QED
  BY <1>5, <1>6 DEF IInv, Relaying

\* Join and the network: a connection that broke stays broken.
LEMMA BreakStep ==
  ASSUME IInv, UNCHANGED <<put, got, fin, copy, total, eof>>,
         broken' \in [Conns -> BOOLEAN], join' \in [Relays -> {"on", "closed"}],
         \A c \in Conns : broken[c] => broken'[c]
  PROVE  IInv'
<1>1. TypeOK'
  BY DEF IInv, TypeOK
<1>2. Failed => Failed'
  BY DEF Failed
<1>3. Relaying'
  BY <1>2 DEF IInv, Relaying, PassesOn, EndsClean, AtEnd
<1> QED
  BY <1>1, <1>3 DEF IInv

\* The peers write to the first connection and read from the final one.
LEMMA PeerSendsStep ==
  ASSUME IInv, NEW d \in Dirs, PeerSends(d)
  PROVE  IInv'
<1> DEFINE k == First(d)
<1>1. k \in Conns
  BY RowFacts
<1>2. /\ got[d][k] \in Nat /\ put[d][k] \in Nat /\ put[d][k] - got[d][k] < Buf /\ ~fin[d][k]
  BY <1>1 DEF IInv, TypeOK, PeerSends, Room
<1>3. /\ put' \in [Dirs -> [Conns -> Nat]]
      /\ \A e \in Dirs, c \in Conns :
           put'[e][c] = IF e = d /\ c = k THEN put[d][k] + 1 ELSE put[e][c]
  BY <1>1, <1>2, Update DEF IInv, TypeOK, PeerSends
<1>4. UNCHANGED <<got, fin, broken, copy, join, total, eof>>
  BY DEF PeerSends
<1> HIDE DEF k
<1>5. TypeOK'
  <2>1. \A e \in Dirs, c \in Conns : got[e][c] <= put'[e][c] /\ put'[e][c] <= got[e][c] + Buf
    <3> TAKE e \in Dirs, c \in Conns
    <3>1. /\ got[e][c] \in Nat /\ put[e][c] \in Nat /\ got[e][c] <= put[e][c]
          /\ put[e][c] <= got[e][c] + Buf
      BY DEF IInv, TypeOK
    <3>2. CASE e = d /\ c = k
      BY <1>2, <1>3, <3>1, <3>2, ForwardAssumption
    <3>3. CASE ~(e = d /\ c = k)
      BY <1>3, <3>1, <3>3
    <3> QED
      BY <3>2, <3>3
  <2> QED
    BY <1>3, <1>4, <2>1 DEF IInv, TypeOK
<1>6. ASSUME NEW q \in Relays, NEW e \in Dirs PROVE (PassesOn(q, e) /\ EndsClean(q, e))'
  <2>1. Src(q, e) \in Conns /\ Dst(q, e) \in Conns /\ ~(e = d /\ Dst(q, e) = k)
    BY RowFacts DEF k
  <2>2. put'[e][Dst(q, e)] = put[e][Dst(q, e)]
    BY <1>3, <2>1
  <2>3. fin[e][Src(q, e)] => put'[e][Src(q, e)] = put[e][Src(q, e)]
    BY <1>2, <1>3, <2>1
  <2> QED
    BY <1>4, <2>2, <2>3 DEF IInv, Relaying, PassesOn, EndsClean, AtEnd, Failed
<1> QED
  BY <1>5, <1>6 DEF IInv, Relaying

LEMMA PeerEndsStep ==
  ASSUME IInv, NEW d \in Dirs, PeerEnds(d)
  PROVE  IInv'
<1> DEFINE k == First(d)
<1>1. k \in Conns
  BY RowFacts
<1>2. /\ fin' \in [Dirs -> [Conns -> BOOLEAN]]
      /\ \A e \in Dirs, c \in Conns : fin'[e][c] = IF e = d /\ c = k THEN TRUE ELSE fin[e][c]
  <2>1. fin' = [fin EXCEPT ![d][k] = TRUE] /\ fin \in [Dirs -> [Conns -> BOOLEAN]]
    BY DEF PeerEnds, IInv, TypeOK
  <2> HIDE DEF k
  <2> QED
    BY <1>1, <2>1, Update
<1>3. UNCHANGED <<put, got, broken, copy, join, total, eof>>
  BY DEF PeerEnds
<1> HIDE DEF k
<1>4. TypeOK'
  BY <1>2, <1>3 DEF IInv, TypeOK
<1>5. ASSUME NEW q \in Relays, NEW e \in Dirs PROVE (PassesOn(q, e) /\ EndsClean(q, e))'
  <2>1. Src(q, e) \in Conns /\ Dst(q, e) \in Conns /\ ~(e = d /\ Dst(q, e) = k)
    BY RowFacts DEF k
  <2>2. fin'[e][Dst(q, e)] = fin[e][Dst(q, e)] /\ (fin[e][Src(q, e)] => fin'[e][Src(q, e)])
    BY <1>2, <2>1
  <2> QED
    BY <1>3, <2>2 DEF IInv, Relaying, PassesOn, EndsClean, AtEnd, Failed
<1> QED
  BY <1>4, <1>5 DEF IInv, Relaying

LEMMA PeerReadsStep ==
  ASSUME IInv, NEW d \in Dirs, PeerReads(d)
  PROVE  IInv'
<1> DEFINE k == Final(d)
<1>1. k \in Conns
  BY RowFacts
<1>2. got[d][k] \in Nat /\ put[d][k] \in Nat /\ got[d][k] < put[d][k]
  BY <1>1 DEF IInv, TypeOK, PeerReads, Unread
<1>3. /\ got' \in [Dirs -> [Conns -> Nat]]
      /\ \A e \in Dirs, c \in Conns :
           got'[e][c] = IF e = d /\ c = k THEN got[d][k] + 1 ELSE got[e][c]
  BY <1>1, <1>2, Update DEF IInv, TypeOK, PeerReads
<1>4. UNCHANGED <<put, fin, broken, copy, join, total, eof>>
  BY DEF PeerReads
<1> HIDE DEF k
<1>5. TypeOK'
  <2>1. \A e \in Dirs, c \in Conns : got'[e][c] <= put[e][c] /\ put[e][c] <= got'[e][c] + Buf
    <3> TAKE e \in Dirs, c \in Conns
    <3>1. /\ got[e][c] \in Nat /\ put[e][c] \in Nat /\ got[e][c] <= put[e][c]
          /\ put[e][c] <= got[e][c] + Buf
      BY DEF IInv, TypeOK
    <3>2. CASE e = d /\ c = k
      BY <1>2, <1>3, <3>1, <3>2, ForwardAssumption
    <3>3. CASE ~(e = d /\ c = k)
      BY <1>3, <3>1, <3>3
    <3> QED
      BY <3>2, <3>3
  <2> QED
    BY <1>3, <1>4, <2>1 DEF IInv, TypeOK
<1>6. ASSUME NEW q \in Relays, NEW e \in Dirs PROVE (PassesOn(q, e) /\ EndsClean(q, e))'
  <2>1. Src(q, e) \in Conns /\ ~(e = d /\ Src(q, e) = k)
    BY RowFacts DEF k
  <2>2. got'[e][Src(q, e)] = got[e][Src(q, e)]
    BY <1>3, <2>1
  <2> QED
    BY <1>4, <2>2 DEF IInv, Relaying, PassesOn, EndsClean, AtEnd, Failed
<1> QED
  BY <1>5, <1>6 DEF IInv, Relaying

LEMMA IInvStep == IInv /\ [Next]_vars => IInv'
<1> SUFFICES ASSUME IInv, [Next]_vars PROVE IInv'
  OBVIOUS
<1>1. ASSUME NEW r \in Relays, JoinCloses(r) PROVE IInv'
  <2>1. broken' \in [Conns -> BOOLEAN] /\ \A c \in Conns : broken[c] => broken'[c]
    BY <1>1 DEF JoinCloses, Reset, IInv, TypeOK
  <2> QED
    BY <1>1, <2>1, BreakStep DEF JoinCloses, IInv, TypeOK
<1>2. ASSUME NEW r \in Relays, NEW d \in Dirs, Copy(r, d) PROVE IInv'
  BY <1>2, ReadStep, WriteStep, CopyEndsStep, HalfCloseStep DEF Copy
<1>3. ASSUME NEW d \in Dirs, PeerSeesEnd(d) PROVE IInv'
  <2>1. eof' \in [Dirs -> BOOLEAN] /\ UNCHANGED <<put, got, fin, broken, copy, join, total>>
    BY <1>3 DEF PeerSeesEnd, IInv, TypeOK
  <2> QED
    BY <2>1 DEF IInv, TypeOK, Relaying, PassesOn, EndsClean, AtEnd, Failed
<1>4. ASSUME NEW d \in Dirs, PeerSends(d) \/ PeerEnds(d) \/ PeerReads(d) PROVE IInv'
  BY <1>4, PeerSendsStep, PeerEndsStep, PeerReadsStep
<1>5. ASSUME NEW c \in Conns, ConnBreaks(c) PROVE IInv'
  <2>1. broken' \in [Conns -> BOOLEAN] /\ \A b \in Conns : broken[b] => broken'[b]
    BY <1>5 DEF ConnBreaks, IInv, TypeOK
  <2> QED
    BY <1>5, <2>1, BreakStep DEF ConnBreaks, IInv, TypeOK
<1>6. CASE UNCHANGED vars
  BY <1>6 DEF vars, IInv, TypeOK, Relaying, PassesOn, EndsClean, AtEnd, Failed
<1> QED
  BY <1>1, <1>2, <1>3, <1>4, <1>5, <1>6 DEF Next, PeerListens

-----------------------------------------------------------------------------
(* The theorems.                                                           *)

\* Two Joins, the peers and breaking connections keep the invariant together.
THEOREM Inductive == Spec => []IInv
  BY InitIInv, IInvStep, PTL DEF Spec

\* The forwarding state stays in its sets; no connection holds more than its
\* buffer and nothing is read that was not written.
THEOREM TypeInvariant == Spec => []TypeOK
<1>1. IInv => TypeOK
  BY DEF IInv
<1> QED
  BY <1>1, Inductive, PTL

\* proxyCopy: without a reset from outside a direction ends only when all of
\* its source was read and written on, so Join closes emptied connections.
THEOREM CleanCloseHolds == Spec => []CleanClose
<1>1. IInv => CleanClose
  BY DEF IInv, Relaying, EndsClean, CleanClose
<1> QED
  BY <1>1, Inductive, PTL

\* What has left a direction is at most what entered it, and its end comes
\* out only after all of it.
LEMMA ThroughBoth ==
  ASSUME IInv, NEW d \in Dirs
  PROVE  /\ put[d][Final(d)] <= put[d][First(d)]
         /\ ~Failed /\ AtEnd(d, Final(d)) =>
              fin[d][First(d)] /\ got[d][Final(d)] = put[d][First(d)]
<1> DEFINE n == Near(d)
           f == Far(d)
           m == Src(f, d)
<1>1. /\ n \in Relays /\ f \in Relays /\ Src(n, d) = First(d) /\ Dst(n, d) = m
      /\ Dst(f, d) = Final(d)
  BY NearFar
<1>2. First(d) \in Conns /\ m \in Conns /\ Final(d) \in Conns
  BY <1>1, RowFacts
<1>3. PassesOn(n, d) /\ EndsClean(n, d) /\ PassesOn(f, d) /\ EndsClean(f, d)
  BY <1>1 DEF IInv, Relaying
<1> HIDE DEF n, f, m
<1>4. /\ \A c \in {First(d), m, Final(d)} :
           got[d][c] \in Nat /\ put[d][c] \in Nat /\ got[d][c] <= put[d][c]
  BY <1>2 DEF IInv, TypeOK
<1>5. put[d][Final(d)] <= got[d][m] /\ put[d][m] <= got[d][First(d)]
  BY <1>1, <1>3 DEF PassesOn, m
<1>6. put[d][Final(d)] <= put[d][First(d)]
  BY <1>4, <1>5
<1>7. ASSUME ~Failed, AtEnd(d, Final(d))
      PROVE  fin[d][First(d)] /\ got[d][Final(d)] = put[d][First(d)]
  <2>1. copy[f][d] = "done"
    BY <1>1, <1>3, <1>7 DEF EndsClean, AtEnd
  <2>2. AtEnd(d, m) /\ put[d][Final(d)] = got[d][m]
    BY <1>1, <1>3, <1>7, <2>1 DEF EndsClean, m
  <2>3. copy[n][d] = "done"
    BY <1>1, <1>3, <2>2 DEF EndsClean, AtEnd
  <2>4. AtEnd(d, First(d)) /\ put[d][m] = got[d][First(d)]
    BY <1>1, <1>3, <1>7, <2>3 DEF EndsClean
  <2> QED
    BY <1>4, <1>7, <2>2, <2>4 DEF AtEnd
<1> QED
  BY <1>6, <1>7

\* Every step of the relays is a step of the duplex stream, or none.
LEMMA DuplexStep == IInv /\ [Next]_vars => [D!Next]_(D!vars)
<1> SUFFICES ASSUME IInv, [Next]_vars PROVE [D!Next]_(D!vars)
  OBVIOUS
<1> USE DEF D!Next, D!vars
<1>1. ASSUME NEW r \in Relays, JoinCloses(r) PROVE [D!Next]_(D!vars)
  <2>1. UNCHANGED <<put, got, fin, eof>> /\ broken' = [c \in Conns |-> broken'[c]]
    BY <1>1 DEF JoinCloses, Reset
  <2>2. Failed \in BOOLEAN /\ Failed' \in BOOLEAN
    BY DEF Failed
  <2>3. Failed => Failed'
    BY <1>1 DEF JoinCloses, Reset, Failed, IInv, TypeOK
  <2> QED
    BY <2>1, <2>2, <2>3 DEF D!Fail
<1>2. ASSUME NEW r \in Relays, NEW d \in Dirs, Copy(r, d) PROVE UNCHANGED D!vars
  <2>1. Src(r, d) # Final(d) /\ Dst(r, d) # First(d) /\ Src(r, d) \in Conns
        /\ Dst(r, d) \in Conns /\ First(d) \in Conns /\ Final(d) \in Conns
    BY RowFacts
  <2>2. UNCHANGED <<broken, eof>>
    BY <1>2 DEF Copy, Read, Write, CopyEnds, HalfClose
  <2>3. ASSUME NEW e \in Dirs
        PROVE  /\ put'[e][First(e)] = put[e][First(e)] /\ fin'[e][First(e)] = fin[e][First(e)]
               /\ got'[e][Final(e)] = got[e][Final(e)]
    BY <1>2, <2>1 DEF Copy, Read, Write, CopyEnds, HalfClose, IInv, TypeOK
  <2> QED
    BY <2>2, <2>3 DEF Failed
<1>3. ASSUME NEW d \in Dirs, PeerSends(d) PROVE D!Send(d)
  BY <1>3, RowFacts DEF PeerSends, D!Send, IInv, TypeOK, Failed
<1>4. ASSUME NEW d \in Dirs, PeerEnds(d) PROVE D!End(d)
  BY <1>4, RowFacts DEF PeerEnds, D!End, IInv, TypeOK, Failed
<1>5. ASSUME NEW d \in Dirs, PeerReads(d) PROVE D!Receive(d)
  <2>1. /\ got[d][Final(d)] \in Nat /\ put[d][Final(d)] \in Nat /\ put[d][First(d)] \in Nat
        /\ put[d][Final(d)] <= put[d][First(d)] /\ got[d][Final(d)] < put[d][Final(d)]
    BY <1>5, RowFacts, ThroughBoth DEF PeerReads, Unread, IInv, TypeOK
  <2>2. got[d][Final(d)] < put[d][First(d)] /\ ~eof[d]
    BY <1>5, <2>1 DEF PeerReads
  <2>3. \A e \in Dirs : got'[e][Final(e)] = IF e = d THEN got[d][Final(d)] + 1
                                                     ELSE got[e][Final(e)]
    BY <1>5, RowFacts DEF PeerReads, IInv, TypeOK
  <2>4. UNCHANGED <<put, fin, broken, eof>>
    BY <1>5 DEF PeerReads
  <2> QED
    BY <2>2, <2>3, <2>4 DEF D!Receive, Failed
<1>6. ASSUME NEW d \in Dirs, PeerSeesEnd(d) PROVE D!TellEnd(d)
  BY <1>6, RowFacts, ThroughBoth DEF PeerSeesEnd, D!TellEnd, IInv, TypeOK, Failed
<1>7. ASSUME NEW c \in Conns, ConnBreaks(c) PROVE D!Fail
  BY <1>7 DEF ConnBreaks, D!Fail, IInv, TypeOK, Failed
<1>8. CASE UNCHANGED vars
  BY <1>8 DEF vars, Failed
<1> QED
  BY <1>1, <1>2, <1>3, <1>4, <1>5, <1>6, <1>7, <1>8 DEF Next, PeerListens

\* The two Joins between them are one duplex stream with half-close: what
\* comes out was sent, and the end comes after all of it unless a connection
\* broke.
THEOREM DuplexImplemented == Spec => DuplexSpec
<1>1. Init => D!Init
  <2> SUFFICES ASSUME Init PROVE D!Init
    OBVIOUS
  <2>1. Failed = FALSE
    BY DEF Init, Failed
  <2>2. \A d \in Dirs : put[d][First(d)] = 0 /\ got[d][Final(d)] = 0 /\ fin[d][First(d)] = FALSE
    BY RowFacts DEF Init
  <2> QED
    BY <2>1, <2>2 DEF Init, D!Init
<1> QED
  BY <1>1, Inductive, DuplexStep, PTL DEF Spec, DuplexSpec, D!Spec
=============================================================================
