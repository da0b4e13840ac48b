---------------------------- MODULE StreamProofs ----------------------------
(***************************************************************************)
(* Proofs about Stream, for any messages, any sizes of prefix, record and  *)
(* overhead and any tokens.                                                *)
(***************************************************************************)
EXTENDS Stream, SequenceTheorems, TLAPS

-----------------------------------------------------------------------------
(* The inductive invariant.  A stream is the sequence of all bytes that    *)
(* went into it; what each end holds is a piece of it.                     *)

\* The bytes p are those of s from position a + 1 on.
Piece(p, s, a) == a + Len(p) <= Len(s) /\ \A j \in 1..Len(p) : p[j] = s[a + j]

\* s consists of units, each a prefix that says its size and a payload of
\* that many bytes and some overhead; unit i follows position at[i].
Layout(s, at, type, sizes, extra) ==
  /\ s \in Seq(Byte) /\ at \in [1..(Len(sizes) + 1) -> 0..Len(s)]
  /\ at[1] = 0 /\ at[Len(sizes) + 1] = Len(s)
  /\ \A i \in 1..Len(sizes) :
       /\ at[i + 1] = at[i] + PrefixLen + sizes[i] + extra
       /\ \A k \in 1..PrefixLen : s[at[i] + k] = [t |-> "len", v |-> sizes[i], k |-> k]
       /\ \A k \in 1..(sizes[i] + extra) :
            s[at[i] + PrefixLen + k] = [t |-> type, v |-> i, k |-> k]

\* Where the buffer of io.ReadFull begins after n whole units.
Base(at, n, size) == at[n + 1] + (IF size = 0 THEN 0 ELSE PrefixLen)

\* A reader of units has taken n of them and holds the start of the next.
Takes(buf, size, n, s, at, sizes) ==
  /\ n \in 0..Len(sizes)
  /\ size # 0 => n < Len(sizes) /\ size = sizes[n + 1]
  /\ Piece(buf, s, Base(at, n, size))

\* The writer has handed w bytes of the text to conn.Write; the calls left
\* write the rest.
Unwritten(calls, txt, w) ==
  /\ w <= Len(txt) /\ Len(calls) \in 0..2
  /\ Len(calls) = 0 => w = Len(txt)
  /\ Len(calls) > 0 => calls[1] # <<>> /\ Piece(calls[1], txt, w)
  /\ Len(calls) = 1 => w + Len(calls[1]) = Len(txt)
  /\ Len(calls) = 2 => /\ calls[2] # <<>> /\ Piece(calls[2], txt, w + Len(calls[1]))
                       /\ w + Len(calls[1]) + Len(calls[2]) = Len(txt)

\* The messages sent, as one text, and how far the reader of messages is.
Messages(txt, off) ==
  /\ Layout(txt, off, "body", sent, 0)
  /\ Takes(have, length, Len(got), txt, off, sent)

Place(off) == Base(off, Len(got), length) + Len(have)

\* The wire carries the stream s from position a on, all of it up to w unless
\* the connection is cut.
Carried(s, a, w) ==
  /\ Piece(wire, s, a) /\ a + Len(wire) <= w
  /\ line = "open" => a + Len(wire) = w

\* Without encryption the wire carries the text.
Bare(txt, off, w) ==
  /\ Carried(txt, Place(off), w)
  /\ raw = <<>> /\ recLen = 0 /\ rbuf = <<>>

Sizes == [r \in 1..Len(records) |-> Len(records[r])]

\* The records sealed are the text from its first byte on, up to w.
Texts(txt, start, w) ==
  /\ start \in [1..(Len(records) + 1) -> Nat]
  /\ start[1] = 0 /\ start[Len(records) + 1] = w
  /\ \A r \in 1..Len(records) :
       /\ Len(records[r]) \in 1..MaxChunk
       /\ start[r + 1] = start[r] + Len(records[r])
       /\ Piece(records[r], txt, start[r])

\* What the last record opened still has.
Left(txt, a, b) == Piece(rbuf, txt, a) /\ a + Len(rbuf) = b

\* With encryption the wire carries records, of which the reader has opened n.
Sealed(txt, off, w, cip, at, n, start) ==
  /\ Layout(cip, at, "seal", Sizes, Overhead)
  /\ Takes(raw, recLen, n, cip, at, Sizes)
  /\ Carried(cip, Base(at, n, recLen) + Len(raw), Len(cip))
  /\ Texts(txt, start, w)
  /\ Left(txt, Place(off), start[n + 1])

InOrder == got = [i \in 1..Len(got) |-> i] /\ Len(sent) <= MaxMsgs

\* Ends with the same token, or with none.
Together ==
  wkey = rkey => \E txt \in Seq(Byte), w \in Nat : \E off :
    /\ Messages(txt, off) /\ Unwritten(out, txt, w)
    /\ IF wkey = Plain THEN Bare(txt, off, w)
                       ELSE \E cip \in Seq(Byte), n \in Nat : \E at, start :
                              Sealed(txt, off, w, cip, at, n, start)

\* Ends that differ: a record does not open, and a record is no message.
Apart ==
  wkey # rkey =>
    /\ framing = "message" /\ got = <<>>
    /\ IF rkey = Plain
       THEN /\ raw = <<>> /\ recLen = 0 /\ rbuf = <<>>
            /\ \A j \in 1..Len(wire) : wire[j].t # "body"
            /\ \A j \in 1..Len(have) : have[j].t # "body"
       ELSE have = <<>> /\ length = 0 /\ rbuf = <<>>

\* No record is begun before the last one is used up.
Idle == rbuf # <<>> => raw = <<>> /\ recLen = 0

IInv == TypeOK /\ InOrder /\ Together /\ Apart /\ Idle


-----------------------------------------------------------------------------
(* Sequences of bytes.                                                     *)

LEMMA CutFacts ==
  ASSUME NEW S, NEW s \in Seq(S), NEW n \in 0..Len(s)
  PROVE  /\ First(s, n) \in Seq(S) /\ Len(First(s, n)) = n
         /\ \A j \in 1..n : First(s, n)[j] = s[j]
         /\ Rest(s, n) \in Seq(S) /\ Len(Rest(s, n)) = Len(s) - n
         /\ \A j \in 1..(Len(s) - n) : Rest(s, n)[j] = s[n + j]
<1>1. First(s, n) \in Seq(S) /\ Len(First(s, n)) = n /\ \A j \in 1..n : First(s, n)[j] = s[j]
  BY DEF First
<1>2. Rest(s, n) \in Seq(S) /\ Len(Rest(s, n)) = Len(s) - n
  BY DEF Rest
<1>3. \A j \in 1..(Len(s) - n) : Rest(s, n)[j] = s[n + j]
  BY DEF Rest
<1> QED
  BY <1>1, <1>2, <1>3

LEMMA JoinFacts ==
  ASSUME NEW p \in Seq(Byte), NEW q \in Seq(Byte)
  PROVE  /\ p \o q \in Seq(Byte) /\ Len(p \o q) = Len(p) + Len(q)
         /\ \A j \in 1..Len(p) : (p \o q)[j] = p[j]
         /\ \A j \in 1..Len(q) : (p \o q)[Len(p) + j] = q[j]
  OBVIOUS

LEMMA BytesFacts ==
  ASSUME NEW type \in {"len", "body", "seal"}, NEW v \in Nat, NEW n \in Nat
  PROVE  /\ Bytes(type, v, n) \in Seq(Byte) /\ Len(Bytes(type, v, n)) = n
         /\ \A k \in 1..n : Bytes(type, v, n)[k] = [t |-> type, v |-> v, k |-> k]
<1>1. \A k \in 1..n : [t |-> type, v |-> v, k |-> k] \in Byte
  BY DEF Byte
<1> QED
  BY <1>1 DEF Bytes

LEMMA BytesLen ==
  ASSUME NEW type \in {"len", "body", "seal"}, NEW v \in Nat, NEW n \in Nat
  PROVE  Len(Bytes(type, v, n)) = n
  BY BytesFacts

LEMMA BytesAt ==
  ASSUME NEW type \in {"len", "body", "seal"}, NEW v \in Nat, NEW n \in Nat, NEW k \in 1..n
  PROVE  Bytes(type, v, n)[k] = [t |-> type, v |-> v, k |-> k]
  BY BytesFacts

LEMMA BytesIn ==
  ASSUME NEW type \in {"len", "body", "seal"}, NEW v \in Nat, NEW n \in Nat
  PROVE  Bytes(type, v, n) \in Seq(Byte)
  BY BytesFacts

LEMMA SumFits ==
  ASSUME NEW a \in Nat, NEW b \in Nat, NEW c \in Nat, NEW d \in Nat, NEW x \in Nat, NEW l \in Nat,
         x = a + b + c + d, x <= l
  PROVE  a + b <= l
  OBVIOUS

\* Two sequences with the same elements are equal.
LEMMA SameBytes ==
  ASSUME NEW S, NEW p \in Seq(S), NEW q \in Seq(S), Len(p) = Len(q),
         \A j \in 1..Len(p) : p[j] = q[j]
  PROVE  p = q
  OBVIOUS

\* A reader takes n bytes from the piece that follows its own.
LEMMA PieceMoves ==
  ASSUME NEW s \in Seq(Byte), NEW a \in Nat, NEW p \in Seq(Byte), NEW q \in Seq(Byte),
         Piece(p, s, a), Piece(q, s, a + Len(p)), NEW n \in 0..Len(q)
  PROVE  /\ p \o First(q, n) \in Seq(Byte) /\ Len(p \o First(q, n)) = Len(p) + n
         /\ Piece(p \o First(q, n), s, a)
         /\ Rest(q, n) \in Seq(Byte) /\ Len(Rest(q, n)) = Len(q) - n
         /\ Piece(Rest(q, n), s, a + (Len(p) + n))
<1> DEFINE f == First(q, n)
           r == Rest(q, n)
           g == p \o f
<1>1. /\ f \in Seq(Byte) /\ Len(f) = n /\ \A j \in 1..n : f[j] = q[j]
      /\ r \in Seq(Byte) /\ Len(r) = Len(q) - n /\ \A j \in 1..(Len(q) - n) : r[j] = q[n + j]
  BY CutFacts
<1>2. /\ g \in Seq(Byte) /\ Len(g) = Len(p) + n
      /\ \A j \in 1..Len(p) : g[j] = p[j]
      /\ \A j \in 1..n : g[Len(p) + j] = f[j]
  <2>1. f \in Seq(Byte) /\ Len(f) = n
    BY <1>1
  <2> HIDE DEF f
  <2>2. /\ p \o f \in Seq(Byte) /\ Len(p \o f) = Len(p) + Len(f)
        /\ \A j \in 1..Len(p) : (p \o f)[j] = p[j]
        /\ \A j \in 1..Len(f) : (p \o f)[Len(p) + j] = f[j]
    BY <2>1, JoinFacts
  <2> QED
    BY <2>1, <2>2
<1> HIDE DEF f, r, g
<1>3. Len(p) \in Nat /\ Len(q) \in Nat /\ Len(s) \in Nat /\ n \in Nat /\ n <= Len(q)
  OBVIOUS
<1>4. Piece(g, s, a)
  <2>1. a + Len(g) <= Len(s)
    BY <1>2, <1>3 DEF Piece
  <2>2. ASSUME NEW j \in 1..Len(g) PROVE g[j] = s[a + j]
    <3>1. CASE j \in 1..Len(p)
      BY <1>2, <3>1 DEF Piece
    <3>2. CASE j \notin 1..Len(p)
      <4>1. j - Len(p) \in 1..n /\ j = Len(p) + (j - Len(p))
        BY <1>2, <1>3, <3>2
      <4>2. g[j] = q[j - Len(p)]
        BY <1>1, <1>2, <4>1
      <4>3. j - Len(p) \in 1..Len(q) /\ (a + Len(p)) + (j - Len(p)) = a + j
        BY <1>3, <4>1
      <4> QED
        BY <4>2, <4>3 DEF Piece
    <3> QED
      BY <3>1, <3>2
  <2> QED
    BY <2>1, <2>2 DEF Piece
<1>5. Piece(r, s, a + (Len(p) + n))
  <2>1. a + (Len(p) + n) + Len(r) <= Len(s)
    BY <1>1, <1>3 DEF Piece
  <2>2. ASSUME NEW j \in 1..Len(r) PROVE r[j] = s[(a + (Len(p) + n)) + j]
    <3>1. n + j \in 1..Len(q) /\ r[j] = q[n + j]
      BY <1>1, <1>3
    <3>2. (a + Len(p)) + (n + j) = (a + (Len(p) + n)) + j
      BY <1>1, <1>3
    <3> QED
      BY <3>1, <3>2 DEF Piece
  <2> QED
    BY <2>1, <2>2 DEF Piece
<1> QED
  BY <1>1, <1>2, <1>4, <1>5 DEF f, r, g

\* A piece of a stream is one of a longer stream.
LEMMA PieceStays ==
  ASSUME NEW s \in Seq(Byte), NEW e \in Seq(Byte), NEW a \in Nat, NEW p \in Seq(Byte),
         Piece(p, s, a)
  PROVE  Piece(p, s \o e, a)
<1>1. Len(s \o e) = Len(s) + Len(e) /\ \A j \in 1..Len(s) : (s \o e)[j] = s[j]
  BY JoinFacts
<1>2. \A j \in 1..Len(p) : a + j \in 1..Len(s)
  BY DEF Piece
<1> QED
  BY <1>1, <1>2 DEF Piece

\* Two pieces in a row are one.
LEMMA PieceJoins ==
  ASSUME NEW s \in Seq(Byte), NEW a \in Nat, NEW p \in Seq(Byte), NEW q \in Seq(Byte),
         Piece(p, s, a), Piece(q, s, a + Len(p))
  PROVE  Piece(p \o q, s, a)
<1>1. /\ Len(p \o q) = Len(p) + Len(q) /\ \A j \in 1..Len(p) : (p \o q)[j] = p[j]
      /\ \A j \in 1..Len(q) : (p \o q)[Len(p) + j] = q[j]
  BY JoinFacts
<1>2. First(q, Len(q)) = q
  <2>1. PICK n \in 0..Len(q) : n = Len(q)
    OBVIOUS
  <2>2. PICK f \in Seq(Byte) : f = First(q, n)
    BY CutFacts
  <2>3. Len(f) = n
    BY <2>2, CutFacts
  <2>4. \A j \in 1..n : f[j] = q[j]
    BY <2>2, CutFacts
  <2>5. f = q
    BY <2>1, <2>3, <2>4, SameBytes
  <2> QED
    BY <2>1, <2>2, <2>5
<1>3. Piece(p \o First(q, Len(q)), s, a)
  BY PieceMoves
<1> QED
  BY <1>2, <1>3

\* What is appended to a stream follows what was its end.
LEMMA PieceAdded ==
  ASSUME NEW s \in Seq(Byte), NEW e \in Seq(Byte), NEW a \in Nat, NEW p \in Seq(Byte),
         Piece(p, s, a), a + Len(p) = Len(s)
  PROVE  Piece(p \o e, s \o e, a)
<1>1. s \o e \in Seq(Byte) /\ Piece(p, s \o e, a)
  BY PieceStays, JoinFacts
<1>2. Piece(e, s \o e, a + Len(p))
  BY JoinFacts DEF Piece
<1> QED
  BY <1>1, <1>2, PieceJoins

-----------------------------------------------------------------------------
(* Units: a prefix and what follows it.                                    *)

\* A prefix and a payload appended to a stream.
LEMMA UnitAdded ==
  ASSUME NEW s \in Seq(Byte), NEW p \in Seq(Byte), NEW b \in Seq(Byte)
  PROVE  /\ (s \o p) \o b \in Seq(Byte) /\ Len((s \o p) \o b) = Len(s) + Len(p) + Len(b)
         /\ \A j \in 1..Len(s) : ((s \o p) \o b)[j] = s[j]
         /\ \A j \in 1..Len(p) : ((s \o p) \o b)[Len(s) + j] = p[j]
         /\ \A j \in 1..Len(b) : ((s \o p) \o b)[Len(s) + Len(p) + j] = b[j]
<1> DEFINE c == s \o p
<1>1. /\ c \in Seq(Byte) /\ Len(c) = Len(s) + Len(p)
      /\ \A j \in 1..Len(s) : c[j] = s[j]
      /\ \A j \in 1..Len(p) : c[Len(s) + j] = p[j]
  BY JoinFacts
<1> HIDE DEF c
<1>2. /\ c \o b \in Seq(Byte) /\ Len(c \o b) = Len(c) + Len(b)
      /\ \A j \in 1..Len(c) : (c \o b)[j] = c[j]
      /\ \A j \in 1..Len(b) : (c \o b)[Len(c) + j] = b[j]
  BY <1>1, JoinFacts
<1>3. \A j \in 1..Len(s) : j \in 1..Len(c)
  BY <1>1
<1>4. \A j \in 1..Len(p) : Len(s) + j \in 1..Len(c)
  BY <1>1
<1> QED
  BY <1>1, <1>2, <1>3, <1>4 DEF c

LEMMA UnitIn ==
  ASSUME NEW s \in Seq(Byte), NEW p \in Seq(Byte), NEW b \in Seq(Byte)
  PROVE  (s \o p) \o b \in Seq(Byte)
  BY UnitAdded

LEMMA UnitLen ==
  ASSUME NEW s \in Seq(Byte), NEW p \in Seq(Byte), NEW b \in Seq(Byte)
  PROVE  Len((s \o p) \o b) = Len(s) + Len(p) + Len(b)
  BY UnitAdded

LEMMA UnitHead ==
  ASSUME NEW s \in Seq(Byte), NEW p \in Seq(Byte), NEW b \in Seq(Byte)
  PROVE  \A j \in 1..Len(s) : ((s \o p) \o b)[j] = s[j]
  BY UnitAdded

LEMMA UnitPrefix ==
  ASSUME NEW s \in Seq(Byte), NEW p \in Seq(Byte), NEW b \in Seq(Byte)
  PROVE  \A j \in 1..Len(p) : ((s \o p) \o b)[Len(s) + j] = p[j]
  BY UnitAdded

LEMMA UnitLoad ==
  ASSUME NEW s \in Seq(Byte), NEW p \in Seq(Byte), NEW b \in Seq(Byte)
  PROVE  \A j \in 1..Len(b) : ((s \o p) \o b)[Len(s) + Len(p) + j] = b[j]
  BY UnitAdded

\* What a layout says of one unit.
LEMMA LayoutAt ==
  ASSUME NEW s \in Seq(Byte), NEW at, NEW type, NEW sizes \in Seq(Nat), NEW extra,
         Layout(s, at, type, sizes, extra), NEW i \in 1..(Len(sizes) + 1)
  PROVE  at[i] \in 0..Len(s)
  BY DEF Layout

LEMMA LayoutStep ==
  ASSUME NEW s \in Seq(Byte), NEW at, NEW type, NEW sizes \in Seq(Nat), NEW extra,
         Layout(s, at, type, sizes, extra), NEW i \in 1..Len(sizes)
  PROVE  at[i + 1] = at[i] + PrefixLen + sizes[i] + extra
  BY DEF Layout

LEMMA LayoutEnds ==
  ASSUME NEW s \in Seq(Byte), NEW at, NEW type, NEW sizes \in Seq(Nat), NEW extra,
         Layout(s, at, type, sizes, extra)
  PROVE  at[1] = 0 /\ at[Len(sizes) + 1] = Len(s)
  BY DEF Layout

LEMMA LayoutHead ==
  ASSUME NEW s \in Seq(Byte), NEW at, NEW type, NEW sizes \in Seq(Nat), NEW extra,
         Layout(s, at, type, sizes, extra), NEW i \in 1..Len(sizes), NEW k \in 1..PrefixLen
  PROVE  s[at[i] + k] = [t |-> "len", v |-> sizes[i], k |-> k]
  BY DEF Layout

LEMMA LayoutLoads ==
  ASSUME NEW s \in Seq(Byte), NEW at, NEW type, NEW sizes \in Seq(Nat), NEW extra,
         Layout(s, at, type, sizes, extra), NEW i \in 1..Len(sizes)
  PROVE  \A k \in 1..(sizes[i] + extra) :
           s[at[i] + PrefixLen + k] = [t |-> type, v |-> i, k |-> k]
  BY DEF Layout

\* The positions of i units, and of one more that ends at e.
Grown(at, i, e) == [j \in 1..(i + 1) |-> IF j <= i THEN at[j] ELSE e]

LEMMA GrownSame ==
  ASSUME NEW at, NEW i \in Nat, NEW e, NEW j \in 1..i
  PROVE  Grown(at, i, e)[j] = at[j]
  BY DEF Grown

LEMMA LayoutGrows ==
  ASSUME NEW s \in Seq(Byte), NEW at, NEW type, type \in {"body", "seal"}, NEW sizes \in Seq(Nat),
         NEW extra \in Nat, Layout(s, at, type, sizes, extra), NEW n \in Nat,
         NEW x \in Nat, x = n + extra, NEW i1 \in Nat, i1 = Len(sizes) + 1
  PROVE  Layout((s \o Prefix(n)) \o Bytes(type, i1, x), Grown(at, i1, Len(s) + PrefixLen + x),
                type, Append(sizes, n), extra)
<1>01. PICK m \in Nat : m = Len(sizes)
  OBVIOUS
<1>02. i1 = m + 1
  BY <1>01
<1>03. x = n + extra
  OBVIOUS
<1>04. PICK l \in Nat : l = Len(s)
  OBVIOUS
<1>05. PrefixLen \in Nat
  BY StreamAssumption
<1> DEFINE p == Prefix(n)
           b == Bytes(type, i1, x)
           u == (s \o p) \o b
           z == Append(sizes, n)
           to == Grown(at, i1, l + PrefixLen + x)
<1>1. /\ p \in Seq(Byte) /\ Len(p) = PrefixLen
      /\ \A k \in 1..PrefixLen : p[k] = [t |-> "len", v |-> n, k |-> k]
  <2>1. PICK head : head = "len" /\ head \in {"len", "body", "seal"}
    OBVIOUS
  <2>2. p = Bytes(head, n, PrefixLen)
    BY <2>1 DEF Prefix
  <2> HIDE DEF p
  <2>3. p \in Seq(Byte)
    BY <1>05, <2>1, <2>2, BytesIn
  <2>4. Len(p) = PrefixLen
    BY <1>05, <2>1, <2>2, BytesLen
  <2>5. \A k \in 1..PrefixLen : p[k] = [t |-> head, v |-> n, k |-> k]
    BY <1>05, <2>1, <2>2, BytesAt
  <2> QED
    BY <2>1, <2>3, <2>4, <2>5
<1>2. b \in Seq(Byte) /\ Len(b) = x
  <2>1. b \in Seq(Byte)
    BY BytesIn
  <2>2. Len(b) = x
    BY BytesLen
  <2> QED
    BY <2>1, <2>2
<1>21. \A k \in 1..x : b[k] = [t |-> type, v |-> i1, k |-> k]
  BY BytesAt
<1>3. /\ z \in Seq(Nat) /\ Len(z) = i1 /\ z[i1] = n
      /\ \A i \in 1..m : z[i] = sizes[i] /\ sizes[i] \in Nat
  BY <1>01, <1>02
<1>31. z = Append(sizes, n)
  OBVIOUS
<1>32. u = (s \o p) \o b /\ p = Prefix(n) /\ b = Bytes(type, i1, x)
  OBVIOUS
<1>33. to = [j \in 1..(i1 + 1) |-> IF j <= i1 THEN at[j] ELSE l + PrefixLen + x]
  BY DEF Grown
<1>34. to = Grown(at, i1, Len(s) + PrefixLen + x)
  BY <1>04
<1> HIDE DEF p, b, z, u, to
<1>4. /\ u \in Seq(Byte) /\ Len(u) = l + PrefixLen + x
      /\ \A j \in 1..l : u[j] = s[j]
      /\ \A j \in 1..PrefixLen : u[l + j] = p[j]
      /\ \A j \in 1..x : u[l + PrefixLen + j] = b[j]
  <2>1. /\ (s \o p) \o b \in Seq(Byte) /\ Len((s \o p) \o b) = Len(s) + Len(p) + Len(b)
        /\ \A j \in 1..Len(s) : ((s \o p) \o b)[j] = s[j]
        /\ \A j \in 1..Len(p) : ((s \o p) \o b)[Len(s) + j] = p[j]
        /\ \A j \in 1..Len(b) : ((s \o p) \o b)[Len(s) + Len(p) + j] = b[j]
    <3>1. p \in Seq(Byte) /\ b \in Seq(Byte)
      BY <1>1, <1>2
    <3>2. (s \o p) \o b \in Seq(Byte)
      BY <3>1, UnitIn
    <3>3. Len((s \o p) \o b) = Len(s) + Len(p) + Len(b)
      BY <3>1, UnitLen
    <3>4. \A j \in 1..Len(s) : ((s \o p) \o b)[j] = s[j]
      BY <3>1, UnitHead
    <3>5. \A j \in 1..Len(p) : ((s \o p) \o b)[Len(s) + j] = p[j]
      BY <3>1, UnitPrefix
    <3>6. \A j \in 1..Len(b) : ((s \o p) \o b)[Len(s) + Len(p) + j] = b[j]
      BY <3>1, UnitLoad
    <3> QED
      BY <3>2, <3>3, <3>4, <3>5, <3>6
  <2> QED
    BY <1>04, <1>1, <1>2, <1>32, <2>1
<1>5. \A i \in 1..i1 : at[i] \in 0..l
  BY <1>01, <1>02, <1>04, LayoutAt
<1>51. at[1] = 0 /\ at[i1] = l
  BY <1>01, <1>02, <1>04, LayoutEnds
<1>52. \A i \in 1..m : at[i + 1] = at[i] + PrefixLen + sizes[i] + extra
  BY <1>01, LayoutStep
<1>53. \A i \in 1..m : \A k \in 1..PrefixLen : s[at[i] + k] = [t |-> "len", v |-> sizes[i], k |-> k]
  <2>1. SUFFICES ASSUME NEW i \in 1..m, NEW k \in 1..PrefixLen
                 PROVE  s[at[i] + k] = [t |-> "len", v |-> sizes[i], k |-> k]
    OBVIOUS
  <2>2. i \in 1..Len(sizes)
    BY <1>01
  <2> QED
    BY <2>2, LayoutHead
<1>54. \A i \in 1..m : \A k \in 1..(sizes[i] + extra) :
         s[at[i] + PrefixLen + k] = [t |-> type, v |-> i, k |-> k]
  BY <1>01, LayoutLoads
<1>6. \A i \in 1..i1 : to[i] = at[i]
  BY <1>33
<1>7. to \in [1..(i1 + 1) -> 0..Len(u)] /\ to[i1 + 1] = Len(u) /\ to[1] = 0
  <2>1. ASSUME NEW i \in 1..(i1 + 1) PROVE to[i] \in 0..Len(u)
    <3>1. CASE i <= i1
      <4>1. at[i] \in 0..l
        BY <1>5, <3>1
      <4> QED
        BY <1>05, <1>4, <1>6, <3>1, <4>1
    <3>2. CASE ~(i <= i1)
      BY <1>05, <1>33, <1>4, <3>2
    <3> QED
      BY <3>1, <3>2
  <2>2. to[i1 + 1] = Len(u)
    BY <1>33, <1>4
  <2>3. to[1] = 0
    BY <1>02, <1>6, <1>51
  <2> QED
    BY <1>33, <2>1, <2>2, <2>3
<1>8. ASSUME NEW i \in 1..i1
      PROVE  /\ to[i + 1] = to[i] + PrefixLen + z[i] + extra
             /\ \A k \in 1..PrefixLen : u[to[i] + k] = [t |-> "len", v |-> z[i], k |-> k]
             /\ \A k \in 1..(z[i] + extra) :
                  u[to[i] + PrefixLen + k] = [t |-> type, v |-> i, k |-> k]
  <2>1. CASE i = i1
    <3>1. to[i] = l /\ z[i] = n
      BY <1>3, <1>51, <1>6, <2>1
    <3>2. to[i + 1] = l + PrefixLen + x
      BY <1>4, <1>7, <2>1
    <3>3. to[i + 1] = to[i] + PrefixLen + z[i] + extra
      BY <1>03, <1>05, <3>1, <3>2
    <3>4. \A k \in 1..PrefixLen : u[to[i] + k] = [t |-> "len", v |-> z[i], k |-> k]
      BY <1>1, <1>4, <3>1
    <3>5. \A k \in 1..(z[i] + extra) : u[to[i] + PrefixLen + k] = [t |-> type, v |-> i, k |-> k]
      BY <1>03, <1>21, <1>4, <2>1, <3>1
    <3> QED
      BY <3>3, <3>4, <3>5
  <2>2. CASE i # i1
    <3>1. i \in 1..m /\ i + 1 \in 1..i1 /\ sizes[i] \in Nat /\ z[i] = sizes[i]
      BY <1>02, <1>3, <2>2
    <3>2. to[i] = at[i] /\ to[i + 1] = at[i + 1] /\ at[i] \in 0..l /\ at[i + 1] \in 0..l
      BY <1>5, <1>6, <3>1
    <3>3. at[i + 1] = at[i] + PrefixLen + sizes[i] + extra
      BY <1>52, <3>1
    <3>33. /\ \A k \in 1..PrefixLen : at[i] + k \in 1..l
           /\ \A k \in 1..(sizes[i] + extra) : at[i] + PrefixLen + k \in 1..l
      <4>1. PICK a \in Nat : a = at[i]
        BY <3>2
      <4>2. PICK c \in Nat : c = sizes[i]
        BY <3>1
      <4>3. a + PrefixLen + c + extra <= l
        BY <3>2, <3>3, <4>1, <4>2
      <4>4. /\ \A k \in 1..PrefixLen : a + k \in 1..l
            /\ \A k \in 1..(c + extra) : a + PrefixLen + k \in 1..l
        BY <1>05, <4>3
      <4> QED
        BY <4>1, <4>2, <4>4
    <3>4. ASSUME NEW k \in 1..PrefixLen
          PROVE  u[to[i] + k] = [t |-> "len", v |-> z[i], k |-> k]
      <4>1. at[i] + k \in 1..l
        BY <3>33, <3>1
      <4>2. u[at[i] + k] = s[at[i] + k]
        BY <1>4, <4>1
      <4> QED
        BY <1>53, <3>1, <3>2, <4>2
    <3>5. ASSUME NEW k \in 1..(z[i] + extra)
          PROVE  u[to[i] + PrefixLen + k] = [t |-> type, v |-> i, k |-> k]
      <4>1. at[i] + PrefixLen + k \in 1..l
        BY <3>33, <3>1
      <4>2. u[at[i] + PrefixLen + k] = s[at[i] + PrefixLen + k]
        BY <1>4, <4>1
      <4>3. s[at[i] + PrefixLen + k] = [t |-> type, v |-> i, k |-> k]
        BY <1>54, <3>1
      <4> QED
        BY <3>2, <4>2, <4>3
    <3> QED
      BY <3>1, <3>2, <3>3, <3>4, <3>5
  <2> QED
    BY <2>1, <2>2
<1>9. Layout(u, to, type, z, extra)
  BY <1>02, <1>3, <1>4, <1>7, <1>8 DEF Layout
<1> QED
  BY <1>31, <1>32, <1>34, <1>9

\* A prefix that is read to its end says the size of its unit.
LEMMA HeaderRead ==
  ASSUME NEW s \in Seq(Byte), NEW at, NEW type, NEW sizes \in Seq(Nat), NEW extra \in Nat,
         Layout(s, at, type, sizes, extra), NEW n, NEW buf \in Seq(Byte),
         Takes(buf, 0, n, s, at, sizes), Len(buf) = PrefixLen
  PROVE  n + 1 \in 1..Len(sizes) /\ buf = Prefix(sizes[n + 1])
<1>1. n \in 0..Len(sizes) /\ Piece(buf, s, at[n + 1] + 0)
  BY DEF Takes, Base
<1>2. PrefixLen \in Nat \ {0} /\ Len(sizes) \in Nat
  BY StreamAssumption
<1>3. PICK i \in 1..(Len(sizes) + 1) : i = n + 1
  BY <1>1, <1>2
<1>4. PICK a \in 0..Len(s) : a = at[i]
  BY LayoutAt
<1>5. a + PrefixLen <= Len(s) /\ \A k \in 1..PrefixLen : buf[k] = s[a + k]
  <2>1. Piece(buf, s, a)
    BY <1>1, <1>3, <1>4
  <2> QED
    BY <2>1 DEF Piece
<1>6. i \in 1..Len(sizes)
  <2>1. i = Len(sizes) + 1 => a = Len(s)
    BY <1>4, LayoutEnds
  <2> QED
    BY <1>2, <1>4, <1>5, <2>1
<1>7. PICK z \in Nat : z = sizes[i]
  BY <1>6
<1>8. \A k \in 1..PrefixLen : buf[k] = [t |-> "len", v |-> z, k |-> k]
  <2>1. SUFFICES ASSUME NEW k \in 1..PrefixLen PROVE buf[k] = [t |-> "len", v |-> z, k |-> k]
    OBVIOUS
  <2>2. s[at[i] + k] = [t |-> "len", v |-> sizes[i], k |-> k]
    BY <1>6, LayoutHead
  <2> QED
    BY <1>4, <1>5, <1>7, <2>2
<1>9. buf = Prefix(z)
  <2> DEFINE p == Prefix(z)
  <2>1. p \in Seq(Byte) /\ Len(p) = PrefixLen
    BY <1>2, BytesIn, BytesLen DEF Prefix
  <2>2. \A k \in 1..PrefixLen : p[k] = [t |-> "len", v |-> z, k |-> k]
    BY <1>2, BytesAt DEF Prefix
  <2> HIDE DEF p
  <2>3. buf = p
    BY <1>8, <2>1, <2>2, SameBytes
  <2> QED
    BY <2>3 DEF p
<1> QED
  BY <1>3, <1>6, <1>7, <1>9

\* The payload that is read to its end is the next one.
LEMMA PayloadNext ==
  ASSUME NEW s \in Seq(Byte), NEW at, NEW sizes \in Seq(Nat), NEW n, NEW buf,
         NEW size \in Nat, size # 0, Takes(buf, size, n, s, at, sizes)
  PROVE  n + 1 \in 1..Len(sizes) /\ size = sizes[n + 1]
  BY DEF Takes

LEMMA PayloadRead ==
  ASSUME NEW s \in Seq(Byte), NEW at, NEW type, type \in {"body", "seal"}, NEW sizes \in Seq(Nat),
         NEW extra \in Nat, Layout(s, at, type, sizes, extra), NEW n, NEW buf \in Seq(Byte),
         NEW size \in Nat, size # 0, Takes(buf, size, n, s, at, sizes),
         NEW x \in Nat, x = size + extra, Len(buf) = x
  PROVE  buf = Bytes(type, n + 1, x)
<1>1. /\ n \in 0..Len(sizes) /\ n < Len(sizes) /\ size = sizes[n + 1]
      /\ Piece(buf, s, at[n + 1] + PrefixLen)
  BY DEF Takes, Base
<1>2. PrefixLen \in Nat /\ Len(sizes) \in Nat
  BY StreamAssumption
<1>3. PICK i \in 1..Len(sizes) : i = n + 1
  BY <1>1, <1>2
<1>4. PICK a \in 0..Len(s) : a = at[i]
  <2>1. i \in 1..(Len(sizes) + 1)
    OBVIOUS
  <2> QED
    BY <2>1, LayoutAt
<1>5. \A k \in 1..x : buf[k] = s[a + PrefixLen + k]
  <2>1. Piece(buf, s, a + PrefixLen)
    BY <1>1, <1>3, <1>4
  <2> QED
    BY <2>1 DEF Piece
<1>6. \A k \in 1..(sizes[i] + extra) :
         s[at[i] + PrefixLen + k] = [t |-> type, v |-> i, k |-> k]
  BY LayoutLoads
<1>7. \A k \in 1..x : buf[k] = [t |-> type, v |-> i, k |-> k]
  BY <1>1, <1>3, <1>4, <1>5, <1>6
<1>8. type \in {"len", "body", "seal"} /\ i \in Nat
  OBVIOUS
<1> DEFINE p == Bytes(type, i, x)
<1>9. p \in Seq(Byte)
  BY <1>8, BytesIn
<1>10. Len(p) = x
  BY <1>8, BytesLen
<1>11. \A k \in 1..x : p[k] = [t |-> type, v |-> i, k |-> k]
  BY <1>8, BytesAt
<1> HIDE DEF p
<1>12. buf = p
  BY <1>7, <1>9, <1>10, <1>11, SameBytes
<1> QED
  BY <1>3, <1>12 DEF p

\* A length is read from its own prefix, and from no other bytes.
LEMMA LengthOfPrefix ==
  ASSUME NEW v \in Nat
  PROVE  Lengths(Prefix(v)) = {v}
<1>1. PrefixLen \in Nat /\ 1 \in 1..PrefixLen
  BY StreamAssumption
<1>2. Len(Prefix(v)) = PrefixLen
  BY <1>1, BytesLen DEF Prefix
<1>3. Prefix(v)[1] = [t |-> "len", v |-> v, k |-> 1]
  BY <1>1, BytesAt DEF Prefix
<1>4. Prefix(v)[1].v = v
  BY <1>3
<1>5. Begins(Prefix(v), "len")
  <2>1. Prefix(v) = Bytes("len", v, PrefixLen)
    BY DEF Prefix
  <2> QED
    BY <1>2, <1>4, <2>1 DEF Begins
<1> QED
  BY <1>4, <1>5 DEF Lengths

-----------------------------------------------------------------------------
(* A reader of units.                                                      *)

LEMMA BaseNat ==
  ASSUME NEW s \in Seq(Byte), NEW at, NEW type, NEW sizes \in Seq(Nat), NEW extra,
         Layout(s, at, type, sizes, extra), NEW n \in 0..Len(sizes), NEW size
  PROVE  Base(at, n, size) \in Nat
<1>1. n + 1 \in 1..(Len(sizes) + 1)
  OBVIOUS
<1>2. at[n + 1] \in 0..Len(s)
  BY <1>1, LayoutAt
<1> QED
  BY <1>2, StreamAssumption DEF Base

\* It takes some of the bytes that follow its own.
LEMMA TakesMore ==
  ASSUME NEW s \in Seq(Byte), NEW at, NEW type, NEW sizes \in Seq(Nat), NEW extra,
         Layout(s, at, type, sizes, extra), NEW n, NEW size, NEW buf \in Seq(Byte),
         Takes(buf, size, n, s, at, sizes), NEW q \in Seq(Byte),
         Piece(q, s, Base(at, n, size) + Len(buf)), NEW k \in 0..Len(q)
  PROVE  /\ buf \o First(q, k) \in Seq(Byte) /\ Len(buf \o First(q, k)) = Len(buf) + k
         /\ Takes(buf \o First(q, k), size, n, s, at, sizes)
         /\ Rest(q, k) \in Seq(Byte) /\ Len(Rest(q, k)) = Len(q) - k
         /\ Piece(Rest(q, k), s, Base(at, n, size) + (Len(buf) + k))
<1>1. /\ n \in 0..Len(sizes) /\ (size # 0 => n < Len(sizes) /\ size = sizes[n + 1])
      /\ Piece(buf, s, Base(at, n, size))
  BY DEF Takes
<1>2. PICK a \in Nat : a = Base(at, n, size)
  BY <1>1, BaseNat
<1>3. Piece(buf, s, a) /\ Piece(q, s, a + Len(buf))
  BY <1>1, <1>2
<1>4. /\ buf \o First(q, k) \in Seq(Byte) /\ Len(buf \o First(q, k)) = Len(buf) + k
      /\ Piece(buf \o First(q, k), s, a)
      /\ Rest(q, k) \in Seq(Byte) /\ Len(Rest(q, k)) = Len(q) - k
      /\ Piece(Rest(q, k), s, a + (Len(buf) + k))
  BY <1>3, PieceMoves
<1>5. Takes(buf \o First(q, k), size, n, s, at, sizes)
  BY <1>1, <1>2, <1>4 DEF Takes
<1> QED
  BY <1>2, <1>4, <1>5

\* It goes from the prefix to the payload.
LEMMA TakesHeader ==
  ASSUME NEW s \in Seq(Byte), NEW at, NEW type, NEW sizes \in Seq(Nat), NEW extra \in Nat,
         Layout(s, at, type, sizes, extra), NEW n, NEW buf \in Seq(Byte),
         Takes(buf, 0, n, s, at, sizes), Len(buf) = PrefixLen,
         NEW size \in Nat, size # 0, size = sizes[n + 1]
  PROVE  Takes(<<>>, size, n, s, at, sizes)
<1>1. n + 1 \in 1..Len(sizes)
  BY HeaderRead
<1>2. n \in 0..Len(sizes) /\ n < Len(sizes)
  BY <1>1 DEF Takes
<1>3. PICK i \in 1..Len(sizes) : i = n + 1
  BY <1>1
<1>4. i \in 1..(Len(sizes) + 1) /\ i + 1 \in 1..(Len(sizes) + 1)
  OBVIOUS
<1>5. at[i] \in 0..Len(s) /\ at[i + 1] \in 0..Len(s)
  BY <1>4, LayoutAt
<1>6. at[i + 1] = at[i] + PrefixLen + size + extra
  BY <1>3, LayoutStep
<1>7. PrefixLen \in Nat
  BY StreamAssumption
<1>8. at[i] + PrefixLen <= Len(s)
  <2>1. PICK a \in Nat : a = at[i]
    BY <1>5
  <2>2. PICK b \in Nat : b = at[i + 1] /\ b <= Len(s)
    BY <1>5
  <2>3. b = a + PrefixLen + size + extra
    BY <1>6, <2>1, <2>2
  <2>4. PICK l \in Nat : l = Len(s)
    OBVIOUS
  <2>5. b <= l
    BY <2>2, <2>4
  <2>6. a + PrefixLen <= l
    BY <1>7, <2>3, <2>5, SumFits
  <2> QED
    BY <2>1, <2>4, <2>6
<1>9. Base(at, n, size) = at[i] + PrefixLen /\ Base(at, n, 0) = at[i] + 0
  BY <1>3 DEF Base
<1>10. Piece(<<>>, s, at[i] + PrefixLen)
  BY <1>5, <1>7, <1>8 DEF Piece
<1> QED
  BY <1>2, <1>9, <1>10 DEF Takes

LEMMA BaseHeader ==
  ASSUME NEW s \in Seq(Byte), NEW at, NEW type, NEW sizes \in Seq(Nat), NEW extra \in Nat,
         Layout(s, at, type, sizes, extra), NEW n, NEW buf \in Seq(Byte),
         Takes(buf, 0, n, s, at, sizes), Len(buf) = PrefixLen, NEW size \in Nat, size # 0
  PROVE  Base(at, n, size) = Base(at, n, 0) + Len(buf)
<1>1. n + 1 \in 1..(Len(sizes) + 1)
  BY DEF Takes
<1>2. PICK i \in 1..(Len(sizes) + 1) : i = n + 1
  BY <1>1
<1>21. at[i] \in 0..Len(s)
  BY LayoutAt
<1>3. PICK a \in Nat : a = at[i]
  BY <1>21
<1>4. PrefixLen \in Nat
  BY StreamAssumption
<1>5. Base(at, n, size) = a + PrefixLen /\ Base(at, n, 0) = a + 0
  BY <1>2, <1>3 DEF Base
<1> QED
  BY <1>3, <1>4, <1>5

\* It goes from the payload to the next prefix.
LEMMA TakesUnit ==
  ASSUME NEW s \in Seq(Byte), NEW at, NEW type, NEW sizes \in Seq(Nat), NEW extra \in Nat,
         Layout(s, at, type, sizes, extra), NEW n, NEW buf \in Seq(Byte),
         NEW size \in Nat, size # 0, Takes(buf, size, n, s, at, sizes), Len(buf) = size + extra
  PROVE  Takes(<<>>, 0, n + 1, s, at, sizes)
<1>1. /\ n \in 0..Len(sizes) /\ n < Len(sizes) /\ size = sizes[n + 1]
      /\ Base(at, n, size) = at[n + 1] + PrefixLen
  BY DEF Takes, Base
<1>2. PrefixLen \in Nat
  BY StreamAssumption
<1>21. PICK h \in 1..Len(sizes) : h = n + 1
  BY <1>1
<1>22. at[h + 1] = at[h] + PrefixLen + size + extra
  BY <1>1, <1>21, LayoutStep
<1>23. at[h] \in 0..Len(s)
  BY LayoutAt
<1>3. PICK i \in 1..(Len(sizes) + 1) : i = h + 1
  OBVIOUS
<1>4. at[i] \in 0..Len(s)
  BY LayoutAt
<1>5. (n + 1) + 1 = i
  BY <1>3, <1>21
<1>6. Base(at, n + 1, 0) = at[i] + 0
  BY <1>5 DEF Base
<1>7. Piece(<<>>, s, at[i] + 0)
  BY <1>4 DEF Piece
<1> QED
  BY <1>21, <1>6, <1>7 DEF Takes

\* What is appended to the stream does not concern it.
LEMMA BaseGrows ==
  ASSUME NEW at, NEW n \in Nat, NEW size, NEW i \in Nat, n < i, NEW x
  PROVE  Base(Grown(at, i, x), n, size) = Base(at, n, size)
<1>1. PICK h \in 1..i : h = n + 1
  OBVIOUS
<1>2. Grown(at, i, x)[h] = at[h]
  BY GrownSame
<1> QED
  BY <1>1, <1>2 DEF Base

LEMMA TakesGrows ==
  ASSUME NEW s \in Seq(Byte), NEW at, NEW type, NEW sizes \in Seq(Nat), NEW extra,
         Layout(s, at, type, sizes, extra), NEW n, NEW size, NEW buf \in Seq(Byte),
         Takes(buf, size, n, s, at, sizes), NEW e \in Seq(Byte), NEW m \in Nat,
         NEW i \in Nat, i = Len(sizes) + 1, NEW x
  PROVE  Takes(buf, size, n, s \o e, Grown(at, i, x), Append(sizes, m))
<1>1. /\ n \in 0..Len(sizes) /\ (size # 0 => n < Len(sizes) /\ size = sizes[n + 1])
      /\ Piece(buf, s, Base(at, n, size))
  BY DEF Takes
<1>2. PICK a \in Nat : a = Base(at, n, size)
  BY <1>1, BaseNat
<1>3. Piece(buf, s \o e, a)
  BY <1>1, <1>2, PieceStays
<1>4. Base(Grown(at, i, x), n, size) = a
  BY <1>1, <1>2, BaseGrows
<1>5. Len(Append(sizes, m)) = Len(sizes) + 1
  OBVIOUS
<1>6. \A j \in 1..Len(sizes) : Append(sizes, m)[j] = sizes[j]
  OBVIOUS
<1>7. n \in 0..Len(Append(sizes, m))
  BY <1>1, <1>5
<1>8. ASSUME size # 0 PROVE n < Len(Append(sizes, m)) /\ size = Append(sizes, m)[n + 1]
  <2>1. n + 1 \in 1..Len(sizes)
    BY <1>1, <1>8
  <2> QED
    BY <1>1, <1>5, <1>6, <1>8, <2>1
<1> QED
  BY <1>3, <1>4, <1>7, <1>8 DEF Takes

\* A stream of no units.
LEMMA LayoutEmpty ==
  ASSUME NEW type, NEW extra
  PROVE  Layout(<<>>, [i \in 1..1 |-> 0], type, <<>>, extra)
<1>1. Len(<<>>) = 0 /\ <<>> \in Seq(Byte)
  OBVIOUS
<1>2. [i \in 1..1 |-> 0] \in [1..(0 + 1) -> 0..0]
  OBVIOUS
<1> QED
  BY <1>1, <1>2 DEF Layout

-----------------------------------------------------------------------------
(* Types.                                                                  *)

LEMMA SizesFacts ==
  ASSUME records \in Seq(Seq(Byte))
  PROVE  /\ Sizes \in Seq(Nat) /\ Len(Sizes) = Len(records)
         /\ \A r \in 1..Len(records) : Sizes[r] = Len(records[r])
<1>1. \A r \in 1..Len(records) : Len(records[r]) \in Nat
  OBVIOUS
<1> QED
  BY <1>1 DEF Sizes

LEMMA Parameters ==
  /\ PrefixLen \in Nat \ {0} /\ MaxSize \in Nat \ {0} /\ MaxChunk \in Nat \ {0}
  /\ Overhead \in Nat \ {0} /\ MaxMsgs \in Nat \ {0}
  /\ \A n \in Lens : n \in Nat \ {0} /\ n <= MaxSize
<1>1. {MaxMsgs, PrefixLen, MaxSize, MaxChunk, Overhead} \subseteq Nat \ {0} /\ Lens \subseteq 1..MaxSize
  BY StreamAssumption
<1> QED
  BY <1>1

LEMMA LengthsFacts ==
  ASSUME NEW s \in Seq(Byte), Len(s) > 0
  PROVE  Lengths(s) \subseteq Nat
<1>1. s[1] \in Byte
  OBVIOUS
<1>2. s[1].v \in Nat
  BY <1>1 DEF Byte
<1> QED
  BY <1>2, Parameters DEF Lengths

\* The writer's calls.
LEMMA CallsFacts ==
  ASSUME NEW i \in Nat, NEW n \in Nat
  PROVE  /\ Prefix(n) \in Seq(Byte) /\ Len(Prefix(n)) = PrefixLen
         /\ Body(i, n) \in Seq(Byte) /\ Len(Body(i, n)) = n
         /\ Calls(i, n) \in Seq(Seq(Byte))
<1>1. Prefix(n) \in Seq(Byte)
  BY Parameters, BytesIn DEF Prefix
<1>2. Len(Prefix(n)) = PrefixLen
  BY Parameters, BytesLen DEF Prefix
<1>3. Body(i, n) \in Seq(Byte)
  BY BytesIn DEF Body
<1>4. Len(Body(i, n)) = n
  BY BytesLen DEF Body
<1>5. Calls(i, n) \in Seq(Seq(Byte))
  BY <1>1, <1>3 DEF Calls
<1> QED
  BY <1>1, <1>2, <1>3, <1>4, <1>5

LEMMA SealFacts ==
  ASSUME NEW r \in Nat, NEW n \in Nat
  PROVE  Seal(r, n) \in Seq(Byte) /\ Len(Seal(r, n)) = n + Overhead
<1>1. n + Overhead \in Nat
  BY Parameters
<1>2. Seal(r, n) \in Seq(Byte)
  BY <1>1, BytesIn DEF Seal
<1>3. Len(Seal(r, n)) = n + Overhead
  BY <1>1, BytesLen DEF Seal
<1> QED
  BY <1>2, <1>3

\* The record a reader with the same token holds is the next one.
LEMMA RecordRead ==
  ASSUME TypeOK, NEW cip \in Seq(Byte), NEW n, NEW at,
         Layout(cip, at, "seal", Sizes, Overhead), Takes(raw, recLen, n, cip, at, Sizes),
         recLen > 0, RawMissing = 0
  PROVE  /\ n + 1 \in 1..Len(records) /\ recLen = Len(records[n + 1])
         /\ raw[1].v = n + 1 /\ Begins(raw, "seal")
<1>1. /\ raw \in Seq(Byte) /\ recLen \in Nat /\ recLen # 0 /\ Len(raw) = recLen + Overhead
      /\ records \in Seq(Seq(Byte)) /\ Overhead \in Nat
  BY Parameters DEF TypeOK, RawMissing
<1>2. /\ Sizes \in Seq(Nat) /\ Len(Sizes) = Len(records)
      /\ \A r \in 1..Len(records) : Sizes[r] = Len(records[r])
  BY <1>1, SizesFacts
<1>3. PICK z \in Seq(Nat) : z = Sizes
  BY <1>2
<1>31. Layout(cip, at, "seal", z, Overhead) /\ Takes(raw, recLen, n, cip, at, z)
  BY <1>3
<1>6. PICK x \in Nat : x = recLen + Overhead /\ x # 0
  BY <1>1
<1>4. n + 1 \in 1..Len(z) /\ recLen = z[n + 1]
  BY <1>1, <1>31, PayloadNext
<1>41. raw = Bytes("seal", n + 1, x)
  BY <1>1, <1>31, <1>6, PayloadRead
<1>5. PICK i \in Nat : i = n + 1 /\ i \in 1..Len(records)
  BY <1>2, <1>3, <1>4
<1>7. raw[1] = [t |-> "seal", v |-> i, k |-> 1]
  <2>1. 1 \in 1..x
    BY <1>6
  <2>2. Bytes("seal", i, x)[1] = [t |-> "seal", v |-> i, k |-> 1]
    BY <2>1, BytesAt
  <2> QED
    BY <1>41, <1>5, <1>6, <2>2
<1>8. raw[1].v = i
  BY <1>7
<1>9. Begins(raw, "seal")
  BY <1>1, <1>41, <1>5, <1>6, <1>8 DEF Begins
<1> QED
  BY <1>2, <1>3, <1>4, <1>5, <1>8, <1>9

\* The message a reader with the same token holds is the next one.
LEMMA MessageRead ==
  ASSUME TypeOK, NEW txt \in Seq(Byte), NEW off, Messages(txt, off), length > 0, Missing = 0
  PROVE  /\ Len(got) + 1 \in 1..Len(sent) /\ have[1].v = Len(got) + 1 /\ Whole
<1>1. /\ have \in Seq(Byte) /\ length \in Nat /\ length # 0 /\ Len(have) = length
      /\ sent \in Seq(Nat) /\ got \in Seq(Nat)
  BY Parameters DEF TypeOK, Missing
<1>2. Layout(txt, off, "body", sent, 0) /\ Takes(have, length, Len(got), txt, off, sent)
  BY DEF Messages
<1>3. Len(got) + 1 \in 1..Len(sent) /\ length = sent[Len(got) + 1]
  BY <1>1, <1>2, PayloadNext
<1>4. length = length + 0
  BY <1>1
<1>5. have = Bytes("body", Len(got) + 1, length)
  BY <1>1, <1>2, <1>4, PayloadRead
<1>6. PICK i \in Nat : i = Len(got) + 1
  BY <1>3
<1>7. have[1] = [t |-> "body", v |-> i, k |-> 1]
  <2>1. 1 \in 1..length
    BY <1>1
  <2>2. Bytes("body", i, length)[1] = [t |-> "body", v |-> i, k |-> 1]
    BY <1>1, <2>1, BytesAt
  <2> QED
    BY <1>5, <1>6, <2>2
<1>8. have[1].v = i
  BY <1>7
<1>9. Begins(have, "body")
  BY <1>1, <1>5, <1>6, <1>8 DEF Begins
<1> QED
  BY <1>3, <1>6, <1>8, <1>9 DEF Whole

-----------------------------------------------------------------------------
(* Type correctness of each action.                                        *)

LEMMA WriterTypes ==
  ASSUME TypeOK, (\E n \in Lens : Send(n)) \/ SendTooLong \/ Write
  PROVE  TypeOK'
<1>1. ASSUME NEW n \in Lens, Send(n) PROVE TypeOK'
  <2>1. sent' \in Seq(Lens) /\ Len(sent') \in Nat
    BY <1>1 DEF Send, TypeOK
  <2>2. n \in Nat
    BY Parameters
  <2>3. out' \in Seq(Seq(Byte))
    <3>1. Calls(Len(sent'), n) \in Seq(Seq(Byte))
      BY <2>1, <2>2, CallsFacts
    <3> QED
      BY <1>1, <3>1 DEF Send
  <2>4. UNCHANGED <<modeVars, records, line, wire, secureVars, readVars, reader>>
    BY <1>1 DEF Send
  <2> QED
    BY <2>1, <2>3, <2>4
    DEF TypeOK, modeVars, secureVars, readVars, RawMissing, Missing
<1>2. CASE SendTooLong
  BY <1>2 DEF SendTooLong, TypeOK, modeVars, writeVars, secureVars, readVars, RawMissing, Missing
<1>3. CASE WritePlain
  <2>1. wire' \in Seq(Byte) /\ out' \in Seq(Seq(Byte))
    <3>1. Head(out) \in Seq(Byte) /\ Tail(out) \in Seq(Seq(Byte)) /\ wire \in Seq(Byte)
      BY <1>3 DEF WritePlain, TypeOK
    <3> QED
      BY <1>3, <3>1 DEF WritePlain
  <2>2. UNCHANGED <<modeVars, sent, records, line, secureVars, readVars, reader>>
    BY <1>3 DEF WritePlain
  <2> QED
    BY <2>1, <2>2
    DEF TypeOK, modeVars, secureVars, readVars, RawMissing, Missing
<1>4. CASE WriteRecord
  <2> DEFINE h == Head(out)
             n == Smaller(Len(h), MaxChunk)
             rest == Rest(h, n)
  <2>1. /\ h \in Seq(Byte) /\ Tail(out) \in Seq(Seq(Byte)) /\ wire \in Seq(Byte)
        /\ records \in Seq(Seq(Byte))
    BY <1>4 DEF WriteRecord, TypeOK
  <2> HIDE DEF h
  <2>2. n \in 0..Len(h)
    BY <2>1, Parameters DEF Smaller
  <2> HIDE DEF n
  <2>3. First(h, n) \in Seq(Byte) /\ rest \in Seq(Byte)
    BY <2>1, <2>2, CutFacts
  <2>4. records' = Append(records, First(h, n))
    BY <1>4 DEF WriteRecord, h, n
  <2>5. records' \in Seq(Seq(Byte)) /\ Len(records') \in Nat
    BY <2>1, <2>3, <2>4
  <2>6. Prefix(n) \in Seq(Byte) /\ Seal(Len(records'), n) \in Seq(Byte)
    <3>1. n \in Nat
      BY <2>2
    <3>2. Prefix(n) \in Seq(Byte)
      BY <3>1, CallsFacts
    <3> QED
      BY <2>5, <3>1, <3>2, SealFacts
  <2>7. wire' = wire \o Prefix(n) \o Seal(Len(records'), n)
    BY <1>4 DEF WriteRecord, h, n
  <2>8. wire' \in Seq(Byte)
    BY <2>1, <2>6, <2>7
  <2>9. out' = IF rest = <<>> THEN Tail(out) ELSE <<rest>> \o Tail(out)
    BY <1>4 DEF WriteRecord, h, n
  <2> HIDE DEF rest
  <2>10. out' \in Seq(Seq(Byte))
    BY <2>1, <2>3, <2>9
  <2>11. UNCHANGED <<modeVars, sent, line, secureVars, readVars, reader>>
    BY <1>4 DEF WriteRecord
  <2> QED
    BY <2>5, <2>8, <2>10, <2>11
    DEF TypeOK, modeVars, secureVars, readVars, RawMissing, Missing
<1> QED
  BY <1>1, <1>2, <1>3, <1>4 DEF Write

\* The first bytes of q move to the end of p.
LEMMA Moved ==
  ASSUME NEW p \in Seq(Byte), NEW q \in Seq(Byte), NEW n \in 0..Len(q)
  PROVE  /\ p \o First(q, n) \in Seq(Byte) /\ Len(p \o First(q, n)) = Len(p) + n
         /\ Rest(q, n) \in Seq(Byte) /\ Len(Rest(q, n)) = Len(q) - n
<1>1. PICK f \in Seq(Byte) : f = First(q, n) /\ Len(f) = n
  BY CutFacts
<1>2. p \o f \in Seq(Byte) /\ Len(p \o f) = Len(p) + n
  BY <1>1
<1>3. Rest(q, n) \in Seq(Byte) /\ Len(Rest(q, n)) = Len(q) - n
  BY CutFacts
<1> QED
  BY <1>1, <1>2, <1>3

LEMMA ReadPlainTypes ==
  ASSUME TypeOK, ReadPlain
  PROVE  TypeOK'
<1>1. /\ have \in Seq(Byte) /\ wire \in Seq(Byte) /\ length \in Nat
      /\ PrefixLen \in Nat /\ Missing \in Nat
  BY Parameters DEF TypeOK, Missing
<1>2. PICK n \in 1..Smaller(Missing, Len(wire)) :
        have' = have \o First(wire, n) /\ wire' = Rest(wire, n)
  BY DEF ReadPlain
<1>3. n \in 0..Len(wire) /\ n <= Missing
  BY <1>1 DEF Smaller
<1>4. have' \in Seq(Byte) /\ Len(have') = Len(have) + n /\ wire' \in Seq(Byte)
  BY <1>1, <1>2, <1>3, Moved
<1>5. UNCHANGED <<modeVars, writeVars, line, secureVars, length, got, reader>>
  BY DEF ReadPlain
<1>6. Missing' >= 0
  BY <1>1, <1>3, <1>4, <1>5 DEF Missing
<1> QED
  BY <1>4, <1>5, <1>6 DEF TypeOK, modeVars, writeVars, secureVars, RawMissing

LEMMA ReadLeftoverTypes ==
  ASSUME TypeOK, ReadLeftover
  PROVE  TypeOK'
<1> DEFINE n == Smaller(Missing, Len(rbuf))
<1>1. /\ have \in Seq(Byte) /\ rbuf \in Seq(Byte) /\ length \in Nat /\ Len(rbuf) < MaxChunk
      /\ PrefixLen \in Nat /\ Missing \in Nat /\ MaxChunk \in Nat
  BY Parameters DEF TypeOK, Missing
<1>2. have' = have \o First(rbuf, n) /\ rbuf' = Rest(rbuf, n)
  BY DEF ReadLeftover
<1>3. n \in 0..Len(rbuf) /\ n <= Missing
  BY <1>1 DEF Smaller
<1> HIDE DEF n
<1>4. /\ have' \in Seq(Byte) /\ Len(have') = Len(have) + n
      /\ rbuf' \in Seq(Byte) /\ Len(rbuf') = Len(rbuf) - n
  BY <1>1, <1>2, <1>3, Moved
<1>5. UNCHANGED <<modeVars, writeVars, line, wire, raw, recLen, length, got, reader>>
  BY DEF ReadLeftover
<1>6. Missing' >= 0
  BY <1>1, <1>3, <1>4, <1>5 DEF Missing
<1>7. Len(rbuf') < MaxChunk
  BY <1>1, <1>3, <1>4
<1> QED
  BY <1>4, <1>5, <1>6, <1>7 DEF TypeOK, modeVars, writeVars, RawMissing

LEMMA ReadRawTypes ==
  ASSUME TypeOK, ReadRaw
  PROVE  TypeOK'
<1>1. /\ raw \in Seq(Byte) /\ wire \in Seq(Byte) /\ recLen \in Nat
      /\ PrefixLen \in Nat /\ Overhead \in Nat /\ RawMissing \in Nat
  BY Parameters DEF TypeOK, RawMissing
<1>2. PICK n \in 1..Smaller(RawMissing, Len(wire)) :
        raw' = raw \o First(wire, n) /\ wire' = Rest(wire, n)
  BY DEF ReadRaw
<1>3. n \in 0..Len(wire) /\ n <= RawMissing
  BY <1>1 DEF Smaller
<1>4. raw' \in Seq(Byte) /\ Len(raw') = Len(raw) + n /\ wire' \in Seq(Byte)
  BY <1>1, <1>2, <1>3, Moved
<1>5. UNCHANGED <<modeVars, writeVars, line, recLen, rbuf, readVars, reader>>
  BY DEF ReadRaw
<1>6. RawMissing' >= 0
  BY <1>1, <1>3, <1>4, <1>5 DEF RawMissing
<1> QED
  BY <1>4, <1>5, <1>6 DEF TypeOK, modeVars, writeVars, readVars, Missing

LEMMA RecordLengthTypes ==
  ASSUME TypeOK, RecordLength
  PROVE  TypeOK'
<1>1. /\ raw \in Seq(Byte) /\ Len(raw) > 0 /\ MaxChunk \in Nat /\ Overhead \in Nat
  BY Parameters DEF TypeOK, RecordLength, RawMissing
<1>2. PICK n : n \in Lengths(raw) /\
        IF n = 0 \/ n > MaxChunk THEN reader' = "failed" /\ UNCHANGED <<raw, recLen>>
                                 ELSE recLen' = n /\ raw' = <<>> /\ UNCHANGED reader
  BY DEF RecordLength
<1>3. n \in Nat
  BY <1>1, <1>2, LengthsFacts
<1>4. UNCHANGED <<modeVars, writeVars, line, wire, rbuf, readVars>>
  BY DEF RecordLength
<1>5. CASE n = 0 \/ n > MaxChunk
  BY <1>2, <1>4, <1>5 DEF TypeOK, modeVars, writeVars, readVars, Missing, RawMissing
<1>6. CASE ~(n = 0 \/ n > MaxChunk)
  <2>1. recLen' \in 0..MaxChunk /\ recLen' # 0 /\ raw' = <<>> /\ UNCHANGED reader
    BY <1>1, <1>2, <1>3, <1>6
  <2>2. raw' \in Seq(Byte) /\ Len(raw') = 0
    BY <2>1
  <2>3. RawMissing' >= 0
    <3>1. PICK m \in Nat : recLen' = m /\ m # 0
      BY <1>1, <2>1
    <3>2. RawMissing' = m + Overhead
      BY <1>1, <2>2, <3>1 DEF RawMissing
    <3> QED
      BY <1>1, <3>2
  <2> QED
    BY <1>4, <2>1, <2>2, <2>3 DEF TypeOK, modeVars, writeVars, readVars, Missing
<1> QED
  BY <1>5, <1>6

LEMMA MessageLengthTypes ==
  ASSUME TypeOK, MessageLength
  PROVE  TypeOK'
<1>1. /\ have \in Seq(Byte) /\ Len(have) > 0 /\ MaxSize \in Nat
  BY Parameters DEF TypeOK, MessageLength, Missing
<1>2. PICK n : n \in Lengths(have) /\
        IF n = 0 \/ n > MaxSize THEN reader' = "failed" /\ UNCHANGED <<have, length>>
                                ELSE length' = n /\ have' = <<>> /\ UNCHANGED reader
  BY DEF MessageLength
<1>3. n \in Nat
  BY <1>1, <1>2, LengthsFacts
<1>4. UNCHANGED <<modeVars, writeVars, line, wire, secureVars, got>>
  BY DEF MessageLength
<1>5. CASE n = 0 \/ n > MaxSize
  BY <1>2, <1>4, <1>5 DEF TypeOK, modeVars, writeVars, secureVars, Missing, RawMissing
<1>6. CASE ~(n = 0 \/ n > MaxSize)
  <2>1. length' \in 0..MaxSize /\ length' # 0 /\ have' = <<>> /\ UNCHANGED reader
    BY <1>1, <1>2, <1>3, <1>6
  <2>2. have' \in Seq(Byte) /\ Len(have') = 0
    BY <2>1
  <2>3. Missing' >= 0
    <3>1. PICK m \in Nat : length' = m /\ m # 0
      BY <1>1, <2>1
    <3>2. Missing' = m
      BY <1>1, <2>2, <3>1 DEF Missing
    <3> QED
      BY <3>2
  <2> QED
    BY <1>4, <2>1, <2>2, <2>3 DEF TypeOK, modeVars, writeVars, secureVars, RawMissing
<1> QED
  BY <1>5, <1>6

LEMMA DeliverTypes ==
  ASSUME TypeOK, Deliver
  PROVE  TypeOK'
<1>1. /\ have \in Seq(Byte) /\ Len(have) > 0 /\ got \in Seq(Nat) /\ PrefixLen \in Nat
  BY Parameters DEF TypeOK, Deliver, Missing
<1>2. have[1].v \in Nat
  <2>1. have[1] \in Byte
    BY <1>1
  <2> QED
    BY <2>1 DEF Byte
<1>3. UNCHANGED <<modeVars, writeVars, line, wire, secureVars>>
  BY DEF Deliver
<1>4. CASE Whole \/ framing = "frame"
  <2>1. /\ got' = Append(got, IF Whole THEN have[1].v ELSE 0)
        /\ have' = <<>> /\ length' = 0 /\ UNCHANGED reader
    BY <1>4 DEF Deliver
  <2>2. got' \in Seq(Nat)
    BY <1>1, <1>2, <2>1
  <2>3. have' \in Seq(Byte) /\ Missing' >= 0 /\ length' \in 0..MaxSize
    BY <1>1, <2>1, Parameters DEF Missing
  <2> QED
    BY <1>3, <2>1, <2>2, <2>3 DEF TypeOK, modeVars, writeVars, secureVars, RawMissing
<1>5. CASE ~(Whole \/ framing = "frame")
  <2>1. reader' = "failed" /\ UNCHANGED readVars
    BY <1>5 DEF Deliver
  <2> QED
    BY <1>3, <2>1 DEF TypeOK, modeVars, writeVars, secureVars, readVars, RawMissing, Missing
<1> QED
  BY <1>4, <1>5

LEMMA EndTypes ==
  ASSUME TypeOK, ReadFails \/ Cut
  PROVE  TypeOK'
<1>1. CASE ReadFails
  BY <1>1
  DEF ReadFails, TypeOK, modeVars, writeVars, secureVars, readVars, RawMissing, Missing
<1>2. CASE Cut
  <2>1. PICK n \in 0..Len(wire) : wire' = First(wire, n)
    BY <1>2 DEF Cut
  <2>2. wire' \in Seq(Byte)
    BY <2>1, CutFacts DEF TypeOK
  <2>3. line' = "cut" /\ UNCHANGED <<modeVars, writeVars, secureVars, readVars, reader>>
    BY <1>2 DEF Cut
  <2> QED
    BY <2>2, <2>3
    DEF TypeOK, modeVars, writeVars, secureVars, readVars, RawMissing, Missing
<1> QED
  BY <1>1, <1>2

\* The text of a record that opens; only the ghosts tell that there is one.
LEMMA TextRead ==
  ASSUME TypeOK, Together, recLen > 0, RawMissing = 0, Opens
  PROVE  /\ raw[1].v \in 1..Len(records)
         /\ records[raw[1].v] \in Seq(Byte) /\ Len(records[raw[1].v]) = recLen
<1>1. wkey = rkey
  BY DEF Opens
<1>2. PICK txt, w, off :
        IF wkey = Plain THEN Bare(txt, off, w)
                        ELSE \E cip \in Seq(Byte), n \in Nat : \E at, start :
                               Sealed(txt, off, w, cip, at, n, start)
  BY <1>1 DEF Together
<1>3. recLen # 0
  BY DEF TypeOK
<1>4. \E cip \in Seq(Byte), n \in Nat : \E at, start : Sealed(txt, off, w, cip, at, n, start)
  BY <1>2, <1>3 DEF Bare
<1>41. PICK cip \in Seq(Byte), n \in Nat : \E at, start : Sealed(txt, off, w, cip, at, n, start)
  BY <1>4
<1>42. PICK at, start : Sealed(txt, off, w, cip, at, n, start)
  BY <1>41
<1>5. /\ n + 1 \in 1..Len(records) /\ raw[1].v = n + 1
  BY <1>42, RecordRead DEF Sealed
<1> QED
  BY <1>5 DEF TypeOK, Opens

LEMMA OpenRecordTypes ==
  ASSUME TypeOK, Together, OpenRecord
  PROVE  TypeOK'
<1>1. UNCHANGED <<modeVars, writeVars, line, wire, length, got>>
  BY DEF OpenRecord
<1>2. CASE Opens
  <2> DEFINE text == records[raw[1].v]
             n == Smaller(Missing, Len(text))
  <2>1. /\ have' = have \o First(text, n) /\ rbuf' = Rest(text, n)
        /\ raw' = <<>> /\ recLen' = 0 /\ UNCHANGED reader
    BY <1>2 DEF OpenRecord
  <2>2. text \in Seq(Byte) /\ Len(text) = recLen
    BY <1>2, TextRead DEF OpenRecord
  <2>3. /\ have \in Seq(Byte) /\ length \in Nat /\ recLen \in 1..MaxChunk
        /\ PrefixLen \in Nat /\ Missing \in Nat /\ Missing > 0 /\ MaxChunk \in Nat
    BY Parameters DEF TypeOK, Missing, OpenRecord, Reading
  <2> HIDE DEF text
  <2>4. n \in 1..Len(text) /\ n <= Missing
    BY <2>2, <2>3 DEF Smaller
  <2> HIDE DEF n
  <2>5. n \in 0..Len(text)
    BY <2>4
  <2>6. /\ have' \in Seq(Byte) /\ Len(have') = Len(have) + n
        /\ rbuf' \in Seq(Byte) /\ Len(rbuf') = Len(text) - n
    BY <2>1, <2>2, <2>3, <2>5, Moved
  <2>7. Missing' >= 0
    BY <1>1, <2>3, <2>4, <2>6 DEF Missing
  <2>8. Len(rbuf') < MaxChunk
    BY <2>2, <2>3, <2>4, <2>6
  <2>9. raw' \in Seq(Byte) /\ recLen' \in 0..MaxChunk /\ RawMissing' >= 0
    BY <2>1, <2>3 DEF RawMissing
  <2> QED
    BY <1>1, <2>1, <2>6, <2>7, <2>8, <2>9 DEF TypeOK, modeVars, writeVars
<1>3. CASE ~Opens
  <2>1. reader' = "failed" /\ UNCHANGED <<have, rbuf, raw, recLen>>
    BY <1>3 DEF OpenRecord
  <2> QED
    BY <1>1, <2>1 DEF TypeOK, modeVars, writeVars, RawMissing, Missing
<1> QED
  BY <1>2, <1>3

-----------------------------------------------------------------------------
(* The rest of the invariant, action by action. The ghosts of Together     *)
(* grow with what is sent and are kept by what is read.                    *)

\* What the invariant says of ends with the same token.
Ghosts(txt, off, w) ==
  /\ Messages(txt, off) /\ Unwritten(out, txt, w)
  /\ IF wkey = Plain THEN Bare(txt, off, w)
                     ELSE \E cip \in Seq(Byte), n \in Nat : \E at, start :
                            Sealed(txt, off, w, cip, at, n, start)

LEMMA GhostsExist ==
  ASSUME IInv, wkey = rkey
  PROVE  \E txt \in Seq(Byte), w \in Nat : \E off : Ghosts(txt, off, w)
  BY DEF IInv, Together, Ghosts

LEMMA GhostsSuffice ==
  ASSUME NEW txt \in Seq(Byte), NEW w \in Nat, NEW off, Ghosts(txt, off, w)'
  PROVE  Together'
  BY DEF Together, Ghosts

LEMMA MessagesKept ==
  ASSUME NEW txt, NEW off, Messages(txt, off), UNCHANGED <<sent, have, length, got>>
  PROVE  Messages(txt, off)' /\ Place(off)' = Place(off)
<1>1. Messages(txt, off)'
  BY DEF Messages
<1>2. Place(off)' = Place(off)
  BY DEF Place
<1> QED
  BY <1>1, <1>2

LEMMA UnwrittenKept ==
  ASSUME NEW txt, NEW w, Unwritten(out, txt, w), UNCHANGED out
  PROVE  Unwritten(out, txt, w)'
  BY DEF Unwritten

LEMMA CarriedKept ==
  ASSUME NEW s, NEW a, NEW w, Carried(s, a, w), UNCHANGED <<wire, line>>
  PROVE  Carried(s, a, w)'
  BY DEF Carried

LEMMA TextsKept ==
  ASSUME NEW txt, NEW start, NEW w, Texts(txt, start, w), UNCHANGED records
  PROVE  Texts(txt, start, w)'
  BY DEF Texts

LEMMA BareKept ==
  ASSUME NEW txt, NEW off, NEW w, Bare(txt, off, w), Place(off)' = Place(off),
         UNCHANGED <<wire, line, raw, recLen, rbuf>>
  PROVE  Bare(txt, off, w)'
<1>1. Carried(txt, Place(off), w)'
  BY CarriedKept DEF Bare, Carried
<1> QED
  BY <1>1 DEF Bare

LEMMA SealedKept ==
  ASSUME NEW txt, NEW off, NEW w, NEW cip, NEW at, NEW n, NEW start,
         Sealed(txt, off, w, cip, at, n, start), Place(off)' = Place(off),
         UNCHANGED <<records, wire, line, raw, recLen, rbuf>>
  PROVE  Sealed(txt, off, w, cip, at, n, start)'
<1>1. Sizes' = Sizes
  BY DEF Sizes
<1>2. Texts(txt, start, w)'
  BY TextsKept DEF Sealed
<1>3. Carried(cip, Base(at, n, recLen) + Len(raw), Len(cip))'
  BY DEF Sealed, Carried
<1>4. Left(txt, Place(off), start[n + 1])'
  BY DEF Sealed, Left
<1>5. Layout(cip, at, "seal", Sizes, Overhead)' /\ Takes(raw, recLen, n, cip, at, Sizes)'
  BY <1>1 DEF Sealed
<1> QED
  BY <1>2, <1>3, <1>4, <1>5 DEF Sealed

LEMMA GhostsKept ==
  ASSUME NEW txt, NEW off, NEW w, Ghosts(txt, off, w),
         UNCHANGED <<modeVars, writeVars, line, wire, secureVars, readVars>>
  PROVE  Ghosts(txt, off, w)'
<1>1. Messages(txt, off)' /\ Place(off)' = Place(off) /\ Unwritten(out, txt, w)'
  BY MessagesKept, UnwrittenKept DEF Ghosts, writeVars, readVars
<1>2. CASE wkey = Plain
  BY <1>1, <1>2, BareKept DEF Ghosts, secureVars, modeVars
<1>3. CASE wkey # Plain
  <2>1. PICK cip \in Seq(Byte), n \in Nat : \E at, start : Sealed(txt, off, w, cip, at, n, start)
    BY <1>3 DEF Ghosts
  <2>2. PICK at, start : Sealed(txt, off, w, cip, at, n, start)
    BY <2>1
  <2>3. Sealed(txt, off, w, cip, at, n, start)'
    BY <1>1, <2>2, SealedKept DEF secureVars, writeVars
  <2> QED
    BY <1>1, <1>3, <2>3 DEF Ghosts, modeVars
<1> QED
  BY <1>2, <1>3

\* A step that only fails the reader changes none of it.
LEMMA FailedSafe ==
  ASSUME IInv, UNCHANGED <<modeVars, writeVars, line, wire, secureVars, readVars>>
  PROVE  InOrder' /\ Together' /\ Apart' /\ Idle'
<1>1. UNCHANGED <<modeVars, writeVars, line, wire, secureVars, readVars>>
  OBVIOUS
<1>2. InOrder' /\ Idle'
  BY <1>1 DEF IInv, InOrder, Idle, writeVars, secureVars, readVars
<1>3. Apart'
  BY <1>1 DEF IInv, Apart, modeVars, secureVars, readVars
<1>4. ASSUME wkey' = rkey' PROVE Together'
  <2>1. PICK txt \in Seq(Byte), w \in Nat : \E off : Ghosts(txt, off, w)
    BY <1>1, <1>4, GhostsExist DEF modeVars
  <2>2. PICK off : Ghosts(txt, off, w)
    BY <2>1
  <2>3. Ghosts(txt, off, w)'
    BY <1>1, <2>2, GhostsKept
  <2> QED
    BY <2>3, GhostsSuffice
<1>5. wkey' # rkey' => Together'
  BY DEF Together
<1> QED
  BY <1>2, <1>3, <1>4, <1>5

LEMMA SentFact ==
  ASSUME TypeOK
  PROVE  sent \in Seq(Nat)
<1>1. sent \in Seq(Lens)
  BY DEF TypeOK
<1>2. \A n \in Lens : n \in Nat
  BY Parameters
<1> QED
  BY <1>1, <1>2

\* Place and Base are positions.
LEMMA PlaceNat ==
  ASSUME TypeOK, NEW txt \in Seq(Byte), NEW off, Messages(txt, off)
  PROVE  Base(off, Len(got), length) \in Nat /\ Place(off) \in Nat
<1>1. /\ sent \in Seq(Nat) /\ have \in Seq(Byte)
      /\ Layout(txt, off, "body", sent, 0) /\ Len(got) \in 0..Len(sent)
  <2>1. sent \in Seq(Nat)
    BY SentFact
  <2>2. have \in Seq(Byte)
    BY DEF TypeOK
  <2>3. Layout(txt, off, "body", sent, 0)
    BY DEF Messages
  <2>4. Len(got) \in 0..Len(sent)
    BY DEF Messages, Takes
  <2> QED
    BY <2>1, <2>2, <2>3, <2>4
<1>2. Base(off, Len(got), length) \in Nat
  BY <1>1, BaseNat
<1> QED
  BY <1>1, <1>2 DEF Place

LEMMA RecordPlaceNat ==
  ASSUME TypeOK, NEW cip \in Seq(Byte), NEW at, NEW n,
         Layout(cip, at, "seal", Sizes, Overhead), Takes(raw, recLen, n, cip, at, Sizes)
  PROVE  Base(at, n, recLen) \in Nat
<1>1. Sizes \in Seq(Nat) /\ n \in 0..Len(Sizes)
  BY SizesFacts DEF TypeOK, Takes
<1> QED
  BY <1>1, BaseNat

\* A connection that is cut loses what follows.
LEMMA CarriedLess ==
  ASSUME NEW s \in Seq(Byte), NEW a \in Nat, NEW w \in Nat, wire \in Seq(Byte), Carried(s, a, w),
         NEW n \in 0..Len(wire), wire' = First(wire, n), line' = "cut"
  PROVE  Carried(s, a, w)'
<1>1. PICK q \in Seq(Byte) : q = wire
  OBVIOUS
<1>12. n \in 0..Len(q)
  BY <1>1
<1>2. PICK f \in Seq(Byte) : f = First(q, n)
  BY <1>12, CutFacts
<1>21. Len(f) = n
  BY <1>12, <1>2, CutFacts
<1>22. \A j \in 1..n : f[j] = q[j]
  BY <1>12, <1>2, CutFacts
<1>3. Piece(q, s, a) /\ a + Len(q) <= w /\ n <= Len(q)
  BY <1>1 DEF Carried
<1>4. Piece(f, s, a) /\ a + Len(f) <= w
  <2>1. a + Len(q) <= Len(s) /\ \A j \in 1..Len(q) : q[j] = s[a + j]
    BY <1>3 DEF Piece
  <2>2. a + Len(f) <= Len(s) /\ a + Len(f) <= w
    BY <1>21, <1>3, <2>1
  <2>3. ASSUME NEW j \in 1..n PROVE f[j] = s[a + j]
    <3>1. j \in 1..Len(q)
      BY <1>12
    <3> QED
      BY <1>22, <2>1, <3>1
  <2> QED
    BY <1>21, <2>2, <2>3 DEF Piece
<1>5. wire' = f
  BY <1>1, <1>2
<1> QED
  BY <1>4, <1>5 DEF Carried

LEMMA WholePiece ==
  ASSUME NEW s \in Seq(Byte)
  PROVE  First(s, Len(s)) = s
<1>1. PICK f \in Seq(Byte) : f = First(s, Len(s)) /\ Len(f) = Len(s) /\ \A j \in 1..Len(s) : f[j] = s[j]
  BY CutFacts
<1>2. f = s
  BY <1>1, SameBytes
<1> QED
  BY <1>1, <1>2

LEMMA CutSafe ==
  ASSUME IInv, SendTooLong \/ Cut
  PROVE  InOrder' /\ Together' /\ Apart' /\ Idle'
<1>1. /\ UNCHANGED <<modeVars, writeVars, secureVars, readVars>> /\ line' = "cut"
      /\ wire \in Seq(Byte)
  BY DEF SendTooLong, Cut, IInv, TypeOK
<1>2. PICK n \in 0..Len(wire) : wire' = First(wire, n)
  <2>1. CASE SendTooLong
    <3>1. wire' = First(wire, Len(wire))
      BY <1>1, <2>1, WholePiece DEF SendTooLong
    <3> QED
      BY <1>1, <3>1
  <2>2. CASE Cut
    BY <2>2 DEF Cut
  <2> QED
    BY <2>1, <2>2
<1>3. InOrder' /\ Idle'
  BY <1>1 DEF IInv, InOrder, Idle, writeVars, secureVars, readVars
<1>4. Apart'
  <2>1. Len(wire') = n /\ \A j \in 1..n : wire'[j] = wire[j]
    BY <1>1, <1>2, CutFacts
  <2>2. (\A j \in 1..Len(wire) : wire[j].t # "body") => \A j \in 1..Len(wire') : wire'[j].t # "body"
    BY <1>1, <2>1
  <2> QED
    BY <1>1, <2>2 DEF IInv, Apart, modeVars, secureVars, readVars
<1>5. ASSUME wkey' = rkey' PROVE Together'
  <2>1. PICK txt \in Seq(Byte), w \in Nat : \E off : Ghosts(txt, off, w)
    BY <1>1, <1>5, GhostsExist DEF modeVars
  <2>2. PICK off : Ghosts(txt, off, w)
    BY <2>1
  <2>3. Messages(txt, off)' /\ Place(off)' = Place(off) /\ Unwritten(out, txt, w)'
    BY <1>1, <2>2, MessagesKept, UnwrittenKept DEF Ghosts, writeVars, readVars
  <2>4. PICK p \in Nat : p = Place(off)
    BY <2>2, PlaceNat DEF Ghosts, IInv
  <2>5. CASE wkey = Plain
    <3>1. Carried(txt, p, w)
      BY <2>2, <2>4, <2>5 DEF Ghosts, Bare
    <3>2. Carried(txt, p, w)'
      BY <1>1, <1>2, <3>1, CarriedLess
    <3>3. Carried(txt, Place(off), w)'
      BY <2>3, <2>4, <3>2 DEF Carried
    <3>4. Bare(txt, off, w)'
      BY <1>1, <2>2, <2>5, <3>3 DEF Ghosts, Bare, secureVars
    <3>5. Ghosts(txt, off, w)'
      BY <1>1, <2>3, <2>5, <3>4 DEF Ghosts, modeVars
    <3> QED
      BY <3>5, GhostsSuffice
  <2>6. CASE wkey # Plain
    <3>1. PICK cip \in Seq(Byte), k \in Nat : \E at, start : Sealed(txt, off, w, cip, at, k, start)
      BY <2>2, <2>6 DEF Ghosts
    <3>2. PICK at, start : Sealed(txt, off, w, cip, at, k, start)
      BY <3>1
    <3>3. Base(at, k, recLen) \in Nat /\ raw \in Seq(Byte)
      BY <3>2, RecordPlaceNat DEF Sealed, IInv, TypeOK
    <3>4. PICK b \in Nat : b = Base(at, k, recLen) + Len(raw)
      BY <3>3
    <3>5. Carried(cip, b, Len(cip))
      BY <3>2, <3>4 DEF Sealed
    <3>6. Carried(cip, b, Len(cip))'
      BY <1>1, <1>2, <3>5, CarriedLess
    <3>7. Carried(cip, Base(at, k, recLen) + Len(raw), Len(cip))'
      BY <1>1, <3>4, <3>6 DEF Carried, secureVars
    <3>8. Sizes' = Sizes
      BY <1>1 DEF Sizes, writeVars
    <3>9. Texts(txt, start, w)'
      BY <1>1, <3>2, TextsKept DEF Sealed, writeVars
    <3>10. Left(txt, Place(off), start[k + 1])'
      BY <1>1, <2>3, <3>2 DEF Sealed, Left, secureVars
    <3>11. Sealed(txt, off, w, cip, at, k, start)'
      BY <1>1, <3>2, <3>7, <3>8, <3>9, <3>10 DEF Sealed, secureVars
    <3>12. Ghosts(txt, off, w)'
      BY <1>1, <2>3, <2>6, <3>11 DEF Ghosts, modeVars
    <3> QED
      BY <3>12, GhostsSuffice
  <2> QED
    BY <2>5, <2>6
<1>6. wkey' # rkey' => Together'
  BY DEF Together
<1> QED
  BY <1>3, <1>4, <1>5, <1>6

LEMMA Regrouped ==
  ASSUME NEW s \in Seq(Byte), NEW p \in Seq(Byte), NEW b \in Seq(Byte)
  PROVE  (s \o p) \o b = s \o (p \o b)
  BY ConcatAssociative

\* A prefix and its payload, appended in one or in two pieces.
LEMMA TwoPieces ==
  ASSUME NEW s \in Seq(Byte), NEW p \in Seq(Byte), NEW b \in Seq(Byte)
  PROVE  /\ (s \o p) \o b = s \o (p \o b)
         /\ Piece(p, (s \o p) \o b, Len(s))
         /\ Piece(b, (s \o p) \o b, Len(s) + Len(p))
         /\ Piece(p \o b, (s \o p) \o b, Len(s))
<1> DEFINE u == (s \o p) \o b
<1>1. /\ u \in Seq(Byte) /\ Len(u) = Len(s) + Len(p) + Len(b)
      /\ \A j \in 1..Len(p) : u[Len(s) + j] = p[j]
      /\ \A j \in 1..Len(b) : u[Len(s) + Len(p) + j] = b[j]
  <2>1. u \in Seq(Byte)
    BY UnitIn
  <2>2. Len(u) = Len(s) + Len(p) + Len(b)
    BY UnitLen
  <2>3. \A j \in 1..Len(p) : u[Len(s) + j] = p[j]
    BY UnitPrefix
  <2>4. \A j \in 1..Len(b) : u[Len(s) + Len(p) + j] = b[j]
    BY UnitLoad
  <2> HIDE DEF u
  <2> QED
    BY <2>1, <2>2, <2>3, <2>4
<1> HIDE DEF u
<1>2. Piece(p, u, Len(s))
  BY <1>1 DEF Piece
<1>3. Piece(b, u, Len(s) + Len(p))
  BY <1>1 DEF Piece
<1>4. Len(s) \in Nat
  OBVIOUS
<1>5. Piece(p \o b, u, Len(s))
  BY <1>1, <1>2, <1>3, <1>4, PieceJoins
<1>6. u = s \o (p \o b)
  BY ConcatAssociative DEF u
<1> QED
  BY <1>2, <1>3, <1>5, <1>6 DEF u

\* The stream of messages, and that of records, grow by one unit.
LEMMA MessageAdded ==
  ASSUME NEW s \in Seq(Byte), NEW at, NEW sizes \in Seq(Nat), Layout(s, at, "body", sizes, 0),
         NEW m \in Nat, NEW i \in Nat, i = Len(sizes) + 1
  PROVE  Layout(s \o (Prefix(m) \o Body(i, m)), Grown(at, i, Len(s) + PrefixLen + m), "body",
                Append(sizes, m), 0)
<1>1. PICK type : type = "body"
  OBVIOUS
<1>2. m = m + 0 /\ 0 \in Nat /\ type \in {"body", "seal"} /\ Layout(s, at, type, sizes, 0)
  BY <1>1
<1>3. Layout((s \o Prefix(m)) \o Bytes(type, i, m), Grown(at, i, Len(s) + PrefixLen + m), type,
             Append(sizes, m), 0)
  <2>1. PICK none \in Nat : none = 0
    OBVIOUS
  <2>2. type \in {"body", "seal"} /\ Layout(s, at, type, sizes, none)
    BY <1>2, <2>1
  <2>3. PICK x \in Nat : x = m + none
    BY <2>1
  <2>31. x = m
    BY <2>1, <2>3
  <2>4. Layout((s \o Prefix(m)) \o Bytes(type, i, x), Grown(at, i, Len(s) + PrefixLen + x), type,
               Append(sizes, m), none)
    BY <2>2, <2>3, LayoutGrows
  <2> QED
    BY <2>1, <2>31, <2>4
<1>4. Prefix(m) \in Seq(Byte) /\ Body(i, m) \in Seq(Byte)
  BY CallsFacts
<1>5. (s \o Prefix(m)) \o Body(i, m) = s \o (Prefix(m) \o Body(i, m))
  BY <1>4, Regrouped
<1>6. Body(i, m) = Bytes(type, i, m)
  BY <1>1 DEF Body
<1> QED
  BY <1>1, <1>3, <1>5, <1>6

LEMMA RecordAdded ==
  ASSUME NEW s \in Seq(Byte), NEW at, NEW sizes \in Seq(Nat),
         Layout(s, at, "seal", sizes, Overhead),
         NEW m \in Nat, NEW i \in Nat, i = Len(sizes) + 1
  PROVE  \E e : Layout(s \o (Prefix(m) \o Seal(i, m)), Grown(at, i, e), "seal",
                       Append(sizes, m), Overhead)
<1>1. PICK type : type = "seal"
  OBVIOUS
<1>2. Overhead \in Nat /\ type \in {"body", "seal"} /\ Layout(s, at, type, sizes, Overhead)
  BY <1>1, Parameters
<1>21. PICK x \in Nat : x = m + Overhead
  BY <1>2
<1>3. Layout((s \o Prefix(m)) \o Bytes(type, i, x), Grown(at, i, Len(s) + PrefixLen + x), type,
             Append(sizes, m), Overhead)
  BY <1>2, <1>21, LayoutGrows
<1>4. Prefix(m) \in Seq(Byte) /\ Seal(i, m) \in Seq(Byte)
  BY CallsFacts, SealFacts
<1>5. (s \o Prefix(m)) \o Seal(i, m) = s \o (Prefix(m) \o Seal(i, m))
  BY <1>4, Regrouped
<1>6. Seal(i, m) = Bytes(type, i, x)
  BY <1>1, <1>21 DEF Seal
<1> QED
  BY <1>1, <1>3, <1>5, <1>6

LEMMA SendMessages ==
  ASSUME TypeOK, NEW m \in Nat, sent' = Append(sent, m), UNCHANGED readVars,
         NEW txt \in Seq(Byte), NEW off, Messages(txt, off),
         NEW i \in Nat, i = Len(sent) + 1, NEW x, x = Len(txt) + PrefixLen + m
  PROVE  /\ Messages(txt \o (Prefix(m) \o Body(i, m)), Grown(off, i, x))'
         /\ Place(Grown(off, i, x))' = Place(off)
<1> DEFINE e == Prefix(m) \o Body(i, m)
<1>1. /\ sent \in Seq(Nat) /\ have \in Seq(Byte)
      /\ Layout(txt, off, "body", sent, 0) /\ Takes(have, length, Len(got), txt, off, sent)
  <2>1. sent \in Seq(Nat)
    BY SentFact
  <2>2. have \in Seq(Byte)
    BY DEF TypeOK
  <2>3. Layout(txt, off, "body", sent, 0)
    BY DEF Messages
  <2>4. Takes(have, length, Len(got), txt, off, sent)
    BY DEF Messages
  <2> QED
    BY <2>1, <2>2, <2>3, <2>4
<1>2. e \in Seq(Byte)
  BY CallsFacts
<1>3. Layout(txt \o e, Grown(off, i, x), "body", Append(sent, m), 0)
  BY <1>1, MessageAdded
<1> HIDE DEF e
<1>4. Takes(have, length, Len(got), txt \o e, Grown(off, i, x), Append(sent, m))
  BY <1>1, <1>2, TakesGrows
<1>5. Base(Grown(off, i, x), Len(got), length) = Base(off, Len(got), length)
  <2>1. Len(got) \in Nat /\ Len(got) < i
    BY <1>1 DEF Takes
  <2> QED
    BY <2>1, BaseGrows
<1>6. Messages(txt \o e, Grown(off, i, x))'
  BY <1>3, <1>4 DEF Messages, readVars
<1>7. Place(Grown(off, i, x))' = Place(off)
  BY <1>5 DEF Place, readVars
<1> QED
  BY <1>6, <1>7 DEF e

LEMMA SendUnwritten ==
  ASSUME NEW txt \in Seq(Byte), NEW p \in Seq(Byte), NEW b \in Seq(Byte), p # <<>>, b # <<>>
  PROVE  /\ Unwritten(<<p, b>>, txt \o (p \o b), Len(txt))
         /\ Unwritten(<<p \o b>>, txt \o (p \o b), Len(txt))
<1>1. p \o b \in Seq(Byte) /\ Len(p \o b) = Len(p) + Len(b)
  OBVIOUS
<1>2. PICK e \in Seq(Byte) : e = p \o b
  BY <1>1
<1>21. txt \o e \in Seq(Byte)
  OBVIOUS
<1>3. PICK u \in Seq(Byte) : u = txt \o e
  BY <1>21
<1>4. Piece(p, u, Len(txt)) /\ Piece(b, u, Len(txt) + Len(p)) /\ Piece(e, u, Len(txt))
  BY <1>2, <1>3, TwoPieces
<1>5. Len(e) = Len(p) + Len(b) /\ Len(u) = Len(txt) + Len(e) /\ Len(p) > 0
  BY <1>1, <1>2, <1>3
<1>6. e # <<>>
  BY <1>5
<1>7. Unwritten(<<p, b>>, u, Len(txt))
  <2>1. PICK calls : calls = <<p, b>>
    OBVIOUS
  <2>2. Len(calls) = 2 /\ calls[1] = p /\ calls[2] = b
    BY <2>1
  <2>3. Unwritten(calls, u, Len(txt))
    BY <1>4, <1>5, <2>2 DEF Unwritten
  <2> QED
    BY <2>1, <2>3
<1>8. Unwritten(<<e>>, u, Len(txt))
  <2>1. PICK calls : calls = <<e>>
    OBVIOUS
  <2>2. Len(calls) = 1 /\ calls[1] = e
    BY <2>1
  <2>21. Len(txt) <= Len(u) /\ Len(txt) + Len(e) = Len(u)
    BY <1>5
  <2>3. Len(txt) <= Len(u) /\ Len(txt) + Len(calls[1]) = Len(u) /\ Len(calls) \in 0..2
    BY <2>2, <2>21
  <2>4. calls[1] # <<>> /\ Piece(calls[1], u, Len(txt))
    BY <1>4, <1>6, <2>2
  <2>5. Unwritten(calls, u, Len(txt))
    BY <2>2, <2>3, <2>4 DEF Unwritten
  <2> QED
    BY <2>1, <2>5
<1> QED
  BY <1>2, <1>3, <1>7, <1>8

LEMMA SendSafe ==
  ASSUME IInv, NEW m \in Lens, Send(m)
  PROVE  InOrder' /\ Together' /\ Apart' /\ Idle'
<1>1. /\ out = <<>> /\ sent' = Append(sent, m) /\ out' = Calls(Len(sent'), m) /\ Len(sent) < MaxMsgs
      /\ UNCHANGED <<modeVars, records, line, wire, secureVars, readVars, reader>>
  BY DEF Send
<1>2. sent \in Seq(Nat) /\ m \in Nat /\ m > 0 /\ framing \in {"message", "frame"} /\ MaxMsgs \in Nat
  BY Parameters DEF IInv, TypeOK
<1>3. InOrder'
  <2>1. Len(sent') = Len(sent) + 1
    BY <1>1, <1>2
  <2> QED
    BY <1>1, <1>2, <2>1 DEF IInv, InOrder, readVars
<1>4. Idle' /\ Apart'
  BY <1>1 DEF IInv, Idle, Apart, modeVars, secureVars, readVars
<1>5. ASSUME wkey' = rkey' PROVE Together'
  <2>1. PICK txt \in Seq(Byte), w \in Nat : \E off : Ghosts(txt, off, w)
    BY <1>1, <1>5, GhostsExist DEF modeVars
  <2>2. PICK off : Ghosts(txt, off, w)
    BY <2>1
  <2>3. Messages(txt, off) /\ w = Len(txt)
    BY <1>1, <2>2 DEF Ghosts, Unwritten
  <2>4. PICK i \in Nat : i = Len(sent) + 1 /\ i = Len(sent')
    BY <1>1, <1>2
  <2>5. PICK x : x = Len(txt) + PrefixLen + m
    OBVIOUS
  <2> DEFINE p == Prefix(m)
             b == Body(i, m)
             u == txt \o (p \o b)
             to == Grown(off, i, x)
  <2>6. Messages(u, to)' /\ Place(to)' = Place(off)
    BY <1>1, <1>2, <2>3, <2>4, <2>5, SendMessages DEF IInv
  <2>7. p \in Seq(Byte) /\ b \in Seq(Byte) /\ p # <<>> /\ b # <<>>
    BY <1>2, CallsFacts, Parameters
  <2>8. out' = <<p, b>> \/ out' = <<p \o b>>
    BY <1>1, <2>4 DEF Calls
  <2> HIDE DEF p, b
  <2>9. Unwritten(out, u, w)'
    <3>1. Unwritten(<<p, b>>, u, w) /\ Unwritten(<<p \o b>>, u, w)
      BY <2>3, <2>7, SendUnwritten
    <3>2. Unwritten(out', u, w)
      BY <2>8, <3>1
    <3> QED
      BY <3>2 DEF Unwritten
  <2>71. p \o b \in Seq(Byte)
    BY <2>7
  <2>10. PICK e \in Seq(Byte) : e = p \o b
    BY <2>71
  <2>11. u = txt \o e /\ u \in Seq(Byte) /\ Len(u) = Len(txt) + Len(e)
    BY <2>10
  <2>12. PICK a \in Nat : a = Place(off)
    BY <2>3, PlaceNat DEF IInv
  <2> HIDE DEF u, to
  <2>13. CASE wkey = Plain
    <3>1. Carried(txt, a, w) /\ raw = <<>> /\ recLen = 0 /\ rbuf = <<>>
      BY <2>2, <2>12, <2>13 DEF Ghosts, Bare
    <3>2. Piece(wire, u, a)
      BY <2>11, <2>12, <3>1, PieceStays DEF Carried, IInv, TypeOK
    <3>3. Carried(u, a, w)'
      BY <1>1, <3>1, <3>2 DEF Carried
    <3>4. Carried(u, Place(to), w)'
      BY <2>6, <2>12, <3>3 DEF Carried
    <3>5. Bare(u, to, w)'
      BY <1>1, <3>1, <3>4 DEF Bare, secureVars
    <3>6. Ghosts(u, to, w)'
      BY <1>1, <2>6, <2>9, <2>13, <3>5 DEF Ghosts, modeVars
    <3> QED
      BY <2>11, <3>6, GhostsSuffice
  <2>14. CASE wkey # Plain
    <3>1. PICK cip \in Seq(Byte), k \in Nat : \E at, start : Sealed(txt, off, w, cip, at, k, start)
      BY <2>2, <2>14 DEF Ghosts
    <3>2. PICK at, start : Sealed(txt, off, w, cip, at, k, start)
      BY <3>1
    <3>3. Texts(u, start, w)'
      <4>1. Texts(txt, start, w) /\ records \in Seq(Seq(Byte))
        BY <3>2 DEF Sealed, IInv, TypeOK
      <4>2. ASSUME NEW r \in 1..Len(records) PROVE Piece(records[r], u, start[r])
        <5>1. Piece(records[r], txt, start[r]) /\ records[r] \in Seq(Byte)
          BY <4>1 DEF Texts
        <5>2. r \in 1..(Len(records) + 1)
          BY <4>1
        <5>3. start[r] \in Nat
          BY <4>1, <5>2 DEF Texts
        <5> QED
          BY <2>11, <5>1, <5>3, PieceStays
      <4> QED
        BY <1>1, <4>1, <4>2 DEF Texts
    <3>4. Left(u, Place(to), start[k + 1])'
      <4>1. Left(txt, a, start[k + 1]) /\ rbuf \in Seq(Byte)
        BY <2>12, <3>2 DEF Sealed, IInv, TypeOK
      <4>2. Piece(rbuf, u, a)
        BY <2>11, <4>1, PieceStays DEF Left
      <4> QED
        BY <1>1, <2>6, <2>12, <4>1, <4>2 DEF Left, secureVars
    <3>5. Sizes' = Sizes
      BY <1>1 DEF Sizes
    <3>6. Carried(cip, Base(at, k, recLen) + Len(raw), Len(cip))'
      BY <1>1, <3>2 DEF Sealed, Carried, secureVars
    <3>7. Sealed(u, to, w, cip, at, k, start)'
      BY <1>1, <3>2, <3>3, <3>4, <3>5, <3>6 DEF Sealed, secureVars
    <3>8. Ghosts(u, to, w)'
      BY <1>1, <2>6, <2>9, <2>14, <3>7 DEF Ghosts, modeVars
    <3> QED
      BY <2>11, <3>8, GhostsSuffice
  <2> QED
    BY <2>13, <2>14
<1>6. wkey' # rkey' => Together'
  BY DEF Together
<1> QED
  BY <1>3, <1>4, <1>5, <1>6

LEMMA TailFacts ==
  ASSUME NEW S, NEW s \in Seq(S), s # <<>>
  PROVE  /\ Head(s) = s[1] /\ Head(s) \in S /\ Tail(s) \in Seq(S) /\ Len(Tail(s)) = Len(s) - 1
         /\ \A j \in 1..(Len(s) - 1) : Tail(s)[j] = s[j + 1]
<1>1. Head(s) = s[1] /\ Head(s) \in S /\ Tail(s) \in Seq(S) /\ Len(Tail(s)) = Len(s) - 1
  OBVIOUS
<1>2. \A j \in 1..(Len(s) - 1) : Tail(s)[j] = s[j + 1]
  OBVIOUS
<1> QED
  BY <1>1, <1>2

LEMMA TailOfOne ==
  ASSUME NEW S, NEW s \in Seq(S), Len(s) = 1
  PROVE  Tail(s) = <<>>
<1>1. s # <<>>
  OBVIOUS
<1>2. PICK r \in Seq(S) : r = Tail(s) /\ Len(r) = 0
  <2>1. Tail(s) \in Seq(S)
    BY <1>1, TailFacts
  <2>2. Len(Tail(s)) = Len(s) - 1
    BY <1>1, TailFacts
  <2>3. Len(Tail(s)) = 0
    BY <2>2
  <2> QED
    BY <2>1, <2>3
<1>3. r = <<>>
  BY <1>2
<1> QED
  BY <1>2, <1>3

\* One call of conn.Write.
LEMMA CallWritten ==
  ASSUME NEW calls \in Seq(Seq(Byte)), calls # <<>>, NEW txt \in Seq(Byte), NEW w \in Nat,
         Unwritten(calls, txt, w)
  PROVE  /\ Head(calls) \in Seq(Byte) /\ Head(calls) # <<>> /\ Piece(Head(calls), txt, w)
         /\ Unwritten(Tail(calls), txt, w + Len(Head(calls)))
<1>1. PICK h \in Seq(Byte) : h = Head(calls) /\ h = calls[1]
  OBVIOUS
<1>2. h # <<>> /\ Piece(h, txt, w)
  BY <1>1 DEF Unwritten
<1>3. Len(calls) \in {1, 2}
  BY DEF Unwritten
<1>31. PICK r : r = Tail(calls)
  OBVIOUS
<1>32. Len(r) = Len(calls) - 1 /\ \A j \in 1..(Len(calls) - 1) : r[j] = calls[j + 1]
  <2>1. PICK S : S = Seq(Byte)
    OBVIOUS
  <2>2. calls \in Seq(S)
    BY <2>1
  <2>3. Len(Tail(calls)) = Len(calls) - 1
    BY <2>2, TailFacts
  <2>4. \A j \in 1..(Len(calls) - 1) : Tail(calls)[j] = calls[j + 1]
    BY <2>2, TailFacts
  <2> QED
    BY <1>31, <2>3, <2>4
<1>4. CASE Len(calls) = 1
  <2>1. Tail(calls) = <<>>
    <3>1. PICK S : S = Seq(Byte)
      OBVIOUS
    <3>2. calls \in Seq(S)
      BY <3>1
    <3> QED
      BY <1>4, <3>2, TailOfOne
  <2>2. w + Len(h) = Len(txt)
    BY <1>1, <1>4 DEF Unwritten
  <2>3. Unwritten(<<>>, txt, w + Len(h))
    BY <2>2 DEF Unwritten
  <2> QED
    BY <1>1, <1>2, <2>1, <2>3
<1>5. CASE Len(calls) = 2
  <2>1. PICK q \in Seq(Byte) : q = calls[2]
    <3>1. 2 \in 1..Len(calls)
      BY <1>5
    <3>2. calls[2] \in Seq(Byte)
      BY <3>1
    <3> QED
      BY <3>2
  <2>2. /\ q # <<>> /\ Piece(q, txt, w + Len(h)) /\ w + Len(h) + Len(q) = Len(txt)
    BY <1>1, <1>5, <2>1 DEF Unwritten
  <2>4. Len(r) = 1 /\ r[1] = q
    BY <1>32, <1>5, <2>1
  <2>5. w + Len(h) <= Len(txt) /\ (w + Len(h)) + Len(q) = Len(txt)
    BY <2>2
  <2>6. Unwritten(r, txt, w + Len(h))
    BY <2>2, <2>4, <2>5 DEF Unwritten
  <2> QED
    BY <1>1, <1>2, <1>31, <2>6
<1> QED
  BY <1>3, <1>4, <1>5

LEMMA WritePlainSafe ==
  ASSUME IInv, WritePlain
  PROVE  InOrder' /\ Together' /\ Apart' /\ Idle'
<1>1. /\ wkey = Plain /\ out # <<>> /\ line = "open" /\ wire' = wire \o Head(out) /\ out' = Tail(out)
      /\ UNCHANGED <<modeVars, sent, records, line, secureVars, readVars, reader>>
  BY DEF WritePlain
<1>2. InOrder' /\ Idle'
  BY <1>1 DEF IInv, InOrder, Idle, secureVars, readVars
<1>3. Apart'
  BY <1>1 DEF IInv, Apart, modeVars, secureVars, readVars
<1>4. ASSUME wkey' = rkey' PROVE Together'
  <2>1. PICK txt \in Seq(Byte), w \in Nat : \E off : Ghosts(txt, off, w)
    BY <1>1, <1>4, GhostsExist DEF modeVars
  <2>2. PICK off : Ghosts(txt, off, w)
    BY <2>1
  <2>3. Messages(txt, off)' /\ Place(off)' = Place(off)
    BY <1>1, <2>2, MessagesKept DEF Ghosts, readVars
  <2>4. out \in Seq(Seq(Byte)) /\ wire \in Seq(Byte)
    BY DEF IInv, TypeOK
  <2>5. Unwritten(out, txt, w)
    BY <2>2 DEF Ghosts
  <2>6. PICK h \in Seq(Byte) : h = Head(out) /\ Piece(h, txt, w) /\ Unwritten(Tail(out), txt, w + Len(h))
    BY <1>1, <2>4, <2>5, CallWritten
  <2>7. PICK w2 \in Nat : w2 = w + Len(h)
    BY <2>6
  <2>8. Unwritten(out, txt, w2)'
    BY <1>1, <2>6, <2>7 DEF Unwritten
  <2>9. PICK a \in Nat : a = Place(off)
    BY <2>2, PlaceNat DEF IInv, Ghosts
  <2>10. Carried(txt, a, w) /\ raw = <<>> /\ recLen = 0 /\ rbuf = <<>>
    BY <1>1, <2>2, <2>9 DEF Ghosts, Bare
  <2>11. Piece(wire, txt, a) /\ a + Len(wire) = w
    BY <1>1, <2>10 DEF Carried
  <2>12. Piece(wire \o h, txt, a)
    BY <2>4, <2>6, <2>11, PieceJoins
  <2>13. Len(wire \o h) = Len(wire) + Len(h)
    BY <2>4
  <2>14. a + Len(wire \o h) = w2
    <3>1. PICK l \in Nat : l = Len(wire)
      BY <2>4
    <3> QED
      BY <2>7, <2>11, <2>13, <3>1
  <2>15. wire' = wire \o h
    BY <1>1, <2>6
  <2>16. Carried(txt, Place(off), w2)'
    BY <2>3, <2>9, <2>12, <2>14, <2>15 DEF Carried
  <2>17. Bare(txt, off, w2)'
    BY <1>1, <2>10, <2>16 DEF Bare, secureVars
  <2>18. Ghosts(txt, off, w2)'
    BY <1>1, <2>3, <2>8, <2>17 DEF Ghosts, modeVars
  <2> QED
    BY <2>18, GhostsSuffice
<1>5. wkey' # rkey' => Together'
  BY DEF Together
<1> QED
  BY <1>2, <1>3, <1>4, <1>5


\* The rest of a piece.
LEMMA RestPiece ==
  ASSUME NEW s \in Seq(Byte), NEW a \in Nat, NEW h \in Seq(Byte), Piece(h, s, a), NEW k \in 0..Len(h)
  PROVE  /\ First(h, k) \in Seq(Byte) /\ Len(First(h, k)) = k /\ Piece(First(h, k), s, a)
         /\ Rest(h, k) \in Seq(Byte) /\ Len(Rest(h, k)) = Len(h) - k
         /\ Piece(Rest(h, k), s, a + k)
<1>11. PICK f \in Seq(Byte) : f = First(h, k)
  BY CutFacts
<1>12. Len(f) = k
  BY <1>11, CutFacts
<1>13. \A j \in 1..k : f[j] = h[j]
  BY <1>11, CutFacts
<1>1. f = First(h, k) /\ Len(f) = k /\ \A j \in 1..k : f[j] = h[j]
  BY <1>11, <1>12, <1>13
<1>2. PICK g \in Seq(Byte) : g = Rest(h, k)
  BY CutFacts
<1>3. PICK m \in Nat : m = Len(h)
  OBVIOUS
<1>4. Len(g) = m - k /\ k \in 0..m
  BY <1>2, <1>3, CutFacts
<1>5. \A j \in 1..(m - k) : g[j] = h[k + j]
  BY <1>2, <1>3, CutFacts
<1>6. a + m <= Len(s) /\ \A j \in 1..m : h[j] = s[a + j]
  BY <1>3 DEF Piece
<1>7. Piece(f, s, a)
  <2>1. k \in 0..m /\ k \in Nat
    BY <1>4
  <2>2. a + k <= Len(s)
    BY <1>6, <2>1
  <2>3. ASSUME NEW j \in 1..k PROVE f[j] = s[a + j]
    <3>1. j \in 1..m
      BY <2>1
    <3> QED
      BY <1>13, <1>6, <3>1
  <2> QED
    BY <1>12, <2>2, <2>3 DEF Piece
<1>8. Piece(g, s, a + k)
  <2>1. ASSUME NEW j \in 1..(m - k) PROVE g[j] = s[(a + k) + j]
    <3>1. k + j \in 1..m
      BY <1>4
    <3>2. a + (k + j) = (a + k) + j
      BY <1>4
    <3> QED
      BY <1>5, <1>6, <3>1, <3>2
  <2>2. (a + k) + (m - k) <= Len(s)
    BY <1>4, <1>6
  <2> QED
    BY <1>4, <2>1, <2>2 DEF Piece
<1> QED
  BY <1>1, <1>2, <1>3, <1>4, <1>7, <1>8

LEMMA ConsFacts ==
  ASSUME NEW S, NEW o \in Seq(S), NEW r \in Seq(S)
  PROVE  /\ Len(o \o r) = Len(o) + Len(r)
         /\ \A j \in 1..Len(o) : (o \o r)[j] = o[j]
         /\ \A j \in 1..Len(r) : (o \o r)[Len(o) + j] = r[j]
  OBVIOUS

LEMMA OneLeft ==
  ASSUME NEW txt \in Seq(Byte), NEW w \in Nat, NEW g \in Seq(Byte), g # <<>>, Piece(g, txt, w),
         w + Len(g) = Len(txt), NEW q, Len(q) = 1, q[1] = g
  PROVE  Unwritten(q, txt, w)
<1>1. w <= Len(txt) /\ Len(q) \in 0..2
  OBVIOUS
<1>2. w + Len(q[1]) = Len(txt)
  OBVIOUS
<1> QED
  BY <1>1, <1>2 DEF Unwritten

LEMMA TwoLeft ==
  ASSUME NEW txt \in Seq(Byte), NEW w \in Nat, NEW g \in Seq(Byte), g # <<>>, Piece(g, txt, w),
         NEW b \in Seq(Byte), b # <<>>, Piece(b, txt, w + Len(g)), w + Len(g) + Len(b) = Len(txt),
         NEW q, Len(q) = 2, q[1] = g, q[2] = b
  PROVE  Unwritten(q, txt, w)
<1>1. w <= Len(txt) /\ Len(q) \in 0..2
  OBVIOUS
<1>2. Piece(q[2], txt, w + Len(q[1]))
  OBVIOUS
<1>3. w + Len(q[1]) + Len(q[2]) = Len(txt)
  OBVIOUS
<1> QED
  BY <1>1, <1>2, <1>3 DEF Unwritten

\* What is left of a call is the next one.
LEMMA RestWritten ==
  ASSUME NEW calls \in Seq(Seq(Byte)), calls # <<>>, NEW txt \in Seq(Byte), NEW w \in Nat,
         Unwritten(calls, txt, w), NEW l \in Nat, l = Len(Head(calls)),
         NEW g \in Seq(Byte), g # <<>>, NEW w2 \in Nat, Piece(g, txt, w2), w2 + Len(g) = w + l
  PROVE  Unwritten(<<g>> \o Tail(calls), txt, w2)
<1>1. Len(calls) \in {1, 2} /\ Head(calls) = calls[1]
  BY DEF Unwritten
<1>2. PICK r : r = Tail(calls)
  OBVIOUS
<1>3. PICK S : S = Seq(Byte)
  OBVIOUS
<1>4. calls \in Seq(S)
  BY <1>3
<1>5. PICK m \in Nat : m = Len(g)
  OBVIOUS
<1>6. PICK z \in Nat : z = Len(txt)
  OBVIOUS
<1>7. w2 + m <= z /\ w2 <= z
  BY <1>5, <1>6 DEF Piece
<1>8. CASE Len(calls) = 1
  <2>1. r = <<>>
    BY <1>2, <1>4, <1>8, TailOfOne
  <2>2. PICK q : q = <<g>> \o r
    OBVIOUS
  <2>3. Len(q) = 1 /\ q[1] = g
    BY <2>1, <2>2
  <2>4. w + l = z
    BY <1>1, <1>6, <1>8 DEF Unwritten
  <2>5. w2 + Len(g) = Len(txt)
    BY <1>6, <2>4
  <2>6. Unwritten(q, txt, w2)
    BY <2>3, <2>5, OneLeft
  <2> QED
    BY <1>2, <2>2, <2>6
<1>9. CASE Len(calls) = 2
  <2>1. PICK b \in Seq(Byte) : b = calls[2]
    <3>1. 2 \in 1..Len(calls)
      BY <1>9
    <3>2. calls[2] \in Seq(Byte)
      BY <3>1
    <3> QED
      BY <3>2
  <2>2. b # <<>> /\ Piece(b, txt, w + l) /\ w + l + Len(b) = z
    BY <1>1, <1>6, <1>9, <2>1 DEF Unwritten
  <2>3. Tail(calls) \in Seq(S)
    BY <1>4, TailFacts
  <2>4. Len(Tail(calls)) = Len(calls) - 1
    BY <1>4, TailFacts
  <2>5. \A j \in 1..(Len(calls) - 1) : Tail(calls)[j] = calls[j + 1]
    BY <1>4, TailFacts
  <2>6. r \in Seq(S) /\ Len(r) = 1
    BY <1>2, <1>9, <2>3, <2>4
  <2>7. r[1] = b
    <3>1. 1 \in 1..(Len(calls) - 1)
      BY <1>9
    <3>2. Tail(calls)[1] = calls[1 + 1]
      BY <2>5, <3>1
    <3>3. 1 + 1 = 2
      OBVIOUS
    <3> QED
      BY <1>2, <2>1, <3>2, <3>3
  <2>8. g \in S
    BY <1>3
  <2>9. PICK q : q = <<g>> \o r
    OBVIOUS
  <2>91. <<g>> \in Seq(S) /\ Len(<<g>>) = 1 /\ <<g>>[1] = g
    BY <2>8
  <2>92. PICK o \in Seq(S) : o = <<g>> /\ Len(o) = 1 /\ o[1] = g
    BY <2>91
  <2>93. q = o \o r
    BY <2>9, <2>92
  <2>94. Len(q) = Len(o) + Len(r)
    BY <2>6, <2>92, <2>93, ConsFacts
  <2>95. \A j \in 1..Len(o) : q[j] = o[j]
    BY <2>6, <2>92, <2>93, ConsFacts
  <2>96. \A j \in 1..Len(r) : q[Len(o) + j] = r[j]
    BY <2>6, <2>92, <2>93, ConsFacts
  <2>10. Len(q) = 2 /\ q[1] = g /\ q[2] = b
    BY <2>6, <2>7, <2>92, <2>94, <2>95, <2>96
  <2>11. w2 + m = w + l
    BY <1>5
  <2>12. Piece(b, txt, w2 + m) /\ w2 + m + Len(b) = z
    BY <2>2, <2>11
  <2>13. Unwritten(q, txt, w2)
    BY <1>5, <1>6, <2>2, <2>10, <2>12, TwoLeft
  <2> QED
    BY <1>2, <2>9, <2>13
<1> QED
  BY <1>1, <1>8, <1>9

\* A chunk of a call, sealed.
LEMMA ChunkWritten ==
  ASSUME NEW calls \in Seq(Seq(Byte)), calls # <<>>, NEW txt \in Seq(Byte), NEW w \in Nat,
         Unwritten(calls, txt, w), NEW h \in Seq(Byte), h = Head(calls), NEW k \in 1..Len(h)
  PROVE  /\ Piece(First(h, k), txt, w)
         /\ Unwritten(IF Rest(h, k) = <<>> THEN Tail(calls) ELSE <<Rest(h, k)>> \o Tail(calls),
                      txt, w + k)
<1>1. Piece(h, txt, w) /\ Unwritten(Tail(calls), txt, w + Len(h))
  BY CallWritten
<1>2. PICK l \in Nat : l = Len(h)
  OBVIOUS
<1>3. k \in 0..Len(h) /\ k \in Nat /\ k <= l
  BY <1>2
<1>4. PICK g \in Seq(Byte) : g = Rest(h, k) /\ Len(g) = Len(h) - k /\ Piece(g, txt, w + k)
  BY <1>1, <1>3, RestPiece
<1>5. Piece(First(h, k), txt, w)
  BY <1>1, <1>3, RestPiece
<1>6. PICK w2 \in Nat : w2 = w + k
  BY <1>3
<1>61. PICK m \in Nat : m = Len(g)
  OBVIOUS
<1>62. m = l - k
  BY <1>2, <1>4, <1>61
<1>7. w2 + m = w + l
  BY <1>3, <1>6, <1>62
<1>8. CASE g = <<>>
  <2>1. m = 0
    BY <1>61, <1>8
  <2>2. w2 = w + l
    BY <1>7, <2>1
  <2> QED
    BY <1>1, <1>2, <1>4, <1>5, <1>6, <1>8, <2>2
<1>9. CASE g # <<>>
  <2>1. Unwritten(<<g>> \o Tail(calls), txt, w2)
    BY <1>2, <1>4, <1>6, <1>61, <1>7, <1>9, RestWritten
  <2> QED
    BY <1>4, <1>5, <1>6, <1>9, <2>1
<1> QED
  BY <1>8, <1>9

LEMMA AppendFacts ==
  ASSUME NEW S, NEW s \in Seq(S), NEW e \in S
  PROVE  /\ Append(s, e) \in Seq(S) /\ Len(Append(s, e)) = Len(s) + 1
         /\ Append(s, e)[Len(s) + 1] = e
         /\ \A j \in 1..Len(s) : Append(s, e)[j] = s[j]
  OBVIOUS

\* One more record.
LEMMA SizesAdded ==
  ASSUME records \in Seq(Seq(Byte)), NEW f \in Seq(Byte), records' = Append(records, f),
         NEW k \in Nat, k = Len(f)
  PROVE  Sizes' = Append(Sizes, k)
<1>1. PICK S : S = Seq(Byte)
  OBVIOUS
<1>2. PICK rs \in Seq(S) : rs = records
  BY <1>1
<1>3. f \in S
  BY <1>1
<1>4. PICK ns \in Seq(S) : ns = Append(rs, f)
  BY <1>3, AppendFacts
<1>5. Len(ns) = Len(rs) + 1 /\ ns[Len(rs) + 1] = f /\ \A j \in 1..Len(rs) : ns[j] = rs[j]
  BY <1>3, <1>4, AppendFacts
<1>6. PICK z \in Seq(Nat) : z = Sizes
  BY SizesFacts
<1>7. Len(z) = Len(rs) /\ \A r \in 1..Len(rs) : z[r] = Len(rs[r])
  BY <1>2, <1>6, SizesFacts
<1>8. PICK z1 \in Seq(Nat) : z1 = Append(z, k)
  BY AppendFacts
<1>9. Len(z1) = Len(z) + 1 /\ z1[Len(z) + 1] = k /\ \A j \in 1..Len(z) : z1[j] = z[j]
  BY <1>8, AppendFacts
<1>10. Sizes' = [r \in 1..Len(ns) |-> Len(ns[r])]
  BY <1>2, <1>4 DEF Sizes
<1>11. PICK l \in Nat : l = Len(rs)
  OBVIOUS
<1>12. \A j \in 1..(l + 1) : Len(ns[j]) = z1[j]
  <2>1. ASSUME NEW j \in 1..(l + 1) PROVE Len(ns[j]) = z1[j]
    <3>1. CASE j = l + 1
      BY <1>5, <1>7, <1>9, <1>11, <3>1
    <3>2. CASE j # l + 1
      <4>1. j \in 1..l
        BY <3>2
      <4>2. ns[j] = rs[j] /\ z1[j] = z[j]
        BY <1>5, <1>7, <1>9, <1>11, <4>1
      <4>3. z[j] = Len(rs[j])
        BY <1>7, <1>11, <4>1
      <4> QED
        BY <4>2, <4>3
    <3> QED
      BY <3>1, <3>2
  <2> QED
    BY <2>1
<1>13. z1 = [r \in 1..(l + 1) |-> z1[r]]
  BY <1>7, <1>9, <1>11
<1>14. Sizes' = z1
  BY <1>5, <1>10, <1>11, <1>12, <1>13
<1> QED
  BY <1>6, <1>8, <1>14

LEMMA TextsAdded ==
  ASSUME records \in Seq(Seq(Byte)), NEW txt \in Seq(Byte), NEW start, NEW w \in Nat,
         Texts(txt, start, w), NEW f \in Seq(Byte), Len(f) \in 1..MaxChunk, Piece(f, txt, w),
         records' = Append(records, f), NEW i \in Nat, i = Len(records) + 1,
         NEW w2 \in Nat, w2 = w + Len(f)
  PROVE  Texts(txt, Grown(start, i, w2), w2)'
<1>1. PICK S : S = Seq(Byte)
  OBVIOUS
<1>2. PICK rs \in Seq(S) : rs = records
  BY <1>1
<1>3. f \in S
  BY <1>1
<1>4. PICK ns \in Seq(S) : ns = Append(rs, f)
  BY <1>3, AppendFacts
<1>5. Len(ns) = i /\ ns[i] = f /\ \A j \in 1..Len(rs) : ns[j] = rs[j]
  BY <1>2, <1>3, <1>4, AppendFacts
<1>6. i = Len(rs) + 1 /\ Len(rs) \in Nat
  BY <1>2
<1>7. PICK to : to = Grown(start, i, w2)
  OBVIOUS
<1>81. start \in [1..i -> Nat]
  BY <1>2, <1>6 DEF Texts
<1>82. \A j \in 1..i : start[j] \in Nat
  BY <1>81
<1>83. ASSUME NEW j \in 1..i PROVE to[j] = start[j]
  <2>1. Grown(start, i, w2)[j] = start[j]
    BY GrownSame
  <2> QED
    BY <1>7, <2>1
<1>8. \A j \in 1..i : start[j] \in Nat /\ to[j] = start[j]
  BY <1>82, <1>83
<1>9. to = [j \in 1..(i + 1) |-> IF j <= i THEN start[j] ELSE w2]
  BY <1>7 DEF Grown
<1>10. to[i + 1] = w2
  BY <1>9
<1>11. to \in [1..(i + 1) -> Nat]
  <2>1. \A j \in 1..(i + 1) : (IF j <= i THEN start[j] ELSE w2) \in Nat
    BY <1>8
  <2> QED
    BY <1>9, <2>1
<1>12. start[1] = 0 /\ start[i] = w
  BY <1>2, <1>6 DEF Texts
<1>13. to[1] = 0
  <2>1. 1 \in 1..i
    BY <1>6
  <2> QED
    BY <1>8, <1>12, <2>1
<1>14. ASSUME NEW r \in 1..i
       PROVE  /\ Len(ns[r]) \in 1..MaxChunk /\ to[r + 1] = to[r] + Len(ns[r])
              /\ Piece(ns[r], txt, to[r])
  <2>1. CASE r = i
    BY <1>10, <1>12, <1>5, <1>8, <2>1
  <2>2. CASE r # i
    <3>1. r \in 1..Len(rs) /\ r + 1 \in 1..i
      BY <1>6, <2>2
    <3>2. /\ Len(rs[r]) \in 1..MaxChunk /\ start[r + 1] = start[r] + Len(rs[r])
          /\ Piece(rs[r], txt, start[r])
      BY <1>2, <3>1 DEF Texts
    <3>3. ns[r] = rs[r] /\ to[r] = start[r] /\ to[r + 1] = start[r + 1]
      BY <1>5, <1>8, <3>1
    <3> QED
      BY <3>2, <3>3
  <2> QED
    BY <2>1, <2>2
<1>15. ns = records'
  BY <1>2, <1>4
<1>16. Texts(txt, to, w2)'
  BY <1>5, <1>10, <1>11, <1>13, <1>14, <1>15 DEF Texts
<1> QED
  BY <1>7, <1>16

\* A prefix and a sealed text say nothing of messages.
LEMMA NoBody ==
  ASSUME NEW k \in Nat, NEW i \in Nat, NEW q \in Seq(Byte), \A j \in 1..Len(q) : q[j].t # "body"
  PROVE  \A j \in 1..Len((q \o Prefix(k)) \o Seal(i, k)) : ((q \o Prefix(k)) \o Seal(i, k))[j].t # "body"
<1>1. PICK p \in Seq(Byte) : p = Prefix(k)
  BY CallsFacts
<1>2. PICK b \in Seq(Byte) : b = Seal(i, k)
  BY SealFacts
<1>3. \A j \in 1..Len(p) : p[j].t # "body"
  <2>1. PICK n \in Nat : n = PrefixLen
    BY Parameters
  <2>2. PICK type : type = "len" /\ type \in {"len", "body", "seal"}
    OBVIOUS
  <2>3. p = Bytes(type, k, n)
    BY <1>1, <2>1, <2>2 DEF Prefix
  <2>4. Len(p) = n /\ \A j \in 1..n : p[j] = [t |-> type, v |-> k, k |-> j]
    BY <2>2, <2>3, BytesLen, BytesAt
  <2> QED
    BY <2>2, <2>4
<1>4. \A j \in 1..Len(b) : b[j].t # "body"
  <2>1. PICK n \in Nat : n = k + Overhead
    BY Parameters
  <2>2. PICK type : type = "seal" /\ type \in {"len", "body", "seal"}
    OBVIOUS
  <2>3. b = Bytes(type, i, n)
    BY <1>2, <2>1, <2>2 DEF Seal
  <2>4. Len(b) = n /\ \A j \in 1..n : b[j] = [t |-> type, v |-> i, k |-> j]
    BY <2>2, <2>3, BytesLen, BytesAt
  <2> QED
    BY <2>2, <2>4
<1>5. PICK u \in Seq(Byte) : u = (q \o p) \o b
  BY UnitIn
<1>6. /\ Len(u) = Len(q) + Len(p) + Len(b)
      /\ \A j \in 1..Len(q) : u[j] = q[j]
      /\ \A j \in 1..Len(p) : u[Len(q) + j] = p[j]
      /\ \A j \in 1..Len(b) : u[Len(q) + Len(p) + j] = b[j]
  <2>1. Len(u) = Len(q) + Len(p) + Len(b)
    BY <1>5, UnitLen
  <2>2. \A j \in 1..Len(q) : u[j] = q[j]
    BY <1>5, UnitHead
  <2>3. \A j \in 1..Len(p) : u[Len(q) + j] = p[j]
    BY <1>5, UnitPrefix
  <2>4. \A j \in 1..Len(b) : u[Len(q) + Len(p) + j] = b[j]
    BY <1>5, UnitLoad
  <2> QED
    BY <2>1, <2>2, <2>3, <2>4
<1>7. PICK x \in Nat, y \in Nat, z \in Nat : x = Len(q) /\ y = Len(p) /\ z = Len(b)
  OBVIOUS
<1>8. ASSUME NEW j \in 1..Len(u) PROVE u[j].t # "body"
  <2>1. CASE j <= x
    BY <1>6, <1>7, <2>1
  <2>2. CASE x < j /\ j <= x + y
    <3>1. j - x \in 1..y /\ x + (j - x) = j
      BY <1>7, <2>2
    <3>2. PICK o \in 1..Len(p) : o = j - x
      BY <1>7, <3>1
    <3>3. u[Len(q) + o] = p[o] /\ p[o].t # "body"
      BY <1>3, <1>6
    <3>4. Len(q) + o = j
      BY <1>7, <3>1, <3>2
    <3> QED
      BY <3>3, <3>4
  <2>3. CASE x + y < j
    <3>1. j - (x + y) \in 1..z /\ x + y + (j - (x + y)) = j
      BY <1>6, <1>7, <2>3
    <3>2. PICK o \in 1..Len(b) : o = j - (x + y)
      BY <1>7, <3>1
    <3>3. u[Len(q) + Len(p) + o] = b[o] /\ b[o].t # "body"
      BY <1>4, <1>6
    <3>4. Len(q) + Len(p) + o = j
      BY <1>7, <3>1, <3>2
    <3> QED
      BY <3>3, <3>4
  <2> QED
    BY <1>7, <2>1, <2>2, <2>3
<1> QED
  BY <1>1, <1>2, <1>5, <1>8

LEMMA EndsMove ==
  ASSUME NEW s \in Seq(Byte), NEW e \in Seq(Byte), NEW q \in Seq(Byte), NEW a \in Nat,
         a + Len(q) = Len(s)
  PROVE  a + Len(q \o e) = Len(s \o e)
<1>1. Len(q \o e) = Len(q) + Len(e) /\ Len(s \o e) = Len(s) + Len(e)
  BY JoinFacts
<1>2. PICK l \in Nat, m \in Nat, n \in Nat : l = Len(q) /\ m = Len(e) /\ n = Len(s)
  OBVIOUS
<1>3. a + l = n
  BY <1>2
<1>4. a + (l + m) = n + m
  BY <1>3
<1> QED
  BY <1>1, <1>2, <1>4

LEMMA WriteRecordSafe ==
  ASSUME IInv, WriteRecord
  PROVE  InOrder' /\ Together' /\ Apart' /\ Idle'
<1>1. /\ wkey # Plain /\ out # <<>> /\ line = "open"
      /\ UNCHANGED <<modeVars, sent, line, secureVars, readVars, reader>>
  BY DEF WriteRecord
<1>2. InOrder' /\ Idle'
  BY <1>1 DEF IInv, InOrder, Idle, secureVars, readVars
<1>3. /\ out \in Seq(Seq(Byte)) /\ wire \in Seq(Byte) /\ raw \in Seq(Byte) /\ rbuf \in Seq(Byte)
      /\ records \in Seq(Seq(Byte))
  BY DEF IInv, TypeOK
<1>31. Head(out) \in Seq(Byte)
  BY <1>1, <1>3
<1>4. PICK h \in Seq(Byte) : h = Head(out)
  BY <1>31
<1>5. PICK k : k = Smaller(Len(h), MaxChunk)
  OBVIOUS
<1>6. PICK i \in Nat : i = Len(records) + 1
  BY <1>3
<1>7. PICK f : f = First(h, k)
  OBVIOUS
<1>8. records' = Append(records, f)
  BY <1>4, <1>5, <1>7 DEF WriteRecord
<1>81. k \in Nat /\ k <= Len(h) /\ k <= MaxChunk
  BY <1>4, <1>5, Parameters DEF Smaller
<1>82. k \in 0..Len(h)
  BY <1>81
<1>83. f \in Seq(Byte) /\ Len(f) = k
  BY <1>4, <1>7, <1>82, CutFacts
<1>84. Len(records') = i
  BY <1>3, <1>6, <1>8, <1>83
<1>9. wire' = (wire \o Prefix(k)) \o Seal(i, k)
  BY <1>4, <1>5, <1>84 DEF WriteRecord
<1>10. out' = IF Rest(h, k) = <<>> THEN Tail(out) ELSE <<Rest(h, k)>> \o Tail(out)
  BY <1>4, <1>5 DEF WriteRecord
<1>11. Apart'
  <2>1. PICK q \in Seq(Byte) : q = wire
    BY <1>3
  <2>2. (\A j \in 1..Len(wire) : wire[j].t # "body") => \A j \in 1..Len(wire') : wire'[j].t # "body"
    BY <1>6, <1>81, <1>9, <2>1, NoBody
  <2> QED
    BY <1>1, <2>2 DEF IInv, Apart, modeVars, secureVars, readVars
<1>12. ASSUME wkey' = rkey' PROVE Together'
  <2>1. PICK txt \in Seq(Byte), w \in Nat : \E off : Ghosts(txt, off, w)
    BY <1>1, <1>12, GhostsExist DEF modeVars
  <2>2. PICK off : Ghosts(txt, off, w)
    BY <2>1
  <2>3. Messages(txt, off)' /\ Place(off)' = Place(off)
    BY <1>1, <2>2, MessagesKept DEF Ghosts, readVars
  <2>4. Unwritten(out, txt, w)
    BY <2>2 DEF Ghosts
  <2>5. h # <<>>
    BY <1>1, <1>3, <1>4, <2>4, CallWritten
  <2>6. k \in 1..Len(h) /\ k \in 1..MaxChunk
    <3>1. Len(h) > 0
      BY <2>5
    <3> QED
      BY <1>5, <3>1, Parameters DEF Smaller
  <2>7. PICK w2 \in Nat : w2 = w + k
    BY <1>81
  <2>8. Piece(f, txt, w)
    BY <1>1, <1>3, <1>4, <1>7, <2>4, <2>6, ChunkWritten
  <2>9. Unwritten(out', txt, w2)
    BY <1>1, <1>3, <1>4, <1>10, <2>4, <2>6, <2>7, ChunkWritten
  <2>10. Unwritten(out, txt, w2)'
    BY <2>9 DEF Unwritten
  <2>11. PICK cip \in Seq(Byte), n \in Nat : \E at, start : Sealed(txt, off, w, cip, at, n, start)
    BY <1>1, <2>2 DEF Ghosts
  <2>12. PICK at, start : Sealed(txt, off, w, cip, at, n, start)
    BY <2>11
  <2>13. /\ Layout(cip, at, "seal", Sizes, Overhead) /\ Takes(raw, recLen, n, cip, at, Sizes)
         /\ Texts(txt, start, w) /\ Left(txt, Place(off), start[n + 1])
    BY <2>12 DEF Sealed
  <2>14. PICK z \in Seq(Nat) : z = Sizes /\ Len(z) = Len(records)
    BY <1>3, SizesFacts
  <2>15. PICK p \in Seq(Byte) : p = Prefix(k)
    BY <1>81, CallsFacts
  <2>16. PICK b \in Seq(Byte) : b = Seal(i, k)
    BY <1>81, SealFacts
  <2>17. PICK e \in Seq(Byte) : e = p \o b
    <3>1. p \o b \in Seq(Byte)
      OBVIOUS
    <3> QED
      BY <3>1
  <2>18. wire' = wire \o e
    <3>1. PICK q \in Seq(Byte) : q = wire
      BY <1>3
    <3>2. (q \o p) \o b = q \o (p \o b)
      <4>1. p \in Seq(Byte) /\ b \in Seq(Byte) /\ q \in Seq(Byte)
        BY <2>15, <2>16, <3>1
      <4> QED
        BY <4>1, Regrouped, ZenonT(30)
    <3> QED
      BY <1>9, <2>15, <2>16, <2>17, <3>1, <3>2
  <2>19. PICK x : Layout(cip \o e, Grown(at, i, x), "seal", Append(z, k), Overhead)
    BY <1>6, <1>81, <2>13, <2>14, <2>15, <2>16, <2>17, RecordAdded
  <2>20. Sizes' = Append(z, k)
    BY <1>3, <1>8, <1>81, <1>83, <2>14, SizesAdded
  <2>21. PICK c \in Seq(Byte) : c = cip \o e
    <3>1. cip \o e \in Seq(Byte)
      OBVIOUS
    <3> QED
      BY <3>1
  <2>22. PICK to : to = Grown(at, i, x)
    OBVIOUS
  <2>23. Layout(c, to, "seal", Sizes, Overhead)'
    BY <2>19, <2>20, <2>21, <2>22 DEF Layout
  <2>24. Takes(raw, recLen, n, cip \o e, Grown(at, i, x), Append(z, k))
    <3>1. PICK type : type = "seal"
      OBVIOUS
    <3>2. Layout(cip, at, type, z, Overhead) /\ Takes(raw, recLen, n, cip, at, z)
      BY <2>13, <2>14, <3>1
    <3>3. i = Len(z) + 1
      BY <1>6, <2>14
    <3> QED
      BY <1>3, <1>81, <3>2, <3>3, TakesGrows
  <2>25. Takes(raw, recLen, n, c, to, Sizes)'
    BY <1>1, <2>20, <2>21, <2>22, <2>24 DEF secureVars
  <2>26. n < i
    BY <1>6, <2>13, <2>14 DEF Takes
  <2>27. Base(to, n, recLen) = Base(at, n, recLen)
    BY <2>22, <2>26, BaseGrows
  <2>28. PICK a \in Nat : a = Base(at, n, recLen) + Len(raw)
    <3>1. Base(at, n, recLen) \in Nat /\ Len(raw) \in Nat
      BY <1>3, <2>13, RecordPlaceNat DEF IInv
    <3> QED
      BY <3>1
  <2>29. Piece(wire, cip, a) /\ a + Len(wire) = Len(cip)
    BY <1>1, <2>12, <2>28 DEF Sealed, Carried
  <2>30. Piece(wire \o e, c, a)
    BY <1>3, <2>21, <2>29, PieceAdded
  <2>31. a + Len(wire \o e) = Len(c)
    BY <1>3, <2>21, <2>29, EndsMove
  <2>32. Carried(c, Base(to, n, recLen) + Len(raw), Len(c))'
    <3>1. (Base(to, n, recLen) + Len(raw))' = a
      BY <1>1, <2>27, <2>28 DEF secureVars
    <3> QED
      BY <2>18, <2>30, <2>31, <3>1 DEF Carried
  <2>33. PICK st : st = Grown(start, i, w2)
    OBVIOUS
  <2>34. Texts(txt, st, w2)'
    BY <1>3, <1>6, <1>8, <1>83, <2>6, <2>7, <2>8, <2>13, <2>33, TextsAdded
  <2>35. st[n + 1] = start[n + 1]
    <3>1. n + 1 \in 1..i
      BY <2>26
    <3> QED
      BY <2>33, <3>1, GrownSame
  <2>36. Left(txt, Place(off), st[n + 1])'
    BY <1>1, <2>3, <2>13, <2>35 DEF Left, secureVars
  <2>37. Sealed(txt, off, w2, c, to, n, st)'
    BY <2>23, <2>25, <2>32, <2>34, <2>36 DEF Sealed
  <2>38. Ghosts(txt, off, w2)'
    BY <1>1, <2>3, <2>10, <2>37 DEF Ghosts, modeVars
  <2> QED
    BY <2>38, GhostsSuffice
<1>13. wkey' # rkey' => Together'
  BY DEF Together
<1> QED
  BY <1>2, <1>11, <1>12, <1>13

\* The reader of messages takes bytes of the text.
LEMMA MessagesRead ==
  ASSUME TypeOK, NEW txt \in Seq(Byte), NEW off, Messages(txt, off), NEW q \in Seq(Byte),
         Piece(q, txt, Place(off)), NEW k \in 0..Len(q), have' = have \o First(q, k),
         UNCHANGED <<sent, length, got>>
  PROVE  /\ Messages(txt, off)' /\ Place(off)' = Place(off) + k
         /\ Piece(Rest(q, k), txt, Place(off) + k) /\ Len(Rest(q, k)) = Len(q) - k
<1>1. /\ sent \in Seq(Nat) /\ have \in Seq(Byte)
      /\ Layout(txt, off, "body", sent, 0) /\ Takes(have, length, Len(got), txt, off, sent)
  <2>1. sent \in Seq(Nat)
    BY SentFact
  <2>2. have \in Seq(Byte)
    BY DEF TypeOK
  <2>3. Layout(txt, off, "body", sent, 0)
    BY DEF Messages
  <2>4. Takes(have, length, Len(got), txt, off, sent)
    BY DEF Messages
  <2> QED
    BY <2>1, <2>2, <2>3, <2>4
<1>2. PICK b \in Nat : b = Base(off, Len(got), length)
  BY PlaceNat
<1>3. PICK type : type = "body"
  OBVIOUS
<1>4. Layout(txt, off, type, sent, 0) /\ Piece(q, txt, b + Len(have)) /\ Place(off) = b + Len(have)
  BY <1>1, <1>2, <1>3 DEF Place
<1>41. PICK p \in Seq(Byte) : p = have
  BY <1>1
<1>42. PICK g : g = Len(got)
  OBVIOUS
<1>43. Takes(p, length, g, txt, off, sent) /\ Piece(q, txt, Base(off, g, length) + Len(p))
  BY <1>1, <1>2, <1>4, <1>41, <1>42
<1>44. Len(p \o First(q, k)) = Len(p) + k
  BY Moved
<1>45. Takes(p \o First(q, k), length, g, txt, off, sent)
  BY <1>1, <1>4, <1>43, TakesMore
<1>46. Piece(Rest(q, k), txt, Base(off, g, length) + (Len(p) + k))
  BY <1>1, <1>4, <1>43, TakesMore
<1>47. Len(Rest(q, k)) = Len(q) - k
  BY Moved
<1>5. /\ Len(have \o First(q, k)) = Len(have) + k
      /\ Takes(have \o First(q, k), length, Len(got), txt, off, sent)
      /\ Len(Rest(q, k)) = Len(q) - k /\ Piece(Rest(q, k), txt, b + (Len(have) + k))
  BY <1>2, <1>41, <1>42, <1>44, <1>45, <1>46, <1>47
<1>6. PICK h \in Nat : h = Len(have)
  BY <1>1
<1>7. b + (h + k) = (b + h) + k
  BY <1>2, <1>6
<1>8. Messages(txt, off)'
  BY <1>1, <1>5 DEF Messages
<1>9. Place(off)' = b + (h + k)
  BY <1>2, <1>5, <1>6 DEF Place
<1> QED
  BY <1>4, <1>5, <1>6, <1>7, <1>8, <1>9

\* What is read leaves the wire.
LEMMA CarriedOn ==
  ASSUME NEW s, NEW a \in Nat, NEW w, NEW q \in Seq(Byte), q = wire, Carried(s, a, w),
         NEW k \in 0..Len(q), wire' = Rest(q, k), UNCHANGED line, Len(Rest(q, k)) = Len(q) - k,
         Piece(Rest(q, k), s, a + k)
  PROVE  Carried(s, a + k, w)'
<1>1. PICK m \in Nat, r \in Nat : m = Len(q) /\ r = Len(Rest(q, k))
  <2>1. Len(q) \in Nat /\ Len(Rest(q, k)) \in Nat
    OBVIOUS
  <2> QED
    BY <2>1
<1>2. (a + k) + r = a + m
  BY <1>1
<1>3. a + m <= w /\ (line = "open" => a + m = w)
  BY <1>1 DEF Carried
<1>4. (a + k) + Len(wire') = a + m
  BY <1>1, <1>2
<1> QED
  BY <1>3, <1>4 DEF Carried

\* Nor do the bytes it reads.
NoBodyIn(s) == \A j \in 1..Len(s) : s[j].t # "body"

LEMMA NoBodyMoves ==
  ASSUME NEW p \in Seq(Byte), NEW q \in Seq(Byte), NoBodyIn(p), NoBodyIn(q), NEW n \in 0..Len(q)
  PROVE  NoBodyIn(p \o First(q, n)) /\ NoBodyIn(Rest(q, n))
<1>1. PICK f \in Seq(Byte) : f = First(q, n) /\ Len(f) = n /\ \A j \in 1..n : f[j] = q[j]
  BY CutFacts
<1>2. PICK g \in Seq(Byte) : g = Rest(q, n)
  BY CutFacts
<1>3. Len(g) = Len(q) - n
  BY <1>2, CutFacts
<1>4. \A j \in 1..(Len(q) - n) : g[j] = q[n + j]
  BY <1>2, CutFacts
<1>5. PICK m \in Nat, l \in Nat : m = Len(q) /\ l = Len(p)
  OBVIOUS
<1>6. n \in Nat /\ n <= m
  BY <1>5
<1>7. \A j \in 1..m : q[j].t # "body"
  BY <1>5 DEF NoBodyIn
<1>8. \A j \in 1..l : p[j].t # "body"
  BY <1>5 DEF NoBodyIn
<1>9. NoBodyIn(g)
  <2>1. ASSUME NEW j \in 1..(m - n) PROVE g[j].t # "body"
    <3>1. n + j \in 1..m
      BY <1>6
    <3> QED
      BY <1>4, <1>5, <1>7, <3>1
  <2> QED
    BY <1>3, <1>5, <2>1 DEF NoBodyIn
<1>10. PICK c : c = p \o f
  OBVIOUS
<1>101. Len(c) = Len(p) + Len(f)
  BY <1>10, JoinFacts
<1>102. \A j \in 1..Len(p) : c[j] = p[j]
  BY <1>10, JoinFacts
<1>103. \A j \in 1..Len(f) : c[Len(p) + j] = f[j]
  BY <1>10, JoinFacts
<1>11. Len(c) = l + n /\ (\A j \in 1..l : c[j] = p[j]) /\ \A j \in 1..n : c[l + j] = f[j]
  BY <1>1, <1>5, <1>101, <1>102, <1>103
<1>12. ASSUME NEW j \in 1..(l + n) PROVE c[j].t # "body"
  <2>1. CASE j <= l
    BY <1>8, <1>11, <2>1
  <2>2. CASE j > l
    <3>1. PICK i \in 1..n : j = l + i
      <4>1. j - l \in 1..n /\ j = l + (j - l)
        BY <1>6, <2>2
      <4> QED
        BY <4>1
    <3>2. f[i] = q[i] /\ i \in 1..m
      BY <1>1, <1>6
    <3> QED
      BY <1>7, <1>11, <3>1, <3>2
  <2> QED
    BY <2>1, <2>2
<1>13. NoBodyIn(c)
  BY <1>11, <1>12 DEF NoBodyIn
<1> QED
  BY <1>1, <1>2, <1>9, <1>10, <1>13

LEMMA ReadPlainSafe ==
  ASSUME IInv, ReadPlain
  PROVE  InOrder' /\ Together' /\ Apart' /\ Idle'
<1>1. /\ rkey = Plain
      /\ UNCHANGED <<modeVars, writeVars, line, secureVars, length, got, reader>>
  BY DEF ReadPlain
<1>2. have \in Seq(Byte) /\ wire \in Seq(Byte) /\ length \in Nat /\ PrefixLen \in Nat /\ Missing \in Nat
  BY Parameters DEF IInv, TypeOK, Missing
<1>3. PICK n \in 1..Smaller(Missing, Len(wire)) :
        have' = have \o First(wire, n) /\ wire' = Rest(wire, n)
  BY DEF ReadPlain
<1>4. n \in 0..Len(wire)
  BY <1>2 DEF Smaller
<1>5. PICK q \in Seq(Byte) : q = wire
  BY <1>2
<1>6. InOrder' /\ Idle'
  BY <1>1 DEF IInv, InOrder, Idle, writeVars, secureVars
<1>7. Apart'
  <2>1. PICK p \in Seq(Byte) : p = have
    BY <1>2
  <2>2. n \in 0..Len(q)
    BY <1>4, <1>5
  <2>3. ASSUME NoBodyIn(q), NoBodyIn(p)
        PROVE  NoBodyIn(p \o First(q, n)) /\ NoBodyIn(Rest(q, n))
    BY <2>2, <2>3, NoBodyMoves
  <2>7. ASSUME \A j \in 1..Len(wire) : wire[j].t # "body", \A j \in 1..Len(have) : have[j].t # "body"
        PROVE  /\ \A j \in 1..Len(wire') : wire'[j].t # "body"
               /\ \A j \in 1..Len(have') : have'[j].t # "body"
    <3>1. NoBodyIn(q) /\ NoBodyIn(p)
      BY <1>5, <2>1, <2>7 DEF NoBodyIn
    <3>2. NoBodyIn(have') /\ NoBodyIn(wire')
      BY <1>3, <1>5, <2>1, <2>3, <3>1
    <3> QED
      BY <3>2 DEF NoBodyIn
  <2> QED
    BY <1>1, <2>7 DEF IInv, Apart, modeVars, secureVars
<1>8. ASSUME wkey' = rkey' PROVE Together'
  <2>1. PICK txt \in Seq(Byte), w \in Nat : \E off : Ghosts(txt, off, w)
    BY <1>1, <1>8, GhostsExist DEF modeVars
  <2>2. PICK off : Ghosts(txt, off, w)
    BY <2>1
  <2>3. wkey = Plain /\ Messages(txt, off)
    BY <1>1, <1>8, <2>2 DEF modeVars, Ghosts
  <2>4. PICK a \in Nat : a = Place(off)
    BY <2>3, PlaceNat DEF IInv
  <2>5. Carried(txt, a, w)
    BY <2>2, <2>3, <2>4 DEF Ghosts, Bare
  <2>6. Piece(q, txt, Place(off))
    BY <1>5, <2>4, <2>5 DEF Carried
  <2>7. /\ Messages(txt, off)' /\ Place(off)' = Place(off) + n
        /\ Piece(Rest(q, n), txt, Place(off) + n) /\ Len(Rest(q, n)) = Len(q) - n
    <3>1. TypeOK /\ UNCHANGED <<sent, length, got>>
      BY <1>1 DEF IInv, writeVars
    <3>2. n \in 0..Len(q) /\ have' = have \o First(q, n)
      BY <1>3, <1>4, <1>5
    <3> QED
      BY <2>3, <2>6, <3>1, <3>2, MessagesRead
  <2>8. Carried(txt, a + n, w)'
    BY <1>1, <1>3, <1>4, <1>5, <2>4, <2>5, <2>7, CarriedOn
  <2>9. Bare(txt, off, w)'
    BY <1>1, <2>2, <2>3, <2>4, <2>7, <2>8 DEF Ghosts, Bare, Carried, secureVars
  <2>10. Unwritten(out, txt, w)'
    BY <1>1, <2>2, UnwrittenKept DEF Ghosts, writeVars
  <2>11. Ghosts(txt, off, w)'
    BY <1>1, <2>3, <2>7, <2>9, <2>10 DEF Ghosts, modeVars
  <2> QED
    BY <2>11, GhostsSuffice
<1>9. wkey' # rkey' => Together'
  BY DEF Together
<1> QED
  BY <1>6, <1>7, <1>8, <1>9

LEMMA LeftOn ==
  ASSUME NEW txt \in Seq(Byte), NEW a \in Nat, NEW b, NEW q \in Seq(Byte), q = rbuf, Left(txt, a, b),
         NEW k \in 0..Len(q), rbuf' = Rest(q, k), Len(Rest(q, k)) = Len(q) - k,
         Piece(Rest(q, k), txt, a + k)
  PROVE  Left(txt, a + k, b)'
<1>1. PICK m \in Nat, r \in Nat : m = Len(q) /\ r = Len(Rest(q, k))
  <2>1. Len(q) \in Nat /\ Len(Rest(q, k)) \in Nat
    OBVIOUS
  <2> QED
    BY <2>1
<1>2. (a + k) + r = a + m
  BY <1>1
<1> QED
  BY <1>1, <1>2 DEF Left

LEMMA ReadLeftoverSafe ==
  ASSUME IInv, ReadLeftover
  PROVE  InOrder' /\ Together' /\ Apart' /\ Idle'
<1>1. /\ rkey # Plain /\ rbuf # <<>>
      /\ UNCHANGED <<modeVars, writeVars, line, wire, raw, recLen, length, got, reader>>
  BY DEF ReadLeftover
<1>2. have \in Seq(Byte) /\ rbuf \in Seq(Byte) /\ length \in Nat /\ PrefixLen \in Nat /\ Missing \in Nat
  BY Parameters DEF IInv, TypeOK, Missing
<1>3. PICK n : n = Smaller(Missing, Len(rbuf))
  OBVIOUS
<1>31. have' = have \o First(rbuf, n) /\ rbuf' = Rest(rbuf, n)
  BY <1>3 DEF ReadLeftover
<1>4. n \in 0..Len(rbuf)
  BY <1>2, <1>3 DEF Smaller
<1>5. PICK q \in Seq(Byte) : q = rbuf
  BY <1>2
<1>6. wkey = rkey /\ UNCHANGED <<wkey, rkey, framing>>
  BY <1>1 DEF IInv, Apart, modeVars
<1>7. InOrder' /\ Idle' /\ Apart'
  BY <1>1, <1>6 DEF IInv, InOrder, Idle, Apart, writeVars
<1>8. Together'
  <2>1. PICK txt \in Seq(Byte), w \in Nat : \E off : Ghosts(txt, off, w)
    BY <1>6, GhostsExist
  <2>2. PICK off : Ghosts(txt, off, w)
    BY <2>1
  <2>3. Messages(txt, off)
    BY <2>2 DEF Ghosts
  <2>4. PICK a \in Nat : a = Place(off)
    BY <2>3, PlaceNat DEF IInv
  <2>5. PICK cip \in Seq(Byte), k \in Nat : \E at, start : Sealed(txt, off, w, cip, at, k, start)
    BY <1>1, <1>6, <2>2 DEF Ghosts
  <2>6. PICK at, start : Sealed(txt, off, w, cip, at, k, start)
    BY <2>5
  <2>7. Left(txt, a, start[k + 1])
    BY <2>4, <2>6 DEF Sealed
  <2>8. Piece(q, txt, Place(off))
    BY <1>5, <2>4, <2>7 DEF Left
  <2>9. /\ Messages(txt, off)' /\ Place(off)' = Place(off) + n
        /\ Piece(Rest(q, n), txt, Place(off) + n) /\ Len(Rest(q, n)) = Len(q) - n
    <3>1. TypeOK /\ UNCHANGED <<sent, length, got>>
      BY <1>1 DEF IInv, writeVars
    <3>2. n \in 0..Len(q) /\ have' = have \o First(q, n)
      BY <1>31, <1>4, <1>5
    <3> QED
      BY <2>3, <2>8, <3>1, <3>2, MessagesRead
  <2>10. Left(txt, a + n, start[k + 1])'
    <3>1. n \in 0..Len(q) /\ rbuf' = Rest(q, n)
      BY <1>31, <1>4, <1>5
    <3>2. Piece(Rest(q, n), txt, a + n) /\ Len(Rest(q, n)) = Len(q) - n
      BY <2>4, <2>9
    <3>3. PICK b : b = start[k + 1]
      OBVIOUS
    <3>4. Left(txt, a + n, b)'
      BY <1>5, <2>7, <3>1, <3>2, <3>3, LeftOn
    <3> QED
      BY <3>3, <3>4 DEF Left
  <2>11. Sizes' = Sizes
    BY <1>1 DEF Sizes, writeVars
  <2>12. Texts(txt, start, w)'
    BY <1>1, <2>6, TextsKept DEF Sealed, writeVars
  <2>13. Carried(cip, Base(at, k, recLen) + Len(raw), Len(cip))'
    BY <1>1, <2>6 DEF Sealed, Carried
  <2>14. Left(txt, Place(off), start[k + 1])'
    BY <2>4, <2>9, <2>10 DEF Left
  <2>15. Sealed(txt, off, w, cip, at, k, start)'
    BY <1>1, <2>6, <2>11, <2>12, <2>13, <2>14 DEF Sealed
  <2>16. Unwritten(out, txt, w)'
    BY <1>1, <2>2, UnwrittenKept DEF Ghosts, writeVars
  <2>17. Ghosts(txt, off, w)'
    BY <1>1, <1>6, <2>9, <2>15, <2>16 DEF Ghosts
  <2> QED
    BY <2>17, GhostsSuffice
<1> QED
  BY <1>7, <1>8

LEMMA ReadRawSafe ==
  ASSUME IInv, ReadRaw
  PROVE  InOrder' /\ Together' /\ Apart' /\ Idle'
<1>1. /\ rkey # Plain /\ rbuf = <<>>
      /\ UNCHANGED <<modeVars, writeVars, line, recLen, rbuf, readVars, reader>>
  BY DEF ReadRaw
<1>2. /\ raw \in Seq(Byte) /\ wire \in Seq(Byte) /\ recLen \in Nat /\ PrefixLen \in Nat
      /\ Overhead \in Nat /\ RawMissing \in Nat /\ records \in Seq(Seq(Byte))
  BY Parameters DEF IInv, TypeOK, RawMissing
<1>3. PICK n \in 1..Smaller(RawMissing, Len(wire)) :
        raw' = raw \o First(wire, n) /\ wire' = Rest(wire, n)
  BY DEF ReadRaw
<1>4. n \in 0..Len(wire)
  BY <1>2 DEF Smaller
<1>5. PICK q \in Seq(Byte) : q = wire
  BY <1>2
<1>51. PICK p \in Seq(Byte) : p = raw
  BY <1>2
<1>52. n \in 0..Len(q) /\ raw' = p \o First(q, n) /\ wire' = Rest(q, n)
  BY <1>3, <1>4, <1>5, <1>51
<1>6. InOrder' /\ Idle' /\ Apart'
  BY <1>1 DEF IInv, InOrder, Idle, Apart, modeVars, writeVars, readVars
<1>8. ASSUME wkey' = rkey' PROVE Together'
  <2>1. PICK txt \in Seq(Byte), w \in Nat : \E off : Ghosts(txt, off, w)
    BY <1>1, <1>8, GhostsExist DEF modeVars
  <2>2. PICK off : Ghosts(txt, off, w)
    BY <2>1
  <2>3. Messages(txt, off)' /\ Place(off)' = Place(off) /\ Unwritten(out, txt, w)'
    BY <1>1, <2>2, MessagesKept, UnwrittenKept DEF Ghosts, readVars, writeVars
  <2>4. wkey # Plain /\ wkey' # Plain
    BY <1>1, <1>8 DEF modeVars
  <2>5. PICK cip \in Seq(Byte), k \in Nat : \E at, start : Sealed(txt, off, w, cip, at, k, start)
    BY <2>2, <2>4 DEF Ghosts
  <2>6. PICK at, start : Sealed(txt, off, w, cip, at, k, start)
    BY <2>5
  <2>7. PICK b \in Nat : b = Base(at, k, recLen)
    BY <2>6, RecordPlaceNat DEF Sealed, IInv
  <2>8. PICK a \in Nat : a = b + Len(p)
    OBVIOUS
  <2>9. Carried(cip, a, Len(cip))
    BY <1>51, <2>6, <2>7, <2>8 DEF Sealed
  <2>10. PICK z \in Seq(Nat) : z = Sizes
    BY <1>2, SizesFacts
  <2>11. PICK type : type = "seal"
    OBVIOUS
  <2>12. /\ Layout(cip, at, type, z, Overhead) /\ Takes(p, recLen, k, cip, at, z)
         /\ Piece(q, cip, Base(at, k, recLen) + Len(p))
    BY <1>5, <1>51, <2>6, <2>7, <2>8, <2>9, <2>10, <2>11 DEF Sealed, Carried
  <2>13. Takes(p \o First(q, n), recLen, k, cip, at, z)
    BY <1>52, <2>12, TakesMore
  <2>14. Piece(Rest(q, n), cip, Base(at, k, recLen) + (Len(p) + n))
    BY <1>52, <2>12, TakesMore
  <2>15. Len(Rest(q, n)) = Len(q) - n
    BY <1>52, Moved
  <2>16. Len(p \o First(q, n)) = Len(p) + n
    BY <1>52, Moved
  <2>17. b + (Len(p) + n) = a + n
    <3>1. PICK l \in Nat : l = Len(p)
      OBVIOUS
    <3>2. n \in Nat
      BY <1>52
    <3> QED
      BY <2>8, <3>1, <3>2
  <2>18. Piece(Rest(q, n), cip, a + n)
    BY <2>7, <2>14, <2>17
  <2>19. Carried(cip, a + n, Len(cip))'
    <3>1. PICK l : l = Len(cip)
      OBVIOUS
    <3>2. Carried(cip, a + n, l)'
      BY <1>1, <1>5, <1>52, <2>9, <2>15, <2>18, <3>1, CarriedOn
    <3> QED
      BY <3>1, <3>2
  <2>20. Sizes' = Sizes
    BY <1>1 DEF Sizes, writeVars
  <2>21. (Base(at, k, recLen) + Len(raw))' = a + n
    BY <1>1, <1>52, <2>7, <2>16, <2>17
  <2>22. Carried(cip, Base(at, k, recLen) + Len(raw), Len(cip))'
    BY <2>19, <2>21 DEF Carried
  <2>23. Texts(txt, start, w)'
    BY <1>1, <2>6, TextsKept DEF Sealed, writeVars
  <2>24. Left(txt, Place(off), start[k + 1])'
    BY <1>1, <2>3, <2>6 DEF Sealed, Left
  <2>25. Takes(raw, recLen, k, cip, at, Sizes)' /\ Layout(cip, at, "seal", Sizes, Overhead)'
    BY <1>1, <1>52, <2>6, <2>10, <2>13, <2>20 DEF Sealed
  <2>26. Sealed(txt, off, w, cip, at, k, start)'
    BY <2>22, <2>23, <2>24, <2>25 DEF Sealed
  <2>27. Ghosts(txt, off, w)'
    BY <2>3, <2>4, <2>26 DEF Ghosts
  <2> QED
    BY <2>27, GhostsSuffice
<1>9. wkey' # rkey' => Together'
  BY DEF Together
<1> QED
  BY <1>6, <1>8, <1>9

\* The reader of messages goes on from the same place.
LEMMA PlaceKept ==
  ASSUME NEW txt \in Seq(Byte), NEW w \in Nat, NEW off, Ghosts(txt, off, w),
         Messages(txt, off)', Place(off)' = Place(off), Unwritten(out, txt, w)',
         UNCHANGED <<modeVars, writeVars, line, wire, secureVars>>
  PROVE  Together'
<1>1. CASE wkey = Plain
  <2>1. Bare(txt, off, w)'
    BY <1>1, BareKept DEF Ghosts, secureVars
  <2>2. Ghosts(txt, off, w)'
    BY <1>1, <2>1 DEF Ghosts, modeVars
  <2> QED
    BY <2>2, GhostsSuffice
<1>2. CASE wkey # Plain
  <2>1. PICK cip \in Seq(Byte), n \in Nat : \E at, start : Sealed(txt, off, w, cip, at, n, start)
    BY <1>2 DEF Ghosts
  <2>2. PICK at, start : Sealed(txt, off, w, cip, at, n, start)
    BY <2>1
  <2>3. Sealed(txt, off, w, cip, at, n, start)'
    BY <2>2, SealedKept DEF secureVars, writeVars
  <2>4. Ghosts(txt, off, w)'
    BY <1>2, <2>3 DEF Ghosts, modeVars
  <2> QED
    BY <2>4, GhostsSuffice
<1> QED
  BY <1>1, <1>2

LEMMA RecordLengthSafe ==
  ASSUME IInv, RecordLength
  PROVE  InOrder' /\ Together' /\ Apart' /\ Idle'
<1>1. /\ rkey # Plain /\ recLen = 0 /\ RawMissing = 0
      /\ UNCHANGED <<modeVars, writeVars, line, wire, rbuf, readVars>>
  BY DEF RecordLength
<1>2. PICK n \in Lengths(raw) :
        IF n = 0 \/ n > MaxChunk THEN reader' = "failed" /\ UNCHANGED <<raw, recLen>>
                                 ELSE recLen' = n /\ raw' = <<>> /\ UNCHANGED reader
  BY DEF RecordLength
<1>3. /\ raw \in Seq(Byte) /\ Len(raw) = PrefixLen /\ Len(raw) > 0 /\ records \in Seq(Seq(Byte))
  BY <1>1, Parameters DEF IInv, TypeOK, RawMissing
<1>31. Overhead \in Nat
  BY Parameters
<1>4. rbuf = <<>>
  BY <1>3 DEF IInv, Idle
<1>5. CASE UNCHANGED <<raw, recLen>>
  BY <1>1, <1>5, FailedSafe DEF secureVars
<1>6. CASE ~UNCHANGED <<raw, recLen>>
  <2>1. n # 0 /\ recLen' = n /\ raw' = <<>>
    BY <1>2, <1>6
  <2>2. InOrder' /\ Idle' /\ Apart'
    BY <1>1, <1>4 DEF IInv, InOrder, Idle, Apart, modeVars, writeVars, readVars
  <2>3. ASSUME wkey' = rkey' PROVE Together'
    <3>1. PICK txt \in Seq(Byte), w \in Nat : \E off : Ghosts(txt, off, w)
      BY <1>1, <2>3, GhostsExist DEF modeVars
    <3>2. PICK off : Ghosts(txt, off, w)
      BY <3>1
    <3>3. Messages(txt, off)' /\ Place(off)' = Place(off) /\ Unwritten(out, txt, w)'
      BY <1>1, <3>2, MessagesKept, UnwrittenKept DEF Ghosts, readVars, writeVars
    <3>4. wkey # Plain /\ wkey' # Plain
      BY <1>1, <2>3 DEF modeVars
    <3>5. PICK cip \in Seq(Byte), k \in Nat : \E at, start : Sealed(txt, off, w, cip, at, k, start)
      BY <3>2, <3>4 DEF Ghosts
    <3>6. PICK at, start : Sealed(txt, off, w, cip, at, k, start)
      BY <3>5
    <3>7. PICK z \in Seq(Nat) : z = Sizes
      BY <1>3, SizesFacts
    <3>8. PICK type : type = "seal"
      OBVIOUS
    <3>9. PICK p \in Seq(Byte) : p = raw
      BY <1>3
    <3>10. Layout(cip, at, type, z, Overhead) /\ Takes(p, 0, k, cip, at, z) /\ Len(p) = PrefixLen
      BY <1>1, <1>3, <3>6, <3>7, <3>8, <3>9 DEF Sealed
    <3>11. k + 1 \in 1..Len(z)
      BY <1>31, <3>10, HeaderRead
    <3>12. p = Prefix(z[k + 1])
      BY <1>31, <3>10, HeaderRead
    <3>13. PICK v \in Nat : v = z[k + 1]
      <4>1. z[k + 1] \in Nat
        BY <3>11
      <4> QED
        BY <4>1
    <3>14. n = v
      BY <1>2, <3>9, <3>12, <3>13, LengthOfPrefix
    <3>15. Takes(<<>>, v, k, cip, at, z)
      BY <1>31, <2>1, <3>10, <3>13, <3>14, TakesHeader
    <3>16. Base(at, k, v) = Base(at, k, 0) + Len(p)
      BY <1>31, <2>1, <3>10, <3>13, <3>14, BaseHeader
    <3>161. Base(at, k, v) \in Nat
      <4>1. k \in 0..Len(z)
        BY <3>10 DEF Takes
      <4> QED
        BY <3>10, <4>1, BaseNat
    <3>17. Sizes' = Sizes
      BY <1>1 DEF Sizes, writeVars
    <3>18. Layout(cip, at, "seal", Sizes, Overhead)' /\ Takes(raw, recLen, k, cip, at, Sizes)'
      BY <2>1, <3>6, <3>7, <3>14, <3>15, <3>17 DEF Sealed
    <3>19. Base(at, k, recLen)' + Len(raw)' = Base(at, k, recLen) + Len(raw)
      BY <1>1, <2>1, <3>9, <3>14, <3>16, <3>161
    <3>20. Carried(cip, Base(at, k, recLen) + Len(raw), Len(cip))'
      BY <1>1, <3>6, <3>19 DEF Sealed, Carried
    <3>21. Texts(txt, start, w)'
      BY <1>1, <3>6, TextsKept DEF Sealed, writeVars
    <3>22. Left(txt, Place(off), start[k + 1])'
      BY <1>1, <3>3, <3>6 DEF Sealed, Left
    <3>23. Sealed(txt, off, w, cip, at, k, start)'
      BY <3>18, <3>20, <3>21, <3>22 DEF Sealed
    <3>24. Ghosts(txt, off, w)'
      BY <3>3, <3>4, <3>23 DEF Ghosts
    <3> QED
      BY <3>24, GhostsSuffice
  <2>4. wkey' # rkey' => Together'
    BY DEF Together
  <2> QED
    BY <2>2, <2>3, <2>4
<1> QED
  BY <1>5, <1>6

LEMMA MessageLengthSafe ==
  ASSUME IInv, MessageLength
  PROVE  InOrder' /\ Together' /\ Apart' /\ Idle'
<1>1. /\ length = 0 /\ Missing = 0
      /\ UNCHANGED <<modeVars, writeVars, line, wire, secureVars, got>>
  BY DEF MessageLength
<1>2. PICK n \in Lengths(have) :
        IF n = 0 \/ n > MaxSize THEN reader' = "failed" /\ UNCHANGED <<have, length>>
                                ELSE length' = n /\ have' = <<>> /\ UNCHANGED reader
  BY DEF MessageLength
<1>3. have \in Seq(Byte) /\ Len(have) = PrefixLen /\ Len(have) > 0 /\ sent \in Seq(Nat)
  BY <1>1, Parameters DEF IInv, TypeOK, Missing
<1>5. CASE UNCHANGED <<have, length>>
  BY <1>1, <1>5, FailedSafe DEF readVars
<1>6. CASE ~UNCHANGED <<have, length>>
  <2>1. n # 0 /\ length' = n /\ have' = <<>>
    BY <1>2, <1>6
  <2>2. InOrder' /\ Idle'
    BY <1>1 DEF IInv, InOrder, Idle, writeVars, secureVars
  <2>21. Apart'
    <3>1. have # <<>>
      BY <1>3
    <3> QED
      BY <1>1, <2>1, <3>1 DEF IInv, Apart, modeVars, secureVars
  <2>3. ASSUME wkey' = rkey' PROVE Together'
    <3>1. PICK txt \in Seq(Byte), w \in Nat : \E off : Ghosts(txt, off, w)
      BY <1>1, <2>3, GhostsExist DEF modeVars
    <3>2. PICK off : Ghosts(txt, off, w)
      BY <3>1
    <3>3. Unwritten(out, txt, w)'
      BY <1>1, <3>2, UnwrittenKept DEF Ghosts, writeVars
    <3>7. PICK z \in Seq(Nat) : z = sent
      BY <1>3
    <3>8. PICK type : type = "body"
      OBVIOUS
    <3>9. PICK p \in Seq(Byte) : p = have
      BY <1>3
    <3>91. PICK k : k = Len(got)
      OBVIOUS
    <3>92. PICK e \in Nat : e = 0
      OBVIOUS
    <3>10. Layout(txt, off, type, z, e) /\ Takes(p, 0, k, txt, off, z) /\ Len(p) = PrefixLen
      BY <1>1, <1>3, <3>2, <3>7, <3>8, <3>9, <3>91, <3>92 DEF Ghosts, Messages
    <3>11. k + 1 \in 1..Len(z)
      BY <3>10, HeaderRead
    <3>12. p = Prefix(z[k + 1])
      BY <3>10, HeaderRead
    <3>13. PICK v \in Nat : v = z[k + 1]
      <4>1. z[k + 1] \in Nat
        BY <3>11
      <4> QED
        BY <4>1
    <3>14. n = v
      BY <1>2, <3>9, <3>12, <3>13, LengthOfPrefix
    <3>15. Takes(<<>>, v, k, txt, off, z)
      BY <2>1, <3>10, <3>13, <3>14, TakesHeader
    <3>16. Base(off, k, v) = Base(off, k, 0) + Len(p)
      BY <2>1, <3>10, <3>13, <3>14, BaseHeader
    <3>161. Base(off, k, v) \in Nat
      <4>1. k \in 0..Len(z)
        BY <3>10 DEF Takes
      <4> QED
        BY <3>10, <4>1, BaseNat
    <3>17. Messages(txt, off)'
      BY <1>1, <2>1, <3>10, <3>14, <3>15, <3>7, <3>8, <3>91, <3>92 DEF Messages, writeVars
    <3>18. Place(off)' = Place(off)
      BY <1>1, <2>1, <3>9, <3>91, <3>14, <3>16, <3>161 DEF Place
    <3> QED
      BY <1>1, <2>3, <3>2, <3>3, <3>17, <3>18, PlaceKept
  <2>4. wkey' # rkey' => Together'
    BY DEF Together
  <2> QED
    BY <2>2, <2>21, <2>3, <2>4
<1> QED
  BY <1>5, <1>6

\* What a reader takes for a message is the next one, from an end with its
\* token.
LEMMA DeliverNext ==
  ASSUME IInv, Deliver, Whole \/ framing = "frame"
  PROVE  /\ wkey = rkey /\ Len(got) + 1 \in 1..Len(sent)
         /\ got' = Append(got, Len(got) + 1) /\ have' = <<>> /\ length' = 0 /\ UNCHANGED reader
<1>1. length > 0 /\ Missing = 0
  BY DEF Deliver
<1>2. have \in Seq(Byte) /\ Len(have) = length /\ length # 0 /\ length \in Nat
  BY <1>1, Parameters DEF IInv, TypeOK, Missing
<1>3. /\ got' = Append(got, IF Whole THEN have[1].v ELSE 0)
      /\ have' = <<>> /\ length' = 0 /\ UNCHANGED reader
  BY DEF Deliver
<1>4. wkey = rkey
  <2>1. SUFFICES ASSUME wkey # rkey PROVE FALSE
    OBVIOUS
  <2>2. framing = "message" /\ rkey = Plain /\ \A j \in 1..Len(have) : have[j].t # "body"
    BY <1>2, <2>1 DEF IInv, Apart
  <2>3. 1 \in 1..Len(have)
    BY <1>2
  <2>4. PICK type : type = "body" /\ type \in {"len", "body", "seal"}
    OBVIOUS
  <2>5. have = Bytes(type, have[1].v, Len(have))
    BY <2>2, <2>4 DEF Whole, Begins
  <2>6. have[1] \in Byte
    BY <1>2, <2>3
  <2>7. have[1].v \in Nat
    BY <2>6 DEF Byte
  <2>8. PICK v \in Nat, l \in Nat : v = have[1].v /\ l = Len(have)
    BY <1>2, <2>7
  <2>9. 1 \in 1..l
    BY <2>3, <2>8
  <2>10. Bytes(type, v, l)[1] = [t |-> type, v |-> v, k |-> 1]
    BY <2>4, <2>9, BytesAt
  <2>11. Bytes(type, v, l)[1].t = type
    BY <2>10
  <2> QED
    BY <2>2, <2>3, <2>4, <2>5, <2>8, <2>11
<1>5. PICK txt \in Seq(Byte), w \in Nat : \E off : Ghosts(txt, off, w)
  BY <1>4, GhostsExist
<1>6. PICK off : Ghosts(txt, off, w)
  BY <1>5
<1>7. Messages(txt, off)
  BY <1>6 DEF Ghosts
<1>8. Whole
  BY <1>1, <1>7, MessageRead DEF IInv
<1>9. have[1].v = Len(got) + 1
  BY <1>1, <1>7, MessageRead DEF IInv
<1>10. Len(got) + 1 \in 1..Len(sent)
  BY <1>1, <1>7, MessageRead DEF IInv
<1> QED
  BY <1>3, <1>4, <1>8, <1>9, <1>10

LEMMA DeliverSafe ==
  ASSUME IInv, Deliver
  PROVE  InOrder' /\ Together' /\ Apart' /\ Idle'
<1>1. /\ length > 0 /\ Missing = 0
      /\ UNCHANGED <<modeVars, writeVars, line, wire, secureVars>>
  BY DEF Deliver
<1>2. /\ have \in Seq(Byte) /\ length \in Nat /\ Len(have) = length /\ sent \in Seq(Nat)
      /\ got \in Seq(Nat) /\ length # 0
  BY <1>1, Parameters DEF IInv, TypeOK, Missing
<1>3. CASE ~(Whole \/ framing = "frame")
  BY <1>1, <1>3, FailedSafe DEF Deliver
<1>4. CASE Whole \/ framing = "frame"
  <2>1. have' = <<>> /\ length' = 0 /\ got' = Append(got, Len(got) + 1)
    BY <1>4, DeliverNext
  <2>2. wkey = rkey
    BY <1>4, DeliverNext
  <2>3. PICK txt \in Seq(Byte), w \in Nat : \E off : Ghosts(txt, off, w)
    BY <2>2, GhostsExist
  <2>4. PICK off : Ghosts(txt, off, w)
    BY <2>3
  <2>5. Messages(txt, off)
    BY <2>4 DEF Ghosts
  <2>8. PICK k \in Nat : k = Len(got)
    BY <1>2
  <2>9. got' = Append(got, k + 1)
    BY <2>1, <2>8
  <2>10. Len(got') = k + 1 /\ got'[k + 1] = k + 1 /\ \A i \in 1..k : got'[i] = got[i]
    BY <1>2, <2>8, <2>9, AppendFacts
  <2>11. got' \in Seq(Nat)
    BY <1>2, <2>9
  <2>12. InOrder'
    <3>1. \A i \in 1..k : got[i] = i
      BY <2>8 DEF IInv, InOrder
    <3>2. \A i \in 1..(k + 1) : got'[i] = i
      BY <2>10, <3>1
    <3>3. got' = [i \in 1..(k + 1) |-> i]
      BY <2>10, <2>11, <3>2
    <3> QED
      BY <1>1, <2>10, <3>3 DEF IInv, InOrder, writeVars
  <2>13. Idle' /\ Apart'
    BY <1>1, <2>2 DEF IInv, Idle, Apart, secureVars, modeVars
  <2>14. Together'
    <3>3. Unwritten(out, txt, w)'
      BY <1>1, <2>4, UnwrittenKept DEF Ghosts, writeVars
    <3>7. PICK z \in Seq(Nat) : z = sent
      BY <1>2
    <3>8. PICK type : type = "body"
      OBVIOUS
    <3>9. PICK p \in Seq(Byte) : p = have
      BY <1>2
    <3>92. PICK e \in Nat : e = 0
      OBVIOUS
    <3>93. PICK l \in Nat : l = length
      BY <1>2
    <3>10. /\ Layout(txt, off, type, z, e) /\ Takes(p, l, k, txt, off, z) /\ l # 0
           /\ Len(p) = l + e
      BY <1>2, <2>5, <2>8, <3>7, <3>8, <3>9, <3>92, <3>93 DEF Messages
    <3>15. Takes(<<>>, 0, k + 1, txt, off, z)
      BY <3>10, TakesUnit
    <3>151. PICK h \in Nat : h = k + 1
      OBVIOUS
    <3>152. h \in 1..Len(z)
      BY <3>10, <3>151, PayloadNext
    <3>153. l = z[h]
      BY <3>10, <3>151, PayloadNext
    <3>154. Base(off, h, 0) = Base(off, k, l) + (l + e)
      <4>1. off[h + 1] = off[h] + PrefixLen + z[h] + e
        BY <3>10, <3>151, <3>152, <3>153, LayoutStep
      <4>2. h \in 1..(Len(z) + 1)
        BY <3>10, <3>151, <3>152, <3>153
      <4>3. off[h] \in 0..Len(txt)
        BY <3>10, <3>151, <3>152, <3>153, <4>2, LayoutAt
      <4>4. Base(off, k, l) = off[h] + PrefixLen
        BY <3>10, <3>151, <3>152, <3>153 DEF Base
      <4>5. Base(off, h, 0) = off[h + 1] + 0
        BY DEF Base
      <4>6. PICK a \in Nat : a = off[h]
        BY <4>3
      <4>7. off[h + 1] = a + PrefixLen + l + e
        BY <3>10, <3>151, <3>152, <3>153, <4>1, <4>6
      <4>8. Base(off, k, l) = a + PrefixLen
        BY <4>4, <4>6
      <4>9. PrefixLen \in Nat
        BY Parameters
      <4> QED
        BY <4>5, <4>7, <4>8, <4>9
    <3>16. Base(off, h, 0) = Base(off, k, l) + Len(p)
      BY <3>10, <3>154
    <3>161. Base(off, h, 0) \in Nat
      <4>1. h \in 0..Len(z)
        BY <3>15, <3>151 DEF Takes
      <4> QED
        BY <3>10, <4>1, BaseNat
    <3>17. Messages(txt, off)'
      BY <1>1, <2>1, <2>10, <3>10, <3>15, <3>7, <3>8, <3>92 DEF Messages, writeVars
    <3>18. Place(off)' = Place(off)
      BY <2>1, <2>8, <2>10, <3>9, <3>93, <3>151, <3>16, <3>161 DEF Place
    <3> QED
      BY <1>1, <2>4, <3>3, <3>17, <3>18, PlaceKept
  <2> QED
    BY <2>12, <2>13, <2>14
<1> QED
  BY <1>3, <1>4

\* What a record has left is what its reader has not asked for.
LEMMA LeftMade ==
  ASSUME NEW txt \in Seq(Byte), NEW a \in Nat, NEW q \in Seq(Byte), NEW b, b = a + Len(q),
         NEW k \in 0..Len(q), rbuf' = Rest(q, k), Len(Rest(q, k)) = Len(q) - k,
         Piece(Rest(q, k), txt, a + k)
  PROVE  Left(txt, a + k, b)'
<1>1. PICK m \in Nat, r \in Nat : m = Len(q) /\ r = Len(Rest(q, k))
  <2>1. Len(q) \in Nat /\ Len(Rest(q, k)) \in Nat
    OBVIOUS
  <2> QED
    BY <2>1
<1>2. (a + k) + r = a + m
  BY <1>1
<1> QED
  BY <1>1, <1>2 DEF Left

LEMMA OpenRecordSafe ==
  ASSUME IInv, OpenRecord
  PROVE  InOrder' /\ Together' /\ Apart' /\ Idle'
<1>1. /\ recLen > 0 /\ RawMissing = 0
      /\ UNCHANGED <<modeVars, writeVars, line, wire, length, got>>
  BY DEF OpenRecord
<1>2. /\ have \in Seq(Byte) /\ raw \in Seq(Byte) /\ recLen \in Nat /\ records \in Seq(Seq(Byte))
      /\ PrefixLen \in Nat /\ Overhead \in Nat /\ Missing \in Nat /\ TypeOK
  BY Parameters DEF IInv, TypeOK, Missing
<1>3. CASE ~Opens
  BY <1>1, <1>3, FailedSafe DEF OpenRecord, secureVars, readVars
<1>4. CASE Opens
  <2>1. PICK q : q = records[raw[1].v]
    OBVIOUS
  <2>2. PICK m : m = Smaller(Missing, Len(q))
    OBVIOUS
  <2>3. have' = have \o First(q, m) /\ rbuf' = Rest(q, m) /\ raw' = <<>> /\ recLen' = 0
    BY <1>4, <2>1, <2>2 DEF OpenRecord
  <2>4. q \in Seq(Byte)
    BY <1>1, <1>2, <1>4, <2>1, TextRead DEF IInv
  <2>5. m \in 0..Len(q)
    BY <1>2, <2>2, <2>4 DEF Smaller
  <2>6. wkey = rkey
    BY <1>4 DEF Opens
  <2>7. InOrder' /\ Idle' /\ Apart'
    BY <1>1, <2>3, <2>6 DEF IInv, InOrder, Idle, Apart, modeVars, writeVars
  <2>8. PICK txt \in Seq(Byte), w \in Nat : \E off : Ghosts(txt, off, w)
    BY <2>6, GhostsExist
  <2>9. PICK off : Ghosts(txt, off, w)
    BY <2>8
  <2>10. wkey # Plain
    BY <1>1, <2>9 DEF Ghosts, Bare
  <2>11. Messages(txt, off)
    BY <2>9 DEF Ghosts
  <2>12. PICK a \in Nat : a = Place(off)
    BY <1>2, <2>11, PlaceNat
  <2>13. PICK cip \in Seq(Byte), k \in Nat : \E at, start : Sealed(txt, off, w, cip, at, k, start)
    BY <2>9, <2>10 DEF Ghosts
  <2>14. PICK at, start : Sealed(txt, off, w, cip, at, k, start)
    BY <2>13
  <2>15. k + 1 \in 1..Len(records) /\ recLen = Len(records[k + 1]) /\ raw[1].v = k + 1
    BY <1>1, <1>2, <2>14, RecordRead DEF Sealed
  <2>16. q = records[k + 1]
    BY <2>1, <2>15
  <2>17. rbuf = <<>>
    BY <1>1 DEF IInv, Idle
  <2>18. a = start[k + 1]
    BY <2>12, <2>14, <2>17 DEF Sealed, Left
  <2>19. Piece(q, txt, a)
    BY <2>14, <2>15, <2>16, <2>18 DEF Sealed, Texts
  <2>20. start[(k + 1) + 1] = a + Len(q)
    BY <2>14, <2>15, <2>16, <2>18 DEF Sealed, Texts
  <2>21. /\ Messages(txt, off)' /\ Place(off)' = Place(off) + m
         /\ Piece(Rest(q, m), txt, Place(off) + m) /\ Len(Rest(q, m)) = Len(q) - m
    <3>1. UNCHANGED <<sent, length, got>>
      BY <1>1 DEF writeVars
    <3>2. Piece(q, txt, Place(off)) /\ have' = have \o First(q, m)
      BY <2>3, <2>12, <2>19
    <3>3. TypeOK
      BY <1>2
    <3> QED
      BY <2>4, <2>5, <2>11, <3>1, <3>2, <3>3, MessagesRead, SMTT(30)
  <2>22. PICK b : b = start[(k + 1) + 1]
    OBVIOUS
  <2>23. Left(txt, a + m, b)'
    BY <2>3, <2>4, <2>5, <2>12, <2>20, <2>21, <2>22, LeftMade
  <2>24. Left(txt, Place(off), start[(k + 1) + 1])'
    BY <2>12, <2>21, <2>22, <2>23 DEF Left
  <2>25. PICK z \in Seq(Nat) : z = Sizes
    BY <1>2, SizesFacts
  <2>26. PICK type : type = "seal"
    OBVIOUS
  <2>27. PICK p \in Seq(Byte) : p = raw
    BY <1>2
  <2>28. PICK l \in Nat : l = recLen
    BY <1>2
  <2>29. /\ Layout(cip, at, type, z, Overhead) /\ Takes(p, l, k, cip, at, z) /\ l # 0
         /\ Len(p) = l + Overhead
    BY <1>1, <1>2, <2>14, <2>25, <2>26, <2>27, <2>28 DEF Sealed, RawMissing
  <2>30. Takes(<<>>, 0, k + 1, cip, at, z)
    BY <1>2, <2>29, TakesUnit
  <2>301. PICK h \in Nat : h = k + 1
    OBVIOUS
  <2>302. h \in 1..Len(z)
    BY <2>29, <2>301, PayloadNext
  <2>303. l = z[h]
    BY <2>29, <2>301, PayloadNext
  <2>304. Base(at, h, 0) = Base(at, k, l) + (l + Overhead)
    <3>1. at[h + 1] = at[h] + PrefixLen + z[h] + Overhead
      BY <1>2, <2>29, <2>301, <2>302, <2>303, LayoutStep
    <3>2. h \in 1..(Len(z) + 1)
      BY <1>2, <2>29, <2>301, <2>302, <2>303
    <3>3. at[h] \in 0..Len(cip)
      BY <1>2, <2>29, <2>301, <2>302, <2>303, <3>2, LayoutAt
    <3>4. Base(at, k, l) = at[h] + PrefixLen
      BY <1>2, <2>29, <2>301, <2>302, <2>303 DEF Base
    <3>5. Base(at, h, 0) = at[h + 1] + 0
      BY DEF Base
    <3>6. PICK c \in Nat : c = at[h]
      BY <3>3
    <3>7. at[h + 1] = c + PrefixLen + l + Overhead
      BY <1>2, <2>29, <2>301, <2>302, <2>303, <3>1, <3>6
    <3>8. Base(at, k, l) = c + PrefixLen
      BY <3>4, <3>6
    <3>9. PrefixLen \in Nat /\ Overhead \in Nat
      BY Parameters
    <3> QED
      BY <3>5, <3>7, <3>8, <3>9
  <2>31. Base(at, h, 0) = Base(at, k, l) + Len(p)
    BY <2>29, <2>304
  <2>32. Base(at, h, 0) \in Nat
    <3>1. h \in 0..Len(z)
      BY <2>30, <2>301 DEF Takes
    <3> QED
      BY <2>29, <3>1, BaseNat
  <2>33. Sizes' = Sizes
    BY <1>1 DEF Sizes, writeVars
  <2>34. Layout(cip, at, "seal", Sizes, Overhead)' /\ Takes(raw, recLen, k + 1, cip, at, Sizes)'
    BY <2>3, <2>14, <2>25, <2>30, <2>33 DEF Sealed
  <2>35. Base(at, k + 1, recLen)' + Len(raw)' = Base(at, k, recLen) + Len(raw)
    BY <2>3, <2>27, <2>28, <2>301, <2>31, <2>32
  <2>36. Carried(cip, Base(at, k + 1, recLen) + Len(raw), Len(cip))'
    BY <1>1, <2>14, <2>35 DEF Sealed, Carried
  <2>37. Texts(txt, start, w)'
    BY <1>1, <2>14, TextsKept DEF Sealed, writeVars
  <2>38. Sealed(txt, off, w, cip, at, k + 1, start)'
    BY <2>24, <2>34, <2>36, <2>37 DEF Sealed
  <2>39. Unwritten(out, txt, w)'
    BY <1>1, <2>9, UnwrittenKept DEF Ghosts, writeVars
  <2>40. k + 1 \in Nat
    OBVIOUS
  <2>41. Ghosts(txt, off, w)'
    BY <1>1, <2>10, <2>21, <2>38, <2>39, <2>40 DEF Ghosts, modeVars
  <2>42. Together'
    BY <2>41, GhostsSuffice
  <2> QED
    BY <2>7, <2>42
<1> QED
  BY <1>3, <1>4

-----------------------------------------------------------------------------
(* The theorems.                                                           *)

LEMMA InitIInv == Init => IInv
<1> SUFFICES ASSUME Init PROVE IInv
  OBVIOUS
<1>1. TypeOK
  BY Parameters DEF Init, TypeOK, Missing, RawMissing
<1>2. InOrder
  <2>1. got = <<>> /\ sent = <<>> /\ Len(sent) = 0 /\ Len(got) = 0
    BY DEF Init
  <2>2. [i \in 1..0 |-> i] = <<>>
    OBVIOUS
  <2>3. 0 <= MaxMsgs
    BY Parameters
  <2> QED
    BY <2>1, <2>2, <2>3 DEF InOrder
<1>3. Apart
  <2>1. Len(wire) = 0 /\ Len(have) = 0
    BY DEF Init
  <2> QED
    BY <2>1 DEF Init, Apart
<1>4. Idle
  BY DEF Init, Idle
<1>5. ASSUME wkey = rkey PROVE Together
  <2>0. <<>> \in Seq(Byte)
    OBVIOUS
  <2>1. PICK txt \in Seq(Byte) : txt = <<>>
    BY <2>0
  <2>2. PICK off : off = [i \in 1..1 |-> 0]
    OBVIOUS
  <2>3. PICK z : z = <<>>
    OBVIOUS
  <2>4. Len(txt) = 0 /\ Len(z) = 0 /\ off[1] = 0
    BY <2>1, <2>2, <2>3
  <2>5. /\ sent = z /\ out = <<>> /\ records = <<>> /\ line = "open" /\ wire = txt /\ raw = txt
        /\ recLen = 0 /\ rbuf = txt /\ have = txt /\ length = 0 /\ Len(got) = 0
    BY <2>1, <2>3 DEF Init
  <2>6. Base(off, 0, 0) = 0
    BY <2>4 DEF Base
  <2>7. Piece(txt, txt, 0)
    BY <2>4 DEF Piece
  <2>8. Takes(txt, 0, 0, txt, off, z)
    BY <2>4, <2>6, <2>7 DEF Takes
  <2>9. Layout(txt, off, "body", z, 0)
    BY <2>1, <2>2, <2>3, LayoutEmpty
  <2>10. Messages(txt, off)
    BY <2>5, <2>8, <2>9 DEF Messages
  <2>11. Place(off) = 0
    BY <2>4, <2>5, <2>6 DEF Place
  <2>12. Unwritten(out, txt, 0)
    <3>1. Len(<<>>) = 0
      OBVIOUS
    <3> QED
      BY <2>4, <2>5, <3>1 DEF Unwritten
  <2>13. Carried(txt, 0, 0)
    BY <2>4, <2>5, <2>7 DEF Carried
  <2>14. Bare(txt, off, 0)
    BY <2>1, <2>5, <2>11, <2>13 DEF Bare
  <2>15. Sizes = z
    <3>1. Len(records) = 0
      BY <2>5
    <3>2. Sizes = [r \in 1..0 |-> Len(records[r])]
      BY <3>1 DEF Sizes
    <3> QED
      BY <2>3, <3>2
  <2>16. Layout(txt, off, "seal", Sizes, Overhead)
    BY <2>1, <2>2, <2>3, <2>15, LayoutEmpty
  <2>17. Takes(raw, recLen, 0, txt, off, Sizes)
    BY <2>5, <2>8, <2>15
  <2>18. Carried(txt, Base(off, 0, recLen) + Len(raw), Len(txt))
    BY <2>4, <2>5, <2>6, <2>13
  <2>19. Texts(txt, off, 0)
    <3>1. Len(records) = 0
      BY <2>5
    <3>2. off \in [1..(0 + 1) -> Nat]
      BY <2>2
    <3>3. off[1] = 0 /\ off[0 + 1] = 0
      BY <2>4
    <3>4. \A r \in 1..0 : FALSE
      OBVIOUS
    <3> QED
      BY <3>1, <3>2, <3>3, <3>4 DEF Texts
  <2>20. Left(txt, Place(off), off[0 + 1])
    <3>1. off[0 + 1] = 0
      BY <2>4
    <3> QED
      BY <2>4, <2>5, <2>7, <2>11, <3>1 DEF Left
  <2>21. Sealed(txt, off, 0, txt, off, 0, off)
    BY <2>16, <2>17, <2>18, <2>19, <2>20 DEF Sealed
  <2>22. 0 \in Nat
    OBVIOUS
  <2>23. Ghosts(txt, off, 0)
    BY <2>10, <2>12, <2>14, <2>21, <2>22 DEF Ghosts
  <2> QED
    BY <2>22, <2>23 DEF Together, Ghosts
<1>6. wkey # rkey => Together
  BY DEF Together
<1> QED
  BY <1>1, <1>2, <1>3, <1>4, <1>5, <1>6 DEF IInv

LEMMA IInvStep == IInv /\ [Next]_vars => IInv'
<1> SUFFICES ASSUME IInv, [Next]_vars PROVE IInv'
  OBVIOUS
<1>1. TypeOK /\ Together
  BY DEF IInv
<1> SUFFICES TypeOK' /\ InOrder' /\ Together' /\ Apart' /\ Idle'
  BY DEF IInv
<1>2. ASSUME NEW n \in Lens, Send(n) PROVE TypeOK' /\ InOrder' /\ Together' /\ Apart' /\ Idle'
  BY <1>1, <1>2, WriterTypes, SendSafe
<1>3. CASE SendTooLong
  BY <1>1, <1>3, WriterTypes, CutSafe
<1>4. CASE WritePlain
  BY <1>1, <1>4, WriterTypes, WritePlainSafe DEF Write
<1>5. CASE WriteRecord
  BY <1>1, <1>5, WriterTypes, WriteRecordSafe DEF Write
<1>6. CASE ReadPlain
  BY <1>1, <1>6, ReadPlainTypes, ReadPlainSafe
<1>7. CASE ReadLeftover
  BY <1>1, <1>7, ReadLeftoverTypes, ReadLeftoverSafe
<1>8. CASE ReadRaw
  BY <1>1, <1>8, ReadRawTypes, ReadRawSafe
<1>9. CASE RecordLength
  BY <1>1, <1>9, RecordLengthTypes, RecordLengthSafe
<1>10. CASE OpenRecord
  BY <1>1, <1>10, OpenRecordTypes, OpenRecordSafe
<1>11. CASE MessageLength
  BY <1>1, <1>11, MessageLengthTypes, MessageLengthSafe
<1>12. CASE Deliver
  BY <1>1, <1>12, DeliverTypes, DeliverSafe
<1>13. CASE ReadFails
  BY <1>1, <1>13, EndTypes, FailedSafe DEF ReadFails
<1>14. CASE Cut
  BY <1>1, <1>14, EndTypes, CutSafe
<1>15. CASE UNCHANGED vars
  <2>1. UNCHANGED <<modeVars, writeVars, line, wire, secureVars, readVars, reader>>
    BY <1>15 DEF vars
  <2>2. TypeOK'
    BY <1>1, <2>1
    DEF TypeOK, modeVars, writeVars, secureVars, readVars, RawMissing, Missing
  <2>3. InOrder' /\ Together' /\ Apart' /\ Idle'
    BY <2>1, FailedSafe
  <2> QED
    BY <2>2, <2>3
<1> QED
  BY <1>2, <1>3, <1>4, <1>5, <1>6, <1>7, <1>8, <1>9, <1>10, <1>11, <1>12, <1>13, <1>14, <1>15
  DEF Next, Write, Read

\* The invariant holds throughout.
THEOREM Inductive == Spec => []IInv
  BY InitIInv, IInvStep, PTL DEF Spec

\* SecureConn and ReadMessage never hold more than one record and one message
\* of the sizes allowed, whatever the pieces that TCP makes of them.
THEOREM TypeInvariant == Spec => []TypeOK
<1>1. IInv => TypeOK
  BY DEF IInv
<1> QED
  BY <1>1, Inductive, PTL

LEMMA Counting ==
  ASSUME NEW k \in Nat
  PROVE  [i \in 1..(k + 1) |-> i] = Append([i \in 1..k |-> i], k + 1)
<1>1. PICK s \in Seq(Nat) : s = [i \in 1..k |-> i] /\ Len(s) = k /\ \A i \in 1..k : s[i] = i
  <2>1. [i \in 1..k |-> i] \in Seq(Nat) /\ Len([i \in 1..k |-> i]) = k
    OBVIOUS
  <2> QED
    BY <2>1
<1>2. PICK t \in Seq(Nat) : /\ t = [i \in 1..(k + 1) |-> i] /\ Len(t) = k + 1
                            /\ \A i \in 1..(k + 1) : t[i] = i
  <2>1. [i \in 1..(k + 1) |-> i] \in Seq(Nat) /\ Len([i \in 1..(k + 1) |-> i]) = k + 1
    OBVIOUS
  <2> QED
    BY <2>1
<1>3. PICK e \in Nat : e = k + 1
  OBVIOUS
<1>4. PICK a \in Seq(Nat) : a = Append(s, e)
  BY AppendFacts
<1>5. Len(a) = k + 1 /\ a[k + 1] = e /\ \A i \in 1..k : a[i] = s[i]
  BY <1>1, <1>4, AppendFacts
<1>6. \A i \in 1..(k + 1) : a[i] = t[i]
  BY <1>1, <1>2, <1>3, <1>5
<1>7. a = t
  BY <1>2, <1>5, <1>6
<1> QED
  BY <1>1, <1>2, <1>3, <1>4, <1>7

\* Channel without its fairness: messages arrive whole, in order and once,
\* and none between ends with different tokens.
ChannelSafety == Ch!Init /\ [][Ch!Next]_(Ch!vars)

LEMMA ChannelStep == IInv /\ [Next]_vars => [Ch!Next]_(Ch!vars)
<1> SUFFICES ASSUME IInv, [Next]_vars PROVE [Ch!Next]_(Ch!vars)
  OBVIOUS
<1> USE DEF Ch!Next, Ch!vars
<1>1. ASSUME NEW n \in Lens, Send(n) PROVE \E m \in 1..MaxMsgs : Ch!Send(m)
  <2>1. /\ sent' = Append(sent, n) /\ Len(sent) < MaxMsgs
        /\ UNCHANGED <<modeVars, line, readVars, reader>>
    BY <1>1 DEF Send
  <2>2. sent \in Seq(Nat) /\ n \in Nat /\ MaxMsgs \in Nat
    BY <1>1, Parameters DEF IInv, TypeOK
  <2>3. PICK k \in Nat : k = Len(sent)
    BY <2>2
  <2>4. Len(sent') = k + 1
    BY <2>1, <2>2, <2>3
  <2>5. [i \in 1..(k + 1) |-> i] = Append([i \in 1..k |-> i], k + 1)
    BY Counting
  <2>6. k + 1 \in 1..MaxMsgs
    BY <2>1, <2>2, <2>3
  <2> QED
    BY <2>1, <2>3, <2>4, <2>5, <2>6 DEF Ch!Send, modeVars, readVars
<1>2. ASSUME UNCHANGED <<modeVars, sent, readVars>>, line' = "cut" \/ reader' = "failed"
      PROVE  Ch!Break
  BY <1>2 DEF Ch!Break, modeVars, readVars
<1>3. ASSUME UNCHANGED <<modeVars, sent, got, line, reader>> PROVE UNCHANGED Ch!vars
  BY <1>3 DEF modeVars
<1>4. CASE SendTooLong \/ Cut \/ ReadFails
  BY <1>2, <1>4 DEF SendTooLong, Cut, ReadFails, writeVars
<1>5. CASE WritePlain \/ WriteRecord
  BY <1>3, <1>5 DEF WritePlain, WriteRecord, readVars
<1>6. CASE ReadPlain \/ ReadLeftover \/ ReadRaw
  BY <1>3, <1>6 DEF ReadPlain, ReadLeftover, ReadRaw, readVars, writeVars
<1>7. CASE RecordLength \/ OpenRecord \/ MessageLength
  <2>1. /\ UNCHANGED <<modeVars, sent, got, line>>
        /\ UNCHANGED reader \/ reader' = "failed"
    BY <1>7 DEF RecordLength, OpenRecord, MessageLength, readVars, writeVars
  <2> QED
    BY <1>3, <2>1 DEF Ch!Break, modeVars
<1>8. CASE Deliver
  <2>1. UNCHANGED <<modeVars, sent, line>>
    BY <1>8 DEF Deliver, writeVars
  <2>2. CASE Whole \/ framing = "frame"
    <3>1. /\ wkey = rkey /\ Len(got) + 1 \in 1..Len(sent)
          /\ got' = Append(got, Len(got) + 1) /\ UNCHANGED reader
      BY <1>8, <2>2, DeliverNext
    <3>2. sent \in Seq(Nat) /\ got \in Seq(Nat)
      BY Parameters DEF IInv, TypeOK
    <3>3. PICK s \in Seq(Nat) : s = [i \in 1..Len(sent) |-> i] /\ Len(s) = Len(sent)
      <4>1. PICK k \in Nat : k = Len(sent)
        BY <3>2
      <4>2. [i \in 1..k |-> i] \in Seq(Nat) /\ Len([i \in 1..k |-> i]) = k
        OBVIOUS
      <4> QED
        BY <4>1, <4>2
    <3>4. s[Len(got) + 1] = Len(got) + 1 /\ Len(got) < Len(s)
      BY <3>1, <3>2, <3>3
    <3> QED
      BY <2>1, <3>1, <3>3, <3>4 DEF Ch!Deliver, modeVars
  <2>3. CASE ~(Whole \/ framing = "frame")
    BY <1>2, <1>8, <2>1, <2>3 DEF Deliver
  <2> QED
    BY <2>2, <2>3
<1>9. CASE UNCHANGED vars
  BY <1>3, <1>9 DEF vars, writeVars, readVars
<1> QED
  BY <1>1, <1>4, <1>5, <1>6, <1>7, <1>8, <1>9 DEF Next, Write, Read

\* Frames and records on a byte stream are a channel of messages, however the
\* bytes are cut and wherever the records fall.
THEOREM ChannelImplemented == Spec => ChannelSafety
<1>1. Init => Ch!Init
  BY DEF Init, Ch!Init
<1> QED
  BY <1>1, Inductive, ChannelStep, PTL DEF Spec, ChannelSafety
=============================================================================
