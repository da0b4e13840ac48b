------------------------------ MODULE Forward ------------------------------
(***************************************************************************)
(* The data phase of a TCP mapping (internal/netutil/netutil.go): the      *)
(* server's Join between the public connection and the work connection,    *)
(* and the client's Join between the work connection and the local         *)
(* service. Three TCP connections in a row, two relays, two directions.    *)
(*                                                                         *)
(*   public peer --1-- server --2-- client --3-- local service             *)
(*                                                                         *)
(* A copying goroutine keeps the order of bytes, so a byte is its position *)
(* in its direction, and a connection is what was written to it, what was  *)
(* read from it and whether the writer half-closed it. A connection may    *)
(* break at any moment; both ends then get errors.                         *)
(***************************************************************************)
EXTENDS Naturals

CONSTANTS MaxUp, MaxDown,  \* BOUND: bytes the public and the local peer send
          Buf,             \* bytes a connection holds unread
          Fragile          \* BOUND: connections that may break by themselves

ASSUME ForwardAssumption ==
  MaxUp \in Nat /\ MaxDown \in Nat /\ Buf \in Nat \ {0} /\ Fragile \subseteq 1..3

Dirs == {"up", "down"}           \* public to local, local to public
MaxBytes(d) == IF d = "up" THEN MaxUp ELSE MaxDown
Relays == {"server", "client"}
Conns == 1..3

First(d) == IF d = "up" THEN 1 ELSE 3
Final(d) == IF d = "up" THEN 3 ELSE 1
Left(r) == IF r = "server" THEN 1 ELSE 2
Src(r, d) == IF d = "up" THEN Left(r) ELSE Left(r) + 1
Dst(r, d) == IF d = "up" THEN Left(r) + 1 ELSE Left(r)

\* Join(conn, workConn, BytesIn, BytesOut) of the server and
\* Join(localConn, workConn, BytesOut, BytesIn) of the client: proxyCopy(a, b,
\* aToB) counts what it reads from b.
CounterOf(d) == IF d = "down" THEN "in" ELSE "out"

VARIABLES
  put,     \* bytes written to a connection, for each direction
  got,     \* bytes read from it
  fin,     \* the writer half-closed it
  broken,  \* the connection was reset
  copy,    \* progress of each proxyCopy
  join,    \* each Join runs or has closed both connections
  total,   \* BytesIn and BytesOut of each side
  eof      \* the receiving peer read the end of the stream

vars == <<put, got, fin, broken, copy, join, total, eof>>

Init ==
  /\ put = [d \in Dirs |-> [c \in Conns |-> 0]]
  /\ got = [d \in Dirs |-> [c \in Conns |-> 0]]
  /\ fin = [d \in Dirs |-> [c \in Conns |-> FALSE]]
  /\ broken = [c \in Conns |-> FALSE]
  /\ copy = [r \in Relays |-> [d \in Dirs |-> "read"]]
  /\ join = [r \in Relays |-> "on"]
  /\ total = [r \in Relays |-> [k \in {"in", "out"} |-> 0]]
  /\ eof = [d \in Dirs |-> FALSE]

AtEnd(d, c) == fin[d][c] /\ got[d][c] = put[d][c]
Unread(d, c) == got[d][c] < put[d][c]
Room(d, c) == put[d][c] - got[d][c] < Buf

-----------------------------------------------------------------------------
(* Plausible mistakes, each the changed form of the action it is named     *)
(* for; no specification uses them.                                        *)

\* A partial write is repeated from its start.
WriteTwice(r, d) ==
  /\ copy[r][d] = "write" /\ ~broken[Dst(r, d)] /\ Room(d, Dst(r, d))
  /\ put' = [put EXCEPT ![d][Dst(r, d)] = @ + 2]
  /\ copy' = [copy EXCEPT ![r][d] = "read"]
  /\ UNCHANGED <<got, fin, broken, join, total, eof>>

\* The copier stops at the end mark though bytes are unread.
CopyEndsEarly(r, d) ==
  /\ copy[r][d] = "read" /\ (fin[d][Src(r, d)] \/ broken[Src(r, d)])
  /\ copy' = [copy EXCEPT ![r][d] = "half"]
  /\ UNCHANGED <<put, got, fin, broken, join, total, eof>>

\* The end of a direction is not passed on.
HalfCloseNot(r, d) ==
  /\ copy[r][d] = "half"
  /\ copy' = [copy EXCEPT ![r][d] = "done"]
  /\ UNCHANGED <<put, got, fin, broken, join, total, eof>>

\* Join closes both connections after the first direction.
ClosesAfterOne(r) ==
  /\ join[r] = "on" /\ \E d \in Dirs : copy[r][d] = "done"
  /\ join' = [join EXCEPT ![r] = "closed"]
  /\ copy' = [copy EXCEPT ![r] = [d \in Dirs |-> "done"]]
  /\ fin' = [d \in Dirs |-> [fin[d] EXCEPT ![Dst(r, d)] = TRUE]]
  /\ UNCHANGED <<put, got, broken, total, eof>>

-----------------------------------------------------------------------------
(* proxyCopy                                                               *)

\* The counting reader adds what it read.
Read(r, d) ==
  /\ copy[r][d] = "read" /\ Unread(d, Src(r, d))
  /\ got' = [got EXCEPT ![d][Src(r, d)] = @ + 1]
  /\ total' = [total EXCEPT ![r][CounterOf(d)] = @ + 1]
  /\ copy' = [copy EXCEPT ![r][d] = "write"]
  /\ UNCHANGED <<put, fin, broken, join, eof>>

Write(r, d) ==
  /\ copy[r][d] = "write" /\ ~broken[Dst(r, d)] /\ Room(d, Dst(r, d))
  /\ put' = [put EXCEPT ![d][Dst(r, d)] = @ + 1]
  /\ copy' = [copy EXCEPT ![r][d] = "read"]
  /\ UNCHANGED <<got, fin, broken, join, total, eof>>

\* io.Copy ends: the end of the source, or an error on either side.
CopyEnds(r, d) ==
  /\ \/ copy[r][d] = "read" /\ (AtEnd(d, Src(r, d)) \/ broken[Src(r, d)])
     \/ copy[r][d] = "write" /\ broken[Dst(r, d)]
  /\ copy' = [copy EXCEPT ![r][d] = "half"]
  /\ UNCHANGED <<put, got, fin, broken, join, total, eof>>

\* CloseWrite of the destination; CloseRead of the source has no effect on
\* the peer.
HalfClose(r, d) ==
  /\ copy[r][d] = "half"
  /\ fin' = [fin EXCEPT ![d][Dst(r, d)] = TRUE]
  /\ copy' = [copy EXCEPT ![r][d] = "done"]
  /\ UNCHANGED <<put, got, broken, join, total, eof>>

-----------------------------------------------------------------------------
(* Join                                                                    *)

\* What a relay closes with data unread, or still to come, is reset.
Reset(r) ==
  broken' = [c \in Conns |-> broken[c] \/ \E d \in Dirs : c = Src(r, d) /\ ~AtEnd(d, c)]

JoinCloses(r) ==
  /\ join[r] = "on" /\ \A d \in Dirs : copy[r][d] = "done"
  /\ join' = [join EXCEPT ![r] = "closed"]
  /\ Reset(r)
  /\ UNCHANGED <<put, got, fin, copy, total, eof>>

-----------------------------------------------------------------------------
(* The two peers, and the network.                                         *)

PeerSends(d) ==
  /\ ~fin[d][First(d)] /\ ~broken[First(d)] /\ Room(d, First(d))
  /\ put[d][First(d)] < MaxBytes(d)
  /\ put' = [put EXCEPT ![d][First(d)] = @ + 1]
  /\ UNCHANGED <<got, fin, broken, copy, join, total, eof>>

PeerEnds(d) ==
  /\ ~fin[d][First(d)]
  /\ fin' = [fin EXCEPT ![d][First(d)] = TRUE]
  /\ UNCHANGED <<put, got, broken, copy, join, total, eof>>

PeerReads(d) ==
  /\ ~eof[d] /\ Unread(d, Final(d))
  /\ got' = [got EXCEPT ![d][Final(d)] = @ + 1]
  /\ UNCHANGED <<put, fin, broken, copy, join, total, eof>>

\* The end of the stream, or an error.
PeerSeesEnd(d) ==
  /\ ~eof[d] /\ (AtEnd(d, Final(d)) \/ broken[Final(d)])
  /\ eof' = [eof EXCEPT ![d] = TRUE]
  /\ UNCHANGED <<put, got, fin, broken, copy, join, total>>

ConnBreaks(c) ==
  /\ c \in Fragile /\ ~broken[c]
  /\ broken' = [broken EXCEPT ![c] = TRUE]
  /\ UNCHANGED <<put, got, fin, copy, join, total, eof>>

-----------------------------------------------------------------------------
Copy(r, d) == Read(r, d) \/ Write(r, d) \/ CopyEnds(r, d) \/ HalfClose(r, d)

PeerListens(d) == PeerReads(d) \/ PeerSeesEnd(d)

Next ==
  \/ \E r \in Relays : JoinCloses(r) \/ \E d \in Dirs : Copy(r, d)
  \/ \E d \in Dirs : PeerSends(d) \/ PeerEnds(d) \/ PeerListens(d)
  \/ \E c \in Conns : ConnBreaks(c)

Spec == Init /\ [][Next]_vars

\* Goroutines run and the peers read. No peer is obliged to send or to end,
\* no connection to break.
Fairness ==
  /\ \A r \in Relays : WF_vars(JoinCloses(r)) /\ \A d \in Dirs : WF_vars(Copy(r, d))
  /\ \A d \in Dirs : WF_vars(PeerListens(d))

FairSpec == Spec /\ Fairness

-----------------------------------------------------------------------------
\* A connection never holds more than its buffer, and nobody reads more than
\* was written to it.
TypeOK ==
  /\ put \in [Dirs -> [Conns -> Nat]] /\ got \in [Dirs -> [Conns -> Nat]]
  /\ \A d \in Dirs, c \in Conns : got[d][c] <= put[d][c] /\ put[d][c] <= got[d][c] + Buf
  /\ fin \in [Dirs -> [Conns -> BOOLEAN]]
  /\ broken \in [Conns -> BOOLEAN]
  /\ copy \in [Relays -> [Dirs -> {"read", "write", "half", "done"}]]
  /\ join \in [Relays -> {"on", "closed"}]
  /\ total \in [Relays -> [{"in", "out"} -> Nat]]
  /\ eof \in [Dirs -> BOOLEAN]

Failed == \E c \in Conns : broken[c]

\* A relay that worked well closes only what it has emptied: without a reset
\* from outside none of the program's own closes resets a connection, and
\* every byte a copier took is on its way.
CleanClose ==
  ~Failed => \A r \in Relays, d \in Dirs :
    copy[r][d] \in {"half", "done"} =>
      AtEnd(d, Src(r, d)) /\ put[d][Dst(r, d)] = got[d][Src(r, d)]

\* "aToB、bToA ... 分别累加 a->b、b->a 的字节数" (Join) and "公网 -> 隧道 计为入站流量"
\* (handleTCPConn): BytesIn counts what comes from the public side.
InboundCounted == \A r \in Relays : total[r]["in"] = got["up"][Src(r, "up")]

D == INSTANCE Duplex WITH
       sent     <- [d \in Dirs |-> put[d][First(d)]],
       ended    <- [d \in Dirs |-> fin[d][First(d)]],
       received <- [d \in Dirs |-> got[d][Final(d)]],
       failed   <- Failed

\* The two Joins together are a duplex stream with half-close.
DuplexSpec == D!Spec

\* "确保数据被完整转发后再释放连接" (Join): what one peer sent reaches the other,
\* also after the opposite direction has ended.
Delivers ==
  \A d \in Dirs :
    got[d][Final(d)] < put[d][First(d)] ~> got[d][Final(d)] = put[d][First(d)] \/ Failed

\* When both peers have ended, or the connections to them broke, both Joins
\* close everything.
BothEnd ==
  (\A d \in Dirs : fin[d][First(d)] \/ broken[First(d)]) ~>
    \A r \in Relays : join[r] = "closed"
=============================================================================
