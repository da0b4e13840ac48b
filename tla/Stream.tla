------------------------------- MODULE Stream -------------------------------
(***************************************************************************)
(* Messages on a TCP connection: the length prefix of WriteMessage,        *)
(* ReadMessage, WriteFrame and ReadFrame (internal/protocol/protocol.go)   *)
(* and the encrypted records of SecureConn (secure.go). TCP hands over the *)
(* bytes in pieces of any size, so a message may come in parts and over    *)
(* several records; a record never holds parts of two messages, because    *)
(* each write seals records of its own.                                    *)
(*                                                                         *)
(* A byte is known by what it is part of: [t |-> "len", v |-> n, k] is the *)
(* k-th byte of a prefix that says n, "body" the k-th byte of message v,   *)
(* "seal" the k-th byte of the nonce, text and tag of record v. The cipher *)
(* is perfect: a record opens if it is whole and the keys are the same.    *)
(*                                                                         *)
(* "message" is WriteMessage: two writes, plain or encrypted. "frame" is   *)
(* WriteFrame: one write. The program uses frames on plain connections     *)
(* only; they are here on a SecureConn as well because it is a net.Conn    *)
(* for any caller, and only writes that reads do not match fill its rbuf.  *)
(***************************************************************************)
EXTENDS Naturals, Sequences

CONSTANTS
  Lens,      \* BOUND: lengths of the messages sent
  MaxMsgs,   \* BOUND: messages sent in a run
  Keys,      \* tokens of the two ends, with Plain for none
  Plain,
  PrefixLen, \* four bytes
  MaxSize,   \* maxMessageSize, MaxFrameSize
  MaxChunk,  \* maxSecureChunk
  Overhead   \* bytes of nonce and tag

ASSUME StreamAssumption ==
  /\ {MaxMsgs, PrefixLen, MaxSize, MaxChunk, Overhead} \subseteq Nat \ {0}
  /\ Lens \subseteq 1..MaxSize
  /\ Plain \in Keys

VARIABLES
  framing,    \* message or frame
  wkey, rkey, \* the token of the writing and of the reading end
  sent,       \* lengths of the messages accepted for writing
  out,        \* what the writer has still to hand to conn.Write, by call
  records,    \* the text of each record sealed so far
  line,       \* open or cut
  wire,       \* bytes written and not read
  raw,        \* bytes of the record being read
  recLen,     \* its length; 0 while its prefix is read
  rbuf,       \* SecureConn.rbuf
  have,       \* bytes of the message being read
  length,     \* its length; 0 while its prefix is read
  got,        \* messages handed to the reader's caller
  reader      \* reading or failed

modeVars   == <<framing, wkey, rkey>>
writeVars  == <<sent, out, records>>
secureVars == <<raw, recLen, rbuf>>
readVars   == <<have, length, got>>
vars == <<modeVars, writeVars, line, wire, secureVars, readVars, reader>>

Smaller(a, b) == IF a <= b THEN a ELSE b
First(s, n) == SubSeq(s, 1, n)
Rest(s, n)  == SubSeq(s, n + 1, Len(s))

Bytes(type, v, n) == [k \in 1..n |-> [t |-> type, v |-> v, k |-> k]]
Prefix(n)  == Bytes("len", n, PrefixLen)
Body(i, n) == Bytes("body", i, n)
Seal(r, n) == Bytes("seal", r, n + Overhead)

\* s is a piece of that type from its first byte on.
Begins(s, type) == s = Bytes(type, s[1].v, Len(s))

\* What four bytes say as a length: the number written, or anything.
Lengths(s) == IF Begins(s, "len") THEN {s[1].v} ELSE 0..(MaxSize + 1)

Init ==
  /\ framing \in {"message", "frame"} /\ wkey \in Keys /\ rkey \in Keys
  /\ framing = "frame" => wkey = rkey
  /\ sent = <<>> /\ out = <<>> /\ records = <<>>
  /\ line = "open" /\ wire = <<>>
  /\ raw = <<>> /\ recLen = 0 /\ rbuf = <<>>
  /\ have = <<>> /\ length = 0 /\ got = <<>>
  /\ reader = "reading"

\* Bytes io.ReadFull still asks for: of the message, of the record.
Missing == (IF length = 0 THEN PrefixLen ELSE length) - Len(have)
RawMissing == (IF recLen = 0 THEN PrefixLen ELSE recLen + Overhead) - Len(raw)

Reading == reader = "reading" /\ Missing > 0

Opens == wkey = rkey /\ Begins(raw, "seal") /\ Len(records[raw[1].v]) = recLen

-----------------------------------------------------------------------------
(* Plausible mistakes, each the changed form of the action it is named     *)
(* for; no specification uses them.                                        *)

\* SecureConn.Read that believes every length.
RecordLengthUnchecked ==
  /\ Reading /\ rkey # Plain /\ recLen = 0 /\ RawMissing = 0
  /\ recLen' \in Lengths(raw) /\ raw' = <<>>
  /\ UNCHANGED <<modeVars, writeVars, line, wire, rbuf, readVars, reader>>

\* SecureConn.Read without rbuf.
OpenDropsRest ==
  /\ Reading /\ recLen > 0 /\ RawMissing = 0 /\ Opens
  /\ LET text == records[raw[1].v] IN have' = have \o First(text, Smaller(Missing, Len(text)))
  /\ raw' = <<>> /\ recLen' = 0
  /\ UNCHANGED <<modeVars, writeVars, line, wire, rbuf, length, got, reader>>

-----------------------------------------------------------------------------
(* The writer: WriteMessage, WriteFrame, SecureConn.Write.                 *)

Calls(i, n) == IF framing = "message" THEN <<Prefix(n), Body(i, n)>>
                                      ELSE <<Prefix(n) \o Body(i, n)>>

Send(n) ==
  /\ out = <<>> /\ line = "open" /\ Len(sent) < MaxMsgs
  /\ sent' = Append(sent, n)
  /\ out' = Calls(Len(sent'), n)
  /\ UNCHANGED <<modeVars, records, line, wire, secureVars, readVars, reader>>

\* A message that is too long is refused before a byte is written, and every
\* caller then closes the connection.
SendTooLong ==
  /\ framing = "message" /\ out = <<>> /\ line = "open"
  /\ line' = "cut"
  /\ UNCHANGED <<modeVars, writeVars, wire, secureVars, readVars, reader>>

WritePlain ==
  /\ wkey = Plain /\ out # <<>> /\ line = "open"
  /\ wire' = wire \o Head(out)
  /\ out' = Tail(out)
  /\ UNCHANGED <<modeVars, sent, records, line, secureVars, readVars, reader>>

\* One turn of SecureConn.Write: writeFrame seals a chunk and writes it in
\* one call.
WriteRecord ==
  /\ wkey # Plain /\ out # <<>> /\ line = "open"
  /\ LET n == Smaller(Len(Head(out)), MaxChunk)
         rest == Rest(Head(out), n) IN
     /\ records' = Append(records, First(Head(out), n))
     /\ wire' = wire \o Prefix(n) \o Seal(Len(records'), n)
     /\ out' = IF rest = <<>> THEN Tail(out) ELSE <<rest>> \o Tail(out)
  /\ UNCHANGED <<modeVars, sent, line, secureVars, readVars, reader>>

-----------------------------------------------------------------------------
(* The reader: io.ReadFull of ReadMessage and ReadFrame asks for the bytes *)
(* that are missing until it has them.                                     *)

ReadPlain ==
  /\ Reading /\ rkey = Plain
  /\ \E n \in 1..Smaller(Missing, Len(wire)) :
       have' = have \o First(wire, n) /\ wire' = Rest(wire, n)
  /\ UNCHANGED <<modeVars, writeVars, line, secureVars, length, got, reader>>

\* SecureConn.Read: first what the last record left ...
ReadLeftover ==
  /\ Reading /\ rkey # Plain /\ rbuf # <<>>
  /\ LET n == Smaller(Missing, Len(rbuf)) IN
     have' = have \o First(rbuf, n) /\ rbuf' = Rest(rbuf, n)
  /\ UNCHANGED <<modeVars, writeVars, line, wire, raw, recLen, length, got, reader>>

\* ... then the next record, its prefix and its text by io.ReadFull.
ReadRaw ==
  /\ Reading /\ rkey # Plain /\ rbuf = <<>> /\ RawMissing > 0
  /\ \E n \in 1..Smaller(RawMissing, Len(wire)) :
       raw' = raw \o First(wire, n) /\ wire' = Rest(wire, n)
  /\ UNCHANGED <<modeVars, writeVars, line, recLen, rbuf, readVars, reader>>

RecordLength ==
  /\ Reading /\ rkey # Plain /\ recLen = 0 /\ RawMissing = 0
  /\ \E n \in Lengths(raw) :
       IF n = 0 \/ n > MaxChunk
       THEN reader' = "failed" /\ UNCHANGED <<raw, recLen>>
       ELSE recLen' = n /\ raw' = <<>> /\ UNCHANGED reader
  /\ UNCHANGED <<modeVars, writeVars, line, wire, rbuf, readVars>>

\* The text that does not fit the caller's buffer stays in rbuf.
OpenRecord ==
  /\ Reading /\ recLen > 0 /\ RawMissing = 0
  /\ IF Opens
     THEN LET text == records[raw[1].v]
              n == Smaller(Missing, Len(text)) IN
          /\ have' = have \o First(text, n) /\ rbuf' = Rest(text, n)
          /\ raw' = <<>> /\ recLen' = 0
          /\ UNCHANGED reader
     ELSE reader' = "failed" /\ UNCHANGED <<have, rbuf, raw, recLen>>
  /\ UNCHANGED <<modeVars, writeVars, line, wire, length, got>>

MessageLength ==
  /\ reader = "reading" /\ length = 0 /\ Missing = 0
  /\ \E n \in Lengths(have) :
       IF n = 0 \/ n > MaxSize
       THEN reader' = "failed" /\ UNCHANGED <<have, length>>
       ELSE length' = n /\ have' = <<>> /\ UNCHANGED reader
  /\ UNCHANGED <<modeVars, writeVars, line, wire, secureVars, got>>

Whole == Begins(have, "body") /\ sent[have[1].v] = length

\* Bytes that are no message do not parse; a datagram is not parsed.
Deliver ==
  /\ reader = "reading" /\ length > 0 /\ Missing = 0
  /\ IF Whole \/ framing = "frame"
     THEN /\ got' = Append(got, IF Whole THEN have[1].v ELSE 0)
          /\ have' = <<>> /\ length' = 0
          /\ UNCHANGED reader
     ELSE reader' = "failed" /\ UNCHANGED readVars
  /\ UNCHANGED <<modeVars, writeVars, line, wire, secureVars>>

\* The end of the connection or a read deadline, in the middle of anything;
\* every caller then closes the connection.
ReadFails ==
  /\ Reading
  /\ reader' = "failed"
  /\ UNCHANGED <<modeVars, writeVars, line, wire, secureVars, readVars>>

-----------------------------------------------------------------------------
\* The connection breaks, or the writer closes it; part of what was written
\* may be lost.
Cut ==
  /\ line = "open"
  /\ line' = "cut"
  /\ \E n \in 0..Len(wire) : wire' = First(wire, n)
  /\ UNCHANGED <<modeVars, writeVars, secureVars, readVars, reader>>

Write == WritePlain \/ WriteRecord

Read ==
  \/ ReadPlain \/ ReadLeftover \/ ReadRaw \/ RecordLength \/ OpenRecord
  \/ MessageLength \/ Deliver

Next ==
  \/ \E n \in Lens : Send(n)
  \/ SendTooLong \/ Write \/ Read \/ ReadFails \/ Cut

Spec == Init /\ [][Next]_vars

\* The writer and the reader go on; nobody has to send or to fail.
Fairness == WF_vars(Write) /\ WF_vars(Read)

FairSpec == Spec /\ Fairness

-----------------------------------------------------------------------------
Byte == [t : {"len", "body", "seal"}, v : Nat, k : Nat]

\* The values of both ends' state; a peer never makes the reader hold more
\* than one message and one record of the sizes allowed.
TypeOK ==
  /\ framing \in {"message", "frame"} /\ wkey \in Keys /\ rkey \in Keys
  /\ sent \in Seq(Lens) /\ out \in Seq(Seq(Byte)) /\ records \in Seq(Seq(Byte))
  /\ line \in {"open", "cut"} /\ wire \in Seq(Byte)
  /\ raw \in Seq(Byte) /\ recLen \in 0..MaxChunk /\ RawMissing >= 0
  /\ rbuf \in Seq(Byte) /\ Len(rbuf) < MaxChunk
  /\ have \in Seq(Byte) /\ length \in 0..MaxSize /\ Missing >= 0
  /\ got \in Seq(Nat)
  /\ reader \in {"reading", "failed"}

Ch == INSTANCE Channel WITH
        Messages <- 1..MaxMsgs,
        sent <- [i \in 1..Len(sent) |-> i],
        same <- wkey = rkey,
        broken <- line = "cut" \/ reader = "failed"

\* However TCP cuts the bytes and wherever the records fall, the two ends are
\* a channel of messages: whole, in order, once, and all of them as long as
\* the connection holds. Ends with different tokens exchange nothing.
ChannelSpec == Ch!Spec
=============================================================================
