------------------------------- MODULE Duplex -------------------------------
(***************************************************************************)
(* What a forwarded TCP session promises its two peers: each direction     *)
(* delivers what was sent, from the first byte on, and announces its end   *)
(* only after everything sent was delivered, unless a connection on the    *)
(* way failed. Bytes are named by their position.                          *)
(***************************************************************************)
EXTENDS Naturals

CONSTANTS Dirs

VARIABLES sent,      \* bytes the sender wrote
          ended,     \* the sender half-closed
          received,  \* bytes the receiver read
          eof,       \* the receiver was told of the end
          failed     \* some connection on the way broke

vars == <<sent, ended, received, eof, failed>>

Init ==
  /\ sent = [d \in Dirs |-> 0] /\ received = [d \in Dirs |-> 0]
  /\ ended = [d \in Dirs |-> FALSE] /\ eof = [d \in Dirs |-> FALSE]
  /\ failed = FALSE

Send(d) ==
  /\ ~ended[d]
  /\ sent' = [sent EXCEPT ![d] = @ + 1]
  /\ UNCHANGED <<ended, received, eof, failed>>

End(d) ==
  /\ ended' = [ended EXCEPT ![d] = TRUE]
  /\ UNCHANGED <<sent, received, eof, failed>>

Receive(d) ==
  /\ ~eof[d] /\ received[d] < sent[d]
  /\ received' = [received EXCEPT ![d] = @ + 1]
  /\ UNCHANGED <<sent, ended, eof, failed>>

TellEnd(d) ==
  /\ failed \/ (ended[d] /\ received[d] = sent[d])
  /\ eof' = [eof EXCEPT ![d] = TRUE]
  /\ UNCHANGED <<sent, ended, received, failed>>

Fail == failed' = TRUE /\ UNCHANGED <<sent, ended, received, eof>>

Next == Fail \/ \E d \in Dirs : Send(d) \/ End(d) \/ Receive(d) \/ TellEnd(d)

Spec == Init /\ [][Next]_vars
=============================================================================
