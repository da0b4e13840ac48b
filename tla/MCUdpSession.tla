---------------------------- MODULE MCUdpSession ----------------------------
(* Two session objects, so that a source gets a second session or two       *)
(* sources compete for the loop; three datagrams and queues of two, so that *)
(* a queue has an order and fills.                                          *)
EXTENDS UdpSession, TLC

Symmetry == Permutations(Sources)

\* BOUND: the last datagram comes while the mapping stays up, and no session
\* falls idle after it. The others meet everything.
Stays == received' = MaxPkts => owner' = "up" /\ \A s \in Sess : idle'[s] => idle[s]

BoundedSpec == Init /\ [][Next /\ Stays]_vars
=============================================================================
