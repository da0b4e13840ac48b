----------------------------- MODULE MCUdpTunnel -----------------------------
(* One session, so that every step of either end meets every step of the    *)
(* other; two datagrams and a queue of two, so that there is an order to    *)
(* keep. MCUdpSession has two sources and a queue that fills.               *)
EXTENDS UdpTunnel

\* BOUND: the second datagram comes while the mapping stays up, its session
\* is not idle and no reply is on its way. The first meets everything.
Stays ==
  received' = MaxPkts => owner' = "up" /\ \A s \in Sess : ~idle'[s] /\ back'[s] = 0

BoundedSpec == TunnelInit /\ [][TunnelNext /\ Stays]_tunnelVars /\ TunnelFairness
=============================================================================
