--------------------------- MODULE MCRendezvous ---------------------------
(* Two public connections and two work connections on one mapping, with a  *)
(* send queue of one entry so that it fills.                                *)
EXTENDS Rendezvous
=============================================================================
