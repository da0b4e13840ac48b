----------------------------- MODULE MCHeartbeat -----------------------------
(***************************************************************************)
(* Heartbeat for TLC. A tick is five seconds, so that the defaults of the  *)
(* configuration and the limits in the code keep their proportions.        *)
(***************************************************************************)
EXTENDS Heartbeat
=============================================================================
