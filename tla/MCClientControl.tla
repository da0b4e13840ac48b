-------------------------- MODULE MCClientControl --------------------------
(* Two control connections, the first one lost, and a work connection that  *)
(* starts on either of them.                                                *)
EXTENDS ClientControl
=============================================================================
