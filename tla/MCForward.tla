----------------------------- MODULE MCForward -----------------------------
(* Two bytes one way and one the other, so that a relay holds one while      *)
(* another is on the way and waits for room.                                 *)
EXTENDS Forward
=============================================================================
