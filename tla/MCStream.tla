------------------------------ MODULE MCStream ------------------------------
(***************************************************************************)
(* Stream for TLC.  The message lengths of MCStream.cfg are chosen against *)
(* the record size: a message that fills less than a record, one that ends *)
(* inside its second record, and one that leaves a partial record behind.  *)
(***************************************************************************)
EXTENDS Stream
=============================================================================
