------------------------------ MODULE Channel ------------------------------
(***************************************************************************)
(* What a connection with framed messages promises its two users: messages *)
(* arrive whole, in order and once. Nothing arrives if the two ends do not *)
(* share their token. As long as nothing breaks, everything arrives.       *)
(***************************************************************************)
EXTENDS Naturals, Sequences

CONSTANT Messages

VARIABLES sent, got,
          same,   \* the ends agree on encryption and token
          broken  \* the connection ended or one end gave it up

vars == <<sent, got, same, broken>>

Init == sent = <<>> /\ got = <<>> /\ same \in BOOLEAN /\ broken = FALSE

Send(m) == sent' = Append(sent, m) /\ UNCHANGED <<got, same, broken>>

Deliver ==
  /\ same /\ Len(got) < Len(sent)
  /\ got' = Append(got, sent[Len(got) + 1])
  /\ UNCHANGED <<sent, same, broken>>

Break == broken' = TRUE /\ UNCHANGED <<sent, got, same>>

Next == (\E m \in Messages : Send(m)) \/ Deliver \/ Break

Spec == Init /\ [][Next]_vars /\ WF_vars(~broken /\ Deliver)
=============================================================================
