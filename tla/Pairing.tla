------------------------------ MODULE Pairing ------------------------------
(***************************************************************************)
(* What the server promises about pairing, without channels, locks or the  *)
(* order of the handlers' steps: a public session is bound to at most one  *)
(* work connection, a work connection to at most one session, binding is   *)
(* possible only while the session is open, and a session never ends with  *)
(* a connection that was bound to it still open.                           *)
(***************************************************************************)
CONSTANTS Sessions,     \* identifiers of public sessions
          WorkConns,    \* work connections the server accepts
          None          \* no session, not a member of Sessions

VARIABLES sess,   \* life of each session
          conn,   \* life of the server's end of each work connection
          peer    \* the session a work connection is bound to

vars == <<sess, conn, peer>>

Init ==
  /\ sess = [s \in Sessions |-> "idle"]
  /\ conn = [w \in WorkConns |-> "idle"]
  /\ peer = [w \in WorkConns |-> None]

Open(s) ==
  /\ sess[s] = "idle"
  /\ sess' = [sess EXCEPT ![s] = "open"]
  /\ UNCHANGED <<conn, peer>>

Offer(w) ==
  /\ conn[w] = "idle"
  /\ conn' = [conn EXCEPT ![w] = "offered"]
  /\ UNCHANGED <<sess, peer>>

Bind(s, w) ==
  /\ sess[s] = "open"
  /\ conn[w] = "offered"
  /\ \A v \in WorkConns : peer[v] # s
  /\ conn' = [conn EXCEPT ![w] = "bound"]
  /\ peer' = [peer EXCEPT ![w] = s]
  /\ UNCHANGED sess

Close(w) ==
  /\ conn[w] \in {"offered", "bound"}
  /\ conn' = [conn EXCEPT ![w] = "closed"]
  /\ UNCHANGED <<sess, peer>>

\* Whatever is still bound to the session is closed with it.
End(s) ==
  /\ sess[s] = "open"
  /\ sess' = [sess EXCEPT ![s] = "ended"]
  /\ conn' = [w \in WorkConns |-> IF peer[w] = s THEN "closed" ELSE conn[w]]
  /\ UNCHANGED peer

Next ==
  \/ \E s \in Sessions : Open(s) \/ End(s)
  \/ \E w \in WorkConns : Offer(w) \/ Close(w)
  \/ \E s \in Sessions, w \in WorkConns : Bind(s, w)

Spec == Init /\ [][Next]_vars
=============================================================================
