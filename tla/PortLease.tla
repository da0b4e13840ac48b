----------------------------- MODULE PortLease -----------------------------
(***************************************************************************)
(* What the server promises about public ports: a port is leased to at     *)
(* most one mapping, a mapping listens only on a port leased to it, and    *)
(* the lease ends only after the listener is gone.                         *)
(***************************************************************************)
CONSTANTS Proxies,   \* mappings the server may create
          Ports,     \* keys of the port table
          Nobody     \* not a member of Proxies

VARIABLES lease,      \* the mapping each port is leased to
          listening   \* mappings with an open listener

vars == <<lease, listening>>

Init == lease = [k \in Ports |-> Nobody] /\ listening = {}

Lease(p, k) ==
  /\ lease[k] = Nobody
  /\ lease' = [lease EXCEPT ![k] = p]
  /\ UNCHANGED listening

Listen(p, k) ==
  /\ lease[k] = p
  /\ listening' = listening \cup {p}
  /\ UNCHANGED lease

Shut(p) ==
  /\ p \in listening
  /\ listening' = listening \ {p}
  /\ UNCHANGED lease

Return(p, k) ==
  /\ lease[k] = p /\ p \notin listening
  /\ lease' = [lease EXCEPT ![k] = Nobody]
  /\ UNCHANGED listening

Next ==
  \E p \in Proxies :
    Shut(p) \/ \E k \in Ports : Lease(p, k) \/ Listen(p, k) \/ Return(p, k)

Spec == Init /\ [][Next]_vars
=============================================================================
