----------------------------- MODULE MCRegistry -----------------------------
(* Logins that compete for an id, a name and a port, one of them with two   *)
(* mappings, and one whose specs are refused.                               *)
EXTENDS Registry

CONSTANTS A, B, n1, n2, k1, k2, k0

MCIds == {A, B}
MCNames == {n1, n2}
MCPorts == {k0, k1, k2}

Spec1(n, k) == [name |-> n, port |-> k]

\* The same client twice, a client that wants its port, and a bad request.
MCRequests ==
  { [id |-> A, specs |-> <<Spec1(n1, k1), Spec1(n2, k2)>>],
    [id |-> B, specs |-> <<Spec1(n1, k2)>>],
    [id |-> B, specs |-> <<Spec1(n1, k0)>>] }
=============================================================================
