------------------------------ MODULE MCEntity ------------------------------
(* A small instance of Entity: c1 speaks from two addresses, c2 from one.  *)
EXTENDS Entity, TLC

CONSTANTS p1, p2, p3

MCControllers == {"c1", "c2"}
MCPorts == {p1, p2, p3}
MCId == [p \in MCPorts |-> IF p = p3 THEN "c2" ELSE "c1"]

\* The addresses of c1 are alike.
MCSymmetry == Permutations({p1, p2})
=============================================================================
