------------------------------ MODULE MCBundle ------------------------------
(* A small instance of Bundle: the numbers wrap, a bundle holds two frames *)
(* and the frames of the stream are not all alike.                         *)
EXTENDS Bundle

MCPdu ==
  [f \in Frame |-> [head |-> [int32 |-> f # 3, rest |-> f \in {4, 5}],
                    low  |-> f \in {2, 3, 6}]]
=============================================================================
