---------------------------- MODULE MCPipeHiccup ----------------------------
(* A socket closes a pipe with one message while its session reconnects. *)
EXTENDS Pipe

AB(a, b) == [p \in Ends |-> IF p = "A" THEN a ELSE b]
A0B0 == AB(0, 0)
A0B1 == AB(0, 1)
A1B0 == AB(1, 0)
A2B2 == AB(2, 2)
NoBoost == AB([in |-> -1, out |-> -1], [in |-> -1, out |-> -1])
=============================================================================
