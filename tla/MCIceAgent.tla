----------------------------- MODULE MCIceAgent -----------------------------
(* A controlling agent with one transport, a controlled one with two, of   *)
(* which one can be reached.                                               *)
EXTENDS IceAgent

CONSTANTS a1, b1, b2

Transports == [e \in Agent |-> IF e = Controlling THEN {a1} ELSE {b1, b2}]
Paths == {{a1, b2}}
=============================================================================
