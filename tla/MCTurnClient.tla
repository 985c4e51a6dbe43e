---------------------------- MODULE MCTurnClient ----------------------------
(* One client with a relay that sends to one peer.                         *)
EXTENDS TurnClient

CONSTANT p
=============================================================================
