-------------------------- MODULE MCPeerConnection --------------------------
(* PeerConnection as it is: its bounds are all in the configuration.       *)
EXTENDS PeerConnection
=============================================================================
