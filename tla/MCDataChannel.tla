---------------------------- MODULE MCDataChannel ----------------------------
(* DataChannel with a channel opened by the client, one opened by the server *)
(* and one that is negotiated, for which the applications take stream 3; any *)
(* two of them are created.  The server, which may close its connection, is  *)
(* the one that sends.                                                       *)
EXTENDS DataChannelInvariants

CONSTANTS a, b, n

MCOpener == [c \in Channel |-> IF c = a THEN Client ELSE Server]
MCChosenId == [c \in Channel |-> IF c = n THEN 3 ELSE NoId]
MCMaxMessages == [e \in {Client, Server} |-> IF e = Server THEN 2 ELSE 0]
MCNone == [e \in {Client, Server} |-> 0]

\* The hypothesis of the theorems about DataChannel.
ASSUME StreamsHere == StreamsApart
=============================================================================
