--------------------------- MODULE MCSctpDelivery ---------------------------
(* SctpAssociation under fairness: a prompt network that loses setup       *)
(* packets only and duplicates nothing.                                    *)
EXTENDS SctpAssociation

MCInitialTSN == [e \in End |-> IF e = Client THEN 6 ELSE 1]
MCMaxChunks == [e \in End |-> IF e = Client THEN 3 ELSE 1]
=============================================================================
