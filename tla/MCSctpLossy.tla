---------------------------- MODULE MCSctpLossy ----------------------------
(* Small instances of SctpAssociation whose first TSNs are about to wrap.  *)
EXTENDS SctpInvariants

MCInitialTSN == [e \in End |-> IF e = Client THEN 7 ELSE 2]
MCMaxChunks == [e \in End |-> IF e = Client THEN 2 ELSE 1]
=============================================================================
