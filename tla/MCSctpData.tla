----------------------------- MODULE MCSctpData -----------------------------
(* SctpAssociation with the setup prompt, and data lost and duplicated.     *)
EXTENDS SctpAssociation

MCInitialTSN == [e \in End |-> IF e = Client THEN 6 ELSE 1]
MCMaxChunks == [e \in End |-> IF e = Client THEN 4 ELSE 0]
=============================================================================
