--------------------------- MODULE MCDtlsHandshake ---------------------------
(* The DTLS handshake with a server of this code, with one that skips the  *)
(* cookie exchange and with one that asks for no certificate.              *)
EXTENDS DtlsHandshake

Styles ==
    {style0 \in ServerStyle : style0.cookies \/ style0.asksCertificate}
=============================================================================
