---------------------------- MODULE DtlsInvariants ----------------------------
(***************************************************************************)
(* The inductive invariant behind DtlsHandshake.  With a given kind of     *)
(* server there is one handshake: its messages in their order make one     *)
(* transcript, and each end is somewhere along it.                         *)
(***************************************************************************)
EXTENDS DtlsHandshake

(* The messages, with the sequence numbers of their senders.               *)

Asks == style.asksCertificate

\* The number of the first message after the cookie exchange, at both ends.
Base == IF style.cookies THEN 1 ELSE 0

\* The numbers of the two Finished messages.
ServerLast == IF Asks THEN Base + 5 ELSE Base + 4
ClientLast == IF Asks THEN Base + 4 ELSE Base + 2

HelloVerifyRequest == Msg("HelloVerifyRequest", 0, <<>>)
Hello == IF style.cookies THEN Msg("CookieHello", 1, <<>>) ELSE FirstHello
ServerHello == Msg("ServerHello", Base, <<>>)
Certificate == Msg("Certificate", Base + 1, <<>>)       \* of either end
ServerKeyExchange == Msg("ServerKeyExchange", Base + 2, <<>>)
CertificateRequest == Msg("CertificateRequest", Base + 3, <<>>)
ServerHelloDone == Msg("ServerHelloDone", ServerLast - 1, <<>>)
ClientKeyExchange == Msg("ClientKeyExchange", IF Asks THEN Base + 2 ELSE Base + 1, <<>>)

(* The transcript after each of them.                                      *)

AfterHello == <<Hello>>
AfterServerHello == Append(AfterHello, ServerHello)
AfterCertificate == Append(AfterServerHello, Certificate)
AfterServerKey == Append(AfterCertificate, ServerKeyExchange)
AfterRequest == IF Asks THEN Append(AfterServerKey, CertificateRequest) ELSE AfterServerKey
AfterHelloDone == Append(AfterRequest, ServerHelloDone)
AfterClientCert == IF Asks THEN Append(AfterHelloDone, Certificate) ELSE AfterHelloDone
AfterClientKey == Append(AfterClientCert, ClientKeyExchange)
CertificateVerify == Msg("CertificateVerify", Base + 3, AfterClientKey)
AfterVerify == IF Asks THEN Append(AfterClientKey, CertificateVerify) ELSE AfterClientKey
ClientFinished == Msg("Finished", ClientLast, AfterVerify)
AfterClientFinished == Append(AfterVerify, ClientFinished)
ServerFinished == Msg("Finished", ServerLast, AfterClientFinished)
Whole == Append(AfterClientFinished, ServerFinished)

\* The keys are the transcript through the ClientKeyExchange.
Keys == AfterClientKey

ClientFlight ==
    IF Asks THEN {Certificate, ClientKeyExchange, CertificateVerify} ELSE {ClientKeyExchange}
ServerFlight ==
    {ServerHello, Certificate, ServerKeyExchange, ServerHelloDone}
      \cup (IF Asks THEN {CertificateRequest} ELSE {})

\* All that an end says in the handshake.
Says(e) ==
    IF e = Client THEN {FirstHello, Hello, ClientFinished} \cup ClientFlight
    ELSE {ServerFinished} \cup ServerFlight \cup (IF style.cookies THEN {HelloVerifyRequest} ELSE {})

(* Where a connection is.                                                  *)

\* It has dispatched the messages of its peer with smaller numbers than next.
Row(c, next, transcript, flight) ==
    c.next = next /\ c.transcript = transcript /\ c.flight = flight

ClientStage(c) ==
    /\ \/ Row(c, 0, <<>>, {FirstHello})
       \/ style.cookies /\ Row(c, 1, AfterHello, {Hello})
       \/ Row(c, Base + 1, AfterServerHello, {Hello})
       \/ Row(c, Base + 2, AfterCertificate, {Hello})
       \/ Row(c, Base + 3, AfterServerKey, {Hello})
       \/ Asks /\ Row(c, Base + 4, AfterRequest, {Hello})
       \/ Row(c, ServerLast, AfterClientFinished, ClientFlight)
    /\ c.next < ServerLast => c.hsSeq = IF c.next = 0 THEN 1 ELSE Base + 1
    /\ c.cookie <=> style.cookies /\ c.next > 0
    /\ c.certRequested <=> Asks /\ c.next >= Base + 4
    /\ c.remoteCert <=> c.next >= Base + 2
    /\ c.keys = IF c.next = ServerLast THEN Keys ELSE NoKeys
    /\ c.encrypted <=> c.next = ServerLast

ServerStage(c) ==
    /\ \/ Row(c, 0, <<>>, {})
       \/ style.cookies /\ Row(c, 1, <<>>, {})
       \/ Row(c, Base + 1, AfterHelloDone, ServerFlight)
       \/ Asks /\ Row(c, Base + 2, AfterClientCert, ServerFlight)
       \/ Asks /\ Row(c, Base + 3, AfterClientKey, ServerFlight)
       \/ Row(c, ClientLast, AfterVerify, ServerFlight)
    /\ c.hsSeq = IF c.next <= Base THEN c.next ELSE ServerLast
    /\ c.remoteCert <=> Asks /\ c.next >= Base + 2
    /\ c.keys = IF c.next >= (IF Asks THEN Base + 3 ELSE Base + 2) THEN Keys ELSE NoKeys
    /\ ~c.encrypted

Fields == DOMAIN NewConnection

\* What is true of a connection at any time, "out" left aside.  The other end has
\* completed its handshake, or not.
Sound(e, c, peerDone) ==
    /\ DOMAIN c = Fields
    /\ c.state \in State /\ c.cause \in Cause /\ c.hsSeq \in Nat /\ c.next \in Nat
    /\ c.count \in 0 .. MaxRetransmits
    /\ c.timer \in BOOLEAN /\ c.encrypted \in BOOLEAN /\ c.done \in BOOLEAN /\ c.heardData \in BOOLEAN
    /\ c.timer <=> c.state = "handshaking" /\ c.flight # {}
    /\ c.cause # "none" <=> c.state = "failed"
    /\ c.state = "failed" => \/ c.cause = "fingerprint" /\ ~trusted[e]
                             \/ c.cause = "timeout" /\ c.count = MaxRetransmits
    /\ c.state = "new" => /\ Row(c, 0, <<>>, {}) /\ c.hsSeq = 0 /\ ~c.cookie /\ ~c.certRequested
                          /\ ~c.remoteCert /\ c.keys = NoKeys /\ ~c.encrypted
    /\ c.state \in {"new", "handshaking"} => ~c.done
    /\ c.state = "handshaking" => IF e = Client THEN ClientStage(c) ELSE ServerStage(c)
    /\ c.state = "connected" => c.done /\ c.next > (IF e = Client THEN ServerLast ELSE ClientLast)
    /\ c.state # "handshaking" => c.transcript = <<>> /\ c.flight = {}
    /\ c.state \notin {"handshaking", "connected"} => c.reassembly = {}
    /\ c.reassembly \subseteq Says(Peer(e))
    /\ c.keys \in {NoKeys, Keys} /\ (c.encrypted => c.keys = Keys)
    /\ c.remoteCert => trusted[e]
    /\ c.done => /\ c.agreed = Whole /\ c.keys = Keys /\ c.encrypted
                 /\ e = Client \/ Asks => c.remoteCert
    /\ c.heardData \/ (e = Client /\ (c.done \/ ServerFinished \in c.reassembly)) => peerDone

\* What end e may have sent; only an end that is done sends data, and the server's
\* Finished.
Genuine(e, r, done) ==
    /\ r.keys \in {NoKeys, Keys}
    /\ r.msg \in Says(e) \cup {CloseNotify, Data}
    /\ r.msg = Data \/ (e = Server /\ r.msg = ServerFinished) => done

InductiveInv ==
    /\ conn = [e \in End |-> conn[e]] /\ trusted \in [End -> BOOLEAN]
    /\ style \in ServerStyles /\ faults \in 0 .. MaxFaults
    /\ \A e \in End : Sound(e, conn[e], conn[Peer(e)].done) /\ conn[e].out = {}
    /\ \A r \in net : r.to \in End /\ Genuine(Peer(r.to), r, conn[Peer(r.to)].done)
=============================================================================
