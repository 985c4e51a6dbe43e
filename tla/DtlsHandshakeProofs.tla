------------------------- MODULE DtlsHandshakeProofs -------------------------
(* The handshake of DtlsHandshake for every kind of server and any number of *)
(* faults, retransmissions and records: what goes with each state, when the  *)
(* timer is set, why a connection fails, and that both ends agree.           *)
EXTENDS DtlsInvariants, TLAPS

(* The messages.                                                           *)

LEMMA FieldsAre ==
    Fields = {"state", "cause", "hsSeq", "next", "reassembly", "transcript", "flight", "timer",
              "count", "cookie", "certRequested", "remoteCert", "keys", "encrypted", "done",
              "agreed", "heardData", "sentData", "out"}
BY DEF Fields, NewConnection

LEMMA PeerProperties ==
    /\ Client # Server /\ Client \in End /\ Server \in End
    /\ Peer(Client) = Server /\ Peer(Server) = Client
    /\ \A e \in End : Peer(e) \in End /\ Peer(e) # e /\ Peer(Peer(e)) = e
    /\ \A e, d \in End : d # e => d = Peer(e)
BY HandshakeAssumption DEF Peer, End

LEMMA Numbers ==
    ASSUME style \in ServerStyles
    PROVE  /\ style.cookies \in BOOLEAN /\ Asks \in BOOLEAN
           /\ Base \in Nat /\ ServerLast \in Nat /\ ClientLast \in Nat
           /\ style.cookies => Base = 1
           /\ ~style.cookies => Base = 0
           /\ Asks => ServerLast = Base + 5 /\ ClientLast = Base + 4
           /\ ~Asks => ServerLast = Base + 4 /\ ClientLast = Base + 2
<1>1. style \in ServerStyle
  BY HandshakeAssumption
<1>2. style.cookies \in BOOLEAN /\ Asks \in BOOLEAN
  BY <1>1 DEF ServerStyle, Asks
<1> QED BY <1>2 DEF Base, ServerLast, ClientLast

LEMMA Messages ==
    /\ FirstHello.type = "ClientHello" /\ FirstHello.seq = 0
    /\ HelloVerifyRequest.type = "HelloVerifyRequest" /\ HelloVerifyRequest.seq = 0
    /\ Hello.type = (IF style.cookies THEN "CookieHello" ELSE "ClientHello")
    /\ Hello.seq = IF style.cookies THEN 1 ELSE 0
    /\ ServerHello.type = "ServerHello" /\ ServerHello.seq = Base
    /\ Certificate.type = "Certificate" /\ Certificate.seq = Base + 1
    /\ ServerKeyExchange.type = "ServerKeyExchange" /\ ServerKeyExchange.seq = Base + 2
    /\ CertificateRequest.type = "CertificateRequest" /\ CertificateRequest.seq = Base + 3
    /\ ServerHelloDone.type = "ServerHelloDone" /\ ServerHelloDone.seq = ServerLast - 1
    /\ ClientKeyExchange.type = "ClientKeyExchange"
    /\ ClientKeyExchange.seq = IF Asks THEN Base + 2 ELSE Base + 1
    /\ CertificateVerify.type = "CertificateVerify" /\ CertificateVerify.seq = Base + 3
    /\ CertificateVerify.over = AfterClientKey
    /\ ClientFinished.type = "Finished" /\ ClientFinished.seq = ClientLast
    /\ ClientFinished.over = AfterVerify
    /\ ServerFinished.type = "Finished" /\ ServerFinished.seq = ServerLast
    /\ ServerFinished.over = AfterClientFinished
    /\ CloseNotify.type = "CloseNotify" /\ Data.type = "Data"
BY DEF FirstHello, HelloVerifyRequest, Hello, ServerHello, Certificate, ServerKeyExchange,
       CertificateRequest, ServerHelloDone, ClientKeyExchange, CertificateVerify,
       ClientFinished, ServerFinished, CloseNotify, Data, Msg

\* A number names one message of an end.
LEMMA ServerSays ==
    ASSUME style \in ServerStyles, NEW m \in Says(Server)
    PROVE  \/ m = HelloVerifyRequest /\ style.cookies /\ m.seq = 0
           \/ m = ServerHello /\ m.seq = Base
           \/ m = Certificate /\ m.seq = Base + 1
           \/ m = ServerKeyExchange /\ m.seq = Base + 2
           \/ m = CertificateRequest /\ Asks /\ m.seq = Base + 3
           \/ m = ServerHelloDone /\ m.seq = ServerLast - 1
           \/ m = ServerFinished /\ m.seq = ServerLast
BY Messages, PeerProperties DEF Says, ServerFlight

LEMMA ClientSays ==
    ASSUME style \in ServerStyles, NEW m \in Says(Client)
    PROVE  \/ m = FirstHello /\ m.seq = 0
           \/ m = Hello /\ m.seq = Base
           \/ m = Certificate /\ Asks /\ m.seq = Base + 1
           \/ m = ClientKeyExchange /\ m.seq = ClientLast - (IF Asks THEN 2 ELSE 1)
           \/ m = CertificateVerify /\ Asks /\ m.seq = Base + 3
           \/ m = ClientFinished /\ m.seq = ClientLast
<1>1. \/ m = FirstHello \/ m = Hello \/ (m = Certificate /\ Asks) \/ m = ClientKeyExchange
      \/ (m = CertificateVerify /\ Asks) \/ m = ClientFinished
  BY DEF Says, ClientFlight
<1>2. Hello.seq = Base
  BY Messages DEF Base
<1> QED BY <1>1, <1>2, Messages, Numbers

LEMMA SaidTypes ==
    ASSUME style \in ServerStyles, NEW e \in End, NEW m \in Says(e)
    PROVE  m.type \in MessageType /\ m.seq \in Nat
<1>1. CASE e = Client
  <2>1. m.seq \in Nat
    BY <1>1, ClientSays, Numbers
  <2> QED BY <1>1, <2>1, ClientSays, Messages DEF MessageType
<1>2. CASE e = Server
  <2>1. m.seq \in Nat
    BY <1>2, ServerSays, Numbers
  <2> QED BY <1>2, <2>1, ServerSays, Messages DEF MessageType
<1> QED BY <1>1, <1>2 DEF End
-----------------------------------------------------------------------------
(* What the steps of a handler do to a connection.                         *)

\* What sending leaves alone.
Undisturbed(c, d) ==
    /\ DOMAIN d = Fields
    /\ d.state = c.state /\ d.cause = c.cause /\ d.next = c.next /\ d.reassembly = c.reassembly
    /\ d.cookie = c.cookie /\ d.certRequested = c.certRequested /\ d.remoteCert = c.remoteCert
    /\ d.keys = c.keys /\ d.done = c.done /\ d.agreed = c.agreed /\ d.heardData = c.heardData

KeysOf(c) == IF c.encrypted THEN c.keys ELSE NoKeys

Elements(s) == {s[i] : i \in DOMAIN s}

SentFlight(c, msgs, d) ==
    /\ Undisturbed(c, d) /\ d.encrypted = c.encrypted
    /\ d.hsSeq = c.hsSeq + Len(msgs) /\ d.transcript = c.transcript \o msgs
    /\ d.flight = Elements(msgs) /\ d.count = 0 /\ d.timer = TRUE
    /\ \A r \in d.out : r \in c.out \/ (r.msg \in d.flight /\ r.keys = KeysOf(c))

LEMMA SendFlightEffect ==
    ASSUME NEW c, DOMAIN c = Fields, NEW msgs
    PROVE  SentFlight(c, msgs, SendFlight(c, msgs))
BY FieldsAre DEF SendFlight, ArmRetransmit, FlushFlight, Undisturbed, KeysOf, Elements, SentFlight

SentFinished(c, d) ==
    LET m == Msg("Finished", c.hsSeq, c.transcript) IN
    /\ Undisturbed(c, d) /\ d.encrypted = TRUE
    /\ d.hsSeq = c.hsSeq + 1 /\ d.transcript = Append(c.transcript, m)
    /\ d.flight = c.flight /\ d.count = c.count /\ d.timer = c.timer
    /\ \A r \in d.out : r \in c.out \/ (r.msg = m /\ r.keys = c.keys)

LEMMA SendFinishedEffect ==
    ASSUME NEW c, DOMAIN c = Fields
    PROVE  SentFinished(c, SendFinished(SendChangeCipherSpec(c)))
BY FieldsAre DEF SendFinished, SendChangeCipherSpec, SendRecord, Undisturbed, SentFinished

SentHello(c, d) ==
    LET m == Msg(IF c.cookie THEN "CookieHello" ELSE "ClientHello", c.hsSeq, <<>>) IN
    /\ Undisturbed(c, d) /\ d.encrypted = c.encrypted
    /\ d.hsSeq = c.hsSeq + 1
    /\ d.transcript = IF c.cookie THEN Append(c.transcript, m) ELSE c.transcript
    /\ d.flight = {m} /\ d.count = (IF c.cookie THEN 0 ELSE c.count) /\ d.timer = TRUE
    /\ \A r \in d.out : r \in c.out \/ (r.msg = m /\ r.keys = KeysOf(c))

LEMMA SendClientHelloEffect ==
    ASSUME NEW c, DOMAIN c = Fields
    PROVE  SentHello(c, SendClientHello(c))
BY FieldsAre DEF SendClientHello, ArmRetransmit, FlushFlight, Undisturbed, KeysOf, SentHello

\* What the end of a handshake, or of a connection, leaves alone.
Ended(c, d) ==
    /\ DOMAIN d = Fields /\ d.timer = FALSE
    /\ d.transcript = <<>> /\ d.flight = {} /\ d.reassembly = {}
    /\ d.next = c.next /\ d.hsSeq = c.hsSeq /\ d.count = c.count
    /\ d.remoteCert = c.remoteCert /\ d.keys = c.keys /\ d.encrypted = c.encrypted
    /\ d.heardData = c.heardData

Completed(c, d) ==
    /\ Ended(c, d) /\ d.state = "connected" /\ d.done = TRUE /\ d.agreed = c.transcript
    /\ d.cause = c.cause /\ d.out = c.out

LEMMA CompleteEffect ==
    ASSUME NEW c, DOMAIN c = Fields, ~c.done
    PROVE  Completed(c, OnHandshakeComplete(c))
BY FieldsAre DEF OnHandshakeComplete, Released, ClearRetransmit, Completed, Ended

Failed(c, k, d) ==
    /\ Ended(c, d) /\ d.state = "failed" /\ d.cause = k
    /\ d.done = c.done /\ d.agreed = c.agreed /\ d.out = c.out

LEMMA FailEffect ==
    ASSUME NEW c, DOMAIN c = Fields, ~Over(c), NEW k
    PROVE  Failed(c, k, Fail(c, k))
BY FieldsAre DEF Fail, Released, ClearRetransmit, Failed, Ended

ClosedNow(c, d) ==
    /\ Ended(c, d) /\ d.state = "closed" /\ d.cause = c.cause
    /\ d.done = c.done /\ d.agreed = c.agreed
    /\ \A r \in d.out : r \in c.out \/ (r.msg = CloseNotify /\ r.keys = KeysOf(c))

LEMMA CloseEffect ==
    ASSUME NEW c, DOMAIN c = Fields, ~Over(c)
    PROVE  ClosedNow(c, CloseConnection(c))
BY FieldsAre DEF CloseConnection, SendRecord, Released, ClearRetransmit, KeysOf, ClosedNow, Ended

\* A message is added to the transcript.
Recorded(c, m, d) ==
    /\ Undisturbed(c, d) /\ d.encrypted = c.encrypted /\ d.hsSeq = c.hsSeq
    /\ d.transcript = Append(c.transcript, m)
    /\ d.flight = c.flight /\ d.count = c.count /\ d.timer = c.timer /\ d.out = c.out

LEMMA AppendInboundEffect ==
    ASSUME NEW c, DOMAIN c = Fields, NEW m
    PROVE  Recorded(c, m, AppendInbound(c, m))
BY FieldsAre DEF AppendInbound, Recorded, Undisturbed
-----------------------------------------------------------------------------
(* The transcripts.                                                        *)

LEMMA Joined ==
    ASSUME NEW X, NEW s \in Seq(X), NEW t \in Seq(X)
    PROVE  /\ s \o t \in Seq(X) /\ Len(s \o t) = Len(s) + Len(t)
           /\ DOMAIN (s \o t) = 1 .. Len(s) + Len(t)
           /\ \A i \in 1 .. Len(s) + Len(t) : (s \o t)[i] = IF i <= Len(s) THEN s[i] ELSE t[i - Len(s)]
OBVIOUS

LEMMA ThreeAndTwo ==
    ASSUME NEW X, NEW a \in X, NEW b \in X, NEW c \in X, NEW d \in X, NEW e \in X,
           NEW u, u = <<a, b, c>> \o <<d>> \o <<e>>
    PROVE  DOMAIN u = 1 .. 5 /\ u[1] = a /\ u[2] = b /\ u[3] = c /\ u[4] = d /\ u[5] = e
<1> DEFINE p == <<a, b, c>>
           q == <<d>>
           v == <<a, b, c>> \o <<d>>
<1>1. /\ p \in Seq(X) /\ q \in Seq(X) /\ <<e>> \in Seq(X)
      /\ Len(p) = 3 /\ Len(q) = 1 /\ Len(<<e>>) = 1
      /\ p[1] = a /\ p[2] = b /\ p[3] = c /\ q[1] = d
  OBVIOUS
<1>2. v \in Seq(X) /\ Len(v) = 4
  BY <1>1, Joined
<1>3. v[1] = a /\ v[2] = b /\ v[3] = c /\ v[4] = d
  <2>1. \A i \in 1 .. 4 : v[i] = IF i <= 3 THEN p[i] ELSE q[i - 3]
    BY <1>1, Joined
  <2> HIDE DEF v, p, q
  <2> QED BY <1>1, <2>1
<1> HIDE DEF v, p, q
<1>4. u = v \o <<e>>
  BY DEF v
<1>5. DOMAIN u = 1 .. 5
  BY <1>1, <1>2, <1>4, Joined
<1> QED BY <1>1, <1>2, <1>3, <1>4, <1>5, Joined

LEMMA ThreeAndOne ==
    ASSUME NEW a, NEW b, NEW c, NEW e, NEW u, u = <<a, b, c>> \o <<>> \o <<e>>
    PROVE  DOMAIN u = 1 .. 4 /\ u[1] = a /\ u[2] = b /\ u[3] = c /\ u[4] = e
OBVIOUS

LEMMA Appended ==
    ASSUME NEW X, NEW s \in Seq(X), NEW a \in X, NEW b \in X, NEW c \in X, NEW d \in X, NEW e \in X
    PROVE  /\ s \o <<a>> = Append(s, a)
           /\ s \o <<a, b>> = Append(Append(s, a), b)
           /\ s \o <<a, b, c>> = Append(Append(Append(s, a), b), c)
           /\ s \o <<a, b, c, d>> = Append(Append(Append(Append(s, a), b), c), d)
           /\ s \o <<a, b, c, d, e>> = Append(Append(Append(Append(Append(s, a), b), c), d), e)
<1>1. s \o <<a>> = Append(s, a)
  OBVIOUS
<1>2. s \o <<a, b>> = Append(Append(s, a), b)
  OBVIOUS
<1>3. s \o <<a, b, c>> = Append(Append(Append(s, a), b), c)
  OBVIOUS
<1>4. s \o <<a, b, c, d>> = Append(Append(Append(Append(s, a), b), c), d)
  OBVIOUS
<1>5. s \o <<a, b, c, d, e>> = Append(Append(Append(Append(Append(s, a), b), c), d), e)
  OBVIOUS
<1> QED BY <1>1, <1>2, <1>3, <1>4, <1>5

\* The flights, as they are added to a transcript.
LEMMA Logs ==
    ASSUME style \in ServerStyles
    PROVE  /\ Keys # NoKeys
           /\ Asks => /\ AfterHello \o <<ServerHello, Certificate, ServerKeyExchange, CertificateRequest,
                                         ServerHelloDone>> = AfterHelloDone
                      /\ AfterHelloDone \o <<Certificate, ClientKeyExchange>> = AfterClientKey
                      /\ AfterHelloDone \o <<Certificate, ClientKeyExchange, CertificateVerify>> = AfterVerify
           /\ ~Asks => /\ AfterHello \o <<ServerHello, Certificate, ServerKeyExchange, ServerHelloDone>>
                            = AfterHelloDone
                       /\ AfterHelloDone \o <<ClientKeyExchange>> = AfterClientKey
                       /\ AfterHelloDone \o <<ClientKeyExchange>> = AfterVerify
<1> DEFINE X == {Hello, ServerHello, Certificate, ServerKeyExchange, CertificateRequest, ServerHelloDone,
                 ClientKeyExchange, CertificateVerify}
<1>1. /\ Hello \in X /\ ServerHello \in X /\ Certificate \in X /\ ServerKeyExchange \in X
      /\ CertificateRequest \in X /\ ServerHelloDone \in X /\ ClientKeyExchange \in X /\ CertificateVerify \in X
  OBVIOUS
<1> HIDE DEF X
<1>2. AfterHello \in Seq(X)
  BY <1>1 DEF AfterHello
<1>3. AfterServerHello \in Seq(X) /\ AfterCertificate \in Seq(X)
  BY <1>1, <1>2 DEF AfterServerHello, AfterCertificate
<1>4. AfterServerKey \in Seq(X) /\ AfterRequest \in Seq(X)
  BY <1>1, <1>3 DEF AfterServerKey, AfterRequest
<1>5. AfterHelloDone \in Seq(X) /\ AfterClientCert \in Seq(X)
  BY <1>1, <1>4 DEF AfterHelloDone, AfterClientCert
<1>6. AfterClientKey \in Seq(X) /\ Len(AfterClientKey) > 0
  BY <1>1, <1>5 DEF AfterClientKey
<1>7. Keys # NoKeys
  BY <1>6 DEF Keys, NoKeys
<1>8. CASE Asks
  <2>1. AfterHello \o <<ServerHello, Certificate, ServerKeyExchange, CertificateRequest, ServerHelloDone>>
          = AfterHelloDone
    BY <1>1, <1>2, <1>8, Appended
       DEF AfterServerHello, AfterCertificate, AfterServerKey, AfterRequest, AfterHelloDone
  <2>2. AfterHelloDone \o <<Certificate, ClientKeyExchange>> = AfterClientKey
    BY <1>1, <1>5, <1>8, Appended DEF AfterClientCert, AfterClientKey
  <2>3. AfterHelloDone \o <<Certificate, ClientKeyExchange, CertificateVerify>> = AfterVerify
    BY <1>1, <1>5, <1>8, Appended DEF AfterClientCert, AfterClientKey, AfterVerify
  <2> QED BY <1>7, <1>8, <2>1, <2>2, <2>3
<1>9. CASE ~Asks
  <2>1. AfterHello \o <<ServerHello, Certificate, ServerKeyExchange, ServerHelloDone>> = AfterHelloDone
    BY <1>1, <1>2, <1>9, Appended
       DEF AfterServerHello, AfterCertificate, AfterServerKey, AfterRequest, AfterHelloDone
  <2>2. AfterHelloDone \o <<ClientKeyExchange>> = AfterClientKey
    BY <1>1, <1>5, <1>9, Appended DEF AfterClientCert, AfterClientKey
  <2>3. AfterVerify = AfterClientKey
    BY <1>9 DEF AfterVerify
  <2> QED BY <1>7, <1>9, <2>1, <2>2, <2>3
<1> QED BY <1>8, <1>9

\* The server's flight.
SentServerFlight(c, d) ==
    /\ Undisturbed(c, d) /\ d.encrypted = c.encrypted
    /\ d.hsSeq = ServerLast /\ d.transcript = AfterHelloDone
    /\ d.flight = ServerFlight /\ d.count = 0 /\ d.timer = TRUE
    /\ \A r \in d.out : r \in c.out \/ (r.msg \in ServerFlight /\ r.keys = NoKeys)

LEMMA ServerFlightEffect ==
    ASSUME style \in ServerStyles, NEW c, DOMAIN c = Fields, c.hsSeq = Base, c.transcript = AfterHello,
           ~c.encrypted
    PROVE  SentServerFlight(c, SendServerFlight(c, Asks))
<1> DEFINE d == SendServerFlight(c, Asks)
<1> DEFINE types == <<"ServerHello", "Certificate", "ServerKeyExchange">>
                      \o (IF Asks THEN <<"CertificateRequest">> ELSE <<>>) \o <<"ServerHelloDone">>
           msgs == [i \in DOMAIN types |-> Msg(types[i], c.hsSeq + i - 1, <<>>)]
<1>1. d = SendFlight(c, msgs)
  BY DEF SendServerFlight
<1>2. Base \in Nat /\ ServerLast \in Nat
  BY Numbers
<1>3. CASE Asks
  <2>1. types = <<"ServerHello", "Certificate", "ServerKeyExchange">> \o <<"CertificateRequest">> \o <<"ServerHelloDone">>
    BY <1>3
  <2>2. /\ DOMAIN types = 1 .. 5 /\ types[1] = "ServerHello" /\ types[2] = "Certificate"
        /\ types[3] = "ServerKeyExchange" /\ types[4] = "CertificateRequest" /\ types[5] = "ServerHelloDone"
    <3> HIDE DEF types
    <3> QED BY <2>1, ThreeAndTwo
  <2> HIDE DEF types
  <2>3. msgs = <<Msg("ServerHello", Base, <<>>), Msg("Certificate", Base + 1, <<>>),
                 Msg("ServerKeyExchange", Base + 2, <<>>), Msg("CertificateRequest", Base + 3, <<>>),
                 Msg("ServerHelloDone", Base + 4, <<>>)>>
    BY <1>2, <2>2
  <2>4. msgs = <<ServerHello, Certificate, ServerKeyExchange, CertificateRequest, ServerHelloDone>>
    BY <1>2, <1>3, <2>3, Numbers
       DEF ServerHello, Certificate, ServerKeyExchange, CertificateRequest, ServerHelloDone
  <2> HIDE DEF msgs
  <2>5. Len(msgs) = 5 /\ Elements(msgs) = ServerFlight
    BY <1>3, <2>4 DEF ServerFlight, Elements
  <2>6. c.transcript \o msgs = AfterHelloDone /\ c.hsSeq + Len(msgs) = ServerLast
    BY <1>2, <1>3, <2>4, <2>5, Logs, Numbers
  <2>7. KeysOf(c) = NoKeys
    BY DEF KeysOf
  <2>8. SentFlight(c, msgs, d)
    BY <1>1, SendFlightEffect
  <2> HIDE DEF d
  <2>9. SentServerFlight(c, d)
    BY <2>5, <2>6, <2>7, <2>8 DEF SentFlight, SentServerFlight
  <2> QED BY <2>9 DEF d
<1>4. CASE ~Asks
  <2>1. types = <<"ServerHello", "Certificate", "ServerKeyExchange">> \o <<>> \o <<"ServerHelloDone">>
    BY <1>4
  <2>2. /\ DOMAIN types = 1 .. 4 /\ types[1] = "ServerHello" /\ types[2] = "Certificate"
        /\ types[3] = "ServerKeyExchange" /\ types[4] = "ServerHelloDone"
    <3> HIDE DEF types
    <3> QED BY <2>1, ThreeAndOne
  <2> HIDE DEF types
  <2>3. msgs = <<Msg("ServerHello", Base, <<>>), Msg("Certificate", Base + 1, <<>>),
                 Msg("ServerKeyExchange", Base + 2, <<>>), Msg("ServerHelloDone", Base + 3, <<>>)>>
    BY <1>2, <2>2
  <2>4. msgs = <<ServerHello, Certificate, ServerKeyExchange, ServerHelloDone>>
    BY <1>2, <1>4, <2>3, Numbers DEF ServerHello, Certificate, ServerKeyExchange, ServerHelloDone
  <2> HIDE DEF msgs
  <2>5. Len(msgs) = 4 /\ Elements(msgs) = ServerFlight
    BY <1>4, <2>4 DEF ServerFlight, Elements
  <2>6. c.transcript \o msgs = AfterHelloDone /\ c.hsSeq + Len(msgs) = ServerLast
    BY <1>2, <1>4, <2>4, <2>5, Logs, Numbers
  <2>7. KeysOf(c) = NoKeys
    BY DEF KeysOf
  <2>8. SentFlight(c, msgs, d)
    BY <1>1, SendFlightEffect
  <2> HIDE DEF d
  <2>9. SentServerFlight(c, d)
    BY <2>5, <2>6, <2>7, <2>8 DEF SentFlight, SentServerFlight
  <2> QED BY <2>9 DEF d
<1> QED BY <1>3, <1>4

\* The client's, with its Finished.
SentSecondFlight(c, d) ==
    /\ DOMAIN d = Fields
    /\ d.state = c.state /\ d.cause = c.cause /\ d.next = c.next /\ d.reassembly = c.reassembly
    /\ d.cookie = c.cookie /\ d.certRequested = c.certRequested /\ d.remoteCert = c.remoteCert
    /\ d.done = c.done /\ d.agreed = c.agreed /\ d.heardData = c.heardData
    /\ d.keys = Keys /\ d.encrypted = TRUE /\ d.hsSeq \in Nat /\ d.transcript = AfterClientFinished
    /\ d.flight = ClientFlight /\ d.count = 0 /\ d.timer = TRUE
    /\ \A r \in d.out : \/ r \in c.out
                        \/ r.msg \in ClientFlight /\ r.keys = NoKeys
                        \/ r.msg = ClientFinished /\ r.keys = Keys

LEMMA ClientFlightEffect ==
    ASSUME style \in ServerStyles, NEW c, DOMAIN c = Fields, c.hsSeq = Base + 1, c.transcript = AfterHelloDone,
           c.certRequested <=> Asks, ~c.encrypted
    PROVE  SentSecondFlight(c, SendClientSecondFlight(c))
<1> DEFINE d == SendClientSecondFlight(c)
<1> DEFINE cert == Msg("Certificate", c.hsSeq, <<>>)
           cke == Msg("ClientKeyExchange", IF c.certRequested THEN c.hsSeq + 1 ELSE c.hsSeq, <<>>)
           through == c.transcript \o (IF c.certRequested THEN <<cert, cke>> ELSE <<cke>>)
           verify == Msg("CertificateVerify", c.hsSeq + 2, through)
           msgs == IF c.certRequested THEN <<cert, cke, verify>> ELSE <<cke>>
           keyed == [c EXCEPT !.keys = through]
           flown == SendFlight(keyed, msgs)
<1>1. d = SendFinished(SendChangeCipherSpec(flown))
  BY DEF SendClientSecondFlight
<1>2. /\ Base \in Nat /\ ClientLast \in Nat
      /\ Asks => ClientLast = Base + 4
      /\ ~Asks => ClientLast = Base + 2
  BY Numbers
<1>3. cert = Certificate /\ cke = ClientKeyExchange
  BY <1>2 DEF Certificate, ClientKeyExchange
<1>4. through = Keys
  BY <1>3, Logs DEF Keys
<1>5. verify = CertificateVerify
  <2>1. c.hsSeq + 2 = Base + 3
    BY <1>2
  <2> HIDE DEF through
  <2> QED BY <1>4, <2>1 DEF CertificateVerify, Keys
<1>6. c.transcript \o msgs = AfterVerify
  BY <1>3, <1>5, Logs
<1>7. Elements(msgs) = ClientFlight /\ c.hsSeq + Len(msgs) = ClientLast
  BY <1>2, <1>3, <1>5 DEF ClientFlight, Elements
<1> HIDE DEF cert, cke, through, verify, msgs
<1>8. /\ DOMAIN keyed = Fields
      /\ keyed.state = c.state /\ keyed.cause = c.cause /\ keyed.next = c.next
      /\ keyed.reassembly = c.reassembly /\ keyed.cookie = c.cookie
      /\ keyed.certRequested = c.certRequested /\ keyed.remoteCert = c.remoteCert
      /\ keyed.done = c.done /\ keyed.agreed = c.agreed /\ keyed.heardData = c.heardData
      /\ keyed.keys = Keys /\ keyed.encrypted = c.encrypted /\ keyed.hsSeq = c.hsSeq
      /\ keyed.transcript = c.transcript /\ keyed.out = c.out
  BY <1>4, FieldsAre
<1> HIDE DEF keyed
<1>9. /\ Undisturbed(keyed, flown) /\ flown.encrypted = keyed.encrypted
      /\ flown.hsSeq = ClientLast /\ flown.transcript = AfterVerify
      /\ flown.flight = ClientFlight /\ flown.count = 0 /\ flown.timer = TRUE
      /\ \A r \in flown.out : r \in c.out \/ (r.msg \in ClientFlight /\ r.keys = NoKeys)
  <2>1. KeysOf(keyed) = NoKeys
    BY <1>8 DEF KeysOf
  <2>2. SentFlight(keyed, msgs, flown)
    BY <1>8, SendFlightEffect
  <2> HIDE DEF flown
  <2> QED BY <1>6, <1>7, <1>8, <2>1, <2>2 DEF SentFlight
<1> HIDE DEF flown
<1>10. Msg("Finished", flown.hsSeq, flown.transcript) = ClientFinished
  BY <1>9 DEF ClientFinished
<1>11. SentFinished(flown, d)
  <2>1. DOMAIN flown = Fields
    BY <1>9 DEF Undisturbed
  <2> QED BY <1>1, <2>1, SendFinishedEffect
<1> HIDE DEF d
<1>12. /\ DOMAIN d = Fields
       /\ d.state = c.state /\ d.cause = c.cause /\ d.next = c.next /\ d.reassembly = c.reassembly
       /\ d.cookie = c.cookie /\ d.certRequested = c.certRequested /\ d.remoteCert = c.remoteCert
       /\ d.done = c.done /\ d.agreed = c.agreed /\ d.heardData = c.heardData /\ d.keys = Keys
  BY <1>8, <1>9, <1>11 DEF Undisturbed, SentFinished
<1>13. /\ d.encrypted = TRUE /\ d.hsSeq \in Nat /\ d.transcript = AfterClientFinished
       /\ d.flight = ClientFlight /\ d.count = 0 /\ d.timer = TRUE
  BY <1>2, <1>9, <1>10, <1>11 DEF AfterClientFinished, SentFinished
<1>14. flown.keys = Keys
  BY <1>8, <1>9 DEF Undisturbed
<1>15. \A r \in d.out : \/ r \in c.out
                        \/ r.msg \in ClientFlight /\ r.keys = NoKeys
                        \/ r.msg = ClientFinished /\ r.keys = Keys
  BY <1>9, <1>10, <1>11, <1>14 DEF SentFinished
<1>16. SentSecondFlight(c, d)
  BY <1>12, <1>13, <1>15 DEF SentSecondFlight
<1> QED BY <1>16 DEF d
-----------------------------------------------------------------------------
(* What a connection is while its handshake goes on, and how it ends.      *)

\* What Sound says of it that does not depend on how far it has come.
Underway(e, c, peerDone) ==
    /\ DOMAIN c = Fields
    /\ c.state = "handshaking" /\ c.cause = "none" /\ c.hsSeq \in Nat /\ c.next \in Nat
    /\ c.count \in 0 .. MaxRetransmits
    /\ c.timer \in BOOLEAN /\ c.encrypted \in BOOLEAN /\ c.done = FALSE /\ c.heardData \in BOOLEAN
    /\ c.reassembly \subseteq Says(Peer(e))
    /\ c.keys \in {NoKeys, Keys} /\ (c.encrypted => c.keys = Keys)
    /\ c.remoteCert => trusted[e]
    /\ c.heardData \/ (e = Client /\ ServerFinished \in c.reassembly) => peerDone

Stage(e, c) == IF e = Client THEN ClientStage(c) ELSE ServerStage(c)

\* What a connection sends is what its end says.
Allowed(e, c) == \A r \in c.out : Genuine(e, r, c.done)

LEMMA UnderwaySound ==
    ASSUME NEW e, NEW c, NEW pd, c.state = "handshaking"
    PROVE  Sound(e, c, pd) <=> Underway(e, c, pd) /\ Stage(e, c) /\ (c.timer <=> c.flight # {})
BY DEF Sound, Underway, Stage, State, Cause

LEMMA FailSound ==
    ASSUME NEW e, NEW c, NEW pd, Underway(e, c, pd), NEW k, NEW d, Failed(c, k, d),
           (k = "fingerprint" /\ ~trusted[e]) \/ (k = "timeout" /\ c.count = MaxRetransmits)
    PROVE  Sound(e, d, pd) /\ (Allowed(e, c) => Allowed(e, d))
BY DEF Sound, Underway, Failed, Ended, Allowed, State, Cause

LEMMA CompleteSound ==
    ASSUME NEW e, NEW c, NEW pd, Underway(e, c, pd), NEW d, Completed(c, d),
           c.transcript = Whole, c.keys = Keys, c.encrypted,
           c.next > (IF e = Client THEN ServerLast ELSE ClientLast),
           e = Client \/ Asks => c.remoteCert, e = Client => pd
    PROVE  Sound(e, d, pd) /\ (Allowed(e, c) => Allowed(e, d))
BY DEF Sound, Underway, Completed, Ended, Allowed, Genuine, State, Cause

LEMMA CloseSound ==
    ASSUME NEW e, NEW c, NEW pd, Sound(e, c, pd), ~Over(c), Allowed(e, c), NEW d, ClosedNow(c, d)
    PROVE  Sound(e, d, pd) /\ Allowed(e, d) /\ d.done = c.done
<1>1. c.cause = "none"
  BY DEF Sound, Over
<1>2. Sound(e, d, pd)
  BY <1>1 DEF Sound, ClosedNow, Ended, State, Cause
<1>3. KeysOf(c) \in {NoKeys, Keys}
  BY DEF KeysOf, Sound
<1>4. ASSUME NEW r \in d.out PROVE Genuine(e, r, d.done)
  <2>1. CASE r \in c.out
    BY <2>1 DEF Allowed, ClosedNow
  <2>2. CASE r.msg = CloseNotify /\ r.keys = KeysOf(c)
    BY <1>3, <2>2, Messages DEF Genuine
  <2> QED BY <2>1, <2>2 DEF ClosedNow
<1> QED BY <1>2, <1>4 DEF Allowed, ClosedNow
-----------------------------------------------------------------------------
(* Which message is next.                                                  *)

LEMMA ClientHears ==
    ASSUME style \in ServerStyles, NEW c, NEW pd, Underway(Client, c, pd), ClientStage(c),
           NEW m \in c.reassembly, m.seq = c.next
    PROVE  \/ m = HelloVerifyRequest /\ style.cookies /\ Row(c, 0, <<>>, {FirstHello})
           \/ m = ServerHello /\ ~style.cookies /\ Row(c, 0, <<>>, {FirstHello})
           \/ m = ServerHello /\ style.cookies /\ Row(c, 1, AfterHello, {Hello})
           \/ m = Certificate /\ Row(c, Base + 1, AfterServerHello, {Hello})
           \/ m = ServerKeyExchange /\ Row(c, Base + 2, AfterCertificate, {Hello})
           \/ m = CertificateRequest /\ Asks /\ Row(c, Base + 3, AfterServerKey, {Hello})
           \/ m = ServerHelloDone /\ Row(c, ServerLast - 1, AfterRequest, {Hello})
           \/ m = ServerFinished /\ Row(c, ServerLast, AfterClientFinished, ClientFlight)
<1>1. m \in Says(Server)
  BY PeerProperties DEF Underway
<1>2. \/ m = HelloVerifyRequest /\ style.cookies /\ c.next = 0
      \/ m = ServerHello /\ c.next = Base
      \/ m = Certificate /\ c.next = Base + 1
      \/ m = ServerKeyExchange /\ c.next = Base + 2
      \/ m = CertificateRequest /\ Asks /\ c.next = Base + 3
      \/ m = ServerHelloDone /\ c.next = ServerLast - 1
      \/ m = ServerFinished /\ c.next = ServerLast
  BY <1>1, ServerSays
<1>3. ~Asks => AfterRequest = AfterServerKey
  BY DEF AfterRequest
<1> QED BY <1>2, <1>3, Numbers DEF ClientStage, Row

LEMMA ServerHears ==
    ASSUME style \in ServerStyles, NEW c, NEW pd, Underway(Server, c, pd), ServerStage(c),
           NEW m \in c.reassembly, m.seq = c.next
    PROVE  \/ m = FirstHello /\ style.cookies /\ Row(c, 0, <<>>, {})
           \/ m = Hello /\ Row(c, Base, <<>>, {})
           \/ m = Certificate /\ Asks /\ Row(c, Base + 1, AfterHelloDone, ServerFlight)
           \/ m = ClientKeyExchange /\ Asks /\ Row(c, Base + 2, AfterClientCert, ServerFlight)
           \/ m = ClientKeyExchange /\ ~Asks /\ Row(c, Base + 1, AfterHelloDone, ServerFlight)
           \/ m = CertificateVerify /\ Asks /\ Row(c, Base + 3, AfterClientKey, ServerFlight)
           \/ m = ClientFinished /\ Row(c, ClientLast, AfterVerify, ServerFlight)
<1>1. m \in Says(Client)
  BY PeerProperties DEF Underway
<1>2. \/ m = FirstHello /\ c.next = 0
      \/ m = Hello /\ c.next = Base
      \/ m = Certificate /\ Asks /\ c.next = Base + 1
      \/ m = ClientKeyExchange /\ c.next = ClientLast - (IF Asks THEN 2 ELSE 1)
      \/ m = CertificateVerify /\ Asks /\ c.next = Base + 3
      \/ m = ClientFinished /\ c.next = ClientLast
  BY <1>1, ClientSays
<1>3. ~style.cookies => Hello = FirstHello
  BY DEF Hello
<1> QED BY <1>2, <1>3, Numbers DEF ServerStage, Row
-----------------------------------------------------------------------------
(* The client dispatches a message.                                        *)

\* A message leaves the reassembly.
Dispatched(c, m) == [c EXCEPT !.reassembly = @ \ {m}, !.next = @ + 1]

Taken(c, d) ==
    /\ DOMAIN d = Fields /\ d.next = c.next + 1 /\ d.reassembly \subseteq c.reassembly
    /\ d.state = c.state /\ d.cause = c.cause /\ d.hsSeq = c.hsSeq /\ d.count = c.count
    /\ d.transcript = c.transcript /\ d.flight = c.flight /\ d.timer = c.timer
    /\ d.cookie = c.cookie /\ d.certRequested = c.certRequested /\ d.remoteCert = c.remoteCert
    /\ d.keys = c.keys /\ d.encrypted = c.encrypted /\ d.done = c.done /\ d.agreed = c.agreed
    /\ d.heardData = c.heardData /\ d.out = c.out

LEMMA DispatchedEffect ==
    ASSUME NEW c, DOMAIN c = Fields, NEW m
    PROVE  Taken(c, Dispatched(c, m))
BY FieldsAre DEF Dispatched, Taken

LEMMA TakenUnderway ==
    ASSUME NEW e, NEW c, NEW pd, Underway(e, c, pd), NEW d, Taken(c, d)
    PROVE  Underway(e, d, pd) /\ (Allowed(e, c) => Allowed(e, d))
BY DEF Underway, Taken, Allowed

LEMMA UnderwayKept ==
    ASSUME NEW e, NEW c, NEW pd, Underway(e, c, pd), NEW d, Undisturbed(c, d),
           d.hsSeq \in Nat, d.count \in 0 .. MaxRetransmits, d.timer \in BOOLEAN,
           d.encrypted \in BOOLEAN, d.encrypted => d.keys = Keys
    PROVE  Underway(e, d, pd)
BY DEF Underway, Undisturbed

LEMMA UnderwayHello ==
    ASSUME NEW e, NEW c, NEW pd, Underway(e, c, pd), NEW d, SentHello(c, d)
    PROVE  Underway(e, d, pd)
<1>1. Undisturbed(c, d)
  BY DEF SentHello
<1>2. d.hsSeq \in Nat
  BY DEF SentHello, Underway
<1>3. d.count \in 0 .. MaxRetransmits
  BY HandshakeAssumption DEF SentHello, Underway
<1>4. d.timer \in BOOLEAN
  BY DEF SentHello
<1>5. d.encrypted \in BOOLEAN /\ (d.encrypted => d.keys = Keys)
  BY <1>1 DEF SentHello, Underway, Undisturbed
<1> QED BY <1>1, <1>2, <1>3, <1>4, <1>5, UnderwayKept

LEMMA UnderwayRecorded ==
    ASSUME NEW e, NEW c, NEW pd, Underway(e, c, pd), NEW m, NEW d, Recorded(c, m, d)
    PROVE  Underway(e, d, pd) /\ (Allowed(e, c) => Allowed(e, d))
<1>1. Undisturbed(c, d)
  BY DEF Recorded
<1>2. d.hsSeq \in Nat /\ d.count \in 0 .. MaxRetransmits
  BY DEF Recorded, Underway
<1>3. d.timer \in BOOLEAN
  BY DEF Recorded, Underway
<1>4. d.encrypted \in BOOLEAN /\ (d.encrypted => d.keys = Keys)
  BY <1>1 DEF Recorded, Underway, Undisturbed
<1>5. Underway(e, d, pd)
  BY <1>1, <1>2, <1>3, <1>4, UnderwayKept
<1> QED BY <1>1, <1>5 DEF Recorded, Undisturbed, Allowed

\* Handling a message keeps the client where it should be.
Handled(e, c, d, pd) == Sound(e, d, pd) /\ Allowed(e, d) /\ (c.done => d.done)

LEMMA ClientVerifyRequest ==
    ASSUME style \in ServerStyles, style.cookies, NEW c, NEW pd, Underway(Client, c, pd), ClientStage(c),
           Allowed(Client, c), Row(c, 0, <<>>, {FirstHello}), NEW b, Taken(c, b)
    PROVE  Handled(Client, c, ClientHandle(b, HelloVerifyRequest, trusted[Client]), pd)
<1> DEFINE greeted == ClearRetransmit([b EXCEPT !.cookie = TRUE])
           d == SendClientHello(greeted)
<1>1. ClientHandle(b, HelloVerifyRequest, trusted[Client]) = d
  BY Messages DEF ClientHandle
<1>2. /\ DOMAIN greeted = Fields /\ greeted.next = b.next /\ greeted.reassembly = b.reassembly
      /\ greeted.state = b.state /\ greeted.cause = b.cause /\ greeted.hsSeq = b.hsSeq
      /\ greeted.transcript = b.transcript /\ greeted.cookie = TRUE
      /\ greeted.certRequested = b.certRequested /\ greeted.remoteCert = b.remoteCert
      /\ greeted.keys = b.keys /\ greeted.encrypted = b.encrypted /\ greeted.done = b.done
      /\ greeted.heardData = b.heardData /\ greeted.out = b.out
      /\ greeted.count = b.count /\ greeted.timer = FALSE
  BY FieldsAre DEF Taken, ClearRetransmit
<1> HIDE DEF greeted
<1>3. SentHello(greeted, d)
  BY <1>2, SendClientHelloEffect
<1> HIDE DEF d
<1>4. Underway(Client, b, pd) /\ Allowed(Client, b)
  BY TakenUnderway
<1>5. c.next = 0 /\ c.hsSeq = 1 /\ c.transcript = <<>> /\ ~c.encrypted /\ c.keys = NoKeys
      /\ ~c.certRequested /\ ~c.remoteCert /\ Base = 1 /\ 0 < ServerLast /\ ServerLast > 2
  BY Numbers DEF ClientStage, Row
<1>6. b.next = 1 /\ b.hsSeq = 1 /\ b.transcript = <<>> /\ ~b.encrypted /\ b.keys = NoKeys
      /\ ~b.certRequested /\ ~b.remoteCert
  BY <1>5 DEF Taken
<1>7. Msg("CookieHello", greeted.hsSeq, <<>>) = Hello
  BY <1>2, <1>6 DEF Hello
<1>8. /\ Undisturbed(greeted, d) /\ d.encrypted = greeted.encrypted /\ d.hsSeq = 2
      /\ d.transcript = Append(<<>>, Hello) /\ d.flight = {Hello} /\ d.count = 0 /\ d.timer = TRUE
      /\ \A r \in d.out : r \in b.out \/ (r.msg = Hello /\ r.keys = NoKeys)
  BY <1>2, <1>3, <1>6, <1>7 DEF SentHello, KeysOf
<1>9. Append(<<>>, Hello) = AfterHello
  BY DEF AfterHello
<1>10. /\ d.next = 1 /\ d.transcript = AfterHello /\ d.flight = {Hello} /\ d.hsSeq = 2
       /\ d.cookie = TRUE /\ ~d.certRequested /\ ~d.remoteCert /\ d.keys = NoKeys /\ ~d.encrypted
  BY <1>2, <1>6, <1>8, <1>9 DEF Undisturbed
<1>11. ClientStage(d)
  BY <1>5, <1>10 DEF ClientStage, Row
<1>12. Underway(Client, d, pd)
  <2>1. Underway(Client, greeted, pd)
    BY <1>2, <1>4 DEF Underway
  <2> QED BY <1>3, <2>1, UnderwayHello
<1>13. Allowed(Client, d)
  <2>1. Hello \in Says(Client)
    BY DEF Says
  <2>2. Client # Server
    BY HandshakeAssumption
  <2> QED BY <1>2, <1>4, <1>8, <2>1, <2>2, Messages DEF Allowed, Genuine, Undisturbed
<1>14. Sound(Client, d, pd)
  BY <1>8, <1>11, <1>12, UnderwaySound DEF Stage, Underway
<1> QED BY <1>1, <1>13, <1>14 DEF Handled, Underway

\* Recording a message changes nothing else.
LEMMA RecordedHandled ==
    ASSUME NEW e, NEW c, NEW pd, Underway(e, c, pd), c.timer <=> c.flight # {}, Allowed(e, c),
           NEW b, Taken(c, b), NEW m, NEW d, Recorded(b, m, d), Stage(e, d)
    PROVE  Handled(e, c, d, pd)
<1>1. Underway(e, b, pd) /\ Allowed(e, b)
  BY TakenUnderway
<1>2. Underway(e, d, pd) /\ Allowed(e, d)
  BY <1>1, UnderwayRecorded
<1>3. d.timer <=> d.flight # {}
  BY DEF Taken, Recorded
<1>4. d.state = "handshaking" /\ ~c.done
  BY <1>2 DEF Underway
<1> QED BY <1>2, <1>3, <1>4, UnderwaySound DEF Handled

LEMMA ClientServerHello ==
    ASSUME style \in ServerStyles, NEW c, NEW pd, Underway(Client, c, pd), ClientStage(c),
           c.timer <=> c.flight # {}, Allowed(Client, c), NEW b, Taken(c, b),
           \/ ~style.cookies /\ Row(c, 0, <<>>, {FirstHello})
           \/ style.cookies /\ Row(c, 1, AfterHello, {Hello})
    PROVE  Handled(Client, c, ClientHandle(b, ServerHello, trusted[Client]), pd)
<1> DEFINE a == RecordFirstHello(b)
           d == AppendInbound(a, ServerHello)
<1>1. ClientHandle(b, ServerHello, trusted[Client]) = d
  BY Messages DEF ClientHandle
<1>2. /\ c.hsSeq = Base + 1 /\ (c.cookie <=> style.cookies) /\ ~c.certRequested /\ ~c.remoteCert
      /\ c.keys = NoKeys /\ ~c.encrypted /\ c.next = Base /\ c.flight = {Hello}
  BY Numbers DEF ClientStage, Row, Hello
<1>3. /\ Undisturbed(b, a) /\ a.encrypted = b.encrypted /\ a.hsSeq = b.hsSeq
      /\ a.flight = b.flight /\ a.count = b.count /\ a.timer = b.timer /\ a.out = b.out
  BY FieldsAre DEF Taken, RecordFirstHello, Undisturbed
<1>4. a.transcript = AfterHello
  <2>1. CASE style.cookies
    <3>1. b.cookie /\ b.transcript = AfterHello
      BY <1>2, <2>1 DEF Taken, Row
    <3> QED BY <3>1 DEF RecordFirstHello
  <2>2. CASE ~style.cookies
    <3>1. ~b.cookie /\ b.transcript = <<>> /\ DOMAIN b = Fields
      BY <1>2, <2>2 DEF Taken, Row
    <3>2. AfterHello = <<FirstHello>>
      BY <2>2 DEF AfterHello, Hello
    <3> QED BY <3>1, <3>2, FieldsAre DEF RecordFirstHello
  <2> QED BY <2>1, <2>2
<1>5. Recorded(a, ServerHello, d)
  BY <1>3, AppendInboundEffect DEF Undisturbed
<1>6. Underway(Client, a, pd) /\ Allowed(Client, a)
  <2>1. Underway(Client, b, pd) /\ Allowed(Client, b)
    BY TakenUnderway
  <2>2. a.hsSeq \in Nat /\ a.count \in 0 .. MaxRetransmits
    BY <1>3, <2>1 DEF Underway
  <2>3. a.timer \in BOOLEAN /\ a.encrypted \in BOOLEAN
    BY <1>3, <2>1 DEF Underway
  <2>4. a.encrypted => a.keys = Keys
    BY <1>3, <2>1 DEF Underway, Undisturbed
  <2>5. Underway(Client, a, pd)
    BY <1>3, <2>1, <2>2, <2>3, <2>4, UnderwayKept
  <2> QED BY <1>3, <2>1, <2>5 DEF Allowed, Undisturbed
<1> HIDE DEF a, d
<1>7. Underway(Client, d, pd) /\ Allowed(Client, d)
  BY <1>5, <1>6, UnderwayRecorded
<1>8. /\ d.next = Base + 1 /\ d.transcript = AfterServerHello /\ d.flight = {Hello}
      /\ d.hsSeq = Base + 1 /\ (d.cookie <=> style.cookies) /\ ~d.certRequested /\ ~d.remoteCert
      /\ d.keys = NoKeys /\ ~d.encrypted /\ d.timer = c.timer
  BY <1>2, <1>3, <1>4, <1>5 DEF Taken, Recorded, Undisturbed, AfterServerHello
<1>9. ClientStage(d)
  BY <1>8, Numbers DEF ClientStage, Row
<1>10. d.timer <=> d.flight # {}
  BY <1>2, <1>8
<1>11. Sound(Client, d, pd)
  BY <1>7, <1>9, <1>10, UnderwaySound DEF Stage, Underway
<1> QED BY <1>1, <1>7, <1>11 DEF Handled, Underway

LEMMA ClientCertificate ==
    ASSUME style \in ServerStyles, trusted[Client] \in BOOLEAN, NEW c, NEW pd, Underway(Client, c, pd),
           ClientStage(c), c.timer <=> c.flight # {}, Allowed(Client, c), NEW b, Taken(c, b),
           Row(c, Base + 1, AfterServerHello, {Hello})
    PROVE  Handled(Client, c, ClientHandle(b, Certificate, trusted[Client]), pd)
<1> DEFINE a == AppendInbound(b, Certificate)
           d == [a EXCEPT !.remoteCert = TRUE]
<1>1. ClientHandle(b, Certificate, trusted[Client]) = IF trusted[Client] THEN d ELSE Fail(a, "fingerprint")
  BY Messages DEF ClientHandle, ParseCertificate
<1>2. Recorded(b, Certificate, a)
  BY AppendInboundEffect DEF Taken
<1> HIDE DEF a
<1>3. Underway(Client, a, pd) /\ Allowed(Client, a) /\ DOMAIN a = Fields
  <2>1. Underway(Client, b, pd) /\ Allowed(Client, b)
    BY TakenUnderway
  <2>2. Underway(Client, a, pd) /\ Allowed(Client, a)
    BY <1>2, <2>1, UnderwayRecorded
  <2> QED BY <2>2 DEF Underway
<1>4. CASE ~trusted[Client]
  <2>1. ~Over(a)
    BY <1>3 DEF Over, Underway
  <2>2. Failed(a, "fingerprint", Fail(a, "fingerprint"))
    BY <1>3, <2>1, FailEffect
  <2>3. Sound(Client, Fail(a, "fingerprint"), pd) /\ Allowed(Client, Fail(a, "fingerprint"))
    BY <1>3, <1>4, <2>2, FailSound
  <2>4. ~c.done
    BY DEF Underway
  <2> QED BY <1>1, <1>4, <2>3, <2>4 DEF Handled
<1>5. CASE trusted[Client]
  <2>1. /\ DOMAIN d = Fields
        /\ d.state = a.state /\ d.cause = a.cause /\ d.next = a.next /\ d.reassembly = a.reassembly
        /\ d.cookie = a.cookie /\ d.certRequested = a.certRequested /\ d.remoteCert = TRUE
        /\ d.keys = a.keys /\ d.done = a.done /\ d.agreed = a.agreed /\ d.heardData = a.heardData
        /\ d.encrypted = a.encrypted /\ d.hsSeq = a.hsSeq /\ d.transcript = a.transcript
        /\ d.flight = a.flight /\ d.count = a.count /\ d.timer = a.timer /\ d.out = a.out
    BY <1>3, FieldsAre
  <2> HIDE DEF d
  <2>2. Underway(Client, d, pd)
    BY <1>3, <1>5, <2>1 DEF Underway
  <2>3. Allowed(Client, d)
    BY <1>3, <2>1 DEF Allowed
  <2>4. /\ c.hsSeq = Base + 1 /\ (c.cookie <=> style.cookies) /\ ~c.certRequested
        /\ c.keys = NoKeys /\ ~c.encrypted /\ c.next = Base + 1 /\ c.flight = {Hello}
        /\ c.transcript = AfterServerHello
    BY Numbers DEF ClientStage, Row
  <2>5. /\ d.next = Base + 2 /\ d.transcript = AfterCertificate /\ d.flight = {Hello}
        /\ d.hsSeq = Base + 1 /\ (d.cookie <=> style.cookies) /\ ~d.certRequested /\ d.remoteCert
        /\ d.keys = NoKeys /\ ~d.encrypted /\ d.timer = c.timer
    <3>1. /\ a.next = c.next + 1 /\ a.transcript = Append(c.transcript, Certificate) /\ a.flight = c.flight
          /\ a.hsSeq = c.hsSeq /\ a.cookie = c.cookie /\ a.certRequested = c.certRequested
          /\ a.keys = c.keys /\ a.encrypted = c.encrypted /\ a.timer = c.timer
      BY <1>2 DEF Taken, Recorded, Undisturbed
    <3>2. Base + 1 + 1 = Base + 2
      BY Numbers
    <3> QED BY <2>1, <2>4, <3>1, <3>2 DEF AfterCertificate
  <2>6. ClientStage(d)
    BY <2>5, Numbers DEF ClientStage, Row
  <2>7. d.timer <=> d.flight # {}
    BY <2>4, <2>5
  <2>8. Sound(Client, d, pd)
    BY <2>2, <2>6, <2>7, UnderwaySound DEF Stage, Underway
  <2> QED BY <1>1, <1>5, <2>3, <2>8 DEF Handled, Underway
<1> QED BY <1>4, <1>5

LEMMA ClientServerKey ==
    ASSUME style \in ServerStyles, NEW c, NEW pd, Underway(Client, c, pd), ClientStage(c),
           c.timer <=> c.flight # {}, Allowed(Client, c), NEW b, Taken(c, b),
           Row(c, Base + 2, AfterCertificate, {Hello})
    PROVE  Handled(Client, c, ClientHandle(b, ServerKeyExchange, trusted[Client]), pd)
<1> DEFINE d == AppendInbound(b, ServerKeyExchange)
<1>1. /\ c.hsSeq = Base + 1 /\ (c.cookie <=> style.cookies) /\ ~c.certRequested /\ c.remoteCert
      /\ c.keys = NoKeys /\ ~c.encrypted /\ c.next = Base + 2 /\ c.flight = {Hello}
      /\ c.transcript = AfterCertificate
  BY Numbers DEF ClientStage, Row
<1>2. ClientHandle(b, ServerKeyExchange, trusted[Client]) = d
  <2>1. b.remoteCert
    BY <1>1 DEF Taken
  <2> QED BY <2>1, Messages DEF ClientHandle
<1>3. Recorded(b, ServerKeyExchange, d)
  BY AppendInboundEffect DEF Taken
<1> HIDE DEF d
<1>4. /\ d.next = Base + 3 /\ d.transcript = AfterServerKey /\ d.flight = {Hello}
      /\ d.hsSeq = Base + 1 /\ (d.cookie <=> style.cookies) /\ ~d.certRequested /\ d.remoteCert
      /\ d.keys = NoKeys /\ ~d.encrypted
  <2>1. Base + 2 + 1 = Base + 3
    BY Numbers
  <2> QED BY <1>1, <1>3, <2>1 DEF Taken, Recorded, Undisturbed, AfterServerKey
<1>5. ClientStage(d)
  BY <1>4, Numbers DEF ClientStage, Row
<1>6. Stage(Client, d)
  BY <1>5 DEF Stage
<1> QED BY <1>2, <1>3, <1>6, RecordedHandled

LEMMA ClientRequest ==
    ASSUME style \in ServerStyles, Asks, NEW c, NEW pd, Underway(Client, c, pd), ClientStage(c),
           c.timer <=> c.flight # {}, Allowed(Client, c), NEW b, Taken(c, b),
           Row(c, Base + 3, AfterServerKey, {Hello})
    PROVE  Handled(Client, c, ClientHandle(b, CertificateRequest, trusted[Client]), pd)
<1> DEFINE a == [b EXCEPT !.certRequested = TRUE]
           d == AppendInbound(a, CertificateRequest)
<1>1. /\ c.hsSeq = Base + 1 /\ (c.cookie <=> style.cookies) /\ c.remoteCert
      /\ c.keys = NoKeys /\ ~c.encrypted /\ c.next = Base + 3 /\ c.flight = {Hello}
      /\ c.transcript = AfterServerKey
  BY Numbers DEF ClientStage, Row
<1>2. ClientHandle(b, CertificateRequest, trusted[Client]) = d
  BY Messages DEF ClientHandle
<1>3. /\ DOMAIN a = Fields /\ a.next = b.next /\ a.reassembly = b.reassembly
      /\ a.state = b.state /\ a.cause = b.cause /\ a.hsSeq = b.hsSeq /\ a.count = b.count
      /\ a.transcript = b.transcript /\ a.flight = b.flight /\ a.timer = b.timer
      /\ a.cookie = b.cookie /\ a.certRequested = TRUE /\ a.remoteCert = b.remoteCert
      /\ a.keys = b.keys /\ a.encrypted = b.encrypted /\ a.done = b.done
      /\ a.heardData = b.heardData /\ a.out = b.out
  BY FieldsAre DEF Taken
<1> HIDE DEF a
<1>4. Recorded(a, CertificateRequest, d)
  BY <1>3, AppendInboundEffect
<1> HIDE DEF d
<1>5. Underway(Client, d, pd) /\ Allowed(Client, d)
  <2>1. Underway(Client, b, pd) /\ Allowed(Client, b)
    BY TakenUnderway
  <2>2. Underway(Client, a, pd)
    BY <1>3, <2>1 DEF Underway
  <2>3. Allowed(Client, a)
    BY <1>3, <2>1 DEF Allowed
  <2> QED BY <1>4, <2>2, <2>3, UnderwayRecorded
<1>6. /\ d.next = Base + 4 /\ d.transcript = AfterRequest /\ d.flight = {Hello}
      /\ d.hsSeq = Base + 1 /\ (d.cookie <=> style.cookies) /\ d.certRequested /\ d.remoteCert
      /\ d.keys = NoKeys /\ ~d.encrypted /\ d.timer = c.timer
  <2>1. Base + 3 + 1 = Base + 4
    BY Numbers
  <2>2. /\ d.next = b.next /\ d.transcript = Append(b.transcript, CertificateRequest) /\ d.flight = b.flight
        /\ d.hsSeq = b.hsSeq /\ d.cookie = b.cookie /\ d.certRequested /\ d.remoteCert = b.remoteCert
        /\ d.keys = b.keys /\ d.encrypted = b.encrypted /\ d.timer = b.timer
    BY <1>3, <1>4 DEF Recorded, Undisturbed
  <2> QED BY <1>1, <2>1, <2>2 DEF Taken, AfterRequest
<1>7. ClientStage(d)
  BY <1>6, Numbers DEF ClientStage, Row
<1>8. d.timer <=> d.flight # {}
  BY <1>1, <1>6
<1>9. Sound(Client, d, pd)
  BY <1>5, <1>7, <1>8, UnderwaySound DEF Stage, Underway
<1> QED BY <1>2, <1>5, <1>9 DEF Handled, Underway

LEMMA ClientHelloDone ==
    ASSUME style \in ServerStyles, NEW c, NEW pd, Underway(Client, c, pd), ClientStage(c),
           Allowed(Client, c), NEW b, Taken(c, b), Row(c, ServerLast - 1, AfterRequest, {Hello})
    PROVE  Handled(Client, c, ClientHandle(b, ServerHelloDone, trusted[Client]), pd)
<1> DEFINE a == AppendInbound(b, ServerHelloDone)
           k == ClearRetransmit(a)
           d == SendClientSecondFlight(k)
<1>1. /\ c.hsSeq = Base + 1 /\ (c.cookie <=> style.cookies) /\ (c.certRequested <=> Asks) /\ c.remoteCert
      /\ c.keys = NoKeys /\ ~c.encrypted /\ c.next = ServerLast - 1 /\ c.transcript = AfterRequest
  BY Numbers DEF ClientStage, Row
<1>2. ClientHandle(b, ServerHelloDone, trusted[Client]) = d
  BY Messages DEF ClientHandle
<1>3. Recorded(b, ServerHelloDone, a)
  BY AppendInboundEffect DEF Taken
<1> HIDE DEF a
<1>4. Underway(Client, a, pd) /\ Allowed(Client, a)
  <2>1. Underway(Client, b, pd) /\ Allowed(Client, b)
    BY TakenUnderway
  <2> QED BY <1>3, <2>1, UnderwayRecorded
<1>5. /\ a.next = ServerLast /\ a.transcript = AfterHelloDone /\ a.hsSeq = Base + 1
      /\ (a.cookie <=> style.cookies) /\ (a.certRequested <=> Asks) /\ a.remoteCert
      /\ a.keys = NoKeys /\ ~a.encrypted
  <2>1. ServerLast - 1 + 1 = ServerLast
    BY Numbers
  <2> QED BY <1>1, <1>3, <2>1 DEF Taken, Recorded, Undisturbed, AfterHelloDone
<1>6. /\ DOMAIN k = Fields
      /\ k.state = a.state /\ k.cause = a.cause /\ k.next = a.next /\ k.reassembly = a.reassembly
      /\ k.cookie = a.cookie /\ k.certRequested = a.certRequested /\ k.remoteCert = a.remoteCert
      /\ k.done = a.done /\ k.agreed = a.agreed /\ k.heardData = a.heardData
      /\ k.transcript = a.transcript /\ k.hsSeq = a.hsSeq /\ k.encrypted = a.encrypted /\ k.out = a.out
  BY <1>4, FieldsAre DEF ClearRetransmit, Underway
<1> HIDE DEF k
<1>7. /\ DOMAIN d = Fields
      /\ d.state = k.state /\ d.cause = k.cause /\ d.next = k.next /\ d.reassembly = k.reassembly
      /\ d.cookie = k.cookie /\ d.certRequested = k.certRequested /\ d.remoteCert = k.remoteCert
      /\ d.done = k.done /\ d.agreed = k.agreed /\ d.heardData = k.heardData
      /\ d.keys = Keys /\ d.encrypted = TRUE /\ d.hsSeq \in Nat /\ d.transcript = AfterClientFinished
      /\ d.flight = ClientFlight /\ d.count = 0 /\ d.timer = TRUE
      /\ \A r \in d.out : \/ r \in k.out
                          \/ r.msg \in ClientFlight /\ r.keys = NoKeys
                          \/ r.msg = ClientFinished /\ r.keys = Keys
  <2>1. SentSecondFlight(k, d)
    BY <1>5, <1>6, ClientFlightEffect
  <2> HIDE DEF d
  <2> QED BY <2>1 DEF SentSecondFlight
<1> HIDE DEF d
<1>8. Underway(Client, d, pd)
  <2>1. /\ DOMAIN d = Fields /\ d.state = a.state /\ d.cause = a.cause /\ d.next = a.next
        /\ d.reassembly = a.reassembly /\ d.remoteCert = a.remoteCert /\ d.done = a.done
        /\ d.heardData = a.heardData
    BY <1>6, <1>7
  <2>2. d.timer \in BOOLEAN /\ d.encrypted \in BOOLEAN
    BY <1>7
  <2>3. d.count \in 0 .. MaxRetransmits
    BY <1>7, HandshakeAssumption
  <2>4. d.hsSeq \in Nat /\ d.keys = Keys
    BY <1>7
  <2> QED BY <1>4, <2>1, <2>2, <2>3, <2>4 DEF Underway
<1>9. Allowed(Client, d)
  <2>1. ClientFlight \subseteq Says(Client) /\ ClientFinished \in Says(Client)
    BY DEF Says
  <2>2. ASSUME NEW r \in d.out PROVE Genuine(Client, r, d.done)
    <3>1. CASE r \in k.out
      BY <1>4, <1>6, <1>7, <3>1 DEF Allowed
    <3>2. CASE r.msg \in ClientFlight /\ r.keys = NoKeys
      <4>1. r.msg # Data
        BY <3>2, Messages DEF ClientFlight
      <4> QED BY <2>1, <3>2, <4>1, PeerProperties DEF Genuine
    <3>3. CASE r.msg = ClientFinished /\ r.keys = Keys
      BY <2>1, <3>3, Messages, PeerProperties DEF Genuine
    <3> QED BY <1>7, <3>1, <3>2, <3>3
  <2> QED BY <2>2 DEF Allowed
<1>10. ClientStage(d)
  <2>1. /\ d.next = ServerLast /\ d.transcript = AfterClientFinished /\ d.flight = ClientFlight
        /\ (d.cookie <=> style.cookies) /\ (d.certRequested <=> Asks) /\ d.remoteCert
        /\ d.keys = Keys /\ d.encrypted
    BY <1>5, <1>6, <1>7
  <2> QED BY <2>1, Numbers DEF ClientStage, Row
<1>11. d.timer <=> d.flight # {}
  BY <1>7 DEF ClientFlight
<1>12. Sound(Client, d, pd)
  BY <1>8, <1>10, <1>11, UnderwaySound DEF Stage, Underway
<1> QED BY <1>2, <1>9, <1>12 DEF Handled, Underway

LEMMA ClientIsDone ==
    ASSUME style \in ServerStyles, NEW c, NEW pd, Underway(Client, c, pd), ClientStage(c),
           Allowed(Client, c), ServerFinished \in c.reassembly, NEW b, Taken(c, b),
           Row(c, ServerLast, AfterClientFinished, ClientFlight)
    PROVE  Handled(Client, c, ClientHandle(b, ServerFinished, trusted[Client]), pd)
<1> DEFINE a == AppendInbound(b, ServerFinished)
           d == OnHandshakeComplete(a)
<1>1. c.keys = Keys /\ c.encrypted /\ c.remoteCert /\ c.next = ServerLast /\ c.transcript = AfterClientFinished
  BY Numbers DEF ClientStage, Row
<1>2. ClientHandle(b, ServerFinished, trusted[Client]) = d
  <2>1. b.transcript = AfterClientFinished
    BY <1>1 DEF Taken
  <2> QED BY <2>1, Messages DEF ClientHandle, VerifyPeerFinished
<1>3. Recorded(b, ServerFinished, a)
  BY AppendInboundEffect DEF Taken
<1> HIDE DEF a
<1>4. Underway(Client, a, pd) /\ Allowed(Client, a)
  <2>1. Underway(Client, b, pd) /\ Allowed(Client, b)
    BY TakenUnderway
  <2> QED BY <1>3, <2>1, UnderwayRecorded
<1>5. a.keys = Keys /\ a.encrypted /\ a.remoteCert /\ a.next = ServerLast + 1 /\ a.transcript = Whole
  BY <1>1, <1>3 DEF Taken, Recorded, Undisturbed, Whole
<1>6. Completed(a, d)
  <2>1. DOMAIN a = Fields /\ ~a.done
    BY <1>4 DEF Underway
  <2> QED BY <2>1, CompleteEffect
<1>7. pd
  BY DEF Underway
<1>8. Sound(Client, d, pd) /\ Allowed(Client, d)
  <2>1. a.next > ServerLast
    BY <1>5, Numbers
  <2> QED BY <1>4, <1>5, <1>6, <1>7, <2>1, CompleteSound
<1> QED BY <1>2, <1>8 DEF Handled, Underway

LEMMA ClientDispatch ==
    ASSUME style \in ServerStyles, trusted[Client] \in BOOLEAN, NEW c, NEW pd, Sound(Client, c, pd),
           c.state = "handshaking", Allowed(Client, c), NEW m \in c.reassembly, m.seq = c.next
    PROVE  Handled(Client, c, ClientHandle(Dispatched(c, m), m, trusted[Client]), pd)
<1> DEFINE b == Dispatched(c, m)
<1>1. Underway(Client, c, pd) /\ ClientStage(c) /\ (c.timer <=> c.flight # {})
  BY UnderwaySound DEF Stage
<1>2. Taken(c, b)
  BY <1>1, DispatchedEffect DEF Underway
<1> HIDE DEF b
<1>3. CASE m = HelloVerifyRequest /\ style.cookies /\ Row(c, 0, <<>>, {FirstHello})
  BY <1>1, <1>2, <1>3, ClientVerifyRequest DEF b
<1>4. CASE m = ServerHello /\ \/ ~style.cookies /\ Row(c, 0, <<>>, {FirstHello})
                              \/ style.cookies /\ Row(c, 1, AfterHello, {Hello})
  BY <1>1, <1>2, <1>4, ClientServerHello DEF b
<1>5. CASE m = Certificate /\ Row(c, Base + 1, AfterServerHello, {Hello})
  BY <1>1, <1>2, <1>5, ClientCertificate DEF b
<1>6. CASE m = ServerKeyExchange /\ Row(c, Base + 2, AfterCertificate, {Hello})
  BY <1>1, <1>2, <1>6, ClientServerKey DEF b
<1>7. CASE m = CertificateRequest /\ Asks /\ Row(c, Base + 3, AfterServerKey, {Hello})
  BY <1>1, <1>2, <1>7, ClientRequest DEF b
<1>8. CASE m = ServerHelloDone /\ Row(c, ServerLast - 1, AfterRequest, {Hello})
  BY <1>1, <1>2, <1>8, ClientHelloDone DEF b
<1>9. CASE m = ServerFinished /\ Row(c, ServerLast, AfterClientFinished, ClientFlight)
  BY <1>1, <1>2, <1>9, ClientIsDone DEF b
<1> QED BY <1>1, <1>3, <1>4, <1>5, <1>6, <1>7, <1>8, <1>9, ClientHears
-----------------------------------------------------------------------------
(* The server dispatches a message.                                        *)

LEMMA ServerAnswersHello ==
    ASSUME style \in ServerStyles, style.cookies, NEW c, NEW pd, Underway(Server, c, pd), ServerStage(c),
           c.timer <=> c.flight # {}, Allowed(Server, c), NEW b, Taken(c, b), Row(c, 0, <<>>, {})
    PROVE  Handled(Server, c, ServerHandle(b, FirstHello, trusted[Server]), pd)
<1> DEFINE d == SendHelloVerifyRequest(b)
<1>1. c.next = 0 /\ c.transcript = <<>> /\ c.flight = {} /\ ~c.remoteCert /\ c.keys = NoKeys /\ ~c.encrypted
  BY Numbers DEF ServerStage, Row
<1>2. ServerHandle(b, FirstHello, trusted[Server]) = d
  BY Messages DEF ServerHandle, HandleClientHello
<1>3. /\ DOMAIN d = Fields /\ d.next = 1 /\ d.reassembly = {} /\ d.hsSeq = 1
      /\ d.state = c.state /\ d.cause = c.cause /\ d.count = c.count
      /\ d.transcript = c.transcript /\ d.flight = c.flight /\ d.timer = c.timer
      /\ d.remoteCert = c.remoteCert /\ d.keys = c.keys /\ d.encrypted = c.encrypted /\ d.done = c.done
      /\ d.heardData = c.heardData
      /\ \A r \in d.out : r \in c.out \/ (r.msg = HelloVerifyRequest /\ r.keys \in {NoKeys, c.keys})
  BY FieldsAre DEF Taken, SendHelloVerifyRequest, SendRecord, HelloVerifyRequest
<1> HIDE DEF d
<1>4. Underway(Server, d, pd)
  <2>1. Server # Client
    BY PeerProperties
  <2> QED BY <1>3, <2>1 DEF Underway
<1>5. Allowed(Server, d)
  <2>1. HelloVerifyRequest \in Says(Server)
    BY PeerProperties DEF Says
  <2> QED BY <1>1, <1>3, <2>1, Messages DEF Allowed, Genuine
<1>6. ServerStage(d)
  <2>1. d.next = 1 /\ d.transcript = <<>> /\ d.flight = {} /\ d.hsSeq = 1 /\ ~d.remoteCert /\ d.keys = NoKeys
        /\ ~d.encrypted /\ Base = 1
    BY <1>1, <1>3, Numbers
  <2> QED BY <2>1, Numbers DEF ServerStage, Row
<1>7. Sound(Server, d, pd)
  <2>1. d.timer <=> d.flight # {}
    BY <1>3
  <2>2. Server # Client
    BY PeerProperties
  <2> QED BY <1>4, <1>6, <2>1, <2>2, UnderwaySound DEF Stage, Underway
<1> QED BY <1>2, <1>5, <1>7 DEF Handled, Underway

LEMMA ServerSendsFlight ==
    ASSUME style \in ServerStyles, NEW c, NEW pd, Underway(Server, c, pd), ServerStage(c),
           Allowed(Server, c), NEW b, Taken(c, b), Row(c, Base, <<>>, {})
    PROVE  Handled(Server, c, ServerHandle(b, Hello, trusted[Server]), pd)
<1> DEFINE a == AppendInbound(b, Hello)
           d == SendServerFlight(a, Asks)
<1>1. c.next = Base /\ c.transcript = <<>> /\ c.hsSeq = Base /\ ~c.remoteCert /\ c.keys = NoKeys /\ ~c.encrypted
  BY Numbers DEF ServerStage, Row
<1>2. ServerHandle(b, Hello, trusted[Server]) = d
  BY Messages DEF ServerHandle, HandleClientHello, Asks
<1>3. Recorded(b, Hello, a)
  BY AppendInboundEffect DEF Taken
<1> HIDE DEF a
<1>4. Underway(Server, a, pd) /\ Allowed(Server, a)
  <2>1. Underway(Server, b, pd) /\ Allowed(Server, b)
    BY TakenUnderway
  <2> QED BY <1>3, <2>1, UnderwayRecorded
<1>5. /\ a.next = Base + 1 /\ a.transcript = AfterHello /\ a.hsSeq = Base /\ ~a.remoteCert
      /\ a.keys = NoKeys /\ ~a.encrypted
  <2>1. Append(<<>>, Hello) = AfterHello
    BY DEF AfterHello
  <2> QED BY <1>1, <1>3, <2>1 DEF Taken, Recorded, Undisturbed
<1>6. SentServerFlight(a, d)
  BY <1>4, <1>5, ServerFlightEffect DEF Underway
<1> HIDE DEF d
<1>7. Underway(Server, d, pd)
  <2>1. Undisturbed(a, d)
    BY <1>6 DEF SentServerFlight
  <2>2. d.hsSeq \in Nat
    BY <1>6, Numbers DEF SentServerFlight
  <2>3. d.count \in 0 .. MaxRetransmits
    BY <1>6, HandshakeAssumption DEF SentServerFlight
  <2>4. d.timer \in BOOLEAN
    BY <1>6 DEF SentServerFlight
  <2>5. d.encrypted \in BOOLEAN /\ ~d.encrypted
    BY <1>4, <1>5, <1>6 DEF SentServerFlight, Underway
  <2> QED BY <1>4, <2>1, <2>2, <2>3, <2>4, <2>5, UnderwayKept
<1>8. Allowed(Server, d)
  <2>1. ASSUME NEW r \in d.out PROVE Genuine(Server, r, d.done)
    <3>1. CASE r \in a.out
      BY <1>4, <1>6, <3>1 DEF Allowed, SentServerFlight, Undisturbed
    <3>2. CASE r.msg \in ServerFlight /\ r.keys = NoKeys
      <4>1. r.msg.type \notin {"Data", "Finished"}
        BY <3>2, Messages DEF ServerFlight
      <4>2. r.msg # Data /\ r.msg # ServerFinished
        BY <4>1, Messages
      <4>3. r.msg \in Says(Server)
        BY <3>2, PeerProperties DEF Says
      <4> QED BY <3>2, <4>2, <4>3 DEF Genuine
    <3> QED BY <1>6, <3>1, <3>2 DEF SentServerFlight
  <2> QED BY <2>1 DEF Allowed
<1>9. ServerStage(d)
  <2>1. d.next = Base + 1 /\ d.transcript = AfterHelloDone /\ d.flight = ServerFlight /\ d.hsSeq = ServerLast
        /\ ~d.remoteCert /\ d.keys = NoKeys /\ ~d.encrypted
    BY <1>5, <1>6 DEF SentServerFlight, Undisturbed
  <2> QED BY <2>1, Numbers DEF ServerStage, Row
<1>10. Sound(Server, d, pd)
  <2>1. d.timer <=> d.flight # {}
    BY <1>6 DEF SentServerFlight, ServerFlight
  <2>2. Server # Client
    BY PeerProperties
  <2> QED BY <1>7, <1>9, <2>1, <2>2, UnderwaySound DEF Stage, Underway
<1> QED BY <1>2, <1>8, <1>10 DEF Handled, Underway

LEMMA ServerCertificate ==
    ASSUME style \in ServerStyles, Asks, trusted[Server] \in BOOLEAN, NEW c, NEW pd, Underway(Server, c, pd),
           ServerStage(c), c.timer <=> c.flight # {}, Allowed(Server, c), NEW b, Taken(c, b),
           Row(c, Base + 1, AfterHelloDone, ServerFlight)
    PROVE  Handled(Server, c, ServerHandle(b, Certificate, trusted[Server]), pd)
<1> DEFINE a == AppendInbound(b, Certificate)
           d == [a EXCEPT !.remoteCert = TRUE]
<1>1. ServerHandle(b, Certificate, trusted[Server]) = IF trusted[Server] THEN d ELSE Fail(a, "fingerprint")
  BY Messages DEF ServerHandle, ParseCertificate
<1>2. Recorded(b, Certificate, a)
  BY AppendInboundEffect DEF Taken
<1> HIDE DEF a
<1>3. Underway(Server, a, pd) /\ Allowed(Server, a) /\ DOMAIN a = Fields
  <2>1. Underway(Server, b, pd) /\ Allowed(Server, b)
    BY TakenUnderway
  <2>2. Underway(Server, a, pd) /\ Allowed(Server, a)
    BY <1>2, <2>1, UnderwayRecorded
  <2> QED BY <2>2 DEF Underway
<1>4. CASE ~trusted[Server]
  <2>1. ~Over(a)
    BY <1>3 DEF Over, Underway
  <2>2. Failed(a, "fingerprint", Fail(a, "fingerprint"))
    BY <1>3, <2>1, FailEffect
  <2>3. Sound(Server, Fail(a, "fingerprint"), pd) /\ Allowed(Server, Fail(a, "fingerprint"))
    BY <1>3, <1>4, <2>2, FailSound
  <2>4. ~c.done
    BY DEF Underway
  <2> QED BY <1>1, <1>4, <2>3, <2>4 DEF Handled
<1>5. CASE trusted[Server]
  <2>1. /\ DOMAIN d = Fields
        /\ d.state = a.state /\ d.cause = a.cause /\ d.next = a.next /\ d.reassembly = a.reassembly
        /\ d.remoteCert = TRUE
        /\ d.keys = a.keys /\ d.done = a.done /\ d.agreed = a.agreed /\ d.heardData = a.heardData
        /\ d.encrypted = a.encrypted /\ d.hsSeq = a.hsSeq /\ d.transcript = a.transcript
        /\ d.flight = a.flight /\ d.count = a.count /\ d.timer = a.timer /\ d.out = a.out
    BY <1>3, FieldsAre
  <2> HIDE DEF d
  <2>2. Underway(Server, d, pd)
    BY <1>3, <1>5, <2>1 DEF Underway
  <2>3. Allowed(Server, d)
    BY <1>3, <2>1 DEF Allowed
  <2>4. /\ c.hsSeq = ServerLast /\ c.keys = NoKeys /\ ~c.encrypted /\ c.next = Base + 1
        /\ c.flight = ServerFlight /\ c.transcript = AfterHelloDone
    BY Numbers DEF ServerStage, Row
  <2>5. /\ d.next = Base + 2 /\ d.transcript = AfterClientCert /\ d.flight = ServerFlight
        /\ d.hsSeq = ServerLast /\ d.remoteCert /\ d.keys = NoKeys /\ ~d.encrypted /\ d.timer = c.timer
    <3>1. /\ a.next = c.next + 1 /\ a.transcript = Append(c.transcript, Certificate) /\ a.flight = c.flight
          /\ a.hsSeq = c.hsSeq /\ a.keys = c.keys /\ a.encrypted = c.encrypted /\ a.timer = c.timer
      BY <1>2 DEF Taken, Recorded, Undisturbed
    <3>2. Base + 1 + 1 = Base + 2
      BY Numbers
    <3> QED BY <2>1, <2>4, <3>1, <3>2 DEF AfterClientCert
  <2>6. ServerStage(d)
    BY <2>5, Numbers DEF ServerStage, Row
  <2>7. d.timer <=> d.flight # {}
    BY <2>4, <2>5
  <2>8. Sound(Server, d, pd)
    BY <2>2, <2>6, <2>7, PeerProperties, UnderwaySound DEF Stage, Underway
  <2> QED BY <1>1, <1>5, <2>3, <2>8 DEF Handled, Underway
<1> QED BY <1>4, <1>5

LEMMA ServerKeys ==
    ASSUME style \in ServerStyles, NEW c, NEW pd, Underway(Server, c, pd), ServerStage(c),
           c.timer <=> c.flight # {}, Allowed(Server, c), NEW b, Taken(c, b),
           \/ Asks /\ Row(c, Base + 2, AfterClientCert, ServerFlight)
           \/ ~Asks /\ Row(c, Base + 1, AfterHelloDone, ServerFlight)
    PROVE  Handled(Server, c, ServerHandle(b, ClientKeyExchange, trusted[Server]), pd)
<1> DEFINE a == AppendInbound(b, ClientKeyExchange)
           d == [a EXCEPT !.keys = a.transcript]
<1>1. ServerHandle(b, ClientKeyExchange, trusted[Server]) = d
  BY Messages DEF ServerHandle, DeriveFromExchange
<1>2. Recorded(b, ClientKeyExchange, a)
  BY AppendInboundEffect DEF Taken
<1> HIDE DEF a
<1>3. Underway(Server, a, pd) /\ Allowed(Server, a)
  <2>1. Underway(Server, b, pd) /\ Allowed(Server, b)
    BY TakenUnderway
  <2> QED BY <1>2, <2>1, UnderwayRecorded
<1>4. /\ c.hsSeq = ServerLast /\ c.keys = NoKeys /\ ~c.encrypted /\ (c.remoteCert <=> Asks)
      /\ c.flight = ServerFlight /\ c.transcript = AfterClientCert
      /\ c.next = IF Asks THEN Base + 2 ELSE Base + 1
  BY Numbers DEF ServerStage, Row, AfterClientCert
<1>5. /\ a.next = (IF Asks THEN Base + 3 ELSE Base + 2) /\ a.transcript = Keys /\ a.flight = ServerFlight
      /\ a.hsSeq = ServerLast /\ (a.remoteCert <=> Asks) /\ ~a.encrypted /\ a.timer = c.timer
  <2>1. Base + 1 + 1 = Base + 2 /\ Base + 2 + 1 = Base + 3
    BY Numbers
  <2> QED BY <1>2, <1>4, <2>1 DEF Taken, Recorded, Undisturbed, Keys, AfterClientKey
<1>6. /\ DOMAIN d = Fields
      /\ d.state = a.state /\ d.cause = a.cause /\ d.next = a.next /\ d.reassembly = a.reassembly
      /\ d.remoteCert = a.remoteCert /\ d.keys = Keys /\ d.done = a.done /\ d.heardData = a.heardData
      /\ d.encrypted = a.encrypted /\ d.hsSeq = a.hsSeq /\ d.transcript = a.transcript
      /\ d.flight = a.flight /\ d.count = a.count /\ d.timer = a.timer /\ d.out = a.out
  BY <1>3, <1>5, FieldsAre DEF Underway
<1> HIDE DEF d
<1>7. Underway(Server, d, pd)
  BY <1>3, <1>6 DEF Underway
<1>8. Allowed(Server, d)
  BY <1>3, <1>6 DEF Allowed
<1>9. ServerStage(d)
  <2>1. ~Asks => AfterClientKey = AfterVerify
    BY DEF AfterVerify
  <2>2. /\ d.next = (IF Asks THEN Base + 3 ELSE Base + 2) /\ d.transcript = AfterClientKey
        /\ d.flight = ServerFlight /\ d.hsSeq = ServerLast /\ (d.remoteCert <=> Asks) /\ d.keys = Keys
        /\ ~d.encrypted
    BY <1>5, <1>6 DEF Keys
  <2> QED BY <2>1, <2>2, Numbers DEF ServerStage, Row
<1>10. d.timer <=> d.flight # {}
  BY <1>4, <1>5, <1>6
<1>11. Sound(Server, d, pd)
  BY <1>7, <1>9, <1>10, PeerProperties, UnderwaySound DEF Stage, Underway
<1> QED BY <1>1, <1>8, <1>11 DEF Handled, Underway

LEMMA ServerVerify ==
    ASSUME style \in ServerStyles, Asks, NEW c, NEW pd, Underway(Server, c, pd), ServerStage(c),
           c.timer <=> c.flight # {}, Allowed(Server, c), NEW b, Taken(c, b),
           Row(c, Base + 3, AfterClientKey, ServerFlight)
    PROVE  Handled(Server, c, ServerHandle(b, CertificateVerify, trusted[Server]), pd)
<1> DEFINE d == AppendInbound(b, CertificateVerify)
<1>1. /\ c.hsSeq = ServerLast /\ c.keys = Keys /\ ~c.encrypted /\ c.remoteCert
      /\ c.flight = ServerFlight /\ c.transcript = AfterClientKey /\ c.next = Base + 3
  BY Numbers DEF ServerStage, Row
<1>2. ServerHandle(b, CertificateVerify, trusted[Server]) = d
  <2>1. b.remoteCert /\ b.transcript = AfterClientKey
    BY <1>1 DEF Taken
  <2> QED BY <2>1, Messages DEF ServerHandle, VerifyClientCertificateVerify
<1>3. Recorded(b, CertificateVerify, d)
  BY AppendInboundEffect DEF Taken
<1> HIDE DEF d
<1>4. ServerStage(d)
  <2>1. /\ d.next = Base + 4 /\ d.transcript = AfterVerify /\ d.flight = ServerFlight
        /\ d.hsSeq = ServerLast /\ d.remoteCert /\ d.keys = Keys /\ ~d.encrypted
    <3>1. Base + 3 + 1 = Base + 4
      BY Numbers
    <3> QED BY <1>1, <1>3, <3>1 DEF Taken, Recorded, Undisturbed, AfterVerify
  <2> QED BY <2>1, Numbers DEF ServerStage, Row
<1>5. Stage(Server, d)
  BY <1>4, PeerProperties DEF Stage
<1> QED BY <1>2, <1>3, <1>5, RecordedHandled

LEMMA ServerIsDone ==
    ASSUME style \in ServerStyles, NEW c, NEW pd, Underway(Server, c, pd), ServerStage(c),
           Allowed(Server, c), NEW b, Taken(c, b), Row(c, ClientLast, AfterVerify, ServerFlight)
    PROVE  Handled(Server, c, ServerHandle(b, ClientFinished, trusted[Server]), pd)
<1> DEFINE a == AppendInbound(b, ClientFinished)
           f == SendFinished(SendChangeCipherSpec(a))
           d == OnHandshakeComplete(f)
<1>1. /\ c.hsSeq = ServerLast /\ c.keys = Keys /\ (c.remoteCert <=> Asks)
      /\ c.transcript = AfterVerify /\ c.next = ClientLast
  BY Numbers DEF ServerStage, Row
<1>2. ServerHandle(b, ClientFinished, trusted[Server]) = d
  <2>1. b.transcript = AfterVerify
    BY <1>1 DEF Taken
  <2> QED BY <2>1, Messages DEF ServerHandle, VerifyPeerFinished
<1>3. Recorded(b, ClientFinished, a)
  BY AppendInboundEffect DEF Taken
<1> HIDE DEF a
<1>4. Underway(Server, a, pd) /\ Allowed(Server, a)
  <2>1. Underway(Server, b, pd) /\ Allowed(Server, b)
    BY TakenUnderway
  <2> QED BY <1>3, <2>1, UnderwayRecorded
<1>5. /\ a.hsSeq = ServerLast /\ a.keys = Keys /\ (a.remoteCert <=> Asks)
      /\ a.transcript = AfterClientFinished /\ a.next = ClientLast + 1
  BY <1>1, <1>3 DEF Taken, Recorded, Undisturbed, AfterClientFinished
<1>6. SentFinished(a, f)
  BY <1>4, SendFinishedEffect DEF Underway
<1> HIDE DEF f
<1>7. Msg("Finished", a.hsSeq, a.transcript) = ServerFinished
  BY <1>5 DEF ServerFinished
<1>8. /\ Undisturbed(a, f) /\ f.encrypted = TRUE /\ f.hsSeq = ServerLast + 1 /\ f.transcript = Whole
      /\ f.count = a.count /\ f.timer = a.timer
      /\ \A r \in f.out : r \in a.out \/ (r.msg = ServerFinished /\ r.keys = Keys)
  BY <1>5, <1>6, <1>7 DEF SentFinished, Whole
<1>9. Underway(Server, f, pd)
  <2>1. f.hsSeq \in Nat
    BY <1>8, Numbers
  <2>2. f.count \in 0 .. MaxRetransmits /\ f.timer \in BOOLEAN
    BY <1>4, <1>8 DEF Underway
  <2>3. f.encrypted \in BOOLEAN
    BY <1>8
  <2>4. f.keys = Keys
    BY <1>5, <1>8 DEF Undisturbed
  <2> QED BY <1>4, <1>8, <2>1, <2>2, <2>3, <2>4, UnderwayKept
<1>10. Completed(f, d)
  <2>1. DOMAIN f = Fields /\ ~f.done
    BY <1>9 DEF Underway
  <2> QED BY <2>1, CompleteEffect
<1> HIDE DEF d
<1>11. Sound(Server, d, pd)
  <2>1. f.next > ClientLast /\ f.keys = Keys /\ (Asks => f.remoteCert)
    BY <1>5, <1>8, Numbers DEF Undisturbed
  <2>2. Server # Client
    BY PeerProperties
  <2> QED BY <1>8, <1>9, <1>10, <2>1, <2>2, CompleteSound
<1>12. Allowed(Server, d)
  <2>1. ServerFinished \in Says(Server)
    BY PeerProperties DEF Says
  <2>2. d.out = f.out /\ d.done = TRUE
    BY <1>10 DEF Completed
  <2>3. ASSUME NEW r \in d.out PROVE Genuine(Server, r, d.done)
    <3>1. CASE r \in a.out
      BY <1>4, <2>2, <3>1 DEF Allowed, Genuine
    <3>2. CASE r.msg = ServerFinished /\ r.keys = Keys
      BY <2>1, <2>2, <3>2 DEF Genuine
    <3> QED BY <1>8, <2>2, <3>1, <3>2
  <2> QED BY <2>3 DEF Allowed
<1> QED BY <1>2, <1>11, <1>12 DEF Handled, Underway

LEMMA ServerDispatch ==
    ASSUME style \in ServerStyles, trusted[Server] \in BOOLEAN, NEW c, NEW pd, Sound(Server, c, pd),
           c.state = "handshaking", Allowed(Server, c), NEW m \in c.reassembly, m.seq = c.next
    PROVE  Handled(Server, c, ServerHandle(Dispatched(c, m), m, trusted[Server]), pd)
<1> DEFINE b == Dispatched(c, m)
<1>1. Underway(Server, c, pd) /\ ServerStage(c) /\ (c.timer <=> c.flight # {})
  BY UnderwaySound, PeerProperties DEF Stage
<1>2. Taken(c, b)
  BY <1>1, DispatchedEffect DEF Underway
<1> HIDE DEF b
<1>3. CASE m = FirstHello /\ style.cookies /\ Row(c, 0, <<>>, {})
  BY <1>1, <1>2, <1>3, ServerAnswersHello DEF b
<1>4. CASE m = Hello /\ Row(c, Base, <<>>, {})
  BY <1>1, <1>2, <1>4, ServerSendsFlight DEF b
<1>5. CASE m = Certificate /\ Asks /\ Row(c, Base + 1, AfterHelloDone, ServerFlight)
  BY <1>1, <1>2, <1>5, ServerCertificate DEF b
<1>6. CASE m = ClientKeyExchange /\ \/ Asks /\ Row(c, Base + 2, AfterClientCert, ServerFlight)
                                    \/ ~Asks /\ Row(c, Base + 1, AfterHelloDone, ServerFlight)
  BY <1>1, <1>2, <1>6, ServerKeys DEF b
<1>7. CASE m = CertificateVerify /\ Asks /\ Row(c, Base + 3, AfterClientKey, ServerFlight)
  BY <1>1, <1>2, <1>7, ServerVerify DEF b
<1>8. CASE m = ClientFinished /\ Row(c, ClientLast, AfterVerify, ServerFlight)
  BY <1>1, <1>2, <1>8, ServerIsDone DEF b
<1> QED BY <1>1, <1>3, <1>4, <1>5, <1>6, <1>7, <1>8, ServerHears
-----------------------------------------------------------------------------
(* A datagram is handled.                                                  *)

LEMMA DispatchOneHandled ==
    ASSUME style \in ServerStyles, trusted \in [End -> BOOLEAN], NEW e \in End, NEW c, NEW pd,
           Sound(e, c, pd), Allowed(e, c), \E x \in c.reassembly : x.seq = c.next
    PROVE  Handled(e, c, DispatchOne(e, c), pd)
<1> DEFINE m == CHOOSE x \in c.reassembly : x.seq = c.next
<1>1. m \in c.reassembly /\ m.seq = c.next
  OBVIOUS
<1>2. DispatchOne(e, c) = DispatchHandshake(e, Dispatched(c, m), m)
  BY DEF DispatchOne, Dispatched
<1> HIDE DEF m
<1>3. c.state = "handshaking"
  <2>1. m \in Says(Peer(e)) /\ c.next \in Nat
    BY <1>1 DEF Sound
  <2>2. e = Client => m.seq <= ServerLast
    BY <2>1, PeerProperties, ServerSays, Numbers
  <2>3. e = Server => m.seq <= ClientLast
    BY <2>1, PeerProperties, ClientSays, Numbers
  <2>4. c.state # "connected"
    <3> SUFFICES ASSUME c.state = "connected" PROVE FALSE
      OBVIOUS
    <3>1. c.next > (IF e = Client THEN ServerLast ELSE ClientLast)
      BY DEF Sound
    <3> QED BY <1>1, <2>1, <2>2, <2>3, <3>1, Numbers DEF End
  <2>5. c.reassembly # {}
    BY <1>1
  <2> QED BY <2>4, <2>5 DEF Sound
<1>4. trusted[e] \in BOOLEAN
  OBVIOUS
<1>5. CASE e = Client
  <2>1. DispatchOne(e, c) = ClientHandle(Dispatched(c, m), m, trusted[e])
    BY <1>2, <1>5 DEF DispatchHandshake
  <2> QED BY <1>1, <1>3, <1>4, <1>5, <2>1, ClientDispatch
<1>6. CASE e = Server
  <2>1. DispatchOne(e, c) = ServerHandle(Dispatched(c, m), m, trusted[e])
    BY <1>2, <1>6, PeerProperties DEF DispatchHandshake
  <2> QED BY <1>1, <1>3, <1>4, <1>6, <2>1, ServerDispatch
<1> QED BY <1>5, <1>6 DEF End

LEMMA DispatchNextHandled ==
    ASSUME style \in ServerStyles, trusted \in [End -> BOOLEAN], NEW e \in End, NEW c, NEW pd,
           Sound(e, c, pd), Allowed(e, c)
    PROVE  Handled(e, c, DispatchNext(e, c), pd)
<1>1. CASE \E x \in c.reassembly : x.seq = c.next
  <2>1. DispatchNext(e, c) = DispatchOne(e, c)
    BY <1>1 DEF DispatchNext
  <2> QED BY <1>1, <2>1, DispatchOneHandled
<1>2. CASE ~\E x \in c.reassembly : x.seq = c.next
  <2>1. DispatchNext(e, c) = c
    BY <1>2 DEF DispatchNext
  <2> QED BY <2>1 DEF Handled
<1> QED BY <1>1, <1>2

LEMMA TwoHandled ==
    ASSUME style \in ServerStyles, trusted \in [End -> BOOLEAN], NEW e \in End, NEW c, NEW pd,
           NEW b, Handled(e, c, b, pd)
    PROVE  Handled(e, c, DispatchNext(e, DispatchNext(e, b)), pd)
<1> DEFINE a == DispatchNext(e, b)
           d == DispatchNext(e, a)
<1>1. Handled(e, b, a, pd)
  BY DispatchNextHandled DEF Handled
<1> HIDE DEF a
<1>2. Handled(e, a, d, pd)
  BY <1>1, DispatchNextHandled DEF Handled
<1> HIDE DEF d
<1>3. Handled(e, c, d, pd)
  BY <1>1, <1>2 DEF Handled
<1> QED BY <1>3 DEF a, d

LEMMA FragmentHandled ==
    ASSUME style \in ServerStyles, trusted \in [End -> BOOLEAN], NEW e \in End, NEW c, NEW pd,
           Sound(e, c, pd), Allowed(e, c), c.state \in {"handshaking", "connected"},
           NEW m \in Says(Peer(e)), e = Client /\ m = ServerFinished => pd
    PROVE  Handled(e, c, HandleHandshakeFragment(e, c, m), pd)
<1> DEFINE heard == IF \E x \in c.reassembly : x.seq = m.seq THEN c
                    ELSE [c EXCEPT !.reassembly = @ \cup {m}]
           Two(S) == {DispatchNext(e, d) : d \in {DispatchNext(e, d) : d \in S}}
           Twice(d) == DispatchNext(e, DispatchNext(e, d))
<1>1. HandleHandshakeFragment(e, c, m) = CHOOSE d \in Two(Two(Two({heard}))) : TRUE
  BY DEF HandleHandshakeFragment
<1>2. ASSUME NEW x PROVE Two({x}) = {Twice(x)}
  OBVIOUS
<1>3. Handled(e, c, heard, pd)
  <2>1. CASE \E x \in c.reassembly : x.seq = m.seq
    BY <2>1 DEF Handled
  <2>2. CASE ~\E x \in c.reassembly : x.seq = m.seq
    <3>2. heard = [c EXCEPT !.reassembly = @ \cup {m}]
      BY <2>2
    <3>3. DOMAIN c = Fields
      BY DEF Sound
    <3>4. /\ DOMAIN heard = Fields /\ heard.reassembly = c.reassembly \cup {m}
          /\ heard.state = c.state /\ heard.cause = c.cause /\ heard.hsSeq = c.hsSeq /\ heard.next = c.next
          /\ heard.transcript = c.transcript /\ heard.flight = c.flight /\ heard.timer = c.timer
          /\ heard.count = c.count /\ heard.cookie = c.cookie /\ heard.certRequested = c.certRequested
          /\ heard.remoteCert = c.remoteCert /\ heard.keys = c.keys /\ heard.encrypted = c.encrypted
          /\ heard.done = c.done /\ heard.agreed = c.agreed /\ heard.heardData = c.heardData
          /\ heard.out = c.out
      BY <3>2, <3>3, FieldsAre
    <3> HIDE DEF heard
    <3>5. CASE c.state = "handshaking"
      <4>1. Underway(e, c, pd) /\ Stage(e, c) /\ (c.timer <=> c.flight # {})
        BY <3>5, UnderwaySound
      <4>2. Underway(e, heard, pd)
        BY <3>4, <4>1 DEF Underway
      <4>3. Stage(e, heard)
        BY <3>4, <4>1 DEF Stage, ClientStage, ServerStage, Row
      <4>4. heard.state = "handshaking" /\ (heard.timer <=> heard.flight # {})
        BY <3>4, <3>5, <4>1
      <4>5. Sound(e, heard, pd)
        BY <4>2, <4>3, <4>4, UnderwaySound
      <4> QED BY <3>4, <4>5 DEF Handled, Allowed
    <3>6. CASE c.state = "connected"
      <4>1. heard.reassembly \subseteq Says(Peer(e)) /\ (c.done => heard.agreed = c.agreed)
        BY <3>4 DEF Sound
      <4>2. heard.heardData \/ (e = Client /\ (heard.done \/ ServerFinished \in heard.reassembly)) => pd
        BY <3>4 DEF Sound
      <4>3. Sound(e, heard, pd)
        BY <3>4, <3>6, <4>1, <4>2 DEF Sound
      <4> QED BY <3>4, <4>3 DEF Handled, Allowed
    <3> QED BY <3>5, <3>6
  <2> QED BY <2>1, <2>2
<1> HIDE DEF heard, Two, Twice
<1>4. Two(Two(Two({heard}))) = {Twice(Twice(Twice(heard)))}
  BY <1>2
<1>5. HandleHandshakeFragment(e, c, m) = Twice(Twice(Twice(heard)))
  BY <1>1, <1>4
<1>6. ASSUME NEW b, Handled(e, c, b, pd) PROVE Handled(e, c, Twice(b), pd)
  BY <1>6, TwoHandled DEF Twice
<1> QED BY <1>3, <1>5, <1>6

LEMMA PacketHandled ==
    ASSUME style \in ServerStyles, trusted \in [End -> BOOLEAN], NEW e \in End, NEW c, NEW pd,
           Sound(e, c, pd), Allowed(e, c), NEW r, Genuine(Peer(e), r, pd)
    PROVE  Handled(e, c, HandlePacket(e, c, r), pd)
<1> DEFINE d == HandlePacket(e, c, r)
<1> SUFFICES Handled(e, c, d, pd)
  OBVIOUS
<1>1. CASE c.state = "new" \/ Over(c) \/ Unreadable(c, r)
  <2>1. d = c
    BY <1>1 DEF HandlePacket, HandleRecord
  <2> QED BY <2>1 DEF Handled
<1>2. CASE ~(c.state = "new" \/ Over(c) \/ Unreadable(c, r))
  <2>1. c.state \in {"handshaking", "connected"}
    BY <1>2 DEF Sound, State, Over
  <2>2. r.keys \in {NoKeys, c.keys}
    BY <1>2 DEF Sound, Genuine, Unreadable
  <2>3. d = CASE r.msg.type = "Data" -> [c EXCEPT !.heardData = @ \/ c.state = "connected"]
              [] r.msg.type = "CloseNotify" -> CloseConnection(c)
              [] OTHER -> HandleHandshakeFragment(e, c, r.msg)
    BY <1>2, <2>2 DEF HandlePacket, HandleRecord
  <2> HIDE DEF d
  <2>4. CASE r.msg = Data
    <3>1. d = [c EXCEPT !.heardData = @ \/ c.state = "connected"]
      BY <2>3, <2>4, Messages
    <3>2. pd
      BY <2>4 DEF Genuine
    <3>3. DOMAIN c = Fields
      BY DEF Sound
    <3>4. /\ DOMAIN d = Fields /\ d.reassembly = c.reassembly
          /\ d.state = c.state /\ d.cause = c.cause /\ d.hsSeq = c.hsSeq /\ d.next = c.next
          /\ d.transcript = c.transcript /\ d.flight = c.flight /\ d.timer = c.timer
          /\ d.count = c.count /\ d.cookie = c.cookie /\ d.certRequested = c.certRequested
          /\ d.remoteCert = c.remoteCert /\ d.keys = c.keys /\ d.encrypted = c.encrypted
          /\ d.done = c.done /\ d.agreed = c.agreed /\ d.out = c.out
      BY <3>1, <3>3, FieldsAre
    <3>5. d.heardData \in BOOLEAN
      BY <3>1, <3>3, FieldsAre
    <3>6. Stage(e, c) => Stage(e, d)
      BY <3>4 DEF Stage, ClientStage, ServerStage, Row
    <3>7. Sound(e, d, pd)
      BY <3>2, <3>4, <3>5, <3>6 DEF Sound, Stage, Row
    <3> QED BY <3>4, <3>7 DEF Handled, Allowed
  <2>5. CASE r.msg = CloseNotify
    <3>1. d = CloseConnection(c)
      BY <2>3, <2>5, Messages
    <3>2. DOMAIN c = Fields
      BY DEF Sound
    <3>3. ClosedNow(c, d)
      BY <1>2, <3>1, <3>2, CloseEffect
    <3>4. Sound(e, d, pd) /\ Allowed(e, d) /\ d.done = c.done
      BY <1>2, <3>3, CloseSound
    <3> QED BY <3>4 DEF Handled
  <2>6. CASE r.msg \in Says(Peer(e))
    <3>1. r.msg.type \in MessageType
      BY <2>6, PeerProperties, SaidTypes
    <3>2. d = HandleHandshakeFragment(e, c, r.msg)
      BY <2>3, <3>1 DEF MessageType
    <3>3. e = Client /\ r.msg = ServerFinished => pd
      BY PeerProperties DEF Genuine
    <3> QED BY <2>1, <2>6, <3>2, <3>3, FragmentHandled
  <2> QED BY <2>4, <2>5, <2>6 DEF Genuine
<1> QED BY <1>1, <1>2
-----------------------------------------------------------------------------
(* The steps.                                                              *)

\* The kind of server and the trust of the ends do not change, so neither does
\* what is said of a connection.
LEMMA SameMessages ==
    ASSUME style' = style
    PROVE  /\ Asks' = Asks /\ Base' = Base /\ ServerLast' = ServerLast /\ ClientLast' = ClientLast
           /\ Hello' = Hello /\ AfterHello' = AfterHello /\ AfterServerHello' = AfterServerHello
           /\ AfterCertificate' = AfterCertificate /\ AfterServerKey' = AfterServerKey
           /\ AfterRequest' = AfterRequest /\ AfterHelloDone' = AfterHelloDone
           /\ AfterClientCert' = AfterClientCert /\ AfterClientKey' = AfterClientKey
           /\ AfterVerify' = AfterVerify /\ AfterClientFinished' = AfterClientFinished
           /\ Whole' = Whole /\ Keys' = Keys /\ ServerFinished' = ServerFinished
           /\ ClientFlight' = ClientFlight /\ ServerFlight' = ServerFlight
           /\ Says(Client)' = Says(Client) /\ Says(Server)' = Says(Server)
<1>1. Asks' = Asks /\ Base' = Base /\ Hello' = Hello /\ style.cookies' = style.cookies
  BY DEF Asks, Base, Hello
<1>2. ServerLast' = ServerLast /\ ClientLast' = ClientLast
  BY <1>1 DEF ServerLast, ClientLast
<1>3. /\ ServerHello' = ServerHello /\ Certificate' = Certificate /\ ServerKeyExchange' = ServerKeyExchange
      /\ CertificateRequest' = CertificateRequest /\ ServerHelloDone' = ServerHelloDone
      /\ ClientKeyExchange' = ClientKeyExchange
  BY <1>1, <1>2 DEF ServerHello, Certificate, ServerKeyExchange, CertificateRequest, ServerHelloDone,
                    ClientKeyExchange
<1>4. /\ AfterHello' = AfterHello /\ AfterServerHello' = AfterServerHello
      /\ AfterCertificate' = AfterCertificate /\ AfterServerKey' = AfterServerKey
  BY <1>1, <1>3 DEF AfterHello, AfterServerHello, AfterCertificate, AfterServerKey
<1>5. /\ AfterRequest' = AfterRequest /\ AfterHelloDone' = AfterHelloDone
      /\ AfterClientCert' = AfterClientCert /\ AfterClientKey' = AfterClientKey
  BY <1>1, <1>3, <1>4 DEF AfterRequest, AfterHelloDone, AfterClientCert, AfterClientKey
<1>6. CertificateVerify' = CertificateVerify /\ AfterVerify' = AfterVerify /\ Keys' = Keys
  BY <1>1, <1>5 DEF CertificateVerify, AfterVerify, Keys
<1>7. ClientFinished' = ClientFinished /\ AfterClientFinished' = AfterClientFinished
  BY <1>2, <1>6 DEF ClientFinished, AfterClientFinished
<1>8. ServerFinished' = ServerFinished /\ Whole' = Whole
  BY <1>2, <1>7 DEF ServerFinished, Whole
<1>9. ClientFlight' = ClientFlight /\ ServerFlight' = ServerFlight
  BY <1>1, <1>3, <1>6 DEF ClientFlight, ServerFlight
<1>10. Says(Client)' = Says(Client) /\ Says(Server)' = Says(Server)
  BY <1>1, <1>7, <1>8, <1>9 DEF Says
<1> QED BY <1>1, <1>2, <1>4, <1>5, <1>6, <1>7, <1>8, <1>9, <1>10

LEMMA SameSound ==
    ASSUME style' = style, trusted' = trusted, NEW e \in End, NEW c, NEW pd, Sound(e, c, pd)
    PROVE  Sound(e, c, pd)'
<1>1. Says(Peer(e))' = Says(Peer(e))
  BY SameMessages, PeerProperties DEF End
<1>2. ClientStage(c)' <=> ClientStage(c)
  BY SameMessages DEF ClientStage, Row
<1>3. ServerStage(c)' <=> ServerStage(c)
  BY SameMessages DEF ServerStage, Row
<1> QED BY <1>1, <1>2, <1>3, SameMessages DEF Sound, Row

LEMMA SameGenuine ==
    ASSUME style' = style, NEW e \in End, NEW r, NEW done, Genuine(e, r, done)
    PROVE  Genuine(e, r, done)'
<1>1. Says(e)' = Says(e)
  BY SameMessages DEF End
<1> QED BY <1>1, SameMessages DEF Genuine

\* Sound in one more thing the peer may have done.
LEMMA SoundMore ==
    ASSUME NEW e, NEW c, NEW pd, NEW later, Sound(e, c, pd), pd => later
    PROVE  Sound(e, c, later)
BY DEF Sound

LEMMA SoundOut ==
    ASSUME NEW e, NEW c, NEW pd, Sound(e, c, pd), NEW d, d = [c EXCEPT !.out = {}]
    PROVE  Sound(e, d, pd) /\ d.out = {} /\ d.done = c.done
<1>1. DOMAIN c = Fields
  BY DEF Sound
<1>2. /\ DOMAIN d = Fields /\ d.reassembly = c.reassembly
      /\ d.state = c.state /\ d.cause = c.cause /\ d.hsSeq = c.hsSeq /\ d.next = c.next
      /\ d.transcript = c.transcript /\ d.flight = c.flight /\ d.timer = c.timer
      /\ d.count = c.count /\ d.cookie = c.cookie /\ d.certRequested = c.certRequested
      /\ d.remoteCert = c.remoteCert /\ d.keys = c.keys /\ d.encrypted = c.encrypted
      /\ d.done = c.done /\ d.agreed = c.agreed /\ d.heardData = c.heardData /\ d.out = {}
  BY <1>1, FieldsAre
<1>3. ClientStage(c) => ClientStage(d)
  BY <1>2 DEF ClientStage, Row
<1>4. ServerStage(c) => ServerStage(d)
  BY <1>2 DEF ServerStage, Row
<1> QED BY <1>2, <1>3, <1>4 DEF Sound, Row

\* An end handles something and what it says leaves.
LEMMA PutKeeps ==
    ASSUME InductiveInv, NEW e \in End, NEW c, Handled(e, conn[e], c, conn[Peer(e)].done),
           NEW rest, rest \subseteq net, Put(e, c, rest), faults' \in 0 .. MaxFaults
    PROVE  InductiveInv'
<1> DEFINE d == [c EXCEPT !.out = {}]
           p == Peer(e)
<1>1. p \in End /\ p # e /\ Peer(p) = e /\ \A x \in End : x = e \/ x = p
  BY PeerProperties
<1>2. conn' = [conn EXCEPT ![e] = d] /\ style' = style /\ trusted' = trusted
  BY DEF Put
<1>3. Sound(e, d, conn[p].done) /\ d.out = {} /\ d.done = c.done
  BY SoundOut DEF Handled
<1> HIDE DEF d, p
<1>4. conn'[e] = d /\ conn'[p] = conn[p] /\ conn' = [x \in End |-> conn'[x]]
  BY <1>1, <1>2 DEF InductiveInv
<1>5. conn[e].done => conn'[e].done
  BY <1>3, <1>4 DEF Handled
<1>6. Sound(e, conn'[e], conn'[p].done) /\ Sound(p, conn'[p], conn'[e].done)
  <2>1. Sound(p, conn[p], conn[e].done)
    BY <1>1 DEF InductiveInv
  <2>2. Sound(p, conn[p], conn'[e].done)
    BY <1>5, <2>1, SoundMore
  <2> QED BY <1>3, <1>4, <2>2
<1>7. ASSUME NEW x \in End PROVE Sound(x, conn[x], conn[Peer(x)].done)' /\ (conn[x].out = {})'
  <2>1. CASE x = e
    <3>1. Sound(x, conn'[x], conn'[Peer(x)].done)
      BY <1>6, <2>1 DEF p
    <3> QED BY <1>2, <1>3, <1>4, <2>1, <3>1, SameSound
  <2>2. CASE x = p
    <3>1. Sound(x, conn'[x], conn'[Peer(x)].done)
      BY <1>1, <1>6, <2>2
    <3>2. conn[p].out = {}
      BY <1>1 DEF InductiveInv
    <3> QED BY <1>2, <1>4, <2>2, <3>1, <3>2, SameSound
  <2> QED BY <1>1, <2>1, <2>2
<1>8. ASSUME NEW r \in net' PROVE r.to \in End /\ Genuine(Peer(r.to), r, conn[Peer(r.to)].done)'
  <2>1. CASE r \in rest
    <3>1. r.to \in End /\ Genuine(Peer(r.to), r, conn[Peer(r.to)].done)
      BY <2>1 DEF InductiveInv
    <3>2. Peer(r.to) \in End /\ (conn[Peer(r.to)].done => conn'[Peer(r.to)].done)
      BY <1>1, <1>4, <1>5, <3>1, PeerProperties
    <3>3. Genuine(Peer(r.to), r, conn'[Peer(r.to)].done)
      BY <3>1, <3>2 DEF Genuine
    <3> QED BY <1>2, <3>1, <3>2, <3>3, SameGenuine
  <2>2. CASE r \in {[to |-> Peer(e), msg |-> x.msg, keys |-> x.keys] : x \in c.out}
    <3>1. PICK x \in c.out : r = [to |-> Peer(e), msg |-> x.msg, keys |-> x.keys]
      BY <2>2
    <3>2. Genuine(e, x, c.done)
      BY <3>1 DEF Handled, Allowed
    <3>3. Genuine(e, r, c.done) /\ r.to = p
      BY <3>1, <3>2 DEF Genuine, p
    <3>4. Genuine(Peer(r.to), r, conn'[Peer(r.to)].done)
      BY <1>1, <1>3, <1>4, <3>3
    <3> QED BY <1>1, <1>2, <3>3, <3>4, SameGenuine
  <2> QED BY <2>1, <2>2 DEF Put
<1> QED BY <1>2, <1>4, <1>7, <1>8 DEF InductiveInv

LEMMA InitKeeps == Init => InductiveInv
<1> SUFFICES ASSUME Init PROVE InductiveInv
  OBVIOUS
<1>1. conn = [e \in End |-> conn[e]]
  BY DEF Init
<1>2. trusted \in [End -> BOOLEAN] /\ style \in ServerStyles /\ faults \in 0 .. MaxFaults /\ net = {}
  BY HandshakeAssumption DEF Init
<1>3. ASSUME NEW e \in End PROVE Sound(e, conn[e], conn[Peer(e)].done) /\ conn[e].out = {}
  <2>1. conn[e] = NewConnection /\ 0 \in 0 .. MaxRetransmits
    BY HandshakeAssumption DEF Init
  <2>2. DOMAIN NewConnection = Fields
    BY DEF Fields
  <2> QED BY <2>1, <2>2 DEF NewConnection, Sound, Row, NoKeys, State, Cause
<1> QED BY <1>1, <1>2, <1>3 DEF InductiveInv

LEMMA StartKeeps ==
    ASSUME InductiveInv, NEW e \in End, Start(e)
    PROVE  InductiveInv'
<1> DEFINE c == [conn[e] EXCEPT !.state = "handshaking"]
           d == IF e = Client THEN SendClientHello(c) ELSE c
           pd == conn[Peer(e)].done
<1>1. conn[e].state = "new" /\ Put(e, d, net) /\ faults' \in 0 .. MaxFaults
  BY DEF Start, InductiveInv
<1>2. Sound(e, conn[e], pd) /\ conn[e].out = {} /\ style \in ServerStyles
  BY DEF InductiveInv
<1> HIDE DEF pd
<1>3. /\ DOMAIN c = Fields /\ c.state = "handshaking" /\ c.cause = conn[e].cause /\ c.hsSeq = conn[e].hsSeq
      /\ c.next = conn[e].next /\ c.transcript = conn[e].transcript /\ c.flight = conn[e].flight
      /\ c.timer = conn[e].timer /\ c.count = conn[e].count /\ c.reassembly = conn[e].reassembly
      /\ c.cookie = conn[e].cookie /\ c.certRequested = conn[e].certRequested
      /\ c.remoteCert = conn[e].remoteCert /\ c.keys = conn[e].keys /\ c.encrypted = conn[e].encrypted
      /\ c.done = conn[e].done /\ c.heardData = conn[e].heardData /\ c.out = conn[e].out
  <2>1. DOMAIN conn[e] = Fields
    BY <1>2 DEF Sound
  <2> QED BY <2>1, FieldsAre
<1> HIDE DEF c
<1>4. /\ c.next = 0 /\ c.transcript = <<>> /\ c.flight = {} /\ c.hsSeq = 0 /\ ~c.cookie
      /\ ~c.certRequested /\ ~c.remoteCert /\ c.keys = NoKeys /\ ~c.encrypted /\ c.out = {} /\ c.done = FALSE
  BY <1>1, <1>2, <1>3 DEF Sound, Row
<1>5. Underway(e, c, pd) /\ ~c.timer
  <2>1. conn[e].done = FALSE /\ ~conn[e].timer
    BY <1>1, <1>2 DEF Sound
  <2>2. conn[e].cause = "none"
    BY <1>1, <1>2 DEF Sound
  <2> QED BY <1>2, <1>3, <2>1, <2>2 DEF Underway, Sound
<1>6. CASE e = Client
  <2>1. SentHello(c, d)
    BY <1>3, <1>6, SendClientHelloEffect
  <2> HIDE DEF d
  <2>2. Msg("ClientHello", c.hsSeq, <<>>) = FirstHello
    BY <1>4 DEF FirstHello
  <2>3. /\ Undisturbed(c, d) /\ d.encrypted = c.encrypted /\ d.hsSeq = 1 /\ d.transcript = <<>>
        /\ d.flight = {FirstHello} /\ d.timer = TRUE
        /\ \A r \in d.out : r.msg = FirstHello /\ r.keys = NoKeys
    BY <1>4, <2>1, <2>2 DEF SentHello, KeysOf
  <2>4. Underway(Client, d, pd)
    BY <1>5, <1>6, <2>1, UnderwayHello
  <2>5. ClientStage(d)
    <3>1. /\ d.next = 0 /\ ~d.cookie /\ ~d.certRequested /\ ~d.remoteCert /\ d.keys = NoKeys /\ ~d.encrypted
      BY <1>4, <2>3 DEF Undisturbed
    <3> QED BY <1>2, <2>3, <3>1, Numbers DEF ClientStage, Row
  <2>6. Sound(Client, d, pd)
    BY <2>3, <2>4, <2>5, UnderwaySound DEF Stage, Underway
  <2>7. Allowed(Client, d)
    <3>1. FirstHello \in Says(Client) /\ FirstHello # Data
      BY Messages DEF Says
    <3> QED BY <2>3, <3>1, PeerProperties DEF Allowed, Genuine
  <2>8. Handled(e, conn[e], d, pd)
    <3>1. ~conn[e].done
      BY <1>1, <1>2 DEF Sound
    <3> QED BY <1>6, <2>6, <2>7, <3>1 DEF Handled
  <2> QED BY <1>1, <2>8, PutKeeps DEF pd
<1>7. CASE e = Server
  <2>1. d = c
    BY <1>7, PeerProperties
  <2>2. ServerStage(c)
    BY <1>2, <1>4, Numbers DEF ServerStage, Row
  <2>3. Sound(Server, c, pd)
    BY <1>3, <1>4, <1>5, <1>7, <2>2, PeerProperties, UnderwaySound DEF Stage
  <2>4. Handled(e, conn[e], c, pd)
    BY <1>3, <1>4, <1>7, <2>3 DEF Handled, Allowed
  <2> QED BY <1>1, <2>1, <2>4, PutKeeps DEF pd
<1> QED BY <1>6, <1>7 DEF End

LEMMA ReceiveKeeps ==
    ASSUME InductiveInv, NEW e \in End, NEW kept \in BOOLEAN, Receive(e, kept)
    PROVE  InductiveInv'
<1>1. faults' \in 0 .. MaxFaults
  BY HandshakeAssumption DEF Receive, InductiveInv
<1>2. PICK r \in net : /\ r.to = e
                       /\ Put(e, HandlePacket(e, conn[e], r), IF kept THEN net ELSE net \ {r})
  BY DEF Receive
<1>3. Sound(e, conn[e], conn[Peer(e)].done) /\ Allowed(e, conn[e])
  BY DEF InductiveInv, Allowed
<1>4. Genuine(Peer(e), r, conn[Peer(e)].done)
  BY <1>2 DEF InductiveInv
<1>5. Handled(e, conn[e], HandlePacket(e, conn[e], r), conn[Peer(e)].done)
  BY <1>3, <1>4, PacketHandled DEF InductiveInv
<1> QED BY <1>1, <1>2, <1>5, PutKeeps

LEMMA RetransmitKeeps ==
    ASSUME InductiveInv, NEW e \in End, Retransmit(e)
    PROVE  InductiveInv'
<1> DEFINE c == conn[e]
           fired == ClearRetransmit(c)
           pd == conn[Peer(e)].done
           d == RetransmitAfter(c)
<1>1. c.timer /\ Put(e, d, net) /\ faults' \in 0 .. MaxFaults
  BY HandshakeAssumption DEF Retransmit, InductiveInv
<1>2. Sound(e, c, pd) /\ c.out = {} /\ style \in ServerStyles
  BY DEF InductiveInv
<1> HIDE DEF c, pd
<1>3. c.state = "handshaking" /\ c.flight # {}
  BY <1>1, <1>2 DEF Sound
<1>4. Underway(e, c, pd) /\ Stage(e, c)
  BY <1>2, <1>3, UnderwaySound
<1>5. /\ DOMAIN fired = Fields /\ fired.state = c.state /\ fired.cause = c.cause /\ fired.hsSeq = c.hsSeq
      /\ fired.next = c.next /\ fired.transcript = c.transcript /\ fired.flight = c.flight
      /\ fired.timer = FALSE /\ fired.count = c.count /\ fired.reassembly = c.reassembly
      /\ fired.cookie = c.cookie /\ fired.certRequested = c.certRequested
      /\ fired.remoteCert = c.remoteCert /\ fired.keys = c.keys /\ fired.encrypted = c.encrypted
      /\ fired.done = c.done /\ fired.heardData = c.heardData /\ fired.out = c.out
  BY <1>4, FieldsAre DEF ClearRetransmit, Underway
<1>6. d = IF c.count >= MaxRetransmits THEN Fail(fired, "timeout")
          ELSE ArmRetransmit(FlushFlight([fired EXCEPT !.count = @ + 1]))
  BY <1>3, <1>4 DEF RetransmitAfter, Underway
<1> HIDE DEF fired, d
<1>7. Underway(e, fired, pd)
  BY <1>4, <1>5 DEF Underway
<1>8. CASE c.count >= MaxRetransmits
  <2>1. c.count = MaxRetransmits
    BY <1>4, <1>8, HandshakeAssumption DEF Underway
  <2>2. ~Over(fired)
    BY <1>3, <1>5 DEF Over
  <2>3. Failed(fired, "timeout", d)
    BY <1>5, <1>6, <1>8, <2>2, FailEffect
  <2>4. Sound(e, d, pd) /\ Allowed(e, d)
    BY <1>2, <1>5, <1>7, <2>1, <2>3, FailSound DEF Allowed
  <2>5. Handled(e, c, d, pd)
    BY <1>4, <2>4 DEF Handled, Underway
  <2> QED BY <1>1, <2>5, PutKeeps DEF c, pd
<1>9. CASE ~(c.count >= MaxRetransmits)
  <2>1. d = ArmRetransmit(FlushFlight([fired EXCEPT !.count = @ + 1]))
    BY <1>6, <1>9
  <2>2. /\ Undisturbed(fired, d) /\ d.encrypted = fired.encrypted /\ d.hsSeq = fired.hsSeq
        /\ d.transcript = fired.transcript /\ d.flight = fired.flight /\ d.timer = TRUE
        /\ d.count = fired.count + 1
        /\ \A r \in d.out : r \in fired.out \/ (r.msg \in fired.flight /\ r.keys = KeysOf(fired))
    BY <1>5, <2>1, FieldsAre DEF ArmRetransmit, FlushFlight, Undisturbed, KeysOf
  <2>3. Underway(e, d, pd)
    <3>1. d.hsSeq \in Nat
      BY <1>7, <2>2 DEF Underway
    <3>2. d.count \in 0 .. MaxRetransmits
      BY <1>5, <1>7, <1>9, <2>2, HandshakeAssumption DEF Underway
    <3>3. d.timer \in BOOLEAN
      BY <2>2
    <3>4. d.encrypted \in BOOLEAN /\ (d.encrypted => d.keys = Keys)
      BY <1>7, <2>2 DEF Underway, Undisturbed
    <3> QED BY <1>7, <2>2, <3>1, <3>2, <3>3, <3>4, UnderwayKept
  <2>4. Stage(e, d)
    <3>1. /\ d.next = c.next /\ d.transcript = c.transcript /\ d.flight = c.flight /\ d.hsSeq = c.hsSeq
          /\ d.cookie = c.cookie /\ d.certRequested = c.certRequested /\ d.remoteCert = c.remoteCert
          /\ d.keys = c.keys /\ d.encrypted = c.encrypted
      BY <1>5, <2>2 DEF Undisturbed
    <3> QED BY <1>4, <3>1 DEF Stage, ClientStage, ServerStage, Row
  <2>5. Sound(e, d, pd)
    BY <1>3, <1>5, <2>2, <2>3, <2>4, UnderwaySound DEF Underway
  <2>6. Allowed(e, d)
    <3>1. c.flight \subseteq Says(e) /\ \A m \in c.flight : m # Data /\ m # ServerFinished
      <4>1. CASE e = Client
        <5>1. c.flight \subseteq {FirstHello, Hello} \cup ClientFlight
          BY <1>4, <4>1 DEF Stage, ClientStage, Row
        <5>2. \A m \in {FirstHello, Hello} \cup ClientFlight : m.type \notin {"Data", "Finished"}
          BY Messages DEF ClientFlight
        <5>3. {FirstHello, Hello} \cup ClientFlight \subseteq Says(e)
          BY <4>1 DEF Says
        <5> QED BY <5>1, <5>2, <5>3, Messages
      <4>2. CASE e = Server
        <5>1. c.flight \subseteq ServerFlight
          BY <1>4, <4>2, PeerProperties DEF Stage, ServerStage, Row
        <5>2. \A m \in ServerFlight : m.type \notin {"Data", "Finished"}
          BY Messages DEF ServerFlight
        <5>3. ServerFlight \subseteq Says(e)
          BY <4>2, PeerProperties DEF Says
        <5> QED BY <5>1, <5>2, <5>3, Messages
      <4> QED BY <4>1, <4>2 DEF End
    <3>2. KeysOf(fired) \in {NoKeys, Keys}
      BY <1>7 DEF Underway, KeysOf
    <3> QED BY <1>2, <1>5, <2>2, <3>1, <3>2 DEF Allowed, Genuine
  <2>7. Handled(e, c, d, pd)
    BY <1>4, <2>5, <2>6 DEF Handled, Underway
  <2> QED BY <1>1, <2>7, PutKeeps DEF c, pd
<1> QED BY <1>8, <1>9

LEMMA SendKeeps ==
    ASSUME InductiveInv, NEW e \in End, Send(e)
    PROVE  InductiveInv'
<1> DEFINE c == conn[e]
           d == SendRecord([c EXCEPT !.sentData = @ + 1], Data)
           pd == conn[Peer(e)].done
<1>1. c.state = "connected" /\ Put(e, d, net) /\ faults' \in 0 .. MaxFaults
  BY DEF Send, InductiveInv
<1>2. Sound(e, c, pd) /\ c.out = {}
  BY DEF InductiveInv
<1> HIDE DEF c, pd
<1>3. /\ DOMAIN d = Fields /\ d.reassembly = c.reassembly
      /\ d.state = c.state /\ d.cause = c.cause /\ d.hsSeq = c.hsSeq /\ d.next = c.next
      /\ d.transcript = c.transcript /\ d.flight = c.flight /\ d.timer = c.timer
      /\ d.count = c.count /\ d.remoteCert = c.remoteCert /\ d.keys = c.keys /\ d.encrypted = c.encrypted
      /\ d.done = c.done /\ d.agreed = c.agreed /\ d.heardData = c.heardData
      /\ \A r \in d.out : r \in c.out \/ (r.msg = Data /\ r.keys \in {NoKeys, c.keys})
  <2>1. DOMAIN c = Fields
    BY <1>2 DEF Sound
  <2> QED BY <2>1, FieldsAre DEF SendRecord
<1> HIDE DEF d
<1>4. Sound(e, d, pd)
  BY <1>1, <1>2, <1>3 DEF Sound
<1>5. c.done /\ c.keys \in {NoKeys, Keys}
  BY <1>1, <1>2 DEF Sound
<1>6. Allowed(e, d)
  BY <1>2, <1>3, <1>5 DEF Allowed, Genuine
<1>7. Handled(e, c, d, pd)
  BY <1>3, <1>4, <1>6 DEF Handled
<1> QED BY <1>1, <1>7, PutKeeps DEF c, pd

LEMMA CloseKeeps ==
    ASSUME InductiveInv, NEW e \in End, Close(e)
    PROVE  InductiveInv'
<1> DEFINE d == CloseConnection(conn[e])
<1>1. ~Over(conn[e]) /\ Put(e, d, net) /\ faults' \in 0 .. MaxFaults
  BY DEF Close, InductiveInv
<1>2. Sound(e, conn[e], conn[Peer(e)].done) /\ Allowed(e, conn[e])
  BY DEF InductiveInv, Allowed
<1>3. ClosedNow(conn[e], d)
  <2>1. DOMAIN conn[e] = Fields
    BY <1>2 DEF Sound
  <2> QED BY <1>1, <2>1, CloseEffect
<1> HIDE DEF d
<1>4. Handled(e, conn[e], d, conn[Peer(e)].done)
  <2>1. Sound(e, d, conn[Peer(e)].done) /\ Allowed(e, d) /\ d.done = conn[e].done
    BY <1>1, <1>2, <1>3, CloseSound
  <2> QED BY <2>1 DEF Handled
<1> QED BY <1>1, <1>4, PutKeeps

LEMMA QuietKeeps ==
    ASSUME InductiveInv, UNCHANGED <<conn, style, trusted>>, net' \subseteq net, faults' \in 0 .. MaxFaults
    PROVE  InductiveInv'
<1>1. ASSUME NEW e \in End PROVE Sound(e, conn[e], conn[Peer(e)].done)' /\ (conn[e].out = {})'
  <2>1. Sound(e, conn'[e], conn'[Peer(e)].done) /\ conn'[e].out = {}
    BY DEF InductiveInv
  <2> QED BY <2>1, SameSound
<1>2. ASSUME NEW r \in net' PROVE r.to \in End /\ Genuine(Peer(r.to), r, conn[Peer(r.to)].done)'
  <2>1. r.to \in End /\ Genuine(Peer(r.to), r, conn[Peer(r.to)].done)
    BY DEF InductiveInv
  <2>2. Genuine(Peer(r.to), r, conn'[Peer(r.to)].done) /\ Peer(r.to) \in End
    BY <2>1, PeerProperties
  <2> QED BY <2>1, <2>2, SameGenuine
<1> QED BY <1>1, <1>2 DEF InductiveInv

LEMMA LoseKeeps == InductiveInv /\ Lose => InductiveInv'
<1> SUFFICES ASSUME InductiveInv, Lose PROVE InductiveInv'
  OBVIOUS
<1>1. faults' \in 0 .. MaxFaults
  BY HandshakeAssumption DEF Lose, InductiveInv
<1>2. net' \subseteq net /\ UNCHANGED <<conn, style, trusted>>
  BY DEF Lose
<1> QED BY <1>1, <1>2, QuietKeeps

LEMMA Inductive == InductiveInv /\ [Next]_vars => InductiveInv'
<1> SUFFICES ASSUME InductiveInv, [Next]_vars PROVE InductiveInv'
  OBVIOUS
<1>1. CASE UNCHANGED vars
  <2>1. faults' \in 0 .. MaxFaults /\ net' \subseteq net /\ UNCHANGED <<conn, style, trusted>>
    BY <1>1 DEF vars, InductiveInv
  <2> QED BY <2>1, QuietKeeps
<1>2. ASSUME NEW e \in End, Start(e) PROVE InductiveInv'
  BY <1>2, StartKeeps
<1>3. ASSUME NEW e \in End, Retransmit(e) PROVE InductiveInv'
  BY <1>3, RetransmitKeeps
<1>4. ASSUME NEW e \in End, Send(e) PROVE InductiveInv'
  BY <1>4, SendKeeps
<1>5. ASSUME NEW e \in End, Close(e) PROVE InductiveInv'
  BY <1>5, CloseKeeps
<1>6. ASSUME NEW e \in End, NEW kept \in BOOLEAN, Receive(e, kept) PROVE InductiveInv'
  BY <1>6, ReceiveKeeps
<1> QED BY <1>1, <1>2, <1>3, <1>4, <1>5, <1>6, LoseKeeps DEF Next
-----------------------------------------------------------------------------
(* The theorems.                                                           *)

LEMMA FlightTypes ==
    ASSUME style \in ServerStyles, NEW e \in End, NEW c, NEW pd, Sound(e, c, pd)
    PROVE  c.flight \subseteq Says(e)
<1>1. CASE c.state # "handshaking"
  BY <1>1 DEF Sound
<1>2. CASE c.state = "handshaking"
  <2>1. Stage(e, c)
    BY <1>2, UnderwaySound
  <2>2. CASE e = Client
    BY <2>1, <2>2 DEF Stage, ClientStage, Row, Says
  <2>3. CASE e = Server
    BY <2>1, <2>3, PeerProperties DEF Stage, ServerStage, Row, Says
  <2> QED BY <2>2, <2>3 DEF End
<1> QED BY <1>1, <1>2

LEMMA TypesFollow == InductiveInv => TypeOK
<1> SUFFICES ASSUME InductiveInv PROVE TypeOK
  OBVIOUS
<1>1. style \in ServerStyles /\ faults \in 0 .. MaxFaults
  BY DEF InductiveInv
<1>2. ASSUME NEW e \in End, NEW c, c = conn[e]
      PROVE  /\ c.state \in State /\ c.cause \in Cause
             /\ c.hsSeq \in Nat /\ c.next \in Nat /\ c.count \in 0 .. MaxRetransmits
             /\ \A m \in c.reassembly \cup c.flight : m.type \in MessageType /\ m.seq \in Nat
             /\ c.encrypted => c.keys # NoKeys
             /\ Over(c) \/ c.done => c.transcript = <<>> /\ c.flight = {}
             /\ Over(c) => c.reassembly = {}
             /\ c.done => \A m \in c.reassembly : m.seq < c.next
             /\ c.cause # "none" => c.state = "failed"
             /\ c.out = {}
  <2>1. Sound(e, c, conn[Peer(e)].done) /\ c.out = {}
    BY <1>2 DEF InductiveInv
  <2>2. c.reassembly \subseteq Says(Peer(e)) /\ c.flight \subseteq Says(e)
    BY <1>1, <2>1, FlightTypes DEF Sound
  <2>3. \A m \in c.reassembly \cup c.flight : m.type \in MessageType /\ m.seq \in Nat
    BY <1>1, <2>2, SaidTypes, PeerProperties
  <2>4. c.encrypted => c.keys # NoKeys
    BY <1>1, <2>1, Logs DEF Sound
  <2>5. Over(c) \/ c.done => c.state # "handshaking"
    BY <2>1 DEF Sound, Over
  <2>6. /\ c.state # "handshaking" => c.transcript = <<>> /\ c.flight = {}
        /\ Over(c) => c.reassembly = {}
    BY <2>1 DEF Sound, Over
  <2>7. c.state \in State /\ c.cause \in Cause /\ c.hsSeq \in Nat /\ c.next \in Nat
        /\ c.count \in 0 .. MaxRetransmits /\ (c.cause # "none" => c.state = "failed")
    BY <2>1 DEF Sound
  <2>8. ASSUME c.done, NEW m \in c.reassembly PROVE m.seq < c.next
    <3>1. c.state = "connected"
      BY <2>1, <2>8 DEF Sound, State
    <3>2. c.next > (IF e = Client THEN ServerLast ELSE ClientLast)
      BY <2>1, <3>1 DEF Sound
    <3>3. e = Client => m.seq <= ServerLast
      BY <1>1, <2>2, <2>8, PeerProperties, ServerSays, Numbers
    <3>4. e = Server => m.seq <= ClientLast
      BY <1>1, <2>2, <2>8, PeerProperties, ClientSays, Numbers
    <3>5. m.seq \in Nat
      BY <2>3, <2>8
    <3> QED BY <1>1, <2>7, <3>2, <3>3, <3>4, <3>5, Numbers DEF End
  <2> QED BY <2>1, <2>3, <2>4, <2>5, <2>6, <2>7, <2>8
<1>3. ASSUME NEW r \in net PROVE r.to \in End /\ r.msg.type \in MessageType \cup {"CloseNotify", "Data"}
  <2>1. r.to \in End /\ r.msg \in Says(Peer(r.to)) \cup {CloseNotify, Data}
    BY <1>3 DEF InductiveInv, Genuine
  <2> QED BY <1>1, <2>1, SaidTypes, PeerProperties, Messages
<1> QED BY <1>1, <1>2, <1>3 DEF TypeOK

LEMMA AgreementFollows == InductiveInv => Agreement
<1> SUFFICES ASSUME InductiveInv PROVE Agreement
  OBVIOUS
<1>1. /\ Sound(Client, conn[Client], conn[Server].done)
      /\ Sound(Server, conn[Server], conn[Client].done)
  BY PeerProperties DEF InductiveInv
<1>2. ASSUME conn[Client].done
      PROVE  /\ conn[Server].done
             /\ conn[Client].agreed = conn[Server].agreed
             /\ conn[Client].keys = conn[Server].keys
             /\ conn[Client].remoteCert /\ trusted[Client]
  <2>1. conn[Server].done
    BY <1>1, <1>2 DEF Sound
  <2> QED BY <1>1, <1>2, <2>1 DEF Sound
<1>3. conn[Server].done /\ style.asksCertificate => conn[Server].remoteCert /\ trusted[Server]
  BY <1>1 DEF Sound, Asks
<1>4. ASSUME NEW e \in End, conn[e].heardData PROVE conn[Peer(e)].done
  BY <1>4 DEF InductiveInv, Sound
<1> QED BY <1>2, <1>3, <1>4 DEF Agreement

LEMMA CauseFollows == InductiveInv => FailsForCause
BY DEF InductiveInv, Sound, FailsForCause

LEMMA TimerFollows == InductiveInv => TimerArmed
BY DEF InductiveInv, Sound, TimerArmed

\* What holds of the connections and the datagrams at every step, for every kind of
\* server and any number of faults, retransmissions and records.
THEOREM Invariance == Spec => []InductiveInv
BY InitKeeps, Inductive, PTL DEF Spec

\* Types, and what goes with each state of a connection.
THEOREM Typed == Spec => []TypeOK
BY Invariance, TypesFollow, PTL

\* A client that has completed the handshake has a server that has, with the same
\* transcript and keys, each with the certificate it asked for accepted; and no end
\* hands up data of a peer that has not completed it.
THEOREM EndsAgree == Spec => []Agreement
BY Invariance, AgreementFollows, PTL

\* Whatever the network does, a handshake fails only for a certificate that is not
\* trusted or because the last retransmission has timed out: no handler throws.
THEOREM OnlyForCause == Spec => []FailsForCause
BY Invariance, CauseFollows, PTL

\* The retransmission timer is set exactly while a flight is out.
THEOREM TimedExactly == Spec => []TimerArmed
BY Invariance, TimerFollows, PTL
=============================================================================
