---------------------------- MODULE DtlsHandshake ----------------------------
(***************************************************************************)
(* The DTLS 1.2 handshake of dtls/connection.ts between a client and a     *)
(* server, over a network that delays, reorders, duplicates and loses      *)
(* datagrams.  The client is always this code's; the server is this code's *)
(* too, or an external one that skips the cookie exchange (a browser) or   *)
(* does not ask for a certificate (a TURN server).                         *)
(*                                                                         *)
(* Every handshake message is one datagram and one fragment: no body made  *)
(* here reaches the 1200 bytes of MAX_FRAGMENT.  Signatures, MACs and keys *)
(* are the transcripts they are computed over.  A ChangeCipherSpec record  *)
(* has no effect on its receiver and is left out.  Operators introduced by *)
(* "Planted bug" are not part of the model.                                *)
(***************************************************************************)
EXTENDS Naturals, Sequences

CONSTANTS
    Client, Server,     \* the two ends
    ServerStyles,       \* kinds of servers, see ServerStyle
    MaxRetransmits,     \* MAX_RETRANSMITS
    MaxFaults,          \* bound: datagrams lost or duplicated, timers that fire early
    MaxData,            \* bound: application records an end sends
    MayClose            \* the ends that are closed by their owner

End == {Client, Server}
Peer(e) == IF e = Client THEN Server ELSE Client

\* The server of this code does both.
ServerStyle == [cookies : BOOLEAN, asksCertificate : BOOLEAN]

ASSUME HandshakeAssumption ==
    /\ Client # Server
    /\ ServerStyles \subseteq ServerStyle
    /\ MaxRetransmits \in Nat \ {0}
    /\ MaxFaults \in Nat
    /\ MaxData \in Nat
    /\ MayClose \subseteq End

VARIABLES
    conn,               \* the connection object of each end, see Connection
    net,                \* the datagrams on their way
    style,              \* the kind of server
    trusted,            \* whether an end's verifyFingerprint accepts the peer's
    faults,             \* how many such faults there have been
    lost,               \* history: whether one has been lost
    spoiled             \* history: a message is gone that nobody sends again

vars == <<conn, net, style, trusted, faults, lost, spoiled>>

State == {"new", "handshaking", "connected", "closed", "failed"}
Cause == {"none", "timeout", "fingerprint", "verify", "decrypt"}
MessageType == {"ClientHello", "HelloVerifyRequest", "CookieHello", "ServerHello",
                "Certificate", "ServerKeyExchange", "CertificateRequest", "ServerHelloDone",
                "ClientKeyExchange", "CertificateVerify", "Finished"}

\* A handshake message with its message_seq; "over" is the transcript that a
\* signature or a MAC in it was computed over.  A ClientHello that carries the
\* cookie is a "CookieHello".
Msg(type, seq, over) == [type |-> type, seq |-> seq, over |-> over]
FirstHello == Msg("ClientHello", 0, <<>>)

NoKeys == <<>>

\* Planted bug: the flight and the messages in wait are kept.
ReleasedTranscript(c) == [c EXCEPT !.transcript = <<>>]

\* #releaseHandshakeState.
Released(c) == [c EXCEPT !.transcript = <<>>, !.flight = {}, !.reassembly = {}]

NewConnection ==
    [state |-> "new", cause |-> "none", hsSeq |-> 0, next |-> 0, reassembly |-> {},
     transcript |-> <<>>, flight |-> {}, timer |-> FALSE, count |-> 0, cookie |-> FALSE,
     certRequested |-> FALSE, remoteCert |-> FALSE, keys |-> NoKeys, encrypted |-> FALSE,
     done |-> FALSE, agreed |-> <<>>, heardData |-> FALSE, sentData |-> 0, out |-> {}]

Init ==
    /\ conn = [e \in End |-> NewConnection]
    /\ net = {}
    /\ style \in ServerStyles
    /\ trusted \in [End -> BOOLEAN]
    /\ faults = 0
    /\ lost = FALSE
    /\ spoiled = FALSE
-----------------------------------------------------------------------------
(* Sending.  A connection gathers in "out" what a handler sends.           *)

\* #sendRecord: from the ChangeCipherSpec on, under this end's keys.
SendRecord(c, m) ==
    [c EXCEPT !.out = @ \cup {[msg |-> m, keys |-> IF c.encrypted THEN c.keys ELSE NoKeys]}]

FlushFlight(c) ==
    [c EXCEPT !.out = @ \cup {[msg |-> m, keys |-> IF c.encrypted THEN c.keys ELSE NoKeys] :
                                m \in c.flight}]

ArmRetransmit(c) == [c EXCEPT !.timer = TRUE]
ClearRetransmit(c) == [c EXCEPT !.timer = FALSE]

\* Planted bug: the flight goes out without the timer.
SendFlightOnce(c, msgs) ==
    FlushFlight([c EXCEPT !.hsSeq = @ + Len(msgs), !.transcript = @ \o msgs,
                          !.flight = {msgs[i] : i \in DOMAIN msgs}, !.count = 0])

SendFlight(c, msgs) ==
    ArmRetransmit(FlushFlight(
        [c EXCEPT !.hsSeq = @ + Len(msgs), !.transcript = @ \o msgs,
                  !.flight = {msgs[i] : i \in DOMAIN msgs}, !.count = 0]))

SendChangeCipherSpec(c) == [c EXCEPT !.encrypted = TRUE]

SendFinished(c) ==
    LET m == Msg("Finished", c.hsSeq, c.transcript) IN
    SendRecord([c EXCEPT !.hsSeq = @ + 1, !.transcript = Append(@, m)], m)

\* The first ClientHello is kept out of the transcript, and leaves the count alone.
SendClientHello(c) ==
    LET m == Msg(IF c.cookie THEN "CookieHello" ELSE "ClientHello", c.hsSeq, <<>>) IN
    ArmRetransmit(FlushFlight(
        [c EXCEPT !.hsSeq = @ + 1,
                  !.transcript = IF c.cookie THEN Append(@, m) ELSE @,
                  !.flight = {m},
                  !.count = IF c.cookie THEN 0 ELSE @]))
-----------------------------------------------------------------------------
(* The ends of a connection.                                               *)

Over(c) == c.state \in {"closed", "failed"}

\* An exception in a handler, or the last timeout: nothing is sent to the peer.
Fail(c, cause) ==
    IF Over(c) THEN c
    ELSE Released(ClearRetransmit([c EXCEPT !.state = "failed", !.cause = cause]))

CloseNotify == Msg("CloseNotify", 0, <<>>)
Data == Msg("Data", 0, <<>>)

\* Planted bug: the peer is not told.
CloseSilently(c) ==
    IF Over(c) THEN c ELSE Released(ClearRetransmit([c EXCEPT !.state = "closed"]))

CloseConnection(c) ==
    IF Over(c) THEN c
    ELSE LET said == IF c.encrypted THEN SendRecord(c, CloseNotify) ELSE c IN
         Released(ClearRetransmit([said EXCEPT !.state = "closed"]))

OnHandshakeComplete(c) ==
    IF c.done THEN c
    ELSE Released(ClearRetransmit([c EXCEPT !.done = TRUE, !.state = "connected",
                                               !.agreed = c.transcript]))
-----------------------------------------------------------------------------
(* Handling one handshake message, in order.                               *)

AppendInbound(c, m) == [c EXCEPT !.transcript = Append(@, m)]

\* Planted bug: the verdict on the fingerprint is not used.
ParseAnyCertificate(c, m, accepted) ==
    IF accepted \in BOOLEAN THEN [AppendInbound(c, m) EXCEPT !.remoteCert = TRUE] ELSE c

\* #parseCertificate, which compares the fingerprint with the one in the SDP.
ParseCertificate(c, m, accepted) ==
    IF accepted THEN [AppendInbound(c, m) EXCEPT !.remoteCert = TRUE]
    ELSE Fail(AppendInbound(c, m), "fingerprint")

\* With the extended master secret the keys are a hash of the transcript through
\* the ClientKeyExchange, which the client computes before it sends the flight.
SendClientSecondFlight(c) ==
    LET cert == Msg("Certificate", c.hsSeq, <<>>)
        cke == Msg("ClientKeyExchange", IF c.certRequested THEN c.hsSeq + 1 ELSE c.hsSeq, <<>>)
        through == c.transcript \o (IF c.certRequested THEN <<cert, cke>> ELSE <<cke>>)
        verify == Msg("CertificateVerify", c.hsSeq + 2, through)
    IN SendFinished(SendChangeCipherSpec(SendFlight(
          [c EXCEPT !.keys = through],
          IF c.certRequested THEN <<cert, cke, verify>> ELSE <<cke>>)))

\* Planted bug: the ClientHello that a server answers at once is not recorded.
HelloUnrecorded(c) == IF c.cookie THEN c ELSE [c EXCEPT !.transcript = <<>>]

\* A server that skips HelloVerifyRequest has the first ClientHello in its transcript.
RecordFirstHello(c) ==
    IF ~c.cookie /\ c.transcript = <<>> THEN [c EXCEPT !.transcript = <<FirstHello>>] ELSE c

VerifyPeerFinished(c, m) == m.over = c.transcript

ClientHandle(c, m, accepted) ==
    CASE m.type = "HelloVerifyRequest" -> SendClientHello(ClearRetransmit([c EXCEPT !.cookie = TRUE]))
      [] m.type = "ServerHello" -> AppendInbound(RecordFirstHello(c), m)
      [] m.type = "Certificate" -> ParseCertificate(c, m, accepted)
      [] m.type = "ServerKeyExchange" ->
           IF c.remoteCert THEN AppendInbound(c, m) ELSE Fail(AppendInbound(c, m), "verify")
      [] m.type = "CertificateRequest" -> AppendInbound([c EXCEPT !.certRequested = TRUE], m)
      [] m.type = "ServerHelloDone" -> SendClientSecondFlight(ClearRetransmit(AppendInbound(c, m)))
      [] m.type = "Finished" ->
           IF VerifyPeerFinished(c, m) THEN OnHandshakeComplete(AppendInbound(c, m))
           ELSE Fail(c, "verify")
      [] OTHER -> c

\* The answer without a cookie forgets everything but the message it expects next.
SendHelloVerifyRequest(c) ==
    [SendRecord(c, Msg("HelloVerifyRequest", 0, <<>>)) EXCEPT
        !.hsSeq = 1, !.next = 1, !.reassembly = {}]

SendServerFlight(c, asks) ==
    LET types == <<"ServerHello", "Certificate", "ServerKeyExchange">>
                   \o (IF asks THEN <<"CertificateRequest">> ELSE <<>>) \o <<"ServerHelloDone">>
    IN SendFlight(c, [i \in DOMAIN types |-> Msg(types[i], c.hsSeq + i - 1, <<>>)])

\* The branch of a wrong cookie is not taken: the client sends back the one it got.
HandleClientHello(c, m) ==
    IF m.type = "ClientHello" /\ style.cookies THEN SendHelloVerifyRequest(c)
    ELSE SendServerFlight(AppendInbound(c, m), style.asksCertificate)

DeriveFromExchange(c, m) ==
    LET heard == AppendInbound(c, m) IN [heard EXCEPT !.keys = heard.transcript]

VerifyClientCertificateVerify(c, m) ==
    IF m.over = c.transcript /\ c.remoteCert THEN AppendInbound(c, m) ELSE Fail(c, "verify")

ServerHandle(c, m, accepted) ==
    CASE m.type \in {"ClientHello", "CookieHello"} -> HandleClientHello(c, m)
      [] m.type = "Certificate" -> ParseCertificate(c, m, accepted)
      [] m.type = "ClientKeyExchange" -> DeriveFromExchange(c, m)
      [] m.type = "CertificateVerify" -> VerifyClientCertificateVerify(c, m)
      [] m.type = "Finished" ->
           IF VerifyPeerFinished(c, m)
           THEN OnHandshakeComplete(SendFinished(SendChangeCipherSpec(AppendInbound(c, m))))
           ELSE Fail(c, "verify")
      [] OTHER -> c

DispatchHandshake(e, c, m) ==
    IF e = Client THEN ClientHandle(c, m, trusted[e]) ELSE ServerHandle(c, m, trusted[e])

\* The loop of #handleHandshakeFragment: everything that is now in sequence.
DispatchOne(e, c) ==
    LET m == CHOOSE x \in c.reassembly : x.seq = c.next IN
    DispatchHandshake(e, [c EXCEPT !.reassembly = @ \ {m}, !.next = @ + 1], m)

DispatchNext(e, c) ==
    IF \E x \in c.reassembly : x.seq = c.next THEN DispatchOne(e, c) ELSE c

\* A message of the past is kept too, and never looked at.  A message and those
\* that can be waiting for it are six at most.
HandleHandshakeFragment(e, c, m) ==
    LET heard == IF \E x \in c.reassembly : x.seq = m.seq THEN c
                 ELSE [c EXCEPT !.reassembly = @ \cup {m}]
        Two(S) == {DispatchNext(e, d) : d \in {DispatchNext(e, d) : d \in S}}
    IN CHOOSE d \in Two(Two(Two({heard}))) : TRUE

Unreadable(c, r) == r.keys # NoKeys /\ c.keys = NoKeys

HandleRecord(e, c, r) ==
    IF Unreadable(c, r) THEN c
    ELSE IF r.keys \notin {NoKeys, c.keys} THEN Fail(c, "decrypt")
    ELSE CASE r.msg.type = "Data" -> [c EXCEPT !.heardData = @ \/ c.state = "connected"]
           [] r.msg.type = "CloseNotify" -> CloseConnection(c)
           [] OTHER -> HandleHandshakeFragment(e, c, r.msg)
-----------------------------------------------------------------------------
(* The steps.  Put(e, c, rest) makes c the connection of e; what it sends  *)
(* joins the datagrams of rest.                                            *)

Put(e, c, rest) ==
    /\ conn' = [conn EXCEPT ![e] = [c EXCEPT !.out = {}]]
    /\ net' = rest \cup {[to |-> Peer(e), msg |-> r.msg, keys |-> r.keys] : r \in c.out}
    /\ UNCHANGED <<style, trusted>>

Start(e) ==
    /\ conn[e].state = "new"
    /\ LET c == [conn[e] EXCEPT !.state = "handshaking"] IN
       Put(e, IF e = Client THEN SendClientHello(c) ELSE c, net)
    /\ UNCHANGED <<faults, lost, spoiled>>

\* What no timer sends again: the HelloVerifyRequest and the Finished, which are in
\* no flight, and the client's flight before the ChangeCipherSpec, of which a
\* server without keys cannot read the copies sent after it.
Irreplaceable(r) ==
    /\ \/ r.msg.type \in {"HelloVerifyRequest", "Finished"}
       \/ r.to = Server /\ r.keys = NoKeys /\ r.msg.type \in {"Certificate", "ClientKeyExchange"}
    /\ r.msg.seq >= conn[r.to].next
    /\ r.msg \notin conn[r.to].reassembly

\* handlePacket.  Before start() there is no object to hand a datagram to.
HandlePacket(e, c, r) == IF c.state = "new" \/ Over(c) THEN c ELSE HandleRecord(e, c, r)

Receive(e, kept) ==
    /\ kept => faults < MaxFaults
    /\ faults' = IF kept THEN faults + 1 ELSE faults
    /\ \E r \in net :
        /\ r.to = e
        /\ \E c \in {HandlePacket(e, conn[e], r)} : Put(e, c, IF kept THEN net ELSE net \ {r})
        /\ spoiled' = (spoiled \/ (~kept /\ Irreplaceable(r) /\ Unreadable(conn[e], r)))
        /\ UNCHANGED lost

Lose ==
    /\ faults < MaxFaults
    /\ \E r \in net :
        /\ net' = net \ {r}
        /\ spoiled' = (spoiled \/ Irreplaceable(r))
    /\ faults' = faults + 1
    /\ lost' = TRUE
    /\ UNCHANGED <<conn, style, trusted>>

\* Planted bug: the retransmissions are not counted.
RetransmitForever(c) ==
    IF c.state = "handshaking" THEN ArmRetransmit(FlushFlight(c)) ELSE ClearRetransmit(c)

\* Planted bug: the flight is not sent again.
RetransmitNothing(c) ==
    IF c.state = "handshaking" /\ c.count < MaxRetransmits THEN ArmRetransmit([c EXCEPT !.count = @ + 1])
    ELSE Fail(ClearRetransmit(c), "timeout")

\* The timer of #armRetransmit.
RetransmitAfter(c) ==
    LET fired == ClearRetransmit(c) IN
    IF c.done \/ c.state # "handshaking" THEN fired
    ELSE IF c.count >= MaxRetransmits THEN Fail(fired, "timeout")
    ELSE ArmRetransmit(FlushFlight([fired EXCEPT !.count = @ + 1]))

\* Timers are slow compared to the network and to the peer's start: when one fires
\* on time, everything sent has arrived or is lost, and of two timers the one that
\* has backed off less is first.
OnTime(e) ==
    /\ net = {}
    /\ conn[Peer(e)].state # "new"
    /\ conn[Peer(e)].timer => conn[e].count <= conn[Peer(e)].count

Retransmit(e) ==
    /\ conn[e].timer
    /\ OnTime(e) \/ faults < MaxFaults
    /\ faults' = IF OnTime(e) THEN faults ELSE faults + 1
    /\ Put(e, RetransmitAfter(conn[e]), net)
    /\ UNCHANGED <<lost, spoiled>>

Send(e) ==
    /\ conn[e].state = "connected"
    /\ conn[e].sentData < MaxData
    /\ Put(e, SendRecord([conn[e] EXCEPT !.sentData = @ + 1], Data), net)
    /\ UNCHANGED <<faults, lost, spoiled>>

Close(e) ==
    /\ e \in MayClose
    /\ ~Over(conn[e])
    /\ Put(e, CloseConnection(conn[e]), net)
    /\ UNCHANGED <<faults, lost, spoiled>>

Next ==
    \/ \E e \in End : Start(e) \/ Retransmit(e) \/ Send(e) \/ Close(e)
    \/ \E e \in End, kept \in BOOLEAN : Receive(e, kept)
    \/ Lose

Spec == Init /\ [][Next]_vars

\* What Receive(e, FALSE) does, and no other step: a datagram leaves, without a fault.
Arrival == faults' = faults /\ \E r \in net : r \notin net'

\* The event loop starts the connections, runs due timers and reads the socket.
\* The last is the weak fairness of Arrival, which is enabled exactly while there
\* is a datagram, spelled out to spare TLC the search for its successors.
FairSpec ==
    /\ Spec
    /\ WF_vars(\E e \in End : Start(e))
    /\ WF_vars(\E e \in End : Retransmit(e))
    /\ []<>(net = {}) \/ []<><<Arrival>>_vars
-----------------------------------------------------------------------------
(* Properties.                                                             *)

\* Types of what the handlers set, and what goes with each state: there are keys
\* once this end encrypts, and of a handshake that is over no transcript and no
\* flight is kept, and no message that could still be handled.
TypeOK ==
    /\ \A e \in End :
        LET c == conn[e] IN
        /\ c.state \in State /\ c.cause \in Cause
        /\ c.hsSeq \in Nat /\ c.next \in Nat /\ c.count \in 0 .. MaxRetransmits
        /\ \A m \in c.reassembly \cup c.flight : m.type \in MessageType /\ m.seq \in Nat
        /\ c.encrypted => c.keys # NoKeys
        /\ Over(c) \/ c.done => c.transcript = <<>> /\ c.flight = {}
        /\ Over(c) => c.reassembly = {}
        /\ c.done => \A m \in c.reassembly : m.seq < c.next
        /\ c.cause # "none" => c.state = "failed"
        /\ c.out = {}
    /\ \A r \in net : r.to \in End /\ r.msg.type \in MessageType \cup {"CloseNotify", "Data"}
    /\ faults \in 0 .. MaxFaults
    /\ style \in ServerStyles

\* A client that has completed the handshake has a server that has, with the same
\* transcript and keys, and each has accepted the certificate it asked for.  What
\* an end hands up comes from a peer that had completed it.
Agreement ==
    /\ conn[Client].done =>
        /\ conn[Server].done
        /\ conn[Client].agreed = conn[Server].agreed
        /\ conn[Client].keys = conn[Server].keys
        /\ conn[Client].remoteCert /\ trusted[Client]
    /\ conn[Server].done /\ style.asksCertificate => conn[Server].remoteCert /\ trusted[Server]
    /\ \A e \in End : conn[e].heardData => conn[Peer(e)].done

\* No order, repetition or loss of datagrams makes a handler throw: an end fails
\* only because it does not trust its peer's certificate or has waited too long.
FailsForCause ==
    \A e \in End : conn[e].state = "failed" =>
        \/ conn[e].cause = "fingerprint" /\ ~trusted[e]
        \/ conn[e].cause = "timeout" /\ conn[e].count = MaxRetransmits

\* The timer is armed exactly while an end has a flight out that has not been
\* answered: no handler forgets to arm it or leaves it behind.
TimerArmed ==
    \A e \in End : conn[e].timer <=> conn[e].state = "handshaking" /\ conn[e].flight # {}

\* The client's handshake ends, whatever the network and the server do.
HandshakeEnds == conn[Client].state = "handshaking" ~> conn[Client].state # "handshaking"

Willing == trusted[Client] /\ (style.asksCertificate => trusted[Server])

\* Between ends that trust each other both connect, whatever else is lost or comes
\* out of order, unless a message is gone that is never sent again.
Excused == spoiled \/ \E e \in MayClose : conn[e].state = "closed"

Connects == Willing ~> (Excused \/ \A e \in End : conn[e].done)

\* An end that closes after its handshake takes the other one down with it, if
\* nothing is lost.
CloseHeard ==
    (\E e \in End : conn[e].state = "closed" /\ conn[e].done)
      ~> (lost \/ \A e \in End : Over(conn[e]))
=============================================================================
