--------------------------- MODULE SctpSetupProofs ---------------------------
(* The setup of SctpAssociation and what depends on when its packets come,   *)
(* for every value of the constants.                                         *)
EXTENDS SctpDeliveryProofs, WellFoundedInduction

(* The timer and the agreement of the two ends, whatever the network does.   *)

\* The server has been established before the client hears of it.
ServerFirst ==
    InFlight(Client, "COOKIE_ACK") \/ state[Client] = "ESTABLISHED"
      => state[Server] = "ESTABLISHED" \/ released[Server]

AgreementInv == InductiveInv /\ SetupTimed /\ ServerFirst

\* A step that keeps the states and the timers, and answers no cookie.
LEMMA AgreementFrame ==
    ASSUME SetupTimed, ServerFirst, UNCHANGED <<state, initTimer, released>>,
           \A p \in net'[Client] : p.type = "COOKIE_ACK" => p \in net[Client]
    PROVE  SetupTimed' /\ ServerFirst'
  BY DEF SetupTimed, ServerFirst, InFlight

LEMMA SetupPacketAgreement ==
    ASSUME AgreementInv, NEW e \in End, NEW p \in net[e],
           \/ HandleInit(e, p) \/ HandleInitAck(e, p)
           \/ HandleCookieEcho(e, p) \/ HandleCookieAck(e, p)
    PROVE  SetupTimed' /\ ServerFirst'
<1> USE DEF AgreementInv, InductiveInv
<1>1. CASE HandleInit(e, p)
  <2>1. \A q \in net'[Client] : q.type = "COOKIE_ACK" => q \in net[Client]
    BY <1>1, ExchangeNet, EndFacts, TwoEnds DEF HandleInit
  <2> QED BY <1>1, <2>1, AgreementFrame DEF HandleInit, setup
<1>2. CASE HandleInitAck(e, p)
  <2>1. e = Client /\ state[Client] = "COOKIE_WAIT"
    BY <1>2, EndFacts DEF HandleInitAck, SetupInv, InFlight
  <2>2. \A q \in net'[Client] : q \in net[Client]
    BY <1>2, <2>1, ExchangeNet DEF HandleInitAck
  <2>3. state' = [state EXCEPT ![Client] = "COOKIE_ECHOED"] /\ UNCHANGED released
        /\ initTimer' = [initTimer EXCEPT ![Client] = TRUE]
    BY <1>2, <2>1 DEF HandleInitAck, ArmInitRetransmit
  <2> QED BY <2>1, <2>2, <2>3, EndFacts DEF SetupTimed, ServerFirst, InFlight, TypeOK
<1>3. CASE HandleCookieEcho(e, p)
  <2>1. e = Server
    BY <1>3, EndFacts DEF HandleCookieEcho, SetupInv, InFlight
  <2>2. state' = [state EXCEPT ![Server] = "ESTABLISHED"] /\ UNCHANGED <<initTimer, released>>
    BY <1>3, <2>1 DEF HandleCookieEcho
  <2>3. state[Server] \in {"CLOSED", "ESTABLISHED"}
    BY DEF SetupInv
  <2> QED BY <2>2, <2>3, EndFacts DEF SetupTimed, ServerFirst, TypeOK
<1>4. CASE HandleCookieAck(e, p)
  <2>1. e = Client /\ InFlight(Client, "COOKIE_ACK")
    BY <1>4, EndFacts DEF HandleCookieAck, SetupInv, InFlight
  <2>2. /\ state' = [state EXCEPT ![Client] = "ESTABLISHED"]
        /\ initTimer' = [initTimer EXCEPT ![Client] = FALSE]
        /\ UNCHANGED released
    BY <1>4, <2>1 DEF HandleCookieAck
  <2> QED BY <2>1, <2>2, EndFacts DEF SetupTimed, ServerFirst, TypeOK
<1> QED BY <1>1, <1>2, <1>3, <1>4

LEMMA ReleaseAgreement ==
    ASSUME AgreementInv, NEW e \in End, Release(e),
           \A p \in net'[Client] : p.type = "COOKIE_ACK" => p \in net[Client]
    PROVE  SetupTimed' /\ ServerFirst'
  BY EndFacts DEF AgreementInv, InductiveInv, TypeOK, Release, SetupTimed, ServerFirst, InFlight

LEMMA CallAgreement ==
    ASSUME AgreementInv, NEW e \in End, Application(e) \/ Timer(e) \/ Handler(e)
    PROVE  SetupTimed' /\ ServerFirst'
<1> USE DEF AgreementInv, InductiveInv
<1>1. CASE Start(e)
  <2>1. /\ e = Client /\ state' = [state EXCEPT ![Client] = "COOKIE_WAIT"]
        /\ initTimer' = [initTimer EXCEPT ![Client] = TRUE] /\ UNCHANGED released
    BY <1>1 DEF Start, ArmInitRetransmit
  <2>2. net'[Client] = net[Client]
    BY <1>1, <2>1, EmitNet DEF Start
  <2> QED BY <2>1, <2>2, EndFacts DEF SetupTimed, ServerFirst, InFlight, TypeOK
<1>2. ASSUME NEW stream \in Stream, NEW unordered \in Unordered, NEW n \in 1 .. MaxFragments,
             SendData(e, stream, unordered, n)
      PROVE  SetupTimed' /\ ServerFirst'
  <2>1. \A q \in net'[Client] : q.type = "COOKIE_ACK" => q \in net[Client]
    BY <1>2, EmitNet, EndFacts, TwoEnds DEF SendData
  <2> QED BY <1>2, <2>1, AgreementFrame DEF SendData, setup
<1>3. CASE RetransmitInit(e)
  <2>1. \A q \in net'[Client] : q.type = "COOKIE_ACK" => q \in net[Client]
    BY <1>3, EmitNet, EndFacts, TwoEnds DEF RetransmitInit, InitPacket, CookieEcho
  <2> QED BY <1>3, <2>1, AgreementFrame DEF RetransmitInit
<1>4. CASE Shutdown(e) \/ SetupTimedOut(e)
  <2>1. \A q \in net'[Client] : q.type = "COOKIE_ACK" => q \in net[Client]
    BY <1>4, HandlerTraffic, EndFacts DEF SetupType
  <2> QED BY <1>4, <2>1, ReleaseAgreement DEF Shutdown, SetupTimedOut
<1>5. CASE Handler(e)
  <2>1. \A q \in net'[Client] : q.type = "COOKIE_ACK" => q \in net[Client]
    BY <1>5, HandlerTraffic, EndFacts DEF Handler, SetupType
  <2> QED BY <1>5, <2>1, AgreementFrame DEF Handler, Drain, Acknowledge, setup
<1> QED BY <1>1, <1>2, <1>3, <1>4, <1>5 DEF Application, Timer

LEMMA NetworkAgreement ==
    ASSUME AgreementInv, NEW e \in End, NEW p \in net[e],
           HandlePacket(e, p) \/ Ignore(e, p) \/ Lose(e, p)
    PROVE  SetupTimed' /\ ServerFirst'
<1> USE DEF AgreementInv, InductiveInv
<1>1. CASE BufferData(e, p) \/ ReceiveData(e, p) \/ HandleSack(e, p)
             \/ HandleShutdown(e, p) \/ Ignore(e, p) \/ Lose(e, p)
  <2>1. \A q \in net'[Client] : q.type = "COOKIE_ACK" => q \in net[Client]
    BY <1>1, PacketTraffic, EndFacts DEF SetupType
  <2>2. CASE Release(e)
    BY <2>1, <2>2, ReleaseAgreement
  <2>3. CASE ~Release(e)
    <3>1. UNCHANGED <<state, initTimer, released>>
      BY <1>1, <2>3 DEF BufferData, ReceiveData, HandleSack, HandleShutdown, Ignore, Lose, setup
    <3> QED BY <2>1, <3>1, AgreementFrame
  <2> QED BY <2>2, <2>3
<1> QED BY <1>1, SetupPacketAgreement DEF HandlePacket

LEMMA AgreementInductive == Spec => []AgreementInv
<1>1. Init => SetupTimed /\ ServerFirst
  BY EndFacts DEF Init, SetupTimed, ServerFirst, InFlight
<1>2. AgreementInv /\ [Next]_vars => SetupTimed' /\ ServerFirst'
  <2> SUFFICES ASSUME AgreementInv, [Next]_vars PROVE SetupTimed' /\ ServerFirst'
    OBVIOUS
  <2>1. CASE UNCHANGED vars
    BY <2>1 DEF AgreementInv, vars, setup, SetupTimed, ServerFirst, InFlight
  <2> QED BY <2>1, CallAgreement, NetworkAgreement DEF Next, Network
<1>3. Init => AgreementInv
  BY <1>1, InitInductive DEF AgreementInv
<1>4. AgreementInv /\ [Next]_vars => AgreementInv'
  BY <1>2, NextInductive DEF AgreementInv
<1> QED BY <1>3, <1>4, PTL DEF Spec

\* An end is in its setup exactly while its timer is armed (association.ts
\* #armInitRetransmit and its callers).
THEOREM AlwaysTimed == Spec => []SetupTimed
<1>1. AgreementInv => SetupTimed
  BY DEF AgreementInv
<1> QED BY <1>1, AgreementInductive, PTL

\* The client is established only once the server is, or after the server has
\* closed, and each end then knows where the TSNs of the other begin.
THEOREM EndsAgree == Spec => []SetupAgreement
<1>1. AgreementInv => SetupAgreement
  BY PeerProperties DEF AgreementInv, InductiveInv, SetupInv, ServerFirst, BothKnown, SetupAgreement
<1> QED BY <1>1, AgreementInductive, PTL
-----------------------------------------------------------------------------
(* Where setup packets are neither late nor duplicated.                    *)

SetupOnce == Prompt /\ Duplicable \cap SetupType = {}

Idle == \A e \in End : \A p \in net[e] : p.type \notin SetupType

\* One setup packet at most is in flight, and until the client has answered the
\* INIT_ACK nothing has been sent to the server.
OnceInv ==
    /\ \A e, f \in End : \A p \in net[e], q \in net[f] :
         p.type \in SetupType /\ q.type \in SetupType => e = f /\ p = q
    /\ state[Client] = "CLOSED" /\ ~released[Client] => Idle
    /\ InFlight(Server, "INIT") \/ InFlight(Client, "INIT_ACK") =>
         log[Client] = <<>> /\ state[Client] \notin {"COOKIE_ECHOED", "ESTABLISHED"}

LEMMA ExchangeAlone ==
    ASSUME SetupOnce, TypeOK, OnceInv, NEW e \in End, NEW p \in net[e], p.type \in SetupType,
           NEW out, Exchange(e, p, out)
    PROVE  /\ \A q \in net'[e] : q.type \notin SetupType
           /\ \A q \in net'[Peer(e)] : q.type \in SetupType => q \in out
<1>1. p.type \notin Duplicable
  BY DEF SetupOnce
<1>2. net'[e] = net[e] \ {p} /\ net'[Peer(e)] = net[Peer(e)] \cup out
  BY <1>1, PeerProperties DEF TypeOK, Exchange
<1> QED BY <1>2, PeerProperties DEF OnceInv

LEMMA EmitAlone ==
    ASSUME TypeOK, Idle, NEW e \in End, NEW out, Emit(e, out)
    PROVE  /\ \A q \in net'[e] : q.type \notin SetupType
           /\ \A q \in net'[Peer(e)] : q.type \in SetupType => q \in out
  BY EmitNet, PeerProperties DEF Idle

\* A step that sends no setup packet.
LEMMA OnceFrame ==
    ASSUME OnceInv,
           \A e \in End : \A p \in net'[e] : p.type \in SetupType => p \in net[e],
           \/ UNCHANGED <<state[Client], released[Client]>>
           \/ state'[Client] = "CLOSED" /\ released'[Client],
           log'[Client] = log[Client] \/ state[Client] = "ESTABLISHED"
    PROVE  OnceInv'
<1>1. \A type \in SetupType : \A f \in End : InFlight(f, type)' => InFlight(f, type)
  BY DEF InFlight
<1>2. Idle => Idle'
  BY DEF Idle
<1>3. \A e, f \in End : \A p \in net'[e], q \in net'[f] :
         p.type \in SetupType /\ q.type \in SetupType => e = f /\ p = q
  BY DEF OnceInv
<1> QED BY <1>1, <1>2, <1>3, EndFacts DEF OnceInv, SetupType

\* A step after which the setup packet in flight is one of these.
LEMMA OnceAlone ==
    ASSUME NEW f \in End, NEW q,
           \A p \in net'[Peer(f)] : p.type \notin SetupType,
           \A p \in net'[f] : p.type \in SetupType => p = q,
           state'[Client] # "CLOSED" \/ released'[Client],
           q.type \in {"INIT", "INIT_ACK"} =>
             log'[Client] = <<>> /\ state'[Client] \notin {"COOKIE_ECHOED", "ESTABLISHED"}
    PROVE  OnceInv'
<1>1. \A g \in End : \A p \in net'[g] : p.type \in SetupType => g = f /\ p = q
  BY TwoEnds
<1>2. InFlight(Server, "INIT")' \/ InFlight(Client, "INIT_ACK")' => q.type \in {"INIT", "INIT_ACK"}
  BY <1>1, EndFacts DEF InFlight, SetupType
<1> QED BY <1>1, <1>2 DEF OnceInv

LEMMA SetupOncePreserved ==
    ASSUME SetupOnce, InductiveInv, OnceInv, NEW e \in End,
           \/ Start(e) \/ RetransmitInit(e)
           \/ \E p \in net[e] : \/ HandleInit(e, p) \/ HandleInitAck(e, p)
                              \/ HandleCookieEcho(e, p) \/ HandleCookieAck(e, p)
    PROVE  OnceInv'
<1> USE DEF InductiveInv
<1>1. CASE Start(e)
  <2>1. e = Client /\ Idle /\ log[Client] = <<>>
    BY <1>1, EndFacts DEF Start, OnceInv, SetupInv
  <2>2. state'[Client] = "COOKIE_WAIT" /\ UNCHANGED log /\ Emit(Client, {InitPacket(Client)})
    BY <1>1, <2>1, EndFacts DEF Start, TypeOK, transmit
  <2>3. /\ \A q \in net'[Client] : q.type \notin SetupType
        /\ \A q \in net'[Server] : q.type \in SetupType => q = InitPacket(Client)
    BY <2>1, <2>2, EmitAlone, EndFacts
  <2> QED BY <2>1, <2>2, <2>3, EndFacts, OnceAlone DEF InitPacket
<1>2. CASE RetransmitInit(e)
  <2>1. e = Client /\ state[Client] \in {"COOKIE_WAIT", "COOKIE_ECHOED"} /\ Idle
    BY <1>2, EndFacts DEF RetransmitInit, TimerFires, SetupInv, Idle, SetupOnce
  <2>2. UNCHANGED <<state, log>>
    BY <1>2 DEF RetransmitInit, transmit
  <2>3. PICK q : /\ Emit(Client, {q})
                 /\ q = CookieEcho \/ (q = InitPacket(Client) /\ state[Client] = "COOKIE_WAIT")
    BY <1>2, <2>1 DEF RetransmitInit
  <2>4. /\ \A p \in net'[Client] : p.type \notin SetupType
        /\ \A p \in net'[Server] : p.type \in SetupType => p = q
    BY <2>1, <2>3, EmitAlone, EndFacts
  <2>5. state[Client] = "COOKIE_WAIT" => log[Client] = <<>>
    BY EndFacts DEF SetupInv
  <2> QED BY <2>1, <2>2, <2>3, <2>4, <2>5, EndFacts, OnceAlone DEF CookieEcho, InitPacket
<1>3. ASSUME NEW p \in net[e], HandleInit(e, p) PROVE OnceInv'
  <2>1. e = Server /\ InFlight(Server, "INIT") /\ p.type \in SetupType /\ ~Idle
    BY <1>3, EndFacts DEF HandleInit, SetupInv, InFlight, SetupType, Idle
  <2> DEFINE q == [type |-> "INIT_ACK", initialTSN |-> localTSN[Server]]
  <2>2. Exchange(Server, p, {q}) /\ q.type = "INIT_ACK"
    BY <1>3, <2>1 DEF HandleInit
  <2> HIDE DEF q
  <2>3. /\ \A r \in net'[Server] : r.type \notin SetupType
        /\ \A r \in net'[Client] : r.type \in SetupType => r = q
    BY <2>1, <2>2, ExchangeAlone, EndFacts
  <2>4. UNCHANGED <<state, log, released>>
    BY <1>3 DEF HandleInit, setup, transmit
  <2> QED BY <2>1, <2>3, <2>4, EndFacts, OnceAlone DEF OnceInv
<1>4. ASSUME NEW p \in net[e], HandleInitAck(e, p) PROVE OnceInv'
  <2>1. e = Client /\ p.type \in SetupType
    BY <1>4, EndFacts DEF HandleInitAck, SetupInv, InFlight, SetupType
  <2>2. Exchange(Client, p, {CookieEcho}) /\ state'[Client] = "COOKIE_ECHOED"
    BY <1>4, <2>1, EndFacts DEF HandleInitAck, TypeOK
  <2>3. /\ \A r \in net'[Client] : r.type \notin SetupType
        /\ \A r \in net'[Server] : r.type \in SetupType => r = CookieEcho
    BY <2>1, <2>2, ExchangeAlone, EndFacts
  <2> QED BY <2>2, <2>3, EndFacts, OnceAlone DEF CookieEcho
<1>5. ASSUME NEW p \in net[e], HandleCookieEcho(e, p) PROVE OnceInv'
  <2>1. e = Server /\ p.type \in SetupType /\ ~Idle
    BY <1>5, EndFacts DEF HandleCookieEcho, SetupInv, InFlight, SetupType, Idle
  <2> DEFINE q == [type |-> "COOKIE_ACK"]
  <2>2. Exchange(Server, p, {q}) /\ q.type = "COOKIE_ACK"
    BY <1>5, <2>1 DEF HandleCookieEcho
  <2> HIDE DEF q
  <2>3. /\ \A r \in net'[Server] : r.type \notin SetupType
        /\ \A r \in net'[Client] : r.type \in SetupType => r = q
    BY <2>1, <2>2, ExchangeAlone, EndFacts
  <2>4. UNCHANGED released /\ state'[Client] = state[Client]
    BY <1>5, <2>1, EndFacts DEF HandleCookieEcho, TypeOK
  <2> QED BY <2>1, <2>2, <2>3, <2>4, EndFacts, OnceAlone DEF OnceInv
<1>6. ASSUME NEW p \in net[e], HandleCookieAck(e, p) PROVE OnceInv'
  <2>1. e = Client /\ p.type \in SetupType
    BY <1>6, EndFacts DEF HandleCookieAck, SetupInv, InFlight, SetupType
  <2>2. Exchange(Client, p, {}) /\ state'[Client] = "ESTABLISHED"
    BY <1>6, <2>1, EndFacts DEF HandleCookieAck, TypeOK
  <2>3. \A f \in End : \A r \in net'[f] : r.type \notin SetupType
    BY <2>1, <2>2, ExchangeAlone, EndFacts, TwoEnds
  <2> QED BY <2>2, <2>3, EndFacts DEF OnceInv, InFlight, SetupType
<1> QED BY <1>1, <1>2, <1>3, <1>4, <1>5, <1>6

LEMMA OncePreserved ==
    ASSUME SetupOnce, InductiveInv, OnceInv, [Next]_vars PROVE OnceInv'
<1> USE DEF InductiveInv
<1>1. CASE UNCHANGED vars
  BY <1>1, OnceFrame DEF vars, setup, transmit
<1>2. ASSUME NEW e \in End, Release(e),
             \A f \in End : \A p \in net'[f] : p.type \in SetupType => p \in net[f]
      PROVE  OnceInv'
  BY <1>2, OnceFrame, EndFacts DEF Release, TypeOK, transmit
<1>3. ASSUME NEW e \in End, Application(e) \/ Timer(e) \/ Handler(e) PROVE OnceInv'
  <2>1. CASE Shutdown(e) \/ SetupTimedOut(e)
    BY <1>2, <2>1, HandlerTraffic DEF Shutdown, SetupTimedOut
  <2>2. CASE Handler(e)
    <3>1. \A f \in End : \A p \in net'[f] : p.type \in SetupType => p \in net[f]
      BY <2>2, HandlerTraffic DEF Handler
    <3> QED BY <2>2, <3>1, OnceFrame DEF Handler, Drain, Acknowledge, setup, transmit
  <2>3. ASSUME NEW stream \in Stream, NEW unordered \in Unordered, NEW n \in 1 .. MaxFragments,
               SendData(e, stream, unordered, n)
        PROVE  OnceInv'
    <3>1. \A f \in End : \A p \in net'[f] : p.type \in SetupType => p \in net[f]
      BY <2>3, EmitNet, TwoEnds DEF SendData, SetupType
    <3>2. /\ UNCHANGED <<state, released>>
          /\ log'[Client] = log[Client] \/ state[Client] = "ESTABLISHED"
      BY <2>3, EndFacts DEF SendData, setup, TypeOK
    <3> QED BY <3>1, <3>2, OnceFrame
  <2> QED BY <1>3, <2>1, <2>2, <2>3, SetupOncePreserved DEF Application, Timer
<1>4. ASSUME NEW e \in End, NEW p \in net[e], HandlePacket(e, p) \/ Ignore(e, p) \/ Lose(e, p)
      PROVE  OnceInv'
  <2>1. CASE BufferData(e, p) \/ ReceiveData(e, p) \/ HandleSack(e, p)
               \/ HandleShutdown(e, p) \/ Ignore(e, p) \/ Lose(e, p)
    <3>1. \A f \in End : \A q \in net'[f] : q.type \in SetupType => q \in net[f]
      BY <2>1, PacketTraffic
    <3>2. CASE ~Release(e)
      <4>1. UNCHANGED <<state, released, log>>
        BY <2>1, <3>2 DEF BufferData, ReceiveData, HandleSack, HandleShutdown, Ignore, Lose,
           setup, transmit
      <4> QED BY <3>1, <4>1, OnceFrame
    <3> QED BY <1>2, <3>1, <3>2
  <2> QED BY <1>4, <2>1, SetupOncePreserved DEF HandlePacket
<1> QED BY <1>1, <1>3, <1>4 DEF Next, Network
-----------------------------------------------------------------------------
(* What is handed over and what is acknowledged when no setup packet is late. *)

\* An end has sent as many chunks as messages, at the least.
Counted == \A e \in End : Len(sent[e]) <= Len(log[e])

\* Nothing is delivered again.
HandedAll == \A e \in End : handed[e] = Len(delivered[e])

HandlerKnows == \A e \in End : inHandler[e] => peerCumulativeTSN[e] # NoTSN

\* End e has consumed the i-th chunk of its peer, or holds it behind the gap.
HeldAt(e, i) == i <= Consumed(e) \/ log[Peer(e)][i].tsn \in Buffered(e)

\* A SACK in flight names chunks that its sender still has: its cumulative TSN
\* may also be the one before the first.
SackInv ==
    \A e \in End : ~released[e] =>
        \A p \in net[Peer(e)] : p.type = "SACK" =>
            \A t \in Acked(p) :
                \/ t = Pred(InitialTSN[Peer(e)])
                \/ \E i \in DOMAIN log[Peer(e)] :
                     log[Peer(e)][i].tsn = t /\ HeldAt(e, i)

PromptInv ==
    /\ InductiveInv /\ OnceInv
    /\ HandedAll /\ HandlerKnows /\ DrainComplete /\ SackInv /\ AcknowledgedIsHeld
-----------------------------------------------------------------------------
(* The first INIT and the first INIT_ACK find nothing to forget.           *)

LEMMA NothingYet ==
    ASSUME InductiveInv, OnceInv, NEW e \in End, NEW p \in net[e],
           HandleInit(e, p) \/ HandleInitAck(e, p)
    PROVE  /\ log[Peer(e)] = <<>> /\ delivered[e] = <<>>
           /\ DOMAIN receivedOutOfOrder[e] = {}
<1> USE DEF InductiveInv
<1>1. log[Peer(e)] = <<>>
  <2>1. CASE HandleInit(e, p)
    <3>1. e = Server /\ InFlight(Server, "INIT")
      BY <2>1, EndFacts DEF HandleInit, SetupInv, InFlight
    <3> QED BY <3>1, EndFacts DEF OnceInv
  <2>2. CASE HandleInitAck(e, p)
    <3>1. e = Client /\ Beginning
      BY <2>2, EndFacts DEF HandleInitAck, SetupInv, InFlight, Beginning
    <3> QED BY <3>1, EndFacts DEF SetupInv
  <2> QED BY <2>1, <2>2
<1>2. sent[Peer(e)] = <<>> /\ Len(<<>>) = 0 /\ DOMAIN log[Peer(e)] = {}
  BY <1>1, PeerProperties DEF LogInv
<1>3. delivered[e] = <<>>
  <2>1. \A i \in 1 .. Len(delivered[e]) : i <= 0
    BY <1>2 DEF DeliveryInv
  <2>2. delivered[e] \in Seq(Message)
    BY DEF TypeOK
  <2>3. Len(delivered[e]) = 0
    BY <2>1, <2>2, LenProperties
  <2> QED BY <2>2, <2>3, EmptySeq
<1>4. DOMAIN receivedOutOfOrder[e] = {}
  BY <1>2 DEF GenuineInv
<1> QED BY <1>1, <1>3, <1>4

(* The refinement of MessageChannel.                                       *)

\* The steps that send or deliver.
LEMMA Traffic ==
    ASSUME [Next]_vars
    PROVE  \/ UNCHANGED <<sent, log, delivered>>
           \/ \E e \in End :
                \/ \E stream \in Stream, unordered \in Unordered, n \in 1 .. MaxFragments :
                     SendData(e, stream, unordered, n)
                \/ Drain(e)
                \/ \E p \in net[e] : ReceiveData(e, p) \/ HandleInit(e, p)
<1> USE DEF transmit, receive
<1>1. CASE UNCHANGED vars
  BY <1>1 DEF vars
<1>2. ASSUME NEW e \in End, Start(e) \/ Shutdown(e) \/ Timer(e) \/ Acknowledge(e)
      PROVE  UNCHANGED <<sent, log, delivered>>
  BY <1>2 DEF Start, Shutdown, Release, Timer, RetransmitInit, SetupTimedOut, Acknowledge
<1>3. ASSUME NEW e \in End, NEW p \in net[e],
             \/ HandleInitAck(e, p) \/ HandleCookieEcho(e, p) \/ HandleCookieAck(e, p)
             \/ BufferData(e, p) \/ HandleSack(e, p) \/ Ignore(e, p) \/ Lose(e, p)
      PROVE  UNCHANGED <<sent, log, delivered>>
  BY <1>3 DEF HandleInitAck, HandleCookieEcho, HandleCookieAck, BufferData, HandleSack,
     Ignore, Lose
<1>4. ASSUME NEW e \in End, NEW p \in net[e], HandleShutdown(e, p)
      PROVE  UNCHANGED <<sent, log, delivered>>
  BY <1>4 DEF HandleShutdown, Release
<1> QED BY <1>1, <1>2, <1>3, <1>4 DEF Next, Application, Handler, Network, HandlePacket

LEMMA CountedPreserved ==
    ASSUME TypeOK, Counted, [Next]_vars PROVE Counted'
<1>1. CASE UNCHANGED <<sent, log>>
  BY <1>1 DEF Counted
<1>2. ASSUME NEW e \in End, NEW stream \in Stream, NEW unordered \in Unordered,
             NEW n \in 1 .. MaxFragments, SendData(e, stream, unordered, n)
      PROVE  Counted'
  <2> DEFINE chunks == Fragmented(e, stream, unordered, n)
             message == WholeMessage(Len(sent[e]) + 1, stream, n)
  <2>1. /\ log' = [log EXCEPT ![e] = @ \o chunks]
        /\ sent' = [sent EXCEPT ![e] = Append(@, message)]
        /\ Len(log[e]) + n <= MaxChunks[e]
    BY <1>2 DEF SendData
  <2>2. chunks \in Seq(Chunk) /\ Len(chunks) = n
    BY <2>1, FragmentedType
  <2>3. n \in Nat \ {0} /\ log[e] \in Seq(Chunk) /\ sent[e] \in Seq(Message)
    BY AssociationAssumption DEF TypeOK
  <2>4. Len(log[e] \o chunks) = Len(log[e]) + n /\ Len(log[e]) \in Nat
    BY <2>2, <2>3, ConcatElements, LenProperties
  <2>5. Len(sent[e]) \in Nat /\ message \in Message
    <3>1. Len(sent[e]) \in Nat
      BY <2>3, LenProperties
    <3> QED BY <2>3, <3>1, WholeMessageType
  <2> HIDE DEF chunks, message
  <2>6. Len(Append(sent[e], message)) = Len(sent[e]) + 1
    BY <2>5, <2>3, AppendProperties
  <2>7. Len(sent'[e]) <= Len(log'[e])
    BY <2>1, <2>2, <2>4, <2>5, <2>6, <2>3 DEF TypeOK, Counted
  <2> QED BY <2>1, <2>7 DEF Counted, TypeOK
<1>3. ASSUME NEW e \in End, Drain(e) \/ \E p \in net[e] : ReceiveData(e, p) \/ HandleInit(e, p)
      PROVE  UNCHANGED <<sent, log>>
  BY <1>3 DEF Drain, ReceiveData, HandleInit, transmit
<1> QED BY <1>1, <1>2, <1>3, Traffic

LEMMA SendImplements ==
    ASSUME InductiveInv, Counted, NEW e \in End, NEW stream \in Stream,
           NEW unordered \in Unordered, NEW n \in 1 .. MaxFragments,
           SendData(e, stream, unordered, n)
    PROVE  Channel!Send(e)
<1>1. /\ Len(log[e]) + n <= MaxChunks[e] /\ UNCHANGED delivered
      /\ sent' = [sent EXCEPT ![e] = Append(@, WholeMessage(Len(sent[e]) + 1, stream, n))]
  BY DEF SendData, receive, InductiveInv, TypeOK
<1>2. Len(log[e]) \in Nat /\ Len(sent[e]) \in Nat /\ Len(sent[e]) <= Len(log[e])
  BY LenProperties DEF InductiveInv, TypeOK, Counted
<1>3. Len(sent[e]) + 1 \in 1 .. TSNMod
  BY <1>1, <1>2, AssociationAssumption, TSNModAssumption
<1>4. WholeMessage(Len(sent[e]) + 1, stream, n) \in WholeMessages
  BY <1>3 DEF WholeMessages
<1> QED BY <1>1, <1>4 DEF Channel!Send

LEMMA ConsumeImplements ==
    ASSUME InductiveInv, InductiveInv', UNCHANGED sent, NEW e \in End, NEW c, Consume(e, c)
    PROVE  UNCHANGED delivered \/ Channel!Deliver(e)
<1>1. CASE ~UNCHANGED delivered
  <2>1. PICK m : delivered' = [delivered EXCEPT ![e] = Append(@, m)]
    BY <1>1 DEF Consume
  <2> DEFINE d == delivered[e]
             i == Len(delivered[e]) + 1
  <2>2. d \in Seq(Message) /\ Append(d, m) \in Seq(Message) /\ delivered'[e] = Append(d, m)
    BY <2>1 DEF InductiveInv, TypeOK
  <2>3. Len(d) \in Nat /\ Len(Append(d, m)) = i /\ Append(d, m)[i] = m
    BY <2>2, LenProperties
  <2>4. i \in 1 .. Len(delivered'[e])
    BY <2>2, <2>3
  <2>5. i <= Len(sent[Peer(e)]) /\ m = sent[Peer(e)][i]
    BY <2>2, <2>3, <2>4 DEF InductiveInv, DeliveryInv
  <2>6. Len(sent[Peer(e)]) \in Nat
    BY PeerProperties, LenProperties DEF InductiveInv, TypeOK
  <2>7. Channel!Other(e) = Peer(e)
    BY DEF Channel!Other, Peer
  <2> QED BY <2>1, <2>3, <2>5, <2>6, <2>7 DEF Channel!Deliver, Channel!HasNext, Channel!NextMessage
<1> QED BY <1>1

LEMMA StepImplements ==
    ASSUME ~Prompt \/ OnceInv, InductiveInv, InductiveInv', Counted, [Next]_vars
    PROVE  [Channel!Next]_(Channel!vars)
<1>1. CASE UNCHANGED <<sent, delivered>>
  BY <1>1 DEF Channel!vars
<1>2. ASSUME NEW e \in End, NEW stream \in Stream, NEW unordered \in Unordered,
             NEW n \in 1 .. MaxFragments, SendData(e, stream, unordered, n)
      PROVE  Channel!Next
  BY <1>2, SendImplements DEF Channel!Next, Channel!End, End
<1>3. ASSUME NEW e \in End, Drain(e) \/ \E p \in net[e] : ReceiveData(e, p)
      PROVE  [Channel!Next]_(Channel!vars)
  <2>1. UNCHANGED sent /\ \E c : Consume(e, c)
    BY <1>3 DEF Drain, ReceiveData, transmit
  <2> QED BY <2>1, ConsumeImplements DEF Channel!Next, Channel!vars, Channel!End, End
<1>4. ASSUME NEW e \in End, NEW p \in net[e], HandleInit(e, p)
      PROVE  [Channel!Next]_(Channel!vars)
  <2>1. UNCHANGED sent /\ delivered' = [delivered EXCEPT ![e] = <<>>]
    BY <1>4 DEF HandleInit, transmit
  <2>2. CASE Prompt
    <3>1. delivered[e] = <<>>
      BY <1>4, <2>2, NothingYet
    <3> QED BY <2>1, <3>1, <1>1 DEF InductiveInv, TypeOK
  <2>3. CASE ~Prompt
    BY <2>1, <2>3 DEF Channel!Restart, Channel!Next, Channel!End, End
  <2> QED BY <2>2, <2>3
<1> QED BY <1>1, <1>2, <1>3, <1>4, Traffic

LEMMA OnceHolds == ASSUME SetupOnce PROVE Spec => []OnceInv
<1>1. Init => OnceInv
  BY EndFacts DEF Init, OnceInv, InFlight, Idle
<1>2. InductiveInv /\ OnceInv /\ [Next]_vars => OnceInv'
  BY OncePreserved
<1> QED BY <1>1, <1>2, Inductive, PTL DEF Spec

LEMMA CountedHolds == Spec => []Counted
<1>1. Init => Counted
  BY EmptySeq DEF Init, Counted
<1>2. InductiveInv /\ Counted /\ [Next]_vars => Counted'
  BY CountedPreserved DEF InductiveInv
<1> QED BY <1>1, <1>2, Inductive, PTL DEF Spec

\* The association is the channel that the layers above are promised: messages
\* arrive one by one in the order of their sending.  The delivery starts over only
\* where the timer may fire while a setup packet is still on its way.
THEOREM Refinement ==
    ASSUME Prompt => Duplicable \cap SetupType = {} PROVE Spec => ImplementsChannel
<1>1. Init => Channel!Init
  BY DEF Init, Channel!Init, Channel!End, End
<1>2. Spec => [](~Prompt \/ OnceInv)
  <2>1. CASE Prompt
    <3>1. Spec => []OnceInv
      BY <2>1, OnceHolds DEF SetupOnce
    <3>2. OnceInv => ~Prompt \/ OnceInv
      OBVIOUS
    <3> QED BY <3>1, <3>2, PTL
  <2>2. CASE ~Prompt
    <3>1. ~Prompt \/ OnceInv
      BY <2>2
    <3> QED BY <3>1, PTL
  <2> QED BY <2>1, <2>2
<1>3. (~Prompt \/ OnceInv) /\ InductiveInv /\ InductiveInv' /\ Counted /\ [Next]_vars
        => [Channel!Next]_(Channel!vars)
  BY StepImplements
<1> QED BY <1>1, <1>2, <1>3, Inductive, CountedHolds, PTL DEF Spec, ImplementsChannel, Channel!Spec
-----------------------------------------------------------------------------
(* What a SACK acknowledges.                                               *)

LEMMA LeastElement ==
    ASSUME NEW T \in SUBSET Nat, T # {} PROVE \E x \in T : \A y \in T : x <= y
<1>1. \E x \in T : \A y \in T : ~(<<y, x>> \in OpToRel(<, Nat))
  BY NatLessThanWellFounded, WFMin, Zenon
<1>2. PICK x \in T : \A y \in T : ~(<<y, x>> \in {ss \in Nat \X Nat : ss[1] < ss[2]})
  BY <1>1, Zenon DEF OpToRel
<1>3. ASSUME NEW y \in T PROVE x <= y
  <2>1. <<y, x>> \in Nat \X Nat /\ <<y, x>>[1] = y /\ <<y, x>>[2] = x
    OBVIOUS
  <2>2. ~(y < x)
    BY <1>2, <2>1
  <2> QED BY <2>2
<1> QED BY <1>3

LEMMA OffsetPlus ==
    ASSUME NEW t \in TSN, NEW c \in TSN
    PROVE  /\ t = Plus(c, Offset(t, c))
           /\ Offset(Plus(t, 1), c) \in {0, Offset(t, c) + 1}
  BY TSNModAssumption DEF Plus, Offset, TSN

\* The a-th to the b-th of n TSNs come one after the other.
Consecutive(tsns, n, a, b) ==
    /\ n \in Nat /\ a \in 1 .. n /\ b \in 1 .. n /\ a <= b
    /\ \A i \in 1 .. n : tsns[i] \in TSN
    /\ \A i \in a .. (b - 1) : tsns[i + 1] = Plus(tsns[i], 1)

\* Every TSN a gap block covers is one of those the run it stands for is made of.
LEMMA RunCovers ==
    ASSUME NEW cum \in TSN, NEW tsns, NEW n, NEW a, NEW b, Consecutive(tsns, n, a, b),
           NEW i \in Offset(tsns[a], cum) .. Offset(tsns[b], cum)
    PROVE  \E j \in 1 .. n : tsns[j] = Plus(cum, i)
<1> USE DEF Consecutive
<1> DEFINE At(j) == Offset(tsns[j], cum)
           T == {j \in a .. b : \A m \in j .. b : i <= At(m)}
<1>1. \A j \in 1 .. n : At(j) \in TSN /\ tsns[j] = Plus(cum, At(j))
  BY OffsetInTSN, OffsetPlus
<1>2. \A j \in a .. (b - 1) : At(j + 1) \in {0, At(j) + 1}
  BY OffsetPlus
<1>3. i \in Int /\ At(a) <= i /\ i <= At(b)
  BY <1>1, TSNModAssumption DEF TSN
<1> HIDE DEF At
<1>4. b \in T /\ T \in SUBSET Nat
  BY <1>3
<1>5. PICK j \in T : \A k \in T : j <= k
  BY <1>4, LeastElement
<1>6. At(j) = i
  <2>1. i <= At(j) /\ At(j) \in Nat
    BY <1>1, <1>5, TSNModAssumption DEF TSN
  <2>2. CASE j = a
    BY <1>1, <1>3, <2>1, <2>2
  <2>3. CASE j # a
    <3>1. j - 1 \in a .. (b - 1) /\ ~(j - 1 \in T) /\ (j - 1) + 1 = j
      BY <1>5, <2>3
    <3>2. At(j - 1) < i
      <4>1. \A m \in (j - 1) .. b : m = j - 1 \/ m \in j .. b
        BY <3>1, <1>5
      <4>2. \A m \in j .. b : i <= At(m)
        BY <1>5
      <4>3. At(j - 1) \in Nat
        BY <1>1, <3>1, TSNModAssumption DEF TSN
      <4> QED BY <3>1, <4>1, <4>2, <4>3, <1>3
    <3>3. At(j) \in {0, At(j - 1) + 1} /\ At(j - 1) \in Nat
      BY <1>1, <1>2, <3>1, TSNModAssumption DEF TSN
    <3> QED BY <1>3, <2>1, <3>2, <3>3
  <2> QED BY <2>2, <2>3
<1> QED BY <1>1, <1>5, <1>6

LEMMA BlockCovers ==
    ASSUME NEW cum \in TSN, NEW chunks \in Seq(Chunk), NEW b \in GapBlocks(cum, chunks),
           NEW i, i \in b[1] .. b[2]
    PROVE  \E j \in DOMAIN chunks : chunks[j].tsn = Plus(cum, i)
<1> DEFINE tsns == [j \in DOMAIN chunks |-> chunks[j].tsn]
           n == Len(chunks)
<1>1. n \in Nat /\ DOMAIN chunks = 1 .. n /\ Len(tsns) = n
  BY ElementProperties
<1>2. \A j \in 1 .. n : chunks[j] \in Chunk
  BY <1>1, ElementProperties
<1>3. \A j \in 1 .. n : tsns[j] = chunks[j].tsn /\ tsns[j] \in TSN
  BY <1>1, <1>2 DEF Chunk
<1>4. PICK r \in Runs(tsns) : b = <<Offset(tsns[r[1]], cum), Offset(tsns[r[2]], cum)>>
  BY DEF GapBlocks
<1> HIDE DEF tsns, n
<1>5. Consecutive(tsns, n, r[1], r[2])
  BY <1>1, <1>3 DEF Runs, Consecutive
<1>6. i \in Offset(tsns[r[1]], cum) .. Offset(tsns[r[2]], cum)
  BY <1>4
<1>7. \E j \in 1 .. n : tsns[j] = Plus(cum, i)
  BY <1>5, <1>6, RunCovers
<1> QED BY <1>1, <1>3, <1>7

\* A SACK acknowledges nothing but its cumulative TSN and what is held.
LEMMA SackCovers ==
    ASSUME NEW cum \in TSN, NEW chunks \in Seq(Chunk), NEW p \in Sack(cum, chunks),
           NEW t \in Acked(p)
    PROVE  t = cum \/ \E j \in DOMAIN chunks : chunks[j].tsn = t
<1>1. p.cumulativeTSNAck = cum /\ p.gapBlocks = GapBlocks(cum, chunks)
  BY DEF Sack
<1>2. t \in TSN
  BY DEF Acked
<1>3. CASE snLte(t, p.cumulativeTSNAck)
  BY <1>1, <1>2, <1>3, SnLteIsEquality
<1>4. CASE ~snLte(t, p.cumulativeTSNAck)
  <2>1. PICK b \in GapBlocks(cum, chunks) : \E i \in b[1] .. b[2] : t = Plus(cum, i)
    BY <1>1, <1>4 DEF Acked
  <2> QED BY <2>1, BlockCovers
<1> QED BY <1>3, <1>4
-----------------------------------------------------------------------------
(* How far the peer's chunks have been consumed.                           *)

LEMMA OffsetPred ==
    ASSUME NEW t \in TSN, NEW c \in TSN, NEW k \in Nat, k < TSNMod, Plus(t, 1) = Plus(c, k)
    PROVE  Offset(t, Pred(c)) = k /\ t = IF k = 0 THEN Pred(c) ELSE Plus(c, k - 1)
  BY TSNModAssumption DEF Plus, Pred, Offset, TSN

LEMMA PlusNotPred ==
    ASSUME NEW c \in TSN, NEW k \in Nat, k < TSNMod - 1 PROVE Plus(c, k) # Pred(c)
  BY TSNModAssumption DEF Plus, Pred, TSN

LEMMA LogBounds ==
    ASSUME InductiveInv, NEW f \in End
    PROVE  /\ DOMAIN log[f] = 1 .. Len(log[f])
           /\ Len(log[f]) \in Nat /\ Len(log[f]) < TSNMod /\ TSNMod \in Nat
           /\ InitialTSN[f] \in TSN
<1>1. DOMAIN log[f] = 1 .. Len(log[f]) /\ Len(log[f]) \in Nat
  BY ElementProperties DEF InductiveInv, TypeOK
<1>2. Len(log[f]) <= MaxChunks[f] /\ MaxChunks[f] \in Nat /\ MaxChunks[f] < TSNMod
  BY AssociationAssumption DEF InductiveInv, LogInv
<1> QED BY <1>1, <1>2, AssociationAssumption, TSNModAssumption

LEMMA TSNPlace ==
    ASSUME InductiveInv, NEW f \in End, NEW i \in DOMAIN log[f]
    PROVE  /\ i \in Nat \ {0} /\ i < TSNMod
           /\ log[f][i].tsn = Plus(InitialTSN[f], i - 1)
           /\ log[f][i].tsn # Pred(InitialTSN[f])
           /\ \A j \in DOMAIN log[f] : log[f][j].tsn = log[f][i].tsn => j = i
<1>1. \A j \in DOMAIN log[f] : log[f][j].tsn = Plus(InitialTSN[f], j - 1)
  <2>1. \A j \in 1 .. Len(log[f]) : Logged(f, j)
    BY DEF InductiveInv, LogInv
  <2> QED BY <2>1, LogBounds DEF Logged
<1>2. \A j \in DOMAIN log[f] : j - 1 \in Nat /\ j - 1 < TSNMod - 1
  BY LogBounds
<1>3. log[f][i].tsn # Pred(InitialTSN[f])
  BY <1>1, <1>2, LogBounds, PlusNotPred
<1>4. ASSUME NEW j \in DOMAIN log[f], log[f][j].tsn = log[f][i].tsn PROVE j = i
  <2>1. j - 1 = i - 1
    BY <1>1, <1>2, <1>4, LogBounds, PlusInjective
  <2> QED BY <2>1, LogBounds
<1> QED BY <1>1, <1>3, <1>4, LogBounds

LEMMA ConsumedIndex ==
    ASSUME InductiveInv, NEW e \in End, peerCumulativeTSN[e] # NoTSN
    PROVE  /\ Consumed(e) \in 0 .. Len(log[Peer(e)])
           /\ Expected(e) = Plus(InitialTSN[Peer(e)], Consumed(e))
           /\ CumulativeTSN(e) = peerCumulativeTSN[e] /\ peerCumulativeTSN[e] \in TSN
           /\ \/ peerCumulativeTSN[e] = Pred(InitialTSN[Peer(e)])
              \/ /\ Consumed(e) \in DOMAIN log[Peer(e)]
                 /\ log[Peer(e)][Consumed(e)].tsn = peerCumulativeTSN[e]
<1> DEFINE f == Peer(e)
           t == peerCumulativeTSN[e]
<1>1. f \in End /\ t \in TSN
  BY PeerProperties DEF InductiveInv, TypeOK
<1>2. CumulativeTSN(e) = t /\ Expected(e) = Plus(t, 1)
  BY DEF CumulativeTSN, Expected
<1>3. PICK k \in 0 .. Len(log[f]) : Expected(e) = Plus(InitialTSN[f], k)
  BY DEF InductiveInv, DeliveryInv
<1>4. k \in Nat /\ k < TSNMod /\ InitialTSN[f] \in TSN
  BY <1>1, LogBounds
<1> HIDE DEF f, t
<1>5. /\ Offset(t, Pred(InitialTSN[f])) = k
      /\ t = IF k = 0 THEN Pred(InitialTSN[f]) ELSE Plus(InitialTSN[f], k - 1)
  BY <1>1, <1>2, <1>3, <1>4, OffsetPred
<1> USE DEF f, t
<1>6. Consumed(e) = k
  BY <1>5 DEF Consumed
<1>7. k # 0 => k \in DOMAIN log[f] /\ log[f][k].tsn = t
  <2>1. k # 0 => k \in DOMAIN log[f]
    BY <1>1, LogBounds
  <2> QED BY <1>1, <1>5, <2>1, TSNPlace
<1> QED BY <1>1, <1>2, <1>3, <1>5, <1>6, <1>7

\* The chunk that is next in sequence, consumed.
LEMMA Advance ==
    ASSUME InductiveInv, NEW e \in End, peerCumulativeTSN[e] # NoTSN,
           NEW i \in DOMAIN log[Peer(e)], log[Peer(e)][i].tsn = Expected(e),
           peerCumulativeTSN'[e] = Expected(e)
    PROVE  i = Consumed(e) + 1 /\ Consumed(e)' = Consumed(e) + 1
<1> DEFINE f == Peer(e)
<1>1. f \in End /\ Expected(e) \in TSN
  BY PeerProperties, ExpectedInTSN DEF InductiveInv
<1>2. /\ Consumed(e) \in 0 .. Len(log[f])
      /\ Expected(e) = Plus(InitialTSN[f], Consumed(e))
  BY ConsumedIndex
<1>3. Consumed(e) \in Nat /\ Consumed(e) < TSNMod /\ InitialTSN[f] \in TSN
  BY <1>1, <1>2, LogBounds
<1>4. i \in Nat \ {0} /\ i < TSNMod /\ log[f][i].tsn = Plus(InitialTSN[f], i - 1)
  BY <1>1, TSNPlace
<1>5. i - 1 = Consumed(e)
  <2>1. i - 1 \in Nat /\ i - 1 < TSNMod
    BY <1>1, <1>4, LogBounds
  <2> QED BY <1>2, <1>3, <1>4, <2>1, PlusInjective
<1>6. Plus(Expected(e), 1) = Plus(InitialTSN[f], i)
  BY <1>1, <1>2, <1>3, <1>4, <1>5, PlusPlus
<1>7. Offset(Expected(e), Pred(InitialTSN[f])) = i
  BY <1>1, <1>3, <1>4, <1>6, OffsetPred
<1>8. Consumed(e)' = i
  BY <1>1, <1>7, EndFacts DEF Consumed
<1> QED BY <1>3, <1>4, <1>5, <1>8
-----------------------------------------------------------------------------
(* What a step does to the receiver of one end and to the queue of the other. *)

\* The steps that change what end e has received, or whether it is in a handler.
ReceiveStep(e) ==
    \/ Release(e) \/ Acknowledge(e) \/ Drain(e)
    \/ \E p \in net[e] : \/ HandleInit(e, p) \/ HandleInitAck(e, p)
                       \/ BufferData(e, p) \/ ReceiveData(e, p)

\* Nothing that end e has received is changed.
ReceiveSame(e) ==
    /\ peerCumulativeTSN'[e] = peerCumulativeTSN[e]
    /\ receivedOutOfOrder'[e] = receivedOutOfOrder[e]
    /\ delivered'[e] = delivered[e] /\ handed'[e] = handed[e]
    /\ inHandler'[e] = inHandler[e] /\ released'[e] = released[e]

LEMMA ConsumeAt ==
    ASSUME TypeOK, NEW e \in End, NEW f \in End, f # e, NEW c, Consume(f, c)
    PROVE  delivered'[e] = delivered[e] /\ handed'[e] = handed[e]
  BY DEF Consume, TypeOK

LEMMA ReceiveSide ==
    ASSUME TypeOK, NEW e \in End, [Next]_vars PROVE ReceiveSame(e) \/ ReceiveStep(e)
<1> USE DEF ReceiveSame, receive
<1>1. CASE UNCHANGED vars
  BY <1>1 DEF vars
<1>2. ASSUME NEW f \in End, ReceiveStep(f) PROVE ReceiveSame(e) \/ ReceiveStep(e)
  <2>1. CASE f = e
    BY <1>2, <2>1
  <2>2. CASE f # e /\ (Release(f) \/ Acknowledge(f))
    BY <2>2 DEF Release, Acknowledge, TypeOK
  <2>3. CASE f # e /\ (Drain(f) \/ \E p \in net[f] : ReceiveData(f, p))
    <3>1. \E c : Consume(f, c)
      BY <2>3 DEF Drain, ReceiveData
    <3>2. delivered'[e] = delivered[e] /\ handed'[e] = handed[e]
      BY <2>3, <3>1, ConsumeAt
    <3> QED BY <2>3, <3>2 DEF Drain, ReceiveData, TypeOK
  <2>4. CASE f # e /\ \E p \in net[f] : HandleInit(f, p) \/ HandleInitAck(f, p)
    BY <2>4 DEF HandleInit, HandleInitAck, LearnPeerTSN, TypeOK
  <2>5. CASE f # e /\ \E p \in net[f] : BufferData(f, p)
    BY <2>5 DEF BufferData, TypeOK
  <2> QED BY <1>2, <2>1, <2>2, <2>3, <2>4, <2>5 DEF ReceiveStep
<1>3. ASSUME NEW f \in End, Application(f) \/ Timer(f) \/ Handler(f)
      PROVE  ReceiveSame(e) \/ ReceiveStep(f)
  <2>1. CASE Start(f) \/ RetransmitInit(f)
    BY <2>1 DEF Start, RetransmitInit
  <2>2. ASSUME NEW stream \in Stream, NEW unordered \in Unordered, NEW n \in 1 .. MaxFragments,
               SendData(f, stream, unordered, n)
        PROVE  ReceiveSame(e)
    BY <2>2 DEF SendData
  <2>3. CASE Shutdown(f) \/ SetupTimedOut(f) \/ Handler(f)
    BY <2>3 DEF Shutdown, SetupTimedOut, Handler, ReceiveStep
  <2> QED BY <1>3, <2>1, <2>2, <2>3 DEF Application, Timer
<1>4. ASSUME NEW f \in End, NEW p \in net[f], HandlePacket(f, p) \/ Ignore(f, p) \/ Lose(f, p)
      PROVE  ReceiveSame(e) \/ ReceiveStep(f)
  <2>1. CASE HandleCookieEcho(f, p) \/ HandleCookieAck(f, p) \/ HandleSack(f, p)
               \/ Ignore(f, p) \/ Lose(f, p)
    BY <2>1 DEF HandleCookieEcho, HandleCookieAck, HandleSack, Ignore, Lose
  <2>2. CASE HandleShutdown(f, p)
    BY <2>2 DEF HandleShutdown, ReceiveStep
  <2> QED BY <1>4, <2>1, <2>2 DEF HandlePacket, ReceiveStep
<1> QED BY <1>1, <1>2, <1>3, <1>4 DEF Next, Network

LEMMA ReleasedForGood ==
    ASSUME TypeOK, [Next]_vars, NEW e \in End, ~released'[e] PROVE ~released[e]
<1>1. CASE ReceiveSame(e)
  BY <1>1 DEF ReceiveSame
<1>2. CASE Release(e)
  BY <1>2 DEF Release, TypeOK
<1>3. CASE ReceiveStep(e) /\ ~Release(e)
  BY <1>3 DEF ReceiveStep, Acknowledge, Drain, HandleInit, HandleInitAck, BufferData, ReceiveData
<1> QED BY <1>1, <1>2, <1>3, ReceiveSide

\* The log only grows, and what is added to it waits to be acknowledged.
LEMMA LogGrows ==
    ASSUME InductiveInv, InductiveInv', NEW f \in End, [Next]_vars
    PROVE  /\ \A i \in DOMAIN log[f] : i \in DOMAIN log'[f] /\ log'[f][i] = log[f][i]
           /\ \A i \in DOMAIN log'[f] :
                i \in DOMAIN log[f] \/ log'[f][i].tsn \in sentQueue'[f]
<1>1. CASE UNCHANGED transmit
  BY <1>1 DEF transmit
<1>2. ASSUME NEW e \in End, NEW stream \in Stream, NEW unordered \in Unordered,
             NEW n \in 1 .. MaxFragments, SendData(e, stream, unordered, n)
      PROVE  /\ \A i \in DOMAIN log[f] : i \in DOMAIN log'[f] /\ log'[f][i] = log[f][i]
             /\ \A i \in DOMAIN log'[f] :
                  i \in DOMAIN log[f] \/ log'[f][i].tsn \in sentQueue'[f]
  <2> DEFINE chunks == Fragmented(e, stream, unordered, n)
  <2>1. /\ log' = [log EXCEPT ![e] = @ \o chunks]
        /\ sentQueue' = [sentQueue EXCEPT ![e] = @ \cup {chunks[j].tsn : j \in 1 .. n}]
        /\ Len(log[e]) + n <= MaxChunks[e]
    BY <1>2 DEF SendData
  <2>2. CASE f # e
    BY <2>1, <2>2 DEF InductiveInv, TypeOK
  <2>3. CASE f = e
    <3>1. chunks \in Seq(Chunk) /\ Len(chunks) = n /\ n \in Nat /\ log[e] \in Seq(Chunk)
      <4>1. chunks \in Seq(Chunk) /\ Len(chunks) = n
        BY <2>1, FragmentedType DEF InductiveInv
      <4> QED BY <4>1, AssociationAssumption DEF InductiveInv, TypeOK
    <3>2. log'[e] = log[e] \o chunks /\ \A j \in 1 .. n : chunks[j].tsn \in sentQueue'[e]
      BY <2>1 DEF InductiveInv, TypeOK
    <3> HIDE DEF chunks
    <3>3. /\ Len(log'[e]) = Len(log[e]) + n
          /\ \A i \in 1 .. Len(log[e]) : log'[e][i] = log[e][i]
          /\ \A j \in 1 .. n : log'[e][Len(log[e]) + j] = chunks[j]
      BY <3>1, <3>2, ConcatElements
    <3>4. DOMAIN log[e] = 1 .. Len(log[e]) /\ Len(log[e]) \in Nat
          /\ DOMAIN log'[e] = 1 .. (Len(log[e]) + n)
      BY <3>1, <3>3, LogBounds, ElementProperties DEF InductiveInv, TypeOK
    <3>5. ASSUME NEW i \in 1 .. (Len(log[e]) + n), ~(i \in 1 .. Len(log[e]))
          PROVE  log'[e][i].tsn \in sentQueue'[e]
      <4>1. i - Len(log[e]) \in 1 .. n /\ Len(log[e]) + (i - Len(log[e])) = i
        BY <3>1, <3>4, <3>5
      <4> QED BY <3>2, <3>3, <4>1
    <3> QED BY <2>3, <3>1, <3>3, <3>4, <3>5
  <2> QED BY <2>2, <2>3
<1> QED BY <1>1, <1>2, LogUnchanged

\* A TSN leaves the queue for a SACK only, or with the whole of it.
LEMMA QueueShrinks ==
    ASSUME TypeOK, NEW f \in End, [Next]_vars, NEW t \in sentQueue[f], t \notin sentQueue'[f]
    PROVE  released'[f] \/ \E p \in net[f] : p.type = "SACK" /\ t \in Acked(p)
<1>1. CASE UNCHANGED vars
  BY <1>1 DEF vars
<1>2. ASSUME NEW e \in End, Release(e) PROVE released'[f]
  BY <1>2 DEF Release, TypeOK
<1>3. ASSUME NEW e \in End, Application(e) \/ Timer(e) \/ Handler(e) PROVE released'[f]
  <2>1. CASE Start(e) \/ RetransmitInit(e) \/ Handler(e)
    BY <2>1 DEF Start, RetransmitInit, Handler, Drain, Acknowledge
  <2>2. ASSUME NEW stream \in Stream, NEW unordered \in Unordered, NEW n \in 1 .. MaxFragments,
               SendData(e, stream, unordered, n)
        PROVE  FALSE
    BY <2>2 DEF SendData, TypeOK
  <2> QED BY <1>2, <1>3, <2>1, <2>2 DEF Application, Timer, Shutdown, SetupTimedOut
<1>4. ASSUME NEW e \in End, NEW p \in net[e], HandlePacket(e, p) \/ Ignore(e, p) \/ Lose(e, p)
      PROVE  released'[f] \/ (e = f /\ p.type = "SACK" /\ t \in Acked(p))
  <2>1. CASE HandleSack(e, p)
    BY <2>1 DEF HandleSack, TypeOK
  <2>2. CASE HandleShutdown(e, p)
    BY <1>2, <2>2 DEF HandleShutdown
  <2>3. CASE ~HandleSack(e, p) /\ ~HandleShutdown(e, p)
    BY <1>4, <2>3 DEF HandlePacket, HandleInit, HandleInitAck, HandleCookieEcho,
       HandleCookieAck, BufferData, ReceiveData, Ignore, Lose
  <2> QED BY <2>1, <2>2, <2>3
<1> QED BY <1>1, <1>3, <1>4 DEF Next, Network
-----------------------------------------------------------------------------
(* The invariant, step by step.                                            *)

\* A step that consumes takes the chunk that is next in sequence.
LEMMA ConsumeStep ==
    ASSUME InductiveInv, HandlerKnows, NEW e \in End,
           Drain(e) \/ \E p \in net[e] : ReceiveData(e, p)
    PROVE  /\ peerCumulativeTSN[e] # NoTSN /\ peerCumulativeTSN'[e] = Expected(e)
           /\ inHandler'[e] /\ UNCHANGED log
           /\ \E i \in DOMAIN log[Peer(e)] : log[Peer(e)][i].tsn = Expected(e)
           /\ \A t \in Buffered(e) : t = Expected(e) \/ t \in Buffered(e)'
           /\ \E c : Consume(e, c)
<1> USE DEF InductiveInv
<1>1. CASE Drain(e)
  <2>1. PICK i \in DOMAIN receivedOutOfOrder[e] :
          /\ receivedOutOfOrder[e][i].tsn = Expected(e)
          /\ receivedOutOfOrder'[e] = RemoveAt(receivedOutOfOrder[e], i)
          /\ Consume(e, receivedOutOfOrder[e][i])
    BY <1>1 DEF Drain, TypeOK
  <2>2. receivedOutOfOrder[e] \in Seq(Chunk)
    BY DEF TypeOK
  <2>3. \A k \in DOMAIN receivedOutOfOrder[e] : k # i =>
          \E j \in DOMAIN receivedOutOfOrder'[e] :
            receivedOutOfOrder'[e][j] = receivedOutOfOrder[e][k]
    BY <2>1, <2>2, RemoveAtProperties
  <2>4. \A t \in Buffered(e) : t = Expected(e) \/ t \in Buffered(e)'
    BY <2>1, <2>3 DEF Buffered
  <2>5. \E j \in DOMAIN log[Peer(e)] : log[Peer(e)][j].tsn = Expected(e)
    BY <2>1 DEF GenuineInv
  <2>6. /\ peerCumulativeTSN[e] # NoTSN /\ peerCumulativeTSN'[e] = Expected(e)
        /\ inHandler'[e] /\ UNCHANGED log
    BY <1>1 DEF Drain, HandlerKnows, TypeOK, transmit
  <2> QED BY <2>1, <2>4, <2>5, <2>6
<1>2. ASSUME NEW p \in net[e], ReceiveData(e, p)
      PROVE  /\ peerCumulativeTSN[e] # NoTSN /\ peerCumulativeTSN'[e] = Expected(e)
             /\ inHandler'[e] /\ UNCHANGED log
             /\ \E i \in DOMAIN log[Peer(e)] : log[Peer(e)][i].tsn = Expected(e)
             /\ \A t \in Buffered(e) : t = Expected(e) \/ t \in Buffered(e)'
             /\ \E c : Consume(e, c)
  <2>1. PICK i \in DOMAIN log[Peer(e)] : p.chunk = log[Peer(e)][i]
    BY <1>2 DEF ReceiveData, GenuineInv
  <2>2. log[Peer(e)] # <<>> /\ Peer(e) \in End
    BY <2>1, PeerProperties
  <2>3. peerCumulativeTSN[e] # NoTSN
    BY <2>2 DEF SetupInv, BothKnown
  <2> QED BY <1>2, <2>1, <2>3 DEF ReceiveData, TypeOK, transmit, Buffered
<1> QED BY <1>1, <1>2

\* What an end holds it keeps until it has consumed it.
LEMMA HeldKept ==
    ASSUME InductiveInv, InductiveInv', OnceInv, HandlerKnows, [Next]_vars, NEW e \in End,
           ~released'[e], NEW i \in DOMAIN log[Peer(e)], HeldAt(e, i)
    PROVE  HeldAt(e, i)'
<1> USE DEF InductiveInv
<1> DEFINE f == Peer(e)
<1>1. f \in End /\ i \in DOMAIN log'[f] /\ log'[f][i] = log[f][i]
  BY PeerProperties, LogGrows
<1>2. CASE peerCumulativeTSN'[e] = peerCumulativeTSN[e] /\ Buffered(e) \subseteq Buffered(e)'
  <2>1. Consumed(e)' = Consumed(e)
    BY <1>2 DEF Consumed
  <2> QED BY <1>1, <1>2, <2>1 DEF HeldAt
<1>3. CASE Drain(e) \/ \E p \in net[e] : ReceiveData(e, p)
  <2>1. PICK k \in DOMAIN log[f] : log[f][k].tsn = Expected(e)
    BY <1>3, ConsumeStep
  <2>2. /\ peerCumulativeTSN[e] # NoTSN /\ peerCumulativeTSN'[e] = Expected(e)
        /\ \A t \in Buffered(e) : t = Expected(e) \/ t \in Buffered(e)'
    BY <1>3, ConsumeStep
  <2>3. k = Consumed(e) + 1 /\ Consumed(e)' = Consumed(e) + 1 /\ Consumed(e) \in Int
    BY <2>1, <2>2, Advance, ConsumedIndex
  <2>4. i \in Nat
    BY <1>1, TSNPlace
  <2>5. CASE i <= Consumed(e)
    BY <2>3, <2>4, <2>5 DEF HeldAt
  <2>6. CASE log[f][i].tsn \in Buffered(e) /\ log[f][i].tsn = Expected(e)
    <3>1. i = k
      BY <1>1, <2>1, <2>6, TSNPlace
    <3> QED BY <2>3, <2>4, <3>1 DEF HeldAt
  <2>7. CASE log[f][i].tsn \in Buffered(e) /\ log[f][i].tsn # Expected(e)
    BY <1>1, <2>2, <2>7 DEF HeldAt
  <2> QED BY <2>5, <2>6, <2>7 DEF HeldAt
<1>4. CASE \E p \in net[e] : HandleInit(e, p) \/ HandleInitAck(e, p)
  <2>1. log[f] = <<>>
    BY <1>4, NothingYet
  <2> QED BY <2>1
<1>5. CASE \E p \in net[e] : BufferData(e, p)
  <2>1. PICK p \in net[e] : BufferData(e, p)
    BY <1>5
  <2>2. receivedOutOfOrder[e] \in Seq(Chunk) /\ p.chunk \in Chunk
    BY <2>1, PacketFields DEF TypeOK, BufferData
  <2>3. /\ receivedOutOfOrder'[e] \in
             {receivedOutOfOrder[e], Append(receivedOutOfOrder[e], p.chunk)}
        /\ peerCumulativeTSN'[e] = peerCumulativeTSN[e]
    BY <2>1 DEF BufferData, TypeOK
  <2>4. \A k \in DOMAIN receivedOutOfOrder[e] :
          k \in DOMAIN Append(receivedOutOfOrder[e], p.chunk)
          /\ Append(receivedOutOfOrder[e], p.chunk)[k] = receivedOutOfOrder[e][k]
    BY <2>2
  <2>5. Buffered(e) \subseteq Buffered(e)'
    BY <2>3, <2>4 DEF Buffered
  <2> QED BY <1>2, <2>3, <2>5
<1>6. CASE ReceiveSame(e) \/ Acknowledge(e)
  BY <1>2, <1>6 DEF ReceiveSame, Acknowledge, receive, Buffered
<1>7. ~Release(e)
  BY DEF Release, TypeOK
<1> QED BY <1>3, <1>4, <1>5, <1>6, <1>7, ReceiveSide DEF ReceiveStep

LEMMA HandedKept ==
    ASSUME InductiveInv, InductiveInv', OnceInv, HandlerKnows, HandedAll, [Next]_vars
    PROVE  HandedAll'
<1> USE DEF InductiveInv
<1> SUFFICES ASSUME NEW e \in End PROVE handed'[e] = Len(delivered'[e])
  BY DEF HandedAll
<1>1. handed[e] = Len(delivered[e]) /\ handed[e] \in Nat
  BY DEF HandedAll, TypeOK
<1>2. CASE Drain(e) \/ \E p \in net[e] : ReceiveData(e, p)
  <2>1. PICK c : Consume(e, c)
    BY <1>2, ConsumeStep
  <2>2. handed'[e] = IF Len(delivered'[e]) > handed[e] THEN Len(delivered'[e]) ELSE handed[e]
    BY <2>1 DEF Consume, TypeOK
  <2>3. CASE delivered'[e] = delivered[e]
    BY <1>1, <2>2, <2>3
  <2>4. CASE delivered'[e] # delivered[e]
    <3>1. PICK m : delivered'[e] = Append(delivered[e], m)
      BY <2>1, <2>4 DEF Consume, TypeOK
    <3>2. Len(delivered'[e]) = Len(delivered[e]) + 1
      BY <3>1 DEF TypeOK
    <3> QED BY <1>1, <2>2, <3>2
  <2> QED BY <2>3, <2>4
<1>3. CASE \E p \in net[e] : HandleInit(e, p) \/ HandleInitAck(e, p)
  <2>1. delivered[e] = <<>>
    BY <1>3, NothingYet
  <2> QED BY <1>1, <1>3, <2>1 DEF HandleInit, HandleInitAck, TypeOK
<1>4. CASE ReceiveSame(e) \/ Release(e) \/ Acknowledge(e) \/ \E p \in net[e] : BufferData(e, p)
  BY <1>1, <1>4 DEF ReceiveSame, Release, Acknowledge, BufferData, receive
<1> QED BY <1>2, <1>3, <1>4, ReceiveSide DEF ReceiveStep

LEMMA HandlerKept ==
    ASSUME InductiveInv, InductiveInv', OnceInv, HandlerKnows, DrainComplete, [Next]_vars
    PROVE  HandlerKnows' /\ DrainComplete'
<1> USE DEF InductiveInv
<1> SUFFICES ASSUME NEW e \in End
             PROVE  /\ inHandler'[e] => peerCumulativeTSN'[e] # NoTSN
                    /\ ~inHandler'[e] => Expected(e)' \notin Buffered(e)'
  BY DEF HandlerKnows, DrainComplete
<1>1. /\ inHandler[e] => peerCumulativeTSN[e] # NoTSN
      /\ ~inHandler[e] => Expected(e) \notin Buffered(e)
  BY DEF HandlerKnows, DrainComplete
<1>2. CASE Drain(e) \/ \E p \in net[e] : ReceiveData(e, p)
  <2>1. inHandler'[e] /\ peerCumulativeTSN'[e] = Expected(e) /\ Expected(e) \in TSN
    BY <1>2, ConsumeStep, ExpectedInTSN
  <2> QED BY <2>1, EndFacts
<1>3. CASE \E p \in net[e] : HandleInit(e, p) \/ HandleInitAck(e, p)
  <2>1. DOMAIN receivedOutOfOrder[e] = {}
    BY <1>3, NothingYet
  <2>2. receivedOutOfOrder'[e] = receivedOutOfOrder[e] /\ ~inHandler'[e]
    BY <1>3 DEF HandleInit, HandleInitAck, Exchange
  <2> QED BY <2>1, <2>2 DEF Buffered
<1>4. CASE ReceiveSame(e)
  BY <1>1, <1>4 DEF ReceiveSame, Expected, CumulativeTSN, Buffered
<1>5. CASE Release(e)
  <2>1. receivedOutOfOrder'[e] = <<>> /\ UNCHANGED <<inHandler, peerCumulativeTSN>>
    BY <1>5 DEF Release, TypeOK
  <2>2. Buffered(e)' = {}
    BY <2>1 DEF Buffered
  <2> QED BY <1>1, <2>1, <2>2
<1>6. CASE Acknowledge(e)
  BY <1>6 DEF Acknowledge, Drained, receive, TypeOK, Expected, CumulativeTSN, Buffered
<1>7. CASE \E p \in net[e] : BufferData(e, p)
  <2>1. PICK p \in net[e] : BufferData(e, p)
    BY <1>7
  <2>2. receivedOutOfOrder[e] \in Seq(Chunk) /\ p.chunk \in Chunk
    BY <2>1, PacketFields DEF TypeOK, BufferData
  <2>3. /\ receivedOutOfOrder'[e] \in
             {receivedOutOfOrder[e], Append(receivedOutOfOrder[e], p.chunk)}
        /\ p.chunk.tsn # Expected(e) /\ ~inHandler[e] /\ ~inHandler'[e]
        /\ UNCHANGED peerCumulativeTSN
    BY <2>1 DEF BufferData, Exchange, TypeOK
  <2>4. \A k \in DOMAIN Append(receivedOutOfOrder[e], p.chunk) :
          \/ Append(receivedOutOfOrder[e], p.chunk)[k] = p.chunk
          \/ \E i \in DOMAIN receivedOutOfOrder[e] :
               Append(receivedOutOfOrder[e], p.chunk)[k] = receivedOutOfOrder[e][i]
    BY <2>2
  <2>5. \A t \in Buffered(e)' : t \in Buffered(e) \/ t = p.chunk.tsn
    BY <2>3, <2>4 DEF Buffered
  <2>6. Expected(e)' = Expected(e)
    BY <2>3 DEF Expected, CumulativeTSN
  <2> QED BY <1>1, <2>3, <2>5, <2>6
<1> QED BY <1>2, <1>3, <1>4, <1>5, <1>6, <1>7, ReceiveSide DEF ReceiveStep

\* A SACK is made of what its sender has received.
LEMMA SackSent ==
    ASSUME InductiveInv, HandlerKnows, NEW e \in End, [Next]_vars, NEW p \in net'[Peer(e)],
           p.type = "SACK", p \notin net[Peer(e)]
    PROVE  /\ peerCumulativeTSN[e] # NoTSN /\ UNCHANGED <<log, peerCumulativeTSN>>
           /\ p \in Sack(CumulativeTSN(e), receivedOutOfOrder'[e])
<1> USE DEF InductiveInv
<1> DEFINE f == Peer(e)
<1>1. f \in End /\ Peer(f) = e
  BY PeerProperties
<1>2. ASSUME NEW g \in End, NEW out, Emit(g, out) \/ \E q \in net[g] : Exchange(g, q, out)
      PROVE  g = e /\ p \in out
  BY <1>1, <1>2, EmitNet, ExchangeNet, TwoEnds
<1>3. ASSUME NEW g \in End, NEW out, Emit(g, out) \/ \E q \in net[g] : Exchange(g, q, out),
             \A q \in out : q.type # "SACK"
      PROVE  FALSE
  BY <1>2, <1>3
<1>4. net' # net
  OBVIOUS
<1>5. ASSUME NEW g \in End, Application(g) \/ Timer(g) \/ Handler(g) PROVE g = e /\ Acknowledge(e)
  <2>1. CASE Start(g) \/ RetransmitInit(g)
    <3>1. PICK out : Emit(g, out) /\ \A q \in out : q.type # "SACK"
      BY <2>1 DEF Start, RetransmitInit, InitPacket, CookieEcho
    <3> QED BY <1>3, <3>1
  <2>2. ASSUME NEW stream \in Stream, NEW unordered \in Unordered, NEW n \in 1 .. MaxFragments,
               SendData(g, stream, unordered, n)
        PROVE  FALSE
    <3>1. PICK out : Emit(g, out) /\ \A q \in out : q.type # "SACK"
      BY <2>2 DEF SendData
    <3> QED BY <1>3, <3>1
  <2>3. CASE Shutdown(g)
    <3>1. PICK out : Emit(g, out) /\ \A q \in out : q.type # "SACK"
      BY <2>3 DEF Shutdown
    <3> QED BY <1>3, <3>1
  <2>4. CASE SetupTimedOut(g) \/ Drain(g)
    BY <1>4, <2>4 DEF SetupTimedOut, Drain
  <2>5. CASE Acknowledge(g)
    BY <1>2, <2>5 DEF Acknowledge
  <2> QED BY <1>5, <2>1, <2>2, <2>3, <2>4, <2>5 DEF Application, Timer, Handler
<1>6. ASSUME NEW g \in End, NEW q \in net[g], HandlePacket(g, q) \/ Ignore(g, q) \/ Lose(g, q)
      PROVE  g = e /\ BufferData(e, q)
  <2>1. CASE HandleInit(g, q) \/ HandleInitAck(g, q) \/ HandleCookieEcho(g, q)
               \/ HandleCookieAck(g, q) \/ ReceiveData(g, q) \/ HandleSack(g, q)
               \/ HandleShutdown(g, q) \/ Ignore(g, q)
    <3>1. PICK out : Exchange(g, q, out) /\ \A r \in out : r.type # "SACK"
      BY <2>1 DEF HandleInit, HandleInitAck, HandleCookieEcho, HandleCookieAck, ReceiveData,
         HandleSack, HandleShutdown, Ignore, CookieEcho
    <3> QED BY <1>3, <3>1
  <2>2. CASE Lose(g, q)
    BY <1>1, <2>2 DEF Lose, TypeOK
  <2>3. CASE BufferData(g, q)
    <3>1. \E out : Exchange(g, q, out)
      BY <2>3 DEF BufferData
    <3> QED BY <1>2, <2>3, <3>1
  <2> QED BY <1>6, <2>1, <2>2, <2>3 DEF HandlePacket
<1>7. CASE Acknowledge(e)
  BY <1>2, <1>7 DEF Acknowledge, HandlerKnows, receive, transmit
<1>8. ASSUME NEW q \in net[e], BufferData(e, q)
      PROVE  /\ peerCumulativeTSN[e] # NoTSN /\ UNCHANGED <<log, peerCumulativeTSN>>
             /\ p \in Sack(CumulativeTSN(e), receivedOutOfOrder'[e])
  <2>1. PICK i \in DOMAIN log[f] : q.chunk = log[f][i]
    BY <1>8 DEF BufferData, GenuineInv
  <2>2. peerCumulativeTSN[e] # NoTSN
    BY <1>1, <2>1 DEF SetupInv, BothKnown
  <2>3. PICK held : Exchange(e, q, Sack(CumulativeTSN(e), held)) /\ receivedOutOfOrder'[e] = held
    BY <1>8 DEF BufferData, TypeOK
  <2>4. p \in Sack(CumulativeTSN(e), held)
    BY <1>2, <2>3
  <2> QED BY <1>8, <2>2, <2>3, <2>4 DEF BufferData, transmit
<1>9. CASE UNCHANGED vars
  BY <1>4, <1>9 DEF vars
<1> QED BY <1>5, <1>6, <1>7, <1>8, <1>9 DEF Next, Network

LEMMA SackKept ==
    ASSUME InductiveInv, InductiveInv', OnceInv, HandlerKnows, SackInv, [Next]_vars
    PROVE  SackInv'
<1> USE DEF InductiveInv
<1> SUFFICES ASSUME NEW e \in End, ~released'[e], NEW p \in net'[Peer(e)], p.type = "SACK",
                    NEW t \in Acked(p), t # Pred(InitialTSN[Peer(e)])
             PROVE  \E i \in DOMAIN log'[Peer(e)] :
                      log'[Peer(e)][i].tsn = t /\ HeldAt(e, i)'
  BY DEF SackInv
<1> DEFINE f == Peer(e)
<1>1. f \in End
  BY PeerProperties
<1>2. CASE p \in net[f]
  <2>1. ~released[e]
    BY ReleasedForGood
  <2>2. PICK i \in DOMAIN log[f] : log[f][i].tsn = t /\ HeldAt(e, i)
    BY <1>2, <2>1 DEF SackInv
  <2>3. i \in DOMAIN log'[f] /\ log'[f][i] = log[f][i]
    BY <1>1, <2>2, LogGrows
  <2>4. HeldAt(e, i)'
    BY <2>2, HeldKept
  <2> QED BY <2>2, <2>3, <2>4
<1>3. CASE p \notin net[f]
  <2>1. /\ peerCumulativeTSN[e] # NoTSN /\ UNCHANGED <<log, peerCumulativeTSN>>
        /\ p \in Sack(CumulativeTSN(e), receivedOutOfOrder'[e])
    BY <1>3, SackSent
  <2>2. /\ CumulativeTSN(e) = peerCumulativeTSN[e] /\ CumulativeTSN(e) \in TSN
        /\ receivedOutOfOrder'[e] \in Seq(Chunk)
    BY <2>1, ConsumedIndex DEF TypeOK
  <2>3. t = CumulativeTSN(e) \/ \E j \in DOMAIN receivedOutOfOrder'[e] :
                                  receivedOutOfOrder'[e][j].tsn = t
    BY <2>1, <2>2, SackCovers
  <2>4. CASE t = CumulativeTSN(e)
    <3>1. PICK i \in DOMAIN log[f] : i = Consumed(e) /\ log[f][i].tsn = t
      BY <2>1, <2>2, <2>4, ConsumedIndex
    <3>2. i \in Int /\ Consumed(e)' = i
      BY <2>1, <3>1, ConsumedIndex DEF Consumed
    <3>3. HeldAt(e, i)'
      BY <3>2 DEF HeldAt
    <3> QED BY <2>1, <3>1, <3>3
  <2>5. CASE \E j \in DOMAIN receivedOutOfOrder'[e] : receivedOutOfOrder'[e][j].tsn = t
    <3>1. PICK j \in DOMAIN receivedOutOfOrder'[e] : receivedOutOfOrder'[e][j].tsn = t
      BY <2>5
    <3>2. PICK i \in DOMAIN log'[f] : receivedOutOfOrder'[e][j] = log'[f][i]
      BY <3>1 DEF GenuineInv
    <3>3. t \in Buffered(e)'
      BY <3>1 DEF Buffered
    <3> QED BY <3>1, <3>2, <3>3 DEF HeldAt
  <2> QED BY <2>3, <2>4, <2>5
<1> QED BY <1>2, <1>3

LEMMA AcknowledgedKept ==
    ASSUME InductiveInv, InductiveInv', OnceInv, HandlerKnows, SackInv, AcknowledgedIsHeld,
           [Next]_vars
    PROVE  AcknowledgedIsHeld'
<1> USE DEF InductiveInv
<1>1. \A e \in End : ~released'[e] => ~released[e]
  BY ReleasedForGood
<1> SUFFICES ASSUME NEW e \in End, ~released'[e], ~released'[Peer(e)],
                    NEW i \in DOMAIN log'[Peer(e)], log'[Peer(e)][i].tsn \notin sentQueue'[Peer(e)]
             PROVE  HeldAt(e, i)'
  BY DEF AcknowledgedIsHeld, HeldAt
<1> DEFINE f == Peer(e)
<1>2. f \in End /\ Peer(f) = e
  BY PeerProperties
<1>3. i \in DOMAIN log[f] /\ log'[f][i] = log[f][i]
  BY <1>2, LogGrows
<1>4. HeldAt(e, i)
  <2>1. CASE log[f][i].tsn \in sentQueue[f]
    <3>1. PICK p \in net[f] : p.type = "SACK" /\ log[f][i].tsn \in Acked(p)
      BY <1>2, <1>3, <2>1, QueueShrinks
    <3>2. log[f][i].tsn # Pred(InitialTSN[f])
      BY <1>2, <1>3, TSNPlace
    <3>3. PICK k \in DOMAIN log[f] : log[f][k].tsn = log[f][i].tsn /\ HeldAt(e, k)
      BY <1>1, <3>1, <3>2 DEF SackInv
    <3>4. k = i
      BY <1>2, <1>3, <3>3, TSNPlace
    <3> QED BY <3>3, <3>4
  <2>2. CASE log[f][i].tsn \notin sentQueue[f]
    BY <1>1, <1>2, <1>3, <2>2 DEF AcknowledgedIsHeld, HeldAt
  <2> QED BY <2>1, <2>2
<1> QED BY <1>3, <1>4, HeldKept

LEMMA PromptInductive == ASSUME SetupOnce PROVE Spec => []PromptInv
<1>1. Init => /\ HandedAll /\ HandlerKnows /\ DrainComplete
              /\ SackInv /\ AcknowledgedIsHeld
  <2> SUFFICES ASSUME Init
               PROVE  /\ HandedAll /\ HandlerKnows /\ DrainComplete
                      /\ SackInv /\ AcknowledgedIsHeld
    OBVIOUS
  <2>1. DOMAIN <<>> = {} /\ Len(<<>>) = 0
    OBVIOUS
  <2> QED BY <2>1, PeerProperties
          DEF Init, HandedAll, HandlerKnows, DrainComplete, Buffered, SackInv, AcknowledgedIsHeld
<1>2. PromptInv /\ InductiveInv' /\ OnceInv' /\ [Next]_vars => PromptInv'
  BY HandedKept, HandlerKept, SackKept, AcknowledgedKept DEF PromptInv
<1>3. InductiveInv /\ OnceInv /\ HandedAll /\ HandlerKnows /\ DrainComplete
        /\ SackInv /\ AcknowledgedIsHeld => PromptInv
  BY DEF PromptInv
<1> QED BY <1>1, <1>2, <1>3, Inductive, OnceHolds, PTL DEF Spec

\* No message is handed over twice: this is what a setup packet that is late, or
\* that the network duplicates, breaks (association.ts #handleInit resets the
\* cumulative TSN).
THEOREM DeliversOnce == ASSUME SetupOnce PROVE Spec => DeliveredOnce
<1>1. PromptInv /\ [Next]_vars =>
        [\A e \in End : Len(delivered'[e]) > Len(delivered[e])
                          => Len(delivered'[e]) > handed[e]]_vars
  BY DEF PromptInv, HandedAll
<1> QED BY <1>1, PromptInductive, PTL DEF Spec, DeliveredOnce

\* A handler ends only when no buffered chunk is next in sequence, and none
\* becomes so between two handlers.
THEOREM DrainsAll == ASSUME SetupOnce PROVE Spec => []DrainComplete
<1>1. PromptInv => DrainComplete
  BY DEF PromptInv
<1> QED BY <1>1, PromptInductive, PTL

\* A chunk that its sender no longer waits for has been consumed by the receiver
\* or waits behind the gap there, although snLte is no order and a gap block may
\* be left out.
THEOREM AcknowledgesHeld == ASSUME SetupOnce PROVE Spec => []AcknowledgedIsHeld
<1>1. PromptInv => AcknowledgedIsHeld
  BY DEF PromptInv
<1> QED BY <1>1, PromptInductive, PTL
=============================================================================
