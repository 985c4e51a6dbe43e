--------------------------- MODULE SctpAssociation ---------------------------
(***************************************************************************)
(* The two ends of an SCTP association (src/src/sctp/association.ts) over  *)
(* the datagrams of a DTLS connection, which has no replay protection: a   *)
(* packet may be lost, duplicated and overtaken.  One action per handler,  *)
(* timer and API call.                                                     *)
(*                                                                         *)
(* JavaScript runs a handler to its end, but every 'message' event is a    *)
(* synchronous callback into the application, which may send or shut down  *)
(* from inside it.  The handler of a DATA chunk is therefore as many steps *)
(* as it emits events (ReceiveData, Drain, Acknowledge), with inHandler[e] *)
(* keeping every other packet and timer of that end out until it is done.  *)
(*                                                                         *)
(* An operator introduced by "Planted bug" is not part of the model: it is *)
(* the next definition with a mistake in it, which the properties notice.  *)
(***************************************************************************)
EXTENDS SctpSerial, SequencesExt

CONSTANTS
    Client, Server,     \* the two ends; the DTLS client initiates
    Stream,             \* stream identifiers
    SSNMod,             \* 2^16: stream sequence numbers wrap here
    InitialTSN,         \* the random first TSN each end has drawn
    MAX_OOO_CHUNKS,     \* 874: cap on chunks buffered behind a gap
    MaxOffset,          \* 0xffff: what a gap block's 16-bit fields hold
    MaxAttempts,        \* 8: retransmissions before the setup is given up
    Losable,            \* types of packet that the network may lose
    Duplicable,         \* types of packet that the network may duplicate
    Prompt,             \* no setup packet is in flight when the timer fires
    Unordered,          \* the values of the unordered option that are used
    MaxFragments,       \* bound: fragments of a message
    MaxChunks,          \* bound: DATA chunks each end sends, below 2^32
    MayShutdown         \* ends whose application shuts the association down

End == {Client, Server}
Peer(e) == IF e = Client THEN Server ELSE Client

PacketType == {"INIT", "INIT_ACK", "COOKIE_ECHO", "COOKIE_ACK",
               "DATA", "SACK", "SHUTDOWN", "SHUTDOWN_ACK"}
SetupType == {"INIT", "INIT_ACK", "COOKIE_ECHO", "COOKIE_ACK"}

ASSUME AssociationAssumption ==
    /\ Client # Server
    /\ SSNMod \in Nat \ {0}
    /\ InitialTSN \in [End -> TSN]
    /\ MAX_OOO_CHUNKS \in Nat
    /\ MaxOffset \in Nat
    /\ MaxOffset < TSNMod
    /\ MaxAttempts \in Nat
    /\ Losable \subseteq PacketType
    /\ Duplicable \subseteq PacketType
    /\ Prompt \in BOOLEAN
    /\ Unordered \subseteq BOOLEAN
    /\ MaxFragments \in Nat \ {0}
    /\ MaxChunks \in [End -> Nat]
    /\ \A e \in End : MaxChunks[e] < TSNMod
    /\ MayShutdown \subseteq End

VARIABLES
    state,              \* CLOSED, COOKIE_WAIT, COOKIE_ECHOED or ESTABLISHED
    initTimer,          \* whether the setup retransmission timer is armed
    attempts,           \* how often it has retransmitted since it was armed
    localTSN,           \* the next TSN to send
    nextSSN,            \* the next stream sequence number, for each stream
    sentQueue,          \* TSNs that wait to be acknowledged
    peerCumulativeTSN,  \* highest TSN received in sequence, or NoTSN
    receivedOutOfOrder, \* chunks behind a gap, in order of arrival
    fragments,          \* the parts of the messages being reassembled
    inHandler,          \* in the handler of a DATA chunk, between two events
    dtlsFailed,         \* an exception has escaped and failed the DTLS below
    net,                \* packets in flight TO each end
    sent, log,          \* history: messages and DATA chunks an end has sent
    delivered,          \* history: messages handed over since the last INIT,
                        \*   until the association closes
    handed,             \* history: the most that delivered has ever held
    released            \* history: the buffers were released by a close

transmit == <<localTSN, nextSSN, sent, log>>
receive  == <<peerCumulativeTSN, receivedOutOfOrder, fragments, delivered, handed>>
setup    == <<state, initTimer, attempts>>
vars == <<setup, transmit, receive, sentQueue, inHandler, dtlsFailed, net, released>>

NoTSN == -1          \* null in the code
State == {"CLOSED", "COOKIE_WAIT", "COOKIE_ECHOED", "ESTABLISHED"}
\* The buffer of a stream's ordered or unordered message under reassembly.
Key == Stream \X BOOLEAN
KeyOf(c) == <<c.stream, c.unordered>>
-----------------------------------------------------------------------------
\* A fragment of user data is the message it belongs to and its place there.
Part == (Nat \ {0}) \X (Nat \ {0})
Message == [stream : Stream, parts : Seq(Part)]
\* The i-th message an end sends, whole.
WholeMessage(i, stream, n) == [stream |-> stream, parts |-> [j \in 1 .. n |-> <<i, j>>]]
WholeMessages ==
    {WholeMessage(i, stream, n) : i \in 1 .. TSNMod, stream \in Stream, n \in 1 .. MaxFragments}
Chunk == [tsn : TSN, stream : Stream, ssn : 0 .. (SSNMod - 1), part : Part,
          unordered : BOOLEAN, beginning : BOOLEAN, ending : BOOLEAN]
Packet ==
    [type : {"INIT", "INIT_ACK"}, initialTSN : TSN]
      \cup [type : {"COOKIE_ECHO", "COOKIE_ACK", "SHUTDOWN", "SHUTDOWN_ACK"}]
      \cup [type : {"DATA"}, chunk : Chunk]
      \cup [type : {"SACK"}, cumulativeTSNAck : TSN,
            gapBlocks : SUBSET ((0 .. MaxOffset) \X (0 .. MaxOffset))]

Init ==
    /\ state = [e \in End |-> "CLOSED"]
    /\ initTimer = [e \in End |-> FALSE]
    /\ attempts = [e \in End |-> 0]
    /\ localTSN = InitialTSN
    /\ nextSSN = [e \in End |-> [s \in Stream |-> 0]]
    /\ sentQueue = [e \in End |-> {}]
    /\ peerCumulativeTSN = [e \in End |-> NoTSN]
    /\ receivedOutOfOrder = [e \in End |-> <<>>]
    /\ fragments = [e \in End |-> [k \in Key |-> <<>>]]
    /\ inHandler = [e \in End |-> FALSE]
    /\ dtlsFailed = [e \in End |-> FALSE]
    /\ net = [e \in End |-> {}]
    /\ sent = [e \in End |-> <<>>]
    /\ log = [e \in End |-> <<>>]
    /\ delivered = [e \in End |-> <<>>]
    /\ handed = [e \in End |-> 0]
    /\ released = [e \in End |-> FALSE]
-----------------------------------------------------------------------------
(* The network.  A failed DTLS connection neither sends nor receives.      *)

Emit(e, out) ==
    net' = IF dtlsFailed[e] THEN net
           ELSE [net EXCEPT ![Peer(e)] = @ \cup out]

\* End e receives p and answers.  A packet that may be duplicated stays, to be
\* received again until it is lost.
Exchange(e, p, out) ==
    /\ p \in net[e]
    /\ ~inHandler[e]
    /\ ~dtlsFailed[e]
    /\ net' = [net EXCEPT ![e] = IF p.type \in Duplicable THEN @ ELSE @ \ {p},
                          ![Peer(e)] = @ \cup out]

Lose(e, p) ==
    /\ p \in net[e]
    /\ p.type \in Losable
    /\ net' = [net EXCEPT ![e] = @ \ {p}]
    /\ UNCHANGED <<setup, transmit, receive, sentQueue, inHandler, dtlsFailed, released>>
-----------------------------------------------------------------------------
(* Setup: the four-way handshake and its retransmission timer.             *)

\* A timer that has fired its last time closes the association with an error,
\* as a close does without one: nothing is sent.
Release(e) ==
    /\ state' = [state EXCEPT ![e] = "CLOSED"]
    /\ initTimer' = [initTimer EXCEPT ![e] = FALSE]
    /\ sentQueue' = [sentQueue EXCEPT ![e] = {}]
    /\ receivedOutOfOrder' = [receivedOutOfOrder EXCEPT ![e] = <<>>]
    /\ fragments' = [fragments EXCEPT ![e] = [k \in Key |-> <<>>]]
    /\ released' = [released EXCEPT ![e] = TRUE]
    /\ UNCHANGED <<attempts, transmit, peerCumulativeTSN, delivered, handed, inHandler,
                   dtlsFailed>>

\* Planted bug: the timer is armed for the INIT only.
ArmForInitOnly(e) ==
    /\ initTimer' = [initTimer EXCEPT ![e] = state[e] = "CLOSED"]
    /\ attempts' = [attempts EXCEPT ![e] = 0]

ArmInitRetransmit(e) ==
    /\ initTimer' = [initTimer EXCEPT ![e] = TRUE]
    /\ attempts' = [attempts EXCEPT ![e] = 0]

InitPacket(e) == [type |-> "INIT", initialTSN |-> localTSN[e]]
CookieEcho == [type |-> "COOKIE_ECHO"]

\* Called once, when the DTLS connection is up.
Start(e) ==
    /\ e = Client
    /\ state[e] = "CLOSED"
    /\ ~released[e]
    /\ Emit(e, {InitPacket(e)})
    /\ ArmInitRetransmit(e)
    /\ state' = [state EXCEPT ![e] = "COOKIE_WAIT"]
    /\ UNCHANGED <<transmit, receive, sentQueue, inHandler, dtlsFailed, released>>

TimerFires(e) ==
    /\ initTimer[e]
    /\ ~inHandler[e]
    /\ state[e] \in {"COOKIE_WAIT", "COOKIE_ECHOED"}
    /\ Prompt => \A f \in End : \A p \in net[f] : p.type \notin SetupType

RetransmitInit(e) ==
    /\ TimerFires(e)
    /\ attempts[e] < MaxAttempts
    /\ attempts' = [attempts EXCEPT ![e] = @ + 1]
    /\ Emit(e, {IF state[e] = "COOKIE_ECHOED" THEN CookieEcho ELSE InitPacket(e)})
    /\ UNCHANGED <<state, initTimer, transmit, receive, sentQueue, inHandler, dtlsFailed, released>>

SetupTimedOut(e) ==
    /\ TimerFires(e)
    /\ attempts[e] >= MaxAttempts
    /\ Release(e)
    /\ UNCHANGED net

\* Planted bug: an INIT_ACK does not make the peer's first TSN known.
LearnFromInit(e, p) ==
    peerCumulativeTSN' =
        IF p.type = "INIT" THEN [peerCumulativeTSN EXCEPT ![e] = Pred(p.initialTSN)]
        ELSE peerCumulativeTSN

LearnPeerTSN(e, p) ==
    peerCumulativeTSN' = [peerCumulativeTSN EXCEPT ![e] = Pred(p.initialTSN)]

\* In whatever state it comes, an INIT makes its sender's first TSN the next one
\* expected.  What was buffered stays.
HandleInit(e, p) ==
    /\ p.type = "INIT"
    /\ Exchange(e, p, {[type |-> "INIT_ACK", initialTSN |-> localTSN[e]]})
    /\ LearnPeerTSN(e, p)
    /\ delivered' = [delivered EXCEPT ![e] = <<>>]
    /\ UNCHANGED <<setup, transmit, receivedOutOfOrder, fragments, handed, sentQueue,
                   inHandler, dtlsFailed, released>>

HandleInitAck(e, p) ==
    /\ p.type = "INIT_ACK"
    /\ state[e] = "COOKIE_WAIT"
    /\ Exchange(e, p, {CookieEcho})
    /\ LearnPeerTSN(e, p)
    /\ ArmInitRetransmit(e)
    /\ state' = [state EXCEPT ![e] = "COOKIE_ECHOED"]
    /\ UNCHANGED <<transmit, receivedOutOfOrder, fragments, delivered, handed, sentQueue,
                   inHandler, dtlsFailed, released>>

\* Planted bug: the server answers the cookie and stays where it is.
AnswerCookieEcho(e, p) ==
    /\ p.type = "COOKIE_ECHO"
    /\ Exchange(e, p, {[type |-> "COOKIE_ACK"]})
    /\ UNCHANGED <<setup, transmit, receive, sentQueue, inHandler, dtlsFailed, released>>

\* The cookie in flight is the one the server made, so its MAC is right.  A
\* server that has closed opens again.
HandleCookieEcho(e, p) ==
    /\ p.type = "COOKIE_ECHO"
    /\ Exchange(e, p, {[type |-> "COOKIE_ACK"]})
    /\ state' = [state EXCEPT ![e] = "ESTABLISHED"]
    /\ UNCHANGED <<initTimer, attempts, transmit, receive, sentQueue, inHandler,
                   dtlsFailed, released>>

HandleCookieAck(e, p) ==
    /\ p.type = "COOKIE_ACK"
    /\ state[e] = "COOKIE_ECHOED"
    /\ Exchange(e, p, {})
    /\ initTimer' = [initTimer EXCEPT ![e] = FALSE]
    /\ state' = [state EXCEPT ![e] = "ESTABLISHED"]
    /\ UNCHANGED <<attempts, transmit, receive, sentQueue, inHandler, dtlsFailed, released>>

\* A packet whose handler returns at once in this state.
Ignore(e, p) ==
    /\ \/ p.type = "INIT_ACK" /\ state[e] # "COOKIE_WAIT"
       \/ p.type = "COOKIE_ACK" /\ state[e] # "COOKIE_ECHOED"
       \/ p.type = "SHUTDOWN_ACK"
    /\ Exchange(e, p, {})
    /\ UNCHANGED <<setup, transmit, receive, sentQueue, inHandler, dtlsFailed, released>>
-----------------------------------------------------------------------------
(* Sending a user message: one DATA chunk for each fragment, a packet each. *)

\* The chunks of the next message, of n fragments.
Fragmented(e, stream, unordered, n) ==
    [j \in 1 .. n |->
        [tsn |-> Plus(localTSN[e], j - 1),
         stream |-> stream,
         ssn |-> IF unordered THEN 0 ELSE nextSSN[e][stream],
         part |-> <<Len(sent[e]) + 1, j>>,
         unordered |-> unordered,
         beginning |-> j = 1,
         ending |-> j = n]]

SendData(e, stream, unordered, n) ==
    LET chunks == Fragmented(e, stream, unordered, n) IN
    /\ state[e] = "ESTABLISHED"
    /\ Len(log[e]) + n <= MaxChunks[e]
    /\ nextSSN' = IF unordered THEN nextSSN
                  ELSE [nextSSN EXCEPT ![e][stream] = IF @ + 1 = SSNMod THEN 0 ELSE @ + 1]
    /\ localTSN' = [localTSN EXCEPT ![e] = Plus(@, n)]
    /\ sentQueue' = [sentQueue EXCEPT ![e] = @ \cup {chunks[j].tsn : j \in 1 .. n}]
    /\ Emit(e, {[type |-> "DATA", chunk |-> chunks[j]] : j \in 1 .. n})
    /\ log' = [log EXCEPT ![e] = @ \o chunks]
    /\ sent' = [sent EXCEPT ![e] =
                   Append(@, WholeMessage(Len(@) + 1, stream, n))]
    /\ UNCHANGED <<setup, receive, inHandler, dtlsFailed, released>>
-----------------------------------------------------------------------------
(* Receiving a DATA chunk.  No handler looks at the state.                 *)

\* What JavaScript computes with: null counts as zero.
CumulativeTSN(e) == IF peerCumulativeTSN[e] = NoTSN THEN 0 ELSE peerCumulativeTSN[e]

Expected(e) == Plus(CumulativeTSN(e), 1)

Buffered(e) == {receivedOutOfOrder[e][i].tsn : i \in DOMAIN receivedOutOfOrder[e]}

\* Planted bug: a first part does not replace what is left of another message.
ConsumeAppending(e, c) ==
    LET parts == Append(fragments[e][KeyOf(c)], c.part) IN
    /\ fragments' = [fragments EXCEPT ![e][KeyOf(c)] = IF c.ending THEN <<>> ELSE parts]
    /\ delivered' = IF ~c.ending \/ released[e] THEN delivered
                    ELSE [delivered EXCEPT ![e] =
                             Append(@, [stream |-> c.stream, parts |-> parts])]
    /\ UNCHANGED handed

\* Appends the chunk to its message, and hands the application a message that is
\* complete.  A part whose beginning is missing is dropped.
Consume(e, c) ==
    LET parts == IF c.beginning THEN <<c.part>> ELSE Append(fragments[e][KeyOf(c)], c.part)
        partial == [fragments EXCEPT ![e][KeyOf(c)] = IF c.ending THEN <<>> ELSE parts]
        dropped == ~c.beginning /\ fragments[e][KeyOf(c)] = <<>>
    IN  /\ fragments' = IF dropped \/ (c.beginning /\ c.ending) THEN fragments ELSE partial
        /\ delivered' = IF dropped \/ ~c.ending \/ released[e] THEN delivered
                        ELSE [delivered EXCEPT ![e] =
                                 Append(@, [stream |-> c.stream, parts |-> parts])]
        /\ handed' = [handed EXCEPT ![e] =
                         IF Len(delivered'[e]) > @ THEN Len(delivered'[e]) ELSE @]

\* The first and last index of each run of consecutive TSNs.  The code sorts the
\* buffered TSNs first, with a comparison that always answers "not before"
\* (snLt), which leaves them in order of arrival.
Runs(tsns) ==
    LET Joined(i) == tsns[i + 1] = Plus(tsns[i], 1) IN
    {r \in (1 .. Len(tsns)) \X (1 .. Len(tsns)) :
        /\ r[1] <= r[2]
        /\ \A i \in r[1] .. (r[2] - 1) : Joined(i)
        /\ r[1] > 1 => ~Joined(r[1] - 1)
        /\ r[2] < Len(tsns) => ~Joined(r[2])}

\* The blocks reported, as offsets ahead of cum.  A block that ends out of reach
\* of a 16-bit field is skipped; the offset of its start is not looked at.
GapBlocks(cum, chunks) ==
    LET tsns == [i \in DOMAIN chunks |-> chunks[i].tsn] IN
    {b \in {<<Offset(tsns[r[1]], cum), Offset(tsns[r[2]], cum)>> : r \in Runs(tsns)} :
        b[2] <= MaxOffset}

\* Writing a larger offset into the 16-bit field throws.
SackThrows(cum, chunks) == \E b \in GapBlocks(cum, chunks) : b[1] > MaxOffset

Sack(cum, chunks) ==
    IF SackThrows(cum, chunks) THEN {}
    ELSE {[type |-> "SACK", cumulativeTSNAck |-> cum, gapBlocks |-> GapBlocks(cum, chunks)]}

\* The exception leaves receivePacket and fails the DTLS connection.
FailIfThrown(e, cum, chunks) ==
    dtlsFailed' = [dtlsFailed EXCEPT ![e] = @ \/ SackThrows(cum, chunks)]

\* Planted bug: the cap on the buffered chunks is one too low.
RefusedEarly(e, tsn) ==
    snLt(tsn, Expected(e)) \/ tsn \in Buffered(e) \/ Len(receivedOutOfOrder[e]) + 1 >= MAX_OOO_CHUNKS

\* Already delivered, already buffered, or no room.
Refused(e, tsn) ==
    snLt(tsn, Expected(e)) \/ tsn \in Buffered(e) \/ Len(receivedOutOfOrder[e]) >= MAX_OOO_CHUNKS

\* A chunk that is not the next: buffered unless it is refused, and acknowledged
\* with what is held.
BufferData(e, p) ==
    /\ p.type = "DATA"
    /\ p.chunk.tsn # Expected(e)
    /\ LET held == IF Refused(e, p.chunk.tsn) THEN receivedOutOfOrder[e]
                   ELSE Append(receivedOutOfOrder[e], p.chunk)
       IN  /\ receivedOutOfOrder' = [receivedOutOfOrder EXCEPT ![e] = held]
           /\ Exchange(e, p, Sack(CumulativeTSN(e), held))
           /\ FailIfThrown(e, CumulativeTSN(e), held)
    /\ UNCHANGED <<setup, transmit, peerCumulativeTSN, fragments, delivered, handed,
                   sentQueue, inHandler, released>>

\* The next chunk in sequence, and the first event of its handler.
ReceiveData(e, p) ==
    /\ p.type = "DATA"
    /\ p.chunk.tsn = Expected(e)
    /\ Exchange(e, p, {})
    /\ peerCumulativeTSN' = [peerCumulativeTSN EXCEPT ![e] = p.chunk.tsn]
    /\ Consume(e, p.chunk)
    /\ inHandler' = [inHandler EXCEPT ![e] = TRUE]
    /\ UNCHANGED <<setup, transmit, receivedOutOfOrder, sentQueue, dtlsFailed, released>>

\* Planted bug: the oldest of the buffered chunks is taken for the next one.
DrainOldest(e) ==
    /\ inHandler[e]
    /\ receivedOutOfOrder[e] # <<>>
    /\ LET c == Head(receivedOutOfOrder[e]) IN
       /\ Consume(e, c)
       /\ peerCumulativeTSN' = [peerCumulativeTSN EXCEPT ![e] = c.tsn]
    /\ receivedOutOfOrder' = [receivedOutOfOrder EXCEPT ![e] = Tail(@)]
    /\ UNCHANGED <<setup, transmit, sentQueue, inHandler, dtlsFailed, net, released>>

\* One turn of the loop that drains the buffered chunks now in sequence.
Drain(e) ==
    /\ inHandler[e]
    /\ \E i \in DOMAIN receivedOutOfOrder[e] :
         /\ receivedOutOfOrder[e][i].tsn = Expected(e)
         /\ receivedOutOfOrder' =
               [receivedOutOfOrder EXCEPT ![e] = RemoveAt(@, i)]
         /\ Consume(e, receivedOutOfOrder[e][i])
    /\ peerCumulativeTSN' = [peerCumulativeTSN EXCEPT ![e] = Expected(e)]
    /\ UNCHANGED <<setup, transmit, sentQueue, inHandler, dtlsFailed, net, released>>

\* Planted bug: the handler may end before the loop has.
MayEndEarly(e) == e \in End

\* The condition the loop ends on.
Drained(e) == Expected(e) \notin Buffered(e)

\* The end of the handler.
Acknowledge(e) ==
    /\ inHandler[e]
    /\ Drained(e)
    /\ Emit(e, Sack(CumulativeTSN(e), receivedOutOfOrder[e]))
    /\ FailIfThrown(e, CumulativeTSN(e), receivedOutOfOrder[e])
    /\ inHandler' = [inHandler EXCEPT ![e] = FALSE]
    /\ UNCHANGED <<setup, transmit, receive, sentQueue, released>>

\* Planted bug: a gap block reaches one TSN further than it says.
AckedTooFar(p) ==
    {t \in TSN : \/ snLte(t, p.cumulativeTSNAck)
                 \/ \E b \in p.gapBlocks :
                      \E i \in b[1] .. b[2] : t = Plus(p.cumulativeTSNAck, i + 1)}

\* The TSNs that a SACK takes out of the queue.
Acked(p) ==
    {t \in TSN : \/ snLte(t, p.cumulativeTSNAck)
                 \/ \E b \in p.gapBlocks :
                      \E i \in b[1] .. b[2] : t = Plus(p.cumulativeTSNAck, i)}

HandleSack(e, p) ==
    /\ p.type = "SACK"
    /\ Exchange(e, p, {})
    /\ sentQueue' = [sentQueue EXCEPT ![e] = @ \ Acked(p)]
    /\ UNCHANGED <<setup, transmit, receive, inHandler, dtlsFailed, released>>
-----------------------------------------------------------------------------
(* Shutting down.                                                          *)

\* The application's call: sent unless the association is not up, then closed
\* without waiting for an answer.  A second call does nothing.
Shutdown(e) ==
    /\ e \in MayShutdown
    /\ state[e] # "CLOSED"
    /\ Emit(e, IF state[e] = "ESTABLISHED" THEN {[type |-> "SHUTDOWN"]} ELSE {})
    /\ Release(e)

HandleShutdown(e, p) ==
    /\ p.type = "SHUTDOWN"
    /\ Exchange(e, p, {[type |-> "SHUTDOWN_ACK"]})
    /\ IF state[e] = "CLOSED"
       THEN UNCHANGED <<setup, transmit, receive, sentQueue, inHandler, dtlsFailed, released>>
       ELSE Release(e)
-----------------------------------------------------------------------------
HandlePacket(e, p) ==
    \/ HandleInit(e, p)       \/ HandleInitAck(e, p)
    \/ HandleCookieEcho(e, p) \/ HandleCookieAck(e, p)
    \/ BufferData(e, p)       \/ ReceiveData(e, p)
    \/ HandleSack(e, p)       \/ HandleShutdown(e, p)

Application(e) ==
    \/ Start(e)
    \/ \E stream \in Stream, unordered \in Unordered, n \in 1 .. MaxFragments :
          SendData(e, stream, unordered, n)
    \/ Shutdown(e)

Timer(e) == RetransmitInit(e) \/ SetupTimedOut(e)

Handler(e) == Drain(e) \/ Acknowledge(e)

Network(e) == \E p \in net[e] : HandlePacket(e, p) \/ Ignore(e, p) \/ Lose(e, p)

Next == \E e \in End : Application(e) \/ Timer(e) \/ Handler(e) \/ Network(e)

Spec == Init /\ [][Next]_vars

Receive(e) == \E p \in net[e] : HandlePacket(e, p) \/ Ignore(e, p)

\* The DTLS layer starts the client when it is connected; timers fire and
\* handlers run to their end; a packet that is not lost arrives.  The
\* applications, and the network's losses, are not bound to anything.
Fairness ==
    \A e \in End : /\ WF_vars(Start(e))
                   /\ WF_vars(Timer(e))
                   /\ WF_vars(Handler(e))
                   /\ WF_vars(Receive(e))

FairSpec == Spec /\ Fairness
-----------------------------------------------------------------------------
(* What holds of the association.                                          *)

TypeOK ==
    /\ state \in [End -> State]
    /\ initTimer \in [End -> BOOLEAN]
    /\ attempts \in [End -> 0 .. MaxAttempts]
    /\ localTSN \in [End -> TSN]
    /\ nextSSN \in [End -> [Stream -> 0 .. (SSNMod - 1)]]
    /\ sentQueue \in [End -> SUBSET TSN]
    /\ peerCumulativeTSN \in [End -> TSN \cup {NoTSN}]
    /\ receivedOutOfOrder \in [End -> Seq(Chunk)]
    /\ \A e \in End : Len(receivedOutOfOrder[e]) <= MAX_OOO_CHUNKS
    /\ fragments \in [End -> [Key -> Seq(Part)]]
    /\ inHandler \in [End -> BOOLEAN]
    /\ dtlsFailed \in [End -> BOOLEAN]
    /\ net \in [End -> SUBSET Packet]
    /\ sent \in [End -> Seq(Message)]
    /\ log \in [End -> Seq(Chunk)]
    /\ delivered \in [End -> Seq(Message)]
    /\ handed \in [End -> Nat]
    /\ released \in [End -> BOOLEAN]

\* Whatever the network loses, duplicates and reorders, an application is handed
\* the messages the other one sent, whole, in the order they were sent in,
\* without a gap and none twice: over again after an INIT that comes late.
DeliveredInOrder == \A e \in End : IsPrefix(delivered[e], sent[Peer(e)])

\* No message is handed over a second time.
DeliveredOnce ==
    [][\A e \in End : Len(delivered'[e]) > Len(delivered[e])
                        => Len(delivered'[e]) > handed[e]]_vars

\* No DATA chunk is on its way to an end that does not know the first TSN of its
\* peer: the null of peerCumulativeTSN is never computed with.
DataAfterInit ==
    \A e \in End : \A p \in net[e] : p.type = "DATA" => peerCumulativeTSN[e] # NoTSN

\* An end is in its setup exactly while its retransmission timer is armed: it is
\* never left waiting without one, and no timer outlives the setup.
SetupTimed ==
    \A e \in End : initTimer[e] <=> state[e] \in {"COOKIE_WAIT", "COOKIE_ECHOED"}

\* An end that considers the association established has a peer that does too,
\* or has closed it since, and each knows where the other one's TSNs begin.
SetupAgreement ==
    /\ state[Client] = "ESTABLISHED" => state[Server] = "ESTABLISHED" \/ released[Server]
    /\ \A e \in End : state[e] = "ESTABLISHED" => /\ peerCumulativeTSN[e] # NoTSN
                                                 /\ peerCumulativeTSN[Peer(e)] # NoTSN

\* How many chunks of its peer an end has consumed since the last INIT.
Consumed(e) ==
    IF peerCumulativeTSN[e] = NoTSN THEN 0
    ELSE Offset(peerCumulativeTSN[e], Pred(InitialTSN[Peer(e)]))

\* A chunk that has left the sender's queue is not lost: while both ends are open
\* the receiver has consumed it or holds it behind the gap.
AcknowledgedIsHeld ==
    \A e \in End : LET f == Peer(e) IN
        ~released[e] /\ ~released[f] =>
            \A i \in DOMAIN log[f] :
                \/ log[f][i].tsn \in sentQueue[f]
                \/ i <= Consumed(e)
                \/ log[f][i].tsn \in Buffered(e)

\* Between two handlers the next chunk in sequence is not among those that wait
\* behind the gap.
DrainComplete == \A e \in End : ~inHandler[e] => Expected(e) \notin Buffered(e)

\* No SACK is too large for its 16-bit fields.
SackFits == \A e \in End : ~dtlsFailed[e]

\* The promise of MessageChannel, kept: the client's and the server's messages
\* arrive one by one in the order of their sending, and the delivery starts over
\* only where a setup packet can be late.
Channel == INSTANCE MessageChannel WITH Message <- WholeMessages, MayRestart <- ~Prompt
ImplementsChannel == Channel!Spec

\* The setup does not hang: it ends in an association or in a reported failure.
SetupEnds ==
    \A e \in End : state[e] \in {"COOKIE_WAIT", "COOKIE_ECHOED"}
                     ~> state[e] \in {"ESTABLISHED", "CLOSED"}

\* Every message sent is delivered, unless the receiver closes.
EverythingDelivered ==
    \A e \in End : \A n \in 1 .. MaxChunks[e] :
        Len(sent[e]) >= n ~> Len(delivered[Peer(e)]) >= n \/ released[Peer(e)]
=============================================================================
