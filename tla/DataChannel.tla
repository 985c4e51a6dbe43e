----------------------------- MODULE DataChannel -----------------------------
(***************************************************************************)
(* Data channels: RTCDataChannel objects, the DataChannelManager of each   *)
(* end with its DCEP handshake, and the part of RTCPeerConnection that     *)
(* queues channels until SCTP is up and closes them.  Below is what the    *)
(* SCTP association promises (MessageChannel).                             *)
(*                                                                         *)
(* A channel c is one object at each end, made by the application or, for  *)
(* a channel that is not negotiated, by the manager of the end that        *)
(* receives the OPEN.  Operators introduced by "Planted bug" are not part  *)
(* of the model.                                                           *)
(***************************************************************************)
EXTENDS Naturals, Sequences, FiniteSets

CONSTANTS
    Client, Server,     \* the two ends; the DTLS client uses even streams
    Channel,            \* channels
    Opener,             \* the end whose application creates each channel
    Negotiated,         \* the channels that the other end's creates too
    ChosenId,           \* the stream that was asked for, or NoId
    NoId,               \* null in the code
    MayClose,           \* ends whose application closes the peer connection
    Closable,           \* channels that an application closes
    MaxMessages,        \* bound: messages that each end sends
    MaxChannels         \* bound: channels that are created

End == {Client, Server}
Peer(e) == IF e = Client THEN Server ELSE Client

ASSUME ChannelAssumption ==
    /\ Client # Server
    /\ Opener \in [Channel -> End]
    /\ Negotiated \subseteq Channel
    /\ NoId \notin Nat
    /\ ChosenId \in [Channel -> Nat \cup {NoId}]
    /\ \A c \in Negotiated : ChosenId[c] # NoId
    /\ MayClose \subseteq End
    /\ Closable \subseteq Channel
    /\ MaxMessages \in [End -> Nat]
    /\ MaxChannels \in Nat

VARIABLES
    sent, delivered,    \* the SCTP messages, as in MessageChannel; see SkipMessage
    assoc,              \* the association; shutDown: closed here, with a SHUTDOWN
    dtls,               \* the DTLS connection below
    loop,               \* where the 'established' handler is, see Loop
    pending,            \* channels that wait for the association
    isClosed,           \* whether the peer connection has been closed
    nextStreamId,       \* where the search for a free stream begins
    entries,            \* the manager's map: channels by stream
    readyState,         \* of each channel object; none before it is created
    wired,              \* the stream a channel's SEND and CLOSE listeners serve
    immediate,          \* whether close() has scheduled its second half
    sentOn,             \* history: how many messages were sent on a channel
    receivedOn,         \* history: the messages received on it
    opened,             \* history: whether it has ever been open
    closeCalled         \* history: whether its application has closed it

stack   == <<assoc, dtls, loop, pending, isClosed>>
manager == <<nextStreamId, entries, wired>>
object  == <<readyState, immediate, opened, closeCalled>>
traffic == <<sent, delivered>>
history == <<sentOn, receivedOn>>
vars    == <<traffic, stack, manager, object, history>>

ReadyState == {"none", "connecting", "open", "closing", "closed"}
AssocState == {"setup", "established", "shutDown", "closed"}
DtlsState == {"connected", "failed", "closed"}
\* The handler of 'established': not running, in the callback of the connection
\* state, between two queued channels, in the callback of one that has opened.
Loop == {"idle", "announced", "opening", "opened"}
Entry == [stream : Nat, channel : Channel, acked : BOOLEAN]
\* An OPEN carries the label, which stands for the channel.
SctpMessage ==
    [type : {"OPEN"}, stream : Nat, channel : Channel] \cup [type : {"ACK"}, stream : Nat]
      \cup [type : {"DATA"}, stream : Nat, channel : Channel, number : Nat]

Sctp == INSTANCE MessageChannel WITH Message <- SctpMessage, MayRestart <- FALSE

\* Planted bug: both ends count from zero.
FirstFromZero(e) == IF e \in End THEN 0 ELSE 1

FirstStream(e) == IF e = Client THEN 0 ELSE 1

Init ==
    /\ Sctp!Init
    /\ assoc = [e \in End |-> "setup"]
    /\ dtls = [e \in End |-> "connected"]
    /\ loop = [e \in End |-> "idle"]
    /\ pending = [e \in End |-> <<>>]
    /\ isClosed = [e \in End |-> FALSE]
    /\ nextStreamId = [e \in End |-> FirstStream(e)]
    /\ entries = [e \in End |-> {}]
    /\ readyState = [e \in End |-> [c \in Channel |-> "none"]]
    /\ wired = [e \in End |-> [c \in Channel |-> NoId]]
    /\ immediate = [e \in End |-> [c \in Channel |-> FALSE]]
    /\ sentOn = [e \in End |-> [c \in Channel |-> 0]]
    /\ receivedOn = [e \in End |-> [c \in Channel |-> <<>>]]
    /\ opened = [e \in End |-> [c \in Channel |-> FALSE]]
    /\ closeCalled = [e \in End |-> [c \in Channel |-> FALSE]]
-----------------------------------------------------------------------------
(* What the steps are made of.                                             *)

\* sendData, which throws unless the association is established.  A message sent
\* when the DTLS connection is gone is lost without an exception.
SendData(e, m) ==
    sent' = IF assoc[e] = "established" /\ dtls[e] = "connected"
            THEN [sent EXCEPT ![e] = Append(@, m)] ELSE sent

At(e, stream) == {x \in entries[e] : x.stream = stream}

\* The stream taken for the next channel without one: the first free one of this
\* end's parity from nextStreamId on.
Allocated(e) ==
    LET free == {s \in nextStreamId[e] .. (nextStreamId[e] + 2 * Cardinality(entries[e])) :
                   At(e, s) = {} /\ s % 2 = nextStreamId[e] % 2}
    IN CHOOSE s \in free : \A t \in free : s <= t

\* The channel's entry takes the place of any other one on that stream.
Register(e, c, stream, acked) ==
    /\ entries' = [entries EXCEPT ![e] =
                      (@ \ At(e, stream)) \cup {[stream |-> stream, channel |-> c, acked |-> acked]}]
    /\ wired' = [wired EXCEPT ![e][c] = stream]

\* The internal event OPEN.  A closed channel has detached its listener.
EmitOpen(e, c) ==
    /\ readyState' = [readyState EXCEPT ![e][c] = IF @ = "closed" THEN @ ELSE "open"]
    /\ opened' = [opened EXCEPT ![e][c] = @ \/ readyState[e][c] # "closed"]

\* Planted bug: a channel without a stream is not given one.
OpenWithoutId(e, c) ==
    /\ Register(e, c, ChosenId[c], c \in Negotiated)
    /\ UNCHANGED <<nextStreamId, sent>>

\* The manager opens a channel: without waiting if it is negotiated, otherwise
\* with an OPEN to be acknowledged.
OpenChannel(e, c) ==
    LET stream == IF ChosenId[c] = NoId THEN Allocated(e) ELSE ChosenId[c] IN
    /\ nextStreamId' = [nextStreamId EXCEPT ![e] = IF ChosenId[c] = NoId THEN stream + 2 ELSE @]
    /\ Register(e, c, stream, c \in Negotiated)
    /\ IF c \in Negotiated
       THEN sent' = sent
       ELSE SendData(e, [type |-> "OPEN", stream |-> stream, channel |-> c])

\* The application runs when no handler does, and in the callbacks of those.
ApplicationRuns(e) == loop[e] # "opening"
-----------------------------------------------------------------------------
(* The application's calls.                                                *)

Created == {c \in Channel : \E e \in End : readyState[e][c] # "none"}

\* createDataChannel: opened now if the association is up, queued otherwise.
Create(e, c) ==
    /\ ApplicationRuns(e)
    /\ ~isClosed[e]
    /\ e = Opener[c] \/ c \in Negotiated
    /\ readyState[e][c] = "none"
    /\ Cardinality(Created \cup {c}) <= MaxChannels
    /\ UNCHANGED <<delivered, assoc, dtls, loop, isClosed, immediate, closeCalled, history>>
    /\ IF assoc[e] = "established"
       THEN /\ OpenChannel(e, c)
            /\ LET open == c \in Negotiated IN
               /\ readyState' = [readyState EXCEPT ![e][c] = IF open THEN "open" ELSE "connecting"]
               /\ opened' = [opened EXCEPT ![e][c] = open]
            /\ UNCHANGED pending
       ELSE /\ pending' = [pending EXCEPT ![e] = Append(@, c)]
            /\ readyState' = [readyState EXCEPT ![e][c] = "connecting"]
            /\ UNCHANGED <<sent, manager, opened>>

Send(e, c) ==
    /\ ApplicationRuns(e)
    /\ readyState[e][c] = "open"
    /\ wired[e][c] # NoId
    /\ assoc[e] = "established"
    /\ Cardinality({m \in Channel \X (1 .. MaxMessages[e]) : m[2] <= sentOn[e][m[1]]}) < MaxMessages[e]
    /\ sentOn' = [sentOn EXCEPT ![e][c] = @ + 1]
    /\ SendData(e, [type |-> "DATA", stream |-> wired[e][c], channel |-> c,
                    number |-> sentOn[e][c] + 1])
    /\ UNCHANGED <<delivered, stack, manager, object, receivedOn>>

\* The first half of close(); the second is scheduled.
Close(e, c) ==
    /\ ApplicationRuns(e)
    /\ c \in Closable
    /\ readyState[e][c] \in {"connecting", "open"}
    /\ readyState' = [readyState EXCEPT ![e][c] = "closing"]
    /\ immediate' = [immediate EXCEPT ![e][c] = TRUE]
    /\ closeCalled' = [closeCalled EXCEPT ![e][c] = TRUE]
    /\ UNCHANGED <<traffic, stack, manager, opened, history>>

\* Planted bug: the listeners stay.
UnwiredNothing(e, stream) == wired[e]

\* What a manager does with a channel that has closed: the entry on its stream,
\* whoever's it is, goes with the listeners of the channel in it.
Unwired(e, stream) ==
    [c \in Channel |-> IF \E x \in At(e, stream) : x.channel = c THEN NoId ELSE wired[e][c]]

\* Planted bug: the manager is not told.
CloseSilently(e, c) ==
    /\ loop[e] = "idle"
    /\ immediate[e][c]
    /\ immediate' = [immediate EXCEPT ![e][c] = FALSE]
    /\ readyState' = [readyState EXCEPT ![e][c] = IF @ = "closing" THEN "closed" ELSE @]
    /\ UNCHANGED <<traffic, stack, manager, opened, closeCalled, history>>

FinishClose(e, c) ==
    /\ loop[e] = "idle"
    /\ immediate[e][c]
    /\ immediate' = [immediate EXCEPT ![e][c] = FALSE]
    /\ IF readyState[e][c] = "closing"
       THEN /\ readyState' = [readyState EXCEPT ![e][c] = "closed"]
            /\ IF wired[e][c] = NoId THEN UNCHANGED manager
               ELSE /\ entries' = [entries EXCEPT ![e] = @ \ At(e, wired[e][c])]
                    /\ wired' = [wired EXCEPT ![e] = Unwired(e, wired[e][c])]
                    /\ UNCHANGED nextStreamId
       ELSE UNCHANGED <<readyState, manager>>
    /\ UNCHANGED <<traffic, stack, opened, closeCalled, history>>

\* RTCPeerConnection.close: every channel is closed, the manager drops them all,
\* and the association and the DTLS connection are closed.  The loop over the
\* queued channels, if this is called from within, goes on.
ClosePeerConnection(e) ==
    /\ ApplicationRuns(e)
    /\ e \in MayClose
    /\ ~isClosed[e]
    /\ isClosed' = [isClosed EXCEPT ![e] = TRUE]
    /\ LET live == {c \in Channel : readyState[e][c] \in {"connecting", "open"}} IN
       /\ readyState' = [readyState EXCEPT ![e] =
                            [c \in Channel |-> IF c \in live THEN "closing" ELSE @[c]]]
       /\ immediate' = [immediate EXCEPT ![e] = [c \in Channel |-> @[c] \/ c \in live]]
    /\ wired' = [wired EXCEPT ![e] =
                    [c \in Channel |-> IF \E x \in entries[e] : x.channel = c THEN NoId ELSE @[c]]]
    /\ entries' = [entries EXCEPT ![e] = {}]
    /\ assoc' = [assoc EXCEPT ![e] = IF @ = "established" THEN "shutDown" ELSE "closed"]
    /\ dtls' = [dtls EXCEPT ![e] = IF @ = "failed" THEN @ ELSE "closed"]
    /\ pending' = [pending EXCEPT ![e] = IF loop[e] = "opened" THEN @ ELSE <<>>]
    /\ UNCHANGED <<traffic, loop, nextStreamId, opened, closeCalled, history>>
-----------------------------------------------------------------------------
(* The association comes up: the client's after the server's.              *)

Establish(e) ==
    /\ assoc[e] = "setup"
    /\ dtls[e] = "connected"
    /\ e = Client => assoc[Server] # "setup"
    /\ assoc' = [assoc EXCEPT ![e] = "established"]
    /\ loop' = [loop EXCEPT ![e] = "announced"]
    /\ UNCHANGED <<traffic, dtls, pending, isClosed, manager, object, history>>

\* One turn of the loop over the queued channels.  It ends with an exception when
\* the association has been closed under it.
OpenPending(e) ==
    /\ loop[e] # "idle"
    /\ pending[e] # <<>>
    /\ LET c == Head(pending[e])
           throws == c \notin Negotiated /\ assoc[e] # "established"
       IN
       /\ OpenChannel(e, c)
       /\ IF c \in Negotiated THEN EmitOpen(e, c) ELSE UNCHANGED <<readyState, opened>>
       /\ loop' = [loop EXCEPT ![e] = IF c \in Negotiated /\ readyState[e][c] # "closed" THEN "opened"
                                      ELSE IF throws THEN "idle" ELSE "opening"]
       /\ pending' = [pending EXCEPT ![e] = IF throws THEN <<>> ELSE Tail(@)]
    /\ UNCHANGED <<delivered, assoc, dtls, isClosed, immediate, closeCalled, history>>

\* Planted bug: the queue is emptied before its channels are opened.
DropQueue(e) ==
    /\ loop[e] # "idle"
    /\ loop' = [loop EXCEPT ![e] = "idle"]
    /\ pending' = [pending EXCEPT ![e] = <<>>]
    /\ UNCHANGED <<traffic, assoc, dtls, isClosed, manager, object, history>>

EndLoop(e) ==
    /\ loop[e] # "idle"
    /\ pending[e] = <<>>
    /\ loop' = [loop EXCEPT ![e] = "idle"]
    /\ UNCHANGED <<traffic, assoc, dtls, pending, isClosed, manager, object, history>>
-----------------------------------------------------------------------------
(* Messages from the peer.                                                 *)

\* The next message has arrived and is for the stream given to its handler.
Receive(e, type) ==
    /\ loop[e] = "idle"
    /\ dtls[e] = "connected"
    /\ ~isClosed[e]
    /\ Sctp!HasNext(e)
    /\ Sctp!NextMessage(e).type = type
    /\ delivered' = [delivered EXCEPT ![e] = Append(@, Sctp!NextMessage(e))]

\* Planted bug: an OPEN is acknowledged, but no channel is made.
OnlyAcknowledge(e) ==
    /\ Receive(e, "OPEN")
    /\ SendData(e, [type |-> "ACK", stream |-> Sctp!NextMessage(e).stream])
    /\ UNCHANGED <<stack, manager, object, history>>

\* The peer connection makes a channel, and the manager accepts it.
Accept(e, m) ==
    /\ Register(e, m.channel, m.stream, TRUE)
    /\ EmitOpen(e, m.channel)

\* An OPEN is acknowledged, and a channel made for it which is open at once.  It
\* fails the DTLS connection when the association is not established here.
ReceiveOpen(e) ==
    /\ Receive(e, "OPEN")
    /\ LET m == Sctp!NextMessage(e) IN
       /\ SendData(e, [type |-> "ACK", stream |-> m.stream])
       /\ IF assoc[e] = "established"
          THEN Accept(e, m) /\ UNCHANGED dtls
          ELSE /\ dtls' = [dtls EXCEPT ![e] = "failed"]
               /\ UNCHANGED <<entries, wired, readyState, opened>>
    /\ UNCHANGED <<assoc, loop, pending, isClosed, nextStreamId, immediate, closeCalled, history>>

ReceiveAck(e) ==
    /\ Receive(e, "ACK")
    /\ LET waiting == {x \in At(e, Sctp!NextMessage(e).stream) : ~x.acked} IN
       IF waiting = {} THEN UNCHANGED <<entries, readyState, opened>>
       ELSE \E x \in waiting :
              /\ entries' = [entries EXCEPT ![e] = (@ \ {x}) \cup {[x EXCEPT !.acked = TRUE]}]
              /\ EmitOpen(e, x.channel)
    /\ UNCHANGED <<sent, stack, nextStreamId, wired, immediate, closeCalled, history>>

\* Data for a stream without a channel, or of a closed one, is dropped.
ReceiveData(e) ==
    /\ Receive(e, "DATA")
    /\ LET m == Sctp!NextMessage(e)
           receivers == {c \in Channel : /\ readyState[e][c] # "closed"
                                         /\ \E x \in At(e, m.stream) : x.channel = c}
       IN receivedOn' = [receivedOn EXCEPT ![e] =
                            [c \in Channel |-> IF c \in receivers
                                               THEN Append(@[c], <<m.channel, m.number>>) ELSE @[c]]]
    /\ UNCHANGED <<sent, stack, manager, object, sentOn>>

\* An association that a SHUTDOWN has closed forgets the fragments and the chunks
\* that it held, and goes on to hand up what comes: a message may be missed out.
SkipMessage(e) ==
    /\ assoc[e] = "closed"
    /\ \E type \in {"OPEN", "ACK", "DATA"} : Receive(e, type)
    /\ UNCHANGED <<sent, stack, manager, object, history>>

\* What the peer has closed is noticed here, the association and the connection
\* below it in either order, or only one of them.
ShutdownArrives(e) ==
    /\ loop[e] = "idle"
    /\ dtls[e] = "connected"
    /\ assoc[Peer(e)] = "shutDown"
    /\ assoc' = [assoc EXCEPT ![e] = "closed"]
    /\ UNCHANGED <<traffic, dtls, loop, pending, isClosed, manager, object, history>>

AlertArrives(e) ==
    /\ loop[e] = "idle"
    /\ dtls[e] = "connected"
    /\ dtls[Peer(e)] = "closed"
    /\ dtls' = [dtls EXCEPT ![e] = "closed"]
    /\ UNCHANGED <<traffic, assoc, loop, pending, isClosed, manager, object, history>>
-----------------------------------------------------------------------------
Application(e) ==
    \/ \E c \in Channel : Create(e, c) \/ Send(e, c) \/ Close(e, c)
    \/ ClosePeerConnection(e)

Handler(e) ==
    \/ Establish(e) \/ OpenPending(e) \/ EndLoop(e)
    \/ ReceiveOpen(e) \/ ReceiveAck(e) \/ ReceiveData(e)

Immediate(e) == \E c \in Channel : FinishClose(e, c)

Next ==
    \E e \in End :
        \/ Application(e) \/ Handler(e) \/ Immediate(e)
        \/ SkipMessage(e) \/ ShutdownArrives(e) \/ AlertArrives(e)

Spec == Init /\ [][Next]_vars

\* The event loop runs handlers and immediates; the association comes up and
\* delivers (SctpAssociation: SetupEnds, EverythingDelivered).
FairSpec == Spec /\ \A e \in End : WF_vars(Handler(e)) /\ WF_vars(Immediate(e))
-----------------------------------------------------------------------------
TypeOK ==
    /\ sent \in [End -> Seq(SctpMessage)]
    /\ delivered \in [End -> Seq(SctpMessage)]
    /\ assoc \in [End -> AssocState]
    /\ dtls \in [End -> DtlsState]
    /\ loop \in [End -> Loop]
    /\ pending \in [End -> Seq(Channel)]
    /\ isClosed \in [End -> BOOLEAN]
    /\ nextStreamId \in [End -> Nat]
    /\ entries \in [End -> SUBSET Entry]
    /\ readyState \in [End -> [Channel -> ReadyState]]
    /\ wired \in [End -> [Channel -> Nat \cup {NoId}]]
    /\ immediate \in [End -> [Channel -> BOOLEAN]]
    /\ sentOn \in [End -> [Channel -> Nat]]
    /\ receivedOn \in [End -> [Channel -> Seq(Channel \X Nat)]]
    /\ opened \in [End -> [Channel -> BOOLEAN]]
    /\ closeCalled \in [End -> [Channel -> BOOLEAN]]

\* A channel is handed what was sent on it at the other end and nothing else, in
\* order; and all of it, up to some point, if it was opened with an OPEN and as long
\* as no SHUTDOWN has closed the association that it is handed it by.
MessagesRouted ==
    \A e \in End, c \in Channel :
        LET received == receivedOn[e][c] IN
        /\ \A i \in DOMAIN received :
             /\ received[i][1] = c
             /\ received[i][2] <= sentOn[Peer(e)][c]
             /\ i > 1 => received[i - 1][2] < received[i][2]
        /\ c \notin Negotiated /\ assoc[e] # "closed" => \A i \in DOMAIN received : received[i][2] = i

\* A channel that its creator sees open has been made and opened at the other end.
OpenAtBoth ==
    \A c \in Channel \ Negotiated :
        opened[Opener[c]][c] => opened[Peer(Opener[c])][c]

\* The manager's map and the listeners agree: a channel sends on a stream exactly
\* if it is the one that receives from it.
WiredBothWays ==
    \A e \in End, c \in Channel : \A s \in {x.stream : x \in entries[e]} \cup {wired[e][c]} :
        wired[e][c] = s /\ s # NoId <=> \E x \in At(e, s) : x.channel = c

\* A channel that has been open and has closed leaves nothing in the manager.
ClosedIsDropped ==
    \A e \in End, c \in Channel :
        opened[e][c] /\ readyState[e][c] = "closed" => wired[e][c] = NoId

\* So does any channel that its application has closed, once close() is through.
CloseLeavesNothing ==
    \A e \in End, c \in Channel :
        closeCalled[e][c] /\ ~immediate[e][c] => readyState[e][c] = "closed" /\ wired[e][c] = NoId

\* A channel that is created opens, unless an application closes it or its
\* connection, or an end fails.
ChannelsOpen ==
    \A c \in Channel :
        readyState[Opener[c]][c] = "connecting"
          ~> \/ readyState[Opener[c]][c] # "connecting"
             \/ \E e \in End : isClosed[e] \/ dtls[e] # "connected" \/ readyState[e][c] \in {"closing", "closed"}
=============================================================================
