-------------------------- MODULE DataChannelProofs --------------------------
(***************************************************************************)
(* Streams, channels and their messages in DataChannel: for every set of   *)
(* channels, however they are opened and closed.                           *)
(***************************************************************************)
EXTENDS DataChannelInvariants, FiniteSetTheorems, WellFoundedInduction, TLAPS

LEMMA PeerProperties ==
    ASSUME NEW e \in End
    PROVE  /\ Peer(e) \in End /\ Peer(e) # e /\ Peer(Peer(e)) = e
           /\ \A d \in End : d = e \/ d = Peer(e)
BY ChannelAssumption DEF End, Peer

\* What the interface of the association says, without its name.
LEMMA Interface ==
    ASSUME NEW e \in End
    PROVE  /\ Sctp!HasNext(e) <=> Len(delivered[e]) < Len(sent[Peer(e)])
           /\ Sctp!NextMessage(e) = sent[Peer(e)][Len(delivered[e]) + 1]
BY DEF Sctp!HasNext, Sctp!NextMessage, Sctp!Other, Peer

LEMMA LeastElement ==
    ASSUME NEW T \in SUBSET Nat, T # {} PROVE \E x \in T : \A y \in T : x <= y
<1>1. \E x \in T : \A y \in T : ~(<<y, x>> \in OpToRel(<, Nat))
  BY NatLessThanWellFounded, WFMin, Zenon
<1>2. PICK x \in T : \A y \in T : ~(<<y, x>> \in {ss \in Nat \X Nat : ss[1] < ss[2]})
  BY <1>1, Zenon DEF OpToRel
<1>3. ASSUME NEW y \in T PROVE x <= y
  <2>1. <<y, x>> \in Nat \X Nat /\ <<y, x>>[1] = y /\ <<y, x>>[2] = x
    OBVIOUS
  <2>2. ~(y < x)
    BY <1>2, <2>1
  <2> QED BY <2>2
<1> QED BY <1>3
-----------------------------------------------------------------------------
(* The search for a free stream ends: it looks at one more than are taken. *)

Typed == TypeOK /\ \A e \in End : IsFiniteSet(entries[e])

\* The streams Allocated chooses from, and their number.
Candidates(e) ==
    {s \in nextStreamId[e] .. (nextStreamId[e] + 2 * Cardinality(entries[e])) :
       At(e, s) = {} /\ s % 2 = nextStreamId[e] % 2}

LEMMA SomeStreamIsFree ==
    ASSUME Typed, NEW e \in End
    PROVE  Candidates(e) # {} /\ Candidates(e) \subseteq Nat
<1> DEFINE first == nextStreamId[e]
           taken == entries[e]
           n == Cardinality(taken)
           by == [k \in 0 .. n |-> CHOOSE x \in taken : x.stream = first + 2 * k]
<1>1. first \in Nat /\ IsFiniteSet(taken) /\ n \in Nat
  BY FS_CardinalityType DEF Typed, TypeOK
<1>2. SUFFICES ASSUME Candidates(e) = {} PROVE FALSE
  BY <1>1 DEF Candidates
<1>3. ASSUME NEW k \in 0 .. n PROVE \E x \in taken : x.stream = first + 2 * k
  <2>1. first + 2 * k \in first .. (first + 2 * n) /\ (first + 2 * k) % 2 = first % 2
    BY <1>1
  <2> QED BY <1>2, <2>1 DEF Candidates, At
<1>4. \A k \in 0 .. n : by[k] \in taken /\ by[k].stream = first + 2 * k
  BY <1>3
<1>5. by \in [0 .. n -> taken]
  BY <1>4
<1>6. IsFiniteSet(0 .. n) /\ Cardinality(0 .. n) = n + 1
  BY <1>1, FS_Interval
<1> HIDE DEF by
<1>7. \E j, k \in 0 .. n : j # k /\ by[j] = by[k]
  BY <1>1, <1>5, <1>6, FS_PigeonHole
<1> QED BY <1>1, <1>4, <1>7

LEMMA AllocatedIsFree ==
    ASSUME Typed, NEW e \in End
    PROVE  /\ Allocated(e) \in Candidates(e)
           /\ \A t \in Candidates(e) : Allocated(e) <= t
           /\ Allocated(e) \in Nat
<1>1. \E s \in Candidates(e) : \A t \in Candidates(e) : s <= t
  BY SomeStreamIsFree, LeastElement
<1>2. Allocated(e) = CHOOSE s \in Candidates(e) : \A t \in Candidates(e) : s <= t
  BY DEF Allocated, Candidates
<1> QED BY <1>1, <1>2, SomeStreamIsFree
-----------------------------------------------------------------------------
(* Types.  They need nothing of the streams.                               *)

LEMMA SendDataTyped ==
    ASSUME Typed, NEW e \in End, NEW m \in SctpMessage, SendData(e, m)
    PROVE  sent' \in [End -> Seq(SctpMessage)]
BY DEF Typed, TypeOK, SendData

LEMMA RegisterTyped ==
    ASSUME Typed, NEW e \in End, NEW c \in Channel, NEW s \in Nat, NEW a \in BOOLEAN,
           Register(e, c, s, a)
    PROVE  /\ entries' \in [End -> SUBSET Entry]
           /\ \A d \in End : IsFiniteSet(entries'[d])
           /\ wired' \in [End -> [Channel -> Nat \cup {NoId}]]
<1> DEFINE x == [stream |-> s, channel |-> c, acked |-> a]
           rest == entries[e] \ At(e, s)
<1>1. entries \in [End -> SUBSET Entry] /\ wired \in [End -> [Channel -> Nat \cup {NoId}]]
      /\ \A d \in End : IsFiniteSet(entries[d])
  BY DEF Typed, TypeOK
<1>2. x \in Entry
  BY DEF Entry
<1>3. rest \in SUBSET entries[e]
  OBVIOUS
<1>4. IsFiniteSet(rest)
  BY <1>1, <1>3, FS_Subset
<1> HIDE DEF rest, x
<1>5. IsFiniteSet(rest \cup {x})
  BY <1>4, FS_AddElement
<1>6. entries' = [entries EXCEPT ![e] = rest \cup {x}] /\ wired' = [wired EXCEPT ![e][c] = s]
  BY DEF Register, rest, x
<1> QED BY <1>1, <1>2, <1>3, <1>5, <1>6

LEMMA EmitOpenTyped ==
    ASSUME Typed, NEW e \in End, NEW c \in Channel, EmitOpen(e, c)
    PROVE  /\ readyState' \in [End -> [Channel -> ReadyState]]
           /\ opened' \in [End -> [Channel -> BOOLEAN]]
<1>1. readyState \in [End -> [Channel -> ReadyState]] /\ opened \in [End -> [Channel -> BOOLEAN]]
  BY DEF Typed, TypeOK
<1>2. "open" \in ReadyState
  BY DEF ReadyState
<1>3. readyState' \in [End -> [Channel -> ReadyState]]
  BY <1>1, <1>2 DEF EmitOpen
<1>4. (opened[e][c] \/ readyState[e][c] # "closed") \in BOOLEAN
  BY <1>1
<1>5. opened' = [opened EXCEPT ![e] = [opened[e] EXCEPT ![c] = (opened[e][c] \/ readyState[e][c] # "closed")]]
  BY <1>1 DEF EmitOpen
<1>6. opened' \in [End -> [Channel -> BOOLEAN]]
  BY <1>1, <1>4, <1>5
<1> QED BY <1>3, <1>6

\* The stream that OpenChannel takes.
StreamOf(e, c) == IF ChosenId[c] = NoId THEN Allocated(e) ELSE ChosenId[c]

LEMMA StreamIsNat ==
    ASSUME Typed, NEW e \in End, NEW c \in Channel
    PROVE  StreamOf(e, c) \in Nat
BY AllocatedIsFree, ChannelAssumption DEF StreamOf

LEMMA OpenChannelTyped ==
    ASSUME Typed, NEW e \in End, NEW c \in Channel, OpenChannel(e, c)
    PROVE  /\ sent' \in [End -> Seq(SctpMessage)]
           /\ nextStreamId' \in [End -> Nat]
           /\ entries' \in [End -> SUBSET Entry]
           /\ \A d \in End : IsFiniteSet(entries'[d])
           /\ wired' \in [End -> [Channel -> Nat \cup {NoId}]]
<1> DEFINE s == StreamOf(e, c)
           m == [type |-> "OPEN", stream |-> s, channel |-> c]
<1>1. s \in Nat
  BY StreamIsNat
<1>2. /\ nextStreamId' = [nextStreamId EXCEPT ![e] = IF ChosenId[c] = NoId THEN s + 2 ELSE @]
      /\ Register(e, c, s, c \in Negotiated)
      /\ IF c \in Negotiated THEN sent' = sent ELSE SendData(e, m)
  BY DEF OpenChannel, StreamOf
<1>3. sent \in [End -> Seq(SctpMessage)] /\ nextStreamId \in [End -> Nat]
  BY DEF Typed, TypeOK
<1>4. m \in SctpMessage
  BY <1>1 DEF SctpMessage
<1>5. sent' \in [End -> Seq(SctpMessage)]
  BY <1>2, <1>3, <1>4, SendDataTyped
<1>6. nextStreamId' \in [End -> Nat]
  BY <1>1, <1>2, <1>3
<1>7. (c \in Negotiated) \in BOOLEAN
  OBVIOUS
<1> HIDE DEF s, m
<1>8. /\ entries' \in [End -> SUBSET Entry]
      /\ \A d \in End : IsFiniteSet(entries'[d])
      /\ wired' \in [End -> [Channel -> Nat \cup {NoId}]]
  BY <1>1, <1>2, <1>7, RegisterTyped, Zenon
<1> QED BY <1>5, <1>6, <1>8

LEMMA ReceiveTyped ==
    ASSUME Typed, NEW e \in End, NEW t, Receive(e, t)
    PROVE  /\ delivered' \in [End -> Seq(SctpMessage)]
           /\ Sctp!NextMessage(e) \in SctpMessage
           /\ Sctp!NextMessage(e).type = t
<1>1. Sctp!NextMessage(e) \in SctpMessage
  <2>1. sent[Peer(e)] \in Seq(SctpMessage) /\ delivered[e] \in Seq(SctpMessage)
    BY PeerProperties DEF Typed, TypeOK
  <2>2. Len(delivered[e]) + 1 \in 1 .. Len(sent[Peer(e)])
    BY <2>1, Interface DEF Receive
  <2> QED BY <2>1, <2>2, Interface
<1> QED BY <1>1 DEF Receive, Typed, TypeOK

LEMMA InitTyped == Init => Typed
<1> SUFFICES ASSUME Init PROVE Typed
  OBVIOUS
<1>1. \A e \in End : FirstStream(e) \in Nat
  BY DEF FirstStream
<1>2. TypeOK
  BY <1>1, ChannelAssumption DEF Init, TypeOK, Sctp!Init, Sctp!End, End, ReadyState, AssocState, DtlsState, Loop
<1>3. \A e \in End : IsFiniteSet(entries[e])
  BY FS_EmptySet DEF Init
<1> QED BY <1>2, <1>3 DEF Typed

LEMMA CloseTyped ==
    ASSUME Typed, NEW e \in End, NEW c \in Channel, Close(e, c)
    PROVE  Typed'
BY DEF Typed, TypeOK, Close, traffic, stack, manager, history, ReadyState

\* The connection below comes and goes.
LEMMA EstablishTyped ==
    ASSUME Typed, NEW e \in End,
           Establish(e) \/ EndLoop(e) \/ ShutdownArrives(e) \/ AlertArrives(e)
    PROVE  Typed'
<1> USE DEF Typed, TypeOK
<1>2. CASE Establish(e)
  BY <1>2 DEF Establish, traffic, object, manager, history, AssocState, Loop
<1>3. CASE EndLoop(e)
  BY <1>3 DEF EndLoop, traffic, object, manager, history, Loop
<1>4. CASE ShutdownArrives(e)
  BY <1>4 DEF ShutdownArrives, traffic, object, manager, history, AssocState
<1>5. CASE AlertArrives(e)
  BY <1>5 DEF AlertArrives, traffic, object, manager, history, DtlsState
<1> QED BY <1>2, <1>3, <1>4, <1>5

LEMMA CreateTyped ==
    ASSUME Typed, NEW e \in End, NEW c \in Channel, Create(e, c)
    PROVE  Typed'
<1>1. CASE assoc[e] = "established"
  <2>1. OpenChannel(e, c)
    BY <1>1 DEF Create
  <2>2. PICK s \in {"open", "connecting"} : readyState' = [readyState EXCEPT ![e][c] = s]
    BY <1>1 DEF Create
  <2>3. readyState' \in [End -> [Channel -> ReadyState]]
    BY <2>2 DEF Typed, TypeOK, ReadyState
  <2>4. PICK b \in BOOLEAN : opened' = [opened EXCEPT ![e][c] = b]
    <3>1. (c \in Negotiated) \in BOOLEAN
      OBVIOUS
    <3>2. opened' = [opened EXCEPT ![e][c] = (c \in Negotiated)]
      BY <1>1, Zenon DEF Create
    <3> QED BY <3>1, <3>2, Zenon
  <2>5. opened' \in [End -> [Channel -> BOOLEAN]]
    BY <2>4 DEF Typed, TypeOK
  <2> QED BY <1>1, <2>1, <2>3, <2>5, OpenChannelTyped DEF Create, Typed, TypeOK, history
<1>2. CASE assoc[e] # "established"
  <2>1. pending' = [pending EXCEPT ![e] = Append(@, c)] /\ readyState' = [readyState EXCEPT ![e][c] = "connecting"]
        /\ UNCHANGED <<sent, nextStreamId, entries, wired, opened>>
    BY <1>2 DEF Create, manager
  <2>2. pending' \in [End -> Seq(Channel)] /\ readyState' \in [End -> [Channel -> ReadyState]]
    BY <2>1 DEF Typed, TypeOK, ReadyState
  <2> QED BY <2>1, <2>2 DEF Create, Typed, TypeOK, history
<1> QED BY <1>1, <1>2

LEMMA SendTyped ==
    ASSUME Typed, NEW e \in End, NEW c \in Channel, Send(e, c)
    PROVE  Typed'
<1> DEFINE m == [type |-> "DATA", stream |-> wired[e][c], channel |-> c, number |-> sentOn[e][c] + 1]
<1>1. m \in SctpMessage /\ sentOn' \in [End -> [Channel -> Nat]]
  BY DEF Send, SctpMessage, Typed, TypeOK
<1>2. sent' \in [End -> Seq(SctpMessage)]
  BY <1>1, SendDataTyped DEF Send
<1> QED BY <1>1, <1>2 DEF Send, Typed, TypeOK, stack, manager, object

LEMMA FinishCloseTyped ==
    ASSUME Typed, NEW e \in End, NEW c \in Channel, FinishClose(e, c)
    PROVE  Typed'
<1> DEFINE kept == entries[e] \ At(e, wired[e][c])
<1>1. kept \in SUBSET entries[e] /\ IsFiniteSet(kept)
  BY FS_Subset DEF Typed
<1>2. Unwired(e, wired[e][c]) \in [Channel -> Nat \cup {NoId}]
  BY DEF Unwired, Typed, TypeOK
<1> HIDE DEF kept
<1>3. readyState' \in [End -> [Channel -> ReadyState]] /\ immediate' \in [End -> [Channel -> BOOLEAN]]
  <2>1. immediate' = [immediate EXCEPT ![e][c] = FALSE]
        /\ (readyState' = [readyState EXCEPT ![e][c] = "closed"] \/ readyState' = readyState)
    BY DEF FinishClose
  <2>2. readyState \in [End -> [Channel -> ReadyState]] /\ immediate \in [End -> [Channel -> BOOLEAN]]
    BY DEF Typed, TypeOK
  <2>3. immediate' \in [End -> [Channel -> BOOLEAN]]
    BY <2>1, <2>2
  <2>4. readyState' \in [End -> [Channel -> ReadyState]]
    <3>1. CASE readyState' = readyState
      BY <2>2, <3>1
    <3>2. CASE readyState' = [readyState EXCEPT ![e][c] = "closed"]
      BY <2>2, <3>2 DEF ReadyState
    <3> QED BY <2>1, <3>1, <3>2
  <2> QED BY <2>3, <2>4
<1>4. \/ UNCHANGED manager
      \/ /\ entries' = [entries EXCEPT ![e] = kept]
         /\ wired' = [wired EXCEPT ![e] = Unwired(e, wired[e][c])]
         /\ UNCHANGED nextStreamId
  BY DEF FinishClose, kept
<1>5. /\ entries' \in [End -> SUBSET Entry] /\ \A d \in End : IsFiniteSet(entries'[d])
      /\ wired' \in [End -> [Channel -> Nat \cup {NoId}]] /\ nextStreamId' \in [End -> Nat]
  <2>1. CASE UNCHANGED manager
    BY <2>1 DEF manager, Typed, TypeOK
  <2>2. CASE /\ entries' = [entries EXCEPT ![e] = kept]
             /\ wired' = [wired EXCEPT ![e] = Unwired(e, wired[e][c])]
             /\ UNCHANGED nextStreamId
    BY <1>1, <1>2, <2>2 DEF Typed, TypeOK
  <2> QED BY <1>4, <2>1, <2>2
<1> QED BY <1>3, <1>5 DEF FinishClose, Typed, TypeOK, traffic, stack, history

LEMMA ClosePeerConnectionTyped ==
    ASSUME Typed, NEW e \in End, ClosePeerConnection(e)
    PROVE  Typed'
<1>1. readyState' \in [End -> [Channel -> ReadyState]] /\ immediate' \in [End -> [Channel -> BOOLEAN]]
  BY DEF ClosePeerConnection, Typed, TypeOK, ReadyState
<1>2. entries' \in [End -> SUBSET Entry] /\ \A d \in End : IsFiniteSet(entries'[d])
  BY FS_EmptySet DEF ClosePeerConnection, Typed, TypeOK
<1>3. wired' \in [End -> [Channel -> Nat \cup {NoId}]]
  BY DEF ClosePeerConnection, Typed, TypeOK
<1>4. assoc' \in [End -> AssocState] /\ dtls' \in [End -> DtlsState] /\ pending' \in [End -> Seq(Channel)]
      /\ isClosed' \in [End -> BOOLEAN]
  BY DEF ClosePeerConnection, Typed, TypeOK, AssocState, DtlsState
<1> QED BY <1>1, <1>2, <1>3, <1>4 DEF ClosePeerConnection, Typed, TypeOK, traffic, history

LEMMA OpenPendingTyped ==
    ASSUME Typed, NEW e \in End, OpenPending(e)
    PROVE  Typed'
<1> DEFINE c == Head(pending[e])
<1>1. c \in Channel /\ Tail(pending[e]) \in Seq(Channel) /\ pending \in [End -> Seq(Channel)]
  BY DEF OpenPending, Typed, TypeOK
<1>2. pending' \in [End -> Seq(Channel)]
  BY <1>1 DEF OpenPending
<1>3. loop' \in [End -> Loop]
  BY DEF OpenPending, Typed, TypeOK, Loop
<1>4. OpenChannel(e, c)
  BY DEF OpenPending
<1>5. EmitOpen(e, c) \/ UNCHANGED <<readyState, opened>>
  BY DEF OpenPending
<1> HIDE DEF c
<1>6. /\ readyState' \in [End -> [Channel -> ReadyState]]
      /\ opened' \in [End -> [Channel -> BOOLEAN]]
  BY <1>1, <1>5, EmitOpenTyped DEF Typed, TypeOK
<1> QED BY <1>1, <1>2, <1>3, <1>4, <1>6, OpenChannelTyped DEF OpenPending, Typed, TypeOK, history

LEMMA ReceiveOpenTyped ==
    ASSUME Typed, NEW e \in End, ReceiveOpen(e)
    PROVE  Typed'
<1> DEFINE m == Sctp!NextMessage(e)
<1>1. delivered' \in [End -> Seq(SctpMessage)] /\ m \in SctpMessage /\ m.type = "OPEN"
  BY ReceiveTyped DEF ReceiveOpen
<1> HIDE DEF m
<1>2. m.stream \in Nat /\ m.channel \in Channel
  BY <1>1 DEF SctpMessage
<1>3. [type |-> "ACK", stream |-> m.stream] \in SctpMessage
  BY <1>2 DEF SctpMessage
<1>4. /\ SendData(e, [type |-> "ACK", stream |-> m.stream])
      /\ \/ Register(e, m.channel, m.stream, TRUE) /\ EmitOpen(e, m.channel) /\ UNCHANGED dtls
         \/ dtls' = [dtls EXCEPT ![e] = "failed"] /\ UNCHANGED <<entries, wired, readyState, opened>>
  BY DEF ReceiveOpen, Accept, m
<1>5. sent' \in [End -> Seq(SctpMessage)]
  BY <1>3, <1>4, SendDataTyped
<1>6. dtls' \in [End -> DtlsState]
  BY <1>4 DEF Typed, TypeOK, DtlsState
<1>7. /\ entries' \in [End -> SUBSET Entry]
      /\ \A d \in End : IsFiniteSet(entries'[d])
      /\ wired' \in [End -> [Channel -> Nat \cup {NoId}]]
  BY <1>2, <1>4, RegisterTyped DEF Typed, TypeOK
<1>8. /\ readyState' \in [End -> [Channel -> ReadyState]]
      /\ opened' \in [End -> [Channel -> BOOLEAN]]
  BY <1>2, <1>4, EmitOpenTyped DEF Typed, TypeOK
<1> QED BY <1>1, <1>5, <1>6, <1>7, <1>8 DEF ReceiveOpen, Typed, TypeOK, history

LEMMA ReceiveAckTyped ==
    ASSUME Typed, NEW e \in End, ReceiveAck(e)
    PROVE  Typed'
<1> DEFINE waiting == {x \in At(e, Sctp!NextMessage(e).stream) : ~x.acked}
<1>1. delivered' \in [End -> Seq(SctpMessage)]
  BY ReceiveTyped DEF ReceiveAck
<1>2. CASE waiting = {}
  BY <1>1, <1>2 DEF ReceiveAck, Typed, TypeOK, stack, history
<1>3. CASE waiting # {}
  <2>1. PICK x \in waiting : /\ entries' = [entries EXCEPT ![e] = (@ \ {x}) \cup {[x EXCEPT !.acked = TRUE]}]
                             /\ EmitOpen(e, x.channel)
    BY <1>3 DEF ReceiveAck
  <2>2. x \in entries[e] /\ x \in Entry /\ x.channel \in Channel /\ [x EXCEPT !.acked = TRUE] \in Entry
    <3>1. x \in entries[e]
      BY DEF At
    <3>2. x \in Entry
      BY <3>1 DEF Typed, TypeOK
    <3> QED BY <3>1, <3>2 DEF Entry
  <2> DEFINE y == [x EXCEPT !.acked = TRUE]
             rest == entries[e] \ {x}
  <2>3. IsFiniteSet(rest) /\ rest \subseteq entries[e]
    BY FS_RemoveElement DEF Typed
  <2> HIDE DEF y, rest
  <2>4. IsFiniteSet(rest \cup {y})
    BY <2>3, FS_AddElement
  <2>5. entries' = [entries EXCEPT ![e] = rest \cup {y}]
    BY <2>1 DEF y, rest
  <2>6. entries' \in [End -> SUBSET Entry] /\ \A d \in End : IsFiniteSet(entries'[d])
    BY <2>2, <2>3, <2>4, <2>5 DEF Typed, TypeOK, y
  <2>7. /\ readyState' \in [End -> [Channel -> ReadyState]]
        /\ opened' \in [End -> [Channel -> BOOLEAN]]
    BY <2>1, <2>2, EmitOpenTyped
  <2> QED BY <1>1, <2>6, <2>7 DEF ReceiveAck, Typed, TypeOK, stack, history
<1> QED BY <1>2, <1>3

LEMMA ReceiveDataTyped ==
    ASSUME Typed, NEW e \in End, ReceiveData(e)
    PROVE  Typed'
<1> DEFINE m == Sctp!NextMessage(e)
<1>1. delivered' \in [End -> Seq(SctpMessage)] /\ m \in SctpMessage /\ m.type = "DATA"
  BY ReceiveTyped DEF ReceiveData
<1>2. PICK receivers : receivedOn' = [receivedOn EXCEPT ![e] =
                            [c \in Channel |-> IF c \in receivers
                                               THEN Append(@[c], <<m.channel, m.number>>) ELSE @[c]]]
  BY DEF ReceiveData
<1> HIDE DEF m
<1>3. <<m.channel, m.number>> \in Channel \X Nat
  BY <1>1 DEF SctpMessage
<1>4. receivedOn' \in [End -> [Channel -> Seq(Channel \X Nat)]]
  <2> DEFINE now == [c \in Channel |-> IF c \in receivers
                         THEN Append(receivedOn[e][c], <<m.channel, m.number>>) ELSE receivedOn[e][c]]
  <2>1. receivedOn \in [End -> [Channel -> Seq(Channel \X Nat)]]
    BY DEF Typed, TypeOK
  <2>2. now \in [Channel -> Seq(Channel \X Nat)]
    BY <1>3, <2>1
  <2>3. receivedOn' = [receivedOn EXCEPT ![e] = now]
    BY <1>2
  <2> HIDE DEF now
  <2> QED BY <2>1, <2>2, <2>3
<1> QED BY <1>1, <1>4 DEF ReceiveData, Typed, TypeOK, stack, manager, object

LEMMA SkipTyped ==
    ASSUME Typed, NEW e \in End, SkipMessage(e)
    PROVE  Typed'
<1>1. PICK t : Receive(e, t)
  BY DEF SkipMessage
<1>2. delivered' \in [End -> Seq(SctpMessage)]
  BY <1>1, ReceiveTyped
<1> QED BY <1>2 DEF SkipMessage, Typed, TypeOK, stack, manager, object, history

LEMMA TypedStep == Typed /\ [Next]_vars => Typed'
<1> SUFFICES ASSUME Typed, [Next]_vars PROVE Typed'
  OBVIOUS
<1>1. CASE UNCHANGED vars
  BY <1>1 DEF Typed, TypeOK, vars, traffic, stack, manager, object, history
<1>2. ASSUME NEW e \in End, NEW c \in Channel, Create(e, c) \/ Send(e, c) \/ Close(e, c) \/ FinishClose(e, c)
      PROVE Typed'
  BY <1>2, CreateTyped, SendTyped, CloseTyped, FinishCloseTyped
<1>3. ASSUME NEW e \in End, ClosePeerConnection(e) PROVE Typed'
  BY <1>3, ClosePeerConnectionTyped
<1>4. ASSUME NEW e \in End, Handler(e) PROVE Typed'
  BY <1>4, EstablishTyped, OpenPendingTyped, ReceiveOpenTyped, ReceiveAckTyped, ReceiveDataTyped
     DEF Handler
<1>5. ASSUME NEW e \in End, SkipMessage(e) \/ ShutdownArrives(e) \/ AlertArrives(e) PROVE Typed'
  BY <1>5, SkipTyped, EstablishTyped
<1> QED BY <1>1, <1>2, <1>3, <1>4, <1>5 DEF Next, Application, Immediate

\* Every variable keeps its type, and the search for a free stream always ends
\* with one: whatever streams applications choose.
THEOREM AlwaysTyped == Spec => []TypeOK
<1>1. Typed => TypeOK
  BY DEF Typed
<1> QED BY <1>1, InitTyped, TypedStep, PTL DEF Spec
-----------------------------------------------------------------------------
(* What a step may do to a part of the invariant without disturbing it.    *)

\* The messages sent so far stay, and those of this type are all there are.
Kept == \A d \in End : \A i \in DOMAIN sent[d] : i \in DOMAIN sent'[d] /\ sent'[d][i] = sent[d][i]

NoneNew(type) ==
    Kept /\ \A d \in End : \A i \in DOMAIN sent'[d] : sent'[d][i].type = type => i \in DOMAIN sent[d]

LEMMA NothingSent ==
    ASSUME sent' = sent, NEW t
    PROVE  Kept /\ NoneNew(t)
BY DEF Kept, NoneNew

\* A message is sent, or lost.
LEMMA OneSent ==
    ASSUME TypeOK, NEW e \in End, NEW m, SendData(e, m)
    PROVE  /\ Kept
           /\ \A t : m.type # t => NoneNew(t)
           /\ \A d \in End : \A i \in DOMAIN sent'[d] :
                \/ i \in DOMAIN sent[d]
                \/ /\ d = e /\ i = Len(sent[e]) + 1 /\ sent'[d][i] = m
                   /\ assoc[e] = "established" /\ dtls[e] = "connected"
           /\ assoc[e] = "established" /\ dtls[e] = "connected" =>
                Len(sent[e]) + 1 \in DOMAIN sent'[e] /\ sent'[e][Len(sent[e]) + 1] = m
<1>1. sent \in [End -> Seq(SctpMessage)]
  BY DEF TypeOK
<1>2. CASE sent' = sent /\ ~(assoc[e] = "established" /\ dtls[e] = "connected")
  BY <1>2 DEF Kept, NoneNew
<1>3. CASE /\ sent' = [sent EXCEPT ![e] = Append(@, m)]
           /\ assoc[e] = "established" /\ dtls[e] = "connected"
  <2>1. \A d \in End : d # e => sent'[d] = sent[d]
    BY <1>1, <1>3
  <2>2. sent'[e] = Append(sent[e], m) /\ sent[e] \in Seq(SctpMessage)
    BY <1>1, <1>3
  <2>3. /\ DOMAIN sent[e] = 1 .. Len(sent[e]) /\ Len(sent[e]) \in Nat
        /\ DOMAIN sent'[e] = 1 .. (Len(sent[e]) + 1)
        /\ sent'[e][Len(sent[e]) + 1] = m
        /\ \A i \in 1 .. Len(sent[e]) : sent'[e][i] = sent[e][i]
    BY <2>2
  <2>4. \A d \in End : \A i \in DOMAIN sent'[d] :
          i \in DOMAIN sent[d] \/ (d = e /\ i = Len(sent[e]) + 1 /\ sent'[d][i] = m)
    BY <2>1, <2>3
  <2>5. Kept
    BY <2>1, <2>3 DEF Kept
  <2> QED BY <1>3, <2>3, <2>4, <2>5 DEF NoneNew
<1> QED BY <1>2, <1>3 DEF SendData

LEMMA Sent ==
    ASSUME Kept, NEW t, NEW d \in End, NEW c
    PROVE  /\ \A i : IsSent(d, i, t, c) => IsSent(d, i, t, c)' /\ sent'[d][i] = sent[d][i]
           /\ HasSent(d, t, c) => HasSent(d, t, c)'
           /\ NoneNew(t) => /\ \A i : IsSent(d, i, t, c)' => IsSent(d, i, t, c)
                            /\ HasSent(d, t, c)' => HasSent(d, t, c)
BY DEF Kept, NoneNew, IsSent, HasSent

\* The states that matter to the invariant.
StatesKept ==
    \A d \in End, x \in Channel :
        /\ readyState'[d][x] = "none" <=> readyState[d][x] = "none"
        /\ readyState'[d][x] = "closed" <=> readyState[d][x] = "closed"
        /\ readyState'[d][x] = "open" => readyState[d][x] = "open"

\* Once a SHUTDOWN has closed an association it stays closed.
StaysClosed == \A d \in End : assoc[d] = "closed" => assoc'[d] = "closed"

Advances(d, type) ==
    \/ Len(delivered'[d]) = Len(delivered[d])
    \/ /\ Len(delivered'[d]) = Len(delivered[d]) + 1
       /\ Len(delivered[d]) + 1 \in DOMAIN sent[Peer(d)]
       /\ sent[Peer(d)][Len(delivered[d]) + 1].type = type

LEMMA QueueFrame ==
    ASSUME QueueInv,
           \A d \in End : \A i, j \in DOMAIN pending'[d] : pending'[d][i] = pending'[d][j] => i = j,
           \A d \in End, x \in Channel :
               /\ Queued(d, x)' => Queued(d, x)
               /\ readyState[d][x] # "none" => readyState'[d][x] # "none"
               /\ Unopened(d, x)' =>
                    /\ HasEntry(d, x)' => HasEntry(d, x)
                    /\ opened'[d][x] => opened[d][x]
                    /\ HasSent(d, "OPEN", x)' => HasSent(d, "OPEN", x)
    PROVE  QueueInv'
<1>1. \A d \in End, x \in Channel : Unopened(d, x)' => Unopened(d, x)
  BY DEF Unopened
<1> QED BY <1>1 DEF QueueInv

LEMMA OpenFrame ==
    ASSUME TypeOK, TypeOK', OpenInv, NoneNew("OPEN"), NEW t,
           \A d \in End : Advances(d, t),
           \A d \in End, x \in Channel : readyState'[d][x] = "none" <=> readyState[d][x] = "none"
    PROVE  OpenInv'
<1>1. \A d \in End : Len(delivered'[d]) <= Len(sent'[Peer(d)]) /\ Len(delivered[d]) <= Len(delivered'[d])
  <2> SUFFICES ASSUME NEW d \in End
               PROVE  Len(delivered'[d]) <= Len(sent'[Peer(d)]) /\ Len(delivered[d]) <= Len(delivered'[d])
    OBVIOUS
  <2>1. /\ Peer(d) \in End
        /\ sent[Peer(d)] \in Seq(SctpMessage) /\ sent'[Peer(d)] \in Seq(SctpMessage)
        /\ delivered[d] \in Seq(SctpMessage) /\ delivered'[d] \in Seq(SctpMessage)
    BY PeerProperties DEF TypeOK
  <2>2. Len(sent[Peer(d)]) <= Len(sent'[Peer(d)])
    <3>1. CASE Len(sent[Peer(d)]) = 0
      BY <2>1, <3>1
    <3>2. CASE Len(sent[Peer(d)]) \in DOMAIN sent[Peer(d)]
      BY <2>1, <3>2 DEF NoneNew, Kept
    <3> QED BY <2>1, <3>1, <3>2
  <2>3. Len(delivered[d]) <= Len(sent[Peer(d)])
    BY DEF OpenInv
  <2> QED BY <2>1, <2>2, <2>3 DEF Advances
<1>2. \A d \in End : \A i, x : IsSent(d, i, "OPEN", x)' <=> IsSent(d, i, "OPEN", x)
  BY Sent DEF NoneNew
<1>3. \A d \in End : \A x : HasSent(d, "OPEN", x)' <=> HasSent(d, "OPEN", x)
  BY Sent DEF NoneNew
<1>4. \A d \in End, x \in Channel : \A i \in DOMAIN sent'[Peer(d)] :
        IsSent(Peer(d), i, "OPEN", x)' /\ i > Len(delivered'[d]) => readyState'[d][x] = "none"
  <2> SUFFICES ASSUME NEW d \in End, NEW x \in Channel, NEW i \in DOMAIN sent'[Peer(d)],
                      IsSent(Peer(d), i, "OPEN", x)', i > Len(delivered'[d])
               PROVE  readyState'[d][x] = "none"
    OBVIOUS
  <2>1. IsSent(Peer(d), i, "OPEN", x)
    BY <1>2, PeerProperties
  <2>2. i \in DOMAIN sent[Peer(d)]
    BY <2>1 DEF IsSent
  <2>3. sent[Peer(d)] \in Seq(SctpMessage) /\ delivered[d] \in Seq(SctpMessage) /\ delivered'[d] \in Seq(SctpMessage)
    BY PeerProperties DEF TypeOK
  <2>4. i > Len(delivered[d])
    BY <1>1, <2>2, <2>3
  <2>5. readyState[d][x] = "none"
    BY <2>1, <2>2, <2>4 DEF OpenInv
  <2> QED BY <2>5
<1>5. \A d \in End, x \in Channel :
        /\ HasSent(d, "OPEN", x)' => Opener[x] = d /\ x \notin Negotiated
        /\ readyState'[d][x] # "none" => \/ Opener[x] = d \/ x \in Negotiated
                                        \/ HasSent(Peer(d), "OPEN", x)'
  BY <1>3, PeerProperties DEF OpenInv
<1>6. \A d \in End, x \in Channel : \A i, j \in DOMAIN sent'[d] :
        IsSent(d, i, "OPEN", x)' /\ IsSent(d, j, "OPEN", x)' => i = j
  <2> SUFFICES ASSUME NEW d \in End, NEW x \in Channel, NEW i, NEW j,
                      IsSent(d, i, "OPEN", x)', IsSent(d, j, "OPEN", x)'
               PROVE  i = j
    OBVIOUS
  <2>1. IsSent(d, i, "OPEN", x) /\ IsSent(d, j, "OPEN", x)
    BY <1>2
  <2>2. i \in DOMAIN sent[d] /\ j \in DOMAIN sent[d]
    BY <2>1 DEF IsSent
  <2> QED BY <2>1, <2>2 DEF OpenInv
<1> QED BY <1>1, <1>4, <1>5, <1>6 DEF OpenInv

\* Nothing comes to a stream, and no channel that was opened is unopened again.
LEMMA StreamFrame ==
    ASSUME StreamsApart, StreamInv, Typed', nextStreamId' = nextStreamId,
           \A x \in Channel, s \in Nat : OnStream(x, s)' => OnStream(x, s),
           \A d \in End, x \in Channel : Unopened(d, x)' => Unopened(d, x)
    PROVE  StreamInv'
<1>1. \A d \in End : Numbered(d) \subseteq Numbered(d)'
  BY DEF Numbered, Unnumbered
<1>2. \A d \in End : IsFiniteSet(Numbered(d)') /\ Numbered(d)' \subseteq Channel
  BY FS_Subset DEF StreamsApart, Numbered, Unnumbered
<1>3. \A d \in End : Cardinality(Numbered(d)) <= Cardinality(Numbered(d)')
                     /\ Cardinality(Numbered(d)) \in Nat /\ Cardinality(Numbered(d)') \in Nat
  BY <1>1, <1>2, FS_Subset, FS_CardinalityType
<1>4. \A d \in End : IsFiniteSet(entries'[d])
  BY DEF Typed
<1>5. \A d \in End : \E k \in 0 .. Cardinality(Numbered(d)') : nextStreamId'[d] = FirstStream(d) + 2 * k
  <2> SUFFICES ASSUME NEW d \in End
               PROVE  \E k \in 0 .. Cardinality(Numbered(d)') : nextStreamId'[d] = FirstStream(d) + 2 * k
    OBVIOUS
  <2>1. PICK k \in 0 .. Cardinality(Numbered(d)) : nextStreamId[d] = FirstStream(d) + 2 * k
    BY DEF StreamInv
  <2>2. k \in 0 .. Cardinality(Numbered(d)')
    BY <1>3
  <2> QED BY <2>1, <2>2
<1>6. \A x \in Channel, s \in Nat : OnStream(x, s)' =>
         IF ChosenId[x] # NoId THEN s = ChosenId[x]
         ELSE x \in Numbered(Opener[x])' /\ WasAllocated(Opener[x], s)'
  <2> SUFFICES ASSUME NEW x \in Channel, NEW s \in Nat, OnStream(x, s)
               PROVE IF ChosenId[x] # NoId THEN s = ChosenId[x]
                     ELSE x \in Numbered(Opener[x])' /\ WasAllocated(Opener[x], s)'
    OBVIOUS
  <2>1. IF ChosenId[x] # NoId THEN s = ChosenId[x]
        ELSE x \in Numbered(Opener[x]) /\ WasAllocated(Opener[x], s)
    BY DEF StreamInv
  <2>2. Opener[x] \in End
    BY ChannelAssumption
  <2> QED BY <1>1, <2>1, <2>2 DEF WasAllocated
<1>7. \A c, d \in Channel, s, t \in Nat : OnStream(c, s)' /\ OnStream(d, t)' => (c = d <=> s = t)
  BY DEF StreamInv
<1> QED BY <1>4, <1>5, <1>6, <1>7 DEF StreamInv

\* One end's map and listeners.
Wiring(E, w) ==
    \A x \in Channel :
        /\ \A y \in E : y.channel = x => w[x] = y.stream
        /\ w[x] # NoId => \E y \in E : y.channel = x

WiresAgree(E, w, c) ==
    \A s \in {x.stream : x \in E} \cup {w[c]} :
        w[c] = s /\ s # NoId <=> \E x \in {z \in E : z.stream = s} : x.channel = c

LEMMA WiredEach ==
    ASSUME NEW E \in SUBSET Entry, NEW w \in [Channel -> Nat \cup {NoId}]
    PROVE  Wiring(E, w) <=> \A c \in Channel : WiresAgree(E, w, c)
<1> SUFFICES ASSUME NEW c \in Channel
             PROVE  WiresAgree(E, w, c) <=> /\ \A y \in E : y.channel = c => w[c] = y.stream
                                            /\ w[c] # NoId => \E y \in E : y.channel = c
  BY DEF Wiring
<1> QED BY ChannelAssumption DEF Entry, WiresAgree

LEMMA WiredNow == TypeOK => (WiredBothWays <=> \A d \in End : Wiring(entries[d], wired[d]))
<1> SUFFICES ASSUME TypeOK PROVE WiredBothWays <=> \A d \in End : Wiring(entries[d], wired[d])
  OBVIOUS
<1>1. \A d \in End : entries[d] \in SUBSET Entry /\ wired[d] \in [Channel -> Nat \cup {NoId}]
  BY DEF TypeOK
<1>2. WiredBothWays <=> \A d \in End, c \in Channel : WiresAgree(entries[d], wired[d], c)
  BY DEF WiredBothWays, WiresAgree, At
<1> QED BY <1>1, <1>2, WiredEach

LEMMA WiredNext == TypeOK' => (WiredBothWays' <=> \A d \in End : Wiring(entries'[d], wired'[d]))
<1> SUFFICES ASSUME TypeOK' PROVE WiredBothWays' <=> \A d \in End : Wiring(entries'[d], wired'[d])
  OBVIOUS
<1>1. \A d \in End : entries'[d] \in SUBSET Entry /\ wired'[d] \in [Channel -> Nat \cup {NoId}]
  BY DEF TypeOK
<1>2. WiredBothWays' <=> \A d \in End, c \in Channel : WiresAgree(entries'[d], wired'[d], c)
  BY DEF WiredBothWays, WiresAgree, At
<1> QED BY <1>1, <1>2, WiredEach

\* The pairs of stream and channel are what matters.
LEMMA WiredFrame ==
    ASSUME TypeOK, TypeOK', WiredBothWays, wired' = wired,
           \A d \in End :
               /\ \A y \in entries'[d] : \E x \in entries[d] : x.channel = y.channel /\ x.stream = y.stream
               /\ \A x \in entries[d] : \E y \in entries'[d] : x.channel = y.channel /\ x.stream = y.stream
    PROVE  WiredBothWays'
<1>1. \A d \in End : Wiring(entries[d], wired[d])
  BY WiredNow
<1>2. \A d \in End : Wiring(entries'[d], wired'[d])
  BY <1>1 DEF Wiring
<1> QED BY <1>2, WiredNext

LEMMA EntryFrame ==
    ASSUME EntryInv, NoneNew("OPEN"), StatesKept, opened' = opened,
           \A d \in End : isClosed[d] => isClosed'[d],
           \A d \in End, x \in Channel :
               HasEntry(d, x) => HasEntry(d, x)' \/ isClosed'[d],
           \A d \in End : \A y \in entries'[d] : ~y.acked => y \in entries[d]
    PROVE  EntryInv'
<1>1. \A d \in End : \A x : HasSent(d, "OPEN", x)' => HasSent(d, "OPEN", x)
  BY Sent DEF NoneNew
<1> QED BY <1>1 DEF EntryInv, StatesKept

LEMMA AckFrame ==
    ASSUME AckInv, NoneNew("ACK"),
           \A d \in End, x \in Channel : opened[d][x] => opened'[d][x]
    PROVE  AckInv'
<1> SUFFICES ASSUME NEW d \in End, NEW i \in DOMAIN sent'[d], sent'[d][i].type = "ACK"
             PROVE  \E c \in Channel, j \in DOMAIN sent'[Peer(d)] :
                      /\ IsSent(Peer(d), j, "OPEN", c)' /\ sent'[Peer(d)][j].stream = sent'[d][i].stream
                      /\ opened'[d][c]
  BY DEF AckInv
<1>1. i \in DOMAIN sent[d] /\ sent'[d][i] = sent[d][i]
  BY DEF NoneNew, Kept
<1>2. PICK c \in Channel, j \in DOMAIN sent[Peer(d)] :
        /\ IsSent(Peer(d), j, "OPEN", c) /\ sent[Peer(d)][j].stream = sent[d][i].stream
        /\ opened[d][c]
  BY <1>1 DEF AckInv
<1>3. Peer(d) \in End
  BY PeerProperties
<1>4. j \in DOMAIN sent'[Peer(d)] /\ IsSent(Peer(d), j, "OPEN", c)' /\ sent'[Peer(d)][j] = sent[Peer(d)][j]
  BY <1>2, <1>3 DEF NoneNew, Kept, IsSent
<1> QED BY <1>1, <1>2, <1>4

LEMMA DataFrame ==
    ASSUME TypeOK, DataInv, NoneNew("DATA"), sentOn' = sentOn,
           \A d \in End, x \in Channel : opened[d][x] => opened'[d][x],
           \A d \in End : dtls'[d] = "connected" => dtls[d] = "connected"
    PROVE  DataInv'
<1> SUFFICES ASSUME NEW e \in End, NEW c \in Channel
             PROVE
        /\ HasSent(e, "DATA", c)' => opened'[e][c]
        /\ \A i \in DOMAIN sent'[e] : IsSent(e, i, "DATA", c)' =>
             /\ sent'[e][i].number \in 1 .. sentOn'[e][c]
             /\ \A j \in DOMAIN sent'[e] :
                  IsSent(e, j, "DATA", c)' /\ j < i => sent'[e][j].number < sent'[e][i].number
             /\ \A n \in 1 .. (sent'[e][i].number - 1) :
                  \E j \in 1 .. (i - 1) : IsSent(e, j, "DATA", c)' /\ sent'[e][j].number = n
        /\ dtls'[e] = "connected" => \A n \in 1 .. sentOn'[e][c] :
             \E j \in DOMAIN sent'[e] : IsSent(e, j, "DATA", c)' /\ sent'[e][j].number = n
  BY DEF DataInv
<1>1. /\ \A i : IsSent(e, i, "DATA", c)' <=> IsSent(e, i, "DATA", c)
      /\ \A i : IsSent(e, i, "DATA", c) => /\ sent'[e][i] = sent[e][i]
                                           /\ i \in DOMAIN sent[e] /\ i \in DOMAIN sent'[e]
      /\ HasSent(e, "DATA", c)' => HasSent(e, "DATA", c)
  BY Sent DEF NoneNew, IsSent, Kept
<1>2.   /\ HasSent(e, "DATA", c) => opened[e][c]
        /\ \A i \in DOMAIN sent[e] : IsSent(e, i, "DATA", c) =>
             /\ sent[e][i].number \in 1 .. sentOn[e][c]
             /\ \A j \in DOMAIN sent[e] :
                  IsSent(e, j, "DATA", c) /\ j < i => sent[e][j].number < sent[e][i].number
             /\ \A n \in 1 .. (sent[e][i].number - 1) :
                  \E j \in 1 .. (i - 1) : IsSent(e, j, "DATA", c) /\ sent[e][j].number = n
        /\ dtls[e] = "connected" => \A n \in 1 .. sentOn[e][c] :
             \E j \in DOMAIN sent[e] : IsSent(e, j, "DATA", c) /\ sent[e][j].number = n
  BY DEF DataInv
<1>3. ASSUME NEW i \in DOMAIN sent'[e], IsSent(e, i, "DATA", c)'
      PROVE
             /\ sent'[e][i].number \in 1 .. sentOn'[e][c]
             /\ \A j \in DOMAIN sent'[e] :
                  IsSent(e, j, "DATA", c)' /\ j < i => sent'[e][j].number < sent'[e][i].number
             /\ \A n \in 1 .. (sent'[e][i].number - 1) :
                  \E j \in 1 .. (i - 1) : IsSent(e, j, "DATA", c)' /\ sent'[e][j].number = n
  <2>1. IsSent(e, i, "DATA", c) /\ i \in DOMAIN sent[e] /\ sent'[e][i] = sent[e][i]
    BY <1>1, <1>3
  <2>2. /\ sent[e][i].number \in 1 .. sentOn[e][c]
        /\ \A j \in DOMAIN sent[e] :
             IsSent(e, j, "DATA", c) /\ j < i => sent[e][j].number < sent[e][i].number
        /\ \A n \in 1 .. (sent[e][i].number - 1) :
             \E j \in 1 .. (i - 1) : IsSent(e, j, "DATA", c) /\ sent[e][j].number = n
    BY <1>2, <2>1
  <2>3. ASSUME NEW j \in DOMAIN sent'[e], IsSent(e, j, "DATA", c)', j < i
        PROVE  sent'[e][j].number < sent'[e][i].number
    BY <1>1, <2>1, <2>2, <2>3
  <2>4. ASSUME NEW n \in 1 .. (sent'[e][i].number - 1)
        PROVE  \E j \in 1 .. (i - 1) : IsSent(e, j, "DATA", c)' /\ sent'[e][j].number = n
    <3>1. PICK j \in 1 .. (i - 1) : IsSent(e, j, "DATA", c) /\ sent[e][j].number = n
      BY <2>1, <2>2
    <3> QED BY <1>1, <3>1
  <2> QED BY <2>1, <2>2, <2>3, <2>4
<1>4. ASSUME dtls'[e] = "connected", NEW n \in 1 .. sentOn'[e][c]
      PROVE  \E j \in DOMAIN sent'[e] : IsSent(e, j, "DATA", c)' /\ sent'[e][j].number = n
  <2>1. PICK j \in DOMAIN sent[e] : IsSent(e, j, "DATA", c) /\ sent[e][j].number = n
    BY <1>2, <1>4
  <2> QED BY <1>1, <2>1
<1> QED BY <1>1, <1>2, <1>3, <1>4

LEMMA RoutedFrame ==
    ASSUME TypeOK, TypeOK', RoutedInv, StaysClosed, NoneNew("DATA"), UNCHANGED <<sentOn, receivedOn>>,
           NEW t, t # "DATA", \A d \in End : Advances(d, t),
           \A d \in End, x \in Channel : readyState[d][x] = "closed" => readyState'[d][x] = "closed",
           \A d \in End : isClosed[d] => isClosed'[d]
    PROVE  RoutedInv'
<1> SUFFICES ASSUME NEW e \in End, NEW c \in Channel
             PROVE
        LET received == receivedOn'[e][c] IN
        /\ \A i \in DOMAIN received :
             /\ received[i][1] = c
             /\ received[i][2] <= sentOn'[Peer(e)][c]
             /\ i > 1 => received[i - 1][2] < received[i][2]
             /\ \A j \in DOMAIN sent'[Peer(e)] :
                  IsSent(Peer(e), j, "DATA", c)' /\ j > Len(delivered'[e]) =>
                      received[i][2] < sent'[Peer(e)][j].number
        /\ c \notin Negotiated /\ assoc'[e] # "closed" =>
             /\ \A i \in DOMAIN received : received[i][2] = i
             /\ readyState'[e][c] # "closed" /\ ~isClosed'[e] =>
                  \A j \in DOMAIN sent'[Peer(e)] : IsSent(Peer(e), j, "DATA", c)' =>
                      (j <= Len(delivered'[e]) <=> sent'[Peer(e)][j].number <= Len(received))
  BY DEF RoutedInv
<1> DEFINE p == Peer(e)
           received == receivedOn[e][c]
<1>1. receivedOn'[e][c] = received /\ sentOn'[p][c] = sentOn[p][c] /\ p \in End
  BY PeerProperties
<1>2. ASSUME NEW j, IsSent(p, j, "DATA", c)'
      PROVE  /\ IsSent(p, j, "DATA", c) /\ j \in DOMAIN sent[p] /\ sent'[p][j] = sent[p][j]
             /\ j > Len(delivered'[e]) <=> j > Len(delivered[e])
             /\ j <= Len(delivered'[e]) <=> j <= Len(delivered[e])
  <2>1. IsSent(p, j, "DATA", c) /\ j \in DOMAIN sent[p] /\ sent'[p][j] = sent[p][j]
    BY <1>1, <1>2 DEF NoneNew, Kept, IsSent
  <2>2. sent[p] \in Seq(SctpMessage) /\ delivered[e] \in Seq(SctpMessage)
    BY <1>1 DEF TypeOK
  <2>3. j \in Nat /\ Len(delivered[e]) \in Nat
    BY <2>1, <2>2
  <2>4. sent[p][j].type = "DATA"
    BY <2>1 DEF IsSent
  <2>5. \/ Len(delivered'[e]) = Len(delivered[e])
        \/ Len(delivered'[e]) = Len(delivered[e]) + 1 /\ j # Len(delivered[e]) + 1
    BY <2>4 DEF Advances
  <2> QED BY <2>1, <2>3, <2>5
<1>3.   /\ \A i \in DOMAIN received :
             /\ received[i][1] = c
             /\ received[i][2] <= sentOn[p][c]
             /\ i > 1 => received[i - 1][2] < received[i][2]
             /\ \A j \in DOMAIN sent[p] :
                  IsSent(p, j, "DATA", c) /\ j > Len(delivered[e]) =>
                      received[i][2] < sent[p][j].number
        /\ c \notin Negotiated /\ assoc[e] # "closed" =>
             /\ \A i \in DOMAIN received : received[i][2] = i
             /\ readyState[e][c] # "closed" /\ ~isClosed[e] =>
                  \A j \in DOMAIN sent[p] : IsSent(p, j, "DATA", c) =>
                      (j <= Len(delivered[e]) <=> sent[p][j].number <= Len(received))
  BY DEF RoutedInv
<1>4. ASSUME NEW i \in DOMAIN received, NEW j, IsSent(p, j, "DATA", c)', j > Len(delivered'[e])
      PROVE  received[i][2] < sent'[p][j].number
  <2>1. IsSent(p, j, "DATA", c) /\ j \in DOMAIN sent[p] /\ sent'[p][j] = sent[p][j] /\ j > Len(delivered[e])
    BY <1>2, <1>4
  <2> QED BY <1>3, <2>1
<1>5. ASSUME c \notin Negotiated, assoc'[e] # "closed", readyState'[e][c] # "closed", ~isClosed'[e],
             NEW j, IsSent(p, j, "DATA", c)'
      PROVE  j <= Len(delivered'[e]) <=> sent'[p][j].number <= Len(received)
  <2>1. IsSent(p, j, "DATA", c) /\ j \in DOMAIN sent[p] /\ sent'[p][j] = sent[p][j]
        /\ (j <= Len(delivered'[e]) <=> j <= Len(delivered[e]))
    BY <1>2, <1>5
  <2>2. readyState[e][c] # "closed" /\ ~isClosed[e] /\ assoc[e] # "closed"
    BY <1>5 DEF StaysClosed
  <2>3. j <= Len(delivered[e]) <=> sent[p][j].number <= Len(received)
    BY <1>3, <1>5, <2>1, <2>2
  <2> QED BY <2>1, <2>3
<1>6. assoc'[e] # "closed" => assoc[e] # "closed"
  BY DEF StaysClosed
<1> QED BY <1>1, <1>3, <1>4, <1>5, <1>6

\* Steps that the manager has no part in, at which a message may be taken in.
LEMMA TakingKeeps ==
    ASSUME StreamsApart, InductiveInv, Typed', StaysClosed, StatesKept, RoutedInv',
           NEW t, \A d \in End : Advances(d, t),
           UNCHANGED <<sent, pending, isClosed, nextStreamId, entries, wired, opened, sentOn>>,
           \A d \in End : dtls'[d] = "connected" => dtls[d] = "connected"
    PROVE  InductiveInv'
<1>1. TypeOK /\ TypeOK' /\ NoneNew("OPEN") /\ NoneNew("ACK") /\ NoneNew("DATA")
  BY NothingSent DEF InductiveInv, Typed
<1>2. \A d \in End : Advances(d, t)
  OBVIOUS
<1>3. \A d \in End, x \in Channel :
        /\ HasEntry(d, x)' <=> HasEntry(d, x)
        /\ Queued(d, x)' <=> Queued(d, x)
        /\ HasSent(d, "OPEN", x)' <=> HasSent(d, "OPEN", x)
        /\ Unopened(d, x)' <=> Unopened(d, x)
  BY DEF HasEntry, Queued, HasSent, IsSent, Unopened, StatesKept
<1>4. QueueInv'
  <2>1. QueueInv /\ \A d \in End : pending'[d] = pending[d]
    BY DEF InductiveInv
  <2>2. \A d \in End : \A i, j \in DOMAIN pending'[d] : pending'[d][i] = pending'[d][j] => i = j
    BY <2>1 DEF QueueInv
  <2> QED BY <1>3, <2>1, <2>2, QueueFrame DEF StatesKept
<1>5. OpenInv'
  BY <1>1, <1>2, OpenFrame DEF InductiveInv, StatesKept
<1>6. StreamInv'
  <2>1. StreamInv /\ nextStreamId' = nextStreamId
    BY DEF InductiveInv
  <2>2. \A x \in Channel, s \in Nat : OnStream(x, s)' => OnStream(x, s)
    BY DEF OnStream, IsSent
  <2>3. \A d \in End, x \in Channel : Unopened(d, x)' => Unopened(d, x)
    BY <1>3
  <2> QED BY <2>1, <2>2, <2>3, StreamFrame
<1>7. WiredBothWays'
  BY <1>1, WiredFrame DEF InductiveInv
<1>8. EntryInv'
  BY <1>1, <1>3, EntryFrame DEF InductiveInv
<1>9. ClosedIsDropped'
  BY DEF InductiveInv, ClosedIsDropped, StatesKept
<1>10. AckInv'
  BY <1>1, AckFrame DEF InductiveInv
<1>11. OpenAtBoth'
  BY DEF InductiveInv, OpenAtBoth
<1>12. DataInv'
  BY <1>1, DataFrame DEF InductiveInv
<1> QED BY <1>1, <1>4, <1>5, <1>6, <1>7, <1>8, <1>9, <1>10, <1>11, <1>12 DEF InductiveInv

\* Among them those at which an OPEN or an ACK is lost.
LEMMA SkipKeeps ==
    ASSUME StreamsApart, InductiveInv, Typed', StaysClosed, StatesKept,
           NEW t, t # "DATA", \A d \in End : Advances(d, t),
           UNCHANGED <<sent, pending, isClosed, nextStreamId, entries, wired, opened,
                       sentOn, receivedOn>>,
           \A d \in End : dtls'[d] = "connected" => dtls[d] = "connected"
    PROVE  InductiveInv'
<1>1. TypeOK /\ TypeOK' /\ NoneNew("DATA") /\ RoutedInv
  BY NothingSent DEF InductiveInv, Typed
<1>2. RoutedInv'
  BY <1>1, RoutedFrame DEF StatesKept
<1> QED BY <1>2, TakingKeeps

LEMMA QuietKeeps ==
    ASSUME StreamsApart, InductiveInv, Typed', StaysClosed, StatesKept,
           UNCHANGED <<sent, delivered, pending, isClosed, nextStreamId, entries, wired, opened,
                       sentOn, receivedOn>>,
           \A d \in End : dtls'[d] = "connected" => dtls[d] = "connected"
    PROVE  InductiveInv'
<1>1. \A d \in End : Advances(d, "OPEN")
  BY DEF Advances
<1> QED BY <1>1, SkipKeeps

LEMMA StackKeeps ==
    ASSUME StreamsApart, InductiveInv, Typed', StaysClosed, NEW e \in End,
           Establish(e) \/ EndLoop(e) \/ ShutdownArrives(e) \/ AlertArrives(e)
    PROVE  InductiveInv'
<1>1. dtls \in [End -> DtlsState]
  BY DEF InductiveInv, TypeOK
<1>2. UNCHANGED <<traffic, pending, isClosed, manager, object, history>>
  BY DEF Establish, EndLoop, ShutdownArrives, AlertArrives
<1>3. \A d \in End : dtls'[d] = "connected" => dtls[d] = "connected"
  BY <1>1 DEF Establish, EndLoop, ShutdownArrives, AlertArrives
<1> QED BY <1>2, <1>3, QuietKeeps DEF traffic, manager, object, history, StatesKept

LEMMA StutterKeeps ==
    ASSUME StreamsApart, InductiveInv, Typed', StaysClosed, UNCHANGED vars
    PROVE  InductiveInv'
BY QuietKeeps DEF vars, stack, traffic, manager, object, history, StatesKept

LEMMA CloseKeeps ==
    ASSUME StreamsApart, InductiveInv, Typed', StaysClosed, NEW e \in End, NEW c \in Channel, Close(e, c)
    PROVE  InductiveInv'
<1>1. readyState \in [End -> [Channel -> ReadyState]]
  BY DEF InductiveInv, TypeOK
<1>2. StatesKept
  BY <1>1 DEF Close, StatesKept
<1> QED BY <1>2, QuietKeeps DEF Close, traffic, stack, manager, history

\* A channel that is created before the association is up has to wait.
LEMMA QueuingKeeps ==
    ASSUME StreamsApart, InductiveInv, Typed', StaysClosed, NEW e \in End, NEW c \in Channel,
           Create(e, c), assoc[e] # "established"
    PROVE  InductiveInv'
<1>1. /\ TypeOK /\ TypeOK' /\ NoneNew("OPEN") /\ NoneNew("ACK") /\ NoneNew("DATA")
      /\ QueueInv /\ OpenInv /\ EntryInv
  BY NothingSent DEF InductiveInv, Typed, Create
<1>2. /\ UNCHANGED <<sent, delivered, dtls, isClosed, nextStreamId, entries, wired, opened, sentOn, receivedOn>>
      /\ pending' = [pending EXCEPT ![e] = Append(@, c)]
      /\ readyState' = [readyState EXCEPT ![e][c] = "connecting"]
      /\ readyState[e][c] = "none" /\ (e = Opener[c] \/ c \in Negotiated)
  BY DEF Create, manager, history
<1>3. /\ pending \in [End -> Seq(Channel)]
      /\ readyState \in [End -> [Channel -> ReadyState]]
  BY <1>1 DEF TypeOK
<1>4. \A d \in End, x \in Channel :
        readyState'[d][x] = IF d = e /\ x = c THEN "connecting" ELSE readyState[d][x]
  BY <1>2, <1>3
<1>5. \A d \in End, x \in Channel : Queued(d, x)' <=> Queued(d, x) \/ (d = e /\ x = c)
  <2>1. \A d \in End : d # e => pending'[d] = pending[d]
    BY <1>2, <1>3
  <2>2. /\ DOMAIN pending[e] = 1 .. Len(pending[e]) /\ Len(pending[e]) \in Nat
        /\ DOMAIN pending'[e] = 1 .. (Len(pending[e]) + 1)
        /\ pending'[e][Len(pending[e]) + 1] = c
        /\ \A i \in 1 .. Len(pending[e]) : pending'[e][i] = pending[e][i]
    BY <1>2, <1>3
  <2>3. \A x \in Channel : Queued(e, x)' <=> Queued(e, x) \/ x = c
    BY <2>2 DEF Queued
  <2> QED BY <2>1, <2>3 DEF Queued
<1>6. ~Queued(e, c)
  BY <1>1, <1>2 DEF QueueInv
<1>7. \A d \in End, x \in Channel : Unopened(d, x)' <=> Unopened(d, x)
  BY <1>2, <1>4, <1>5 DEF Unopened
<1>8. \A d \in End, x \in Channel :
        /\ HasEntry(d, x)' <=> HasEntry(d, x)
        /\ \A t : HasSent(d, t, x)' <=> HasSent(d, t, x)
        /\ \A t, i : IsSent(d, i, t, x)' <=> IsSent(d, i, t, x)
  BY <1>2 DEF HasEntry, HasSent, IsSent
<1>9. QueueInv'
  <2>1. \A d \in End : \A i, j \in DOMAIN pending'[d] : pending'[d][i] = pending'[d][j] => i = j
    <3>1. \A i \in DOMAIN pending[e] : pending[e][i] # c
      BY <1>6 DEF Queued
    <3>2. \A d \in End : \A i, j \in DOMAIN pending[d] : pending[d][i] = pending[d][j] => i = j
      BY <1>1 DEF QueueInv
    <3> QED BY <1>2, <1>3, <3>1, <3>2
  <2>2. ASSUME NEW d \in End, NEW x \in Channel
        PROVE  /\ Queued(d, x)' => readyState'[d][x] # "none" /\ (Opener[x] = d \/ x \in Negotiated)
               /\ Unopened(d, x)' =>
                    ~HasEntry(d, x)' /\ ~opened'[d][x] /\ ~HasSent(d, "OPEN", x)'
    BY <1>1, <1>2, <1>4, <1>5, <1>7, <1>8 DEF QueueInv
  <2> QED BY <2>1, <2>2 DEF QueueInv
<1>10. OpenInv'
  <2>1. ~HasSent(Peer(e), "OPEN", c)
    BY <1>1, <1>2, PeerProperties DEF OpenInv
  <2>2. \A i : ~IsSent(Peer(e), i, "OPEN", c)
    BY <2>1 DEF HasSent, IsSent
  <2>3. ASSUME NEW d \in End, NEW x \in Channel
        PROVE  /\ HasSent(d, "OPEN", x)' => Opener[x] = d /\ x \notin Negotiated
               /\ \A i, j \in DOMAIN sent'[d] : IsSent(d, i, "OPEN", x)' /\ IsSent(d, j, "OPEN", x)' => i = j
               /\ \A i \in DOMAIN sent'[Peer(d)] :
                    IsSent(Peer(d), i, "OPEN", x)' /\ i > Len(delivered'[d]) => readyState'[d][x] = "none"
               /\ readyState'[d][x] # "none" => \/ Opener[x] = d \/ x \in Negotiated
                                               \/ HasSent(Peer(d), "OPEN", x)'
    <3> USE <1>8, PeerProperties
    <3>1. HasSent(d, "OPEN", x)' => Opener[x] = d /\ x \notin Negotiated
      BY <1>1 DEF OpenInv
    <3>2. \A i, j \in DOMAIN sent'[d] : IsSent(d, i, "OPEN", x)' /\ IsSent(d, j, "OPEN", x)' => i = j
      BY <1>1, <1>2 DEF OpenInv
    <3>3. ASSUME NEW i \in DOMAIN sent'[Peer(d)], IsSent(Peer(d), i, "OPEN", x)', i > Len(delivered'[d])
          PROVE  readyState'[d][x] = "none"
      <4>1. IsSent(Peer(d), i, "OPEN", x) /\ i > Len(delivered[d]) /\ i \in DOMAIN sent[Peer(d)]
        BY <1>2, <3>3
      <4>2. readyState[d][x] = "none"
        BY <1>1, <4>1 DEF OpenInv
      <4> QED BY <1>4, <2>2, <4>1, <4>2
    <3>4. readyState'[d][x] # "none" => \/ Opener[x] = d \/ x \in Negotiated
                                        \/ HasSent(Peer(d), "OPEN", x)'
      BY <1>1, <1>2, <1>4 DEF OpenInv
    <3> QED BY <3>1, <3>2, <3>3, <3>4
  <2> QED BY <1>1, <1>2, <2>3 DEF OpenInv
<1>11. StreamInv'
  <2>1. StreamInv /\ nextStreamId' = nextStreamId
    BY <1>2 DEF InductiveInv
  <2>2. \A x \in Channel, s \in Nat : OnStream(x, s)' => OnStream(x, s)
    BY <1>2 DEF OnStream, IsSent
  <2> QED BY <1>7, <2>1, <2>2, StreamFrame
<1>12. WiredBothWays'
  BY <1>1, <1>2, WiredFrame DEF InductiveInv
<1>13. EntryInv'
  BY <1>1, <1>2, <1>4, <1>8 DEF EntryInv
<1>14. ClosedIsDropped'
  BY <1>2, <1>4 DEF InductiveInv, ClosedIsDropped
<1>15. AckInv'
  BY <1>1, <1>2, AckFrame DEF InductiveInv
<1>16. OpenAtBoth'
  BY <1>2 DEF InductiveInv, OpenAtBoth
<1>17. DataInv'
  BY <1>1, <1>2, DataFrame DEF InductiveInv
<1>18. RoutedInv'
  <2>1. \A d \in End : Advances(d, "OPEN")
    BY <1>2 DEF Advances
  <2>2. RoutedInv /\ \A d \in End, x \in Channel : readyState[d][x] = "closed" => readyState'[d][x] = "closed"
    BY <1>2, <1>4 DEF InductiveInv
  <2> QED BY <1>1, <1>2, <2>1, <2>2, RoutedFrame
<1> QED BY <1>1, <1>9, <1>10, <1>11, <1>12, <1>13, <1>14, <1>15, <1>16, <1>17, <1>18 DEF InductiveInv
-----------------------------------------------------------------------------
(* A manager opens a channel.                                              *)

\* What is common to the two places where OpenChannel is called.
Opens(e, c) ==
    /\ Unopened(e, c) /\ (Opener[c] = e \/ c \in Negotiated)
    /\ OpenChannel(e, c)
    /\ \A d \in End, x \in Channel : ~(d = e /\ x = c) =>
         readyState'[d][x] = readyState[d][x] /\ opened'[d][x] = opened[d][x]
    /\ readyState'[e][c] # "none"
    /\ readyState'[e][c] = "closed" <=> readyState[e][c] = "closed"
    /\ readyState'[e][c] = "open" => opened'[e][c]
    /\ opened'[e][c] => c \in Negotiated /\ readyState'[e][c] # "closed"
    /\ \A d \in End : \A i, j \in DOMAIN pending'[d] : pending'[d][i] = pending'[d][j] => i = j
    /\ \A d \in End, x \in Channel : Queued(d, x)' => Queued(d, x) /\ ~(d = e /\ x = c)
    /\ UNCHANGED <<delivered, dtls, isClosed, sentOn, receivedOn>>

\* The next stream of an end has not been used by any channel.
LEMMA NextIsFresh ==
    ASSUME StreamsApart, TypeOK, StreamInv, NEW e \in End, NEW c \in Unnumbered(e), c \notin Numbered(e),
           NEW d \in Channel, NEW t \in Nat, OnStream(d, t)
    PROVE  t # nextStreamId[e]
<1>1. PICK k \in 0 .. Cardinality(Numbered(e)) : nextStreamId[e] = FirstStream(e) + 2 * k
  BY DEF StreamInv
<1>2. Cardinality(Numbered(e)) < Cardinality(Unnumbered(e)) /\ Cardinality(Numbered(e)) \in Nat
      /\ Cardinality(Unnumbered(e)) \in Nat
  <2>1. Numbered(e) \subseteq Unnumbered(e) /\ Unnumbered(e) \subseteq Channel /\ Numbered(e) # Unnumbered(e)
    BY DEF Numbered, Unnumbered
  <2>2. IsFiniteSet(Unnumbered(e)) /\ IsFiniteSet(Numbered(e))
    BY <2>1, FS_Subset DEF StreamsApart
  <2>3. Cardinality(Numbered(e)) <= Cardinality(Unnumbered(e)) /\ Cardinality(Numbered(e)) # Cardinality(Unnumbered(e))
    BY <2>1, <2>2, FS_Subset
  <2> QED BY <2>2, <2>3, FS_CardinalityType
<1>3. k \in Nat /\ k < Cardinality(Unnumbered(e)) /\ FirstStream(e) \in {0, 1}
  BY <1>2 DEF FirstStream
<1>4. CASE ChosenId[d] # NoId
  <2>1. t = ChosenId[d]
    BY <1>4 DEF StreamInv
  <2>2. t >= FirstStream(e) + 2 * Cardinality(Unnumbered(e))
    BY <1>4, <2>1 DEF StreamsApart
  <2> QED BY <1>1, <1>2, <1>3, <2>2
<1>5. CASE ChosenId[d] = NoId
  <2>1. WasAllocated(Opener[d], t) /\ Opener[d] \in End
    BY <1>5, ChannelAssumption DEF StreamInv
  <2>2. CASE Opener[d] = e
    BY <2>1, <2>2 DEF WasAllocated, TypeOK
  <2>3. CASE Opener[d] # e
    <3>1. PICK j \in Nat : t = FirstStream(Opener[d]) + 2 * j
      BY <2>1 DEF WasAllocated
    <3>2. {FirstStream(Opener[d]), FirstStream(e)} = {0, 1}
      BY <2>1, <2>3, ChannelAssumption DEF FirstStream, End
    <3>3. CASE FirstStream(e) = 0 /\ FirstStream(Opener[d]) = 1
      BY <1>1, <1>3, <3>1, <3>3
    <3>4. CASE FirstStream(e) = 1 /\ FirstStream(Opener[d]) = 0
      BY <1>1, <1>3, <3>1, <3>4
    <3> QED BY <3>2, <3>3, <3>4
  <2> QED BY <2>2, <2>3
<1> QED BY <1>4, <1>5

\* A stream found without a search is the next one.
LEMMA NextIfFree ==
    ASSUME Typed, NEW e \in End, At(e, nextStreamId[e]) = {}
    PROVE  Allocated(e) = nextStreamId[e]
<1>1. nextStreamId[e] \in Nat /\ Cardinality(entries[e]) \in Nat
  BY FS_CardinalityType DEF Typed, TypeOK
<1>2. nextStreamId[e] \in Candidates(e)
  <2>1. nextStreamId[e] \in nextStreamId[e] .. (nextStreamId[e] + 2 * Cardinality(entries[e]))
    BY <1>1
  <2> QED BY <2>1, Zenon DEF Candidates
<1>3. Allocated(e) \in Nat /\ Allocated(e) >= nextStreamId[e]
  BY <1>1, AllocatedIsFree DEF Candidates
<1> QED BY <1>1, <1>2, <1>3, AllocatedIsFree

LEMMA StreamIsFree ==
    ASSUME StreamsApart, InductiveInv, NEW e \in End, NEW c \in Channel, Opens(e, c)
    PROVE  /\ StreamOf(e, c) \in Nat
           /\ At(e, StreamOf(e, c)) = {}
           /\ ~HasEntry(e, c)
           /\ \A d \in Channel, t \in Nat : OnStream(d, t) => (d = c <=> t = StreamOf(e, c))
           /\ ChosenId[c] = NoId => /\ StreamOf(e, c) = nextStreamId[e]
                                    /\ Opener[c] = e /\ c \notin Negotiated
                                    /\ c \in Unnumbered(e) /\ c \notin Numbered(e)
<1> DEFINE s == StreamOf(e, c)
<1>1. Typed /\ TypeOK /\ StreamInv /\ QueueInv
  BY DEF InductiveInv, Typed, StreamInv
<1>2. s \in Nat
  BY <1>1, StreamIsNat
<1>3. ~HasEntry(e, c) /\ Unopened(e, c)
  BY <1>1 DEF QueueInv, Opens
<1>4. ASSUME NEW x \in entries[e]
      PROVE  x.channel \in Channel /\ x.stream \in Nat /\ OnStream(x.channel, x.stream)
  <2>1. x \in Entry
    BY <1>1 DEF TypeOK
  <2> QED BY <2>1 DEF Entry, OnStream
<1>5. CASE ChosenId[c] = NoId
  <2>1. Opener[c] = e /\ c \notin Negotiated
    BY <1>5, ChannelAssumption DEF Opens
  <2>2. c \in Unnumbered(e) /\ c \notin Numbered(e)
    BY <1>3, <1>5, <2>1 DEF Unnumbered, Numbered
  <2>3. \A d \in Channel, t \in Nat : OnStream(d, t) => t # nextStreamId[e]
    BY <1>1, <2>2, NextIsFresh
  <2>4. At(e, nextStreamId[e]) = {}
    BY <1>4, <2>3 DEF At
  <2>5. s = nextStreamId[e]
    BY <1>1, <1>5, <2>4, NextIfFree DEF StreamOf
  <2>6. \A d \in Channel, t \in Nat : OnStream(d, t) => d # c /\ t # s
    BY <1>1, <1>5, <2>1, <2>2, <2>3, <2>5 DEF StreamInv
  <2> QED BY <1>2, <1>3, <2>1, <2>2, <2>4, <2>5, <2>6
<1>6. CASE ChosenId[c] # NoId
  <2>1. s = ChosenId[c]
    BY <1>6 DEF StreamOf
  <2>2. ASSUME NEW d \in Channel, NEW t \in Nat, OnStream(d, t) PROVE d = c <=> t = s
    <3>1. CASE ChosenId[d] # NoId
      <4>1. t = ChosenId[d]
        BY <1>1, <2>2, <3>1 DEF StreamInv
      <4> QED BY <1>6, <2>1, <3>1, <4>1 DEF StreamsApart
    <3>2. CASE ChosenId[d] = NoId
      <4>1. d \in Numbered(Opener[d]) /\ WasAllocated(Opener[d], t) /\ Opener[d] \in End
        BY <1>1, <2>2, <3>2, ChannelAssumption DEF StreamInv
      <4> DEFINE o == Opener[d]
      <4>2. PICK k \in 0 .. Cardinality(Numbered(o)) : nextStreamId[o] = FirstStream(o) + 2 * k
        BY <1>1, <4>1 DEF StreamInv
      <4>3. Cardinality(Numbered(o)) <= Cardinality(Unnumbered(o)) /\ Cardinality(Numbered(o)) \in Nat
            /\ Cardinality(Unnumbered(o)) \in Nat
        <5>1. Numbered(o) \subseteq Unnumbered(o) /\ Unnumbered(o) \subseteq Channel
          BY DEF Numbered, Unnumbered
        <5>2. IsFiniteSet(Unnumbered(o)) /\ IsFiniteSet(Numbered(o))
          BY <5>1, FS_Subset DEF StreamsApart
        <5> QED BY <5>1, <5>2, FS_Subset, FS_CardinalityType
      <4>4. t < nextStreamId[o] /\ FirstStream(o) \in {0, 1}
        BY <4>1 DEF WasAllocated, FirstStream
      <4>5. s >= FirstStream(o) + 2 * Cardinality(Unnumbered(o))
        BY <1>6, <2>1, <4>1 DEF StreamsApart
      <4>6. t < s
        BY <1>2, <4>2, <4>3, <4>4, <4>5
      <4> QED BY <1>2, <1>6, <3>2, <4>6
    <3> QED BY <3>1, <3>2
  <2>3. At(e, s) = {}
    <3> SUFFICES ASSUME NEW x \in entries[e], x.stream = s PROVE FALSE
      BY DEF At
    <3>1. x.channel = c
      BY <1>4, <2>2
    <3> QED BY <1>3, <3>1 DEF HasEntry
  <2> QED BY <1>2, <1>3, <1>6, <2>2, <2>3
<1> QED BY <1>5, <1>6

\* What an opening does to the map, the listeners and the messages.
LEMMA OpensEffect ==
    ASSUME StreamsApart, InductiveInv, Typed', StaysClosed, NEW e \in End, NEW c \in Channel, Opens(e, c)
    PROVE  LET s == StreamOf(e, c) IN
           /\ NoneNew("ACK") /\ NoneNew("DATA") /\ Kept
           /\ c \in Negotiated => NoneNew("OPEN")
           /\ \A d \in End : \A i, x : IsSent(d, i, "OPEN", x)' =>
                \/ IsSent(d, i, "OPEN", x)
                \/ /\ d = e /\ x = c /\ c \notin Negotiated
                   /\ i = Len(sent[e]) + 1 /\ sent'[e][i].stream = s
           /\ \A d \in End : d # e => entries'[d] = entries[d] /\ wired'[d] = wired[d]
                                      /\ nextStreamId'[d] = nextStreamId[d]
           /\ entries'[e] = entries[e] \cup {[stream |-> s, channel |-> c, acked |-> c \in Negotiated]}
           /\ \A x \in Channel : wired'[e][x] = IF x = c THEN s ELSE wired[e][x]
           /\ nextStreamId'[e] = IF ChosenId[c] = NoId THEN s + 2 ELSE nextStreamId[e]
<1> DEFINE s == StreamOf(e, c)
           m == [type |-> "OPEN", stream |-> s, channel |-> c]
<1>1. /\ nextStreamId' = [nextStreamId EXCEPT ![e] = IF ChosenId[c] = NoId THEN s + 2 ELSE @]
      /\ Register(e, c, s, c \in Negotiated)
      /\ IF c \in Negotiated THEN sent' = sent ELSE SendData(e, m)
  BY DEF Opens, OpenChannel, StreamOf
<1>2. At(e, s) = {} /\ TypeOK
  BY StreamIsFree DEF InductiveInv
<1> HIDE DEF s
<1>3. /\ \A d \in End : d # e => entries'[d] = entries[d] /\ wired'[d] = wired[d]
                                 /\ nextStreamId'[d] = nextStreamId[d]
      /\ nextStreamId'[e] = IF ChosenId[c] = NoId THEN s + 2 ELSE nextStreamId[e]
      /\ \A x \in Channel : wired'[e][x] = IF x = c THEN s ELSE wired[e][x]
  BY <1>1, <1>2 DEF Register, TypeOK
<1>4. entries'[e] = entries[e] \cup {[stream |-> s, channel |-> c, acked |-> c \in Negotiated]}
  <2>1. entries'[e] = (entries[e] \ At(e, s)) \cup {[stream |-> s, channel |-> c, acked |-> c \in Negotiated]}
    BY <1>1, <1>2 DEF Register, TypeOK
  <2>2. entries[e] \ At(e, s) = entries[e]
    BY <1>2
  <2> QED BY <2>1, <2>2, Zenon
<1>5. CASE c \in Negotiated
  <2>1. sent' = sent
    BY <1>1, <1>5
  <2>2. \A t : NoneNew(t) /\ Kept
    BY <2>1, NothingSent
  <2>3. \A d \in End : \A i, x : IsSent(d, i, "OPEN", x)' => IsSent(d, i, "OPEN", x)
    BY <2>1 DEF IsSent
  <2> QED BY <1>3, <1>4, <1>5, <2>2, <2>3 DEF s
<1>6. CASE c \notin Negotiated
  <2>1. SendData(e, m) /\ m.type = "OPEN" /\ m.stream = s /\ m.channel = c
    BY <1>1, <1>6
  <2> HIDE DEF m
  <2>2. /\ Kept /\ \A t : m.type # t => NoneNew(t)
        /\ \A d \in End : \A i \in DOMAIN sent'[d] :
             \/ i \in DOMAIN sent[d]
             \/ /\ d = e /\ i = Len(sent[e]) + 1 /\ sent'[d][i] = m
    BY <1>2, <2>1, OneSent
  <2>3. NoneNew("ACK") /\ NoneNew("DATA")
    BY <2>1, <2>2
  <2>4. ASSUME NEW d \in End, NEW i, NEW x, IsSent(d, i, "OPEN", x)'
        PROVE  \/ IsSent(d, i, "OPEN", x)
               \/ /\ d = e /\ x = c
                  /\ i = Len(sent[e]) + 1 /\ sent'[e][i].stream = s
    BY <2>1, <2>2, <2>4 DEF IsSent, Kept
  <2> QED BY <1>3, <1>4, <1>6, <2>2, <2>3, <2>4 DEF s
<1> QED BY <1>5, <1>6

LEMMA OpensKeepsStreams ==
    ASSUME StreamsApart, InductiveInv, Typed', StaysClosed, NEW e \in End, NEW c \in Channel, Opens(e, c)
    PROVE  StreamInv'
<1> DEFINE s == StreamOf(e, c)
<1>1. /\ s \in Nat
      /\ \A d \in Channel, t \in Nat : OnStream(d, t) => (d = c <=> t = s)
      /\ ChosenId[c] = NoId => /\ s = nextStreamId[e]
                               /\ Opener[c] = e /\ c \in Unnumbered(e) /\ c \notin Numbered(e)
  BY StreamIsFree
<1>2. /\ NoneNew("DATA")
      /\ \A d \in End : \A i, x : IsSent(d, i, "OPEN", x)' =>
           \/ IsSent(d, i, "OPEN", x) \/ (x = c /\ sent'[d][i].stream = s)
      /\ \A d \in End : d # e => entries'[d] = entries[d] /\ nextStreamId'[d] = nextStreamId[d]
      /\ entries'[e] = entries[e] \cup {[stream |-> s, channel |-> c, acked |-> c \in Negotiated]}
      /\ nextStreamId'[e] = IF ChosenId[c] = NoId THEN s + 2 ELSE nextStreamId[e]
      /\ Kept
  BY OpensEffect
<1> HIDE DEF s
<1>3. /\ StreamInv /\ TypeOK /\ nextStreamId[e] \in Nat
  BY DEF InductiveInv, TypeOK
<1>4. \A x \in Channel, t \in Nat : OnStream(x, t)' => OnStream(x, t) \/ (x = c /\ t = s)
  <2> SUFFICES ASSUME NEW x \in Channel, NEW t \in Nat, OnStream(x, t)', ~(x = c /\ t = s)
               PROVE  OnStream(x, t)
    OBVIOUS
  <2>1. PICK d \in End : \/ \E y \in entries'[d] : y.channel = x /\ y.stream = t
                         \/ \E i \in DOMAIN sent'[d] :
                              (IsSent(d, i, "OPEN", x)' \/ IsSent(d, i, "DATA", x)') /\ sent'[d][i].stream = t
    BY DEF OnStream
  <2>2. CASE \E y \in entries'[d] : y.channel = x /\ y.stream = t
    BY <1>2, <2>2 DEF OnStream
  <2>3. ASSUME NEW i \in DOMAIN sent'[d], IsSent(d, i, "OPEN", x)' \/ IsSent(d, i, "DATA", x)', sent'[d][i].stream = t
        PROVE  OnStream(x, t)
    <3>1. IsSent(d, i, "OPEN", x) \/ IsSent(d, i, "DATA", x)
      BY <1>2, <2>3 DEF NoneNew, Kept, IsSent
    <3>2. i \in DOMAIN sent[d] /\ sent'[d][i] = sent[d][i]
      BY <1>2, <3>1 DEF Kept, IsSent
    <3> QED BY <2>3, <3>1, <3>2 DEF OnStream
  <2> QED BY <2>1, <2>2, <2>3
<1>5. \A d \in End, x \in Channel : Unopened(d, x)' => Unopened(d, x) /\ ~(d = e /\ x = c)
  <2> SUFFICES ASSUME NEW d \in End, NEW x \in Channel, Unopened(d, x)'
               PROVE  Unopened(d, x) /\ ~(d = e /\ x = c)
    OBVIOUS
  <2>1. CASE Queued(d, x)'
    BY <2>1 DEF Opens, Unopened
  <2>2. CASE readyState'[d][x] = "none"
    BY <2>2 DEF Opens, Unopened
  <2> QED BY <2>1, <2>2 DEF Unopened
<1>6. \A d \in End : Numbered(d) \subseteq Numbered(d)'
  BY <1>5 DEF Numbered, Unnumbered
<1>7. \A d \in End : Numbered(d)' \subseteq Channel
  BY DEF Numbered, Unnumbered
<1>8. \A d \in End : IsFiniteSet(Numbered(d)') /\ IsFiniteSet(Numbered(d))
  BY <1>6, <1>7, FS_Subset DEF StreamsApart
<1>9. \A d \in End : Cardinality(Numbered(d)) <= Cardinality(Numbered(d)')
                     /\ Cardinality(Numbered(d)) \in Nat /\ Cardinality(Numbered(d)') \in Nat
  BY <1>6, <1>8, FS_Subset, FS_CardinalityType
<1>10. ASSUME NEW d \in End
       PROVE  \E k \in 0 .. Cardinality(Numbered(d)') : nextStreamId'[d] = FirstStream(d) + 2 * k
  <2>1. PICK k \in 0 .. Cardinality(Numbered(d)) : nextStreamId[d] = FirstStream(d) + 2 * k
    BY <1>3 DEF StreamInv
  <2>2. CASE nextStreamId'[d] = nextStreamId[d]
    <3>1. k \in 0 .. Cardinality(Numbered(d)')
      BY <1>9
    <3> QED BY <2>1, <2>2, <3>1
  <2>3. CASE d = e /\ ChosenId[c] = NoId
    <3>1. Numbered(e) \cup {c} \subseteq Numbered(e)'
      BY <1>1, <1>5, <1>6, <2>3 DEF Numbered, Unnumbered
    <3>2. Cardinality(Numbered(e) \cup {c}) = Cardinality(Numbered(e)) + 1
      BY <1>1, <1>8, <2>3, FS_AddElement
    <3>3. Cardinality(Numbered(e)) + 1 <= Cardinality(Numbered(e)')
      BY <1>8, <3>1, <3>2, FS_Subset
    <3>4. k + 1 \in 0 .. Cardinality(Numbered(e)')
      BY <1>9, <2>3, <3>3
    <3>5. nextStreamId'[e] = FirstStream(e) + 2 * (k + 1)
      BY <1>1, <1>2, <2>1, <2>3 DEF FirstStream
    <3> QED BY <2>3, <3>4, <3>5
  <2> QED BY <1>2, <2>2, <2>3
<1>11. ASSUME NEW x \in Channel, NEW t \in Nat, OnStream(x, t)'
       PROVE  IF ChosenId[x] # NoId THEN t = ChosenId[x]
              ELSE x \in Numbered(Opener[x])' /\ WasAllocated(Opener[x], t)'
  <2>1. Opener[x] \in End /\ Opener[c] \in End
    BY ChannelAssumption
  <2>2. CASE OnStream(x, t)
    <3>1. IF ChosenId[x] # NoId THEN t = ChosenId[x]
          ELSE x \in Numbered(Opener[x]) /\ WasAllocated(Opener[x], t)
      BY <1>3, <2>2 DEF StreamInv
    <3>2. t < nextStreamId[Opener[x]] => t < nextStreamId'[Opener[x]]
      <4>1. nextStreamId[Opener[x]] \in Nat
        BY <1>3, <2>1 DEF TypeOK
      <4>2. CASE Opener[x] # e
        BY <1>2, <2>1, <4>2
      <4>3. CASE Opener[x] = e /\ ChosenId[c] = NoId
        BY <1>1, <1>2, <4>1, <4>3
      <4>4. CASE Opener[x] = e /\ ChosenId[c] # NoId
        BY <1>2, <4>4
      <4> QED BY <4>2, <4>3, <4>4
    <3> QED BY <1>6, <2>1, <3>1, <3>2 DEF WasAllocated
  <2>3. CASE x = c /\ t = s /\ ChosenId[c] # NoId
    BY <2>3 DEF StreamOf, s
  <2>4. CASE x = c /\ t = s /\ ChosenId[c] = NoId
    <3>1. c \in Numbered(e)'
      BY <1>1, <1>5, <2>4 DEF Numbered, Unnumbered
    <3>2. s < nextStreamId'[e]
      BY <1>1, <1>2, <2>4
    <3>3. PICK k \in 0 .. Cardinality(Numbered(e)) : s = FirstStream(e) + 2 * k
      BY <1>1, <1>3, <2>4 DEF StreamInv
    <3>4. k \in Nat
      BY <1>9
    <3> QED BY <1>1, <2>4, <3>1, <3>2, <3>3, <3>4 DEF WasAllocated
  <2> QED BY <1>4, <1>11, <2>2, <2>3, <2>4
<1>12. ASSUME NEW x \in Channel, NEW y \in Channel, NEW t \in Nat, NEW u \in Nat, OnStream(x, t)', OnStream(y, u)'
       PROVE  x = y <=> t = u
  BY <1>1, <1>3, <1>4, <1>12 DEF StreamInv
<1>13. \A d \in End : IsFiniteSet(entries'[d])
  BY DEF Typed
<1> QED BY <1>10, <1>11, <1>12, <1>13 DEF StreamInv

LEMMA OpensKeepsQueue ==
    ASSUME StreamsApart, InductiveInv, Typed', StaysClosed, NEW e \in End, NEW c \in Channel, Opens(e, c)
    PROVE  QueueInv' /\ OpenInv'
<1> DEFINE s == StreamOf(e, c)
<1>1. /\ QueueInv /\ OpenInv /\ TypeOK /\ TypeOK'
      /\ ~HasEntry(e, c) /\ ~opened[e][c] /\ ~HasSent(e, "OPEN", c)
  BY DEF InductiveInv, Opens, QueueInv, Typed
<1>2. /\ \A d \in End : \A i, x : IsSent(d, i, "OPEN", x)' =>
           \/ IsSent(d, i, "OPEN", x)
           \/ d = e /\ x = c /\ c \notin Negotiated /\ i = Len(sent[e]) + 1
      /\ \A d \in End : d # e => entries'[d] = entries[d]
      /\ entries'[e] = entries[e] \cup {[stream |-> s, channel |-> c, acked |-> c \in Negotiated]}
      /\ Kept
  BY OpensEffect
<1> HIDE DEF s
<1>3. \A d \in End, x \in Channel : ~(d = e /\ x = c) =>
        /\ HasEntry(d, x)' => HasEntry(d, x)
        /\ HasSent(d, "OPEN", x)' => HasSent(d, "OPEN", x)
  <2> SUFFICES ASSUME NEW d \in End, NEW x \in Channel, ~(d = e /\ x = c)
               PROVE  /\ HasEntry(d, x)' => HasEntry(d, x)
                      /\ HasSent(d, "OPEN", x)' => HasSent(d, "OPEN", x)
    OBVIOUS
  <2>1. HasEntry(d, x)' => HasEntry(d, x)
    BY <1>2 DEF HasEntry
  <2>2. HasSent(d, "OPEN", x)' => HasSent(d, "OPEN", x)
    BY <1>2 DEF HasSent, IsSent
  <2> QED BY <2>1, <2>2
<1>4. \A d \in End, x \in Channel : Unopened(d, x)' => ~(d = e /\ x = c)
  BY DEF Opens, Unopened
<1>5. \A d \in End, x \in Channel : readyState[d][x] # "none" => readyState'[d][x] # "none"
  BY DEF Opens
<1>6. QueueInv'
  <2>1. \A d \in End : \A i, j \in DOMAIN pending'[d] : pending'[d][i] = pending'[d][j] => i = j
    BY DEF Opens
  <2>2. ASSUME NEW d \in End, NEW x \in Channel
        PROVE  /\ Queued(d, x)' => Queued(d, x)
               /\ Unopened(d, x)' =>
                    /\ HasEntry(d, x)' => HasEntry(d, x)
                    /\ opened'[d][x] => opened[d][x]
                    /\ HasSent(d, "OPEN", x)' => HasSent(d, "OPEN", x)
    <3>1. Queued(d, x)' => Queued(d, x)
      BY DEF Opens
    <3>2. ~(d = e /\ x = c) => opened'[d][x] = opened[d][x]
      BY DEF Opens
    <3>3. ASSUME Unopened(d, x)'
          PROVE  /\ HasEntry(d, x)' => HasEntry(d, x)
                 /\ opened'[d][x] => opened[d][x]
                 /\ HasSent(d, "OPEN", x)' => HasSent(d, "OPEN", x)
      <4>1. ~(d = e /\ x = c)
        BY <1>4, <3>3
      <4> QED BY <1>3, <3>2, <4>1
    <3> QED BY <3>1, <3>3
  <2> QED BY <1>1, <1>5, <2>1, <2>2, QueueFrame
<1>7. Opener[c] = e \/ c \in Negotiated
  BY DEF Opens
<1>8. ASSUME NEW d \in End, NEW x \in Channel
      PROVE  HasSent(d, "OPEN", x)' => Opener[x] = d /\ x \notin Negotiated
  <2> SUFFICES ASSUME NEW i, IsSent(d, i, "OPEN", x)' PROVE Opener[x] = d /\ x \notin Negotiated
    BY DEF HasSent, IsSent
  <2>1. CASE IsSent(d, i, "OPEN", x)
    <3>1. HasSent(d, "OPEN", x)
      BY <2>1 DEF HasSent, IsSent
    <3> QED BY <1>1, <3>1 DEF OpenInv
  <2>2. CASE d = e /\ x = c /\ c \notin Negotiated
    BY <1>7, <2>2
  <2> QED BY <1>2, <2>1, <2>2
<1>9. ASSUME NEW d \in End, NEW x \in Channel, NEW i, NEW j, IsSent(d, i, "OPEN", x)', IsSent(d, j, "OPEN", x)'
      PROVE  i = j
  <2>1. ASSUME NEW k PROVE ~IsSent(e, k, "OPEN", c)
    BY <1>1, <2>1 DEF HasSent, IsSent
  <2>2. CASE d = e /\ x = c
    BY <1>2, <1>9, <2>1, <2>2
  <2>3. CASE ~(d = e /\ x = c)
    <3>1. IsSent(d, i, "OPEN", x) /\ IsSent(d, j, "OPEN", x)
      BY <1>2, <1>9, <2>3
    <3>2. i \in DOMAIN sent[d] /\ j \in DOMAIN sent[d]
      BY <3>1 DEF IsSent
    <3> QED BY <1>1, <3>1, <3>2 DEF OpenInv
  <2> QED BY <2>2, <2>3
<1>10. ASSUME NEW d \in End, NEW x \in Channel, NEW i, IsSent(Peer(d), i, "OPEN", x)', i > Len(delivered'[d])
       PROVE  readyState'[d][x] = "none"
  <2>1. Peer(d) \in End /\ (Peer(d) = e <=> d # e)
    BY PeerProperties
  <2>2. CASE Peer(d) = e /\ x = c /\ c \notin Negotiated
    <3>1. Peer(d) # d /\ readyState'[d][c] = readyState[d][c]
      BY <2>1, <2>2 DEF Opens
    <3>2. Opener[c] # d
      BY <1>7, <2>2, <3>1
    <3>3. readyState[d][c] = "none"
      BY <1>1, <2>2, <3>2 DEF OpenInv
    <3> QED BY <2>2, <3>1, <3>3
  <2>3. CASE IsSent(Peer(d), i, "OPEN", x)
    <3>1. i \in DOMAIN sent[Peer(d)] /\ delivered'[d] = delivered[d]
      BY <2>3 DEF IsSent, Opens
    <3>2. readyState[d][x] = "none"
      BY <1>1, <1>10, <2>3, <3>1 DEF OpenInv
    <3>3. ~(d = e /\ x = c)
      <4>1. HasSent(Peer(d), "OPEN", x)
        BY <2>3 DEF HasSent, IsSent
      <4>2. Opener[x] = Peer(d) /\ x \notin Negotiated
        BY <1>1, <2>1, <4>1 DEF OpenInv
      <4> QED BY <1>7, <2>1, <4>2
    <3> QED BY <3>2, <3>3 DEF Opens
  <2> QED BY <1>2, <1>10, <2>1, <2>2, <2>3
<1>11. ASSUME NEW d \in End, NEW x \in Channel, readyState'[d][x] # "none"
       PROVE  Opener[x] = d \/ x \in Negotiated \/ HasSent(Peer(d), "OPEN", x)'
  <2>1. CASE d = e /\ x = c
    BY <1>7, <2>1
  <2>2. CASE ~(d = e /\ x = c)
    <3>1. readyState[d][x] # "none"
      BY <1>11, <2>2 DEF Opens
    <3> QED BY <1>1, <1>2, <3>1, PeerProperties, Sent DEF OpenInv
  <2> QED BY <2>1, <2>2
<1>12. ASSUME NEW d \in End PROVE Len(delivered'[d]) <= Len(sent'[Peer(d)])
  <2>1. /\ Peer(d) \in End
        /\ sent[Peer(d)] \in Seq(SctpMessage) /\ sent'[Peer(d)] \in Seq(SctpMessage)
        /\ delivered[d] \in Seq(SctpMessage) /\ delivered'[d] = delivered[d]
    BY <1>1, PeerProperties DEF TypeOK, Opens
  <2>2. Len(sent[Peer(d)]) <= Len(sent'[Peer(d)])
    <3>1. CASE Len(sent[Peer(d)]) = 0
      BY <2>1, <3>1
    <3>2. CASE Len(sent[Peer(d)]) \in DOMAIN sent[Peer(d)]
      BY <1>2, <2>1, <3>2 DEF Kept
    <3> QED BY <2>1, <3>1, <3>2
  <2>3. Len(delivered[d]) <= Len(sent[Peer(d)])
    BY <1>1 DEF OpenInv
  <2> QED BY <2>1, <2>2, <2>3
<1> QED BY <1>6, <1>8, <1>9, <1>10, <1>11, <1>12 DEF OpenInv

\* An end's map gains a channel, on a stream that was free.
LEMMA WiringGains ==
    ASSUME NEW E, NEW w, NEW F, NEW v, NEW c \in Channel, NEW s, s # NoId, NEW a,
           Wiring(E, w), \A y \in E : y.channel # c,
           F = E \cup {[stream |-> s, channel |-> c, acked |-> a]},
           \A x \in Channel : v[x] = IF x = c THEN s ELSE w[x]
    PROVE  Wiring(F, v)
<1> DEFINE y0 == [stream |-> s, channel |-> c, acked |-> a]
<1>1. y0.stream = s /\ y0.channel = c
  OBVIOUS
<1> HIDE DEF y0
<1>2. F = E \cup {y0}
  BY DEF y0
<1> QED BY <1>1, <1>2 DEF Wiring

LEMMA OpensKeepsMap ==
    ASSUME StreamsApart, InductiveInv, Typed', StaysClosed, NEW e \in End, NEW c \in Channel, Opens(e, c)
    PROVE  WiredBothWays' /\ EntryInv' /\ ClosedIsDropped'
<1> DEFINE s == StreamOf(e, c)
           a == c \in Negotiated
           y0 == [stream |-> s, channel |-> c, acked |-> a]
<1>1. /\ s \in Nat /\ s # NoId /\ ~HasEntry(e, c)
      /\ \A d \in End : \A i, x : IsSent(d, i, "OPEN", x)' => IsSent(d, i, "OPEN", x) \/ (d = e /\ x = c)
      /\ \A d \in End : d # e => entries'[d] = entries[d] /\ wired'[d] = wired[d]
      /\ \A x \in Channel : wired'[e][x] = IF x = c THEN s ELSE wired[e][x]
  BY OpensEffect, StreamIsFree, ChannelAssumption
<1>2. entries'[e] = entries[e] \cup {y0}
  BY OpensEffect
<1>3. TypeOK /\ TypeOK' /\ \A d \in End : Wiring(entries[d], wired[d])
  BY WiredNow DEF InductiveInv, Typed
<1>4. y0.channel = c /\ y0.stream = s /\ (y0.acked <=> c \in Negotiated)
  OBVIOUS
<1> HIDE DEF s
<1>5. Wiring(entries'[e], wired'[e])
  <2>1. \A y \in entries[e] : y.channel # c
    BY <1>1 DEF HasEntry
  <2>2. entries'[e] = entries[e] \cup {[stream |-> s, channel |-> c, acked |-> a]}
    BY <1>2
  <2> HIDE DEF a
  <2>3. Wiring(entries[e], wired[e])
    BY <1>3
  <2>4. s # NoId /\ \A x \in Channel : wired'[e][x] = IF x = c THEN s ELSE wired[e][x]
    BY <1>1
  <2> QED BY <2>1, <2>2, <2>3, <2>4, WiringGains, SMTT(60)
<1> HIDE DEF y0
<1>6. WiredBothWays'
  BY <1>1, <1>3, <1>5, WiredNext
<1>7. EntryInv /\ ClosedIsDropped /\ (Opener[c] = e \/ c \in Negotiated)
  BY DEF InductiveInv, Opens
<1>8. \A d \in End : \A x : HasEntry(d, x) => HasEntry(d, x)'
  BY <1>1, <1>2 DEF HasEntry
<1>9. HasEntry(e, c)'
  BY <1>2, <1>4 DEF HasEntry
<1>10. \A d \in End, x \in Channel : ~(d = e /\ x = c) => (HasSent(d, "OPEN", x)' => HasSent(d, "OPEN", x))
  BY <1>1 DEF HasSent, IsSent
<1>11. EntryInv'
  <2>1. ASSUME NEW d \in End, NEW x \in Channel, opened'[d][x] \/ HasSent(d, "OPEN", x)'
        PROVE  readyState'[d][x] = "closed" \/ isClosed'[d] \/ HasEntry(d, x)'
    <3>1. CASE ~(d = e /\ x = c)
      <4>1. /\ opened'[d][x] = opened[d][x] /\ readyState'[d][x] = readyState[d][x] /\ isClosed'[d] = isClosed[d]
        BY <3>1 DEF Opens
      <4> QED BY <1>7, <1>8, <1>10, <2>1, <3>1, <4>1 DEF EntryInv
    <3> QED BY <1>9, <3>1
  <2>2. ASSUME NEW d \in End, NEW x \in Channel
        PROVE  /\ readyState'[d][x] = "open" => opened'[d][x]
               /\ opened'[d][x] => readyState'[d][x] # "none"
    <3>1. CASE ~(d = e /\ x = c)
      <4>1. opened'[d][x] = opened[d][x] /\ readyState'[d][x] = readyState[d][x]
        BY <3>1 DEF Opens
      <4> QED BY <1>7, <4>1 DEF EntryInv
    <3>2. CASE d = e /\ x = c
      BY <3>2 DEF Opens
    <3> QED BY <3>1, <3>2
  <2>3. ASSUME NEW d \in End, NEW y \in entries'[d], ~y.acked
        PROVE  Opener[y.channel] = d /\ y.channel \notin Negotiated
    <3>1. CASE y \in entries[d]
      <4>1. y.channel \in Channel
        BY <1>3, <3>1 DEF TypeOK, Entry
      <4> QED BY <1>7, <2>3, <3>1, <4>1 DEF EntryInv
    <3>2. CASE d = e /\ y = y0
      BY <1>4, <1>7, <2>3, <3>2
    <3> QED BY <1>1, <1>2, <3>1, <3>2
  <2> QED BY <2>1, <2>2, <2>3 DEF EntryInv
<1>12. ClosedIsDropped'
  <2>1. ASSUME NEW d \in End, NEW x \in Channel, opened'[d][x], readyState'[d][x] = "closed"
        PROVE  wired'[d][x] = NoId
    <3>1. ~(d = e /\ x = c)
      BY <2>1 DEF Opens
    <3>2. opened'[d][x] = opened[d][x] /\ readyState'[d][x] = readyState[d][x]
      BY <3>1 DEF Opens
    <3>3. wired'[d][x] = wired[d][x]
      BY <1>1, <3>1
    <3> QED BY <1>7, <2>1, <3>2, <3>3 DEF ClosedIsDropped
  <2> QED BY <2>1 DEF ClosedIsDropped
<1> QED BY <1>6, <1>11, <1>12

LEMMA OpensKeeps ==
    ASSUME StreamsApart, InductiveInv, Typed', StaysClosed, NEW e \in End, NEW c \in Channel, Opens(e, c)
    PROVE  InductiveInv'
<1>1. /\ TypeOK /\ TypeOK' /\ NoneNew("ACK") /\ NoneNew("DATA")
  BY OpensEffect DEF InductiveInv, Typed
<1>2. ~opened[e][c]
  BY DEF InductiveInv, Opens, QueueInv
<1>3. AckInv'
  <2>1. \A d \in End, x \in Channel : opened[d][x] => opened'[d][x]
    BY <1>2 DEF Opens
  <2> QED BY <1>1, <2>1, AckFrame DEF InductiveInv
<1>4. DataInv'
  <2>1. \A d \in End, x \in Channel : opened[d][x] => opened'[d][x]
    BY <1>2 DEF Opens
  <2>2. sentOn' = sentOn /\ dtls' = dtls
    BY DEF Opens
  <2> QED BY <1>1, <2>1, <2>2, DataFrame DEF InductiveInv
<1>5. RoutedInv'
  <2>1. \A d \in End : Advances(d, "OPEN")
    BY DEF Advances, Opens
  <2>2. UNCHANGED <<sentOn, receivedOn, isClosed>>
    BY DEF Opens
  <2>3. \A d \in End, x \in Channel : readyState[d][x] = "closed" => readyState'[d][x] = "closed"
    BY DEF Opens
  <2> QED BY <1>1, <2>1, <2>2, <2>3, RoutedFrame DEF InductiveInv
<1>6. OpenAtBoth'
  <2>1. \A d \in End, x \in Channel \ Negotiated : opened'[d][x] <=> opened[d][x]
    BY <1>2 DEF Opens
  <2>2. \A x \in Channel : Opener[x] \in End /\ Peer(Opener[x]) \in End
    BY PeerProperties, ChannelAssumption
  <2> QED BY <2>1, <2>2 DEF InductiveInv, OpenAtBoth
<1> QED BY <1>1, <1>3, <1>4, <1>5, <1>6, OpensKeepsStreams, OpensKeepsQueue, OpensKeepsMap DEF InductiveInv

LEMMA EmitOpenEffect ==
    ASSUME TypeOK, NEW e \in End, NEW c \in Channel, EmitOpen(e, c)
    PROVE  /\ \A d \in End, x \in Channel : ~(d = e /\ x = c) =>
                readyState'[d][x] = readyState[d][x] /\ opened'[d][x] = opened[d][x]
           /\ readyState'[e][c] = IF readyState[e][c] = "closed" THEN "closed" ELSE "open"
           /\ opened'[e][c] <=> opened[e][c] \/ readyState[e][c] # "closed"
<1> DEFINE b == opened[e][c] \/ readyState[e][c] # "closed"
<1>1. readyState \in [End -> [Channel -> ReadyState]] /\ opened \in [End -> [Channel -> BOOLEAN]]
  BY DEF TypeOK
<1>2. opened' = [opened EXCEPT ![e] = [opened[e] EXCEPT ![c] = b]]
  BY <1>1 DEF EmitOpen
<1>3. readyState' = [readyState EXCEPT ![e] = [readyState[e] EXCEPT ![c] =
                        IF readyState[e][c] = "closed" THEN "closed" ELSE "open"]]
  BY <1>1 DEF EmitOpen
<1>4. /\ \A d \in End, x \in Channel : ~(d = e /\ x = c) => opened'[d][x] = opened[d][x]
      /\ opened'[e][c] = b
  <2> HIDE DEF b
  <2> QED BY <1>1, <1>2
<1> QED BY <1>1, <1>3, <1>4

LEMMA CreateOpens ==
    ASSUME InductiveInv, NEW e \in End, NEW c \in Channel, Create(e, c), assoc[e] = "established"
    PROVE  Opens(e, c)
<1> DEFINE neg == c \in Negotiated
<1>1. /\ QueueInv /\ EntryInv
      /\ readyState \in [End -> [Channel -> ReadyState]] /\ opened \in [End -> [Channel -> BOOLEAN]]
  BY DEF InductiveInv, TypeOK
<1>2. /\ readyState[e][c] = "none" /\ (Opener[c] = e \/ c \in Negotiated)
      /\ OpenChannel(e, c) /\ pending' = pending
      /\ UNCHANGED <<delivered, dtls, isClosed, sentOn, receivedOn>>
      /\ readyState' = [readyState EXCEPT ![e][c] = IF c \in Negotiated THEN "open" ELSE "connecting"]
  BY DEF Create, history
<1>3. opened' = [opened EXCEPT ![e][c] = neg]
  BY Zenon DEF Create
<1>4. ~Queued(e, c)
  BY <1>1, <1>2 DEF QueueInv
<1>5. \A d \in End, x \in Channel : Queued(d, x)' => Queued(d, x)
  BY <1>2 DEF Queued
<1>6. /\ \A d \in End, x \in Channel : ~(d = e /\ x = c) => opened'[d][x] = opened[d][x]
      /\ opened'[e][c] = neg
  <2> HIDE DEF neg
  <2> QED BY <1>1, <1>3
<1>7. /\ \A d \in End, x \in Channel : ~(d = e /\ x = c) => readyState'[d][x] = readyState[d][x]
      /\ readyState'[e][c] = IF c \in Negotiated THEN "open" ELSE "connecting"
  BY <1>1, <1>2
<1>8. \A d \in End : \A i, j \in DOMAIN pending'[d] : pending'[d][i] = pending'[d][j] => i = j
  BY <1>1, <1>2 DEF QueueInv
<1>9. Unopened(e, c)
  BY <1>2 DEF Unopened
<1>10. readyState'[e][c] = "open" => opened'[e][c]
  BY <1>6, <1>7
<1>11. opened'[e][c] => c \in Negotiated /\ readyState'[e][c] # "closed"
  BY <1>6, <1>7
<1> QED BY <1>2, <1>4, <1>5, <1>6, <1>7, <1>8, <1>9, <1>10, <1>11 DEF Opens

LEMMA PendingOpens ==
    ASSUME InductiveInv, NEW e \in End, OpenPending(e)
    PROVE  Head(pending[e]) \in Channel /\ Opens(e, Head(pending[e]))
<1> DEFINE c == Head(pending[e])
<1>1. /\ QueueInv /\ EntryInv
      /\ readyState \in [End -> [Channel -> ReadyState]] /\ opened \in [End -> [Channel -> BOOLEAN]]
      /\ pending \in [End -> Seq(Channel)] /\ pending[e] # <<>> /\ pending[e] \in Seq(Channel)
  BY DEF InductiveInv, TypeOK, OpenPending
<1>2. /\ c \in Channel /\ c = pending[e][1] /\ 1 \in DOMAIN pending[e]
      /\ Tail(pending[e]) \in Seq(Channel)
      /\ DOMAIN pending[e] = 1 .. Len(pending[e]) /\ Len(pending[e]) \in Nat
      /\ DOMAIN Tail(pending[e]) = 1 .. (Len(pending[e]) - 1)
      /\ \A i \in 1 .. (Len(pending[e]) - 1) : Tail(pending[e])[i] = pending[e][i + 1]
  BY <1>1
<1>3. /\ OpenChannel(e, c)
      /\ IF c \in Negotiated THEN EmitOpen(e, c) ELSE UNCHANGED <<readyState, opened>>
      /\ UNCHANGED <<delivered, dtls, isClosed, sentOn, receivedOn>>
  BY DEF OpenPending, history
<1>4. pending' = [pending EXCEPT ![e] = Tail(pending[e])] \/ pending' = [pending EXCEPT ![e] = <<>>]
  BY DEF OpenPending
<1> HIDE DEF c
<1>5. Queued(e, c) /\ Unopened(e, c)
  BY <1>2 DEF Queued, Unopened
<1>6. readyState[e][c] # "none" /\ (Opener[c] = e \/ c \in Negotiated) /\ ~opened[e][c]
  BY <1>1, <1>2, <1>5 DEF QueueInv
<1>7. readyState[e][c] # "open"
  BY <1>1, <1>2, <1>6 DEF EntryInv
<1>8. \A i, j \in DOMAIN pending[e] : pending[e][i] = pending[e][j] => i = j
  BY <1>1 DEF QueueInv
<1>9. /\ \A d \in End : d # e => pending'[d] = pending[d]
      /\ pending'[e] = Tail(pending[e]) \/ pending'[e] = <<>>
  BY <1>1, <1>4
<1>10. /\ \A i, j \in DOMAIN pending'[e] : pending'[e][i] = pending'[e][j] => i = j
       /\ \A i \in DOMAIN pending'[e] : i + 1 \in DOMAIN pending[e] /\ pending'[e][i] = pending[e][i + 1]
                                        /\ pending'[e][i] # c
  <2>1. CASE pending'[e] = <<>>
    BY <2>1
  <2>2. CASE pending'[e] = Tail(pending[e])
    <3>1. ASSUME NEW i \in DOMAIN pending'[e]
          PROVE  /\ i + 1 \in DOMAIN pending[e] /\ pending'[e][i] = pending[e][i + 1]
                 /\ pending'[e][i] # c /\ i \in Nat
      BY <1>2, <1>8, <2>2
    <3>2. ASSUME NEW i \in DOMAIN pending'[e], NEW j \in DOMAIN pending'[e], pending'[e][i] = pending'[e][j]
          PROVE  i = j
      BY <1>8, <3>1, <3>2
    <3> QED BY <3>1, <3>2
  <2> QED BY <1>9, <2>1, <2>2
<1>11. \A d \in End : \A i, j \in DOMAIN pending'[d] : pending'[d][i] = pending'[d][j] => i = j
  BY <1>1, <1>9, <1>10 DEF QueueInv
<1>12. ASSUME NEW d \in End, NEW x \in Channel, Queued(d, x)' PROVE Queued(d, x) /\ ~(d = e /\ x = c)
  <2>1. CASE d # e
    BY <1>9, <1>12, <2>1 DEF Queued
  <2>2. CASE d = e
    BY <1>10, <1>12, <2>2 DEF Queued
  <2> QED BY <2>1, <2>2
<1>13. /\ \A d \in End, x \in Channel : ~(d = e /\ x = c) =>
            readyState'[d][x] = readyState[d][x] /\ opened'[d][x] = opened[d][x]
       /\ readyState'[e][c] # "none"
       /\ readyState'[e][c] = "closed" <=> readyState[e][c] = "closed"
       /\ readyState'[e][c] = "open" => opened'[e][c]
       /\ opened'[e][c] => c \in Negotiated /\ readyState'[e][c] # "closed"
  <2>1. CASE c \in Negotiated
    <3>1. TypeOK /\ EmitOpen(e, c)
      BY <1>3, <2>1 DEF InductiveInv
    <3> QED BY <1>2, <1>6, <2>1, <3>1, EmitOpenEffect
  <2>2. CASE c \notin Negotiated
    BY <1>3, <1>6, <1>7, <2>2
  <2> QED BY <2>1, <2>2
<1> QED BY <1>2, <1>3, <1>5, <1>6, <1>11, <1>12, <1>13 DEF Opens, c
-----------------------------------------------------------------------------
(* Sending, and closing.                                                   *)

LEMMA SendEffect ==
    ASSUME InductiveInv, NEW e \in End, NEW c \in Channel, Send(e, c)
    PROVE  /\ NoneNew("OPEN") /\ NoneNew("ACK") /\ Kept
           /\ \A d \in End, x \in Channel : \A i : IsSent(d, i, "DATA", x)' =>
                \/ IsSent(d, i, "DATA", x)
                \/ /\ d = e /\ x = c /\ i = Len(sent[e]) + 1
                   /\ sent'[d][i].number = sentOn[e][c] + 1 /\ sent'[d][i].stream = wired[e][c]
                   /\ dtls[e] = "connected"
           /\ dtls[e] = "connected" => \A i : i = Len(sent[e]) + 1 =>
                IsSent(e, i, "DATA", c)' /\ sent'[e][i].number = sentOn[e][c] + 1
           /\ \A d \in End, x \in Channel :
                sentOn'[d][x] = IF d = e /\ x = c THEN sentOn[e][c] + 1 ELSE sentOn[d][x]
           /\ readyState[e][c] = "open" /\ wired[e][c] # NoId
           /\ UNCHANGED <<delivered, dtls, pending, isClosed, nextStreamId, entries, wired,
                          readyState, opened, receivedOn>>
<1> DEFINE m == [type |-> "DATA", stream |-> wired[e][c], channel |-> c, number |-> sentOn[e][c] + 1]
<1>1. /\ SendData(e, m) /\ readyState[e][c] = "open" /\ wired[e][c] # NoId /\ assoc[e] = "established"
      /\ sentOn' = [sentOn EXCEPT ![e][c] = @ + 1]
      /\ UNCHANGED <<delivered, dtls, pending, isClosed, nextStreamId, entries, wired,
                     readyState, opened, receivedOn>>
  BY DEF Send, stack, manager, object
<1>2. m.type = "DATA" /\ m.stream = wired[e][c] /\ m.channel = c /\ m.number = sentOn[e][c] + 1
  OBVIOUS
<1> HIDE DEF m
<1>3. TypeOK /\ sentOn \in [End -> [Channel -> Nat]]
  BY DEF InductiveInv, TypeOK
<1>4. /\ Kept
      /\ \A t : m.type # t => NoneNew(t)
      /\ \A d \in End : \A i \in DOMAIN sent'[d] :
           \/ i \in DOMAIN sent[d]
           \/ /\ d = e /\ i = Len(sent[e]) + 1 /\ sent'[d][i] = m
              /\ dtls[e] = "connected"
      /\ dtls[e] = "connected" =>
           Len(sent[e]) + 1 \in DOMAIN sent'[e] /\ sent'[e][Len(sent[e]) + 1] = m
  BY <1>1, <1>3, OneSent
<1>5. NoneNew("OPEN") /\ NoneNew("ACK")
  BY <1>2, <1>4
<1>6. ASSUME NEW d \in End, NEW x \in Channel, NEW i, IsSent(d, i, "DATA", x)'
      PROVE  \/ IsSent(d, i, "DATA", x)
             \/ /\ d = e /\ x = c /\ i = Len(sent[e]) + 1
                /\ sent'[d][i].number = sentOn[e][c] + 1 /\ sent'[d][i].stream = wired[e][c]
                /\ dtls[e] = "connected"
  BY <1>2, <1>4, <1>6 DEF IsSent, Kept
<1>7. ASSUME dtls[e] = "connected", NEW i, i = Len(sent[e]) + 1
      PROVE  IsSent(e, i, "DATA", c)' /\ sent'[e][i].number = sentOn[e][c] + 1
  BY <1>2, <1>4, <1>7 DEF IsSent
<1>8. \A d \in End, x \in Channel :
        sentOn'[d][x] = IF d = e /\ x = c THEN sentOn[e][c] + 1 ELSE sentOn[d][x]
  BY <1>1, <1>3
<1> QED BY <1>1, <1>4, <1>5, <1>6, <1>7, <1>8

LEMMA SendKeepsData ==
    ASSUME InductiveInv, NEW e \in End, NEW c \in Channel, Send(e, c)
    PROVE  DataInv'
<1>1. TypeOK /\ DataInv /\ EntryInv
  BY DEF InductiveInv
<1>2. SUFFICES ASSUME NEW d \in End, NEW x \in Channel
               PROVE
        /\ HasSent(d, "DATA", x)' => opened'[d][x]
        /\ \A i \in DOMAIN sent'[d] : IsSent(d, i, "DATA", x)' =>
             /\ sent'[d][i].number \in 1 .. sentOn'[d][x]
             /\ \A j \in DOMAIN sent'[d] :
                  IsSent(d, j, "DATA", x)' /\ j < i => sent'[d][j].number < sent'[d][i].number
             /\ \A n \in 1 .. (sent'[d][i].number - 1) :
                  \E j \in 1 .. (i - 1) : IsSent(d, j, "DATA", x)' /\ sent'[d][j].number = n
        /\ dtls'[d] = "connected" => \A n \in 1 .. sentOn'[d][x] :
             \E j \in DOMAIN sent'[d] : IsSent(d, j, "DATA", x)' /\ sent'[d][j].number = n
  BY DEF DataInv
<1> PICK L : L = Len(sent[e])
  OBVIOUS
<1> DEFINE k == sentOn[d][x]
           mine == d = e /\ x = c
<1>3. sent[d] \in Seq(SctpMessage) /\ k \in Nat /\ L \in Nat /\ DOMAIN sent[d] = 1 .. Len(sent[d])
      /\ Len(sent[d]) \in Nat
  BY <1>1 DEF TypeOK
<1>4. /\ \A i : IsSent(d, i, "DATA", x)' =>
           \/ IsSent(d, i, "DATA", x)
           \/ mine /\ i = L + 1 /\ sent'[d][i].number = k + 1 /\ dtls[d] = "connected"
      /\ mine /\ dtls[d] = "connected" =>
           IsSent(d, L + 1, "DATA", x)' /\ sent'[d][L + 1].number = k + 1
      /\ sentOn'[d][x] = IF mine THEN k + 1 ELSE k
      /\ mine => opened[d][x]
      /\ opened'[d][x] = opened[d][x] /\ dtls'[d] = dtls[d]
  BY <1>1, SendEffect DEF EntryInv
<1>5. \A i : IsSent(d, i, "DATA", x) => /\ IsSent(d, i, "DATA", x)' /\ sent'[d][i] = sent[d][i]
                                        /\ i \in 1 .. Len(sent[d]) /\ i \in DOMAIN sent'[d]
  BY <1>3, SendEffect DEF Kept, IsSent
<1>6.   /\ HasSent(d, "DATA", x) => opened[d][x]
        /\ \A i \in DOMAIN sent[d] : IsSent(d, i, "DATA", x) =>
             /\ sent[d][i].number \in 1 .. k
             /\ \A j \in DOMAIN sent[d] :
                  IsSent(d, j, "DATA", x) /\ j < i => sent[d][j].number < sent[d][i].number
             /\ \A n \in 1 .. (sent[d][i].number - 1) :
                  \E j \in 1 .. (i - 1) : IsSent(d, j, "DATA", x) /\ sent[d][j].number = n
        /\ dtls[d] = "connected" => \A n \in 1 .. k :
             \E j \in DOMAIN sent[d] : IsSent(d, j, "DATA", x) /\ sent[d][j].number = n
  BY <1>1 DEF DataInv
<1>7. HasSent(d, "DATA", x)' => opened'[d][x]
  BY <1>4, <1>5, <1>6 DEF HasSent, IsSent
<1>8. ASSUME NEW i, IsSent(d, i, "DATA", x)'
      PROVE  /\ sent'[d][i].number \in 1 .. sentOn'[d][x]
             /\ \A j \in DOMAIN sent'[d] :
                  IsSent(d, j, "DATA", x)' /\ j < i => sent'[d][j].number < sent'[d][i].number
             /\ \A n \in 1 .. (sent'[d][i].number - 1) :
                  \E j \in 1 .. (i - 1) : IsSent(d, j, "DATA", x)' /\ sent'[d][j].number = n
  <2>1. CASE IsSent(d, i, "DATA", x)
    <3>1. i \in 1 .. Len(sent[d]) /\ sent'[d][i] = sent[d][i]
      BY <1>5, <2>1
    <3>2. /\ sent[d][i].number \in 1 .. k
          /\ \A j \in DOMAIN sent[d] :
               IsSent(d, j, "DATA", x) /\ j < i => sent[d][j].number < sent[d][i].number
          /\ \A n \in 1 .. (sent[d][i].number - 1) :
               \E j \in 1 .. (i - 1) : IsSent(d, j, "DATA", x) /\ sent[d][j].number = n
      BY <1>3, <1>6, <2>1, <3>1
    <3>3. ASSUME NEW j, IsSent(d, j, "DATA", x)', j < i PROVE sent'[d][j].number < sent'[d][i].number
      <4>1. IsSent(d, j, "DATA", x)
        BY <1>3, <1>4, <3>1, <3>3
      <4> QED BY <1>3, <1>5, <3>1, <3>2, <3>3, <4>1
    <3>4. ASSUME NEW n \in 1 .. (sent'[d][i].number - 1)
          PROVE  \E j \in 1 .. (i - 1) : IsSent(d, j, "DATA", x)' /\ sent'[d][j].number = n
      <4>1. PICK j \in 1 .. (i - 1) : IsSent(d, j, "DATA", x) /\ sent[d][j].number = n
        BY <3>1, <3>2
      <4> QED BY <1>5, <4>1
    <3>5. sent'[d][i].number \in 1 .. sentOn'[d][x]
      BY <1>3, <1>4, <3>1, <3>2
    <3> QED BY <3>3, <3>4, <3>5
  <2>2. CASE ~IsSent(d, i, "DATA", x)
    <3>1. mine /\ i = L + 1 /\ sent'[d][i].number = k + 1 /\ dtls[d] = "connected" /\ sentOn'[d][x] = k + 1
      BY <1>4, <1>8, <2>2
    <3>2. ASSUME NEW j, IsSent(d, j, "DATA", x)', j < i PROVE sent'[d][j].number < sent'[d][i].number
      <4>1. IsSent(d, j, "DATA", x)
        BY <1>3, <1>4, <3>1, <3>2
      <4>2. sent'[d][j].number \in 1 .. k
        BY <1>3, <1>5, <1>6, <4>1
      <4> QED BY <1>3, <3>1, <4>2
    <3>3. ASSUME NEW n \in 1 .. (sent'[d][i].number - 1)
          PROVE  \E j \in 1 .. (i - 1) : IsSent(d, j, "DATA", x)' /\ sent'[d][j].number = n
      <4>1. n \in 1 .. k
        BY <1>3, <3>1
      <4>2. PICK j \in DOMAIN sent[d] : IsSent(d, j, "DATA", x) /\ sent[d][j].number = n
        BY <1>6, <3>1, <4>1
      <4>3. j \in 1 .. (i - 1)
        BY <1>3, <3>1
      <4> QED BY <1>5, <4>2, <4>3
    <3> QED BY <1>3, <3>1, <3>2, <3>3
  <2> QED BY <2>1, <2>2
<1>9. ASSUME dtls'[d] = "connected", NEW n \in 1 .. sentOn'[d][x]
      PROVE  \E j \in DOMAIN sent'[d] : IsSent(d, j, "DATA", x)' /\ sent'[d][j].number = n
  <2>1. CASE n \in 1 .. k
    <3>1. PICK j \in DOMAIN sent[d] : IsSent(d, j, "DATA", x) /\ sent[d][j].number = n
      BY <1>4, <1>6, <1>9, <2>1
    <3> QED BY <1>5, <3>1
  <2>2. CASE mine /\ n = k + 1
    <3>1. IsSent(d, L + 1, "DATA", x)' /\ sent'[d][L + 1].number = k + 1
      BY <1>4, <1>9, <2>2
    <3>2. L + 1 \in DOMAIN sent'[d]
      BY <3>1 DEF IsSent
    <3>3. PICK j \in DOMAIN sent'[d] : j = L + 1
      BY <3>2
    <3> QED BY <2>2, <3>1, <3>3
  <2> QED BY <1>3, <1>4, <2>1, <2>2
<1> QED BY <1>7, <1>8, <1>9

LEMMA SendKeepsRouted ==
    ASSUME InductiveInv, StaysClosed, NEW e \in End, NEW c \in Channel, Send(e, c)
    PROVE  RoutedInv'
<1>1. TypeOK /\ OpenInv /\ RoutedInv
  BY DEF InductiveInv
<1> SUFFICES ASSUME NEW d \in End, NEW x \in Channel
             PROVE
        LET received == receivedOn'[d][x] IN
        /\ \A i \in DOMAIN received :
             /\ received[i][1] = x
             /\ received[i][2] <= sentOn'[Peer(d)][x]
             /\ i > 1 => received[i - 1][2] < received[i][2]
             /\ \A j \in DOMAIN sent'[Peer(d)] :
                  IsSent(Peer(d), j, "DATA", x)' /\ j > Len(delivered'[d]) =>
                      received[i][2] < sent'[Peer(d)][j].number
        /\ x \notin Negotiated /\ assoc'[d] # "closed" =>
             /\ \A i \in DOMAIN received : received[i][2] = i
             /\ readyState'[d][x] # "closed" /\ ~isClosed'[d] =>
                  \A j \in DOMAIN sent'[Peer(d)] : IsSent(Peer(d), j, "DATA", x)' =>
                      (j <= Len(delivered'[d]) <=> sent'[Peer(d)][j].number <= Len(received))
  BY DEF RoutedInv
<1> DEFINE p == Peer(d)
           received == receivedOn[d][x]
           k == sentOn[p][x]
<1>2. /\ p \in End /\ sent[p] \in Seq(SctpMessage) /\ k \in Nat /\ Len(sent[p]) \in Nat
      /\ DOMAIN sent[p] = 1 .. Len(sent[p])
      /\ received \in Seq(Channel \X Nat) /\ Len(received) \in Nat /\ DOMAIN received = 1 .. Len(received)
      /\ \A i \in DOMAIN received : received[i][2] \in Nat
      /\ Len(delivered[d]) \in Nat /\ Len(delivered[d]) <= Len(sent[p])
  <2>1. p \in End
    BY PeerProperties
  <2>2. /\ sent[p] \in Seq(SctpMessage) /\ k \in Nat /\ received \in Seq(Channel \X Nat)
        /\ delivered[d] \in Seq(SctpMessage)
    <3>1. /\ sent \in [End -> Seq(SctpMessage)] /\ sentOn \in [End -> [Channel -> Nat]]
          /\ receivedOn \in [End -> [Channel -> Seq(Channel \X Nat)]]
          /\ delivered \in [End -> Seq(SctpMessage)]
      BY <1>1 DEF TypeOK
    <3>2. k \in Nat
      BY <2>1, <3>1
    <3>3. received \in Seq(Channel \X Nat)
      BY <3>1
    <3> QED BY <2>1, <3>1, <3>2, <3>3
  <2>3. \A i \in DOMAIN received : received[i] \in Channel \X Nat
    BY <2>2
  <2> QED BY <1>1, <2>1, <2>2, <2>3 DEF OpenInv
<1>3. /\ receivedOn'[d][x] = received /\ delivered'[d] = delivered[d]
      /\ readyState'[d][x] = readyState[d][x] /\ isClosed'[d] = isClosed[d]
      /\ k <= sentOn'[p][x] /\ sentOn'[p][x] \in Nat
  BY <1>2, SendEffect
<1>4. ASSUME NEW j, IsSent(p, j, "DATA", x)'
      PROVE  \/ IsSent(p, j, "DATA", x) /\ j \in DOMAIN sent[p] /\ sent'[p][j] = sent[p][j]
             \/ j = Len(sent[p]) + 1 /\ sent'[p][j].number = k + 1
  BY <1>2, <1>4, SendEffect DEF IsSent, Kept
<1>5.   /\ \A i \in DOMAIN received :
             /\ received[i][1] = x
             /\ received[i][2] <= k
             /\ i > 1 => received[i - 1][2] < received[i][2]
             /\ \A j \in DOMAIN sent[p] :
                  IsSent(p, j, "DATA", x) /\ j > Len(delivered[d]) =>
                      received[i][2] < sent[p][j].number
        /\ x \notin Negotiated /\ assoc[d] # "closed" =>
             /\ \A i \in DOMAIN received : received[i][2] = i
             /\ readyState[d][x] # "closed" /\ ~isClosed[d] =>
                  \A j \in DOMAIN sent[p] : IsSent(p, j, "DATA", x) =>
                      (j <= Len(delivered[d]) <=> sent[p][j].number <= Len(received))
  BY <1>1 DEF RoutedInv
<1>6. ASSUME NEW i \in DOMAIN received, NEW j, IsSent(p, j, "DATA", x)', j > Len(delivered'[d])
      PROVE  received[i][2] < sent'[p][j].number
  <2>1. CASE IsSent(p, j, "DATA", x) /\ j \in DOMAIN sent[p] /\ sent'[p][j] = sent[p][j]
    BY <1>3, <1>5, <1>6, <2>1
  <2>2. CASE sent'[p][j].number = k + 1
    <3>1. received[i][2] <= k /\ received[i][2] \in Nat /\ k \in Nat
      BY <1>2, <1>5
    <3> QED BY <2>2, <3>1
  <2> QED BY <1>4, <1>6, <2>1, <2>2
<1>7. ASSUME x \notin Negotiated, assoc[d] # "closed", readyState'[d][x] # "closed", ~isClosed'[d],
             NEW j, IsSent(p, j, "DATA", x)'
      PROVE  j <= Len(delivered'[d]) <=> sent'[p][j].number <= Len(received)
  <2>1. CASE IsSent(p, j, "DATA", x) /\ j \in DOMAIN sent[p] /\ sent'[p][j] = sent[p][j]
    BY <1>3, <1>5, <1>7, <2>1
  <2>2. CASE j = Len(sent[p]) + 1 /\ sent'[p][j].number = k + 1
    <3>1. Len(received) <= k
      <4>1. CASE Len(received) = 0
        BY <1>2, <4>1
      <4>2. CASE Len(received) \in DOMAIN received
        <5>1. received[Len(received)][2] = Len(received) /\ received[Len(received)][2] <= k
          BY <1>5, <1>7, <4>2
        <5> QED BY <5>1
      <4> QED BY <1>2, <4>1, <4>2
    <3> QED BY <1>2, <1>3, <2>2, <3>1
  <2> QED BY <1>4, <1>7, <2>1, <2>2
<1>8. \A i \in DOMAIN received : received[i][2] <= sentOn'[p][x]
  BY <1>2, <1>3, <1>5
<1>9. assoc'[d] # "closed" => assoc[d] # "closed"
  BY DEF StaysClosed
<1> QED BY <1>3, <1>5, <1>6, <1>7, <1>8, <1>9

LEMMA SendKeeps ==
    ASSUME StreamsApart, InductiveInv, Typed', StaysClosed, NEW e \in End, NEW c \in Channel, Send(e, c)
    PROVE  InductiveInv'
<1>1. /\ TypeOK /\ TypeOK' /\ NoneNew("OPEN") /\ NoneNew("ACK")
      /\ UNCHANGED <<delivered, dtls, pending, isClosed, nextStreamId, entries, wired,
                     readyState, opened, receivedOn>>
  BY SendEffect DEF InductiveInv, Typed
<1>2. \A d \in End, x \in Channel :
        /\ HasEntry(d, x)' <=> HasEntry(d, x)
        /\ Queued(d, x)' <=> Queued(d, x)
        /\ Unopened(d, x)' <=> Unopened(d, x)
  BY <1>1 DEF HasEntry, Queued, Unopened
<1>3. \A d \in End, x \in Channel : HasSent(d, "OPEN", x)' => HasSent(d, "OPEN", x)
  BY <1>1, Sent DEF NoneNew
<1>4. QueueInv'
  <2>1. QueueInv /\ \A d \in End : pending'[d] = pending[d]
    BY <1>1 DEF InductiveInv
  <2>2. \A d \in End : \A i, j \in DOMAIN pending'[d] : pending'[d][i] = pending'[d][j] => i = j
    BY <2>1 DEF QueueInv
  <2> QED BY <1>1, <1>2, <1>3, <2>1, <2>2, QueueFrame
<1>5. OpenInv'
  <2>1. \A d \in End : Advances(d, "OPEN")
    BY <1>1 DEF Advances
  <2> QED BY <1>1, <2>1, OpenFrame DEF InductiveInv
<1>6. StreamInv'
  <2>1. \A d \in End : Wiring(entries[d], wired[d])
    BY <1>1, WiredNow DEF InductiveInv
  <2>2. PICK y \in entries[e] : y.channel = c /\ y.stream = wired[e][c]
    BY <2>1, SendEffect DEF Wiring
  <2>3. ASSUME NEW x \in Channel, NEW s \in Nat, OnStream(x, s)' PROVE OnStream(x, s)
    <3>1. PICK d \in End : \/ \E z \in entries'[d] : z.channel = x /\ z.stream = s
                           \/ \E i \in DOMAIN sent'[d] :
                                (IsSent(d, i, "OPEN", x)' \/ IsSent(d, i, "DATA", x)') /\ sent'[d][i].stream = s
      BY <2>3 DEF OnStream
    <3>2. CASE \E z \in entries'[d] : z.channel = x /\ z.stream = s
      BY <1>1, <3>2 DEF OnStream
    <3>3. ASSUME NEW i \in DOMAIN sent'[d], IsSent(d, i, "OPEN", x)' \/ IsSent(d, i, "DATA", x)', sent'[d][i].stream = s
          PROVE  OnStream(x, s)
      <4>1. CASE IsSent(d, i, "OPEN", x) \/ IsSent(d, i, "DATA", x)
        <5>1. i \in DOMAIN sent[d] /\ sent'[d][i] = sent[d][i]
          BY <4>1, SendEffect DEF Kept, IsSent
        <5> QED BY <3>3, <4>1, <5>1 DEF OnStream
      <4>2. CASE x = c /\ sent'[d][i].stream = wired[e][c]
        BY <2>2, <3>3, <4>2 DEF OnStream
      <4>3. IsSent(d, i, "OPEN", x)' => IsSent(d, i, "OPEN", x)
        BY <1>1, Sent DEF NoneNew
      <4> QED BY <3>3, <4>1, <4>2, <4>3, SendEffect
    <3> QED BY <3>1, <3>2, <3>3
  <2>4. StreamInv /\ nextStreamId' = nextStreamId
    BY <1>1 DEF InductiveInv
  <2>5. \A d \in End, x \in Channel : Unopened(d, x)' => Unopened(d, x)
    BY <1>2
  <2> QED BY <2>3, <2>4, <2>5, StreamFrame
<1>7. WiredBothWays'
  BY <1>1, WiredFrame DEF InductiveInv
<1>8. EntryInv'
  BY <1>1, <1>2, EntryFrame DEF InductiveInv, StatesKept
<1>9. ClosedIsDropped' /\ OpenAtBoth'
  BY <1>1 DEF InductiveInv, ClosedIsDropped, OpenAtBoth
<1>10. AckInv'
  BY <1>1, AckFrame DEF InductiveInv
<1> QED BY <1>1, <1>4, <1>5, <1>6, <1>7, <1>8, <1>9, <1>10, SendKeepsData, SendKeepsRouted DEF InductiveInv

\* A channel that is through with closing takes its own entry with it, and no
\* other one.
LEMMA FinishCloseEffect ==
    ASSUME InductiveInv, NEW e \in End, NEW c \in Channel, FinishClose(e, c), readyState[e][c] = "closing"
    PROVE  /\ \A d \in End : d # e => entries'[d] = entries[d] /\ wired'[d] = wired[d]
           /\ entries'[e] = {y \in entries[e] : y.channel # c}
           /\ \A x \in Channel : wired'[e][x] = IF x = c THEN NoId ELSE wired[e][x]
           /\ \A d \in End, x \in Channel :
                readyState'[d][x] = IF d = e /\ x = c THEN "closed" ELSE readyState[d][x]
           /\ UNCHANGED <<sent, delivered, dtls, pending, isClosed, nextStreamId, opened, sentOn, receivedOn>>
<1> DEFINE s == wired[e][c]
<1>1. /\ TypeOK /\ StreamInv /\ Wiring(entries[e], wired[e])
      /\ readyState \in [End -> [Channel -> ReadyState]]
      /\ entries \in [End -> SUBSET Entry] /\ wired \in [End -> [Channel -> Nat \cup {NoId}]]
  BY WiredNow DEF InductiveInv, TypeOK
<1>2. /\ UNCHANGED <<sent, delivered, dtls, pending, isClosed, opened, sentOn, receivedOn>>
      /\ readyState' = [readyState EXCEPT ![e][c] = "closed"]
      /\ IF s = NoId THEN UNCHANGED <<nextStreamId, entries, wired>>
         ELSE /\ entries' = [entries EXCEPT ![e] = @ \ At(e, s)]
              /\ wired' = [wired EXCEPT ![e] = Unwired(e, s)]
              /\ UNCHANGED nextStreamId
  BY DEF FinishClose, traffic, stack, history, manager
<1>3. \A d \in End, x \in Channel :
        readyState'[d][x] = IF d = e /\ x = c THEN "closed" ELSE readyState[d][x]
  BY <1>1, <1>2
<1>4. CASE s = NoId
  <2>1. \A y \in entries[e] : y.channel # c
    <3> SUFFICES ASSUME NEW y \in entries[e], y.channel = c PROVE FALSE
      OBVIOUS
    <3>1. s = y.stream /\ y \in Entry
      BY <1>1 DEF Wiring
    <3> QED BY <1>4, <3>1, ChannelAssumption DEF Entry
  <2>2. entries' = entries /\ wired' = wired /\ nextStreamId' = nextStreamId
    BY <1>2, <1>4
  <2>3. entries'[e] = {y \in entries[e] : y.channel # c}
    BY <2>1, <2>2
  <2> QED BY <1>2, <1>3, <1>4, <2>2, <2>3
<1>5. CASE s # NoId
  <2>1. PICK z \in entries[e] : z.channel = c /\ z.stream = s
    BY <1>1, <1>5 DEF Wiring
  <2>2. \A y \in entries[e] : y.stream = s <=> y.channel = c
    <3> SUFFICES ASSUME NEW y \in entries[e] PROVE y.stream = s <=> y.channel = c
      OBVIOUS
    <3>1. y.channel \in Channel /\ y.stream \in Nat /\ z.stream \in Nat
      BY <1>1 DEF Entry
    <3>2. OnStream(y.channel, y.stream) /\ OnStream(c, s)
      BY <2>1 DEF OnStream
    <3> QED BY <1>1, <2>1, <3>1, <3>2 DEF StreamInv
  <2>3. entries[e] \ At(e, s) = {y \in entries[e] : y.channel # c}
    BY <2>2 DEF At
  <2>4. \A x \in Channel : (\E y \in At(e, s) : y.channel = x) <=> x = c
    BY <2>1, <2>2 DEF At
  <2>5. \A x \in Channel : Unwired(e, s)[x] = IF x = c THEN NoId ELSE wired[e][x]
    BY <2>4 DEF Unwired
  <2> HIDE DEF s
  <2>6. /\ \A d \in End : d # e => entries'[d] = entries[d] /\ wired'[d] = wired[d]
        /\ entries'[e] = entries[e] \ At(e, s) /\ wired'[e] = Unwired(e, s)
        /\ nextStreamId' = nextStreamId
    BY <1>1, <1>2, <1>5
  <2> QED BY <1>2, <1>3, <2>3, <2>5, <2>6
<1> QED BY <1>4, <1>5

\* Closing takes entries away, and listeners with them.
LEMMA DropsKeep ==
    ASSUME StreamsApart, InductiveInv, Typed', StaysClosed,
           UNCHANGED <<sent, delivered, nextStreamId, opened, sentOn, receivedOn>>,
           \A d \in End : /\ entries'[d] \subseteq entries[d]
                          /\ isClosed[d] => isClosed'[d]
                          /\ dtls'[d] = "connected" => dtls[d] = "connected"
                          /\ pending'[d] = pending[d] \/ pending'[d] = <<>>,
           \A d \in End, x \in Channel :
               /\ readyState'[d][x] = "none" <=> readyState[d][x] = "none"
               /\ readyState[d][x] = "closed" => readyState'[d][x] = "closed"
               /\ readyState'[d][x] = "open" => readyState[d][x] = "open"
               /\ wired'[d][x] = wired[d][x] \/ wired'[d][x] = NoId
               /\ readyState'[d][x] = "closed" => readyState[d][x] = "closed" \/ wired'[d][x] = NoId
               /\ HasEntry(d, x) => HasEntry(d, x)' \/ readyState'[d][x] = "closed" \/ isClosed'[d],
           \A d \in End : Wiring(entries'[d], wired'[d])
    PROVE  InductiveInv'
<1>1. /\ TypeOK /\ TypeOK' /\ NoneNew("OPEN") /\ NoneNew("ACK") /\ NoneNew("DATA")
      /\ QueueInv /\ EntryInv /\ ClosedIsDropped /\ StreamInv
  BY NothingSent DEF InductiveInv, Typed
<1>2. \A d \in End : Advances(d, "OPEN")
  BY DEF Advances
<1>3. \A d \in End, x \in Channel :
        /\ HasEntry(d, x)' => HasEntry(d, x)
        /\ Queued(d, x)' => Queued(d, x)
        /\ HasSent(d, "OPEN", x)' => HasSent(d, "OPEN", x)
  BY DEF HasEntry, Queued, HasSent, IsSent
<1>4. \A d \in End, x \in Channel : Unopened(d, x)' => Unopened(d, x)
  BY <1>3 DEF Unopened
<1>5. QueueInv'
  <2>1. \A d \in End : \A i, j \in DOMAIN pending'[d] : pending'[d][i] = pending'[d][j] => i = j
    BY <1>1 DEF QueueInv
  <2> QED BY <1>1, <1>3, <2>1, QueueFrame
<1>6. OpenInv'
  BY <1>1, <1>2, OpenFrame DEF InductiveInv
<1>7. StreamInv'
  <2>1. \A x \in Channel, s \in Nat : OnStream(x, s)' => OnStream(x, s)
    BY DEF OnStream, IsSent
  <2> QED BY <1>1, <1>4, <2>1, StreamFrame
<1>8. WiredBothWays'
  BY <1>1, WiredNext
<1>9. EntryInv'
  BY <1>1, <1>3 DEF EntryInv
<1>10. ClosedIsDropped'
  BY <1>1 DEF ClosedIsDropped
<1>11. AckInv' /\ DataInv'
  BY <1>1, AckFrame, DataFrame DEF InductiveInv
<1>12. OpenAtBoth'
  BY DEF InductiveInv, OpenAtBoth
<1>13. RoutedInv'
  BY <1>1, <1>2, RoutedFrame DEF InductiveInv
<1> QED BY <1>1, <1>5, <1>6, <1>7, <1>8, <1>9, <1>10, <1>11, <1>12, <1>13 DEF InductiveInv

LEMMA FinishCloseKeeps ==
    ASSUME StreamsApart, InductiveInv, Typed', StaysClosed, NEW e \in End, NEW c \in Channel, FinishClose(e, c)
    PROVE  InductiveInv'
<1>1. CASE readyState[e][c] # "closing"
  <2>1. UNCHANGED <<traffic, stack, readyState, manager, opened, history>>
    BY <1>1 DEF FinishClose
  <2> QED BY <2>1, QuietKeeps DEF traffic, stack, manager, history, StatesKept
<1>2. CASE readyState[e][c] = "closing"
  <2>1. /\ \A d \in End : d # e => entries'[d] = entries[d] /\ wired'[d] = wired[d]
        /\ entries'[e] = {y \in entries[e] : y.channel # c}
        /\ \A x \in Channel : wired'[e][x] = IF x = c THEN NoId ELSE wired[e][x]
        /\ \A d \in End, x \in Channel :
             readyState'[d][x] = IF d = e /\ x = c THEN "closed" ELSE readyState[d][x]
        /\ UNCHANGED <<sent, delivered, dtls, pending, isClosed, nextStreamId, opened, sentOn, receivedOn>>
    BY <1>2, FinishCloseEffect
  <2>2. \A d \in End : Wiring(entries[d], wired[d])
    BY WiredNow DEF InductiveInv
  <2>3. \A d \in End : Wiring(entries'[d], wired'[d])
    <3>1. Wiring(entries'[e], wired'[e])
      BY <2>1, <2>2 DEF Wiring
    <3> QED BY <2>1, <2>2, <3>1
  <2>4. \A d \in End, x \in Channel : HasEntry(d, x) => HasEntry(d, x)' \/ readyState'[d][x] = "closed"
    BY <2>1 DEF HasEntry
  <2>5. \A d \in End : entries'[d] \subseteq entries[d]
    BY <2>1
  <2>6. \A d \in End, x \in Channel :
           /\ readyState'[d][x] = "none" <=> readyState[d][x] = "none"
           /\ readyState[d][x] = "closed" => readyState'[d][x] = "closed"
           /\ readyState'[d][x] = "open" => readyState[d][x] = "open"
           /\ wired'[d][x] = wired[d][x] \/ wired'[d][x] = NoId
           /\ readyState'[d][x] = "closed" => readyState[d][x] = "closed" \/ wired'[d][x] = NoId
    BY <1>2, <2>1
  <2> QED BY <2>1, <2>3, <2>4, <2>5, <2>6, DropsKeep
<1> QED BY <1>1, <1>2

LEMMA ClosePeerConnectionKeeps ==
    ASSUME StreamsApart, InductiveInv, Typed', StaysClosed, NEW e \in End, ClosePeerConnection(e)
    PROVE  InductiveInv'
<1>1. /\ TypeOK /\ \A d \in End : Wiring(entries[d], wired[d])
      /\ readyState \in [End -> [Channel -> ReadyState]] /\ dtls \in [End -> DtlsState]
      /\ entries \in [End -> SUBSET Entry] /\ wired \in [End -> [Channel -> Nat \cup {NoId}]]
      /\ isClosed \in [End -> BOOLEAN] /\ pending \in [End -> Seq(Channel)]
  BY WiredNow DEF InductiveInv, TypeOK
<1>2. UNCHANGED <<sent, delivered, nextStreamId, opened, sentOn, receivedOn>>
  BY DEF ClosePeerConnection, traffic, history
<1>3. /\ \A d \in End : d # e => entries'[d] = entries[d] /\ wired'[d] = wired[d] /\ readyState'[d] = readyState[d]
      /\ entries'[e] = {}
  BY <1>1 DEF ClosePeerConnection
<1>4. \A d \in End : isClosed'[d] = (isClosed[d] \/ d = e)
  BY <1>1 DEF ClosePeerConnection
<1>5. \A x \in Channel : readyState'[e][x] = IF readyState[e][x] \in {"connecting", "open"} THEN "closing"
                                             ELSE readyState[e][x]
  BY <1>1 DEF ClosePeerConnection
<1>6. \A x \in Channel : wired'[e][x] = NoId
  <2>1. \A x \in Channel : wired'[e][x] = IF \E y \in entries[e] : y.channel = x THEN NoId ELSE wired[e][x]
    BY <1>1 DEF ClosePeerConnection
  <2> QED BY <1>1, <2>1 DEF Wiring
<1>7. \A d \in End : Wiring(entries'[d], wired'[d])
  <2>1. Wiring(entries'[e], wired'[e])
    BY <1>3, <1>6 DEF Wiring
  <2> QED BY <1>1, <1>3, <2>1
<1>8. \A d \in End : /\ entries'[d] \subseteq entries[d]
                     /\ isClosed[d] => isClosed'[d]
  BY <1>3, <1>4
<1>9. \A d \in End : dtls'[d] = "connected" => dtls[d] = "connected"
  BY <1>1 DEF ClosePeerConnection
<1>10. \A d \in End : pending'[d] = pending[d] \/ pending'[d] = <<>>
  BY <1>1 DEF ClosePeerConnection
<1>11. \A d \in End, x \in Channel : HasEntry(d, x) => HasEntry(d, x)' \/ isClosed'[d]
  BY <1>3, <1>4 DEF HasEntry
<1>12. \A d \in End, x \in Channel :
           /\ readyState'[d][x] = "none" <=> readyState[d][x] = "none"
           /\ readyState[d][x] = "closed" => readyState'[d][x] = "closed"
           /\ readyState'[d][x] = "open" => readyState[d][x] = "open"
           /\ wired'[d][x] = wired[d][x] \/ wired'[d][x] = NoId
           /\ readyState'[d][x] = "closed" => readyState[d][x] = "closed"
  BY <1>3, <1>5, <1>6
<1> QED BY <1>2, <1>7, <1>8, <1>9, <1>10, <1>11, <1>12, DropsKeep
-----------------------------------------------------------------------------
(* Receiving.                                                              *)

\* The message handed over, and how far end e has come.
LEMMA ReceiveEffect ==
    ASSUME TypeOK, NEW e \in End, NEW t, Receive(e, t)
    PROVE  \E n \in Nat, m \in SctpMessage :
             /\ m = Sctp!NextMessage(e) /\ n = Len(delivered[e]) + 1
             /\ n \in DOMAIN sent[Peer(e)] /\ sent[Peer(e)][n] = m /\ m.type = t
             /\ Len(delivered'[e]) = n
             /\ \A d \in End : d # e => delivered'[d] = delivered[d]
             /\ \A d \in End : Advances(d, t)
             /\ dtls[e] = "connected" /\ ~isClosed[e]
<1>1. /\ sent[Peer(e)] \in Seq(SctpMessage) /\ delivered[e] \in Seq(SctpMessage)
      /\ delivered \in [End -> Seq(SctpMessage)]
  BY PeerProperties DEF TypeOK
<1> DEFINE n == Len(delivered[e]) + 1
           m == sent[Peer(e)][n]
<1>2. n \in 1 .. Len(sent[Peer(e)]) /\ n \in Nat /\ n \in DOMAIN sent[Peer(e)]
  BY <1>1, Interface DEF Receive
<1>3. m \in SctpMessage /\ m = Sctp!NextMessage(e)
  BY <1>1, <1>2, Interface
<1>4. m.type = t /\ delivered' = [delivered EXCEPT ![e] = Append(@, m)]
      /\ dtls[e] = "connected" /\ ~isClosed[e]
  BY <1>3 DEF Receive
<1> HIDE DEF m
<1>5. delivered'[e] = Append(delivered[e], m) /\ \A d \in End : d # e => delivered'[d] = delivered[d]
  BY <1>1, <1>4
<1>6. Len(delivered'[e]) = n
  BY <1>1, <1>5, <1>3
<1>7. \A d \in End : Advances(d, t)
  <2>1. Advances(e, t)
    BY <1>2, <1>4, <1>6 DEF Advances, m
  <2> QED BY <1>5, <2>1 DEF Advances
<1> QED BY <1>2, <1>3, <1>4, <1>5, <1>6, <1>7 DEF m

\* An OPEN comes to an end that has no such channel, on a stream that is free.
LEMMA OpenIsNew ==
    ASSUME InductiveInv, NEW e \in End, NEW n, NEW c \in Channel, n > Len(delivered[e]),
           IsSent(Peer(e), n, "OPEN", c), sent[Peer(e)][n].stream \in Nat
    PROVE  /\ readyState[e][c] = "none" /\ ~HasEntry(e, c) /\ ~opened[e][c] /\ ~Queued(e, c)
           /\ At(e, sent[Peer(e)][n].stream) = {}
           /\ Opener[c] = Peer(e) /\ c \notin Negotiated
           /\ \A i : IsSent(Peer(e), i, "OPEN", c) => i = n
           /\ OnStream(c, sent[Peer(e)][n].stream)
<1> DEFINE s == sent[Peer(e)][n].stream
<1>1. /\ TypeOK /\ OpenInv /\ QueueInv /\ StreamInv /\ Peer(e) \in End
      /\ n \in DOMAIN sent[Peer(e)]
  BY PeerProperties DEF InductiveInv, IsSent
<1>2. readyState[e][c] = "none"
  BY <1>1 DEF OpenInv
<1>3. ~HasEntry(e, c) /\ ~opened[e][c] /\ ~Queued(e, c)
  BY <1>1, <1>2 DEF QueueInv, Unopened
<1>4. HasSent(Peer(e), "OPEN", c)
  BY <1>1 DEF HasSent
<1>5. Opener[c] = Peer(e) /\ c \notin Negotiated
  BY <1>1, <1>4 DEF OpenInv
<1>6. OnStream(c, s)
  BY <1>1 DEF OnStream
<1>7. At(e, s) = {}
  <2> SUFFICES ASSUME NEW y \in entries[e], y.stream = s PROVE FALSE
    BY DEF At
  <2>1. y.channel \in Channel /\ y.stream \in Nat
    BY <1>1 DEF TypeOK, Entry
  <2>2. OnStream(y.channel, y.stream)
    BY DEF OnStream
  <2>3. y.channel = c
    BY <1>1, <1>6, <2>1, <2>2 DEF StreamInv
  <2> QED BY <1>3, <2>3 DEF HasEntry
<1>8. \A i : IsSent(Peer(e), i, "OPEN", c) => i = n
  <2> SUFFICES ASSUME NEW i, IsSent(Peer(e), i, "OPEN", c) PROVE i = n
    OBVIOUS
  <2>1. i \in DOMAIN sent[Peer(e)]
    BY DEF IsSent
  <2> QED BY <1>1, <2>1 DEF OpenInv
<1> QED BY <1>2, <1>3, <1>5, <1>6, <1>7, <1>8

LEMMA AcceptKeeps ==
    ASSUME StreamsApart, InductiveInv, Typed', StaysClosed, NEW e \in End, ReceiveOpen(e), assoc[e] = "established"
    PROVE  InductiveInv'
<1>1. TypeOK /\ TypeOK' /\ Receive(e, "OPEN")
  BY DEF InductiveInv, Typed, ReceiveOpen
<1>2. PICK n \in Nat, m \in SctpMessage :
             /\ m = Sctp!NextMessage(e) /\ n = Len(delivered[e]) + 1
             /\ n \in DOMAIN sent[Peer(e)] /\ sent[Peer(e)][n] = m /\ m.type = "OPEN"
             /\ Len(delivered'[e]) = n
             /\ \A d \in End : d # e => delivered'[d] = delivered[d]
             /\ \A d \in End : Advances(d, "OPEN")
             /\ ~isClosed[e]
  BY <1>1, ReceiveEffect
<1>3. PICK c \in Channel, s \in Nat : c = m.channel /\ s = m.stream
  BY <1>2 DEF SctpMessage
<1> DEFINE ack == [type |-> "ACK", stream |-> s]
           y0 == [stream |-> s, channel |-> c, acked |-> TRUE]
<1>4. /\ SendData(e, ack) /\ Register(e, c, s, TRUE) /\ EmitOpen(e, c)
      /\ UNCHANGED <<dtls, pending, isClosed, nextStreamId, sentOn, receivedOn>>
  BY <1>2, <1>3 DEF ReceiveOpen, Accept, history
<1>5. ack.type = "ACK" /\ ack.stream = s
  OBVIOUS
<1>6. y0.stream = s /\ y0.channel = c /\ y0.acked
  OBVIOUS
<1> HIDE DEF ack
<1>7. IsSent(Peer(e), n, "OPEN", c) /\ sent[Peer(e)][n].stream = s /\ n > Len(delivered[e])
      /\ Len(delivered[e]) \in Nat /\ Peer(e) \in End
  <2>1. Peer(e) \in End
    BY PeerProperties
  <2>2. delivered[e] \in Seq(SctpMessage)
    BY <1>1 DEF TypeOK
  <2>3. IsSent(Peer(e), n, "OPEN", c) /\ sent[Peer(e)][n].stream = s
    BY <1>2, <1>3 DEF IsSent
  <2> QED BY <1>2, <2>1, <2>2, <2>3
<1>8. /\ readyState[e][c] = "none" /\ ~HasEntry(e, c) /\ ~opened[e][c] /\ ~Queued(e, c)
      /\ At(e, s) = {}
      /\ Opener[c] = Peer(e) /\ c \notin Negotiated
      /\ \A i : IsSent(Peer(e), i, "OPEN", c) => i = n
      /\ OnStream(c, s)
  BY <1>7, OpenIsNew
<1>9. /\ Kept /\ NoneNew("OPEN") /\ NoneNew("DATA")
      /\ \A d \in End : \A i \in DOMAIN sent'[d] : i \in DOMAIN sent[d] \/ (d = e /\ sent'[d][i] = ack)
  <2>1. /\ Kept /\ \A t : ack.type # t => NoneNew(t)
        /\ \A d \in End : \A i \in DOMAIN sent'[d] : i \in DOMAIN sent[d] \/ (d = e /\ sent'[d][i] = ack)
    BY <1>1, <1>4, OneSent
  <2> QED BY <1>5, <2>1
<1>10. /\ \A d \in End : d # e => entries'[d] = entries[d] /\ wired'[d] = wired[d]
       /\ entries'[e] = entries[e] \cup {y0}
       /\ \A x \in Channel : wired'[e][x] = IF x = c THEN s ELSE wired[e][x]
  BY <1>1, <1>4, <1>8 DEF Register, TypeOK
<1>11. /\ \A d \in End, x \in Channel : ~(d = e /\ x = c) =>
            readyState'[d][x] = readyState[d][x] /\ opened'[d][x] = opened[d][x]
       /\ readyState'[e][c] = "open" /\ opened'[e][c]
  BY <1>1, <1>4, <1>8, EmitOpenEffect
<1>12. /\ QueueInv /\ OpenInv /\ StreamInv /\ EntryInv /\ ClosedIsDropped /\ OpenAtBoth
       /\ \A d \in End : Wiring(entries[d], wired[d])
  BY <1>1, WiredNow DEF InductiveInv
<1>13. \A d \in End, x \in Channel : HasSent(d, "OPEN", x)' <=> HasSent(d, "OPEN", x)
  BY <1>9, Sent
<1>14. \A d \in End, x \in Channel : Queued(d, x)' <=> Queued(d, x)
  BY <1>4 DEF Queued
<1>15. Wiring(entries'[e], wired'[e])
  <2>1. \A y \in entries[e] : y.channel # c
    BY <1>8 DEF HasEntry
  <2>2. s # NoId
    BY ChannelAssumption
  <2>3. entries'[e] = entries[e] \cup {[stream |-> s, channel |-> c, acked |-> TRUE]}
    BY <1>10
  <2>4. Wiring(entries[e], wired[e])
    BY <1>12
  <2> DEFINE a == TRUE
  <2>5. entries'[e] = entries[e] \cup {[stream |-> s, channel |-> c, acked |-> a]}
    BY <2>3
  <2> HIDE DEF a
  <2>6. \A x \in Channel : wired'[e][x] = IF x = c THEN s ELSE wired[e][x]
    BY <1>10
  <2> QED BY <2>1, <2>2, <2>4, <2>5, <2>6, WiringGains, SMTT(60)
<1> HIDE DEF y0
<1>16. \A d \in End, x \in Channel : /\ HasEntry(d, x) => HasEntry(d, x)'
                                     /\ HasEntry(d, x)' => HasEntry(d, x) \/ (d = e /\ x = c)
  BY <1>6, <1>10 DEF HasEntry
<1>17. \A d \in End, x \in Channel : Unopened(d, x)' => Unopened(d, x) /\ ~(d = e /\ x = c)
  BY <1>8, <1>11, <1>14 DEF Unopened
<1>18. QueueInv'
  <2>1. \A d \in End : \A i, j \in DOMAIN pending'[d] : pending'[d][i] = pending'[d][j] => i = j
    BY <1>4, <1>12 DEF QueueInv
  <2>2. \A d \in End, x \in Channel : readyState[d][x] # "none" => readyState'[d][x] # "none"
    BY <1>11
  <2>3. ASSUME NEW d \in End, NEW x \in Channel, Unopened(d, x)'
        PROVE  /\ HasEntry(d, x)' => HasEntry(d, x)
               /\ opened'[d][x] => opened[d][x]
               /\ HasSent(d, "OPEN", x)' => HasSent(d, "OPEN", x)
    BY <1>11, <1>13, <1>16, <1>17, <2>3
  <2> QED BY <1>12, <1>14, <2>1, <2>2, <2>3, QueueFrame
<1>19. OpenInv'
  <2>1. \A d \in End : \A i, x : IsSent(d, i, "OPEN", x)' => IsSent(d, i, "OPEN", x) /\ i \in DOMAIN sent[d]
    BY <1>9, Sent DEF NoneNew, IsSent
  <2>2. ASSUME NEW d \in End PROVE Len(delivered'[d]) <= Len(sent'[Peer(d)])
    <3>1. /\ Peer(d) \in End /\ sent[Peer(d)] \in Seq(SctpMessage) /\ sent'[Peer(d)] \in Seq(SctpMessage)
          /\ delivered[d] \in Seq(SctpMessage) /\ delivered'[d] \in Seq(SctpMessage)
      BY <1>1, PeerProperties DEF TypeOK
    <3>2. CASE d = e
      <4>1. n \in DOMAIN sent'[Peer(d)]
        BY <1>2, <1>7, <1>9, <3>2 DEF Kept
      <4> QED BY <1>2, <3>1, <3>2, <4>1
    <3>3. CASE d # e
      <4>1. Len(delivered'[d]) <= Len(sent[Peer(d)])
        BY <1>2, <1>12, <3>3 DEF OpenInv
      <4>2. Len(sent[Peer(d)]) <= Len(sent'[Peer(d)])
        <5>1. CASE Len(sent[Peer(d)]) = 0
          BY <3>1, <5>1
        <5>2. CASE Len(sent[Peer(d)]) \in DOMAIN sent[Peer(d)]
          BY <1>9, <3>1, <5>2 DEF Kept
        <5> QED BY <3>1, <5>1, <5>2
      <4> QED BY <3>1, <4>1, <4>2
    <3> QED BY <3>2, <3>3
  <2>3. ASSUME NEW d \in End, NEW x \in Channel, NEW i, IsSent(Peer(d), i, "OPEN", x)', i > Len(delivered'[d])
        PROVE  readyState'[d][x] = "none"
    <3>1. /\ Peer(d) \in End /\ IsSent(Peer(d), i, "OPEN", x) /\ i \in DOMAIN sent[Peer(d)]
          /\ sent[Peer(d)] \in Seq(SctpMessage) /\ i \in Nat
      <4>1. Peer(d) \in End
        BY PeerProperties
      <4>2. IsSent(Peer(d), i, "OPEN", x) /\ i \in DOMAIN sent[Peer(d)]
        BY <2>1, <2>3, <4>1
      <4>3. sent[Peer(d)] \in Seq(SctpMessage)
        BY <1>1, <4>1 DEF TypeOK
      <4> QED BY <4>1, <4>2, <4>3
    <3>2. i > Len(delivered[d])
      BY <1>2, <1>7, <2>3, <3>1
    <3>3. readyState[d][x] = "none"
      BY <1>12, <3>1, <3>2 DEF OpenInv
    <3>4. ~(d = e /\ x = c)
      BY <1>2, <1>8, <2>3, <3>1
    <3> QED BY <1>11, <3>3, <3>4
  <2>4. ASSUME NEW d \in End, NEW x \in Channel, readyState'[d][x] # "none"
        PROVE  Opener[x] = d \/ x \in Negotiated \/ HasSent(Peer(d), "OPEN", x)'
    <3>1. CASE d = e /\ x = c
      <4>1. HasSent(Peer(e), "OPEN", c)
        BY <1>2, <1>7 DEF HasSent
      <4> QED BY <1>7, <1>13, <3>1, <4>1
    <3>2. CASE ~(d = e /\ x = c)
      BY <1>11, <1>12, <1>13, <2>4, <3>2, PeerProperties DEF OpenInv
    <3> QED BY <3>1, <3>2
  <2>5. ASSUME NEW d \in End, NEW x \in Channel
        PROVE  /\ HasSent(d, "OPEN", x)' => Opener[x] = d /\ x \notin Negotiated
               /\ \A i, j \in DOMAIN sent'[d] : IsSent(d, i, "OPEN", x)' /\ IsSent(d, j, "OPEN", x)' => i = j
    <3>1. HasSent(d, "OPEN", x)' => Opener[x] = d /\ x \notin Negotiated
      BY <1>12, <1>13 DEF OpenInv
    <3>2. ASSUME NEW i, NEW j, IsSent(d, i, "OPEN", x)', IsSent(d, j, "OPEN", x)' PROVE i = j
      <4>1. /\ IsSent(d, i, "OPEN", x) /\ i \in DOMAIN sent[d]
            /\ IsSent(d, j, "OPEN", x) /\ j \in DOMAIN sent[d]
        BY <2>1, <3>2
      <4> QED BY <1>12, <4>1 DEF OpenInv
    <3> QED BY <3>1, <3>2
  <2> QED BY <2>2, <2>3, <2>4, <2>5 DEF OpenInv
<1>20. StreamInv'
  <2>1. ASSUME NEW x \in Channel, NEW t \in Nat, OnStream(x, t)' PROVE OnStream(x, t)
    <3>1. PICK d \in End : \/ \E z \in entries'[d] : z.channel = x /\ z.stream = t
                           \/ \E i \in DOMAIN sent'[d] :
                                (IsSent(d, i, "OPEN", x)' \/ IsSent(d, i, "DATA", x)') /\ sent'[d][i].stream = t
      BY <2>1 DEF OnStream
    <3>2. CASE \E z \in entries'[d] : z.channel = x /\ z.stream = t
      BY <1>6, <1>8, <1>10, <3>2 DEF OnStream
    <3>3. ASSUME NEW i \in DOMAIN sent'[d], IsSent(d, i, "OPEN", x)' \/ IsSent(d, i, "DATA", x)', sent'[d][i].stream = t
          PROVE  OnStream(x, t)
      <4>1. IsSent(d, i, "OPEN", x) \/ IsSent(d, i, "DATA", x)
        BY <1>9, <3>3, Sent
      <4>2. i \in DOMAIN sent[d] /\ sent'[d][i] = sent[d][i]
        BY <1>9, <4>1 DEF Kept, IsSent
      <4> QED BY <3>3, <4>1, <4>2 DEF OnStream
    <3> QED BY <3>1, <3>2, <3>3
  <2>2. \A d \in End, x \in Channel : Unopened(d, x)' => Unopened(d, x)
    BY <1>17
  <2> QED BY <1>4, <1>12, <2>1, <2>2, StreamFrame
<1>21. WiredBothWays'
  BY <1>1, <1>10, <1>12, <1>15, WiredNext
<1>22. EntryInv'
  <2>1. ASSUME NEW d \in End, NEW x \in Channel, opened'[d][x] \/ HasSent(d, "OPEN", x)'
        PROVE  readyState'[d][x] = "closed" \/ isClosed'[d] \/ HasEntry(d, x)'
    <3>1. CASE ~(d = e /\ x = c)
      BY <1>4, <1>11, <1>12, <1>13, <1>16, <2>1, <3>1 DEF EntryInv
    <3>2. CASE d = e /\ x = c
      BY <1>6, <1>10, <3>2 DEF HasEntry
    <3> QED BY <3>1, <3>2
  <2>2. ASSUME NEW d \in End, NEW x \in Channel
        PROVE  /\ readyState'[d][x] = "open" => opened'[d][x]
               /\ opened'[d][x] => readyState'[d][x] # "none"
    <3>1. CASE ~(d = e /\ x = c)
      BY <1>11, <1>12, <3>1 DEF EntryInv
    <3>2. CASE d = e /\ x = c
      BY <1>11, <3>2
    <3> QED BY <3>1, <3>2
  <2>3. ASSUME NEW d \in End, NEW y \in entries'[d], ~y.acked
        PROVE  Opener[y.channel] = d /\ y.channel \notin Negotiated
    <3>1. y \in entries[d]
      BY <1>6, <1>10, <2>3
    <3>2. y.channel \in Channel
      BY <1>1, <3>1 DEF TypeOK, Entry
    <3> QED BY <1>12, <2>3, <3>1, <3>2 DEF EntryInv
  <2> QED BY <2>1, <2>2, <2>3 DEF EntryInv
<1>23. ClosedIsDropped'
  <2>1. ASSUME NEW d \in End, NEW x \in Channel, opened'[d][x], readyState'[d][x] = "closed"
        PROVE  wired'[d][x] = NoId
    <3>1. ~(d = e /\ x = c)
      BY <1>11, <2>1
    <3>2. opened'[d][x] = opened[d][x] /\ readyState'[d][x] = readyState[d][x] /\ wired'[d][x] = wired[d][x]
      BY <1>10, <1>11, <3>1
    <3> QED BY <1>12, <2>1, <3>2 DEF ClosedIsDropped
  <2> QED BY <2>1 DEF ClosedIsDropped
<1>24. \A d \in End, x \in Channel : opened[d][x] => opened'[d][x]
  BY <1>8, <1>11
<1>25. AckInv'
  <2> SUFFICES ASSUME NEW d \in End, NEW i \in DOMAIN sent'[d], sent'[d][i].type = "ACK"
               PROVE  \E x \in Channel, j \in DOMAIN sent'[Peer(d)] :
                        /\ IsSent(Peer(d), j, "OPEN", x)' /\ sent'[Peer(d)][j].stream = sent'[d][i].stream
                        /\ opened'[d][x]
    BY DEF AckInv
  <2>1. \E x \in Channel, j \in DOMAIN sent[Peer(d)] :
          /\ IsSent(Peer(d), j, "OPEN", x) /\ sent[Peer(d)][j].stream = sent'[d][i].stream
          /\ opened'[d][x]
    <3>1. CASE i \in DOMAIN sent[d]
      <4>1. sent'[d][i] = sent[d][i]
        BY <1>9, <3>1 DEF Kept
      <4> QED BY <1>24, <3>1, <4>1 DEF InductiveInv, AckInv
    <3>2. CASE d = e /\ sent'[d][i] = ack
      BY <1>2, <1>5, <1>7, <1>11, <3>2
    <3> QED BY <1>9, <3>1, <3>2
  <2>2. PICK x \in Channel, j \in DOMAIN sent[Peer(d)] :
          /\ IsSent(Peer(d), j, "OPEN", x) /\ sent[Peer(d)][j].stream = sent'[d][i].stream
          /\ opened'[d][x]
    BY <2>1
  <2>3. j \in DOMAIN sent'[Peer(d)] /\ IsSent(Peer(d), j, "OPEN", x)' /\ sent'[Peer(d)][j] = sent[Peer(d)][j]
    BY <1>9, <2>2, PeerProperties DEF Kept, IsSent
  <2> QED BY <2>2, <2>3
<1>26. OpenAtBoth'
  <2> SUFFICES ASSUME NEW x \in Channel \ Negotiated, opened'[Opener[x]][x] PROVE opened'[Peer(Opener[x])][x]
    BY DEF OpenAtBoth
  <2>1. Opener[x] \in End /\ Peer(Opener[x]) \in End
    BY PeerProperties, ChannelAssumption
  <2>2. CASE x = c
    BY <1>8, <1>11, <2>2, PeerProperties
  <2>3. CASE x # c
    BY <1>11, <1>12, <2>1, <2>3 DEF OpenAtBoth
  <2> QED BY <2>2, <2>3
<1>27. DataInv'
  BY <1>1, <1>4, <1>9, <1>24, DataFrame DEF InductiveInv
<1>28. RoutedInv'
  <2>1. \A d \in End, x \in Channel : readyState[d][x] = "closed" => readyState'[d][x] = "closed"
    BY <1>8, <1>11
  <2> QED BY <1>1, <1>2, <1>4, <1>9, <2>1, RoutedFrame DEF InductiveInv
<1> QED BY <1>1, <1>18, <1>19, <1>20, <1>21, <1>22, <1>23, <1>25, <1>26, <1>27, <1>28 DEF InductiveInv

LEMMA ReceiveOpenKeeps ==
    ASSUME StreamsApart, InductiveInv, Typed', StaysClosed, NEW e \in End, ReceiveOpen(e)
    PROVE  InductiveInv'
<1>1. CASE assoc[e] = "established"
  BY <1>1, AcceptKeeps
<1>2. CASE assoc[e] # "established"
  <2>1. /\ UNCHANGED <<pending, isClosed, nextStreamId, entries, wired, readyState, opened, sentOn, receivedOn>>
        /\ sent' = sent /\ dtls' = [dtls EXCEPT ![e] = "failed"] /\ Receive(e, "OPEN")
    BY <1>2 DEF ReceiveOpen, SendData, history
  <2>2. \A d \in End : Advances(d, "OPEN")
    BY <2>1, ReceiveEffect DEF InductiveInv
  <2>3. \A d \in End : dtls'[d] = "connected" => dtls[d] = "connected"
    BY <2>1 DEF InductiveInv, TypeOK
  <2> QED BY <2>1, <2>2, <2>3, SkipKeeps DEF StatesKept
<1> QED BY <1>1, <1>2

LEMMA ReceiveAckKeeps ==
    ASSUME StreamsApart, InductiveInv, Typed', StaysClosed, NEW e \in End, ReceiveAck(e)
    PROVE  InductiveInv'
<1>1. /\ TypeOK /\ TypeOK' /\ Receive(e, "ACK")
      /\ UNCHANGED <<sent, dtls, pending, isClosed, nextStreamId, wired, sentOn, receivedOn>>
  BY DEF InductiveInv, Typed, ReceiveAck, stack, history
<1>2. PICK n \in Nat, m \in SctpMessage :
             /\ m = Sctp!NextMessage(e) /\ n = Len(delivered[e]) + 1
             /\ n \in DOMAIN sent[Peer(e)] /\ sent[Peer(e)][n] = m /\ m.type = "ACK"
             /\ Len(delivered'[e]) = n
             /\ \A d \in End : d # e => delivered'[d] = delivered[d]
             /\ \A d \in End : Advances(d, "ACK")
  BY <1>1, ReceiveEffect
<1> DEFINE waiting == {x \in At(e, m.stream) : ~x.acked}
<1>3. CASE waiting = {}
  <2>1. UNCHANGED <<entries, readyState, opened>>
    BY <1>2, <1>3 DEF ReceiveAck
  <2> QED BY <1>1, <1>2, <2>1, SkipKeeps DEF StatesKept
<1>4. CASE waiting # {}
  <2>1. PICK z \in waiting : /\ entries' = [entries EXCEPT ![e] = (@ \ {z}) \cup {[z EXCEPT !.acked = TRUE]}]
                             /\ EmitOpen(e, z.channel)
    BY <1>2, <1>4 DEF ReceiveAck
  <2>2. /\ QueueInv /\ OpenInv /\ StreamInv /\ EntryInv /\ ClosedIsDropped /\ AckInv /\ OpenAtBoth
        /\ WiredBothWays /\ DataInv /\ RoutedInv
    BY DEF InductiveInv
  <2>3. z \in Entry /\ z \in entries[e] /\ z.stream = m.stream /\ ~z.acked
    BY <1>1, <2>1 DEF At, TypeOK
  <2> DEFINE c == z.channel
             y0 == [z EXCEPT !.acked = TRUE]
  <2>4. c \in Channel /\ z.stream \in Nat /\ y0.channel = c /\ y0.stream = z.stream /\ y0.acked
    BY <2>3 DEF Entry
  <2>5. /\ \A d \in End : d # e => entries'[d] = entries[d]
        /\ entries'[e] = (entries[e] \ {z}) \cup {y0}
    BY <1>1, <2>1 DEF TypeOK
  <2> HIDE DEF y0
  <2>6. /\ \A d \in End, x \in Channel : ~(d = e /\ x = c) =>
             readyState'[d][x] = readyState[d][x] /\ opened'[d][x] = opened[d][x]
        /\ readyState'[e][c] = IF readyState[e][c] = "closed" THEN "closed" ELSE "open"
        /\ opened'[e][c] <=> opened[e][c] \/ readyState[e][c] # "closed"
    BY <1>1, <2>1, <2>4, EmitOpenEffect
  <2>7. HasEntry(e, c)
    BY <2>3 DEF HasEntry
  <2>8. readyState[e][c] # "none" /\ ~Queued(e, c)
    BY <2>2, <2>4, <2>7 DEF QueueInv, Unopened
  <2>9. Opener[c] = e /\ c \notin Negotiated
    BY <2>2, <2>3, <2>4 DEF EntryInv
  <2>10. Peer(e) \in End /\ Peer(e) # e /\ Peer(Peer(e)) = e
    BY PeerProperties
  <2>11. opened[Peer(e)][c]
    <3>1. PICK x \in Channel, j \in DOMAIN sent[e] :
            /\ IsSent(e, j, "OPEN", x) /\ sent[e][j].stream = m.stream /\ opened[Peer(e)][x]
      BY <1>2, <2>2, <2>10 DEF AckInv
    <3>2. OnStream(x, z.stream)
      BY <2>3, <3>1 DEF OnStream
    <3>3. OnStream(c, z.stream)
      BY <2>3 DEF OnStream
    <3>4. x = c
      BY <2>2, <2>4, <3>2, <3>3 DEF StreamInv
    <3> QED BY <3>1, <3>4
  <2>12. /\ Kept /\ NoneNew("OPEN") /\ NoneNew("ACK") /\ NoneNew("DATA")
         /\ \A d \in End : \A t, x : HasSent(d, t, x)' <=> HasSent(d, t, x)
    BY <1>1, NothingSent DEF HasSent, IsSent
  <2>13. \A d \in End : /\ \A y \in entries'[d] : \E x \in entries[d] : x.channel = y.channel /\ x.stream = y.stream
                        /\ \A x \in entries[d] : \E y \in entries'[d] : x.channel = y.channel /\ x.stream = y.stream
                        /\ \A y \in entries'[d] : ~y.acked => y \in entries[d]
    <3>1. \A y \in entries'[e] : \E x \in entries[e] : x.channel = y.channel /\ x.stream = y.stream
      BY <2>3, <2>4, <2>5
    <3>2. \A x \in entries[e] : \E y \in entries'[e] : x.channel = y.channel /\ x.stream = y.stream
      BY <2>3, <2>4, <2>5
    <3>3. \A y \in entries'[e] : ~y.acked => y \in entries[e]
      BY <2>4, <2>5
    <3> QED BY <2>5, <3>1, <3>2, <3>3
  <2>14. \A d \in End, x \in Channel : HasEntry(d, x)' <=> HasEntry(d, x)
    BY <2>13 DEF HasEntry
  <2>15. \A d \in End, x \in Channel : /\ readyState'[d][x] = "none" <=> readyState[d][x] = "none"
                                       /\ readyState[d][x] = "closed" <=> readyState'[d][x] = "closed"
                                       /\ opened[d][x] => opened'[d][x]
    BY <2>6, <2>8
  <2>16. \A d \in End, x \in Channel : /\ Queued(d, x)' <=> Queued(d, x)
                                       /\ Unopened(d, x)' => Unopened(d, x) /\ ~(d = e /\ x = c)
    BY <1>1, <2>8, <2>15 DEF Queued, Unopened
  <2>17. QueueInv'
    <3>1. \A d \in End : \A i, j \in DOMAIN pending'[d] : pending'[d][i] = pending'[d][j] => i = j
      BY <1>1, <2>2 DEF QueueInv
    <3>2. \A d \in End, x \in Channel : Unopened(d, x)' =>
            /\ HasEntry(d, x)' => HasEntry(d, x)
            /\ opened'[d][x] => opened[d][x]
            /\ HasSent(d, "OPEN", x)' => HasSent(d, "OPEN", x)
      BY <2>6, <2>12, <2>14, <2>16
    <3> QED BY <2>2, <2>15, <2>16, <3>1, <3>2, QueueFrame
  <2>18. OpenInv'
    BY <1>1, <1>2, <2>2, <2>12, <2>15, OpenFrame
  <2>19. StreamInv'
    <3>1. ASSUME NEW x \in Channel, NEW s \in Nat, OnStream(x, s)' PROVE OnStream(x, s)
      BY <1>1, <2>13, <3>1 DEF OnStream, IsSent
    <3> QED BY <1>1, <2>2, <2>16, <3>1, StreamFrame
  <2>20. WiredBothWays'
    BY <1>1, <2>2, <2>13, WiredFrame
  <2>21. EntryInv'
    <3>1. ASSUME NEW d \in End, NEW x \in Channel, opened'[d][x] \/ HasSent(d, "OPEN", x)'
          PROVE  readyState'[d][x] = "closed" \/ isClosed'[d] \/ HasEntry(d, x)'
      <4>1. CASE ~(d = e /\ x = c)
        BY <1>1, <2>2, <2>6, <2>12, <2>14, <3>1, <4>1 DEF EntryInv
      <4>2. CASE d = e /\ x = c
        BY <2>7, <2>14, <4>2
      <4> QED BY <4>1, <4>2
    <3>2. ASSUME NEW d \in End, NEW x \in Channel
          PROVE  /\ readyState'[d][x] = "open" => opened'[d][x]
                 /\ opened'[d][x] => readyState'[d][x] # "none"
      <4>1. CASE ~(d = e /\ x = c)
        BY <2>2, <2>6, <4>1 DEF EntryInv
      <4>2. CASE d = e /\ x = c
        BY <2>6, <4>2
      <4> QED BY <4>1, <4>2
    <3>3. ASSUME NEW d \in End, NEW y \in entries'[d], ~y.acked
          PROVE  Opener[y.channel] = d /\ y.channel \notin Negotiated
      <4>1. y \in entries[d]
        BY <2>13, <3>3
      <4>2. y.channel \in Channel
        BY <1>1, <4>1 DEF TypeOK, Entry
      <4> QED BY <2>2, <3>3, <4>1, <4>2 DEF EntryInv
    <3> QED BY <3>1, <3>2, <3>3 DEF EntryInv
  <2>22. ClosedIsDropped'
    <3>1. ASSUME NEW d \in End, NEW x \in Channel, opened'[d][x], readyState'[d][x] = "closed"
          PROVE  opened[d][x] /\ readyState[d][x] = "closed"
      BY <2>6, <3>1
    <3> QED BY <1>1, <2>2, <3>1 DEF ClosedIsDropped
  <2>23. OpenAtBoth'
    <3> SUFFICES ASSUME NEW x \in Channel \ Negotiated, opened'[Opener[x]][x] PROVE opened'[Peer(Opener[x])][x]
      BY DEF OpenAtBoth
    <3>1. Opener[x] \in End /\ Peer(Opener[x]) \in End
      BY PeerProperties, ChannelAssumption
    <3>2. CASE x = c
      BY <2>9, <2>10, <2>11, <2>15, <3>2
    <3>3. CASE x # c
      BY <2>2, <2>6, <3>1, <3>3 DEF OpenAtBoth
    <3> QED BY <3>2, <3>3
  <2>24. AckInv' /\ DataInv' /\ RoutedInv'
    <3>1. AckInv'
      BY <2>2, <2>12, <2>15, AckFrame
    <3>2. DataInv'
      BY <1>1, <2>2, <2>12, <2>15, DataFrame
    <3>3. RoutedInv'
      BY <1>1, <1>2, <2>2, <2>12, <2>15, RoutedFrame
    <3> QED BY <3>1, <3>2, <3>3
  <2> QED BY <1>1, <2>17, <2>18, <2>19, <2>20, <2>21, <2>22, <2>23, <2>24 DEF InductiveInv
<1> QED BY <1>3, <1>4

\* Data goes to the channel it was sent on, and only when that is in the map.
LEMMA ReceiveDataEffect ==
    ASSUME InductiveInv, NEW e \in End, ReceiveData(e), NEW n, NEW c \in Channel,
           n = Len(delivered[e]) + 1, IsSent(Peer(e), n, "DATA", c),
           sent[Peer(e)][n] = Sctp!NextMessage(e), sent[Peer(e)][n].stream \in Nat
    PROVE  \A d \in End, x \in Channel : receivedOn'[d][x] =
             IF d = e /\ x = c /\ readyState[e][c] # "closed" /\ HasEntry(e, c)
             THEN Append(receivedOn[e][c], <<c, sent[Peer(e)][n].number>>)
             ELSE receivedOn[d][x]
<1> DEFINE m == sent[Peer(e)][n]
           s == sent[Peer(e)][n].stream
           receivers == {x \in Channel : /\ readyState[e][x] # "closed"
                                         /\ \E y \in At(e, s) : y.channel = x}
<1>1. TypeOK /\ StreamInv /\ Peer(e) \in End /\ m.channel = c
  BY PeerProperties DEF InductiveInv, IsSent
<1>2. receivedOn' = [receivedOn EXCEPT ![e] =
                        [x \in Channel |-> IF x \in receivers
                                           THEN Append(@[x], <<m.channel, m.number>>) ELSE @[x]]]
  BY DEF ReceiveData
<1>3. OnStream(c, s)
  BY <1>1 DEF OnStream, IsSent
<1>4. ASSUME NEW x \in Channel, NEW y \in entries[e], y.channel = x
      PROVE  x = c <=> y.stream = s
  <2>1. y.stream \in Nat
    BY <1>1 DEF TypeOK, Entry
  <2>2. OnStream(x, y.stream)
    BY <1>4 DEF OnStream
  <2> QED BY <1>1, <1>3, <2>1, <2>2 DEF StreamInv
<1>5. \A x \in Channel : x \in receivers <=> x = c /\ readyState[e][c] # "closed" /\ HasEntry(e, c)
  BY <1>4 DEF At, HasEntry
<1> HIDE DEF receivers
<1>6. receivedOn \in [End -> [Channel -> Seq(Channel \X Nat)]]
  BY <1>1 DEF TypeOK
<1>7. \A d \in End, x \in Channel : receivedOn'[d][x] =
        IF d = e /\ x \in receivers THEN Append(receivedOn[e][x], <<m.channel, m.number>>) ELSE receivedOn[d][x]
  BY <1>2, <1>6
<1> QED BY <1>1, <1>5, <1>7

\* A channel without an entry that has data on its way has been closed.
LEMMA DataHasEntry ==
    ASSUME InductiveInv, NEW e \in End, NEW c \in Channel, HasSent(Peer(e), "DATA", c),
           c \notin Negotiated, readyState[e][c] # "closed", ~isClosed[e]
    PROVE  HasEntry(e, c)
<1>1. /\ OpenInv /\ EntryInv /\ OpenAtBoth /\ DataInv
      /\ Peer(e) \in End /\ Peer(Peer(e)) = e
  BY PeerProperties DEF InductiveInv
<1>2. opened[Peer(e)][c] /\ readyState[Peer(e)][c] # "none"
  BY <1>1 DEF DataInv, EntryInv
<1>3. opened[e][c] \/ HasSent(e, "OPEN", c)
  <2>1. CASE Opener[c] = Peer(e)
    BY <1>1, <1>2, <2>1 DEF OpenAtBoth
  <2>2. CASE Opener[c] # Peer(e)
    BY <1>1, <1>2, <2>2 DEF OpenInv
  <2> QED BY <2>1, <2>2
<1> QED BY <1>1, <1>3 DEF EntryInv

LEMMA ReceiveDataKeepsRouted ==
    ASSUME InductiveInv, StaysClosed, NEW e \in End, ReceiveData(e), TypeOK'
    PROVE  RoutedInv'
<1>1. /\ TypeOK /\ OpenInv /\ DataInv /\ RoutedInv /\ Receive(e, "DATA")
      /\ UNCHANGED <<sent, assoc, isClosed, readyState, sentOn>>
  BY DEF InductiveInv, ReceiveData, stack, object
<1>2. PICK n \in Nat, m \in SctpMessage :
             /\ m = Sctp!NextMessage(e) /\ n = Len(delivered[e]) + 1
             /\ n \in DOMAIN sent[Peer(e)] /\ sent[Peer(e)][n] = m /\ m.type = "DATA"
             /\ Len(delivered'[e]) = n
             /\ \A d \in End : d # e => delivered'[d] = delivered[d]
             /\ ~isClosed[e]
  BY <1>1, ReceiveEffect
<1>3. PICK c \in Channel, s \in Nat, v \in Nat : c = m.channel /\ s = m.stream /\ v = m.number
  BY <1>2 DEF SctpMessage
<1>4. IsSent(Peer(e), n, "DATA", c) /\ sent[Peer(e)][n].number = v
  BY <1>2, <1>3 DEF IsSent
<1>5. \A d \in End, x \in Channel : receivedOn'[d][x] =
        IF d = e /\ x = c /\ readyState[e][c] # "closed" /\ HasEntry(e, c)
        THEN Append(receivedOn[e][c], <<c, v>>) ELSE receivedOn[d][x]
  BY <1>2, <1>3, <1>4, ReceiveDataEffect
<1>6. ASSUME NEW d \in End, NEW x \in Channel, receivedOn'[d][x] = receivedOn[d][x],
             x \notin Negotiated /\ assoc[d] # "closed" /\ readyState[d][x] # "closed" => ~(d = e /\ x = c)
      PROVE
        LET received == receivedOn'[d][x] IN
        /\ \A i \in DOMAIN received :
             /\ received[i][1] = x
             /\ received[i][2] <= sentOn'[Peer(d)][x]
             /\ i > 1 => received[i - 1][2] < received[i][2]
             /\ \A j \in DOMAIN sent'[Peer(d)] :
                  IsSent(Peer(d), j, "DATA", x)' /\ j > Len(delivered'[d]) =>
                      received[i][2] < sent'[Peer(d)][j].number
        /\ x \notin Negotiated /\ assoc'[d] # "closed" =>
             /\ \A i \in DOMAIN received : received[i][2] = i
             /\ readyState'[d][x] # "closed" /\ ~isClosed'[d] =>
                  \A j \in DOMAIN sent'[Peer(d)] : IsSent(Peer(d), j, "DATA", x)' =>
                      (j <= Len(delivered'[d]) <=> sent'[Peer(d)][j].number <= Len(received))
  <2> DEFINE p == Peer(d)
             received == receivedOn[d][x]
  <2>1.   /\ \A i \in DOMAIN received :
               /\ received[i][1] = x
               /\ received[i][2] <= sentOn[p][x]
               /\ i > 1 => received[i - 1][2] < received[i][2]
               /\ \A j \in DOMAIN sent[p] :
                    IsSent(p, j, "DATA", x) /\ j > Len(delivered[d]) =>
                        received[i][2] < sent[p][j].number
          /\ x \notin Negotiated /\ assoc[d] # "closed" =>
               /\ \A i \in DOMAIN received : received[i][2] = i
               /\ readyState[d][x] # "closed" /\ ~isClosed[d] =>
                    \A j \in DOMAIN sent[p] : IsSent(p, j, "DATA", x) =>
                        (j <= Len(delivered[d]) <=> sent[p][j].number <= Len(received))
    BY <1>1 DEF RoutedInv
  <2>2. sent'[p] = sent[p] /\ sentOn'[p][x] = sentOn[p][x] /\ readyState'[d][x] = readyState[d][x]
        /\ isClosed'[d] = isClosed[d] /\ assoc'[d] = assoc[d] /\ \A j : IsSent(p, j, "DATA", x)' <=> IsSent(p, j, "DATA", x)
    BY <1>1 DEF IsSent
  <2>3. /\ sent[p] \in Seq(SctpMessage) /\ Len(delivered[d]) \in Nat
        /\ \A j \in DOMAIN sent[p] : j \in Nat
    <3>1. p \in End
      BY PeerProperties
    <3>2. sent[p] \in Seq(SctpMessage) /\ delivered[d] \in Seq(SctpMessage)
      BY <1>1, <3>1 DEF TypeOK
    <3> QED BY <3>2
  <2>4. ASSUME NEW j \in DOMAIN sent[p], IsSent(p, j, "DATA", x), j > Len(delivered'[d])
        PROVE  j > Len(delivered[d])
    BY <1>2, <2>3, <2>4
  <2>5. ASSUME ~(d = e /\ x = c), NEW j \in DOMAIN sent[p], IsSent(p, j, "DATA", x)
        PROVE  j <= Len(delivered'[d]) <=> j <= Len(delivered[d])
    <3>1. CASE d # e
      BY <1>2, <3>1
    <3>2. CASE d = e
      <4>1. j # n
        BY <1>4, <2>5, <3>2 DEF IsSent
      <4> QED BY <1>2, <2>3, <3>2, <4>1
    <3> QED BY <3>1, <3>2
  <2>6. ASSUME NEW i \in DOMAIN received, NEW j \in DOMAIN sent[p], IsSent(p, j, "DATA", x), j > Len(delivered'[d])
        PROVE  received[i][2] < sent[p][j].number
    BY <2>1, <2>4, <2>6
  <2>7. ASSUME x \notin Negotiated, assoc[d] # "closed", readyState[d][x] # "closed", ~isClosed[d],
               NEW j \in DOMAIN sent[p], IsSent(p, j, "DATA", x)
        PROVE  j <= Len(delivered'[d]) <=> sent[p][j].number <= Len(received)
    BY <1>6, <2>1, <2>5, <2>7
  <2> QED BY <1>6, <2>1, <2>2, <2>6, <2>7
<1>7. ASSUME readyState[e][c] # "closed", HasEntry(e, c)
      PROVE
        LET received == receivedOn'[e][c] IN
        /\ \A i \in DOMAIN received :
             /\ received[i][1] = c
             /\ received[i][2] <= sentOn'[Peer(e)][c]
             /\ i > 1 => received[i - 1][2] < received[i][2]
             /\ \A j \in DOMAIN sent'[Peer(e)] :
                  IsSent(Peer(e), j, "DATA", c)' /\ j > Len(delivered'[e]) =>
                      received[i][2] < sent'[Peer(e)][j].number
        /\ c \notin Negotiated /\ assoc'[e] # "closed" =>
             /\ \A i \in DOMAIN received : received[i][2] = i
             /\ readyState'[e][c] # "closed" /\ ~isClosed'[e] =>
                  \A j \in DOMAIN sent'[Peer(e)] : IsSent(Peer(e), j, "DATA", c)' =>
                      (j <= Len(delivered'[e]) <=> sent'[Peer(e)][j].number <= Len(received))
  <2> DEFINE p == Peer(e)
             R == receivedOn[e][c]
             S == receivedOn'[e][c]
             k == sentOn[p][c]
  <2>1.   /\ \A i \in DOMAIN R :
               /\ R[i][1] = c
               /\ R[i][2] <= k
               /\ i > 1 => R[i - 1][2] < R[i][2]
               /\ \A j \in DOMAIN sent[p] :
                    IsSent(p, j, "DATA", c) /\ j > Len(delivered[e]) => R[i][2] < sent[p][j].number
          /\ c \notin Negotiated /\ assoc[e] # "closed" =>
               /\ \A i \in DOMAIN R : R[i][2] = i
               /\ readyState[e][c] # "closed" /\ ~isClosed[e] =>
                    \A j \in DOMAIN sent[p] : IsSent(p, j, "DATA", c) =>
                        (j <= Len(delivered[e]) <=> sent[p][j].number <= Len(R))
    BY <1>1 DEF RoutedInv
  <2>2. /\ sent'[p] = sent[p] /\ sentOn'[p][c] = k /\ assoc' = assoc
        /\ \A j : IsSent(p, j, "DATA", c)' <=> IsSent(p, j, "DATA", c)
    BY <1>1 DEF IsSent
  <2>3. /\ p \in End /\ sent[p] \in Seq(SctpMessage) /\ k \in Nat
        /\ R \in Seq(Channel \X Nat) /\ Len(delivered[e]) \in Nat
    <3>1. p \in End
      BY PeerProperties
    <3>2. /\ sent \in [End -> Seq(SctpMessage)] /\ sentOn \in [End -> [Channel -> Nat]]
          /\ receivedOn \in [End -> [Channel -> Seq(Channel \X Nat)]]
          /\ delivered \in [End -> Seq(SctpMessage)]
      BY <1>1 DEF TypeOK
    <3>3. k \in Nat
      BY <3>1, <3>2
    <3>4. R \in Seq(Channel \X Nat)
      BY <3>2
    <3>5. delivered[e] \in Seq(SctpMessage)
      BY <3>2
    <3> QED BY <3>1, <3>2, <3>3, <3>4, <3>5
  <2>4. /\ Len(R) \in Nat /\ DOMAIN R = 1 .. Len(R)
        /\ DOMAIN sent[p] = 1 .. Len(sent[p]) /\ Len(sent[p]) \in Nat
    BY <2>3
  <2>5. \A i \in DOMAIN R : R[i][2] \in Nat
    <3>1. \A i \in DOMAIN R : R[i] \in Channel \X Nat
      BY <2>3
    <3> QED BY <3>1
  <2>6. S = Append(R, <<c, v>>)
    BY <1>5, <1>7
  <2> HIDE DEF R, S
  <2>7. /\ DOMAIN S = 1 .. (Len(R) + 1) /\ Len(S) = Len(R) + 1
        /\ \A i \in 1 .. Len(R) : S[i] = R[i]
        /\ S[Len(R) + 1] = <<c, v>>
    <3>1. <<c, v>> \in Channel \X Nat
      OBVIOUS
    <3> QED BY <2>3, <2>4, <2>6, <3>1
  <2>8. /\ S[Len(R) + 1][1] = c /\ S[Len(R) + 1][2] = v
    BY <2>7
  <2>9. /\ v \in 1 .. k
        /\ \A i \in 1 .. (v - 1) : \E j \in 1 .. (n - 1) : IsSent(p, j, "DATA", c) /\ sent[p][j].number = i
    <3>1. n \in DOMAIN sent[p] /\ IsSent(p, n, "DATA", c) /\ sent[p][n].number = v
      BY <1>2, <1>4
    <3>2. /\ sent[p][n].number \in 1 .. k
          /\ \A i \in 1 .. (sent[p][n].number - 1) :
               \E j \in 1 .. (n - 1) : IsSent(p, j, "DATA", c) /\ sent[p][j].number = i
      BY <1>1, <2>3, <3>1 DEF DataInv
    <3> QED BY <3>1, <3>2
  <2>10. \A i, j \in DOMAIN sent[p] :
           IsSent(p, i, "DATA", c) /\ IsSent(p, j, "DATA", c) /\ i < j => sent[p][i].number < sent[p][j].number
    BY <1>1, <2>3 DEF DataInv
  <2>11. \A j \in DOMAIN sent[p] : IsSent(p, j, "DATA", c) => sent[p][j].number \in Nat
    BY <1>1, <2>3 DEF DataInv
  <2>12. \A i \in DOMAIN R : R[i][2] < v
    <3>1. n \in DOMAIN sent[p] /\ IsSent(p, n, "DATA", c) /\ sent[p][n].number = v
      BY <1>2, <1>4
    <3>2. n > Len(delivered[e])
      BY <1>2, <2>3
    <3> QED BY <2>1, <3>1, <3>2
  <2>13. ASSUME NEW i \in DOMAIN S
         PROVE  /\ S[i][1] = c
                /\ S[i][2] <= k
                /\ i > 1 => S[i - 1][2] < S[i][2]
                /\ \A j \in DOMAIN sent[p] :
                     IsSent(p, j, "DATA", c) /\ j > n => S[i][2] < sent[p][j].number
    <3>1. CASE i \in DOMAIN R
      <4>1. S[i] = R[i] /\ (i > 1 => i - 1 \in 1 .. Len(R) /\ S[i - 1] = R[i - 1])
        BY <2>4, <2>7, <3>1
      <4>2. \A j \in DOMAIN sent[p] : j > n => j > Len(delivered[e])
        BY <1>2, <2>3, <2>4
      <4> QED BY <2>1, <3>1, <4>1, <4>2
    <3>2. CASE i = Len(R) + 1
      <4>1. i > 1 => S[i - 1][2] < v
        <5> SUFFICES ASSUME i > 1 PROVE S[i - 1][2] < v
          OBVIOUS
        <5>1. i - 1 \in 1 .. Len(R)
          BY <2>4, <3>2
        <5> QED BY <2>4, <2>7, <2>12, <5>1
      <4>2. \A j \in DOMAIN sent[p] : IsSent(p, j, "DATA", c) /\ j > n => v < sent[p][j].number
        BY <1>2, <1>4, <2>4, <2>10
      <4> QED BY <2>3, <2>8, <2>9, <3>2, <4>1, <4>2
    <3> QED BY <2>4, <2>7, <3>1, <3>2
  <2>14. ASSUME c \notin Negotiated, assoc[e] # "closed"
         PROVE  v = Len(R) + 1
    <3>1. \A j \in DOMAIN sent[p] : IsSent(p, j, "DATA", c) =>
            (j <= Len(delivered[e]) <=> sent[p][j].number <= Len(R))
      BY <1>2, <1>7, <2>1, <2>14
    <3>2. ~(v <= Len(R))
      BY <1>2, <1>4, <2>3, <3>1
    <3>3. ASSUME v > Len(R) + 1 PROVE FALSE
      <4>1. PICK j \in 1 .. (n - 1) : IsSent(p, j, "DATA", c) /\ sent[p][j].number = Len(R) + 1
        BY <2>4, <2>9, <3>3
      <4>2. j \in DOMAIN sent[p] /\ j <= Len(delivered[e])
        BY <1>2, <2>3, <4>1 DEF IsSent
      <4>3. Len(R) + 1 <= Len(R)
        BY <3>1, <4>1, <4>2
      <4> QED BY <2>4, <4>3
    <3> QED BY <2>4, <3>2, <3>3
  <2>15. ASSUME c \notin Negotiated, assoc[e] # "closed", NEW j \in DOMAIN sent[p], IsSent(p, j, "DATA", c)
         PROVE  j <= n <=> sent[p][j].number <= Len(R) + 1
    <3>1. sent[p][j].number \in Nat /\ j \in Nat /\ Len(R) \in Nat /\ n \in Nat
      BY <2>4, <2>11, <2>15
    <3>2. j <= Len(delivered[e]) <=> sent[p][j].number <= Len(R)
      BY <1>2, <1>7, <2>1, <2>15
    <3>3. CASE j < n
      BY <1>2, <2>3, <3>1, <3>2, <3>3
    <3>4. CASE j = n
      BY <1>4, <2>14, <2>15, <3>1, <3>4
    <3>5. CASE j > n
      <4>1. v < sent[p][j].number
        BY <1>2, <1>4, <2>10, <2>15, <3>5
      <4> QED BY <2>14, <2>15, <3>1, <3>5, <4>1
    <3> QED BY <3>1, <3>3, <3>4, <3>5
  <2>16. ASSUME c \notin Negotiated, assoc[e] # "closed", NEW i \in DOMAIN S PROVE S[i][2] = i
    BY <2>1, <2>4, <2>7, <2>8, <2>14, <2>16
  <2>17. Len(delivered'[e]) = n
    BY <1>2
  <2> QED BY <2>2, <2>7, <2>13, <2>15, <2>16, <2>17 DEF S
<1>8. ASSUME readyState[e][c] = "closed" \/ ~HasEntry(e, c), c \notin Negotiated
      PROVE  readyState[e][c] = "closed"
  <2>1. HasSent(Peer(e), "DATA", c)
    BY <1>2, <1>4 DEF HasSent
  <2> QED BY <1>2, <1>8, <2>1, DataHasEntry
<1> SUFFICES ASSUME NEW d \in End, NEW x \in Channel
             PROVE
        LET received == receivedOn'[d][x] IN
        /\ \A i \in DOMAIN received :
             /\ received[i][1] = x
             /\ received[i][2] <= sentOn'[Peer(d)][x]
             /\ i > 1 => received[i - 1][2] < received[i][2]
             /\ \A j \in DOMAIN sent'[Peer(d)] :
                  IsSent(Peer(d), j, "DATA", x)' /\ j > Len(delivered'[d]) =>
                      received[i][2] < sent'[Peer(d)][j].number
        /\ x \notin Negotiated /\ assoc'[d] # "closed" =>
             /\ \A i \in DOMAIN received : received[i][2] = i
             /\ readyState'[d][x] # "closed" /\ ~isClosed'[d] =>
                  \A j \in DOMAIN sent'[Peer(d)] : IsSent(Peer(d), j, "DATA", x)' =>
                      (j <= Len(delivered'[d]) <=> sent'[Peer(d)][j].number <= Len(received))
  BY DEF RoutedInv
<1>9. CASE d = e /\ x = c /\ readyState[e][c] # "closed" /\ HasEntry(e, c)
  BY <1>7, <1>9
<1>10. CASE ~(d = e /\ x = c /\ readyState[e][c] # "closed" /\ HasEntry(e, c))
  <2>1. receivedOn'[d][x] = receivedOn[d][x]
    BY <1>5, <1>10
  <2>2. x \notin Negotiated /\ assoc[d] # "closed" /\ readyState[d][x] # "closed" => ~(d = e /\ x = c)
    BY <1>8, <1>10
  <2> QED BY <1>6, <2>1, <2>2
<1> QED BY <1>9, <1>10

LEMMA ReceiveDataKeeps ==
    ASSUME StreamsApart, InductiveInv, Typed', StaysClosed, NEW e \in End, ReceiveData(e)
    PROVE  InductiveInv'
<1>1. /\ TypeOK /\ TypeOK' /\ Receive(e, "DATA")
      /\ UNCHANGED <<sent, dtls, pending, isClosed, nextStreamId, entries, wired, readyState, opened, sentOn>>
  BY DEF InductiveInv, Typed, ReceiveData, stack, manager, object
<1>2. RoutedInv'
  BY <1>1, ReceiveDataKeepsRouted
<1>3. \A d \in End : Advances(d, "DATA")
  BY <1>1, ReceiveEffect
<1> QED BY <1>1, <1>2, <1>3, TakingKeeps DEF StatesKept
\* A message that is missed out comes after a SHUTDOWN.
LEMMA SkipMessageKeeps ==
    ASSUME StreamsApart, InductiveInv, Typed', StaysClosed, NEW e \in End, SkipMessage(e)
    PROVE  InductiveInv'
<1>1. /\ TypeOK /\ TypeOK' /\ RoutedInv /\ assoc[e] = "closed"
      /\ UNCHANGED <<sent, assoc, dtls, pending, isClosed, nextStreamId, entries, wired, readyState, opened,
                     sentOn, receivedOn>>
  BY DEF InductiveInv, Typed, SkipMessage, stack, manager, object, history
<1>2. PICK t : Receive(e, t)
  BY DEF SkipMessage
<1>3. /\ \A d \in End : Advances(d, t) /\ (d # e => delivered'[d] = delivered[d])
      /\ Len(delivered'[e]) = Len(delivered[e]) + 1
  BY <1>1, <1>2, ReceiveEffect
<1>4. RoutedInv'
  <2> SUFFICES ASSUME NEW d \in End, NEW x \in Channel
               PROVE
          LET received == receivedOn'[d][x] IN
          /\ \A i \in DOMAIN received :
               /\ received[i][1] = x
               /\ received[i][2] <= sentOn'[Peer(d)][x]
               /\ i > 1 => received[i - 1][2] < received[i][2]
               /\ \A j \in DOMAIN sent'[Peer(d)] :
                    IsSent(Peer(d), j, "DATA", x)' /\ j > Len(delivered'[d]) =>
                        received[i][2] < sent'[Peer(d)][j].number
          /\ x \notin Negotiated /\ assoc'[d] # "closed" =>
               /\ \A i \in DOMAIN received : received[i][2] = i
               /\ readyState'[d][x] # "closed" /\ ~isClosed'[d] =>
                    \A j \in DOMAIN sent'[Peer(d)] : IsSent(Peer(d), j, "DATA", x)' =>
                        (j <= Len(delivered'[d]) <=> sent'[Peer(d)][j].number <= Len(received))
    BY DEF RoutedInv
  <2>1. \A j : IsSent(Peer(d), j, "DATA", x)' <=> IsSent(Peer(d), j, "DATA", x)
    BY <1>1 DEF IsSent
  <2>2. \A j \in DOMAIN sent[Peer(d)] : j > Len(delivered'[d]) => j > Len(delivered[d])
    <3>1. sent[Peer(d)] \in Seq(SctpMessage) /\ delivered[d] \in Seq(SctpMessage)
      BY <1>1, PeerProperties DEF TypeOK
    <3>2. /\ Len(delivered[d]) \in Nat /\ \A j \in DOMAIN sent[Peer(d)] : j \in Nat
          /\ Len(delivered'[d]) = Len(delivered[d]) \/ Len(delivered'[d]) = Len(delivered[d]) + 1
      BY <1>3, <3>1
    <3> QED BY <3>2
  <2>3. \A i \in DOMAIN receivedOn[d][x] :
               /\ receivedOn[d][x][i][1] = x
               /\ receivedOn[d][x][i][2] <= sentOn[Peer(d)][x]
               /\ i > 1 => receivedOn[d][x][i - 1][2] < receivedOn[d][x][i][2]
               /\ \A j \in DOMAIN sent[Peer(d)] :
                    IsSent(Peer(d), j, "DATA", x) /\ j > Len(delivered[d]) =>
                        receivedOn[d][x][i][2] < sent[Peer(d)][j].number
    BY <1>1 DEF RoutedInv
  <2>4. x \notin Negotiated /\ assoc[d] # "closed" =>
               /\ \A i \in DOMAIN receivedOn[d][x] : receivedOn[d][x][i][2] = i
               /\ readyState[d][x] # "closed" /\ ~isClosed[d] =>
                    \A j \in DOMAIN sent[Peer(d)] : IsSent(Peer(d), j, "DATA", x) =>
                        (j <= Len(delivered[d]) <=> sent[Peer(d)][j].number <= Len(receivedOn[d][x]))
    BY <1>1 DEF RoutedInv
  <2>5. assoc[d] # "closed" => delivered'[d] = delivered[d]
    BY <1>1, <1>3
  <2> QED BY <1>1, <2>1, <2>2, <2>3, <2>4, <2>5
<1>5. \A d \in End : Advances(d, t)
  BY <1>3
<1> QED BY <1>1, <1>4, <1>5, TakingKeeps DEF StatesKept
-----------------------------------------------------------------------------
(* The invariant holds at the start and is kept by every step.             *)

LEMMA AssocStaysClosed == TypeOK /\ [Next]_vars => StaysClosed
<1> SUFFICES ASSUME TypeOK, [Next]_vars PROVE StaysClosed
  OBVIOUS
<1>1. assoc \in [End -> AssocState]
  BY DEF TypeOK
<1>2. CASE assoc' = assoc
  BY <1>2 DEF StaysClosed
<1>3. ASSUME NEW e \in End, Establish(e) \/ ClosePeerConnection(e) \/ ShutdownArrives(e)
      PROVE  StaysClosed
  BY <1>1, <1>3 DEF Establish, ClosePeerConnection, ShutdownArrives, StaysClosed
<1>4. ASSUME NEW e \in End, Application(e), ~ClosePeerConnection(e)
      PROVE  assoc' = assoc
  BY <1>4 DEF Application, Create, Send, Close, stack
<1>5. ASSUME NEW e \in End, Handler(e), ~Establish(e)
      PROVE  assoc' = assoc
  BY <1>5 DEF Handler, OpenPending, EndLoop, ReceiveOpen, ReceiveAck, ReceiveData, stack
<1>6. ASSUME NEW e \in End, Immediate(e) \/ SkipMessage(e) \/ AlertArrives(e)
      PROVE  assoc' = assoc
  BY <1>6 DEF Immediate, FinishClose, SkipMessage, AlertArrives, stack
<1>7. UNCHANGED vars => assoc' = assoc
  BY DEF vars, stack
<1> QED BY <1>2, <1>3, <1>4, <1>5, <1>6, <1>7 DEF Next

LEMMA InitKeeps == ASSUME StreamsApart, Init PROVE InductiveInv
<1>1. Typed
  BY InitTyped
<1>2. /\ \A e \in End : /\ sent[e] = <<>> /\ delivered[e] = <<>> /\ pending[e] = <<>> /\ entries[e] = {}
                       /\ nextStreamId[e] = FirstStream(e)
      /\ \A e \in End, c \in Channel :
           /\ readyState[e][c] = "none" /\ wired[e][c] = NoId /\ sentOn[e][c] = 0
           /\ receivedOn[e][c] = <<>> /\ opened[e][c] = FALSE
  BY DEF Init, Sctp!Init, Sctp!End, End
<1>3. DOMAIN <<>> = {} /\ Len(<<>>) = 0
  OBVIOUS
<1>4. \A e \in End : \A t, c : ~HasSent(e, t, c) /\ ~HasEntry(e, c) /\ ~Queued(e, c) /\ \A i : ~IsSent(e, i, t, c)
  BY <1>2, <1>3 DEF HasSent, HasEntry, Queued, IsSent
<1>5. \A c \in Channel, s \in Nat : ~OnStream(c, s)
  BY <1>2, <1>4 DEF OnStream, HasEntry
<1>6. QueueInv
  BY <1>2, <1>3, <1>4 DEF QueueInv
<1>7. OpenInv
  BY <1>2, <1>3, <1>4, PeerProperties DEF OpenInv
<1>8. StreamInv
  <2>1. ASSUME NEW e \in End PROVE \E k \in 0 .. Cardinality(Numbered(e)) : nextStreamId[e] = FirstStream(e) + 2 * k
    <3>1. Numbered(e) = {}
      BY <1>2 DEF Numbered, Unopened, Unnumbered
    <3>2. Cardinality(Numbered(e)) = 0
      BY <3>1, FS_EmptySet
    <3>3. FirstStream(e) + 2 * 0 = FirstStream(e)
      BY DEF FirstStream
    <3> QED BY <1>2, <3>2, <3>3
  <2> QED BY <1>1, <1>5, <2>1 DEF StreamInv, Typed
<1>9. WiredBothWays
  BY <1>2 DEF WiredBothWays, At
<1>10. EntryInv /\ ClosedIsDropped /\ OpenAtBoth
  <2>1. EntryInv
    BY <1>2, <1>4 DEF EntryInv
  <2>2. ClosedIsDropped
    BY <1>2 DEF ClosedIsDropped
  <2>3. OpenAtBoth
    BY <1>2, ChannelAssumption DEF OpenAtBoth
  <2> QED BY <2>1, <2>2, <2>3
<1>11. AckInv
  BY <1>2, <1>3 DEF AckInv
<1>12. DataInv
  BY <1>2, <1>3, <1>4 DEF DataInv
<1>13. RoutedInv
  BY <1>2, <1>3, <1>4, PeerProperties DEF RoutedInv
<1> QED BY <1>1, <1>6, <1>7, <1>8, <1>9, <1>10, <1>11, <1>12, <1>13 DEF InductiveInv, Typed

LEMMA StepKeeps == ASSUME StreamsApart PROVE InductiveInv /\ [Next]_vars => InductiveInv'
<1> SUFFICES ASSUME InductiveInv, [Next]_vars PROVE InductiveInv'
  OBVIOUS
<1>1. Typed' /\ StaysClosed
  <2>1. Typed
    BY DEF InductiveInv, StreamInv, Typed
  <2> QED BY <2>1, TypedStep, AssocStaysClosed DEF Typed
<1>2. CASE UNCHANGED vars
  BY <1>1, <1>2, StutterKeeps
<1>3. ASSUME NEW e \in End, NEW c \in Channel, Create(e, c) PROVE InductiveInv'
  <2>1. CASE assoc[e] = "established"
    BY <1>1, <1>3, <2>1, CreateOpens, OpensKeeps
  <2>2. CASE assoc[e] # "established"
    BY <1>1, <1>3, <2>2, QueuingKeeps
  <2> QED BY <2>1, <2>2
<1>4. ASSUME NEW e \in End, NEW c \in Channel, Send(e, c) \/ Close(e, c) \/ FinishClose(e, c)
      PROVE  InductiveInv'
  BY <1>1, <1>4, SendKeeps, CloseKeeps, FinishCloseKeeps
<1>5. ASSUME NEW e \in End, ClosePeerConnection(e) PROVE InductiveInv'
  BY <1>1, <1>5, ClosePeerConnectionKeeps
<1>6. ASSUME NEW e \in End, OpenPending(e) PROVE InductiveInv'
  BY <1>1, <1>6, PendingOpens, OpensKeeps
<1>7. ASSUME NEW e \in End, Handler(e) PROVE InductiveInv'
  BY <1>1, <1>6, <1>7, StackKeeps, ReceiveOpenKeeps, ReceiveAckKeeps, ReceiveDataKeeps DEF Handler
<1>8. ASSUME NEW e \in End, SkipMessage(e) \/ ShutdownArrives(e) \/ AlertArrives(e) PROVE InductiveInv'
  BY <1>1, <1>8, SkipMessageKeeps, StackKeeps
<1> QED BY <1>2, <1>3, <1>4, <1>5, <1>7, <1>8 DEF Next, Application, Immediate

LEMMA Inductive == ASSUME StreamsApart PROVE Spec => []InductiveInv
BY InitKeeps, StepKeeps, PTL DEF Spec

\* At every moment a channel sends on a stream exactly if it is the one that
\* receives from it: setting an entry of the map never strands the listeners of
\* the channel that was there (datachannel-manager.ts openChannel, #handleOpen).
THEOREM WiresBothWays == ASSUME StreamsApart PROVE Spec => []WiredBothWays
<1>1. InductiveInv => WiredBothWays
  BY DEF InductiveInv
<1> QED BY <1>1, Inductive, PTL

\* Whatever the order of opening, closing and sending, a channel is handed only
\* what was sent on it at the other end, in order; if it was opened with an OPEN,
\* without a gap as long as no SHUTDOWN has closed the association of the end that
\* is handed it: although data comes on a stream and names no channel.
THEOREM RoutesMessages == ASSUME StreamsApart PROVE Spec => []MessagesRouted
<1>1. InductiveInv => MessagesRouted
  BY DEF InductiveInv, RoutedInv, MessagesRouted
<1> QED BY <1>1, Inductive, PTL

\* An ACK opens a channel only when it answers that channel's OPEN: its creator
\* sees it open only after the other end has made it.
THEOREM OpensAtBoth == ASSUME StreamsApart PROVE Spec => []OpenAtBoth
<1>1. InductiveInv => OpenAtBoth
  BY DEF InductiveInv
<1> QED BY <1>1, Inductive, PTL

\* When the second half of close() has run, a channel that was open has neither
\* an entry nor a listener left in the manager.
THEOREM DropsClosed == ASSUME StreamsApart PROVE Spec => []ClosedIsDropped
<1>1. InductiveInv => ClosedIsDropped
  BY DEF InductiveInv
<1> QED BY <1>1, Inductive, PTL
=============================================================================
