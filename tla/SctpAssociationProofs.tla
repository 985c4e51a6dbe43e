------------------------ MODULE SctpAssociationProofs ------------------------
(* What the TSN arithmetic of association.ts does for every TSN; then type   *)
(* correctness and in-order delivery of SctpAssociation, for every value of  *)
(* its constants.                                                            *)
EXTENDS SctpInvariants, SequenceTheorems, TLAPS

\* The comparison snLt answers "not before" whatever it is asked, because a
\* signed 32-bit number is never above 2^31: no TSN counts as already delivered.
THEOREM SnLtNever == ASSUME NEW a \in TSN, NEW b \in TSN PROVE ~snLt(a, b)
  BY TSNModAssumption DEF snLt, ToInt32, TSN

\* snLte is therefore equality: a cumulative acknowledgement covers one TSN.
THEOREM SnLteIsEquality ==
    ASSUME NEW a \in TSN, NEW b \in TSN PROVE snLte(a, b) <=> a = b
  BY SnLtNever DEF snLte

LEMMA PlusInTSN ==
    ASSUME NEW t \in TSN, NEW n \in Nat, n < TSNMod PROVE Plus(t, n) \in TSN
  BY TSNModAssumption DEF Plus, TSN

LEMMA PlusPlus ==
    ASSUME NEW t \in TSN, NEW n \in Nat, n < TSNMod, NEW m \in Nat, n + m < TSNMod
    PROVE  Plus(Plus(t, n), m) = Plus(t, n + m)
  BY TSNModAssumption DEF Plus, TSN

LEMMA PlusInjective ==
    ASSUME NEW t \in TSN, NEW n \in Nat, n < TSNMod, NEW m \in Nat, m < TSNMod,
           Plus(t, n) = Plus(t, m)
    PROVE  n = m
  BY TSNModAssumption DEF Plus, TSN

LEMMA PredPlus ==
    ASSUME NEW t \in TSN PROVE Pred(t) \in TSN /\ Plus(Pred(t), 1) = t
  BY TSNModAssumption DEF Plus, Pred, TSN

LEMMA OffsetInTSN ==
    ASSUME NEW t \in TSN, NEW c \in TSN PROVE Offset(t, c) \in TSN
  BY TSNModAssumption DEF Offset, TSN
-----------------------------------------------------------------------------

LEMMA ElementProperties ==
    ASSUME NEW S, NEW s \in Seq(S)
    PROVE  /\ DOMAIN s = 1 .. Len(s)
           /\ Len(s) \in Nat
           /\ \A i \in 1 .. Len(s) : s[i] \in S
  BY LenProperties, ElementOfSeq

LEMMA PeerProperties ==
    ASSUME NEW e \in End
    PROVE  Peer(e) \in End /\ Peer(e) # e /\ Peer(Peer(e)) = e
  BY AssociationAssumption DEF End, Peer

\* An element taken out of a sequence leaves a shorter one of the same elements.
LEMMA RemoveAtProperties ==
    ASSUME NEW S, NEW s \in Seq(S), NEW i \in DOMAIN s
    PROVE  /\ RemoveAt(s, i) \in Seq(S)
           /\ Len(RemoveAt(s, i)) = Len(s) - 1
           /\ \A j \in DOMAIN RemoveAt(s, i) :
                \E k \in DOMAIN s : RemoveAt(s, i)[j] = s[k]
           /\ \A k \in DOMAIN s : k # i =>
                \E j \in DOMAIN RemoveAt(s, i) : RemoveAt(s, i)[j] = s[k]
<1> DEFINE front == SubSeq(s, 1, i - 1)
           back == SubSeq(s, i + 1, Len(s))
<1>1. i \in 1 .. Len(s) /\ Len(s) \in Nat
  BY LenProperties
<1>2. /\ front \in Seq(S) /\ Len(front) = i - 1
      /\ \A j \in 1 .. (i - 1) : front[j] = s[j]
  BY <1>1, SubSeqProperties
<1>3. /\ back \in Seq(S) /\ Len(back) = Len(s) - i
      /\ \A j \in 1 .. (Len(s) - i) : back[j] = s[i + j]
  BY <1>1, SubSeqProperties
<1>4. RemoveAt(s, i) = front \o back
  BY DEF RemoveAt
<1> HIDE DEF front, back
<1>5. /\ front \o back \in Seq(S)
      /\ Len(front \o back) = Len(front) + Len(back)
      /\ \A j \in 1 .. (Len(front) + Len(back)) :
           (front \o back)[j] = IF j <= Len(front) THEN front[j] ELSE back[j - Len(front)]
  BY <1>2, <1>3, ConcatProperties, Zenon
<1>6. Len(front) + Len(back) = Len(s) - 1
  BY <1>1, <1>2, <1>3
<1>7. DOMAIN (front \o back) = 1 .. (Len(s) - 1)
  BY <1>5, <1>6, LenProperties
<1>8. ASSUME NEW j \in 1 .. (Len(s) - 1)
      PROVE  \E k \in DOMAIN s : (front \o back)[j] = s[k]
  <2>1. CASE j <= i - 1
    <3>1. (front \o back)[j] = front[j] /\ front[j] = s[j] /\ j \in DOMAIN s
      BY <2>1, <1>1, <1>2, <1>5, <1>6
    <3> QED BY <3>1
  <2>2. CASE ~(j <= i - 1)
    <3>1. (front \o back)[j] = back[j - (i - 1)]
      BY <2>2, <1>1, <1>2, <1>5, <1>6, SMTT(30)
    <3>2. j - (i - 1) \in 1 .. (Len(s) - i) /\ i + (j - (i - 1)) = j + 1
      BY <2>2, <1>1
    <3>3. back[j - (i - 1)] = s[j + 1] /\ j + 1 \in DOMAIN s
      BY <3>2, <1>1, <1>3, SMTT(30)
    <3> QED BY <3>1, <3>3
  <2> QED BY <2>1, <2>2
<1>9. ASSUME NEW k \in 1 .. Len(s), k # i
      PROVE  \E j \in 1 .. (Len(s) - 1) : (front \o back)[j] = s[k]
  <2>1. CASE k < i
    <3>1. k \in 1 .. (Len(s) - 1) /\ (front \o back)[k] = front[k] /\ front[k] = s[k]
      BY <2>1, <1>1, <1>2, <1>5, <1>6
    <3> QED BY <3>1
  <2>2. CASE ~(k < i)
    <3>1. k - 1 \in 1 .. (Len(s) - 1) /\ ~(k - 1 <= i - 1) /\ (k - 1) - (i - 1) = k - i
          /\ k - i \in 1 .. (Len(s) - i) /\ i + (k - i) = k
      BY <2>2, <1>1, <1>9
    <3>2. (front \o back)[k - 1] = back[k - i] /\ back[k - i] = s[k]
      BY <3>1, <1>2, <1>3, <1>5, <1>6
    <3> QED BY <3>1, <3>2
  <2> QED BY <2>1, <2>2
<1>10. DOMAIN s = 1 .. Len(s)
  BY LenProperties
<1> QED BY <1>4, <1>5, <1>6, <1>7, <1>8, <1>9, <1>10
-----------------------------------------------------------------------------
(* Type correctness.                                                       *)

\* What one message adds to the log is chunks, with consecutive TSNs.
LEMMA FragmentedType ==
    ASSUME TypeOK, NEW e \in End, NEW stream \in Stream, NEW unordered \in Unordered,
           NEW n \in 1 .. MaxFragments, Len(log[e]) + n <= MaxChunks[e]
    PROVE  /\ Fragmented(e, stream, unordered, n) \in Seq(Chunk)
           /\ Len(Fragmented(e, stream, unordered, n)) = n
           /\ n < TSNMod
<1>1. n \in Nat /\ n < TSNMod /\ unordered \in BOOLEAN
  BY AssociationAssumption, TSNModAssumption, LenProperties DEF TypeOK
<1>2. ASSUME NEW j \in 1 .. n PROVE Plus(localTSN[e], j - 1) \in TSN
  BY <1>1, PlusInTSN, TSNModAssumption DEF TypeOK
<1>3. <<Len(sent[e]) + 1, 1>> \in Part /\ \A j \in 1 .. n : <<Len(sent[e]) + 1, j>> \in Part
  BY LenProperties DEF TypeOK, Part
<1>4. (IF unordered THEN 0 ELSE nextSSN[e][stream]) \in 0 .. (SSNMod - 1)
  BY AssociationAssumption DEF TypeOK
<1>5. \A j \in 1 .. n : Fragmented(e, stream, unordered, n)[j] \in Chunk
  BY <1>1, <1>2, <1>3, <1>4 DEF Fragmented, Chunk
<1> QED BY <1>1, <1>5 DEF Fragmented

LEMMA WholeMessageType ==
    ASSUME NEW i \in Nat \ {0}, NEW stream \in Stream, NEW n \in Nat
    PROVE  WholeMessage(i, stream, n) \in Message
BY DEF WholeMessage, Message, Part

LEMMA ExpectedInTSN ==
    ASSUME TypeOK, NEW e \in End
    PROVE  CumulativeTSN(e) \in TSN /\ Expected(e) \in TSN
<1>1. peerCumulativeTSN[e] = NoTSN \/ peerCumulativeTSN[e] \in TSN
  BY DEF TypeOK
<1>2. 0 \in TSN /\ 1 < TSNMod
  BY TSNModAssumption DEF TSN
<1> QED BY <1>1, <1>2, PlusInTSN DEF Expected, CumulativeTSN

\* A SACK that is sent is a packet.
LEMMA SackType ==
    ASSUME NEW cum \in TSN, NEW chunks \in Seq(Chunk)
    PROVE  Sack(cum, chunks) \in SUBSET Packet
<1> DEFINE tsns == [i \in DOMAIN chunks |-> chunks[i].tsn]
<1>1. \A i \in DOMAIN chunks : chunks[i].tsn \in TSN
  <2>1. ASSUME NEW i \in DOMAIN chunks PROVE chunks[i] \in Chunk
    BY ElementProperties
  <2> QED BY <2>1 DEF Chunk
<1>2. DOMAIN chunks = 1 .. Len(chunks) /\ Len(chunks) \in Nat /\ Len(tsns) = Len(chunks)
  BY LenProperties
<1>3. ASSUME NEW b \in GapBlocks(cum, chunks)
      PROVE  b[2] <= MaxOffset /\ \E x \in TSN, y \in TSN : b = <<x, y>>
  <2>1. /\ b[2] <= MaxOffset
        /\ \E r \in Runs(tsns) : b = <<Offset(tsns[r[1]], cum), Offset(tsns[r[2]], cum)>>
    BY DEF GapBlocks
  <2>2. PICK r \in Runs(tsns) : b = <<Offset(tsns[r[1]], cum), Offset(tsns[r[2]], cum)>>
    BY <2>1
  <2>3. r \in (1 .. Len(tsns)) \X (1 .. Len(tsns))
    BY DEF Runs
  <2>4. tsns[r[1]] \in TSN /\ tsns[r[2]] \in TSN
    BY <1>1, <1>2, <2>3
  <2> QED BY <2>1, <2>2, <2>4, OffsetInTSN
<1>4. CASE ~SackThrows(cum, chunks)
  <2>1. ASSUME NEW b \in GapBlocks(cum, chunks)
        PROVE  b \in (0 .. MaxOffset) \X (0 .. MaxOffset)
    <3>1. b[1] <= MaxOffset
      <4>1. PICK x \in TSN, y \in TSN : b = <<x, y>>
        BY <1>3
      <4> QED BY <1>4, <4>1, AssociationAssumption DEF SackThrows, TSN
    <3> QED BY <1>3, <3>1, AssociationAssumption DEF TSN
  <2>2. GapBlocks(cum, chunks) \in SUBSET ((0 .. MaxOffset) \X (0 .. MaxOffset))
    BY <2>1
  <2> QED BY <1>4, <2>2 DEF Sack, Packet
<1>5. CASE SackThrows(cum, chunks)
  BY <1>5 DEF Sack
<1> QED BY <1>4, <1>5

LEMMA SetupPacketType ==
    /\ \A t \in TSN : /\ [type |-> "INIT", initialTSN |-> t] \in Packet
                     /\ [type |-> "INIT_ACK", initialTSN |-> t] \in Packet
    /\ CookieEcho \in Packet
    /\ [type |-> "COOKIE_ACK"] \in Packet
    /\ [type |-> "SHUTDOWN"] \in Packet
    /\ [type |-> "SHUTDOWN_ACK"] \in Packet
  BY DEF Packet, CookieEcho

LEMMA EmitType ==
    ASSUME TypeOK, NEW e \in End, NEW out \in SUBSET Packet, Emit(e, out)
    PROVE  net' \in [End -> SUBSET Packet]
  BY PeerProperties DEF TypeOK, Emit

LEMMA ExchangeType ==
    ASSUME TypeOK, NEW e \in End, NEW p, NEW out \in SUBSET Packet, Exchange(e, p, out)
    PROVE  net' \in [End -> SUBSET Packet] /\ p \in Packet
  BY PeerProperties DEF TypeOK, Exchange

LEMMA PacketFields ==
    ASSUME NEW p \in Packet
    PROVE  /\ p.type \in {"INIT", "INIT_ACK"} => p.initialTSN \in TSN
           /\ p.type = "DATA" => p.chunk \in Chunk
  BY DEF Packet

LEMMA ReleaseType ==
    ASSUME TypeOK, NEW e \in End, Release(e), net' \in [End -> SUBSET Packet]
    PROVE  TypeOK'
<1>1. <<>> \in Seq(Chunk) /\ Len(<<>>) = 0
  BY EmptySeq
<1>2. [k \in Key |-> <<>>] \in [Key -> Seq(Part)]
  BY EmptySeq
<1>3. receivedOutOfOrder' \in [End -> Seq(Chunk)]
  BY <1>1 DEF TypeOK, Release
<1>4. \A f \in End : Len(receivedOutOfOrder'[f]) <= MAX_OOO_CHUNKS
  BY <1>1, AssociationAssumption DEF TypeOK, Release
<1>5. fragments' \in [End -> [Key -> Seq(Part)]]
  BY <1>2 DEF TypeOK, Release
<1> QED BY <1>3, <1>4, <1>5 DEF TypeOK, Release, transmit, State

LEMMA ConsumeType ==
    ASSUME TypeOK, NEW e \in End, NEW c \in Chunk, Consume(e, c)
    PROVE  /\ fragments' \in [End -> [Key -> Seq(Part)]]
           /\ delivered' \in [End -> Seq(Message)]
           /\ handed' \in [End -> Nat]
<1> DEFINE parts == IF c.beginning THEN <<c.part>>
                    ELSE Append(fragments[e][KeyOf(c)], c.part)
<1>1. KeyOf(c) \in Key /\ c.part \in Part /\ c.stream \in Stream
  BY DEF KeyOf, Key, Chunk
<1>2. fragments[e][KeyOf(c)] \in Seq(Part)
  BY <1>1 DEF TypeOK
<1>3. <<c.part>> \in Seq(Part) /\ Append(fragments[e][KeyOf(c)], c.part) \in Seq(Part)
  BY <1>1, <1>2
<1>4. parts \in Seq(Part) /\ <<>> \in Seq(Part)
  BY <1>3, EmptySeq
<1> HIDE DEF parts
<1>5. /\ fragments' = IF (~c.beginning /\ fragments[e][KeyOf(c)] = <<>>)
                           \/ (c.beginning /\ c.ending)
                        THEN fragments
                        ELSE [fragments EXCEPT ![e][KeyOf(c)] =
                                IF c.ending THEN <<>> ELSE parts]
      /\ delivered' \in {delivered, [delivered EXCEPT ![e] =
                              Append(@, [stream |-> c.stream, parts |-> parts])]}
      /\ handed' = [handed EXCEPT ![e] =
                      IF Len(delivered'[e]) > @ THEN Len(delivered'[e]) ELSE @]
  BY DEF Consume, parts
<1>6. fragments' \in [End -> [Key -> Seq(Part)]]
  BY <1>1, <1>4, <1>5 DEF TypeOK
<1>7. [stream |-> c.stream, parts |-> parts] \in Message
  BY <1>1, <1>4 DEF Message
<1>8. delivered' \in [End -> Seq(Message)]
  <2>1. Append(delivered[e], [stream |-> c.stream, parts |-> parts]) \in Seq(Message)
    BY <1>7 DEF TypeOK
  <2> QED BY <1>5, <2>1 DEF TypeOK
<1>9. Len(delivered'[e]) \in Nat
  BY <1>8
<1>10. handed' \in [End -> Nat]
  BY <1>5, <1>9 DEF TypeOK
<1> QED BY <1>6, <1>8, <1>10

LEMMA InitTypeOK == Init => TypeOK
<1>1. <<>> \in Seq(Chunk) /\ <<>> \in Seq(Part) /\ <<>> \in Seq(Message) /\ Len(<<>>) = 0
  BY EmptySeq
<1>2. 0 \in 0 .. MaxAttempts /\ 0 \in 0 .. (SSNMod - 1) /\ 0 <= MAX_OOO_CHUNKS
  BY AssociationAssumption
<1> QED BY <1>1, <1>2, AssociationAssumption DEF Init, TypeOK, State

LEMMA StartType == ASSUME TypeOK, NEW e \in End, Start(e) PROVE TypeOK'
<1>1. InitPacket(e) \in Packet
  BY SetupPacketType DEF TypeOK, InitPacket
<1>2. net' \in [End -> SUBSET Packet]
  BY <1>1, EmitType DEF Start
<1>3. 0 \in 0 .. MaxAttempts
  BY AssociationAssumption
<1> QED BY <1>2, <1>3 DEF TypeOK, Start, ArmInitRetransmit, transmit, receive, State

LEMMA RetransmitInitType == ASSUME TypeOK, NEW e \in End, RetransmitInit(e) PROVE TypeOK'
<1>1. InitPacket(e) \in Packet /\ CookieEcho \in Packet
  BY SetupPacketType DEF TypeOK, InitPacket
<1>2. net' \in [End -> SUBSET Packet]
  BY <1>1, EmitType DEF RetransmitInit
<1>3. attempts[e] + 1 \in 0 .. MaxAttempts
  BY AssociationAssumption DEF TypeOK, RetransmitInit
<1> QED BY <1>2, <1>3 DEF TypeOK, RetransmitInit, transmit, receive

LEMMA SetupTimedOutType == ASSUME TypeOK, NEW e \in End, SetupTimedOut(e) PROVE TypeOK'
BY ReleaseType DEF TypeOK, SetupTimedOut

LEMMA HandleInitType ==
    ASSUME TypeOK, NEW e \in End, NEW p \in net[e], HandleInit(e, p) PROVE TypeOK'
<1>1. net' \in [End -> SUBSET Packet] /\ p \in Packet
  BY SetupPacketType, ExchangeType DEF TypeOK, HandleInit
<1>2. Pred(p.initialTSN) \in TSN
  BY <1>1, PacketFields, PredPlus DEF HandleInit
<1>3. <<>> \in Seq(Message)
  BY EmptySeq
<1> QED BY <1>1, <1>2, <1>3 DEF TypeOK, LearnPeerTSN, HandleInit, setup, transmit

LEMMA HandleInitAckType ==
    ASSUME TypeOK, NEW e \in End, NEW p \in net[e], HandleInitAck(e, p) PROVE TypeOK'
<1>1. net' \in [End -> SUBSET Packet] /\ p \in Packet
  BY SetupPacketType, ExchangeType DEF TypeOK, HandleInitAck
<1>2. Pred(p.initialTSN) \in TSN
  BY <1>1, PacketFields, PredPlus DEF HandleInitAck
<1>3. 0 \in 0 .. MaxAttempts
  BY AssociationAssumption
<1> QED BY <1>1, <1>2, <1>3 DEF TypeOK, LearnPeerTSN, HandleInitAck, ArmInitRetransmit, transmit, State

LEMMA HandleCookieEchoType ==
    ASSUME TypeOK, NEW e \in End, NEW p \in net[e], HandleCookieEcho(e, p) PROVE TypeOK'
<1>1. net' \in [End -> SUBSET Packet]
  BY SetupPacketType, ExchangeType DEF HandleCookieEcho
<1> QED BY <1>1 DEF TypeOK, HandleCookieEcho, transmit, receive, State

LEMMA HandleCookieAckType ==
    ASSUME TypeOK, NEW e \in End, NEW p \in net[e], HandleCookieAck(e, p) PROVE TypeOK'
<1>1. net' \in [End -> SUBSET Packet]
  BY ExchangeType DEF HandleCookieAck
<1> QED BY <1>1 DEF TypeOK, HandleCookieAck, transmit, receive, State

LEMMA IgnoreType ==
    ASSUME TypeOK, NEW e \in End, NEW p \in net[e], Ignore(e, p) PROVE TypeOK'
<1>1. net' \in [End -> SUBSET Packet]
  BY ExchangeType DEF Ignore
<1> QED BY <1>1 DEF TypeOK, Ignore, setup, transmit, receive

LEMMA SendDataType ==
    ASSUME TypeOK, NEW e \in End, NEW stream \in Stream, NEW unordered \in Unordered,
           NEW n \in 1 .. MaxFragments, SendData(e, stream, unordered, n)
    PROVE  TypeOK'
<1> DEFINE chunks == Fragmented(e, stream, unordered, n)
<1>1. chunks \in Seq(Chunk) /\ Len(chunks) = n /\ n < TSNMod /\ n \in Nat
  BY FragmentedType, AssociationAssumption DEF SendData
<1>2. \A j \in 1 .. n : chunks[j] \in Chunk /\ chunks[j].tsn \in TSN
  <2>1. \A j \in 1 .. n : chunks[j] \in Chunk
    BY <1>1, ElementProperties
  <2> QED BY <2>1 DEF Chunk
<1>3. /\ Emit(e, {[type |-> "DATA", chunk |-> chunks[j]] : j \in 1 .. n})
      /\ nextSSN' = IF unordered THEN nextSSN
                    ELSE [nextSSN EXCEPT ![e][stream] = IF @ + 1 = SSNMod THEN 0 ELSE @ + 1]
      /\ localTSN' = [localTSN EXCEPT ![e] = Plus(@, n)]
      /\ sentQueue' = [sentQueue EXCEPT ![e] = @ \cup {chunks[j].tsn : j \in 1 .. n}]
      /\ log' = [log EXCEPT ![e] = @ \o chunks]
      /\ sent' = [sent EXCEPT ![e] = Append(@, WholeMessage(Len(@) + 1, stream, n))]
      /\ UNCHANGED <<setup, receive, inHandler, dtlsFailed, released>>
  BY DEF SendData
<1> HIDE DEF chunks
<1>4. net' \in [End -> SUBSET Packet]
  <2>1. {[type |-> "DATA", chunk |-> chunks[j]] : j \in 1 .. n} \in SUBSET Packet
    BY <1>2 DEF Packet
  <2> QED BY <1>3, <2>1, EmitType
<1>5. nextSSN' \in [End -> [Stream -> 0 .. (SSNMod - 1)]]
  <2> DEFINE next == IF nextSSN[e][stream] + 1 = SSNMod THEN 0 ELSE nextSSN[e][stream] + 1
  <2>1. next \in 0 .. (SSNMod - 1)
    BY AssociationAssumption, SMTT(30) DEF TypeOK
  <2>2. nextSSN' \in {nextSSN, [nextSSN EXCEPT ![e][stream] = next]}
    BY <1>3
  <2> HIDE DEF next
  <2>3. [nextSSN[e] EXCEPT ![stream] = next] \in [Stream -> 0 .. (SSNMod - 1)]
    BY <2>1 DEF TypeOK
  <2> QED BY <2>2, <2>3 DEF TypeOK
<1>6. localTSN' \in [End -> TSN]
  BY <1>1, <1>3, PlusInTSN DEF TypeOK
<1>7. sentQueue' \in [End -> SUBSET TSN]
  BY <1>2, <1>3 DEF TypeOK
<1>8. log' \in [End -> Seq(Chunk)]
  <2>1. log[e] \o chunks \in Seq(Chunk)
    BY <1>1 DEF TypeOK
  <2> QED BY <1>3, <2>1 DEF TypeOK
<1>9. sent' \in [End -> Seq(Message)]
  <2>1. WholeMessage(Len(sent[e]) + 1, stream, n) \in Message
    BY <1>1, WholeMessageType, ElementProperties DEF TypeOK
  <2>2. Append(sent[e], WholeMessage(Len(sent[e]) + 1, stream, n)) \in Seq(Message)
    BY <2>1 DEF TypeOK
  <2> QED BY <1>3, <2>2 DEF TypeOK
<1> QED BY <1>3, <1>4, <1>5, <1>6, <1>7, <1>8, <1>9 DEF TypeOK, setup, receive

LEMMA BufferDataType ==
    ASSUME TypeOK, NEW e \in End, NEW p \in net[e], BufferData(e, p) PROVE TypeOK'
<1>1. PICK held \in {receivedOutOfOrder[e], Append(receivedOutOfOrder[e], p.chunk)} :
        /\ held # receivedOutOfOrder[e] => Len(receivedOutOfOrder[e]) < MAX_OOO_CHUNKS
        /\ receivedOutOfOrder' = [receivedOutOfOrder EXCEPT ![e] = held]
        /\ Exchange(e, p, Sack(CumulativeTSN(e), held))
        /\ FailIfThrown(e, CumulativeTSN(e), held)
  <2>1. CASE Refused(e, p.chunk.tsn)
    BY <2>1 DEF BufferData
  <2>2. CASE ~Refused(e, p.chunk.tsn)
    <3>1. Len(receivedOutOfOrder[e]) < MAX_OOO_CHUNKS
      BY <2>2, AssociationAssumption, ElementProperties DEF Refused, TypeOK
    <3> QED BY <2>2, <3>1 DEF BufferData
  <2> QED BY <2>1, <2>2
<1>2. p \in Packet /\ p.type = "DATA"
  BY DEF TypeOK, BufferData
<1>3. p.chunk \in Chunk
  BY <1>2, PacketFields
<1>4. receivedOutOfOrder[e] \in Seq(Chunk) /\ Len(receivedOutOfOrder[e]) <= MAX_OOO_CHUNKS
  BY DEF TypeOK
<1>5. held \in Seq(Chunk) /\ Len(held) <= MAX_OOO_CHUNKS
  <2>1. CASE held = receivedOutOfOrder[e]
    BY <1>4, <2>1
  <2>2. CASE held = Append(receivedOutOfOrder[e], p.chunk) /\ held # receivedOutOfOrder[e]
    <3>1. held \in Seq(Chunk) /\ Len(held) = Len(receivedOutOfOrder[e]) + 1
      BY <1>3, <1>4, <2>2
    <3> QED BY <1>1, <2>2, <3>1, <1>4, ElementProperties, AssociationAssumption
  <2> QED BY <1>1, <2>1, <2>2
<1>6. /\ receivedOutOfOrder' \in [End -> Seq(Chunk)]
      /\ \A f \in End : Len(receivedOutOfOrder'[f]) <= MAX_OOO_CHUNKS
  BY <1>1, <1>5 DEF TypeOK
<1>7. net' \in [End -> SUBSET Packet]
  BY <1>1, <1>5, SackType, ExpectedInTSN, ExchangeType
<1>8. dtlsFailed' \in [End -> BOOLEAN]
  BY <1>1 DEF FailIfThrown, SackThrows, TypeOK
<1> QED BY <1>6, <1>7, <1>8 DEF TypeOK, BufferData, setup, transmit

LEMMA ReceiveDataType ==
    ASSUME TypeOK, NEW e \in End, NEW p \in net[e], ReceiveData(e, p) PROVE TypeOK'
<1>1. net' \in [End -> SUBSET Packet] /\ p \in Packet
  BY ExchangeType DEF ReceiveData
<1>2. p.chunk \in Chunk
  BY <1>1, PacketFields DEF ReceiveData
<1>3. p.chunk.tsn \in TSN
  BY <1>2 DEF Chunk
<1>4. /\ fragments' \in [End -> [Key -> Seq(Part)]]
      /\ delivered' \in [End -> Seq(Message)]
      /\ handed' \in [End -> Nat]
  BY <1>2, ConsumeType DEF ReceiveData
<1> QED BY <1>1, <1>3, <1>4 DEF TypeOK, ReceiveData, setup, transmit

LEMMA DrainType == ASSUME TypeOK, NEW e \in End, Drain(e) PROVE TypeOK'
<1>1. PICK i \in DOMAIN receivedOutOfOrder[e] :
        /\ receivedOutOfOrder[e][i].tsn = Expected(e)
        /\ receivedOutOfOrder' = [receivedOutOfOrder EXCEPT ![e] = RemoveAt(@, i)]
        /\ Consume(e, receivedOutOfOrder[e][i])
  BY DEF Drain
<1>2. receivedOutOfOrder[e] \in Seq(Chunk) /\ Len(receivedOutOfOrder[e]) <= MAX_OOO_CHUNKS
  BY DEF TypeOK
<1>3. receivedOutOfOrder[e][i] \in Chunk /\ Len(receivedOutOfOrder[e]) \in Nat
  BY <1>2, ElementProperties
<1>4. /\ RemoveAt(receivedOutOfOrder[e], i) \in Seq(Chunk)
      /\ Len(RemoveAt(receivedOutOfOrder[e], i)) <= MAX_OOO_CHUNKS
  BY <1>2, <1>3, RemoveAtProperties, AssociationAssumption
<1>5. /\ receivedOutOfOrder' \in [End -> Seq(Chunk)]
      /\ \A f \in End : Len(receivedOutOfOrder'[f]) <= MAX_OOO_CHUNKS
  BY <1>1, <1>4 DEF TypeOK
<1>6. /\ fragments' \in [End -> [Key -> Seq(Part)]]
      /\ delivered' \in [End -> Seq(Message)]
      /\ handed' \in [End -> Nat]
  BY <1>1, <1>3, ConsumeType
<1>7. peerCumulativeTSN' \in [End -> TSN \cup {NoTSN}]
  BY ExpectedInTSN DEF Drain, TypeOK
<1> QED BY <1>5, <1>6, <1>7 DEF TypeOK, Drain, setup, transmit

LEMMA AcknowledgeType == ASSUME TypeOK, NEW e \in End, Acknowledge(e) PROVE TypeOK'
<1>1. net' \in [End -> SUBSET Packet]
  <2>1. receivedOutOfOrder[e] \in Seq(Chunk)
    BY DEF TypeOK
  <2> QED BY <2>1, SackType, ExpectedInTSN, EmitType DEF Acknowledge
<1>2. dtlsFailed' \in [End -> BOOLEAN]
  BY DEF Acknowledge, FailIfThrown, SackThrows, TypeOK
<1> QED BY <1>1, <1>2 DEF TypeOK, Acknowledge, setup, transmit, receive

LEMMA HandleSackType ==
    ASSUME TypeOK, NEW e \in End, NEW p \in net[e], HandleSack(e, p) PROVE TypeOK'
<1>1. net' \in [End -> SUBSET Packet]
  BY ExchangeType DEF HandleSack
<1> QED BY <1>1 DEF TypeOK, HandleSack, setup, transmit, receive

LEMMA ShutdownType == ASSUME TypeOK, NEW e \in End, Shutdown(e) PROVE TypeOK'
<1>1. net' \in [End -> SUBSET Packet]
  <2>1. (IF state[e] = "ESTABLISHED" THEN {[type |-> "SHUTDOWN"]} ELSE {}) \in SUBSET Packet
    BY SetupPacketType
  <2> QED BY <2>1, EmitType DEF Shutdown
<1> QED BY <1>1, ReleaseType DEF Shutdown

LEMMA HandleShutdownType ==
    ASSUME TypeOK, NEW e \in End, NEW p \in net[e], HandleShutdown(e, p) PROVE TypeOK'
<1>1. net' \in [End -> SUBSET Packet]
  BY SetupPacketType, ExchangeType DEF HandleShutdown
<1>2. CASE state[e] = "CLOSED"
  BY <1>1, <1>2 DEF TypeOK, HandleShutdown, setup, transmit, receive
<1>3. CASE state[e] # "CLOSED"
  BY <1>1, <1>3, ReleaseType DEF HandleShutdown
<1> QED BY <1>2, <1>3

LEMMA LoseType == ASSUME TypeOK, NEW e \in End, NEW p \in net[e], Lose(e, p) PROVE TypeOK'
BY DEF TypeOK, Lose, setup, transmit, receive

LEMMA NextTypeOK == TypeOK /\ [Next]_vars => TypeOK'
<1> SUFFICES ASSUME TypeOK, [Next]_vars PROVE TypeOK'
  OBVIOUS
<1>1. CASE UNCHANGED vars
  BY <1>1 DEF vars, setup, transmit, receive, TypeOK
<1>2. ASSUME NEW e \in End, Application(e) PROVE TypeOK'
  BY <1>2, StartType, SendDataType, ShutdownType DEF Application
<1>3. ASSUME NEW e \in End, Timer(e) PROVE TypeOK'
  BY <1>3, RetransmitInitType, SetupTimedOutType DEF Timer
<1>4. ASSUME NEW e \in End, Handler(e) PROVE TypeOK'
  BY <1>4, DrainType, AcknowledgeType DEF Handler
<1>5. ASSUME NEW e \in End, NEW p \in net[e], HandlePacket(e, p) PROVE TypeOK'
  BY <1>5, HandleInitType, HandleInitAckType, HandleCookieEchoType, HandleCookieAckType,
     BufferDataType, ReceiveDataType, HandleSackType, HandleShutdownType
     DEF HandlePacket
<1>6. ASSUME NEW e \in End, Network(e) PROVE TypeOK'
  BY <1>5, <1>6, IgnoreType, LoseType DEF Network
<1> QED BY <1>1, <1>2, <1>3, <1>4, <1>6 DEF Next

\* Every variable keeps its type, whatever the network and the applications do.
THEOREM TypeCorrect == Spec => []TypeOK
  BY InitTypeOK, NextTypeOK, PTL DEF Spec
-----------------------------------------------------------------------------
(* What a step can leave alone.                                            *)

\* A step that neither sends nor takes in data keeps the log.
LEMMA LogFrame ==
    ASSUME NEW e \in End, LogInv(e),
           log'[e] = log[e], sent'[e] = sent[e], localTSN'[e] = localTSN[e]
    PROVE  LogInv(e)'
<1>1. ASSUME NEW i \in 1 .. Len(log'[e]) PROVE Logged(e, i)'
  <2>1. Logged(e, i)
    BY DEF LogInv
  <2> QED BY <2>1 DEF Logged
<1>2. \A m \in 1 .. Len(sent'[e]) :
        sent'[e][m] = WholeMessage(m, sent'[e][m].stream, Len(sent'[e][m].parts))
  BY DEF LogInv
<1>3. Len(log'[e]) <= MaxChunks[e] /\ localTSN'[e] = Plus(InitialTSN[e], Len(log'[e]))
  BY DEF LogInv
<1>4. IF log'[e] = <<>> THEN sent'[e] = <<>>
      ELSE log'[e][Len(log'[e])].ending /\ log'[e][Len(log'[e])].part[1] = Len(sent'[e])
  BY DEF LogInv
<1> QED BY <1>1, <1>2, <1>3, <1>4 DEF LogInv

LEMMA GenuineFrame ==
    ASSUME NEW e \in End, GenuineInv(e), UNCHANGED log,
           \A p \in net'[e] : p.type = "DATA" => p \in net[e],
           \A j \in DOMAIN receivedOutOfOrder'[e] :
             \/ \E i \in DOMAIN receivedOutOfOrder[e] :
                  receivedOutOfOrder'[e][j] = receivedOutOfOrder[e][i]
             \/ \E p \in net[e] : p.type = "DATA" /\ receivedOutOfOrder'[e][j] = p.chunk
    PROVE  GenuineInv(e)'
  BY DEF GenuineInv

LEMMA DeliveryFrame ==
    ASSUME NEW e \in End, DeliveryInv(e),
           UNCHANGED <<delivered, sent, log, peerCumulativeTSN, fragments, released>>
    PROVE  DeliveryInv(e)'
  BY DEF DeliveryInv, Progress, Expected, CumulativeTSN

LEMMA SetupFrame ==
    ASSUME SetupInv, UNCHANGED <<state, released, log>>,
           \A e \in End : peerCumulativeTSN[e] # NoTSN => peerCumulativeTSN'[e] # NoTSN,
           \A e \in End : \A p \in net'[e] : p.type \in SetupType => p \in net[e]
    PROVE  SetupInv'
<1>1. BothKnown => BothKnown'
  BY DEF BothKnown
<1>2. \A e \in End : \A type \in SetupType : InFlight(e, type)' => InFlight(e, type)
  BY DEF InFlight
<1>3. Beginning' <=> Beginning
  BY DEF Beginning
<1>4. Client \in End /\ Server \in End
  BY DEF End
<1> QED BY <1>1, <1>2, <1>3, <1>4 DEF SetupInv, SetupType

\* What is in flight after a step was in flight before it or is its output.
LEMMA EmitNet ==
    ASSUME TypeOK, NEW e \in End, NEW out, Emit(e, out)
    PROVE  /\ net'[e] = net[e]
           /\ \A q \in net'[Peer(e)] : q \in net[Peer(e)] \/ q \in out
  BY PeerProperties DEF TypeOK, Emit

LEMMA ExchangeNet ==
    ASSUME TypeOK, NEW e \in End, NEW p, NEW out, Exchange(e, p, out)
    PROVE  /\ p \in net[e]
           /\ \A q \in net'[e] : q \in net[e]
           /\ \A q \in net'[Peer(e)] : q \in net[Peer(e)] \/ q \in out
  BY PeerProperties DEF TypeOK, Exchange

LEMMA TwoEnds == ASSUME NEW e \in End, NEW f \in End PROVE f = e \/ f = Peer(e)
  BY DEF End, Peer

LEMMA SackOnly ==
    ASSUME NEW cum, NEW chunks, NEW q \in Sack(cum, chunks) PROVE q.type = "SACK"
  BY DEF Sack
-----------------------------------------------------------------------------
(* The stages of the setup.                                                *)

LEMMA EndFacts ==
    /\ Client \in End /\ Server \in End /\ Client # Server
    /\ Peer(Client) = Server /\ Peer(Server) = Client
    /\ \A e \in End : e = Client \/ e = Server
    /\ \A t \in TSN : t # NoTSN
  BY AssociationAssumption, TSNModAssumption DEF End, Peer, NoTSN, TSN

\* An end that has sent nothing announces the TSN it has drawn.
LEMMA FirstTSN ==
    ASSUME NEW e \in End, LogInv(e), log[e] = <<>> PROVE localTSN[e] = InitialTSN[e]
<1>1. localTSN[e] = Plus(InitialTSN[e], 0) /\ InitialTSN[e] \in TSN
  BY AssociationAssumption DEF LogInv
<1> QED BY <1>1, TSNModAssumption DEF Plus, TSN

LEMMA StartSetup ==
    ASSUME InductiveInv, NEW e \in End, Start(e) PROVE SetupInv'
<1>1. /\ e = Client /\ state[Client] = "CLOSED" /\ ~released[Client]
      /\ net'[Client] = net[Client]
      /\ \A q \in net'[Server] : q \in net[Server] \/ q = InitPacket(Client)
      /\ state'[Client] = "COOKIE_WAIT" /\ state'[Server] = state[Server]
  <2>1. e = Client /\ Emit(e, {InitPacket(e)}) /\ TypeOK
    BY DEF Start, InductiveInv
  <2>2. /\ net'[e] = net[e]
        /\ \A q \in net'[Peer(e)] : q \in net[Peer(e)] \/ q \in {InitPacket(e)}
    BY <2>1, EmitNet
  <2>3. /\ state[Client] = "CLOSED" /\ ~released[Client]
        /\ state'[Client] = "COOKIE_WAIT" /\ state'[Server] = state[Server]
    BY <2>1, EndFacts DEF Start, TypeOK
  <2> QED BY <2>1, <2>2, <2>3, EndFacts
<1>2. log[Client] = <<>> /\ InitPacket(Client).initialTSN = InitialTSN[Client]
  <2>1. log[Client] = <<>> /\ LogInv(Client)
    BY <1>1, EndFacts DEF InductiveInv, SetupInv
  <2>2. localTSN[Client] = InitialTSN[Client]
    BY <2>1, EndFacts, FirstTSN
  <2> QED BY <2>1, <2>2 DEF InitPacket
<1>3. UNCHANGED <<log, peerCumulativeTSN, released>>
  BY DEF Start, transmit, receive
<1>4. Beginning /\ Beginning'
  BY <1>1 DEF Beginning
<1>5. /\ ~InFlight(Client, "INIT")' /\ ~InFlight(Client, "COOKIE_ECHO")'
      /\ ~InFlight(Server, "INIT_ACK")' /\ ~InFlight(Server, "COOKIE_ACK")'
      /\ ~InFlight(Server, "COOKIE_ECHO")'
      /\ InFlight(Client, "INIT_ACK")' => InFlight(Client, "INIT_ACK")
  BY <1>1, <1>4 DEF InFlight, InductiveInv, SetupInv, InitPacket
<1> QED BY <1>1, <1>2, <1>3, <1>4, <1>5, EndFacts DEF InductiveInv, SetupInv, BothKnown

LEMMA RetransmitInitSetup ==
    ASSUME InductiveInv, NEW e \in End, RetransmitInit(e) PROVE SetupInv'
<1>1. /\ e = Client /\ state[Client] \in {"COOKIE_WAIT", "COOKIE_ECHOED"}
      /\ UNCHANGED <<state, log, peerCumulativeTSN, released>>
  BY EndFacts DEF RetransmitInit, TimerFires, InductiveInv, SetupInv, transmit, receive
<1>2. CASE state[Client] = "COOKIE_WAIT"
  <2>1. /\ net'[Client] = net[Client]
        /\ \A q \in net'[Server] : q \in net[Server] \/ q = InitPacket(Client)
    BY <1>1, <1>2, EmitNet, EndFacts DEF RetransmitInit, InductiveInv
  <2>2. log[Client] = <<>> /\ InitPacket(Client).initialTSN = InitialTSN[Client]
    <3>1. log[Client] = <<>> /\ LogInv(Client)
      BY <1>1, <1>2, EndFacts DEF InductiveInv, SetupInv
    <3>2. localTSN[Client] = InitialTSN[Client]
      BY <3>1, EndFacts, FirstTSN
    <3> QED BY <3>1, <3>2 DEF InitPacket
  <2>3. \A type \in SetupType \ {"INIT"} : \A f \in End :
           InFlight(f, type)' => InFlight(f, type)
    BY <2>1, EndFacts DEF InFlight, InitPacket
  <2>4. ~InFlight(Client, "INIT")'
    BY <2>1 DEF InFlight, InductiveInv, SetupInv
  <2> QED BY <1>1, <2>1, <2>2, <2>3, <2>4, EndFacts
         DEF InductiveInv, SetupInv, BothKnown, Beginning, SetupType, InitPacket
<1>3. CASE state[Client] = "COOKIE_ECHOED"
  <2>1. /\ net'[Client] = net[Client]
        /\ \A q \in net'[Server] : q \in net[Server] \/ q = CookieEcho
    BY <1>1, <1>3, EmitNet, EndFacts DEF RetransmitInit, InductiveInv
  <2>2. BothKnown' /\ ~Beginning'
    BY <1>1, <1>3 DEF InductiveInv, SetupInv, BothKnown, Beginning
  <2>3. \A type \in SetupType \ {"COOKIE_ECHO"} : \A f \in End :
           InFlight(f, type)' => InFlight(f, type)
    BY <2>1, EndFacts DEF InFlight, CookieEcho
  <2>4. ~InFlight(Client, "COOKIE_ECHO")'
    BY <2>1 DEF InFlight, InductiveInv, SetupInv
  <2> QED BY <1>1, <2>1, <2>2, <2>3, <2>4, EndFacts
         DEF InductiveInv, SetupInv, BothKnown, SetupType, CookieEcho
<1> QED BY <1>1, <1>2, <1>3

LEMMA HandleInitSetup ==
    ASSUME InductiveInv, TypeOK', NEW e \in End, NEW p \in net[e], HandleInit(e, p)
    PROVE  SetupInv'
<1> DEFINE answer == [type |-> "INIT_ACK", initialTSN |-> localTSN[Server]]
<1>1. e = Server
  BY EndFacts DEF HandleInit, InductiveInv, SetupInv, InFlight
<1>2. /\ \A q \in net'[Server] : q \in net[Server]
      /\ \A q \in net'[Client] : q \in net[Client] \/ q = answer
  BY <1>1, ExchangeNet, EndFacts DEF HandleInit, InductiveInv
<1>3. UNCHANGED <<state, log, released>>
  BY DEF HandleInit, setup, transmit
<1>4. /\ peerCumulativeTSN'[Server] # NoTSN
      /\ peerCumulativeTSN'[Client] = peerCumulativeTSN[Client]
  <2>1. p \in Packet /\ p.type = "INIT"
    BY <1>1 DEF InductiveInv, TypeOK, HandleInit
  <2>2. Pred(p.initialTSN) \in TSN
    BY <2>1, PacketFields, PredPlus
  <2> QED BY <1>1, <2>2, EndFacts DEF LearnPeerTSN, HandleInit, InductiveInv, TypeOK
<1>5. Beginning => localTSN[Server] = InitialTSN[Server]
  BY EndFacts, FirstTSN DEF InductiveInv, SetupInv
<1>6. \A type \in SetupType \ {"INIT_ACK"} : \A f \in End :
         InFlight(f, type)' => InFlight(f, type)
  BY <1>2, EndFacts DEF InFlight
<1>7. ~InFlight(Server, "INIT_ACK")'
  BY <1>2 DEF InFlight, InductiveInv, SetupInv
<1>8. BothKnown => BothKnown'
  BY <1>4, EndFacts DEF BothKnown
<1> QED BY <1>2, <1>3, <1>4, <1>5, <1>6, <1>7, <1>8, EndFacts
       DEF InductiveInv, SetupInv, Beginning, SetupType

LEMMA HandleInitAckSetup ==
    ASSUME InductiveInv, NEW e \in End, NEW p \in net[e], HandleInitAck(e, p)
    PROVE  SetupInv'
<1>1. e = Client /\ InFlight(Client, "INIT_ACK") /\ state[Client] = "COOKIE_WAIT"
  BY EndFacts DEF HandleInitAck, InductiveInv, SetupInv, InFlight
<1>2. /\ \A q \in net'[Client] : q \in net[Client]
      /\ \A q \in net'[Server] : q \in net[Server] \/ q = CookieEcho
  BY <1>1, ExchangeNet, EndFacts DEF HandleInitAck, InductiveInv
<1>3. /\ UNCHANGED <<log, released>>
      /\ state'[Client] = "COOKIE_ECHOED" /\ state'[Server] = state[Server]
  BY <1>1, EndFacts DEF HandleInitAck, transmit, InductiveInv, TypeOK
<1>4. BothKnown'
  <2>1. p \in Packet /\ p.type = "INIT_ACK"
    BY <1>1, EndFacts DEF InductiveInv, TypeOK, HandleInitAck
  <2>2. Pred(p.initialTSN) \in TSN
    BY <2>1, PacketFields, PredPlus
  <2>3. peerCumulativeTSN[Server] # NoTSN
    BY <1>1 DEF InductiveInv, SetupInv
  <2> QED BY <1>1, <2>2, <2>3, EndFacts DEF LearnPeerTSN, HandleInitAck, InductiveInv, TypeOK, BothKnown
<1>5. ~Beginning' /\ Beginning
  BY <1>1, <1>3 DEF Beginning
<1>6. \A type \in SetupType \ {"COOKIE_ECHO"} : \A f \in End :
         InFlight(f, type)' => InFlight(f, type)
  BY <1>2, EndFacts DEF InFlight, CookieEcho
<1>7. ~InFlight(Client, "COOKIE_ECHO")'
  BY <1>2 DEF InFlight, InductiveInv, SetupInv
<1>8. ~released[Client] /\ log[Client] = <<>>
  BY <1>1, EndFacts DEF InductiveInv, SetupInv
<1> QED BY <1>2, <1>3, <1>4, <1>5, <1>6, <1>7, <1>8, EndFacts
       DEF InductiveInv, SetupInv, BothKnown, SetupType, CookieEcho

LEMMA HandleCookieEchoSetup ==
    ASSUME InductiveInv, NEW e \in End, NEW p \in net[e], HandleCookieEcho(e, p)
    PROVE  SetupInv'
<1> DEFINE answer == [type |-> "COOKIE_ACK"]
<1>1. e = Server /\ InFlight(Server, "COOKIE_ECHO")
  BY EndFacts DEF HandleCookieEcho, InductiveInv, SetupInv, InFlight
<1>2. BothKnown /\ ~Beginning
  BY <1>1 DEF InductiveInv, SetupInv
<1>3. /\ \A q \in net'[Server] : q \in net[Server]
      /\ \A q \in net'[Client] : q \in net[Client] \/ q = answer
  BY <1>1, ExchangeNet, EndFacts DEF HandleCookieEcho, InductiveInv
<1>4. /\ UNCHANGED <<log, peerCumulativeTSN, released>>
      /\ state'[Server] = "ESTABLISHED" /\ state'[Client] = state[Client]
  BY <1>1, EndFacts DEF HandleCookieEcho, transmit, receive, InductiveInv, TypeOK
<1>5. BothKnown' /\ ~Beginning'
  BY <1>2, <1>4 DEF BothKnown, Beginning
<1>6. \A type \in SetupType \ {"COOKIE_ACK"} : \A f \in End :
         InFlight(f, type)' => InFlight(f, type)
  BY <1>3, EndFacts DEF InFlight
<1>7. ~InFlight(Server, "COOKIE_ACK")'
  BY <1>3 DEF InFlight, InductiveInv, SetupInv
<1> QED BY <1>3, <1>4, <1>5, <1>6, <1>7, EndFacts DEF InductiveInv, SetupInv, SetupType

LEMMA HandleCookieAckSetup ==
    ASSUME InductiveInv, NEW e \in End, NEW p \in net[e], HandleCookieAck(e, p)
    PROVE  SetupInv'
<1>1. e = Client /\ state[Client] = "COOKIE_ECHOED"
  BY EndFacts DEF HandleCookieAck, InductiveInv, SetupInv, InFlight
<1>2. BothKnown /\ ~Beginning /\ ~released[Client]
  BY <1>1 DEF InductiveInv, SetupInv, Beginning
<1>3. \A f \in End : \A q \in net'[f] : q \in net[f]
  BY ExchangeNet, TwoEnds DEF HandleCookieAck, InductiveInv
<1>4. /\ UNCHANGED <<log, peerCumulativeTSN, released>>
      /\ state'[Client] = "ESTABLISHED" /\ state'[Server] = state[Server]
  BY <1>1, EndFacts DEF HandleCookieAck, transmit, receive, InductiveInv, TypeOK
<1>5. BothKnown' /\ ~Beginning'
  BY <1>2, <1>4 DEF BothKnown, Beginning
<1>6. \A type \in SetupType : \A f \in End : InFlight(f, type)' => InFlight(f, type)
  BY <1>3 DEF InFlight
<1> QED BY <1>2, <1>3, <1>4, <1>5, <1>6, EndFacts DEF InductiveInv, SetupInv, SetupType

LEMMA ReleaseSetup ==
    ASSUME InductiveInv, NEW e \in End, Release(e), state[e] # "CLOSED",
           \A f \in End : \A p \in net'[f] : p.type \in SetupType => p \in net[f]
    PROVE  SetupInv'
<1>1. /\ UNCHANGED <<log, peerCumulativeTSN>>
      /\ state'[e] = "CLOSED" /\ released'[e]
      /\ \A f \in End : f # e => state'[f] = state[f] /\ released'[f] = released[f]
  BY DEF Release, transmit, InductiveInv, TypeOK
<1>2. \A type \in SetupType : \A f \in End : InFlight(f, type)' => InFlight(f, type)
  BY DEF InFlight
<1>3. BothKnown' <=> BothKnown
  BY <1>1 DEF BothKnown
<1>4. CASE e = Client
  <2>1. ~Beginning'
    BY <1>1, <1>4 DEF Beginning
  <2> QED BY <1>1, <1>2, <1>3, <1>4, <2>1, EndFacts DEF InductiveInv, SetupInv, SetupType
<1>5. CASE e = Server
  <2>1. ~Beginning /\ ~Beginning'
    BY <1>1, <1>5, EndFacts DEF Beginning, InductiveInv, SetupInv
  <2> QED BY <1>1, <1>2, <1>3, <1>5, <2>1, EndFacts DEF InductiveInv, SetupInv, SetupType
<1> QED BY <1>4, <1>5, EndFacts

LEMMA SendDataSetup ==
    ASSUME InductiveInv, NEW e \in End, NEW stream \in Stream, NEW unordered \in Unordered,
           NEW n \in 1 .. MaxFragments, SendData(e, stream, unordered, n)
    PROVE  SetupInv'
<1>1. /\ state[e] = "ESTABLISHED"
      /\ UNCHANGED <<state, released, peerCumulativeTSN>>
      /\ \A f \in End : f # e => log'[f] = log[f]
  BY DEF SendData, setup, receive, InductiveInv, TypeOK
<1>2. \A f \in End : \A p \in net'[f] : p.type \in SetupType => p \in net[f]
  <2>1. Emit(e, {[type |-> "DATA", chunk |-> Fragmented(e, stream, unordered, n)[j]] :
                     j \in 1 .. n})
    BY DEF SendData
  <2> QED BY <2>1, EmitNet, TwoEnds DEF InductiveInv, SetupType
<1>3. \A type \in SetupType : \A f \in End : InFlight(f, type)' => InFlight(f, type)
  BY <1>2 DEF InFlight
<1>4. BothKnown /\ BothKnown' /\ (Beginning' <=> Beginning)
  BY <1>1 DEF InductiveInv, SetupInv, BothKnown, Beginning
<1> QED BY <1>1, <1>2, <1>3, <1>4, EndFacts DEF InductiveInv, SetupInv, SetupType

\* What the steps that carry no setup packet put into flight.
LEMMA PacketTraffic ==
    ASSUME TypeOK, NEW e \in End, NEW p \in net[e],
           BufferData(e, p) \/ ReceiveData(e, p) \/ HandleSack(e, p)
             \/ HandleShutdown(e, p) \/ Ignore(e, p) \/ Lose(e, p)
    PROVE  \A f \in End : \A q \in net'[f] :
             q.type \in SetupType \cup {"DATA"} => q \in net[f]
<1>1. CASE BufferData(e, p)
  <2>1. PICK held : Exchange(e, p, Sack(CumulativeTSN(e), held))
    BY <1>1 DEF BufferData
  <2> QED BY <2>1, ExchangeNet, TwoEnds, SackOnly DEF SetupType
<1>2. CASE ReceiveData(e, p)
  BY <1>2, ExchangeNet, TwoEnds DEF ReceiveData
<1>3. CASE HandleSack(e, p)
  BY <1>3, ExchangeNet, TwoEnds DEF HandleSack
<1>4. CASE HandleShutdown(e, p)
  BY <1>4, ExchangeNet, TwoEnds DEF HandleShutdown, SetupType
<1>5. CASE Ignore(e, p)
  BY <1>5, ExchangeNet, TwoEnds DEF Ignore
<1>6. CASE Lose(e, p)
  BY <1>6 DEF Lose, TypeOK
<1> QED BY <1>1, <1>2, <1>3, <1>4, <1>5, <1>6

LEMMA HandlerTraffic ==
    ASSUME TypeOK, NEW e \in End,
           Drain(e) \/ Acknowledge(e) \/ Shutdown(e) \/ SetupTimedOut(e)
    PROVE  \A f \in End : \A q \in net'[f] :
             q.type \in SetupType \cup {"DATA"} => q \in net[f]
<1>1. CASE Drain(e) \/ SetupTimedOut(e)
  BY <1>1 DEF Drain, SetupTimedOut
<1>2. CASE Acknowledge(e)
  BY <1>2, EmitNet, TwoEnds, SackOnly DEF Acknowledge, SetupType
<1>3. CASE Shutdown(e)
  BY <1>3, EmitNet, TwoEnds DEF Shutdown, SetupType
<1> QED BY <1>1, <1>2, <1>3

LEMMA DataSetup ==
    ASSUME InductiveInv, NEW e \in End, NEW p \in net[e],
           BufferData(e, p) \/ ReceiveData(e, p) \/ HandleSack(e, p)
             \/ Ignore(e, p) \/ Lose(e, p)
    PROVE  SetupInv'
<1>1. UNCHANGED <<state, released, log>>
  BY DEF BufferData, ReceiveData, HandleSack, Ignore, Lose, setup, transmit
<1>2. \A f \in End : peerCumulativeTSN[f] # NoTSN => peerCumulativeTSN'[f] # NoTSN
  <2>1. CASE ReceiveData(e, p)
    <3>1. p \in Packet /\ p.type = "DATA"
      BY <2>1 DEF ReceiveData, InductiveInv, TypeOK
    <3>2. p.chunk.tsn \in TSN
      BY <3>1, PacketFields DEF Chunk
    <3> QED BY <2>1, <3>2, EndFacts DEF ReceiveData, InductiveInv, TypeOK
  <2>2. CASE ~ReceiveData(e, p)
    BY <2>2 DEF BufferData, HandleSack, Ignore, Lose, receive
  <2> QED BY <2>1, <2>2
<1>3. \A f \in End : \A q \in net'[f] : q.type \in SetupType => q \in net[f]
  BY PacketTraffic DEF InductiveInv
<1> QED BY <1>1, <1>2, <1>3, SetupFrame DEF InductiveInv

LEMMA HandlerSetup ==
    ASSUME InductiveInv, NEW e \in End, Drain(e) \/ Acknowledge(e) PROVE SetupInv'
<1>1. UNCHANGED <<state, released, log>>
  BY DEF Drain, Acknowledge, setup, transmit
<1>2. \A f \in End : peerCumulativeTSN[f] # NoTSN => peerCumulativeTSN'[f] # NoTSN
  <2>1. Expected(e) # NoTSN
    BY ExpectedInTSN, EndFacts DEF InductiveInv
  <2> QED BY <2>1 DEF Drain, Acknowledge, receive, InductiveInv, TypeOK
<1>3. \A f \in End : \A q \in net'[f] : q.type \in SetupType => q \in net[f]
  BY HandlerTraffic DEF InductiveInv
<1> QED BY <1>1, <1>2, <1>3, SetupFrame DEF InductiveInv

LEMMA CloseSetup ==
    ASSUME InductiveInv, NEW e \in End,
           \/ SetupTimedOut(e) \/ Shutdown(e)
           \/ \E p \in net[e] : HandleShutdown(e, p)
    PROVE  SetupInv'
<1>1. \A f \in End : \A q \in net'[f] : q.type \in SetupType => q \in net[f]
  BY PacketTraffic, HandlerTraffic DEF InductiveInv
<1>2. CASE Release(e) /\ state[e] # "CLOSED"
  BY <1>1, <1>2, ReleaseSetup
<1>3. CASE ~(Release(e) /\ state[e] # "CLOSED")
  <2>1. UNCHANGED <<setup, transmit, receive, released>>
    BY <1>3 DEF SetupTimedOut, TimerFires, Shutdown, HandleShutdown
  <2> QED BY <1>1, <2>1, SetupFrame DEF InductiveInv, setup, transmit, receive
<1> QED BY <1>2, <1>3
=============================================================================
