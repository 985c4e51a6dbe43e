------------------------- MODULE SctpDeliveryProofs -------------------------
(* In-order delivery of SctpAssociation, for every value of its constants:   *)
(* the invariant of SctpInvariants is inductive.                             *)
EXTENDS SctpAssociationProofs

(* The log of chunks sent.                                                 *)

\* What a sequence holds after another one has been appended to it.
LEMMA ConcatElements ==
    ASSUME NEW S, NEW s \in Seq(S), NEW t \in Seq(S)
    PROVE  /\ s \o t \in Seq(S) /\ Len(s \o t) = Len(s) + Len(t)
           /\ \A i \in 1 .. Len(s) : (s \o t)[i] = s[i]
           /\ \A j \in 1 .. Len(t) : (s \o t)[Len(s) + j] = t[j]
<1>1. Len(s) \in Nat /\ Len(t) \in Nat
  BY LenProperties
<1>2. /\ s \o t \in Seq(S) /\ Len(s \o t) = Len(s) + Len(t)
      /\ \A i \in 1 .. (Len(s) + Len(t)) :
           (s \o t)[i] = IF i <= Len(s) THEN s[i] ELSE t[i - Len(s)]
  BY ConcatProperties
<1>3. ASSUME NEW i \in 1 .. Len(s) PROVE (s \o t)[i] = s[i]
  BY <1>1, <1>2
<1>4. ASSUME NEW j \in 1 .. Len(t) PROVE (s \o t)[Len(s) + j] = t[j]
  <2>1. Len(s) + j \in 1 .. (Len(s) + Len(t)) /\ ~(Len(s) + j <= Len(s))
        /\ (Len(s) + j) - Len(s) = j
    BY <1>1
  <2> QED BY <1>2, <2>1
<1> QED BY <1>2, <1>3, <1>4

\* A prefix and the element that comes next make a longer prefix.
LEMMA PrefixGrows ==
    ASSUME NEW d \in Seq(Message), NEW s \in Seq(Message), NEW m \in 1 .. Len(s),
           Len(d) = m - 1, \A j \in 1 .. Len(d) : d[j] = s[j]
    PROVE  /\ Len(Append(d, s[m])) = m
           /\ \A j \in 1 .. m : j <= Len(s) /\ Append(d, s[m])[j] = s[j]
<1>1. Len(s) \in Nat /\ s[m] \in Message
  BY LenProperties, ElementOfSeq
<1>2. /\ Len(Append(d, s[m])) = Len(d) + 1 /\ Append(d, s[m])[Len(d) + 1] = s[m]
      /\ \A j \in 1 .. Len(d) : Append(d, s[m])[j] = d[j]
  BY <1>1, AppendProperties
<1>3. ASSUME NEW j \in 1 .. m PROVE j <= Len(s) /\ (j \in 1 .. Len(d) \/ j = Len(d) + 1)
  BY <1>1
<1> QED BY <1>1, <1>2, <1>3

\* The chunks of one more message carry the log on.
LEMMA SendDataLog ==
    ASSUME InductiveInv, NEW e \in End, NEW stream \in Stream,
           NEW unordered \in Unordered, NEW n \in 1 .. MaxFragments,
           SendData(e, stream, unordered, n)
    PROVE  LogInv(e)'
<1>0. PICK L, M : L = Len(log[e]) /\ M = Len(sent[e])
  OBVIOUS
<1> DEFINE chunks == Fragmented(e, stream, unordered, n)
           message == WholeMessage(M + 1, stream, n)
<1>1. /\ L + n <= MaxChunks[e]
      /\ localTSN'[e] = Plus(localTSN[e], n)
      /\ log'[e] = log[e] \o chunks
      /\ sent'[e] = Append(sent[e], message)
  BY <1>0 DEF SendData, InductiveInv, TypeOK
<1>2. log[e] \in Seq(Chunk) /\ sent[e] \in Seq(Message)
  BY DEF InductiveInv, TypeOK
<1>3. n \in Nat /\ n > 0 /\ L \in Nat /\ M \in Nat
  BY <1>0, <1>2, AssociationAssumption, LenProperties
<1>4. L + n < TSNMod /\ L < TSNMod /\ TSNMod \in Nat /\ InitialTSN[e] \in TSN
  BY <1>1, <1>3, AssociationAssumption, TSNModAssumption
<1>5. chunks \in Seq(Chunk) /\ Len(chunks) = n
  BY <1>0, <1>1, FragmentedType DEF InductiveInv
<1>6. \A j \in 1 .. n :
        /\ chunks[j].tsn = Plus(localTSN[e], j - 1)
        /\ chunks[j].part = <<M + 1, j>>
        /\ chunks[j].stream = stream /\ chunks[j].unordered = unordered
        /\ chunks[j].beginning = (j = 1) /\ chunks[j].ending = (j = n)
  BY <1>0 DEF Fragmented
<1>7. /\ message \in Message /\ message.stream = stream /\ Len(message.parts) = n
      /\ message = WholeMessage(M + 1, message.stream, Len(message.parts))
  <2>1. message \in Message
    BY <1>3, WholeMessageType
  <2> QED BY <1>3, <2>1 DEF WholeMessage
<1>8. /\ localTSN[e] = Plus(InitialTSN[e], L)
      /\ \A m \in 1 .. M :
           sent[e][m] = WholeMessage(m, sent[e][m].stream, Len(sent[e][m].parts))
      /\ \A i \in 1 .. L : Logged(e, i)
      /\ L = 0 => M = 0
      /\ L > 0 => log[e][L].ending /\ log[e][L].part[1] = M
  <2>1. log[e] = <<>> <=> L = 0
    BY <1>0, <1>2, EmptySeq
  <2>2. sent[e] = <<>> <=> M = 0
    BY <1>0, <1>2, EmptySeq
  <2>3. LogInv(e)
    BY DEF InductiveInv
  <2>4. L > 0 <=> log[e] # <<>>
    BY <1>3, <2>1
  <2> QED BY <1>0, <2>1, <2>2, <2>3, <2>4 DEF LogInv
<1>9. /\ Len(log'[e]) = L + n
      /\ \A i \in 1 .. L : log'[e][i] = log[e][i]
      /\ \A j \in 1 .. n : log'[e][L + j] = chunks[j]
  <2>1. Len(log[e]) = L /\ Len(chunks) = n
    BY <1>0, <1>5
  <2>2. /\ Len(log[e] \o chunks) = Len(log[e]) + Len(chunks)
        /\ \A i \in 1 .. Len(log[e]) : (log[e] \o chunks)[i] = log[e][i]
        /\ \A j \in 1 .. Len(chunks) : (log[e] \o chunks)[Len(log[e]) + j] = chunks[j]
    <3>1. log[e] \in Seq(Chunk) /\ chunks \in Seq(Chunk)
      BY <1>2, <1>5
    <3> HIDE DEF chunks
    <3> QED BY <3>1, ConcatElements
  <2> HIDE DEF chunks, message
  <2> QED BY <1>1, <2>1, <2>2
<1>10. /\ Len(sent'[e]) = M + 1
       /\ \A m \in 1 .. M : sent'[e][m] = sent[e][m]
       /\ sent'[e][M + 1] = message
  BY <1>0, <1>1, <1>2, <1>3, <1>7
<1> HIDE DEF chunks, message
<1>11. ASSUME NEW m \in Nat, m <= n
       PROVE  Plus(localTSN[e], m) = Plus(InitialTSN[e], L + m)
  <2>1. L + m < TSNMod
    BY <1>3, <1>4, <1>11
  <2> QED BY <1>3, <1>4, <1>8, <2>1, PlusPlus
<1>12. ASSUME NEW m \in 1 .. (M + 1)
       PROVE  sent'[e][m] = WholeMessage(m, sent'[e][m].stream, Len(sent'[e][m].parts))
  <2>1. CASE m \in 1 .. M
    BY <1>8, <1>10, <2>1
  <2>2. CASE m = M + 1
    BY <1>7, <1>10, <2>2
  <2> QED BY <1>3, <2>1, <2>2
<1>13. ASSUME NEW i \in 1 .. L PROVE Logged(e, i)'
  <2> DEFINE c == log[e][i]
  <2>1. log'[e][i] = c /\ (i # 1 => log'[e][i - 1] = log[e][i - 1])
    <3>1. i # 1 => i - 1 \in 1 .. L
      BY <1>3
    <3> QED BY <1>9, <3>1
  <2>2. Logged(e, i)
    BY <1>8
  <2>3. c.part[1] \in 1 .. M
    BY <1>0, <2>2 DEF Logged
  <2>4. sent'[e][c.part[1]] = sent[e][c.part[1]] /\ c.part[1] \in 1 .. Len(sent'[e])
    BY <1>3, <1>10, <2>3, SMTT(30)
  <2> HIDE DEF c
  <2> QED BY <2>1, <2>2, <2>4 DEF Logged, c
<1>14. ASSUME NEW j \in 1 .. n PROVE Logged(e, L + j)'
  <2> DEFINE c == chunks[j]
  <2>1. /\ c.part = <<M + 1, j>> /\ c.part[1] = M + 1 /\ c.part[2] = j
        /\ c.stream = stream /\ c.beginning = (j = 1) /\ c.ending = (j = n)
    BY <1>6
  <2>2. sent'[e][c.part[1]] = message /\ c.part[1] \in 1 .. Len(sent'[e])
    BY <1>3, <1>10, <2>1
  <2>3. c.tsn = Plus(InitialTSN[e], (L + j) - 1)
    <3>1. c.tsn = Plus(localTSN[e], j - 1)
      BY <1>6
    <3>2. j - 1 \in Nat /\ j - 1 <= n /\ L + (j - 1) = (L + j) - 1
      BY <1>3
    <3> QED BY <1>11, <3>1, <3>2
  <2>4. CASE L + j = 1
    <3>1. L = 0 /\ j = 1
      BY <1>3, <2>4
    <3>2. c.part = <<1, 1>>
      BY <1>8, <2>1, <3>1
    <3> HIDE DEF c
    <3> QED BY <1>7, <1>9, <2>1, <2>2, <2>3, <2>4, <3>2 DEF Logged, c
  <2>5. CASE L + j # 1
    <3>1. Follows(log'[e][(L + j) - 1], c)
      <4>1. CASE j = 1
        <5>1. L \in 1 .. L /\ (L + j) - 1 = L /\ L > 0
          BY <1>3, <2>5, <4>1
        <5>2. log'[e][(L + j) - 1] = log[e][L]
          BY <1>9, <5>1
        <5> QED BY <1>8, <2>1, <4>1, <5>1, <5>2 DEF Follows
      <4>2. CASE j # 1
        <5>1. j - 1 \in 1 .. n /\ L + (j - 1) = (L + j) - 1 /\ j - 1 # n /\ (j - 1) + 1 = j
          BY <1>3, <4>2
        <5>2. log'[e][(L + j) - 1] = chunks[j - 1]
          BY <1>9, <5>1
        <5>3. /\ ~chunks[j - 1].ending
              /\ chunks[j - 1].part = <<M + 1, j - 1>>
              /\ KeyOf(chunks[j - 1]) = KeyOf(c)
          <6>1. /\ chunks[j - 1].ending = (j - 1 = n)
                /\ chunks[j - 1].part = <<M + 1, j - 1>>
                /\ chunks[j - 1].stream = stream /\ chunks[j - 1].unordered = unordered
            BY <1>6, <5>1
          <6>2. c.stream = stream /\ c.unordered = unordered
            BY <1>6
          <6>3. KeyOf(chunks[j - 1]) = KeyOf(c)
            BY <6>1, <6>2 DEF KeyOf
          <6> QED BY <5>1, <6>1, <6>3
        <5>4. c.part = <<chunks[j - 1].part[1], chunks[j - 1].part[2] + 1>>
          BY <2>1, <5>1, <5>3
        <5> QED BY <5>2, <5>3, <5>4 DEF Follows
      <4> QED BY <4>1, <4>2
    <3> HIDE DEF c
    <3> QED BY <1>7, <1>9, <2>1, <2>2, <2>3, <2>5, <3>1 DEF Logged, c
  <2> QED BY <2>4, <2>5
<1>15. ASSUME NEW i \in 1 .. (L + n) PROVE Logged(e, i)'
  <2>1. CASE i \in 1 .. L
    BY <1>13, <2>1
  <2>2. CASE i \notin 1 .. L
    <3>1. i - L \in 1 .. n /\ L + (i - L) = i
      BY <1>3, <2>2
    <3> QED BY <1>14, <3>1
  <2> QED BY <2>1, <2>2
<1>16. /\ log'[e] # <<>>
       /\ log'[e][L + n].ending /\ log'[e][L + n].part[1] = M + 1
  <2>1. L + n > 0 /\ n \in 1 .. n
    BY <1>3
  <2>2. log'[e] # <<>>
    BY <1>9, <2>1, EmptySeq
  <2>3. log'[e][L + n] = chunks[n] /\ chunks[n].ending /\ chunks[n].part = <<M + 1, n>>
    BY <1>6, <1>9, <2>1
  <2> QED BY <2>2, <2>3
<1>17. L + n <= MaxChunks[e] /\ localTSN'[e] = Plus(InitialTSN[e], L + n)
  BY <1>1, <1>3, <1>11
<1> QED BY <1>9, <1>10, <1>12, <1>15, <1>16, <1>17 DEF LogInv

\* A send only adds to what was sent, and only at its own end.
LEMMA SendDataGrows ==
    ASSUME TypeOK, NEW e \in End, NEW stream \in Stream, NEW unordered \in Unordered,
           NEW n \in 1 .. MaxFragments, SendData(e, stream, unordered, n)
    PROVE  /\ \A i \in DOMAIN log[e] : i \in DOMAIN log'[e] /\ log'[e][i] = log[e][i]
           /\ \A j \in 1 .. n : \E i \in DOMAIN log'[e] :
                log'[e][i] = Fragmented(e, stream, unordered, n)[j]
           /\ Len(log[e]) <= Len(log'[e])
           /\ \A m \in 1 .. Len(sent[e]) :
                m \in 1 .. Len(sent'[e]) /\ sent'[e][m] = sent[e][m]
           /\ \A f \in End : f # e => log'[f] = log[f] /\ sent'[f] = sent[f]
<1> DEFINE chunks == Fragmented(e, stream, unordered, n)
           message == WholeMessage(Len(sent[e]) + 1, stream, n)
<1>1. /\ log' = [log EXCEPT ![e] = @ \o chunks]
      /\ sent' = [sent EXCEPT ![e] = Append(@, message)]
      /\ Len(log[e]) + n <= MaxChunks[e]
  BY DEF SendData
<1>2. log[e] \in Seq(Chunk) /\ sent[e] \in Seq(Message) /\ n \in Nat
  BY AssociationAssumption DEF TypeOK
<1>3. chunks \in Seq(Chunk) /\ Len(chunks) = n
  BY <1>1, FragmentedType
<1>4. message \in Message
  BY <1>2, WholeMessageType
<1>5. log'[e] = log[e] \o chunks /\ sent'[e] = Append(sent[e], message)
  BY <1>1 DEF TypeOK
<1> HIDE DEF chunks, message
<1>6. /\ Len(log'[e]) = Len(log[e]) + n /\ log'[e] \in Seq(Chunk)
      /\ \A i \in 1 .. Len(log[e]) : log'[e][i] = log[e][i]
      /\ \A j \in 1 .. n : log'[e][Len(log[e]) + j] = chunks[j]
  BY <1>2, <1>3, <1>5, ConcatElements
<1>7. /\ Len(sent'[e]) = Len(sent[e]) + 1
      /\ \A m \in 1 .. Len(sent[e]) : sent'[e][m] = sent[e][m]
  BY <1>2, <1>4, <1>5
<1>8. /\ Len(log[e]) \in Nat /\ Len(sent[e]) \in Nat
      /\ DOMAIN log[e] = 1 .. Len(log[e]) /\ DOMAIN log'[e] = 1 .. Len(log'[e])
  BY <1>2, <1>6, LenProperties
<1>9. ASSUME NEW j \in 1 .. n PROVE \E i \in DOMAIN log'[e] : log'[e][i] = chunks[j]
  <2>1. Len(log[e]) + j \in DOMAIN log'[e]
    BY <1>2, <1>6, <1>8
  <2> QED BY <1>6, <2>1
<1>10. \A f \in End : f # e => log'[f] = log[f] /\ sent'[f] = sent[f]
  BY <1>1, SMTT(30) DEF TypeOK
<1> QED BY <1>2, <1>6, <1>7, <1>8, <1>9, <1>10, SMTT(30) DEF chunks

\* Everything but a send leaves the log alone.
LEMMA LogUnchanged ==
    ASSUME [Next]_vars
    PROVE  \/ UNCHANGED transmit
           \/ \E e \in End, stream \in Stream, unordered \in Unordered,
                n \in 1 .. MaxFragments : SendData(e, stream, unordered, n)
<1>1. CASE UNCHANGED vars
  BY <1>1 DEF vars
<1>2. ASSUME NEW e \in End, Application(e)
      PROVE  UNCHANGED transmit \/ \E stream \in Stream, unordered \in Unordered,
                n \in 1 .. MaxFragments : SendData(e, stream, unordered, n)
  BY <1>2 DEF Application, Start, Shutdown, Release
<1>3. ASSUME NEW e \in End, Timer(e) \/ Handler(e) PROVE UNCHANGED transmit
  BY <1>3 DEF Timer, RetransmitInit, SetupTimedOut, Release, Handler, Drain, Acknowledge,
     receive
<1>4. ASSUME NEW e \in End, NEW p, HandlePacket(e, p) \/ Ignore(e, p) \/ Lose(e, p)
      PROVE  UNCHANGED transmit
  BY <1>4 DEF HandlePacket, HandleInit, HandleInitAck, HandleCookieEcho, HandleCookieAck,
     BufferData, ReceiveData, HandleSack, HandleShutdown, Release, Ignore, Lose
<1> QED BY <1>1, <1>2, <1>3, <1>4 DEF Next, Network

LEMMA LogPreserved ==
    ASSUME InductiveInv, [Next]_vars, NEW f \in End PROVE LogInv(f)'
<1>1. LogInv(f)
  BY DEF InductiveInv
<1>2. CASE UNCHANGED transmit
  BY <1>1, <1>2, LogFrame DEF transmit
<1>3. ASSUME NEW e \in End, NEW stream \in Stream, NEW unordered \in Unordered,
             NEW n \in 1 .. MaxFragments, SendData(e, stream, unordered, n)
      PROVE  LogInv(f)'
  <2>1. CASE f = e
    BY <1>3, <2>1, SendDataLog
  <2>2. CASE f # e
    <3>1. log'[f] = log[f] /\ sent'[f] = sent[f] /\ localTSN'[f] = localTSN[f]
      BY <1>3, <2>2 DEF SendData, InductiveInv, TypeOK
    <3> QED BY <1>1, <3>1, LogFrame
  <2> QED BY <2>1, <2>2
<1> QED BY <1>2, <1>3, LogUnchanged
-----------------------------------------------------------------------------
(* Nothing is received that was not sent.                                  *)

LEMMA SendDataGenuine ==
    ASSUME InductiveInv, NEW e \in End, NEW stream \in Stream, NEW unordered \in Unordered,
           NEW n \in 1 .. MaxFragments, SendData(e, stream, unordered, n), NEW f \in End
    PROVE  GenuineInv(f)'
<1> DEFINE chunks == Fragmented(e, stream, unordered, n)
           out == {[type |-> "DATA", chunk |-> chunks[j]] : j \in 1 .. n}
<1>1. TypeOK /\ GenuineInv(f) /\ Emit(e, out) /\ UNCHANGED receivedOutOfOrder
  BY DEF InductiveInv, SendData, receive
<1>2. \A q \in net'[f] : q \in net[f] \/ (f = Peer(e) /\ q \in out)
  BY <1>1, EmitNet, TwoEnds
<1> HIDE DEF chunks
<1>3. ASSUME NEW c, \E i \in DOMAIN log[Peer(f)] : c = log[Peer(f)][i]
      PROVE  \E i \in DOMAIN log'[Peer(f)] : c = log'[Peer(f)][i]
  BY <1>1, <1>3, SendDataGrows, PeerProperties
<1>4. ASSUME f = Peer(e), NEW q \in out
      PROVE  \E i \in DOMAIN log'[Peer(f)] : q.chunk = log'[Peer(f)][i]
  <2>1. PICK j \in 1 .. n : q.chunk = chunks[j]
    OBVIOUS
  <2>2. Peer(f) = e
    BY <1>4, PeerProperties
  <2> QED BY <1>1, <2>1, <2>2, SendDataGrows DEF chunks
<1> HIDE DEF out
<1> QED BY <1>1, <1>2, <1>3, <1>4 DEF GenuineInv

LEMMA BufferDataGenuine ==
    ASSUME InductiveInv, NEW e \in End, NEW p \in net[e], BufferData(e, p), NEW f \in End
    PROVE  GenuineInv(f)'
<1>1. TypeOK /\ GenuineInv(f) /\ UNCHANGED log
  BY DEF InductiveInv, BufferData, transmit
<1>2. \A q \in net'[f] : q.type = "DATA" => q \in net[f]
  BY <1>1, PacketTraffic
<1>3. receivedOutOfOrder[e] \in Seq(Chunk) /\ p \in Packet
  BY <1>1 DEF TypeOK
<1>4. p.type = "DATA" /\ p.chunk \in Chunk
  BY <1>3, PacketFields DEF BufferData
<1>5. /\ receivedOutOfOrder'[e] \in
           {receivedOutOfOrder[e], Append(receivedOutOfOrder[e], p.chunk)}
      /\ \A g \in End : g # e => receivedOutOfOrder'[g] = receivedOutOfOrder[g]
  BY <1>1 DEF BufferData, TypeOK
<1>6. ASSUME NEW j \in DOMAIN Append(receivedOutOfOrder[e], p.chunk)
      PROVE  \/ \E i \in DOMAIN receivedOutOfOrder[e] :
                  Append(receivedOutOfOrder[e], p.chunk)[j] = receivedOutOfOrder[e][i]
             \/ Append(receivedOutOfOrder[e], p.chunk)[j] = p.chunk
  BY <1>3, <1>4
<1>7. \A j \in DOMAIN receivedOutOfOrder'[f] :
        \/ \E i \in DOMAIN receivedOutOfOrder[f] :
             receivedOutOfOrder'[f][j] = receivedOutOfOrder[f][i]
        \/ \E q \in net[f] : q.type = "DATA" /\ receivedOutOfOrder'[f][j] = q.chunk
  BY <1>4, <1>5, <1>6
<1> QED BY <1>1, <1>2, <1>7, GenuineFrame

\* One turn of the drain loop leaves chunks that were buffered before it.
LEMMA DrainGenuine ==
    ASSUME InductiveInv, NEW e \in End, Drain(e), NEW f \in End PROVE GenuineInv(f)'
<1>1. TypeOK /\ GenuineInv(f) /\ UNCHANGED <<log, net>>
  BY DEF InductiveInv, Drain, transmit
<1>2. PICK i \in DOMAIN receivedOutOfOrder[e] :
        receivedOutOfOrder' = [receivedOutOfOrder EXCEPT ![e] = RemoveAt(@, i)]
  BY DEF Drain
<1>3. receivedOutOfOrder[e] \in Seq(Chunk)
  BY <1>1 DEF TypeOK
<1>4. /\ receivedOutOfOrder'[e] = RemoveAt(receivedOutOfOrder[e], i)
      /\ \A g \in End : g # e => receivedOutOfOrder'[g] = receivedOutOfOrder[g]
  BY <1>1, <1>2 DEF TypeOK
<1>5. \A j \in DOMAIN receivedOutOfOrder'[f] : \E k \in DOMAIN receivedOutOfOrder[f] :
        receivedOutOfOrder'[f][j] = receivedOutOfOrder[f][k]
  <2>1. \A j \in DOMAIN RemoveAt(receivedOutOfOrder[e], i) :
          \E k \in DOMAIN receivedOutOfOrder[e] :
            RemoveAt(receivedOutOfOrder[e], i)[j] = receivedOutOfOrder[e][k]
    BY <1>3, RemoveAtProperties
  <2>2. CASE f = e
    BY <1>4, <2>1, <2>2
  <2>3. CASE f # e
    BY <1>4, <2>3
  <2> QED BY <2>2, <2>3
<1> QED BY <1>1, <1>5, GenuineFrame

\* A step that only takes packets and chunks away receives nothing new.
LEMMA QuietGenuine ==
    ASSUME InductiveInv, UNCHANGED log,
           \A f \in End : \A q \in net'[f] : q.type = "DATA" => q \in net[f],
           \A f \in End : \/ receivedOutOfOrder'[f] = receivedOutOfOrder[f]
                           \/ receivedOutOfOrder'[f] = <<>>
    PROVE  \A f \in End : GenuineInv(f)'
<1> SUFFICES ASSUME NEW f \in End PROVE GenuineInv(f)'
  OBVIOUS
<1>1. DOMAIN <<>> = {}
  OBVIOUS
<1> QED BY <1>1, GenuineFrame DEF InductiveInv

LEMMA SetupGenuine ==
    ASSUME InductiveInv, NEW e \in End,
           \/ Start(e) \/ RetransmitInit(e)
           \/ \E p \in net[e] : \/ HandleInit(e, p) \/ HandleInitAck(e, p)
                              \/ HandleCookieEcho(e, p) \/ HandleCookieAck(e, p)
    PROVE  \A f \in End : GenuineInv(f)'
<1>1. TypeOK
  BY DEF InductiveInv
<1>2. UNCHANGED <<log, receivedOutOfOrder>>
  BY DEF Start, RetransmitInit, HandleInit, HandleInitAck, HandleCookieEcho,
     HandleCookieAck, transmit, receive
<1>3. CASE Start(e) \/ RetransmitInit(e)
  <2>1. PICK out : Emit(e, out) /\ \A q \in out : q.type # "DATA"
    BY <1>3 DEF Start, RetransmitInit, InitPacket, CookieEcho
  <2>2. \A f \in End : \A q \in net'[f] : q.type = "DATA" => q \in net[f]
    BY <1>1, <2>1, EmitNet, TwoEnds
  <2> QED BY <1>2, <2>2, QuietGenuine
<1>4. CASE \E p \in net[e] : \/ HandleInit(e, p) \/ HandleInitAck(e, p)
                            \/ HandleCookieEcho(e, p) \/ HandleCookieAck(e, p)
  <2>1. PICK p \in net[e] : \E out : Exchange(e, p, out) /\ \A q \in out : q.type # "DATA"
    BY <1>4 DEF HandleInit, HandleInitAck, HandleCookieEcho, HandleCookieAck, CookieEcho
  <2>2. PICK out : Exchange(e, p, out) /\ \A q \in out : q.type # "DATA"
    BY <2>1
  <2>3. \A f \in End : \A q \in net'[f] : q.type = "DATA" => q \in net[f]
    BY <1>1, <2>2, ExchangeNet, TwoEnds
  <2> QED BY <1>2, <2>3, QuietGenuine
<1> QED BY <1>3, <1>4

LEMMA OtherGenuine ==
    ASSUME InductiveInv, NEW e \in End,
           \/ Acknowledge(e) \/ Shutdown(e) \/ SetupTimedOut(e)
           \/ \E p \in net[e] : \/ ReceiveData(e, p) \/ HandleSack(e, p)
                              \/ HandleShutdown(e, p) \/ Ignore(e, p) \/ Lose(e, p)
    PROVE  \A f \in End : GenuineInv(f)'
<1>1. \A f \in End : \A q \in net'[f] : q.type = "DATA" => q \in net[f]
  BY PacketTraffic, HandlerTraffic DEF InductiveInv
<1>2. UNCHANGED log
  BY DEF Acknowledge, Shutdown, SetupTimedOut, Release, ReceiveData, HandleSack,
     HandleShutdown, Ignore, Lose, transmit
<1>3. CASE Release(e)
  BY <1>1, <1>2, <1>3, QuietGenuine DEF Release, InductiveInv, TypeOK
<1>4. CASE ~Release(e)
  <2>1. UNCHANGED receivedOutOfOrder
    BY <1>4 DEF Acknowledge, Shutdown, SetupTimedOut, ReceiveData, HandleSack,
       HandleShutdown, Ignore, Lose, receive
  <2> QED BY <1>1, <1>2, <2>1, QuietGenuine
<1> QED BY <1>3, <1>4

LEMMA GenuinePreserved ==
    ASSUME InductiveInv, [Next]_vars PROVE \A f \in End : GenuineInv(f)'
<1>1. CASE UNCHANGED vars
  BY <1>1, QuietGenuine DEF vars, transmit, receive
<1>2. ASSUME NEW e \in End, Application(e) PROVE \A f \in End : GenuineInv(f)'
  BY <1>2, SetupGenuine, OtherGenuine, SendDataGenuine DEF Application
<1>3. ASSUME NEW e \in End, Timer(e) \/ Handler(e) PROVE \A f \in End : GenuineInv(f)'
  BY <1>3, SetupGenuine, OtherGenuine, DrainGenuine DEF Timer, Handler
<1>4. ASSUME NEW e \in End, NEW p \in net[e],
             HandlePacket(e, p) \/ Ignore(e, p) \/ Lose(e, p)
      PROVE  \A f \in End : GenuineInv(f)'
  BY <1>4, SetupGenuine, OtherGenuine, BufferDataGenuine DEF HandlePacket
<1> QED BY <1>1, <1>2, <1>3, <1>4 DEF Next, Network
-----------------------------------------------------------------------------
(* What was delivered follows from what was consumed.                      *)

LEMMA DeliveryFrameAt ==
    ASSUME NEW e \in End, DeliveryInv(e),
           delivered'[e] = delivered[e],
           peerCumulativeTSN'[e] = peerCumulativeTSN[e],
           released'[e] \/ (released'[e] = released[e] /\ fragments'[e] = fragments[e]),
           log'[Peer(e)] = log[Peer(e)], sent'[Peer(e)] = sent[Peer(e)]
    PROVE  DeliveryInv(e)'
<1>1. Expected(e)' = Expected(e)
  BY DEF Expected, CumulativeTSN
<1>2. ASSUME NEW k, ~released'[e], released[e] \/ Progress(e, k) PROVE Progress(e, k)'
  BY <1>2 DEF Progress
<1> QED BY <1>1, <1>2 DEF DeliveryInv

\* More messages and chunks sent change nothing for the ones before.
LEMMA SendDataDelivery ==
    ASSUME InductiveInv, NEW e \in End, NEW stream \in Stream, NEW unordered \in Unordered,
           NEW n \in 1 .. MaxFragments, SendData(e, stream, unordered, n), NEW f \in End
    PROVE  DeliveryInv(f)'
<1>1. /\ TypeOK /\ DeliveryInv(f)
      /\ UNCHANGED <<delivered, peerCumulativeTSN, fragments, released>>
  BY DEF InductiveInv, SendData, receive
<1>2. CASE f = e
  BY <1>1, <1>2, SendDataGrows, PeerProperties, DeliveryFrameAt
<1>3. CASE f = Peer(e)
  <2>1. Peer(f) = e
    BY <1>3, PeerProperties
  <2>2. /\ log[e] \in Seq(Chunk) /\ Len(log[e]) \in Nat /\ DOMAIN log[e] = 1 .. Len(log[e])
        /\ log'[e] \in Seq(Chunk) /\ Len(log'[e]) \in Nat
    <3>1. log'[e] = log[e] \o Fragmented(e, stream, unordered, n) /\ Len(log[e]) + n <= MaxChunks[e]
      BY <1>1 DEF SendData, TypeOK
    <3>2. Fragmented(e, stream, unordered, n) \in Seq(Chunk)
      BY <1>1, <3>1, FragmentedType
    <3>3. log[e] \in Seq(Chunk)
      BY <1>1 DEF TypeOK
    <3> QED BY <3>1, <3>2, <3>3, ConcatProperties, LenProperties
  <2>3. ASSUME NEW i \in 1 .. Len(delivered'[f])
        PROVE  i <= Len(sent'[e]) /\ delivered'[f][i] = sent'[e][i]
    <3>1. i <= Len(sent[e]) /\ delivered[f][i] = sent[e][i]
      BY <1>1, <2>1 DEF DeliveryInv
    <3>2. i \in 1 .. Len(sent[e])
      <4>1. Len(sent[e]) \in Nat
        BY <1>1, LenProperties DEF TypeOK
      <4> QED BY <3>1, <4>1
    <3> QED BY <1>1, <3>1, <3>2, SendDataGrows
  <2>4. Expected(f)' = Expected(f)
    BY <1>1 DEF Expected, CumulativeTSN
  <2>5. ASSUME NEW k \in 0 .. Len(log[e])
        PROVE  k \in 0 .. Len(log'[e]) /\ (Progress(f, k) => Progress(f, k)')
    <3>1. k \in 0 .. Len(log'[e])
      BY <1>1, <2>2, SendDataGrows
    <3>2. k # 0 => log'[e][k] = log[e][k]
      BY <1>1, <2>2, SendDataGrows
    <3> QED BY <1>1, <2>1, <3>1, <3>2 DEF Progress
  <2> QED BY <1>1, <2>1, <2>3, <2>4, <2>5 DEF DeliveryInv
<1> QED BY <1>2, <1>3, TwoEnds

\* An INIT or its answer sets the receiver before its peer's first chunk.
LEMMA BeginsAnew ==
    ASSUME NEW e \in End, delivered'[e] = <<>>,
           peerCumulativeTSN'[e] = Pred(InitialTSN[Peer(e)]),
           Len(log'[Peer(e)]) \in Nat
    PROVE  DeliveryInv(e)'
<1>1. InitialTSN[Peer(e)] \in TSN
  BY AssociationAssumption, PeerProperties
<1>2. Expected(e)' = InitialTSN[Peer(e)]
  BY <1>1, PredPlus, EndFacts DEF Expected, CumulativeTSN
<1>3. Plus(InitialTSN[Peer(e)], 0) = InitialTSN[Peer(e)]
  BY <1>1, TSNModAssumption DEF Plus, TSN
<1>4. Progress(e, 0)' /\ 0 \in 0 .. Len(log'[Peer(e)])
  BY DEF Progress
<1>5. \A i \in 1 .. Len(delivered'[e]) : FALSE
  BY EmptySeq
<1> QED BY <1>2, <1>3, <1>4, <1>5 DEF DeliveryInv

LEMMA HandleInitDelivery ==
    ASSUME InductiveInv, NEW e \in End, NEW p \in net[e],
           HandleInit(e, p) \/ HandleInitAck(e, p), NEW f \in End
    PROVE  DeliveryInv(f)'
<1>1. TypeOK /\ SetupInv /\ DeliveryInv(f) /\ LogInv(Peer(e))
  BY PeerProperties DEF InductiveInv
<1>2. /\ UNCHANGED <<log, sent, fragments, released>>
      /\ peerCumulativeTSN' = [peerCumulativeTSN EXCEPT ![e] = Pred(p.initialTSN)]
      /\ delivered' = delivered \/ delivered' = [delivered EXCEPT ![e] = <<>>]
      /\ p.type = "INIT" \/ p.type = "INIT_ACK"
  BY DEF LearnPeerTSN, HandleInit, HandleInitAck, transmit
<1>3. CASE f # e
  BY <1>1, <1>2, <1>3, DeliveryFrameAt DEF TypeOK
<1>4. CASE f = e
  <2>1. p.initialTSN = InitialTSN[Peer(e)]
    <3>1. CASE HandleInit(e, p)
      BY <1>1, <3>1, EndFacts DEF HandleInit, SetupInv, InFlight
    <3>2. CASE HandleInitAck(e, p)
      BY <1>1, <3>2, EndFacts DEF HandleInitAck, SetupInv, InFlight, Beginning
    <3> QED BY <3>1, <3>2
  <2>2. delivered'[e] = <<>>
    <3>1. CASE HandleInit(e, p)
      BY <1>1, <3>1 DEF HandleInit, TypeOK
    <3>2. CASE HandleInitAck(e, p)
      <4>1. e = Client /\ Beginning /\ log[Server] = <<>> /\ UNCHANGED delivered
        BY <1>1, <3>2, EndFacts DEF HandleInitAck, SetupInv, InFlight, Beginning
      <4>2. sent[Server] = <<>> /\ Len(sent[Server]) = 0
        BY <1>1, <4>1, EndFacts, EmptySeq DEF LogInv
      <4>3. delivered[e] \in Seq(Message) /\ Len(delivered[e]) \in Nat
        BY <1>1, LenProperties DEF TypeOK
      <4>4. \A i \in 1 .. Len(delivered[e]) : i <= 0
        BY <1>1, <1>4, <4>1, <4>2, EndFacts DEF DeliveryInv
      <4>5. Len(delivered[e]) = 0
        BY <4>3, <4>4
      <4> QED BY <4>1, <4>3, <4>5, EmptySeq
    <3> QED BY <3>1, <3>2
  <2>3. Len(log'[Peer(e)]) \in Nat
    BY <1>1, <1>2, PeerProperties, LenProperties DEF TypeOK
  <2>4. peerCumulativeTSN'[e] = Pred(InitialTSN[Peer(e)])
    BY <1>1, <1>2, <2>1 DEF TypeOK
  <2> QED BY <1>4, <2>2, <2>3, <2>4, BeginsAnew
<1> QED BY <1>3, <1>4

\* The chunk that comes next, consumed while the chunks before it have been.
LEMMA ConsumeNext ==
    ASSUME InductiveInv, NEW e \in End, NEW k \in Nat, k + 1 <= Len(log[Peer(e)]),
           Progress(e, k), ~released[e], Consume(e, log[Peer(e)][k + 1])
    PROVE  LET c == log[Peer(e)][k + 1] IN
           /\ IF c.ending THEN delivered'[e] = Append(delivered[e], sent[Peer(e)][c.part[1]])
                              /\ Len(delivered[e]) = c.part[1] - 1
              ELSE /\ delivered'[e] = delivered[e]
                   /\ Len(delivered[e]) = c.part[1] - 1
                   /\ fragments'[e][KeyOf(c)] = [j \in 1 .. c.part[2] |-> <<c.part[1], j>>]
<1> DEFINE f == Peer(e)
           c == log[f][k + 1]
           b == log[f][k]
           M == c.part[1]
           N == c.part[2]
           whole == [j \in 1 .. N |-> <<M, j>>]
           parts == IF c.beginning THEN <<c.part>> ELSE Append(fragments[e][KeyOf(c)], c.part)
           dropped == ~c.beginning /\ fragments[e][KeyOf(c)] = <<>>
<1>1. TypeOK /\ LogInv(f) /\ f \in End
  BY PeerProperties DEF InductiveInv
<1>2. /\ log[f] \in Seq(Chunk) /\ Len(log[f]) \in Nat
      /\ k + 1 \in 1 .. Len(log[f]) /\ (k # 0 => k \in 1 .. Len(log[f]))
  BY <1>1, LenProperties DEF TypeOK
<1>3. c \in Chunk /\ (k # 0 => b \in Chunk)
  BY <1>2, ElementOfSeq
<1>4. Logged(f, k + 1)
  BY <1>1, <1>2 DEF LogInv
<1>5. IF k = 0 THEN c.part = <<1, 1>> ELSE Follows(b, c)
  BY <1>4 DEF Logged
<1>6. /\ M \in 1 .. Len(sent[f]) /\ c.stream = sent[f][M].stream
      /\ c.beginning <=> N = 1
      /\ c.ending <=> N = Len(sent[f][M].parts)
  BY <1>4 DEF Logged
<1>7. c.part = <<M, N>> /\ M \in Nat \ {0} /\ N \in Nat \ {0} /\ c.stream \in Stream
  BY <1>3 DEF Chunk, Part
<1>8. k # 0 => b.part = <<b.part[1], b.part[2]>> /\ b.part[1] \in Nat \ {0}
               /\ b.part[2] \in Nat \ {0} /\ KeyOf(b) \in Key
  BY <1>3 DEF Chunk, Part, KeyOf, Key
<1>9. KeyOf(c) \in Key /\ KeyOf(c) = <<c.stream, c.unordered>>
  BY <1>3 DEF Chunk, KeyOf, Key
<1>10. delivered[e] \in Seq(Message) /\ fragments[e][KeyOf(c)] \in Seq(Part)
  BY <1>1, <1>9 DEF TypeOK
<1> HIDE DEF c, b
<1>11. Len(delivered[e]) = M - 1 /\ parts = whole /\ ~dropped
  <2>1. CASE k = 0
    <3>1. M = 1 /\ N = 1 /\ c.beginning
      BY <1>5, <1>6, <2>1
    <3>2. parts = <<c.part>> /\ ~dropped
      BY <3>1
    <3>3. whole = <<<<1, 1>>>>
      BY <3>1
    <3>4. delivered[e] = <<>>
      BY <2>1 DEF Progress
    <3> QED BY <1>5, <2>1, <3>1, <3>2, <3>3, <3>4, EmptySeq
  <2>2. CASE k # 0 /\ b.ending
    <3>1. c.part = <<b.part[1] + 1, 1>>
      BY <1>5, <2>2 DEF Follows
    <3>2. M = b.part[1] + 1 /\ N = 1 /\ c.beginning
      BY <1>6, <3>1
    <3>3. parts = <<c.part>> /\ ~dropped
      BY <3>2
    <3>4. whole = <<<<M, 1>>>>
      BY <3>2
    <3>5. Len(delivered[e]) = b.part[1]
      BY <2>2 DEF Progress, b
    <3> QED BY <1>7, <1>8, <2>2, <3>1, <3>2, <3>3, <3>4, <3>5
  <2>3. CASE k # 0 /\ ~b.ending
    <3>1. c.part = <<b.part[1], b.part[2] + 1>> /\ KeyOf(c) = KeyOf(b)
      BY <1>5, <2>3 DEF Follows
    <3>2. M = b.part[1] /\ N = b.part[2] + 1 /\ ~c.beginning
      <4>1. M = b.part[1] /\ N = b.part[2] + 1
        BY <3>1
      <4> QED BY <1>6, <1>8, <2>3, <4>1
    <3>3. /\ Len(delivered[e]) = M - 1
          /\ fragments[e][KeyOf(c)] = [j \in 1 .. b.part[2] |-> <<M, j>>]
      <4>1. Len(delivered[e]) = b.part[1] - 1
            /\ fragments[e][KeyOf(b)] = [j \in 1 .. b.part[2] |-> <<b.part[1], j>>]
        BY <2>3 DEF Progress, b
      <4> QED BY <3>1, <3>2, <4>1
    <3>4. Len(fragments[e][KeyOf(c)]) = b.part[2]
      BY <1>8, <2>3, <3>3
    <3>5. ~dropped
      BY <1>8, <2>3, <3>4, EmptySeq
    <3>6. parts = Append([j \in 1 .. b.part[2] |-> <<M, j>>], <<M, N>>)
      BY <1>7, <3>2, <3>3
    <3>7. Append([j \in 1 .. b.part[2] |-> <<M, j>>], <<M, N>>) = whole
      BY <1>8, <2>3, <3>2
    <3> QED BY <3>3, <3>5, <3>6, <3>7
  <2> QED BY <2>1, <2>2, <2>3
<1>12. Consume(e, c)
  BY DEF c
<1> HIDE DEF parts, dropped, f
<1>13. CASE c.ending
  <2>1. delivered' = [delivered EXCEPT ![e] = Append(@, [stream |-> c.stream, parts |-> parts])]
    BY <1>11, <1>12, <1>13 DEF Consume, parts, dropped
  <2>2. delivered'[e] = Append(delivered[e], [stream |-> c.stream, parts |-> whole])
    BY <1>1, <1>11, <2>1 DEF TypeOK
  <2>3. sent[f][M] = [stream |-> c.stream, parts |-> whole]
    <3>1. sent[f][M] = WholeMessage(M, sent[f][M].stream, Len(sent[f][M].parts))
      BY <1>1, <1>6 DEF LogInv
    <3> QED BY <1>6, <1>13, <3>1 DEF WholeMessage
  <2> QED BY <1>11, <1>13, <2>2, <2>3 DEF c, f
<1>14. CASE ~c.ending
  <2>1. /\ delivered' = delivered
        /\ fragments' = [fragments EXCEPT ![e][KeyOf(c)] = parts]
    BY <1>11, <1>12, <1>14 DEF Consume, parts, dropped
  <2>2. fragments'[e][KeyOf(c)] = whole
    BY <1>1, <1>9, <1>11, <2>1 DEF TypeOK
  <2> QED BY <1>11, <1>14, <2>1, <2>2 DEF c, f
<1> QED BY <1>13, <1>14

\* The handler of a DATA chunk, and each turn of its loop, moves one chunk on.
LEMMA ConsumeDelivery ==
    ASSUME InductiveInv, NEW e \in End, NEW c, NEW i \in DOMAIN log[Peer(e)],
           c = log[Peer(e)][i], c.tsn = Expected(e), Consume(e, c),
           peerCumulativeTSN'[e] = c.tsn, UNCHANGED <<log, sent, released>>
    PROVE  DeliveryInv(e)'
<1> DEFINE f == Peer(e)
<1>1. TypeOK /\ SetupInv /\ LogInv(f) /\ DeliveryInv(e) /\ f \in End
  BY PeerProperties DEF InductiveInv
<1>2. log[f] \in Seq(Chunk) /\ Len(log[f]) \in Nat /\ DOMAIN log[f] = 1 .. Len(log[f])
  BY <1>1, LenProperties DEF TypeOK
<1>3. i \in Nat /\ i - 1 \in Nat /\ i - 1 < TSNMod /\ Len(log[f]) < TSNMod
      /\ InitialTSN[f] \in TSN /\ TSNMod \in Nat
  BY <1>1, <1>2, AssociationAssumption, TSNModAssumption DEF LogInv
<1>4. peerCumulativeTSN[e] # NoTSN
  <2>1. log[f] # <<>>
    BY <1>2, EmptySeq
  <2> QED BY <1>1, <2>1 DEF SetupInv, BothKnown
<1>5. PICK k \in 0 .. Len(log[f]) :
        Expected(e) = Plus(InitialTSN[f], k) /\ (~released[e] => Progress(e, k))
  BY <1>1, <1>4 DEF DeliveryInv
<1>6. k = i - 1 /\ k + 1 = i /\ k \in Nat /\ k + 1 \in 0 .. Len(log[f]) /\ k + 1 < TSNMod
  <2>1. c.tsn = Plus(InitialTSN[f], i - 1)
    BY <1>1, <1>2 DEF LogInv, Logged
  <2>2. k \in Nat /\ k < TSNMod
    BY <1>2, <1>3
  <2>3. k = i - 1
    BY <1>3, <1>5, <2>1, <2>2, PlusInjective
  <2> QED BY <1>2, <1>3, <2>2, <2>3
<1>7. Expected(e)' = Plus(InitialTSN[f], k + 1)
  <2>1. c.tsn \in TSN /\ c.tsn = Plus(InitialTSN[f], k)
    BY <1>1, <1>5, ExpectedInTSN
  <2>2. Expected(e)' = Plus(c.tsn, 1)
    BY <2>1, EndFacts DEF Expected, CumulativeTSN
  <2>3. k < TSNMod
    BY <1>3, <1>6
  <2> QED BY <1>3, <1>6, <2>1, <2>2, <2>3, PlusPlus
<1>8. \A j \in 1 .. Len(delivered[e]) :
        j <= Len(sent[f]) /\ delivered[e][j] = sent[f][j]
  BY <1>1 DEF DeliveryInv
<1>9. delivered[e] \in Seq(Message) /\ sent[f] \in Seq(Message) /\ Len(delivered[e]) \in Nat
      /\ Len(sent[f]) \in Nat
  BY <1>1, LenProperties DEF TypeOK
<1>10. CASE released[e]
  <2>1. delivered'[e] = delivered[e]
    BY <1>10 DEF Consume
  <2> QED BY <1>6, <1>7, <1>8, <1>10, <2>1 DEF DeliveryInv
<1>11. CASE ~released[e]
  <2>1. IF c.ending THEN /\ delivered'[e] = Append(delivered[e], sent[f][c.part[1]])
                         /\ Len(delivered[e]) = c.part[1] - 1
        ELSE /\ delivered'[e] = delivered[e]
             /\ Len(delivered[e]) = c.part[1] - 1
             /\ fragments'[e][KeyOf(c)] = [j \in 1 .. c.part[2] |-> <<c.part[1], j>>]
    <3>1. /\ c = log[Peer(e)][k + 1] /\ k \in Nat /\ k + 1 <= Len(log[Peer(e)])
          /\ Progress(e, k)
      BY <1>2, <1>5, <1>6, <1>11
    <3>2. Consume(e, log[Peer(e)][k + 1])
      BY <3>1
    <3> QED BY <1>11, <3>1, <3>2, ConsumeNext
  <2>2. c.part[1] \in 1 .. Len(sent[f])
    BY <1>1, <1>2 DEF LogInv, Logged
  <2> PICK m : m = c.part[1]
    OBVIOUS
  <2>3. m = c.part[1] /\ m \in 1 .. Len(sent[f])
    BY <2>2
  <2>4. ASSUME c.ending
        PROVE  /\ Len(delivered'[e]) = m
               /\ \A j \in 1 .. m : j <= Len(sent[f]) /\ delivered'[e][j] = sent[f][j]
    <3>1. Len(delivered[e]) = m - 1 /\ delivered'[e] = Append(delivered[e], sent[f][m])
      BY <2>1, <2>3, <2>4
    <3>2. \A j \in 1 .. Len(delivered[e]) : delivered[e][j] = sent[f][j]
      BY <1>8
    <3>3. /\ delivered[e] \in Seq(Message) /\ sent[f] \in Seq(Message)
          /\ m \in 1 .. Len(sent[f])
      BY <1>9, <2>3
    <3>4. /\ Len(Append(delivered[e], sent[f][m])) = m
          /\ \A j \in 1 .. m : j <= Len(sent[f])
                                /\ Append(delivered[e], sent[f][m])[j] = sent[f][j]
      BY <3>1, <3>2, <3>3, PrefixGrows
    <3> QED BY <3>1, <3>4
  <2>5. \A j \in 1 .. Len(delivered'[e]) :
          j <= Len(sent[f]) /\ delivered'[e][j] = sent[f][j]
    BY <1>8, <2>1, <2>4
  <2>6. Progress(e, k + 1)'
    <3>1. log'[f][k + 1] = c /\ k + 1 # 0
      BY <1>6
    <3> QED BY <2>1, <2>3, <2>4, <3>1 DEF Progress
  <2> QED BY <1>6, <1>7, <2>5, <2>6 DEF DeliveryInv
<1> QED BY <1>10, <1>11

LEMMA ReceiveDataDelivery ==
    ASSUME InductiveInv, NEW e \in End,
           Drain(e) \/ \E p \in net[e] : ReceiveData(e, p), NEW f \in End
    PROVE  DeliveryInv(f)'
<1>1. TypeOK /\ GenuineInv(e) /\ DeliveryInv(f) /\ UNCHANGED <<log, sent, released>>
  BY DEF InductiveInv, Drain, ReceiveData, transmit
<1>2. PICK c : /\ c.tsn = Expected(e) /\ Consume(e, c)
               /\ \E i \in DOMAIN log[Peer(e)] : c = log[Peer(e)][i]
  BY <1>1 DEF Drain, ReceiveData, GenuineInv
<1>3. peerCumulativeTSN' = [peerCumulativeTSN EXCEPT ![e] = c.tsn]
  BY <1>2 DEF Drain, ReceiveData
<1>4. CASE f = e
  BY <1>1, <1>2, <1>3, <1>4, ConsumeDelivery DEF TypeOK
<1>5. CASE f # e
  <2>1. delivered'[f] = delivered[f] /\ fragments'[f] = fragments[f]
    BY <1>1, <1>2, <1>5 DEF Consume, TypeOK
  <2> QED BY <1>1, <1>3, <1>5, <2>1, DeliveryFrameAt DEF TypeOK
<1> QED BY <1>4, <1>5

LEMMA ReleaseDelivery ==
    ASSUME InductiveInv, NEW e \in End, Release(e), NEW f \in End PROVE DeliveryInv(f)'
<1>1. /\ DeliveryInv(f)
      /\ UNCHANGED <<log, sent, delivered, peerCumulativeTSN>>
      /\ released'[f] \/ (released'[f] = released[f] /\ fragments'[f] = fragments[f])
  BY DEF InductiveInv, TypeOK, Release, transmit
<1> QED BY <1>1, DeliveryFrameAt

LEMMA DeliveryPreserved ==
    ASSUME InductiveInv, [Next]_vars PROVE \A f \in End : DeliveryInv(f)'
<1> SUFFICES ASSUME NEW f \in End PROVE DeliveryInv(f)'
  OBVIOUS
<1>1. DeliveryInv(f)
  BY DEF InductiveInv
<1>2. CASE UNCHANGED <<delivered, sent, log, peerCumulativeTSN, fragments, released>>
  BY <1>1, <1>2, DeliveryFrame
<1>3. CASE UNCHANGED vars
  BY <1>2, <1>3 DEF vars, transmit, receive
<1>4. ASSUME NEW e \in End, Application(e) PROVE DeliveryInv(f)'
  <2>1. CASE Start(e)
    BY <1>2, <2>1 DEF Start, transmit, receive
  <2> QED BY <1>4, <2>1, SendDataDelivery, ReleaseDelivery DEF Application, Shutdown
<1>5. ASSUME NEW e \in End, Timer(e) \/ Handler(e) PROVE DeliveryInv(f)'
  <2>1. CASE RetransmitInit(e) \/ Acknowledge(e)
    BY <1>2, <2>1 DEF RetransmitInit, Acknowledge, transmit, receive
  <2> QED BY <1>5, <2>1, ReleaseDelivery, ReceiveDataDelivery
         DEF Timer, Handler, SetupTimedOut
<1>6. ASSUME NEW e \in End, NEW p \in net[e],
             HandlePacket(e, p) \/ Ignore(e, p) \/ Lose(e, p)
      PROVE  DeliveryInv(f)'
  <2>1. CASE HandleShutdown(e, p)
    BY <1>2, <2>1, ReleaseDelivery DEF HandleShutdown, transmit, receive
  <2>2. CASE \/ HandleCookieEcho(e, p) \/ HandleCookieAck(e, p) \/ BufferData(e, p)
             \/ HandleSack(e, p) \/ Ignore(e, p) \/ Lose(e, p)
    BY <1>2, <2>2 DEF HandleCookieEcho, HandleCookieAck, BufferData, HandleSack, Ignore,
       Lose, transmit, receive
  <2> QED BY <1>6, <2>1, <2>2, HandleInitDelivery, ReceiveDataDelivery DEF HandlePacket
<1> QED BY <1>3, <1>4, <1>5, <1>6 DEF Next, Network
-----------------------------------------------------------------------------
(* The theorems.                                                           *)

LEMMA SetupPreserved == ASSUME InductiveInv, [Next]_vars PROVE SetupInv'
<1>1. TypeOK'
  BY NextTypeOK DEF InductiveInv
<1>2. CASE UNCHANGED vars
  BY <1>2, SetupFrame DEF InductiveInv, vars, setup, transmit, receive
<1>3. ASSUME NEW e \in End, Application(e) \/ Timer(e) \/ Handler(e) PROVE SetupInv'
  BY <1>3, StartSetup, SendDataSetup, CloseSetup, RetransmitInitSetup, HandlerSetup
     DEF Application, Timer, Handler
<1>4. ASSUME NEW e \in End, NEW p \in net[e],
             HandlePacket(e, p) \/ Ignore(e, p) \/ Lose(e, p)
      PROVE  SetupInv'
  BY <1>1, <1>4, HandleInitSetup, HandleInitAckSetup, HandleCookieEchoSetup,
     HandleCookieAckSetup, DataSetup, CloseSetup DEF HandlePacket
<1> QED BY <1>2, <1>3, <1>4 DEF Next, Network

LEMMA InitInductive == Init => InductiveInv
<1> SUFFICES ASSUME Init PROVE InductiveInv
  OBVIOUS
<1>1. TypeOK
  BY InitTypeOK
<1>2. SetupInv
  BY EndFacts DEF Init, SetupInv, InFlight, Beginning
<1>3. ASSUME NEW e \in End PROVE LogInv(e) /\ GenuineInv(e) /\ DeliveryInv(e)
  <2>1. /\ Len(log[e]) = 0 /\ Len(sent[e]) = 0 /\ Len(delivered[e]) = 0
        /\ log[e] = <<>> /\ sent[e] = <<>> /\ localTSN[e] = InitialTSN[e]
    BY EmptySeq DEF Init
  <2>2. Plus(InitialTSN[e], 0) = InitialTSN[e] /\ 0 <= MaxChunks[e]
    BY AssociationAssumption, TSNModAssumption DEF Plus, TSN
  <2>3. \A i \in 1 .. 0 : FALSE
    OBVIOUS
  <2>4. LogInv(e)
    BY <2>1, <2>2, <2>3 DEF LogInv
  <2>5. GenuineInv(e)
    BY DEF Init, GenuineInv
  <2>6. DeliveryInv(e)
    BY <2>1, <2>3 DEF Init, DeliveryInv
  <2> QED BY <2>4, <2>5, <2>6
<1> QED BY <1>1, <1>2, <1>3 DEF InductiveInv

LEMMA NextInductive == InductiveInv /\ [Next]_vars => InductiveInv'
  BY NextTypeOK, SetupPreserved, LogPreserved, GenuinePreserved, DeliveryPreserved
     DEF InductiveInv

\* The invariant behind the delivery holds in every state.
THEOREM Inductive == Spec => []InductiveInv
  BY InitInductive, NextInductive, PTL DEF Spec

\* Whatever is lost, duplicated and reordered, an application is handed its
\* peer's messages whole and in order, without a gap and none twice.
THEOREM InOrder == Spec => []DeliveredInOrder
<1>1. InductiveInv => DeliveredInOrder
  <2> SUFFICES ASSUME InductiveInv, NEW e \in End
               PROVE  IsPrefix(delivered[e], sent[Peer(e)])
    BY DEF DeliveredInOrder
  <2> DEFINE d == delivered[e]
             s == sent[Peer(e)]
  <2>1. d \in Seq(Message) /\ s \in Seq(Message)
    BY PeerProperties DEF InductiveInv, TypeOK
  <2>2. Len(d) \in Nat /\ Len(s) \in Nat
    BY <2>1, LenProperties
  <2>3. \A i \in 1 .. Len(d) : i <= Len(s) /\ d[i] = s[i]
    BY DEF InductiveInv, DeliveryInv
  <2>4. Len(d) <= Len(s)
    <3>1. CASE Len(d) = 0
      BY <2>2, <3>1
    <3>2. CASE Len(d) # 0
      <4>1. Len(d) \in 1 .. Len(d)
        BY <2>2, <3>2
      <4> QED BY <2>3, <4>1
    <3> QED BY <3>1, <3>2
  <2>5. SubSeq(s, 1, Len(d)) = d
    BY <2>1, <2>2, <2>3, <2>4
  <2> QED BY <2>4, <2>5 DEF IsPrefix
<1> QED BY <1>1, Inductive, PTL

\* The null that peerCumulativeTSN starts with never meets a DATA chunk.
THEOREM NullUnused == Spec => []DataAfterInit
<1>1. InductiveInv => DataAfterInit
  <2> SUFFICES ASSUME InductiveInv, NEW e \in End, NEW p \in net[e], p.type = "DATA"
               PROVE  peerCumulativeTSN[e] # NoTSN
    BY DEF DataAfterInit
  <2>1. \E i \in DOMAIN log[Peer(e)] : p.chunk = log[Peer(e)][i]
    BY DEF InductiveInv, GenuineInv
  <2>2. log[Peer(e)] # <<>>
    BY <2>1
  <2> QED BY <2>2, PeerProperties DEF InductiveInv, SetupInv, BothKnown
<1> QED BY <1>1, Inductive, PTL
=============================================================================
