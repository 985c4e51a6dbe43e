------------------------ MODULE DataChannelInvariants ------------------------
(***************************************************************************)
(* The inductive invariant behind DataChannel, for streams that do not     *)
(* clash: which channels a manager has given a stream, what is on its way  *)
(* for each of them, and how far the other end has come.                   *)
(***************************************************************************)
EXTENDS DataChannel

\* The channels for which the manager of end e finds a stream.
Unnumbered(e) == {c \in Channel : Opener[c] = e /\ ChosenId[c] = NoId}

\* The streams that applications choose differ from each other, and lie beyond
\* those that the two managers can come to allocate.  No code sees to it: setting
\* an entry of the manager's map replaces the one that is there.
StreamsApart ==
    /\ IsFiniteSet(Channel)
    /\ \A c, d \in Channel : ChosenId[c] # NoId /\ ChosenId[c] = ChosenId[d] => c = d
    /\ \A c \in Channel, e \in End :
         ChosenId[c] # NoId => ChosenId[c] >= FirstStream(e) + 2 * Cardinality(Unnumbered(e))

\* The i-th message that end e has sent is one of this type for this channel.
IsSent(e, i, type, c) ==
    i \in DOMAIN sent[e] /\ sent[e][i].type = type /\ sent[e][i].channel = c

HasSent(e, type, c) == \E i \in DOMAIN sent[e] : IsSent(e, i, type, c)

HasEntry(e, c) == \E x \in entries[e] : x.channel = c

Queued(e, c) == \E i \in DOMAIN pending[e] : pending[e][i] = c

\* The manager of end e has not come to channel c yet.
Unopened(e, c) == readyState[e][c] = "none" \/ Queued(e, c)

\* The channels that end e has a stream for, or has given up.
Numbered(e) == {c \in Unnumbered(e) : ~Unopened(e, c)}

\* Each channel is opened once, by the end that creates it.
QueueInv ==
    /\ \A e \in End : \A i, j \in DOMAIN pending[e] : pending[e][i] = pending[e][j] => i = j
    /\ \A e \in End, c \in Channel :
         /\ Queued(e, c) => readyState[e][c] # "none" /\ (Opener[c] = e \/ c \in Negotiated)
         /\ Unopened(e, c) =>
              ~HasEntry(e, c) /\ ~opened[e][c] /\ ~HasSent(e, "OPEN", c)

OpenInv ==
    /\ \A e \in End : Len(delivered[e]) <= Len(sent[Peer(e)])
    /\ \A e \in End, c \in Channel :
         /\ HasSent(e, "OPEN", c) => Opener[c] = e /\ c \notin Negotiated
         /\ \A i, j \in DOMAIN sent[e] : IsSent(e, i, "OPEN", c) /\ IsSent(e, j, "OPEN", c) => i = j
         /\ \A i \in DOMAIN sent[Peer(e)] :
              IsSent(Peer(e), i, "OPEN", c) /\ i > Len(delivered[e]) => readyState[e][c] = "none"
         /\ readyState[e][c] # "none" => \/ Opener[c] = e \/ c \in Negotiated
                                        \/ HasSent(Peer(e), "OPEN", c)

\* Channel c is, or has been, on stream s at one of the ends.
OnStream(c, s) ==
    \E e \in End :
        \/ \E x \in entries[e] : x.channel = c /\ x.stream = s
        \/ \E i \in DOMAIN sent[e] :
             (IsSent(e, i, "OPEN", c) \/ IsSent(e, i, "DATA", c)) /\ sent[e][i].stream = s

\* A stream that the manager of end e has allocated.
WasAllocated(e, s) ==
    s < nextStreamId[e] /\ \E k \in Nat : s = FirstStream(e) + 2 * k

StreamInv ==
    /\ \A e \in End : IsFiniteSet(entries[e])
    /\ \A e \in End : \E k \in 0 .. Cardinality(Numbered(e)) :
         nextStreamId[e] = FirstStream(e) + 2 * k
    /\ \A c \in Channel, s \in Nat : OnStream(c, s) =>
         IF ChosenId[c] # NoId THEN s = ChosenId[c]
         ELSE c \in Numbered(Opener[c]) /\ WasAllocated(Opener[c], s)
    /\ \A c, d \in Channel, s, t \in Nat : OnStream(c, s) /\ OnStream(d, t) => (c = d <=> s = t)

\* A channel is in the map from its opening on until it or the connection is
\* closed.  One that waits for an ACK is its creator's.
EntryInv ==
    \A e \in End, c \in Channel :
        /\ opened[e][c] \/ HasSent(e, "OPEN", c) =>
             readyState[e][c] = "closed" \/ isClosed[e] \/ HasEntry(e, c)
        /\ readyState[e][c] = "open" => opened[e][c]
        /\ opened[e][c] => readyState[e][c] # "none"
        /\ \A x \in entries[e] : ~x.acked => Opener[x.channel] = e /\ x.channel \notin Negotiated

\* An ACK answers the OPEN of a channel that is open where it comes from.
AckInv ==
    \A e \in End : \A i \in DOMAIN sent[e] : sent[e][i].type = "ACK" =>
        \E c \in Channel, j \in DOMAIN sent[Peer(e)] :
            /\ IsSent(Peer(e), j, "OPEN", c) /\ sent[Peer(e)][j].stream = sent[e][i].stream
            /\ opened[e][c]

\* The messages sent on a channel are numbered without a gap; when the connection
\* is gone some are counted that were not sent.
DataInv ==
    \A e \in End, c \in Channel :
        /\ HasSent(e, "DATA", c) => opened[e][c]
        /\ \A i \in DOMAIN sent[e] : IsSent(e, i, "DATA", c) =>
             /\ sent[e][i].number \in 1 .. sentOn[e][c]
             /\ \A j \in DOMAIN sent[e] :
                  IsSent(e, j, "DATA", c) /\ j < i => sent[e][j].number < sent[e][i].number
             /\ \A n \in 1 .. (sent[e][i].number - 1) :
                  \E j \in 1 .. (i - 1) : IsSent(e, j, "DATA", c) /\ sent[e][j].number = n
        /\ dtls[e] = "connected" => \A n \in 1 .. sentOn[e][c] :
             \E j \in DOMAIN sent[e] : IsSent(e, j, "DATA", c) /\ sent[e][j].number = n

\* What a channel has been handed comes before all that is still on its way; if it
\* was opened with an OPEN, it is all that has arrived, as long as neither it nor
\* the association is closed.
RoutedInv ==
    \A e \in End, c \in Channel :
        LET received == receivedOn[e][c] IN
        /\ \A i \in DOMAIN received :
             /\ received[i][1] = c
             /\ received[i][2] <= sentOn[Peer(e)][c]
             /\ i > 1 => received[i - 1][2] < received[i][2]
             /\ \A j \in DOMAIN sent[Peer(e)] :
                  IsSent(Peer(e), j, "DATA", c) /\ j > Len(delivered[e]) =>
                      received[i][2] < sent[Peer(e)][j].number
        /\ c \notin Negotiated /\ assoc[e] # "closed" =>
             /\ \A i \in DOMAIN received : received[i][2] = i
             /\ readyState[e][c] # "closed" /\ ~isClosed[e] =>
                  \A j \in DOMAIN sent[Peer(e)] : IsSent(Peer(e), j, "DATA", c) =>
                      (j <= Len(delivered[e]) <=> sent[Peer(e)][j].number <= Len(received))

InductiveInv ==
    /\ TypeOK /\ QueueInv /\ OpenInv /\ StreamInv /\ WiredBothWays /\ EntryInv
    /\ ClosedIsDropped /\ AckInv /\ OpenAtBoth /\ DataInv /\ RoutedInv
=============================================================================
