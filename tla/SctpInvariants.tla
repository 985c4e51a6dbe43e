--------------------------- MODULE SctpInvariants ---------------------------
(***************************************************************************)
(* The inductive invariant behind the in-order delivery of                 *)
(* SctpAssociation: how the chunks an end has sent hang together, that     *)
(* nothing else is in flight or in a buffer, what the four-way setup has   *)
(* established at each of its stages, and how what was delivered follows   *)
(* from how far the peer's TSNs have been consumed.                        *)
(***************************************************************************)
EXTENDS SctpAssociation

\* Chunk c comes right after chunk b: it begins the next message or carries on
\* the one of b.
Follows(b, c) ==
    IF b.ending THEN c.part = <<b.part[1] + 1, 1>>
    ELSE c.part = <<b.part[1], b.part[2] + 1>> /\ KeyOf(c) = KeyOf(b)

\* The i-th chunk of end e is cut from one of its messages, after the chunk before.
Logged(e, i) ==
    LET c == log[e][i] IN
    /\ c.tsn = Plus(InitialTSN[e], i - 1)
    /\ c.part[1] \in 1 .. Len(sent[e])
    /\ c.stream = sent[e][c.part[1]].stream
    /\ c.beginning <=> c.part[2] = 1
    /\ c.ending <=> c.part[2] = Len(sent[e][c.part[1]].parts)
    /\ IF i = 1 THEN c.part = <<1, 1>> ELSE Follows(log[e][i - 1], c)

\* The chunks that end e has sent are its messages cut to pieces, numbered from
\* its first TSN on.
LogInv(e) ==
    /\ Len(log[e]) <= MaxChunks[e]
    /\ localTSN[e] = Plus(InitialTSN[e], Len(log[e]))
    /\ \A m \in 1 .. Len(sent[e]) :
         sent[e][m] = WholeMessage(m, sent[e][m].stream, Len(sent[e][m].parts))
    /\ \A i \in 1 .. Len(log[e]) : Logged(e, i)
    /\ IF log[e] = <<>> THEN sent[e] = <<>>
       ELSE LET last == log[e][Len(log[e])] IN
            last.ending /\ last.part[1] = Len(sent[e])

\* An end receives and buffers nothing but what its peer has sent.
GenuineInv(e) ==
    LET isSent(c) == \E i \in DOMAIN log[Peer(e)] : c = log[Peer(e)][i] IN
    /\ \A p \in net[e] : p.type = "DATA" => isSent(p.chunk)
    /\ \A j \in DOMAIN receivedOutOfOrder[e] : isSent(receivedOutOfOrder[e][j])

\* Both ends know the first TSN of the other one.
BothKnown == \A e \in End : peerCumulativeTSN[e] # NoTSN

InFlight(e, type) == \E p \in net[e] : p.type = type

\* The client has not answered an INIT_ACK yet, nor given up.
Beginning ==
    \/ state[Client] = "COOKIE_WAIT"
    \/ state[Client] = "CLOSED" /\ ~released[Client]

SetupInv ==
    /\ ~InFlight(Client, "INIT") /\ ~InFlight(Client, "COOKIE_ECHO")
    /\ ~InFlight(Server, "INIT_ACK") /\ ~InFlight(Server, "COOKIE_ACK")
    /\ state[Server] \in {"CLOSED", "ESTABLISHED"}
    /\ released[Client] => state[Client] = "CLOSED"
    /\ Beginning => /\ state[Server] = "CLOSED" /\ ~released[Server]
                    /\ ~InFlight(Server, "COOKIE_ECHO")
    /\ \A e \in End : state[e] # "ESTABLISHED" /\ ~released[e] => log[e] = <<>>
    /\ \A p \in net[Server] : p.type = "INIT" => p.initialTSN = InitialTSN[Client]
    /\ \A p \in net[Client] :
         p.type = "INIT_ACK" /\ Beginning => p.initialTSN = InitialTSN[Server]
    /\ InFlight(Client, "INIT_ACK") => peerCumulativeTSN[Server] # NoTSN
    /\ InFlight(Server, "COOKIE_ECHO") => BothKnown
    /\ state[Client] = "COOKIE_ECHOED" => BothKnown
    /\ \A e \in End : state[e] = "ESTABLISHED" \/ log[e] # <<>> => BothKnown

\* End e has consumed the first k chunks of its peer since the last INIT.
Progress(e, k) ==
    LET c == log[Peer(e)][k] IN
    IF k = 0 THEN delivered[e] = <<>>
    ELSE IF c.ending THEN Len(delivered[e]) = c.part[1]
    ELSE /\ Len(delivered[e]) = c.part[1] - 1
         /\ fragments[e][KeyOf(c)] = [j \in 1 .. c.part[2] |-> <<c.part[1], j>>]

DeliveryInv(e) ==
    /\ \A i \in 1 .. Len(delivered[e]) :
         i <= Len(sent[Peer(e)]) /\ delivered[e][i] = sent[Peer(e)][i]
    /\ peerCumulativeTSN[e] # NoTSN =>
         \E k \in 0 .. Len(log[Peer(e)]) :
            /\ Expected(e) = Plus(InitialTSN[Peer(e)], k)
            /\ ~released[e] => Progress(e, k)

InductiveInv ==
    /\ TypeOK
    /\ SetupInv
    /\ \A e \in End : LogInv(e) /\ GenuineInv(e) /\ DeliveryInv(e)
=============================================================================
