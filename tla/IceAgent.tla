------------------------------ MODULE IceAgent ------------------------------
(***************************************************************************)
(* Two ICE agents (ice/ice-agent.ts), one controlling and one controlled,  *)
(* that gather transports, exchange them as candidates, check pairs of     *)
(* them over a network and select one.                                     *)
(*                                                                         *)
(* A candidate is the transport behind it: a server-reflexive candidate,   *)
(* which shares the socket of a host candidate, and a relay, which sends   *)
(* through a TURN client, add nothing to the checks but their addresses.   *)
(* A path is a set of two transports that reach each other, either way.    *)
(* Both know their own ICE credentials and the integrity of every check    *)
(* and answer is good.  "Planted bug" operators are not part of the model. *)
(***************************************************************************)
EXTENDS Naturals, FiniteSets

CONSTANTS
    Controlling, Controlled,    \* the two agents
    TransportsOf,               \* the transports that each agent gathers
    Path,                       \* the paths that work
    ChecksPerRound,             \* checks of a pair before the timeout:
                                \* CHECK_TIMEOUT_MS / CHECK_INTERVAL_MS
    MaxSetRemote,               \* bound: calls of setRemote at an agent
    MaxFaults,                  \* bound: datagrams lost or duplicated, late answers
    MayClose                    \* the agents that their owner closes

Agent == {Controlling, Controlled}
Peer(e) == IF e = Controlling THEN Controlled ELSE Controlling
Transport == UNION {TransportsOf[e] : e \in Agent}
\* A pair of a local and a remote candidate.
PairsOf(e) == TransportsOf[e] \X TransportsOf[Peer(e)]

ASSUME AgentAssumption ==
    /\ Controlling # Controlled
    /\ DOMAIN TransportsOf = Agent
    /\ TransportsOf[Controlling] \cap TransportsOf[Controlled] = {}
    /\ Path \subseteq SUBSET Transport
    /\ ChecksPerRound \in Nat \ {0}
    /\ MaxSetRemote \in Nat
    /\ MaxFaults \in Nat
    /\ MayClose \subseteq Agent

VARIABLES
    agent,              \* the object of each agent, see NewAgent
    net,                \* the STUN messages on their way
    faults              \* how many faults the network and the timers have made

vars == <<agent, net, faults>>

NoPair == <<>>
PairState == {"none", "frozen", "in-progress", "succeeded"}
Works(p) == {p[1], p[2]} \in Path

\* A check is a pair and the number of the tick it is sent in; that is its
\* transaction identifier.  A pair whose state is "none" has not been formed.
NewAgent(e) ==
    [local |-> {},              \* #localCandidates
     emitted |-> {},            \* those among them that the peer may be told of
     open |-> {},               \* #transports
     remote |-> {},             \* #remoteCandidates
     told |-> {},               \* the candidates that signalling has delivered
     setRemotes |-> 0,          \* calls of setRemoteCredentials
     state |-> [p \in PairsOf(e) |-> "none"],
     txid |-> [p \in PairsOf(e) |-> 0],     \* pendingTxid of a pair, or 0
     pending |-> {},            \* #pendingChecks
     running |-> FALSE,         \* #checkTimer and #timeoutTimer
     left |-> 0,                \* ticks until the timeout
     ticks |-> 0,               \* ticks so far
     selected |-> NoPair,
     failed |-> FALSE,          \* whether 'failed' has been emitted
     closed |-> FALSE,
     out |-> {}]                \* what a handler sends

Init ==
    /\ agent = [e \in Agent |-> NewAgent(e)]
    /\ net = {}
    /\ faults = 0
-----------------------------------------------------------------------------
(* Checks.                                                                 *)

\* Planted bug: a check is sent once.
NeverChecked(a) == {p \in DOMAIN a.state : a.state[p] = "frozen"}

\* #tick checks again what has not succeeded, for as long as the round lasts.
Unanswered(a) == {p \in DOMAIN a.state : a.state[p] \notin {"none", "succeeded"}}

Request(e, p, n) ==
    [type |-> "request", from |-> p[1], to |-> p[2], check |-> <<p, n>>, use |-> e = Controlling]

\* Planted bug: the check that a new one replaces stays among the pending ones.
SendMoreChecks(e, a, pairs) ==
    [a EXCEPT !.pending = @ \cup {<<p, a.ticks>> : p \in pairs},
              !.txid = [p \in DOMAIN @ |-> IF p \in pairs THEN a.ticks ELSE @[p]],
              !.state = [p \in DOMAIN @ |-> IF p \in pairs THEN "in-progress" ELSE @[p]],
              !.out = @ \cup {Request(e, p, a.ticks) : p \in pairs}]

\* #sendCheck of each of the pairs: a pair's new check replaces the one before it.
SendChecks(e, a, pairs) ==
    [a EXCEPT !.pending = (@ \ {<<p, a.txid[p]>> : p \in pairs}) \cup {<<p, a.ticks>> : p \in pairs},
              !.txid = [p \in DOMAIN @ |-> IF p \in pairs THEN a.ticks ELSE @[p]],
              !.state = [p \in DOMAIN @ |-> IF p \in pairs THEN "in-progress" ELSE @[p]],
              !.out = @ \cup {Request(e, p, a.ticks) : p \in pairs}]

TickOnce(e, a) ==
    IF a.closed THEN a
    ELSE LET b == [a EXCEPT !.ticks = @ + 1] IN SendChecks(e, b, Unanswered(b))

StartChecks(e, a) ==
    IF a.running \/ a.closed THEN a
    ELSE TickOnce(e, [a EXCEPT !.running = TRUE, !.left = ChecksPerRound])

StopChecks(a) == [a EXCEPT !.running = FALSE, !.left = 0, !.pending = {}]

FormPairs(a) ==
    [a EXCEPT !.state = [p \in DOMAIN @ |->
        IF @[p] = "none" /\ p[1] \in a.local /\ p[2] \in a.remote THEN "frozen" ELSE @[p]]]

AddRemoteCandidate(e, a, t) ==
    LET b == FormPairs([a EXCEPT !.remote = @ \cup {t}]) IN
    IF b.setRemotes > 0 THEN StartChecks(e, b) ELSE b

\* The first selection is final.  Then 'connected' starts DTLS.
\* Planted bug: the checks go on, and their answers are still awaited.
SelectRunning(a, p) == IF a.selected # NoPair THEN a ELSE [a EXCEPT !.selected = p, !.running = FALSE]

Select(a, p) ==
    IF a.selected # NoPair THEN a ELSE StopChecks([a EXCEPT !.selected = p])

\* Planted bug: a pair with the right remote candidate, on any transport.
FindRemoteOnly(a, l, r) ==
    LET found == {p \in DOMAIN a.state : a.state[p] # "none" /\ p[2] = r} IN
    IF found = {} THEN <<l, r>> ELSE CHOOSE p \in found : TRUE

\* #findPair, or a synthetic pair of the same two if there is none.
FindPair(a, l, r) ==
    LET found == {p \in DOMAIN a.state : a.state[p] # "none" /\ p[2] = r /\ p[1] = l} IN
    IF found = {} THEN <<l, r>> ELSE CHOOSE p \in found : TRUE

\* A request is answered first, wherever it comes from; then its source is learnt
\* as a peer-reflexive candidate.
HandleBindingRequest(e, a, m) ==
    LET answered == [a EXCEPT !.out = @ \cup
                        {[type |-> "success", from |-> m.to, to |-> m.from,
                          check |-> m.check, use |-> FALSE]}]
        learnt == IF m.from \in a.remote THEN answered ELSE AddRemoteCandidate(e, answered, m.from)
    IN IF m.use /\ e = Controlled THEN Select(learnt, FindPair(learnt, m.to, m.from)) ELSE learnt

HandleBindingSuccess(e, a, m) ==
    LET p == m.check[1]
        b == [a EXCEPT !.pending = @ \ {m.check}, !.txid[p] = 0, !.state[p] = "succeeded"]
    IN IF m.check \notin a.pending THEN a
       ELSE IF e = Controlling THEN Select(b, p) ELSE b

\* A datagram for a socket that is closed, or not bound yet, is gone.
OnDatagram(e, a, m) ==
    IF m.to \notin a.open THEN a
    ELSE IF m.type = "request" THEN HandleBindingRequest(e, a, m)
    ELSE HandleBindingSuccess(e, a, m)
-----------------------------------------------------------------------------
(* The steps.  What an agent sends over a path that does not work is lost. *)

Put(e, a, rest) ==
    /\ agent' = [agent EXCEPT ![e] = [a EXCEPT !.out = {}]]
    /\ net' = rest \cup {m \in a.out : {m.from, m.to} \in Path}

\* One more transport is bound or allocated (gather), even after close().
Gather(e) ==
    \E t \in TransportsOf[e] \ agent[e].local :
        LET a == agent[e] IN
        /\ Put(e, [a EXCEPT !.local = @ \cup {t}, !.open = @ \cup {t},
                            !.emitted = IF a.closed THEN @ ELSE @ \cup {t}], net)
        /\ UNCHANGED faults

\* TransportStack.setRemote.
SetRemote(e) ==
    /\ ~agent[e].closed
    /\ agent[e].setRemotes < MaxSetRemote
    /\ LET a == [agent[e] EXCEPT !.setRemotes = @ + 1] IN
       Put(e, IF a.remote # {} THEN StartChecks(e, a) ELSE a, net)
    /\ UNCHANGED faults

\* Signalling delivers one of the peer's candidates.
AddRemote(e) ==
    /\ ~agent[e].closed
    /\ \E t \in agent[Peer(e)].emitted \ agent[e].told :
          Put(e, AddRemoteCandidate(e, [agent[e] EXCEPT !.told = @ \cup {t}], t), net)
    /\ UNCHANGED faults

\* A check or its answer is still on its way when the timer that forgets it fires:
\* one of the faults.
Overtake(e) ==
    LET late == \E m \in net : m.check \in agent[e].pending IN
    /\ late => faults < MaxFaults
    /\ faults' = IF late THEN faults + 1 ELSE faults

Tick(e) ==
    /\ agent[e].running /\ agent[e].left > 0
    /\ Overtake(e)
    /\ \E a \in {TickOnce(e, [agent[e] EXCEPT !.left = @ - 1])} : Put(e, a, net)

\* Planted bug: only an agent that has failed stops its checks.
TimeoutIfFailed(a) == IF a.selected = NoPair THEN StopChecks([a EXCEPT !.failed = TRUE]) ELSE a

TimeoutAfter(a) == StopChecks([a EXCEPT !.failed = @ \/ a.selected = NoPair])

Timeout(e) ==
    /\ agent[e].running /\ agent[e].left = 0
    /\ Overtake(e)
    /\ Put(e, TimeoutAfter(agent[e]), net)

Receive(e, kept) ==
    /\ kept => faults < MaxFaults
    /\ faults' = IF kept THEN faults + 1 ELSE faults
    /\ \E m \in net :
        /\ m.to \in TransportsOf[e]
        /\ \E a \in {OnDatagram(e, agent[e], m)} : Put(e, a, IF kept THEN net ELSE net \ {m})

Lose ==
    /\ faults < MaxFaults
    /\ faults' = faults + 1
    /\ \E m \in net : net' = net \ {m}
    /\ UNCHANGED agent

Close(e) ==
    /\ e \in MayClose
    /\ ~agent[e].closed
    /\ Put(e, StopChecks([agent[e] EXCEPT !.closed = TRUE, !.open = {}]), net)
    /\ UNCHANGED faults

Next ==
    \/ \E e \in Agent : Gather(e) \/ SetRemote(e) \/ AddRemote(e) \/ Tick(e) \/ Timeout(e) \/ Close(e)
    \/ \E e \in Agent, kept \in BOOLEAN : Receive(e, kept)
    \/ Lose

Spec == Init /\ [][Next]_vars

\* Intervals and timeouts run, and sockets are read; nothing is assumed of
\* gathering, of signalling and of the owners.
FairSpec ==
    /\ Spec
    /\ WF_vars(\E e \in Agent : Tick(e))
    /\ WF_vars(\E e \in Agent : Timeout(e))
    /\ WF_vars(\E e \in Agent : Receive(e, FALSE))
-----------------------------------------------------------------------------
(* Properties.                                                             *)

Selected(e) == agent[e].selected # NoPair

\* Types, and what #startChecks and #stopChecks keep together: the timers, the
\* ticks that are left and the pending checks; a closed agent has none of them.
TypeOK ==
    /\ \A e \in Agent :
        LET a == agent[e] IN
        /\ a.local \subseteq TransportsOf[e] /\ a.emitted \subseteq a.local /\ a.open \subseteq a.local
        /\ a.remote \subseteq TransportsOf[Peer(e)] /\ a.told \subseteq a.remote
        /\ a.state \in [PairsOf(e) -> PairState] /\ a.txid \in [PairsOf(e) -> Nat]
        /\ a.pending \subseteq PairsOf(e) \X Nat
        /\ a.selected \in PairsOf(e) \cup {NoPair}
        /\ a.left \in 0 .. ChecksPerRound /\ a.ticks \in Nat /\ a.setRemotes \in 0 .. MaxSetRemote
        /\ a.closed => ~a.running
        /\ ~a.running => a.left = 0 /\ a.pending = {}
        /\ a.out = {}
    /\ \A m \in net : {m.from, m.to} \in Path
    /\ faults \in 0 .. MaxFaults

\* An agent selects only what works both ways: a controlling agent that is connected
\* has a controlled one that is, and what either sends over its own selection
\* reaches the other, even where the two selections differ.
SelectionWorks ==
    /\ Selected(Controlling) => Selected(Controlled)
    /\ \A e \in Agent : Selected(e) =>
         /\ Works(agent[e].selected)
         /\ agent[e].selected[1] \in agent[e].open \/ agent[e].closed

\* However often a pair is checked again, one of its checks at most is pending, the
\* last one sent, and none once it has succeeded: #pendingChecks cannot grow.
OnePending ==
    \A e \in Agent : \A x \in agent[e].pending :
        agent[e].txid[x[1]] = x[2] /\ agent[e].state[x[1]] = "in-progress"

\* Every round of checks ends, restarted ones included: no interval is left running.
RoundsEnd == \A e \in Agent : agent[e].running ~> ~agent[e].running

\* The controlling agent has started to check a path that works, with time left for
\* the faults that may still come.
HasWorkingPair ==
    LET a == agent[Controlling] IN
    /\ a.running /\ a.left + faults > MaxFaults
    /\ \E p \in PairsOf(Controlling) : a.state[p] = "in-progress" /\ Works(p) /\ p[2] \in agent[Controlled].open

\* Both agents select once the controlling one checks a pair that works, unless one
\* of them is closed.
Connects ==
    HasWorkingPair ~> \/ \A e \in Agent : Selected(e)
                      \/ \E e \in MayClose : agent[e].closed
=============================================================================
