---------------------------- MODULE IceAgentProofs ----------------------------
(***************************************************************************)
(* Types, pending checks and selections of IceAgent, for every choice of   *)
(* transports and paths and every number of checks and faults.             *)
(***************************************************************************)
EXTENDS IceAgent, TLAPS

AgentType(e) ==
    [local : SUBSET TransportsOf[e], emitted : SUBSET TransportsOf[e], open : SUBSET TransportsOf[e],
     remote : SUBSET TransportsOf[Peer(e)], told : SUBSET TransportsOf[Peer(e)],
     setRemotes : 0 .. MaxSetRemote,
     state : [PairsOf(e) -> PairState], txid : [PairsOf(e) -> Nat],
     pending : SUBSET (PairsOf(e) \X Nat),
     running : BOOLEAN, left : 0 .. ChecksPerRound, ticks : Nat,
     selected : PairsOf(e) \cup {NoPair}, failed : BOOLEAN, closed : BOOLEAN,
     out : SUBSET [type : {"request", "success"},
                   from : TransportsOf[e], to : TransportsOf[Peer(e)],
                   check : (PairsOf(e) \cup PairsOf(Peer(e))) \X Nat, use : BOOLEAN]]

Shape(a) ==
    /\ a.emitted \subseteq a.local /\ a.open \subseteq a.local /\ a.told \subseteq a.remote
    /\ a.closed => ~a.running
    /\ ~a.running => a.left = 0 /\ a.pending = {}

LastPending(a) ==
    \A x \in a.pending : a.txid[x[1]] = x[2] /\ a.state[x[1]] = "in-progress"

WorkingSelection(a) ==
    a.selected # NoPair => Works(a.selected) /\ (a.selected[1] \in a.open \/ a.closed)

\* A check names the two transports it goes between; an answer those of the check.
\* The controlling agent nominates with every check.
WellAddressed(e, m) ==
    /\ m.type = "request" => m.check[1] = <<m.from, m.to>> /\ m.use = (e = Controlling)
    /\ m.type = "success" => m.check[1] = <<m.to, m.from>>

Good(e, a) ==
    /\ a \in AgentType(e)
    /\ Shape(a) /\ LastPending(a) /\ WorkingSelection(a)
    /\ \A m \in a.out : WellAddressed(e, m)

Message(e) ==
    [type : {"request", "success"}, from : TransportsOf[e], to : TransportsOf[Peer(e)],
     check : (PairsOf(e) \cup PairsOf(Peer(e))) \X Nat, use : BOOLEAN]

\* An answer is on its way to the controlling agent only from a controlled one that
\* has selected.
NetInv ==
    \A m \in net :
        /\ {m.from, m.to} \in Path
        /\ \E e \in Agent : m \in Message(e) /\ WellAddressed(e, m)
        /\ m.type = "success" /\ m.to \in TransportsOf[Controlling] => Selected(Controlled)

Inv ==
    /\ agent = [e \in Agent |-> agent[e]]
    /\ \A e \in Agent : Good(e, agent[e]) /\ agent[e].out = {}
    /\ NetInv
    /\ Selected(Controlling) => Selected(Controlled)
    /\ faults \in 0 .. MaxFaults
-----------------------------------------------------------------------------
LEMMA PeerProperties ==
    ASSUME NEW e \in Agent
    PROVE  /\ Peer(e) \in Agent /\ Peer(e) # e /\ Peer(Peer(e)) = e
           /\ TransportsOf[e] \cap TransportsOf[Peer(e)] = {}
           /\ e = Controlling \/ e = Controlled
BY AgentAssumption DEF Agent, Peer

LEMMA PairsAreNotNoPair == \A e : \A p \in PairsOf(e) : p # NoPair
BY DEF PairsOf, NoPair

LEMMA InitInv == Init => Inv
<1> SUFFICES ASSUME Init PROVE Inv
  OBVIOUS
<1>1. agent = [e \in Agent |-> NewAgent(e)] /\ net = {} /\ faults = 0
  BY DEF Init
<1>2. ASSUME NEW e \in Agent PROVE Good(e, NewAgent(e)) /\ NewAgent(e).out = {} /\ NewAgent(e).selected = NoPair
  <2>1. NewAgent(e) \in AgentType(e)
    BY AgentAssumption DEF NewAgent, AgentType, PairState
  <2> QED
    BY <2>1 DEF NewAgent, Good, Shape, LastPending, WorkingSelection
<1>3. Controlling \in Agent /\ Controlled \in Agent
  BY DEF Agent
<1>4. NetInv /\ faults \in 0 .. MaxFaults
  BY <1>1, AgentAssumption DEF NetInv
<1> QED
  BY <1>1, <1>2, <1>3, <1>4 DEF Inv, Selected
-----------------------------------------------------------------------------
(* What the operators keep of one agent.                                   *)

\* Everything but the pending checks, the states of the pairs and the ticks.
SameBut(a, b) ==
    /\ b.local = a.local /\ b.emitted = a.emitted /\ b.open = a.open /\ b.remote = a.remote
    /\ b.told = a.told /\ b.setRemotes = a.setRemotes /\ b.closed = a.closed
    /\ b.selected = a.selected

\* What an agent adds to what it sends.
Asks(a, b) == \A m \in b.out : m \in a.out \/ m.type = "request"

LEMMA SendChecksGood ==
    ASSUME NEW e \in Agent, NEW a, Good(e, a), a.running, NEW pairs \in SUBSET PairsOf(e)
    PROVE  LET b == SendChecks(e, a, pairs) IN
           Good(e, b) /\ SameBut(a, b) /\ Asks(a, b) /\ b.running = a.running /\ b.left = a.left
<1> DEFINE b == SendChecks(e, a, pairs)
           fresh == {<<p, a.ticks>> : p \in pairs}
           old == {<<p, a.txid[p]>> : p \in pairs}
           requests == {Request(e, p, a.ticks) : p \in pairs}
<1>1. a \in AgentType(e) /\ Shape(a) /\ LastPending(a) /\ WorkingSelection(a)
  BY DEF Good
<1>2. /\ DOMAIN a.txid = PairsOf(e) /\ DOMAIN a.state = PairsOf(e) /\ a.ticks \in Nat
      /\ a.pending \in SUBSET (PairsOf(e) \X Nat)
  BY <1>1 DEF AgentType
<1>3. fresh \subseteq PairsOf(e) \X Nat
  BY <1>2
<1>4. \A m \in requests : m \in Message(e) /\ WellAddressed(e, m) /\ m.type = "request"
  <2> SUFFICES ASSUME NEW p \in pairs
               PROVE  LET m == Request(e, p, a.ticks)
                      IN  m \in Message(e) /\ WellAddressed(e, m) /\ m.type = "request"
    OBVIOUS
  <2>1. p \in PairsOf(e) /\ p[1] \in TransportsOf[e] /\ p[2] \in TransportsOf[Peer(e)]
        /\ p = <<p[1], p[2]>>
    BY DEF PairsOf
  <2> QED
    BY <1>2, <2>1 DEF Request, Message, WellAddressed
<1>5. /\ b.pending = (a.pending \ old) \cup fresh
      /\ b.txid = [p \in PairsOf(e) |-> IF p \in pairs THEN a.ticks ELSE a.txid[p]]
      /\ b.state = [p \in PairsOf(e) |-> IF p \in pairs THEN "in-progress" ELSE a.state[p]]
      /\ b.out = a.out \cup requests
      /\ SameBut(a, b) /\ b.running = a.running /\ b.left = a.left
  BY <1>1, <1>2 DEF AgentType, SendChecks, SameBut
<1>6. b \in AgentType(e)
  <2> DEFINE pe == (a.pending \ old) \cup fresh
             tx == [p \in PairsOf(e) |-> IF p \in pairs THEN a.ticks ELSE a.txid[p]]
             st == [p \in PairsOf(e) |-> IF p \in pairs THEN "in-progress" ELSE a.state[p]]
             ou == a.out \cup requests
  <2>1. b = [a EXCEPT !.pending = pe, !.txid = tx, !.state = st, !.out = ou]
    BY <1>2 DEF SendChecks
  <2>2. pe \in SUBSET (PairsOf(e) \X Nat)
    BY <1>2, <1>3
  <2>3. tx \in [PairsOf(e) -> Nat] /\ st \in [PairsOf(e) -> PairState]
    BY <1>1, <1>2 DEF AgentType, PairState
  <2>4. ou \in SUBSET Message(e)
    BY <1>1, <1>4 DEF AgentType, Message
  <2> HIDE DEF pe, tx, st, ou, b
  <2> QED
    BY <1>1, <2>1, <2>2, <2>3, <2>4 DEF AgentType, Message
<1> HIDE DEF b
<1>7. LastPending(b)
  <2> SUFFICES ASSUME NEW x \in b.pending
               PROVE  b.txid[x[1]] = x[2] /\ b.state[x[1]] = "in-progress"
    BY DEF LastPending
  <2>1. CASE x \in fresh
    BY <1>5, <2>1
  <2>2. CASE x \in a.pending \ old
    <3>1. a.txid[x[1]] = x[2] /\ a.state[x[1]] = "in-progress"
      BY <1>1, <2>2 DEF LastPending
    <3>2. x[1] \in PairsOf(e) /\ x = <<x[1], x[2]>>
      BY <1>2, <2>2
    <3>3. x[1] \notin pairs
      BY <2>2, <3>1, <3>2
    <3> QED
      BY <1>5, <3>1, <3>2, <3>3
  <2> QED
    BY <1>5, <2>1, <2>2
<1>8. Shape(b) /\ WorkingSelection(b)
  BY <1>1, <1>5 DEF Shape, WorkingSelection, SameBut
<1>9. \A m \in b.out : WellAddressed(e, m)
  BY <1>4, <1>5 DEF Good
<1>10. Asks(a, b)
  BY <1>4, <1>5 DEF Asks
<1> QED
  BY <1>5, <1>6, <1>7, <1>8, <1>9, <1>10 DEF Good, b

LEMMA TickOnceGood ==
    ASSUME NEW e \in Agent, NEW a, Good(e, a), a.running
    PROVE  LET b == TickOnce(e, a) IN
           Good(e, b) /\ SameBut(a, b) /\ Asks(a, b) /\ b.running = a.running /\ b.left = a.left
<1> DEFINE c == [a EXCEPT !.ticks = @ + 1]
<1>1. ~a.closed
  BY DEF Good, Shape
<1>2. c \in AgentType(e) /\ SameBut(a, c) /\ c.out = a.out /\ c.running = a.running
      /\ c.left = a.left /\ c.pending = a.pending /\ c.txid = a.txid /\ c.state = a.state
  <2>1. a \in AgentType(e)
    BY DEF Good
  <2>2. a.ticks + 1 \in Nat
    BY <2>1 DEF AgentType
  <2>3. c \in AgentType(e)
    BY <2>1, <2>2 DEF AgentType
  <2> QED
    BY <2>1, <2>3 DEF AgentType, SameBut
<1>3. TickOnce(e, a) = SendChecks(e, c, Unanswered(c))
  BY <1>1 DEF TickOnce
<1> HIDE DEF c
<1>4. Good(e, c)
  BY <1>2 DEF Good, Shape, LastPending, WorkingSelection, SameBut
<1>5. Unanswered(c) \in SUBSET PairsOf(e)
  BY <1>2 DEF Unanswered, AgentType
<1> DEFINE b == SendChecks(e, c, Unanswered(c))
<1>6. Good(e, b) /\ SameBut(c, b) /\ Asks(c, b) /\ b.running = c.running /\ b.left = c.left
  BY <1>2, <1>4, <1>5, SendChecksGood
<1> HIDE DEF b
<1>7. SameBut(a, b) /\ Asks(a, b)
  BY <1>2, <1>6 DEF SameBut, Asks
<1> QED
  BY <1>2, <1>3, <1>6, <1>7 DEF b

LEMMA StartChecksGood ==
    ASSUME NEW e \in Agent, NEW a, Good(e, a)
    PROVE  LET b == StartChecks(e, a) IN Good(e, b) /\ SameBut(a, b) /\ Asks(a, b)
<1>1. CASE a.running \/ a.closed
  BY <1>1 DEF StartChecks, SameBut, Asks
<1>2. CASE ~a.running /\ ~a.closed
  <2> DEFINE c == [a EXCEPT !.running = TRUE, !.left = ChecksPerRound]
  <2>1. c \in AgentType(e) /\ SameBut(a, c) /\ c.out = a.out /\ c.running
        /\ c.pending = a.pending /\ c.txid = a.txid /\ c.state = a.state
    <3>1. a \in AgentType(e) /\ ChecksPerRound \in 0 .. ChecksPerRound
      BY AgentAssumption DEF Good
    <3>2. c \in AgentType(e)
      BY <3>1 DEF AgentType
    <3> QED
      BY <3>1, <3>2 DEF AgentType, SameBut
  <2>2. StartChecks(e, a) = TickOnce(e, c)
    BY <1>2 DEF StartChecks
  <2> HIDE DEF c
  <2>3. Good(e, c)
    BY <1>2, <2>1 DEF Good, Shape, LastPending, WorkingSelection, SameBut
  <2> DEFINE b == TickOnce(e, c)
  <2>4. Good(e, b) /\ SameBut(c, b) /\ Asks(c, b)
    BY <2>1, <2>3, TickOnceGood
  <2> HIDE DEF b
  <2>5. SameBut(a, b) /\ Asks(a, b)
    BY <2>1, <2>4 DEF SameBut, Asks
  <2> QED
    BY <2>2, <2>4, <2>5 DEF b
<1> QED
  BY <1>1, <1>2 DEF Good, AgentType

LEMMA StopChecksGood ==
    ASSUME NEW e \in Agent, NEW a, a \in AgentType(e),
           a.emitted \subseteq a.local, a.open \subseteq a.local, a.told \subseteq a.remote,
           WorkingSelection(a), \A m \in a.out : WellAddressed(e, m)
    PROVE  LET b == StopChecks(a) IN Good(e, b) /\ SameBut(a, b) /\ b.out = a.out
<1> DEFINE b == StopChecks(a)
<1>1. b \in AgentType(e) /\ SameBut(a, b) /\ b.out = a.out
      /\ ~b.running /\ b.left = 0 /\ b.pending = {}
  <2>1. 0 \in 0 .. ChecksPerRound /\ {} \in SUBSET (PairsOf(e) \X Nat)
    BY AgentAssumption
  <2>2. b \in AgentType(e)
    BY <2>1 DEF StopChecks, AgentType
  <2> QED
    BY <2>2 DEF StopChecks, AgentType, SameBut
<1> HIDE DEF b
<1>2. Good(e, b)
  BY <1>1 DEF Good, Shape, LastPending, WorkingSelection, SameBut
<1> QED
  BY <1>1, <1>2 DEF b

LEMMA FormPairsGood ==
    ASSUME NEW e \in Agent, NEW a, Good(e, a)
    PROVE  LET b == FormPairs(a) IN Good(e, b) /\ SameBut(a, b) /\ b.out = a.out
<1> DEFINE b == FormPairs(a)
           formed == [p \in PairsOf(e) |-> IF a.state[p] = "none" /\ p[1] \in a.local /\ p[2] \in a.remote
                                           THEN "frozen" ELSE a.state[p]]
<1>1. a \in AgentType(e) /\ a.state \in [PairsOf(e) -> PairState]
      /\ a.pending \in SUBSET (PairsOf(e) \X Nat)
  BY DEF Good, AgentType
<1>2. b = [a EXCEPT !.state = formed] /\ formed \in [PairsOf(e) -> PairState]
  BY <1>1 DEF FormPairs, PairState
<1>3. \A p \in PairsOf(e) : a.state[p] = "in-progress" => formed[p] = "in-progress"
  OBVIOUS
<1> HIDE DEF b, formed
<1>4. b \in AgentType(e) /\ SameBut(a, b) /\ b.out = a.out /\ b.running = a.running
      /\ b.left = a.left /\ b.pending = a.pending /\ b.txid = a.txid /\ b.state = formed
  BY <1>1, <1>2 DEF AgentType, SameBut
<1>5. LastPending(b)
  BY <1>1, <1>3, <1>4 DEF Good, LastPending
<1>6. Good(e, b)
  BY <1>4, <1>5 DEF Good, Shape, WorkingSelection, SameBut
<1> QED
  BY <1>4, <1>6 DEF b

LEMMA AddRemoteCandidateGood ==
    ASSUME NEW e \in Agent, NEW a, Good(e, a), NEW t \in TransportsOf[Peer(e)]
    PROVE  LET b == AddRemoteCandidate(e, a, t) IN
           Good(e, b) /\ Asks(a, b) /\ b.open = a.open /\ b.selected = a.selected
<1> DEFINE c == [a EXCEPT !.remote = @ \cup {t}]
           d == FormPairs(c)
           b == AddRemoteCandidate(e, a, t)
<1>1. c \in AgentType(e) /\ c.remote = a.remote \cup {t} /\ c.out = a.out /\ c.running = a.running
      /\ c.left = a.left /\ c.pending = a.pending /\ c.txid = a.txid /\ c.state = a.state
      /\ c.local = a.local /\ c.emitted = a.emitted /\ c.open = a.open /\ c.told = a.told
      /\ c.closed = a.closed /\ c.selected = a.selected
  BY DEF Good, AgentType
<1>2. b = IF d.setRemotes > 0 THEN StartChecks(e, d) ELSE d
  BY DEF AddRemoteCandidate
<1> HIDE DEF c
<1>3. Good(e, c)
  BY <1>1 DEF Good, Shape, LastPending, WorkingSelection
<1>4. Good(e, d) /\ SameBut(c, d) /\ d.out = c.out
  BY <1>3, FormPairsGood
<1> HIDE DEF d, b
<1>5. Good(e, b) /\ SameBut(d, b) /\ Asks(d, b)
  BY <1>2, <1>4, StartChecksGood DEF SameBut, Asks
<1>6. Asks(a, b) /\ b.open = a.open /\ b.selected = a.selected
  BY <1>1, <1>4, <1>5 DEF SameBut, Asks
<1> QED
  BY <1>5, <1>6 DEF b

LEMMA SelectGood ==
    ASSUME NEW e \in Agent, NEW a, Good(e, a), NEW p \in PairsOf(e), Works(p), p[1] \in a.open
    PROVE  LET b == Select(a, p) IN
           Good(e, b) /\ b.out = a.out /\ b.selected # NoPair
<1>1. CASE a.selected # NoPair
  BY <1>1 DEF Select
<1>2. CASE a.selected = NoPair
  <2> DEFINE c == [a EXCEPT !.selected = p]
  <2>1. c \in AgentType(e) /\ c.selected = p /\ c.out = a.out /\ c.remote = a.remote
        /\ c.local = a.local /\ c.emitted = a.emitted /\ c.open = a.open /\ c.told = a.told
    BY DEF Good, AgentType
  <2>2. Select(a, p) = StopChecks(c)
    BY <1>2 DEF Select
  <2> HIDE DEF c
  <2>3. WorkingSelection(c)
    BY <2>1 DEF WorkingSelection
  <2>4. c.emitted \subseteq c.local /\ c.open \subseteq c.local /\ c.told \subseteq c.remote
        /\ \A m \in c.out : WellAddressed(e, m)
    BY <2>1 DEF Good, Shape
  <2> DEFINE b == StopChecks(c)
  <2>5. Good(e, b) /\ SameBut(c, b) /\ b.out = c.out
    BY <2>1, <2>3, <2>4, StopChecksGood
  <2> HIDE DEF b
  <2>6. b.selected # NoPair
    BY <2>1, <2>5, PairsAreNotNoPair DEF SameBut
  <2> QED
    BY <2>1, <2>2, <2>5, <2>6 DEF b
<1> QED
  BY <1>1, <1>2
-----------------------------------------------------------------------------
(* A datagram.                                                             *)

\* It is for e, comes from its peer and over a path that works.
Arrives(e, m) ==
    /\ m \in Message(Peer(e)) /\ WellAddressed(Peer(e), m)
    /\ {m.from, m.to} \in Path

LEMMA ArrivesProperties ==
    ASSUME NEW e \in Agent, NEW m, Arrives(e, m)
    PROVE  /\ m.to \in TransportsOf[e] /\ m.from \in TransportsOf[Peer(e)]
           /\ <<m.to, m.from>> \in PairsOf(e) /\ Works(<<m.to, m.from>>)
           /\ m.check \in (PairsOf(e) \cup PairsOf(Peer(e))) \X Nat
<1>1. m.to \in TransportsOf[e] /\ m.from \in TransportsOf[Peer(e)]
      /\ m.check \in (PairsOf(e) \cup PairsOf(Peer(e))) \X Nat
  BY PeerProperties DEF Arrives, Message
<1>2. {m.to, m.from} \in Path
  <2>1. {m.to, m.from} = {m.from, m.to}
    OBVIOUS
  <2> QED
    BY <2>1 DEF Arrives
<1> QED
  BY <1>1, <1>2 DEF PairsOf, Works

LEMMA FindPairFinds ==
    ASSUME NEW e \in Agent, NEW a, a \in AgentType(e), NEW l, NEW r
    PROVE  FindPair(a, l, r) = <<l, r>>
<1> DEFINE found == {p \in DOMAIN a.state : a.state[p] # "none" /\ p[2] = r /\ p[1] = l}
<1>1. DOMAIN a.state = PairsOf(e)
  BY DEF AgentType
<1>2. \A p \in found : p = <<l, r>>
  BY <1>1 DEF PairsOf
<1>3. CASE found = {}
  BY <1>3 DEF FindPair
<1>4. CASE found # {}
  <2>1. (CHOOSE p \in found : TRUE) \in found
    BY <1>4
  <2>2. FindPair(a, l, r) = CHOOSE p \in found : TRUE
    BY <1>4 DEF FindPair
  <2> QED
    BY <1>2, <2>1, <2>2
<1> QED
  BY <1>3, <1>4

\* What a handler makes of the agent a.  A controlled agent that answers has selected.
Handled(e, a, b) ==
    /\ Good(e, b)
    /\ a.selected # NoPair => b.selected # NoPair
    /\ e = Controlled /\ (\E x \in b.out : x.type = "success" /\ x \notin a.out)
         => b.selected # NoPair

LEMMA HandleBindingRequestGood ==
    ASSUME NEW e \in Agent, NEW a, Good(e, a), NEW m, Arrives(e, m), m.type = "request",
           m.to \in a.open
    PROVE  LET b == HandleBindingRequest(e, a, m) IN
           Handled(e, a, b) /\ (e = Controlling => b.selected = a.selected)
<1> DEFINE answer == [type |-> "success", from |-> m.to, to |-> m.from,
                      check |-> m.check, use |-> FALSE]
           answered == [a EXCEPT !.out = @ \cup {answer}]
           learnt == IF m.from \in a.remote THEN answered ELSE AddRemoteCandidate(e, answered, m.from)
           p == <<m.to, m.from>>
<1>1. m.to \in TransportsOf[e] /\ m.from \in TransportsOf[Peer(e)] /\ p \in PairsOf(e) /\ Works(p)
      /\ m.check \in (PairsOf(e) \cup PairsOf(Peer(e))) \X Nat
  BY ArrivesProperties
<1>2. answer \in Message(e) /\ WellAddressed(e, answer)
  <2>1. m.check[1] = <<m.from, m.to>>
    BY DEF Arrives, WellAddressed
  <2> QED
    BY <1>1, <2>1 DEF Message, WellAddressed
<1>3. a \in AgentType(e)
  BY DEF Good
<1>4. answered \in AgentType(e)
  <2>1. a.out \cup {answer} \in SUBSET Message(e)
    BY <1>2, <1>3 DEF AgentType, Message
  <2> HIDE DEF answer
  <2> QED
    BY <1>3, <2>1 DEF AgentType, Message
<1> HIDE DEF answer
<1>5. answered.out = a.out \cup {answer} /\ SameBut(a, answered) /\ answered.running = a.running
      /\ answered.left = a.left /\ answered.pending = a.pending /\ answered.txid = a.txid
      /\ answered.state = a.state
  BY <1>3 DEF AgentType, SameBut
<1> HIDE DEF answered
<1>6. Good(e, answered)
  BY <1>2, <1>4, <1>5 DEF Good, Shape, LastPending, WorkingSelection, SameBut
<1>7. Good(e, learnt) /\ learnt.open = a.open /\ learnt.selected = a.selected
  BY <1>1, <1>5, <1>6, AddRemoteCandidateGood DEF SameBut
<1> HIDE DEF learnt
<1>8. FindPair(learnt, m.to, m.from) = p
  BY <1>7, FindPairFinds DEF Good
<1>9. HandleBindingRequest(e, a, m) =
        IF m.use /\ e = Controlled THEN Select(learnt, p) ELSE learnt
  BY <1>8 DEF HandleBindingRequest, learnt, answered, answer
<1>10. CASE m.use /\ e = Controlled
  <2>1. Good(e, Select(learnt, p)) /\ Select(learnt, p).selected # NoPair
    BY <1>1, <1>7, SelectGood
  <2>2. e # Controlling
    BY <1>10, AgentAssumption
  <2> QED
    BY <1>9, <1>10, <2>1, <2>2 DEF Handled
<1>11. CASE ~(m.use /\ e = Controlled)
  <2>1. e # Controlled
    BY <1>11, PeerProperties DEF Arrives, WellAddressed, Peer
  <2> QED
    BY <1>7, <1>9, <1>11, <2>1 DEF Handled
<1> QED
  BY <1>10, <1>11

LEMMA HandleBindingSuccessGood ==
    ASSUME NEW e \in Agent, NEW a, Good(e, a), NEW m, Arrives(e, m), m.type = "success",
           m.to \in a.open
    PROVE  Handled(e, a, HandleBindingSuccess(e, a, m))
<1> DEFINE p == m.check[1]
           c == [a EXCEPT !.pending = @ \ {m.check}, !.txid[p] = 0, !.state[p] = "succeeded"]
<1>1. p = <<m.to, m.from>> /\ p \in PairsOf(e) /\ Works(p) /\ p[1] \in a.open
  <2>1. m.check[1] = <<m.to, m.from>>
    BY DEF Arrives, WellAddressed
  <2>2. <<m.to, m.from>> \in PairsOf(e) /\ Works(<<m.to, m.from>>)
    BY ArrivesProperties
  <2> QED
    BY <2>1, <2>2
<1>2. CASE m.check \notin a.pending
  BY <1>2 DEF HandleBindingSuccess, Handled
<1>3. CASE m.check \in a.pending
  <2>1. a \in AgentType(e) /\ LastPending(a)
    BY DEF Good
  <2>2. /\ a.txid \in [PairsOf(e) -> Nat] /\ a.state \in [PairsOf(e) -> PairState]
        /\ a.pending \in SUBSET (PairsOf(e) \X Nat)
    BY <2>1 DEF AgentType
  <2> DEFINE pe == a.pending \ {m.check}
             tx == [a.txid EXCEPT ![p] = 0]
             st == [a.state EXCEPT ![p] = "succeeded"]
  <2>3. c = [a EXCEPT !.pending = pe, !.txid = tx, !.state = st]
    BY <2>1 DEF AgentType
  <2>4. pe \in SUBSET (PairsOf(e) \X Nat) /\ tx \in [PairsOf(e) -> Nat]
        /\ st \in [PairsOf(e) -> PairState]
    BY <2>2 DEF PairState
  <2>5. \A x \in pe : tx[x[1]] = x[2] /\ st[x[1]] = "in-progress"
    <3> SUFFICES ASSUME NEW x \in pe
                 PROVE  tx[x[1]] = x[2] /\ st[x[1]] = "in-progress"
      OBVIOUS
    <3>1. x \in a.pending /\ x # m.check /\ x[1] \in PairsOf(e) /\ x = <<x[1], x[2]>>
          /\ m.check = <<p, m.check[2]>>
      BY <1>3, <2>2
    <3>2. a.txid[x[1]] = x[2] /\ a.state[x[1]] = "in-progress" /\ a.txid[p] = m.check[2]
      BY <1>3, <2>1, <3>1 DEF LastPending
    <3>3. x[1] # p
      BY <3>1, <3>2
    <3> QED
      BY <2>2, <3>1, <3>2, <3>3
  <2> HIDE DEF pe, tx, st, c, p
  <2>6. c \in AgentType(e)
    BY <2>1, <2>3, <2>4 DEF AgentType
  <2>7. c.pending = pe /\ c.txid = tx /\ c.state = st /\ SameBut(a, c) /\ c.out = a.out
        /\ c.running = a.running /\ c.left = a.left
    BY <2>1, <2>3 DEF AgentType, SameBut
  <2>8. a.pending = {} => pe = {}
    BY DEF pe
  <2>9. Good(e, c)
    BY <2>5, <2>6, <2>7, <2>8 DEF Good, Shape, LastPending, WorkingSelection, SameBut
  <2>10. HandleBindingSuccess(e, a, m) = IF e = Controlling THEN Select(c, p) ELSE c
    BY <1>3 DEF HandleBindingSuccess, c, p
  <2>11. Good(e, Select(c, p)) /\ Select(c, p).selected # NoPair
    BY <1>1, <2>7, <2>9, SelectGood DEF SameBut
  <2>12. CASE e = Controlling
    BY <2>10, <2>11, <2>12, AgentAssumption DEF Handled
  <2>13. CASE e # Controlling
    BY <2>7, <2>9, <2>10, <2>13 DEF Handled, SameBut
  <2> QED
    BY <2>12, <2>13
<1> QED
  BY <1>2, <1>3

LEMMA OnDatagramGood ==
    ASSUME NEW e \in Agent, NEW a, Good(e, a), NEW m, Arrives(e, m)
    PROVE  LET b == OnDatagram(e, a, m) IN
           /\ Handled(e, a, b)
           /\ e = Controlling /\ b.selected # NoPair => a.selected # NoPair \/ m.type = "success"
<1>1. m.type = "request" \/ m.type = "success"
  BY DEF Arrives, Message
<1>2. CASE m.to \notin a.open
  BY <1>2 DEF OnDatagram, Handled
<1>3. CASE m.to \in a.open /\ m.type = "request"
  BY <1>3, HandleBindingRequestGood DEF OnDatagram
<1>4. CASE m.to \in a.open /\ m.type = "success"
  BY <1>4, HandleBindingSuccessGood DEF OnDatagram
<1> QED
  BY <1>1, <1>2, <1>3, <1>4
-----------------------------------------------------------------------------
(* The steps.                                                              *)

\* A step of one agent.
LEMMA PutKeepsInv ==
    ASSUME Inv, NEW e \in Agent, NEW a, NEW rest \in SUBSET net, Put(e, a, rest),
           Good(e, a), faults' \in 0 .. MaxFaults,
           agent[e].selected # NoPair => a.selected # NoPair,
           e = Controlling /\ a.selected # NoPair => Selected(Controlled),
           e = Controlled /\ (\E m \in a.out : m.type = "success") => a.selected # NoPair
    PROVE  Inv'
<1> DEFINE b == [a EXCEPT !.out = {}]
<1>1. a \in AgentType(e)
  BY DEF Good
<1>2. b \in AgentType(e) /\ SameBut(a, b) /\ b.out = {} /\ b.running = a.running /\ b.left = a.left
      /\ b.pending = a.pending /\ b.txid = a.txid /\ b.state = a.state
  BY <1>1 DEF AgentType, SameBut
<1>3. agent' = [agent EXCEPT ![e] = b]
      /\ net' = rest \cup {m \in a.out : {m.from, m.to} \in Path}
  BY DEF Put
<1> HIDE DEF b
<1>4. Good(e, b)
  BY <1>2 DEF Good, Shape, LastPending, WorkingSelection, SameBut
<1>5. agent = [f \in Agent |-> agent[f]] /\ NetInv
      /\ (\A f \in Agent : Good(f, agent[f]) /\ agent[f].out = {})
      /\ (Selected(Controlling) => Selected(Controlled))
  BY DEF Inv
<1>6. agent' = [f \in Agent |-> IF f = e THEN b ELSE agent[f]]
  BY <1>3, <1>5
<1>7. Controlling \in Agent /\ Controlled \in Agent /\ Controlling # Controlled
  BY AgentAssumption DEF Agent
<1>8. Selected(Controlled) => Selected(Controlled)'
  BY <1>2, <1>6, <1>7 DEF Selected, SameBut
<1>9. Selected(Controlling)' => Selected(Controlled)'
  <2>1. CASE e = Controlling
    BY <1>2, <1>6, <1>7, <1>8, <2>1 DEF Selected, SameBut
  <2>2. CASE e # Controlling
    BY <1>5, <1>6, <1>7, <1>8, <2>2 DEF Selected
  <2> QED
    BY <2>1, <2>2
<1>10. NetInv'
  <2> SUFFICES ASSUME NEW m \in net'
               PROVE  /\ {m.from, m.to} \in Path
                      /\ \E f \in Agent : m \in Message(f) /\ WellAddressed(f, m)
                      /\ m.type = "success" /\ m.to \in TransportsOf[Controlling]
                           => Selected(Controlled)'
    BY DEF NetInv
  <2>1. CASE m \in rest
    BY <1>5, <1>8, <2>1 DEF NetInv
  <2>2. CASE m \in a.out /\ {m.from, m.to} \in Path
    <3>1. m \in Message(e) /\ WellAddressed(e, m) /\ m.to \in TransportsOf[Peer(e)]
      BY <1>1, <2>2 DEF AgentType, Message, Good
    <3>2. ASSUME m.type = "success", m.to \in TransportsOf[Controlling]
          PROVE  Selected(Controlled)'
      <4>1. e = Controlled
        BY <3>1, <3>2, AgentAssumption DEF Agent, Peer
      <4> QED
        BY <1>2, <1>6, <1>7, <2>2, <3>2, <4>1 DEF Selected, SameBut
    <3> QED
      BY <2>2, <3>1, <3>2
  <2> QED
    BY <1>3, <2>1, <2>2
<1>11. agent' = [f \in Agent |-> agent'[f]]
       /\ \A f \in Agent : Good(f, agent'[f]) /\ agent'[f].out = {}
  BY <1>2, <1>4, <1>5, <1>6
<1> QED
  BY <1>9, <1>10, <1>11 DEF Inv

\* Most steps select nothing and answer nothing.
LEMMA QuietPut ==
    ASSUME Inv, NEW e \in Agent, NEW a, NEW rest \in SUBSET net, Put(e, a, rest),
           Good(e, a), faults' \in 0 .. MaxFaults,
           a.selected = agent[e].selected, Asks(agent[e], a)
    PROVE  Inv'
<1>1. agent[e].out = {} /\ (Selected(Controlling) => Selected(Controlled))
  BY DEF Inv
<1>2. ~\E m \in a.out : m.type = "success"
  BY <1>1 DEF Asks
<1> QED
  BY <1>1, <1>2, PutKeepsInv DEF Selected

LEMMA OwnerKeepsInv ==
    ASSUME Inv, NEW e \in Agent, Gather(e) \/ SetRemote(e) \/ AddRemote(e) \/ Close(e)
    PROVE  Inv'
<1> DEFINE old == agent[e]
<1>1. Good(e, old) /\ faults \in 0 .. MaxFaults /\ net \in SUBSET net
  BY DEF Inv
<1>2. old \in AgentType(e) /\ Shape(old) /\ LastPending(old) /\ WorkingSelection(old)
      /\ \A m \in old.out : WellAddressed(e, m)
  BY <1>1 DEF Good
<1>3. CASE Gather(e)
  <2>1. PICK t \in TransportsOf[e] \ old.local :
          Put(e, [old EXCEPT !.local = @ \cup {t}, !.open = @ \cup {t},
                             !.emitted = IF old.closed THEN @ ELSE @ \cup {t}], net)
    BY <1>3 DEF Gather
  <2> DEFINE lo == old.local \cup {t}
             op == old.open \cup {t}
             em == IF old.closed THEN old.emitted ELSE old.emitted \cup {t}
             a == [old EXCEPT !.local = lo, !.open = op, !.emitted = em]
  <2>2. lo \in SUBSET TransportsOf[e] /\ op \in SUBSET TransportsOf[e] /\ em \in SUBSET TransportsOf[e]
        /\ em \subseteq lo /\ op \subseteq lo /\ old.open \subseteq op
    BY <1>2 DEF AgentType, Shape
  <2>3. Put(e, a, net)
    BY <2>1
  <2> HIDE DEF lo, op, em, old
  <2>4. a \in AgentType(e)
    BY <1>2, <2>2 DEF AgentType
  <2>5. a.local = lo /\ a.open = op /\ a.emitted = em /\ a.remote = old.remote /\ a.told = old.told
        /\ a.closed = old.closed /\ a.running = old.running /\ a.left = old.left
        /\ a.pending = old.pending /\ a.txid = old.txid /\ a.state = old.state
        /\ a.selected = old.selected /\ a.out = old.out
    BY <1>2 DEF AgentType
  <2> HIDE DEF a
  <2>6. Good(e, a)
    BY <1>2, <2>2, <2>4, <2>5 DEF Good, Shape, LastPending, WorkingSelection
  <2>7. Asks(old, a) /\ faults' \in 0 .. MaxFaults
    BY <1>1, <1>3, <2>5 DEF Asks, Gather
  <2> QED
    BY <1>1, <2>3, <2>5, <2>6, <2>7, QuietPut DEF old
<1>4. CASE SetRemote(e)
  <2> DEFINE c == [old EXCEPT !.setRemotes = @ + 1]
             a == IF c.remote # {} THEN StartChecks(e, c) ELSE c
  <2>1. Put(e, a, net) /\ faults' = faults /\ old.setRemotes + 1 \in 0 .. MaxSetRemote
    BY <1>2, <1>4, AgentAssumption DEF SetRemote, AgentType
  <2>2. c \in AgentType(e)
    BY <1>2, <2>1 DEF AgentType
  <2>3. c.local = old.local /\ c.open = old.open /\ c.emitted = old.emitted
        /\ c.remote = old.remote /\ c.told = old.told
        /\ c.closed = old.closed /\ c.running = old.running /\ c.left = old.left
        /\ c.pending = old.pending /\ c.txid = old.txid /\ c.state = old.state
        /\ c.selected = old.selected /\ c.out = old.out
    BY <1>2 DEF AgentType
  <2> HIDE DEF c, old
  <2>4. Good(e, c)
    BY <1>2, <2>2, <2>3 DEF Good, Shape, LastPending, WorkingSelection
  <2>5. Good(e, a) /\ SameBut(c, a) /\ Asks(c, a)
    BY <2>4, StartChecksGood DEF SameBut, Asks
  <2> HIDE DEF a
  <2>6. Asks(old, a) /\ a.selected = old.selected
    BY <2>3, <2>5 DEF Asks, SameBut
  <2> QED
    BY <1>1, <2>1, <2>5, <2>6, QuietPut DEF old
<1>5. CASE AddRemote(e)
  <2>1. PICK t \in agent[Peer(e)].emitted \ old.told :
          Put(e, AddRemoteCandidate(e, [old EXCEPT !.told = @ \cup {t}], t), net)
    BY <1>5 DEF AddRemote
  <2>2. t \in TransportsOf[Peer(e)]
    BY PeerProperties DEF Inv, Good, AgentType
  <2> DEFINE to == old.told \cup {t}
             c == [old EXCEPT !.told = to]
             d == [c EXCEPT !.remote = @ \cup {t}]
             f == FormPairs(d)
             a == AddRemoteCandidate(e, c, t)
  <2>3. Put(e, a, net) /\ faults' = faults
    BY <1>5, <2>1 DEF AddRemote
  <2>4. to \in SUBSET TransportsOf[Peer(e)]
    BY <1>2, <2>2 DEF AgentType
  <2> HIDE DEF to, old
  <2>5. c \in AgentType(e)
    BY <1>2, <2>4 DEF AgentType
  <2>6. c.local = old.local /\ c.open = old.open /\ c.emitted = old.emitted
        /\ c.remote = old.remote /\ c.told = to
        /\ c.closed = old.closed /\ c.running = old.running /\ c.left = old.left
        /\ c.pending = old.pending /\ c.txid = old.txid /\ c.state = old.state
        /\ c.selected = old.selected /\ c.out = old.out
    BY <1>2 DEF AgentType
  <2> HIDE DEF c
  <2>7. d \in AgentType(e) /\ d.remote = c.remote \cup {t} /\ d.told = c.told /\ d.out = c.out
        /\ d.local = c.local /\ d.open = c.open /\ d.emitted = c.emitted
        /\ d.closed = c.closed /\ d.running = c.running /\ d.left = c.left
        /\ d.pending = c.pending /\ d.txid = c.txid /\ d.state = c.state
        /\ d.selected = c.selected
    <3>1. c.remote \cup {t} \in SUBSET TransportsOf[Peer(e)]
      BY <2>2, <2>5 DEF AgentType
    <3>2. d \in AgentType(e)
      BY <2>5, <3>1 DEF AgentType
    <3> QED
      BY <2>5, <3>2 DEF AgentType
  <2>8. a = IF f.setRemotes > 0 THEN StartChecks(e, f) ELSE f
    BY DEF AddRemoteCandidate
  <2> HIDE DEF d
  <2>9. Good(e, d)
    BY <1>2, <2>6, <2>7 DEF Good, Shape, LastPending, WorkingSelection, to
  <2>10. Good(e, f) /\ SameBut(d, f) /\ f.out = d.out
    BY <2>9, FormPairsGood
  <2> HIDE DEF f, a
  <2>11. Good(e, a) /\ SameBut(f, a) /\ Asks(f, a)
    BY <2>8, <2>10, StartChecksGood DEF SameBut, Asks
  <2>12. Asks(old, a) /\ a.selected = old.selected
    BY <2>6, <2>7, <2>10, <2>11 DEF Asks, SameBut
  <2> QED
    BY <1>1, <2>3, <2>11, <2>12, QuietPut DEF old
<1>6. CASE Close(e)
  <2> DEFINE c == [old EXCEPT !.closed = TRUE, !.open = {}]
             a == StopChecks(c)
  <2>1. Put(e, a, net) /\ faults' = faults
    BY <1>6 DEF Close
  <2> HIDE DEF old
  <2>2. c \in AgentType(e)
    <3>1. {} \in SUBSET TransportsOf[e]
      OBVIOUS
    <3> QED
      BY <1>2, <3>1 DEF AgentType
  <2>3. c.local = old.local /\ c.open = {} /\ c.emitted = old.emitted
        /\ c.remote = old.remote /\ c.told = old.told /\ c.closed
        /\ c.selected = old.selected /\ c.out = old.out
    BY <1>2 DEF AgentType
  <2> HIDE DEF c
  <2>4. WorkingSelection(c)
    BY <1>2, <2>3 DEF WorkingSelection
  <2>5. Good(e, a) /\ SameBut(c, a) /\ a.out = c.out
    BY <1>2, <2>2, <2>3, <2>4, StopChecksGood DEF Shape
  <2> HIDE DEF a
  <2>6. Asks(old, a) /\ a.selected = old.selected
    BY <2>3, <2>5 DEF Asks, SameBut
  <2> QED
    BY <1>1, <2>1, <2>5, <2>6, QuietPut DEF old
<1> QED
  BY <1>3, <1>4, <1>5, <1>6

LEMMA TimersKeepInv ==
    ASSUME Inv, NEW e \in Agent, Tick(e) \/ Timeout(e)
    PROVE  Inv'
<1> DEFINE old == agent[e]
<1>1. Good(e, old) /\ faults \in 0 .. MaxFaults /\ net \in SUBSET net
  BY DEF Inv
<1>2. old \in AgentType(e) /\ Shape(old) /\ LastPending(old) /\ WorkingSelection(old)
      /\ \A m \in old.out : WellAddressed(e, m)
  BY <1>1 DEF Good
<1>3. Overtake(e) => faults' \in 0 .. MaxFaults
  BY <1>1, AgentAssumption DEF Overtake
<1>4. CASE Tick(e)
  <2> DEFINE c == [old EXCEPT !.left = @ - 1]
             a == TickOnce(e, c)
  <2>1. Put(e, a, net) /\ faults' \in 0 .. MaxFaults /\ old.running
    BY <1>3, <1>4 DEF Tick
  <2>2. old.left - 1 \in 0 .. ChecksPerRound
    BY <1>2, <1>4, AgentAssumption DEF Tick, AgentType
  <2> HIDE DEF old
  <2>3. c \in AgentType(e)
    BY <1>2, <2>2 DEF AgentType
  <2>4. c.local = old.local /\ c.open = old.open /\ c.emitted = old.emitted
        /\ c.remote = old.remote /\ c.told = old.told
        /\ c.closed = old.closed /\ c.running = old.running
        /\ c.pending = old.pending /\ c.txid = old.txid /\ c.state = old.state
        /\ c.selected = old.selected /\ c.out = old.out
    BY <1>2 DEF AgentType
  <2> HIDE DEF c
  <2>5. Good(e, c)
    BY <1>2, <2>1, <2>3, <2>4 DEF Good, Shape, LastPending, WorkingSelection
  <2>6. Good(e, a) /\ SameBut(c, a) /\ Asks(c, a)
    BY <2>1, <2>4, <2>5, TickOnceGood
  <2> HIDE DEF a
  <2>7. Asks(old, a) /\ a.selected = old.selected
    BY <2>4, <2>6 DEF Asks, SameBut
  <2> QED
    BY <1>1, <2>1, <2>6, <2>7, QuietPut DEF old
<1>5. CASE Timeout(e)
  <2> DEFINE c == [old EXCEPT !.failed = @ \/ old.selected = NoPair]
             a == StopChecks(c)
  <2>1. Put(e, a, net) /\ faults' \in 0 .. MaxFaults
    BY <1>3, <1>5 DEF Timeout, TimeoutAfter
  <2> HIDE DEF old
  <2>2. c \in AgentType(e)
    BY <1>2 DEF AgentType
  <2>3. SameBut(old, c) /\ c.out = old.out
    BY <1>2 DEF AgentType, SameBut
  <2> HIDE DEF c
  <2>4. WorkingSelection(c)
    BY <1>2, <2>3 DEF WorkingSelection, SameBut
  <2>5. Good(e, a) /\ SameBut(c, a) /\ a.out = c.out
    BY <1>2, <2>2, <2>3, <2>4, StopChecksGood DEF Shape, SameBut
  <2> HIDE DEF a
  <2>6. Asks(old, a) /\ a.selected = old.selected
    BY <2>3, <2>5 DEF Asks, SameBut
  <2> QED
    BY <1>1, <2>1, <2>5, <2>6, QuietPut DEF old
<1> QED
  BY <1>4, <1>5

LEMMA ReceiveKeepsInv ==
    ASSUME Inv, NEW e \in Agent, NEW kept \in BOOLEAN, Receive(e, kept)
    PROVE  Inv'
<1> DEFINE old == agent[e]
<1>1. PICK m \in net : /\ m.to \in TransportsOf[e]
                       /\ Put(e, OnDatagram(e, old, m), IF kept THEN net ELSE net \ {m})
  BY DEF Receive
<1> DEFINE a == OnDatagram(e, old, m)
           rest == IF kept THEN net ELSE net \ {m}
<1>2. Good(e, old) /\ old.out = {} /\ NetInv /\ (Selected(Controlling) => Selected(Controlled))
      /\ faults \in 0 .. MaxFaults
  BY DEF Inv
<1>3. faults' \in 0 .. MaxFaults
  BY <1>2, AgentAssumption DEF Receive
<1>4. Arrives(e, m)
  <2>1. PICK f \in Agent : m \in Message(f) /\ WellAddressed(f, m)
    BY <1>2 DEF NetInv
  <2>2. m.to \in TransportsOf[Peer(f)]
    BY <2>1 DEF Message
  <2>3. f = Peer(e)
    BY <1>1, <2>2, AgentAssumption DEF Agent, Peer
  <2> QED
    BY <1>2, <2>1, <2>3 DEF Arrives, NetInv
<1>5. /\ Handled(e, old, a)
      /\ e = Controlling /\ a.selected # NoPair => old.selected # NoPair \/ m.type = "success"
  BY <1>2, <1>4, OnDatagramGood
<1>6. m.type = "success" /\ e = Controlling => Selected(Controlled)
  BY <1>1, <1>2 DEF NetInv
<1>7. rest \in SUBSET net
  OBVIOUS
<1>8. Put(e, a, rest)
  BY <1>1
<1> HIDE DEF a, rest
<1>9. e = Controlling /\ a.selected # NoPair => Selected(Controlled)
  BY <1>2, <1>5, <1>6 DEF Selected
<1>10. e = Controlled /\ (\E x \in a.out : x.type = "success") => a.selected # NoPair
  BY <1>2, <1>5 DEF Handled
<1> QED
  BY <1>3, <1>5, <1>7, <1>8, <1>9, <1>10, PutKeepsInv DEF Handled

LEMMA StepInv == Inv /\ [Next]_vars => Inv'
<1>1. ASSUME Inv, UNCHANGED vars PROVE Inv'
  BY <1>1 DEF Inv, NetInv, Selected, vars
<1>2. ASSUME Inv, Lose PROVE Inv'
  <2>1. agent' = agent /\ net' \subseteq net /\ faults' \in 0 .. MaxFaults
    BY <1>2, AgentAssumption DEF Lose, Inv
  <2>2. NetInv'
    BY <1>2, <2>1 DEF Inv, NetInv, Selected
  <2> QED
    BY <1>2, <2>1, <2>2 DEF Inv, Selected
<1> QED
  BY <1>1, <1>2, OwnerKeepsInv, TimersKeepInv, ReceiveKeepsInv DEF Next

LEMMA Invariant == Spec => []Inv
BY InitInv, StepInv, PTL DEF Spec
-----------------------------------------------------------------------------
\* Every variable keeps its type; an agent that checks nothing has no check pending,
\* and a closed one has no timers (ice-agent.ts 466-485, 621-632).
THEOREM TypeCorrect == Spec => []TypeOK
<1>1. Inv => TypeOK
  <2> SUFFICES ASSUME Inv PROVE TypeOK
    OBVIOUS
  <2>1. \A m \in net : {m.from, m.to} \in Path
    BY DEF Inv, NetInv
  <2>2. ASSUME NEW e \in Agent
        PROVE  /\ agent[e] \in AgentType(e) /\ Shape(agent[e]) /\ agent[e].out = {}
    BY DEF Inv, Good
  <2>3. faults \in 0 .. MaxFaults
    BY DEF Inv
  <2> QED
    BY <2>1, <2>2, <2>3 DEF TypeOK, AgentType, Shape
<1> QED
  BY <1>1, Invariant, PTL

\* However often a pair is checked, one check of it at most is pending, the last one
\* sent (ice-agent.ts 495-518, 566-578).
THEOREM PendingBounded == Spec => []OnePending
<1>1. Inv => OnePending
  BY DEF Inv, Good, LastPending, OnePending
<1> QED
  BY <1>1, Invariant, PTL

\* What an agent selects works, on a transport of its own that is open, and the
\* controlling agent is never connected alone (ice-agent.ts 541-605).
THEOREM SelectionsWork == Spec => []SelectionWorks
<1>1. Inv => SelectionWorks
  BY DEF Inv, Good, WorkingSelection, SelectionWorks, Selected
<1> QED
  BY <1>1, Invariant, PTL
=============================================================================
