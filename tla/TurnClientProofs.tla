-------------------------- MODULE TurnClientProofs --------------------------
(***************************************************************************)
(* That the calls of TurnClient are typed, timed and settled for a cause,  *)
(* for every set of peers and every number of nonces and repeats.          *)
(***************************************************************************)
EXTENDS TurnClient, TLAPS

\* Where the calls are at each stage of the link, and what the table of
\* transactions holds: only Ask comes before a relay, the client of an address is
\* closed with its call, and before close() the table is that of the timers.
StageInv ==
    /\ link = "none" => call[Ask] = "idle"
    /\ link = "opening" <=> call[Ask] = "connecting"
    /\ call[Ask] = "idle" => link = "none"
    /\ call[Ask] \in {"idle", "connecting"} => attempt[Ask] = 0
    /\ \A c \in Call \ {Ask} : call[c] # "idle" => call[Ask] = "resolved" /\ asks = "allocate"
    /\ \A c \in Call \ {Ask} : call[c] # "connecting"
    /\ asks = "binding" => ~secure /\ link # "broken"
    /\ asks = "binding" => (link = "closed" <=> call[Ask] \in {"resolved", "rejected"})
    /\ link = "closed" \/ transactions = timers

\* Answers come from the server, and a challenge carries a nonce.
GenuineInv ==
    /\ net \cap Answer \subseteq server.answers
    /\ server.nonce # 0
    /\ \A m \in server.answers : m.type \in {"401", "438"} => m.nonce # 0

\* What SettledForCause says of a call that has been settled.
Settled(c) ==
    /\ call[c] = "resolved" => Answered(c, {"success"})
    /\ call[c] = "rejected" =>
         \/ Answered(c, {"438", "refused"})
         \/ attempt[c] = 2 /\ Answered(c, {"401"})
         \/ attempt[c] = 0 \/ <<c, attempt[c]>> \in failed

\* What the relay has sent first is of a call that has been resolved.
FirstInv == \A m \in net : m.type = "first" => call[m.id[1]] = "resolved"

-----------------------------------------------------------------------------
LEMMA InitTyped == Init => TypeOK
BY CallAssumption DEF Init, TypeOK, Call, Link, Phase, Attempt

\* A request of the client.
LEMMA RequestTyped ==
    ASSUME NEW c \in Call, NEW n \in {1, 2}, nonce' \in Nat
    PROVE  RequestOf(c, n) \in Request
BY DEF RequestOf, Request, Attempt

\* A datagram that begins a relayed conversation.
LEMMA FirstTyped ==
    ASSUME NEW c \in Call
    PROVE  [type |-> "first", id |-> <<c, 1>>] \in Indication
BY DEF Indication, Attempt

LEMMA LaterTyped ==
    ASSUME NEW c \in Call
    PROVE  [type |-> "later", id |-> <<c, 1>>] \in Indication
BY DEF Indication, Attempt

\* The step of ServerAnswers for one request and one kind of answer.
Reply(m, type) ==
    [type |-> type, id |-> m.id, nonce |-> IF type \in {"401", "438"} THEN server.nonce ELSE 0]

Replies(kept, m, type) ==
    /\ kept => repeats < MaxRepeats
    /\ repeats' = IF kept THEN repeats + 1 ELSE repeats
    /\ net' = Rest(m, kept) \cup {Reply(m, type)}
    /\ server' = [server EXCEPT !.answers = @ \cup {Reply(m, type)}]
    /\ UNCHANGED <<asks, secure, link, call, attempt, transactions, timers, nonce, permitted, failed>>

LEMMA ReplyTyped ==
    ASSUME TypeOK, NEW m \in Request, NEW type \in AnswerTypes(m)
    PROVE  Reply(m, type) \in Answer
BY DEF Reply, AnswerTypes, Answer, Request, TypeOK

LEMMA StepTyped == TypeOK /\ [Next]_vars => TypeOK'
<1> SUFFICES ASSUME TypeOK, [Next]_vars PROVE TypeOK'
  OBVIOUS
<1> USE CallAssumption
<1>1. CASE Connect
  BY <1>1 DEF TypeOK, Connect, Link, Phase, Call
<1>2. CASE LinkUp
  <2>1. RequestOf(Ask, 1) \in Request
    BY <1>2, RequestTyped DEF TypeOK, LinkUp, Call
  <2> QED
    BY <1>2, <2>1 DEF TypeOK, LinkUp, Link, Phase, Call, Attempt
<1>3. CASE LinkFails
  BY <1>3 DEF TypeOK, LinkFails, LinkAfter, Link, Phase, Call
<1>4. CASE LinkDies
  BY <1>4 DEF TypeOK, LinkDies, Link
<1>5. ASSUME NEW c \in Call, Begin(c) PROVE TypeOK' \/ permitted' \notin SUBSET Peer
  <2>1. RequestOf(c, 1) \in Request
    BY <1>5, RequestTyped DEF TypeOK, Begin
  <2> QED
    BY <1>5, <2>1 DEF TypeOK, Begin, Phase, Attempt
<1>6. CASE RefreshAllocation
  BY <1>5, <1>6 DEF RefreshAllocation, TypeOK, Call
<1>7. ASSUME NEW p \in Peer, RelaySendFirst(p) PROVE TypeOK'
  BY <1>5, <1>7 DEF RelaySendFirst, TypeOK, Call
<1>8. ASSUME NEW p \in Peer, RelaySendLater(p) PROVE TypeOK'
  <2>1. [type |-> "later", id |-> <<p, 1>>] \in Indication
    BY LaterTyped DEF Call
  <2> QED
    BY <1>8, <2>1 DEF RelaySendLater, TypeOK
<1>9. CASE Close
  BY <1>9 DEF TypeOK, Close, Link
<1>10. ASSUME NEW kept \in BOOLEAN, NEW m \in net, Take(m, kept)
       PROVE  /\ m.id \in Attempt /\ m.id[1] \in Call /\ m.id[2] \in {1, 2}
              /\ m.id = <<m.id[1], m.id[2]>>
              /\ m.nonce \in Nat
              /\ repeats' \in 0 .. MaxRepeats
              /\ Rest(m, kept) \subseteq Request \cup Answer \cup Indication
  BY <1>10 DEF Take, TypeOK, Answer, Attempt, Rest
<1>11. ASSUME NEW kept \in BOOLEAN, NEW m \in net, ReceiveUnmatched(m, kept) PROVE TypeOK'
  BY <1>10, <1>11 DEF ReceiveUnmatched, Take, TypeOK
<1>12. ASSUME NEW kept \in BOOLEAN, NEW m \in net, ReceiveSuccess(m, kept) PROVE TypeOK'
  <2>1. Take(m, kept)
    BY <1>12 DEF ReceiveSuccess, Take
  <2>2. [type |-> "first", id |-> <<m.id[1], 1>>] \in Indication
    BY <1>10, <2>1, FirstTyped
  <2> QED
    BY <1>10, <1>12, <2>1, <2>2 DEF ReceiveSuccess, Take, TypeOK, LinkAfter, Link, Phase
<1>13. ASSUME NEW kept \in BOOLEAN, NEW m \in net, ReceiveChallenge(m, kept) PROVE TypeOK'
  <2>1. Take(m, kept)
    BY <1>13 DEF ReceiveChallenge, Take
  <2>2. m.id[2] + 1 = 2
    BY <1>10, <1>13, <2>1 DEF ReceiveChallenge, Take, Retries
  <2>3. RequestOf(m.id[1], 2) \in Request /\ <<m.id[1], 2>> \in Attempt
    BY <1>10, <1>13, <2>1, RequestTyped DEF ReceiveChallenge, Take, Attempt
  <2> QED
    BY <1>10, <1>13, <2>1, <2>2, <2>3 DEF ReceiveChallenge, Take, TypeOK
<1>14. ASSUME NEW kept \in BOOLEAN, NEW m \in net, ReceiveError(m, kept) PROVE TypeOK'
  BY <1>10, <1>14 DEF ReceiveError, Take, TypeOK, LinkAfter, Link, Phase
<1>21. ASSUME NEW t \in Attempt, EndUnanswered(t), net' \subseteq net PROVE TypeOK'
  <2>1. t[1] \in Call
    BY DEF Attempt
  <2> QED
    BY <1>21, <2>1 DEF EndUnanswered, TypeOK, LinkAfter, Link, Phase
<1>15. ASSUME NEW t \in timers, Timeout(t) PROVE TypeOK'
  BY <1>15, <1>21 DEF Timeout, TypeOK
<1>22. ASSUME NEW m \in net, SendFails(m) PROVE TypeOK'
  BY <1>21, <1>22 DEF SendFails, Request
<1>16. ASSUME NEW kept \in BOOLEAN, ServerAnswers(kept) PROVE TypeOK'
  <2>1. PICK m \in net \cap Request : \E type \in AnswerTypes(m) : Replies(kept, m, type)
    BY <1>16 DEF ServerAnswers, Replies, Reply
  <2>2. PICK type \in AnswerTypes(m) : Replies(kept, m, type)
    BY <2>1
  <2>3. Reply(m, type) \in Answer
    BY <2>2, ReplyTyped
  <2> QED
    BY <2>2, <2>3 DEF TypeOK, Rest, Replies
<1>17. CASE ServerRelays
  BY <1>17 DEF ServerRelays, TypeOK
<1>18. CASE NewNonce
  BY <1>18 DEF NewNonce, TypeOK
<1>20. CASE UNCHANGED vars
  BY <1>20 DEF TypeOK, vars
<1> QED
  BY <1>1, <1>2, <1>3, <1>4, <1>6, <1>7, <1>8, <1>9, <1>11, <1>12, <1>13, <1>14, <1>15,
     <1>16, <1>17, <1>18, <1>20, <1>22 DEF Next, Receive

\* Every variable of the client keeps its type, and with it a call is never tried
\* more than twice (stun-client.ts 417-468).
THEOREM TypeCorrect == Spec => []TypeOK
BY InitTyped, StepTyped, PTL DEF Spec
-----------------------------------------------------------------------------
\* A step that takes an answer to an attempt that is in the table.
LEMMA MatchedProperties ==
    ASSUME TypeOK, PendingTimed, StageInv,
           NEW kept \in BOOLEAN, NEW m \in net, Take(m, kept), Matches(m)
    PROVE  /\ m.id = <<m.id[1], attempt[m.id[1]]>>
           /\ m.id[1] \in Call /\ m.id[2] \in {1, 2}
           /\ call[m.id[1]] = "waiting"
           /\ m.id \in timers
           /\ link = "up"
<1>1. link = "up" /\ m.id \in transactions
  BY DEF Take, Matches
<1>2. m.id \in timers /\ timers = {<<c, attempt[c]>> : c \in {c \in Call : call[c] = "waiting"}}
  BY <1>1 DEF PendingTimed
<1>3. PICK c \in Call : call[c] = "waiting" /\ m.id = <<c, attempt[c]>>
  BY <1>2
<1>4. m.id \in Attempt
  BY <1>2 DEF TypeOK
<1> QED
  BY <1>1, <1>2, <1>3, <1>4 DEF Attempt

\* What ends without an answer is an attempt.
LEMMA UnansweredProperties ==
    ASSUME TypeOK
    PROVE  /\ \A t \in timers : Timeout(t) => t \in Attempt /\ EndUnanswered(t)
           /\ \A m \in net : SendFails(m) => m.id \in Attempt /\ EndUnanswered(m.id)
BY DEF TypeOK, Timeout, SendFails, Request

LEMMA StepStaged == TypeOK /\ PendingTimed /\ StageInv /\ [Next]_vars => StageInv'
<1> SUFFICES ASSUME TypeOK, PendingTimed, StageInv, [Next]_vars PROVE StageInv'
  OBVIOUS
<1> USE CallAssumption
<1>1. CASE Connect
  BY <1>1 DEF TypeOK, StageInv, Connect, Call
<1>2. CASE LinkUp
  BY <1>2 DEF TypeOK, StageInv, LinkUp, Call
<1>3. CASE LinkFails
  BY <1>3 DEF TypeOK, StageInv, LinkFails, LinkAfter, Call
<1>4. CASE LinkDies
  BY <1>4 DEF TypeOK, StageInv, LinkDies, Call
<1>5. ASSUME NEW c \in Call, Begin(c) PROVE StageInv'
  BY <1>5 DEF TypeOK, StageInv, Begin, Call
<1>6. CASE RefreshAllocation
  BY <1>5, <1>6 DEF RefreshAllocation, Call
<1>7. ASSUME NEW p \in Peer, RelaySendFirst(p) PROVE StageInv'
  BY <1>5, <1>7 DEF RelaySendFirst, Call
<1>8. ASSUME NEW p \in Peer, RelaySendLater(p) PROVE StageInv'
  BY <1>8 DEF RelaySendLater, StageInv
<1>9. CASE Close
  BY <1>9 DEF TypeOK, StageInv, Close, Call
<1>10. ASSUME NEW kept \in BOOLEAN, NEW m \in net, ReceiveUnmatched(m, kept) PROVE StageInv'
  BY <1>10 DEF ReceiveUnmatched, Take, StageInv
<1>11. ASSUME NEW kept \in BOOLEAN, NEW m \in net, ReceiveSuccess(m, kept) PROVE StageInv'
  <2>1. m.id[1] \in Call /\ call[m.id[1]] = "waiting" /\ link = "up"
    BY <1>11, MatchedProperties DEF ReceiveSuccess, Take
  <2> QED
    BY <1>11, <2>1 DEF ReceiveSuccess, Take, LinkAfter, StageInv, TypeOK
<1>12. ASSUME NEW kept \in BOOLEAN, NEW m \in net, ReceiveChallenge(m, kept) PROVE StageInv'
  <2>1. transactions' = timers'
    BY <1>12 DEF ReceiveChallenge, Take, StageInv
  <2>2. m.id[1] \in Call /\ call[m.id[1]] = "waiting"
    BY <1>12, MatchedProperties DEF ReceiveChallenge, Take
  <2>3. call[Ask] # "waiting" => attempt'[Ask] = attempt[Ask]
    BY <1>12, <2>2 DEF ReceiveChallenge, Take, TypeOK, Call
  <2> QED
    BY <1>12, <2>1, <2>3 DEF ReceiveChallenge, Take, StageInv
<1>13. ASSUME NEW kept \in BOOLEAN, NEW m \in net, ReceiveError(m, kept) PROVE StageInv'
  <2>1. m.id[1] \in Call /\ call[m.id[1]] = "waiting" /\ link = "up"
    BY <1>13, MatchedProperties DEF ReceiveError, Take
  <2> QED
    BY <1>13, <2>1 DEF ReceiveError, Take, LinkAfter, StageInv, TypeOK
<1>14. ASSUME NEW t \in Attempt, EndUnanswered(t) PROVE StageInv'
  <2>1. t[1] \in Call
    BY DEF Attempt
  <2>2. link = "closed" \/ transactions' = timers'
    BY <1>14 DEF EndUnanswered, StageInv
  <2>3. CASE call[t[1]] = "waiting" /\ t[2] = attempt[t[1]]
    <3>1. call' = [call EXCEPT ![t[1]] = "rejected"] /\ link' = LinkAfter(t[1], link)
          /\ asks' = asks /\ secure' = secure /\ attempt' = attempt
      BY <1>14, <2>3 DEF EndUnanswered
    <3>2. \A c \in Call : call'[c] = IF c = t[1] THEN "rejected" ELSE call[c]
      BY <2>1, <3>1 DEF TypeOK
    <3>3. Ask \in Call
      BY DEF Call
    <3>4. CASE t[1] = Ask
      <4>1. link \notin {"none", "opening"} /\ (asks = "binding" => link' = "closed")
            /\ (asks # "binding" => link' = link)
        BY <2>3, <3>1, <3>4 DEF StageInv, LinkAfter
      <4> QED
        BY <2>2, <2>3, <3>1, <3>2, <3>3, <3>4, <4>1 DEF StageInv, LinkAfter
    <3>5. CASE t[1] # Ask
      <4>1. link' = link /\ call'[Ask] = call[Ask]
        BY <3>1, <3>2, <3>3, <3>5 DEF LinkAfter
      <4> QED
        BY <2>1, <2>2, <2>3, <3>1, <3>2, <3>5, <4>1 DEF StageInv
    <3> QED
      BY <3>4, <3>5
  <2>4. CASE ~(call[t[1]] = "waiting" /\ t[2] = attempt[t[1]])
    BY <1>14, <2>1, <2>2, <2>4 DEF EndUnanswered, StageInv
  <2> QED
    BY <2>3, <2>4
<1>15. ASSUME NEW kept \in BOOLEAN, ServerAnswers(kept) PROVE StageInv'
  BY <1>15 DEF ServerAnswers, StageInv
<1>16. CASE ServerRelays \/ NewNonce \/ UNCHANGED vars
  BY <1>16 DEF ServerRelays, NewNonce, StageInv, vars
<1> QED
  BY <1>1, <1>2, <1>3, <1>4, <1>6, <1>7, <1>8, <1>9, <1>10, <1>11, <1>12, <1>13, <1>14,
     <1>15, <1>16, UnansweredProperties DEF Next, Receive

LEMMA StepTimed == TypeOK /\ PendingTimed /\ StageInv /\ [Next]_vars => PendingTimed'
<1> SUFFICES ASSUME TypeOK, PendingTimed, StageInv, [Next]_vars PROVE PendingTimed'
  OBVIOUS
<1> USE CallAssumption
<1>1. CASE Connect
  <2>1. \A c \in Call : call'[c] = "waiting" <=> call[c] = "waiting"
    BY <1>1 DEF TypeOK, Connect, Call
  <2>2. attempt' = attempt /\ transactions' = transactions /\ timers' = timers
    BY <1>1 DEF Connect
  <2>3. link # "closed"
    BY <1>1 DEF Connect, StageInv
  <2> QED
    BY <2>1, <2>2, <2>3 DEF PendingTimed
<1>2. CASE LinkUp
  <2>1. Ask \in Call /\ call[Ask] = "connecting"
    BY <1>2 DEF StageInv, LinkUp, Call
  <2>2. \A c \in Call : c # Ask => call[c] # "waiting"
    BY <2>1 DEF StageInv, TypeOK
  <2> QED
    BY <1>2, <2>1, <2>2 DEF TypeOK, PendingTimed, StageInv, LinkUp
<1>3. CASE LinkFails
  <2>1. call[Ask] = "connecting" /\ Ask \in Call
    BY <1>3 DEF StageInv, LinkFails, Call
  <2> QED
    BY <1>3, <2>1 DEF TypeOK, PendingTimed, LinkFails
<1>4. CASE LinkDies
  BY <1>4 DEF PendingTimed, LinkDies
<1>5. ASSUME NEW c \in Call, Begin(c) PROVE PendingTimed'
  <2>1. \A b \in Call \ {c} : call'[b] = call[b] /\ attempt'[b] = attempt[b]
    BY <1>5 DEF TypeOK, Begin
  <2>2. call[c] # "waiting" /\ attempt'[c] = 1
        /\ call'[c] = IF link = "up" THEN "waiting" ELSE "rejected"
    BY <1>5 DEF TypeOK, Begin
  <2>3. /\ transactions' = IF link = "broken" THEN transactions ELSE transactions \cup {<<c, 1>>}
        /\ timers' = IF link = "broken" THEN timers ELSE timers \cup {<<c, 1>>}
        /\ link' = link
        /\ link \in {"up", "broken", "closed"}
    BY <1>5, CallAssumption DEF Begin, StageInv, TypeOK, Link
  <2>4. CASE link = "up"
    <3>1. \A b \in Call : call'[b] = "waiting" <=> call[b] = "waiting" \/ b = c
      BY <2>1, <2>2, <2>4
    <3>2. {<<b, attempt'[b]>> : b \in {b \in Call : call'[b] = "waiting"}}
            = {<<b, attempt[b]>> : b \in {b \in Call : call[b] = "waiting"}} \cup {<<c, 1>>}
      BY <2>1, <2>2, <3>1
    <3> QED
      BY <2>1, <2>2, <2>3, <2>4, <3>1, <3>2 DEF PendingTimed
  <2>5. CASE link # "up"
    <3>1. \A b \in Call : call'[b] = "waiting" <=> call[b] = "waiting"
      BY <2>1, <2>2, <2>5
    <3>2. {<<b, attempt'[b]>> : b \in {b \in Call : call'[b] = "waiting"}}
            = {<<b, attempt[b]>> : b \in {b \in Call : call[b] = "waiting"}}
      BY <2>1, <2>2, <3>1
    <3> QED
      BY <2>1, <2>2, <2>3, <2>5, <3>1, <3>2 DEF PendingTimed
  <2> QED
    BY <2>4, <2>5
<1>6. CASE RefreshAllocation
  BY <1>5, <1>6 DEF RefreshAllocation, Call
<1>7. ASSUME NEW p \in Peer, RelaySendFirst(p) PROVE PendingTimed'
  BY <1>5, <1>7 DEF RelaySendFirst, Call
<1>8. ASSUME NEW p \in Peer, RelaySendLater(p) PROVE PendingTimed'
  BY <1>8 DEF RelaySendLater, PendingTimed
<1>9. CASE Close
  BY <1>9 DEF PendingTimed, Close
<1>10. ASSUME NEW kept \in BOOLEAN, NEW m \in net, ReceiveUnmatched(m, kept) PROVE PendingTimed'
  BY <1>10 DEF ReceiveUnmatched, Take, PendingTimed
<1>11. ASSUME NEW m \in net, m.id[1] \in Call, m.id = <<m.id[1], attempt[m.id[1]]>>,
              call[m.id[1]] = "waiting", link = "up",
              NEW phase \in {"resolved", "rejected"},
              call' = [call EXCEPT ![m.id[1]] = phase],
              attempt' = attempt, transactions' = transactions \ {m.id}, timers' = timers \ {m.id}
       PROVE  PendingTimed'
  BY <1>11 DEF TypeOK, PendingTimed
<1>12. ASSUME NEW kept \in BOOLEAN, NEW m \in net, ReceiveSuccess(m, kept) PROVE PendingTimed'
  <2>1. /\ m.id[1] \in Call /\ m.id = <<m.id[1], attempt[m.id[1]]>>
        /\ call[m.id[1]] = "waiting" /\ link = "up"
    BY <1>12, MatchedProperties DEF ReceiveSuccess, Take
  <2> QED
    BY <1>11, <1>12, <2>1 DEF ReceiveSuccess, Take
<1>13. ASSUME NEW kept \in BOOLEAN, NEW m \in net, ReceiveError(m, kept) PROVE PendingTimed'
  <2>1. /\ m.id[1] \in Call /\ m.id = <<m.id[1], attempt[m.id[1]]>>
        /\ call[m.id[1]] = "waiting" /\ link = "up"
    BY <1>13, MatchedProperties DEF ReceiveError, Take
  <2> QED
    BY <1>11, <1>13, <2>1 DEF ReceiveError, Take
<1>14. ASSUME NEW kept \in BOOLEAN, NEW m \in net, ReceiveChallenge(m, kept) PROVE PendingTimed'
  <2>1. /\ m.id[1] \in Call /\ m.id = <<m.id[1], attempt[m.id[1]]>>
        /\ call[m.id[1]] = "waiting" /\ link = "up"
    BY <1>14, MatchedProperties DEF ReceiveChallenge, Take
  <2> QED
    BY <1>14, <2>1 DEF ReceiveChallenge, Take, TypeOK, PendingTimed
<1>15. ASSUME NEW t \in Attempt, EndUnanswered(t) PROVE PendingTimed'
  <2>1. t[1] \in Call /\ t = <<t[1], t[2]>>
    BY DEF Attempt
  <2>2. link = "closed" => link' = "closed"
    BY <1>15 DEF EndUnanswered, LinkAfter
  <2>3. timers' = timers \ {t} /\ transactions' = transactions \ {t} /\ attempt' = attempt
    BY <1>15 DEF EndUnanswered
  <2>4. CASE call[t[1]] = "waiting" /\ t[2] = attempt[t[1]]
    <3>1. call' = [call EXCEPT ![t[1]] = "rejected"] /\ t = <<t[1], attempt[t[1]]>>
      BY <1>15, <2>1, <2>4 DEF EndUnanswered
    <3> QED
      BY <2>1, <2>2, <2>3, <3>1 DEF TypeOK, PendingTimed
  <2>5. CASE ~(call[t[1]] = "waiting" /\ t[2] = attempt[t[1]])
    <3>1. call' = call
      BY <1>15, <2>5 DEF EndUnanswered
    <3>2. \A c \in Call : call[c] = "waiting" => t # <<c, attempt[c]>>
      BY <2>1, <2>5
    <3> QED
      BY <2>2, <2>3, <3>1, <3>2 DEF PendingTimed
  <2> QED
    BY <2>4, <2>5
<1>16. ASSUME NEW kept \in BOOLEAN, ServerAnswers(kept) PROVE PendingTimed'
  BY <1>16 DEF ServerAnswers, PendingTimed
<1>17. CASE ServerRelays \/ NewNonce \/ UNCHANGED vars
  BY <1>17 DEF ServerRelays, NewNonce, PendingTimed, vars
<1> QED
  BY <1>1, <1>2, <1>3, <1>4, <1>6, <1>7, <1>8, <1>9, <1>10, <1>12, <1>13, <1>14, <1>15,
     <1>16, <1>17, UnansweredProperties DEF Next, Receive

TimedInv == TypeOK /\ StageInv /\ PendingTimed

LEMMA InitTimed == Init => TimedInv
BY InitTyped, CallAssumption DEF Init, TimedInv, StageInv, PendingTimed, Call

LEMMA Timed == Spec => []TimedInv
<1>1. TimedInv /\ [Next]_vars => TimedInv'
  BY StepTyped, StepStaged, StepTimed DEF TimedInv
<1> QED
  BY <1>1, InitTimed, PTL DEF Spec

\* A call that waits has the timer of its last attempt, close() or not, and so has
\* every transaction in the table; before close() there is no other timer
\* (stun-client.ts 515-540, 1046-1060).
THEOREM CallsTimed == Spec => []PendingTimed
<1>1. TimedInv => PendingTimed
  BY DEF TimedInv
<1> QED
  BY <1>1, Timed, PTL
-----------------------------------------------------------------------------
\* What can be said of every step: an answer stays given, an attempt that failed has
\* failed, a resolved call stays resolved.
Lasting ==
    /\ server.answers \subseteq server.answers'
    /\ failed \subseteq failed'
    /\ \A c \in Call : call[c] = "resolved" => call'[c] = "resolved"

LEMMA StepLasting == TimedInv /\ [Next]_vars => Lasting
<1> SUFFICES ASSUME TypeOK, PendingTimed, StageInv, [Next]_vars PROVE Lasting
  BY DEF TimedInv
<1> USE CallAssumption
<1>1. CASE Connect
  BY <1>1 DEF TypeOK, StageInv, Connect, Lasting
<1>2. CASE LinkUp
  BY <1>2 DEF TypeOK, StageInv, LinkUp, Lasting
<1>3. CASE LinkFails
  BY <1>3 DEF TypeOK, StageInv, LinkFails, Lasting
<1>4. CASE LinkDies
  BY <1>4 DEF LinkDies, Lasting
<1>5. ASSUME NEW c \in Call, Begin(c) PROVE Lasting
  BY <1>5 DEF TypeOK, Begin, Lasting
<1>6. CASE RefreshAllocation
  BY <1>5, <1>6 DEF RefreshAllocation, Call
<1>7. ASSUME NEW p \in Peer, RelaySendFirst(p) PROVE Lasting
  BY <1>5, <1>7 DEF RelaySendFirst, Call
<1>8. ASSUME NEW p \in Peer, RelaySendLater(p) PROVE Lasting
  BY <1>8 DEF RelaySendLater, Lasting
<1>9. CASE Close
  BY <1>9 DEF Close, Lasting, StageInv, TypeOK
<1>10. ASSUME NEW kept \in BOOLEAN, NEW m \in net, Take(m, kept)
       PROVE  server' = server /\ failed' = failed
  BY <1>10 DEF Take
<1>11. ASSUME NEW kept \in BOOLEAN, NEW m \in net, ReceiveUnmatched(m, kept) PROVE Lasting
  BY <1>10, <1>11 DEF ReceiveUnmatched, Take, Lasting
<1>12. ASSUME NEW kept \in BOOLEAN, NEW m \in net, ReceiveSuccess(m, kept) PROVE Lasting
  BY <1>10, <1>12 DEF ReceiveSuccess, Take, Lasting, TypeOK
<1>13. ASSUME NEW kept \in BOOLEAN, NEW m \in net, ReceiveChallenge(m, kept) PROVE Lasting
  BY <1>10, <1>13 DEF ReceiveChallenge, Take, Lasting
<1>14. ASSUME NEW kept \in BOOLEAN, NEW m \in net, ReceiveError(m, kept) PROVE Lasting
  <2>1. call[m.id[1]] = "waiting"
    BY <1>14, MatchedProperties DEF ReceiveError, Take
  <2> QED
    BY <1>10, <1>14, <2>1 DEF ReceiveError, Take, Lasting, TypeOK
<1>15. ASSUME NEW t \in Attempt, EndUnanswered(t) PROVE Lasting
  BY <1>15 DEF EndUnanswered, Lasting, TypeOK
<1>16. ASSUME NEW kept \in BOOLEAN, ServerAnswers(kept) PROVE Lasting
  BY <1>16 DEF ServerAnswers, Lasting, TypeOK
<1>17. CASE ServerRelays \/ NewNonce \/ UNCHANGED vars
  BY <1>17 DEF ServerRelays, NewNonce, Lasting, TypeOK, vars
<1> QED
  BY <1>1, <1>2, <1>3, <1>4, <1>6, <1>7, <1>8, <1>9, <1>11, <1>12, <1>13, <1>14, <1>15,
     <1>16, <1>17, UnansweredProperties DEF Next, Receive

LEMMA StepGenuine == TypeOK /\ GenuineInv /\ [Next]_vars => GenuineInv'
<1> SUFFICES ASSUME TypeOK, GenuineInv, [Next]_vars PROVE GenuineInv'
  OBVIOUS
<1> USE CallAssumption
<1>1. \A c, n : RequestOf(c, n).type = "request"
  BY DEF RequestOf
<1>2. \A m \in Answer : m.type \in {"success", "401", "438", "refused"}
  BY DEF Answer
<1>3. ASSUME server' = server, NEW m, m.type \notin {"success", "401", "438", "refused"},
             net' \subseteq net \cup {m}
      PROVE  GenuineInv'
  BY <1>2, <1>3 DEF GenuineInv
<1>4. ASSUME server' = server, net' \subseteq net PROVE GenuineInv'
  BY <1>4 DEF GenuineInv
<1>5. CASE Connect \/ LinkFails \/ LinkDies \/ Close \/ ServerRelays \/ UNCHANGED vars
  BY <1>4, <1>5 DEF Connect, LinkFails, LinkDies, Close, ServerRelays, vars
<1>6. CASE LinkUp
  BY <1>1, <1>3, <1>6 DEF LinkUp
<1>7. ASSUME NEW c \in Call, Begin(c) PROVE GenuineInv'
  <2>1. server' = server /\ net' \subseteq net \cup {RequestOf(c, 1)}
    BY <1>7 DEF Begin
  <2> QED
    BY <1>1, <1>3, <2>1
<1>8. CASE RefreshAllocation
  BY <1>7, <1>8 DEF RefreshAllocation, Call
<1>9. ASSUME NEW p \in Peer, RelaySendFirst(p) PROVE GenuineInv'
  BY <1>7, <1>9 DEF RelaySendFirst, Call
<1>10. ASSUME NEW p \in Peer, RelaySendLater(p) PROVE GenuineInv'
  <2>1. server' = server /\ net' \subseteq net \cup {[type |-> "later", id |-> <<p, 1>>]}
    BY <1>10 DEF RelaySendLater
  <2> QED
    BY <1>3, <2>1
<1>11. ASSUME NEW kept \in BOOLEAN, NEW m \in net, ReceiveUnmatched(m, kept) PROVE GenuineInv'
  BY <1>4, <1>11 DEF ReceiveUnmatched, Take, Rest
<1>12. ASSUME NEW kept \in BOOLEAN, NEW m \in net, ReceiveSuccess(m, kept) PROVE GenuineInv'
  <2>1. server' = server /\ net' \subseteq net \cup {[type |-> "first", id |-> <<m.id[1], 1>>]}
    BY <1>12 DEF ReceiveSuccess, Take, Rest
  <2> QED
    BY <1>3, <2>1
<1>13. ASSUME NEW kept \in BOOLEAN, NEW m \in net, ReceiveChallenge(m, kept) PROVE GenuineInv'
  <2>1. server' = server /\ net' \subseteq net \cup {RequestOf(m.id[1], m.id[2] + 1)}
    BY <1>13 DEF ReceiveChallenge, Take, Rest
  <2> QED
    BY <1>1, <1>3, <2>1
<1>14. ASSUME NEW kept \in BOOLEAN, NEW m \in net, ReceiveError(m, kept) PROVE GenuineInv'
  BY <1>4, <1>14 DEF ReceiveError, Take, Rest
<1>15. ASSUME NEW t \in timers, Timeout(t) PROVE GenuineInv'
  BY <1>4, <1>15 DEF Timeout, EndUnanswered
<1>18. ASSUME NEW m \in net, SendFails(m) PROVE GenuineInv'
  BY <1>4, <1>18 DEF SendFails, EndUnanswered
<1>16. ASSUME NEW kept \in BOOLEAN, ServerAnswers(kept) PROVE GenuineInv'
  <2>1. PICK m \in net \cap Request : \E type \in AnswerTypes(m) : Replies(kept, m, type)
    BY <1>16 DEF ServerAnswers, Replies, Reply
  <2>2. PICK type \in AnswerTypes(m) : Replies(kept, m, type)
    BY <2>1
  <2>3. Reply(m, type).type \in {"401", "438"} => Reply(m, type).nonce = server.nonce
    BY DEF Reply
  <2>4. net' \subseteq net \cup {Reply(m, type)} /\ server'.nonce = server.nonce
        /\ server'.answers = server.answers \cup {Reply(m, type)}
    BY <2>2 DEF Replies, Rest, TypeOK
  <2> QED
    BY <2>3, <2>4 DEF GenuineInv
<1>17. CASE NewNonce
  BY <1>17 DEF NewNonce, GenuineInv, TypeOK
<1> QED
  BY <1>5, <1>6, <1>8, <1>9, <1>10, <1>11, <1>12, <1>13, <1>14, <1>15, <1>16, <1>17, <1>18
  DEF Next, Receive

LEMMA StepFirst == TimedInv /\ FirstInv /\ [Next]_vars => FirstInv'
<1> SUFFICES ASSUME TypeOK, StageInv, PendingTimed, FirstInv, [Next]_vars,
                    NEW x \in net', x.type = "first"
             PROVE  call'[x.id[1]] = "resolved"
  BY DEF TimedInv, FirstInv
<1>1. Lasting
  BY StepLasting DEF TimedInv
<1>2. CASE x \in net
  <2>1. x \in Indication
    BY <1>2 DEF TypeOK, Request, Answer
  <2>2. x.id[1] \in Call
    BY <2>1 DEF Indication, Attempt
  <2> QED
    BY <1>1, <1>2, <2>2 DEF FirstInv, Lasting
<1>3. CASE x \notin net
  <2>1. \A c, n : RequestOf(c, n).type = "request"
    BY DEF RequestOf
  <2>2. \A c \in Call : ~Begin(c)
    BY <1>3, <2>1 DEF Begin
  <2>3. ~RefreshAllocation /\ \A p \in Peer : ~RelaySendFirst(p) /\ ~RelaySendLater(p)
    BY <1>3, <2>2 DEF RefreshAllocation, RelaySendFirst, RelaySendLater, Call
  <2>4. ~Connect /\ ~LinkUp /\ ~LinkFails /\ ~LinkDies /\ ~Close
    BY <1>3, <2>1 DEF Connect, LinkUp, LinkFails, LinkDies, Close
  <2>5. ~ServerRelays /\ ~NewNonce /\ ~UNCHANGED vars
        /\ (\A t \in timers : ~Timeout(t)) /\ (\A m \in net : ~SendFails(m))
    BY <1>3 DEF ServerRelays, NewNonce, vars, Timeout, SendFails
  <2>6. \A kept \in BOOLEAN : ~ServerAnswers(kept)
    <3>1. ASSUME NEW kept \in BOOLEAN, ServerAnswers(kept) PROVE FALSE
      <4>1. PICK m \in net \cap Request : \E type \in AnswerTypes(m) : Replies(kept, m, type)
        BY <3>1 DEF ServerAnswers, Replies, Reply
      <4>2. PICK type \in AnswerTypes(m) : Replies(kept, m, type)
        BY <4>1
      <4>3. Reply(m, type).type # "first"
        BY DEF Reply, AnswerTypes
      <4> QED
        BY <1>3, <4>2, <4>3 DEF Replies, Rest
    <3> QED
      BY <3>1
  <2>7. PICK kept \in BOOLEAN, m \in net :
          \/ ReceiveUnmatched(m, kept) \/ ReceiveSuccess(m, kept)
          \/ ReceiveChallenge(m, kept) \/ ReceiveError(m, kept)
    BY <2>3, <2>4, <2>5, <2>6 DEF Next, Receive
  <2>8. ~ReceiveUnmatched(m, kept) /\ ~ReceiveError(m, kept) /\ ~ReceiveChallenge(m, kept)
    BY <1>3, <2>1 DEF ReceiveUnmatched, Take, ReceiveError, ReceiveChallenge, Rest
  <2>9. ReceiveSuccess(m, kept)
    BY <2>7, <2>8
  <2>10. m.id[1] \in Call
    BY <2>9, MatchedProperties DEF ReceiveSuccess, Take
  <2>11. x.id[1] = m.id[1]
    BY <1>3, <2>9 DEF ReceiveSuccess, Take, Rest
  <2> QED
    BY <2>9, <2>10, <2>11 DEF ReceiveSuccess, Take, TypeOK
<1> QED
  BY <1>2, <1>3

AllSettled == \A c \in Call : Settled(c)

\* The inductive invariant behind SettledForCause.
CauseInv == TimedInv /\ GenuineInv /\ FirstInv /\ AllSettled

\* What a call was settled by is still so after a step that leaves the call alone.
LEMMA SettledKept ==
    ASSUME Lasting, NEW c \in Call, Settled(c), call'[c] = call[c], attempt'[c] = attempt[c]
    PROVE  Settled(c)'
<1>1. \A types : Answered(c, types) => Answered(c, types)'
  BY DEF Lasting, Answered
<1> QED
  BY <1>1 DEF Settled, Lasting

LEMMA StepSettled == CauseInv /\ [Next]_vars => AllSettled'
<1> SUFFICES ASSUME TypeOK, StageInv, PendingTimed, GenuineInv, AllSettled,
                    [Next]_vars, NEW c \in Call
             PROVE  Settled(c)'
  BY DEF CauseInv, TimedInv, AllSettled
<1> USE CallAssumption
<1>1. Lasting
  BY StepLasting DEF TimedInv
<1>2. ASSUME call'[c] = call[c], attempt'[c] = attempt[c] PROVE Settled(c)'
  BY <1>1, <1>2, SettledKept DEF AllSettled
<1>3. ASSUME call'[c] \notin {"resolved", "rejected"} PROVE Settled(c)'
  BY <1>3 DEF Settled
<1>4. CASE Connect
  BY <1>2, <1>3, <1>4 DEF Connect, TypeOK
<1>5. CASE LinkUp
  BY <1>2, <1>3, <1>5 DEF LinkUp, TypeOK
<1>6. CASE LinkFails
  <2>1. CASE c = Ask
    <3>1. call'[c] = "rejected"
      BY <1>6, <2>1 DEF LinkFails, TypeOK
    <3>2. attempt'[c] = 0
      BY <1>6, <2>1 DEF LinkFails, StageInv
    <3> QED
      BY <3>1, <3>2 DEF Settled
  <2>2. CASE c # Ask
    BY <1>2, <1>6, <2>2 DEF LinkFails, TypeOK
  <2> QED
    BY <2>1, <2>2
<1>7. ASSUME NEW b \in Call, Begin(b) PROVE Settled(c)'
  <2>1. CASE b # c
    BY <1>2, <1>7, <2>1 DEF Begin, TypeOK
  <2>2. CASE b = c /\ link = "up"
    BY <1>3, <1>7, <2>2 DEF Begin, TypeOK
  <2>3. CASE b = c /\ link # "up"
    <3>1. call'[c] = "rejected" /\ attempt'[c] = 1 /\ <<c, 1>> \in failed'
      BY <1>7, <2>3 DEF Begin, TypeOK
    <3> QED
      BY <3>1 DEF Settled
  <2> QED
    BY <2>1, <2>2, <2>3
<1>8. CASE RefreshAllocation
  BY <1>7, <1>8 DEF RefreshAllocation, Call
<1>9. ASSUME NEW p \in Peer, RelaySendFirst(p) PROVE Settled(c)'
  BY <1>7, <1>9 DEF RelaySendFirst, Call
<1>10. ASSUME NEW p \in Peer, RelaySendLater(p) PROVE Settled(c)'
  BY <1>2, <1>10 DEF RelaySendLater
<1>11. ASSUME NEW kept \in BOOLEAN, NEW m \in net, Take(m, kept) PROVE m \in server.answers
  BY <1>11 DEF Take, GenuineInv
<1>12. ASSUME NEW kept \in BOOLEAN, NEW m \in net, ReceiveUnmatched(m, kept) PROVE Settled(c)'
  BY <1>2, <1>12 DEF ReceiveUnmatched, Take
<1>13. ASSUME NEW kept \in BOOLEAN, NEW m \in net, ReceiveSuccess(m, kept) PROVE Settled(c)'
  <2>1. m \in server.answers /\ m.id = <<m.id[1], attempt[m.id[1]]>>
    BY <1>11, <1>13, MatchedProperties DEF ReceiveSuccess, Take
  <2>2. CASE c = m.id[1]
    <3>1. call'[c] = "resolved" /\ attempt'[c] = attempt[c] /\ server' = server
      BY <1>13, <2>2 DEF ReceiveSuccess, Take, TypeOK
    <3>2. Answered(c, {"success"})'
      BY <1>13, <2>1, <2>2, <3>1 DEF Answered, ReceiveSuccess, Take
    <3> QED
      BY <3>1, <3>2 DEF Settled
  <2>3. CASE c # m.id[1]
    BY <1>2, <1>13, <2>3 DEF ReceiveSuccess, Take, TypeOK
  <2> QED
    BY <2>2, <2>3
<1>14. ASSUME NEW kept \in BOOLEAN, NEW m \in net, ReceiveChallenge(m, kept) PROVE Settled(c)'
  <2>1. call[m.id[1]] = "waiting"
    BY <1>14, MatchedProperties DEF ReceiveChallenge, Take
  <2>2. CASE c = m.id[1]
    BY <1>3, <1>14, <2>1, <2>2 DEF ReceiveChallenge, Take
  <2>3. CASE c # m.id[1]
    BY <1>2, <1>14, <2>3 DEF ReceiveChallenge, Take, TypeOK
  <2> QED
    BY <2>2, <2>3
<1>15. ASSUME NEW kept \in BOOLEAN, NEW m \in net, ReceiveError(m, kept) PROVE Settled(c)'
  <2>1. m \in server.answers /\ m.id = <<m.id[1], attempt[m.id[1]]>> /\ m.id[2] \in {1, 2}
    BY <1>11, <1>15, MatchedProperties DEF ReceiveError, Take
  <2>2. CASE c = m.id[1]
    <3>1. call'[c] = "rejected" /\ attempt'[c] = attempt[c] /\ server' = server
      BY <1>15, <2>2 DEF ReceiveError, Take, TypeOK
    <3>2. m.type \in {"401", "438", "refused"}
      BY <1>15 DEF ReceiveError, Take, Answer
    <3>3. CASE m.type = "401"
      <4>1. nonce' # 0
        BY <1>15, <2>1, <3>3 DEF ReceiveError, Take, GenuineInv
      <4>2. m.id[2] = 2
        BY <1>15, <2>1, <3>3, <4>1 DEF ReceiveError, Take, Retries
      <4>3. attempt'[c] = 2
        BY <2>1, <2>2, <3>1, <4>2
      <4>4. Answered(c, {"401"})'
        BY <2>1, <2>2, <3>1, <3>3 DEF Answered
      <4> QED
        BY <3>1, <4>3, <4>4 DEF Settled
    <3>4. CASE m.type # "401"
      <4>1. Answered(c, {"438", "refused"})'
        BY <2>1, <2>2, <3>1, <3>2, <3>4 DEF Answered
      <4> QED
        BY <3>1, <4>1 DEF Settled
    <3> QED
      BY <3>3, <3>4
  <2>3. CASE c # m.id[1]
    BY <1>2, <1>15, <2>3 DEF ReceiveError, Take, TypeOK
  <2> QED
    BY <2>2, <2>3
<1>16. ASSUME NEW t \in Attempt, EndUnanswered(t) PROVE Settled(c)'
  <2>1. t[1] \in Call /\ t = <<t[1], t[2]>> /\ attempt' = attempt
    BY <1>16 DEF Attempt, EndUnanswered
  <2>2. CASE c = t[1] /\ call[c] = "waiting" /\ t[2] = attempt[c]
    <3>1. call'[c] = "rejected" /\ t \in failed' /\ t = <<c, attempt'[c]>>
      BY <1>16, <2>1, <2>2 DEF EndUnanswered, TypeOK
    <3> QED
      BY <3>1 DEF Settled
  <2>3. CASE ~(c = t[1] /\ call[c] = "waiting" /\ t[2] = attempt[c])
    BY <1>2, <1>16, <2>1, <2>3 DEF EndUnanswered, TypeOK
  <2> QED
    BY <2>2, <2>3
<1>17. ASSUME NEW kept \in BOOLEAN, ServerAnswers(kept) PROVE Settled(c)'
  BY <1>2, <1>17 DEF ServerAnswers
<1>18. CASE LinkDies \/ Close \/ ServerRelays \/ NewNonce \/ UNCHANGED vars
  BY <1>2, <1>18 DEF LinkDies, Close, ServerRelays, NewNonce, vars
<1> QED
  BY <1>4, <1>5, <1>6, <1>8, <1>9, <1>10, <1>12, <1>13, <1>14, <1>15, <1>16, <1>17, <1>18,
     UnansweredProperties DEF Next, Receive

LEMMA InitCause == Init => CauseInv
<1> SUFFICES ASSUME Init PROVE GenuineInv /\ FirstInv /\ AllSettled
  BY InitTimed DEF CauseInv
<1> QED
  BY DEF Init, GenuineInv, FirstInv, AllSettled, Settled

\* A call is settled by the answer to its last attempt, and rejected otherwise only
\* after the timer or the failed send of that very attempt, or for want of a link;
\* what waits for a permission is sent when that is granted (stun-client.ts 417-540,
\* 837-910; ice-agent.ts 223-234).
THEOREM SettledByAnswer == Spec => []SettledForCause
<1>1. CauseInv /\ [Next]_vars => CauseInv'
  BY StepTyped, StepStaged, StepTimed, StepGenuine, StepFirst, StepSettled
  DEF CauseInv, TimedInv
<1>2. CauseInv => SettledForCause
  BY DEF CauseInv, AllSettled, Settled, SettledForCause, FirstInv
<1> QED
  BY <1>1, <1>2, InitCause, PTL DEF Spec
=============================================================================
