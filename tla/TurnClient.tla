----------------------------- MODULE TurnClient -----------------------------
(***************************************************************************)
(* The STUN/TURN client (stun/stun-client.ts) as the ICE agent uses it: to *)
(* ask a STUN server for an address, and closed after the answer; or to    *)
(* allocate a relay, through which a RelayTransport (ice/ice-agent.ts)     *)
(* then sends.  The server and the network are external.                   *)
(*                                                                         *)
(* Each call is made once: Ask is getReflexiveAddress or allocateRelay,    *)
(* Refresh is refreshAllocation, and a peer stands for the                 *)
(* createPermission that the relay asks for before it sends to that peer.  *)
(* An attempt of a call, its transaction, is <<call, 1>> or, for the retry *)
(* with credentials, <<call, 2>>.  What a DATA indication carries is       *)
(* passed on without a change of state and left out.  "Planted bug"        *)
(* operators are not part of the model.                                    *)
(***************************************************************************)
EXTENDS Naturals

CONSTANTS
    Ask, Refresh,       \* the two calls that are not for a peer
    Peer,               \* the peers that the relay sends to
    MaxNonce,           \* bound: nonces the server uses
    MaxRepeats          \* bound: messages duplicated

Call == {Ask, Refresh} \cup Peer
Attempt == Call \X {1, 2}

ASSUME CallAssumption ==
    /\ Ask # Refresh
    /\ {Ask, Refresh} \cap Peer = {}
    /\ MaxNonce \in Nat \ {0}
    /\ MaxRepeats \in Nat

VARIABLES
    asks,               \* what Ask is: "binding" or "allocate"
    secure,             \* whether the link is a DTLS or TLS session, or plain UDP
    link,               \* the socket, and the session on it
    call,               \* where each call is
    attempt,            \* the last attempt of each call, 0 before the first
    transactions,       \* #transactions: the attempts that an answer is matched with
    timers,             \* the timeouts that are set
    nonce,              \* #realm and #nonce; 0 before the first challenge
    permitted,          \* #permitted of the RelayTransport
    net,                \* the messages on their way
    server,             \* the server's nonce and the answers it has given
    repeats,            \* how many messages have been duplicated
    failed              \* history: the attempts whose timer fired, or whose send failed

vars == <<asks, secure, link, call, attempt, transactions, timers, nonce, permitted, net, server,
          repeats, failed>>

Link == {"none", "opening", "up", "broken", "closed"}
Phase == {"idle", "connecting", "waiting", "resolved", "rejected"}
Request == [type : {"request"}, id : Attempt, nonce : Nat]
Answer == [type : {"success", "401", "438", "refused"}, id : Attempt, nonce : Nat]
\* A SEND indication: the datagram that waited for the permission, or a later one.
Indication == [type : {"first", "later"}, id : Attempt]

Init ==
    /\ asks \in {"binding", "allocate"}
    /\ secure \in BOOLEAN
    /\ asks = "binding" => ~secure
    /\ link = "none"
    /\ call = [c \in Call |-> "idle"]
    /\ attempt = [c \in Call |-> 0]
    /\ transactions = {}
    /\ timers = {}
    /\ nonce = 0
    /\ permitted = {}
    /\ net = {}
    /\ server = [nonce |-> 1, answers |-> {}]
    /\ repeats = 0
    /\ failed = {}
-----------------------------------------------------------------------------
(* Calls.                                                                  *)

\* The first attempt of allocateRelay carries no credentials, a retry and every
\* other request those that are known.
RequestOf(c, n) ==
    [type |-> "request", id |-> <<c, n>>, nonce |-> IF c = Ask /\ n = 1 THEN 0 ELSE nonce']

\* connect(), which binds a socket and may have to bring up DTLS or TLS.  An address
\* is asked for over plain UDP.
Connect ==
    /\ call[Ask] = "idle"
    /\ call' = [call EXCEPT ![Ask] = "connecting"]
    /\ link' = "opening"
    /\ UNCHANGED <<asks, secure, attempt, transactions, timers, nonce, permitted, net,
                   server, repeats, failed>>

\* The first request of Ask.
LinkUp ==
    /\ link = "opening"
    /\ link' = "up"
    /\ call' = [call EXCEPT ![Ask] = "waiting"]
    /\ attempt' = [attempt EXCEPT ![Ask] = 1]
    /\ transactions' = transactions \cup {<<Ask, 1>>}
    /\ timers' = timers \cup {<<Ask, 1>>}
    /\ nonce' = nonce
    /\ net' = net \cup {RequestOf(Ask, 1)}
    /\ UNCHANGED <<asks, secure, permitted, server, repeats, failed>>

\* A client that was to ask for an address is closed as soon as the call settles.
LinkAfter(c, before) == IF c = Ask /\ asks = "binding" THEN "closed" ELSE before

LinkFails ==
    /\ link = "opening"
    /\ link' = LinkAfter(Ask, "broken")
    /\ call' = [call EXCEPT ![Ask] = "rejected"]
    /\ UNCHANGED <<asks, secure, attempt, transactions, timers, nonce, permitted, net,
                   server, repeats, failed>>

\* A session with a TURN server is closed or fails: sending reports an error from
\* now on.
LinkDies ==
    /\ link = "up" /\ secure
    /\ link' = "broken"
    /\ UNCHANGED <<asks, secure, call, attempt, transactions, timers, nonce, permitted,
                   net, server, repeats, failed>>

\* Planted bug: the transaction is entered, but its timer set only once it is sent.
BeginUntimed(c) ==
    /\ call[c] = "idle"
    /\ call[Ask] = "resolved" /\ asks = "allocate"
    /\ attempt' = [attempt EXCEPT ![c] = 1]
    /\ call' = [call EXCEPT ![c] = IF link = "up" THEN "waiting" ELSE "rejected"]
    /\ transactions' = IF link = "broken" THEN transactions ELSE transactions \cup {<<c, 1>>}
    /\ timers' = IF link # "up" THEN timers ELSE timers \cup {<<c, 1>>}
    /\ nonce' = nonce
    /\ net' = IF link = "up" THEN net \cup {RequestOf(c, 1)} ELSE net
    /\ failed' = IF link = "up" THEN failed ELSE failed \cup {<<c, 1>>}
    /\ UNCHANGED <<asks, secure, link, server, repeats>>

\* refreshAllocation or createPermission, once there is a relay.  A send that
\* reports an error takes the transaction and the timer back; after close() it
\* throws, the call is rejected, and both stay behind.
Begin(c) ==
    /\ call[c] = "idle"
    /\ call[Ask] = "resolved" /\ asks = "allocate"
    /\ attempt' = [attempt EXCEPT ![c] = 1]
    /\ call' = [call EXCEPT ![c] = IF link = "up" THEN "waiting" ELSE "rejected"]
    /\ transactions' = IF link = "broken" THEN transactions ELSE transactions \cup {<<c, 1>>}
    /\ timers' = IF link = "broken" THEN timers ELSE timers \cup {<<c, 1>>}
    /\ nonce' = nonce
    /\ net' = IF link = "up" THEN net \cup {RequestOf(c, 1)} ELSE net
    /\ failed' = IF link = "up" THEN failed ELSE failed \cup {<<c, 1>>}
    /\ UNCHANGED <<asks, secure, link, server, repeats>>

RefreshAllocation == Begin(Refresh) /\ UNCHANGED permitted

\* RelayTransport.send: what is first sent to a peer waits for its permission, and
\* what comes later does not, whether the permission has been granted or not.
RelaySendFirst(p) ==
    /\ p \notin permitted
    /\ permitted' = permitted \cup {p}
    /\ Begin(p)

RelaySendLater(p) ==
    /\ p \in permitted
    /\ net' = IF link = "up" THEN net \cup {[type |-> "later", id |-> <<p, 1>>]} ELSE net
    /\ UNCHANGED <<asks, secure, link, call, attempt, transactions, timers, nonce,
                   permitted, server, repeats, failed>>

\* Planted bug: the timers go with the transactions.
CloseTimers ==
    /\ call[Ask] = "resolved"
    /\ link # "closed"
    /\ link' = "closed"
    /\ transactions' = {}
    /\ timers' = {}
    /\ UNCHANGED <<asks, secure, call, attempt, nonce, permitted, net, server, repeats, failed>>

\* RelayTransport.close.  The calls that wait are left to their timers.
Close ==
    /\ call[Ask] = "resolved"
    /\ link # "closed"
    /\ link' = "closed"
    /\ transactions' = {}
    /\ UNCHANGED <<asks, secure, call, attempt, timers, nonce, permitted, net, server,
                   repeats, failed>>
-----------------------------------------------------------------------------
(* Answers and timeouts.                                                   *)

\* Planted bug: an answer is matched by its call, whichever attempt it is for.
MatchesCall(m) == \E n \in {1, 2} : <<m.id[1], n>> \in transactions

Matches(m) == m.id \in transactions

\* An answer comes in on an open socket.
Take(m, kept) ==
    /\ m \in net \cap Answer
    /\ link = "up"
    /\ kept => repeats < MaxRepeats
    /\ repeats' = IF kept THEN repeats + 1 ELSE repeats
    /\ UNCHANGED <<asks, secure, permitted, server, failed>>

\* If it matches a transaction, it ends that one and clears its timer.
Rest(m, kept) == IF kept THEN net ELSE net \ {m}

ReceiveUnmatched(m, kept) ==
    /\ Take(m, kept)
    /\ ~Matches(m)
    /\ net' = Rest(m, kept)
    /\ UNCHANGED <<link, call, attempt, transactions, timers, nonce>>

ReceiveSuccess(m, kept) ==
    LET c == m.id[1] IN
    /\ Take(m, kept)
    /\ Matches(m)
    /\ m.type = "success"
    /\ call' = [call EXCEPT ![c] = "resolved"]
    /\ link' = LinkAfter(c, link)
    /\ transactions' = transactions \ {m.id}
    /\ timers' = timers \ {m.id}
    /\ net' = Rest(m, kept) \cup IF c \in Peer THEN {[type |-> "first", id |-> <<c, 1>>]} ELSE {}
    /\ UNCHANGED <<attempt, nonce>>

\* Planted bug: challenged again, tried again.
RetriesAgain(m) == m.type = "401" /\ nonce' # 0

\* A call that is challenged for the first time is tried again, once.
Retries(m) == m.type = "401" /\ m.id[2] = 1 /\ nonce' # 0

ReceiveChallenge(m, kept) ==
    LET c == m.id[1]
        n == m.id[2] + 1
    IN
    /\ Take(m, kept)
    /\ Matches(m)
    /\ nonce' = m.nonce
    /\ Retries(m)
    /\ attempt' = [attempt EXCEPT ![c] = n]
    /\ transactions' = (transactions \ {m.id}) \cup {<<c, n>>}
    /\ timers' = (timers \ {m.id}) \cup {<<c, n>>}
    /\ net' = Rest(m, kept) \cup {RequestOf(c, n)}
    /\ UNCHANGED <<link, call>>

ReceiveError(m, kept) ==
    LET c == m.id[1] IN
    /\ Take(m, kept)
    /\ Matches(m)
    /\ m.type # "success"
    /\ nonce' = IF m.nonce = 0 THEN nonce ELSE m.nonce
    /\ ~Retries(m)
    /\ call' = [call EXCEPT ![c] = "rejected"]
    /\ link' = LinkAfter(c, link)
    /\ transactions' = transactions \ {m.id}
    /\ timers' = timers \ {m.id}
    /\ net' = Rest(m, kept)
    /\ UNCHANGED attempt

\* An attempt ends without an answer, and with it the call, if it waits for this one.
EndUnanswered(t) ==
    /\ timers' = timers \ {t}
    /\ transactions' = transactions \ {t}
    /\ failed' = failed \cup {t}
    /\ IF call[t[1]] = "waiting" /\ t[2] = attempt[t[1]]
       THEN /\ call' = [call EXCEPT ![t[1]] = "rejected"]
            /\ link' = LinkAfter(t[1], link)
       ELSE UNCHANGED <<call, link>>
    /\ UNCHANGED <<asks, secure, attempt, nonce, permitted, server, repeats>>

\* A timer fires, it may be with the answer on its way.
Timeout(t) ==
    /\ t \in timers
    /\ EndUnanswered(t)
    /\ UNCHANGED net

\* The callback of a send reports its error, it may be after the timer has fired.
SendFails(m) ==
    /\ m \in net \cap Request
    /\ ~\E a \in server.answers : a.id = m.id
    /\ EndUnanswered(m.id)
    /\ net' = net \ {m}
-----------------------------------------------------------------------------
(* The server and the network.                                             *)

\* A server wants no credentials for a binding, and for the rest those of its
\* current nonce; it may refuse what it understands.
AnswerTypes(m) ==
    IF asks = "binding" THEN {"success"}
    ELSE IF m.nonce = 0 THEN {"401"}
    ELSE IF m.nonce # server.nonce THEN {"401", "438"}
    ELSE {"success", "refused"}

ServerAnswers(kept) ==
    \E m \in net \cap Request : \E type \in AnswerTypes(m) :
        LET answer == [type |-> type, id |-> m.id,
                       nonce |-> IF type \in {"401", "438"} THEN server.nonce ELSE 0] IN
        /\ kept => repeats < MaxRepeats
        /\ repeats' = IF kept THEN repeats + 1 ELSE repeats
        /\ net' = Rest(m, kept) \cup {answer}
        /\ server' = [server EXCEPT !.answers = @ \cup {answer}]
        /\ UNCHANGED <<asks, secure, link, call, attempt, transactions, timers, nonce,
                       permitted, failed>>

ServerRelays ==
    /\ \E m \in net \cap Indication : net' = net \ {m}
    /\ UNCHANGED <<asks, secure, link, call, attempt, transactions, timers, nonce,
                   permitted, server, repeats, failed>>

NewNonce ==
    /\ server.nonce < MaxNonce
    /\ server' = [server EXCEPT !.nonce = @ + 1]
    /\ UNCHANGED <<asks, secure, link, call, attempt, transactions, timers, nonce,
                   permitted, net, repeats, failed>>
-----------------------------------------------------------------------------
Receive(kept) ==
    \E m \in net \cap Answer :
        \/ ReceiveUnmatched(m, kept) \/ ReceiveSuccess(m, kept)
        \/ ReceiveChallenge(m, kept) \/ ReceiveError(m, kept)

Next ==
    \/ Connect \/ LinkUp \/ LinkFails \/ LinkDies \/ RefreshAllocation \/ Close
    \/ \E p \in Peer : RelaySendFirst(p) \/ RelaySendLater(p)
    \/ \E kept \in BOOLEAN : Receive(kept) \/ ServerAnswers(kept)
    \/ \E t \in timers : Timeout(t)
    \/ \E m \in net : SendFails(m)
    \/ ServerRelays \/ NewNonce

Spec == Init /\ [][Next]_vars

\* A socket is bound and timers fire.  A session need not come up or fail: connect()
\* does not hear that DTLS was closed, and has no timer for TLS.  No message need
\* arrive, so that losing one takes no action.
FairSpec ==
    /\ Spec
    /\ WF_vars(~secure /\ (LinkUp \/ LinkFails))
    /\ WF_vars(\E t \in timers : Timeout(t))
-----------------------------------------------------------------------------
(* Properties.                                                             *)

TypeOK ==
    /\ asks \in {"binding", "allocate"} /\ secure \in BOOLEAN
    /\ link \in Link
    /\ call \in [Call -> Phase]
    /\ attempt \in [Call -> 0 .. 2]
    /\ transactions \subseteq Attempt
    /\ timers \subseteq Attempt
    /\ nonce \in Nat
    /\ permitted \subseteq Peer
    /\ net \subseteq Request \cup Answer \cup Indication
    /\ server \in [nonce : Nat, answers : SUBSET Answer]
    /\ repeats \in 0 .. MaxRepeats
    /\ failed \subseteq Attempt

\* No call can hang and no transaction can leak: a call that waits has the timer of
\* its last attempt set, even when close() has emptied the table under it, and so
\* has every transaction in the table.  Without close(), a timer is set for nothing
\* else.
PendingTimed ==
    /\ \A c \in Call : call[c] = "waiting" => <<c, attempt[c]>> \in timers
    /\ transactions \subseteq timers
    /\ link # "closed" => timers = {<<c, attempt[c]>> : c \in {c \in Call : call[c] = "waiting"}}

\* Whether the server has answered the last attempt of the call in this way.
Answered(c, types) == \E m \in server.answers : m.id = <<c, attempt[c]>> /\ m.type \in types

\* A call is settled by the answer to its last attempt, never by a late or repeated
\* one to the attempt before.  It is rejected without one only if the timer of its
\* last attempt fired, or that could not be sent, or there was no link; and after a
\* first 401 it is always tried again.  A 438, the stale nonce of RFC 8656, is final:
\* only an error that says 401 is retried.  A peer is sent its first datagram after
\* the server has granted the permission.
SettledForCause ==
    \A c \in Call :
        /\ call[c] = "resolved" => Answered(c, {"success"})
        /\ call[c] = "rejected" =>
             \/ Answered(c, {"438", "refused"})
             \/ attempt[c] = 2 /\ Answered(c, {"401"})
             \/ attempt[c] = 0 \/ <<c, attempt[c]>> \in failed
        /\ (\E m \in net : m.type = "first" /\ m.id[1] = c) => Answered(c, {"success"})

\* Every call that has been sent is answered or rejected in the end, close() in
\* between or not, and so is one that waits for a plain socket.  One that waits for
\* a session may wait for ever.
Settles ==
    \A c \in Call :
        call[c] = "waiting" \/ (call[c] = "connecting" /\ ~secure)
            ~> call[c] \in {"resolved", "rejected"}
=============================================================================
