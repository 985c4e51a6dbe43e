------------------------ MODULE PeerConnectionProofs ------------------------
(***************************************************************************)
(* Types, roles and the reported state of PeerConnection, for every number *)
(* of failures and whichever ends are closed.                              *)
(***************************************************************************)
EXTENDS PeerConnection, TLAPS

\* An end acts on descriptions that exist, and only the offerer has made an offer.
NegotiationInv ==
    /\ ~pc[Answerer].isOfferer
    /\ "offer" \in made => pc[Offerer].isOfferer
    /\ "answer" \in made => "offer" \in made
    /\ \A e \in End :
        /\ pc[e].remoteSetup # "none" => Own(Peer(e)) \in made
        /\ \A t \in tasks[e] :
            /\ t.op = "setLocal" => Own(e) \in made
            /\ t.op = "setRemote" => Own(Peer(e)) \in made
            /\ e = Answerer /\ t.op = "create" => "offer" \in made

Inv == TypeOK /\ NegotiationInv /\ RolesAgree /\ StateTellsTruth
-----------------------------------------------------------------------------
LEMMA PeerProperties ==
    ASSUME NEW e \in End
    PROVE  Peer(e) \in End /\ Peer(e) # e /\ (e = Offerer \/ e = Answerer)
BY EndAssumption DEF End, Peer

LEMMA InitInv == Init => Inv
<1> SUFFICES ASSUME Init PROVE Inv
  OBVIOUS
<1> USE EndAssumption
<1>1. TypeOK
  BY DEF Init, TypeOK, NoStack, HasStack, SignalingState, ConnectionState, Layer, Candidate
<1>2. NegotiationInv /\ RolesAgree /\ StateTellsTruth
  BY DEF Init, NegotiationInv, RolesAgree, StateTellsTruth, HasStack, NoStack, End
<1> QED
  BY <1>1, <1>2 DEF Inv
-----------------------------------------------------------------------------
(* A step changes the connection p and the stack k of one end.  What holds *)
(* of the two is kept; Typed and Truthful say it of them alone.            *)

ConnectionType == [certificate : BOOLEAN, isOfferer : BOOLEAN, isClosed : BOOLEAN,
                   local : BOOLEAN, remoteSetup : {"none", "actpass", "active"},
                   signaling : SignalingState, gathering : {"new", "gathering", "complete"},
                   state : ConnectionState, iceError : BOOLEAN]

StackType == [iceRole : {"none", "controlling", "controlled"},
              dtlsRole : {"none", "client", "server"},
              socket : BOOLEAN, remote : BOOLEAN, candidate : Candidate,
              ice : Layer, dtls : Layer, sctp : Layer]

Layered(k) ==
    /\ k.iceRole # "none" <=> k.ice # "none"
    /\ k.dtls # "none" <=> k.ice = "up"
    /\ k.sctp # "none" => k.dtls \notin {"none", "started"}
    /\ k.candidate = "paired" => k.socket

BothUp(k) == k.sctp = "up" /\ k.dtls = "up"

Truthful(p, k) ==
    /\ p.state = "connected" => BothUp(k)
    /\ BothUp(k) => p.state = "connected" \/ (p.state = "failed" /\ p.iceError)

RolesOf(e, k) ==
    k.iceRole # "none" =>
        /\ k.iceRole = IF e = Offerer THEN "controlling" ELSE "controlled"
        /\ k.dtlsRole = IF e = Offerer THEN "server" ELSE "client"

Good(e, p, k) ==
    p \in ConnectionType /\ k \in StackType /\ Layered(k) /\ Truthful(p, k) /\ RolesOf(e, k)

\* Inv, end by end.
Rest ==
    /\ tasks \in [End -> SUBSET Task]
    /\ made \subseteq {"offer", "answer"} /\ candidates \subseteq End /\ told \subseteq End
    /\ failures \in 0 .. MaxFailures

LEMMA InvByEnd ==
    Inv => /\ Rest /\ NegotiationInv
           /\ pc \in [End -> ConnectionType] /\ stack \in [End -> StackType]
           /\ \A e \in End : Good(e, pc[e], stack[e])
BY DEF Inv, TypeOK, Rest, ConnectionType, StackType, Good, Layered, Truthful, BothUp, RolesOf,
       RolesAgree, StateTellsTruth, HasStack

\* The same for the next state, in which one end has changed.
LEMMA OneEnd ==
    ASSUME Inv, NEW e \in End, NEW p, NEW k, Good(e, p, k),
           pc' = [pc EXCEPT ![e] = p], stack' = [stack EXCEPT ![e] = k],
           Rest', NegotiationInv'
    PROVE  Inv'
<1>1. \A f \in End : Good(f, pc[f], stack[f])
  BY InvByEnd
<1>2. pc \in [End -> ConnectionType] /\ stack \in [End -> StackType]
  BY InvByEnd
<1>3. p \in ConnectionType /\ k \in StackType
  BY DEF Good
<1>4. pc' \in [End -> ConnectionType] /\ stack' \in [End -> StackType]
  BY <1>2, <1>3
<1>5. \A f \in End : Good(f, pc'[f], stack'[f])
  BY <1>1, <1>2
<1>6. TypeOK'
  BY <1>4, <1>5 DEF TypeOK, Rest, ConnectionType, StackType, Good, Layered, HasStack
<1>7. RolesAgree' /\ StateTellsTruth'
  BY <1>5 DEF RolesAgree, StateTellsTruth, HasStack, Good, RolesOf, Truthful, BothUp
<1> QED
  BY <1>6, <1>7 DEF Inv

\* Most steps leave NegotiationInv alone: they call nothing and describe nothing.
LEMMA NegotiationKept ==
    ASSUME Inv, made' = made, \A e \in End : tasks'[e] \subseteq tasks[e],
           \A e \in End : pc'[e].isOfferer = pc[e].isOfferer /\ pc'[e].remoteSetup = pc[e].remoteSetup
    PROVE  NegotiationInv'
BY DEF Inv, NegotiationInv, End

\* A step that only reports a state, for a stack that is up or not accordingly.
LEMMA Reports ==
    ASSUME Inv, NEW e \in End, NEW s \in ConnectionState, SetState(e, s), NEW k \in StackType,
           stack' = [stack EXCEPT ![e] = k], Layered(k), RolesOf(e, k),
           s = "connected" <=> BothUp(k),
           UNCHANGED <<tasks, made, candidates, told>>, failures' \in 0 .. MaxFailures
    PROVE  Inv'
<1> DEFINE p == [pc[e] EXCEPT !.state = s, !.iceError = FALSE]
<1>1. pc \in [End -> ConnectionType] /\ Rest
  BY InvByEnd
<1>2. pc' = [pc EXCEPT ![e] = p] /\ p \in ConnectionType /\ p.state = s
      /\ p.isOfferer = pc[e].isOfferer /\ p.remoteSetup = pc[e].remoteSetup
  BY <1>1 DEF SetState, ConnectionType
<1>3. NegotiationInv'
  BY <1>1, <1>2, NegotiationKept
<1>4. Rest'
  BY <1>1 DEF Rest
<1>5. Good(e, p, k)
  BY <1>2 DEF Good, Truthful
<1> QED
  BY <1>2, <1>3, <1>4, <1>5, OneEnd

LEMMA LayersKeepInv ==
    ASSUME Inv, NEW e \in End, ComesUp(e) \/ GoesDown(e)
    PROVE  Inv'
<1>1. /\ pc \in [End -> ConnectionType] /\ stack \in [End -> StackType]
      /\ Good(e, pc[e], stack[e])
      /\ Rest
  BY InvByEnd
<1>2. failures \in 0 .. MaxFailures /\ MaxFailures \in Nat
  BY <1>1, EndAssumption DEF Rest
<1>3. stack[e] \in StackType /\ Layered(stack[e]) /\ RolesOf(e, stack[e])
  BY <1>1 DEF Good
<1>4. {"connecting", "connected", "failed", "disconnected"} \subseteq ConnectionState
      /\ {"none", "started", "up", "failed", "closed"} = Layer
  BY DEF ConnectionState, Layer
<1>5. stack' = [stack EXCEPT ![e] = stack[e]] <=> stack' = stack
  BY <1>1
<1>6. Fails => failures' \in 0 .. MaxFailures
  BY <1>2 DEF Fails
<1>7. CASE IceConnected(e)
  <2> DEFINE k == StartDtls([Learn(stack[e]) EXCEPT !.ice = "up"])
  <2>3. stack[e].socket
    <3>1. PICK c \in End : Checks(c)
      BY <1>7 DEF IceConnected
    <3>2. e = c \/ e = Peer(c)
      BY DEF End, Peer
    <3>3. stack[c].candidate = "paired" /\ stack[Peer(c)].socket
      BY <3>1 DEF Checks
    <3> QED
      BY <1>3, <3>2, <3>3 DEF Layered
  <2>4. stack[e].iceRole # "none" /\ stack[e].sctp = "none"
    BY <1>3, <1>7 DEF IceConnected, Layered
  <2>5. Learn(stack[e]) \in StackType /\ RolesOf(e, Learn(stack[e]))
        /\ Learn(stack[e]).iceRole # "none" /\ Learn(stack[e]).sctp = "none"
        /\ Learn(stack[e]).socket
    BY <1>3, <2>3, <2>4 DEF StackType, RolesOf, Learn, Candidate
  <2>1. k \in StackType /\ Layered(k) /\ RolesOf(e, k) /\ k.dtls = "started"
    BY <1>4, <2>5 DEF StartDtls, StackType, Layered, RolesOf
  <2>2. stack' = [stack EXCEPT ![e] = k] /\ SetState(e, "connecting")
        /\ UNCHANGED <<tasks, made, candidates, told, failures>>
    BY <1>1, <1>7 DEF IceConnected
  <2> QED
    BY <1>2, <1>4, <2>1, <2>2, Reports DEF BothUp
<1>8. CASE DtlsConnected(e)
  <2> DEFINE k == [stack[e] EXCEPT !.dtls = "up", !.sctp = "started"]
  <2>1. k \in StackType /\ Layered(k) /\ RolesOf(e, k) /\ k.sctp = "started"
    BY <1>3, <1>4, <1>8 DEF DtlsConnected, StackType, Layered, RolesOf
  <2>2. stack' = [stack EXCEPT ![e] = k] /\ pc' = [pc EXCEPT ![e] = pc[e]]
    BY <1>1, <1>8 DEF DtlsConnected
  <2>3. pc[e].state # "connected"
    BY <1>1, <1>8 DEF Good, Truthful, BothUp, DtlsConnected
  <2>4. Good(e, pc[e], k)
    BY <1>1, <2>1, <2>3 DEF Good, Truthful, BothUp
  <2>5. Rest' /\ NegotiationInv'
    BY <1>1, <1>8, NegotiationKept DEF Rest, DtlsConnected
  <2> QED
    BY <2>2, <2>4, <2>5, OneEnd
<1>9. CASE SctpEstablished(e)
  <2> DEFINE k == [stack[e] EXCEPT !.sctp = "up"]
  <2>1. k \in StackType /\ Layered(k) /\ RolesOf(e, k) /\ k.sctp = "up" /\ k.dtls = "up"
    BY <1>3, <1>4, <1>9 DEF SctpEstablished, StackType, Layered, RolesOf
  <2>2. stack' = [stack EXCEPT ![e] = k] /\ SetState(e, "connected")
        /\ UNCHANGED <<tasks, made, candidates, told, failures>>
    BY <1>1, <1>9 DEF SctpEstablished
  <2> QED
    BY <1>2, <1>4, <2>1, <2>2, Reports DEF BothUp
<1>10. CASE IceFails(e)
  <2> DEFINE p == [pc[e] EXCEPT !.state = "failed", !.iceError = TRUE]
  <2>1. pc' = [pc EXCEPT ![e] = p] /\ stack' = [stack EXCEPT ![e] = stack[e]]
    BY <1>1, <1>5, <1>10 DEF IceFails
  <2>2. p \in ConnectionType /\ p.state = "failed" /\ p.iceError
        /\ p.isOfferer = pc[e].isOfferer /\ p.remoteSetup = pc[e].remoteSetup
    BY <1>1, <1>4 DEF ConnectionType
  <2>3. Good(e, p, stack[e])
    BY <1>3, <2>2 DEF Good, Truthful
  <2>4. Rest' /\ NegotiationInv'
    BY <1>1, <1>6, <1>10, <2>1, <2>2, NegotiationKept DEF Rest, IceFails
  <2> QED
    BY <2>1, <2>3, <2>4, OneEnd
<1>11. CASE DtlsFails(e)
  <2> DEFINE k == [stack[e] EXCEPT !.dtls = "failed"]
  <2>1. k \in StackType /\ Layered(k) /\ RolesOf(e, k) /\ k.dtls = "failed"
    BY <1>3, <1>4, <1>11 DEF DtlsFails, StackType, Layered, RolesOf
  <2>2. stack' = [stack EXCEPT ![e] = k] /\ SetState(e, "failed") /\ Fails
        /\ UNCHANGED <<tasks, made, candidates, told>>
    BY <1>1, <1>11 DEF DtlsFails, Fail
  <2> QED
    BY <1>4, <1>6, <2>1, <2>2, Reports DEF BothUp
<1>12. CASE SctpSendFails(e)
  <2>1. stack' = [stack EXCEPT ![e] = stack[e]] /\ SetState(e, "failed")
        /\ UNCHANGED <<tasks, made, candidates, told, failures>> /\ stack[e].dtls # "up"
    BY <1>5, <1>12 DEF SctpSendFails, Fail
  <2> QED
    BY <1>2, <1>3, <1>4, <2>1, Reports DEF BothUp
<1>13. CASE SctpCloses(e)
  <2> DEFINE k == [stack[e] EXCEPT !.sctp = "closed"]
  <2>1. k \in StackType /\ Layered(k) /\ RolesOf(e, k) /\ k.sctp = "closed"
    BY <1>3, <1>4, <1>13 DEF SctpCloses, StackType, Layered, RolesOf
  <2>2. stack' = [stack EXCEPT ![e] = k] /\ SetState(e, "disconnected")
        /\ UNCHANGED <<tasks, made, candidates, told>>
    BY <1>1, <1>13 DEF SctpCloses, ClosedBelow
  <2>3. failures' \in 0 .. MaxFailures
    BY <1>2, <1>6, <1>13 DEF SctpCloses
  <2> QED
    BY <1>4, <2>1, <2>2, <2>3, Reports DEF BothUp
<1>14. CASE DtlsCloses(e)
  <2> DEFINE k == [stack[e] EXCEPT !.dtls = "closed"]
  <2>1. k \in StackType /\ Layered(k) /\ RolesOf(e, k) /\ k.dtls = "closed"
    BY <1>3, <1>4, <1>14 DEF DtlsCloses, StackType, Layered, RolesOf
  <2>2. stack' = [stack EXCEPT ![e] = k] /\ SetState(e, "disconnected")
        /\ UNCHANGED <<tasks, made, candidates, told, failures>>
    BY <1>1, <1>14 DEF DtlsCloses, ClosedBelow
  <2> QED
    BY <1>2, <1>4, <2>1, <2>2, Reports DEF BothUp
<1>15. CASE LearnCandidate(e)
  <2> DEFINE k == Learn(stack[e])
  <2>1. stack' = [stack EXCEPT ![e] = k] /\ pc' = [pc EXCEPT ![e] = pc[e]]
    BY <1>1, <1>15 DEF LearnCandidate
  <2>2. stack[e].socket
    BY <1>15 DEF LearnCandidate
  <2>3. k \in StackType /\ Layered(k) /\ RolesOf(e, k)
        /\ k.sctp = stack[e].sctp /\ k.dtls = stack[e].dtls
    BY <1>3, <2>2 DEF Learn, StackType, Candidate, Layered, RolesOf
  <2>4. Good(e, pc[e], k)
    BY <1>1, <2>3 DEF Good, Truthful, BothUp
  <2>5. Rest' /\ NegotiationInv'
    BY <1>1, <1>15, NegotiationKept DEF Rest, LearnCandidate
  <2> QED
    BY <2>1, <2>4, <2>5, OneEnd
<1> QED
  BY <1>7, <1>8, <1>9, <1>10, <1>11, <1>12, <1>13, <1>14, <1>15 DEF ComesUp, GoesDown
-----------------------------------------------------------------------------
\* An end calls.
LEMMA CallKeepsInv ==
    ASSUME Inv, NEW e \in End, NEW op \in {"create", "setLocal", "setRemote"}, Call(e, op),
           op = "setLocal" => Own(e) \in made,
           op = "setRemote" => Own(Peer(e)) \in made,
           e = Answerer /\ op = "create" => "offer" \in made
    PROVE  Inv'
<1>1. /\ pc \in [End -> ConnectionType] /\ stack \in [End -> StackType]
      /\ Good(e, pc[e], stack[e]) /\ Rest /\ NegotiationInv
  BY InvByEnd
<1>2. pc' = [pc EXCEPT ![e] = pc[e]] /\ stack' = [stack EXCEPT ![e] = stack[e]]
      /\ pc' = pc /\ made' = made
  BY <1>1 DEF Call
<1>3. \A f \in End : tasks'[f] = IF f = e
                      THEN tasks[e] \cup {[op |-> op, awaits |-> "certificate"]} ELSE tasks[f]
  BY <1>1 DEF Rest, Call
<1>4. NegotiationInv'
  BY <1>1, <1>2, <1>3 DEF NegotiationInv
<1>5. Rest'
  BY <1>1 DEF Rest, Call, Task
<1> QED
  BY <1>1, <1>2, <1>4, <1>5, OneEnd

LEMMA ApplicationKeepsInv ==
    ASSUME Inv, NEW e \in End, Application(e)
    PROVE  Inv'
<1>1. /\ pc \in [End -> ConnectionType] /\ stack \in [End -> StackType]
      /\ Good(e, pc[e], stack[e]) /\ Rest /\ NegotiationInv
  BY InvByEnd
<1>2. CASE Create(e)
  <2>1. e = Answerer => Own(Peer(e)) = "offer"
    BY EndAssumption DEF Own, Peer
  <2>2. e = Answerer => "offer" \in made
    BY <1>1, <1>2, <2>1 DEF Create, NegotiationInv
  <2> QED
    BY <1>2, <2>2, CallKeepsInv DEF Create
<1>3. CASE SetLocalDescription(e)
  BY <1>3, CallKeepsInv DEF SetLocalDescription
<1>4. CASE SetRemoteDescription(e)
  BY <1>4, CallKeepsInv DEF SetRemoteDescription
<1>5. CASE AddIceCandidate(e)
  <2> DEFINE k == AddCandidate(stack[e])
  <2>1. pc' = [pc EXCEPT ![e] = pc[e]] /\ stack' = [stack EXCEPT ![e] = k]
    BY <1>1, <1>5 DEF AddIceCandidate
  <2>2. Good(e, pc[e], k)
    BY <1>1 DEF Good, StackType, Layered, Truthful, BothUp, RolesOf, AddCandidate, Candidate
  <2>3. Rest' /\ NegotiationInv'
    BY <1>1, <1>5, NegotiationKept DEF Rest, AddIceCandidate
  <2> QED
    BY <2>1, <2>2, <2>3, OneEnd
<1>6. CASE Close(e)
  <2> DEFINE q == [pc[e] EXCEPT !.isClosed = TRUE, !.signaling = "closed", !.state = "closed"]
  <2>1. pc' = [pc EXCEPT ![e] = q] /\ stack' = [stack EXCEPT ![e] = NoStack]
    BY <1>1, <1>6 DEF Close
  <2>2. q \in ConnectionType /\ q.isOfferer = pc[e].isOfferer /\ q.remoteSetup = pc[e].remoteSetup
        /\ q.state = "closed"
    <3>1. pc[e] \in ConnectionType
      BY <1>1
    <3>2. "closed" \in SignalingState /\ "closed" \in ConnectionState
      BY DEF SignalingState, ConnectionState
    <3> QED
      BY <3>1, <3>2 DEF ConnectionType
  <2>3. Good(e, q, NoStack)
    BY <2>2 DEF Good, NoStack, StackType, Layer, Candidate, Layered, Truthful, BothUp, RolesOf
  <2>4. Rest' /\ NegotiationInv'
    BY <1>1, <1>6, <2>1, <2>2, NegotiationKept DEF Rest, Close
  <2> QED
    BY <2>1, <2>3, <2>4, OneEnd
<1> QED
  BY <1>2, <1>3, <1>4, <1>5, <1>6 DEF Application
-----------------------------------------------------------------------------
\* The roles of a stack that is made now.
LEMMA SetupRolesGood ==
    ASSUME NEW e \in End, NEW p \in ConnectionType, NEW q \in ConnectionType, NEW k,
           Good(e, p, k), q.state = p.state, q.iceError = p.iceError, NEW r \in ConnectionType,
           r.isOfferer <=> e = Offerer
    PROVE  Good(e, q, SetupRoles(k, r)) /\ Good(e, q, HandCredentials(SetupRoles(k, r), q))
<1>1. r.remoteSetup # "passive"
  BY DEF ConnectionType
<1>2. Good(e, q, SetupRoles(k, r))
  <2>1. CASE k.iceRole # "none"
    BY <2>1 DEF Good, Truthful, BothUp, SetupRoles
  <2>2. CASE k.iceRole = "none"
    <3>1. k.dtls = "none" /\ k.ice = "none" /\ k.sctp = "none"
      BY <2>2 DEF Good, Layered, StackType
    <3> QED
      BY <1>1, <2>2, <3>1 DEF Good, Truthful, BothUp, SetupRoles, Layered, RolesOf, StackType, Layer
  <2> QED
    BY <2>1, <2>2
<1>3. ASSUME NEW j, Good(e, q, j) PROVE Good(e, q, HandCredentials(j, q))
  <2>1. CASE q.remoteSetup = "none"
    BY <1>3, <2>1 DEF HandCredentials
  <2>2. CASE q.remoteSetup # "none"
    <3> DEFINE h == [j EXCEPT !.remote = TRUE]
    <3>1. j \in StackType
      BY <1>3 DEF Good
    <3>2. /\ h \in StackType /\ h.iceRole = j.iceRole /\ h.dtlsRole = j.dtlsRole
          /\ h.ice = j.ice /\ h.dtls = j.dtls /\ h.sctp = j.sctp
          /\ h.candidate = j.candidate /\ h.socket = j.socket
      BY <3>1 DEF StackType
    <3>3. HandCredentials(j, q) = h
      BY <2>2 DEF HandCredentials
    <3> HIDE DEF h
    <3>4. Good(e, q, h)
      BY <1>3, <3>2 DEF Good, Layered, Truthful, BothUp, RolesOf
    <3> QED
      BY <3>3, <3>4
  <2> QED
    BY <2>1, <2>2
<1> QED
  BY <1>2, <1>3

LEMMA ContinuationKeepsInv ==
    ASSUME Inv, NEW e \in End, Continuation(e)
    PROVE  Inv'
<1>1. /\ pc \in [End -> ConnectionType] /\ stack \in [End -> StackType]
      /\ Good(e, pc[e], stack[e]) /\ Rest /\ NegotiationInv
      /\ pc[e] \in ConnectionType
  BY InvByEnd
<1>2. Peer(e) \in End /\ (e = Offerer \/ e = Answerer) /\ Offerer # Answerer
  BY PeerProperties, EndAssumption
<1>3. ASSUME NEW t, NEW after, Continue(e, t, after), after \in SUBSET Task
      PROVE  /\ tasks' \in [End -> SUBSET Task] /\ t \in tasks[e]
             /\ \A f \in End : tasks'[f] = IF f = e THEN (tasks[e] \ {t}) \cup after ELSE tasks[f]
  BY <1>1, <1>3 DEF Rest, Continue
<1>10. ASSUME NEW t, Continue(e, t, {})
       PROVE  /\ tasks' \in [End -> SUBSET Task] /\ t \in tasks[e]
              /\ \A f \in End : tasks'[f] \subseteq tasks[f]
  <2>1. {} \in SUBSET Task
    OBVIOUS
  <2>2. /\ tasks' \in [End -> SUBSET Task] /\ t \in tasks[e]
        /\ \A f \in End : tasks'[f] = IF f = e THEN (tasks[e] \ {t}) \cup {} ELSE tasks[f]
    BY <1>3, <1>10, <2>1
  <2> QED
    BY <2>2
<1>4. CASE Created(e)
  <2> DEFINE t == [op |-> "create", awaits |-> "certificate"]
             q == [pc[e] EXCEPT !.certificate = TRUE, !.isOfferer = @ \/ e = Offerer]
  <2>1. /\ tasks' \in [End -> SUBSET Task] /\ t \in tasks[e]
        /\ \A f \in End : tasks'[f] \subseteq tasks[f]
    BY <1>10, <1>4 DEF Created
  <2>2. pc' = [pc EXCEPT ![e] = q] /\ stack' = [stack EXCEPT ![e] = stack[e]]
        /\ made' = made \cup {Own(e)}
    BY <1>1, <1>4 DEF Created
  <2>3. q \in ConnectionType /\ q.state = pc[e].state /\ q.iceError = pc[e].iceError /\ q.remoteSetup = pc[e].remoteSetup
        /\ q.isOfferer = (pc[e].isOfferer \/ e = Offerer)
    BY <1>1 DEF ConnectionType
  <2>4. Good(e, q, stack[e])
    BY <1>1, <2>3 DEF Good, Truthful, BothUp
  <2>5. Rest'
    BY <1>1, <1>4, <2>1, <2>2 DEF Rest, Created, Own
  <2>6. e = Answerer => "offer" \in made
    BY <1>1, <2>1 DEF NegotiationInv
  <2>7. Own(e) = IF e = Offerer THEN "offer" ELSE "answer"
    BY DEF Own
  <2>8. ~pc'[Answerer].isOfferer /\ ("offer" \in made' => pc'[Offerer].isOfferer)
    <3>1. Offerer \in End /\ Answerer \in End
      BY DEF End
    <3> QED
      BY <1>1, <1>2, <2>2, <2>3, <2>7, <3>1 DEF NegotiationInv
  <2>9. \A f \in End : pc'[f].remoteSetup = pc[f].remoteSetup
    BY <1>1, <2>2, <2>3
  <2>10. NegotiationInv'
    BY <1>1, <1>2, <2>1, <2>2, <2>6, <2>7, <2>8, <2>9 DEF NegotiationInv
  <2> QED
    BY <2>2, <2>4, <2>5, <2>10, OneEnd
<1>5. ASSUME Own(e) \in made \/ Own(Peer(e)) \in made PROVE pc[e].isOfferer <=> e = Offerer
  BY <1>1, <1>2, <1>5 DEF NegotiationInv, Own, Peer
<1>6. CASE LocalSet(e)
  <2> DEFINE t == [op |-> "setLocal", awaits |-> "certificate"]
             after == {[op |-> "setLocal", awaits |-> "candidates"]}
             q == [pc[e] EXCEPT !.certificate = TRUE, !.local = TRUE, !.gathering = "gathering",
                                !.signaling = IF e = Offerer THEN "have-local-offer" ELSE "stable"]
             k == SetupRoles(stack[e], pc[e])
  <2>1. after \in SUBSET Task
    BY DEF Task
  <2>2. /\ tasks' \in [End -> SUBSET Task] /\ t \in tasks[e]
        /\ \A f \in End : tasks'[f] = IF f = e THEN (tasks[e] \ {t}) \cup after ELSE tasks[f]
    BY <1>3, <1>6, <2>1 DEF LocalSet
  <2>3. pc' = [pc EXCEPT ![e] = q] /\ stack' = [stack EXCEPT ![e] = k] /\ made' = made
    BY <1>1, <1>6 DEF LocalSet
  <2>4. q \in ConnectionType /\ q.state = pc[e].state /\ q.iceError = pc[e].iceError /\ q.remoteSetup = pc[e].remoteSetup
        /\ q.isOfferer = pc[e].isOfferer
    BY <1>1 DEF ConnectionType, SignalingState
  <2>5. Own(e) \in made
    BY <1>1, <2>2 DEF NegotiationInv
  <2>6. Good(e, q, k)
    BY <1>1, <1>5, <2>4, <2>5, SetupRolesGood
  <2>7. Rest'
    BY <1>1, <1>6, <2>2, <2>3 DEF Rest, LocalSet
  <2>8. \A f \in End : pc'[f].isOfferer = pc[f].isOfferer /\ pc'[f].remoteSetup = pc[f].remoteSetup
    BY <1>1, <2>3, <2>4
  <2>9. NegotiationInv'
    BY <1>1, <2>2, <2>3, <2>5, <2>8 DEF NegotiationInv, End
  <2> QED
    BY <2>3, <2>6, <2>7, <2>9, OneEnd
<1>7. CASE GatherCandidate(e)
  <2> DEFINE k == [stack[e] EXCEPT !.socket = TRUE]
  <2>1. pc' = [pc EXCEPT ![e] = pc[e]] /\ stack' = [stack EXCEPT ![e] = k]
    BY <1>1, <1>7 DEF GatherCandidate
  <2>2. Good(e, pc[e], k)
    BY <1>1 DEF Good, StackType, Layered, Truthful, BothUp, RolesOf
  <2>3. Rest' /\ NegotiationInv'
    BY <1>1, <1>7, NegotiationKept DEF Rest, GatherCandidate
  <2> QED
    BY <2>1, <2>2, <2>3, OneEnd
<1>8. CASE LocalDone(e)
  <2> DEFINE t == [op |-> "setLocal", awaits |-> "candidates"]
             q == [pc[e] EXCEPT !.gathering = "complete"]
             k == IF HasStack(e) THEN HandCredentials(stack[e], q) ELSE stack[e]
  <2>1. tasks' \in [End -> SUBSET Task] /\ \A f \in End : tasks'[f] \subseteq tasks[f]
    BY <1>10, <1>8 DEF LocalDone
  <2>2. pc' = [pc EXCEPT ![e] = q] /\ pc'[e] = q
    BY <1>1, <1>8 DEF LocalDone
  <2>3. stack' = [stack EXCEPT ![e] = k] /\ made' = made
    BY <1>1, <1>8, <2>2 DEF LocalDone
  <2>4. q \in ConnectionType /\ q.state = pc[e].state /\ q.iceError = pc[e].iceError /\ q.remoteSetup = pc[e].remoteSetup
        /\ q.isOfferer = pc[e].isOfferer
    BY <1>1 DEF ConnectionType
  <2>5. Good(e, q, k)
    <3> DEFINE h == [stack[e] EXCEPT !.remote = TRUE]
    <3>1. Good(e, q, stack[e])
      BY <1>1, <2>4 DEF Good, Truthful
    <3>2. Good(e, q, h)
      BY <1>1, <3>1 DEF Good, StackType, Layered, Truthful, BothUp, RolesOf
    <3>3. k \in {stack[e], h}
      BY DEF HandCredentials
    <3> HIDE DEF k, h
    <3> QED
      BY <3>1, <3>2, <3>3
  <2>6. Rest'
    BY <1>1, <1>8, <2>1 DEF Rest, LocalDone
  <2>7. NegotiationInv'
    BY <1>1, <2>1, <2>2, <2>3, <2>4, NegotiationKept
  <2> QED
    BY <2>2, <2>3, <2>5, <2>6, <2>7, OneEnd
<1>9. CASE RemoteSet(e)
  <2> DEFINE t == [op |-> "setRemote", awaits |-> "certificate"]
             q == [pc[e] EXCEPT !.certificate = TRUE, !.remoteSetup = Setup(Own(Peer(e))),
                                !.signaling = IF e = Answerer THEN "have-remote-offer" ELSE "stable"]
             k == HandCredentials(SetupRoles(stack[e], q), q)
  <2>1. /\ tasks' \in [End -> SUBSET Task] /\ t \in tasks[e]
        /\ \A f \in End : tasks'[f] \subseteq tasks[f]
    BY <1>10, <1>9 DEF RemoteSet
  <2>2. pc' = [pc EXCEPT ![e] = q] /\ pc'[e] = q
    BY <1>1, <1>9 DEF RemoteSet
  <2>3. stack' = [stack EXCEPT ![e] = k] /\ made' = made
    BY <1>1, <1>9, <2>2 DEF RemoteSet
  <2>4. q \in ConnectionType /\ q.state = pc[e].state /\ q.iceError = pc[e].iceError /\ q.isOfferer = pc[e].isOfferer
    BY <1>1 DEF ConnectionType, SignalingState, Setup
  <2>5. Own(Peer(e)) \in made
    BY <1>1, <2>1 DEF NegotiationInv
  <2>6. Good(e, q, k)
    BY <1>1, <1>5, <2>4, <2>5, SetupRolesGood
  <2>7. Rest'
    BY <1>1, <1>9, <2>1, <2>3 DEF Rest, RemoteSet
  <2>8. \A f \in End : /\ pc'[f].isOfferer = pc[f].isOfferer
                       /\ f # e => pc'[f].remoteSetup = pc[f].remoteSetup
    BY <1>1, <2>2, <2>4
  <2>9. NegotiationInv'
    BY <1>1, <2>1, <2>3, <2>5, <2>8 DEF NegotiationInv, End
  <2> QED
    BY <2>2, <2>3, <2>6, <2>7, <2>9, OneEnd
<1> QED
  BY <1>4, <1>6, <1>7, <1>8, <1>9 DEF Continuation, Resumes
-----------------------------------------------------------------------------
LEMMA StepInv == Inv /\ [Next]_vars => Inv'
<1>1. ASSUME Inv, UNCHANGED vars PROVE Inv'
  BY <1>1 DEF Inv, TypeOK, NegotiationInv, RolesAgree, StateTellsTruth, HasStack, vars
<1>2. ASSUME Inv, Next PROVE Inv'
  BY <1>2, ApplicationKeepsInv, ContinuationKeepsInv, LayersKeepInv DEF Next
<1> QED
  BY <1>1, <1>2

LEMMA Invariant == Spec => []Inv
BY InitInv, StepInv, PTL DEF Spec

\* Every variable keeps its type, and a layer is there only above one that has been
\* up (transport-stack.ts 60-143).
THEOREM TypeCorrect == Spec => []TypeOK
<1>1. Inv => TypeOK
  BY DEF Inv
<1> QED
  BY <1>1, Invariant, PTL

\* The offerer controls and is the DTLS server, the answerer is controlled and is
\* the DTLS client, whenever their stacks are made (RTCPeerConnection.ts 340-360).
THEOREM RolesComplementary == Spec => []RolesAgree
<1>1. Inv => RolesAgree
  BY DEF Inv
<1> QED
  BY <1>1, Invariant, PTL

\* A connection reports "connected" only while SCTP and DTLS are up, and while they
\* are up nothing else but "failed" after an error of ICE, through any failures, closes
\* and calls that return late (RTCPeerConnection.ts 156-166, transport-stack.ts 60).
THEOREM StateTrue == Spec => []StateTellsTruth
<1>1. Inv => StateTellsTruth
  BY DEF Inv
<1> QED
  BY <1>1, Invariant, PTL
=============================================================================
