--------------------------- MODULE PeerConnection ---------------------------
(***************************************************************************)
(* Two peer connections (peerconnection/RTCPeerConnection.ts), one that    *)
(* offers and one that answers, each with its transport stack              *)
(* (transport-stack.ts): the calls of the application with what runs       *)
(* before and after each of their awaits, the trickled candidates, the     *)
(* events by which the layers start each other, and close().               *)
(*                                                                         *)
(* Of the layers there is what IceAgent, DtlsHandshake and SctpAssociation *)
(* promise: a layer comes up at the controlled end, or at the server,      *)
(* before it does at the other.  The data channels are in DataChannel.     *)
(* The applications make one offer and one answer, and carry them and the  *)
(* candidates to each other in any order; each end has one candidate.      *)
(* "Planted bug" operators are not part of the model.                      *)
(***************************************************************************)
EXTENDS Naturals, FiniteSets

CONSTANTS
    Offerer, Answerer,      \* the two ends
    MayClose,               \* the ends that their application closes
    MaxFailures             \* bound: errors of a layer

End == {Offerer, Answerer}
Peer(e) == IF e = Offerer THEN Answerer ELSE Offerer

ASSUME EndAssumption ==
    /\ Offerer # Answerer
    /\ MayClose \subseteq End
    /\ MaxFailures \in Nat

VARIABLES
    pc,             \* the RTCPeerConnection of each end
    stack,          \* its TransportStack, or NoStack
    tasks,          \* its calls that have not returned, see Task
    made,           \* the descriptions that the applications have been given
    candidates,     \* the ends that have emitted their candidate
    told,           \* the ends that have been told of the peer's candidate
    failures        \* how many errors of layers there have been

vars == <<pc, stack, tasks, made, candidates, told, failures>>

\* What an end that offers, or answers, says and applies locally.
Own(e) == IF e = Offerer THEN "offer" ELSE "answer"
Setup(desc) == IF desc = "offer" THEN "actpass" ELSE "active"

\* A call waits for the certificate, or for the candidates.
Task == [op : {"create", "setLocal", "setRemote"}, awaits : {"certificate", "candidates"}]
SignalingState == {"stable", "have-local-offer", "have-remote-offer", "closed"}
ConnectionState == {"new", "connecting", "connected", "failed", "disconnected", "closed"}
Layer == {"none", "started", "up", "failed", "closed"}
\* The peer's candidate: known to the ICE agent, and in a pair that it checks.
Candidate == {"unknown", "known", "paired"}

NoStack == [iceRole |-> "none", dtlsRole |-> "none", socket |-> FALSE, remote |-> FALSE,
            candidate |-> "unknown", ice |-> "none", dtls |-> "none", sctp |-> "none"]

\* iceError is history: the state was last set for an error of ICE.
Init ==
    /\ pc = [e \in End |-> [certificate |-> FALSE, isOfferer |-> FALSE, isClosed |-> FALSE,
                            local |-> FALSE, remoteSetup |-> "none",
                            signaling |-> "stable", gathering |-> "new", state |-> "new", iceError |-> FALSE]]
    /\ stack = [e \in End |-> NoStack]
    /\ tasks = [e \in End |-> {}]
    /\ made = {}
    /\ candidates = {}
    /\ told = {}
    /\ failures = 0
-----------------------------------------------------------------------------
(* Calls: what runs before the first await.                                *)

Called(e, op) == \E t \in tasks[e] : t.op = op

\* The application waits for its first call, in which the certificate is made.
Call(e, op) ==
    /\ ~pc[e].isClosed
    /\ ~Called(e, op)
    /\ tasks[e] = {} \/ pc[e].certificate
    /\ tasks' = [tasks EXCEPT ![e] = @ \cup {[op |-> op, awaits |-> "certificate"]}]
    /\ UNCHANGED <<pc, stack, made, candidates, told, failures>>

\* createOffer or createAnswer; the latter needs the remote offer.
Create(e) ==
    /\ e = Answerer => pc[e].remoteSetup = "actpass"
    /\ Own(e) \notin made
    /\ Call(e, "create")

SetLocalDescription(e) == Own(e) \in made /\ ~pc[e].local /\ Call(e, "setLocal")

SetRemoteDescription(e) ==
    Own(Peer(e)) \in made /\ pc[e].remoteSetup = "none" /\ Call(e, "setRemote")
-----------------------------------------------------------------------------
(* The stack.                                                              *)

HasStack(e) == stack[e].iceRole # "none"

\* Planted bug: an end that has not seen the answer is the DTLS client.
EagerRoles(k, p) ==
    IF k.iceRole # "none" THEN k
    ELSE [k EXCEPT !.iceRole = IF p.isOfferer THEN "controlling" ELSE "controlled",
                   !.dtlsRole = IF p.isOfferer /\ p.remoteSetup = "active" THEN "server" ELSE "client",
                   !.ice = "started"]

\* #setupRolesAndStack, for a connection p that has the stack k, if any.
SetupRoles(k, p) ==
    IF k.iceRole # "none" THEN k
    ELSE [k EXCEPT !.iceRole = IF p.isOfferer THEN "controlling" ELSE "controlled",
                   !.dtlsRole = IF p.isOfferer /\ p.remoteSetup # "passive" THEN "server" ELSE "client",
                   !.ice = "started"]

\* Planted bug: credentials that come after the end of gathering are not handed over.
KeepCredentials(k, p) ==
    IF p.remoteSetup # "none" /\ p.gathering # "complete" THEN [k EXCEPT !.remote = TRUE] ELSE k

\* setRemote: the remote credentials are handed to the ICE agent.
HandCredentials(k, p) == IF p.remoteSetup # "none" THEN [k EXCEPT !.remote = TRUE] ELSE k
-----------------------------------------------------------------------------
(* What runs after the awaits.                                             *)

Continue(e, t, after) ==
    /\ t \in tasks[e]
    /\ tasks' = [tasks EXCEPT ![e] = (@ \ {t}) \cup after]

Created(e) ==
    /\ Continue(e, [op |-> "create", awaits |-> "certificate"], {})
    /\ pc' = [pc EXCEPT ![e].certificate = TRUE, ![e].isOfferer = @ \/ e = Offerer]
    /\ made' = made \cup {Own(e)}
    /\ UNCHANGED <<stack, candidates, told, failures>>

\* isClosed is not looked at again: a connection closed meanwhile gets a stack.
LocalSet(e) ==
    /\ Continue(e, [op |-> "setLocal", awaits |-> "certificate"],
                   {[op |-> "setLocal", awaits |-> "candidates"]})
    /\ pc' = [pc EXCEPT ![e].certificate = TRUE, ![e].local = TRUE, ![e].gathering = "gathering",
                        ![e].signaling = IF e = Offerer THEN "have-local-offer" ELSE "stable"]
    /\ stack' = [stack EXCEPT ![e] = SetupRoles(@, pc[e])]
    /\ UNCHANGED <<made, candidates, told, failures>>

\* A socket is bound, and its candidate told to the application if the connection
\* has not been closed.
GatherCandidate(e) ==
    /\ [op |-> "setLocal", awaits |-> "candidates"] \in tasks[e]
    /\ e \notin candidates
    /\ HasStack(e)
    /\ stack' = [stack EXCEPT ![e].socket = TRUE]
    /\ candidates' = candidates \cup {e}
    /\ UNCHANGED <<pc, tasks, made, told, failures>>

LocalDone(e) ==
    /\ Continue(e, [op |-> "setLocal", awaits |-> "candidates"], {})
    /\ e \in candidates \/ ~HasStack(e)
    /\ pc' = [pc EXCEPT ![e].gathering = "complete"]
    /\ stack' = [stack EXCEPT ![e] = IF HasStack(e) THEN HandCredentials(@, pc'[e]) ELSE @]
    /\ UNCHANGED <<made, candidates, told, failures>>

RemoteSet(e) ==
    /\ Continue(e, [op |-> "setRemote", awaits |-> "certificate"], {})
    /\ pc' = [pc EXCEPT ![e].certificate = TRUE,
                        ![e].remoteSetup = Setup(Own(Peer(e))),
                        ![e].signaling = IF e = Answerer THEN "have-remote-offer" ELSE "stable"]
    /\ stack' = [stack EXCEPT ![e] = HandCredentials(SetupRoles(@, pc'[e]), pc'[e])]
    /\ UNCHANGED <<made, candidates, told, failures>>

\* A candidate that comes before the stack is dropped.  One that comes before the
\* own candidate is kept without a pair: no pairs are formed when that is added.
AddCandidate(k) ==
    [k EXCEPT !.candidate = IF k.iceRole = "none" THEN "unknown" ELSE IF k.socket THEN "paired" ELSE "known"]

AddIceCandidate(e) ==
    /\ ~pc[e].isClosed
    /\ Peer(e) \in candidates /\ e \notin told
    /\ told' = told \cup {e}
    /\ stack' = [stack EXCEPT ![e] = AddCandidate(@)]
    /\ UNCHANGED <<pc, tasks, made, candidates, failures>>
-----------------------------------------------------------------------------
(* Events of the stack.                                                    *)

SetState(e, s) == pc' = [pc EXCEPT ![e].state = s, ![e].iceError = FALSE]

\* An end that has a pair and the credentials checks the other's socket.
Checks(e) == stack[e].remote /\ stack[e].candidate = "paired" /\ stack[Peer(e)].socket

\* A check from an unknown source makes a pair of it; one from a known source does not.
Learn(k) == [k EXCEPT !.candidate = IF k.candidate = "unknown" THEN "paired" ELSE k.candidate]

\* The controlling agent is checked by the controlled one, which goes on until it
\* selects.  (The other way round the check nominates: IceConnected.)
LearnCandidate(e) ==
    /\ stack[e].iceRole = "controlling" /\ stack[e].socket
    /\ stack[e].candidate = "unknown"
    /\ Checks(Peer(e)) /\ stack[Peer(e)].ice = "started"
    /\ stack' = [stack EXCEPT ![e] = Learn(@)]
    /\ UNCHANGED <<pc, tasks, made, candidates, told, failures>>

\* Planted bug: SCTP is started with DTLS.
StartBoth(k) == [k EXCEPT !.dtls = "started", !.sctp = "started"]

StartDtls(k) == [k EXCEPT !.dtls = "started"]

\* An agent that selects a pair: 'connected', the first time.  The controlled one is
\* nominated by a check, whether it has a pair for its source or not.
IceConnected(e) ==
    /\ stack[e].ice = "started"
    /\ stack[e].iceRole = "controlling" => stack[Peer(e)].ice = "up"
    /\ \E c \in End : stack[c].iceRole = "controlling" /\ stack[Peer(c)].iceRole = "controlled" /\ Checks(c)
    /\ stack' = [stack EXCEPT ![e] = StartDtls([Learn(@) EXCEPT !.ice = "up"])]
    /\ SetState(e, "connecting")
    /\ UNCHANGED <<tasks, made, candidates, told, failures>>

\* The handshake takes a client and a server.  SCTP is started.
DtlsConnected(e) ==
    LET other == stack[Peer(e)] IN
    /\ stack[e].dtls = "started"
    /\ other.dtlsRole # stack[e].dtlsRole
    /\ other.dtls = IF stack[e].dtlsRole = "server" THEN "started" ELSE "up"
    /\ stack' = [stack EXCEPT ![e].dtls = "up", ![e].sctp = "started"]
    /\ UNCHANGED <<pc, tasks, made, candidates, told, failures>>

SctpEstablished(e) ==
    LET other == stack[Peer(e)] IN
    /\ stack[e].sctp = "started" /\ stack[e].dtls = "up"
    /\ other.sctp = IF stack[e].dtlsRole = "server" THEN "started" ELSE "up"
    /\ stack' = [stack EXCEPT ![e].sctp = "up"]
    /\ SetState(e, "connected")
    /\ UNCHANGED <<tasks, made, candidates, told, failures>>

\* 'error' of a layer: a handshake that fails, or the use by SCTP of a DTLS connection
\* that is gone; or ICE, see IceFails.
Fail(e) ==
    /\ SetState(e, "failed")
    /\ UNCHANGED <<tasks, made, candidates, told>>

Fails ==
    /\ failures < MaxFailures
    /\ failures' = failures + 1

\* A socket that cannot be bound or cannot send, at any moment, or checks that time
\* out.  The layers go on as they were.
IceFails(e) ==
    /\ Fails
    /\ HasStack(e)
    /\ pc[e].local \/ (stack[e].remote /\ stack[e].candidate # "unknown")
    /\ pc' = [pc EXCEPT ![e].state = "failed", ![e].iceError = TRUE]
    /\ UNCHANGED <<stack, tasks, made, candidates, told>>

DtlsFails(e) ==
    /\ Fails
    /\ stack[e].dtls \in {"started", "up"}
    /\ stack' = [stack EXCEPT ![e].dtls = "failed"]
    /\ Fail(e)

SctpSendFails(e) ==
    /\ stack[e].sctp \in {"started", "up"} /\ stack[e].dtls \in {"failed", "closed"}
    /\ Fail(e)
    /\ UNCHANGED <<stack, failures>>

\* Planted bug: the connection does not hear that the association has closed.
ClosedUnheard(e) == UNCHANGED pc

\* 'close' of a layer.  An association that is aborted emits 'error' before.
ClosedBelow(e) == SetState(e, "disconnected")

SctpCloses(e) ==
    /\ stack[e].sctp \in {"started", "up"} /\ stack[e].dtls = "up"
    /\ IF pc[Peer(e)].isClosed /\ stack[e].sctp = "up" THEN UNCHANGED failures ELSE Fails
    /\ stack' = [stack EXCEPT ![e].sctp = "closed"]
    /\ ClosedBelow(e)
    /\ UNCHANGED <<tasks, made, candidates, told>>

DtlsCloses(e) ==
    /\ stack[e].dtls = "up"
    /\ pc[Peer(e)].isClosed
    /\ stack' = [stack EXCEPT ![e].dtls = "closed"]
    /\ ClosedBelow(e)
    /\ UNCHANGED <<tasks, made, candidates, told, failures>>

\* close(): the stack goes with its listeners; calls that wait are left to go on.
Close(e) ==
    /\ e \in MayClose
    /\ ~pc[e].isClosed
    /\ pc' = [pc EXCEPT ![e].isClosed = TRUE, ![e].signaling = "closed", ![e].state = "closed"]
    /\ stack' = [stack EXCEPT ![e] = NoStack]
    /\ UNCHANGED <<tasks, made, candidates, told, failures>>
-----------------------------------------------------------------------------
Application(e) ==
    Create(e) \/ SetLocalDescription(e) \/ SetRemoteDescription(e) \/ AddIceCandidate(e) \/ Close(e)

\* The end of gathering may be kept back by a server that never answers.
Resumes(e) == Created(e) \/ LocalSet(e) \/ GatherCandidate(e) \/ RemoteSet(e)

Continuation(e) == Resumes(e) \/ LocalDone(e)

ComesUp(e) == LearnCandidate(e) \/ IceConnected(e) \/ DtlsConnected(e) \/ SctpEstablished(e)

GoesDown(e) == IceFails(e) \/ DtlsFails(e) \/ SctpSendFails(e) \/ SctpCloses(e) \/ DtlsCloses(e)

Next == \E e \in End : Application(e) \/ Continuation(e) \/ ComesUp(e) \/ GoesDown(e)

Spec == Init /\ [][Next]_vars

\* A certificate is made, a socket is bound, and the layers come up (IceAgent:
\* Connects, DtlsHandshake: Connects, SctpAssociation: SetupEnds).  Nothing is
\* assumed of the applications, and of LocalDone.
FairSpec ==
    /\ Spec
    /\ WF_vars(\E e \in End : Resumes(e))
    /\ WF_vars(\E e \in End : ComesUp(e))
-----------------------------------------------------------------------------
(* Properties.                                                             *)

\* Types, and the order of the layers: each is started by the one below it.
TypeOK ==
    /\ pc \in [End -> [certificate : BOOLEAN, isOfferer : BOOLEAN, isClosed : BOOLEAN,
                       local : BOOLEAN, remoteSetup : {"none", "actpass", "active"},
                       signaling : SignalingState, gathering : {"new", "gathering", "complete"},
                       state : ConnectionState, iceError : BOOLEAN]]
    /\ stack \in [End -> [iceRole : {"none", "controlling", "controlled"},
                          dtlsRole : {"none", "client", "server"},
                          socket : BOOLEAN, remote : BOOLEAN, candidate : Candidate,
                          ice : Layer, dtls : Layer, sctp : Layer]]
    /\ tasks \in [End -> SUBSET Task]
    /\ made \subseteq {"offer", "answer"} /\ candidates \subseteq End /\ told \subseteq End
    /\ failures \in 0 .. MaxFailures
    /\ \A e \in End :
        /\ HasStack(e) <=> stack[e].ice # "none"
        /\ stack[e].dtls # "none" <=> stack[e].ice = "up"
        /\ stack[e].sctp # "none" => stack[e].dtls \notin {"none", "started"}
        /\ stack[e].candidate = "paired" => stack[e].socket

\* Whatever the order in which calls, answers and candidates come, the ends that
\* have a stack have complementary roles in it, those their descriptions announce:
\* the offerer controls, and the answerer is the DTLS client.
RolesAgree ==
    \A e \in End : HasStack(e) =>
        /\ stack[e].iceRole = IF e = Offerer THEN "controlling" ELSE "controlled"
        /\ stack[e].dtlsRole = IF e = Offerer THEN "server" ELSE "client"

\* A connection says that it is connected only while its association, and the DTLS
\* connection below it, are up; and while they are up it says nothing else, in
\* whatever order the layers fail and close, but that it has failed, if an error of
\* ICE, which takes no layer down, was the last that it heard.
StateTellsTruth ==
    \A e \in End :
        LET up == stack[e].sctp = "up" /\ stack[e].dtls = "up" IN
        /\ pc[e].state = "connected" => up
        /\ up => pc[e].state = "connected" \/ (pc[e].state = "failed" /\ pc[e].iceError)

\* Both descriptions are set at both ends, and each has been told of the other's
\* candidate, if only to drop it.
Exchanged ==
    /\ \A e \in End : pc[e].local /\ pc[e].remoteSetup # "none"
    /\ told = End

\* Then both connect, unless a layer has an error or an application closes its end.
\* A candidate that was dropped does not matter, at either end: the two are never
\* dropped both, and a check is learnt from.  Nor does one that came to the answerer
\* before its socket was bound, since it is nominated all the same.  One that came
\* to the offerer so early does: it is never paired, and no check can mend that.
Connects ==
    Exchanged /\ stack[Offerer].candidate # "known"
        ~> \/ \A e \in End : pc[e].state = "connected"
           \/ failures > 0
           \/ \E e \in End : pc[e].isClosed
=============================================================================
