# A verification project for node-rtc-connection

TLA+ models of the WebRTC data stack under `src/src/`, the TLC runs that check
them and the TLAPS proofs about them. `PROJECT.json` ties every definition to
the lines it models, every run to its question and every property to a
plausible mistake in the code that would break it.

## 1. The system

A peer connection is a stack of event emitters in one Node.js process. Each
layer hands packets down with an `output` event or callback and data up with a
`data` or `message` event. All of it is synchronous calls, so the concurrency is
the network's, the timers' and the `await`s', and that of callbacks that enter
a layer again before it has returned.

| part | state it keeps | operations | talks to |
|---|---|---|---|
| `RTCPeerConnection` | signalling and connection state, roles, queued channels, the stack, `isClosed` | `createOffer/Answer`, `setLocal/RemoteDescription`, `addIceCandidate`, `createDataChannel`, `close` | application; transport stack |
| `TransportStack` | one of each layer | starts DTLS when ICE is connected, SCTP when DTLS is; `close` from the top down | all layers |
| `RTCDataChannel` | `readyState`, id, buffered amount | `send`, `close`; open, receive, set-id events | application; manager |
| `DataChannelManager` | stream id -> channel, next id | `openChannel`, `acceptChannel`, DCEP OPEN/ACK, `close` | channels; association |
| `SctpAssociation` | setup state and timer, next TSN, unacknowledged TSNs, peer's cumulative TSN, buffer behind a gap, reassembly buffers | `start`, `sendData`, `receivePacket` (one handler per chunk type), `shutdown` | manager; DTLS |
| `DtlsConnection` | handshake state, flights, epochs, retransmission timer | `start`, `handlePacket`, `send`, `close` | association; ICE |
| `IceAgent` | sockets, candidates, pairs, check timer, selected pair | `gather`, `start`, checks, `send`, `close` | DTLS; STUN client; network |
| `STUNClient` | transactions, allocation, nonce, stream buffer | `connect`, binding, allocate, permission, send, `close` | ICE; servers |
| `ByteBufferQueue` | chunks, offsets | `append`, `read`, `clear` | nothing in the stack |

The rest computes without protocol state: DCEP, STUN, SDP and DER/X.509 codecs,
CRC-32C, the PRF and record cipher, certificates, candidates, `RTCError`.

**What is hard.** UDP loses, duplicates and reorders, and the DTLS layer here has
no replay window, so SCTP sees all three. TSNs wrap. The buffer behind a gap is
capped. Setup packets are retransmitted by a timer that races their answers.
Handlers do not look at the association's state. Applications run inside
handlers. Above that, `close` races opening, gathering and late events. The
`hazards` of `PROJECT.json` list each place by its line.

**What makes each part correct.**

* Association: messages arrive whole, in order and once; what is acknowledged is
  held; the setup ends, and agrees; buffers stay within their caps.
* Data channels: a channel opens once and on one stream, is never reopened after
  `close`, and its messages go to it and no other.
* DTLS: both ends finish the same handshake or fail; a lost flight is sent again
  until then; nothing is delivered before.
* ICE: what is selected has answered; `close` ends every timer and socket; no
  `connected` after `failed` or `close`.
* Peer connection: nothing is emitted or created after `close`; a queued channel
  is opened once; roles agree.
* STUN client: each request is settled exactly once.

## 2. What is modelled

| module | what it is |
|---|---|
| `SctpSerial` | TSN arithmetic modulo 2^32, with the signed `&` of JavaScript |
| `SctpAssociation` | both ends of the association and the network between them |
| `MessageChannel` | abstract: a FIFO of messages in each direction, which may start over |
| `SctpInvariants` | the inductive invariant |
| `SctpAssociationProofs`, `SctpDeliveryProofs`, `SctpSetupProofs` | theorems and lemmas |
| `DataChannel` | the channels, managers and peer connections of both ends, over `MessageChannel` |
| `DataChannelInvariants`, `DataChannelProofs` | the inductive invariant of `DataChannel`; theorems and lemmas |
| `DtlsHandshake` | both ends of the DTLS handshake, records and alerts, and the network between them |
| `DtlsInvariants`, `DtlsHandshakeProofs` | the inductive invariant of `DtlsHandshake`; theorems and lemmas |
| `IceAgent` | a controlling and a controlled agent, signalling and the network |
| `TurnClient` | the STUN/TURN client, the relay that sends through it, the server and the network |
| `PeerConnection` | both peer connections with their transport stacks, over what the layers promise |
| `IceAgentProofs`, `TurnClientProofs`, `PeerConnectionProofs` | theorems and lemmas about the last three |
| `MCSctpLossy`, `MCSctpData`, `MCSctpDelivery`, `MCDataChannel`, `MCDtlsHandshake`, `MCIceAgent`, `MCTurnClient`, `MCPeerConnection` | instances for TLC |

The layers are composed by promise, since the product of their state spaces is
out of TLC's reach: `DataChannel` and `PeerConnection` take from below what the
modules of the lower layers show. Each says in its fairness which property it
takes from which module.

### SctpAssociation and the code

| action | code (`sctp/association.ts`) |
|---|---|
| `Start` | `start`, `#sendInit` |
| `RetransmitInit`, `SetupTimedOut` | `fire` in `#armInitRetransmit`, `#abort` |
| `HandleInit`, `HandleInitAck`, `HandleCookieEcho`, `HandleCookieAck` | the handlers of those names |
| `Ignore` | packets whose handler returns at once |
| `SendData` | `sendData`: all fragments of a message in one step, a packet each |
| `BufferData` | `#handleData` for a chunk that is not the next: buffer or drop, then SACK |
| `ReceiveData`, `Drain`, `Acknowledge` | `#handleData` for the next chunk: one step up to each `message` event, then the SACK |
| `HandleSack` | `#handleSack` |
| `Shutdown`, `HandleShutdown` | `shutdown`, `#handleShutdown`, `#close` |
| `Lose` | the network |

State variables carry the code's names: `state`, `localTSN`, `nextSSN`,
`sentQueue`, `peerCumulativeTSN`, `receivedOutOfOrder` (a JavaScript `Map`
iterates in order of insertion, hence a sequence), `fragments`, `initTimer`,
`attempts`. Packets are records in the set `net[e]` of what is on its way to `e`:
a set, so they overtake each other, and a type in `Duplicable` stays after it has
been received. `dtlsFailed[e]` stands for the failure of the connection below by
an exception that leaves `receivePacket` (`dtls/connection.ts` 315-331).
`sent`, `log`, `delivered`, `handed` and `released` are history variables: no
action of the code reads them, except that `Start` is called once.

A `message` event is a synchronous callback into the application. The model
stops at each one (`inHandler[e]`), so that the application may send or shut
down there, while packets and timers of that end wait, as they do in JavaScript.

A user message is a sequence of parts `<<i, j>>`, the j-th fragment of the i-th
message of its sender. A message is delivered in order exactly if it is the one
the sender has at the same place in `sent`: joined, swapped, repeated and
truncated messages all differ.

`snLt` is modelled as the code computes it. `&` gives a signed number, which is
compared with the unsigned 0x80000000, so it is false for all TSNs (theorem
`SnLtNever`). Three things follow and are in the model: a duplicate of a
delivered chunk is not recognised and takes room in the buffer; a SACK
acknowledges cumulatively the one TSN it names (`SnLteIsEquality`); the TSNs of
the gap blocks stay in order of arrival, since the comparator never says -1 and
the engine's merge sort leaves such a list alone.

Left out of the association: ABORT (no code sends it), HEARTBEAT (an echo without
state), verification tags (filled in, never checked), forged cookies, the byte
layout of chunks. The payload protocol identifier travels with a message and is
part of it.

### DataChannel and the code

| action | code |
|---|---|
| `Create` | `RTCPeerConnection.createDataChannel`, with `openChannel` if SCTP is up |
| `Send`, `Close` | `RTCDataChannel.send`, `close` |
| `FinishClose` | the `setImmediate` of `close`, then `#removeChannel` of the manager |
| `ClosePeerConnection` | `RTCPeerConnection.close` down to the DTLS connection |
| `Establish`, `OpenPending`, `EndLoop` | `established`, and the loop over `#pendingChannels` that it starts |
| `ReceiveOpen`, `ReceiveAck`, `ReceiveData` | `#onSctpMessage`, `#onDcep`, `acceptChannel` |
| `SkipMessage` | a message lost in an association that a SHUTDOWN has closed (`association.ts` 420-435, 526-530) |
| `ShutdownArrives`, `AlertArrives` | the peer's close, as the association and the DTLS connection see it |

`entries[e]` is the manager's map; `wired[e][c]` is the stream that the two
listeners of channel `c` were made for, which `#removeChannel` detaches by way of
the map, so that the two can disagree. `readyState` and `immediate` are the
channel's. `loop[e]` is where the handler of `established` is: applications run in
its callbacks, and may create, send and close there. A channel is one name for
the objects at its two ends; the label in an OPEN carries it across. The model
starts when both DTLS connections are up and makes no channel that an application
misuses: two negotiated ones on a stream, or one on a stream already taken. A
negotiated channel is created by both applications, without an OPEN.

The SCTP association is its specification: messages are handed over in the order
they were sent in, each once (`MessageChannel` with `MayRestart = FALSE`; with a late
INIT this is too much, see finding 3). The client may be handed messages before
it is established, as in `SctpAssociation`; an OPEN that comes so early is answered
with an exception that fails the DTLS connection. Once a SHUTDOWN has closed an
association, `MessageChannel` no longer describes what it hands up: it forgets its
fragments and what it buffered (526-530) but goes on to consume DATA, so that
messages may be missing. That is `SkipMessage`.

### DtlsHandshake and the code

| action | code (`dtls/connection.ts`) |
|---|---|
| `Start` | `start`, with `#sendClientHello` for a client |
| `Receive` | `handlePacket`: `#handleRecord`, `#handleAlert`, `#handleHandshakeFragment` with its loop, and every handler of a message |
| `Retransmit` | the timeout of `#armRetransmit` |
| `Send`, `Close` | `send`, `close` |
| `Lose` | the network |

A connection is a record whose fields have the code's names, shortened:
`transcript`, `flight`, `reassembly`, `next` (`#nextExpectedHsSeq`), `count`,
`encrypted`. Handlers are functions from a connection to a connection, so that a
handler that calls another is written that way; `out` gathers what is sent. Keys,
signatures and MACs are the transcript they are computed over: two ends that
have seen different messages have different keys, and a MAC over another
transcript does not verify. A handler that throws is `Fail`.
A repeated message with a number that has been dispatched enters `reassembly` too, also after
the handshake, and nothing takes it out until the connection is closed: the code's map
keeps at most one entry for each number, and so does the set.

The server is this code's, or an external one that skips the cookie exchange (a
browser) or asks for no certificate (a TURN server): the client has branches for
both. `spoiled` is history: a message is gone that this code never sends again. It is
what the liveness property has to excuse, and the hazards name the lines: the
HelloVerifyRequest and the server's Finished are in no flight, the client's
Finished is not in its flight, and what that flight held before the
ChangeCipherSpec is sent again encrypted.

Left out: bytes and key material; fragments (no message made here reaches
`MAX_FRAGMENT`); forged records; a wrong cookie; an end that offers no common
cipher, which throws at the start.

### IceAgent and the code

| action | code (`ice/ice-agent.ts`) |
|---|---|
| `Gather` | one more transport bound or allocated by `gather` |
| `SetRemote` | `setRemoteCredentials` and `start`, as `TransportStack.setRemote` calls them |
| `AddRemote` | `addRemoteCandidate`, for what the peer has emitted |
| `Tick` | the interval: `#tick`, `#sendCheck` |
| `Timeout` | the timeout of `#startChecks` |
| `Receive` | `#onDatagram`, `#handleBindingRequest`, `#handleBindingSuccess`, `#select` |
| `Close` | `close` |
| `Lose` | the network |

The identifier of a transaction is the pair and the tick in which its check was
sent. `FindPair` is `#findPair` or else `#syntheticPair`. A path is two transports that reach
each other. Left out: candidates that share a transport with another (server
reflexive ones), priorities and the transport policy, which order the pairs
but keep none back, the integrity of messages, failures to bind or allocate
(nothing is added), and data (an agent hands it on).

### TurnClient and the code

| action | code (`stun/stun-client.ts`; relay: `ice/ice-agent.ts` 205-245) |
|---|---|
| `Connect`, `LinkUp`, `LinkFails`, `LinkDies` | `connect` and what becomes of the DTLS or TLS session; `LinkUp` sends the first request of `getReflexiveAddress` or `allocateRelay` |
| `RefreshAllocation` | `refreshAllocation` |
| `RelaySendFirst`, `RelaySendLater` | `RelayTransport.send`, with `createPermission` and `sendIndication` |
| `Receive` | `#handleMessage`, with `#withAuthRetry` after an error |
| `Timeout`, `SendFails` | the timer of `#sendRequest`, and the error that the callback of a send reports |
| `Close` | `close`; for a client that asked for an address, at once after the answer |
| `ServerAnswers`, `ServerRelays`, `NewNonce` | the server and the network (external) |

A call is a promise; its attempts are its transactions. A message need never arrive
and a timer may fire at any moment, so that losing a message takes no action; the number of
repetitions is bounded. `secure` says whether the link is a DTLS or TLS session: only
such a link breaks, and only such a one may stay in `opening` for ever (see section 4).
`failed` is history: the attempts whose timer has fired or whose send has failed. Left out: the layout of
messages; the reframing of a stream (`#onStreamData`); DATA indications, which
change no state; time, and with it the expiry of allocations and permissions.

### PeerConnection and the code

| action | code (`peerconnection/RTCPeerConnection.ts`, `transport-stack.ts`) |
|---|---|
| `Create`, `SetLocalDescription`, `SetRemoteDescription` | the call up to its first `await` |
| `Created`, `LocalSet`, `RemoteSet` | what follows when the certificate is there: `#setupRolesAndStack`, `setRemote` |
| `GatherCandidate`, `LocalDone` | the candidates of `gather`, and what follows the `await` of it |
| `AddIceCandidate` | `addIceCandidate` |
| `LearnCandidate` | what a check of the peer does to the ICE agent's pairs |
| `IceConnected`, `DtlsConnected`, `SctpEstablished` | the events by which `TransportStack` starts the next layer and `#createStack` sets the connection state |
| `IceFails`, `DtlsFails`, `SctpSendFails`, `SctpCloses`, `DtlsCloses` | the `error` and `close` events of the layers |
| `Close` | `close`, with `TransportStack.close` |

The applications make one offer, at the end `Offerer`, and one answer, and await
their first call, in which the certificate is made. `setLocalDescription`
without an argument is `Create` followed by `SetLocalDescription`. Each end has
one candidate. Descriptions and candidates reach the other end in any order and
with any delay. A candidate of the peer is dropped if there is no stack, paired if the own
socket is bound, and otherwise known without ever being paired: pairs are formed
when a remote candidate is added (`ice-agent.ts` 444-446), not when a local one is
(418-419), nor by a check from an address that is known (553-556). An ICE agent reports an
error when a socket cannot send, at any moment, or when its checks time out; the
connection then says `failed` and the layers go on (`IceFails`; `iceError` is history).

## 3. Runs

All instances of `SctpAssociation` have `TSNMod = 8` with first TSNs chosen so that the numbers wrap
inside the run, `SSNMod = 2`, one stream, messages of up to two fragments.
One stream is enough: reassembly is keyed by stream and by the unordered flag,
delivery by TSN over all streams, and two buffers occur in `sctp_data`, which
uses both values of the flag. Client and server play different roles, so there
is no symmetry to use.

| run | shows | bounds |
|---|---|---|
| `sctp_lossy` | order, agreement of the setup, its timer, the invariant | every packet may be duplicated and delayed for ever (a packet that is never received is a lost one), the timer may fire at any time; 2 + 1 DATA chunks, 1 retransmission, buffer of 1; the client may shut down |
| `sctp_data` | the buffer behind the gap, its cap, SACKs, reassembly | DATA and SACK duplicated and reordered; 4 DATA chunks one way, buffer of 2, gap offsets up to 2 |
| `sctp_delivery` | setup ends, everything arrives (liveness) | setup packets may be lost, nothing duplicated; 3 + 1 DATA chunks, buffer of 2; the server may shut down |
| `sctp_stale_gap` | finding 1 | as `sctp_data`, DATA duplicated |
| `sctp_full_buffer` | finding 2 | as `sctp_delivery`, nothing lost, buffer of 1 |
| `sctp_late_init` | finding 3 | as `sctp_lossy` |
| `datachannel` | routing, opening at both ends, what a close leaves, channels open (liveness) | two of three channels: one of each end and a negotiated one on stream 3; two messages of the server, on any of the channels; one channel may be closed at either end, the server may close its connection |
| `datachannel_churn` | finding 4 | one channel, no messages |
| `dtls` | agreement, causes of failure, the timer; ends, connects, is closed (liveness) | three kinds of server, certificates trusted or not at either end; any reordering, one datagram lost or repeated or one timer too early; 2 retransmissions, one record of data; the client may close |
| `ice` | what is selected, pending checks; rounds end, agents connect (liveness) | one transport against two, one path that works; 3 checks in a round, `setRemote` once; one datagram lost, repeated or late; the controlled agent may close |
| `turn` | each call settled once and for a cause; settles (liveness) | both uses of the client, over a plain socket or a session, one peer, two nonces; any message lost or late, one repeated; any send may fail, the session may break, the client may be closed |
| `peerconnection` | roles, the reported state; connects (liveness) | two failures of layers (ICE at any moment), either end may close |

Four chunks and a buffer of two give every shape of a gap: before, between and
after what is buffered, a full buffer, a duplicate of a delivered, a buffered
and an expected chunk. One retransmission gives two INITs and two COOKIE_ECHOs
in flight. `Prompt` says that the setup timer (500 ms and more) does not fire
while a setup packet is on its way; `sctp_lossy` does without it, and then
delivery may start over (`Restart` of `MessageChannel`); with it, `sctp_data`
shows that it never does.

Elsewhere the bounds are these.

* `dtls`: the longest flight has five messages, and every order of them occurs.
  One fault hits each message of each flight in turn. Two retransmissions give a
  timer that fires, fires again and gives up.
* `ice`: two candidates at one side give a pair that fails beside one that works,
  and a peer-reflexive candidate that is learnt before or after it is signalled.
  Three checks leave a round one to spare after a fault. The code has 200.
* `turn`: a change of the nonce between challenge and retry takes two nonces. Two
  attempts are all that `#withAuthRetry` makes. One repetition gives a second copy of a request,
  which the server answers again, or of an answer.
* `datachannel`: two messages show order and a gap, on one channel; on two
  channels, that each goes where it belongs. The server sends them, since it is the end that may
  close its connection behind them, and it does so as the creator of a channel, as the
  end that accepts one, and on a negotiated one. In the other direction only OPEN and ACK
  travel; theorem `RoutesMessages` has both.
* `peerconnection`: two failures put one event after another, and either end can
  be the one that fails.

Deadlock is not checked: every one of these systems stops when its applications
have nothing more to do and its timers are cleared.

**Properties.** `DeliveredInOrder`: what was handed over is a prefix of what was
sent. `ImplementsChannel`: every step is one `Send`, `Deliver` or `Restart` of
`MessageChannel`, or none. `AcknowledgedIsHeld`: a chunk the sender has dropped as
acknowledged is consumed or in the receiver's buffer. `DrainComplete`: the next
chunk in sequence never waits in the buffer. `DataAfterInit`: the `null` of
`#peerCumulativeTSN` is never computed with. `SetupTimed`: an end is in its setup
exactly while its timer is armed. `SetupAgreement`: a client that is established
has a server that is or that has closed, and both know the other's first TSN.
`SetupEnds`, `EverythingDelivered`: liveness.

Of `DataChannel`: `MessagesRouted`: a channel is handed what was sent on it at the
other end, in order, and nothing of it is missing if it was opened with an OPEN, until a
SHUTDOWN closes the association there. `OpenAtBoth`: a channel its creator sees open has been
open at the other end. `WiredBothWays`: the map and the listeners agree. `ClosedIsDropped`: a
channel that was open and is closed has left the manager. `ChannelsOpen`: liveness. Two channels
are enough to collide on a stream, in the map and in the queue.

Of `DtlsHandshake`: `Agreement`: a client that is done has a server that is, with the same
transcript and keys, and certificates were accepted. `FailsForCause`: no order or
repetition of datagrams makes a handler throw; what fails does so by an
untrusted certificate or by waiting too long. `TimerArmed`: the timer is set exactly while a
flight is out. `HandshakeEnds`, `Connects` (unless `spoiled`), `CloseHeard`: liveness.

Of `IceAgent`: `SelectionWorks`: what is selected works, and the controlling agent
selects after the controlled one. `OnePending`: at most one check of a pair is
pending, so the table cannot grow. `RoundsEnd`, `Connects`: liveness.

Of `TurnClient`: `SettledForCause`: a call is settled by the answer to its last attempt,
not by one that is late or repeated; without such an answer it is rejected only if the timer
or the send of that attempt failed, or there was no link. `PendingTimed`: what
waits has a timer, after `close` too, and before `close` nothing else has. `Settles`: liveness,
for every call that has been sent or waits for a plain socket.

Of `PeerConnection`: `RolesAgree`: roles are complementary in every order of calls and
descriptions. `StateTellsTruth`: `connected` is said only while SCTP and DTLS are up, and while
they are nothing else is, but `failed` after an error of ICE.
`Connects`: once everything is exchanged, both connect unless a layer fails or an
end is closed, or the offerer was told of the answerer's candidate between making its stack and
binding its socket. A candidate that was dropped for coming before the stack does not matter:
the offerer learns it from the answerer's check, and the answerer is nominated by the offerer's.

**Fairness** (`FairSpec`), of `SctpAssociation`: weak fairness of `Start` (the DTLS `connect` event calls
it), of the timer, of the rest of a handler once it is entered, and of
receiving, for each end. The event loop gives all of these. Nothing is assumed
of the applications or of losses; the number of losses is finite in a run
because retransmissions are. No fairness is assumed between packets.
`DataChannel` adds the `setImmediate`s, and takes from below that the association
comes up and delivers (`SetupEnds`, `EverythingDelivered`) unless an end fails.

`DtlsHandshake` and `IceAgent` have the same: timers fire, datagrams are
read, and in `DtlsHandshake` both ends are started. There the fairness of reading is
written out as the formula that `WF` stands for, with `Arrival` for "a datagram leaves the
network without a fault", which is enabled while there is one. A timer that fires while what it
waits for is still on its way counts as a fault: timers are slow (50 ms to 10 s) and the number of such
events is bounded like that of losses. `TurnClient` assumes only that its timers
fire and that binding a plain socket succeeds or fails; nothing is assumed of its server,
of messages, or of a session that is being opened. `PeerConnection` has that a certificate is
made and a socket bound, and takes from below that layers come up (`Connects` of `IceAgent`
and of `DtlsHandshake`, `SetupEnds`). Nothing is assumed of applications, of signalling, and of the
end of gathering, which a server that never answers can hold back.

## 4. Findings

1. `sctp_stale_gap`: the check of a gap block's end (`association.ts` 459) lets a
   run of stale duplicates through whose start underflows; writing it throws and
   fails the DTLS connection, where the comment (450-451) says that such blocks
   "are skipped rather than overflowing the field".
2. `sctp_full_buffer`: a chunk dropped because the buffer is full is never sent
   again: nothing reads `#sentQueue` to retransmit. Comments at 31-32 and 411-412
   say the peer does. The same holds of a DATA packet the network loses, which is
   why `EverythingDelivered` is checked without such losses.
3. `sctp_late_init`: an INIT that arrives late resets the receiver alone (260), and
   delivered messages are handed over again, where the comment at 394 has them
   dropped.

4. `datachannel_churn`: a channel that is closed while it is queued is opened when
   SCTP is up (`RTCPeerConnection.ts` 182), and its entry stays in the manager; an
   ACK between the two halves of `close` reopens the channel. The comment of
   `#registerChannel` (129-130) has "a churned channel leaves nothing behind", and
   README.md 457-458 "closed channels are reclaimed".

Three more places differ from what one would expect, or from a comment. The models do what
the code does, and the properties state the exception.

* `stun-client.ts` 461: a call is tried again only after an error whose text has 401 in it. The
  comment at 448-449 takes that for the error of a stale nonce too ("on a 401 (stale-nonce or
  first-time challenge)"); the error of RFC 8656 for one is 438, which is final (`SettledForCause`).
* `stun-client.ts` 281-313: `connect()` listens to `connect` and `error` of its DTLS connection but
  not to `close`, and sets no timer for TLS. A session that the server closes
  while it is being opened, or that never answers, leaves `connect()` and the call that awaits it
  pending for ever (`Settles` excludes it).
* `RTCPeerConnection.ts` 363: "once both local gathering started and remote creds exist, checks
  run". They run, but over no pair if the remote candidate came between `#createStack` and the
  end of `bind`; where that is the offerer, the two never connect (`Connects` excludes it).

## 5. Proofs

For every value of the constants that satisfies `TSNModAssumption` and
`AssociationAssumption` (an even number of TSNs, distinct ends, fewer chunks than
TSNs):

* `SnLtNever`, `SnLteIsEquality` (`SctpAssociationProofs`): by arithmetic.
* `TypeCorrect == Spec => []TypeOK` (`SctpAssociationProofs`): one lemma per action.
  The part with content is the cap of the buffer and that every gap block of a
  SACK fits its field when nothing was thrown.
* `Inductive == Spec => []InductiveInv`, `InOrder == Spec => []DeliveredInOrder`
  and `NullUnused == Spec => []DataAfterInit` (`SctpDeliveryProofs`).

`DeliveredInOrder` is not inductive: it says nothing of what is in flight, in a
buffer or half reassembled. `InductiveInv` (module `SctpInvariants`) adds

* `LogInv`: the chunks an end has sent are its messages cut up, the i-th with TSN
  `InitialTSN + i - 1`, and each chunk begins a message or carries on the one before;
* `GenuineInv`: what is in flight or buffered is in that log. With fewer chunks
  than TSNs, a TSN then names one chunk;
* `SetupInv`: what is in flight and what each end knows at each stage of the setup,
  so that the peer's first TSN is learnt right, before data, even from copies
  that are old;
* `DeliveryInv`: an end expects the TSN after the first `k` chunks of its peer's
  log, for some `k`, and then has delivered the messages that end within them and
  holds the parts of the one that does not.

Then a step that consumes the expected chunk consumes chunk `k + 1`, and
`Follows` says what that does to the message under reassembly. A late INIT
sets `k` back to 0; parts left over in a reassembly buffer are replaced by the
first part of the message that begins anew.

The bound on the chunks is essential: after 2^32 chunks a TSN is used again, and
a packet old enough would be taken for a new one.

`SctpSetupProofs` goes on from there.

* `AlwaysTimed == Spec => []SetupTimed` and `EndsAgree == Spec => []SetupAgreement`,
  with `ServerFirst`: a COOKIE_ACK is on its way to the client, and the client is established,
  only if the server is established or has closed. That the ends know
  each other's first TSN is `SetupInv`.
* `Refinement`: `Spec` implements `MessageChannel`. `DeliveryInv` says which
  message a delivery hands over. The theorem has a condition, since the two
  differ in `Restart`, which `MessageChannel` allows only if `~Prompt`:
  *if `Prompt`, the network repeats no setup packet*. Without it a
  repeated INIT starts the delivery over although no timer was early.
* `DeliversOnce`, `DrainsAll == Spec => []DrainComplete` and
  `AcknowledgesHeld == Spec => []AcknowledgedIsHeld` assume `SetupOnce`: `Prompt`, and
  the network repeats no setup packet, as in `sctp_data`, which checks the last two. `sctp_late_init`
  shows that `DeliveredOnce` fails otherwise. They rest on `OnceInv`: then
  one setup packet at most is in flight, and as long as it is an INIT or its answer,
  the client has sent no data, so nothing that an end has consumed is reset.
  `DrainComplete` needs the order in which `Drain` walks the buffer not to matter,
  and that the chunk after the last one consumed is never put into the buffer.
  `AcknowledgedIsHeld` needs `SackInv`: what a SACK on its way acknowledges, by its
  cumulative TSN or by a gap block, its sender still holds, since nothing consumed or
  buffered is ever given up but to be delivered.

Of `DataChannel` (`DataChannelProofs`):

* `AlwaysTyped == Spec => []TypeOK`, for all streams that applications choose. Its core is
  `SomeStreamIsFree`: among the first n + 1 streams of one parity, one is
  free of n entries, so that `Allocated` is defined.
* `WiresBothWays`, `RoutesMessages`, `OpensAtBoth` and `DropsClosed`, the theorems
  `Spec => []P` for `WiredBothWays`, `MessagesRouted`, `OpenAtBoth` and `ClosedIsDropped`.
  They assume `StreamsApart`: the streams that applications choose differ from each
  other and lie beyond those that the managers can come to allocate. No
  code sees to it: `#channels.set` replaces the entry that is there, and
  then two channels send on one stream. `MCDataChannel` states the assumption, so
  that TLC confirms it of both instances. A stream is otherwise never used
  for a second channel, not even after a close.

None of the four is inductive. `InductiveInv` (module `DataChannelInvariants`) adds

* `QueueInv`, `OpenInv`: each channel is opened once, by one end, so at most one
  OPEN is sent for it, and an OPEN that has not arrived finds no such channel;
* `StreamInv`: a channel and a stream belong together for ever, in the maps of both ends
  and in all that has been sent; an end has allocated as many streams as it
  has opened channels without one, at most. This is where `StreamsApart` is used;
* `EntryInv`, `AckInv`: a channel stays in the map until it or the connection is closed,
  and an ACK answers the OPEN of a channel that is open at the other end;
* `DataInv`, `RoutedInv`: the messages of a channel are numbered without a gap, what it has
  been handed is what has arrived for it, and the rest is later; once its association is
  closed, some of what has arrived may be missing.

Then an ACK finds only the channel whose OPEN it answers, and data that names a
stream finds only the channel it was sent on.

Of `DtlsHandshake`, for every set of kinds of servers and every number of faults,
retransmissions and records that satisfies `HandshakeAssumption` (`DtlsHandshakeProofs`):

* `Typed == Spec => []TypeOK` (of a handshake that is over no transcript and no flight is
  kept, and only copies of messages that have been dispatched), `EndsAgree == Spec => []Agreement`,
  `OnlyForCause == Spec => []FailsForCause` and `TimedExactly == Spec => []TimerArmed`.

All four follow from `InductiveInv` (module `DtlsInvariants`), and none is inductive: that
a MAC verifies depends on what both ends have put into their transcripts long
before. The invariant says that there is only one handshake: the kind of server
determines the messages, their order and numbers, and the transcript after each
of them (`AfterHello` to `Whole`). Then

* `ClientStage` and `ServerStage`: an end whose handshake goes on is in one of seven, or
  six, places, and the next number it expects determines its transcript, its flight,
  its keys and whether it encrypts;
* `Sound`: what waits to be reassembled is what the peer says in that handshake; who is
  done has recorded all of it; a client is done, and data has been heard, only if the peer is done;
* `Genuine`: what is on its way is part of that handshake too, and the server's Finished
  and data are sent only by an end that is done.

A number names one message of an end (`ServerSays`, `ClientSays`), so the stage and the number
determine which handler runs (`ClientHears`, `ServerHears`). One lemma per handler
says where it leads: the signature and both MACs are over the transcript that the verifier
has at that point, so no branch that throws is reached, but that of the fingerprint.
What is proved is about ends that speak this protocol: nobody forges records.

Of `IceAgent`, for every choice of transports, paths between them, checks and faults that
satisfies `AgentAssumption` (`IceAgentProofs`):

* `TypeCorrect == Spec => []TypeOK`.
* `PendingBounded == Spec => []OnePending`. The table of pending checks grows in one place,
  `#sendCheck`, which first takes away the check it replaces; the invariant says
  that what is pending for a pair is the transaction that the pair names.
* `SelectionsWork == Spec => []SelectionWorks`. That a selected pair works needs `NetInv`: a check
  names the two transports it goes between, an answer those of its check, and
  both travel on a path, so an answer proves the pair in both directions. That
  the controlling agent is never connected alone needs that it nominates with every
  check: the controlled agent selects in the step in which it answers, so a
  success on its way to the controlling one comes from an agent that has selected.

Of `TurnClient`, for every set of peers and every number of nonces and repetitions
(`TurnClientProofs`):

* `TypeCorrect == Spec => []TypeOK`.
* `CallsTimed == Spec => []PendingTimed`. With `StageInv`, which says which attempt
  belongs to which phase of a call and of the link, and that before `close` the table of
  transactions is that of the timers, it is inductive: the only step
  that could break it, a retry after a challenge, takes the timer of the first
  attempt away in the step that sets that of the second.
* `SettledByAnswer == Spec => []SettledForCause`. It is about answers that are long gone, so
  `GenuineInv` adds that an answer on its way is one the server has given, and `FirstInv` that
  a first datagram is of a permission that has been granted. The answers given and the attempts
  that failed only grow (`Lasting`), and a call that has settled begins no attempt, so that
  what settled it stays its cause; one case for each step that settles one.

Of `PeerConnection`, for every number of failures and every choice of ends that may close
(`PeerConnectionProofs`): `TypeCorrect`, with the order of the layers in it;
`RolesComplementary == Spec => []RolesAgree`; and `StateTrue == Spec => []StateTellsTruth`.
The three are inductive together with `NegotiationInv`: an end works only on
descriptions that exist, and only the offerer has offered; otherwise a call that
returns late could make a stack with the wrong role. Every step changes one end,
so lemma `OneEnd` reduces each to what holds of one connection and one stack.

**Model-checked only:** liveness, which is out of the prover's reach: `HandshakeEnds`,
`Connects` and `CloseHeard` of `DtlsHandshake` and the like of the other modules.
`DeliveredOnce`, `DrainComplete`, `AcknowledgedIsHeld`, and that `Restart` does not happen,
are proved only where setup packets are not repeated; the properties of `DataChannel` but its
types, only for streams that are apart. Every other safety invariant of a passing run
is a theorem.

## 6. What is left

Worth proving next: that the six rounds of the loop in `HandleHandshakeFragment` are always
enough. A flight has five messages at most and the next one is sent only when it has been
heard whole, so five can be waiting; the proof needs to relate the stages of both ends.

**Not modelled.** Cryptography, certificates, DER/X.509, SDP and STUN codecs,
CRC-32C, candidates and errors as value objects: they compute on bytes and have
no interleaving to check. `ByteBufferQueue`: sequential, and nothing in the stack
uses it. The public API: re-exports.

Of the modelled parts, these behaviours are left out, and the hazards that are
about them say so:

* a second negotiation, offers from both ends, and two first calls at once, which
  would make two certificates; the documentation shows one negotiation and awaits
  every call;
* an answer with `a=setup:passive`, which this code never makes;
* the expiry of TURN allocations and permissions, since there is no clock: nothing
  refreshes either;
* ICE paths slower than an interval, on which the answer of every check comes
  after the check has been replaced: the models bound the number of such answers;
* an association that starts over under open channels (finding 3): `DataChannel`
  has one object per channel and end.
