# WaCalls: TLA+ specifications

WaCalls is a server that places and receives WhatsApp calls and bridges them to
operators in a browser, to recordings and to an AI voice. These modules model the parts
of it in which goroutines, peers, networks and timers meet, and the formats that both
ends of a wire must read alike. Line references are to `src/`.

## 1. Inventory

Paths are below `internal/`.

| Component | State it keeps | Operations | Hard behaviour | What makes it correct | Module |
|---|---|---|---|---|---|
| call state machine (`voip/call/callstate.go`) | state, phase time stamps | `ApplyTransition` | a transition in a state its author did not think of | an ended call stays ended; each phase has its stamps | `CallState` |
| call manager (`voip/call/callmanager*.go`) | the call, SRTP contexts, answering device, relay data, hold, watchdog and RTCP goroutines | StartCall, AcceptCall, RejectCall, EndCall, Hold, Resume, one handler per stanza, relay callbacks, watchdog tick | releases `m.mu` around network and decryption steps; teardown from three sides; deadlines | one answering device and its keys; every call ends; the end is reported once; nothing is left behind | `CallManager`, `AbstractCall` |
| streams of a call (`callmanager_video.go`, `_signaling.go`, `_media.go`) | devices, SSRCs, what the relays were told | offer ack, accept, camera on and off, video stanzas, registrations | each event knows a part; registrations overtake each other | the relay forwards the streams of the call | `VideoUpgrade` |
| packet receive path (`callmanager_media.go`) | locked SSRC, duplicate ring, peer SSRCs | onRelayData | copies from several relays, SSRC failover, two goroutines | each packet once; lock only to and from the right stream | `MediaReceive` |
| RTCP (`callmanager_rtcp.go`, `media/rtcp_receiver.go`) | receiver statistics, last reports | NoteRTP, ReportBlock, NotePeerReportBlock | late, repeated and lost packets, wraps of sequence and time | reports that can be true | `RtcpReports` |
| SRTP (`voip/media/srtp.go`, `rtp.go`) | rollover counter, replay window | Protect, Unprotect | wrap of the sequence number, replays | nothing twice, nothing fresh refused, no index twice | `SrtpContext`, `SrtpStream` |
| relay transport (`voip/transport/sctprelay.go`) | peer connections by relay, usable count | ConfigureRelays, connect, ICE/channel callbacks, DropConnections, Cleanup | callbacks of a dropped connection; health notifications out of order | cap on open relays; right count; dials end | `RelayManager` |
| STUN (`voip/transport/stun.go`, `subscriptions.go`) | – | building and parsing messages, subscriptions | padding, integrity over a length that is patched, cut messages | the other side reads what was written | `Stun` |
| stanzas (`voip/signaling`, `wa/socket.go`) | – | offer, accept, relay block, latency probes | devices without a session, parts in any order | the other side finds its key, its relays, its time | `Stanzas` |
| MLow bit stream (`voip/codec/mlow`) | range coder, predictors | EncodeSmplFrame, decodeActiveFrame | carries, end of buffer, state kept on both sides | decoder in step with encoder | `RangeCoder`, `MlowFrame` |
| audio payloads (`codec/opus/fallback.go`, `mlow/decoder.go`, `red.go`, `toc.go`) | – | choice of decoder, container, redundancy | formats told apart by a byte | each frame played once for its own time | `MlowPacket` |
| H.264 (`media/h264.go`, `extension/video`) | depacketizer | AnnexBNALUs, PacketizeH264, Push | start codes, lost fragments | intact frames come out as they went in | `VideoFrames` |
| recordings (`app/session/recordings.go`, `media/wavrecorder.go`) | recorder, buffers, file | start, stop, feed, tick, Close | samples while it is closed; restart on the same file | the file has what the legs said | `Recording`, `CallLegs` |
| hold music (`media/wavparse.go`, `pcm.go`) | the stored file | upload, convert, load | torn and odd chunks, rates, channels | what is taken plays | `WavFile` |
| operator legs, AI leg (`app/session/bridge.go`, `wsbridge.go`, `app/ai_voice.go`, `gemini_live.go`) | leg, recorder and AI session of a call | attach, replace, transfer, drop, close, sweep | a leg replaced while its browser goes and the call ends | one leg, owned, ended with the call | `CallLegs` |
| session manager (`app/session/manager.go`, `session.go`, `waversion.go`) | sessions, clients, table rows, call sockets | Create, Pair, Logout, Delete, Restore, events of whatsmeow | late events of replaced clients, crashes between steps | table and sessions agree; a paired number is found again | `SessionManager` |
| broker: records (`app/events/callregistry.go`) and HTTP handlers of calls | call records, owners, history | UpsertCall, SetOwner, EndCall; start, accept, reject, end | read-modify-write of records, check-then-act | live calls listed, ended ones not, none lost | `CallRegistry` |
| broker: streams (`app/events/broker.go`) | subscribers and their channels | subscribe, broadcast, kick | slow browsers, lists that overtake each other | every change reaches every browser | `EventStream` |
| webhooks (`app/events/webhook.go`) | queue, worker | enqueue, deliver, retry | full queue, receiver down, answer lost | in order, and it settles | `Webhooks` |
| history (`app/history.go`, `store/*`) | call_records | insert, prune, page | rows that come and go between pages, ties | pages are complete | `History` |
| rate limits (`app/ratelimit.go`) | buckets | allow, purge | forgetting an address | forgetting gives nothing | `RateLimit` |
| MLow signal processing, login, configuration, doctor, contacts, schema migration, web client | tables, SQL, UI | pure or I/O | – | – | not modelled |

Interaction: whatsmeow delivers stanzas to `Session.handleEvent`, one at a time; the
client finds the call's manager; the manager calls the relay transport and the
extensions, and reports state changes (`OnStateChange`, under `m.mu`) and the end of the
call (`OnEnded`, without it) to the session, which updates broker, legs and recordings.
HTTP requests call the session's commands concurrently. The relay transport calls back
into the manager from its own goroutines. The broker writes history rows and hands events
to browsers and to the webhook worker.

## 2. Modules

All models share one convention: an action is what the code does between two points where
another goroutine can come in (a critical section, or a call between two of them). A
goroutine is a program counter or the sequence of steps it still has to run.

* **CallState.** `CallInfo` is reduced to the state and to whether `AcceptedAt`,
  `ConnectedAt` and `MediaLostAt` are set. `Source` and `Target` are the switch of
  `ApplyTransition`; `HasDeadline` is the boolean `phaseDeadline` returns.
* **CallManager.** One manager and everything that runs through it: `sc` (StartCall), `ack`
  (HandleCallAck's goroutine), `ev` (the event handler, with the sender and the decrypted key
  of its stanza), `acc` (AcceptCall), `td` (EndCall or RejectCall), `redial`, `wd`/`tick` (the
  watchdog), `drain` (teardownAllCalls). SRTP contexts are the device they are keyed for and
  the call key they come from; relay lists are whether `buildRelayConfigs` finds anything to
  dial; the transport is none, dialing or open. Time is not counted: the watchdog may find
  an existing deadline passed or not. `Directions`, `OfferRelays`, `HoldStates` and `Stanzas`
  describe the environment.
* **AbstractCall.** What a call promises: phases that only go forward, one answering device
  while it lives, everyone else rung off, one final end, reported once. `Abstract` in
  `CallManager` instantiates it with `phase <- Phase`, `answerer <- acceptedBy`,
  `reports <- obsEnds`; `ImplementsCall` is its specification.
* **RelayManager.** A connection is an object of `Conns` that outlives its entry in `map`
  (`m.connections`), because pion's callbacks keep pointing to it; callbacks find their
  connection by id or by pointer as the code does. `cfg` holds the dialers inside
  ConfigureRelays, `report` a pending `recomputeHealth`, `lastUsable` the count reported last.
* **VideoUpgrade.** Which SSRCs the manager derives for an outgoing call and what it
  tells the relay manager; `view` is what the relay has been told. A device stands for
  the SSRCs derived from it.
* **SrtpContext, SrtpStream.** The arithmetic of `srtp.go` with widths as constants (`Half`
  for 0x8000, `RocMod` for 2^32, `ReplayWindowSize` for 64), and a sender and a receiver on a
  network that loses, repeats and reorders. The tag of a packet agrees exactly when
  the receiver estimates the counter it was authenticated under.
* **MediaReceive.** `onRelayData` for RTP packets, one thread per relay goroutine: the check
  under `m.mu`, Unprotect under the SRTP manager's lock, the commit of the SSRC lock and the
  hand-over. A packet is its stream, sequence number and rollover counter; a stream whose key
  we do not have never passes the tag. `cleanupMedia` may come between any two steps. `Commit` reads `rxLockedSsrc` once
  more without its lock: that read may return the old or the new value.
* **RtcpReports.** The counters of `RTCPReceiverStats`, the report blocks made from them and
  the round-trip time of `NotePeerReportBlock`, with narrow sequence numbers and times.
* **VideoFrames.** Splitting of byte streams into NAL units, a turn of the loop per step, with
  units named by their first and last position; frames made into packets unit by unit, alone, in
  fragments or several in one; packets that are lost or arrive, and the depacketizer. Bytes are
  told apart by where they come from.
* **Recording, WavFile.** The recorder's buffers, its goroutine and Close; a file is a sequence
  of pairs of sample numbers. A tick stands for a turn of the drain at the end too, which is
  over when nothing is left. Uploads are sequences of chunks laid out byte by byte, cut anywhere.
* **CallRegistry.** `calls` is `b.calls`, `history` the rows of the record store, `shown` the
  calls a broadcast list has contained. `emit`, `offer`, `ended` and `photo` are the callbacks of
  wireCall and the photo goroutine, split where they release the broker's lock. `req` are the
  HTTP requests.
* **CallLegs.** Everything a session hangs on one call, with ten goroutines that attach,
  replace, drop, close and sweep. The lock of the manager, held during `OnStateChange`, is
  part of the state.
* **SessionManager.** Rows, stored devices, clients, connections, the QR channel and events
  of each client, the socket of the call table, requests as sequences of steps. A crash keeps
  `rows` and `devices` only; Restore runs row by row.
* **EventStream, Webhooks, History, RateLimit.** The broker's subscribers, the dispatcher's
  queue and worker, the record table read with a cursor, one address's bucket. A page of the
  history is any sequence of rows that WHERE, ORDER BY and LIMIT of the query allow.
* **RangeCoder.** Encoder and decoder with bytes of `SymBits` and words of `CodeBits` bits.
* **MlowFrame.** Which table each symbol is coded with, on both sides; a symbol is the pair
  of table and value, and reading it with another table fails.
* **MlowPacket.** A packet is written frame by frame, in a container or with redundancy, and
  may be cut; `laid` remembers where each frame is. The readers take a turn of their loops
  (`splitContainer`, the two loops of `DepackSplitRed`) per step.
* **Stun, Stanzas.** Byte sequences and nodes as they are written and read. In
  `Stun` and `WavFile` a number of several bytes is in the first of them, so that a read at a
  wrong place does not find it. The relay and the peer, which are not in the repository, read
  as the formats say.

## 3. Runs

A run that covers several independent components chooses one of them at the start
(`part`) and leaves the variables of the others alone; `MCTransport`, `MCMedia`,
`MCSessionCalls`, `MCFront` and `MCWire` are such collections. They are collections, not
products: the interaction of two components is in the modules themselves
(`MediaReceive` uses `SrtpContext`, `CallLegs` and `CallManager` use `CallState`,
`CallManager` implements `AbstractCall`).

| Run | Module, bounds | Shows |
|---|---|---|
| `safety` | CallManager, 2 devices, both directions, offers with relays, hold while active | refinement of AbstractCall; keys follow the answering device; hold music plays exactly on hold; deadlines; keys of an active call |
| `live` | CallManager, 1 device, accept and terminate stanzas | every call ends; its end is reported and its watchdog stops |
| `transport` | RelayManager, 2 relays, 2 connections, cap 1, dial limit 2; VideoUpgrade, 2 devices, 2 registrations under way | cap, count and end of dials; the relay has the streams of the call |
| `media` | SrtpStream mod 6, window 4, 14 packets; MediaReceive, 3 streams, ring of 2, 2 goroutines; RtcpReports mod 6, 8 packets; VideoFrames, 2 frames, streams of 7 bytes; Recording, 2 recorders; WavFile, 3 chunks | replay, freshness, indexes; copies and the lock; reports; frames; recordings; uploads |
| `tables` | CallRegistry, 1 call, 2 operators, 2 requests at a time; CallLegs, 2 legs, 2 goroutines at work | live calls are listed, none is lost; legs and helpers belong to the call |
| `sessions` | SessionManager, 2 sessions, 2 devices, 1 crash | table and sessions agree; one session holds a call; a paired number is remembered |
| `front` | EventStream, 2 writers, channel of 2; Webhooks, queue of 2, 4 events; History, 6 calls, cap 4, pages of 2; RateLimit, two limits | changes reach browsers; order and end of deliveries; complete pages; purge |
| `wire` | RangeCoder, 4 symbols, words of 8 bits; MlowFrame, 2 packets; MlowPacket, 7 frames, up to 3 in a packet, and each TOC byte alone; Stun; Stanzas | what is encoded is decoded |
| `rearm` (violation) | CallManager, incoming | AcceptCall re-arms a call that ended under it |
| `ghost` (violation) | CallRegistry, 2 requests | doStartCall lists a call that has ended already, for good |
| `video` (violation) | MediaReceive, one audio and one video stream | the SSRC lock taken by audio refuses video |
| `repair` (violation) | SessionManager, 1 session | after logout and pairing again, calls go through the old client |

The runs that are expected to be violated check a sentence of the repository that the
code does not keep; `findings` in `PROJECT.json` quotes it.

Why the bounds are enough:

* *Devices.* An accept compares its sender with the one stored device, so two decide the
  races; the proofs cover any number. Calls meet only in the client's map and, in
  `CallRegistry`, in `OwnerActiveCall`, so one call is considered at a time.
* *Relays.* With two connections and a cap of one, a channel opens while the cap is taken,
  while the holder is dropped, and after a redial of the same relay. One dialer: the redials
  of a manager are serialised; `OpenCap` is proved for any number of dialers.
* *SRTP.* 14 packets over 6 sequence numbers cross two wraps, and a window of 4 is less
  than the distance packets can be apart; any start of the sequence is taken.
* *Receive.* A ring of two forgets packets while copies are still under way. The three
  streams are the locked one, the one that takes over and one that never decrypts.
* *Reports.* 8 packets of 6 numbers wrap once, with up to 2 lost in a row and up to 2 late;
  times of 3 values wrap within a call of 5.
* *Frames.* Two frames of up to two units of types 1 and 5, payloads of 4 bytes, units of 1, 4
  and 5: whole, exactly full and cut in fragments; all byte strings over 0, 1 and another byte up to length 7 hold two start codes.
* *Tables.* Two requests at a time, of either operator and one after the other without end:
  the registry is touched by one step of a request at a time, between two of another. One leg of each kind, so that every kind replaces and is replaced.
* *Sessions.* Two sessions call each other; two devices are one before and one after a new
  pairing; a crash may come anywhere.
* *Front.* A channel of 2 is full after two broadcasts; three changes and two writers let a
  list overtake another twice. A cap of 4 and pages of 2 prune between pages, and two calls of
  the session end in the same millisecond.
* *Wire.* Bytes of 2 bits make carries and runs after a few symbols; buffers of 3 and 7 bytes
  are too small and just right. Two packets of three internal frames change between voiced and
  unvoiced in every way, and the decoder's predictors live across them. Three frames in a packet
  are a first one, one in the middle and the last, which is written differently.

`CHECK_DEADLOCK FALSE` everywhere: a call that has ended, a transport that has used up its
connections, a stream that has sent its packets do nothing more.

Fairness. `CallManager`: weak fairness for each goroutine that can run (the Go scheduler is
fair, `Query` has a 15 s timeout) and for the watchdog (its ticker fires every second), and
strong fairness for a tick that finds an existing deadline passed: time goes on and the
stamps a deadline counts from do not move while the phase lasts. None for peers, relays or
operators. `RelayManager`: weak fairness for the dialing goroutines and the timer that gives
up a dial; none for relays, drops or new dials. `VideoUpgrade`: weak fairness for goroutines
that send a registration and for the periodic refresh (a ticker). `Webhooks`: weak fairness for the worker.
`SessionManager`: weak fairness for the delivery of "success" and Connected of a client that
lives; none for requests, crashes or the phone.

## 4. What the models show and no run keeps

Each of these is a definition or a constant away; the counterexamples are short.

* Hold while a call is connecting leaves it without a deadline (`callstate.go:205`;
  `README.md:183` promises the timeouts): `HoldStates = {"connecting"}` refutes `LiveHasDeadline`.
* An offer without relays, accepted, gets its relays later and never its keys
  (`callmanager_signaling.go:223`): `"none"` in `OfferRelays` refutes `ActiveHasKeys`.
* A connection dropped before its peer connection is stored is never closed
  (`sctprelay.go:221`): `TornDownIsClosed` of `RelayManager`.
* A packet from before a wrap that arrives after it counts as a whole cycle of losses
  (`rtcp_receiver.go:53`): `HighestIsNewest` of `RtcpReports`.
* Between the removal of a recorder from the table and its Close the list of recordings shows
  an unfinished file as finished (`session.go:516`): `UnfinishedIsActive` of `Recording`. A
  recorder entered after the sweep at the end of the call stays open: `RecordingEnds` of
  `CallLegs`.
* Replacing a WebRTC leg may end the call, because its peer connection reports the local
  close: `ReplacedLegKeepsCall` of `CallLegs`.
* A bare MLow frame that begins with the container's marker and goes on like one is taken for
  a container: `Ambiguous` of `MlowPacket`, excepted by `EachFramePlayed`.
* A stream whose first packets up to a wrap are all lost is refused for good: excepted by
  `FreshIsAccepted`.
* The receive key repaired by a retransmitted accept is replaced again in the same handler;
  two overlapping dialers enter the same relay; a claim by SetOwner between GetCall and
  UpsertCall is lost; two start requests of one operator pass OwnerActiveCall together;
  `mapStatus` shows a call on hold as ringing.

## 5. Proofs

Proved by TLAPS for every value of the constants, under the named assumptions only. Each
argument is an inductive invariant: it holds initially, every step keeps it (one lemma or
step per action) and it implies the property. TLC checks the properties on the runs above.

**CallManagerProofs**, for every set of devices and every environment: `TypeCorrect`;
`AnswererKeys` and `AnswererStays` (first accept wins, keys follow the answering device);
`EndIsFinal`; `HoldConsistent`; `TeardownFinal`; `DeadlineExists`, under the assumption
`HoldStates \subseteq {"active"}`; and `CallImplemented`, that the manager implements
AbstractCall. The inductive invariant `IndInv` has four parts. `ControlInv` says which handlers
may be under way in which state of the call: without it StartCall could overwrite an ended
call, and cleanupMedia could run on a live one. `AnswerInv` carries the first check of
HandleCallAccept over its decryption window: because stanzas are handled one at a time,
`acceptedByJid` is still unset, or the sender itself, when the second critical section is
entered. `HoldInv` adds that hold does not outlive or precede the call. `StampInv`, used for
`DeadlineExists`, says which time stamps each phase has. For the refinement the actions are
sorted by what they do to the abstract state: those that leave phase, answerer, rung-off
devices and reports alone (stuttering), those that advance the phase, the second critical
section of an accept (Answer, which needs that `acceptedByJid` is unset and the call lives),
and cleanupMedia (Report, which needs that the call has ended and was not reported).
Assumptions: the empty JID and the base peer are not devices, `NoSrtp` is no key.

`KeysBeforeMedia` (`ActiveHasKeys`) needs that inbound offers carry relays
(`"none" \notin OfferRelays`; section 4 says what happens otherwise). `KeysInv` is the
strengthening: keys are there from the answer on, not only once the call is active, and a
ringing call has relays, so that AcceptCall gets as far as its keys.

**RelayManagerProofs**: `OpenCapHolds`, for any number of relays, connections and dialers, from
the finiteness of `Conns`. Every step but the opening of a channel is *calm* (`Calm`): no
connection becomes open or is entered while open, so the set of open connections does not
grow; the opening adds one connection after it has found fewer than the cap. `EntryInv` is what
makes the entry of a new connection calm: an object not in the map yet is still connecting.

`HealthIsSettled` (`HealthSettled`), for one dialer at a time (`OneDialer`: the manager
serialises its redials). `HealthInv` adds that connections in the map are there under their own
id and nobody is about to tear them down (`RegInv`), and that a connection about to be entered
overwrites none (`DialInv`): an overwritten one would leave the count without a report. Each
step is then shown either to leave the usable connections alone or to leave a report pending.

`VideoIsForwarded` (`PeerVideoForwarded`), about `VideoUpgrade`, for any number of devices:
`SsrcInv` says that the video SSRCs of a video call are always those of the remembered device,
before as well as after both sides agree, which is why no order of the events goes wrong.

**MediaReceiveProofs**, about `SrtpStream`, for every width of sequence number (more than two values, even), rollover
counter and window: `ReplaysAreRefused` (`NoReplay`), from `Knows` (an accepted packet is at
most `replayHighest`, and within the window its bit is set); `EstimateIsRight`, by arithmetic
(`NearCycles`), that the estimated rollover counter is the sender's for every packet less than
half the sequence space from the newest; `IndexesAreFresh` (`IndexesDiffer`), from `IndexInv`
(the sender's index grows by one with each packet, across wraps); and `NewPacketsAccepted`
(`FreshIsAccepted`), under `ShortStream`, that the stream ends before the rollover counter
reaches its last value (2^32 - 2 cycles of 65536 packets). `ReceiverInv` is the converse of
`Knows`: each bit of the window stands for a packet that was accepted.

About `MediaReceive`, for any number of relay goroutines and streams, and rings and windows
of any size: `PacketsHandledOnce` (`HandledOnce`) and `LockStays` (`LockNotStolen`). They use the
lemmas about `Knows` for the context of each stream: `TakenInv` says that
the replay window knows every packet Unprotect has returned, also the ones a goroutine still
has between Unprotect and the hand-over. So the ring, which forgets, is not needed for it.
`MediaAssumption` says that streams have names and that sizes are numbers.

About `MlowPacket`, for any frames of at most 255 bytes and any number of them the formats hold
(`PacketAssumption`): `FramesArePlayed` (`EachFramePlayed`). `PacketInv` says of each format where
the bytes are (`ContainerLaid`, `RedLaid`: the frames that are written are in place, one behind
the other) and where the reader is (`ContainerRead`, `RedRead`: it stands at the next frame,
what it has found are the frames before, and what the headers leave is what is behind them).
That the reader never gives up on a whole packet needs both: the length it finds is the one
written there, and the frame it announces is in the payload. Of a packet that was cut the
same facts hold as far as its bytes go.

**CallRegistryProofs**, for any number of calls, operators and requests: `RegistryTypeCorrect`;
`ShownIsKept` (`NoneLost`) and `LiveIsKept` (`LiveIsListed`). `HolderInv` is the strengthening
for the first: the photo goroutine that will write a copy back holds a record, and a request
past the creation of its call names one, so that every write to the list leaves a record.
`EndersInv` is the one for the second: whoever is about to take a call out of the list does so
for a call that is over. Assumption: the absent record is none.

**CallLegsProofs**, for any number of legs and takes of the recording: `NoLegOutlivesCall`
(`OpenIsAttached`), `DroppedLegEndsCall` (`DropEndsCall`), `CloseIsNoHangup`
(`LocalCloseKeepsCall`) and `NoHelperIsLost` (`HelpersOwned`). A goroutine is the sequence of
steps before it, so the invariant `LegsInv` speaks of such sequences. `PlansInv` says which
steps each goroutine may have before it and what follows what; it is kept because a
goroutine only goes on in its plan, skips what a condition guards, or starts a new one.
`OpenInv`: an open leg is in the table, or its handler has still to put it there. `EndInv` is
the heart: whoever ended a call that can still be found will remove it *and then* detach, so
that a leg attached in between is found; a leg attached later looks the call up in vain. With
the order of remove and detach exchanged it fails. `TakesInv`: what a goroutine has taken out
of the table it closes next. `AiInv`: the Gemini session is registered before it dials and
cancelled when it leaves the table. `LegsAssumption`: legs are not the other goroutines.

**SessionManagerProofs**, for any number of accounts, requests, devices and restarts:
`OneSessionHasTheCall` (`OneHolder`) and `RowsAndSessions` (`RowsMatchSessions`). `TableInv`
carries the latter over the steps of a request: one request per account and none during
Restore; a request has left row and session as its next step needs them (`StandsAt`); an
account that waits to be restored has a row and no session. A crash anywhere leads back to
that. Assumption: the absent session is none.

**FrontProofs**: `HooksInOrder` (`DeliveredInOrder`), for any capacity of the queue and number
of attempts: what waits is in order, after what was received and what is being delivered
(`HookInv`). `ForgettingIsFree` (`PurgeGivesNothing`), for every set of limits whose bucket is
full again before an address is forgotten (`LimitsAssumption`). `StreamIsComplete`
(`ChangesReachBrowsers`), for any number of goroutines, browsers and changes and channels of
any size: `CoverInv` says that a served browser has, or will read, every change whose broadcast
is over and that of any broadcast that has passed it; `SubscriberInv` and `WriterInv` say that
nobody sends to a channel that is closed. `PagingIsComplete` (`PagesAreComplete`), for any
history and page size: the pages read are in order and end at the cursor, and the rows that
were there at the beginning have been read, are gone or come after the cursor (`HistoryInv`).
`RecordsAssumption`: the call id is the primary key, and a page has at least one row.

**MediaProofs**: `ReportsAreTrue` (`ReportsMakeSense`), for sequence numbers and times of any
width (`RtcpAssumption`). The quotient that gives the fraction lost fits its byte because no
report covers an interval in which packets were expected and none counted: since the last
report a packet has been counted or nothing has changed (`CountedOrSame`).
`RecordingsAreComplete` (`RecordingComplete`), for frames, buffers and chunks of any size
(`RecordingAssumption`). `RecorderSound` splits the samples fed to a leg into those in the file,
those in the buffer and those dropped for want of room (`LegSound`), and keeps them in order.
`LastSound` says it of the last recorder, if those before it were closed when it opened the
file: only then the file is its own.
`FramesArriveIntact` (`FramesIntact`), for streams, units and payloads of any length
(`VideoAssumption`). `SplitInv` says that the units found so far are those between the start
codes passed; `FramesInv` follows a frame of which nothing is lost: it is still whole, or partly
in packets, with a last unit of which some fragments have been gathered, and what the
depacketizer holds with what is on its way is the frame (`OnItsWay`). Packets of an earlier
frame, of which something was lost, leave the depacketizer so that the next frame starts anew.

Only model-checked:

* All liveness (outside the prover's reach), with its fairness: the ends of calls, dials and
  deliveries, `RelayLearnsStreams`, `Remembered`.
* Properties about what recursive definitions or folds compute, which need induction over data:
  `RangeCoder`, `MlowFrame`, `Stun`, `Stanzas` and `WavFile`. `VideoFrames`, `Recording` and
  `MlowPacket` were written step by step for their proofs.
* The violations, by nature.

Next to prove: `UploadPlays` of `WavFile` and `StunUnderstood` of `Stun`, once their readers
take one chunk or attribute per step, as those of `MlowPacket` do; `DecoderInStep` of `MlowFrame`
for one internal frame at a time.

## 6. Not modelled

* The floating point signal processing of MLow (analysis, CELP search, synthesis, filters,
  quantisation, voice activity) and its tables: out of TLC's reach. Its results are the inputs
  of `MlowFrame`. Opus is a library.
* Login, tokens, cookies, routing and decoding of HTTP requests; configuration, doctor,
  contacts, metrics exporters; schema and migration of the stores; the web client.
* In covered parts: group calls beyond their entry in the registry, mute, the capacity of the
  client's map, pacing of the audio loops, the presence worker, the retry for an outdated client
  version, header coding of RTP and RTCP, SRTCP, jitter, the attribute form of relay endpoints,
  terminate, mute and receipt stanzas, the audio on operator and AI legs, failures of the
  record store (the code logs them and loses the row).
