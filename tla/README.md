# Verification of diago

TLA+ models of the parts of diago in which goroutines, SIP messages, media and
timers meet, the TLC runs that check them on small instances, and TLAPS proofs of
the most important results for every value of the constants. `PROJECT.json` ties
each definition to the lines of Go it stands for and lists the runs, the mutants
that show each property can fail, the hazards and the theorems.

    tlc -workers 2 -config MCRefer.cfg MCRefer     # one run
    tlapm ReferSubscriptionProofs.tla              # one proof module

## The system

diago is a SIP user agent library over sipgo (transactions, dialogs) and pion
(DTLS, SRTP, ICE). Its parts, and what they share:

| part | code | concurrency | module |
| --- | --- | --- | --- |
| dialog setup and teardown | `dialog_server_session.go`, `dialog_client_session.go`, `dialog_media.go`, `diago.go` | application, handlers of ACK, CANCEL and BYE, the negotiation left running, the RTCP monitor | DialogSetup |
| media updates on a dialog | `dialog_media.go`, both session files | one handler per re-INVITE, ACK and BYE, the application's own re-INVITEs, two closers | MediaUpdate |
| SDP negotiation | `media/media_session.go` | two ends exchanging offers and answers | Negotiation |
| session timers | `session_timers.go`, `dialog_server_session.go` | the timer's goroutine, re-INVITEs of both sides | SessionTimer |
| REFER, the referrer | `dialog_session.go`, `dialog_media.go` | callers, NOTIFY handlers, subscription timers | ReferSubscription |
| jitter buffer | `media/rtp_jitter_buffer.go` | the read loop, the consumer, reader replacement, Close | JitterBuffer |
| mixing bridge | `bridge.go` | callers, the mix loop, a reader per dialog, media update hooks | BridgeMix |
| two-party bridge | `bridge.go` | two directions, hooks, callers of stop | BridgeProxy |
| registration | `register_transaction.go`, `diago.go` | the refresh loop against registrar and network | RegisterRefresh |
| OPTIONS keepalive | `register_keepalive.go` | the probe loop, its context, an unreachable registrar | OptionsKeepalive |
| dispatch and dialog cache, the referred side of REFER | `diago.go`, `dialog_session.go`, `dialog_cache.go`, both session files | one goroutine per request, the handler of the INVITE, the call a REFER makes | DialogDispatch |
| RTP session and RTCP monitor | `media/rtp_session.go`, `media/rtp_packet_reader.go`, `dialog_media.go` | two goroutines per monitor, updates, a Listen call and what stops it, Close | RTPSession |
| packet writer, DTMF over RTP | `media/rtp_packet_writer.go`, `media/rtp_dtmf*.go`, `dialog_media.go` | writers of digits and of audio, the network, the reader, renegotiations | RTPStream, DigitChannel |
| reception statistics | `media/rtp_session.go`, `media/rtp_sequencer.go` | the network's order of packets against the report's tick | RTPReception |
| ICE demultiplexer | `media/ice_mux.go` | the read loop, a consumer per stream, closers | IceMux |
| digest authentication server | `digest_auth.go` | | not modelled |
| playback, recording, audio coding, SDP text, logging | `playback*.go`, `audio/`, `media/sdp/` | sequential | not modelled |

DialogSetup ends where a call is up, and MediaUpdate and SessionTimer begin there.
Negotiation is what the SDP of each exchange does, and takes from MediaUpdate that
exchanges do not overlap. SessionTimer takes the same exclusion from it. The
bridges and the jitter buffer see a re-INVITE as a changed codec or a replaced
reader. RTPSession is what such a replacement does to the monitor, the reads and the
deadlines in progress; JitterBuffer, RTPStream and RTPReception are what happens to
the packets of one session. DialogDispatch brings the requests to the dialogs which
the other modules take up, and is the peer of ReferSubscription.

## The modules

Each module names its actions after the functions they model. A step is what the
code does between two points at which another goroutine can act: a lock that is
released, a wait, a message. The operators `PROJECT.json` lists under "as"
(`DeafAcked`, `CountMutant`) are the plausible bugs of the mutants and are used by
nothing else.

**ReferSubscription.** `att[a]` is a `referAttempt`: its registration, NOTIFYs kept
and dropped, end, deadline and generations of its timer; `hs` the NOTIFY handlers;
`now` a discrete clock. Actions: the caller (begin, send, refused, not carried,
accepted, returns, context ends), `recordReferNotify` and the retirement after the
200, the timer's firing and its function, a REFER with a callback beside it, and
the peer. A NOTIFY is recorded in two steps, as the code does it: under `referMu` a
handler reads the clock, and later it stops the timer and arms a new one with what
it read. In between the old timer may fire; its function then waits for the lock and
must find out that it is stale.

**MediaUpdate.** `peer[p]`, `own[o]`, `acks[k]`, `bye` and `closer[c]` are
goroutines; `med` the media sessions, their sockets, the ICE agent and the port;
the rest are the locks and marks of `DialogMedia`. All of the refusals (400, 481,
487, 488, 491, 500), 2xx retransmission until the ACK or the deadline, offers in the 2xx,
DTLS handshakes with the lock released, discarded forks, BYE and Close.

**SessionTimer.** `state` and `changed` are those of `sessionTimer`, `pc`, `st` and
`left` the loop `run`, which drains `changed` (`RunDrain`) and then takes its snapshot
(`RunSnapshot`). `ours` and `named` are our re-INVITE in progress and what
`requestHeaders` wrote into it. `peer` is the session the peer holds. It is never set
from `state`: the peer takes it from the Session-Expires and the refresher token of
the 2xx it reads (`InviteHeaders`, `AnswerHeaders`) or sends (`PeerAccepts`), "uac" and
"uas" being itself or us by the direction of the request. `reply` is the 2xx under way:
ours until its ACK, the peer's until `answered` has read it, or lost when our
transaction failed before. Where neither the INVITE nor the policy names a refresher
our 2xx names none either, and `run` leaves refreshing to the peer. A unit is 45
seconds. Server dialogs only: client dialogs have no timer.

**JitterBuffer.** `b` is what `mu` guards, `loop` and `cons` the two goroutines.
Positions are sequence numbers modulo the window and sequence numbers wrap at
`SeqMod` (2^16 in the code). Time is abstracted to whether the next packet is due.

**BridgeMix, BridgeProxy.** `call[p]` is where a caller of join, leave or a media
update hook is; `mix` and `reader` the loop and its readers, `dir` the directions
of the proxy; `deadline` the read deadlines by which reads are stopped. Polling or
direct reading (`Poll`) and `WaitDialogsNum` are chosen in the initial state.

**RegisterRefresh.** `pc`, `timer` and `backoff` are the loop of `Diago.Register`;
`held` is how long the registrar keeps the binding, `sure` what of it we were told.

**DialogSetup.** `app` is the application's goroutine in Answer, AnswerLate,
ProgressMedia, Invite and Close; `fin` the negotiation of the media session
(`onFinalize`, `finalizeRun`), `mon` the monitor, `net` port and sockets, `ans` the
fields of the server session that tie the answer to ACK and BYE, `mu` the lock,
`acks[a]` copies of the ACK. The kind of call (side, offer or late offer, DTLS or
not, early media) is chosen in the initial state.

**Negotiation.** `fork[e]` and `inst[e]` are the sessions of both ends: the one
being negotiated and the one in use. Sockets, keys, tls-ids and ICE credentials
are named by who made them in which exchange, so that equality means what it does
in the code. `LocalSDP` and `RemoteSDP` are operators from session to SDP and from
session and SDP to session. End "b" runs this code or stands for a foreign end
which writes no tls-id, names DTLS-SRTP `RTP/SAVP` and offers video.

**OptionsKeepalive.** `loop` and `consecutive` are the loop and its count;
`reachable` is the registrar's state and `unheard` the truth the count is held to.

**DialogDispatch.** `sip[l]` is the state sipgo keeps of the inbound dialog and of
the one its REFER makes, `cached`, `media` and `closed` what diago holds of them.
`handler` is the goroutine of the INVITE, `req[r]` that of a request, from its
matching in the cache to its answer, `refer` that of `dialogReferInvite`; `told`
counts the NOTIFYs by what they say.

**RTPSession.** Sessions are numbered by their place in the chain of forks and
`sock` says which of them share a socket. `upd` is `replaceRTPSessionUnsafe` step by
step, `mon[s]` the two goroutines of a monitor, `listen` a Listen call with its
`stopper`, `rtp`, `rtcp` and `recorded` the deadlines on sockets and sessions.

**RTPStream and DigitChannel.** `w`, `clock`, `audio` and `caller[c]` are the writing
end with the lock `mu` that digits and audio share, `wire` the network, `rx` the
`RTPDtmfReader`. DigitChannel is the abstract specification: digits may be lost, and
what is heard was pressed, once and in order. RTPStream implements it with the
digits after the last one heard as those pending (`Channel`, checked as `DigitsKept`).

**RTPReception.** `stats` is `RTPReadStats` with its sequencer, `report` the loss
last reported. Packets are known by their place in the peer's stream, which the code
never sees: `newest`, `at`, `since`, `from` and `inOrder` are the reference the
statistics are compared with.

**IceMux.** `readLoop`, `closer[c]` and `consumer[s]` are the goroutines, `queue`
and `shut` the packet buffers, `pair` the selected candidate pair.

## The runs

| run | question | instance |
| --- | --- | --- |
| `refer` | is every accepted REFER bounded (BoundHeld), ended by its bound only when that has passed and as its NOTIFYs say (ExpiresTruly), and reported to its caller (AcceptedIsReported)? | one observed REFER and one with a callback, two NOTIFY handlers, `Expires` 0 and 2 with a limit (`MaxBound`) of 2, `MaxNow` 3 |
| `media` | has each re-INVITE one final response (OneFinalResponse), none a success after the BYE (NoSuccessAfterBye), do they exclude each other (ReInvitesExclusive) and end (EveryReInviteEnds), and is everything given back (NothingLeaks)? | server dialog; two re-INVITEs of the peer's, one of them with copies of 2xx and ACK, or one of each side with two attempts of ours |
| `receive` | jitter buffer: window and slots (WindowHolds), order of playout (PlayoutInOrder), no packet left queued (QueueDrains). Do the statistics follow the stream (StatsFollow)? Does a dead mux release everybody (MuxReleases)? | window 3 in 8 numbers, three packets of two sources, one new reader; two streams of 8 numbers, four packets each; buffers of 2, two closers |
| `mix` | membership, stops and codecs (ReadsOnlyMembers, CodecFollowed), survivors mixed on (SurvivorsMixed), calls return (CallsReturn) | two dialogs, one with a jitter buffer, two callers, three calls, one update, one hangup, failing stops |
| `proxy` (`MCCalls`) | a proxy that is done is clean (DoneIsClean), its codecs are found to differ whenever they do, and it ends (ProxyEnds) | two dialogs, two callers of stop, two codec changes |
| `signalling` | a held binding is not given up (KeptWhileHeld), a lapsed one comes back (Recovers); a dead registrar and only a dead one is reported (DeadPeerReported); a live dialog is found (LiveIsFound), a REFER's outcome told (ReferReported), an ended dialog released (EndedIsReleased) | grants 0, 4, 5, refusals, timeouts; three failures in four outages; an inbound call with three requests |
| `upkeep` | do both sides hold the same session timer when no 2xx is under way or lost (SidesAgree), is no change lost between `run`'s drain, its snapshot and its wait (NoLostChange), is the call ended only when overdue (ExpiresOverdue)? Is the RTP session in use monitored, and no other (CurrentMonitored), do reads and updates leave each other alone (ReadFollows)? Is an old session seen to and does every Listen and MonitorClose return (NothingHangs)? | `InviteSEs` 1, 2, 4 (below, at and above the floor), 422, 491 (`PendingWaits` 1), Retry-After; two updates, one Listen of each kind |
| `stream` | is a digit read reported (DigitReported), are those reported the ones pressed (DigitsKept), does every write return (WritesReturn)? Do the ends agree on the media (EndsAgree), and stay the m= lines (StreamsKept)? | two digits of two callers beside audio, two lost packets, a renegotiation or a stopped clock; INVITE and three re-INVITEs, all pairs of plain, SDES, DTLS, ICE (full, lite) |
| `setup` | is nothing left behind (LeavesNothing), the answer undisturbed by a BYE (AnswerUndisturbed), a failed answer followed by the end (FailedAnswerEnds), and does every call return, Invite once it is finally answered or given up (SetupEnds)? | two copies of the ACK, all kinds of call |
| `jitter_wrap` | violation of FitsIsQueued: a packet inside the window is refused at the wrap | window 3 in 16 numbers, as 40 in 65536 not a divisor |
| `reception_wrap` | violation of LosslessReported: once the numbers have wrapped, a stream without loss is reported lost | one stream of 8 numbers, seven packets |
| `setup_early_bye` | violation of LeavesNothing: a BYE while Answer binds its sockets leaks them and the port | as `setup`, with a BYE before the answer |

**Scenes.** `upkeep`, `receive`, `signalling` and `stream` each check modules that
share no state. In every behaviour one of them runs, from its own initial states,
and the others are in a state named `...Over` in which they have come to their end;
the properties hold there for the same reason they hold at the end of a call.
`stream` and `media` choose in the initial state what goes on beside the main actor.

**Bounds.** Two of each concurrent actor reach the races of pairs, which is what
the locks and marks of this code order; a third would only wait on the same lock.
Three re-INVITEs let each end offer after the other and once more on what both
left. Sequence numbers only need more than two windows, and as many packets as make
them wrap; with eight numbers that is three packets after a beginning at six. In
DialogDispatch a third request lets a BYE and a REFER meet a request that has been
matched. Two losses take the marked start or the ends of a digit, of which the code
sends three and the model two. Clocks run just past the longest timer; `MaxAge`
stands for every later time. Calls to the mix are bounded since an endless stream of
them can starve a caller waiting to stop it. Every bound is a constant named
`Max...`, `Arrivals`, `BufferLimit` or a set of actors. Deadlock is not checked
where a call may end and nothing is left to do.

**Fairness.** Goroutines that can run do run, timers fire and time passes. Beyond
that: in MediaUpdate and DialogSetup every wait of a handler has a bound in the
code (64*T1 for an ACK, the context or the timeout of the handshake, the
transaction of a request), so each handler is weakly fair as a whole, and an
application whose answer failed returns from its handler. The one wait the library
does not bound is that of Invite after a provisional response: SetupEnds assumes
that the INVITE is finally answered, refused, or given up by the context of its
caller. In DialogDispatch an
application returns once its dialog has ended, and not before. In SessionTimer a
refresh of ours gets its turn among the other re-INVITEs and is settled by its
transaction (strong fairness), and our 2xx is acknowledged or the call hung up after
64*T1 (`AckSettled`). In JitterBuffer the consumer keeps reading and a
read returns once closed. In RTPStream the reader reads on; nobody has to press,
to renegotiate or to touch the clock. In RTPSession and IceMux the application and
the peer owe nothing, no packet in particular: what ends a read is its deadline or
the close of what it reads. In RegisterRefresh the registrar grants in the end when
it is asked again and again, in OptionsKeepalive a probe is answered or times out.
`refer` relies on timers only, never on the peer.

## The proofs

`ReferSubscriptionProofs`, for any sets of attempts and handlers, any clock and
any timer values with `TimerN <= MaxBound`: BoundHeld and ExpiresTruly, and beside the
properties of the run that the recorded end is the one the NOTIFYs kept justify
(EndAgrees), that no deadline passes 64*T1 plus the limit after the 2xx, that `done` is
closed exactly once, that a returned observation has an end, that deadlines never move
later and that an end stands. None of these is inductive: that an open attempt has a timer needs that a
timer was armed exactly when a NOTIFY was recorded or the REFER accepted, that a
stopped timer belongs to a retired attempt, and that retired means ended.
`AttemptOK` collects this per attempt. Between the two steps of a record the clock
goes on, so a handler arms its timer with an instant that may have passed: `ReadsOK`
says that what it read was an instant up to now. The proof shows for each helper under
`referMu` what it does to one attempt (`AttemptStep`), lifts this to the functions
of attempts once (`OneAttempt`, `NoAttempt`), and goes through the actions.

`UpkeepProofs`, about SessionTimer for any policy, offers, grace and lag: SidesAgree,
NoLostChange and ExpiresOverdue. SidesAgree is not inductive, since an exchange takes
several steps. `Exchange` says what holds during one: our request under way asks for the
state we hold (`Asks`), which nobody changes meanwhile but by a raised Min-SE; a 2xx of
ours that is under way will give the peer our state; and one of the peer's gave it
the state `answered` is about to set (`Result`). That the two sides read the tokens alike
is shown once for each direction (`InviteAgrees`, `AnswerAgrees`, `AcceptAgrees`).
NoLostChange is inductive with the types. ExpiresOverdue needs
`WatchCounts`: while the loop watches the peer and no change is unread, the time
left and the age of the session make up the interval and the grace.

Its second part is about RTPSession, for any number of updates and Listen calls:
CurrentMonitored and ReadFollows. The invariant says what the chain of sessions is at each place of
`replaceRTPSessionUnsafe` and which sockets of it are open; that the monitor of the
newest session lives without a deadline on its socket while every other monitor is
done or on its way out; that a deadline recorded is the one on the socket, and only
a Listen call has one; and that the reader is on the session in use or on the one that
is to replace it.

`CallProofs`, for any number of requests within the dialogs: LiveIsFound
and ReferReported. Neither is inductive. The first needs that a dialog is in the
cache from before its peer can send on it until its owner gives it up, and that a
request under way is on a dialog that has begun (`Caching`); LiveIsFound itself
excepts the dialog whose owner has given it up and not yet ended it. The second
needs what `told` and the state of the referred call are at each place of
`dialogReferInvite`, and that one REFER is under way at a time (`Reporting`).
The proof has a lemma for each goroutine: the INVITE's, a request's, the REFER's.

Its second part, for any sets of dialogs, callers and codecs: DoneIsClean. It
needs that `running` is the number of results in `errCh` and of directions that run,
that reads are stopped only from `StopRTP` to `StartRTP` and only those of the pair,
and that a dialog joins once.

`RTPStreamProofs`, for any goroutines that press digits, any number of start and end
events, any losses, audio and renegotiations: DigitReported, and DigitsKept, that
RTPStream implements DigitChannel. The invariant follows an event from the goroutine
that is to write it over the wire to the reader. One goroutine at a time writes a digit,
the last one pressed (`Held`); timestamps only grow (`Stamps`); events are on the wire in
the order of their digits, starts before ends, and what the goroutine under way will
write comes after them (`Ordered`); nothing still to be read can undo what the reader has
begun (`Unread`); and the reader is on the payload type its Read began with, and waits for
no digit it has reported (`Following`). For the refinement, a press is the channel's
Press and a reported digit its Hear. Every other step leaves the channel alone. That the
mapping's `LastHeard` is the greatest reported digit is `HeardLatest`, and what is pending
after a Hear is a suffix of a suffix (`SuffixFacts`).

`BridgeMixProofs`, for any sets of dialogs, callers and codecs and any number of
joins, leaves, re-INVITEs and hang-ups: ReadsOnlyMembers, CodecFollowed and
SurvivorsMixed. The lock is released in `mixStopWait`, so the invariant says what
holds whoever comes in between: a dialog is in the bridge once and has its hook
(`Joined`), a call under way is on a dialog (`Called`), one caller at a time stops the
mix or starts one (`Turns`), from the end of its stop to its start nothing is read,
mixed or kept from reading (`Fresh`), and what is read, mixed or has a deadline is a
member (`Reading`). `Loop` says where the loop may be in either mode. SurvivorsMixed, an
action property, needs `Surviving`: a mix that nobody stops has lost only streams that
can not be read any more.

`JitterBufferProofs`, for any window of fewer than half of the sequence numbers and any
packets: WindowHolds and PlayoutInOrder. (The code puts no upper bound on `MaxPackets`;
with half of 2^16 or more, "before" and "after" lose their meaning.) Its first part is the
arithmetic of numbers that wrap: `Distance` is the difference, once corrected by
`SeqMod`, and adding or shifting within half of the numbers moves it as an integer
would. The second is about the window, as a function from positions to numbers: what
filing, taking and moving do to what is queued and to its count. Then one lemma for
each function of the buffer (`ResetOK`, `DropOK`, `MovedOK`, `FiledOK`, `StartOK`,
`ReleaseOK`), each from a buffer whose window holds to one whose window holds and whose
expected number has not gone back. The invariant adds that the slots free, queued and
in the hands of the read loop are all there are, for which the loop must not have
started before `startOnce`.

`MediaUpdateProofs`, for any number of re-INVITEs of either side, ACKs,
retransmissions and calls of Close: ReInvitesExclusive, OneFinalResponse, NothingLeaks
and NoSuccessAfterBye. They rest on one invariant, in `MediaUpdateInv`: `requestMu`
and `peerReInvite` are held by exactly the handler that is inside (`Serial`); an update
that has begun, on either side, is the one that is marked (`Marked`); where a handler
is tells what it has sent (`Responses`); a fork on sockets of its own is the only
session on them until it is installed or discarded (`Sockets`); one call of Close
closes, and it closes what was installed and the agent (`Closing`); a BYE that was
taken ended the dialog (`ByeEnds`). `SocketsOK` is a relation on the media alone, shown
for Fork, rebind, discard, replace and close once each; `StepOK` says what one handler
may do to the locks and the mark. `MediaUpdateInv` has the invariant, these
lemmas and the steps that leave the media alone, `MediaUpdateProofs` the others. That no
2xx follows the BYE is an action property: from the invariant, in an ended dialog a
handler that still runs finds `ended` before it sends.

Assumptions are the `ASSUME`s of the modules, all on constants. Only model-checked:
everything about liveness, which TLAPS 1.4.5 does not reach; EndsAgree, which compares
what the two ends choose from sequences of codecs and needs induction over them; and
StreamsKept, StatsFollow and the safety properties of the remaining modules
(RegisterRefresh, OptionsKeepalive, DialogSetup, IceMux), which have no proof yet.

## Where code and text differ

The three violation runs are recorded as findings. Met while modelling, confirmed in
the code and not kept as runs:

- A mix that is stopped ends the jitter buffer of a dialog in it: `readLoop` takes
  the read deadline for the end (`media/rtp_jitter_buffer.go:378-381`), so after
  the next join the dialog can not be read, against `bridge.go:672-673`. In
  BridgeMix that is `dead`, and SurvivorsMixed excepts such dialogs. The same holds
  for the other users of StopRTP and StartRTP.
- Overlapping REFERs: a NOTIFY without an id that precedes the responses may be
  credited to the other REFER (`referNotifyTargetLocked`).
- Session timers: the watchdog can end a call whose refresh was answered but not
  yet read (`session_timers.go:561`, doc 495-497), which is
  why ExpiresOverdue says "or with a change unread". A refresh of the peer's may
  set an interval below the documented floor: `answerPeer` takes it as it is
  (`session_timers.go:450`, doc 59-60).
- Registration: a lost 200 to a refresh (`register_transaction.go:427`, doc
  350-352), the clamp of the interval (445, doc 62-64), the Retry-After hint
  (`diago.go:1016`) and the latched escalation (423) differ from their docs.
- A 2xx to our INVITE without SDP is neither acknowledged nor followed by a BYE
  (`dialog_client_session.go:463-465`); when the ACK fails a second ACK is sent,
  not a BYE (471-472).
- A ProgressMedia that failed leaves its session, and a later Answer sends a 200
  for it and finalizes nothing (`dialog_server_session.go:219-227, 616-631`).
- RemoteSDP takes over the peer's `o=` session id (`media/media_session.go:1034`),
  so our origin changes after an answer.
- An SDES end that accepted a plain call offers `RTP/SAVP` in later re-INVITEs,
  which its plain peer refuses.
- `Monitor` hands its error to a channel without a buffer, and `MonitorClose` may
  then wait for ever (`media/rtp_session.go:477-506`).
- Loss reports: `min(x, 1<<32)` "saturates" to 0 in 32 bits
  (`media/rtp_session.go:726-727, 767`); the cumulative loss is one less than the
  packets lost, which a test asserts; and a sender report before the first packet
  keeps the statistics from being initialised (616), so too much loss is reported.
  StatsFollow says what holds beside these.
- The sequencer's `badSeq` starts at 65535, which is a sequence number
  (`media/rtp_sequencer.go:43`): one late packet with it starts the sequencer anew.
- A REFER accepted with 202 whose `NewDialog` fails is followed by no NOTIFY
  (`dialog_session.go:755-758`), which is why ReferReported asks for the NOTIFY 100;
  the final NOTIFY of a failed call is sent twice (772-781).
- Two concurrent WriteDTMF on one DTMFWriter may each install the session they saw,
  the older one last (`DTMFWriter.followMedia`); the next write follows again.

## Not modelled, and why

- PCM arithmetic, codecs, WAV files, playback: sequential data processing.
- SDP, SIP header and RTP text: parsing without state. What is decided from the
  values is modelled where it is decided.
- sipgo, pion, sockets and the registrar are external: modelled by how the code
  uses them (marked external in the map).
- MediaUpdate: failing socket calls inside `replaceRTPSessionUnsafe`, keep-alive
  re-INVITEs without SDP, own sockets offered by the application.
- DialogSetup: our BYE always ends the dialog, while that of `hangupNoMedia` may fail
  after 10 seconds and leave it to the peer; FailedAnswerEnds rests on this.
  InviteBridge, digest and redirects of the INVITE, checks of requests
  before a dialog exists, OnClose hooks, a BYE refused for its CSeq.
- Negotiation: the `o=` line, SDPSetupRole, DTLSRole, SRTP algorithms that differ,
  changed certificates, InitWithSDP, offers carried by a 2xx. A session that can not
  bind the new sockets an offer needs refuses it (`NeedsSockets`); other failing socket
  calls are left out.
- JitterBuffer: the learning of the packet duration, which sets the pace only.
- BridgeProxy: DTMF interceptors, through which a direction ends the same way. A
  dialog is added once and a proxy is used once, with both dialogs answered.
- SessionTimer: our BYE always ends the dialog. After a 2xx of the peer's that our
  failed transaction did not read, SidesAgree asks for nothing until the next exchange.
- RegisterRefresh: digest and the learnt Contact, inside one exchange, and a
  RegisterTransaction the application drives itself.
- DialogDispatch: CANCEL and OPTIONS of the peer's, answered without state;
  transports and contacts. An OnRefer that returns nil of a call that was not confirmed:
  no final NOTIFY is sent then (`dialog_session.go:810-812`). The contract of OnRefer
  (`dialog_server_session.go:559-565`) asks it to call Invite and Ack and to return their
  errors, and ReferReported assumes that it does. ReferTransaction, which leaves the
  NOTIFYs to the application.
- RTPSession: packets, the lock onto a source address, and RTCP write errors other
  than a deadline or a closed socket.
- RTPStream: DTMF in SIP INFO, read buffers shorter than a packet, the real-time
  reader, which only sleeps.
- RTPReception: jitter and round trip time, which are arithmetic on the clock.
- ICE: the agent of `media/ice.go` is pion's; what decides an exchange is in
  Negotiation.
- The digest server: a map of challenges with their expiry around a hash.

## What could follow

Digest challenges and redirects of the INVITE in DialogSetup; ReferTransaction beside
DialogDispatch; the source lock of the RTP session; an abstract dialog (one port, one
session in use, closed once) that DialogSetup and MediaUpdate both implement; proofs
of StatsFollow, StreamsKept and LeavesNothing.
