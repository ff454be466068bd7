----------------------------- MODULE RTPStream -----------------------------
(***************************************************************************)
(* Audio and DTMF digits over one RTP stream.  Several goroutines write    *)
(* digits (media.RTPDtmfWriter) while one writes audio, through the same   *)
(* DTMF writer or straight to the packet writer (media.RTPPacketWriter),   *)
(* which stamps the packets and paces the audio.  The network loses        *)
(* packets; the jitter buffer in front of the reader keeps their order.    *)
(* The other end reads them and reports digits (media.RTPDtmfReader).      *)
(* Each end may renegotiate its media, which renumbers the telephone-event *)
(* payload type, and follows that when it next writes or reads             *)
(* (DTMFWriter.followMedia, DTMFReader.followMedia).                       *)
(*                                                                         *)
(* A digit is sent as events of one timestamp: starts, of which the first  *)
(* carries the marker, and repeated ends.  Audio advances the timestamp.   *)
(***************************************************************************)
EXTENDS Naturals, Sequences, FiniteSets

CONSTANTS
    Digits,         \* 1 .. n, the digits that can be pressed
    Callers,        \* 1 .. n, goroutines that call WriteDTMF
    StartEvents,    \* events that start a digit: 4 in RTPDTMFEncode8000
    EndEvents,      \* events that end it: 3
    MaxLosses, MaxFlight, MaxTimestamp,
    Scenes          \* what may go on beside the digits

ASSUME EventsAssumption == StartEvents \in Nat /\ EndEvents \in Nat

\* Media sessions of an end: before and after its renegotiation.  The session
\* stands for the payload type it negotiates.
Media == {1, 2}
None == 0

VARIABLES
    scene,      \* direct: audio goes straight to the packet writer; updates: the
                \* media is; clocks, presses, audio: how many there may be
    mu,         \* RTPDtmfWriter.mu is held
    w,          \* packet writer: next and initial timestamp, that of the last event
    clock,      \* the pacing ticker in use, or None; tickers made so far
    audio,      \* the audio goroutine
    caller,     \* the digit goroutines
    txPT,       \* RTPDtmfWriter.codec
    session,    \* the media session of each end: tx, rx
    wire,       \* packets in flight
    losses,
    rx,         \* RTPDtmfReader, and the Read under way
    pressed, heard,     \* the digits written, in order, and the digits reported
    got         \* what has been read of each digit, and the digits reported

sender == <<w, clock, audio, caller, txPT>>
receiver == <<rx, heard, got>>
vars == <<scene, mu, sender, session, wire, losses, receiver, pressed>>

Events == StartEvents + EndEvents

NotWriting == [pc |-> "idle", ev |-> 0, saw |-> 1,
               id |-> None, fresh |-> FALSE]

Init ==
    /\ scene \in Scenes
    /\ mu = FALSE
    /\ w = [ts |-> 0, init |-> 0, written |-> FALSE, evTs |-> 0]
    /\ clock = [cur |-> 1, made |-> 1]
    /\ audio = [pc |-> "idle", ticker |-> None, sent |-> 0]
    /\ caller = [c \in Callers |-> NotWriting]
    /\ txPT = 1
    /\ session = [tx |-> 1, rx |-> 1]
    /\ wire = <<>>
    /\ losses = 0
    /\ rx = [pt |-> 1, began |-> 1, ts |-> None, last |-> None]
    /\ pressed = <<>> /\ heard = <<>>
    /\ got = {}

-----------------------------------------------------------------------------
(* RTPPacketWriter *)

\* writeSamplesUnsafe, first half: the header of the next packet.
Stamped(marker, pt, end, id, fresh) ==
    [ts |-> w.ts, marker |-> marker,
     pt |-> pt, end |-> end, id |-> id, fresh |-> fresh]

Advanced(step) == [w EXCEPT !.ts = @ + step]

\* Second half: the packet goes to the media session, and arrives or is lost.
WriteRTP(p) ==
    \/ /\ Len(wire) < MaxFlight
       /\ wire' = Append(wire, p)
       /\ UNCHANGED losses
    \/ /\ losses < MaxLosses
       /\ losses' = losses + 1
       /\ UNCHANGED wire

-----------------------------------------------------------------------------
(* The audio goroutine. *)

\* RTPDtmfWriter.Write waits for a digit that is being written.
AudioLocks ==
    /\ audio.pc = "idle" /\ audio.sent < scene.audio
    /\ IF scene.direct THEN UNCHANGED mu ELSE ~mu /\ mu' = TRUE
    /\ audio' = [audio EXCEPT !.pc = "write", !.sent = @ + 1]
    /\ UNCHANGED <<scene, w, clock, caller, txPT, session, wire, losses, receiver, pressed>>

\* RTPPacketWriter.Write: a packet at the initial timestamp carries the marker.
\* Write takes the ticker with its lock still held, and waits without it.
AudioWrites ==
    /\ audio.pc = "write"
    /\ WriteRTP(Stamped(w.ts = w.init, None, FALSE, None, FALSE))
    /\ w' = Advanced(1)
    /\ audio' = [audio EXCEPT !.pc = "pacing", !.ticker = clock.cur]
    /\ UNCHANGED <<scene, mu, clock, caller, txPT, session, receiver, pressed>>

\* The ticker has been stopped: ClockDisable closed its channel.
StoppedMutant(t) == FALSE
Stopped(t) == t # clock.cur

\* The ticker fires, there is none, or it was stopped.
AudioPaced ==
    /\ audio.pc = "pacing"
    /\ audio.ticker = None \/ audio.ticker = clock.cur \/ Stopped(audio.ticker)
    /\ w' = [w EXCEPT !.written = TRUE]
    /\ audio' = [audio EXCEPT !.pc = "idle", !.ticker = None]
    /\ mu' = IF scene.direct THEN mu ELSE FALSE
    /\ UNCHANGED <<scene, clock, caller, txPT, session, wire, losses, receiver, pressed>>

\* ClockDisable, and ClockEnable starting a new ticker.
ClockDisable ==
    /\ clock.cur # None /\ scene.clocks > 0
    /\ clock' = [clock EXCEPT !.cur = None]
    /\ UNCHANGED <<scene, mu, w, audio, caller, txPT, session, wire, losses, receiver, pressed>>

ClockEnable ==
    /\ clock.cur = None /\ clock.made < scene.clocks
    /\ clock' = [cur |-> clock.made + 1, made |-> clock.made + 1]
    /\ UNCHANGED <<scene, mu, w, audio, caller, txPT, session, wire, losses, receiver, pressed>>

\* ResetTimestamp: a stream starts after a pause, at a timestamp of its own.
ResetTimestamp ==
    /\ w.written /\ w.ts < MaxTimestamp
    /\ \E pause \in {0, 1} :
         w' = [w EXCEPT !.ts = @ + pause, !.init = w.ts + pause]
    /\ UNCHANGED <<scene, mu, clock, audio, caller, txPT, session, wire, losses, receiver, pressed>>

-----------------------------------------------------------------------------
(* WriteDTMF on goroutine c. *)

\* followMedia looks up the session in place,
DtmfLooks(c) ==
    /\ caller[c].pc = "idle"
    /\ \A x \in 1 .. c - 1 : caller[x].pc # "idle"
    /\ Len(pressed) + Cardinality({x \in Callers : caller[x].pc \in {"follow", "lock"}}) < scene.presses
    /\ caller' = [caller EXCEPT ![c].pc = "follow", ![c].saw = session.tx]
    /\ UNCHANGED <<scene, mu, w, clock, audio, txPT, session, wire, losses, receiver, pressed>>

\* and takes its payload type when it is not the one the writer has, with the
\* lock of the writer (UpdateCodec).
DtmfFollows(c) ==
    /\ caller[c].pc = "follow"
    /\ caller[c].saw = txPT \/ ~mu
    /\ txPT' = caller[c].saw
    /\ caller' = [caller EXCEPT ![c].pc = "lock"]
    /\ UNCHANGED <<scene, mu, w, clock, audio, session, wire, losses, receiver, pressed>>

\* The lock is held for the whole digit.
Holds(c) == ~mu /\ mu' = TRUE

\* Digits, like the goroutines, are numbered in the order they are first used.
NewDigits == {d \in Digits : d = 1 \/ \E i \in 1 .. Len(pressed) : pressed[i] = d - 1}

DtmfLocks(c) ==
    /\ caller[c].pc = "lock"
    /\ Holds(c)
    /\ \E d \in NewDigits : pressed' = Append(pressed, d)
    /\ caller' = [caller EXCEPT ![c].pc = "event", ![c].ev = 1, ![c].id = Len(pressed) + 1]
    /\ UNCHANGED <<scene, w, clock, audio, txPT, session, wire, losses, receiver>>

\* The digit has a timestamp no digit before it had.
Fresh(c) == caller[c].fresh \/ w.ts # w.evTs

\* WriteSamples, which leaves the timestamp where it is; then the next event, or
\* the digit is written.
DtmfWrites(c) ==
    /\ caller[c].pc = "event"
    /\ LET e == caller[c].ev  more == e < Events IN
         /\ WriteRTP(Stamped(e = 1, txPT, e > StartEvents, caller[c].id, Fresh(c)))
         /\ caller' = [caller EXCEPT ![c] =
                IF more THEN [caller[c] EXCEPT !.ev = e + 1, !.fresh = Fresh(c)] ELSE NotWriting]
         /\ mu' = IF more THEN mu ELSE FALSE
    /\ w' = [Advanced(0) EXCEPT !.evTs = w.ts]
    /\ UNCHANGED <<scene, clock, audio, txPT, session, receiver, pressed>>

\* The write fails: the rest of the digit is not sent.
DtmfFails(c) ==
    /\ caller[c].pc = "event" /\ losses < MaxLosses
    /\ losses' = losses + 1
    /\ w' = [Advanced(0) EXCEPT !.evTs = w.ts]
    /\ mu' = FALSE
    /\ caller' = [caller EXCEPT ![c] = NotWriting]
    /\ UNCHANGED <<scene, clock, audio, txPT, session, wire, receiver, pressed>>

\* An end installs the session it has renegotiated.
MediaUpdate(e) ==
    /\ session[e] = 1 /\ scene.updates
    /\ session' = [session EXCEPT ![e] = 2]
    /\ UNCHANGED <<scene, mu, sender, wire, losses, receiver, pressed>>

-----------------------------------------------------------------------------
(* DTMFReader.Read *)

\* followMedia, before the read blocks.
followMediaMutant(pt) == pt
followMedia(pt) == session.rx

ReadBegins ==
    /\ rx.began = None
    /\ rx' = [rx EXCEPT !.pt = followMedia(@), !.began = session.rx]
    /\ UNCHANGED <<scene, mu, sender, session, wire, losses, heard, got, pressed>>

\* processDTMFEvent: a marked start, or one of another timestamp than the last
\* event read, begins a digit; an end reports the digit begun and clears it.
Begins(p) == p.marker \/ p.ts # rx.ts

Reports(p) == p.end /\ rx.last # None /\ pressed[rx.last] = pressed[p.id]

ClearedMutant(p) == rx.last
Cleared(p) == None

\* What of a digit has been read by a Read that could know its payload type.
Pieces(p) ==
    IF p.pt # rx.began THEN {}
    ELSE (IF p.end THEN {<<p.id, "end">>} ELSE {})
         \cup (IF ~p.end /\ (p.marker \/ p.fresh) THEN {<<p.id, "begin">>} ELSE {})

ReadReturns ==
    /\ rx.began # None /\ wire # <<>>
    /\ wire' = Tail(wire)
    /\ LET p == Head(wire) IN
         IF p.id = None \/ p.pt # rx.pt
         THEN /\ rx' = [rx EXCEPT !.began = None]
              /\ got' = IF p.id = None THEN got ELSE got \cup Pieces(p)
              /\ UNCHANGED heard
         ELSE /\ rx' = [rx EXCEPT !.began = None, !.ts = p.ts,
                          !.last = IF Reports(p) THEN Cleared(p)
                                   ELSE IF ~p.end /\ Begins(p) THEN p.id ELSE @]
              /\ heard' = IF Reports(p) THEN Append(heard, pressed[p.id]) ELSE heard
              /\ got' = got \cup Pieces(p)
                            \cup (IF Reports(p) THEN {<<p.id, "heard">>} ELSE {})
    /\ UNCHANGED <<scene, mu, sender, session, losses, pressed>>

-----------------------------------------------------------------------------
Audio == AudioLocks \/ AudioWrites \/ AudioPaced
Dtmf(c) == DtmfFollows(c) \/ DtmfLocks(c) \/ DtmfWrites(c) \/ DtmfFails(c)

Next ==
    \/ Audio
    \/ \E c \in Callers : DtmfLooks(c) \/ Dtmf(c)
    \/ ClockDisable
    \/ ClockEnable
    \/ ResetTimestamp
    \/ \E e \in {"tx", "rx"} : MediaUpdate(e)
    \/ ReadBegins
    \/ ReadReturns

\* The goroutines run and the reader reads; nobody has to press a digit, update
\* the media or touch the clock.  There are finitely many steps, so that one
\* condition is enough.
Fairness == WF_vars(Audio \/ (\E c \in Callers : Dtmf(c)) \/ ReadBegins \/ ReadReturns)

Spec == Init /\ [][Next]_vars
FairSpec == Spec /\ Fairness

-----------------------------------------------------------------------------
(* Properties *)

\* A digit is reported whatever else is lost, once one of its ends and either its
\* marked start or, when its timestamp is its own, any of its starts have been
\* read: no other digit or audio breaks in, and the reader has followed the
\* payload type of the session its Read began on.
DigitReported ==
    \A i \in 1 .. Len(pressed) :
        {<<i, "begin">>, <<i, "end">>} \subseteq got => <<i, "heard">> \in got

\* Every Write and WriteDTMF returns, also when the pacing clock is stopped under
\* it or the media is updated.
WritesReturn ==
    (audio.pc # "idle" \/ \E c \in Callers : caller[c].pc # "idle")
        ~> (audio.pc = "idle" /\ \A c \in Callers : caller[c].pc = "idle")

\* The last digit reported; the digits after it can still be.
LastHeard == CHOOSE i \in 0 .. Len(pressed) :
    /\ i = 0 \/ <<i, "heard">> \in got
    /\ \A j \in i + 1 .. Len(pressed) : <<j, "heard">> \notin got

Channel == INSTANCE DigitChannel WITH
    pending <- SubSeq(pressed, LastHeard + 1, Len(pressed)), heard <- heard

\* The stream implements the digit channel: what is reported was pressed, once and
\* in order.
DigitsKept == Channel!Spec
=============================================================================
