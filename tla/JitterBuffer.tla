---------------------------- MODULE JitterBuffer ----------------------------
(***************************************************************************)
(* The RTP jitter buffer (media/rtp_jitter_buffer.go): a read loop files   *)
(* packets as they arrive, a single consumer plays them out, and the       *)
(* reader underneath may be replaced (UpdateRTPSession) or the buffer      *)
(* closed at any time.                                                     *)
(*                                                                         *)
(* A packet is its source and its sequence number.  Sequence numbers are   *)
(* taken modulo SeqMod, 2^16 in the code, and compared by signed distance  *)
(* as int16 does.  Time is abstracted to what is due: the end of buffering *)
(* and the next release each come due at some time after they are set.     *)
(* Statistics and the learning of packet durations are left out.           *)
(***************************************************************************)
EXTENDS Integers, FiniteSets

CONSTANTS
    SeqMod,        \* how many sequence numbers there are
    MaxPackets,    \* RTPJitterBufferOptions.MaxPackets
    DelayPackets,  \* RTPJitterBufferOptions.DelayPackets
    Sources,       \* the SSRCs that may send
    Endless,       \* packets arrive for ever
    Arrivals,      \* and if not, how many at most
    MaxUpdates     \* how often the reader is replaced

Absent == -1

ASSUME ConstantsAssumption ==
    /\ SeqMod \in Nat /\ SeqMod % 2 = 0
    /\ DelayPackets \in Nat \ {0} /\ MaxPackets \in Nat
    /\ DelayPackets <= MaxPackets /\ 2 * MaxPackets < SeqMod
    /\ Endless \in BOOLEAN /\ Arrivals \in Nat
    /\ MaxUpdates \in Nat

Seqs == 0 .. SeqMod - 1
Positions == 0 .. MaxPackets - 1

Add(seq, n) == (seq + n) % SeqMod

\* int16(a - b)
Distance(a, b) ==
    LET d == (a - b) % SeqMod IN IF 2 * d < SeqMod THEN d ELSE d - SeqMod

Position(seq) == seq % MaxPackets

-----------------------------------------------------------------------------
VARIABLES
    b,         \* what mu guards, see Buffer
    ended,     \* upstreamEnded
    reader,    \* the reader in place
    rd,        \* the one readUpstream reads
    loop,      \* where the read loop is
    cons,      \* where the consumer is
    arrived,   \* a wake is in the channel of that name
    armed,     \* the consumer's timer is running
    closed,    \* done is closed
    once,      \* startOnce is spent
    loopDone,  \* readLoopDone is closed
    arrivals   \* packets still to arrive

readVars == <<reader, rd, loop, ended, loopDone>>
consVars == <<cons, armed>>
vars == <<b, readVars, consVars, arrived, closed, once, arrivals>>

Nobody == "nobody"

Buffer ==
    [seq      : [Positions -> Seqs \cup {Absent}],  \* sequence: the queued packets
     queued   : 0 .. MaxPackets,
     free     : 0 .. MaxPackets + 1,                \* slots in freeSlots
     ssrc     : Sources \cup {Nobody},
     expected : Seqs,
     playout  : BOOLEAN,
     resync   : BOOLEAN,
     startAt  : {"none", "set", "due"},
     release  : BOOLEAN]                            \* releaseAt has passed

\* The state has its types.
TypeOK ==
    /\ b \in Buffer
    /\ ended \in BOOLEAN /\ arrived \in BOOLEAN /\ armed \in BOOLEAN
    /\ closed \in BOOLEAN /\ once \in BOOLEAN /\ loopDone \in BOOLEAN
    /\ reader \in 0 .. MaxUpdates /\ rd \in 0 .. MaxUpdates
    /\ loop \in {"none", "top", "reading", "notify", "notifyEnd", "returned"}
    /\ cons \in {"out", "top", "wait", "eof", "stopped"}
    /\ arrivals \in 0 .. Arrivals

Init ==
    /\ b = [seq |-> [p \in Positions |-> Absent], queued |-> 0,
            free |-> MaxPackets + 1, ssrc |-> Nobody, expected |-> 0,
            playout |-> FALSE, resync |-> FALSE, startAt |-> "none",
            release |-> FALSE]
    /\ ended = FALSE /\ arrived = FALSE /\ armed = FALSE
    /\ closed = FALSE /\ once = FALSE /\ loopDone = FALSE
    /\ reader = 0 /\ rd = 0
    /\ loop = "none" /\ cons = "out"
    /\ arrivals = Arrivals

Queued(buf) == {buf.seq[p] : p \in Positions} \ {Absent}
Holds(buf, q) == buf.seq[Position(q)] = q

-----------------------------------------------------------------------------
(* What is done under mu. *)

clearSequence(buf) ==
    [buf EXCEPT !.seq = [p \in Positions |-> Absent],
                !.free = @ + Cardinality(Queued(buf)), !.queued = 0]

resetStream(buf, s, q) ==
    [clearSequence(buf) EXCEPT !.ssrc = s, !.expected = q, !.playout = FALSE,
                               !.resync = FALSE, !.startAt = "set"]

\* The sequence numbers dropBefore passes, at most a window of them.
Passed(buf, next) == {q \in Seqs : /\ Distance(q, buf.expected) >= 0
                                   /\ Distance(q, buf.expected) < Distance(next, buf.expected)
                                   /\ Distance(q, buf.expected) < MaxPackets}

dropBefore(buf, next) ==
    LET stale == Passed(buf, next) \cap Queued(buf) IN
    [buf EXCEPT !.seq = [p \in Positions |->
                            IF buf.seq[p] \in stale THEN Absent ELSE buf.seq[p]],
                !.queued = @ - Cardinality(stale),
                !.free = @ + Cardinality(stale),
                !.expected = next]

canMoveExpectedBackAlways(buf, q) == TRUE
canMoveExpectedBack(buf, q) ==
    \A x \in Queued(buf) : Distance(x, q) \in 0 .. MaxPackets - 1

freeSlot(buf) == [buf EXCEPT !.free = @ + 1]

\* A packet with nothing queued and a window or more away starts the stream.
Restarts(buf, q) ==
    /\ buf.resync /\ buf.queued = 0
    /\ \/ Distance(q, buf.expected) >= MaxPackets
       \/ -Distance(q, buf.expected) >= MaxPackets

\* The window as it is when the packet is looked at.
Opened(buf, s, q) ==
    IF buf.ssrc # s \/ Restarts(buf, q) THEN resetStream(buf, s, q) ELSE buf

LateOnlyPlaying(buf, q) == Distance(q, buf.expected) < 0 /\ buf.playout
Late(buf, q) == Distance(q, buf.expected) < 0 /\ (buf.playout \/ buf.resync)
BeforeWindow(buf, q) ==
    /\ Distance(q, buf.expected) < 0
    /\ ~Late(buf, q) /\ ~canMoveExpectedBack(buf, q)

\* The window moves back, or on so that it ends at q, for q to fit.
Moved(buf, q) ==
    CASE Distance(q, buf.expected) < 0 -> [buf EXCEPT !.expected = q]
      [] Distance(q, buf.expected) >= MaxPackets ->
            dropBefore(buf, Add(q, -(DelayPackets - 1)))
      [] OTHER -> buf

\* Buffering starts again with the first packet after a stop.
StartAtNever(buf) == buf.startAt
StartAt(buf) ==
    IF buf.resync /\ buf.queued = 0 THEN "set" ELSE buf.startAt

Filed(buf, q) ==
    IF buf.seq[Position(q)] # Absent
    THEN freeSlot(buf)
    ELSE [buf EXCEPT !.seq[Position(q)] = q, !.queued = @ + 1,
                     !.startAt = StartAt(buf)]

handleSlot(s, q) ==
    LET w == Opened(b, s, q) IN
    IF Late(w, q) \/ BeforeWindow(w, q)
    THEN freeSlot(w)
    ELSE Filed(Moved(w, q), q)

\* Starting again after a stop, what was lost before the first packet queued
\* is passed over.
FirstOccupied(buf) ==
    CHOOSE n \in 0 .. SeqMod - 1 :
        /\ buf.seq[Position(Add(buf.expected, n))] # Absent
        /\ \A m \in 0 .. n - 1 : buf.seq[Position(Add(buf.expected, m))] = Absent

startPlayout(buf) ==
    [buf EXCEPT !.startAt = "none", !.resync = FALSE, !.playout = TRUE,
                !.release = TRUE,
                !.expected = IF buf.resync /\ buf.queued > 0
                             THEN Add(@, FirstOccupied(buf)) ELSE @]

stopPlayout(buf) == [buf EXCEPT !.playout = FALSE, !.resync = TRUE]

\* The next release, of the following packet, may be due already.
Passes(buf, due) ==
    [buf EXCEPT !.expected = Add(@, 1), !.release = due]

Release(buf, due) ==
    [Passes(buf, due) EXCEPT !.seq[Position(buf.expected)] = Absent,
                            !.queued = @ - 1, !.free = @ + 1]

-----------------------------------------------------------------------------
(* The consumer *)

Call ==
    /\ cons = "out"
    /\ cons' = "top"
    /\ once' = TRUE
    /\ loop' = IF once THEN loop ELSE "top"
    /\ UNCHANGED <<b, reader, rd, ended, loopDone, armed, arrived, closed,
                   arrivals>>

\* Close wins over anything queued.
ReadClosed ==
    /\ cons \in {"top", "wait"} /\ closed
    /\ cons' = "stopped" /\ armed' = FALSE
    /\ UNCHANGED <<b, readVars, arrived, closed, once, arrivals>>

MayStart(buf) ==
    ~buf.playout /\ (buf.startAt = "due" \/ buf.queued >= DelayPackets)

\* One turn of ReadRTP's loop under mu.
ReadRTP(due) ==
    LET p == IF MayStart(b) THEN startPlayout(b) ELSE b
        decides == p.playout /\ p.release
        hit == decides /\ Holds(p, p.expected)
        lost == decides /\ ~hit /\ p.queued > 0
        q == IF decides /\ ~hit /\ ~lost THEN stopPlayout(p) ELSE p
    IN
    /\ cons = "top" /\ ~closed
    /\ \/ hit /\ b' = Release(p, due) /\ cons' = "out" /\ armed' = FALSE
       \/ lost /\ b' = Passes(p, due) /\ UNCHANGED consVars
       \/ /\ ~hit /\ ~lost
          /\ b' = q
          /\ due  \* nothing is released, so nothing comes due here
          /\ IF ended /\ q.queued = 0
             THEN cons' = "eof" /\ armed' = FALSE
             ELSE /\ cons' = "wait"
                  /\ armed' = (q.playout \/ q.startAt # "none")
    /\ UNCHANGED <<readVars, arrived, closed, once, arrivals>>

Wake ==
    /\ cons = "wait"
    /\ \/ arrived /\ arrived' = FALSE
       \/ /\ armed /\ (b.startAt = "due" \/ (b.playout /\ b.release))
          /\ UNCHANGED arrived
    /\ cons' = "top"
    /\ UNCHANGED <<b, readVars, armed, closed, once, arrivals>>

\* Time passes to startAt, or to releaseAt.
ComesDue ==
    /\ \/ b.startAt = "set" /\ b' = [b EXCEPT !.startAt = "due"]
       \/ b.playout /\ ~b.release /\ b' = [b EXCEPT !.release = TRUE]
    /\ UNCHANGED <<readVars, consVars, arrived, closed, once, arrivals>>

-----------------------------------------------------------------------------
(* The read loop *)

LoopTop ==
    /\ loop = "top"
    /\ IF closed
       THEN loop' = "returned" /\ loopDone' = TRUE /\ UNCHANGED <<b, rd>>
       ELSE /\ loop' = "reading" /\ b' = [b EXCEPT !.free = @ - 1]
            /\ rd' = reader /\ UNCHANGED loopDone
    /\ UNCHANGED <<reader, ended, consVars, arrived, closed, once, arrivals>>

Packet(s, q) ==
    /\ loop = "reading" /\ (Endless \/ arrivals > 0)
    /\ b' = handleSlot(s, q)
    /\ loop' = "notify"
    /\ arrivals' = IF Endless THEN arrivals ELSE arrivals - 1
    /\ UNCHANGED <<reader, rd, ended, loopDone, consVars, arrived, closed, once>>

EmptyRead ==
    /\ loop = "reading" /\ (Endless \/ arrivals > 0)
    /\ b' = freeSlot(b)
    /\ loop' = "top"
    /\ arrivals' = IF Endless THEN arrivals ELSE arrivals - 1
    /\ UNCHANGED <<reader, rd, ended, loopDone, consVars, arrived, closed, once>>

\* A failed read is final on the reader in place, or once the buffer is closed.
Final == rd = reader \/ closed

readUpstreamFails ==
    /\ loop = "reading"
    /\ IF Final
       THEN /\ b' = freeSlot(b) /\ ended' = TRUE /\ loop' = "notifyEnd"
            /\ UNCHANGED rd
       ELSE rd' = reader /\ UNCHANGED <<b, ended, loop>>
    /\ UNCHANGED <<reader, loopDone, consVars, arrived, closed, once, arrivals>>

notify == arrived' = TRUE

Notify ==
    /\ loop \in {"notify", "notifyEnd"}
    /\ notify
    /\ loop' = IF loop = "notify" THEN "top" ELSE "returned"
    /\ loopDone' = (loopDone \/ loop = "notifyEnd")
    /\ UNCHANGED <<b, reader, rd, ended, consVars, closed, once, arrivals>>

-----------------------------------------------------------------------------
UpdateRTPSession ==
    /\ reader < MaxUpdates
    /\ reader' = reader + 1
    /\ UNCHANGED <<b, rd, loop, ended, loopDone, consVars, arrived, closed,
                   once, arrivals>>

\* A read loop that has not started by now never starts.
CloseBars == once' = TRUE /\ loopDone' = (loopDone \/ ~once)

Close ==
    /\ ~closed
    /\ closed' = TRUE
    /\ CloseBars
    /\ UNCHANGED <<b, reader, rd, loop, ended, consVars, arrived, arrivals>>

-----------------------------------------------------------------------------
Reads == \E due \in BOOLEAN : ReadRTP(due)
Arrives == \E s \in Sources, q \in Seqs : Packet(s, q)

Next ==
    \/ Call \/ ReadClosed \/ Reads \/ Wake \/ ComesDue
    \/ LoopTop \/ Arrives \/ EmptyRead \/ readUpstreamFails \/ Notify
    \/ UpdateRTPSession \/ Close

Spec == Init /\ [][Next]_vars

(***************************************************************************)
(* The consumer reads on, both goroutines are scheduled, time passes, and  *)
(* a read in progress returns once the buffer is closed (Done's doc asks   *)
(* the owner to make it return) or packets stop arriving.                  *)
(***************************************************************************)
Fairness ==
    /\ WF_vars(Call) /\ WF_vars(ReadClosed) /\ WF_vars(Reads) /\ WF_vars(Wake)
    /\ WF_vars(ComesDue) /\ WF_vars(LoopTop) /\ WF_vars(Notify)
    /\ WF_vars(closed /\ (Arrives \/ readUpstreamFails))

FairSpec == Spec /\ Fairness

-----------------------------------------------------------------------------
(* Properties *)

(***************************************************************************)
(* What is queued is inside the window that starts at expectedSeq, at its  *)
(* own position, and counted by queued: playout meets every packet queued. *)
(* Every slot is free, queued or being read into, so the read loop, which  *)
(* takes the last free slot without a check, always has one (handleSlot,   *)
(* dropBefore, canMoveExpectedBack, startPlayout, readLoop, freeSlot).     *)
(***************************************************************************)
WindowHolds ==
    /\ b.queued = Cardinality(Queued(b))
    /\ \A p \in Positions : b.seq[p] # Absent =>
          /\ Position(b.seq[p]) = p
          /\ Distance(b.seq[p], b.expected) \in 0 .. MaxPackets - 1
    /\ b.free + b.queued + (IF loop = "reading" THEN 1 ELSE 0) = MaxPackets + 1
    /\ loop = "top" => b.free > 0

(***************************************************************************)
(* From the first packet played to the next restart of the stream, playout *)
(* moves forward only: packets come out in order and none twice (ReadRTP,  *)
(* startPlayout, dropBefore).                                              *)
(***************************************************************************)
Playing(buf) == buf.playout \/ buf.resync
PlayoutInOrder ==
    [][Playing(b) /\ Playing(b') => Distance(b'.expected, b.expected) >= 0]_vars

(***************************************************************************)
(* Packets queued do not stay: once packets stop arriving every one left   *)
(* is played, or dropped as playout moves past it, or the buffer is closed *)
(* (ReadRTP, notify, the timer).                                           *)
(***************************************************************************)
QueueDrains == b.queued > 0 ~> (b.queued = 0 \/ closed)

(***************************************************************************)
(* What the doc of MaxPackets says: it is the window of sequence numbers   *)
(* taken, so a packet of the playing source inside it is queued.           *)
(***************************************************************************)
FitsIsQueued ==
    [][\A q \in Seqs :
          Packet(b.ssrc, q) /\ Distance(q, b.expected) \in 0 .. MaxPackets - 1
              => q \in Queued(b')]_vars
=============================================================================
