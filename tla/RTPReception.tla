---------------------------- MODULE RTPReception ----------------------------
(***************************************************************************)
(* What an RTP session keeps about the stream it receives                  *)
(* (media/rtp_session.go, RTPReadStats, media/rtp_sequencer.go) and what   *)
(* it reports of it by RTCP.                                               *)
(*                                                                         *)
(* The peer numbers its packets one after the other from any number on.    *)
(* The network loses, repeats and delays them, and a report of the peer's  *)
(* may come before its first packet.  Streams follow one another, each     *)
(* with an SSRC of its own.  Packets that ReadRTP skips (no payload, wrong *)
(* version, a payload type that was not negotiated) count as lost.         *)
(* Jitter, round trip time, octets and the source lock are left out.       *)
(***************************************************************************)
EXTENDS Integers

CONSTANTS
    SeqNumbers,    \* how many sequence numbers there are, 2^16 in the code
    MaxDropout,    \* maxDropout
    MaxMisorder,   \* maxMisorder
    FirstNumbers,  \* the sequence numbers a stream may begin with
    MaxStreams,    \* how many streams there are
    MaxArrivals    \* how many packets of each are read

VARIABLES
    stats,     \* RTPReadStats
    report,    \* the loss last reported
    stream,    \* the peer's stream: its SSRC and first sequence number
    newest,    \* the newest packet read, by its place in the stream
    at,        \* the place of the packet that stats.seqNum is of
    since,     \* the place of the packet the sequencer was last started with
    from,      \* the place of the first packet read
    inOrder    \* every packet of the stream was read, in order

ghosts == <<newest, at, since, from, inOrder>>
vars == <<stats, report, stream, ghosts>>

None == -1
maxSeqNum == SeqNumbers - 1
NoReport == [ssrc |-> 0, fraction |-> 0, total |-> 0]
Larger(x, y) == IF x > y THEN x ELSE y

\* The zero RTPReadStats, of no SSRC.
NoStats == [ssrc |-> 0, first |-> 0, seqNum |-> 0, cycles |-> 0, badSeq |-> 0,
            intervalFirst |-> 0, intervalCount |-> 0, count |-> 0]

NumberOf(i) == (stream.first + i) % SeqNumbers

Init ==
    /\ stats = NoStats /\ report = NoReport
    /\ \E n \in FirstNumbers : stream = [ssrc |-> 1, first |-> n]
    /\ newest = None /\ at = None /\ since = None /\ from = None
    /\ inOrder = TRUE

-----------------------------------------------------------------------------
(* The extended sequence number *)

InitSeq(s, seq) == [s EXCEPT !.seqNum = seq, !.badSeq = maxSeqNum, !.cycles = 0]

Ahead(s, seq) == (seq - s.seqNum) % SeqNumbers

InSequence(s, seq) == Ahead(s, seq) < MaxDropout
Jumps(s, seq) == ~InSequence(s, seq) /\ Ahead(s, seq) <= maxSeqNum - MaxMisorder
Restarts(s, seq) == Jumps(s, seq) /\ seq = s.badSeq

AdvancedNoWrap(s, seq) == [s EXCEPT !.seqNum = seq]
Advanced(s, seq) ==
    [s EXCEPT !.seqNum = seq,
              !.cycles = IF seq < s.seqNum THEN (@ + 1) % SeqNumbers ELSE @]

\* ReadRTP does not look at the error of a jump or a duplicate.
UpdateSeq(s, seq) ==
    CASE InSequence(s, seq) -> Advanced(s, seq)
      [] Restarts(s, seq)   -> InitSeq(s, seq)
      [] Jumps(s, seq) /\ ~Restarts(s, seq) ->
             [s EXCEPT !.badSeq = (seq + 1) % SeqNumbers]
      [] OTHER -> s

ReadExtendedSeq(s) == s.seqNum + SeqNumbers * s.cycles

-----------------------------------------------------------------------------
(* Reading *)

Counted(s, seq) ==
    [s EXCEPT !.intervalCount = @ + 1, !.count = @ + 1,
              !.intervalFirst = IF @ = 0 THEN seq ELSE @]

\* The first packet of an SSRC starts the statistics anew.
Started(seq) ==
    InitSeq([NoStats EXCEPT !.ssrc = stream.ssrc, !.first = seq], seq)

\* A packet is at most one place older than what counts as a reordering, and the
\* sequencer is never so far behind that a jump looks like a reordering.
MayArrive(i) ==
    /\ i >= Larger(newest - MaxMisorder - 1, 0)
    /\ i <= newest + MaxDropout + 1
    /\ at # None => i - at < SeqNumbers - MaxMisorder - 1

ReadRTP(i) ==
    LET seq == NumberOf(i)
        anew == stats.ssrc # stream.ssrc
        jumped == anew \/ Restarts(stats, seq)
        moved == jumped \/ InSequence(stats, seq)
    IN /\ MayArrive(i)
       /\ anew \/ stats.count < MaxArrivals
       /\ stats' = Counted(IF anew THEN Started(seq) ELSE UpdateSeq(stats, seq), seq)
       /\ newest' = Larger(newest, i)
       /\ at' = IF moved THEN i ELSE at
       /\ since' = IF jumped \/ (moved /\ since = None) THEN i ELSE since
       /\ from' = IF from = None THEN i ELSE from
       /\ inOrder' = (inOrder /\ i = newest + 1)
       /\ UNCHANGED <<report, stream>>

\* The peer begins another stream.
NewStream ==
    /\ stats.ssrc = stream.ssrc /\ stream.ssrc < MaxStreams
    /\ \E n \in FirstNumbers : stream' = [ssrc |-> stream.ssrc + 1, first |-> n]
    /\ newest' = None /\ at' = None /\ since' = None /\ from' = None
    /\ inOrder' = TRUE
    /\ UNCHANGED <<stats, report>>

\* A sender report of the peer's, of which the SSRC is taken when none is known.
ReadSenderReport ==
    /\ stats.ssrc = 0
    /\ stats' = [stats EXCEPT !.ssrc = stream.ssrc]
    /\ UNCHANGED <<report, stream, ghosts>>

-----------------------------------------------------------------------------
(* Reporting *)

\* A fraction of 256, that is everything lost, is 0 in the eight bits it has, and
\* so is the quotient of 0 and 0.
FractionLost(s) ==
    LET expected == ReadExtendedSeq(s) - s.intervalFirst
        lost == Larger(expected - s.intervalCount, 0)
    IN IF lost = 0 THEN 0 ELSE ((256 * lost) \div expected) % 256

\* A difference below zero is above 2^32, is capped to 2^32 and is 0 in the 32
\* bits it has.
TotalLost(s) == Larger(ReadExtendedSeq(s) - s.first - s.count, 0)

\* The tick of the monitor's writer, when it has something to report.
WriteRTCP ==
    /\ stats.ssrc # 0
    /\ report' = [ssrc |-> stats.ssrc, fraction |-> FractionLost(stats),
                  total |-> TotalLost(stats)]
    /\ stats' = [stats EXCEPT !.intervalFirst = 0, !.intervalCount = 0]
    /\ UNCHANGED <<stream, ghosts>>

-----------------------------------------------------------------------------
Next ==
    \/ \E i \in 0 .. newest + MaxDropout + 1 : ReadRTP(i)
    \/ NewStream \/ ReadSenderReport \/ WriteRTCP

Spec == Init /\ [][Next]_vars

-----------------------------------------------------------------------------
(* Properties *)

\* The statistics follow the stream where its numbers wrap, when old packets come
\* late and after a gap that made the sequencer start again: the extended number
\* has advanced by as many packets as the peer sent since the sequencer was
\* started.  And while it is the first packet the sequencer was started with, no
\* more packets are reported lost in all than are missing (UpdateSeq, ReadRTP,
\* parseReceptionReport).
StatsFollow ==
    /\ at # None => ReadExtendedSeq(stats) = NumberOf(since) + at - since
    /\ at # None /\ since = from /\ stats.first = NumberOf(from) =>
           TotalLost(stats) <= Larger(newest - from + 1 - stats.count, 0)

\* What the comment on parseReceptionReport says: the fraction is of the packets
\* lost to those expected in the interval, so it is none when none was lost.
LosslessReported == inOrder /\ report.ssrc = stream.ssrc => report.fraction = 0
=============================================================================
