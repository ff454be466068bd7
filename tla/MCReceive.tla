----------------------------- MODULE MCReceive -----------------------------
(***************************************************************************)
(* The receiving side: small instances of JitterBuffer, RTPReception and   *)
(* IceMux.  The three share no state: in each behaviour one of them runs,  *)
(* and the others are over.                                                *)
(***************************************************************************)
EXTENDS MCJitterBuffer

CONSTANTS SeqNumbers, MaxDropout, MaxMisorder, FirstNumbers, MaxStreams, MaxArrivals
CONSTANTS BufferLimit, Closers

VARIABLES stats, report, stream, newest, at, since, from, inOrder
VARIABLES pair, readLoop, queue, shut, closeOnce, closer, consumer

receptionVars == <<stats, report, stream, newest, at, since, from, inOrder>>
muxVars == <<pair, readLoop, queue, shut, closeOnce, closer, consumer>>

Reception == INSTANCE RTPReception
Mux == INSTANCE IceMux

\* The buffer was closed before it was read, and its reader replaced.
JitterOver ==
    /\ b = [seq |-> [p \in Positions |-> Absent], queued |-> 0,
            free |-> MaxPackets + 1, ssrc |-> Nobody, expected |-> 0,
            playout |-> FALSE, resync |-> FALSE, startAt |-> "none",
            release |-> FALSE]
    /\ ended = FALSE /\ arrived = FALSE /\ armed = FALSE
    /\ closed = TRUE /\ once = TRUE /\ loopDone = TRUE
    /\ reader = MaxUpdates /\ rd = 0
    /\ loop = "none" /\ cons = "stopped"
    /\ arrivals = 0

\* The last packet of the last stream was read and reported.
ReceptionOver ==
    /\ stats = [Reception!NoStats EXCEPT !.ssrc = MaxStreams, !.count = MaxArrivals]
    /\ report = [Reception!NoReport EXCEPT !.ssrc = MaxStreams]
    /\ stream = [ssrc |-> MaxStreams, first |-> 0]
    /\ newest = 0 /\ at = 0 /\ since = 0 /\ from = 0 /\ inOrder = TRUE

\* The mux was closed and its consumers have read to the end.
MuxOver ==
    /\ pair = "closed" /\ readLoop = "done" /\ shut = TRUE /\ closeOnce = "done"
    /\ queue = [s \in Mux!Streams |-> 0]
    /\ closer = [c \in Closers |-> "returned"]
    /\ consumer = [s \in Mux!Streams |-> "eof"]

MCInit ==
    \/ Init /\ ReceptionOver /\ MuxOver
    \/ JitterOver /\ Reception!Init /\ MuxOver
    \/ JitterOver /\ ReceptionOver /\ Mux!Init

MCNext ==
    \/ Next /\ UNCHANGED <<receptionVars, muxVars>>
    \/ Reception!Next /\ UNCHANGED <<vars, muxVars>>
    \/ Mux!Next /\ UNCHANGED <<vars, receptionVars>>

MCSpec ==
    /\ MCInit /\ [][MCNext]_<<vars, receptionVars, muxVars>>
    /\ Fairness /\ Mux!Fairness

\* The statistics of a stream follow it (RTPReception).
StatsFollow == Reception!StatsFollow

\* A mux that has failed or is closed releases its closers and its consumers
\* (IceMux).
MuxReleases == Mux!MuxReleases
=============================================================================
