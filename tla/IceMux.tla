------------------------------- MODULE IceMux -------------------------------
(***************************************************************************)
(* The demultiplexer of the one ICE pair a session has                     *)
(* (media/ice_mux.go): a read loop hands each packet to the buffer of DTLS *)
(* or RTP or RTCP, a consumer reads each buffer, and Close is called for   *)
(* the views of the mux, perhaps at the same time.                         *)
(***************************************************************************)
EXTENDS Naturals

CONSTANTS
    BufferLimit,   \* how many packets a buffer holds (iceMuxBufferLimit)
    Closers        \* goroutines that close a view of the mux

Streams == {"dtls", "rtp", "rtcp"}

VARIABLES
    pair,      \* the ICE connection
    readLoop,      \* the read loop, or the stream of the packet it holds
    queue,     \* how many packets each stream's buffer holds
    shut,      \* the buffers are closed
    closeOnce,      \* closeOnce
    closer,    \* where each Close is
    consumer   \* what the consumer of each stream is doing

vars == <<pair, readLoop, queue, shut, closeOnce, closer, consumer>>

Init ==
    /\ pair = "open" /\ readLoop = "reading"
    /\ queue = [s \in Streams |-> 0] /\ shut = FALSE
    /\ closeOnce = "free" /\ closer = [c \in Closers |-> "idle"]
    /\ consumer = [s \in Streams |-> "idle"]

-----------------------------------------------------------------------------
(* The read loop *)

\* A packet of the peer's is read and classified.
Packet(s) ==
    /\ readLoop = "reading" /\ pair = "open"
    /\ readLoop' = s
    /\ UNCHANGED <<pair, queue, shut, closeOnce, closer, consumer>>

\* A full or a closed buffer drops the packet, and the loop goes on.
Taken(s) == ~shut /\ queue[s] < BufferLimit

Hand ==
    /\ readLoop \in Streams
    /\ queue' = IF Taken(readLoop) THEN [queue EXCEPT ![readLoop] = @ + 1] ELSE queue
    /\ readLoop' = "reading"
    /\ UNCHANGED <<pair, shut, closeOnce, closer, consumer>>

\* Any read error is final.
LoopEndsOnly ==
    /\ readLoop = "reading" /\ pair # "open"
    /\ readLoop' = "done"
    /\ UNCHANGED <<pair, queue, shut, closeOnce, closer, consumer>>

LoopEnds ==
    /\ readLoop = "reading" /\ pair # "open"
    /\ shut' = TRUE
    /\ readLoop' = "done"
    /\ UNCHANGED <<pair, queue, closeOnce, closer, consumer>>

PairFails ==
    /\ pair = "open"
    /\ pair' = "failed"
    /\ UNCHANGED <<readLoop, queue, shut, closeOnce, closer, consumer>>

-----------------------------------------------------------------------------
(* Close *)

At(c, from, to) == closer[c] = from /\ closer' = [closer EXCEPT ![c] = to]

CloseBegins(c) ==
    /\ At(c, "idle", "called")
    /\ UNCHANGED <<pair, readLoop, queue, shut, closeOnce, consumer>>

\* The first Close runs, any other waits until it is done.
CloseOnce(c) ==
    /\ \/ closeOnce = "free" /\ At(c, "called", "conn") /\ closeOnce' = "running"
       \/ closeOnce = "done" /\ At(c, "called", "returned") /\ UNCHANGED closeOnce
    /\ UNCHANGED <<pair, readLoop, queue, shut, consumer>>

CloseConn(c) ==
    /\ At(c, "conn", "buffers")
    /\ pair' = "closed"
    /\ UNCHANGED <<readLoop, queue, shut, closeOnce, consumer>>

CloseBuffers(c) ==
    /\ At(c, "buffers", "waiting")
    /\ shut' = TRUE
    /\ UNCHANGED <<pair, readLoop, queue, closeOnce, consumer>>

CloseWaits(c) ==
    /\ readLoop = "done"
    /\ At(c, "waiting", "returned")
    /\ closeOnce' = "done"
    /\ UNCHANGED <<pair, readLoop, queue, shut, consumer>>

Close(c) == CloseOnce(c) \/ CloseConn(c) \/ CloseBuffers(c) \/ CloseWaits(c)

-----------------------------------------------------------------------------
(* The consumers *)

ReadBegins(s) ==
    /\ consumer[s] = "idle"
    /\ consumer' = [consumer EXCEPT ![s] = "reading"]
    /\ UNCHANGED <<pair, readLoop, queue, shut, closeOnce, closer>>

\* What is in a closed buffer is still read.
ReadFrom(s) ==
    /\ consumer[s] = "reading"
    /\ \/ /\ queue[s] > 0
          /\ queue' = [queue EXCEPT ![s] = @ - 1]
          /\ consumer' = [consumer EXCEPT ![s] = "idle"]
       \/ /\ queue[s] = 0 /\ shut
          /\ consumer' = [consumer EXCEPT ![s] = "eof"]
          /\ UNCHANGED queue
    /\ UNCHANGED <<pair, readLoop, shut, closeOnce, closer>>

-----------------------------------------------------------------------------
Next ==
    \/ \E s \in Streams : Packet(s) \/ ReadBegins(s) \/ ReadFrom(s)
    \/ Hand \/ LoopEnds \/ PairFails
    \/ \E c \in Closers : CloseBegins(c) \/ Close(c)

Spec == Init /\ [][Next]_vars

\* Goroutines run; neither the peer nor the owner has to do anything.
Fairness ==
    /\ WF_vars(Hand \/ LoopEnds)
    /\ \A c \in Closers : WF_vars(Close(c))
    /\ \A s \in Streams : WF_vars(ReadFrom(s))

-----------------------------------------------------------------------------
(* Properties *)

\* Once the pair has failed, or a Close was called, every Close returns and no
\* consumer stays in a read, though nobody may ever call Close after a failure
\* (readLoop, closeBuffers, iceMux.Close).
MuxReleases ==
    (pair # "open" \/ \E c \in Closers : closer[c] # "idle") ~>
        /\ \A c \in Closers : closer[c] \in {"idle", "returned"}
        /\ \A s \in Streams : consumer[s] # "reading"
=============================================================================
