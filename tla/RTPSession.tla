---------------------------- MODULE RTPSession ----------------------------
(***************************************************************************)
(* The RTP session of a dialog that is replaced while it is used.  A media *)
(* update stops the RTCP monitor of the session in place, forks it, starts *)
(* the monitor of the fork, moves the packet reader over, hands over the   *)
(* read deadline and closes the sockets that are left                      *)
(* (DialogMedia.replaceRTPSessionUnsafe).  Meanwhile the application reads *)
(* the media with one of its Listen calls and stops that read with a       *)
(* deadline, the two goroutines of each monitor run (media.RTPSession), and*)
(* the dialog may be closed.                                               *)
(*                                                                         *)
(* A session is numbered by its place in the chain of forks.  A socket     *)
(* pair has the number of the session that bound it.  Packets are not      *)
(* modelled: a read may get one whenever the socket lets it, and need not. *)
(***************************************************************************)
EXTENDS Naturals

CONSTANTS
    MaxUpdates,     \* how often the media is updated
    MaxListens      \* how often the application listens

Sessions == 1 .. (MaxUpdates + 1)

\* A read deadline: none, one still ahead, and one that has passed.
Deadlines == {"none", "ahead", "past"}

\* ListenContext, ListenUntil, ListenBackground and DTMFReader.Listen.
Kinds == {"context", "until", "background", "dtmf"}

VARIABLES
    sock,       \* session -> the socket pair it runs on
    open,       \* socket pair -> not closed
    rtp,        \* socket pair -> read deadline of its RTP socket
    rtcp,       \* socket pair -> which deadlines of its RTCP socket have passed
    recorded,   \* session -> rtpReadDeadline
    mon,        \* session -> its monitor: closed, reader, writer
    cur,        \* the dialog's mediaSession and rtpSession
    reader,     \* the session the dialog's packet reader reads
    upd,        \* the media update under way; it holds the dialog's lock
    closing,    \* how far DialogMedia.Close has come
    hook,       \* onClose closes the session of early media
    listen,     \* the Listen call
    stopper     \* what stops it: context.AfterFunc, or the caller of stop

sockets == <<sock, open, rtp, rtcp>>
sessions == <<recorded, mon, cur, reader>>
app == <<listen, stopper>>
vars == <<sockets, sessions, upd, closing, hook, app>>

Idle == [pc |-> "idle", kind |-> "until", at |-> 1, err |-> "none", calls |-> 0]

MonitorStates == [closed : BOOLEAN, rd : {"off", "starting", "reading", "done"},
                  wr : {"off", "waiting", "writing", "done"}]
Passings == [read : BOOLEAN, write : BOOLEAN]
UpdateStates == [pc : {"idle", "expire", "wait", "fork", "reader", "install", "close"},
                 rebind : BOOLEAN, old : Sessions, new : Sessions]
ListenStates == [pc : {"idle", "reading", "erred", "clear", "ended"}, kind : Kinds,
                 at : Sessions, err : {"none", "timeout", "closed"},
                 calls : 0 .. MaxListens]

TypeOK ==
    /\ sock \in [Sessions -> Sessions]
    /\ open \in [Sessions -> BOOLEAN]
    /\ rtp \in [Sessions -> Deadlines]
    /\ rtcp \in [Sessions -> Passings]
    /\ recorded \in [Sessions -> Deadlines]
    /\ mon \in [Sessions -> MonitorStates]
    /\ cur \in Sessions /\ reader \in Sessions
    /\ upd \in UpdateStates
    /\ closing \in {"open", "hook", "signal", "expire", "wait", "sockets", "done"}
    /\ hook \in BOOLEAN
    /\ listen \in ListenStates
    /\ stopper \in {"off", "armed", "running", "sent", "failed"}

\* The dialog is set up: one session, whose monitor has just been started.
Init ==
    /\ sock = [s \in Sessions |-> s]
    /\ open = [s \in Sessions |-> s = 1]
    /\ rtp = [s \in Sessions |-> "none"]
    /\ rtcp = [s \in Sessions |-> [read |-> FALSE, write |-> FALSE]]
    /\ recorded = [s \in Sessions |-> "none"]
    /\ mon = [s \in Sessions |->
                IF s = 1 THEN [closed |-> FALSE, rd |-> "starting", wr |-> "waiting"]
                         ELSE [closed |-> FALSE, rd |-> "off", wr |-> "off"]]
    /\ cur = 1 /\ reader = 1
    /\ upd = [pc |-> "idle", rebind |-> FALSE, old |-> 1, new |-> 1]
    /\ closing = "open"
    /\ hook \in BOOLEAN
    /\ listen = Idle
    /\ stopper = "off"

\* The dialog's lock is free: only an update holds it for more than a step.
Unlocked == upd.pc = "idle"

closed == closing # "open"

-----------------------------------------------------------------------------
(* The RTCP monitor of session s. *)

Expired == [read |-> TRUE, write |-> TRUE]
Cleared == [read |-> FALSE, write |-> FALSE]

\* close, under the session's lock: the latch and the channel the writer waits on.
Signalled(m) == [m EXCEPT !.closed = TRUE]

\* The deadline close then sets, to end the reader.  A closed socket refuses it.
Expire(s) == rtcp' = [rtcp EXCEPT ![sock[s]] = IF open[sock[s]] THEN Expired ELSE @]

\* monitorWG.Wait returns.
MonitorsDone(s) == mon[s].rd \in {"off", "done"} /\ mon[s].wr \in {"off", "done"}

\* readRTCP clears the read deadline unless the monitor is closed already.
ClearsLateMutant(m) == TRUE
ClearsLate(m) == ~m.closed

\* The reader goroutine starts.
ReadRTCPStarts(s) ==
    /\ mon[s].rd = "starting"
    /\ rtcp' = [rtcp EXCEPT ![sock[s]].read = IF ClearsLate(mon[s]) THEN FALSE ELSE @]
    /\ mon' = [mon EXCEPT ![s].rd = "reading"]
    /\ UNCHANGED <<sock, open, rtp, recorded, cur, reader, upd, closing, hook, app>>

\* Its read fails, on a closed socket or on the deadline close has set.
ReadRTCPFails(s) ==
    /\ mon[s].rd = "reading"
    /\ ~open[sock[s]] \/ rtcp[sock[s]].read
    /\ mon' = [mon EXCEPT ![s].rd = "done"]
    /\ UNCHANGED <<sockets, recorded, cur, reader, upd, closing, hook, app>>

\* The writer goroutine takes a tick.  close stops the ticker.
TickRTCP(s) ==
    /\ mon[s].wr = "waiting" /\ ~mon[s].closed
    /\ mon' = [mon EXCEPT ![s].wr = "writing"]
    /\ UNCHANGED <<sockets, recorded, cur, reader, upd, closing, hook, app>>

\* A write that fails ends the writer.  With nothing to report it writes nothing.
WriteRTCP(s) ==
    /\ mon[s].wr = "writing"
    /\ \E reports \in BOOLEAN :
         mon' = [mon EXCEPT ![s].wr =
                   IF reports /\ (~open[sock[s]] \/ rtcp[sock[s]].write)
                   THEN "done" ELSE "waiting"]
    /\ UNCHANGED <<sockets, recorded, cur, reader, upd, closing, hook, app>>

WriterCloses(s) ==
    /\ mon[s].wr = "waiting" /\ mon[s].closed
    /\ mon' = [mon EXCEPT ![s].wr = "done"]
    /\ UNCHANGED <<sockets, recorded, cur, reader, upd, closing, hook, app>>

Monitor(s) ==
    \/ ReadRTCPStarts(s)
    \/ ReadRTCPFails(s)
    \/ WriteRTCP(s)
    \/ WriterCloses(s)

-----------------------------------------------------------------------------
(* replaceRTPSessionUnsafe, with the dialog's lock held throughout.  None of *)
(* its error returns is reachable here: the sockets of the session in place *)
(* stay open until Close, and Close refuses any later update.               *)

\* The lock is taken and MonitorClose signals the monitor of the session in place.
UpdateBegins ==
    /\ Unlocked /\ ~closed
    /\ cur <= MaxUpdates
    /\ \E rebind \in BOOLEAN :
         upd' = [pc |-> "expire", rebind |-> rebind, old |-> cur, new |-> cur + 1]
    /\ mon' = [mon EXCEPT ![cur] = Signalled(@)]
    /\ UNCHANGED <<sockets, recorded, cur, reader, closing, hook, app>>

UpdateExpires ==
    /\ upd.pc = "expire"
    /\ Expire(upd.old)
    /\ upd' = [upd EXCEPT !.pc = "wait"]
    /\ UNCHANGED <<sock, open, rtp, sessions, closing, hook, app>>

\* The old monitor is waited for.
MayFork == MonitorsDone(upd.old)

UpdateWaits ==
    /\ upd.pc = "wait"
    /\ MayFork
    /\ upd' = [upd EXCEPT !.pc = "fork"]
    /\ UNCHANGED <<sockets, sessions, closing, hook, app>>

\* startMonitor clears both deadlines before the goroutines of the fork run.
startMonitorMutant(d) == d
startMonitor(d) == Cleared

\* A fork shares the socket pair unless it was rebound to a new address.
UpdateForks ==
    /\ upd.pc = "fork"
    /\ LET s == IF upd.rebind THEN upd.new ELSE sock[upd.old] IN
         /\ sock' = [sock EXCEPT ![upd.new] = s]
         /\ open' = [open EXCEPT ![s] = TRUE]
         /\ rtcp' = [rtcp EXCEPT ![s] = startMonitor(@)]
    /\ mon' = [mon EXCEPT ![upd.new] = [closed |-> FALSE, rd |-> "starting", wr |-> "waiting"]]
    /\ upd' = [upd EXCEPT !.pc = "reader"]
    /\ UNCHANGED <<rtp, recorded, cur, reader, closing, hook, app>>

\* RTPPacketReader.UpdateRTPSession
UpdateMovesReader ==
    /\ upd.pc = "reader"
    /\ reader' = upd.new
    /\ upd' = [upd EXCEPT !.pc = "install"]
    /\ UNCHANGED <<sockets, recorded, mon, cur, closing, hook, app>>

\* CarryRTPDeadlines: the deadline recorded, and the one on the new socket.
CarriedMutant(d) == "none"
Carried(d) == d

UpdateInstalls ==
    /\ upd.pc = "install"
    /\ cur' = upd.new
    /\ LET d == Carried(recorded[upd.old]) IN
         /\ recorded' = [recorded EXCEPT ![upd.new] = d]
         /\ rtp' = [rtp EXCEPT ![sock[upd.new]] = IF upd.rebind THEN d ELSE @]
    /\ upd' = [upd EXCEPT !.pc = "close"]
    /\ UNCHANGED <<sock, open, rtcp, mon, reader, closing, hook, app>>

\* The replaced session is closed when the new one has sockets of its own.
ClosesOldMutant == FALSE
ClosesOld == upd.rebind

UpdateClosesOld ==
    /\ upd.pc = "close"
    /\ open' = [open EXCEPT ![sock[upd.old]] = @ /\ ~ClosesOld]
    /\ upd' = [upd EXCEPT !.pc = "idle"]
    /\ UNCHANGED <<sock, rtp, rtcp, sessions, closing, hook, app>>

Update ==
    \/ UpdateExpires
    \/ UpdateWaits
    \/ UpdateForks
    \/ UpdateMovesReader
    \/ UpdateInstalls
    \/ UpdateClosesOld

-----------------------------------------------------------------------------
(* DialogMedia.Close *)

\* The latch, under the lock.
CloseBegins ==
    /\ closing = "open" /\ Unlocked
    /\ closing' = "hook"
    /\ UNCHANGED <<sockets, sessions, upd, hook, app>>

\* The hook of early media closes the session it was set up with, the first
\* one, and waits for nothing.
CloseRunsHook ==
    /\ closing = "hook"
    /\ mon' = [mon EXCEPT ![1] = IF hook THEN Signalled(@) ELSE @]
    /\ IF hook THEN Expire(1) ELSE UNCHANGED rtcp
    /\ closing' = "signal"
    /\ UNCHANGED <<sock, open, rtp, recorded, cur, reader, upd, hook, app>>

CloseSignals ==
    /\ closing = "signal"
    /\ mon' = [mon EXCEPT ![cur] = Signalled(@)]
    /\ closing' = "expire"
    /\ UNCHANGED <<sockets, recorded, cur, reader, upd, hook, app>>

CloseExpires ==
    /\ closing = "expire"
    /\ Expire(cur)
    /\ closing' = "wait"
    /\ UNCHANGED <<sock, open, rtp, sessions, upd, hook, app>>

CloseWaits ==
    /\ closing = "wait"
    /\ MonitorsDone(cur)
    /\ closing' = "sockets"
    /\ UNCHANGED <<sockets, sessions, upd, hook, app>>

CloseSockets ==
    /\ closing = "sockets"
    /\ open' = [open EXCEPT ![sock[cur]] = FALSE]
    /\ closing' = "done"
    /\ UNCHANGED <<sock, rtp, rtcp, sessions, upd, hook, app>>

Close ==
    \/ CloseRunsHook
    \/ CloseSignals
    \/ CloseExpires
    \/ CloseWaits
    \/ CloseSockets

-----------------------------------------------------------------------------
(* The application's read. *)

\* setRTPDeadline on the session in place records d and sets it on the socket,
\* which fails when the socket is closed.
setRTPDeadline(d) ==
    /\ Unlocked
    /\ recorded' = [recorded EXCEPT ![cur] = d]
    /\ rtp' = [rtp EXCEPT ![sock[cur]] = IF open[sock[cur]] THEN d ELSE @]

\* Listen calls that are bounded by a duration set their deadline first.
Timed(k) == k \in {"until", "dtmf"}

\* A Listen call starts, and its first Read takes the reader in place.
ListenBegins ==
    /\ listen.pc = "idle" /\ listen.calls < MaxListens
    /\ \E k \in Kinds :
         /\ IF Timed(k)
            THEN setRTPDeadline("ahead")
            ELSE UNCHANGED <<rtp, recorded>>
         /\ IF Timed(k) /\ ~open[sock[cur]]
            THEN listen' = [listen EXCEPT !.calls = @ + 1]
            ELSE listen' = [pc |-> "reading", kind |-> k, at |-> reader,
                            err |-> "none", calls |-> listen.calls + 1]
         /\ stopper' = IF Timed(k) THEN "off" ELSE "armed"
    /\ UNCHANGED <<sock, open, rtcp, mon, cur, reader, upd, closing, hook>>

\* A packet arrives: Listen reads on, and DTMFReader clears its deadline first.
ReadReturns ==
    /\ listen.pc = "reading"
    /\ open[sock[listen.at]] /\ rtp[sock[listen.at]] # "past"
    /\ listen' = IF listen.kind = "dtmf" THEN [listen EXCEPT !.pc = "clear"]
                                         ELSE [listen EXCEPT !.at = reader]
    /\ UNCHANGED <<sockets, sessions, upd, closing, hook, stopper>>

\* The read fails on the socket it waits on.
ReadErrs ==
    /\ listen.pc = "reading"
    /\ LET s == sock[listen.at] IN
         /\ ~open[s] \/ rtp[s] = "past"
         /\ listen' = [listen EXCEPT !.pc = "erred",
                                     !.err = IF open[s] THEN "timeout" ELSE "closed"]
    /\ UNCHANGED <<sockets, sessions, upd, closing, hook, stopper>>

\* RTPPacketReader.Read goes on when the reader was replaced meanwhile.
Retries == reader # listen.at

ReadRetries ==
    /\ listen.pc = "erred"
    /\ listen' = IF Retries THEN [listen EXCEPT !.pc = "reading", !.at = reader,
                                                !.err = "none"]
                            ELSE [listen EXCEPT !.pc = "ended"]
    /\ UNCHANGED <<sockets, sessions, upd, closing, hook, stopper>>

\* DTMFReader.readDeadline clears the deadline of the read that returned.  Listen
\* then sets the next one and reads on.
ReadDeadlineClears ==
    /\ listen.pc = "clear"
    /\ setRTPDeadline("none")
    /\ listen' = [listen EXCEPT !.pc = "idle"]
    /\ UNCHANGED <<sock, open, rtcp, mon, cur, reader, upd, closing, hook, stopper>>

\* ListenUntil and DTMFReader.Listen clear the deadline and return.
TimedReturns ==
    /\ listen.pc = "ended" /\ Timed(listen.kind)
    /\ setRTPDeadline("none")
    /\ listen' = [listen EXCEPT !.pc = "idle"]
    /\ UNCHANGED <<sock, open, rtcp, mon, cur, reader, upd, closing, hook, stopper>>

\* ListenContext ends with its context alive: the AfterFunc is withdrawn.
ContextReturns ==
    /\ listen.pc = "ended" /\ listen.kind = "context" /\ stopper = "armed"
    /\ stopper' = "off"
    /\ listen' = [listen EXCEPT !.pc = "idle"]
    /\ UNCHANGED <<sockets, sessions, upd, closing, hook>>

\* The AfterFunc runs, or has run: ListenContext waits for its StopRTP before it
\* clears the deadline.  The stop of ListenBackground sets the deadline, waits
\* for the goroutine and clears it, in that order.
HasStopped == stopper = "sent"

StoppedReturns ==
    /\ listen.pc = "ended" /\ HasStopped
    /\ setRTPDeadline("none")
    /\ listen' = [listen EXCEPT !.pc = "idle"]
    /\ UNCHANGED <<sock, open, rtcp, mon, cur, reader, upd, closing, hook, stopper>>

\* The stop of ListenBackground returns at once when the deadline can not be set.
StopFailed ==
    /\ listen.pc = "ended" /\ stopper = "failed"
    /\ listen' = [listen EXCEPT !.pc = "idle"]
    /\ UNCHANGED <<sockets, sessions, upd, closing, hook, stopper>>

\* The context is cancelled, or the application calls stop.
Cancel ==
    /\ stopper = "armed"
    /\ stopper' = "running"
    /\ UNCHANGED <<sockets, sessions, upd, closing, hook, listen>>

\* StopRTP(1, 0): the deadline has passed as it is set.
StopRTP ==
    /\ stopper = "running"
    /\ setRTPDeadline("past")
    /\ stopper' = IF listen.kind = "background" /\ ~open[sock[cur]] THEN "failed" ELSE "sent"
    /\ UNCHANGED <<sock, open, rtcp, mon, cur, reader, upd, closing, hook, listen>>

Listen ==
    \/ ReadErrs
    \/ ReadRetries
    \/ ReadDeadlineClears
    \/ TimedReturns
    \/ ContextReturns
    \/ StoppedReturns
    \/ StopFailed

\* The deadlines ahead pass, all of them: one Listen call sets one.
TimePasses ==
    /\ \E s \in Sessions : rtp[s] = "ahead" \/ recorded[s] = "ahead"
    /\ LET Passed(d) == IF d = "ahead" THEN "past" ELSE d IN
         /\ rtp' = [s \in Sessions |-> Passed(rtp[s])]
         /\ recorded' = [s \in Sessions |-> Passed(recorded[s])]
    /\ UNCHANGED <<sock, open, rtcp, mon, cur, reader, upd, closing, hook, app>>

-----------------------------------------------------------------------------
Next ==
    \/ \E s \in Sessions : Monitor(s) \/ TickRTCP(s)
    \/ UpdateBegins
    \/ Update
    \/ CloseBegins
    \/ Close
    \/ ListenBegins
    \/ ReadReturns
    \/ Listen
    \/ Cancel
    \/ StopRTP
    \/ TimePasses

\* Goroutines that can run do, and time passes.  The application and the peer
\* owe nothing: no update, Close, Listen or cancellation has to come, and no
\* packet.  One condition is enough for the steps of which there are finitely
\* many; a monitor writes reports without end.
Fairness ==
    /\ \A s \in Sessions : WF_vars(Monitor(s))
    /\ WF_vars(Update \/ Close \/ Listen \/ StopRTP \/ TimePasses)

Spec == Init /\ [][Next]_vars
FairSpec == Spec /\ Fairness

-----------------------------------------------------------------------------
(* Properties *)

\* Between updates the dialog's session, and no other, is monitored: stopping
\* the monitor of the replaced session, over the RTCP socket the two may share,
\* neither ends the new monitor nor leaves a goroutine of the old one behind.
CurrentMonitored ==
    Unlocked /\ ~closed =>
        /\ mon[cur].rd \in {"starting", "reading"}
        /\ mon[cur].wr \in {"waiting", "writing"}
        /\ \A s \in Sessions \ {cur} : MonitorsDone(s)

\* Reads and updates do not harm each other.  A read survives every update: it
\* fails with a closed socket only when the dialog's media is closed, and after an
\* update it does not wait on a socket the peer no longer sends to.  And a Listen
\* call that has returned leaves no deadline behind, whatever replaced the session
\* and whenever its context was cancelled: the next read would fail at once
\* (RTPPacketReader.Read, UpdateReader, ListenContext, CarryRTPDeadlines).
ReadFollows ==
    /\ listen.pc = "ended" /\ listen.err = "closed" => closed
    /\ Unlocked /\ ~closed /\ listen.pc = "reading" =>
           sock[listen.at] = sock[cur] \/ ~open[sock[listen.at]]
    /\ Unlocked /\ ~closed /\ listen.pc = "idle" =>
           recorded[cur] = "none" /\ rtp[sock[cur]] = "none"

\* A Listen call that is told to stop returns: a deadline set before, during or
\* after an update reaches the socket the read has moved to.
ListenEnds ==
    (listen.pc # "idle" /\ (Timed(listen.kind) \/ stopper \in {"running", "sent", "failed"}))
        ~> listen.pc = "idle"

\* An update and a Close that wait for the monitor's goroutines get through: no
\* goroutine that starts late clears the deadline that is to end it.
MonitorCloseReturns ==
    (upd.pc # "idle" \/ closing \notin {"open", "done"})
        ~> (upd.pc = "idle" /\ closing \in {"open", "done"})
=============================================================================
