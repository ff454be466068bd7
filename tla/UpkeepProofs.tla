---------------------------- MODULE UpkeepProofs ----------------------------
(***************************************************************************)
(* Proofs about RTPSession, for any number of media updates and of Listen  *)
(* calls: the session in use and no other is monitored, and reads and      *)
(* updates leave each other alone.                                         *)
(*                                                                         *)
(* And about SessionTimer, for every policy, interval, lag and age bound:  *)
(* the two sides of a call agree on its session, and run loses no change   *)
(* of it.  The sides agree because a 2xx in flight says, read in the       *)
(* peer's role, what our state is or is about to become; the snapshot      *)
(* relation is inductive with the types.                                   *)
(***************************************************************************)
EXTENDS MCUpkeep, TLAPS

-----------------------------------------------------------------------------
(* RTPSession: the inductive invariant *)

\* The fork of an update has a monitor of its own.
Forked == upd.pc \in {"reader", "install", "close"}

\* The latest session that was given a monitor.
Newest == IF Forked THEN upd.new ELSE cur

\* The sessions form a chain: an update leads from the one in use to the next.
\* The reader is on the session in use or on the one that is to replace it.
Chain ==
    /\ Session!Unlocked \/ closing = "open"
    /\ ~Session!Unlocked => upd.new = upd.old + 1
    /\ upd.pc \in {"expire", "wait", "fork", "reader", "install"} => cur = upd.old
    /\ upd.pc = "close" => cur = upd.new
    /\ reader = IF upd.pc = "reader" THEN upd.old ELSE Newest

\* A session runs on its own sockets or those of an earlier one, only the sockets of
\* the session in use and of its replacement are open, and the latter are.
Sockets ==
    /\ \A s \in Session!Sessions : sock[s] <= s
    /\ Forked => sock[upd.new] = IF upd.rebind THEN upd.new ELSE sock[upd.old]
    /\ closing # "done" => open[sock[Newest]] /\ open[sock[cur]]
    /\ closing = "open" =>
           \A k \in Session!Sessions :
               open[k] => k = sock[Newest] \/ (Forked /\ k = sock[upd.old])

Live(s) ==
    /\ mon[s].rd \in {"starting", "reading"} /\ mon[s].wr \in {"waiting", "writing"}
    /\ ~mon[s].closed
    /\ ~rtcp[sock[s]].read /\ ~rtcp[sock[s]].write

\* The monitor of the newest session lives, on sockets without a deadline, until an
\* update or Close ends it; all others are done.
Monitors ==
    /\ \A s \in Session!Sessions : s # Newest => Session!MonitorsDone(s)
    /\ \A s \in Session!Sessions : s > Newest => mon[s].rd = "off" /\ mon[s].wr = "off"
    /\ upd.pc = "fork" => Session!MonitorsDone(cur)
    /\ closing = "open" /\ upd.pc \notin {"expire", "wait", "fork"} => Live(Newest)

\* While the media is up, the deadline recorded is the one on the socket, and only a
\* Listen call that has set it or was stopped by it has one.
Deadlined ==
    /\ stopper \in {"armed", "running"} =>
           /\ listen.kind \in {"context", "background"}
           /\ listen.pc \in {"reading", "erred", "ended"}
    /\ listen.pc = "clear" => listen.kind = "dtmf"
    /\ closing = "open" =>
           /\ stopper # "failed"
           /\ recorded[cur] = rtp[sock[cur]]
           /\ listen.pc = "idle" \/ stopper \in {"armed", "running"} => recorded[cur] = "none"

\* A read is on the reader's session or on an earlier one, and on an earlier one if
\* it failed with a closed socket while the media is up.
Reading ==
    /\ listen.at <= reader
    /\ closing = "open" /\ listen.pc \in {"erred", "ended"} /\ listen.err = "closed" =>
           listen.pc = "erred" /\ listen.at < reader

SessionIInv == Session!TypeOK /\ Chain /\ Sockets /\ Monitors /\ Deadlined /\ Reading

\* Sessions are numbered from 1, and an update leads to the next number.
LEMMA SessionFacts ==
  /\ 1 \in Session!Sessions
  /\ \A s \in Session!Sessions : s \in Nat /\ s >= 1
  /\ \A s \in Session!Sessions : s <= MaxUpdates => s + 1 \in Session!Sessions
  BY BoundsAssumption DEF Session!Sessions

USE DEF Session!Deadlines, Session!Kinds

-----------------------------------------------------------------------------
(* Types, and what a step leaves alone *)

\* Every step keeps the types of the state.
LEMMA TypesKept ==
  ASSUME Session!TypeOK, Session!Next PROVE Session!TypeOK'
<1> USE DEF Session!TypeOK, Session!sockets, Session!sessions, Session!app
<1>1. ASSUME NEW s \in Session!Sessions, Session!ReadRTCPStarts(s) PROVE Session!TypeOK'
  <2>1. mon' \in [Session!Sessions -> Session!MonitorStates]
    BY <1>1, Zenon DEF Session!ReadRTCPStarts, Session!MonitorStates
  <2>2. \E c \in BOOLEAN : rtcp' = [rtcp EXCEPT ![sock[s]].read = c]
    <3>1. sock[s] \in Session!Sessions /\ rtcp[sock[s]].read \in BOOLEAN
      BY DEF Session!Passings
    <3> QED BY <1>1, <3>1, Zenon DEF Session!ReadRTCPStarts, Session!ClearsLate
  <2>3. rtcp' \in [Session!Sessions -> Session!Passings]
    BY <2>2 DEF Session!Passings
  <2> QED BY <1>1, <2>1, <2>3 DEF Session!ReadRTCPStarts
<1>2. ASSUME NEW s \in Session!Sessions, Session!ReadRTCPFails(s) PROVE Session!TypeOK'
  BY <1>2, Zenon DEF Session!ReadRTCPFails, Session!MonitorStates
<1>3. ASSUME NEW s \in Session!Sessions, Session!WriteRTCP(s) PROVE Session!TypeOK'
  BY <1>3 DEF Session!WriteRTCP, Session!MonitorStates
<1>4. ASSUME NEW s \in Session!Sessions, Session!WriterCloses(s) PROVE Session!TypeOK'
  BY <1>4, Zenon DEF Session!WriterCloses, Session!MonitorStates
<1>5. ASSUME NEW s \in Session!Sessions, Session!TickRTCP(s) PROVE Session!TypeOK'
  BY <1>5, ZenonT(60) DEF Session!TickRTCP, Session!MonitorStates
<1>6. CASE Session!UpdateBegins
  <2>1. mon' \in [Session!Sessions -> Session!MonitorStates]
    BY <1>6, ZenonT(60) DEF Session!UpdateBegins, Session!Signalled, Session!MonitorStates
  <2>2. upd' \in Session!UpdateStates
    BY <1>6, SessionFacts DEF Session!UpdateBegins, Session!UpdateStates
  <2> QED BY <1>6, <2>1, <2>2 DEF Session!UpdateBegins
<1>7. CASE Session!UpdateExpires
  BY <1>7 DEF Session!UpdateExpires, Session!Expire, Session!Expired, Session!Passings,
     Session!UpdateStates
<1>8. CASE Session!UpdateWaits
  BY <1>8 DEF Session!UpdateWaits, Session!UpdateStates
<1>9. CASE Session!UpdateForks
  BY <1>9, Zenon DEF Session!UpdateForks, Session!startMonitor, Session!Cleared,
     Session!MonitorStates, Session!Passings, Session!UpdateStates
<1>10. CASE Session!UpdateMovesReader
  BY <1>10 DEF Session!UpdateMovesReader, Session!UpdateStates
<1>11. CASE Session!UpdateInstalls
  BY <1>11 DEF Session!UpdateInstalls, Session!Carried, Session!UpdateStates
<1>12. CASE Session!UpdateClosesOld
  BY <1>12 DEF Session!UpdateClosesOld, Session!ClosesOld, Session!UpdateStates
<1>13. CASE Session!CloseBegins
  BY <1>13 DEF Session!CloseBegins
<1>14. CASE Session!CloseRunsHook
  <2>1. mon' \in [Session!Sessions -> Session!MonitorStates]
    BY <1>14, SessionFacts, ZenonT(60) DEF Session!CloseRunsHook, Session!Signalled,
       Session!MonitorStates
  <2>2. rtcp' \in [Session!Sessions -> Session!Passings]
    <3>1. CASE hook
      <4>1. Session!Expire(1)
        BY <1>14, <3>1 DEF Session!CloseRunsHook
      <4> QED BY <4>1, SessionFacts DEF Session!Expire, Session!Expired, Session!Passings
    <3>2. CASE ~hook
      BY <1>14, <3>2 DEF Session!CloseRunsHook
    <3> QED BY <3>1, <3>2
  <2> QED BY <1>14, <2>1, <2>2 DEF Session!CloseRunsHook
<1>15. CASE Session!CloseSignals
  BY <1>15, ZenonT(60) DEF Session!CloseSignals, Session!Signalled, Session!MonitorStates
<1>16. CASE Session!CloseExpires
  BY <1>16 DEF Session!CloseExpires, Session!Expire, Session!Expired, Session!Passings
<1>17. CASE Session!CloseWaits
  BY <1>17 DEF Session!CloseWaits
<1>18. CASE Session!CloseSockets
  BY <1>18 DEF Session!CloseSockets
<1>19. CASE Session!ListenBegins
  <2>1. /\ rtp' \in [Session!Sessions -> Session!Deadlines]
        /\ recorded' \in [Session!Sessions -> Session!Deadlines]
    BY <1>19 DEF Session!ListenBegins, Session!setRTPDeadline
  <2>2. listen.calls + 1 \in 0 .. MaxListens
    BY <1>19, BoundsAssumption DEF Session!ListenBegins, Session!ListenStates
  <2>3. listen' \in Session!ListenStates
    BY <1>19, <2>2 DEF Session!ListenBegins, Session!ListenStates
  <2> QED BY <1>19, <2>1, <2>3 DEF Session!ListenBegins
<1>20. CASE Session!ReadReturns
  BY <1>20 DEF Session!ReadReturns, Session!ListenStates
<1>21. CASE Session!ReadErrs
  BY <1>21, Zenon DEF Session!ReadErrs, Session!ListenStates
<1>22. CASE Session!ReadRetries
  BY <1>22, Zenon DEF Session!ReadRetries, Session!ListenStates
<1>23. CASE Session!ReadDeadlineClears
  BY <1>23 DEF Session!ReadDeadlineClears, Session!setRTPDeadline, Session!ListenStates
<1>24. CASE Session!TimedReturns
  BY <1>24 DEF Session!TimedReturns, Session!setRTPDeadline, Session!ListenStates
<1>25. CASE Session!ContextReturns
  BY <1>25 DEF Session!ContextReturns, Session!ListenStates
<1>26. CASE Session!StoppedReturns
  BY <1>26 DEF Session!StoppedReturns, Session!setRTPDeadline, Session!ListenStates
<1>27. CASE Session!StopFailed
  BY <1>27 DEF Session!StopFailed, Session!ListenStates
<1>28. CASE Session!Cancel
  BY <1>28 DEF Session!Cancel
<1>29. CASE Session!StopRTP
  BY <1>29 DEF Session!StopRTP, Session!setRTPDeadline
<1>30. CASE Session!TimePasses
  BY <1>30 DEF Session!TimePasses
<1> QED
  BY <1>1, <1>2, <1>3, <1>4, <1>5, <1>6, <1>7, <1>8, <1>9, <1>10, <1>11, <1>12, <1>13,
     <1>14, <1>15, <1>16, <1>17, <1>18, <1>19, <1>20, <1>21, <1>22, <1>23, <1>24, <1>25,
     <1>26, <1>27, <1>28, <1>29, <1>30, ZenonT(60)
     DEF Session!Next, Session!Monitor, Session!Update, Session!Close, Session!Listen

\* The session the call was set up with is monitored and nothing listens.
LEMMA InitInv == Session!Init => SessionIInv
<1> SUFFICES ASSUME Session!Init PROVE SessionIInv
  OBVIOUS
<1> USE SessionFacts DEF Session!Init
<1>1. Session!TypeOK
  BY BoundsAssumption DEF Session!TypeOK, Session!MonitorStates, Session!Passings,
     Session!UpdateStates, Session!ListenStates,
     Session!Idle
<1>2. Newest = 1 /\ cur = 1 /\ ~Forked /\ Session!Unlocked
  BY DEF Newest, Forked, Session!Unlocked
<1>3. Chain
  BY <1>2 DEF Chain
<1>6. \A s \in Session!Sessions : sock[s] = s /\ (open[s] <=> s = 1)
  BY Zenon
<1>7. Sockets
  BY ONLY SessionFacts, <1>2, <1>6 DEF Sockets
<1>4. Monitors
  BY <1>2 DEF Monitors, Session!MonitorsDone, Live
<1>5. Deadlined /\ Reading
  BY DEF Deadlined, Reading, Session!Idle
<1> QED BY <1>1, <1>3, <1>4, <1>5, <1>7 DEF SessionIInv

\* What a monitor does leaves the sessions, the sockets and the reads alone.
LEMMA MonitorLeaves ==
  ASSUME SessionIInv,
         UNCHANGED <<sock, open, rtp, recorded, cur, reader, upd, closing, listen, stopper>>
  PROVE Chain' /\ Sockets' /\ Deadlined' /\ Reading'
  BY DEF SessionIInv, Chain, Sockets, Deadlined, Reading, Newest, Forked, Session!Unlocked

\* What a Listen call does leaves the sessions, the sockets and the monitors alone.
LEMMA ListenLeaves ==
  ASSUME SessionIInv, UNCHANGED <<sock, open, rtcp, mon, cur, reader, upd, closing>>
  PROVE Chain' /\ Sockets' /\ Monitors'
<1>1. Newest' = Newest /\ Forked' = Forked /\ Session!Unlocked' = Session!Unlocked
  BY DEF Newest, Forked, Session!Unlocked
<1>2. Chain' /\ Sockets'
  BY <1>1 DEF SessionIInv, Chain, Sockets
<1>3. Monitors'
  BY <1>1 DEF SessionIInv, Monitors, Session!MonitorsDone, Live
<1> QED BY <1>2, <1>3

-----------------------------------------------------------------------------
(* The monitors *)

\* A step of a monitor that lives keeps it alive, and one that is done stays so.
LEMMA MonitorInv ==
  ASSUME SessionIInv, Session!TypeOK', NEW s \in Session!Sessions,
         Session!Monitor(s) \/ Session!TickRTCP(s)
  PROVE  SessionIInv'
<1> USE DEF Session!sockets, Session!app
<1>1. UNCHANGED <<sock, open, rtp, recorded, cur, reader, upd, closing, listen, stopper>>
  BY DEF Session!Monitor, Session!ReadRTCPStarts, Session!ReadRTCPFails, Session!WriteRTCP,
     Session!WriterCloses, Session!TickRTCP
<1>2. /\ mon \in [Session!Sessions -> Session!MonitorStates]
      /\ rtcp \in [Session!Sessions -> Session!Passings]
      /\ sock[s] \in Session!Sessions
  BY DEF SessionIInv, Session!TypeOK
<1> DEFINE Stays(m, n) == /\ n.closed = m.closed
                          /\ m.rd \in {"off", "done"} => n.rd = m.rd
                          /\ m.wr \in {"off", "done"} => n.wr = m.wr
           Clears == \A t \in Session!Sessions :
                         /\ ~rtcp[t].read => ~rtcp'[t].read
                         /\ ~rtcp[t].write => ~rtcp'[t].write
           Step == /\ \A t \in Session!Sessions : t # s => mon'[t] = mon[t]
                   /\ Stays(mon[s], mon'[s])
                   /\ Clears
                   /\ Live(s) /\ open[sock[s]] => Live(s)'
<1>3. ASSUME Session!ReadRTCPStarts(s) PROVE Step
  <2>1. /\ \A t \in Session!Sessions : t # s => mon'[t] = mon[t]
        /\ mon'[s] = [mon[s] EXCEPT !.rd = "reading"]
    BY <1>2, <1>3 DEF Session!ReadRTCPStarts
  <2>2. Clears
    BY <1>2, <1>3 DEF Session!ReadRTCPStarts, Session!ClearsLate, Session!Passings
  <2> QED BY <1>1, <1>2, <1>3, <2>1, <2>2 DEF Session!ReadRTCPStarts, Live, Session!MonitorStates
<1>4. ASSUME Session!ReadRTCPFails(s) PROVE Step
  BY <1>1, <1>2, <1>4 DEF Session!ReadRTCPFails, Live, Session!MonitorStates
<1>5. ASSUME Session!WriteRTCP(s) PROVE Step
  BY <1>1, <1>2, <1>5 DEF Session!WriteRTCP, Live, Session!MonitorStates
<1>6. ASSUME Session!WriterCloses(s) PROVE Step
  BY <1>1, <1>2, <1>6, Zenon DEF Session!WriterCloses, Live, Session!MonitorStates
<1>7. ASSUME Session!TickRTCP(s) PROVE Step
  BY <1>1, <1>2, <1>7 DEF Session!TickRTCP, Live, Session!MonitorStates
<1>8. Step
  BY <1>3, <1>4, <1>5, <1>6, <1>7, Zenon DEF Session!Monitor
<1>9. Newest' = Newest /\ Newest \in Session!Sessions
  BY <1>1 DEF SessionIInv, Session!TypeOK, Newest, Forked, Session!UpdateStates
<1>10. ASSUME Live(Newest), open[sock[Newest]] PROVE Live(Newest)'
  <2>1. CASE Newest = s
    BY <1>8, <1>9, <1>10, <2>1, ZenonT(60)
  <2>2. CASE Newest # s
    <3>1. sock[Newest] \in Session!Sessions
      BY <1>9 DEF SessionIInv, Session!TypeOK
    <3>2. mon'[Newest] = mon[Newest]
      BY <1>8, <1>9, <2>2, Zenon
    <3>3. /\ ~rtcp[sock[Newest]].read => ~rtcp'[sock[Newest]].read
          /\ ~rtcp[sock[Newest]].write => ~rtcp'[sock[Newest]].write
      <4>1. Clears
        BY <1>8, Zenon
      <4> HIDE DEF Step
      <4> QED BY <3>1, <4>1, Zenon
    <3> HIDE DEF Step, Clears
    <3> QED BY <1>1, <1>9, <1>10, <3>1, <3>2, <3>3, ZenonT(60) DEF Live
  <2> QED BY <2>1, <2>2, SMTT(30)
<1>11. \A t \in Session!Sessions : Session!MonitorsDone(t) => Session!MonitorsDone(t)'
  BY <1>8, ZenonT(60) DEF Session!MonitorsDone
<1>12. Monitors'
  <2>1. open[sock[Newest]] \/ closing # "open"
    BY DEF SessionIInv, Sockets
  <2>2. cur \in Session!Sessions
    BY DEF SessionIInv, Session!TypeOK
  <2> HIDE DEF Step
  <2>3. \A t \in Session!Sessions : t > Newest => mon'[t].rd = "off" /\ mon'[t].wr = "off"
    BY <1>8, ZenonT(60) DEF SessionIInv, Monitors, Step
  <2> QED BY <1>1, <1>9, <1>10, <1>11, <2>1, <2>2, <2>3, ZenonT(60) DEF SessionIInv, Monitors
<1> QED BY <1>1, <1>12, MonitorLeaves DEF SessionIInv

-----------------------------------------------------------------------------
(* The reads *)

\* A Listen call, what stops it and the passing of time keep the deadlines with
\* the call, and a read behind the reader or with it.
LEMMA ListenInv ==
  ASSUME SessionIInv, Session!TypeOK',
         Session!ListenBegins \/ Session!ReadReturns \/ Session!Listen \/ Session!Cancel
         \/ Session!StopRTP \/ Session!TimePasses
  PROVE SessionIInv'
<1> USE DEF Session!sockets, Session!sessions, Session!app
<1>1. UNCHANGED <<sock, open, rtcp, mon, cur, reader, upd, closing>>
  BY DEF Session!ListenBegins, Session!ReadReturns, Session!Listen, Session!Cancel,
     Session!StopRTP, Session!TimePasses, Session!ReadErrs,
     Session!ReadRetries,
     Session!ReadDeadlineClears, Session!TimedReturns, Session!ContextReturns,
     Session!StoppedReturns, Session!StopFailed
<1>2. /\ sock \in [Session!Sessions -> Session!Sessions]
      /\ cur \in Session!Sessions
      /\ reader \in Session!Sessions
      /\ rtp \in [Session!Sessions -> Session!Deadlines]
      /\ recorded \in [Session!Sessions -> Session!Deadlines]
      /\ listen \in Session!ListenStates
  BY DEF SessionIInv, Session!TypeOK
<1>3. closing = "open" => open[sock[cur]] /\ open[sock[reader]]
  BY DEF SessionIInv, Chain, Sockets, Forked, Newest
<1>4. Deadlined /\ Reading
  BY DEF SessionIInv
<1> USE <1>1, <1>2, <1>3, <1>4, SessionFacts DEF Deadlined, Reading, Session!ListenStates
<1>5. ASSUME Session!ListenBegins PROVE Deadlined' /\ Reading'
  BY <1>5 DEF Session!ListenBegins, Session!Timed, Session!setRTPDeadline
<1>6. ASSUME Session!ReadReturns PROVE Deadlined' /\ Reading'
  BY <1>6 DEF Session!ReadReturns
<1>7. ASSUME Session!ReadErrs PROVE Deadlined' /\ Reading'
  BY <1>7 DEF Session!ReadErrs
<1>8. ASSUME Session!ReadRetries PROVE Deadlined' /\ Reading'
  BY <1>8 DEF Session!ReadRetries, Session!Retries
<1>9. ASSUME Session!ReadDeadlineClears PROVE Deadlined' /\ Reading'
  BY <1>9 DEF Session!ReadDeadlineClears, Session!setRTPDeadline
<1>10. ASSUME Session!TimedReturns PROVE Deadlined' /\ Reading'
  BY <1>10 DEF Session!TimedReturns, Session!Timed, Session!setRTPDeadline
<1>11. ASSUME Session!ContextReturns PROVE Deadlined' /\ Reading'
  BY <1>11 DEF Session!ContextReturns
<1>12. ASSUME Session!StoppedReturns PROVE Deadlined' /\ Reading'
  BY <1>12 DEF Session!StoppedReturns, Session!HasStopped, Session!setRTPDeadline
<1>13. ASSUME Session!StopFailed PROVE Deadlined' /\ Reading'
  BY <1>13, SMTT(30) DEF Session!StopFailed
<1>14. ASSUME Session!Cancel PROVE Deadlined' /\ Reading'
  BY <1>14, SMTT(30) DEF Session!Cancel
<1>15. ASSUME Session!StopRTP PROVE Deadlined' /\ Reading'
  BY <1>15, SMTT(30) DEF Session!StopRTP, Session!setRTPDeadline
<1>16. ASSUME Session!TimePasses PROVE Deadlined' /\ Reading'
  BY <1>16 DEF Session!TimePasses
<1>17. Deadlined' /\ Reading'
  BY <1>5, <1>6, <1>7, <1>8, <1>9, <1>10, <1>11, <1>12, <1>13, <1>14, <1>15, <1>16, ZenonT(60) DEF
     Session!Listen
<1> QED BY <1>1, <1>17, ListenLeaves DEF SessionIInv

-----------------------------------------------------------------------------
(* The updates *)

\* An update hands sockets, monitor, reader and deadline over to the next session.
LEMMA UpdateInv ==
  ASSUME SessionIInv, Session!TypeOK', Session!UpdateBegins \/ Session!Update PROVE SessionIInv'
<1> USE DEF Session!sockets, Session!sessions, Session!app
<1>1. /\ sock \in [Session!Sessions -> Session!Sessions] /\ open \in [Session!Sessions -> BOOLEAN]
      /\ rtp \in [Session!Sessions -> Session!Deadlines]
      /\ recorded \in [Session!Sessions -> Session!Deadlines]
      /\ mon \in [Session!Sessions -> Session!MonitorStates]
      /\ rtcp \in [Session!Sessions -> Session!Passings]
      /\ cur \in Session!Sessions /\ reader \in Session!Sessions /\ upd \in Session!UpdateStates
      /\ listen \in Session!ListenStates
  BY DEF SessionIInv, Session!TypeOK
<1>2. Chain /\ Sockets /\ Monitors /\ Deadlined /\ Reading
  BY DEF SessionIInv
<1> USE <1>1, <1>2, SessionFacts DEF Newest, Forked, Session!Unlocked, Chain, Sockets,
Session!UpdateStates
<1>3. CASE Session!UpdateBegins
  <2>1. Chain'
    BY <1>3 DEF Session!UpdateBegins, Session!closed
  <2>2. Sockets'
    BY <1>3 DEF Session!UpdateBegins, Session!Signalled
  <2>3. Monitors'
    BY <1>3 DEF Session!UpdateBegins, Session!Signalled, Monitors, Session!MonitorsDone, Live,
       Session!MonitorStates,
       Session!Passings
  <2>4. Deadlined' /\ Reading'
    BY <1>3 DEF Session!UpdateBegins, Session!Signalled, Deadlined, Reading, Session!ListenStates
  <2> QED BY <2>1, <2>2, <2>3, <2>4, ZenonT(60) DEF SessionIInv
<1>4. CASE Session!UpdateExpires
  <2>1. Chain'
    BY <1>4 DEF Session!UpdateExpires, Session!Expire, Session!Expired
  <2>2. Sockets'
    BY <1>4 DEF Session!UpdateExpires, Session!Expire, Session!Expired
  <2>3. Monitors'
    BY <1>4 DEF Session!UpdateExpires, Session!Expire, Session!Expired, Monitors,
       Session!MonitorsDone, Live,
       Session!MonitorStates, Session!Passings
  <2>4. Deadlined' /\ Reading'
    BY <1>4, SMTT(30) DEF Session!UpdateExpires, Session!Expire, Session!Expired, Deadlined,
       Reading,
       Session!ListenStates
  <2> QED BY <2>1, <2>2, <2>3, <2>4, Zenon DEF SessionIInv
<1>5. CASE Session!UpdateWaits
  <2>1. Chain'
    BY <1>5 DEF Session!UpdateWaits, Session!MayFork
  <2>2. Sockets'
    BY <1>5 DEF Session!UpdateWaits, Session!MayFork
  <2>3. Monitors'
    BY <1>5 DEF Session!UpdateWaits, Session!MayFork, Monitors, Session!MonitorsDone, Live,
       Session!MonitorStates,
       Session!Passings
  <2>4. Deadlined' /\ Reading'
    BY <1>5, SMTT(30) DEF Session!UpdateWaits, Session!MayFork, Deadlined, Reading,
       Session!ListenStates
  <2> QED BY <2>1, <2>2, <2>3, <2>4 DEF SessionIInv
<1>6. CASE Session!UpdateForks
  <2>1. Chain'
    BY <1>6 DEF Session!UpdateForks, Session!startMonitor, Session!Cleared
  <2>2. Sockets'
    BY <1>6 DEF Session!UpdateForks, Session!startMonitor, Session!Cleared
  <2>3. Monitors'
    BY <1>6 DEF Session!UpdateForks, Session!startMonitor, Session!Cleared, Monitors,
       Session!MonitorsDone, Live,
       Session!MonitorStates, Session!Passings
  <2>4. Deadlined' /\ Reading'
    BY <1>6, SMTT(30) DEF Session!UpdateForks, Session!startMonitor, Session!Cleared, Deadlined,
       Reading,
       Session!ListenStates
  <2> QED BY <2>1, <2>2, <2>3, <2>4, ZenonT(60) DEF SessionIInv
<1>7. CASE Session!UpdateMovesReader
  <2>1. Chain'
    BY <1>7 DEF Session!UpdateMovesReader
  <2>2. Sockets'
    BY <1>7 DEF Session!UpdateMovesReader
  <2>3. Monitors'
    BY <1>7 DEF Session!UpdateMovesReader, Monitors, Session!MonitorsDone, Live,
       Session!MonitorStates, Session!Passings
  <2>4. Deadlined' /\ Reading'
    BY <1>7, SMTT(30) DEF Session!UpdateMovesReader, Deadlined, Reading, Session!ListenStates
  <2> QED BY <2>1, <2>2, <2>3, <2>4, ZenonT(60) DEF SessionIInv
<1>8. CASE Session!UpdateInstalls
  <2>1. Chain'
    BY <1>8 DEF Session!UpdateInstalls, Session!Carried
  <2>2. Sockets'
    BY <1>8 DEF Session!UpdateInstalls, Session!Carried
  <2>3. Monitors'
    BY <1>8 DEF Session!UpdateInstalls, Session!Carried, Monitors, Session!MonitorsDone, Live,
       Session!MonitorStates,
       Session!Passings
  <2>4. Deadlined' /\ Reading'
    BY <1>8, SMTT(30) DEF Session!UpdateInstalls, Session!Carried, Deadlined, Reading,
       Session!ListenStates
  <2> QED BY <2>1, <2>2, <2>3, <2>4, ZenonT(60) DEF SessionIInv
<1>9. CASE Session!UpdateClosesOld
  <2>1. Chain'
    BY <1>9, SMTT(30) DEF Session!UpdateClosesOld, Session!ClosesOld
  <2>2. Sockets'
    <3>1. CASE upd.rebind
      <4>1. sock[upd.old] # sock[upd.new]
        BY <1>9, <3>1 DEF Session!UpdateClosesOld
      <4>2. \A k \in Session!Sessions : open'[k] <=> open[k] /\ k # sock[upd.old]
        BY <1>9, <3>1, Zenon DEF Session!UpdateClosesOld, Session!ClosesOld
      <4> QED BY <1>9, <4>1, <4>2 DEF Session!UpdateClosesOld
    <3>2. CASE ~upd.rebind
      <4>1. open' = open
        BY <1>9, <3>2 DEF Session!UpdateClosesOld, Session!ClosesOld
      <4> QED BY <1>9, <3>2, <4>1 DEF Session!UpdateClosesOld
    <3> QED BY <3>1, <3>2
  <2>3. Monitors'
    BY <1>9 DEF Session!UpdateClosesOld, Session!ClosesOld, Monitors, Session!MonitorsDone,
       Live, Session!MonitorStates,
       Session!Passings
  <2>4. Deadlined' /\ Reading'
    BY <1>9, SMTT(30) DEF Session!UpdateClosesOld, Session!ClosesOld, Deadlined, Reading,
       Session!ListenStates
  <2> QED BY <2>1, <2>2, <2>3, <2>4, ZenonT(60) DEF SessionIInv
<1> QED BY <1>3, <1>4, <1>5, <1>6, <1>7, <1>8, <1>9 DEF Session!Update

-----------------------------------------------------------------------------
(* Close *)

\* Close comes between updates and keeps the sockets open until the monitor is done.
LEMMA CloseInv ==
  ASSUME SessionIInv, Session!TypeOK', Session!CloseBegins \/ Session!Close PROVE SessionIInv'
<1> USE DEF Session!sockets, Session!sessions, Session!app
<1>1. /\ sock \in [Session!Sessions -> Session!Sessions] /\ open \in [Session!Sessions -> BOOLEAN]
      /\ rtp \in [Session!Sessions -> Session!Deadlines]
      /\ recorded \in [Session!Sessions -> Session!Deadlines]
      /\ mon \in [Session!Sessions -> Session!MonitorStates]
      /\ rtcp \in [Session!Sessions -> Session!Passings]
      /\ cur \in Session!Sessions /\ reader \in Session!Sessions /\ upd \in Session!UpdateStates
      /\ listen \in Session!ListenStates
  BY DEF SessionIInv, Session!TypeOK
<1>2. Chain /\ Sockets /\ Monitors /\ Deadlined /\ Reading
  BY DEF SessionIInv
<1> USE <1>1, <1>2, SessionFacts DEF Newest, Forked, Session!Unlocked, Chain, Sockets,
Session!UpdateStates
<1>3. CASE Session!CloseBegins
  <2>1. Chain'
    BY <1>3, SMTT(30) DEF Session!CloseBegins
  <2>2. Sockets'
    BY <1>3, SMTT(30) DEF Session!CloseBegins
  <2>3. Monitors'
    BY <1>3, ZenonT(60) DEF Session!CloseBegins, Monitors, Session!MonitorsDone, Live,
       Session!MonitorStates, Session!Passings
  <2>4. Deadlined' /\ Reading'
    BY <1>3 DEF Session!CloseBegins, Deadlined, Reading, Session!ListenStates
  <2> QED BY <2>1, <2>2, <2>3, <2>4, ZenonT(60) DEF SessionIInv
<1>4. CASE Session!CloseRunsHook
  <2>1. Chain'
    BY <1>4 DEF Session!CloseRunsHook, Session!Signalled, Session!Expire, Session!Expired
  <2>2. Sockets'
    BY <1>4 DEF Session!CloseRunsHook, Session!Signalled, Session!Expire, Session!Expired
  <2>3. Monitors'
    BY <1>4 DEF Session!CloseRunsHook, Session!Signalled, Session!Expire, Session!Expired,
       Monitors, Session!MonitorsDone, Live,
       Session!MonitorStates, Session!Passings
  <2>4. Deadlined' /\ Reading'
    BY <1>4 DEF Session!CloseRunsHook, Session!Signalled, Session!Expire, Session!Expired,
       Deadlined, Reading,
       Session!ListenStates
  <2> QED BY <2>1, <2>2, <2>3, <2>4, Zenon DEF SessionIInv
<1>5. CASE Session!CloseSignals
  <2>1. Chain'
    BY <1>5 DEF Session!CloseSignals, Session!Signalled
  <2>2. Sockets'
    BY <1>5 DEF Session!CloseSignals, Session!Signalled
  <2>3. Monitors'
    BY <1>5 DEF Session!CloseSignals, Session!Signalled, Monitors, Session!MonitorsDone, Live,
       Session!MonitorStates,
       Session!Passings
  <2>4. Deadlined' /\ Reading'
    BY <1>5 DEF Session!CloseSignals, Session!Signalled, Deadlined, Reading, Session!ListenStates
  <2> QED BY <2>1, <2>2, <2>3, <2>4, Zenon DEF SessionIInv
<1>6. CASE Session!CloseExpires
  <2>1. Chain'
    BY <1>6, SMTT(30) DEF Session!CloseExpires, Session!Expire, Session!Expired
  <2>2. Sockets'
    BY <1>6 DEF Session!CloseExpires, Session!Expire, Session!Expired
  <2>3. Monitors'
    BY <1>6, Zenon DEF Session!CloseExpires, Session!Expire, Session!Expired, Monitors,
       Session!MonitorsDone, Live,
       Session!MonitorStates, Session!Passings
  <2>4. Deadlined' /\ Reading'
    BY <1>6, Zenon DEF Session!CloseExpires, Session!Expire, Session!Expired, Deadlined, Reading,
       Session!ListenStates
  <2> QED BY <2>1, <2>2, <2>3, <2>4, ZenonT(60) DEF SessionIInv
<1>7. CASE Session!CloseWaits
  <2>1. Chain'
    BY <1>7, SMTT(30) DEF Session!CloseWaits
  <2>2. Sockets'
    BY <1>7, SMTT(30) DEF Session!CloseWaits
  <2>3. Monitors'
    BY <1>7, SMTT(30) DEF Session!CloseWaits, Monitors, Session!MonitorsDone, Live,
       Session!MonitorStates,
       Session!Passings
  <2>4. Deadlined' /\ Reading'
    BY <1>7 DEF Session!CloseWaits, Deadlined, Reading, Session!ListenStates
  <2> QED BY <2>1, <2>2, <2>3, <2>4, ZenonT(60) DEF SessionIInv
<1>8. CASE Session!CloseSockets
  <2>1. Chain'
    BY <1>8 DEF Session!CloseSockets
  <2>2. Sockets'
    BY <1>8, SMTT(30) DEF Session!CloseSockets
  <2>3. Monitors'
    BY <1>8, SMTT(30) DEF Session!CloseSockets, Monitors, Session!MonitorsDone, Live,
       Session!MonitorStates, Session!Passings
  <2>4. Deadlined' /\ Reading'
    BY <1>8 DEF Session!CloseSockets, Deadlined, Reading, Session!ListenStates
  <2> QED BY <2>1, <2>2, <2>3, <2>4, ZenonT(60) DEF SessionIInv
<1> QED BY <1>3, <1>4, <1>5, <1>6, <1>7, <1>8 DEF Session!Close

-----------------------------------------------------------------------------
(* The theorems *)

\* Every step of the updates, the monitors, the reads and Close keeps the invariant.
THEOREM SessionInvariant == Session!Spec => []SessionIInv
<1>1. SessionIInv /\ [Session!Next]_(Session!vars) => SessionIInv'
  <2> SUFFICES ASSUME SessionIInv, [Session!Next]_(Session!vars) PROVE SessionIInv'
    OBVIOUS
  <2>1. CASE UNCHANGED Session!vars
    <3>1. Session!TypeOK'
      BY <2>1 DEF SessionIInv, Session!TypeOK, Session!vars, Session!sockets, Session!sessions,
         Session!app
    <3>2. Chain' /\ Sockets' /\ Deadlined' /\ Reading'
      BY <2>1, MonitorLeaves DEF Session!vars, Session!sockets, Session!sessions, Session!app
    <3>3. Monitors'
      BY <2>1, ListenLeaves DEF Session!vars, Session!sockets, Session!sessions, Session!app
    <3> QED BY <3>1, <3>2, <3>3 DEF SessionIInv
  <2>2. CASE Session!Next
    <3>1. Session!TypeOK'
      BY <2>2, TypesKept DEF SessionIInv
    <3>2. CASE \E s \in Session!Sessions : Session!Monitor(s) \/ Session!TickRTCP(s)
      BY <3>1, <3>2, MonitorInv, Zenon
    <3>3. CASE Session!UpdateBegins \/ Session!Update
      BY <3>1, <3>3, UpdateInv, Zenon
    <3>4. CASE Session!CloseBegins \/ Session!Close
      BY <3>1, <3>4, CloseInv, Zenon
    <3>5. CASE \/ Session!ListenBegins \/ Session!ReadReturns \/ Session!Listen
               \/ Session!Cancel \/ Session!StopRTP \/ Session!TimePasses
      BY <3>1, <3>5, ListenInv, Zenon
    <3> QED BY <2>2, <3>2, <3>3, <3>4, <3>5, Zenon DEF Session!Next
  <2> QED BY <2>1, <2>2
<1> QED BY InitInv, <1>1, PTL DEF Session!Spec

\* However often the media is updated, between updates the session in use is
\* monitored and no other: the RTCP deadline that ends the old monitor never
\* reaches the new one on the same socket (replaceRTPSessionUnsafe, Monitor,
\* MonitorClose).
THEOREM AlwaysMonitored == Session!Spec => []CurrentMonitored
<1>1. SessionIInv => CurrentMonitored
  BY DEF SessionIInv, Monitors, CurrentMonitored, Session!CurrentMonitored, Newest, Forked,
     Session!Unlocked,
     Live, Session!closed
<1> QED BY <1>1, SessionInvariant, PTL

\* However often the media is updated and listened to, a read survives every
\* update and a Listen call leaves no deadline behind (RTPPacketReader.Read,
\* ListenContext, CarryRTPDeadlines).
THEOREM ReadsFollow == Session!Spec => []ReadFollows
<1>1. SessionIInv => ReadFollows
  <2> SUFFICES ASSUME SessionIInv PROVE ReadFollows
    OBVIOUS
  <2>1. sock \in [Session!Sessions -> Session!Sessions] /\ listen \in Session!ListenStates
    BY DEF SessionIInv, Session!TypeOK
  <2> QED BY <2>1 DEF SessionIInv, Sockets, Deadlined, Reading, ReadFollows,
     Session!ReadFollows, Newest,
             Forked, Session!Unlocked,
     Session!closed, Session!ListenStates
<1> QED BY <1>1, SessionInvariant, PTL

-----------------------------------------------------------------------------
(* SessionTimer: the inductive invariant, and the helpers of the model *)

\* The state after a 2xx with Session-Expires se and refresher r to a re-INVITE
\* that named us the refresher or not (answered).
Result(s, se, r, weRefresh) ==
    IF ~s.active THEN s
    ELSE IF se = Absent THEN [s EXCEPT !.active = FALSE]
    ELSE [s EXCEPT !.expires = se, !.weRefresh = AnsweredRefresher(r, weRefresh)]

\* Our re-INVITE asks for a timer when we have one, and its token and what
\* reInviteMediaOnce keeps of it name the same refresher.
Asks(s, n) ==
    /\ n.se # Absent <=> s.active
    /\ s.active => n.refresher = IF n.weRefresh THEN "uac" ELSE "uas"

\* A 2xx of ours in flight tells the peer our state; one of the peer's tells us the
\* session the peer holds.
Exchange ==
    /\ ours # "nobody" => reply.dir # "out" /\ Asks(state, named)
    /\ reply.dir = "out" => Agree(state, PeerHears(reply))
    /\ reply.dir = "in" =>
          /\ ours # "nobody"
          /\ Agree(Result(state, reply.se, reply.refresher, named.weRefresh), peer)
    /\ pc = "sent" => ours = "run"
    /\ pc = "none" => ours = "nobody" /\ reply.dir = "none"
    /\ SidesAgree

IInv == TypeOK /\ Exchange /\ NoLostChange

\* An offer's fields have their types (parseSessionTimerOffer).
LEMMA OfferType ==
    ASSUME NEW ses \in SUBSET Nat, NEW o \in Offers(ses)
    PROVE  /\ o.se \in Nat \cup {Absent} /\ o.minSE \in Nat \cup {Absent}
           /\ o.refresher \in Refreshers /\ o.timer \in BOOLEAN
           /\ o.se \in Int /\ o.minSE \in Int
<1> DEFINE A == ses \cup {Absent}
           B == MinSEs \cup {Absent}
<1>1. o \in [se : A, minSE : B, refresher : Refreshers, timer : BOOLEAN]
  BY DEF Offers
<1>2. A \subseteq Nat \cup {Absent} /\ B \subseteq Nat \cup {Absent}
  BY ConstantsAssumption, Zenon
<1>3. Absent \in Int BY DEF Absent
<1> HIDE DEF A, B
<1>4. /\ o.se \in A /\ o.minSE \in B
      /\ o.refresher \in Refreshers /\ o.timer \in BOOLEAN
  BY <1>1
<1>5. o.se \in Nat \cup {Absent} BY <1>2, <1>4, Zenon
<1>6. o.minSE \in Nat \cup {Absent} BY <1>2, <1>4, Zenon
<1>7. o.se \in Int BY <1>3, <1>5
<1>8. o.minSE \in Int BY <1>3, <1>6
<1> QED BY <1>4, <1>5, <1>6, <1>7, <1>8

\* What run waits is a time or nothing at all (run's due).
LEMMA DueType ==
    ASSUME NEW s \in States, NEW on \in BOOLEAN
    PROVE  Due(s, on) \in Lefts
<1>1. s.expires \in Nat BY DEF States
<1>2. refreshCadence(s.expires) \in Nat
  <2>1. s.expires \div 2 \in Nat BY <1>1
  <2>2. MinRefresh \in Nat BY ConstantsAssumption
  <2> QED BY <2>1, <2>2 DEF refreshCadence, Larger
<1>3. s.expires + Grace \in Nat BY <1>1, ConstantsAssumption
<1> QED BY <1>2, <1>3 DEF Due, Lefts, Absent

\* The interval negotiated from an INVITE's offer is a state (negotiate,
\* buildTimerAnswer).
LEMMA LaunchedType ==
    ASSUME NEW o \in Offers(InviteSEs)
    PROVE  launched(o) \in States
<1> DEFINE dec == negotiate(o, "uas")
           n == Larger(Candidate(o.se), Floor(o.minSE))
           m == IF o.minSE = Absent THEN 0 ELSE o.minSE
           w == Elected(o.refresher) = "uas"
<1>1. InviteSEs \in SUBSET Nat BY ConstantsAssumption
<1>2. /\ o.se \in Nat \cup {Absent} /\ o.minSE \in Nat \cup {Absent}
      /\ o.minSE \in Int
  BY <1>1, OfferType
<1>3. Candidate(o.se) \in Nat BY <1>2, ConstantsAssumption DEF Candidate
<1>4. Floor(o.minSE) \in Nat
  <2> DEFINE f == IF PolicyMinSE > 0 THEN PolicyMinSE ELSE DefaultMinSE
  <2>1. f \in Nat BY ConstantsAssumption
  <2>2. Floor(o.minSE) = Larger(f, o.minSE) BY DEF Floor
  <2> HIDE DEF f
  <2> QED BY <2>1, <2>2, <1>2 DEF Larger
<1>5. n \in Nat BY <1>3, <1>4 DEF Larger
<1>6. m \in Nat BY <1>2 DEF Absent
<1>7. w \in BOOLEAN OBVIOUS
<1>8. launched(o) = [active |-> TRUE, expires |-> n, weRefresh |-> w, minSE |-> m]
  BY DEF launched, negotiate
<1> HIDE DEF n, m, w
<1> QED BY <1>5, <1>6, <1>7, <1>8 DEF States

\* Our 2xx to a re-INVITE of the peer's names a state (answerPeer).
LEMMA PeerStateType ==
    ASSUME NEW o \in Offers(UpdateSEs), state \in States
    PROVE  PeerState(o) \in States
<1> DEFINE e == IF o.se = Absent THEN state.expires ELSE o.se
           m == Larger(state.minSE, o.minSE)
           w == PeerRefresher(o)
<1>1. UpdateSEs \in SUBSET Nat BY ConstantsAssumption
<1>2. /\ o.se \in Nat \cup {Absent} /\ o.minSE \in Int
      /\ o.refresher \in Refreshers /\ o.timer \in BOOLEAN
  BY <1>1, OfferType
<1>3. /\ state.expires \in Nat /\ state.minSE \in Nat
      /\ state.weRefresh \in BOOLEAN
  BY DEF States
<1>4. e \in Nat BY <1>2, <1>3
<1>5. m \in Nat BY <1>2, <1>3 DEF Larger
<1>6. w \in BOOLEAN BY <1>2, <1>3, Zenon DEF PeerRefresher, Refreshers
<1>7. PeerState(o) = [state EXCEPT !.expires = e, !.minSE = m, !.weRefresh = w]
  BY DEF PeerState
<1> HIDE DEF e, m, w
<1> QED BY <1>4, <1>5, <1>6, <1>7, Zenon DEF States

-----------------------------------------------------------------------------
(* What the tokens say: the two sides read them alike. *)

\* Whether the sides agree does not depend on our Min-SE.
LEMMA AgreeAlike ==
    ASSUME NEW s, NEW q, NEW v, q.active = s.active, q.expires = s.expires,
           q.weRefresh = s.weRefresh, Agree(s, v)
    PROVE  Agree(q, v)
BY Zenon DEF Agree

\* The refresher of the INVITE's 2xx is the one we act on (buildTimerAnswer).
LEMMA InviteAgrees ==
    ASSUME NEW o \in Offers(InviteSEs)
    PROVE  Agree(launched(o), PeerHears(InviteHeaders(o)))
<1> DEFINE e == Elected(o.refresher)
           n == Larger(Candidate(o.se), Floor(o.minSE))
           h == [se |-> n, refresher |-> e]
           s == launched(o)
<1>1. InviteSEs \in SUBSET Nat BY ConstantsAssumption
<1>2. e \in Refreshers
  BY <1>1, OfferType DEF Elected, Refreshers
<1>3. n # Absent
  <2>1. launched(o) \in States BY LaunchedType
  <2>2. launched(o).expires = n BY DEF launched, negotiate
  <2> HIDE DEF n
  <2> QED BY <2>1, <2>2 DEF States, Absent
<1>4. s.active = TRUE /\ s.expires = n /\ s.weRefresh = (e = "uas")
  BY Zenon DEF launched, negotiate
<1>5. InviteHeaders(o) = h BY DEF InviteHeaders, negotiate
<1> HIDE DEF e, n, s
<1>6. PeerHears(h) = [on |-> TRUE, expires |-> n,
                      who |-> CASE e = "uac" -> "peer" [] e = "uas" -> "us"
                                [] OTHER -> "unnamed"]
  BY <1>3 DEF PeerHears, ReadSession
<1>7. /\ PeerHears(h).on = TRUE /\ PeerHears(h).expires = n
      /\ e = "uas" => PeerHears(h).who = "us"
      /\ e # "uas" => PeerHears(h).who \in {"peer", "unnamed"}
  BY <1>2, <1>6 DEF Refreshers
<1> HIDE DEF h
<1>8. Agree(s, PeerHears(h)) BY <1>4, <1>7, Zenon DEF Agree
<1> QED BY <1>5, <1>8 DEF s

\* The peer reads in our 2xx to its re-INVITE the refresher we set (answerPeer).
LEMMA AnswerAgrees ==
    ASSUME NEW s \in States
    PROVE  Agree(s, PeerHears(Reply("out", AnswerHeaders(s))))
<1> DEFINE h == Reply("out", AnswerHeaders(s))
<1>1. s.active \in BOOLEAN /\ s.weRefresh \in BOOLEAN /\ s.expires \in Nat
  BY DEF States
<1>2. CASE ~s.active
  <2>1. h.se = Absent BY <1>2 DEF Reply, AnswerHeaders
  <2> HIDE DEF h
  <2>2. PeerHears(h).on = FALSE BY <2>1 DEF PeerHears, ReadSession, NoTimer
  <2> QED BY <1>1, <1>2, <2>2, Zenon DEF Agree, h
<1>3. CASE s.active
  <2> DEFINE t == IF s.weRefresh THEN "uas" ELSE "uac"
  <2>1. h.se = s.expires /\ h.refresher = t
    BY <1>3, Zenon DEF Reply, AnswerHeaders
  <2>2. s.expires # Absent BY <1>1 DEF Absent
  <2> HIDE DEF h
  <2>3. PeerHears(h) = [on |-> TRUE, expires |-> s.expires,
                        who |-> CASE t = "uac" -> "peer" [] t = "uas" -> "us"
                                  [] OTHER -> "unnamed"]
    BY <2>1, <2>2 DEF PeerHears, ReadSession
  <2>4. CASE s.weRefresh
    <3>1. PeerHears(h).on = TRUE /\ PeerHears(h).expires = s.expires
          /\ PeerHears(h).who = "us"
      BY <2>3, <2>4
    <3> QED BY <1>1, <1>3, <2>4, <3>1, Zenon DEF Agree, h
  <2>5. CASE ~s.weRefresh
    <3>1. PeerHears(h).on = TRUE /\ PeerHears(h).expires = s.expires
          /\ PeerHears(h).who = "peer"
      BY <2>3, <2>5
    <3> QED BY <1>1, <1>3, <2>5, <3>1, Zenon DEF Agree, h
  <2> QED BY <2>4, <2>5
<1> QED BY <1>1, <1>2, <1>3

\* What we make of a 2xx to a re-INVITE of ours is what the peer meant by it
\* (requestHeaders, answered).
LEMMA AcceptAgrees ==
    ASSUME NEW s \in States, NEW n \in Requests, Asks(s, n),
           NEW se \in Lefts, NEW r \in Refreshers,
           n.se = Absent => se = Absent
    PROVE  Agree(Result(s, se, r, n.weRefresh),
                 PeerSays([se |-> se, refresher |-> r], n))
<1> DEFINE h == [se |-> se, refresher |-> r]
           q == Result(s, se, r, n.weRefresh)
           v == PeerSays(h, n)
           t == IF r = "none" THEN n.refresher ELSE r
           w == AnsweredRefresher(r, n.weRefresh)
<1>1. s.active \in BOOLEAN /\ n.weRefresh \in BOOLEAN /\ n.se \in Lefts
  BY DEF States, Requests
<1>2. v = ReadSession([se |-> se, refresher |-> t], "us", "peer")
  BY DEF PeerSays
<1>3. CASE se = Absent
  <2>1. v.on = FALSE BY <1>2, <1>3 DEF ReadSession, NoTimer
  <2>2. q.active = FALSE
    <3>1. CASE s.active
      <4>1. q = [s EXCEPT !.active = FALSE] BY <1>3, <3>1 DEF Result
      <4> QED BY <4>1 DEF States
    <3>2. CASE ~s.active
      <4>1. q = s BY <3>2 DEF Result
      <4> QED BY <1>1, <3>2, <4>1, Zenon
    <3> QED BY <3>1, <3>2, Zenon
  <2> HIDE DEF q, v
  <2>3. Agree(q, v) BY <2>1, <2>2, Zenon DEF Agree
  <2> QED BY <2>3 DEF q, v, h
<1>4. CASE se # Absent
  <2>1. s.active BY <1>1, <1>4 DEF Asks
  <2>2. q = [s EXCEPT !.expires = se, !.weRefresh = w]
    BY <1>4, <2>1 DEF Result
  <2>3. q.active = s.active /\ q.expires = se /\ q.weRefresh = w
    BY <2>2 DEF States
  <2>4. v = [on |-> TRUE, expires |-> se,
             who |-> CASE t = "uac" -> "us" [] t = "uas" -> "peer"
                       [] OTHER -> "unnamed"]
    BY <1>2, <1>4 DEF ReadSession
  <2>5. n.refresher = IF n.weRefresh THEN "uac" ELSE "uas" BY <2>1 DEF Asks
  <2>6. (w = TRUE /\ t = "uac") \/ (w = FALSE /\ t = "uas")
    BY <1>1, <2>5, Zenon DEF AnsweredRefresher, Refreshers
  <2> HIDE DEF q, v, t, w
  <2>7. v.on = TRUE /\ v.expires = se
        /\ (t = "uac" => v.who = "us") /\ (t = "uas" => v.who = "peer")
    BY <2>4
  <2>8. Agree(q, v) BY <1>1, <2>1, <2>3, <2>6, <2>7, Zenon DEF Agree
  <2> QED BY <2>8 DEF q, v, h
<1> QED BY <1>3, <1>4

\* A re-INVITE of ours says what the state is (requestHeaders).
LEMMA RequestAsks ==
    ASSUME state \in States
    PROVE  requestHeaders \in Requests /\ Asks(state, requestHeaders)
<1>1. /\ state.active \in BOOLEAN /\ state.weRefresh \in BOOLEAN
      /\ state.expires \in Nat /\ state.minSE \in Nat
  BY DEF States
<1> DEFINE x == Larger(state.minSE, state.expires)
           t == IF state.weRefresh THEN "uac" ELSE "uas"
           n == requestHeaders
<1>2. x \in Lefts /\ x # Absent BY <1>1 DEF Larger, Lefts, Absent
<1>3. t \in Refreshers BY DEF Refreshers
<1>4. CASE state.active
  <2> HIDE DEF x
  <2>1. n = [se |-> x, refresher |-> t, weRefresh |-> state.weRefresh]
    BY <1>4 DEF requestHeaders, x
  <2>2. n \in Requests BY <1>1, <1>2, <1>3, <2>1, Zenon DEF Requests
  <2>3. n.se = x /\ n.refresher = t /\ n.weRefresh = state.weRefresh
    BY <2>1, Zenon
  <2> HIDE DEF n
  <2>4. Asks(state, n) BY <1>2, <1>4, <2>3, Zenon DEF Asks
  <2> QED BY <2>2, <2>4 DEF n
<1>5. CASE ~state.active
  <2>1. n = NoRequest BY <1>5 DEF requestHeaders
  <2>2. n \in Requests BY <2>1, Zenon DEF Requests, NoRequest, Lefts, Refreshers
  <2>3. n.se = Absent BY <2>1 DEF NoRequest
  <2> HIDE DEF n
  <2>4. Asks(state, n) BY <1>5, <2>3, Zenon DEF Asks
  <2> QED BY <2>2, <2>4 DEF n
<1> QED BY <1>1, <1>4, <1>5

\* What the peer reads is a session.
LEMMA ReadType ==
    ASSUME NEW h, h.se \in Lefts, NEW uac \in {"us", "peer"}, NEW uas \in {"us", "peer"}
    PROVE  ReadSession(h, uac, uas) \in Views
<1> DEFINE w == CASE h.refresher = "uac" -> uac [] h.refresher = "uas" -> uas
                  [] OTHER -> "unnamed"
<1>1. CASE h.se = Absent
  BY <1>1, Zenon DEF ReadSession, NoTimer, Views
<1>2. CASE h.se # Absent
  <2>1. w \in {"us", "peer", "unnamed"} OBVIOUS
  <2>2. h.se \in Nat BY <1>2 DEF Lefts
  <2>3. ReadSession(h, uac, uas) = [on |-> TRUE, expires |-> h.se, who |-> w]
    BY <1>2 DEF ReadSession
  <2> HIDE DEF w
  <2> QED BY <2>1, <2>2, <2>3 DEF Views
<1> QED BY <1>1, <1>2

\* A 2xx carries a Session-Expires or none, and a refresher token or none
\* (buildTimerAnswer).
LEMMA ReplyType ==
    ASSUME NEW h, h.se \in Lefts, h.refresher \in Refreshers,
           NEW d \in {"none", "out", "in", "lost"}
    PROVE  Reply(d, h) \in Replies /\ Reply(d, h).dir = d
BY Zenon DEF Reply, Replies

\* With nothing in flight.
LEMMA NoReplyType ==
    /\ NoReply \in Replies /\ NoReply.dir = "none"
    /\ Reply("lost", NoRequest) \in Replies /\ Reply("lost", NoRequest).dir = "lost"
    /\ NoRequest \in Requests
<1>1. NoRequest.se \in Lefts /\ NoRequest.refresher \in Refreshers
  BY DEF NoRequest, Lefts, Refreshers
<1>2. NoRequest \in Requests BY Zenon DEF NoRequest, Requests, Lefts, Refreshers
<1> QED BY <1>1, <1>2, ReplyType DEF NoReply

-----------------------------------------------------------------------------
(* The initial state, and the steps that change the session. *)

\* The invariant holds before the call is answered (newSessionTimer).
LEMMA InitIInv == Init => IInv
<1> SUFFICES ASSUME Init PROVE IInv OBVIOUS
<1>1. Off \in States BY DEF Off, States
<1>2. NoTimer \in Views BY DEF NoTimer, Views
<1>3. TypeOK
  BY <1>1, <1>2, NoReplyType, Zenon DEF Init, TypeOK, PCs, Lefts, Callers
<1>4. Agree(Off, NoTimer) BY DEF Agree, Off, NoTimer
<1>5. Exchange
  BY <1>4, NoReplyType DEF Init, Exchange, SidesAgree
<1>6. NoLostChange BY DEF Init, NoLostChange
<1> QED BY <1>3, <1>5, <1>6 DEF IInv

\* A step that touches neither the state nor the exchange.
LEMMA ExchangeQuiet ==
    ASSUME Exchange, UNCHANGED <<state, own, wire>>,
           pc' = pc \/ pc' \notin {"none", "sent"}
    PROVE  Exchange'
BY DEF Exchange, SidesAgree, own, wire

\* A re-INVITE of ours that ends with no 2xx read: the peer's, if it sent one, is
\* lost (reInviteMediaOnce).
LEMMA ExchangeOver ==
    ASSUME Exchange, OursOver, peer' = peer, pc' \notin {"none", "sent"},
           reply' = Unread \/ (reply' = reply /\ reply.dir # "in"),
           \A v : Agree(state, v) => Agree(state', v)
    PROVE  Exchange'
<1>1. ours' = "nobody" BY DEF OursOver
<1>2. \/ reply.dir = "in" /\ reply'.dir = "lost"
      \/ reply.dir # "in" /\ reply' = reply
  BY NoReplyType DEF Unread
<1>3. reply'.dir # "in" BY <1>2
<1>4. reply'.dir = "out" => Agree(state', PeerHears(reply'))
  BY <1>2 DEF Exchange
<1>5. reply'.dir = "none" => Agree(state', peer')
  BY <1>2 DEF Exchange, SidesAgree
<1> QED BY <1>1, <1>3, <1>4, <1>5 DEF Exchange, SidesAgree

\* A 2xx of the peer that the failed transaction leaves unread is still a 2xx
\* (reInviteMediaOnce).
LEMMA UnreadType ==
    ASSUME reply \in Replies
    PROVE  Unread \in Replies
BY NoReplyType DEF Unread

\* The state answered sets is the session the peer holds.
LEMMA AnsweredOK ==
    ASSUME TypeOK, Exchange, answered, OursOver, peer' = peer,
           pc' \notin {"none", "sent"}
    PROVE  /\ state' \in States /\ age' \in Nat /\ reply' \in Replies
           /\ Exchange'
           /\ \/ changed' = TRUE
              \/ changed' = changed /\ state' = state
<1>1. /\ state \in States /\ reply \in Replies /\ named \in Requests /\ age \in Nat
  BY DEF TypeOK
<1>2. /\ state.active \in BOOLEAN /\ named.weRefresh \in BOOLEAN
      /\ reply.se \in Lefts /\ reply.refresher \in Refreshers
  BY <1>1 DEF States, Requests, Replies
<1> DEFINE w == AnsweredRefresher(reply.refresher, named.weRefresh)
           q == Result(state, reply.se, reply.refresher, named.weRefresh)
<1>3. w \in BOOLEAN BY <1>2, Zenon DEF AnsweredRefresher, Refreshers
<1>4. /\ state' = q /\ q \in States /\ age' \in Nat
      /\ changed' = TRUE \/ (changed' = changed /\ state' = state)
  <2>1. CASE state.active /\ reply.se # Absent
    <3>1. q = [state EXCEPT !.expires = reply.se, !.weRefresh = w]
      BY <2>1 DEF Result
    <3>2. state' = q /\ changed' = TRUE /\ age' = 0
      BY <2>1, <3>1, Zenon DEF answered, setLocked
    <3>3. reply.se \in Nat BY <1>2, <2>1 DEF Lefts
    <3> HIDE DEF w
    <3>4. q \in States BY <1>1, <1>3, <3>1, <3>3, Zenon DEF States
    <3> QED BY <3>2, <3>4
  <2>2. CASE state.active /\ reply.se = Absent
    <3>1. q = [state EXCEPT !.active = FALSE] BY <2>2 DEF Result
    <3>2. state' = q /\ changed' = TRUE /\ age' = 0
      BY <2>2, <3>1, Zenon DEF answered, setLocked
    <3>4. q \in States BY <1>1, <3>1, Zenon DEF States
    <3> QED BY <3>2, <3>4
  <2>3. CASE ~state.active
    <3>1. q = state BY <2>3 DEF Result
    <3>2. UNCHANGED timer BY <2>3 DEF answered
    <3> QED BY <1>1, <3>1, <3>2 DEF timer
  <2> QED BY <2>1, <2>2, <2>3, Zenon
<1> HIDE DEF q
<1>5. reply.dir = "in" /\ reply' = NoReply BY DEF answered
<1>6. Agree(state', peer') BY <1>4, <1>5 DEF Exchange, q
<1>7. ours' = "nobody" /\ reply'.dir = "none" BY <1>5, NoReplyType DEF OursOver
<1>8. Exchange' BY <1>6, <1>7 DEF Exchange, SidesAgree
<1> QED BY <1>4, <1>5, <1>8, NoReplyType

\* A step away from run's wait cannot leave a change unread there.
LEMMA NotWaiting ==
    ASSUME pc' # "waiting"
    PROVE  NoLostChange'
BY DEF NoLostChange

-----------------------------------------------------------------------------
(* Every step keeps the invariant: one lemma per actor. *)

\* Answering the call sets both sides to the negotiated session
\* (prepareSessionTimers, launchSessionTimers).
LEMMA LaunchKeeps == IInv /\ Launch => IInv'
<1> SUFFICES ASSUME IInv, Launch PROVE IInv' OBVIOUS
<1> USE DEF IInv
<1>1. PICK o \in Offers(InviteSEs) :
        prepareSessionTimers(o) \/ launchSessionTimers(o)
  BY DEF Launch
<1>2. CASE prepareSessionTimers(o)
  <2>1. TypeOK' BY <1>2 DEF TypeOK, prepareSessionTimers, timer, own, wire, PCs
  <2>2. Exchange'
    BY <1>2, ExchangeQuiet DEF prepareSessionTimers, timer
  <2>3. NoLostChange' BY <1>2, NotWaiting DEF prepareSessionTimers
  <2> QED BY <2>1, <2>2, <2>3
<1>3. CASE launchSessionTimers(o)
  <2> DEFINE h == InviteHeaders(o)
  <2>1. state' = launched(o) /\ launched(o) \in States
    BY <1>3, LaunchedType DEF launchSessionTimers
  <2>2. peer' = PeerHears(h) BY <1>3 DEF launchSessionTimers
  <2>3. peer' \in Views
    <3>1. h.se = launched(o).expires BY DEF InviteHeaders, launched
    <3>2. h.se \in Lefts BY <2>1, <3>1 DEF States, Lefts
    <3> HIDE DEF h
    <3> QED BY <2>2, <3>2, ReadType DEF PeerHears
  <2>4. TypeOK'
    BY <1>3, <2>1, <2>3 DEF TypeOK, launchSessionTimers, own, PCs
  <2>5. Agree(state', peer') BY <2>1, <2>2, InviteAgrees
  <2>6. /\ pc = "none" /\ pc' = "loop"
        /\ UNCHANGED <<ours, named, reply>>
    BY <1>3 DEF launchSessionTimers, own
  <2>7. ours = "nobody" /\ reply.dir = "none" BY <2>6 DEF Exchange
  <2>8. Exchange' BY <2>5, <2>6, <2>7 DEF Exchange, SidesAgree
  <2>9. NoLostChange' BY <1>3, NotWaiting DEF launchSessionTimers
  <2> QED BY <2>4, <2>8, <2>9
<1> QED BY <1>1, <1>2, <1>3

\* run drains its signal and then takes its snapshot, so it waits on the state or
\* has a signal waiting; its other steps leave the wait (run, wait, refreshSession).
LEMMA RunKeeps == IInv /\ RunNext => IInv'
<1> SUFFICES ASSUME IInv, RunNext PROVE IInv' OBVIOUS
<1> USE DEF IInv
<1>0. Off \in States /\ Absent \in Lefts BY DEF Off, States, Lefts
<1>1. CASE RunDrain
  <2>1. refreshing' \in BOOLEAN BY <1>1 DEF RunDrain, TypeOK
  <2>2. TypeOK' BY <1>1, <2>1, Zenon DEF TypeOK, RunDrain, own, wire, PCs
  <2>3. Exchange' BY <1>1, ExchangeQuiet DEF RunDrain
  <2>4. NoLostChange' BY <1>1, NotWaiting DEF RunDrain
  <2> QED BY <2>2, <2>3, <2>4
<1>8. CASE RunSnapshot
  <2>1. left' \in Lefts BY <1>8, DueType DEF RunSnapshot, TypeOK
  <2>2. TypeOK' BY <1>8, <2>1, Zenon DEF TypeOK, RunSnapshot, timer, own, wire, PCs
  <2>3. Exchange' BY <1>8, ExchangeQuiet DEF RunSnapshot, timer
  <2>4. st' = state' BY <1>8 DEF RunSnapshot, timer
  <2>5. NoLostChange' BY <2>4 DEF NoLostChange
  <2> QED BY <2>2, <2>3, <2>5
<1>2. CASE WakeChanged
  <2>1. TypeOK' BY <1>0, <1>2, Zenon DEF TypeOK, WakeChanged, WaitOver, own, wire, PCs
  <2>2. Exchange' BY <1>2, ExchangeQuiet DEF WakeChanged
  <2>3. NoLostChange' BY <1>2, NotWaiting DEF WakeChanged
  <2> QED BY <2>1, <2>2, <2>3
<1>3. CASE RunEnds
  <2>1. ours' \in Callers /\ named' \in Requests /\ reply' \in Replies
    BY <1>3, NoReplyType, UnreadType
    DEF RunEnds, TypeOK, Callers, OursOver, own
  <2>2. TypeOK' BY <1>0, <1>3, <2>1, Zenon DEF TypeOK, RunEnds, WaitOver, timer, PCs
  <2>3. Exchange'
    <3>1. CASE pc = "sent"
      BY <1>3, <3>1, ExchangeOver DEF RunEnds, timer
    <3>2. CASE pc # "sent"
      BY <1>3, <3>2, ExchangeQuiet DEF RunEnds, timer, own, wire
    <3> QED BY <3>1, <3>2
  <2>4. NoLostChange' BY <1>3, NotWaiting DEF RunEnds
  <2> QED BY <2>2, <2>3, <2>4
<1>4. CASE expireSession
  <2>1. TypeOK'
    BY <1>0, <1>4, Zenon DEF TypeOK, expireSession, WaitOver, timer, own, wire, PCs
  <2>2. Exchange' BY <1>4, ExchangeQuiet DEF expireSession, timer
  <2>3. NoLostChange' BY <1>4, NotWaiting DEF expireSession
  <2> QED BY <2>1, <2>2, <2>3
<1>5. CASE refreshSession
  <2>1. TypeOK'
    BY <1>0, <1>5, Zenon DEF TypeOK, refreshSession, WaitOver, timer, own, wire, PCs
  <2>2. Exchange' BY <1>5, ExchangeQuiet DEF refreshSession, timer
  <2>3. NoLostChange' BY <1>5, NotWaiting DEF refreshSession
  <2> QED BY <2>1, <2>2, <2>3
<1>6. CASE RefreshSent
  <2>1. requestHeaders \in Requests /\ Asks(state, requestHeaders)
    BY RequestAsks DEF TypeOK
  <2>2. TypeOK' BY <1>6, <2>1 DEF TypeOK, RefreshSent, timer, wire, PCs, Callers
  <2>3. /\ state' = state /\ reply' = reply /\ peer' = peer
        /\ pc' = "sent" /\ ours' = "run" /\ named' = requestHeaders
        /\ ours = "nobody" /\ reply.dir # "out"
    BY <1>6 DEF RefreshSent, NoExchange, timer, wire
  <2>4. Exchange' BY <2>1, <2>3 DEF Exchange, SidesAgree
  <2>5. NoLostChange' BY <1>6, NotWaiting DEF RefreshSent
  <2> QED BY <2>2, <2>4, <2>5
<1>7. CASE RetryWaitOver
  <2>1. TypeOK' BY <1>7 DEF TypeOK, RetryWaitOver, timer, own, wire, PCs, Lefts
  <2>2. Exchange' BY <1>7, ExchangeQuiet DEF RetryWaitOver, timer
  <2>3. NoLostChange' BY <1>7, NotWaiting DEF RetryWaitOver
  <2> QED BY <2>1, <2>2, <2>3
<1> QED
  BY <1>1, <1>2, <1>3, <1>4, <1>5, <1>6, <1>7, <1>8 DEF RunNext, RunHead

\* Every outcome of a refresh leaves run outside its wait; a 2xx sets the session
\* the peer holds and a 422 moves only the Min-SE (refreshSession,
\* reInviteMediaOnce).
LEMMA RefreshKeeps == IInv /\ (RefreshSettled \/ PendingNext) => IInv'
<1> SUFFICES ASSUME IInv, RefreshSettled \/ PendingNext PROVE IInv' OBVIOUS
<1> USE DEF IInv
<1>0. /\ OursOver => ours' \in Callers /\ named' \in Requests
      /\ Unread \in Replies
  BY NoReplyType, UnreadType DEF TypeOK, OursOver, Callers
<1>1. ASSUME NEW applies \in BOOLEAN, RefreshAnswered(applies)
      PROVE  IInv'
  <2>1. /\ answered /\ OursOver /\ peer' = peer /\ pc' = "loop"
        /\ pc' \notin {"none", "sent"}
    BY <1>1 DEF RefreshAnswered
  <2>2. /\ state' \in States /\ age' \in Nat /\ reply' \in Replies /\ Exchange'
        /\ changed' = TRUE \/ changed' = changed
    BY <2>1, AnsweredOK, ZenonT(60)
  <2>3. changed' \in BOOLEAN BY <2>2, Zenon DEF TypeOK
  <2>4. TypeOK'
    BY <1>0, <1>1, <2>1, <2>2, <2>3, Zenon DEF TypeOK, RefreshAnswered, PCs
  <2>5. NoLostChange' BY <2>1, NotWaiting
  <2> QED BY <2>2, <2>4, <2>5
<1>2. CASE RefreshLost
  <2>1. TypeOK' BY <1>0, <1>2, Zenon DEF TypeOK, RefreshLost, timer, PCs
  <2>2. Exchange' BY <1>2, ExchangeOver DEF RefreshLost, timer
  <2>3. NoLostChange' BY <1>2, NotWaiting DEF RefreshLost
  <2> QED BY <2>1, <2>2, <2>3
<1>3. ASSUME NEW minSE \in MinSEs, RefreshTooSmall(minSE) PROVE IInv'
  <2> DEFINE m == Larger(state.minSE, minSE)
             q == [state EXCEPT !.minSE = m]
  <2>1. state \in States BY DEF TypeOK
  <2>2. m \in Nat BY <1>3, <2>1, ConstantsAssumption DEF States, Larger
  <2>3. state' = q BY <1>3 DEF RefreshTooSmall, raiseMinSE
  <2> HIDE DEF m
  <2>4. q \in States BY <2>1, <2>2 DEF States
  <2>5. q.active = state.active /\ q.expires = state.expires
        /\ q.weRefresh = state.weRefresh
    BY <2>1 DEF States
  <2> HIDE DEF q
  <2>6. TypeOK'
    BY <1>0, <1>3, <2>3, <2>4, Zenon
    DEF TypeOK, RefreshTooSmall, Refused, raiseMinSE, wire, PCs
  <2>7. \A v : Agree(state, v) => Agree(state', v)
    BY <2>3, <2>5, AgreeAlike
  <2>8. Exchange'
    BY <1>3, <2>7, ExchangeOver DEF RefreshTooSmall, Refused, wire
  <2>9. NoLostChange' BY <1>3, NotWaiting DEF RefreshTooSmall
  <2> QED BY <2>6, <2>8, <2>9
<1>4. ASSUME NEW after \in RetryAfters, RefreshLater(after) PROVE IInv'
  <2>1. left' \in Lefts
    BY <1>4, ConstantsAssumption DEF RefreshLater, Lefts
  <2>2. TypeOK'
    BY <1>0, <1>4, <2>1, Zenon DEF TypeOK, RefreshLater, Refused, timer, wire, PCs
  <2>3. Exchange'
    BY <1>4, ExchangeOver DEF RefreshLater, Refused, timer, wire
  <2>4. NoLostChange' BY <1>4, NotWaiting DEF RefreshLater
  <2> QED BY <2>2, <2>3, <2>4
<1>5. CASE RefreshStops
  <2>1. TypeOK' BY <1>0, <1>5, Zenon DEF TypeOK, RefreshStops, timer, PCs
  <2>2. Exchange' BY <1>5, ExchangeOver DEF RefreshStops, timer
  <2>3. NoLostChange' BY <1>5, NotWaiting DEF RefreshStops
  <2> QED BY <2>1, <2>2, <2>3
<1>6. ASSUME NEW wait \in PendingWaits, RefreshPending(wait) PROVE IInv'
  <2>1. left' \in Lefts
    BY <1>6, ConstantsAssumption DEF RefreshPending, Lefts
  <2>2. TypeOK'
    BY <1>0, <1>6, <2>1, Zenon DEF TypeOK, RefreshPending, Refused, timer, wire, PCs
  <2>3. Exchange'
    BY <1>6, ExchangeOver DEF RefreshPending, Refused, timer, wire
  <2>4. NoLostChange' BY <1>6, NotWaiting DEF RefreshPending
  <2> QED BY <2>2, <2>3, <2>4
<1> QED BY <1>1, <1>2, <1>3, <1>4, <1>5, <1>6 DEF RefreshSettled, PendingNext

\* The application's re-INVITEs change the state only through answered, which
\* signals run (ReInvite, reInviteMediaOnce).
LEMMA AppKeeps == IInv /\ AppNext => IInv'
<1> SUFFICES ASSUME IInv, AppNext PROVE IInv' OBVIOUS
<1> USE DEF IInv
<1>0. /\ OursOver => ours' \in Callers /\ named' \in Requests
      /\ Unread \in Replies
      /\ ours = "app" => pc \notin {"none", "sent"}
  BY NoReplyType, UnreadType DEF TypeOK, OursOver, Callers, Exchange
<1>1. CASE AppSent
  <2>1. requestHeaders \in Requests /\ Asks(state, requestHeaders)
    BY RequestAsks DEF TypeOK
  <2>2. TypeOK' BY <1>1, <2>1 DEF TypeOK, AppSent, timer, run, wire, Callers
  <2>3. /\ state' = state /\ reply' = reply /\ peer' = peer
        /\ pc' = pc /\ pc # "none" /\ ours' = "app" /\ named' = requestHeaders
        /\ ours = "nobody" /\ reply.dir # "out"
    BY <1>1 DEF AppSent, NoExchange, timer, run, wire
  <2>4. Exchange' BY <2>1, <2>3 DEF Exchange, SidesAgree
  <2>5. NoLostChange' BY <1>1 DEF NoLostChange, AppSent, timer, run
  <2> QED BY <2>2, <2>4, <2>5
<1>2. CASE AppFailed
  <2>1. TypeOK' BY <1>0, <1>2, Zenon DEF TypeOK, AppFailed, timer, run
  <2>2. Exchange' BY <1>0, <1>2, ExchangeOver DEF AppFailed, timer, run
  <2>3. NoLostChange' BY <1>2 DEF NoLostChange, AppFailed, timer, run
  <2> QED BY <2>1, <2>2, <2>3
<1>3. CASE AppAnswered
  <2>1. /\ answered /\ OursOver /\ peer' = peer /\ UNCHANGED run
        /\ pc' \notin {"none", "sent"}
    BY <1>0, <1>3 DEF AppAnswered, run
  <2>2. /\ state' \in States /\ age' \in Nat /\ reply' \in Replies /\ Exchange'
        /\ changed' = TRUE \/ (changed' = changed /\ state' = state)
    BY <2>1, AnsweredOK, ZenonT(60)
  <2>3. changed' \in BOOLEAN BY <2>2, Zenon DEF TypeOK
  <2>4. TypeOK' BY <1>0, <1>3, <2>1, <2>2, <2>3, Zenon DEF TypeOK, AppAnswered, run
  <2>5. NoLostChange' BY <2>1, <2>2 DEF NoLostChange, run
  <2> QED BY <2>2, <2>4, <2>5
<1> QED BY <1>1, <1>2, <1>3 DEF AppNext, AppSettled

\* Our 2xx to the peer's re-INVITE names the state it sets and signals run
\* (answerPeer); the peer takes from it, and from the 2xx it sends itself, the
\* session we hold or are about to hold.
LEMMA PeerKeeps == IInv /\ PeerNext => IInv'
<1> SUFFICES ASSUME IInv, PeerNext PROVE IInv' OBVIOUS
<1> USE DEF IInv
<1>0. state \in States /\ named \in Requests /\ reply \in Replies
  BY DEF TypeOK
<1>1. ASSUME NEW o \in Offers(UpdateSEs), answerPeer(o) PROVE IInv'
  <2>1. /\ UNCHANGED run /\ UNCHANGED own /\ peer' = peer /\ lag' = lag /\ ended' = ended
        /\ ours = "nobody" /\ pc # "none"
    BY <1>1 DEF answerPeer, NoExchange
  <2>2. /\ state' \in States /\ reply' = Reply("out", AnswerHeaders(state'))
        /\ age' \in Nat /\ changed' \in BOOLEAN
        /\ changed' = TRUE \/ (changed' = changed /\ state' = state)
    <3>1. CASE state.active
      <4>1. PeerState(o) \in States BY <1>0, <1>1, PeerStateType
      <4> QED BY <1>1, <3>1, <4>1 DEF answerPeer, setLocked
    <3>2. CASE ~state.active
      <4>1. UNCHANGED timer /\ reply' = Reply("out", AnswerHeaders(state'))
        BY <1>1, <3>2, Zenon DEF answerPeer, timer
      <4> QED BY <1>0, <4>1, Zenon DEF timer, TypeOK
    <3> QED BY <3>1, <3>2, Zenon
  <2>3. reply' \in Replies /\ reply'.dir = "out"
    <3> DEFINE h == AnswerHeaders(state')
    <3>1. h.se \in Lefts /\ h.refresher \in Refreshers
      BY <2>2, SMTT(10) DEF AnswerHeaders, States, Lefts, Refreshers
    <3> HIDE DEF h
    <3>2. reply' = Reply("out", h) BY <2>2 DEF h
    <3> QED BY <3>1, <3>2, ReplyType
  <2>4. TypeOK' BY <2>1, <2>2, <2>3, Zenon DEF TypeOK, run, own
  <2>5. Agree(state', PeerHears(reply')) BY <2>2, AnswerAgrees
  <2>6. Exchange' BY <2>1, <2>3, <2>5 DEF Exchange, SidesAgree, run, own
  <2>7. NoLostChange' BY <2>1, <2>2 DEF NoLostChange, run
  <2> QED BY <2>4, <2>6, <2>7
<1>2. ASSUME NEW se \in UpdateSEs \cup {Absent}, NEW r \in Refreshers, PeerAccepts(se, r)
      PROVE  IInv'
  <2> DEFINE h == [se |-> se, refresher |-> r]
  <2>1. /\ UNCHANGED timer /\ UNCHANGED run /\ UNCHANGED own /\ lag' = lag
        /\ ended' = ended /\ ours # "nobody"
        /\ named.se = Absent => se = Absent
        /\ reply' = Reply("in", h) /\ peer' = PeerSays(h, named)
    BY <1>2 DEF PeerAccepts
  <2>2. se \in Lefts BY <1>2, ConstantsAssumption DEF Lefts
  <2>3. h.se = se /\ h.refresher = r OBVIOUS
  <2>4. Asks(state, named) BY <2>1, Zenon DEF Exchange
  <2>5. Agree(Result(state, se, r, named.weRefresh), PeerSays(h, named))
    BY <1>0, <1>2, <2>1, <2>2, <2>4, AcceptAgrees, ZenonT(60)
  <2>6. peer' \in Views
    <3> DEFINE g == IF h.refresher = "none" THEN [h EXCEPT !.refresher = named.refresher]
                                            ELSE h
    <3>1. g.se = se
      <4>1. CASE h.refresher = "none"
        <5>1. g = [h EXCEPT !.refresher = named.refresher] BY <4>1
        <5> QED BY <2>3, <5>1
      <4>2. CASE h.refresher # "none" BY <2>3, <4>2, Zenon
      <4> QED BY <4>1, <4>2, Zenon
    <3>2. peer' = ReadSession(g, "us", "peer") BY <2>1 DEF PeerSays
    <3> HIDE DEF g
    <3> QED BY <2>2, <3>1, <3>2, ReadType
  <2> HIDE DEF h
  <2>7. reply' \in Replies /\ reply'.dir = "in"
    BY <1>2, <2>1, <2>2, <2>3, ReplyType, ZenonT(60)
  <2>11. reply'.se = se /\ reply'.refresher = r
    BY <2>1, <2>3 DEF Reply
  <2>8. TypeOK' BY <2>1, <2>6, <2>7, Zenon DEF TypeOK, timer, run, own
  <2>9. Exchange'
    <3>1. /\ state' = state /\ ours' = ours /\ named' = named /\ pc' = pc
      BY <2>1, Zenon DEF timer, run, own
    <3>2. Agree(Result(state', reply'.se, reply'.refresher, named'.weRefresh), peer')
      BY <2>1, <2>5, <2>11, <3>1, Zenon
    <3>3. ours # "nobody" /\ pc # "none" BY <2>1, Zenon DEF Exchange
    <3> QED BY <2>4, <2>7, <3>1, <3>2, <3>3 DEF Exchange, SidesAgree
  <2>10. NoLostChange' BY <2>1, Zenon DEF NoLostChange, timer, run
  <2> QED BY <2>8, <2>9, <2>10
<1>3. CASE PeerAcks
  <2>1. /\ UNCHANGED timer /\ UNCHANGED run /\ UNCHANGED own /\ lag' = lag
        /\ ended' = ended /\ reply.dir = "out"
        /\ peer' = PeerHears(reply) /\ reply' = NoReply
    BY <1>3 DEF PeerAcks
  <2>2. peer' \in Views
    <3>1. reply.se \in Lefts BY <1>0 DEF Replies
    <3> QED BY <2>1, <3>1, ReadType DEF PeerHears
  <2>3. TypeOK' BY <2>1, <2>2, NoReplyType, Zenon DEF TypeOK, timer, run, own
  <2>4. Exchange'
    BY <2>1, NoReplyType DEF Exchange, SidesAgree, timer, run, own
  <2>5. NoLostChange' BY <2>1 DEF NoLostChange, timer, run
  <2> QED BY <2>3, <2>4, <2>5
<1>4. CASE AckMissing
  <2>1. TypeOK' BY <1>4, Zenon DEF TypeOK, AckMissing, timer, run, own, wire
  <2>2. Exchange' BY <1>4, ExchangeQuiet DEF AckMissing, timer, run
  <2>3. NoLostChange' BY <1>4 DEF NoLostChange, AckMissing, timer, run
  <2> QED BY <2>1, <2>2, <2>3
<1> QED BY <1>1, <1>2, <1>3, <1>4 DEF PeerNext, AckSettled

\* The end of the dialog and the passing of time touch neither the session nor
\* run's snapshot.
LEMMA EndsAndTimeKeep == IInv /\ (DialogEnds \/ Tick) => IInv'
<1> SUFFICES ASSUME IInv, DialogEnds \/ Tick PROVE IInv' OBVIOUS
<1> USE DEF IInv
<1>1. CASE DialogEnds
  <2>1. TypeOK' BY <1>1, Zenon DEF TypeOK, DialogEnds, timer, run, own, wire
  <2>2. Exchange' BY <1>1, ExchangeQuiet DEF DialogEnds, timer, run
  <2>3. NoLostChange' BY <1>1 DEF NoLostChange, DialogEnds, timer, run
  <2> QED BY <2>1, <2>2, <2>3
<1>2. CASE Tick
  <2>1. left' \in Lefts BY <1>2 DEF Tick, TypeOK, Lefts, Absent
  <2>2. age' \in Nat /\ lag' \in Nat BY <1>2 DEF Tick, TypeOK
  <2>3. TypeOK' BY <1>2, <2>1, <2>2, Zenon DEF TypeOK, Tick, own, wire
  <2>4. Exchange' BY <1>2, ExchangeQuiet DEF Tick
  <2>5. NoLostChange' BY <1>2 DEF NoLostChange, Tick
  <2> QED BY <2>3, <2>4, <2>5
<1> QED BY <1>1, <1>2

\* A stuttering step keeps the invariant.
LEMMA StutterKeeps == IInv /\ UNCHANGED vars => IInv'
<1> SUFFICES ASSUME IInv, UNCHANGED vars PROVE IInv' OBVIOUS
<1>1. TypeOK' BY DEF IInv, TypeOK, vars, timer, run, own, wire
<1>2. Exchange' BY ExchangeQuiet DEF IInv, vars, timer, run
<1>3. NoLostChange' BY DEF IInv, NoLostChange, vars, timer, run
<1> QED BY <1>1, <1>2, <1>3 DEF IInv

-----------------------------------------------------------------------------
\* The age stops at its bound.
AgeBounded == age \in Nat /\ age <= MaxAge

\* A 2xx sets the age to zero, and time adds to it only below its bound.
LEMMA AgeKept == AgeBounded /\ [Next]_vars => AgeBounded'
<1> SUFFICES ASSUME AgeBounded, [Next]_vars PROVE AgeBounded' OBVIOUS
<1>1. MaxAge \in Nat BY ConstantsAssumption
<1>2. CASE age' = age \/ age' = 0 BY <1>1, <1>2 DEF AgeBounded
<1>3. CASE Tick BY <1>1, <1>3 DEF AgeBounded, Tick
<1>4. CASE Launch
  BY <1>2, <1>4 DEF Launch, prepareSessionTimers, launchSessionTimers, timer
<1>5. CASE RunNext
  BY <1>2, <1>5, Zenon DEF RunNext, RunHead, RunDrain, RunSnapshot, WakeChanged,
     RunEnds, expireSession, refreshSession, RefreshSent, RetryWaitOver, timer
<1>6. ASSUME answered PROVE age' = age \/ age' = 0
  BY <1>6 DEF answered, setLocked, timer
<1>7. CASE RefreshSettled \/ PendingNext
  BY <1>2, <1>6, <1>7 DEF RefreshSettled, PendingNext, RefreshAnswered,
     RefreshLost, RefreshTooSmall, raiseMinSE, RefreshLater, RefreshStops,
     RefreshPending, timer
<1>8. CASE AppNext
  BY <1>2, <1>6, <1>8, ZenonT(60)
  DEF AppNext, AppSettled, AppSent, AppFailed, AppAnswered, timer
<1>9. CASE PeerNext
  BY <1>2, <1>9, ZenonT(60) DEF PeerNext, answerPeer, setLocked, PeerAccepts,
     AckSettled, PeerAcks, AckMissing, timer
<1>10. CASE DialogEnds \/ UNCHANGED vars
  BY <1>2, <1>10 DEF DialogEnds, vars, timer
<1> QED
  BY <1>3, <1>4, <1>5, <1>7, <1>8, <1>9, <1>10 DEF Next

(***************************************************************************)
(* The watch on the peer's refreshing counts from the last change: what is *)
(* left of it and the age of the session make up the interval and the      *)
(* grace, while no change is unread.                                       *)
(***************************************************************************)
WatchCounts ==
    pc = "waiting" /\ left # Absent /\ ~st.weRefresh /\ ~changed
        => left + age >= st.expires + Grace \/ age = MaxAge

\* run starts the watch with all of the interval and the grace ahead of it, and
\* only time, which takes from one and adds to the other, passes while it waits
\* (run, wait).
LEMMA WatchKept ==
    IInv /\ IInv' /\ AgeBounded /\ WatchCounts /\ [Next]_vars => WatchCounts'
<1> SUFFICES ASSUME IInv, IInv', AgeBounded, WatchCounts, [Next]_vars,
                    pc' = "waiting", left' # Absent, ~st'.weRefresh, ~changed'
             PROVE  left' + age' >= st'.expires + Grace \/ age' = MaxAge
  BY DEF WatchCounts
<1>1. /\ left \in Lefts /\ left' \in Lefts /\ age \in Nat /\ age' \in Nat
      /\ st \in States /\ st' \in States /\ changed \in BOOLEAN
      /\ changed' \in BOOLEAN
  BY DEF IInv, TypeOK
<1>2. left' \in Nat BY <1>1 DEF Lefts
<1>3. st.expires \in Nat /\ st'.expires \in Nat BY <1>1 DEF States
<1>4. CASE RunSnapshot
  <2>1. left' = Due(st', refreshing) BY <1>4 DEF RunSnapshot
  <2>2. Due(st', refreshing) # Absent => Due(st', refreshing) = st'.expires + Grace
    BY DEF Due
  <2> QED BY <1>1, <1>2, <1>3, <2>1, <2>2, ConstantsAssumption
<1>5. CASE Tick
  <2>1. /\ pc = "waiting" /\ st' = st /\ changed' = changed
        /\ left' = (IF left > 0 THEN left - 1 ELSE left)
        /\ age' = (IF age < MaxAge THEN age + 1 ELSE age)
    BY <1>5 DEF Tick
  <2>2. left # Absent BY <1>1, <2>1 DEF Lefts, Absent
  <2>3. left \in Nat BY <1>1, <2>2 DEF Lefts
  <2>4. left + age >= st.expires + Grace \/ age = MaxAge
    BY <2>1, <2>2 DEF WatchCounts
  <2>5. MaxAge \in Nat /\ Grace \in Nat BY ConstantsAssumption
  <2>6. CASE age = MaxAge BY <2>1, <2>6, <2>5
  <2>7. CASE age # MaxAge /\ left + age >= st.expires + Grace
    <3>1. age' = age + 1 BY <2>1, <2>5, <2>7 DEF AgeBounded
    <3>2. left' >= left - 1 BY <2>1, <2>3
    <3>3. st'.expires = st.expires BY <2>1
    <3> DEFINE x == left' y == age' e == st.expires
    <3>4. /\ x \in Nat /\ left \in Nat /\ age \in Nat /\ e \in Nat
          /\ y = age + 1 /\ x >= left - 1 /\ left + age >= e + Grace
      BY <1>1, <1>2, <1>3, <2>3, <2>7, <3>1, <3>2
    <3> HIDE DEF x, y, e
    <3>5. x + y >= e + Grace BY <2>5, <3>4
    <3> QED BY <3>3, <3>5 DEF x, y, e
  <2> QED BY <2>4, <2>6, <2>7
<1>6. CASE UNCHANGED <<pc, left, st, changed, age>>
  BY <1>6 DEF WatchCounts
<1>7. CASE Launch
  BY <1>7 DEF Launch, prepareSessionTimers, launchSessionTimers
<1>8. CASE RunNext
  BY <1>4, <1>8 DEF RunNext, RunHead, RunDrain, WakeChanged, RunEnds,
     expireSession, refreshSession, RefreshSent, RetryWaitOver
<1>9. CASE RefreshSettled \/ PendingNext
  BY <1>9 DEF RefreshSettled, PendingNext, RefreshAnswered, RefreshLost,
     RefreshTooSmall, RefreshLater, RefreshStops, RefreshPending
<1>10. CASE AppNext
  <2>1. CASE AppSent \/ AppFailed
    BY <1>6, <2>1 DEF AppSent, AppFailed, timer, run
  <2>2. CASE AppAnswered
    <3>1. answered BY <2>2 DEF AppAnswered
    <3>2. UNCHANGED timer BY <3>1 DEF answered, setLocked
    <3> QED BY <1>6, <2>2, <3>2 DEF AppAnswered, run, timer
  <2> QED BY <1>10, <2>1, <2>2 DEF AppNext, AppSettled
<1>11. CASE PeerNext
  <2>1. UNCHANGED timer /\ UNCHANGED run
    BY <1>11, ZenonT(60) DEF PeerNext, answerPeer, setLocked, PeerAccepts, AckSettled,
       PeerAcks, AckMissing
  <2> QED BY <1>6, <2>1, Zenon DEF run, timer
<1>12. CASE DialogEnds BY <1>6, <1>12 DEF DialogEnds, timer, run
<1>13. CASE UNCHANGED vars BY <1>6, <1>13 DEF vars, timer, run
<1> QED
  BY <1>5, <1>7, <1>8, <1>9, <1>10, <1>11, <1>12, <1>13 DEF Next

-----------------------------------------------------------------------------
\* The invariant holds of every behaviour.
LEMMA Invariance == Spec => []IInv
<1>1. Init => IInv BY InitIInv
<1>2. IInv /\ [Next]_vars => IInv'
  BY LaunchKeeps, RunKeeps, RefreshKeeps, AppKeeps, PeerKeeps,
     EndsAndTimeKeep, StutterKeeps
  DEF Next
<1> QED BY <1>1, <1>2, PTL DEF Spec

(***************************************************************************)
(* Whatever re-INVITEs the two sides send and in whichever order they are  *)
(* answered, the interval and the refresher run acts on are those the peer *)
(* takes from the headers it reads and writes, whenever no 2xx is in       *)
(* flight or lost (buildTimerAnswer, requestHeaders, answered, answerPeer).*)
(***************************************************************************)
THEOREM SidesAlwaysAgree == Spec => []SidesAgree
<1>1. IInv => SidesAgree BY DEF IInv, Exchange
<1> QED BY <1>1, Invariance, PTL

(***************************************************************************)
(* run never waits on a session that was changed without a signal waiting  *)
(* for it, even where the change falls between the drain of the signal and *)
(* the snapshot (setLocked, run).                                          *)
(***************************************************************************)
THEOREM NoChangeIsLost == Spec => []NoLostChange
<1>1. IInv => NoLostChange BY DEF IInv
<1> QED BY <1>1, Invariance, PTL

(***************************************************************************)
(* A call is ended for a missed refresh only when no 2xx set its session   *)
(* for the interval and the grace, or the 2xx that did is still unread     *)
(* (expireSession, run).                                                   *)
(***************************************************************************)
THEOREM EndsOnlyOverdue == Spec => ExpiresOverdue
<1>1. Init => WatchCounts BY DEF Init, WatchCounts
<1>2. IInv /\ WatchCounts /\ expireSession => changed \/ Overdue
  <2> SUFFICES ASSUME IInv, WatchCounts, expireSession, ~changed
               PROVE  Overdue
    OBVIOUS
  <2>1. pc = "waiting" /\ left = 0 /\ st.weRefresh = FALSE
    BY DEF expireSession, WakeDue
  <2>2. left + age >= st.expires + Grace \/ age = MaxAge
    BY <2>1 DEF WatchCounts, Absent
  <2>3. Waited(st) = Waited(state) BY <2>1 DEF IInv, NoLostChange
  <2>4. st.expires = state.expires BY <2>3 DEF Waited
  <2>5. age \in Nat BY DEF IInv, TypeOK
  <2> QED BY <2>1, <2>2, <2>4, <2>5 DEF Overdue
<1>3. Init => AgeBounded BY ConstantsAssumption DEF Init, AgeBounded
<1>4. Spec => []WatchCounts
  BY <1>1, <1>3, AgeKept, WatchKept, Invariance, PTL DEF Spec
<1>5. IInv /\ WatchCounts => [expireSession => changed \/ Overdue]_vars
  BY <1>2
<1> QED BY <1>4, <1>5, Invariance, PTL DEF ExpiresOverdue

\* The state keeps its types.
THEOREM TimerTypes == Spec => []TypeOK
<1>1. IInv => TypeOK BY DEF IInv
<1> QED BY <1>1, Invariance, PTL

=============================================================================
