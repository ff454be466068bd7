------------------------------ MODULE MCUpkeep ------------------------------
(***************************************************************************)
(* What a dialog keeps going while its call is up: small instances of      *)
(* SessionTimer, in which a unit is 45 seconds, the refresh clamp 1 and    *)
(* the default Min-SE 2, and of RTPSession.  The two share no state: in    *)
(* each behaviour one of them runs, and the other is over.                 *)
(***************************************************************************)
EXTENDS SessionTimer

CONSTANTS MaxUpdates, MaxListens

ASSUME BoundsAssumption == MaxUpdates \in Nat /\ MaxListens \in Nat

VARIABLES sock, open, rtp, rtcp, recorded, mon, cur, reader, upd, closing, hook,
          listen, stopper

sessionVars == <<sock, open, rtp, rtcp, recorded, mon, cur, reader, upd, closing, hook,
                 listen, stopper>>

Session == INSTANCE RTPSession

\* An INVITE below, at and above the floor.
MCInviteSEs == {1, 2, 4}
MCUpdateSEs == {2, 4}
MCRetryAfters == {0, 2}
MCFewMinSEs == {2}
MCPendingWaits == {1}

\* The INVITE was rejected for its interval.
TimerOver ==
    /\ state = Off /\ st = Off /\ changed = FALSE /\ pc = "rejected"
    /\ left = Absent /\ refreshing = TRUE /\ retried = FALSE /\ ours = "nobody"
    /\ named = NoRequest /\ ended = TRUE
    /\ age = 0 /\ lag = 0
    /\ reply = NoReply /\ peer = NoTimer

\* The dialog is closed and its monitor has ended.
SessionOver ==
    /\ sock = [s \in Session!Sessions |-> s]
    /\ open = [s \in Session!Sessions |-> FALSE]
    /\ rtp = [s \in Session!Sessions |-> "none"]
    /\ rtcp = [s \in Session!Sessions |-> Session!Expired]
    /\ recorded = [s \in Session!Sessions |-> "none"]
    /\ mon = [s \in Session!Sessions |->
                [closed |-> s = 1, rd |-> IF s = 1 THEN "done" ELSE "off",
                 wr |-> IF s = 1 THEN "done" ELSE "off"]]
    /\ cur = 1 /\ reader = 1
    /\ upd = [pc |-> "idle", rebind |-> FALSE, old |-> 1, new |-> 1]
    /\ closing = "done"
    /\ hook = FALSE
    /\ listen = [Session!Idle EXCEPT !.calls = MaxListens]
    /\ stopper = "off"

MCInit == (Init /\ SessionOver) \/ (TimerOver /\ Session!Init)

MCNext ==
    \/ Next /\ UNCHANGED sessionVars
    \/ Session!Next /\ UNCHANGED vars

MCSpec == MCInit /\ [][MCNext]_<<vars, sessionVars>> /\ Fairness /\ Session!Fairness

\* Between updates the dialog's RTP session, and no other, is monitored (RTPSession).
CurrentMonitored == Session!CurrentMonitored

\* Reads and updates of the RTP session do not harm each other (RTPSession).
ReadFollows == Session!ReadFollows

\* Nothing waits for ever: a session that grows old is refreshed or ended
\* (SessionTimer), a Listen that is told to stop returns, and an update and a Close
\* get past the RTCP monitor (RTPSession).
NothingHangs == OldSessionSeenTo /\ Session!ListenEnds /\ Session!MonitorCloseReturns
=============================================================================
