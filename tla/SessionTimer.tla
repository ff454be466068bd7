---------------------------- MODULE SessionTimer ----------------------------
(***************************************************************************)
(* The RFC 4028 session timer of an answered call (session_timers.go and   *)
(* the session-timer half of dialog_server_session.go).                    *)
(*                                                                         *)
(* The INVITE's Session-Expires is negotiated once (negotiate,             *)
(* buildTimerAnswer) and launches one goroutine, run, which refreshes the  *)
(* session while we are the refresher and ends the call when the peer is   *)
(* and falls silent.  Two other actors change the state run waits on: the  *)
(* handler of the peer's re-INVITEs (answerPeer) and the application's own *)
(* re-INVITEs (requestHeaders, answered), which refresh the session too.   *)
(*                                                                         *)
(* The peer holds a session of its own, which it reads off the headers, by *)
(* its own role in the exchange.  A 2xx travels: ours is unacknowledged    *)
(* until the peer has read it, and the peer's holds for the peer before we *)
(* have read it, or though we never do.                                    *)
(*                                                                         *)
(* Time is kept relative, so that the model needs no clock bound: "left"   *)
(* counts down to what run waits for and "age" counts up, to MaxAge, from  *)
(* the last 2xx that set the state.                                        *)
(***************************************************************************)
EXTENDS Integers, FiniteSets

CONSTANTS
    DefaultMinSE,   \* defaultMinSE
    DefaultSE,      \* defaultSessionExpires
    MinRefresh,     \* minRefreshInterval
    PolicyMinSE,    \* SessionTimerPolicy.MinSE, 0 when not set
    PolicySE,       \* SessionTimerPolicy.DefaultSE, 0 when not set
    PreferUAS,      \* SessionTimerPolicy.PreferUASRefresher
    Grace,          \* what watchdogGrace resolves to
    InviteSEs,      \* the Session-Expires an INVITE may carry
    UpdateSEs,      \* those a re-INVITE, or a 2xx to one of ours, may carry
    MinSEs,         \* the Min-SE values the peer may name
    RetryAfters,    \* the Retry-After values of a 500 or 503
    App,            \* whether the application sends re-INVITEs of its own
    PendingWaits,   \* how long ReInvite waits after a 491
    MaxLag,         \* how long run may be ready to go on before it does
    MaxAge          \* where age stops counting

Absent == -1
Refreshers == {"uac", "uas", "none"}

ASSUME ConstantsAssumption ==
    /\ DefaultMinSE \in Nat /\ DefaultSE \in Nat /\ MinRefresh \in Nat \ {0}
    /\ PolicyMinSE \in Nat /\ PolicySE \in Nat
    /\ PreferUAS \in BOOLEAN /\ App \in BOOLEAN
    /\ Grace \in Nat \ {0}
    /\ InviteSEs \subseteq Nat /\ UpdateSEs \subseteq Nat
    /\ MinSEs \subseteq Nat /\ RetryAfters \subseteq Nat
    /\ PendingWaits \subseteq Nat
    /\ MaxLag \in Nat /\ MaxAge \in Nat

Larger(a, b) == IF a >= b THEN a ELSE b

(***************************************************************************)
(* A peer's parsed offer: Session-Expires, Min-SE and refresher, and       *)
(* whether the request lists timer in Supported.  parseSessionTimerOffer   *)
(* reports no refresher without a Session-Expires.                         *)
(***************************************************************************)
Offers(ses) ==
    {o \in [se : ses \cup {Absent}, minSE : MinSEs \cup {Absent},
            refresher : Refreshers, timer : BOOLEAN] :
        o.se = Absent => o.refresher = "none"}

-----------------------------------------------------------------------------
(* The negotiation of the INVITE. *)

\* max(our Min-SE, the peer's): the peer may raise the floor, never lower it.
Floor(minSE) ==
    Larger(IF PolicyMinSE > 0 THEN PolicyMinSE ELSE DefaultMinSE, minSE)

refreshCadence(expires) == Larger(expires \div 2, MinRefresh)

Candidate(se) ==
    CASE se # Absent -> se
      [] se = Absent /\ PolicySE > 0 -> PolicySE
      [] OTHER -> DefaultSE

Elected(refresher) ==
    IF refresher = "none" /\ PreferUAS THEN "uas" ELSE refresher

BelowFloor(o) == o.se # Absent /\ o.se < Floor(o.minSE)

negotiate(o, ourRole) ==
    [negotiated |-> Larger(Candidate(o.se), Floor(o.minSE)),
     refresher  |-> Elected(o.refresher),
     belowFloor |-> BelowFloor(o),
     weRefresh  |-> Elected(o.refresher) = ourRole]

-----------------------------------------------------------------------------
VARIABLES
    state,       \* sessionTimer.state
    changed,     \* a signal is in sessionTimer.changed (capacity 1)
    pc,          \* where run is
    st,          \* the snapshot run waits on, Off when it does not wait
    left,        \* time left of run's wait, Absent when nothing is due
    refreshing,  \* run's local of the same name
    retried,     \* refreshSession's local of the same name
    ours,        \* whose re-INVITE of ours is in progress
    named,       \* its headers, and whether they name us the refresher
    ended,       \* the dialog's context has ended
    age,         \* time since a 2xx last set the state
    lag,         \* time run has been ready to go on
    reply,       \* the 2xx to a re-INVITE in flight, and its headers
    peer         \* the session as the peer holds it

timer == <<state, changed, age>>
run   == <<pc, st, left, refreshing, retried>>
own   == <<ours, named>>
wire  == <<reply, peer>>
vars  == <<timer, run, own, wire, lag, ended>>

States == [active : BOOLEAN, expires : Nat, weRefresh : BOOLEAN, minSE : Nat]
Lefts == Nat \cup {Absent}
PCs == {"none", "rejected", "loop", "snapshot", "waiting", "refresh", "sent",
        "retryWait", "done"}
Callers == {"nobody", "run", "app"}
Requests == [se : Lefts, refresher : Refreshers, weRefresh : BOOLEAN]
\* "out": ours, unacknowledged; "in": the peer's, unread; "lost": the peer's, which
\* we never read.
Replies == [dir : {"none", "out", "in", "lost"}, se : Lefts, refresher : Refreshers]
Views == [on : BOOLEAN, expires : Nat, who : {"us", "peer", "unnamed"}]

\* The state has its types.
TypeOK ==
    /\ state \in States /\ st \in States
    /\ changed \in BOOLEAN /\ refreshing \in BOOLEAN /\ retried \in BOOLEAN
    /\ ended \in BOOLEAN
    /\ pc \in PCs
    /\ left \in Lefts
    /\ ours \in Callers
    /\ named \in Requests
    /\ age \in Nat /\ lag \in Nat
    /\ reply \in Replies
    /\ peer \in Views

NoRequest == [se |-> Absent, refresher |-> "none", weRefresh |-> FALSE]
Reply(dir, h) == [dir |-> dir, se |-> h.se, refresher |-> h.refresher]
NoReply == Reply("none", NoRequest)
NoTimer == [on |-> FALSE, expires |-> 0, who |-> "unnamed"]
Off == [active |-> FALSE, expires |-> 0, weRefresh |-> FALSE, minSE |-> 0]

Init ==
    /\ state = Off /\ st = Off
    /\ changed = FALSE
    /\ pc = "none"
    /\ left = Absent
    /\ refreshing = TRUE
    /\ retried = FALSE
    /\ ours = "nobody"
    /\ named = NoRequest
    /\ ended = FALSE
    /\ age = 0 /\ lag = 0
    /\ reply = NoReply /\ peer = NoTimer

(***************************************************************************)
(* The peer reads a 2xx of ours as the UAC of the INVITE it answers, which *)
(* refreshes when the token says uac.  Sending a 2xx of its own it is the  *)
(* UAS, and leaves the refresher our request named when it names none.     *)
(***************************************************************************)
ReadSession(h, uac, uas) ==
    IF h.se = Absent THEN NoTimer
    ELSE [on |-> TRUE, expires |-> h.se,
          who |-> CASE h.refresher = "uac" -> uac
                    [] h.refresher = "uas" -> uas
                    [] OTHER -> "unnamed"]

PeerHears(h) == ReadSession(h, "peer", "us")
PeerSays(h, request) ==
    ReadSession(IF h.refresher = "none" THEN [h EXCEPT !.refresher = request.refresher]
                                    ELSE h, "us", "peer")

\* The state is replaced and run is signalled, without blocking.
setLockedSilently(s) ==
    /\ state' = s
    /\ changed' = changed
    /\ age' = 0

setLocked(s) ==
    /\ state' = s
    /\ changed' = TRUE
    /\ age' = 0

(***************************************************************************)
(* The call is answered: a below-floor interval is rejected with 422 and   *)
(* starts nothing; otherwise the 2xx carries the negotiated interval and   *)
(* the timer runs.  A peer that offers no Session-Expires gets no timer.   *)
(***************************************************************************)
InviteHeaders(o) ==
    LET dec == negotiate(o, "uas") IN
    [se |-> dec.negotiated, refresher |-> dec.refresher]

launched(o) ==
    LET dec == negotiate(o, "uas") IN
    [active |-> TRUE, expires |-> dec.negotiated, weRefresh |-> dec.weRefresh,
     minSE |-> IF o.minSE = Absent THEN 0 ELSE o.minSE]

prepareSessionTimers(o) ==
    /\ pc = "none" /\ ~ended /\ BelowFloor(o)
    /\ pc' = "rejected" /\ ended' = TRUE
    /\ UNCHANGED <<timer, st, left, refreshing, retried, own, wire, lag>>

\* The 2xx has been acknowledged by then.
launchSessionTimers(o) ==
    /\ pc = "none" /\ ~ended /\ o.se # Absent /\ ~BelowFloor(o)
    /\ state' = launched(o)
    /\ peer' = PeerHears(InviteHeaders(o))
    /\ age' = 0
    /\ pc' = "loop"
    /\ UNCHANGED <<changed, st, left, refreshing, retried, own, reply, lag, ended>>

-----------------------------------------------------------------------------
(* run *)

\* How long run waits on snapshot s, Absent when only for a change or the end.
DueNoGrace(s, on) ==
    CASE ~s.active \/ (s.weRefresh /\ ~on) -> Absent
      [] s.active /\ s.weRefresh /\ on -> refreshCadence(s.expires)
      [] OTHER -> s.expires

DueUnwatched(s, on) ==
    IF s.active /\ s.weRefresh /\ on THEN refreshCadence(s.expires) ELSE Absent

Due(s, on) ==
    CASE ~s.active \/ (s.weRefresh /\ ~on) -> Absent
      [] s.active /\ s.weRefresh /\ on -> refreshCadence(s.expires)
      [] OTHER -> s.expires + Grace

\* The head of run's loop takes a signal, if there is one,
RunDrain ==
    /\ pc = "loop"
    /\ changed' = FALSE
    /\ refreshing' = (refreshing \/ changed)
    /\ pc' = "snapshot"
    /\ UNCHANGED <<state, age, st, left, retried, own, wire, lag, ended>>

\* and then reads the state it is to wait on.
RunSnapshot ==
    /\ pc = "snapshot"
    /\ st' = state
    /\ left' = Due(state, refreshing)
    /\ pc' = "waiting"
    /\ UNCHANGED <<timer, refreshing, retried, own, wire, lag, ended>>

RunHeadSwapped ==
    \/ /\ pc = "loop" /\ pc' = "snapshot"
       /\ st' = state
       /\ UNCHANGED <<timer, left, refreshing, retried, own, wire, lag, ended>>
    \/ /\ pc = "snapshot" /\ pc' = "waiting"
       /\ changed' = FALSE
       /\ refreshing' = (refreshing \/ changed)
       /\ left' = Due(st, refreshing')
       /\ UNCHANGED <<state, age, st, retried, own, wire, lag, ended>>

RunHead == RunDrain \/ RunSnapshot

\* The snapshot and the timer of a wait go with it.
WaitOver == st' = Off /\ left' = Absent

\* wait returns wakeChanged.
WakeChanged ==
    /\ pc = "waiting" /\ changed
    /\ changed' = FALSE
    /\ refreshing' = TRUE
    /\ WaitOver
    /\ pc' = "loop"
    /\ UNCHANGED <<state, age, retried, own, wire, lag, ended>>

\* Where run, and refreshSession in it, look at the context.
ContextRead == {"waiting", "refresh", "sent", "retryWait"}

\* A re-INVITE of ours is over; a 2xx to it that we have not read stays so.
OursOver == ours' = "nobody" /\ named' = NoRequest
Unread == IF reply.dir = "in" THEN Reply("lost", NoRequest) ELSE reply

\* wait returns wakeDone, refresh returns refreshEnded: the context ended.
RunEnds ==
    /\ ended /\ pc \in ContextRead
    /\ pc' = "done" /\ retried' = FALSE /\ WaitOver
    /\ IF pc = "sent" THEN OursOver /\ reply' = Unread ELSE UNCHANGED <<own, reply>>
    /\ UNCHANGED <<timer, refreshing, peer, lag, ended>>

\* wait returns wakeDue: select takes any ready case, so a signal or the end
\* of the context may be waiting too.
WakeDue(weRefresh) ==
    /\ pc = "waiting" /\ left = 0 /\ st.weRefresh = weRefresh

\* The peer let the session expire: our BYE ends the dialog.
expireSession ==
    /\ WakeDue(FALSE) /\ WaitOver
    /\ ended' = TRUE /\ pc' = "done"
    /\ UNCHANGED <<timer, refreshing, retried, own, wire, lag>>

refreshSession ==
    /\ WakeDue(TRUE) /\ WaitOver
    /\ pc' = "refresh" /\ retried' = FALSE
    /\ UNCHANGED <<timer, refreshing, own, wire, lag, ended>>

-----------------------------------------------------------------------------
(* Re-INVITEs of ours, one at a time and none while one of the peer's is   *)
(* answered and its ACK awaited (the exclusion MediaUpdate checks).        *)

NoExchange == ours = "nobody" /\ reply.dir # "out"

requestHeaders ==
    IF state.active
    THEN [se |-> Larger(state.minSE, state.expires),
          refresher |-> IF state.weRefresh THEN "uac" ELSE "uas",
          weRefresh |-> state.weRefresh]
    ELSE NoRequest

RefreshSent ==
    /\ pc = "refresh" /\ NoExchange /\ ~ended
    /\ ours' = "run" /\ named' = requestHeaders /\ pc' = "sent"
    /\ UNCHANGED <<timer, st, left, refreshing, retried, wire, lag, ended>>

AppSent ==
    /\ App /\ pc # "none" /\ NoExchange /\ ~ended
    /\ ours' = "app" /\ named' = requestHeaders
    /\ UNCHANGED <<timer, run, wire, lag, ended>>

\* The peer accepts it, with Session-Expires se and refresher r or with neither.
\* Asked for no timer it names none.
PeerAccepts(se, r) ==
    /\ ours # "nobody" /\ reply.dir # "in" /\ ~ended
    /\ named.se = Absent => se = Absent
    /\ se = Absent => r = "none"
    /\ LET h == [se |-> se, refresher |-> r] IN
       reply' = Reply("in", h) /\ peer' = PeerSays(h, named)
    /\ UNCHANGED <<timer, run, own, lag, ended>>

\* Who refreshes after a 2xx to a re-INVITE of ours naming refresher r.
AnsweredRefresherSwapped(r, weRefresh) ==
    CASE r = "uac" -> FALSE [] r = "uas" -> TRUE [] OTHER -> weRefresh
AnsweredRefresher(r, weRefresh) ==
    CASE r = "uac" -> TRUE [] r = "uas" -> FALSE [] OTHER -> weRefresh

\* The 2xx is read.
answered ==
    /\ reply.dir = "in" /\ reply' = NoReply
    /\ \/ /\ state.active /\ reply.se # Absent
          /\ setLocked([state EXCEPT
                !.expires = reply.se,
                !.weRefresh = AnsweredRefresher(reply.refresher, named.weRefresh)])
       \/ /\ state.active /\ reply.se = Absent
          /\ setLocked([state EXCEPT !.active = FALSE])
       \/ /\ ~state.active
          /\ UNCHANGED timer

AppAnswered ==
    /\ ours = "app" /\ ~ended
    /\ answered
    /\ OursOver
    /\ UNCHANGED <<run, peer, lag, ended>>

AppFailed ==
    /\ ours = "app"
    /\ OursOver /\ reply' = Unread
    /\ UNCHANGED <<timer, run, peer, lag, ended>>

\* The refresh is answered 2xx.  Refreshing goes on when the answer has no SDP
\* or one that applies, and stops on one that does not apply.
RefreshAnswered(applies) ==
    /\ pc = "sent" /\ ~ended
    /\ answered
    /\ OursOver
    /\ pc' = "loop"
    /\ refreshing' = (refreshing /\ applies)
    /\ retried' = FALSE
    /\ UNCHANGED <<st, left, peer, lag, ended>>

\* 408, 481, a timeout or an answer that fails after the fork is installed:
\* the call is hung up.  Closed media, on a call that is ending, ends run too.
RefreshLost ==
    /\ pc = "sent" /\ ~ended
    /\ OursOver /\ reply' = Unread
    /\ pc' = "done" /\ ended' = TRUE /\ retried' = FALSE
    /\ UNCHANGED <<timer, st, left, refreshing, peer, lag>>

\* The peer's final response is not a 2xx.
Refused == pc = "sent" /\ ~ended /\ reply.dir # "in" /\ OursOver

\* 491: ReInvite waits and sends again, with the headers of that moment.
RefreshPending(wait) ==
    /\ Refused
    /\ pc' = "retryWait" /\ left' = wait
    /\ UNCHANGED <<timer, st, refreshing, retried, wire, lag, ended>>

\* raiseMinSE, without a signal: a 422 moves no wait.
raiseMinSE(minSE) ==
    /\ state' = [state EXCEPT !.minSE = Larger(state.minSE, minSE)]
    /\ UNCHANGED <<changed, age>>

\* The first 422 with a Min-SE: asked again with it.
RefreshTooSmall(minSE) ==
    /\ Refused /\ ~retried
    /\ raiseMinSE(minSE)
    /\ retried' = TRUE /\ pc' = "refresh"
    /\ UNCHANGED <<st, left, refreshing, wire, lag, ended>>

\* The first 500 or 503 with a Retry-After.
RefreshLater(after) ==
    /\ Refused /\ ~retried
    /\ retried' = TRUE /\ pc' = "retryWait" /\ left' = after
    /\ UNCHANGED <<timer, st, refreshing, wire, lag, ended>>

RetryWaitOver ==
    /\ pc = "retryWait" /\ left = 0
    /\ pc' = "refresh" /\ left' = Absent
    /\ UNCHANGED <<timer, st, refreshing, retried, own, wire, lag, ended>>

\* Any other failure: refreshing stops until the state changes.
RefreshStops ==
    /\ pc = "sent" /\ ~ended
    /\ OursOver /\ reply' = Unread
    /\ pc' = "loop" /\ refreshing' = FALSE /\ retried' = FALSE
    /\ UNCHANGED <<timer, st, left, peer, lag, ended>>

-----------------------------------------------------------------------------
(* The peer's re-INVITEs *)

\* Who refreshes after our 2xx to a re-INVITE of the peer's.
PeerRefresher(o) ==
    CASE o.refresher = "uac" -> FALSE
      [] o.refresher = "uas" -> TRUE
      [] o.refresher = "none" /\ ~o.timer -> TRUE
      [] OTHER -> state.weRefresh

PeerState(o) ==
    [state EXCEPT !.expires = IF o.se = Absent THEN state.expires ELSE o.se,
                  !.minSE = Larger(state.minSE, o.minSE),
                  !.weRefresh = PeerRefresher(o)]

AnswerHeadersSwapped(s) ==
    IF s.active THEN [se |-> s.expires, refresher |-> IF s.weRefresh THEN "uac" ELSE "uas"]
                ELSE [se |-> Absent, refresher |-> "none"]
AnswerHeaders(s) ==
    IF s.active THEN [se |-> s.expires, refresher |-> IF s.weRefresh THEN "uas" ELSE "uac"]
                ELSE [se |-> Absent, refresher |-> "none"]

\* Our 2xx to a re-INVITE of the peer's sets the state as it is sent.
answerPeer(o) ==
    /\ pc \notin {"none", "rejected"} /\ NoExchange /\ ~ended
    /\ IF state.active
       THEN setLocked(PeerState(o)) /\ reply' = Reply("out", AnswerHeaders(PeerState(o)))
       ELSE UNCHANGED timer /\ reply' = Reply("out", AnswerHeaders(state))
    /\ UNCHANGED <<run, own, peer, lag, ended>>

\* The peer reads it and acknowledges it,
PeerAcks ==
    /\ reply.dir = "out" /\ ~ended
    /\ peer' = PeerHears(reply)
    /\ reply' = NoReply
    /\ UNCHANGED <<timer, run, own, lag, ended>>

\* or the ACK does not come: the call is hung up.
AckMissing ==
    /\ reply.dir = "out" /\ ~ended
    /\ ended' = TRUE
    /\ UNCHANGED <<timer, run, own, wire, lag>>

\* The dialog ends: a BYE of either side, or the application closes it.
DialogEnds ==
    /\ ~ended /\ pc # "none"
    /\ ended' = TRUE
    /\ UNCHANGED <<timer, run, own, wire, lag>>

-----------------------------------------------------------------------------
(* Time *)

\* run can take a step without anything else happening.
Runnable ==
    \/ pc \in {"loop", "snapshot"}
    \/ pc = "waiting" /\ (changed \/ ended \/ left = 0)
    \/ pc = "retryWait" /\ (ended \/ left = 0)
    \/ pc = "refresh" /\ (ended \/ NoExchange)
    \/ pc = "sent" /\ ended

Tick ==
    /\ pc \notin {"none", "rejected", "done"}
    /\ Runnable => lag < MaxLag
    /\ lag' = IF Runnable THEN lag + 1 ELSE 0
    /\ left' = IF left > 0 THEN left - 1 ELSE left
    /\ age' = IF age < MaxAge THEN age + 1 ELSE age
    /\ UNCHANGED <<state, changed, pc, st, refreshing, retried, own, wire, ended>>

-----------------------------------------------------------------------------
RefreshSettled ==
    \/ \E applies \in BOOLEAN : RefreshAnswered(applies)
    \/ RefreshLost
    \/ \E minSE \in MinSEs : RefreshTooSmall(minSE)
    \/ \E after \in RetryAfters : RefreshLater(after)
    \/ RefreshStops

PendingNext == \E wait \in PendingWaits : RefreshPending(wait)

RunNext ==
    \/ RunHead \/ WakeChanged \/ RunEnds
    \/ expireSession \/ refreshSession \/ RefreshSent \/ RetryWaitOver

Launch ==
    \E o \in Offers(InviteSEs) : prepareSessionTimers(o) \/ launchSessionTimers(o)

AppSettled == AppFailed \/ AppAnswered

AppNext == AppSent \/ AppSettled

AckSettled == PeerAcks \/ AckMissing

PeerNext ==
    \/ \E o \in Offers(UpdateSEs) : answerPeer(o)
    \/ \E se \in UpdateSEs \cup {Absent}, r \in Refreshers : PeerAccepts(se, r)
    \/ AckSettled

Next ==
    \/ Launch \/ RunNext \/ RefreshSettled \/ PendingNext
    \/ AppNext \/ PeerNext \/ DialogEnds \/ Tick

Spec == Init /\ [][Next]_vars

(***************************************************************************)
(* run is scheduled, time passes, and a re-INVITE is settled in the end:   *)
(* its transaction, or the wait for the ACK, times out, and a peer does    *)
(* not answer 491 for ever.  A Go mutex starves nobody, so a refresh gets  *)
(* its turn.                                                               *)
(***************************************************************************)
Fairness ==
    /\ WF_vars(RunNext) /\ WF_vars(Tick) /\ WF_vars(AppSettled)
    /\ WF_vars(AckSettled)
    /\ SF_vars(RefreshSent) /\ SF_vars(RefreshSettled)

FairSpec == Spec /\ Fairness

-----------------------------------------------------------------------------
(* Properties *)

\* Our state s and the peer's view v of it are the same session.
Agree(s, v) ==
    /\ v.on = s.active
    /\ s.active => /\ v.expires = s.expires
                   /\ v.who \in IF s.weRefresh THEN {"us"} ELSE {"peer", "unnamed"}

(***************************************************************************)
(* Both sides hold the same session: with no 2xx to a re-INVITE in flight  *)
(* or lost, the peer holds a timer when we do, with our interval, and the  *)
(* refresher it takes from the tokens it read or sent is the one run acts  *)
(* on; where no token named one, run leaves refreshing to the peer         *)
(* (buildTimerAnswer, requestHeaders, answered and answerPeer write and    *)
(* read the tokens, whose meaning turns with the direction).               *)
(***************************************************************************)
SidesAgree == reply.dir = "none" => Agree(state, peer)

\* What run's wait depends on.
Waited(s) == [active |-> s.active, expires |-> s.expires, weRefresh |-> s.weRefresh]

(***************************************************************************)
(* No change is lost: while run waits, its snapshot is the state but for   *)
(* the Min-SE, which moves no wait, or a signal waits for it, though a     *)
(* handler may change the state between run's drain of the signal and its  *)
(* snapshot (setLocked signals without blocking, run drains first).        *)
(***************************************************************************)
NoLostChange ==
    pc = "waiting" => changed \/ Waited(st) = Waited(state)

\* No 2xx set the state for the interval and the grace.  An age of MaxAge stands
\* for every longer one.
Overdue == age >= state.expires + Grace \/ age = MaxAge

(***************************************************************************)
(* expireSession ends a call only when no 2xx set the state for the        *)
(* interval and the grace, unless the 2xx that did is still unread by run. *)
(***************************************************************************)
ExpiresOverdue == [][expireSession => changed \/ Overdue]_vars

(***************************************************************************)
(* A session that grows old is seen to.  Where the peer is to refresh and  *)
(* falls silent, run ends the call, unless a 2xx sets the state anew.      *)
(* Where we are, run calls refreshSession, unless the dialog ends, a 2xx   *)
(* sets the state anew or a failed refresh stopped refreshing.             *)
(***************************************************************************)
OldSessionSeenTo ==
    /\ (state.active /\ ~state.weRefresh /\ age = MaxAge) ~> (ended \/ age < MaxAge)
    /\ (state.active /\ state.weRefresh /\ age = MaxAge)
           ~> (pc = "refresh" \/ ended \/ age < MaxAge \/ ~refreshing)

=============================================================================
