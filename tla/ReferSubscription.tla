-------------------------- MODULE ReferSubscription --------------------------
(***************************************************************************)
(* The referrer's side of a REFER on one dialog: the attempts registered   *)
(* in DialogMedia (dialog_media.go), the caller that sends a REFER and     *)
(* observes it (dialogReferObserve, dialog_session.go), the handlers of    *)
(* the NOTIFYs the peer sends back, and the timer that ends a refer        *)
(* subscription at its deadline.                                           *)
(*                                                                         *)
(* One action is one critical section of referMu, or one step outside it,  *)
(* but for recordReferNotify: it reads the clock and later replaces the    *)
(* bound timer, which may fire in between, so it is two steps and the lock *)
(* is held from the first to the second.                                   *)
(* Time is the clock `now', from 1; a deadline is an instant of it, 0      *)
(* while the subscription has not begun.  A SIP message is reduced to what *)
(* routing and the attempt's life depend on, and forgotten once handled.   *)
(***************************************************************************)
EXTENDS Integers, Sequences, FiniteSets

CONSTANTS
  Attempts,         \* calls of dialogReferObserve on this dialog
  Handlers,         \* NOTIFYs the peer sends, one handler goroutine each
  MaxNotifies,      \* maxReferNotifies
  TimerN,           \* 64*T1
  MaxBound,         \* referSubscriptionMaxBound
  Expires,          \* the expires values a NOTIFY may give
  Nobody,           \* the nil *referAttempt
  MaxInFlight,      \* bound: REFERs whose Do has not returned, at a time
  MaxCallbackRefers,\* bound: REFERs sent with an OnNotify callback instead
  MaxNow            \* bound: the last instant of the clock

ASSUME TimesAssumption ==
  /\ TimerN \in Nat \ {0} /\ MaxBound \in Nat \ {0} /\ MaxNow \in Nat
  /\ TimerN <= MaxBound
  /\ Expires \subseteq Nat
ASSUME BoundsAssumption ==
  /\ MaxNotifies \in Nat \ {0}
  /\ MaxInFlight \in Nat /\ MaxCallbackRefers \in Nat
ASSUME NobodyAssumption == Nobody \notin Attempts

VARIABLES
  att,        \* att[a]: the referAttempt and the goroutine that observes it
  latest,     \* referLatest
  highest,    \* referHighestCSeq
  hs,         \* hs[h]: the handler of a NOTIFY
  nextCSeq,   \* the CSeq the dialog gives to its next request
  callback,   \* onReferNotify # nil
  callbackCSeqs, \* history: the CSeqs of the REFERs sent with a callback
  ended,      \* the dialog's INVITE usage has ended (BYE)
  now

vars == <<att, latest, highest, hs, nextCSeq, callback, callbackCSeqs,
          ended, now>>

-----------------------------------------------------------------------------
Open == "open"    \* the zero ReferEnd
NoExpires == -1   \* a Subscription-State without a readable expires
EndKinds == {"FinalNotify", "Refused", "Cancelled", "SubscriptionEnded",
             "SubscriptionExpired", "NoNotify"}

\* A NOTIFY: its Event id (0 for none), whether its sipfrag is a final status
\* or its Subscription-State terminated, and the expires it gives.
Kinds == {"progress", "terminated", "final"}
Notify == [id : Nat, kind : Kinds, expires : Expires \cup {NoExpires}]

isFinal(m) == m.kind = "final"
endsSubscription(m) == m.kind \in {"final", "terminated"}

referSubscriptionBound(m) ==
  IF m.expires = NoExpires THEN TimerN
  ELSE IF m.expires < MaxBound THEN m.expires ELSE MaxBound

(***************************************************************************)
(* An attempt.  caller is where dialogReferObserve stands and outcome what *)
(* Do returned; ctx is TRUE once its context ended.  cseq is 0 until       *)
(* recorded; wire is the CSeq its REFER was really sent with.  live says   *)
(* the bound timer is armed and has neither fired nor been stopped; fired  *)
(* holds the arming numbers of timers that fired and whose function has    *)
(* not run.  Of a recorded NOTIFY its kind is kept.  closes counts the     *)
(* close(done).  accepted is history: the instant of the 2xx, 0 before it. *)
(***************************************************************************)
Callers == {"idle", "sending", "responded", "waiting", "returned", "failed"}

Attempt == [caller : Callers, outcome : {"none", "2xx", "refused", "error"},
            ctx : BOOLEAN, wire : Nat, cseq : Nat, registered : BOOLEAN,
            end : EndKinds \cup {Open}, notifies : Seq(Kinds),
            dropped : Nat, deadline : Nat, armed : Nat, live : BOOLEAN,
            fired : SUBSET Nat, closes : Nat,
            accepted : Nat]

NewAttempt ==
  [caller |-> "idle", outcome |-> "none", ctx |-> FALSE, wire |-> 0,
   cseq |-> 0, registered |-> FALSE, end |-> Open, notifies |-> <<>>,
   dropped |-> 0, deadline |-> 0, armed |-> 0, live |-> FALSE, fired |-> {},
   closes |-> 0, accepted |-> 0]

\* A NOTIFY handler: `to' is the attempt recordReferNotify returned, `read' the
\* clock it read.  At "locked" it holds referMu.
HandlerPcs == {"idle", "recording", "locked", "answering", "retiring", "done"}
Answers == {0, 200, 400, 481}
Handler == [pc : HandlerPcs, msg : Notify, to : Attempts \cup {Nobody},
            read : Nat, answer : Answers, reported : BOOLEAN]

NoNotifyYet == [id |-> 0, kind |-> "progress", expires |-> NoExpires]
NewHandler == [pc |-> "idle", msg |-> NoNotifyYet, to |-> Nobody, read |-> 0,
               answer |-> 0, reported |-> FALSE]

Init ==
  /\ att = [a \in Attempts |-> NewAttempt]
  /\ latest = Nobody /\ highest = 0
  /\ hs = [h \in Handlers |-> NewHandler]
  /\ nextCSeq = 1
  /\ callback = FALSE /\ callbackCSeqs = {}
  /\ ended = FALSE
  /\ now = 1

-----------------------------------------------------------------------------
(* The helpers that run with referMu held, as functions of the attempt.    *)

notified(r) == r.notifies # <<>>

Closes(r) == IF r.registered THEN r.closes + 1 ELSE r.closes

retireReferAttemptLocked(r) ==
  [r EXCEPT !.live = FALSE, !.registered = FALSE, !.closes = Closes(r)]

SetEnd(r, end) == [r EXCEPT !.end = end]

ArmDeadlineOnly(r, deadline) == [r EXCEPT !.armed = @ + 1, !.deadline = deadline]

armReferBoundLocked(r, deadline) ==
  [r EXCEPT !.armed = @ + 1, !.deadline = deadline, !.live = TRUE]

BoundEnd(r) == IF notified(r) THEN "SubscriptionExpired" ELSE "NoNotify"

endReferAttemptOnItsBoundLocked(r) ==
  retireReferAttemptLocked(SetEnd(r, BoundEnd(r)))

\* Past maxReferNotifies a terminal NOTIFY takes the last place and any other
\* is only counted.
Kept(notifies, m) ==
  IF Len(notifies) < MaxNotifies THEN Append(notifies, m.kind)
  ELSE IF endsSubscription(m) THEN [notifies EXCEPT ![Len(notifies)] = m.kind]
  ELSE notifies

Dropped(r) == IF Len(r.notifies) < MaxNotifies THEN r.dropped ELSE r.dropped + 1

EndBy(m) == IF isFinal(m) THEN "FinalNotify"
            ELSE IF endsSubscription(m) THEN "SubscriptionEnded"
            ELSE Open

recordLocked(r, m) ==
  [r EXCEPT !.notifies = Kept(r.notifies, m), !.dropped = Dropped(r),
            !.end = EndBy(m)]

\* What recordReferNotify does to the attempt the NOTIFY is routed to, before
\* its deadline: record it, and unless it ended the attempt move the deadline.
NextDeadline(r, m, t) ==
  LET given == t + referSubscriptionBound(m)
  IN  IF notified(r) /\ r.deadline < given THEN r.deadline ELSE given

RecordOpen(r, m, t) ==
  LET recorded == recordLocked(r, m)
  IN  IF recorded.end # Open THEN recorded
      ELSE armReferBoundLocked(recorded, NextDeadline(r, m, t))

FinishTakes(r, end) == (r.end = Open \/ end = "Refused") /\ end # Open

finishReferAttempt(r, end) ==
  retireReferAttemptLocked(IF FinishTakes(r, end) THEN SetEnd(r, end) ELSE r)

-----------------------------------------------------------------------------
(* Routing: the registered attempt a NOTIFY belongs to.                    *)

Registered == {a \in Attempts : att[a].registered}
Awaiting == {a \in Registered : att[a].cseq = 0}

\* An id may be that of an attempt whose CSeq is not recorded yet: the latest,
\* alone in awaiting its CSeq, and only an id above every recorded CSeq.
MayRace(m) == latest # Nobody /\ Awaiting = {latest} /\ m.id > highest

referNotifyTargetLocked(m) ==
  IF m.id = 0
  THEN IF latest \in Registered THEN latest ELSE Nobody
  ELSE IF \E a \in Registered : att[a].cseq = m.id
  THEN CHOOSE a \in Registered : att[a].cseq = m.id
  ELSE IF MayRace(m) THEN latest ELSE Nobody

referNotifyExpected(m) ==
  \/ callback
  \/ LET a == referNotifyTargetLocked(m) IN a # Nobody /\ att[a].end = Open

-----------------------------------------------------------------------------
(* The caller: dialogReferObserve.                                         *)

\* A step that may arm the bound timer happens early enough for the bounded
\* clock to reach the deadline it sets.
Horizon == now + MaxBound <= MaxNow

\* referMu is free.
Unlocked == \A h \in Handlers : hs[h].pc # "locked"

InFlight == {a \in Attempts : att[a].caller = "sending"}

Set(a, r) == att' = [att EXCEPT ![a] = r]
OnlyAttempts ==
  UNCHANGED <<latest, highest, hs, nextCSeq, callback, callbackCSeqs, ended, now>>

\* The dialog is confirmed and the context alive: register, before sending.
beginReferAttempt(a) ==
  /\ Unlocked /\ ~ended
  /\ att[a].caller = "idle"
  /\ Cardinality(InFlight) < MaxInFlight
  /\ Set(a, [att[a] EXCEPT !.caller = "sending", !.registered = TRUE])
  /\ latest' = a
  /\ UNCHANGED <<highest, hs, nextCSeq, callback, callbackCSeqs, ended, now>>

\* Do puts the dialog's next CSeq on the REFER and sends it.
SendRefer(a) ==
  /\ att[a].caller = "sending" /\ att[a].wire = 0
  /\ Set(a, [att[a] EXCEPT !.wire = nextCSeq])
  /\ nextCSeq' = nextCSeq + 1
  /\ UNCHANGED <<latest, highest, hs, callback, callbackCSeqs, ended, now>>

\* A nil header: no REFER was built, and the attempt is dropped.
ReferNotBuilt(a) ==
  /\ Unlocked /\ att[a].caller = "sending" /\ att[a].wire = 0
  /\ Set(a, [retireReferAttemptLocked(att[a]) EXCEPT !.caller = "failed"])
  /\ OnlyAttempts

\* Do returns, with a response or an error, and the CSeq is recorded.
setReferAttemptCSeq(a) ==
  /\ Unlocked /\ att[a].caller = "sending" /\ att[a].wire # 0
  /\ \E o \in {"2xx", "refused", "error"} :
       Set(a, [att[a] EXCEPT !.caller = "responded", !.outcome = o,
                             !.cseq = att[a].wire])
  /\ highest' = IF att[a].wire > highest THEN att[a].wire ELSE highest
  /\ UNCHANGED <<latest, hs, nextCSeq, callback, callbackCSeqs, ended, now>>

NeverBegun(r) == FALSE
NotBegun(r) == r.end = Open /\ r.armed = 0

\* A 2xx: Timer N starts unless a NOTIFY already began the subscription.
startReferSubscription(a) ==
  LET r == IF NotBegun(att[a])
           THEN armReferBoundLocked(att[a], now + TimerN) ELSE att[a]
  IN
  /\ Unlocked /\ Horizon
  /\ att[a].caller = "responded" /\ att[a].outcome = "2xx"
  /\ Set(a, [r EXCEPT !.caller = "waiting", !.accepted = now])
  /\ OnlyAttempts

\* dialogReferObserve returns what finishReferAttempt made of the attempt.
Returns(a, end) ==
  Set(a, [finishReferAttempt(att[a], end) EXCEPT !.caller = "returned"])

\* A response that is not 2xx.
ReferRefused(a) ==
  /\ Unlocked /\ att[a].caller = "responded" /\ att[a].outcome = "refused"
  /\ Returns(a, "Refused")
  /\ OnlyAttempts

\* An error from Do: given up when the context ended, else dropped.
ReferNotCarried(a) ==
  /\ Unlocked /\ att[a].caller = "responded" /\ att[a].outcome = "error"
  /\ \/ att[a].ctx /\ Returns(a, "Cancelled")
     \/ /\ ~att[a].ctx
        /\ Set(a, [retireReferAttemptLocked(att[a]) EXCEPT !.caller = "failed"])
  /\ OnlyAttempts

\* The select: done closed, or the context ended; either when both are ready.
ObserveReturns(a) ==
  /\ Unlocked /\ att[a].caller = "waiting"
  /\ \/ att[a].closes > 0 /\ Returns(a, Open)
     \/ att[a].ctx /\ Returns(a, "Cancelled")
  /\ OnlyAttempts

\* The caller's context ends.
CtxEnds(a) ==
  /\ att[a].caller \in {"sending", "responded", "waiting"} /\ ~att[a].ctx
  /\ Set(a, [att[a] EXCEPT !.ctx = TRUE])
  /\ OnlyAttempts

\* ReferOptions with OnNotify: the callback is installed and a REFER is sent
\* that no attempt observes and whose CSeq nobody records.
ReferWithCallback ==
  /\ ~ended
  /\ Cardinality(callbackCSeqs) < MaxCallbackRefers
  /\ callback' = TRUE
  /\ callbackCSeqs' = callbackCSeqs \cup {nextCSeq}
  /\ nextCSeq' = nextCSeq + 1
  /\ UNCHANGED <<att, latest, highest, hs, ended, now>>

-----------------------------------------------------------------------------
(* The subscription's timer.                                               *)

BoundFires(a) ==
  /\ att[a].live /\ now >= att[a].deadline
  /\ Set(a, [att[a] EXCEPT !.live = FALSE, !.fired = @ \cup {att[a].armed}])
  /\ OnlyAttempts

BoundStandsWhileOpen(r, k) == r.end = Open
BoundStands(r, k) == r.end = Open /\ r.armed = k

endReferAttemptOnItsBound(a, k) ==
  LET r == [att[a] EXCEPT !.fired = @ \ {k}] IN
  /\ Unlocked /\ k \in att[a].fired
  /\ Set(a, IF BoundStands(r, k) THEN endReferAttemptOnItsBoundLocked(r) ELSE r)
  /\ OnlyAttempts

-----------------------------------------------------------------------------
(* The handler of a NOTIFY.                                                *)

\* The peer sends NOTIFYs about REFERs it received: an id names one of them.
SentCSeqs == {0} \cup callbackCSeqs \cup {att[a].wire : a \in Attempts}

PeerNotify ==
  {m \in [id : SentCSeqs, kind : Kinds, expires : Expires \cup {NoExpires}] :
     endsSubscription(m) => m.expires = NoExpires}

\* handleReferNotify up to recordReferNotify: the ended dialog's 481, and the
\* 400 of a body that is no sipfrag.  Only referNotifyExpected takes referMu.
NotifyArrives(h) ==
  /\ hs[h].pc = "idle" /\ nextCSeq > 1
  /\ ended /\ ~callback => Unlocked
  /\ \E m \in PeerNotify, parsed \in BOOLEAN :
       LET refused == ended /\ ~referNotifyExpected(m) IN
       hs' = [hs EXCEPT ![h] =
         [@ EXCEPT !.msg = IF ~refused /\ parsed THEN m ELSE NoNotifyYet,
                   !.pc = IF ~refused /\ parsed THEN "recording" ELSE "done",
                   !.answer = IF refused THEN 481
                              ELSE IF parsed THEN 0 ELSE 400,
                   !.reported = refused /\ parsed]]
  /\ UNCHANGED <<att, latest, highest, nextCSeq, callback, callbackCSeqs,
                 ended, now>>

PastDeadline(r, t) == r.deadline # 0 /\ t >= r.deadline

\* recordReferNotify up to its time.Now(): it takes referMu and reads the clock.
RecordReads(h) ==
  /\ Horizon /\ Unlocked /\ hs[h].pc = "recording"
  /\ hs' = [hs EXCEPT ![h] = [@ EXCEPT !.pc = "locked", !.read = now]]
  /\ UNCHANGED <<att, latest, highest, nextCSeq, callback, callbackCSeqs,
                 ended, now>>

\* The rest of it, by the clock it read: the attempt's bound timer may have
\* fired since, and its function waits for referMu.
recordReferNotify(h) ==
  LET m == hs[h].msg
      t == hs[h].read
      a == referNotifyTargetLocked(m)
      held == a # Nobody /\ att[a].end = Open
      late == held /\ PastDeadline(att[a], t)
  IN
  /\ hs[h].pc = "locked"
  /\ hs' = [hs EXCEPT ![h] = [@ EXCEPT !.pc = "answering", !.msg = NoNotifyYet,
                                      !.read = 0,
                                      !.to = IF held /\ ~late THEN a ELSE Nobody]]
  /\ \/ ~held /\ UNCHANGED att
     \/ late /\ Set(a, endReferAttemptOnItsBoundLocked(att[a]))
     \/ held /\ ~late /\ Set(a, RecordOpen(att[a], m, t))
  /\ UNCHANGED <<latest, highest, nextCSeq, callback, callbackCSeqs,
                 ended, now>>

Unmatched(h) == hs[h].to = Nobody /\ ~callback

\* The answer: 481 and the report when neither an attempt nor a callback
\* takes the NOTIFY, else 200.
NotifyAnswered(h) ==
  /\ hs[h].pc = "answering"
  /\ LET unmatched == Unmatched(h) IN
     hs' = [hs EXCEPT ![h] =
       [@ EXCEPT !.pc = IF unmatched THEN "done" ELSE "retiring",
                 !.answer = IF unmatched THEN 481 ELSE 200,
                 !.reported = unmatched]]
  /\ UNCHANGED <<att, latest, highest, nextCSeq, callback, callbackCSeqs,
                 ended, now>>

RetireDue(a) == a # Nobody /\ att[a].end # Open

\* After the 200, an attempt the NOTIFY ended is retired.
retireEndedReferAttempt(h) ==
  LET a == hs[h].to IN
  /\ Unlocked /\ hs[h].pc = "retiring"
  /\ hs' = [hs EXCEPT ![h] = [@ EXCEPT !.pc = "done", !.to = Nobody]]
  /\ IF RetireDue(a) THEN Set(a, retireReferAttemptLocked(att[a]))
     ELSE UNCHANGED att
  /\ UNCHANGED <<latest, highest, nextCSeq, callback, callbackCSeqs,
                 ended, now>>

-----------------------------------------------------------------------------
\* A BYE ends the INVITE usage of the dialog and none of its attempts.
DialogEnds ==
  /\ ~ended /\ ended' = TRUE
  /\ UNCHANGED <<att, latest, highest, hs, nextCSeq, callback, callbackCSeqs,
                 now>>

Tick ==
  /\ now < MaxNow /\ now' = now + 1
  /\ UNCHANGED <<att, latest, highest, hs, nextCSeq, callback, callbackCSeqs,
                 ended>>

CallerStep(a) ==
  \/ beginReferAttempt(a) \/ SendRefer(a) \/ ReferNotBuilt(a)
  \/ setReferAttemptCSeq(a) \/ startReferSubscription(a) \/ ReferRefused(a)
  \/ ReferNotCarried(a) \/ ObserveReturns(a) \/ CtxEnds(a)

TimerStep(a) ==
  \/ BoundFires(a)
  \/ \E k \in att[a].fired : endReferAttemptOnItsBound(a, k)

HandlerStep(h) ==
  \/ NotifyArrives(h) \/ RecordReads(h) \/ recordReferNotify(h)
  \/ NotifyAnswered(h) \/ retireEndedReferAttempt(h)

Next ==
  \/ \E a \in Attempts : CallerStep(a) \/ TimerStep(a)
  \/ \E h \in Handlers : HandlerStep(h)
  \/ ReferWithCallback \/ DialogEnds \/ Tick

Spec == Init /\ [][Next]_vars

(***************************************************************************)
(* Fairness: time passes, the runtime runs a timer that is due, and the    *)
(* goroutines that are ready, the one that holds referMu among them, run.  *)
(* Nothing is assumed of the peer: it may never send a NOTIFY, and the     *)
(* caller's context may never end.                                         *)
(***************************************************************************)
FairSpec ==
  /\ Spec /\ WF_vars(Tick)
  /\ \A a \in Attempts :
       /\ WF_vars(TimerStep(a))
       /\ WF_vars(startReferSubscription(a)) /\ WF_vars(ObserveReturns(a))
  /\ \A h \in Handlers :
       WF_vars(recordReferNotify(h) \/ NotifyAnswered(h) \/ retireEndedReferAttempt(h))

-----------------------------------------------------------------------------
\* The state has its types.
TypeOK ==
  /\ att \in [Attempts -> Attempt]
  /\ latest \in Attempts \cup {Nobody}
  /\ highest \in Nat
  /\ hs \in [Handlers -> Handler]
  /\ nextCSeq \in Nat \ {0}
  /\ callback \in BOOLEAN /\ callbackCSeqs \subseteq Nat
  /\ ended \in BOOLEAN
  /\ now \in Nat \ {0}

Begun(a) == att[a].armed > 0

\* No attempt lives unbounded: while an attempt whose subscription began is open
\* its bound timer is armed, or has fired and is about to end it.
BoundHeld ==
  \A a \in Attempts :
    att[a].registered /\ att[a].end = Open /\ Begun(a) =>
      att[a].live \/ att[a].armed \in att[a].fired

\* The deadline's end is true: a timer that fired as a NOTIFY was replacing it
\* (endReferAttemptOnItsBound), or a NOTIFY handled late, ends nothing before the
\* deadline in force, and NoNotify is reported of an attempt exactly when none
\* was recorded on it.
ExpiresTruly ==
  [][\A a \in Attempts :
       /\ att[a].end = Open
       /\ att'[a].end \in {"SubscriptionExpired", "NoNotify"}
       => /\ now >= att[a].deadline
          /\ att'[a].end = "NoNotify" <=> ~notified(att'[a])]_vars

\* A subscription ends at most 64*T1 plus the local limit after the 2xx that
\* accepted its REFER, whatever NOTIFYs came before or after that 2xx.
DeadlineBounded ==
  \A a \in Attempts :
    att[a].accepted # 0 =>
      att[a].deadline <= att[a].accepted + TimerN + MaxBound

\* The deadline's end tells the truth about the NOTIFYs: NoNotify means none was
\* recorded, SubscriptionExpired that one was.
EndAgrees ==
  \A a \in Attempts :
    /\ att[a].end = "NoNotify" => ~notified(att[a])
    /\ att[a].end = "SubscriptionExpired" => notified(att[a])

\* An observation the caller is given has an end: dialogReferObserve finishes
\* with the zero end only when a NOTIFY or the deadline has ended the attempt.
ObservationHasEnd ==
  \A a \in Attempts : att[a].caller = "returned" => att[a].end # Open

\* The attempt's done channel is closed at most once (a second close panics),
\* and exactly when the attempt left referAttempts.
DoneClosedOnce ==
  \A a \in Attempts :
    att[a].closes =
      IF att[a].caller # "idle" /\ ~att[a].registered THEN 1 ELSE 0

\* Once a NOTIFY was recorded, a later one brings the deadline earlier or leaves
\* it, and never lengthens the subscription.
DeadlineNeverLater ==
  [][\A a \in Attempts :
       notified(att[a]) => att'[a].deadline <= att[a].deadline]_vars

\* The first end stands: only a refused REFER changes it, before the caller is
\* told, and what the caller was told never changes.
EndStands ==
  [][\A a \in Attempts :
       /\ att[a].end # Open => att'[a].end \in {att[a].end, "Refused"}
       /\ att[a].caller = "returned" =>
            /\ att'[a].end = att[a].end
            /\ att'[a].notifies = att[a].notifies]_vars

\* An accepted REFER is reported to its caller in the end, though the peer may
\* send no NOTIFY and the context may never end.
AcceptedIsReported ==
  \A a \in Attempts :
    att[a].caller = "waiting" ~> att[a].caller = "returned"

=============================================================================
