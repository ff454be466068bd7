---------------------- MODULE ReferSubscriptionProofs ----------------------
(***************************************************************************)
(* Proofs about ReferSubscription, for any number of attempts and NOTIFYs, *)
(* any clock bound and any values of the timers: an attempt is bounded,    *)
(* ends once and is told to its caller with an end.                        *)
(***************************************************************************)
EXTENDS ReferSubscription, TLAPS

(***************************************************************************)
(* The inductive strengthening of the properties of an attempt: what an    *)
(* attempt r may look like at the instant t.                               *)
(***************************************************************************)
AttemptOK(r, t) ==
  /\ r.caller = "idle" =>
       /\ ~r.registered /\ r.armed = 0 /\ r.wire = 0 /\ r.end = Open
       /\ ~r.live /\ r.notifies = <<>> /\ r.cseq = 0 /\ r.closes = 0
  /\ r.caller # "idle" => r.closes = IF r.registered THEN 0 ELSE 1
  /\ r.caller \in {"returned", "failed"} => ~r.registered
  \* retired, other than by dropReferAttempt, means ended
  /\ ~r.registered /\ r.caller \notin {"idle", "failed"} => r.end # Open
  \* the bound timer
  /\ r.armed = 0 => ~r.live /\ r.deadline = 0
  /\ r.armed > 0 => r.deadline > 0
  /\ r.fired \subseteq 1..r.armed
  /\ r.armed \in r.fired => t >= r.deadline
  /\ r.registered /\ r.end = Open /\ r.armed > 0 =>
       r.live \/ r.armed \in r.fired
  \* the deadline
  /\ r.accepted = 0 => r.deadline <= t + MaxBound
  /\ r.accepted # 0 => r.deadline <= r.accepted + TimerN + MaxBound
  /\ r.accepted <= t
  /\ r.accepted # 0 => r.caller \in {"waiting", "returned"}
  /\ r.accepted = 0 /\ r.armed > 0 => r.notifies # <<>>
  /\ r.accepted # 0 /\ r.notifies = <<>> => r.deadline <= r.accepted + TimerN
  /\ r.accepted # 0 /\ r.end = Open => r.armed > 0
  /\ r.notifies # <<>> /\ r.end = Open => r.armed > 0
  \* the end
  /\ r.end = "NoNotify" => r.notifies = <<>>
  /\ r.end = "SubscriptionExpired" => r.notifies # <<>>

AttemptsOK == \A a \in Attempts : AttemptOK(att[a], now)

\* A handler that holds referMu has read the clock, and time has gone on.
ReadOK(g, t) == g.pc = "locked" => g.read \in 1..t
ReadsOK == \A h \in Handlers : ReadOK(hs[h], now)

\* What a step of instant t may do to an attempt: r before it, q after it.
AttemptStep(r, q, t) ==
  /\ q \in Attempt /\ AttemptOK(q, t)
  /\ r.notifies # <<>> => q.deadline <= r.deadline
  /\ r.end # Open => q.end \in {r.end, "Refused"}
  /\ r.caller = "returned" => q.end = r.end /\ q.notifies = r.notifies
  /\ r.end = Open /\ q.end \in {"SubscriptionExpired", "NoNotify"} =>
       t >= r.deadline

-----------------------------------------------------------------------------
(* What the helpers that run with referMu held do to an attempt.           *)

\* retireReferAttemptLocked stops the timer, unregisters the attempt, closes done
\* once, and leaves the rest.
LEMMA RetireFacts ==
  ASSUME NEW r \in Attempt
  PROVE  LET q == retireReferAttemptLocked(r) IN
         /\ q \in Attempt
         /\ ~q.live /\ ~q.registered /\ q.closes = Closes(r)
         /\ q.caller = r.caller /\ q.outcome = r.outcome /\ q.ctx = r.ctx
         /\ q.wire = r.wire /\ q.cseq = r.cseq /\ q.end = r.end
         /\ q.notifies = r.notifies /\ q.dropped = r.dropped
         /\ q.deadline = r.deadline /\ q.armed = r.armed
         /\ q.fired = r.fired /\ q.accepted = r.accepted
  <1>1. Closes(r) \in Nat
    BY DEF Closes, Attempt
  <1> QED
    BY <1>1, ZenonT(60) DEF retireReferAttemptLocked, Attempt

\* Retiring an attempt that has ended keeps AttemptOK.
LEMMA RetireEnded ==
  ASSUME NEW r \in Attempt, NEW t \in Nat, AttemptOK(r, t),
         r.caller # "idle", r.end # Open
  PROVE  /\ retireReferAttemptLocked(r) \in Attempt
         /\ AttemptOK(retireReferAttemptLocked(r), t)
  <1> DEFINE q == retireReferAttemptLocked(r)
  <1>1. Closes(r) = 1
    BY DEF Closes, Attempt, AttemptOK
  <1>2. q \in Attempt
    BY RetireFacts
  <1>3. AttemptOK(q, t)
    BY <1>1, RetireFacts DEF AttemptOK
  <1> QED
    BY <1>2, <1>3

\* Setting the end of an attempt and retiring it keeps AttemptOK, when the end
\* agrees with the NOTIFYs recorded.
LEMMA EndAndRetire ==
  ASSUME NEW r \in Attempt, NEW t \in Nat, AttemptOK(r, t),
         r.caller # "idle", NEW e \in EndKinds,
         e = "NoNotify" => r.notifies = <<>>,
         e = "SubscriptionExpired" => r.notifies # <<>>
  PROVE  /\ retireReferAttemptLocked(SetEnd(r, e)) \in Attempt
         /\ AttemptOK(retireReferAttemptLocked(SetEnd(r, e)), t)
  <1> DEFINE q == SetEnd(r, e)
  <1>1. q \in Attempt
    BY ZenonT(60) DEF SetEnd, Attempt
  <1>2. /\ q.end = e /\ q.registered = r.registered /\ q.closes = r.closes
        /\ q.caller = r.caller /\ q.live = r.live /\ q.wire = r.wire
        /\ q.cseq = r.cseq /\ q.notifies = r.notifies
        /\ q.deadline = r.deadline /\ q.armed = r.armed
        /\ q.fired = r.fired /\ q.accepted = r.accepted
    BY DEF SetEnd, Attempt
  <1>3. e # Open
    BY DEF EndKinds, Open
  <1>4. AttemptOK(q, t)
    BY <1>2, <1>3 DEF AttemptOK
  <1> HIDE DEF q
  <1>5. /\ retireReferAttemptLocked(q) \in Attempt
        /\ AttemptOK(retireReferAttemptLocked(q), t)
    BY <1>1, <1>2, <1>3, <1>4, RetireEnded
  <1> QED
    BY <1>5 DEF q

\* What the NOTIFYs of an attempt become: the sequence stays one of NOTIFYs and
\* is not empty.
LEMMA KeptType ==
  ASSUME NEW ns \in Seq(Kinds), NEW m \in Notify
  PROVE  Kept(ns, m) \in Seq(Kinds) /\ Kept(ns, m) # <<>>
  <1>0. m.kind \in Kinds
    BY DEF Notify
  <1>1. CASE Len(ns) < MaxNotifies
    BY <1>0, <1>1 DEF Kept
  <1>2. CASE Len(ns) >= MaxNotifies /\ endsSubscription(m)
    <2>1. Len(ns) \in 1..Len(ns)
      BY <1>2, BoundsAssumption
    <2>2. [ns EXCEPT ![Len(ns)] = m.kind] \in Seq(Kinds)
      BY <1>0, <2>1
    <2>3. Len([ns EXCEPT ![Len(ns)] = m.kind]) = Len(ns)
      BY <2>1
    <2> QED
      BY <1>2, <2>1, <2>2, <2>3, BoundsAssumption DEF Kept
  <1>3. CASE Len(ns) >= MaxNotifies /\ ~endsSubscription(m)
    BY <1>3, BoundsAssumption DEF Kept
  <1> QED
    BY <1>1, <1>2, <1>3, BoundsAssumption

\* The duration a NOTIFY gives is at most the local limit.
LEMMA BoundType ==
  ASSUME NEW m \in Notify
  PROVE  referSubscriptionBound(m) \in 0..MaxBound
  <1>1. m.expires \in Expires \/ m.expires = NoExpires
    BY DEF Notify
  <1>2. CASE m.expires = NoExpires
    BY <1>2, TimesAssumption DEF referSubscriptionBound
  <1>3. CASE m.expires # NoExpires
    <2>1. m.expires \in Nat
      BY <1>1, <1>3, TimesAssumption, ZenonT(60)
    <2> QED
      BY <1>3, <2>1, TimesAssumption DEF referSubscriptionBound
  <1> QED
    BY <1>2, <1>3

\* The deadline a NOTIFY sets, and that a later NOTIFY moves it no later.
LEMMA NextDeadlineFacts ==
  ASSUME NEW r \in Attempt, NEW t \in Nat \ {0}, NEW m \in Notify,
         r.notifies # <<>> => r.deadline > 0
  PROVE  LET d == NextDeadline(r, m, t) IN
         /\ d \in Nat \ {0}
         /\ d <= t + MaxBound
         /\ r.notifies # <<>> => d <= r.deadline
  <1>1. referSubscriptionBound(m) \in Nat
        /\ referSubscriptionBound(m) <= MaxBound
    BY BoundType, TimesAssumption
  <1>2. r.deadline \in Nat
    BY DEF Attempt
  <1>3. CASE r.notifies # <<>> /\ r.deadline < t + referSubscriptionBound(m)
    BY <1>1, <1>2, <1>3, TimesAssumption DEF NextDeadline, notified
  <1>4. CASE ~(r.notifies # <<>> /\ r.deadline < t + referSubscriptionBound(m))
    BY <1>1, <1>2, <1>4, TimesAssumption DEF NextDeadline, notified
  <1> QED
    BY <1>3, <1>4

\* Recording a NOTIFY whose handler read the clock before the deadline, at u, keeps
\* AttemptOK at t, when the bound may have fired: what does not end the attempt
\* arms its bound anew, and the one that fired is no longer the one armed.
LEMMA RecordOpenOK ==
  ASSUME NEW r \in Attempt, NEW t \in Nat, AttemptOK(r, t), NEW u \in 1..t,
         r.registered, r.end = Open, ~PastDeadline(r, u), NEW m \in Notify
  PROVE  /\ RecordOpen(r, m, u) \in Attempt
         /\ AttemptOK(RecordOpen(r, m, u), t)
  <1> DEFINE q == recordLocked(r, m)
             d == NextDeadline(r, m, u)
             s == armReferBoundLocked(q, d)
  <1>1. /\ EndBy(m) \in {"FinalNotify", "SubscriptionEnded", Open}
        /\ Dropped(r) \in Nat
    BY DEF EndBy, Dropped, Attempt
  <1>2. Kept(r.notifies, m) \in Seq(Kinds) /\ Kept(r.notifies, m) # <<>>
    BY KeptType DEF Attempt
  <1>3. q \in Attempt
    BY <1>1, <1>2, ZenonT(60) DEF recordLocked, Attempt, EndKinds
  <1>4. /\ q.end = EndBy(m) /\ q.registered = r.registered
        /\ q.closes = r.closes /\ q.caller = r.caller /\ q.live = r.live
        /\ q.wire = r.wire /\ q.cseq = r.cseq
        /\ q.notifies = Kept(r.notifies, m)
        /\ q.deadline = r.deadline /\ q.armed = r.armed
        /\ q.fired = r.fired /\ q.accepted = r.accepted
    BY ZenonT(60) DEF recordLocked, Attempt
  <1>5. r.notifies # <<>> => r.deadline > 0
    BY DEF AttemptOK, Attempt
  <1>6. d \in Nat \ {0} /\ d <= u + MaxBound /\ d <= t + MaxBound
        /\ (r.notifies # <<>> => d <= r.deadline)
    <2>1. u \in Nat \ {0} /\ u <= t
      OBVIOUS
    <2>2. d \in Nat \ {0} /\ d <= u + MaxBound
          /\ (r.notifies # <<>> => d <= r.deadline)
      BY <1>5, <2>1, NextDeadlineFacts, ZenonT(60)
    <2> HIDE DEF d
    <2> QED
      BY <2>1, <2>2, TimesAssumption
  <1> HIDE DEF q, d
  <1>7. CASE EndBy(m) # Open
    <2>1. AttemptOK(q, t)
      BY <1>1, <1>2, <1>4, <1>7, TimesAssumption DEF AttemptOK, Attempt, Open
    <2> QED
      BY <1>3, <1>4, <1>7, <2>1 DEF RecordOpen, q
  <1>8. CASE EndBy(m) = Open
    <2>0. q.armed \in Nat /\ q.armed + 1 \in Nat
      <3>1. q.armed \in Nat
        BY <1>3, Zenon DEF Attempt
      <3> QED BY <3>1
    <2>1. s \in Attempt
      BY <1>3, <1>6, <2>0, ZenonT(60) DEF armReferBoundLocked, Attempt
    <2>2. /\ s.armed = r.armed + 1 /\ s.deadline = d /\ s.live = TRUE
          /\ s.end = Open /\ s.registered = TRUE /\ s.closes = r.closes
          /\ s.caller = r.caller /\ s.wire = r.wire /\ s.cseq = r.cseq
          /\ s.notifies # <<>> /\ s.fired = r.fired
          /\ s.accepted = r.accepted
      BY <1>2, <1>3, <1>4, <1>8, ZenonT(60) DEF armReferBoundLocked, Attempt
    <2>3. r.armed \in Nat /\ r.accepted \in Nat /\ r.deadline \in Nat
      BY DEF Attempt
    <2>4. r.accepted # 0 => d <= r.accepted + TimerN + MaxBound
      BY <1>6, <2>3, TimesAssumption DEF AttemptOK, PastDeadline
    <2> HIDE DEF s
    <2>5. s.fired \subseteq 1..s.armed /\ s.armed \notin s.fired
      BY <2>2, <2>3 DEF AttemptOK
    <2>6. AttemptOK(s, t)
      BY <1>6, <2>2, <2>3, <2>4, <2>5, TimesAssumption DEF AttemptOK, Open
    <2> QED
      BY <1>4, <1>8, <2>1, <2>6 DEF s, RecordOpen, q, d
  <1> QED
    BY <1>7, <1>8

\* finishReferAttempt leaves an attempt ended and retired; with the zero end it
\* is called on an attempt that has ended already.
LEMMA FinishOK ==
  ASSUME NEW r \in Attempt, NEW t \in Nat, AttemptOK(r, t),
         r.caller \in {"responded", "waiting"},
         NEW e \in {Open, "Refused", "Cancelled"},
         e = Open => r.end # Open
  PROVE  LET q == finishReferAttempt(r, e) IN
         /\ q \in Attempt /\ AttemptOK(q, t)
         /\ q.end # Open /\ ~q.registered /\ q.caller = r.caller
         /\ q.notifies = r.notifies /\ q.deadline = r.deadline
         /\ q.wire = r.wire /\ q.cseq = r.cseq
         /\ q.end \in {r.end, e} /\ (r.end # Open => q.end \in {r.end, "Refused"})
  <1>0. r.caller # "idle"
    OBVIOUS
  <1>1. CASE FinishTakes(r, e)
    <2>1. e \in EndKinds /\ e # Open /\ e # "NoNotify" /\ e # "SubscriptionExpired"
      BY <1>1 DEF FinishTakes, EndKinds, Open
    <2>2. SetEnd(r, e) \in Attempt
      BY <2>1, ZenonT(60) DEF SetEnd, Attempt
    <2>3. /\ SetEnd(r, e).end = e /\ SetEnd(r, e).caller = r.caller
          /\ SetEnd(r, e).notifies = r.notifies
          /\ SetEnd(r, e).deadline = r.deadline
          /\ SetEnd(r, e).wire = r.wire /\ SetEnd(r, e).cseq = r.cseq
      BY DEF SetEnd, Attempt
    <2>4. /\ retireReferAttemptLocked(SetEnd(r, e)) \in Attempt
          /\ AttemptOK(retireReferAttemptLocked(SetEnd(r, e)), t)
      BY <1>0, <2>1, EndAndRetire
    <2>5. finishReferAttempt(r, e) = retireReferAttemptLocked(SetEnd(r, e))
      BY <1>1 DEF finishReferAttempt
    <2>6. r.end # Open => e = "Refused"
      BY <1>1 DEF FinishTakes
    <2> QED
      BY <2>1, <2>2, <2>3, <2>4, <2>5, <2>6, RetireFacts
  <1>2. CASE ~FinishTakes(r, e)
    <2>1. r.end # Open
      BY <1>2 DEF FinishTakes
    <2>2. finishReferAttempt(r, e) = retireReferAttemptLocked(r)
      BY <1>2 DEF finishReferAttempt
    <2>3. /\ retireReferAttemptLocked(r) \in Attempt
          /\ AttemptOK(retireReferAttemptLocked(r), t)
      BY <1>0, <2>1, RetireEnded
    <2> QED
      BY <2>1, <2>2, <2>3, RetireFacts
  <1> QED
    BY <1>1, <1>2

\* dialogReferObserve returning keeps AttemptOK.
LEMMA ReturnedOK ==
  ASSUME NEW q \in Attempt, NEW t \in Nat, AttemptOK(q, t),
         q.caller \in {"responded", "waiting"}, q.end # Open, ~q.registered
  PROVE  LET s == [q EXCEPT !.caller = "returned"] IN
         /\ s \in Attempt /\ AttemptOK(s, t)
         /\ s.end = q.end /\ s.notifies = q.notifies /\ s.deadline = q.deadline
         /\ s.wire = q.wire /\ s.cseq = q.cseq
  <1> DEFINE s == [q EXCEPT !.caller = "returned"]
  <1>1. s \in Attempt
    BY ZenonT(60) DEF Attempt, Callers
  <1>2. /\ s.caller = "returned" /\ s.end = q.end /\ s.registered = q.registered
        /\ s.closes = q.closes /\ s.live = q.live /\ s.wire = q.wire
        /\ s.cseq = q.cseq /\ s.notifies = q.notifies
        /\ s.deadline = q.deadline /\ s.armed = q.armed
        /\ s.fired = q.fired /\ s.accepted = q.accepted
    BY DEF Attempt
  <1> HIDE DEF s
  <1>3. AttemptOK(s, t)
    BY <1>2 DEF AttemptOK
  <1> QED
    BY <1>1, <1>2, <1>3 DEF s

\* dropReferAttempt keeps AttemptOK.
LEMMA DroppedOK ==
  ASSUME NEW r \in Attempt, NEW t \in Nat, AttemptOK(r, t),
         r.caller \in {"sending", "responded"}
  PROVE  LET s == [retireReferAttemptLocked(r) EXCEPT !.caller = "failed"] IN
         /\ s \in Attempt /\ AttemptOK(s, t)
         /\ s.end = r.end /\ s.notifies = r.notifies /\ s.deadline = r.deadline
         /\ s.wire = r.wire /\ s.cseq = r.cseq
  <1> DEFINE q == retireReferAttemptLocked(r)
             s == [q EXCEPT !.caller = "failed"]
  <1>1. Closes(r) = 1
    BY DEF Closes, Attempt, AttemptOK
  <1>2. q \in Attempt
    BY RetireFacts
  <1>3. /\ ~q.live /\ ~q.registered /\ q.closes = 1 /\ q.end = r.end
        /\ q.wire = r.wire /\ q.cseq = r.cseq /\ q.notifies = r.notifies
        /\ q.deadline = r.deadline /\ q.armed = r.armed
        /\ q.fired = r.fired /\ q.accepted = r.accepted
    BY <1>1, RetireFacts
  <1> HIDE DEF q
  <1>4. s \in Attempt
    BY <1>2, ZenonT(60) DEF Attempt, Callers
  <1>5. /\ s.caller = "failed" /\ s.end = q.end /\ s.registered = q.registered
        /\ s.closes = q.closes /\ s.live = q.live /\ s.wire = q.wire
        /\ s.cseq = q.cseq /\ s.notifies = q.notifies
        /\ s.deadline = q.deadline /\ s.armed = q.armed
        /\ s.fired = q.fired /\ s.accepted = q.accepted
    BY <1>2 DEF Attempt
  <1> HIDE DEF s
  <1>6. AttemptOK(s, t)
    BY <1>3, <1>5 DEF AttemptOK
  <1> QED
    BY <1>3, <1>4, <1>5, <1>6 DEF s, q

-----------------------------------------------------------------------------
(* One lemma per action that changes an attempt.                           *)

Inv == TypeOK /\ AttemptsOK /\ ReadsOK

\* A step that leaves the end, the NOTIFYs and the deadline of an attempt alone.
LEMMA QuietStep ==
  ASSUME NEW r \in Attempt, NEW q \in Attempt, NEW t \in Nat, AttemptOK(q, t),
         q.end = r.end, q.notifies = r.notifies, q.deadline = r.deadline
  PROVE  AttemptStep(r, q, t)
  BY DEF AttemptStep, Attempt, Open

\* beginReferAttempt registers an attempt that is still unused.
LEMMA BeginStep ==
  ASSUME NEW r \in Attempt, NEW t \in Nat, AttemptOK(r, t), r.caller = "idle"
  PROVE  AttemptStep(r, [r EXCEPT !.caller = "sending", !.registered = TRUE], t)
  <1> DEFINE q == [r EXCEPT !.caller = "sending", !.registered = TRUE]
  <1>1. q \in Attempt
    BY ZenonT(60) DEF Attempt, Callers
  <1>2. /\ q.caller = "sending" /\ q.registered = TRUE /\ q.end = r.end
        /\ q.closes = r.closes /\ q.live = r.live /\ q.wire = r.wire
        /\ q.cseq = r.cseq /\ q.notifies = r.notifies
        /\ q.deadline = r.deadline /\ q.armed = r.armed
        /\ q.fired = r.fired /\ q.accepted = r.accepted
    BY DEF Attempt
  <1> HIDE DEF q
  <1>3. AttemptOK(q, t)
    BY <1>2 DEF AttemptOK
  <1>4. AttemptStep(r, q, t)
    BY <1>1, <1>2, <1>3, QuietStep
  <1> QED
    BY <1>4 DEF q

\* Do putting a CSeq on the REFER.
LEMMA SendStep ==
  ASSUME NEW r \in Attempt, NEW t \in Nat, AttemptOK(r, t),
         r.caller = "sending", NEW c \in Nat
  PROVE  AttemptStep(r, [r EXCEPT !.wire = c], t)
  <1> DEFINE q == [r EXCEPT !.wire = c]
  <1>1. q \in Attempt
    BY ZenonT(60) DEF Attempt
  <1>2. /\ q.caller = r.caller /\ q.registered = r.registered /\ q.end = r.end
        /\ q.closes = r.closes /\ q.live = r.live
        /\ q.cseq = r.cseq /\ q.notifies = r.notifies
        /\ q.deadline = r.deadline /\ q.armed = r.armed
        /\ q.fired = r.fired /\ q.accepted = r.accepted
    BY DEF Attempt
  <1> HIDE DEF q
  <1>3. AttemptOK(q, t)
    BY <1>2 DEF AttemptOK
  <1>4. AttemptStep(r, q, t)
    BY <1>1, <1>2, <1>3, QuietStep
  <1> QED
    BY <1>4 DEF q

\* setReferAttemptCSeq, whatever the attempt's state.
LEMMA CSeqStep ==
  ASSUME NEW r \in Attempt, NEW t \in Nat, AttemptOK(r, t),
         r.caller = "sending", NEW o \in {"2xx", "refused", "error"}
  PROVE  AttemptStep(r, [r EXCEPT !.caller = "responded", !.outcome = o,
                                  !.cseq = r.wire], t)
  <1> DEFINE q == [r EXCEPT !.caller = "responded", !.outcome = o,
                            !.cseq = r.wire]
  <1>1. q \in Attempt
    BY ZenonT(60) DEF Attempt, Callers
  <1>2. /\ q.caller = "responded" /\ q.registered = r.registered
        /\ q.end = r.end /\ q.closes = r.closes /\ q.live = r.live
        /\ q.notifies = r.notifies
        /\ q.deadline = r.deadline /\ q.armed = r.armed
        /\ q.fired = r.fired /\ q.accepted = r.accepted
    BY DEF Attempt
  <1> HIDE DEF q
  <1>3. AttemptOK(q, t)
    BY <1>2 DEF AttemptOK
  <1>4. AttemptStep(r, q, t)
    BY <1>1, <1>2, <1>3, QuietStep
  <1> QED
    BY <1>4 DEF q

\* The caller's context ending.
LEMMA CtxStep ==
  ASSUME NEW r \in Attempt, NEW t \in Nat, AttemptOK(r, t)
  PROVE  AttemptStep(r, [r EXCEPT !.ctx = TRUE], t)
  <1> DEFINE q == [r EXCEPT !.ctx = TRUE]
  <1>1. q \in Attempt
    BY ZenonT(60) DEF Attempt
  <1>2. /\ q.caller = r.caller /\ q.registered = r.registered /\ q.end = r.end
        /\ q.closes = r.closes /\ q.live = r.live /\ q.wire = r.wire
        /\ q.cseq = r.cseq /\ q.notifies = r.notifies
        /\ q.deadline = r.deadline /\ q.armed = r.armed
        /\ q.fired = r.fired /\ q.accepted = r.accepted
    BY DEF Attempt
  <1> HIDE DEF q
  <1>3. AttemptOK(q, t)
    BY <1>2 DEF AttemptOK
  <1>4. AttemptStep(r, q, t)
    BY <1>1, <1>2, <1>3, QuietStep
  <1> QED
    BY <1>4 DEF q

\* The 2xx: Timer N is armed unless a NOTIFY began the subscription.
LEMMA StartStep ==
  ASSUME NEW r \in Attempt, NEW t \in Nat \ {0}, AttemptOK(r, t),
         r.caller = "responded"
  PROVE  LET q == IF NotBegun(r) THEN armReferBoundLocked(r, t + TimerN) ELSE r
         IN AttemptStep(r, [q EXCEPT !.caller = "waiting", !.accepted = t], t)
  <1> DEFINE q == IF NotBegun(r) THEN armReferBoundLocked(r, t + TimerN) ELSE r
             s == [q EXCEPT !.caller = "waiting", !.accepted = t]
  <1>1. q \in Attempt /\ q.caller = r.caller /\ q.registered = r.registered
        /\ q.end = r.end /\ q.closes = r.closes /\ q.wire = r.wire
        /\ q.cseq = r.cseq /\ q.notifies = r.notifies /\ q.fired = r.fired
    <2>1. r.armed + 1 \in Nat /\ t + TimerN \in Nat
      BY TimesAssumption DEF Attempt
    <2> QED
      BY <2>1, ZenonT(60) DEF armReferBoundLocked, Attempt
  <1>2. NotBegun(r) => q.armed = r.armed + 1 /\ q.deadline = t + TimerN
                       /\ q.live = TRUE
    BY DEF armReferBoundLocked, Attempt
  <1>3. ~NotBegun(r) => q = r
    OBVIOUS
  <1> HIDE DEF q
  <1>4. s \in Attempt
    BY <1>1, ZenonT(60) DEF Attempt, Callers
  <1>5. /\ s.caller = "waiting" /\ s.accepted = t /\ s.registered = q.registered
        /\ s.end = q.end /\ s.closes = q.closes /\ s.live = q.live
        /\ s.wire = q.wire /\ s.cseq = q.cseq /\ s.notifies = q.notifies
        /\ s.deadline = q.deadline /\ s.armed = q.armed /\ s.fired = q.fired
    BY <1>1 DEF Attempt
  <1> HIDE DEF s
  <1>6. r.armed \in Nat /\ r.deadline \in Nat /\ r.accepted = 0
    BY DEF Attempt, AttemptOK
  <1>7. CASE NotBegun(r)
    <2>1. r.armed = 0 /\ r.notifies = <<>> /\ r.fired = {}
      BY <1>7, <1>6 DEF NotBegun, AttemptOK
    <2>2. AttemptOK(s, t)
      BY <1>1, <1>2, <1>5, <1>6, <1>7, <2>1, TimesAssumption DEF AttemptOK
    <2> QED
      BY <1>1, <1>4, <1>5, <2>1, <2>2 DEF AttemptStep, s, q, Open
  <1>8. CASE ~NotBegun(r)
    <2>1. r.end # Open \/ r.armed > 0
      BY <1>8, <1>6 DEF NotBegun
    <2>2. AttemptOK(s, t)
      BY <1>1, <1>3, <1>5, <1>6, <1>8, <2>1, TimesAssumption DEF AttemptOK
    <2>3. AttemptStep(r, s, t)
      BY <1>1, <1>3, <1>4, <1>5, <1>8, <2>2, QuietStep
    <2> QED
      BY <2>3 DEF s, q
  <1> QED
    BY <1>7, <1>8

\* The bound timer firing at or after the deadline.
LEMMA FiresStep ==
  ASSUME NEW r \in Attempt, NEW t \in Nat, AttemptOK(r, t),
         r.live, t >= r.deadline
  PROVE  AttemptStep(r, [r EXCEPT !.live = FALSE,
                                  !.fired = r.fired \cup {r.armed}], t)
  <1> DEFINE q == [r EXCEPT !.live = FALSE, !.fired = r.fired \cup {r.armed}]
  <1>1. r.armed \in Nat /\ r.fired \subseteq Nat /\ r.deadline \in Nat
    BY DEF Attempt
  <1>2. q \in Attempt
    BY <1>1, ZenonT(60) DEF Attempt
  <1>3. /\ q.caller = r.caller /\ q.registered = r.registered /\ q.end = r.end
        /\ q.closes = r.closes /\ q.live = FALSE /\ q.wire = r.wire
        /\ q.cseq = r.cseq /\ q.notifies = r.notifies
        /\ q.deadline = r.deadline /\ q.armed = r.armed
        /\ q.fired = r.fired \cup {r.armed} /\ q.accepted = r.accepted
    BY DEF Attempt
  <1> HIDE DEF q
  <1>4. r.armed > 0
    BY <1>1 DEF AttemptOK
  <1>5. q.fired \subseteq 1..q.armed /\ q.armed \in q.fired
    BY <1>1, <1>3, <1>4 DEF AttemptOK
  <1>6. AttemptOK(q, t)
    BY <1>1, <1>3, <1>4, <1>5 DEF AttemptOK
  <1>7. AttemptStep(r, q, t)
    BY <1>2, <1>3, <1>6, QuietStep
  <1> QED
    BY <1>7 DEF q

\* endReferAttemptOnItsBoundLocked on an attempt whose deadline has passed.
LEMMA ExpireStep ==
  ASSUME NEW r \in Attempt, NEW t \in Nat, AttemptOK(r, t),
         r.caller # "idle", r.end = Open, t >= r.deadline,
         r.caller # "returned"
  PROVE  AttemptStep(r, endReferAttemptOnItsBoundLocked(r), t)
  <1> DEFINE e == BoundEnd(r)
             q == SetEnd(r, e)
             s == retireReferAttemptLocked(q)
  <1>1. /\ e \in EndKinds
        /\ e = "NoNotify" => r.notifies = <<>>
        /\ e = "SubscriptionExpired" => r.notifies # <<>>
    BY DEF BoundEnd, notified, EndKinds
  <1> HIDE DEF e
  <1>2. s \in Attempt /\ AttemptOK(s, t)
    BY <1>1, EndAndRetire
  <1>3. q \in Attempt /\ q.notifies = r.notifies /\ q.deadline = r.deadline
    BY <1>1 DEF SetEnd, Attempt
  <1> HIDE DEF q
  <1>4. s.notifies = r.notifies /\ s.deadline = r.deadline
    BY <1>3, RetireFacts
  <1>5. r.deadline \in Nat
    BY DEF Attempt
  <1> HIDE DEF s
  <1>6. AttemptStep(r, s, t)
    BY <1>2, <1>4, <1>5 DEF AttemptStep
  <1> QED
    BY <1>6 DEF s, q, e, endReferAttemptOnItsBoundLocked

\* A bound timer's function: it ends the attempt only when its arming stands.
LEMMA BoundStep ==
  ASSUME NEW r \in Attempt, NEW t \in Nat, AttemptOK(r, t), NEW k \in r.fired
  PROVE  LET q == [r EXCEPT !.fired = r.fired \ {k}] IN
         AttemptStep(r, IF BoundStands(q, k)
                        THEN endReferAttemptOnItsBoundLocked(q) ELSE q, t)
  <1> DEFINE q == [r EXCEPT !.fired = r.fired \ {k}]
  <1>1. r.armed \in Nat /\ r.fired \subseteq Nat /\ r.deadline \in Nat
    BY DEF Attempt
  <1>2. q \in Attempt
    BY <1>1, ZenonT(60) DEF Attempt
  <1>3. /\ q.caller = r.caller /\ q.registered = r.registered /\ q.end = r.end
        /\ q.closes = r.closes /\ q.live = r.live /\ q.wire = r.wire
        /\ q.cseq = r.cseq /\ q.notifies = r.notifies
        /\ q.deadline = r.deadline /\ q.armed = r.armed
        /\ q.fired = r.fired \ {k} /\ q.accepted = r.accepted
    BY DEF Attempt
  <1> HIDE DEF q
  <1>4. CASE BoundStands(q, k)
    <2> DEFINE s == endReferAttemptOnItsBoundLocked(q)
               e == BoundEnd(q)
               p == SetEnd(q, e)
    <2>1. r.end = Open /\ r.armed = k /\ t >= r.deadline /\ r.armed > 0
      BY <1>1, <1>3, <1>4 DEF BoundStands, AttemptOK
    <2>2. r.caller # "idle" /\ r.caller # "returned"
      BY <1>1, <2>1 DEF AttemptOK
    <2>3. /\ e \in EndKinds /\ e # Open
          /\ e = "NoNotify" => r.notifies = <<>>
          /\ e = "SubscriptionExpired" => r.notifies # <<>>
      BY <1>3 DEF BoundEnd, notified, EndKinds, Open
    <2> HIDE DEF e
    <2>4. p \in Attempt
      BY <1>2, <2>3, ZenonT(60) DEF SetEnd, Attempt
    <2>5. /\ p.caller = r.caller /\ p.registered = r.registered /\ p.end = e
          /\ p.closes = r.closes /\ p.live = r.live /\ p.wire = r.wire
          /\ p.cseq = r.cseq /\ p.notifies = r.notifies
          /\ p.deadline = r.deadline /\ p.armed = r.armed
          /\ p.fired = r.fired \ {k} /\ p.accepted = r.accepted
      BY <1>2, <1>3 DEF SetEnd, Attempt
    <2> HIDE DEF p
    <2>6. AttemptOK(p, t)
      BY <2>3, <2>5 DEF AttemptOK
    <2>7. /\ retireReferAttemptLocked(p) \in Attempt
          /\ AttemptOK(retireReferAttemptLocked(p), t)
          /\ retireReferAttemptLocked(p).deadline = r.deadline
      BY <2>2, <2>3, <2>4, <2>5, <2>6, RetireEnded, RetireFacts
    <2>8. AttemptStep(r, retireReferAttemptLocked(p), t)
      BY <1>1, <2>1, <2>2, <2>7 DEF AttemptStep
    <2>9. s = retireReferAttemptLocked(p)
      BY DEF endReferAttemptOnItsBoundLocked, p, e
    <2> QED
      BY <1>4, <2>8, <2>9 DEF q
  <1>5. CASE ~BoundStands(q, k)
    <2>1. r.end # Open \/ r.armed # k
      BY <1>3, <1>5 DEF BoundStands
    <2>2. AttemptOK(q, t)
      BY <1>1, <1>3, <2>1 DEF AttemptOK
    <2>3. AttemptStep(r, q, t)
      BY <1>2, <1>3, <2>2, QuietStep
    <2> QED
      BY <1>5, <2>3 DEF q
  <1> QED
    BY <1>4, <1>5

\* Recording a NOTIFY on an open attempt before its deadline.
LEMMA RecordStep ==
  ASSUME NEW r \in Attempt, NEW t \in Nat, AttemptOK(r, t), NEW u \in 1..t,
         r.registered, r.end = Open, ~PastDeadline(r, u), NEW m \in Notify
  PROVE  AttemptStep(r, RecordOpen(r, m, u), t)
  <1> DEFINE q == recordLocked(r, m)
             d == NextDeadline(r, m, u)
             s == armReferBoundLocked(q, d)
  <1>1. EndBy(m) \in {"FinalNotify", "SubscriptionEnded", Open}
        /\ Dropped(r) \in Nat
    BY DEF EndBy, Dropped, Attempt
  <1>2. q \in Attempt /\ q.end = EndBy(m) /\ q.deadline = r.deadline
    BY <1>1, KeptType, ZenonT(60) DEF recordLocked, Attempt, EndKinds
  <1>3. r.notifies # <<>> => r.deadline > 0
    BY DEF AttemptOK, Attempt
  <1>4. d \in Nat /\ (r.notifies # <<>> => d <= r.deadline)
    <2>1. u \in Nat \ {0}
      OBVIOUS
    <2> QED
      BY <1>3, <2>1, NextDeadlineFacts, ZenonT(60)
  <1>5. r.caller # "returned"
    BY DEF AttemptOK
  <1>6. RecordOpen(r, m, u) = IF q.end # Open THEN q ELSE s
    BY DEF RecordOpen
  <1>7. RecordOpen(r, m, u) \in Attempt /\ AttemptOK(RecordOpen(r, m, u), t)
    BY RecordOpenOK
  <1>8. r.deadline \in Nat
    BY DEF Attempt
  <1> HIDE DEF q, d
  <1>9. s.end = q.end /\ s.deadline = d
    BY <1>2 DEF armReferBoundLocked, Attempt
  <1> HIDE DEF s
  <1>10. CASE EndBy(m) # Open
    BY <1>1, <1>2, <1>5, <1>6, <1>7, <1>8, <1>10 DEF AttemptStep, Open
  <1>11. CASE EndBy(m) = Open
    BY <1>2, <1>4, <1>5, <1>6, <1>7, <1>8, <1>9, <1>11 DEF AttemptStep, Open
  <1> QED
    BY <1>10, <1>11

-----------------------------------------------------------------------------
(* The induction.                                                          *)

\* One attempt stepping keeps the invariant of them all.
LEMMA OneAttempt ==
  ASSUME Inv, NEW a \in Attempts, NEW r,
         AttemptStep(att[a], r, now), Set(a, r), now' = now
  PROVE  /\ att' \in [Attempts -> Attempt]
         /\ AttemptsOK'
         /\ \A b \in Attempts : AttemptStep(att[b], att'[b], now)
  <1>1. att \in [Attempts -> Attempt] /\ now \in Nat
    BY DEF Inv, TypeOK
  <1>2. r \in Attempt /\ AttemptOK(r, now)
    BY DEF AttemptStep
  <1>3. att' \in [Attempts -> Attempt] /\ att'[a] = r
        /\ \A b \in Attempts \ {a} : att'[b] = att[b]
    BY <1>1, <1>2 DEF Set
  <1>4. \A b \in Attempts : AttemptOK(att[b], now)
    BY DEF Inv, AttemptsOK
  <1>5. ASSUME NEW b \in Attempts \ {a}
        PROVE  AttemptStep(att[b], att'[b], now)
    BY <1>1, <1>3, <1>4, <1>5, QuietStep
  <1>6. \A b \in Attempts : AttemptOK(att'[b], now')
    BY <1>2, <1>3, <1>4
  <1> QED
    BY <1>3, <1>5, <1>6 DEF AttemptsOK

\* No attempt stepping.
LEMMA NoAttempt ==
  ASSUME Inv, UNCHANGED att, now' = now
  PROVE  /\ att' \in [Attempts -> Attempt]
         /\ AttemptsOK'
         /\ \A b \in Attempts : AttemptStep(att[b], att'[b], now)
  <1>1. att \in [Attempts -> Attempt] /\ now \in Nat
    BY DEF Inv, TypeOK
  <1>2. \A b \in Attempts : AttemptOK(att[b], now)
    BY DEF Inv, AttemptsOK
  <1>3. ASSUME NEW b \in Attempts PROVE AttemptStep(att[b], att'[b], now)
    BY <1>1, <1>2, QuietStep
  <1> QED
    BY <1>1, <1>2, <1>3 DEF AttemptsOK

\* The attempt a NOTIFY is routed to is registered.
LEMMA TargetRegistered ==
  ASSUME NEW m, referNotifyTargetLocked(m) # Nobody
  PROVE  /\ referNotifyTargetLocked(m) \in Attempts
         /\ att[referNotifyTargetLocked(m)].registered
  <1>1. CASE m.id = 0
    BY <1>1 DEF referNotifyTargetLocked, Registered
  <1>2. CASE m.id # 0 /\ \E a \in Registered : att[a].cseq = m.id
    <2>1. referNotifyTargetLocked(m) = CHOOSE a \in Registered : att[a].cseq = m.id
      BY <1>2 DEF referNotifyTargetLocked
    <2>2. referNotifyTargetLocked(m) \in Registered
      BY <1>2, <2>1
    <2> QED
      BY <2>2 DEF Registered
  <1>3. CASE m.id # 0 /\ ~\E a \in Registered : att[a].cseq = m.id
    <2>1. MayRace(m) /\ referNotifyTargetLocked(m) = latest
      BY <1>3 DEF referNotifyTargetLocked
    <2>2. latest \in Registered
      BY <2>1 DEF MayRace, Awaiting
    <2> QED
      BY <2>1, <2>2 DEF Registered
  <1> QED
    BY <1>1, <1>2, <1>3

\* The NOTIFYs the peer may send are NOTIFYs.
LEMMA PeerNotifyType ==
  ASSUME TypeOK
  PROVE  PeerNotify \subseteq Notify
  <1>0. \A a \in Attempts : att[a].wire \in Nat
    BY DEF TypeOK, Attempt
  <1>1. SentCSeqs \subseteq Nat
    <2> SUFFICES ASSUME NEW c \in SentCSeqs PROVE c \in Nat
      OBVIOUS
    <2>1. c = 0 \/ c \in callbackCSeqs \/ \E a \in Attempts : c = att[a].wire
      BY DEF SentCSeqs
    <2>2. CASE c = 0
      BY <2>2
    <2>3. CASE c \in callbackCSeqs
      BY <2>3 DEF TypeOK
    <2>4. CASE \E a \in Attempts : c = att[a].wire
      BY <1>0, <2>4, ZenonT(60)
    <2> QED
      BY <2>1, <2>2, <2>3, <2>4
  <1> QED
    BY <1>1, ZenonT(60) DEF PeerNotify, Notify

\* What a step of the caller or of the timer of an attempt does to the attempts.
LEMMA AttemptActions ==
  ASSUME Inv, NEW a \in Attempts, CallerStep(a) \/ TimerStep(a)
  PROVE  /\ att' \in [Attempts -> Attempt]
         /\ AttemptsOK'
         /\ \A b \in Attempts : AttemptStep(att[b], att'[b], now)
  <1> DEFINE r == att[a]
  <1>1. r \in Attempt /\ now \in Nat \ {0} /\ AttemptOK(r, now)
        /\ nextCSeq \in Nat
    BY DEF Inv, TypeOK, AttemptsOK
  <1>2. CASE beginReferAttempt(a)
    BY <1>1, <1>2, BeginStep, OneAttempt, ZenonT(60) DEF beginReferAttempt
  <1>3. CASE SendRefer(a)
    BY <1>1, <1>3, SendStep, OneAttempt DEF SendRefer
  <1>4. CASE ReferNotBuilt(a)
    <2>1. AttemptStep(r, [retireReferAttemptLocked(r) EXCEPT !.caller = "failed"], now)
      BY <1>1, <1>4, DroppedOK, QuietStep, ZenonT(60) DEF ReferNotBuilt
    <2> QED
      BY <1>4, <2>1, OneAttempt DEF ReferNotBuilt, OnlyAttempts
  <1>5. CASE setReferAttemptCSeq(a)
    BY <1>1, <1>5, CSeqStep, OneAttempt, ZenonT(60) DEF setReferAttemptCSeq
  <1>6. CASE startReferSubscription(a)
    BY <1>1, <1>6, StartStep, OneAttempt, ZenonT(60) DEF startReferSubscription, OnlyAttempts
  <1>7. ASSUME NEW e \in {Open, "Refused", "Cancelled"}, e = Open => r.end # Open,
               r.caller \in {"responded", "waiting"}
        PROVE  AttemptStep(r, [finishReferAttempt(r, e) EXCEPT !.caller = "returned"],
                           now)
    <2> DEFINE q == finishReferAttempt(r, e)
               s == [q EXCEPT !.caller = "returned"]
    <2>1. /\ q \in Attempt /\ AttemptOK(q, now)
          /\ q.end # Open /\ ~q.registered /\ q.caller = r.caller
          /\ q.notifies = r.notifies /\ q.deadline = r.deadline
          /\ q.end \in {r.end, e} /\ (r.end # Open => q.end \in {r.end, "Refused"})
      BY <1>1, <1>7, FinishOK
    <2> HIDE DEF q
    <2>2. /\ s \in Attempt /\ AttemptOK(s, now) /\ s.end = q.end
          /\ s.notifies = q.notifies /\ s.deadline = q.deadline
      BY <1>1, <1>7, <2>1, ReturnedOK
    <2>3. r.deadline \in Nat
      BY <1>1 DEF Attempt
    <2>4. AttemptStep(r, s, now)
      BY <1>7, <2>1, <2>2, <2>3 DEF AttemptStep, Open
    <2> QED
      BY <2>4 DEF q
  <1>8. CASE ReferRefused(a)
    BY <1>7, <1>8, OneAttempt DEF ReferRefused, Returns, OnlyAttempts, Open
  <1>9. CASE ReferNotCarried(a)
    <2>1. CASE att[a].ctx
      BY <1>7, <1>9, <2>1, OneAttempt
      DEF ReferNotCarried, Returns, OnlyAttempts, Open
    <2>2. CASE ~att[a].ctx
      <3>1. AttemptStep(r, [retireReferAttemptLocked(r) EXCEPT !.caller = "failed"],
                        now)
        BY <1>1, <1>9, DroppedOK, QuietStep, ZenonT(60) DEF ReferNotCarried
      <3> QED
        BY <1>9, <2>2, <3>1, OneAttempt DEF ReferNotCarried, OnlyAttempts
    <2> QED
      BY <2>1, <2>2
  <1>10. CASE ObserveReturns(a)
    <2>1. r.closes > 0 /\ r.caller = "waiting" => r.end # Open
      BY <1>1 DEF AttemptOK, Attempt
    <2> QED
      BY <1>7, <1>10, <2>1, OneAttempt DEF ObserveReturns, Returns, OnlyAttempts, Open
  <1>11. CASE CtxEnds(a)
    BY <1>1, <1>11, CtxStep, OneAttempt DEF CtxEnds, OnlyAttempts
  <1>12. CASE BoundFires(a)
    BY <1>1, <1>12, FiresStep, OneAttempt, ZenonT(60) DEF BoundFires, OnlyAttempts
  <1>13. CASE \E k \in att[a].fired : endReferAttemptOnItsBound(a, k)
    <2> PICK k \in att[a].fired : endReferAttemptOnItsBound(a, k)
      BY <1>13
    <2> DEFINE q == [r EXCEPT !.fired = r.fired \ {k}]
               s == IF BoundStands(q, k)
                    THEN endReferAttemptOnItsBoundLocked(q) ELSE q
    <2>1. AttemptStep(r, s, now)
      BY <1>1, BoundStep
    <2>2. Set(a, s) /\ now' = now
      BY DEF endReferAttemptOnItsBound, OnlyAttempts
    <2> QED
      BY <2>1, <2>2, OneAttempt
  <1> QED
    BY <1>2, <1>3, <1>4, <1>5, <1>6, <1>8, <1>9, <1>10, <1>11, <1>12, <1>13
    DEF CallerStep, TimerStep

\* The fields a handler's steps assign keep it a handler: NotifyArrives,
LEMMA ArriveFields ==
  ASSUME NEW g \in Handler, NEW pc \in HandlerPcs, NEW msg \in Notify,
         NEW answer \in Answers, NEW reported \in BOOLEAN
  PROVE  [g EXCEPT !.msg = msg, !.pc = pc, !.answer = answer,
                   !.reported = reported] \in Handler
  BY ZenonT(60) DEF Handler

\* RecordReads, which reads the clock,
LEMMA ReadFields ==
  ASSUME NEW g \in Handler, NEW pc \in HandlerPcs, NEW t \in Nat
  PROVE  LET q == [g EXCEPT !.pc = pc, !.read = t]
         IN q \in Handler /\ q.read = t
  BY ZenonT(60) DEF Handler

\* recordReferNotify, which gives the handler its attempt,
LEMMA RecordFields ==
  ASSUME NEW g \in Handler, NEW pc \in HandlerPcs, NEW msg \in Notify,
         NEW t \in Nat, NEW to \in Attempts \cup {Nobody}
  PROVE  LET q == [g EXCEPT !.pc = pc, !.msg = msg, !.read = t, !.to = to]
         IN q \in Handler /\ q.pc = pc
  BY ZenonT(60) DEF Handler

\* NotifyAnswered,
LEMMA AnswerFields ==
  ASSUME NEW g \in Handler, NEW pc \in HandlerPcs,
         NEW answer \in Answers, NEW reported \in BOOLEAN
  PROVE  [g EXCEPT !.pc = pc, !.answer = answer, !.reported = reported] \in Handler
  BY ZenonT(60) DEF Handler

\* and retireEndedReferAttempt, which lets go of the attempt.
LEMMA RetireFields ==
  ASSUME NEW g \in Handler, NEW pc \in HandlerPcs, NEW to \in Attempts \cup {Nobody}
  PROVE  LET q == [g EXCEPT !.pc = pc, !.to = to]
         IN q \in Handler /\ q.pc = pc
  BY ZenonT(60) DEF Handler

\* One handler stepping keeps what holds of them all.
LEMMA OneHandler ==
  ASSUME Inv, NEW h \in Handlers, NEW g \in Handler, ReadOK(g, now),
         hs' = [hs EXCEPT ![h] = g], now' = now
  PROVE  hs' \in [Handlers -> Handler] /\ ReadsOK'
  <1>1. hs \in [Handlers -> Handler] /\ \A i \in Handlers : ReadOK(hs[i], now)
    BY DEF Inv, TypeOK, ReadsOK
  <1>2. hs' \in [Handlers -> Handler]
        /\ \A i \in Handlers : hs'[i] = IF i = h THEN g ELSE hs[i]
    BY <1>1
  <1>3. \A i \in Handlers : ReadOK(hs'[i], now')
    BY <1>1, <1>2
  <1> QED
    BY <1>2, <1>3 DEF ReadsOK

\* What a step of a NOTIFY's handler does to the attempts and to the handlers.
LEMMA HandlerActions ==
  ASSUME Inv, NEW h \in Handlers, HandlerStep(h)
  PROVE  /\ att' \in [Attempts -> Attempt] /\ hs' \in [Handlers -> Handler]
         /\ AttemptsOK' /\ ReadsOK'
         /\ \A b \in Attempts : AttemptStep(att[b], att'[b], now)
  <1>1. hs \in [Handlers -> Handler] /\ hs[h] \in Handler /\ now \in Nat \ {0}
        /\ \A a \in Attempts : att[a] \in Attempt /\ AttemptOK(att[a], now)
    BY DEF Inv, TypeOK, AttemptsOK
  <1>0. NoNotifyYet \in Notify
    BY DEF NoNotifyYet, Notify, Kinds
  <1>6. "answering" \in HandlerPcs /\ "done" \in HandlerPcs /\ "locked" \in HandlerPcs
    BY DEF HandlerPcs
  <1>7. Nobody \in Attempts \cup {Nobody}
    OBVIOUS
  <1>2. CASE NotifyArrives(h)
    <2>1. PICK m \in PeerNotify, parsed \in BOOLEAN :
            LET refused == ended /\ ~referNotifyExpected(m) IN
            hs' = [hs EXCEPT ![h] =
              [hs[h] EXCEPT !.msg = IF ~refused /\ parsed THEN m ELSE NoNotifyYet,
                        !.pc = IF ~refused /\ parsed THEN "recording" ELSE "done",
                        !.answer = IF refused THEN 481
                                   ELSE IF parsed THEN 0 ELSE 400,
                        !.reported = refused /\ parsed]]
      BY <1>2, ZenonT(60) DEF NotifyArrives
    <2> DEFINE refused == ended /\ ~referNotifyExpected(m)
               msg == IF ~refused /\ parsed THEN m ELSE NoNotifyYet
               pc == IF ~refused /\ parsed THEN "recording" ELSE "done"
               answer == IF refused THEN 481 ELSE IF parsed THEN 0 ELSE 400
               reported == refused /\ parsed
               g == [hs[h] EXCEPT !.msg = msg, !.pc = pc, !.answer = answer,
                                  !.reported = reported]
    <2>2. /\ msg \in Notify /\ reported \in BOOLEAN
          /\ pc \in HandlerPcs /\ answer \in Answers /\ pc # "locked"
      BY <1>0, PeerNotifyType DEF Inv, HandlerPcs, Answers
    <2>3. hs' = [hs EXCEPT ![h] = g]
      BY <2>1, SMTT(30)
    <2> HIDE DEF msg, pc, answer, reported
    <2>4. g \in Handler /\ g.pc = pc
      <3>1. hs[h] \in Handler
        BY <1>1
      <3>2. /\ msg \in Notify /\ reported \in BOOLEAN
            /\ pc \in HandlerPcs /\ answer \in Answers
        BY <2>2
      <3>3. g \in Handler
        BY <3>1, <3>2, ArriveFields, ZenonT(60)
      <3>4. g.pc = pc
        BY <3>1 DEF Handler
      <3> QED
        BY <3>3, <3>4
    <2> HIDE DEF g
    <2>6. now' = now
      BY <1>2 DEF NotifyArrives
    <2>5. hs' \in [Handlers -> Handler] /\ ReadsOK'
      <3>1. ReadOK(g, now)
        BY <2>2, <2>4 DEF ReadOK
      <3> QED
        BY <3>1, <2>3, <2>4, <2>6, OneHandler, ZenonT(60)
    <2> QED
      BY <1>2, <2>5, NoAttempt, SMTT(30) DEF NotifyArrives
  <1>8. CASE RecordReads(h)
    <2> DEFINE g == [hs[h] EXCEPT !.pc = "locked", !.read = now]
    <2>1. hs' = [hs EXCEPT ![h] = g] /\ UNCHANGED att /\ now' = now
      BY <1>8 DEF RecordReads
    <2>2. g \in Handler /\ g.read = now
      <3>1. now \in Nat
        BY <1>1
      <3> QED
        BY <1>1, <1>6, <3>1, ReadFields, ZenonT(60)
    <2> HIDE DEF g
    <2>3. now \in 1..now
      BY <1>1
    <2>4. hs' \in [Handlers -> Handler] /\ ReadsOK'
      <3>1. ReadOK(g, now)
        BY <2>2, <2>3 DEF ReadOK
      <3> QED
        BY <3>1, <2>1, <2>2, OneHandler, ZenonT(60)
    <2> QED
      BY <2>1, <2>4, NoAttempt
  <1>3. CASE recordReferNotify(h)
    <2> DEFINE m == hs[h].msg
               u == hs[h].read
               a == referNotifyTargetLocked(m)
               held == a # Nobody /\ att[a].end = Open
               late == held /\ PastDeadline(att[a], u)
               to == IF held /\ ~late THEN a ELSE Nobody
               g == [hs[h] EXCEPT !.pc = "answering", !.msg = NoNotifyYet,
                                  !.read = 0, !.to = to]
    <2>1. m \in Notify
      BY <1>1 DEF Handler
    <2>0. u \in 1..now
      BY <1>3 DEF recordReferNotify, Inv, ReadsOK, ReadOK
    <2>2. a # Nobody => a \in Attempts /\ att[a].registered
      BY TargetRegistered
    <2>3. to \in Attempts \cup {Nobody}
      BY <2>2
    <2>4. hs' = [hs EXCEPT ![h] = g]
      BY <1>3, ZenonT(60) DEF recordReferNotify
    <2>7. \/ ~held /\ UNCHANGED att
          \/ late /\ Set(a, endReferAttemptOnItsBoundLocked(att[a]))
          \/ held /\ ~late /\ Set(a, RecordOpen(att[a], m, u))
      BY <1>3, ZenonT(60) DEF recordReferNotify
    <2>8. now' = now
      BY <1>3 DEF recordReferNotify
    <2> HIDE DEF to
    <2>5. g \in Handler /\ g.pc = "answering"
      <3>1. 0 \in Nat
        OBVIOUS
      <3> QED
        BY <1>0, <1>1, <1>6, <2>3, <3>1, RecordFields, ZenonT(60)
    <2> HIDE DEF g
    <2>6. hs' \in [Handlers -> Handler] /\ ReadsOK'
      <3>1. ReadOK(g, now)
        BY <2>5 DEF ReadOK
      <3> QED
        BY <3>1, <2>4, <2>5, <2>8, OneHandler, ZenonT(60)
    <2> HIDE DEF m, a, u
    <2>9. CASE ~held /\ UNCHANGED att
      BY <2>6, <2>8, <2>9, NoAttempt
    <2>10. CASE late /\ Set(a, endReferAttemptOnItsBoundLocked(att[a]))
      <3>1. a \in Attempts /\ att[a].registered /\ att[a].end = Open
            /\ now >= att[a].deadline
        <4>1. a \in Attempts /\ att[a].registered /\ att[a].end = Open
              /\ u >= att[a].deadline
          BY <2>2, <2>10 DEF PastDeadline
        <4>2. att[a].deadline \in Nat
          BY <1>1, <4>1 DEF Attempt
        <4> QED
          BY <1>1, <2>0, <4>1, <4>2
      <3>2. att[a].caller \notin {"idle", "returned"}
        BY <1>1, <3>1 DEF AttemptOK
      <3>3. AttemptStep(att[a], endReferAttemptOnItsBoundLocked(att[a]), now)
        BY <1>1, <3>1, <3>2, ExpireStep
      <3> QED
        BY <2>6, <2>8, <2>10, <3>1, <3>3, OneAttempt
    <2>11. CASE held /\ ~late /\ Set(a, RecordOpen(att[a], m, u))
      <3>1. a \in Attempts /\ att[a].registered /\ att[a].end = Open
            /\ ~PastDeadline(att[a], u)
        BY <2>2, <2>11
      <3>2. AttemptStep(att[a], RecordOpen(att[a], m, u), now)
        BY <1>1, <2>0, <2>1, <3>1, RecordStep
      <3> QED
        BY <2>6, <2>8, <2>11, <3>1, <3>2, OneAttempt
    <2> QED
      BY <2>7, <2>9, <2>10, <2>11
  <1>4. CASE NotifyAnswered(h)
    <2> DEFINE unmatched == Unmatched(h)
               pc == IF unmatched THEN "done" ELSE "retiring"
               answer == IF unmatched THEN 481 ELSE 200
               g == [hs[h] EXCEPT !.pc = pc, !.answer = answer,
                                  !.reported = unmatched]
    <2>1. pc \in HandlerPcs /\ answer \in Answers /\ unmatched \in BOOLEAN
          /\ pc # "locked"
      BY DEF HandlerPcs, Answers, Unmatched
    <2>2. hs' = [hs EXCEPT ![h] = g]
      BY <1>4, SMTT(30) DEF NotifyAnswered
    <2> HIDE DEF unmatched, pc, answer
    <2>3. g \in Handler /\ g.pc = pc
      <3>1. hs[h] \in Handler
        BY <1>1
      <3>2. unmatched \in BOOLEAN /\ pc \in HandlerPcs /\ answer \in Answers
        BY <2>1
      <3>3. g \in Handler
        BY <3>1, <3>2, AnswerFields, ZenonT(60)
      <3>4. g.pc = pc
        BY <3>1 DEF Handler
      <3> QED
        BY <3>3, <3>4
    <2> HIDE DEF g
    <2>5. now' = now
      BY <1>4 DEF NotifyAnswered
    <2>4. hs' \in [Handlers -> Handler] /\ ReadsOK'
      <3>1. ReadOK(g, now)
        BY <2>1, <2>3 DEF ReadOK
      <3> QED
        BY <3>1, <2>2, <2>3, <2>5, OneHandler, ZenonT(60)
    <2> QED
      BY <1>4, <2>4, NoAttempt DEF NotifyAnswered
  <1>5. CASE retireEndedReferAttempt(h)
    <2> DEFINE a == hs[h].to
               g == [hs[h] EXCEPT !.pc = "done", !.to = Nobody]
    <2>1. g \in Handler /\ g.pc = "done"
      BY <1>1, <1>6, <1>7, RetireFields, ZenonT(60)
    <2>3. now' = now /\ hs' = [hs EXCEPT ![h] = g]
      BY <1>5 DEF retireEndedReferAttempt
    <2> HIDE DEF g
    <2>2. hs' \in [Handlers -> Handler] /\ ReadsOK'
      <3>1. ReadOK(g, now)
        BY <2>1 DEF ReadOK
      <3> QED
        BY <3>1, <2>1, <2>3, OneHandler, ZenonT(60)
    <2>4. CASE RetireDue(a)
      <3>1. a \in Attempts /\ att[a].end # Open
        BY <1>1, <2>4 DEF RetireDue, Handler
      <3>2. att[a].caller # "idle"
        BY <1>1, <3>1 DEF AttemptOK
      <3>3. AttemptStep(att[a], retireReferAttemptLocked(att[a]), now)
        BY <1>1, <3>1, <3>2, RetireEnded, RetireFacts, QuietStep
      <3> QED
        BY <1>5, <2>2, <2>3, <2>4, <3>1, <3>3, OneAttempt
        DEF retireEndedReferAttempt
    <2>5. CASE ~RetireDue(a)
      BY <1>5, <2>2, <2>3, <2>5, NoAttempt DEF retireEndedReferAttempt
    <2> QED
      BY <2>4, <2>5
  <1> QED
    BY <1>2, <1>3, <1>4, <1>5, <1>8 DEF HandlerStep

\* What the caller's and the timer's steps do to the rest of the state.
LEMMA AttemptRest ==
  ASSUME TypeOK, NEW a \in Attempts, CallerStep(a) \/ TimerStep(a)
  PROVE  /\ latest' \in Attempts \cup {Nobody} /\ highest' \in Nat
         /\ nextCSeq' \in Nat \ {0}
         /\ UNCHANGED <<hs, callback, callbackCSeqs, ended, now>>
  <1>1. att[a].wire \in Nat /\ nextCSeq + 1 \in Nat \ {0}
    <2>1. att[a].wire \in Nat /\ nextCSeq \in Nat
      BY Zenon DEF TypeOK, Attempt
    <2> QED BY <2>1
  <1>2. CASE beginReferAttempt(a)
    BY <1>2 DEF beginReferAttempt, TypeOK
  <1>3. CASE SendRefer(a)
    BY <1>1, <1>3 DEF SendRefer, TypeOK
  <1>4. CASE setReferAttemptCSeq(a)
    BY <1>1, <1>4 DEF setReferAttemptCSeq, TypeOK
  <1>5. CASE \/ ReferNotBuilt(a) \/ startReferSubscription(a) \/ ReferRefused(a)
             \/ ReferNotCarried(a) \/ ObserveReturns(a) \/ CtxEnds(a)
             \/ BoundFires(a)
             \/ \E k \in att[a].fired : endReferAttemptOnItsBound(a, k)
    <2>1. OnlyAttempts
      BY <1>5, ZenonT(60) DEF ReferNotBuilt, startReferSubscription, ReferRefused,
         ReferNotCarried, ObserveReturns, CtxEnds, BoundFires,
         endReferAttemptOnItsBound
    <2> QED
      BY <2>1 DEF OnlyAttempts, TypeOK
  <1> QED
    BY <1>2, <1>3, <1>4, <1>5 DEF CallerStep, TimerStep

\* Time passing keeps AttemptOK: no clause of it is about an instant to come.
LEMMA TickOK ==
  ASSUME NEW r \in Attempt, NEW t \in Nat, AttemptOK(r, t)
  PROVE  AttemptOK(r, t + 1)
  <1>1. r.deadline \in Nat /\ r.accepted \in Nat /\ MaxBound \in Nat
    BY TimesAssumption DEF Attempt
  <1> QED
    BY <1>1 DEF AttemptOK

\* The invariant is inductive, and every step does to every attempt only what
\* AttemptStep says.
LEMMA Induction ==
  ASSUME Inv, [Next]_vars
  PROVE  Inv' /\ \A b \in Attempts : AttemptStep(att[b], att'[b], now)
  <1>0. TypeOK
    BY DEF Inv
  <1>1. CASE UNCHANGED vars
    <2>1. TypeOK'
      BY <1>0, <1>1 DEF vars, TypeOK
    <2>2. ReadsOK'
      BY <1>1 DEF vars, Inv, ReadsOK
    <2> QED
      BY <1>1, <2>1, <2>2, NoAttempt DEF vars, Inv
  <1>2. ASSUME NEW a \in Attempts, CallerStep(a) \/ TimerStep(a)
        PROVE  Inv' /\ \A b \in Attempts : AttemptStep(att[b], att'[b], now)
    <2>1. TypeOK'
      BY <1>0, <1>2, AttemptActions, AttemptRest, ZenonT(60) DEF TypeOK
    <2>2. ReadsOK'
      BY <1>0, <1>2, AttemptRest DEF Inv, ReadsOK
    <2> QED
      BY <1>2, <2>1, <2>2, AttemptActions DEF Inv
  <1>3. ASSUME NEW h \in Handlers, HandlerStep(h)
        PROVE  Inv' /\ \A b \in Attempts : AttemptStep(att[b], att'[b], now)
    <2>1. UNCHANGED <<latest, highest, nextCSeq, callback, callbackCSeqs, ended, now>>
      BY <1>3, ZenonT(60) DEF HandlerStep, NotifyArrives, RecordReads, recordReferNotify,
         NotifyAnswered, retireEndedReferAttempt
    <2>2. TypeOK'
      BY <1>0, <1>3, <2>1, HandlerActions DEF TypeOK
    <2> QED
      BY <1>3, <2>2, HandlerActions DEF Inv
  <1>4. CASE ReferWithCallback
    <2>1. nextCSeq \in Nat \ {0} /\ nextCSeq + 1 \in Nat \ {0}
      BY <1>0 DEF TypeOK
    <2>2. TypeOK'
      BY <1>0, <1>4, <2>1 DEF ReferWithCallback, TypeOK
    <2>3. ReadsOK'
      BY <1>4 DEF ReferWithCallback, Inv, ReadsOK
    <2> QED
      BY <1>4, <2>2, <2>3, NoAttempt DEF ReferWithCallback, Inv
  <1>5. CASE DialogEnds
    <2>1. TypeOK'
      BY <1>0, <1>5 DEF DialogEnds, TypeOK
    <2>2. ReadsOK'
      BY <1>5 DEF DialogEnds, Inv, ReadsOK
    <2> QED
      BY <1>5, <2>1, <2>2, NoAttempt DEF DialogEnds, Inv
  <1>6. CASE Tick
    <2>1. now \in Nat /\ now' = now + 1 /\ now' \in Nat \ {0} /\ att' = att
      BY <1>0, <1>6 DEF Tick, TypeOK
    <2>2. TypeOK'
      BY <1>0, <1>6, <2>1 DEF Tick, TypeOK
    <2>3. \A b \in Attempts : att[b] \in Attempt /\ AttemptOK(att[b], now)
      BY DEF Inv, TypeOK, AttemptsOK
    <2>4. AttemptsOK'
      BY <2>1, <2>3, TickOK DEF AttemptsOK
    <2>5. \A b \in Attempts : AttemptStep(att[b], att'[b], now)
      BY <2>1, <2>3, QuietStep
    <2>6. ReadsOK'
      <3>1. 1..now \subseteq 1..now' /\ hs' = hs
        BY <1>6, <2>1 DEF Tick
      <3> QED
        BY <3>1 DEF Inv, ReadsOK, ReadOK
    <2> QED
      BY <2>2, <2>4, <2>5, <2>6 DEF Inv
  <1> QED
    BY <1>1, <1>2, <1>3, <1>4, <1>5, <1>6 DEF Next

-----------------------------------------------------------------------------
(* The theorems.                                                           *)

\* The inductive invariant holds throughout, for every number of attempts and
\* NOTIFYs and every value of the timers.
THEOREM Invariant == Spec => []Inv
  <1>1. Init => Inv
    <2> SUFFICES ASSUME Init PROVE Inv
      OBVIOUS
    <2>1. NewAttempt \in Attempt
      BY DEF NewAttempt, Attempt, Callers
    <2>2. NewHandler \in Handler
      <3>1. NoNotifyYet \in Notify
        BY DEF NoNotifyYet, Notify, Kinds
      <3>2. "idle" \in HandlerPcs /\ 0 \in Answers
        BY DEF HandlerPcs, Answers
      <3> QED
        BY <3>1, <3>2 DEF NewHandler, Handler
    <2>3. TypeOK
      <3>1. att \in [Attempts -> Attempt]
        BY <2>1 DEF Init
      <3>2. hs \in [Handlers -> Handler]
        BY <2>2 DEF Init
      <3>3. /\ latest \in Attempts \cup {Nobody} /\ highest \in Nat
            /\ nextCSeq \in Nat \ {0} /\ now \in Nat \ {0}
        BY DEF Init
      <3>4. callback \in BOOLEAN /\ callbackCSeqs \subseteq Nat /\ ended \in BOOLEAN
        BY ZenonT(60) DEF Init
      <3> QED
        BY <3>1, <3>2, <3>3, <3>4 DEF TypeOK
    <2>4. AttemptOK(NewAttempt, 1)
      <3> DEFINE r == NewAttempt
      <3>1. /\ r.caller = "idle" /\ ~r.registered /\ r.armed = 0 /\ r.wire = 0
            /\ r.end = Open /\ ~r.live /\ r.notifies = <<>> /\ r.cseq = 0
            /\ r.closes = 0 /\ r.deadline = 0 /\ r.fired = {} /\ r.accepted = 0
        BY DEF NewAttempt
      <3> HIDE DEF r
      <3>2. AttemptOK(r, 1)
        BY <3>1, TimesAssumption DEF AttemptOK, Open
      <3> QED
        BY <3>2 DEF r
    <2>5. AttemptsOK
      BY <2>4 DEF Init, AttemptsOK
    <2>6. ReadsOK
      BY DEF Init, NewHandler, ReadsOK, ReadOK
    <2> QED
      BY <2>3, <2>5, <2>6 DEF Inv
  <1>2. Inv /\ [Next]_vars => Inv'
    BY Induction
  <1> QED
    BY <1>1, <1>2, PTL DEF Spec

\* Every variable keeps its type.
THEOREM TypeCorrect == Spec => []TypeOK
  <1>1. Inv => TypeOK
    BY DEF Inv
  <1> QED
    BY <1>1, Invariant, PTL

\* No attempt lives unbounded: an open attempt whose subscription began has its
\* bound timer armed, or fired and about to end it (armReferBoundLocked,
\* endReferAttemptOnItsBound).
THEOREM Bounded == Spec => []BoundHeld
  <1>1. Inv => BoundHeld
    BY DEF Inv, AttemptsOK, AttemptOK, BoundHeld, Begun
  <1> QED
    BY <1>1, Invariant, PTL

\* A subscription ends at most TimerN + MaxBound after its 2xx, however the
\* NOTIFYs, the 2xx and the timer interleave (startReferSubscription,
\* recordReferNotify).
THEOREM Deadlines == Spec => []DeadlineBounded
  <1>1. Inv => DeadlineBounded
    BY DEF Inv, AttemptsOK, AttemptOK, DeadlineBounded
  <1> QED
    BY <1>1, Invariant, PTL

\* NoNotify is reported only when no NOTIFY was recorded, and SubscriptionExpired
\* only when one was (endReferAttemptOnItsBoundLocked, finishReferAttempt).
THEOREM Truthful == Spec => []EndAgrees
  <1>1. Inv => EndAgrees
    BY DEF Inv, AttemptsOK, AttemptOK, EndAgrees, notified
  <1> QED
    BY <1>1, Invariant, PTL

\* An observation dialogReferObserve returns carries an end: done is closed only
\* once the attempt has ended.
THEOREM Observed == Spec => []ObservationHasEnd
  <1>1. Inv => ObservationHasEnd
    BY DEF Inv, AttemptsOK, AttemptOK, ObservationHasEnd
  <1> QED
    BY <1>1, Invariant, PTL

\* The done channel is closed exactly once, when the attempt is retired
\* (retireReferAttemptLocked closes it only while the attempt is registered).
THEOREM ClosedOnce == Spec => []DoneClosedOnce
  <1>1. Inv => DoneClosedOnce
    <2> SUFFICES ASSUME Inv, NEW a \in Attempts
                 PROVE  att[a].closes =
                   IF att[a].caller # "idle" /\ ~att[a].registered THEN 1 ELSE 0
      BY DEF DoneClosedOnce
    <2>1. AttemptOK(att[a], now)
      BY DEF Inv, AttemptsOK
    <2> QED
      BY <2>1 DEF AttemptOK
  <1> QED
    BY <1>1, Invariant, PTL

\* The deadline ends nothing before its time and says whether a NOTIFY came,
\* though a timer may have fired between the clock recordReferNotify reads and its
\* replacement (the boundArmed check of endReferAttemptOnItsBound).
THEOREM NotEarly == Spec => ExpiresTruly
  <1>1. Inv /\ [Next]_vars =>
          [\A a \in Attempts :
             /\ att[a].end = Open
             /\ att'[a].end \in {"SubscriptionExpired", "NoNotify"}
             => /\ now >= att[a].deadline
                /\ att'[a].end = "NoNotify" <=> ~notified(att'[a])]_vars
    <2> SUFFICES ASSUME Inv, [Next]_vars, NEW a \in Attempts, att[a].end = Open,
                        att'[a].end \in {"SubscriptionExpired", "NoNotify"}
                 PROVE  /\ now >= att[a].deadline
                        /\ att'[a].end = "NoNotify" <=> ~notified(att'[a])
      OBVIOUS
    <2>1. AttemptStep(att[a], att'[a], now)
      BY Induction
    <2>2. now >= att[a].deadline /\ AttemptOK(att'[a], now)
      BY <2>1 DEF AttemptStep
    <2>3. att'[a].end = "NoNotify" <=> ~notified(att'[a])
      BY <2>2 DEF AttemptOK, notified
    <2> QED
      BY <2>2, <2>3
  <1> QED
    BY <1>1, Invariant, PTL DEF Spec, ExpiresTruly

\* A NOTIFY never moves a deadline later once one was recorded
\* (recordReferNotify keeps the earlier of the two).
THEOREM NeverLater == Spec => DeadlineNeverLater
  <1>1. Inv /\ [Next]_vars =>
          [\A a \in Attempts :
             notified(att[a]) => att'[a].deadline <= att[a].deadline]_vars
    BY Induction DEF AttemptStep, notified
  <1> QED
    BY <1>1, Invariant, PTL DEF Spec, DeadlineNeverLater

\* The first end stands, and what the caller was told never changes
\* (finishReferAttempt keeps an end but for a refusal).
THEOREM FirstEndStands == Spec => EndStands
  <1>1. Inv /\ [Next]_vars =>
          [\A a \in Attempts :
             /\ att[a].end # Open => att'[a].end \in {att[a].end, "Refused"}
             /\ att[a].caller = "returned" =>
                  /\ att'[a].end = att[a].end
                  /\ att'[a].notifies = att[a].notifies]_vars
    BY Induction DEF AttemptStep
  <1> QED
    BY <1>1, Invariant, PTL DEF Spec, EndStands

=============================================================================
