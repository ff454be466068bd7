---------------------------- MODULE DialogSetup ----------------------------
(* Setting up a call and taking it down: a server dialog from its INVITE to  *)
(* the return of its handler, or a client dialog from Diago.Invite to Close. *)
(* The goroutine of the application, the handlers of ACK and BYE, the run of *)
(* the negotiation FinalizeWithin leaves behind and the RTCP monitor share   *)
(* one DialogMedia and one MediaSession.                                     *)
(*                                                                           *)
(* sipgo, the network and the peer are the environment.  The transaction of  *)
(* an ended dialog takes no further response, and a final response other     *)
(* than a 2xx, a CANCEL or a BYE ends the dialog and with it its context.    *)
EXTENDS Naturals, FiniteSets

CONSTANTS
    Acks,       \* handlers of the copies of the ACK to our 2xx
    EarlyBye    \* the peer may end a dialog that is not answered with a BYE

ASSUME SetupAssumption == IsFiniteSet(Acks) /\ EarlyBye \in BOOLEAN

VARIABLES
    call,   \* what kind of call it is; never changes
    sip,    \* sipgo's dialog: its state, the final response, the ACK
    app,    \* the goroutine of the application: where, in which operation
    med,    \* DialogMedia: mediaSession, rtpSession, releaseRTPPort, closed
    net,    \* the port of the allocator and the sockets bound to it
    fin,    \* MediaSession: onFinalize, finalizeRun, finalizeErr, keys
    mon,    \* RTPSession: its monitor
    ans,    \* DialogServerSession: answering, ackCarriesAnswer, early media
    mu,     \* DialogMedia.mu, where it is held across steps
    acks,   \* ReadAck, one per copy of the ACK
    bye,    \* the handler of the peer's BYE
    clos    \* DialogMedia.Close of the caller that latched it

vars == <<call, sip, app, med, net, fin, mon, ans, mu, acks, bye, clos>>

States == {"early", "established", "confirmed", "ended"}
Uas == call.role = "uas"
MuFree == mu = "free"
Ended == sip.state = "ended"

\* What is told apart of the structs the code keeps.
DialogMedia == [sess : BOOLEAN, rtp : BOOLEAN, release : BOOLEAN, closed : BOOLEAN]
Network == [port : {"none", "held", "returned"}, socks : {"none", "open", "closed"}]
FinalizeRun == [at : {"none", "armed", "inline", "running", "ranOk", "ranErr"},
                err : BOOLEAN, keyed : BOOLEAN, cancel : BOOLEAN]
RTPSession == [run : {"none", "running", "stopped"}, closed : BOOLEAN]
DialogServerSession == [answering : {"none", "open", "closed"}, carries : BOOLEAN,
                        ackErr : BOOLEAN, unkeyed : BOOLEAN]

TypeOK ==
    /\ call \in [role : {"uas", "uac"}, secure : BOOLEAN, offer : BOOLEAN,
                 detect : BOOLEAN, ackBody : {"good", "bad", "none"}]
    /\ sip \in [state : States, final : {"none", "2xx", "refused"},
                acked : BOOLEAN, cached : BOOLEAN]
    /\ app.used \subseteq {"progress", "answer", "late"}
    /\ med \in DialogMedia /\ net \in Network /\ fin \in FinalizeRun
    /\ mon \in RTPSession /\ ans \in DialogServerSession
    /\ mu \in {"free", "ack"}
    /\ acks \in [Acks -> [at : {"none", "lock", "finalize", "confirm", "hangup", "done"},
                          err : BOOLEAN, waiting : BOOLEAN]]
    /\ bye \in [at : {"none", "await", "answering", "read", "close", "closing", "done"},
                late : BOOLEAN]
    /\ clos \in [at : {"no", "monitor", "sockets", "port", "done"},
                 by : {"none", "app", "bye"}, sess : BOOLEAN, rtp : BOOLEAN,
                 release : BOOLEAN]

Init ==
    /\ call \in [role : {"uas"}, secure : BOOLEAN, offer : {TRUE}, detect : {FALSE}, ackBody : {"none"}]
         \cup [role : {"uas"}, secure : BOOLEAN, offer : {FALSE}, detect : {FALSE}, ackBody : {"good", "bad", "none"}]
         \cup [role : {"uac"}, secure : BOOLEAN, offer : {FALSE}, detect : BOOLEAN, ackBody : {"none"}]
    /\ sip = [state |-> "early", final |-> "none", acked |-> FALSE,
              cached |-> call.role = "uas"]
    /\ app = [at |-> "idle", op |-> "none", used |-> {}]
    /\ med = [sess |-> FALSE, rtp |-> FALSE, release |-> FALSE, closed |-> FALSE]
    /\ net = [port |-> "none", socks |-> "none"]
    /\ fin = [at |-> "none", err |-> FALSE, keyed |-> FALSE, cancel |-> FALSE]
    /\ mon = [run |-> "none", closed |-> FALSE]
    /\ ans = [answering |-> "none", carries |-> FALSE, ackErr |-> FALSE,
              unkeyed |-> FALSE]
    /\ mu = "free"
    /\ acks = [a \in Acks |-> [at |-> "none", err |-> FALSE, waiting |-> FALSE]]
    /\ bye = [at |-> "none", late |-> FALSE]
    /\ clos = [at |-> "no", by |-> "none", sess |-> FALSE, rtp |-> FALSE, release |-> FALSE]

-----------------------------------------------------------------------------
(* Small steps shared by the operations.                                     *)

Go(at) == app' = [app EXCEPT !.at = at]
GoOp(at, op) == app' = [app EXCEPT !.at = at, !.op = op]

\* The operation of the application returns: the handler of a server dialog
\* may go on with another one, a client's Invite that failed is closed.
Back == IF Uas THEN "idle" ELSE "close"
\* The deferred close(answering) of the operations that answer.
Answered(a) == [a EXCEPT !.answering = IF @ = "open" THEN "closed" ELSE @]
Return == Go(Back) /\ ans' = Answered(ans)
Succeed == GoOp("idle", "ok") /\ ans' = Answered(ans)

\* An SDP that armed the handshake of a secure session (RemoteSDP).
Armed(f) == IF call.secure THEN [f EXCEPT !.at = "armed"] ELSE f
\* endFinalizeRun
Reaped(f) == [f EXCEPT !.at = "none", !.err = @ \/ f.at = "ranErr"]
RanOut == fin.at \in {"ranOk", "ranErr"}
\* initRTPSessionUnsafe with a new RTPSession
NewRTP == med' = [med EXCEPT !.rtp = TRUE] /\ mon' = [run |-> "none", closed |-> FALSE]
\* A final response that is not a 2xx, refused by the transaction of an ended dialog.
Declined(s) == IF s.state = "early" THEN [s EXCEPT !.state = "ended", !.final = "refused"] ELSE s

-----------------------------------------------------------------------------
(* The session: initMediaSessionFromConf, the negotiation and the monitor.   *)

\* An allocator must fail for an ended context; it may fail when exhausted.
AllocateRTPPort ==
    /\ app.at = "init"
    /\ \/ med.sess /\ Go("ready") /\ UNCHANGED <<net, ans>>
       \/ ~med.sess /\ ~Ended /\ net' = [net EXCEPT !.port = "held"] /\ Go("bind") /\ UNCHANGED ans
       \/ ~med.sess /\ Return /\ UNCHANGED net
    /\ UNCHANGED <<call, sip, med, fin, mon, mu, acks, bye, clos>>

\* MediaSession.Init binds the sockets, or fails and the port goes back. The
\* session is put in place without the lock, whatever closed says.
BindSession ==
    /\ app.at = "bind"
    /\ \/ /\ med' = [med EXCEPT !.sess = TRUE, !.release = TRUE]
          /\ net' = [net EXCEPT !.socks = "open"]
          /\ Go("ready") /\ UNCHANGED ans
       \/ net' = [net EXCEPT !.port = "returned"] /\ Return /\ UNCHANGED med
    /\ UNCHANGED <<call, sip, fin, mon, mu, acks, bye, clos>>

\* The goroutine of a finalizeRun, unbounded but by its context.
NegotiationRuns ==
    /\ fin.at = "running"
    /\ \/ fin' = [fin EXCEPT !.at = "ranOk", !.keyed = TRUE]
       \/ fin' = [fin EXCEPT !.at = "ranErr"]
    /\ UNCHANGED <<call, sip, app, med, net, mon, ans, mu, acks, bye, clos>>

\* Its context is done: by the dialog, by Close or by awaitFinalizeRun.
NegotiationCancelled ==
    /\ fin.at = "running" /\ (Ended \/ fin.cancel)
    /\ fin' = [fin EXCEPT !.at = "ranErr"]
    /\ UNCHANGED <<call, sip, app, med, net, mon, ans, mu, acks, bye, clos>>

\* Both goroutines of the monitor end with the session or its sockets.
MonitorExits ==
    /\ mon.run = "running" /\ (mon.closed \/ net.socks = "closed")
    /\ mon' = [mon EXCEPT !.run = "stopped"]
    /\ UNCHANGED <<call, sip, app, med, net, fin, ans, mu, acks, bye, clos>>

-----------------------------------------------------------------------------
(* The server dialog's handler: ProgressMedia, Answer, AnswerLate, return.   *)

\* The application calls ProgressMedia at most once, then one answer.
BeginOperation(op) ==
    /\ Uas /\ app.at = "idle" /\ op \notin app.used
    /\ app.used \subseteq {"progress"} /\ (op = "late" => ~call.offer)
    /\ app' = [at |-> IF op = "progress" THEN "init" ELSE "timers", op |-> op,
               used |-> app.used \cup {op}]
    /\ UNCHANGED <<call, sip, med, net, fin, mon, ans, mu, acks, bye, clos>>

\* prepareSessionTimers refuses an interval below the floor with 422. Answer
\* then takes the session that is there, or makes one.
PrepareTimers ==
    /\ app.at = "timers"
    /\ \/ sip' = Declined(sip) /\ Return
       \/ UNCHANGED <<sip, ans>> /\ Go(IF med.sess /\ app.op = "answer" THEN "early" ELSE "init")
    /\ UNCHANGED <<call, med, net, fin, mon, mu, acks, bye, clos>>

\* ProgressMediaOptions, up to the 183
ProgressMedia ==
    /\ app.at = "ready" /\ app.op = "progress"
    /\ \/ Return /\ UNCHANGED fin          \* no offer, or not applicable
       \/ /\ call.offer /\ fin' = Armed(fin) /\ UNCHANGED ans
          /\ Go(IF Ended THEN Back ELSE "keys")
    /\ UNCHANGED <<call, sip, med, net, mon, mu, acks, bye, clos>>

\* FinalizeWithin of the 183's answer, sent or received. A server that gives
\* up returns ErrEarlyMediaNotKeyed, a client goes on waiting for its answer.
AwaitEarlyKeys ==
    /\ app.at = "keys"
    /\ \/ fin.at = "armed" /\ fin' = [fin EXCEPT !.at = "running"] /\ UNCHANGED <<app, ans>>
       \/ fin.at = "none" /\ ~fin.err /\ Go("media") /\ UNCHANGED <<fin, ans>>
       \/ fin.at = "ranOk" /\ fin' = Reaped(fin) /\ Go("media") /\ UNCHANGED ans
       \/ fin.at = "ranErr" /\ fin' = Reaped(fin) /\ Return
       \/ /\ fin.at = "running" /\ MuFree
          /\ ans' = [ans EXCEPT !.unkeyed = TRUE]
          /\ Go(IF Uas THEN "idle" ELSE "ring") /\ UNCHANGED fin
       \/ fin.at = "running" /\ ~Uas /\ Return /\ UNCHANGED fin   \* the caller's context
    /\ UNCHANGED <<call, sip, med, net, mon, mu, acks, bye, clos>>

\* The session is keyed: readers, writers and RTP session are set up.
SetUpMedia ==
    /\ app.at = "media" /\ MuFree /\ NewRTP /\ Go("monitor")
    /\ UNCHANGED <<call, sip, net, fin, ans, mu, acks, bye, clos>>

\* answerSession and AnswerLate, up to their 2xx
AnswerSession ==
    /\ app.at = "ready" /\ app.op \in {"answer", "late"}
    /\ \/ app.op = "answer" /\ Return /\ UNCHANGED <<med, fin, mon>>
       \/ /\ app.op = "late" \/ call.offer
          /\ MuFree /\ NewRTP
          /\ fin' = IF app.op = "late" THEN fin ELSE Armed(fin)
          /\ ans' = [ans EXCEPT !.answering = "open", !.carries = app.op = "late"]
          /\ Go("send")
    /\ UNCHANGED <<call, sip, net, mu, acks, bye, clos>>

\* answerEarlyMedia: the session is there, and only the 200 is left to send
\* unless the caller has not keyed it.
AnswerEarlyMedia ==
    /\ app.at = "early" /\ MuFree
    /\ ans' = [ans EXCEPT !.answering = "open"]
    /\ IF ans.unkeyed THEN GoOp("probe", "unkeyed") ELSE GoOp("send", "repeat")
    /\ UNCHANGED <<call, sip, med, net, fin, mon, mu, acks, bye, clos>>

\* answerUnkeyedEarlyMedia, first part: a handshake that failed declines 488.
ProbeEarlyKeys ==
    /\ app.at = "probe"
    /\ fin' = IF RanOut THEN Reaped(fin) ELSE fin
    /\ IF fin'.err THEN Return /\ sip' = Declined(sip)
                   ELSE Go("send") /\ UNCHANGED <<sip, ans>>
    /\ UNCHANGED <<call, med, net, mon, mu, acks, bye, clos>>

\* respondSDP: the 200, while the INVITE has no final response
SendOK ==
    /\ app.at = "send"
    /\ IF Ended
       THEN Return /\ UNCHANGED sip
       ELSE /\ sip' = [sip EXCEPT !.state = "established", !.final = "2xx"]
            /\ Go("wait") /\ UNCHANGED ans
    /\ UNCHANGED <<call, med, net, fin, mon, mu, acks, bye, clos>>

\* It waits for the ACK, at most 64*T1. A dialog confirmed and ended since may
\* be seen as either.
AwaitAck ==
    /\ app.at = "wait"
    /\ \/ sip.acked /\ Go("acked") /\ UNCHANGED ans
       \/ sip.state \in {"established", "ended"} /\ Return
    /\ UNCHANGED <<call, sip, med, net, fin, mon, mu, acks, bye, clos>>

DeafAcked ==
    /\ app.at = "acked" /\ MuFree
    /\ CASE app.op = "late"   -> Go("monitor") /\ UNCHANGED ans
         [] app.op = "repeat" -> Succeed
         [] OTHER             -> Go("finalize") /\ UNCHANGED ans
    /\ UNCHANGED <<call, sip, med, net, fin, mon, mu, acks, bye, clos>>

\* An answer in the ACK that failed is ended by the answer waiting for it.
Acked ==
    /\ app.at = "acked" /\ MuFree
    /\ CASE ans.ackErr        -> Go("hangup") /\ UNCHANGED ans
         [] ~ans.ackErr /\ app.op = "late"   -> Go("monitor") /\ UNCHANGED ans
         [] ~ans.ackErr /\ app.op = "repeat" -> Succeed
         [] OTHER             -> Go("finalize") /\ UNCHANGED ans
    /\ UNCHANGED <<call, sip, med, net, fin, mon, mu, acks, bye, clos>>

\* hangupNoMedia of respondSDP; our BYE ends the dialog.
HangupNoMedia ==
    /\ app.at = "hangup"
    /\ sip' = [sip EXCEPT !.state = "ended"] /\ Return
    /\ UNCHANGED <<call, med, net, fin, mon, mu, acks, bye, clos>>

-----------------------------------------------------------------------------
(* Keys and monitor of the session, for both sides.                          *)

AckDone(ok) ==
    CASE app.op = "bad" -> Go(IF ok THEN "bye" ELSE "ackagain")
      [] OTHER          -> Go(IF ok THEN "up" ELSE "ackbye")

Finalized(ok) ==
    CASE Uas /\ ok  -> Go(IF app.op = "unkeyed" THEN "media" ELSE "monitor") /\ UNCHANGED ans
      [] Uas /\ ~ok -> Return
      [] ~Uas /\ ok /\ ans.unkeyed -> Go("media") /\ UNCHANGED ans
      [] OTHER -> AckDone(ok) /\ UNCHANGED ans

\* FinalizeContext runs an armed negotiation itself, which fails at the latest
\* with its bound, or waits for the one left running, which it cancels when
\* its context or the bound ends first.
Finalize ==
    /\ app.at = "finalize"
    /\ \/ fin.at = "none" /\ Finalized(~fin.err) /\ UNCHANGED fin
       \/ fin.at = "armed" /\ fin' = [fin EXCEPT !.at = "inline"] /\ UNCHANGED <<app, ans>>
       \/ fin.at = "inline" /\ fin' = [fin EXCEPT !.at = "none", !.keyed = TRUE] /\ Finalized(TRUE)
       \/ fin.at = "inline" /\ fin' = [fin EXCEPT !.at = "none"] /\ Finalized(FALSE)
       \/ fin.at = "running" /\ ~fin.cancel /\ fin' = [fin EXCEPT !.cancel = TRUE] /\ UNCHANGED <<app, ans>>
       \/ RanOut /\ fin' = Reaped(fin) /\ Finalized(fin.at = "ranOk")
    /\ UNCHANGED <<call, sip, med, net, mon, mu, acks, bye, clos>>

Monitored(ok) ==
    CASE Uas                  -> IF ok THEN Succeed ELSE Return
      [] app.op = "early183"  -> (\/ ok /\ GoOp("ring", "invite")  \* ErrClientEarlyMedia, then WaitAnswer
                                  \/ Go("close")) /\ UNCHANGED ans
      [] app.op = "apply"     -> GoOp("ack", IF ok THEN "ack" ELSE "bad") /\ UNCHANGED ans
      [] OTHER                -> AckDone(ok) /\ ans' = [ans EXCEPT !.unkeyed = FALSE]

\* MonitorBackground fails on a session, or on sockets, that are closed.
MonitorBackground ==
    /\ app.at = "monitor"
    /\ LET ok == ~mon.closed /\ net.socks = "open" IN
       /\ Monitored(ok)
       /\ mon' = IF ok THEN [mon EXCEPT !.run = "running"] ELSE mon
    /\ UNCHANGED <<call, sip, med, net, fin, mu, acks, bye, clos>>

-----------------------------------------------------------------------------
(* The client dialog: Diago.Invite, Ack and what follows.                    *)

BeginInvite ==
    /\ ~Uas /\ app.at = "idle" /\ GoOp("init", "invite")
    /\ UNCHANGED <<call, sip, med, net, fin, mon, ans, mu, acks, bye, clos>>

\* invite: the originator's codecs may leave none, and sending may fail.
SendInvite ==
    /\ app.at = "ready" /\ app.op = "invite"
    /\ Go("ring") \/ Go("close")
    /\ UNCHANGED <<call, sip, med, net, fin, mon, ans, mu, acks, bye, clos>>

\* waitAnswerEarly: a 183 with an answer. One after it carries nothing more.
Read183 ==
    /\ app.at = "ring" /\ call.detect /\ ~ans.unkeyed /\ ~med.rtp
    /\ \/ Go("close") /\ UNCHANGED fin
       \/ fin' = Armed(fin) /\ GoOp("keys", "early183")
    /\ UNCHANGED <<call, sip, med, net, mon, ans, mu, acks, bye, clos>>

\* WaitAnswer: a 2xx, or a refusal, a timeout or a CANCEL of ours. newSipDialog
\* stores the dialog in the cache with its 2xx.
InviteAnswered ==
    /\ app.at = "ring"
    /\ \/ /\ sip' = [sip EXCEPT !.state = "established", !.final = "2xx", !.cached = TRUE]
          /\ GoOp("answered", "apply")
       \/ sip' = Declined(sip) /\ Go("close")
    /\ UNCHANGED <<call, med, net, fin, mon, ans, mu, acks, bye, clos>>

\* waitAnswer and applyRemoteSDP
ApplyAnswer ==
    /\ app.at = "answered"
    /\ \/ Go("close") /\ UNCHANGED <<med, fin, mon>>                       \* no SDP in response
       \/ ans.unkeyed /\ GoOp("ack", "ack") /\ UNCHANGED <<med, fin, mon>>
       \/ ~ans.unkeyed /\ GoOp("ack", "bad") /\ UNCHANGED <<med, fin, mon>>  \* not applicable
       \/ /\ ~ans.unkeyed /\ med.rtp /\ MuFree /\ ~med.closed                \* checkEarlyMedia
          /\ mon' = [run |-> "running", closed |-> FALSE]
          /\ GoOp("ack", "ack") /\ UNCHANGED <<med, fin>>
       \/ /\ ~ans.unkeyed /\ ~med.rtp /\ MuFree
          /\ fin' = Armed(fin) /\ NewRTP /\ Go("monitor")
    /\ UNCHANGED <<call, sip, net, ans, mu, acks, bye, clos>>

\* Ack: the ACK fails with the caller's context or an ended dialog.
Ack ==
    /\ app.at = "ack" /\ MuFree
    /\ \/ ~Ended /\ sip' = [sip EXCEPT !.state = "confirmed", !.acked = TRUE] /\ Go("finalize")
       \/ AckDone(FALSE) /\ UNCHANGED sip
    /\ UNCHANGED <<call, med, net, fin, mon, ans, mu, acks, bye, clos>>

\* waitAnswer acknowledges again when Ack failed, and sends no BYE.
AckAgain ==
    /\ app.at = "ackagain" /\ Go("close")
    /\ \/ ~Ended /\ sip' = [sip EXCEPT !.state = "confirmed", !.acked = TRUE]
       \/ UNCHANGED sip
    /\ UNCHANGED <<call, med, net, fin, mon, ans, mu, acks, bye, clos>>

\* ackAndBye, Bye after a refused answer, and Hangup of a call that is up
EndCall ==
    /\ app.at \in {"ackbye", "bye", "up"} /\ Go("close")
    /\ sip' = IF Ended THEN sip ELSE [sip EXCEPT !.state = "ended", !.acked = TRUE]
    /\ UNCHANGED <<call, med, net, fin, mon, ans, mu, acks, bye, clos>>

-----------------------------------------------------------------------------
(* The end of the call: Hangup of the handler's return, and Close.           *)

\* Hangup: 480 before the 2xx, else a BYE. An answer has returned only once
\* its ACK was read or the transaction has timed out, so the BYE does not wait.
HandlerReturns ==
    /\ Uas /\ app.at = "idle" /\ Go("uncache")
    /\ \/ sip.state = "early" /\ sip' = Declined(sip)
       \/ sip.state \in {"established", "confirmed"} /\ sip' = [sip EXCEPT !.state = "ended"]
       \/ Ended /\ UNCHANGED sip
    /\ UNCHANGED <<call, med, net, fin, mon, ans, mu, acks, bye, clos>>

\* A server dialog leaves the cache before it is closed, a client's after.
Uncache ==
    /\ \/ app.at = "uncache" /\ Go("close")
       \/ app.at = "closed" /\ Go("done")
    /\ sip' = [sip EXCEPT !.cached = FALSE]
    /\ UNCHANGED <<call, med, net, fin, mon, ans, mu, acks, bye, clos>>

\* DialogMedia.Close, first part: latched under the lock.
Latch(by) ==
    /\ MuFree
    /\ IF med.closed
       THEN UNCHANGED <<med, clos>>
       ELSE /\ med' = [med EXCEPT !.closed = TRUE, !.release = FALSE]
            /\ clos' = [at |-> "monitor", by |-> by, sess |-> med.sess,
                        rtp |-> med.rtp, release |-> med.release]
CloseReturned(by) == clos.by # by \/ clos.at = "done"

CloseDialog ==
    /\ \/ app.at = "close" /\ Latch("app") /\ Go("closing")
       \/ /\ app.at = "closing" /\ CloseReturned("app")
          /\ Go(IF Uas THEN "done" ELSE "closed") /\ UNCHANGED <<med, clos>>
    /\ UNCHANGED <<call, sip, net, fin, mon, ans, mu, acks, bye>>

\* MonitorClose: it waits for the monitor it found.
CloseMonitor ==
    /\ clos.at = "monitor"
    /\ IF clos.rtp /\ ~(mon.closed /\ mon.run # "running")
       THEN mon' = [mon EXCEPT !.closed = TRUE] /\ UNCHANGED clos
       ELSE clos' = [clos EXCEPT !.at = "sockets"] /\ UNCHANGED mon
    /\ UNCHANGED <<call, sip, app, med, net, fin, ans, mu, acks, bye>>

HastyCloseSession ==
    /\ clos.at = "sockets"
    /\ net' = IF clos.sess THEN [net EXCEPT !.socks = "closed"] ELSE net
    /\ clos' = [clos EXCEPT !.at = "port"] /\ UNCHANGED fin
    /\ UNCHANGED <<call, sip, app, med, mon, ans, mu, acks, bye>>

\* MediaSession.Close: a negotiation left running is ended first.
CloseSession ==
    /\ clos.at = "sockets"
    /\ IF clos.sess /\ fin.at = "running"
       THEN ~fin.cancel /\ fin' = [fin EXCEPT !.cancel = TRUE] /\ UNCHANGED <<net, clos>>
       ELSE /\ fin' = IF clos.sess /\ RanOut THEN Reaped(fin) ELSE fin
            /\ net' = IF clos.sess THEN [net EXCEPT !.socks = "closed"] ELSE net
            /\ clos' = [clos EXCEPT !.at = "port"]
    /\ UNCHANGED <<call, sip, app, med, mon, ans, mu, acks, bye>>

ReleasePort ==
    /\ clos.at = "port"
    /\ net' = IF clos.release THEN [net EXCEPT !.port = "returned"] ELSE net
    /\ clos' = [clos EXCEPT !.at = "done"]
    /\ UNCHANGED <<call, sip, app, med, fin, mon, ans, mu, acks, bye>>

-----------------------------------------------------------------------------
(* The peer's requests: the ACK to our 2xx, its copies, CANCEL and the BYE.  *)

PeerAck(a) ==
    /\ Uas /\ acks[a].at = "none" /\ sip.final = "2xx" /\ sip.cached
    /\ acks' = [acks EXCEPT ![a].at = "lock"]
    /\ UNCHANGED <<call, sip, app, med, net, fin, mon, ans, mu, bye, clos>>

AckTo(a, at, err) == acks' = [acks EXCEPT ![a].at = at, ![a].err = err]

\* ReadAck under the lock: only the ACK confirming the dialog carries an
\* answer, which AnswerLate needs. The handshake runs with the lock held.
ReadAck(a) ==
    /\ acks[a].at = "lock" /\ MuFree
    /\ IF sip.state # "established" \/ ~med.sess
       THEN AckTo(a, "confirm", FALSE) /\ UNCHANGED <<fin, ans, mu>>
       ELSE LET waiting == ans.answering = "open" IN
            CASE call.ackBody = "good" ->
                   /\ acks' = [acks EXCEPT ![a] = [at |-> "finalize", err |-> FALSE, waiting |-> waiting]]
                   /\ fin' = IF fin.keyed THEN fin ELSE Armed(fin)
                   /\ mu' = "ack" /\ UNCHANGED ans
              [] call.ackBody = "none" /\ ~ans.carries ->
                   AckTo(a, "confirm", FALSE) /\ UNCHANGED <<fin, ans, mu>>
              [] OTHER ->
                   /\ acks' = [acks EXCEPT ![a] = [at |-> "confirm", err |-> TRUE, waiting |-> waiting]]
                   /\ ans' = [ans EXCEPT !.ackErr = TRUE] /\ UNCHANGED <<fin, mu>>
    /\ UNCHANGED <<call, sip, app, med, net, mon, bye, clos>>

LockedAckFinalize(a) ==
    /\ acks[a].at = "finalize"
    /\ \/ fin.at = "armed" /\ fin' = [fin EXCEPT !.at = "inline"] /\ UNCHANGED <<acks, ans, mu>>
       \/ fin.at = "none" /\ AckTo(a, "confirm", FALSE) /\ mu' = "free" /\ UNCHANGED <<fin, ans>>
       \/ /\ fin.at = "inline" /\ fin' = [fin EXCEPT !.at = "none", !.keyed = TRUE]
          /\ AckTo(a, "confirm", FALSE) /\ mu' = "free" /\ UNCHANGED ans
       \/ /\ fin.at = "inline" /\ fin' = [fin EXCEPT !.at = "none"]
          /\ AckTo(a, "confirm", TRUE) /\ ans' = [ans EXCEPT !.ackErr = TRUE] /\ UNCHANGED mu
    /\ UNCHANGED <<call, sip, app, med, net, mon, bye, clos>>

\* FinalizeContext of the answer in the ACK
AckFinalize(a) ==
    /\ acks[a].at = "finalize"
    /\ \/ fin.at = "armed" /\ fin' = [fin EXCEPT !.at = "inline"] /\ UNCHANGED <<acks, ans, mu>>
       \/ fin.at = "none" /\ AckTo(a, "confirm", FALSE) /\ mu' = "free" /\ UNCHANGED <<fin, ans>>
       \/ /\ fin.at = "inline" /\ fin' = [fin EXCEPT !.at = "none", !.keyed = TRUE]
          /\ AckTo(a, "confirm", FALSE) /\ mu' = "free" /\ UNCHANGED ans
       \/ /\ fin.at = "inline" /\ fin' = [fin EXCEPT !.at = "none"]
          /\ AckTo(a, "confirm", TRUE) /\ ans' = [ans EXCEPT !.ackErr = TRUE] /\ mu' = "free"
    /\ UNCHANGED <<call, sip, app, med, net, mon, bye, clos>>

\* The ACK confirms the dialog. A failed answer nobody waits for is ended here.
ConfirmAck(a) ==
    /\ acks[a].at = "confirm"
    /\ sip' = IF sip.state = "established"
              THEN [sip EXCEPT !.state = "confirmed", !.acked = TRUE] ELSE sip
    /\ AckTo(a, IF acks[a].err /\ ~acks[a].waiting THEN "hangup" ELSE "done", acks[a].err)
    /\ UNCHANGED <<call, app, med, net, fin, mon, ans, mu, bye, clos>>

AckHangup(a) ==
    /\ acks[a].at = "hangup"
    /\ sip' = [sip EXCEPT !.state = "ended"] /\ AckTo(a, "done", acks[a].err)
    /\ UNCHANGED <<call, app, med, net, fin, mon, ans, mu, bye, clos>>

PeerCancel ==
    /\ Uas /\ sip.state = "early" /\ sip' = Declined(sip)
    /\ UNCHANGED <<call, app, med, net, fin, mon, ans, mu, acks, bye, clos>>

PeerBye ==
    /\ bye.at = "none" /\ sip.cached
    /\ sip.state \in {"established", "confirmed"} \/ (EarlyBye /\ Uas /\ sip.state = "early")
    /\ bye' = [bye EXCEPT !.at = IF Uas THEN "await" ELSE "read"]
    /\ UNCHANGED <<call, sip, app, med, net, fin, mon, ans, mu, acks, clos>>

ImpatientAwaitAnswer ==
    /\ bye.at = "await"
    /\ \/ sip.state # "established" /\ MuFree /\ bye' = [bye EXCEPT !.at = "read"]
       \/ bye' = [at |-> "read", late |-> TRUE]
    /\ UNCHANGED <<call, sip, app, med, net, fin, mon, ans, mu, acks, clos>>

\* awaitAnswer: for the ACK, then for the answer, at most 2*T1.
AwaitAnswer ==
    /\ \/ /\ bye.at = "await" /\ sip.state # "established" /\ MuFree
          /\ bye' = [bye EXCEPT !.at = IF ans.answering = "open" THEN "answering" ELSE "read"]
       \/ /\ bye.at = "answering" /\ ans.answering # "open"
          /\ bye' = [bye EXCEPT !.at = "read"]
       \/ /\ bye.at \in {"await", "answering"}
          /\ bye' = [at |-> "read", late |-> TRUE]
    /\ UNCHANGED <<call, sip, app, med, net, fin, mon, ans, mu, acks, clos>>

\* ReadBye ends the dialog, and the handler then closes the media.
ReadBye ==
    /\ bye.at = "read"
    /\ sip' = [sip EXCEPT !.state = "ended"]
    /\ bye' = [bye EXCEPT !.at = "close"]
    /\ UNCHANGED <<call, app, med, net, fin, mon, ans, mu, acks, clos>>

ByeCloses ==
    /\ \/ bye.at = "close" /\ Latch("bye") /\ bye' = [bye EXCEPT !.at = "closing"]
       \/ /\ bye.at = "closing" /\ CloseReturned("bye")
          /\ bye' = [bye EXCEPT !.at = "done"] /\ UNCHANGED <<med, clos>>
    /\ UNCHANGED <<call, sip, app, net, fin, mon, ans, mu, acks>>

-----------------------------------------------------------------------------
\* Steps of the application that wait on nobody for ever.
AppStep ==
    \/ AllocateRTPPort \/ BindSession \/ PrepareTimers \/ ProgressMedia
    \/ AwaitEarlyKeys \/ SetUpMedia \/ AnswerSession \/ AnswerEarlyMedia
    \/ ProbeEarlyKeys \/ SendOK \/ AwaitAck \/ Acked \/ HangupNoMedia
    \/ Finalize \/ MonitorBackground \/ SendInvite \/ InviteAnswered
    \/ ApplyAnswer \/ Ack \/ AckAgain \/ Uncache \/ CloseDialog
Closing == CloseMonitor \/ CloseSession \/ ReleasePort
AckStep(a) == ReadAck(a) \/ AckFinalize(a) \/ ConfirmAck(a) \/ AckHangup(a)
ByeStep == AwaitAnswer \/ ReadBye \/ ByeCloses

Next ==
    \/ \E op \in {"progress", "answer", "late"} : BeginOperation(op)
    \/ BeginInvite \/ HandlerReturns \/ Read183 \/ EndCall
    \/ AppStep \/ Closing
    \/ NegotiationRuns \/ NegotiationCancelled \/ MonitorExits
    \/ \E a \in Acks : PeerAck(a) \/ AckStep(a)
    \/ PeerCancel \/ PeerBye \/ ByeStep

Spec == Init /\ [][Next]_vars

\* Goroutines are scheduled, every wait of the code has a bound that fires,
\* and a handler whose answer failed returns in the end.  The bound of WaitAnswer
\* after a provisional response is the context the caller gave Invite.
FairSpec ==
    /\ Spec
    /\ WF_vars(AppStep) /\ WF_vars(Closing) /\ WF_vars(ByeStep)
    /\ WF_vars(app.at # "up" /\ EndCall)
    /\ WF_vars(NegotiationCancelled) /\ WF_vars(MonitorExits)
    /\ \A a \in Acks : WF_vars(AckStep(a))
    /\ WF_vars(app.op \in {"answer", "late", "repeat", "unkeyed"} /\ HandlerReturns)

-----------------------------------------------------------------------------
Quiet == app.at \in {"idle", "up", "done"}
Gone ==
    /\ net.port # "held" /\ net.socks # "open"
    /\ mon.run # "running" /\ fin.at # "running"

(* A dialog that is closed leaves nothing behind: the port is back, the       *)
(* sockets are closed, and neither a monitor nor a negotiation runs on        *)
(* (DialogMedia.Close, MediaSession.Close, initMediaSessionFromConf).         *)
LeavesNothing == app.at = "closing" ~> []Gone

(* The BYE's handler closes the media under an answer still setting it up     *)
(* only when it waited two T1 intervals for it (ReadBye, awaitAnswer).        *)
AnswerUndisturbed ==
    [][clos.at = "no" /\ clos'.by = "bye" => ans.answering # "open" \/ bye.late]_vars

(* An ACK whose answer can not be used ends the call, by a BYE of the answer  *)
(* waiting for it or of ReadAck itself (ReadAck, respondSDP).                 *)
FailedAnswerEnds == ans.ackErr ~> Ended

(* Every call of the application's returns, whichever ACK, BYE, key or media  *)
(* the peer does not send; Invite once its INVITE is finally answered or its  *)
(* context ends (Answer, AnswerLate, ProgressMedia, Invite, Ack, Close).      *)
SetupEnds == ~Quiet ~> Quiet
=============================================================================
