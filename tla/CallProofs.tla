----------------------------- MODULE CallProofs -----------------------------
(***************************************************************************)
(* Proofs about the calls of a B2BUA.  DialogDispatch, for any number of   *)
(* requests: a request on a live dialog finds it, and an accepted REFER is *)
(* reported as it went.  BridgeProxy, for any dialogs, callers and codecs: *)
(* a proxy that is done has left its dialogs clean.                        *)
(***************************************************************************)
EXTENDS MCCalls, TLAPS

-----------------------------------------------------------------------------
(* DialogDispatch: the inductive invariant *)

\* A dialog is in the cache from before its peer can send on it until its owner
\* gives it up, and a request under way is on such a dialog.
Begun(l) == IF l = "in" THEN handler # "none" ELSE sip["out"] # "none"

Caching ==
    /\ handler = "none" => sip["in"] = "none"
    /\ handler \in {"serving", "hangup", "delete"} => "in" \in cached
    /\ sip["out"] # "none" => "out" \in cached \cup closed
    /\ refer = "uncache" => "out" \in closed
    /\ \A l \in Legs : peer[l] => Begun(l)
    /\ \A r \in Reqs : req[r].at \in {"sent", "matched", "media"} => Begun(req[r].leg)
    /\ LiveIsFound

\* What has been told of the REFER goes with where it is and with the state of the
\* dialog it made.
Answers == {"confirmed", "ended"}

Reporting ==
    /\ \A q, r \in Reqs : req[q].kind = "refer" /\ req[r].kind = "refer" => q = r
    /\ \A r \in Reqs : req[r].kind = "refer" => refer = "none"
    /\ refer \in {"none", "made"} => told["trying"] = 0
    /\ refer \in {"none", "made", "calling", "refused"} => sip["out"] = "none"
    /\ refer = "acking" => sip["out"] \in {"established", "ended"}
    /\ refer = "up" => sip["out"] \in Answers
    /\ sip["in"] # "ended" /\ sip["out"] \in Answers => told["ok"] > 0
    /\ told["ok"] > 0 => sip["out"] \in Answers
    /\ refer \in {"close", "uncache", "done"} /\ told["trying"] > 0 /\ sip["in"] # "ended" =>
           told["ok"] + told["failure"] > 0
    /\ sip["out"] # "early"

IInv == TypeOK /\ Caching /\ Reporting

USE DEF Legs, Kinds, Outcomes

\* Nothing has begun (NewDiago).
LEMMA InitInv == Init => IInv
  BY SMT DEF Init, IInv, TypeOK, Caching, Reporting, LiveIsFound, GivenUp, Begun, Answers, NoReq

\* A step that leaves everything keeps the invariant.
LEMMA StutterInv == IInv /\ UNCHANGED vars => IInv'
  BY SMT DEF IInv, TypeOK, Caching, Reporting, LiveIsFound, GivenUp, Begun, Answers, vars, legs

-----------------------------------------------------------------------------
(* Types *)

\* Every step keeps the types of the state.
LEMMA TypesKept == TypeOK /\ Next => TypeOK'
<1> SUFFICES ASSUME TypeOK, Next PROVE TypeOK'
  OBVIOUS
<1> USE DEF TypeOK, legs
<1>1. CASE OnInvite
  BY <1>1 DEF OnInvite
<1>2. CASE Answer
  BY <1>2 DEF Answer
<1>3. CASE OnAck
  BY <1>3 DEF OnAck
<1>4. CASE HandlerReturns
  BY <1>4 DEF HandlerReturns
<1>5. CASE Hangup
  <2>1. CASE sip' = [sip EXCEPT !["in"] = "ended"] /\ peer' = [peer EXCEPT !["in"] = FALSE]
    BY <1>5, <2>1 DEF Hangup
  <2>2. CASE sip' = sip /\ peer' = peer
    BY <1>5, <2>2 DEF Hangup
  <2> QED BY <1>5, <2>1, <2>2 DEF Hangup
<1>6. CASE Deletes
  BY <1>6 DEF Deletes
<1>7. CASE CloseServer
  BY <1>7 DEF CloseServer
<1>8. ASSUME NEW r \in Reqs, RequestSent(r) PROVE TypeOK'
  BY <1>8 DEF RequestSent
<1>9. ASSUME NEW r \in Reqs, MatchDialog(r) PROVE TypeOK'
  BY <1>9 DEF MatchDialog, Answered
<1>10. ASSUME NEW r \in Reqs, OnBye(r) PROVE TypeOK'
  BY <1>10 DEF OnBye, Answered, Moves, OnState, Sends
<1>11. ASSUME NEW r \in Reqs, OnByeMedia(r) PROVE TypeOK'
  <2>1. media' \subseteq Legs
    BY <1>11, ZenonT(30) DEF OnByeMedia
  <2>2. Answered(r, 200)
    BY <1>11 DEF OnByeMedia
  <2>3. UNCHANGED <<sip, peer, cached, closed, handler, onRefer, refer, told>>
    BY <1>11 DEF OnByeMedia
  <2> QED BY <2>1, <2>2, <2>3 DEF Answered
<1>12. ASSUME NEW r \in Reqs, OnInDialog(r) PROVE TypeOK'
  BY <1>12 DEF OnInDialog, Answered
<1>13. ASSUME NEW r \in Reqs, OnRefer(r) PROVE TypeOK'
  BY <1>13 DEF OnRefer, Answered
<1>14. CASE NotifyTrying
  BY <1>14 DEF NotifyTrying, Sends
<1>15. CASE Invite
  <2>1. CASE sip' = sip /\ cached' = cached /\ media' = media
    BY <1>15, <2>1 DEF Invite
  <2>2. CASE sip' = [sip EXCEPT !["out"] = "established"]
    BY <1>15, <2>2, ZenonT(30) DEF Invite
  <2> QED BY <1>15, <2>1, <2>2 DEF Invite
<1>16. CASE AckWritten
  BY <1>16 DEF AckWritten
<1>17. CASE AckDone
  <2>1. /\ refer' = "up"
        /\ UNCHANGED <<peer, media, closed, handler, req, onRefer>>
    BY <1>17 DEF AckDone
  <2>2. CASE sip["out"] = "established"
    <3>1. Moves("out", "confirmed") /\ cached' \subseteq cached \cup {"out"}
      BY <1>17, <2>2 DEF AckDone, StoredOn
    <3>2. sip' = [sip EXCEPT !["out"] = "confirmed"] /\ told' \in [Outcomes -> Nat]
      BY <3>1 DEF Moves, OnState, Sends
    <3> QED BY <2>1, <3>1, <3>2
  <2>3. CASE sip["out"] # "established"
    <3>1. UNCHANGED <<sip, cached, told>>
      BY <1>17, <2>3 DEF AckDone
    <3> QED BY <2>1, <3>1
  <2> QED BY <2>2, <2>3
<1>18. CASE AckFails
  BY <1>18 DEF AckFails
<1>23. CASE AppReturns
  BY <1>23 DEF AppReturns
<1>19. CASE NotifyFailure
  BY <1>19 DEF NotifyFailure, Sends
<1>20. CASE CloseClient
  BY <1>20 DEF CloseClient
<1>21. CASE Uncache
  BY <1>21 DEF Uncache, Uncaches
<1>22. CASE HangupOut
  <2>1. /\ Moves("out", "ended") /\ peer' = [peer EXCEPT !["out"] = FALSE]
        /\ UNCHANGED <<cached, media, closed, handler, req, onRefer, refer>>
    BY <1>22, Zenon DEF HangupOut
  <2>2. sip' = [sip EXCEPT !["out"] = "ended"] /\ told' \in [Outcomes -> Nat]
    BY <2>1 DEF Moves, OnState, Sends
  <2>3. sip' \in [Legs -> {"none", "early", "established", "confirmed", "ended"}]
    BY <2>2
  <2>4. peer' \in [Legs -> BOOLEAN]
    BY <2>1, ZenonT(60)
  <2> QED BY <2>1, <2>2, <2>3, <2>4, ZenonT(60)
<1> QED
  BY <1>1, <1>2, <1>3, <1>4, <1>5, <1>6, <1>7, <1>8, <1>9, <1>10, <1>11, <1>12, <1>13, <1>14,
     <1>15, <1>16, <1>17, <1>18, <1>19, <1>20, <1>21, <1>22, <1>23
     DEF Next, Handler, Request, Refer

-----------------------------------------------------------------------------
(* The goroutine of the inbound INVITE *)

\* The handler's goroutine keeps it: the dialog is stored before it is served and
\* deleted when it is given up (OnInvite).
LEMMA HandlerInv ==
  ASSUME IInv, OnInvite \/ Answer \/ OnAck \/ HandlerReturns \/ Handler
  PROVE  IInv'
<1> USE DEF IInv, TypeOK, Caching, Reporting, LiveIsFound, GivenUp, Begun, Answers, legs
<1>1. CASE OnInvite
  BY <1>1, SMT DEF OnInvite
<1>2. CASE Answer
  BY <1>2, SMT DEF Answer
<1>3. CASE OnAck
  BY <1>3, SMT DEF OnAck
<1>4. CASE HandlerReturns
  BY <1>4, SMT DEF HandlerReturns
<1>5. CASE Hangup
  <2>1. TypeOK'
    BY <1>5, TypesKept DEF Next, Handler
  <2>2. Caching'
    BY <1>5, <2>1, SMT DEF Hangup, HangsUp
  <2>3. Reporting'
    BY <1>5, <2>1, SMT DEF Hangup, HangsUp
  <2> QED BY <2>1, <2>2, <2>3
<1>6. CASE Deletes
  BY <1>6, SMT DEF Deletes
<1>7. CASE CloseServer
  <2>1. TypeOK'
    BY <1>7, TypesKept DEF Next, Handler
  <2>2. Caching'
    BY <1>7, <2>1, SMT DEF CloseServer
  <2>3. Reporting'
    BY <1>7, <2>1, SMT DEF CloseServer
  <2> QED BY <2>1, <2>2, <2>3
<1> QED BY <1>1, <1>2, <1>3, <1>4, <1>5, <1>6, <1>7 DEF Handler

-----------------------------------------------------------------------------
(* Requests within a dialog *)

\* A request keeps it: what is not found is given up, and a dialog that a BYE ends
\* is reported (MatchDialog, OnBye, dialogHandleRefer).
LEMMA RequestInv ==
  ASSUME IInv, NEW r \in Reqs, RequestSent(r) \/ Request(r)
  PROVE  IInv'
<1> USE DEF IInv, TypeOK, Caching, Reporting, LiveIsFound, GivenUp, Begun, Answers, legs
<1>1. CASE RequestSent(r)
  <2>1. TypeOK'
    BY <1>1, SMT DEF RequestSent
  <2>2. Caching'
    BY <1>1, <2>1, SMT DEF RequestSent
  <2>3. Reporting'
    BY <1>1, <2>1, SMTT(20) DEF RequestSent
  <2> QED BY <2>1, <2>2, <2>3
<1>2. CASE MatchDialog(r)
  <2>1. TypeOK'
    BY <1>2, TypesKept DEF Next, Request
  <2>2. CASE req[r].leg \in cached
    BY <1>2, <2>1, <2>2, SMT DEF MatchDialog
  <2>3. CASE req[r].leg \notin cached
    <3>1. Caching'
      BY <1>2, <2>1, <2>3, SMT DEF MatchDialog, Answered
    <3>2. Reporting'
      BY <1>2, <2>1, <2>3, SMT DEF MatchDialog, Answered
    <3> QED BY <2>1, <3>1, <3>2
  <2> QED BY <2>2, <2>3
<1>3. CASE OnBye(r)
  <2>1. TypeOK'
    BY <1>3, TypesKept DEF Next, Request
  <2>2. CASE req[r].kind = "bye"
    <3>1. Caching'
      BY <1>3, <2>1, <2>2, SMTT(20) DEF OnBye, Moves, OnState, Sends
    <3>2. Reporting'
      BY <1>3, <2>1, <2>2, SMT DEF OnBye, Moves, OnState, Sends
    <3> QED BY <2>1, <3>1, <3>2
  <2>3. CASE req[r].kind = "oldbye"
    <3>1. Caching'
      BY <1>3, <2>1, <2>3, SMT DEF OnBye, Answered
    <3>2. Reporting'
      BY <1>3, <2>1, <2>3, SMT DEF OnBye, Answered
    <3> QED BY <2>1, <3>1, <3>2
  <2> QED BY <1>3, <2>2, <2>3 DEF OnBye
<1>4. CASE OnByeMedia(r)
  <2>1. TypeOK'
    BY <1>4, TypesKept DEF Next, Request
  <2>2. Caching'
    BY <1>4, <2>1, SMT DEF OnByeMedia, Answered
  <2>3. Reporting'
    BY <1>4, <2>1, SMT DEF OnByeMedia, Answered
  <2> QED BY <2>1, <2>2, <2>3
<1>5. CASE OnInDialog(r)
  BY <1>5, SMT DEF OnInDialog, Answered
<1>6. CASE OnRefer(r)
  BY <1>6, SMTT(30) DEF OnRefer, Answered
<1> QED BY <1>1, <1>2, <1>3, <1>4, <1>5, <1>6, ZenonT(60) DEF Request

-----------------------------------------------------------------------------
(* The REFER *)

\* The REFER keeps it: its dialog is stored on the answer, and every way out of it
\* has been reported (dialogReferInvite, newSipDialog, Close).
LEMMA ReferInv ==
  ASSUME IInv, Refer \/ HangupOut \/ AppReturns
  PROVE  IInv'
<1> USE DEF IInv, TypeOK, Caching, Reporting, LiveIsFound, GivenUp, Begun, Answers, legs
<1>1. CASE NotifyTrying
  BY <1>1, SMT DEF NotifyTrying, Sends
<1>2. CASE Invite
  <2>1. TypeOK'
    BY <1>2, TypesKept DEF Next, Refer
  <2>2. Caching'
    BY <1>2, <2>1, SMT DEF Invite, StoredOn
  <2>3. Reporting'
    BY <1>2, <2>1, SMT DEF Invite, StoredOn
  <2> QED BY <2>1, <2>2, <2>3
<1>3. CASE AckWritten
  BY <1>3, SMT, SMTT(30) DEF AckWritten
<1>4. CASE AckDone
  <2>1. TypeOK'
    BY <1>4, TypesKept DEF Next, Refer
  <2>2. Caching'
    BY <1>4, <2>1, SMT DEF AckDone, Moves, OnState, Sends, StoredOn
  <2>3. Reporting'
    BY <1>4, <2>1, SMT DEF AckDone, Moves, OnState, Sends, StoredOn
  <2> QED BY <2>1, <2>2, <2>3
<1>5. CASE AckFails
  BY <1>5, SMT DEF AckFails
<1>6. CASE NotifyFailure
  BY <1>6, SMT DEF NotifyFailure, ReportsFailure, Sends
<1>7. CASE CloseClient
  BY <1>7, SMT DEF CloseClient
<1>8. CASE Uncache
  BY <1>8, SMT, SMTT(30) DEF Uncache, Uncaches
<1>9. CASE HangupOut
  BY <1>9, SMT DEF HangupOut, Moves, OnState, Sends
<1>10. CASE AppReturns
  BY <1>10, SMT DEF AppReturns
<1> QED BY <1>1, <1>2, <1>3, <1>4, <1>5, <1>6, <1>7, <1>8, <1>9, <1>10, ZenonT(30) DEF Refer

-----------------------------------------------------------------------------
(* The theorems *)

\* Every step of the handlers, the requests and the REFER keeps the invariant.
THEOREM DispatchInvariant == Spec => []IInv
<1>1. IInv /\ [Next]_vars => IInv'
  <2> SUFFICES ASSUME IInv, [Next]_vars PROVE IInv'
    OBVIOUS
  <2>1. CASE UNCHANGED vars
    BY <2>1, StutterInv
  <2>2. CASE OnInvite \/ Answer \/ OnAck \/ HandlerReturns \/ Handler
    BY <2>2, HandlerInv
  <2>3. CASE \E r \in Reqs : RequestSent(r) \/ Request(r)
    BY <2>3, RequestInv
  <2>4. CASE Refer \/ HangupOut \/ AppReturns
    BY <2>4, ReferInv
  <2> QED BY <2>1, <2>2, <2>3, <2>4 DEF Next
<1> QED BY InitInv, <1>1, PTL DEF Spec

\* A request on a live dialog is never answered 481, however many requests come
\* and in whatever order they are matched and handled (OnInvite, newSipDialog,
\* MatchDialog).
THEOREM AlwaysFound == Spec => []LiveIsFound
<1>1. IInv => LiveIsFound
  BY DEF IInv, Caching
<1> QED BY <1>1, DispatchInvariant, PTL

\* Every accepted REFER whose NOTIFY 100 went out is reported, as it went
\* (dialogReferInvite).
THEOREM AlwaysReported == Spec => []ReferReported
<1>1. IInv => ReferReported
  BY SMT DEF IInv, TypeOK, Reporting, ReferReported, Answers
<1> QED BY <1>1, DispatchInvariant, PTL

HIDE DEF Legs, Kinds, Outcomes

-----------------------------------------------------------------------------
(* Sequences *)

\* How sequences are built.
LEMMA LenProperties ==
  ASSUME NEW S, NEW s \in Seq(S)
  PROVE  Len(s) \in Nat /\ DOMAIN s = 1 .. Len(s)
OBVIOUS

LEMMA ElementOfSeq ==
  ASSUME NEW S, NEW s \in Seq(S), NEW i \in 1 .. Len(s)
  PROVE  s[i] \in S
OBVIOUS

LEMMA EmptySeq ==
  ASSUME NEW S, NEW s \in Seq(S)
  PROVE  s = <<>> <=> Len(s) = 0
OBVIOUS

(* BridgeProxy: the inductive invariant *)

\* Nobody joins a bridge twice, and its proxy runs on two dialogs that joined.
ProxyJoined ==
    /\ waitNum \in WaitNums
    /\ \A i, j \in 1 .. Len(dialogs) : dialogs[i] = dialogs[j] => i = j
    /\ proxy # "none" =>
           /\ Len(dialogs) >= 2 /\ Len(pair) = 2
           /\ pair[1] # pair[2]

Running(d) == IF dir[d] \in {"reading", "writing"} THEN 1 ELSE 0
Launched == proxy \notin {"none", "hook1", "hook2", "check", "launch"}

\* The directions proxyWait still counts are those that run and those whose result
\* is in errCh; only the pair's directions run.
ProxyCounted ==
    /\ Launched => running = errCh + Running(pair[1]) + Running(pair[2])
    /\ ~Launched => errCh = 0 /\ running = 0
    /\ \A d \in Dialogs : ~Launched \/ (d # pair[1] /\ d # pair[2]) => dir[d] = "none"
    /\ proxy \in {"start", "done"} => running = 0

\* Reads are stopped from StopRTP to StartRTP only, and those of the pair only.
ProxyStopped ==
    /\ deadline # {} => proxy \in {"drain", "start"}
    /\ \A d \in deadline : d = pair[1] \/ d = pair[2]

ProxyIInv == Proxy!TypeOK /\ ProxyJoined /\ ProxyCounted /\ ProxyStopped

-----------------------------------------------------------------------------
(* BridgeProxy: the steps *)

\* Nothing has joined.
LEMMA ProxyInitInv == Proxy!Init => ProxyIInv
<1> SUFFICES ASSUME Proxy!Init PROVE ProxyIInv
  OBVIOUS
<1> USE DEF Proxy!Init
<1>1. Proxy!TypeOK
  <2>1. dialogs \in Seq(Dialogs) /\ pair \in Seq(Dialogs)
    BY EmptySeq
  <2>2. /\ answered = {} /\ mediaClosed = {} /\ over = {} /\ deadline = {}
        /\ codec \in [Dialogs -> Codecs] /\ proxy = "none" /\ errCh = 0 /\ running = 0
        /\ mismatch = FALSE /\ stopping = FALSE
    OBVIOUS
  <2>3. /\ hook \in [Dialogs -> {"none", "set", "due"}]
        /\ dir \in [Dialogs -> {"none", "reading", "writing", "ended"}]
        /\ stopper \in [Callers -> {"idle", "waiting", "returned"}]
    OBVIOUS
  <2>4. errCh \in 0 .. 2 /\ running \in 0 .. 2
    BY <2>2
  <2> HIDE DEF Proxy!Init
  <2> QED BY <2>1, <2>2, <2>3, <2>4, Zenon DEF Proxy!TypeOK
<1>2. dialogs = <<>> /\ proxy = "none" /\ waitNum \in WaitNums
  OBVIOUS
<1>3. ProxyJoined
  BY ONLY <1>2 DEF ProxyJoined
<1>4. ProxyCounted /\ ProxyStopped
  BY DEF ProxyCounted, ProxyStopped, Launched
<1> QED BY <1>1, <1>3, <1>4 DEF ProxyIInv

\* What the dialogs, the hooks and the callers of stop do leaves alone what the
\* proxy counts.
LEMMA ProxyOutsideInv ==
  ASSUME ProxyIInv, Proxy!Answers \/ Proxy!Updates \/ Proxy!Overs \/ Proxy!Closes
         \/ Proxy!StopCalls \/ Proxy!StopReturns \/ Proxy!Hooks
  PROVE ProxyIInv'
<1> USE DEF Proxy!bridgeVars, Proxy!dialogVars, Proxy!proxyVars
<1>1. UNCHANGED <<dialogs, waitNum, pair, proxy, dir, errCh, running, deadline>>
  BY DEF Proxy!Answers, Proxy!Updates, Proxy!Overs, Proxy!Closes, Proxy!StopCalls,
     Proxy!StopReturns, Proxy!Hooks, Proxy!Answer, Proxy!MediaUpdate,
     Proxy!Over, Proxy!CloseMedia, Proxy!stop, Proxy!stopped, Proxy!HookRuns
<1>2. ProxyJoined' /\ ProxyCounted' /\ ProxyStopped'
  BY <1>1 DEF ProxyIInv, ProxyJoined, ProxyCounted, ProxyStopped, Launched, Running
<1>3. Proxy!TypeOK
  BY DEF ProxyIInv
<1> USE <1>3 DEF Proxy!TypeOK
<1>4. ASSUME Proxy!Answers PROVE Proxy!TypeOK'
  BY <1>4 DEF Proxy!Answers, Proxy!Answer
<1>5. ASSUME Proxy!Updates PROVE Proxy!TypeOK'
  BY <1>5 DEF Proxy!Updates, Proxy!MediaUpdate
<1>6. ASSUME Proxy!Overs PROVE Proxy!TypeOK'
  BY <1>6 DEF Proxy!Overs, Proxy!Over
<1>7. ASSUME Proxy!Closes PROVE Proxy!TypeOK'
  BY <1>7 DEF Proxy!Closes, Proxy!CloseMedia
<1>8. ASSUME Proxy!StopCalls PROVE Proxy!TypeOK'
  BY <1>8 DEF Proxy!StopCalls, Proxy!stop
<1>9. ASSUME Proxy!StopReturns PROVE Proxy!TypeOK'
  BY <1>9 DEF Proxy!StopReturns, Proxy!stopped
<1>10. ASSUME Proxy!Hooks PROVE Proxy!TypeOK'
  BY <1>10 DEF Proxy!Hooks, Proxy!HookRuns, Proxy!checkCodecs
<1> QED BY <1>2, <1>4, <1>5, <1>6, <1>7, <1>8, <1>9, <1>10 DEF ProxyIInv

\* The dialog that joins is a new one, and the proxy is made for the first two.
LEMMA ProxyJoinInv == ASSUME ProxyIInv, Proxy!Adds \/ Proxy!ProxyMediaControl PROVE ProxyIInv'
<1> USE DEF Proxy!bridgeVars, Proxy!dialogVars, Proxy!proxyVars
<1>1. Proxy!TypeOK /\ ProxyJoined /\ ProxyCounted /\ ProxyStopped
  BY DEF ProxyIInv
<1>2. waitNum \in Nat /\ waitNum >= 2
  BY <1>1, WaitNumsAssumption DEF ProxyJoined
<1>3. ASSUME NEW d \in Dialogs, Proxy!AddDialogSession(d) PROVE ProxyIInv'
  <2>1. /\ dialogs \in Seq(Dialogs)
        /\ dialogs' = Append(dialogs, d)
        /\ UNCHANGED <<waitNum, deadline, errCh, running, dir>>
    BY <1>1, <1>3 DEF Proxy!AddDialogSession, Proxy!TypeOK
  <2>2. /\ dialogs' \in Seq(Dialogs) /\ Len(dialogs') = Len(dialogs) + 1
        /\ \A i \in 1 .. Len(dialogs) : dialogs'[i] = dialogs[i]
        /\ dialogs'[Len(dialogs) + 1] = d
    BY <2>1
  <2>3. \A i \in 1 .. Len(dialogs) : dialogs[i] # d
    BY <1>3, <2>1 DEF Proxy!AddDialogSession, Proxy!Range
  <2>4. \A i, j \in 1 .. Len(dialogs') : dialogs'[i] = dialogs'[j] => i = j
    <3>1. Len(dialogs) \in Nat
      BY <2>1
    <3> QED BY <1>1, <2>2, <2>3, <3>1 DEF ProxyJoined
  <2>5. CASE Len(dialogs') < waitNum
    <3>1. UNCHANGED <<proxy, pair>>
      BY <1>3, <2>5, SMTT(30) DEF Proxy!AddDialogSession
    <3>2. Proxy!TypeOK'
      BY <1>1, <1>3, <2>1, <2>2, <3>1, SMTT(30) DEF Proxy!TypeOK, Proxy!AddDialogSession
    <3>3. ProxyJoined'
      BY <1>1, <2>1, <2>2, <2>4, <3>1 DEF ProxyJoined
    <3>4. ProxyCounted' /\ ProxyStopped'
      BY <1>1, <2>1, <3>1 DEF ProxyCounted, ProxyStopped, Launched, Running
    <3> QED BY <3>2, <3>3, <3>4 DEF ProxyIInv
  <2>6. CASE ~(Len(dialogs') < waitNum)
    <3>1. Proxy!newBridgeProxy(dialogs')
      BY <1>3, <2>6 DEF Proxy!AddDialogSession
    <3>2. Len(dialogs') = 2
      BY <1>2, <1>3, <2>2, <2>6 DEF Proxy!AddDialogSession, Proxy!MayJoin
    <3>3. proxy = "none"
      BY <1>1, <2>1, <2>2, <3>2 DEF ProxyJoined
    <3>4. Proxy!TypeOK'
      BY <1>1, <1>3, <2>1, <2>2, <3>1, ZenonT(60) DEF Proxy!TypeOK, Proxy!AddDialogSession,
         Proxy!newBridgeProxy
    <3>5. ProxyJoined'
      BY <1>1, <2>1, <2>2, <2>4, <3>1, <3>2 DEF ProxyJoined, Proxy!newBridgeProxy
    <3>6. ProxyCounted' /\ ProxyStopped'
      BY <1>1, <2>1, <3>1, <3>3 DEF ProxyCounted, ProxyStopped, Launched, Proxy!newBridgeProxy
    <3> QED BY <3>4, <3>5, <3>6 DEF ProxyIInv
  <2> QED BY <2>5, <2>6
<1>4. CASE Proxy!ProxyMediaControl
  <2>1. Proxy!TypeOK'
    BY <1>1, <1>4 DEF Proxy!TypeOK, Proxy!ProxyMediaControl, Proxy!newBridgeProxy
  <2>2. ProxyJoined'
    <3>1. /\ Len(dialogs) = 2 /\ pair' = dialogs /\ dialogs' = dialogs
          /\ waitNum' = waitNum
      BY <1>4 DEF Proxy!ProxyMediaControl, Proxy!newBridgeProxy
    <3>2. dialogs[1] # dialogs[2]
      BY <1>1, <3>1 DEF ProxyJoined
    <3>3. Len(dialogs') >= 2 /\ Len(pair') = 2 /\ pair'[1] # pair'[2]
      BY <3>1, <3>2
    <3>4. /\ waitNum \in WaitNums
          /\ \A i, j \in 1 .. Len(dialogs) : dialogs[i] = dialogs[j] => i = j
      BY <1>1, SMTT(30) DEF ProxyJoined
    <3> QED BY <3>1, <3>3, <3>4, Zenon DEF ProxyJoined
  <2>3. ProxyCounted' /\ ProxyStopped'
    BY <1>1, <1>4 DEF ProxyCounted, ProxyStopped, Launched, Proxy!ProxyMediaControl,
       Proxy!newBridgeProxy
  <2> QED BY <2>1, <2>2, <2>3 DEF ProxyIInv
<1> QED BY <1>3, <1>4 DEF Proxy!Adds

\* A direction that ends is counted by its result instead, and the proxy takes the
\* results of both before it enables the reads.
LEMMA ProxyStepInv ==
  ASSUME ProxyIInv,
         \/ Proxy!proxyMediaHook \/ Proxy!proxyMediaCheck \/ Proxy!proxyMediaLaunch
         \/ Proxy!proxyWait \/ Proxy!StopRTP \/ Proxy!proxyDrain
         \/ Proxy!StartRTP \/ Proxy!DirReads \/ Proxy!DirWrites \/ Proxy!DirEnds
  PROVE ProxyIInv'
<1> USE DEF Proxy!bridgeVars, Proxy!dialogVars, Proxy!proxyVars
<1>1. Proxy!TypeOK /\ ProxyJoined /\ ProxyCounted /\ ProxyStopped
  BY SMTT(30) DEF ProxyIInv
<1>2. proxy # "none"
  BY <1>1 DEF ProxyCounted, Launched, Proxy!proxyMediaHook, Proxy!proxyMediaCheck,
     Proxy!proxyMediaLaunch, Proxy!proxyWait, Proxy!StopRTP,
     Proxy!proxyDrain, Proxy!StartRTP, Proxy!DirReads, Proxy!DirWrites, Proxy!DirEnds,
     Proxy!Reads, Proxy!Writes, Proxy!Ends
<1>3. pair \in Seq(Dialogs) /\ Len(pair) = 2 /\ pair[1] \in Dialogs /\ pair[2] \in Dialogs
  <2>1. pair \in Seq(Dialogs) /\ Len(pair) = 2
    BY <1>1, <1>2 DEF ProxyJoined, Proxy!TypeOK
  <2>2. \A i \in 1 .. Len(pair) : pair[i] \in Dialogs
    BY <2>1, ElementOfSeq
  <2>3. 1 \in 1 .. Len(pair) /\ 2 \in 1 .. Len(pair)
    BY <2>1
  <2> QED BY <2>1, <2>2, <2>3
<1>4. Proxy!Range(pair) = {pair[1], pair[2]}
  BY <1>3, SMTT(30) DEF Proxy!Range
<1>5. UNCHANGED <<dialogs, waitNum, pair>>
  BY ZenonT(60) DEF Proxy!proxyMediaHook, Proxy!proxyMediaCheck, Proxy!proxyMediaLaunch,
     Proxy!proxyWait, Proxy!StopRTP,
     Proxy!proxyDrain, Proxy!StartRTP, Proxy!DirReads,
     Proxy!DirWrites, Proxy!DirEnds, Proxy!Reads, Proxy!Writes, Proxy!Ends
<1>6. proxy' # "none"
  BY <1>1, <1>2 DEF Proxy!TypeOK, Proxy!proxyMediaHook, Proxy!proxyMediaCheck,
     Proxy!proxyMediaLaunch, Proxy!proxyWait, Proxy!StopRTP, Proxy!proxyDrain,
     Proxy!StartRTP, Proxy!DirReads, Proxy!DirWrites, Proxy!DirEnds, Proxy!Reads, Proxy!Writes,
     Proxy!Ends
<1>7. ProxyJoined'
  BY <1>1, <1>2, <1>5 DEF ProxyJoined
<1>8. Dialogs # {} /\ pair[1] # pair[2]
  BY <1>1, <1>2, <1>3, ZenonT(60) DEF ProxyJoined
<1> USE <1>1, <1>3, <1>4, <1>5, <1>8 DEF Proxy!TypeOK, ProxyCounted, ProxyStopped, Launched,
         Running
<1> DEFINE Good == Proxy!TypeOK' /\ ProxyCounted' /\ ProxyStopped'
<1>19. ASSUME Proxy!proxyMediaHook PROVE Good
  BY <1>19, ZenonT(60) DEF Proxy!proxyMediaHook
<1>9. ASSUME Proxy!proxyMediaCheck PROVE Good
  BY <1>9, ZenonT(60) DEF Proxy!proxyMediaCheck, Proxy!checkCodecs
<1>10. ASSUME Proxy!proxyMediaLaunch PROVE Good
  <2>1. CASE mismatch
    <3>1. Proxy!Unhooked \in [Dialogs -> {"none", "set", "due"}]
      BY ZenonT(60) DEF Proxy!Unhooked
    <3> QED BY <1>10, <2>1, <3>1, SMTT(20) DEF Proxy!proxyMediaLaunch
  <2>2. CASE ~mismatch
    BY <1>10, <2>2, SMTT(20) DEF Proxy!proxyMediaLaunch
  <2> QED BY <2>1, <2>2, ZenonT(60)
<1>11. ASSUME Proxy!proxyWait PROVE Good
  BY <1>11 DEF Proxy!proxyWait
<1>12. ASSUME Proxy!StopRTP PROVE Good
  BY <1>12, ZenonT(60) DEF Proxy!StopRTP, Proxy!StopsBoth
<1>13. ASSUME Proxy!proxyDrain PROVE Good
  BY <1>13 DEF Proxy!proxyDrain, Proxy!Drains
<1>14. ASSUME Proxy!StartRTP PROVE Good
  BY <1>14 DEF Proxy!StartRTP, Proxy!Starts, Proxy!Unhooked
<1>15. ASSUME NEW d \in Dialogs, Proxy!Reads(d) PROVE Good
  BY <1>15 DEF Proxy!Reads
<1>16. ASSUME NEW d \in Dialogs, Proxy!Writes(d) PROVE Good
  BY <1>16 DEF Proxy!Writes
<1>17. ASSUME NEW d \in Dialogs, Proxy!Ends(d) PROVE Good
  BY <1>17 DEF Proxy!Ends
<1> HIDE DEF Good
<1>18. Good
  BY <1>9, <1>10, <1>11, <1>12, <1>13, <1>14, <1>15, <1>16, <1>17, <1>19
     DEF Proxy!DirReads, Proxy!DirWrites, Proxy!DirEnds
<1> QED BY <1>7, <1>18, ZenonT(30) DEF ProxyIInv, Good

-----------------------------------------------------------------------------
(* The theorems *)

\* Every step of the dialogs, the bridge and its proxy keeps the count.
THEOREM ProxyInvariant == Proxy!Spec => []ProxyIInv
<1>1. ProxyIInv /\ [Proxy!Next]_Proxy!vars => ProxyIInv'
  <2> SUFFICES ASSUME ProxyIInv, [Proxy!Next]_Proxy!vars PROVE ProxyIInv'
    OBVIOUS
  <2>1. CASE UNCHANGED Proxy!vars
    BY <2>1 DEF Proxy!vars, Proxy!bridgeVars, Proxy!dialogVars, Proxy!proxyVars, ProxyIInv,
       Proxy!TypeOK, ProxyJoined, ProxyCounted, ProxyStopped,
       Launched, Running
  <2>2. CASE Proxy!Next
    BY <2>2, ProxyOutsideInv, ProxyJoinInv, ProxyStepInv DEF Proxy!Next
  <2> QED BY <2>1, <2>2, ZenonT(60)
<1> QED BY ProxyInitInv, <1>1, PTL DEF Proxy!Spec

\* Whatever ended the proxy, and however many callers stop it, when it is done no
\* direction runs, no read is left stopped and no result unread (proxyWait,
\* StopProxyMedia).
THEOREM DoneAlwaysClean == Proxy!Spec => []DoneIsClean
<1>1. ProxyIInv => DoneIsClean
  <2> SUFFICES ASSUME ProxyIInv, proxy = "done"
               PROVE /\ \A d \in Dialogs : dir[d] \in {"none", "ended"}
                     /\ deadline = {} /\ errCh = 0
    BY DEF DoneIsClean, Proxy!DoneIsClean
  <2>1. errCh = 0 /\ Running(pair[1]) = 0 /\ Running(pair[2]) = 0
    BY DEF ProxyIInv, Proxy!TypeOK, ProxyCounted, Launched, Running
  <2>2. deadline = {}
    BY DEF ProxyIInv, ProxyStopped
  <2>3. \A d \in Dialogs : dir[d] \in {"none", "ended"}
    BY <2>1 DEF ProxyIInv, Proxy!TypeOK, ProxyCounted, Launched, Running
  <2> QED BY <2>1, <2>2, <2>3
<1> QED BY <1>1, ProxyInvariant, PTL
=============================================================================
