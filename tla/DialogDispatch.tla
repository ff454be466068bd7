-------------------------- MODULE DialogDispatch --------------------------
(***************************************************************************)
(* The requests a Diago is sent and the dialogs it holds.  An INVITE makes *)
(* an inbound dialog, stored in the dialog cache while the application's   *)
(* handler serves it.  A request within a dialog is matched in the cache   *)
(* and handled by what it finds.  A REFER makes an outbound dialog, lets   *)
(* the application call on it and reports how that went by NOTIFY          *)
(* (dialogReferInvite).                                                    *)
(*                                                                         *)
(* Two dialogs are followed: the inbound one, and the one its REFER makes. *)
(* sipgo moves the dialogs through their states and is external; a dialog  *)
(* whose INVITE was refused stays where it was.                            *)
(***************************************************************************)
EXTENDS Naturals

CONSTANTS
    Reqs        \* 1 .. n, the requests that come within the dialogs

Legs == {"in", "out"}
Kinds == {"bye", "oldbye", "other", "refer"}
Outcomes == {"trying", "ok", "failure"}

VARIABLES
    sip,        \* leg -> the state sipgo holds it in
    peer,       \* leg -> the call is up for its peer
    cached,     \* the legs in the dialog caches
    media,      \* the legs whose media is open
    closed,     \* the legs whose Close has begun
    handler,    \* where the goroutine of the inbound INVITE is
    req,        \* the requests within the dialogs
    onRefer,    \* the application takes REFERs
    refer,      \* where the REFER is, after its 202
    told        \* the NOTIFYs sent for it

legs == <<sip, peer, cached, media, closed>>
vars == <<legs, handler, req, onRefer, refer, told>>

NoReq == [leg |-> "in", kind |-> "none", at |-> "free", ans |-> 0]

TypeOK ==
    /\ sip \in [Legs -> {"none", "early", "established", "confirmed", "ended"}]
    /\ peer \in [Legs -> BOOLEAN]
    /\ cached \subseteq Legs /\ media \subseteq Legs /\ closed \subseteq Legs
    /\ handler \in {"none", "serving", "hangup", "delete", "close", "done"}
    /\ req \in [Reqs -> [leg : Legs, kind : Kinds \cup {"none"},
                         at : {"free", "sent", "matched", "media", "done"},
                         ans : {0, 200, 202, 400, 406, 481, 500}]]
    /\ onRefer \in BOOLEAN
    /\ refer \in {"none", "made", "calling", "acking", "up", "refused", "failed",
                  "close", "uncache", "done"}
    /\ told \in [Outcomes -> Nat]

Init ==
    /\ sip = [l \in Legs |-> "none"] /\ peer = [l \in Legs |-> FALSE]
    /\ cached = {} /\ media = {} /\ closed = {}
    /\ handler = "none"
    /\ req = [r \in Reqs |-> NoReq]
    /\ onRefer \in BOOLEAN
    /\ refer = "none"
    /\ told = [n \in Outcomes |-> 0]

-----------------------------------------------------------------------------
(* NOTIFYs to the peer of the inbound dialog. *)

\* Do sends a request within the dialog while it lives.
Sends(n) == [told EXCEPT ![n] = IF sip["in"] # "ended" THEN @ + 1 ELSE @]

\* OnState of the referred dialog: confirmed and ended are both reported as 200.
OnState(l, s) == told' = IF l = "out" /\ s \in {"confirmed", "ended"} THEN Sends("ok") ELSE told

\* sipgo moves leg l to state s and calls OnState; a dialog ends once.
Moves(l, s) ==
    /\ sip' = [sip EXCEPT ![l] = s]
    /\ IF sip[l] # s THEN OnState(l, s) ELSE UNCHANGED told

-----------------------------------------------------------------------------
(* The inbound INVITE. *)

\* An INVITE that lacks a header or requires an unknown extension is answered
\* 400 or 420 and leaves nothing.  Any other one makes a dialog, which is stored
\* before the handler runs.
OnInvite ==
    /\ handler = "none"
    /\ sip' = [sip EXCEPT !["in"] = "early"]
    /\ cached' = cached \cup {"in"}
    /\ handler' = "serving"
    /\ UNCHANGED <<peer, media, closed, req, onRefer, refer, told>>

\* The handler answers: media is set up and the 2xx goes out.
Answer ==
    /\ handler = "serving" /\ sip["in"] = "early"
    /\ sip' = [sip EXCEPT !["in"] = "established"]
    /\ media' = media \cup {"in"}
    /\ peer' = [peer EXCEPT !["in"] = TRUE]
    /\ UNCHANGED <<cached, closed, handler, req, onRefer, refer, told>>

\* OnAck: an ACK that finds no dialog is dropped.
OnAck ==
    /\ sip["in"] = "established" /\ peer["in"] /\ "in" \in cached
    /\ sip' = [sip EXCEPT !["in"] = "confirmed"]
    /\ UNCHANGED <<peer, cached, media, closed, handler, req, onRefer, refer, told>>

HandlerReturns ==
    /\ handler = "serving"
    /\ handler' = "hangup"
    /\ UNCHANGED <<legs, req, onRefer, refer, told>>

\* The call is hung up whatever the handler did: declined before an answer, ended
\* with a BYE after it.  The BYE waits for the ACK, within ten seconds.
HangsUp == sip["in"] \in {"early", "established", "confirmed"}

Hangup ==
    /\ handler = "hangup"
    /\ \/ /\ HangsUp /\ sip["in"] # "established"
          /\ sip' = [sip EXCEPT !["in"] = "ended"]
          /\ peer' = [peer EXCEPT !["in"] = FALSE]
       \/ /\ ~HangsUp \/ sip["in"] = "established"
          /\ UNCHANGED <<sip, peer>>
    /\ handler' = "delete"
    /\ UNCHANGED <<cached, media, closed, req, onRefer, refer, told>>

\* DialogDelete, and then Close.
Deletes ==
    /\ handler = "delete"
    /\ cached' = cached \ {"in"}
    /\ handler' = "close"
    /\ UNCHANGED <<sip, peer, media, closed, req, onRefer, refer, told>>

CloseServer ==
    /\ handler = "close"
    /\ closed' = closed \cup {"in"}
    /\ media' = media \ {"in"}
    /\ handler' = "done"
    /\ UNCHANGED <<sip, peer, cached, req, onRefer, refer, told>>

-----------------------------------------------------------------------------
(* Requests within a dialog. *)

\* The peer sends one while the call is up for it; its BYE ends that, unless it
\* is one the other requests have overtaken.
RequestSent(r) ==
    /\ req[r].at = "free"
    /\ \A q \in 1 .. r - 1 : req[q].at # "free"
    /\ \E l \in Legs, k \in Kinds :
         /\ peer[l]
         /\ k = "refer" => l = "in" /\ refer = "none" /\ \A q \in Reqs : req[q].kind # "refer"
         /\ req' = [req EXCEPT ![r] = [leg |-> l, kind |-> k, at |-> "sent", ans |-> 0]]
         /\ peer' = [peer EXCEPT ![l] = k # "bye"]
    /\ UNCHANGED <<sip, cached, media, closed, handler, onRefer, refer, told>>

Answered(r, code) ==
    req' = [req EXCEPT ![r] = [leg |-> @.leg, kind |-> "none", at |-> "done", ans |-> code]]

\* MatchDialog: the server dialogs, then the client ones, else 481.
MatchDialog(r) ==
    /\ req[r].at = "sent"
    /\ IF req[r].leg \in cached
       THEN req' = [req EXCEPT ![r].at = "matched"]
       ELSE Answered(r, 481)
    /\ UNCHANGED <<legs, handler, onRefer, refer, told>>

\* ReadBye ends the dialog, or refuses a BYE that is out of order.
OnBye(r) ==
    /\ req[r].at = "matched" /\ req[r].kind \in {"bye", "oldbye"}
    /\ IF req[r].kind = "bye"
       THEN Moves(req[r].leg, "ended")
       ELSE UNCHANGED <<sip, told>>
    /\ IF req[r].kind = "bye"
       THEN req' = [req EXCEPT ![r].at = "media", ![r].ans = 200]
       ELSE Answered(r, 500)
    /\ UNCHANGED <<peer, cached, media, closed, handler, onRefer, refer>>

\* After that the media is closed, which unblocks the handler; not after a refusal.
OnByeMedia(r) ==
    /\ req[r].at = "media"
    /\ media' = media \ {req[r].leg}
    /\ Answered(r, 200)
    /\ UNCHANGED <<sip, peer, cached, closed, handler, onRefer, refer, told>>

\* INFO, NOTIFY and re-INVITE: on a dialog that has ended since it was found the
\* answer is 481 (readSIPInfoDTMF, handleReInvite), but to a NOTIFY that an open
\* REFER of ours expects (respondNotifyDialogEnded).  What a re-INVITE does to the
\* media is in MediaUpdate, what a NOTIFY does in ReferSubscription.
OnInDialog(r) ==
    /\ req[r].at = "matched" /\ req[r].kind = "other"
    /\ \E code \in {200, 481} :
         /\ code = 481 => sip[req[r].leg] = "ended"
         /\ Answered(r, code)
    /\ UNCHANGED <<legs, handler, onRefer, refer, told>>

-----------------------------------------------------------------------------
(* REFER: dialogHandleRefer and dialogReferInvite. *)

\* A dialog that has ended, an application that takes none, a bad request; else
\* 202, and then the outbound dialog, unless its transport is not known.
OnRefer(r) ==
    /\ req[r].at = "matched" /\ req[r].kind = "refer"
    /\ \E code \in {202, 400} :
         LET ans == IF sip["in"] = "ended" THEN 481 ELSE IF ~onRefer THEN 406 ELSE code IN
         /\ Answered(r, ans)
         /\ refer' \in IF ans = 202 THEN {"made", "done"} ELSE {refer}
    /\ UNCHANGED <<legs, handler, onRefer, told>>

\* NOTIFY 100, whose failure ends it.
NotifyTrying ==
    /\ refer = "made"
    /\ refer' \in IF sip["in"] # "ended" THEN {"calling", "close"} ELSE {"close"}
    /\ told' = IF refer' = "calling" THEN Sends("trying") ELSE told
    /\ UNCHANGED <<legs, handler, req, onRefer>>

\* The application calls, as OnRefer is documented to: it returns the error of an
\* INVITE or an ACK that failed, and returns without one only of a call that was up.
\* The INVITE is refused, fails, or is answered.  The dialog is stored on the
\* answer, before the ACK goes out.
StoredOnMutant(s) == s = "confirmed"
StoredOn(s) == s = "established"

Invite ==
    /\ refer = "calling"
    /\ \/ /\ refer' \in {"refused", "failed"}
          /\ UNCHANGED <<sip, cached, media>>
       \/ /\ refer' = "acking"
          /\ sip' = [sip EXCEPT !["out"] = "established"]
          /\ media' = media \cup {"out"}
          /\ cached' = IF StoredOn("established") THEN cached \cup {"out"} ELSE cached
    /\ UNCHANGED <<peer, closed, handler, req, onRefer, told>>

\* The ACK is written: from here on the callee sends requests.
AckWritten ==
    /\ refer = "acking" /\ ~peer["out"]
    /\ sip["out"] = "established"
    /\ peer' = [peer EXCEPT !["out"] = TRUE]
    /\ UNCHANGED <<sip, cached, media, closed, handler, req, onRefer, refer, told>>

\* sipgo confirms the dialog after that, unless a BYE has ended it.
AckDone ==
    /\ refer = "acking"
    /\ peer["out"] \/ sip["out"] = "ended"
    /\ IF sip["out"] = "established"
       THEN /\ Moves("out", "confirmed")
            /\ cached' = IF StoredOn("confirmed") THEN cached \cup {"out"} ELSE cached
       ELSE UNCHANGED <<sip, cached, told>>
    /\ refer' = "up"
    /\ UNCHANGED <<peer, media, closed, handler, req, onRefer>>

\* The ACK can not be written, and the application returns that error.
AckFails ==
    /\ refer = "acking" /\ ~peer["out"] /\ sip["out"] = "established"
    /\ refer' = "failed"
    /\ UNCHANGED <<legs, handler, req, onRefer, told>>

\* The application may hang the call up.
HangupOut ==
    /\ refer = "up" /\ sip["out"] = "confirmed"
    /\ Moves("out", "ended")
    /\ peer' = [peer EXCEPT !["out"] = FALSE]
    /\ UNCHANGED <<cached, media, closed, handler, req, onRefer, refer>>

\* It returns, with or without an error that is no response.
AppReturns ==
    /\ refer = "up"
    /\ refer' \in {"failed", "close"}
    /\ UNCHANGED <<legs, handler, req, onRefer, told>>

\* The error is reported: a response's status, or 400 for a call that did not
\* come about.
ReportsFailureMutant(s) == s = "none"
ReportsFailure(s) == s \in {"none", "established"}

NotifyFailure ==
    /\ refer \in {"refused", "failed"}
    /\ told' = IF refer = "refused" \/ ReportsFailure(sip["out"]) THEN Sends("failure") ELSE told
    /\ refer' = "close"
    /\ UNCHANGED <<legs, handler, req, onRefer>>

\* Close of the outbound dialog: its media, then the cache.
CloseClient ==
    /\ refer = "close"
    /\ closed' = closed \cup {"out"}
    /\ media' = media \ {"out"}
    /\ refer' = "uncache"
    /\ UNCHANGED <<sip, peer, cached, handler, req, onRefer, told>>

UncachesMutant == cached
Uncaches == cached \ {"out"}

Uncache ==
    /\ refer = "uncache"
    /\ cached' = Uncaches
    /\ refer' = "done"
    /\ UNCHANGED <<sip, peer, media, closed, handler, req, onRefer, told>>

-----------------------------------------------------------------------------
Handler == Hangup \/ Deletes \/ CloseServer
Request(r) == MatchDialog(r) \/ OnBye(r) \/ OnByeMedia(r) \/ OnInDialog(r) \/ OnRefer(r)
Refer ==
    \/ NotifyTrying \/ Invite \/ AckWritten \/ AckDone \/ AckFails
    \/ NotifyFailure \/ CloseClient \/ Uncache

Next ==
    \/ OnInvite
    \/ Answer
    \/ OnAck
    \/ HandlerReturns
    \/ Handler
    \/ \E r \in Reqs : RequestSent(r) \/ Request(r)
    \/ Refer
    \/ HangupOut
    \/ AppReturns

\* The library's goroutines run.  The peers and the application owe nothing,
\* except that an application returns from a handler whose dialog has ended.
Fairness ==
    /\ WF_vars(Handler)
    /\ \A r \in Reqs : WF_vars(Request(r))
    /\ WF_vars(Refer)
    /\ WF_vars(sip["in"] = "ended" /\ HandlerReturns)
    /\ WF_vars(sip["out"] = "ended" /\ AppReturns)

Spec == Init /\ [][Next]_vars
FairSpec == Spec /\ Fairness

-----------------------------------------------------------------------------
(* Properties *)

GivenUp(l) == IF l = "in" THEN handler \in {"close", "done"} ELSE l \in closed

\* A request the peer sends on a call that is up for it is answered 481 only
\* when the dialog has ended here or its owner has given it up: a dialog can be
\* found from before its peer can send on it until its end (OnInvite,
\* newSipDialog, MatchDialog).
LiveIsFound ==
    \A r \in Reqs : req[r].ans = 481 => sip[req[r].leg] = "ended" \/ GivenUp(req[r].leg)

\* When an accepted REFER has been dealt with, its outcome has been reported if
\* the NOTIFY 100 was, unless the transferring call ended first; and 200 is
\* reported only of a call that was answered (dialogReferInvite, for an OnRefer
\* that returns nil only of a call that was up).
ReferReported ==
    /\ refer = "done" /\ told["trying"] > 0 /\ sip["in"] # "ended" =>
           told["ok"] + told["failure"] > 0
    /\ told["ok"] > 0 => sip["out"] \in {"confirmed", "ended"}

\* A dialog that has ended is given up: its media is closed and it leaves the
\* cache (OnBye, Close, uncache).
Lingers(l) == sip[l] = "ended" /\ l \in media \cup cached
EndedIsReleased == (\E l \in Legs : Lingers(l)) ~> (\A l \in Legs : ~Lingers(l))
=============================================================================
