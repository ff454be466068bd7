---------------------------- MODULE BridgeProxy ----------------------------
(***************************************************************************)
(* The two-party bridge (bridge.go, Bridge): when the second dialog joins, *)
(* a proxy copies the audio of each dialog to the other until one of them  *)
(* ends, a re-INVITE gives them different codecs, or StopProxyMedia is     *)
(* called.  The proxy is started by AddDialogSession or, when              *)
(* WaitDialogsNum is above two, by ProxyMediaControl.                      *)
(*                                                                         *)
(* A direction is named by the dialog it reads.  Payloads, and the DTMF    *)
(* interceptors, which end the same way, are left out.                     *)
(***************************************************************************)
EXTENDS Naturals, Sequences, FiniteSets, Functions

CONSTANTS
    Dialogs,
    Callers,         \* goroutines that stop the proxy
    Codecs,
    WaitNums,        \* the values WaitDialogsNum may have, two or more
    MaxUpdates       \* how many re-INVITEs change a codec

VARIABLES
    dialogs,    \* Bridge.dialogs
    waitNum,    \* Bridge.WaitDialogsNum, set before the bridge is used
    answered,   \* the dialogs with an RTP reader and writer
    codec,      \* each dialog's codec
    closed,     \* the dialogs whose media is closed
    over,       \* the dialogs whose context is done
    deadline,   \* the dialogs with a read deadline set
    hook,       \* the proxy's media update hook on each dialog
    proxy,      \* where the proxy is
    pair,       \* the two dialogs it runs on
    dir,        \* where each direction is
    errCh,      \* results sent and not yet received
    running,    \* proxyWait's count of directions
    mismatch,   \* the channel of that name holds an error
    stopping,   \* the channel of that name is closed
    stopper,    \* where each caller of stop is
    updates

bridgeVars == <<dialogs, waitNum>>
dialogVars == <<answered, codec, closed, over, updates>>
proxyVars == <<proxy, pair, running, mismatch, errCh>>
vars == <<bridgeVars, dialogVars, deadline, hook, proxyVars, dir, stopping, stopper>>

\* The state has its types.
TypeOK ==
    /\ dialogs \in Seq(Dialogs) /\ pair \in Seq(Dialogs)
    /\ answered \subseteq Dialogs /\ closed \subseteq Dialogs /\ over \subseteq Dialogs
    /\ deadline \subseteq Dialogs
    /\ codec \in [Dialogs -> Codecs]
    /\ hook \in [Dialogs -> {"none", "set", "due"}]
    /\ proxy \in {"none", "hook1", "hook2", "check", "launch", "wait", "stop", "drain",
                  "start", "done"}
    /\ dir \in [Dialogs -> {"none", "reading", "writing", "ended"}]
    /\ errCh \in 0 .. 2 /\ running \in 0 .. 2
    /\ mismatch \in BOOLEAN /\ stopping \in BOOLEAN
    /\ stopper \in [Callers -> {"idle", "waiting", "returned"}]

Init ==
    /\ waitNum \in WaitNums /\ dialogs = <<>> /\ pair = <<>>
    /\ answered = {} /\ closed = {} /\ over = {}
    /\ codec \in [Dialogs -> Codecs]
    /\ deadline = {} /\ hook = [d \in Dialogs |-> "none"]
    /\ proxy = "none" /\ dir = [d \in Dialogs |-> "none"]
    /\ errCh = 0 /\ running = 0 /\ mismatch = FALSE /\ stopping = FALSE
    /\ stopper = [c \in Callers |-> "idle"] /\ updates = 0

Other(d) == IF d = pair[1] THEN pair[2] ELSE pair[1]
Differ == codec[pair[1]] # codec[pair[2]]

-----------------------------------------------------------------------------
(* The dialogs *)

Answer(d) ==
    /\ d \notin answered
    /\ answered' = answered \cup {d}
    /\ UNCHANGED <<bridgeVars, codec, closed, over, updates, deadline, hook, proxyVars,
                   dir, stopping, stopper>>

\* A re-INVITE's new codec; the hook runs after it.
MediaUpdate(d, c) ==
    /\ updates < MaxUpdates /\ d \in answered \ closed
    /\ hook[d] # "due" /\ c # codec[d]
    /\ codec' = [codec EXCEPT ![d] = c]
    /\ hook' = [hook EXCEPT ![d] = IF @ = "set" THEN "due" ELSE @]
    /\ updates' = updates + 1
    /\ UNCHANGED <<bridgeVars, answered, closed, over, deadline, proxyVars, dir,
                   stopping, stopper>>

\* A hangup ends the dialog's context and closes its media, in either order.
Over(d) ==
    /\ d \notin over
    /\ over' = over \cup {d}
    /\ UNCHANGED <<bridgeVars, answered, codec, closed, updates, deadline, hook,
                   proxyVars, dir, stopping, stopper>>

CloseMedia(d) ==
    /\ d \in answered \ closed
    /\ closed' = closed \cup {d}
    /\ UNCHANGED <<bridgeVars, answered, codec, over, updates, deadline, hook,
                   proxyVars, dir, stopping, stopper>>

-----------------------------------------------------------------------------
(* The bridge *)

bridgeCodecOk(d) == dialogs # <<>> => codec[dialogs[1]] = codec[d]

MayJoin(d) ==
    LET ds == Append(dialogs, d) IN
    /\ bridgeCodecOk(d)
    /\ Len(ds) >= waitNum =>
          Len(ds) <= 2 /\ \A x \in Range(ds) : x \in answered

newBridgeProxy(ds) ==
    proxy' = "hook1" /\ pair' = ds

\* An application adds a dialog once.
AddDialogSession(d) ==
    /\ d \notin Range(dialogs) /\ MayJoin(d)
    /\ dialogs' = Append(dialogs, d)
    /\ IF Len(dialogs') < waitNum
       THEN UNCHANGED <<proxy, pair>>
       ELSE newBridgeProxy(dialogs')
    /\ UNCHANGED <<waitNum, dialogVars, deadline, hook, errCh, running, mismatch, dir,
                   stopping, stopper>>

\* Started by hand, which an application does once and when both dialogs are
\* answered.
ProxyMediaControl ==
    /\ Len(dialogs) = 2 /\ waitNum >= 3 /\ proxy = "none"
    /\ Range(dialogs) \subseteq answered
    /\ newBridgeProxy(dialogs)
    /\ UNCHANGED <<bridgeVars, dialogVars, deadline, hook, errCh, running, mismatch, dir,
                   stopping, stopper>>

stop(c) ==
    /\ stopper[c] = "idle" /\ proxy # "none"
    /\ stopping' = TRUE
    /\ stopper' = [stopper EXCEPT ![c] = "waiting"]
    /\ UNCHANGED <<bridgeVars, dialogVars, deadline, hook, proxyVars, dir>>

stopped(c) ==
    /\ stopper[c] = "waiting" /\ proxy = "done"
    /\ stopper' = [stopper EXCEPT ![c] = "returned"]
    /\ UNCHANGED <<bridgeVars, dialogVars, deadline, hook, proxyVars, dir, stopping>>

-----------------------------------------------------------------------------
(* The proxy *)

checkCodecs == mismatch' = (mismatch \/ Differ)

\* The proxy's hook on d, called by the goroutine of d's re-INVITE.
HookRuns(d) ==
    /\ hook[d] = "due"
    /\ checkCodecs
    /\ hook' = [hook EXCEPT ![d] = IF proxy = "done" THEN "none" ELSE "set"]
    /\ UNCHANGED <<bridgeVars, dialogVars, deadline, proxy, pair, running, errCh, dir,
                   stopping, stopper>>

\* The proxy's goroutine sets its hooks, one dialog after the other.
proxyMediaHook ==
    /\ \/ /\ proxy = "hook1" /\ proxy' = "hook2"
          /\ hook' = [hook EXCEPT ![pair[1]] = "set"]
       \/ /\ proxy = "hook2" /\ proxy' = "check"
          /\ hook' = [hook EXCEPT ![pair[2]] = "set"]
    /\ UNCHANGED <<bridgeVars, dialogVars, deadline, pair, running, mismatch, errCh, dir,
                   stopping, stopper>>

\* With the hooks in place the codecs are checked once more.
proxyMediaCheck ==
    /\ proxy = "check"
    /\ checkCodecs
    /\ proxy' = "launch"
    /\ UNCHANGED <<bridgeVars, dialogVars, deadline, hook, pair, running, errCh, dir,
                   stopping, stopper>>

\* A hook called before it was removed may still run.
Unhooked == [d \in Dialogs |-> IF hook[d] = "due" THEN "due" ELSE "none"]

proxyMediaLaunch ==
    /\ proxy = "launch"
    /\ \/ /\ mismatch
          /\ proxy' = "done" /\ hook' = Unhooked
          /\ UNCHANGED <<dir, running>>
       \/ /\ ~mismatch
          /\ proxy' = "wait" /\ running' = 2
          /\ dir' = [d \in Dialogs |-> IF d \in Range(pair) THEN "reading" ELSE dir[d]]
          /\ UNCHANGED hook
    /\ UNCHANGED <<bridgeVars, dialogVars, deadline, pair, mismatch, errCh, stopping,
                   stopper>>

\* copyWithBuf: a frame is read and written until either fails.
Reads(d) ==
    /\ dir[d] = "reading" /\ d \notin closed /\ d \notin deadline
    /\ dir' = [dir EXCEPT ![d] = "writing"]
    /\ UNCHANGED <<bridgeVars, dialogVars, deadline, hook, proxyVars, stopping, stopper>>

Writes(d) ==
    /\ dir[d] = "writing" /\ Other(d) \notin closed
    /\ dir' = [dir EXCEPT ![d] = "reading"]
    /\ UNCHANGED <<bridgeVars, dialogVars, deadline, hook, proxyVars, stopping, stopper>>

Ends(d) ==
    /\ \/ dir[d] = "reading" /\ (d \in closed \/ d \in deadline)
       \/ dir[d] = "writing" /\ Other(d) \in closed
    /\ dir' = [dir EXCEPT ![d] = "ended"]
    /\ errCh' = errCh + 1
    /\ UNCHANGED <<bridgeVars, dialogVars, deadline, hook, proxy, pair, running,
                   mismatch, stopping, stopper>>

proxyWaitEnds ==
    \/ mismatch \/ stopping
    \/ pair[1] \in over
    \/ pair[2] \in over

proxyWait ==
    /\ proxy = "wait"
    /\ \/ errCh > 0 /\ errCh' = errCh - 1 /\ running' = running - 1
       \/ proxyWaitEnds /\ UNCHANGED <<errCh, running>>
    /\ proxy' = "stop"
    /\ UNCHANGED <<bridgeVars, dialogVars, deadline, hook, pair, mismatch, dir,
                   stopping, stopper>>

StopsFirst == {pair[1]}
StopsBoth == Range(pair)
StopRTP ==
    /\ proxy = "stop"
    /\ deadline' = deadline \cup StopsBoth
    /\ proxy' = "drain"
    /\ UNCHANGED <<bridgeVars, dialogVars, hook, pair, running, mismatch, errCh, dir,
                   stopping, stopper>>

DrainsOne == running = 0 \/ errCh > 0
Drains == running = 0

proxyDrain ==
    /\ proxy = "drain"
    /\ \/ /\ Drains
          /\ proxy' = "start" /\ UNCHANGED <<errCh, running>>
       \/ /\ running > 0 /\ errCh > 0
          /\ errCh' = errCh - 1 /\ running' = running - 1
          /\ UNCHANGED proxy
    /\ UNCHANGED <<bridgeVars, dialogVars, deadline, hook, pair, mismatch, dir,
                   stopping, stopper>>

\* Reads are enabled, the hooks removed and done closed.
Starts == Range(pair)
StartRTP ==
    /\ proxy = "start"
    /\ deadline' = deadline \ Starts
    /\ hook' = Unhooked
    /\ proxy' = "done"
    /\ UNCHANGED <<bridgeVars, dialogVars, pair, running, mismatch, errCh, dir,
                   stopping, stopper>>

-----------------------------------------------------------------------------
Answers == \E d \in Dialogs : Answer(d)
Updates == \E d \in Dialogs, c \in Codecs : MediaUpdate(d, c)
Overs == \E d \in Dialogs : Over(d)
Closes == \E d \in Dialogs : CloseMedia(d)
Adds == \E d \in Dialogs : AddDialogSession(d)
StopCalls == \E c \in Callers : stop(c)
StopReturns == \E c \in Callers : stopped(c)
Hooks == \E d \in Dialogs : HookRuns(d)
DirReads == \E d \in Dialogs : Reads(d)
DirWrites == \E d \in Dialogs : Writes(d)
DirEnds == \E d \in Dialogs : Ends(d)

Next ==
    \/ Answers \/ Updates \/ Overs \/ Closes \/ Adds \/ ProxyMediaControl
    \/ StopCalls \/ StopReturns \/ Hooks
    \/ proxyMediaHook \/ proxyMediaCheck \/ proxyMediaLaunch \/ proxyWait \/ StopRTP
    \/ proxyDrain \/ StartRTP \/ DirReads \/ DirWrites \/ DirEnds

Spec == Init /\ [][Next]_vars

(***************************************************************************)
(* Every goroutine is scheduled.  No dialog is assumed to send anything.   *)
(***************************************************************************)
Fairness ==
    /\ \A c \in Callers : WF_vars(stopped(c))
    /\ \A d \in Dialogs : WF_vars(HookRuns(d)) /\ WF_vars(Writes(d)) /\ WF_vars(Ends(d))
    /\ WF_vars(proxyMediaHook) /\ WF_vars(proxyMediaCheck) /\ WF_vars(proxyMediaLaunch)
    /\ WF_vars(proxyWait) /\ WF_vars(StopRTP) /\ WF_vars(proxyDrain) /\ WF_vars(StartRTP)

FairSpec == Spec /\ Fairness

-----------------------------------------------------------------------------
(* Properties *)

(***************************************************************************)
(* When the proxy is done, and so when StopProxyMedia returns, neither     *)
(* direction takes another frame, the dialogs' reads are enabled and no    *)
(* result is left unread: whoever reads a dialog next gets its audio       *)
(* (proxyWait, StopProxyMedia).                                            *)
(***************************************************************************)
DoneIsClean ==
    proxy = "done" =>
        /\ \A d \in Dialogs : dir[d] \in {"none", "ended"}
        /\ deadline = {} /\ errCh = 0

CodecsDiffer == proxy \notin {"none", "done"} /\ Differ

(***************************************************************************)
(* The proxy ends once a dialog of it is over, its codecs are found to     *)
(* differ or it is stopped, and every call to stop then returns, also      *)
(* while both dialogs are silent (proxyWait, StopProxyMedia).  Codecs that *)
(* differ are found, also when the re-INVITE came after the join and       *)
(* before the hooks (proxyMedia), unless a re-INVITE makes them equal.     *)
(***************************************************************************)
ProxyEnds ==
    /\ CodecsDiffer ~> (mismatch \/ ~CodecsDiffer)
    /\ (proxy # "none" /\ (over \cap Range(pair) # {} \/ mismatch \/ stopping)) ~>
        (proxy = "done" /\ \A c \in Callers : stopper[c] # "waiting")
=============================================================================
