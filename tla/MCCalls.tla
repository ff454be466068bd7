------------------------------ MODULE MCCalls ------------------------------
(***************************************************************************)
(* The calls of a B2BUA: DialogDispatch, which takes the requests of the   *)
(* dialogs, beside BridgeProxy, which copies the media between two of      *)
(* them.  They share no state, and MCSignalling checks the dispatch: here  *)
(* no dialog is dispatched to, and a small instance of the proxy runs.     *)
(***************************************************************************)
EXTENDS DialogDispatch, Sequences

CONSTANTS Dialogs, Callers, Codecs, WaitNums, MaxUpdates

ASSUME WaitNumsAssumption == WaitNums \subseteq Nat \ {0, 1}

VARIABLES dialogs, waitNum, answered, codec, mediaClosed, over, deadline, hook, proxy,
          pair, dir, errCh, running, mismatch, stopping, stopper, updates

Proxy == INSTANCE BridgeProxy WITH closed <- mediaClosed

proxyVars == <<dialogs, waitNum, answered, codec, mediaClosed, over, deadline, hook, proxy,
               pair, dir, errCh, running, mismatch, stopping, stopper, updates>>

DispatchOver ==
    /\ sip = [l \in Legs |-> "none"] /\ peer = [l \in Legs |-> FALSE]
    /\ cached = {} /\ media = {} /\ closed = {} /\ handler = "done"
    /\ req = [r \in Reqs |-> NoReq] /\ onRefer = FALSE /\ refer = "none"
    /\ told = [n \in Outcomes |-> 0]

MCInit == DispatchOver /\ Proxy!Init
MCNext == Proxy!Next /\ UNCHANGED vars
MCSpec == MCInit /\ [][MCNext]_<<proxyVars, vars>> /\ Proxy!Fairness

\* A proxy that is done has left its dialogs clean (BridgeProxy).
DoneIsClean == Proxy!DoneIsClean

\* A proxy ends when its dialogs, their codecs or a caller end it (BridgeProxy).
ProxyEnds == Proxy!ProxyEnds
=============================================================================
