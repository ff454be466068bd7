------------------------- MODULE OptionsKeepalive -------------------------
(***************************************************************************)
(* OptionsKeepaliveLoop (register_keepalive.go): OPTIONS probes sent to    *)
(* the registrar beside the registration, which end the loop when several  *)
(* in a row go unanswered.  The registrar, the transaction that times out  *)
(* and the caller's context are external.                                  *)
(***************************************************************************)
EXTENDS Naturals

CONSTANTS
    MaxFailures,    \* optionsMaxFailures
    MaxOutages      \* bound: how often the registrar goes away

VARIABLES
    loop,           \* where the loop is, and what it returned
    consecutive,
    stopped,        \* the context is done
    reachable,      \* the registrar answers
    outages,
    unheard         \* the probes that failed since the last answer

vars == <<loop, consecutive, stopped, reachable, outages, unheard>>

TypeOK ==
    /\ loop \in {"waiting", "begun", "probing", "dead", "cancelled"}
    /\ consecutive \in 0 .. MaxFailures /\ unheard \in Nat
    /\ stopped \in BOOLEAN /\ reachable \in BOOLEAN /\ outages \in 0 .. MaxOutages

Init ==
    /\ loop = "waiting" /\ consecutive = 0 /\ stopped = FALSE
    /\ reachable = TRUE /\ outages = 0 /\ unheard = 0

-----------------------------------------------------------------------------
(* The registrar goes away and comes back; the caller cancels. *)

GoesAway ==
    /\ reachable /\ outages < MaxOutages
    /\ reachable' = FALSE /\ outages' = outages + 1
    /\ UNCHANGED <<loop, consecutive, stopped, unheard>>

ComesBack ==
    /\ ~reachable /\ reachable' = TRUE
    /\ UNCHANGED <<loop, consecutive, stopped, outages, unheard>>

Cancel ==
    /\ ~stopped /\ stopped' = TRUE
    /\ UNCHANGED <<loop, consecutive, reachable, outages, unheard>>

-----------------------------------------------------------------------------
(* optionsKeepaliveLoop and optionsProbe *)

\* The ticker and the context are selected between; either may win.
TickerFires ==
    /\ loop = "waiting" /\ loop' = "begun"
    /\ UNCHANGED <<consecutive, stopped, reachable, outages, unheard>>

ContextDone ==
    /\ loop = "waiting" /\ stopped /\ loop' = "cancelled"
    /\ UNCHANGED <<consecutive, stopped, reachable, outages, unheard>>

\* A probe on a context that is done sends nothing.
ProbeSent ==
    /\ loop = "begun"
    /\ loop' = IF stopped THEN "cancelled" ELSE "probing"
    /\ UNCHANGED <<consecutive, stopped, reachable, outages, unheard>>

\* A cancellation during the probe is looked at before its outcome.
Cancelled == stopped

\* The outcome counts: any answer starts the count anew.
CountMutant(ok) == IF ok THEN consecutive ELSE consecutive + 1
Count(ok) == IF ok THEN 0 ELSE consecutive + 1

Outcome(ok) ==
    IF Cancelled
    THEN loop' = "cancelled" /\ UNCHANGED consecutive
    ELSE /\ consecutive' = Count(ok)
         /\ loop' = IF ~ok /\ Count(ok) >= MaxFailures THEN "dead" ELSE "waiting"

ProbeAnswered ==
    /\ loop = "probing" /\ reachable
    /\ Outcome(TRUE)
    /\ unheard' = 0
    /\ UNCHANGED <<stopped, reachable, outages>>

\* No answer: the transaction timed out, or the context ended it.
ProbeFails ==
    /\ loop = "probing" /\ (~reachable \/ stopped)
    /\ Outcome(FALSE)
    /\ unheard' = unheard + 1
    /\ UNCHANGED <<stopped, reachable, outages>>

Loop == TickerFires \/ ContextDone \/ ProbeSent \/ ProbeAnswered \/ ProbeFails

Next == GoesAway \/ ComesBack \/ Cancel \/ Loop

Spec == Init /\ [][Next]_vars

\* The ticker fires and a probe ends, by its answer or its timeout.
Fairness == WF_vars(Loop)

-----------------------------------------------------------------------------
(* Properties *)

\* The loop reports the peer dead only when that many probes in a row went
\* unanswered and nobody had cancelled it, and in the end does when the peer stays
\* away: "this only trips on a genuinely unreachable peer, never on a single
\* transient blip" (optionsKeepaliveLoop).
DeadPeerReported ==
    /\ [][loop' = "dead" /\ loop # "dead" => ~stopped /\ unheard' >= MaxFailures]_vars
    /\ <>[]~reachable => <>(loop \in {"dead", "cancelled"})
=============================================================================
