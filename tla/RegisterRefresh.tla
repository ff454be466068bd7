-------------------------- MODULE RegisterRefresh --------------------------
(***************************************************************************)
(* Registration (register_transaction.go and Diago.Register in diago.go):  *)
(* a first REGISTER, refreshes on a cadence taken from the expiry the      *)
(* registrar granted, a backoff after failures, the escalation when the    *)
(* binding has lapsed, and the removal of the binding at the end.          *)
(*                                                                         *)
(* The registrar and the network are external: a request may be granted    *)
(* or refused, and it or its answer may be lost, which ends in the         *)
(* transaction's timeout.  Time passes in whole seconds, and what is due   *)
(* happens before time passes on.                                          *)
(***************************************************************************)
EXTENDS Integers

CONSTANTS
    Expiry,           \* RegisterOptions.Expiry
    RetryInterval,    \* RegisterOptions.RetryInterval, 0 when unset
    RetryMin,         \* registerRetryMin
    BackoffInitial,   \* registerRetryBackoffInitial
    BackoffMax,       \* registerRetryBackoffMax
    DefaultRetry,     \* Diago.Register's retryAfter when none is named
    Grants,           \* what the registrar grants, 0 when it names nothing
    RetryAfters,      \* what a refusal's Retry-After says, 0 when absent
    TxTimeout,        \* how long a REGISTER waits for its answer
    MaxAge            \* ages are told apart up to this

\* The intervals the run of this module is given make sense together.
ConstantsAssumption ==
    /\ Expiry \in Nat /\ RetryInterval \in Nat
    /\ RetryMin \in Nat \ {0} /\ BackoffInitial \in Nat \ {0}
    /\ BackoffMax \in Nat /\ BackoffInitial <= BackoffMax
    /\ DefaultRetry \in Nat \ {0}
    /\ Grants \subseteq Nat /\ RetryAfters \subseteq Nat
    /\ TxTimeout \in Nat \ {0}
    /\ MaxAge \in Nat /\ \A g \in Grants \cup {Expiry} : g < MaxAge

VARIABLES
    pc,        \* where Diago.Register is
    expiry, granted, emitted,
    age,       \* since lastRegistered, up to MaxAge
    timer,     \* time to the timer's firing
    backoff,
    net,       \* the REGISTER in flight, and its answer
    busy,      \* how long it has been in flight
    held,      \* how long the registrar still holds the binding
    sure,      \* how long it holds it by what it has confirmed to us
    cancelled  \* the context is done

client == <<expiry, granted, emitted, age, timer, backoff>>
registrar == <<held, sure>>
vars == <<pc, client, net, busy, registrar, cancelled>>

Refusals == {"auth", "server", "other"}

NoNet == [at |-> "none", what |-> "none", n |-> 0]
Sent == [NoNet EXCEPT !.at = "sent"]

\* The state has its types.
TypeOK ==
    /\ pc \in {"first", "timer", "refresh", "unregister", "done"}
    /\ expiry \in Nat /\ granted \in Nat /\ emitted \in BOOLEAN
    /\ age \in 0 .. MaxAge /\ timer \in Nat
    /\ backoff \in BackoffInitial .. BackoffMax
    /\ net.at \in {"none", "sent", "answered", "lost"}
    /\ net.what \in {"none", "granted"} \cup Refusals
    /\ busy \in 0 .. TxTimeout /\ held \in 0 .. MaxAge
    /\ sure \in 0 .. held /\ cancelled \in BOOLEAN

Init ==
    /\ pc = "first" /\ expiry = 0 /\ granted = 0 /\ emitted = FALSE
    /\ age = MaxAge /\ timer = 0 /\ backoff = BackoffInitial
    /\ net = Sent /\ busy = 0 /\ held = 0 /\ sure = 0
    /\ cancelled = FALSE

-----------------------------------------------------------------------------
(* What is computed *)

\* A grant is what the answer names, or what was asked for.
grantedExpiry(n) == IF n > 0 THEN n ELSE Expiry

calcRetry(e) ==
    LET retry == (e * 3) \div 4
        own == RetryInterval > 0 /\ (retry <= 0 \/ RetryInterval < retry)
        r == IF own THEN RetryInterval ELSE retry
    IN IF r <= 0 THEN RetryMin ELSE r

\* A Retry-After of a refusal, or the default.
retryAfter(n) == IF n > 0 THEN n ELSE DefaultRetry

expiredEarly == ~emitted /\ granted > 0 /\ age >= calcRetry(granted)
expired == ~emitted /\ granted > 0 /\ age > granted

nextBackoff == IF backoff * 2 > BackoffMax THEN BackoffMax ELSE backoff * 2

-----------------------------------------------------------------------------
(* The registrar and the network *)

Grant(n) ==
    /\ net = Sent /\ pc # "unregister"
    /\ held' = grantedExpiry(n)
    /\ net' = [at |-> "answered", what |-> "granted", n |-> n]
    /\ UNCHANGED <<pc, client, busy, sure, cancelled>>

Refuse(code, n) ==
    /\ net = Sent
    /\ net' = [at |-> "answered", what |-> code, n |-> n]
    /\ UNCHANGED <<pc, client, busy, registrar, cancelled>>

Remove ==
    /\ net = Sent /\ pc = "unregister"
    /\ held' = 0 /\ sure' = 0
    /\ net' = [NoNet EXCEPT !.at = "answered", !.what = "granted"]
    /\ UNCHANGED <<pc, client, busy, cancelled>>

Lose ==
    /\ net.at \in {"sent", "answered"}
    /\ net' = [NoNet EXCEPT !.at = "lost"]
    /\ UNCHANGED <<pc, client, busy, registrar, cancelled>>

Down(n) == IF n > 0 THEN n - 1 ELSE 0

Tick ==
    /\ pc = "timer" => timer > 0 /\ ~cancelled
    /\ net.at # "none" => busy < TxTimeout
    /\ age' = IF age < MaxAge THEN age + 1 ELSE age
    /\ timer' = Down(timer)
    /\ held' = Down(held) /\ sure' = Down(sure)
    /\ busy' = IF net.at # "none" THEN busy + 1 ELSE busy
    /\ UNCHANGED <<pc, expiry, granted, emitted, backoff, net, cancelled>>

-----------------------------------------------------------------------------
(* Diago.Register *)

Granted == net.at = "answered" /\ net.what = "granted"
Failed == \/ net.at = "answered" /\ net.what # "granted"
          \/ net.at = "lost" /\ busy = TxTimeout

recordGrant(n) ==
    /\ expiry' = grantedExpiry(n) /\ granted' = grantedExpiry(n)
    /\ age' = 0 /\ emitted' = FALSE

NoRequest == net' = NoNet /\ busy' = 0

Send == net' = Sent /\ busy' = 0

\* QualifyLoop is entered, or its loop goes on after a success.
QualifyLoop(e) == pc' = "timer" /\ timer' = calcRetry(e) /\ backoff' = BackoffInitial

\* The first REGISTER, whose failure is returned as it is.
Registered ==
    /\ pc = "first" /\ Granted
    /\ recordGrant(net.n)
    /\ QualifyLoop(grantedExpiry(net.n))
    /\ NoRequest
    /\ sure' = held
    /\ UNCHANGED <<held, cancelled>>

NotRegistered ==
    /\ pc = "first" /\ (Failed \/ cancelled)
    /\ pc' = "done" /\ NoRequest
    /\ UNCHANGED <<client, registrar, cancelled>>

RefreshUnreported ==
    /\ pc = "timer" /\ timer = 0 /\ ~emitted
    /\ pc' = "refresh" /\ Send
    /\ UNCHANGED <<client, registrar, cancelled>>

\* registerRefreshLoop
Refresh ==
    /\ pc = "timer" /\ timer = 0
    /\ pc' = "refresh" /\ Send
    /\ UNCHANGED <<client, registrar, cancelled>>

Refreshed ==
    /\ pc = "refresh" /\ Granted
    /\ recordGrant(net.n)
    /\ QualifyLoop(grantedExpiry(net.n))
    /\ NoRequest
    /\ sure' = held
    /\ UNCHANGED <<held, cancelled>>

BackOff ==
    /\ pc = "refresh" /\ Failed /\ ~cancelled /\ ~expired
    /\ pc' = "timer" /\ timer' = backoff /\ backoff' = nextBackoff
    /\ NoRequest
    /\ UNCHANGED <<expiry, granted, emitted, age, registrar, cancelled>>

\* A refusal for good is returned, and anything else tried again.
Returns == net.what \in {"auth", "server"}

Escalate ==
    /\ pc = "refresh" /\ Failed /\ ~cancelled /\ expired
    /\ emitted' = TRUE
    /\ \/ /\ Returns
          /\ pc' = "unregister" /\ Send
          /\ UNCHANGED <<expiry, timer, backoff>>
       \/ /\ ~Returns
          /\ expiry' = retryAfter(net.n)
          /\ QualifyLoop(retryAfter(net.n))
          /\ NoRequest
    /\ UNCHANGED <<granted, age, registrar, cancelled>>

\* The context ends a wait and a refresh, and the binding is removed.
Stop ==
    /\ pc \in {"timer", "refresh"} /\ cancelled
    /\ pc' = "unregister" /\ Send
    /\ UNCHANGED <<client, registrar, cancelled>>

Unregistered ==
    /\ pc = "unregister" /\ (Granted \/ Failed)
    /\ pc' = "done" /\ NoRequest
    /\ UNCHANGED <<client, registrar, cancelled>>

Cancel ==
    /\ ~cancelled /\ pc # "done"
    /\ cancelled' = TRUE
    /\ UNCHANGED <<pc, client, net, busy, registrar>>

-----------------------------------------------------------------------------
GrantsAny == \E n \in Grants : Grant(n)
RefusesAny == \E code \in Refusals, n \in RetryAfters : Refuse(code, n)

Next ==
    \/ GrantsAny \/ RefusesAny \/ Remove \/ Lose \/ Tick
    \/ Registered \/ NotRegistered \/ Refresh \/ Refreshed \/ BackOff \/ Escalate
    \/ Stop \/ Unregistered \/ Cancel

Spec == Init /\ [][Next]_vars

(***************************************************************************)
(* Register's goroutine is scheduled and time passes; a request nobody     *)
(* answers times out; the registrar, asked again and again, grants in the  *)
(* end, and its answer arrives.                                            *)
(***************************************************************************)
Fairness ==
    /\ WF_vars(Tick) /\ WF_vars(Refresh) /\ WF_vars(BackOff) /\ WF_vars(Escalate)
    /\ WF_vars(Stop) /\ WF_vars(Unregistered) /\ WF_vars(NotRegistered)
    /\ WF_vars(Lose /\ busy = TxTimeout)
    /\ SF_vars(GrantsAny) /\ SF_vars(Registered) /\ SF_vars(Refreshed)

FairSpec == Spec /\ Fairness

-----------------------------------------------------------------------------
(* Properties *)

Registering == pc \in {"timer", "refresh"} /\ ~cancelled

(***************************************************************************)
(* Refusals, timeouts and Retry-After hints do not give up a binding the   *)
(* registrar has confirmed and still holds: it is given up, or taken for   *)
(* lapsed, when cancelled or once it has lapsed (recordGrant, setExpiry,   *)
(* expired, registerRefreshLoop).                                          *)
(***************************************************************************)
KeptWhileHeld ==
    [][pc = "refresh" /\ (pc' = "unregister" \/ (emitted' /\ ~emitted)) =>
          cancelled \/ sure = 0]_vars

(***************************************************************************)
(* A registration that lapsed is taken up again: while it is neither       *)
(* cancelled nor refused for good, the binding comes back                  *)
(* (registerRefreshLoop, Diago.Register).                                  *)
(***************************************************************************)
Recovers == (Registering /\ held = 0) ~> (held > 0 \/ pc \in {"unregister", "done"})

=============================================================================
