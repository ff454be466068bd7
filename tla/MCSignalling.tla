---------------------------- MODULE MCSignalling ----------------------------
(***************************************************************************)
(* Small instances of RegisterRefresh, OptionsKeepalive and                *)
(* DialogDispatch.  The three share no state: in each behaviour one of     *)
(* them runs and the others are over.                                      *)
(***************************************************************************)
EXTENDS DialogDispatch

CONSTANTS MaxFailures, MaxOutages
CONSTANTS Expiry, RetryInterval, RetryMin, BackoffInitial, BackoffMax, DefaultRetry,
          Grants, RetryAfters, TxTimeout, MaxAge

VARIABLES loop, consecutive, stopped, reachable, outages, unheard
VARIABLES pc, expiry, granted, emitted, age, timer, backoff, net, busy, held, sure,
          cancelled

keepaliveVars == <<loop, consecutive, stopped, reachable, outages, unheard>>
registerVars == <<pc, expiry, granted, emitted, age, timer, backoff, net, busy, held,
                  sure, cancelled>>

Keepalive == INSTANCE OptionsKeepalive
Registration == INSTANCE RegisterRefresh

ASSUME IntervalsAssumption == Registration!ConstantsAssumption

RegistrationOver ==
    /\ pc = "done" /\ expiry = 0 /\ granted = 0 /\ emitted = FALSE
    /\ age = MaxAge /\ timer = 0 /\ backoff = BackoffInitial
    /\ net = Registration!NoNet /\ busy = 0 /\ held = 0 /\ sure = 0
    /\ cancelled = TRUE

KeepaliveOver ==
    /\ loop = "cancelled" /\ consecutive = 0 /\ stopped = TRUE
    /\ reachable = TRUE /\ outages = MaxOutages /\ unheard = 0

DispatchOver ==
    /\ sip = [l \in Legs |-> "none"] /\ peer = [l \in Legs |-> FALSE]
    /\ cached = {} /\ media = {} /\ closed = {} /\ handler = "done"
    /\ req = [r \in Reqs |-> NoReq] /\ onRefer = FALSE /\ refer = "none"
    /\ told = [n \in Outcomes |-> 0]

MCInit ==
    \/ Init /\ KeepaliveOver /\ RegistrationOver
    \/ DispatchOver /\ Keepalive!Init /\ RegistrationOver
    \/ DispatchOver /\ KeepaliveOver /\ Registration!Init

MCNext ==
    \/ Next /\ UNCHANGED <<keepaliveVars, registerVars>>
    \/ Keepalive!Next /\ UNCHANGED <<vars, registerVars>>
    \/ Registration!Next /\ UNCHANGED <<vars, keepaliveVars>>

MCSpec ==
    /\ MCInit /\ [][MCNext]_<<vars, keepaliveVars, registerVars>>
    /\ Fairness /\ Keepalive!Fairness /\ Registration!Fairness

\* A binding the registrar has confirmed and still holds is not given up
\* (RegisterRefresh).
KeptWhileHeld == Registration!KeptWhileHeld

\* A lapsed binding is made anew (RegisterRefresh).
Recovers == Registration!Recovers

\* A dead peer, and only a dead one, is reported (OptionsKeepalive).
DeadPeerReported == Keepalive!DeadPeerReported
=============================================================================
