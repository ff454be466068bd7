------------------------------ MODULE MCStream ------------------------------
(***************************************************************************)
(* What two ends agree to send and what they send: small instances of      *)
(* Negotiation and of RTPStream.  The two share no state: in each          *)
(* behaviour SDP is exchanged and no digit is pressed, or digits are sent  *)
(* and the INVITE's SDP was refused.                                       *)
(***************************************************************************)
EXTENDS RTPStream

CONSTANTS CodecsA, CodecsB, NoSDP, MaxRounds

VARIABLES conf, round, ex, sdp, fork, inst, mlines

sdpVars == <<conf, round, ex, sdp, fork, inst, mlines>>

SDP == INSTANCE Negotiation WITH wire <- sdp, None <- NoSDP

U == [name |-> "PCMU", pt |-> 0]
A == [name |-> "PCMA", pt |-> 8]
Te(pt) == [name |-> "telephone-event", pt |-> pt]

ListsA == {<<U, A, Te(101)>>}
ListsB == {<<A, U, Te(96)>>, <<Te(96), A>>, <<[name |-> "G722", pt |-> 9]>>}

Quiet == [direct |-> FALSE, updates |-> FALSE, clocks |-> 0, presses |-> 0, audio |-> 0]

\* Digits beside audio and a renegotiation, beside audio of another writer, and
\* beside audio whose clock is disabled and enabled again.
MCScenes ==
    {Quiet,
     [Quiet EXCEPT !.presses = 2, !.audio = 1, !.updates = TRUE],
     [Quiet EXCEPT !.presses = 2, !.audio = 1, !.direct = TRUE],
     [Quiet EXCEPT !.presses = 2, !.audio = 1, !.clocks = 2]}

\* The INVITE's SDP was refused.
SDPOver ==
    /\ conf = [foreign |-> FALSE, savpDisable |-> FALSE, preferLocal |-> FALSE]
    /\ round = 0 /\ ex = [pc |-> "over", from |-> "a", op |-> "invite"]
    /\ sdp = NoSDP /\ mlines = <<>>
    /\ fork = [e \in SDP!Ends |-> NoSDP] /\ inst = [e \in SDP!Ends |-> NoSDP]

MCInit ==
    /\ Init
    /\ IF scene = Quiet THEN SDP!Init ELSE SDPOver

MCNext ==
    \/ Next /\ UNCHANGED sdpVars
    \/ SDP!Next /\ UNCHANGED vars

MCSpec == MCInit /\ [][MCNext]_<<vars, sdpVars>> /\ Fairness

\* Between two exchanges the ends agree on the call's media (Negotiation).
EndsAgree == SDP!EndsAgree

\* Answers and later offers keep the m= lines in their places (Negotiation).
StreamsKept == SDP!StreamsKept
=============================================================================
