--------------------------- MODULE DigitChannel ---------------------------
(***************************************************************************)
(* What DTMF over RTP promises across a network that loses packets: the    *)
(* digits heard are digits pressed, each at most once and in the order     *)
(* they were pressed.  A digit may be lost; none is made up.               *)
(***************************************************************************)
EXTENDS Naturals, Sequences

CONSTANT Digits

VARIABLES
    pending,    \* the digits pressed that can still be heard
    heard       \* the digits heard

chan == <<pending, heard>>

Init == pending = <<>> /\ heard = <<>>

Press ==
    /\ \E d \in Digits : pending' = Append(pending, d)
    /\ UNCHANGED heard

\* A digit is heard; the ones pressed before it are lost.
Hear ==
    \E i \in 1 .. Len(pending) :
        /\ heard' = Append(heard, pending[i])
        /\ pending' = SubSeq(pending, i + 1, Len(pending))

Spec == Init /\ [][Press \/ Hear]_chan
=============================================================================
