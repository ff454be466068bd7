--------------------------- MODULE MCJitterBuffer ---------------------------
(***************************************************************************)
(* Small instances of JitterBuffer.  A window of three over eight or       *)
(* sixteen sequence numbers has packets behind, inside and ahead of the    *)
(* window, and, as the default of forty over 2^16, it does not divide      *)
(* them, so positions do not line up where sequence numbers wrap.          *)
(***************************************************************************)
EXTENDS JitterBuffer
=============================================================================
