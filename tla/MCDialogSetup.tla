--------------------------- MODULE MCDialogSetup ---------------------------
(* DialogSetup on a small instance: the ACK and one copy of it.              *)
EXTENDS DialogSetup
=============================================================================
