---------------------------- MODULE MCReception ----------------------------
(* Small instances of RTPReception. *)
EXTENDS RTPReception
=============================================================================
