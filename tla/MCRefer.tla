------------------------------ MODULE MCRefer ------------------------------
(* A small instance of ReferSubscription. *)
EXTENDS ReferSubscription
=============================================================================
