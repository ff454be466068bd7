---------------------------- MODULE MCMediaUpdate ----------------------------
(* Small instances of MediaUpdate for TLC. *)
EXTENDS MediaUpdate

\* The peer's re-INVITEs, by their CSeq, and the ACKs.
TwoPeers == {1, 2}
TwoAcks == {3, 4}

\* Two re-INVITEs of the peer's; one with its 2xx and its ACK sent again; or one of
\* either side's.
PeersOrGlare ==
  {[absent |-> Owns \cup {4}, copies |-> 0],
   [absent |-> Owns \cup {2}, copies |-> 2],
   [absent |-> {2, 4}, copies |-> 0]}
=============================================================================
