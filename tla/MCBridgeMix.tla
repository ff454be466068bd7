---------------------------- MODULE MCBridgeMix ----------------------------
(***************************************************************************)
(* Small instances of BridgeMix, with two codecs that can not be mixed     *)
(* with each other: a dialog whose audio is not the mix's is taken out.    *)
(***************************************************************************)
EXTENDS BridgeMix, TLC
CONSTANTS ka, kb

BothCodecs == {ka, kb}
AudioOf == (ka :> 8000) @@ (kb :> 16000)
=============================================================================
