---------------------------- MODULE MCFrameChain ----------------------------
(***************************************************************************)
(* A short chain for TLC: direct with envelope sync, and through a relay.  *)
(***************************************************************************)
EXTENDS FrameChain

MCModes == {[sync |-> TRUE, echo |-> FALSE], [sync |-> FALSE, echo |-> TRUE]}
=============================================================================
