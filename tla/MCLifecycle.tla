----------------------------- MODULE MCLifecycle -----------------------------
(***************************************************************************)
(* An instance of Lifecycle for TLC: one frame a second, so that three     *)
(* failed frames are enough.                                               *)
(***************************************************************************)
EXTENDS Lifecycle, TLC
=============================================================================
