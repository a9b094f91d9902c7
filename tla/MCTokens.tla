------------------------------ MODULE MCTokens ------------------------------
(***************************************************************************)
(* The instance of Tokens for TLC: the players, tokens and channels are    *)
(* model values given by the configuration.  They are interchangeable, and *)
(* no property is a liveness property, so symmetry is sound.               *)
(***************************************************************************)
EXTENDS Tokens, TLC

Symmetry ==
    Permutations(Players) \cup Permutations(Tokens) \cup Permutations(Channels)
=============================================================================
