----------------------------- MODULE MCFraming -----------------------------
(***************************************************************************)
(* Instances of Framing for TLC, and the VarInts of every value of a small *)
(* width: the digits are so small that the lengths at hand have prefixes   *)
(* of one, two and three bytes.                                            *)
(***************************************************************************)
EXTENDS Framing

MCLengths == {0, 1, 4, 16}
CutLengths == {0, 1, 4}
=============================================================================
