----------------------------- MODULE MCCapture -----------------------------
(***************************************************************************)
(* Instances of Capture for TLC.                                           *)
(***************************************************************************)
EXTENDS Capture

FirstScreen == CHOOSE c \in Computers : TRUE

\* Players who stay on the server use one of the screens only.
MCReach == {<<p, c>> \in Players \X Computers : p \in Leaving \/ c = FirstScreen}
=============================================================================
