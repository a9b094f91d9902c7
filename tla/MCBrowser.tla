------------------------------ MODULE MCBrowser ------------------------------
(***************************************************************************)
(* An instance of Browser for TLC: two windows in the first run of the     *)
(* server, and one in the second, whose starter has the id of a first one. *)
(***************************************************************************)
EXTENDS Browser, TLC

CONSTANTS w1, w2, w3, n1, n2

MCSession == w1 :> n1 @@ w2 :> n2 @@ w3 :> n1
MCRun == w1 :> 1 @@ w2 :> 1 @@ w3 :> 2
=============================================================================
