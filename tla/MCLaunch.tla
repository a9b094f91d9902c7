------------------------------ MODULE MCLaunch ------------------------------
(***************************************************************************)
(* Launch for TLC: two computers, the first with two frames that overlap.  *)
(* The clicks are interchangeable: FirstClick is the first.                *)
(***************************************************************************)
EXTENDS Launch, TLC

CONSTANTS c1, c2, f1, f2, f3, FirstClick

MCScreen == f1 :> c1 @@ f2 :> c1 @@ f3 :> c2

MCNext ==
    \/ \E k \in Clicks, c \in Computers :
          /\ place[FirstClick] = None => k = FirstClick
          /\ Touch(k, c)
    \/ \E c \in Computers : TouchElsewhere(c)
    \/ TouchStep
    \/ \E f \in Frames : FrameStep(f)

MCSpec == Init /\ [][MCNext]_vars /\ Fairness
=============================================================================
