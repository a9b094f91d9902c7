----------------------------- MODULE MCRemote ------------------------------
(***************************************************************************)
(* Instances of RemoteCreation for TLC.  With IdCount = 4 there are three  *)
(* ids; at the start none was given out, or all but one, so that two       *)
(* requests may find ids enough, one id for both, or none for the second.  *)
(*                                                                         *)
(* Requests, tokens and names are interchangeable.  A liveness property    *)
(* does not allow for SYMMETRY, so the first request to start, its name    *)
(* and the first token to be bound are given instead.                      *)
(***************************************************************************)
EXTENDS RemoteCreation, TLC

CONSTANTS FirstRequest, FirstToken, FirstName

MCNext ==
    \/ \E r \in Requests, t \in Tokens, n \in Names :
          /\ pc[FirstRequest] = "idle" => r = FirstRequest /\ n = FirstName
          /\ Check(r, t, n)
    \/ \E r \in Requests : ThreadStep(r) \/ TimerStep(r)
    \/ \E r \in Requests, ok \in BOOLEAN : Answer(r, ok)
    \/ \E t \in Tokens :
          /\ connections = 0 => t = FirstToken
          /\ Connect(t)
    \/ \E t \in Tokens : Disconnect(t) \/ CollectRemotes(t) \/ DestroyNext(t)
    \/ \E n \in Names : Unbind(n)

MCSpec == Init /\ [][MCNext]_vars /\ Fairness
=============================================================================
