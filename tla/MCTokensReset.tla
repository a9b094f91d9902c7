---------------------------- MODULE MCTokensReset ----------------------------
(***************************************************************************)
(* Tokens with a history of the tokens whose clients "/tcmp token reset"   *)
(* told "Token was reset" (Server.java:86).                                *)
(***************************************************************************)
EXTENDS Tokens

VARIABLE told

\* The message is written where the thread gets past the step "tell".
ToldNext ==
    /\ Next
    /\ told' = IF command = "token" /\ pc[Main] = "tell" /\ pc'[Main] = "disconnect"
               THEN told \cup {tok[Main]}
               ELSE told

ToldSpec == Init /\ told = {} /\ [][ToldNext]_<<vars, told>>

\* unregisterToken tells the client "Token was reset" (Server.java:86): when the
\* reset that said so has given the player another token, the old one is not
\* registered any more.
ResetTokenIsDead ==
    \A t \in told : tokens[owner[t]] \notin {None, t} => ~Registered(t)
=============================================================================
