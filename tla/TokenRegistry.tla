---------------------------- MODULE TokenRegistry ----------------------------
(***************************************************************************)
(* What the token registry promises to players and to their clients: a     *)
(* token is one player's; clients act with valid tokens only, and for      *)
(* their owners or for nobody; a token never ends while a player has it,   *)
(* nor while a client uses it, and one that has ended stays so.            *)
(***************************************************************************)
CONSTANTS Players,
          Tokens,
          Channels,   \* the client connections
          None,       \* no token, no player, no use
          Nobody      \* the player of a use that was refused

VARIABLES holds,      \* the token a player was given and not yet deprived of
          owner,      \* the player a token was given to
          valid,      \* the tokens that clients use or can still use
          bound       \* the use of a token: for which player, on which connection

Init ==
    /\ holds = [p \in Players |-> None]
    /\ owner = [t \in Tokens |-> None]
    /\ valid = {}
    /\ bound = [t \in Tokens |-> None]

\* What may be valid when p is deprived of her token: one that is in use stays.
Rest(p) ==
    {valid} \cup {valid \ {t} : t \in {u \in Tokens : holds[p] = u /\ bound[u] = None}}

\* A token is given once, to one player, for the one she has.
Give(p, t) ==
    /\ owner[t] = None
    /\ holds' = [holds EXCEPT ![p] = t]
    /\ owner' = [owner EXCEPT ![t] = p]
    /\ \E rest \in Rest(p) : valid' = rest \cup {t}
    /\ UNCHANGED bound

TakeBack(p) ==
    /\ holds[p] # None
    /\ holds' = [holds EXCEPT ![p] = None]
    /\ valid' \in Rest(p)
    /\ UNCHANGED <<owner, bound>>

\* The players are forgotten; their tokens stay valid.
Forget ==
    /\ holds' = [p \in Players |-> None]
    /\ UNCHANGED <<owner, valid, bound>>

Use(t, c) ==
    /\ t \in valid
    /\ \E p \in {owner[t], Nobody} :
          bound' = [bound EXCEPT ![t] = [player |-> p, channel |-> c]]
    /\ UNCHANGED <<holds, owner, valid>>

StopUse(t) ==
    /\ bound[t] # None
    /\ bound' = [bound EXCEPT ![t] = None]
    /\ UNCHANGED <<holds, owner, valid>>

\* A token that outlived its player's command may end later, when it is not used.
Lapse(t) ==
    /\ bound[t] = None
    /\ \A p \in Players : holds[p] # t
    /\ valid' = valid \ {t}
    /\ UNCHANGED <<holds, owner, bound>>

Next ==
    \/ \E p \in Players, t \in Tokens : Give(p, t)
    \/ \E p \in Players : TakeBack(p)
    \/ \E t \in Tokens, c \in Channels : Use(t, c)
    \/ \E t \in Tokens : StopUse(t) \/ Lapse(t)
    \/ Forget

Spec == Init /\ [][Next]_<<holds, owner, valid, bound>>
=============================================================================
