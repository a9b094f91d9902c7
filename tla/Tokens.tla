------------------------------- MODULE Tokens -------------------------------
(***************************************************************************)
(* The token registry of the remote-rendering server (server/Server.java)  *)
(* and everything that touches it:                                         *)
(*                                                                         *)
(*   - the game's main thread, which runs "/tcmp token [reset]", the       *)
(*     handler of a player leaving and loadComputers (TotalComputers.java);*)
(*   - one netty handler per client connection (server/PacketHandler.java),*)
(*     which binds a token on a connect packet and gives it back when the  *)
(*     connection becomes inactive.                                        *)
(*                                                                         *)
(* The three maps of Server are plain HashMaps and no lock is taken, so    *)
(* one call of a map is one step, and a thread keeps in its locals what it *)
(* read.  TotalComputers.tokens belongs to the main thread, and its calls  *)
(* go with the step they stand next to.  unregisterToken is written once,  *)
(* for every thread; its wait of 500 ms has no variable, the step after it *)
(* is simply free to come later.                                           *)
(*                                                                         *)
(* Abstractions: a single HashMap call, and the loop over channel2token,   *)
(* is atomic; a random token is one that was never drawn before; each      *)
(* connection has a thread of its own (connections that share an event     *)
(* loop have fewer interleavings).                                         *)
(***************************************************************************)
CONSTANTS Players,     \* the players who may join
          Tokens,      \* the tokens that can be drawn: bounds the resets
          Channels,    \* the client connections: bounds the reconnections
          Main,        \* the game's main thread
          None,        \* no map entry, no value
          Nobody       \* Java's null as the player of an entry

\* The player an entry stands for: get of an entry that is gone gives null.
Persons == Players \cup {Nobody}
BoundTokens == [player : Persons, channel : Channels]
Threads == Channels \cup {Main}

ASSUME NoneAssumption ==
    /\ None \notin Persons \cup Tokens \cup Channels
    /\ None \notin BoundTokens
    /\ Nobody \notin Players
    /\ Main \notin Channels

VARIABLES
    unbound,        \* Server.unboundRegisteredTokens: token -> player
    bound,          \* Server.boundRegisteredTokens: token -> BoundToken
    channel2token,  \* Server.channel2token: channel -> token
    tokens,         \* TotalComputers.tokens: player -> token
    owner,          \* history: the player a token was drawn for
    status,         \* channel -> active or inactive
    command,        \* what the main thread serves
    pc,             \* thread -> the next step of its method
    tok,            \* thread -> the token it works on
    plr             \* thread -> the player it serves, or read from the registry

registry == <<unbound, bound, channel2token>>
locals == <<pc, tok, plr>>
vars == <<unbound, bound, channel2token, tokens, owner, status, command, pc, tok,
          plr>>

Statuses == {"active", "inactive"}
Commands == {"none", "token", "leave"}
Binding == {"get", "take", "put", "map"}
Closing == {"look", "unbind"}
Unregistering == {"contains", "tell", "disconnect", "remove bound",
                  "remove unbound", "unmap"}
Steps == {"idle", "closed", "register", "draw", "forget"}
             \cup Binding \cup Closing \cup Unregistering

Init ==
    /\ unbound = [t \in Tokens |-> None]
    /\ bound = [t \in Tokens |-> None]
    /\ channel2token = [c \in Channels |-> None]
    /\ tokens = [p \in Players |-> None]
    /\ owner = [t \in Tokens |-> None]
    /\ status = [c \in Channels |-> "active"]
    /\ command = "none"
    /\ pc = [th \in Threads |-> "idle"]
    /\ tok = [th \in Threads |-> None]
    /\ plr = [th \in Threads |-> None]

\* Thread th, which is at step from, goes on to step to.
Goto(th, from, to) ==
    /\ pc[th] = from
    /\ pc' = [pc EXCEPT ![th] = to]

\* The method of thread th is over: its locals are gone.
End(th, to) ==
    /\ pc' = [pc EXCEPT ![th] = to]
    /\ tok' = [tok EXCEPT ![th] = None]
    /\ plr' = [plr EXCEPT ![th] = None]

\* A null pointer: a handler is left there, the game drops the command or event.
Fail(th) ==
    /\ End(th, IF th = Main THEN "idle" ELSE "closed")
    /\ command' = IF th = Main THEN "none" ELSE command

-----------------------------------------------------------------------------
(* Server.unregisterToken, of any thread.                                  *)

\* What follows it.
After(th) ==
    CASE th # Main -> "register"
      [] th = Main /\ command = "token" -> "draw"
      [] OTHER -> "forget"

\* Slip: unregisterToken looks for the token in the wrong map.
ContainsUnbound(th) ==
    /\ Goto(th, "contains", IF unbound[tok[th]] # None THEN "tell"
                            ELSE "remove unbound")
    /\ UNCHANGED <<registry, tokens, owner, status, command, tok, plr>>

Contains(th) ==
    /\ Goto(th, "contains", IF bound[tok[th]] # None THEN "tell"
                            ELSE "remove unbound")
    /\ UNCHANGED <<registry, tokens, owner, status, command, tok, plr>>

\* "Token was reset" goes to the client of the entry, if there is one still.
Tell(th) ==
    /\ pc[th] = "tell"
    /\ \/ /\ bound[tok[th]] = None
          /\ Fail(th)
       \/ /\ bound[tok[th]] # None
          /\ Goto(th, "tell", "disconnect")
          /\ UNCHANGED <<command, tok, plr>>
    /\ UNCHANGED <<registry, tokens, owner, status>>

Disconnect(th) ==
    /\ pc[th] = "disconnect"
    /\ \/ /\ bound[tok[th]] = None
          /\ Fail(th)
          /\ UNCHANGED status
       \/ /\ bound[tok[th]] # None
          /\ Goto(th, "disconnect", "remove bound")
          /\ status' = [status EXCEPT ![bound[tok[th]].channel] =
                            IF @ = "active" THEN "inactive" ELSE @]
          /\ UNCHANGED <<command, tok, plr>>
    /\ UNCHANGED <<registry, tokens, owner>>

\* After the wait.
RemoveBound(th) ==
    /\ Goto(th, "remove bound", "remove unbound")
    /\ bound' = [bound EXCEPT ![tok[th]] = None]
    /\ UNCHANGED <<unbound, channel2token, tokens, owner, status, command,
                   tok, plr>>

RemoveUnbound(th) ==
    /\ Goto(th, "remove unbound", "unmap")
    /\ unbound' = [unbound EXCEPT ![tok[th]] = None]
    /\ UNCHANGED <<bound, channel2token, tokens, owner, status, command,
                   tok, plr>>

\* The loop over channel2token keeps the last match, in hash order.
Unmap(th) ==
    LET matches == {c \in Channels : channel2token[c] = tok[th]}
    IN  /\ Goto(th, "unmap", After(th))
        /\ \/ /\ matches = {}
              /\ UNCHANGED channel2token
           \/ \E c \in matches :
                 channel2token' = [channel2token EXCEPT ![c] = None]
        /\ UNCHANGED <<unbound, bound, tokens, owner, status, command, tok, plr>>

UnregisterStep(th) ==
    \/ Contains(th)
    \/ Tell(th)
    \/ Disconnect(th)
    \/ RemoveBound(th)
    \/ RemoveUnbound(th)
    \/ Unmap(th)

-----------------------------------------------------------------------------
(* The main thread.                                                        *)

\* Main starts a command or event of player p, which unregisters t or does not.
Serve(p, cmd, step, t) ==
    /\ Goto(Main, "idle", step)
    /\ command' = cmd
    /\ plr' = [plr EXCEPT ![Main] = p]
    /\ tok' = [tok EXCEPT ![Main] = t]
    /\ UNCHANGED <<registry, tokens, owner, status>>

\* Bound of the model: commands that draw stop when the tokens run out (the
\* main thread is the only one that draws, so a command that starts can draw).
CanDraw == \E t \in Tokens : owner[t] = None

\* "/tcmp token" of a player without a token: nothing to unregister.
FirstToken(p) ==
    /\ CanDraw
    /\ tokens[p] = None
    /\ Serve(p, "token", "draw", None)

\* "/tcmp token reset" of a player with one.
ResetToken(p) ==
    /\ CanDraw
    /\ tokens[p] # None
    /\ Serve(p, "token", "contains", tokens[p])

\* playerLeave.
PlayerLeave(p) ==
    /\ tokens[p] # None
    /\ Serve(p, "leave", "contains", tokens[p])

\* loadComputers, at the start and on "/tcmp reload": the players' tokens are
\* forgotten, the server's maps are not.
LoadComputers ==
    /\ pc[Main] = "idle"
    /\ tokens' = [p \in Players |-> None]
    /\ UNCHANGED <<registry, owner, status, command, locals>>

\* Slip: the loop does not compare the drawn token with the others.
DrawTokenUnchecked ==
    /\ pc[Main] = "draw"
    /\ \E t \in Tokens :
          /\ unbound' = [unbound EXCEPT ![t] = plr[Main]]
          /\ tokens' = [tokens EXCEPT ![plr[Main]] = t]
          /\ owner' = [owner EXCEPT ![t] = plr[Main]]
    /\ End(Main, "idle")
    /\ command' = "none"
    /\ UNCHANGED <<bound, channel2token, status>>

\* Draws a token, registers it and remembers it as the player's.
DrawToken ==
    /\ pc[Main] = "draw"
    /\ \E t \in Tokens :
          /\ owner[t] = None
          /\ unbound' = [unbound EXCEPT ![t] = plr[Main]]
          /\ tokens' = [tokens EXCEPT ![plr[Main]] = t]
          /\ owner' = [owner EXCEPT ![t] = plr[Main]]
    /\ End(Main, "idle")
    /\ command' = "none"
    /\ UNCHANGED <<bound, channel2token, status>>

\* Slip: the command of a leaving player does not end.
ForgetPlayerLingers ==
    /\ Goto(Main, "forget", "idle")
    /\ tokens' = [tokens EXCEPT ![plr[Main]] = None]
    /\ command' = "none"
    /\ tok' = [tok EXCEPT ![Main] = None]
    /\ UNCHANGED <<registry, owner, status, plr>>

\* tokens.remove(player) of playerLeave.
ForgetPlayer ==
    /\ pc[Main] = "forget"
    /\ tokens' = [tokens EXCEPT ![plr[Main]] = None]
    /\ End(Main, "idle")
    /\ command' = "none"
    /\ UNCHANGED <<registry, owner, status>>

-----------------------------------------------------------------------------
(* The connections.                                                        *)

\* A client drops its connection (one that opens later is one that says nothing
\* until then).
DropChannel(c) ==
    /\ status[c] = "active"
    /\ status' = [status EXCEPT ![c] = "inactive"]
    /\ UNCHANGED <<registry, tokens, owner, command, locals>>

\* Slip: bindToken takes any token that was ever drawn for a player.
ConnectPacketAnyToken(c, t) ==
    /\ status[c] = "active"
    /\ owner[t] # None
    /\ Goto(c, "idle", "get")
    /\ tok' = [tok EXCEPT ![c] = t]
    /\ UNCHANGED <<registry, tokens, owner, status, command, plr>>

\* handleConnectC2S, up to the containsKey of bindToken.  A token that is not
\* there throws InvalidTokenException, which ExceptionHandler answers by
\* disconnecting the channel.  A channel may connect again.
ConnectPacket(c, t) ==
    /\ status[c] = "active"
    /\ pc[c] = "idle"
    /\ \/ /\ unbound[t] # None
          /\ Goto(c, "idle", "get")
          /\ tok' = [tok EXCEPT ![c] = t]
          /\ UNCHANGED <<status, plr>>
       \/ /\ unbound[t] = None
          /\ status' = [status EXCEPT ![c] = "inactive"]
          /\ UNCHANGED locals
    /\ UNCHANGED <<registry, tokens, owner, command>>

\* get finds the player, or null when another thread has taken the entry.
GetPlayer(c) ==
    /\ Goto(c, "get", "take")
    /\ plr' = [plr EXCEPT ![c] = IF unbound[tok[c]] = None THEN Nobody
                                 ELSE unbound[tok[c]]]
    /\ UNCHANGED <<registry, tokens, owner, status, command, tok>>

TakeToken(c) ==
    /\ Goto(c, "take", "put")
    /\ unbound' = [unbound EXCEPT ![tok[c]] = None]
    /\ UNCHANGED <<bound, channel2token, tokens, owner, status, command, tok, plr>>

PutBound(c) ==
    /\ Goto(c, "put", "map")
    /\ bound' = [bound EXCEPT ![tok[c]] = [player |-> plr[c], channel |-> c]]
    /\ UNCHANGED <<unbound, channel2token, tokens, owner, status, command,
                   tok, plr>>

\* The end of bindToken and of handleConnectC2S, where a null player throws, and
\* ExceptionHandler disconnects the channel.
MapChannel(c) ==
    /\ pc[c] = "map"
    /\ channel2token' = [channel2token EXCEPT ![c] = tok[c]]
    /\ status' = IF plr[c] = Nobody THEN [status EXCEPT ![c] = "inactive"]
                 ELSE status
    /\ End(c, "idle")
    /\ UNCHANGED <<unbound, bound, tokens, owner, command>>

\* channelInactive: handleDisconnect reads the token of the channel twice, and the
\* handler is over when either is null (the first leaves it, the second fails).
\* Other threads only take the token away, so the second read decides.
ChannelInactive(c) ==
    /\ status[c] = "inactive"
    /\ Goto(c, "idle", IF channel2token[c] = None THEN "closed" ELSE "look")
    /\ tok' = [tok EXCEPT ![c] = channel2token[c]]
    /\ UNCHANGED <<registry, tokens, owner, status, command, plr>>

\* Token t is bound, for a player.
HasPlayer(t) == bound[t] # None /\ bound[t].player # Nobody

\* It then sends a message to the player the token is bound to.
LookBound(c) ==
    /\ pc[c] = "look"
    /\ \/ /\ ~HasPlayer(tok[c])
          /\ Fail(c)
       \/ /\ HasPlayer(tok[c])
          /\ Goto(c, "look", "unbind")
          /\ UNCHANGED <<command, tok, plr>>
    /\ UNCHANGED <<registry, tokens, owner, status>>

\* unboundToken, which does nothing for a token that is not bound (any more).
UnboundToken(c) ==
    /\ pc[c] = "unbind"
    /\ \/ /\ bound[tok[c]] = None
          /\ End(c, "closed")
       \/ /\ bound[tok[c]] # None
          /\ Goto(c, "unbind", "contains")
          /\ plr' = [plr EXCEPT ![c] = bound[tok[c]].player]
          /\ UNCHANGED tok
    /\ UNCHANGED <<registry, tokens, owner, status, command>>

\* Slip: unboundToken unregisters the token and does not register it again.
RegisterTokenForgets(c) ==
    /\ pc[c] = "register"
    /\ End(c, "closed")
    /\ UNCHANGED <<registry, tokens, owner, status, command>>

\* registerToken at the end of unboundToken.
RegisterToken(c) ==
    /\ pc[c] = "register"
    /\ unbound' = [unbound EXCEPT ![tok[c]] = plr[c]]
    /\ End(c, "closed")
    /\ UNCHANGED <<bound, channel2token, tokens, owner, status, command>>

-----------------------------------------------------------------------------
MainStep == UnregisterStep(Main) \/ DrawToken \/ ForgetPlayer

BindStep(c) == GetPlayer(c) \/ TakeToken(c) \/ PutBound(c) \/ MapChannel(c)

CloseStep(c) ==
    \/ ChannelInactive(c)
    \/ LookBound(c)
    \/ UnboundToken(c)
    \/ RegisterToken(c)

HandlerStep(c) == BindStep(c) \/ CloseStep(c) \/ UnregisterStep(c)

Next ==
    \/ \E p \in Players : FirstToken(p) \/ ResetToken(p) \/ PlayerLeave(p)
    \/ LoadComputers
    \/ MainStep
    \/ \E c \in Channels : DropChannel(c) \/ HandlerStep(c)
    \/ \E c \in Channels, t \in Tokens : ConnectPacket(c, t)

Spec == Init /\ [][Next]_vars
-----------------------------------------------------------------------------
(* Properties.                                                             *)

Registered(t) == unbound[t] # None \/ bound[t] # None
Retired(t) == owner[t] # None /\ tokens[owner[t]] # t

\* Every variable holds what the Java type and the thread's step allow; the main
\* thread works for a player from the start of a command to its end.
TypeOK ==
    /\ unbound \in [Tokens -> Persons \cup {None}]
    /\ bound \in [Tokens -> BoundTokens \cup {None}]
    /\ channel2token \in [Channels -> Tokens \cup {None}]
    /\ tokens \in [Players -> Tokens \cup {None}]
    /\ owner \in [Tokens -> Players \cup {None}]
    /\ status \in [Channels -> Statuses]
    /\ command \in Commands
    /\ pc \in [Threads -> Steps]
    /\ tok \in [Threads -> Tokens \cup {None}]
    /\ plr \in [Threads -> Persons \cup {None}]
    /\ pc[Main] = "idle" <=> plr[Main] = None

\* Channel c has the token t for nobody: bindToken lost the race for the entry
\* between its containsKey and its get.  It is dropped, or about to be.
Dropped(c) ==
    \/ status[c] = "inactive"
    \/ pc[c] = "map" /\ plr[c] = Nobody

\* Whatever the interleaving of resets, leaves, binds and lost connections, a
\* client never acts for another player: a registered token stands for the player
\* it was drawn for, or for nobody, and a client that got it for nobody does not
\* stay connected (bindToken and unboundToken of Server, handleConnectC2S).
OwnerAgreement ==
    \A t \in Tokens :
        /\ unbound[t] \in {None, Nobody, owner[t]}
        /\ bound[t] # None =>
              \/ bound[t].player = owner[t]
              \/ bound[t].player = Nobody /\ Dropped(bound[t].channel)

\* Where a thread is that took a token away and has what follows before it:
\* bindToken binds it, unboundToken registers it again, a reset or a leave
\* replaces or forgets it.
Keeping == {"put", "remove unbound", "unmap", "register", "draw", "forget"}

\* Token t is registered, or in the hands of such a thread.
Kept(t) == Registered(t) \/ \E th \in Threads : tok[th] = t /\ pc[th] \in Keeping

\* The token a player was given never vanishes: whatever resets, leaves, binds
\* and lost connections overlap, and whichever of them fails half-way on a null
\* pointer, unregisterToken and bindToken only take it away where registerToken,
\* a binding or a new token follows (the entry may be one for nobody, see
\* OwnerAgreement).
TokenNotLost == \A p \in Players : tokens[p] # None => Kept(tokens[p])

\* What the two invariants above rest on: a handler at work holds a token and
\* its owner or nobody, the main thread unregisters the token its player has,
\* and a player's token was drawn for her.
HandlerLocals ==
    \A c \in Channels :
        /\ pc[c] \in Binding \cup Closing \cup Unregistering \cup {"register"}
               <=> tok[c] # None
        /\ tok[c] # None /\ pc[c] \notin Closing \cup {"get"} =>
              /\ plr[c] # None
              /\ plr[c] \in {Nobody, owner[tok[c]]}

MainLocals ==
    /\ pc[Main] \notin {"idle", "draw"} => tok[Main] # None
    /\ plr[Main] # Nobody
    /\ tok[Main] # None => plr[Main] # None /\ tok[Main] = tokens[plr[Main]]

TokenOwners == \A p \in Players : tokens[p] # None => owner[tokens[p]] = p

IInv ==
    /\ TypeOK
    /\ HandlerLocals
    /\ MainLocals
    /\ TokenOwners
    /\ OwnerAgreement

\* A token that is retired, not registered and in the hands of no handler, or only
\* of one that is about to look for it in the registry.
Gone(t) ==
    /\ Retired(t)
    /\ ~Registered(t)
    /\ \A c \in Channels : tok[c] = t => pc[c] \in Closing

\* A token that unregisterToken took away and that no handler was holding at
\* that time never comes back: no later connect, disconnect or draw makes it
\* valid again.
GoneForever == [][\A t \in Tokens : Gone(t) => Gone(t)']_vars

\* What a handler has in hand and is going to write to the registry.
Working == Binding \cup Unregistering \cup {"register"}

\* Token t is kept, or a handler has found it in the registry and is about to bind
\* it or to take it from its connection.
Valid(t) == Kept(t) \/ \E c \in Channels : tok[c] = t /\ pc[c] \in Working

\* However commands, leaves, reloads, connects and lost connections interleave, the
\* registry does what TokenRegistry promises: clients act for the owners of valid
\* tokens or for nobody, a player's token never ends while she has it, and one that
\* has ended does so for ever (unregisterToken, unboundToken and bindToken of
\* Server, whatever they overlap with).
Promised == INSTANCE TokenRegistry
                WITH holds <- tokens,
                     valid <- {t \in Tokens : Valid(t)}

RegistryPromise == Promised!Spec

\* A player whose client is gone can connect again with the token she has: when the
\* handler of a connection is over (handleDisconnect), the token it connected with is
\* not left bound to it, whatever the other threads do.  Two cases are left out by
\* channel2token, which does not lead from c to t any more: c connected a second
\* time, or an unregisterToken that started before took away what c then bound.  The
\* third is the client that lost the race for the entry: handleDisconnect fails on
\* its null player, and the token stays bound to nobody.
ReconnectPossible ==
    \A t \in Tokens, c \in Channels :
        (/\ pc[c] = "closed"
         /\ channel2token[c] = t
         /\ bound[t] # None
         /\ bound[t].channel = c)
            => bound[t].player = Nobody
=============================================================================
