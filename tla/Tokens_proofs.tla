--------------------------- MODULE Tokens_proofs ---------------------------
(***************************************************************************)
(* Proofs about the token registry, for any sets of players, tokens and    *)
(* channels.                                                               *)
(***************************************************************************)
EXTENDS Tokens, TLAPS

USE DEF registry, locals, Statuses, Commands, Steps, Binding, Closing, Unregistering,
        Persons, BoundTokens, Threads

LEMMA InitInv == Init => IInv
BY NoneAssumption DEF Init, IInv, TypeOK, HandlerLocals, MainLocals, TokenOwners,
   OwnerAgreement

\* The steps at which a handler holds a token and a person for it.
Holding == {"take", "put", "map", "register"} \cup Unregistering

\* Nothing but removals happened to the registry, and no connection came back.
Shrinks ==
    /\ unbound' \in [Tokens -> Persons \cup {None}]
    /\ bound' \in [Tokens -> BoundTokens \cup {None}]
    /\ channel2token' \in [Channels -> Tokens \cup {None}]
    /\ status' \in [Channels -> Statuses]
    /\ \A t \in Tokens : unbound'[t] \in {None, unbound[t]}
    /\ \A t \in Tokens : bound'[t] \in {None, bound[t]}
    /\ \A c \in Channels : status[c] = "inactive" => status'[c] = "inactive"

\* What was agreed on stays so when entries are only removed.
LEMMA AgreementKept ==
    ASSUME TypeOK, OwnerAgreement, Shrinks, owner' = owner,
           \A c \in Channels : Dropped(c) => Dropped(c)'
    PROVE  OwnerAgreement'
<1> SUFFICES ASSUME NEW t \in Tokens
             PROVE  /\ unbound'[t] \in {None, Nobody, owner[t]}
                    /\ bound'[t] # None =>
                          \/ bound'[t].player = owner[t]
                          \/ bound'[t].player = Nobody /\ Dropped(bound[t].channel)'
  BY DEF OwnerAgreement
<1>1. unbound'[t] \in {None, Nobody, owner[t]}
  BY DEF OwnerAgreement, Shrinks
<1>2. ASSUME bound'[t] # None
      PROVE  \/ bound'[t].player = owner[t]
             \/ bound'[t].player = Nobody /\ Dropped(bound[t].channel)'
  <2>1. bound'[t] = bound[t] /\ bound[t] \in BoundTokens
    BY <1>2 DEF Shrinks, TypeOK
  <2>2. bound[t].channel \in Channels
    BY <2>1
  <2>3. \/ bound[t].player = owner[t]
        \/ bound[t].player = Nobody /\ Dropped(bound[t].channel)
    BY <2>1, <1>2 DEF OwnerAgreement
  <2> QED BY <2>1, <2>2, <2>3
<1> QED BY <1>1, <1>2

\* A thread that goes from step to step keeps the invariant, as long as the steps
\* are of one kind.
LEMMA MoveInv ==
    ASSUME IInv, NEW th \in Threads, NEW from, NEW to, Goto(th, from, to), Shrinks,
           UNCHANGED <<tokens, owner, command, tok, plr>>,
           \/ th # Main /\ from \in Holding \ {"map"} /\ to \in Holding
           \/ th # Main /\ from = "look" /\ to = "unbind"
           \/ th = Main /\ from \in Unregistering
                        /\ to \in Unregistering \cup {"draw", "forget"}
    PROVE  IInv'
<1> USE NoneAssumption DEF IInv, Goto, Holding
<1>1. TypeOK'
  BY DEF TypeOK, Shrinks
<1>2. HandlerLocals'
  <2> SUFFICES ASSUME NEW c \in Channels
               PROVE  /\ pc'[c] \in Binding \cup Closing \cup Unregistering \cup {"register"}
                             <=> tok[c] # None
                      /\ tok[c] # None /\ pc'[c] \notin Closing \cup {"get"} =>
                            /\ plr[c] # None
                            /\ plr[c] \in {Nobody, owner[tok[c]]}
    BY DEF HandlerLocals
  <2>1. CASE c = th
    BY <2>1 DEF TypeOK, HandlerLocals
  <2>2. CASE c # th
    <3>1. pc'[c] = pc[c]
      BY <2>2 DEF TypeOK
    <3> QED BY <3>1 DEF HandlerLocals
  <2> QED BY <2>1, <2>2
<1>3. MainLocals' /\ TokenOwners'
  BY DEF TypeOK, MainLocals, TokenOwners
<1>4. \A c \in Channels : Dropped(c) => Dropped(c)'
  BY DEF Dropped, Shrinks, TypeOK
<1> QED BY <1>1, <1>2, <1>3, <1>4, AgreementKept

\* So does a thread whose method ends, before it has drawn or bound a token.
LEMMA EndInv ==
    ASSUME IInv, NEW th \in Threads, NEW to, End(th, to), Shrinks,
           UNCHANGED <<tokens, owner>>, command' \in Commands,
           IF th = Main THEN to = "idle" ELSE to \in {"idle", "closed"},
           (pc[th] = "map" /\ Dropped(th)) => status'[th] = "inactive"
    PROVE  IInv'
<1> USE NoneAssumption DEF IInv, End
<1>1. TypeOK'
  BY DEF TypeOK, Shrinks
<1>2. HandlerLocals'
  BY DEF TypeOK, HandlerLocals
<1>3. MainLocals' /\ TokenOwners'
  BY DEF TypeOK, MainLocals, TokenOwners
<1>4. \A c \in Channels : Dropped(c) => Dropped(c)'
  BY DEF Dropped, Shrinks, TypeOK
<1> QED BY <1>1, <1>2, <1>3, <1>4, AgreementKept

LEMMA FailInv ==
    ASSUME IInv, NEW th \in Threads, Fail(th), UNCHANGED <<registry, tokens, owner, status>>,
           pc[th] # "map"
    PROVE  IInv'
<1>1. Shrinks
  BY DEF IInv, TypeOK, Shrinks
<1>2. command' \in Commands
  BY DEF Fail, IInv, TypeOK
<1> QED BY <1>1, <1>2, EndInv DEF Fail

\* unregisterToken, of any thread.
LEMMA UnregisterInv ==
    ASSUME IInv, NEW th \in Threads, UnregisterStep(th)
    PROVE  IInv'
<1> USE NoneAssumption DEF Holding
<1>t. TypeOK
  BY DEF IInv
<1>m. th = Main => tok[th] # None
  BY <1>t DEF IInv, MainLocals, UnregisterStep, Contains, Tell, Disconnect, RemoveBound, RemoveUnbound,
     Unmap, Goto
<1>h. th # Main => tok[th] # None
  BY <1>t DEF IInv, HandlerLocals, UnregisterStep, Contains, Tell, Disconnect, RemoveBound, RemoveUnbound,
     Unmap, Goto
<1>k. tok[th] \in Tokens
  BY <1>t, <1>m, <1>h DEF TypeOK
<1>1. CASE Contains(th)
  <2>1. Shrinks
    BY <1>t, <1>1 DEF Contains, Shrinks, TypeOK
  <2> QED BY <1>1, <2>1, MoveInv DEF Contains
<1>2. CASE Tell(th)
  <2>1. Shrinks
    BY <1>t, <1>2 DEF Tell, Shrinks, TypeOK
  <2>2. CASE Fail(th)
    BY <1>2, <2>2, FailInv DEF Tell
  <2>3. CASE Goto(th, "tell", "disconnect") /\ UNCHANGED <<command, tok, plr>>
    BY <1>2, <2>1, <2>3, MoveInv DEF Tell
  <2> QED BY <1>2, <2>2, <2>3 DEF Tell
<1>3. CASE Disconnect(th)
  <2>1. CASE Fail(th) /\ UNCHANGED status
    BY <1>3, <2>1, FailInv DEF Disconnect
  <2>2. CASE /\ bound[tok[th]] # None
             /\ Goto(th, "disconnect", "remove bound")
             /\ status' = [status EXCEPT ![bound[tok[th]].channel] =
                              IF @ = "active" THEN "inactive" ELSE @]
             /\ UNCHANGED <<command, tok, plr>>
    <3>1. Shrinks
      BY <1>t, <1>3, <2>2 DEF Disconnect, Shrinks, TypeOK
    <3> QED BY <1>3, <2>2, <3>1, MoveInv DEF Disconnect
  <2> QED BY <1>3, <2>1, <2>2 DEF Disconnect
<1>4. CASE RemoveBound(th)
  <2>1. Shrinks
    BY <1>t, <1>k, <1>4 DEF RemoveBound, Shrinks, TypeOK
  <2> QED BY <1>4, <2>1, MoveInv DEF RemoveBound
<1>5. CASE RemoveUnbound(th)
  <2>1. Shrinks
    BY <1>t, <1>k, <1>5 DEF RemoveUnbound, Shrinks, TypeOK
  <2> QED BY <1>5, <2>1, MoveInv DEF RemoveUnbound
<1>6. CASE Unmap(th)
  <2>1. Shrinks
    BY <1>t, <1>6 DEF Unmap, Shrinks, TypeOK
  <2>2. th = Main => After(th) \in {"draw", "forget"}
    BY DEF After
  <2>3. th # Main => After(th) = "register"
    BY DEF After
  <2> QED BY <1>6, <2>1, <2>2, <2>3, MoveInv DEF Unmap
<1> QED BY <1>1, <1>2, <1>3, <1>4, <1>5, <1>6 DEF UnregisterStep

\* The starts of commands and events: only the locals of the main thread change.
LEMMA ServeInv ==
    ASSUME IInv, NEW p \in Players, NEW cmd \in Commands, NEW step, NEW t,
           Serve(p, cmd, step, t),
           \/ step = "draw" /\ t = None
           \/ step = "contains" /\ t = tokens[p] /\ tokens[p] # None
    PROVE  IInv'
<1> USE NoneAssumption DEF IInv, Serve, Goto
<1>1. TypeOK'
  BY DEF TypeOK
<1>2. HandlerLocals'
  BY DEF TypeOK, HandlerLocals
<1>3. MainLocals' /\ TokenOwners'
  BY DEF TypeOK, MainLocals, TokenOwners
<1>4. \A c \in Channels : Dropped(c) => Dropped(c)'
  BY DEF Dropped, TypeOK
<1>5. Shrinks
  BY DEF Shrinks, TypeOK
<1> QED BY <1>1, <1>2, <1>3, <1>4, <1>5, AgreementKept

\* The other steps of the main thread.
LEMMA LoadInv == ASSUME IInv, LoadComputers PROVE IInv'
<1> USE NoneAssumption DEF IInv, LoadComputers
<1>1. TypeOK'
  BY DEF TypeOK
<1>2. HandlerLocals' /\ OwnerAgreement'
  BY DEF HandlerLocals, OwnerAgreement, Dropped
<1>3. MainLocals' /\ TokenOwners'
  BY DEF TypeOK, MainLocals, TokenOwners
<1> QED BY <1>1, <1>2, <1>3

LEMMA DrawInv == ASSUME IInv, DrawToken PROVE IInv'
<1> USE NoneAssumption DEF IInv
<1>1. PICK t \in Tokens :
         /\ owner[t] = None
         /\ unbound' = [unbound EXCEPT ![t] = plr[Main]]
         /\ tokens' = [tokens EXCEPT ![plr[Main]] = t]
         /\ owner' = [owner EXCEPT ![t] = plr[Main]]
  BY DEF DrawToken
<1>2. plr[Main] \in Players
  BY DEF DrawToken, TypeOK, MainLocals
<1>3. /\ pc' = [pc EXCEPT ![Main] = "idle"]
      /\ tok' = [tok EXCEPT ![Main] = None]
      /\ plr' = [plr EXCEPT ![Main] = None]
      /\ command' = "none"
      /\ UNCHANGED <<bound, channel2token, status>>
  BY DEF DrawToken, End
<1>4. TypeOK'
  BY <1>1, <1>2, <1>3 DEF TypeOK
<1>5. MainLocals'
  BY <1>3 DEF TypeOK, MainLocals
<1>6. TokenOwners'
  BY <1>1, <1>2 DEF TypeOK, TokenOwners
<1>7. ASSUME NEW c \in Channels, tok[c] = t
      PROVE  pc[c] \in Closing \cup {"get"} \/ plr[c] = Nobody
  BY <1>1, <1>7 DEF HandlerLocals
<1>8. HandlerLocals'
  <2> SUFFICES ASSUME NEW c \in Channels
               PROVE  /\ pc[c] \in Binding \cup Closing \cup Unregistering \cup {"register"}
                             <=> tok[c] # None
                      /\ tok[c] # None /\ pc[c] \notin Closing \cup {"get"} =>
                            /\ plr[c] # None
                            /\ plr[c] \in {Nobody, owner'[tok[c]]}
    BY <1>3 DEF TypeOK, HandlerLocals
  <2>1. CASE tok[c] = t
    BY <1>7, <2>1 DEF HandlerLocals
  <2>2. CASE tok[c] # t
    <3>1. tok[c] # None => owner'[tok[c]] = owner[tok[c]]
      BY <1>1, <2>2 DEF TypeOK
    <3> QED BY <3>1 DEF HandlerLocals
  <2> QED BY <2>1, <2>2
<1>9. OwnerAgreement'
  <2> SUFFICES ASSUME NEW u \in Tokens
               PROVE  /\ unbound'[u] \in {None, Nobody, owner'[u]}
                      /\ bound[u] # None =>
                            \/ bound[u].player = owner'[u]
                            \/ bound[u].player = Nobody /\ Dropped(bound[u].channel)'
    BY <1>3 DEF OwnerAgreement
  <2>1. unbound'[u] \in {None, Nobody, owner'[u]}
    BY <1>1 DEF TypeOK, OwnerAgreement
  <2>2. ASSUME bound[u] # None
        PROVE  \/ bound[u].player = owner'[u]
               \/ bound[u].player = Nobody /\ Dropped(bound[u].channel)'
    <3>1. bound[u] \in BoundTokens
      BY <2>2 DEF TypeOK
    <3>2. bound[u].player # None /\ bound[u].channel \in Channels
      BY <3>1
    <3>3. Dropped(bound[u].channel) => Dropped(bound[u].channel)'
      BY <1>3, <3>2 DEF Dropped, TypeOK
    <3>4. owner[u] # None => owner'[u] = owner[u]
      BY <1>1 DEF TypeOK
    <3> QED BY <2>2, <3>2, <3>3, <3>4 DEF OwnerAgreement
  <2> QED BY <2>1, <2>2
<1> QED BY <1>4, <1>5, <1>6, <1>8, <1>9

LEMMA ForgetInv == ASSUME IInv, ForgetPlayer PROVE IInv'
<1> USE NoneAssumption DEF IInv, ForgetPlayer, End
<1>1. TypeOK'
  BY DEF TypeOK
<1>2. HandlerLocals'
  BY DEF TypeOK, HandlerLocals
<1>3. MainLocals' /\ TokenOwners'
  BY DEF TypeOK, MainLocals, TokenOwners
<1>4. \A c \in Channels : Dropped(c) => Dropped(c)'
  BY DEF Dropped, TypeOK
<1>5. Shrinks
  BY DEF Shrinks, TypeOK
<1> QED BY <1>1, <1>2, <1>3, <1>4, <1>5, AgreementKept

\* bindToken.
LEMMA BindInv == ASSUME IInv, NEW c \in Channels, BindStep(c) PROVE IInv'
<1> USE NoneAssumption DEF IInv
<1>t. pc[c] \in Binding => tok[c] \in Tokens
  BY DEF TypeOK, HandlerLocals
<1>1. CASE GetPlayer(c)
  <2> USE <1>1 DEF GetPlayer, Goto
  <2>0. tok[c] \in Tokens
    BY <1>t
  <2>1. plr'[c] \in Persons /\ plr'[c] \in {Nobody, owner[tok[c]]}
    BY <2>0 DEF TypeOK, OwnerAgreement
  <2>2. TypeOK'
    BY <2>1 DEF TypeOK
  <2>3. HandlerLocals'
    BY <2>0, <2>1 DEF TypeOK, HandlerLocals
  <2>4. MainLocals' /\ TokenOwners'
    BY DEF TypeOK, MainLocals, TokenOwners
  <2>5. \A d \in Channels : Dropped(d) => Dropped(d)'
    BY DEF Dropped, TypeOK
  <2>6. Shrinks
    BY DEF Shrinks, TypeOK
  <2> QED BY <2>2, <2>3, <2>4, <2>5, <2>6, AgreementKept
<1>2. CASE TakeToken(c)
  <2>1. Shrinks
    BY <1>2, <1>t DEF TakeToken, Goto, Shrinks, TypeOK
  <2> QED BY <1>2, <2>1, MoveInv DEF TakeToken, Holding
<1>3. CASE PutBound(c)
  <2> USE <1>3 DEF PutBound, Goto
  <2> DEFINE entry == [player |-> plr[c], channel |-> c]
  <2>0. /\ tok[c] \in Tokens
        /\ plr[c] \in Persons
        /\ plr[c] \in {Nobody, owner[tok[c]]}
    BY <1>t DEF TypeOK, HandlerLocals
  <2>e. entry \in BoundTokens /\ entry.player = plr[c] /\ entry.channel = c
    BY <2>0
  <2>1. TypeOK'
    BY <2>0, <2>e DEF TypeOK
  <2>2. HandlerLocals'
    BY DEF TypeOK, HandlerLocals
  <2>3. MainLocals' /\ TokenOwners'
    BY DEF TypeOK, MainLocals, TokenOwners
  <2>4. \A d \in Channels : Dropped(d) => Dropped(d)'
    BY DEF Dropped, TypeOK
  <2>5. plr[c] = Nobody => Dropped(c)'
    BY DEF Dropped, TypeOK
  <2>6. OwnerAgreement'
    <3> SUFFICES ASSUME NEW t \in Tokens
                 PROVE  /\ unbound[t] \in {None, Nobody, owner[t]}
                        /\ bound'[t] # None =>
                              \/ bound'[t].player = owner[t]
                              \/ bound'[t].player = Nobody /\ Dropped(bound[t].channel)'
      BY DEF OwnerAgreement
    <3>1. unbound[t] \in {None, Nobody, owner[t]}
      BY DEF OwnerAgreement
    <3>2. CASE t = tok[c]
      <4>1. bound'[t] = entry
        BY <3>2 DEF TypeOK
      <4> QED BY <2>0, <2>e, <2>5, <3>1, <3>2, <4>1
    <3>3. CASE t # tok[c]
      <4>1. bound'[t] = bound[t]
        BY <3>3 DEF TypeOK
      <4>2. bound[t] # None => bound[t].channel \in Channels
        BY DEF TypeOK
      <4>3. bound[t] # None =>
              \/ bound[t].player = owner[t]
              \/ bound[t].player = Nobody /\ Dropped(bound[t].channel)
        BY DEF OwnerAgreement
      <4> QED BY <2>4, <3>1, <4>1, <4>2, <4>3
    <3> QED BY <3>2, <3>3
  <2> QED BY <2>1, <2>2, <2>3, <2>6
<1>4. CASE MapChannel(c)
  <2>0. tok[c] \in Tokens
    BY <1>4, <1>t DEF MapChannel
  <2>1. Shrinks
    BY <1>4, <2>0 DEF MapChannel, Shrinks, TypeOK
  <2>2. Dropped(c) => status'[c] = "inactive"
    BY <1>4 DEF MapChannel, Dropped, TypeOK
  <2>3. command' \in Commands
    BY <1>4 DEF MapChannel, TypeOK
  <2> QED BY <1>4, <2>1, <2>2, <2>3, EndInv DEF MapChannel
<1> QED BY <1>1, <1>2, <1>3, <1>4 DEF BindStep

\* channelInactive.
LEMMA CloseInv == ASSUME IInv, NEW c \in Channels, CloseStep(c) PROVE IInv'
<1> USE NoneAssumption DEF IInv
<1>t. pc[c] \in Closing \cup {"register"} => tok[c] \in Tokens
  BY DEF TypeOK, HandlerLocals
<1>s. UNCHANGED <<registry, status>> => Shrinks
  BY DEF Shrinks, TypeOK
<1>1. CASE ChannelInactive(c)
  <2> USE <1>1 DEF ChannelInactive, Goto
  <2>1. TypeOK'
    BY DEF TypeOK
  <2>2. HandlerLocals'
    BY DEF TypeOK, HandlerLocals
  <2>3. MainLocals' /\ TokenOwners'
    BY DEF TypeOK, MainLocals, TokenOwners
  <2>4. \A d \in Channels : Dropped(d) => Dropped(d)'
    BY DEF Dropped, TypeOK
  <2> QED BY <1>s, <2>1, <2>2, <2>3, <2>4, AgreementKept
<1>2. CASE LookBound(c)
  <2>1. CASE Fail(c)
    BY <1>2, <2>1, FailInv DEF LookBound
  <2>2. CASE Goto(c, "look", "unbind") /\ UNCHANGED <<command, tok, plr>>
    BY <1>2, <1>s, <2>2, MoveInv DEF LookBound
  <2> QED BY <1>2, <2>1, <2>2 DEF LookBound
<1>3. CASE UnboundToken(c)
  <2>1. CASE End(c, "closed")
    <3>1. command' \in Commands
      BY <1>3 DEF UnboundToken, TypeOK
    <3> QED BY <1>3, <1>s, <2>1, <3>1, EndInv DEF UnboundToken
  <2>2. CASE /\ bound[tok[c]] # None
             /\ Goto(c, "unbind", "contains")
             /\ plr' = [plr EXCEPT ![c] = bound[tok[c]].player]
             /\ UNCHANGED tok
    <3>1. tok[c] \in Tokens
      BY <1>3, <1>t DEF UnboundToken
    <3>2. bound[tok[c]] \in BoundTokens
      BY <2>2, <3>1 DEF TypeOK
    <3>3. /\ bound[tok[c]].player \in Persons
          /\ bound[tok[c]].player \in {Nobody, owner[tok[c]]}
      BY <2>2, <3>1, <3>2 DEF OwnerAgreement
    <3>4. UNCHANGED <<registry, tokens, owner, status, command>>
      BY <1>3 DEF UnboundToken
    <3>5. TypeOK'
      BY <2>2, <3>3, <3>4 DEF Goto, TypeOK
    <3>6. HandlerLocals'
      BY <2>2, <3>1, <3>3, <3>4 DEF Goto, TypeOK, HandlerLocals
    <3>7. MainLocals' /\ TokenOwners'
      BY <2>2, <3>4 DEF Goto, TypeOK, MainLocals, TokenOwners
    <3>8. \A d \in Channels : Dropped(d) => Dropped(d)'
      BY <2>2, <3>4 DEF Goto, Dropped, TypeOK
    <3> QED BY <1>s, <3>4, <3>5, <3>6, <3>7, <3>8, AgreementKept
  <2> QED BY <1>3, <2>1, <2>2 DEF UnboundToken
<1>4. CASE RegisterToken(c)
  <2> USE <1>4 DEF RegisterToken, End
  <2>0. /\ tok[c] \in Tokens
        /\ plr[c] \in Persons
        /\ plr[c] \in {Nobody, owner[tok[c]]}
    BY <1>t DEF TypeOK, HandlerLocals
  <2>1. TypeOK'
    BY <2>0 DEF TypeOK
  <2>2. HandlerLocals'
    BY DEF TypeOK, HandlerLocals
  <2>3. MainLocals' /\ TokenOwners'
    BY DEF TypeOK, MainLocals, TokenOwners
  <2>4. \A d \in Channels : Dropped(d) => Dropped(d)'
    BY DEF Dropped, TypeOK
  <2>5. \A t \in Tokens : bound[t] # None => bound[t].channel \in Channels
    BY DEF TypeOK
  <2>6. \A t \in Tokens : unbound'[t] \in {None, Nobody, owner[t]}
    BY <2>0 DEF TypeOK, OwnerAgreement
  <2>7. OwnerAgreement'
    BY <2>4, <2>5, <2>6 DEF OwnerAgreement
  <2> QED BY <2>1, <2>2, <2>3, <2>7
<1> QED BY <1>1, <1>2, <1>3, <1>4 DEF CloseStep

\* A connect packet and a lost connection.
LEMMA ClientInv ==
    ASSUME IInv, NEW c \in Channels, DropChannel(c) \/ \E t \in Tokens : ConnectPacket(c, t)
    PROVE  IInv'
<1> USE NoneAssumption DEF IInv
<1>1. UNCHANGED <<registry, tokens, owner, command>>
  BY DEF DropChannel, ConnectPacket
<1>2. CASE /\ status' = [status EXCEPT ![c] = "inactive"]
           /\ UNCHANGED locals
  <2>1. TypeOK' /\ HandlerLocals' /\ MainLocals' /\ TokenOwners'
    BY <1>1, <1>2 DEF TypeOK, HandlerLocals, MainLocals, TokenOwners
  <2>2. Shrinks
    BY <1>1, <1>2 DEF Shrinks, TypeOK
  <2>3. \A d \in Channels : Dropped(d) => Dropped(d)'
    BY <1>2 DEF Dropped, TypeOK
  <2> QED BY <1>1, <2>1, <2>2, <2>3, AgreementKept
<1>3. CASE \E t \in Tokens : /\ Goto(c, "idle", "get")
                             /\ tok' = [tok EXCEPT ![c] = t]
                             /\ UNCHANGED <<status, plr>>
  <2>0. PICK t \in Tokens : /\ Goto(c, "idle", "get")
                            /\ tok' = [tok EXCEPT ![c] = t]
                            /\ UNCHANGED <<status, plr>>
    BY <1>3
  <2> USE <1>1, <2>0 DEF Goto
  <2>1. TypeOK'
    BY DEF TypeOK
  <2>2. HandlerLocals'
    BY DEF TypeOK, HandlerLocals
  <2>3. MainLocals' /\ TokenOwners'
    BY DEF TypeOK, MainLocals, TokenOwners
  <2>4. \A d \in Channels : Dropped(d) => Dropped(d)'
    BY DEF Dropped, TypeOK
  <2>5. Shrinks
    BY DEF Shrinks, TypeOK
  <2> QED BY <2>1, <2>2, <2>3, <2>4, <2>5, AgreementKept
<1> QED BY <1>2, <1>3 DEF DropChannel, ConnectPacket

LEMMA StepInv == IInv /\ [Next]_vars => IInv'
<1> SUFFICES ASSUME IInv, [Next]_vars
             PROVE  IInv'
  OBVIOUS
<1>1. ASSUME NEW p \in Players, FirstToken(p) \/ ResetToken(p) \/ PlayerLeave(p)
      PROVE  IInv'
  BY <1>1, ServeInv DEF FirstToken, ResetToken, PlayerLeave
<1>2. CASE LoadComputers
  BY <1>2, LoadInv
<1>3. CASE MainStep
  BY <1>3, UnregisterInv, DrawInv, ForgetInv DEF MainStep
<1>4. ASSUME NEW c \in Channels, HandlerStep(c)
      PROVE  IInv'
  BY <1>4, BindInv, CloseInv, UnregisterInv DEF HandlerStep
<1>5. ASSUME NEW c \in Channels, DropChannel(c) \/ \E t \in Tokens : ConnectPacket(c, t)
      PROVE  IInv'
  BY <1>5, ClientInv
<1>6. CASE UNCHANGED vars
  BY <1>6 DEF IInv, vars, TypeOK, HandlerLocals, MainLocals, TokenOwners, OwnerAgreement,
     Dropped
<1> QED BY <1>1, <1>2, <1>3, <1>4, <1>5, <1>6 DEF Next

\* Every reachable state is well typed, for any players, tokens and channels.
THEOREM Typing == Spec => []TypeOK
<1>1. IInv => TypeOK
  BY DEF IInv
<1> QED BY <1>1, InitInv, StepInv, PTL DEF Spec

\* A registered token stands for the player it was drawn for or for nobody, and a
\* client that got it for nobody is dropped.
THEOREM Ownership == Spec => []OwnerAgreement
<1>1. IInv => OwnerAgreement
  BY DEF IInv
<1> QED BY <1>1, InitInv, StepInv, PTL DEF Spec

-----------------------------------------------------------------------------
LEMMA InvAlways == Spec => []IInv
BY InitInv, StepInv, PTL DEF Spec

LEMMA InitNotLost == Init => TokenNotLost
BY DEF Init, TokenNotLost

\* Two players never have the same token.
LEMMA DistinctTokens ==
    ASSUME TokenOwners,
           NEW p \in Players, NEW q \in Players,
           tokens[p] = tokens[q], tokens[p] # None
    PROVE  p = q
BY DEF TokenOwners

\* A thread's step changes its own locals only.
LEMMA OwnLocals ==
    ASSUME TypeOK, NEW th \in Threads,
           \/ UnregisterStep(th)
           \/ th = Main /\ (DrawToken \/ ForgetPlayer)
           \/ th # Main /\ HandlerStep(th)
    PROVE  \A o \in Threads \ {th} : pc'[o] = pc[o] /\ tok'[o] = tok[o]
<1> USE DEF TypeOK
<1>1. CASE UnregisterStep(th)
  BY <1>1 DEF UnregisterStep, Contains, Tell, Disconnect, RemoveBound, RemoveUnbound, Unmap,
     Goto, Fail, End
<1>2. CASE th = Main /\ (DrawToken \/ ForgetPlayer)
  BY <1>2 DEF DrawToken, ForgetPlayer, End
<1>3. CASE BindStep(th)
  BY <1>3 DEF BindStep, GetPlayer, TakeToken, PutBound, MapChannel, Goto, End
<1>4. CASE CloseStep(th)
  BY <1>4 DEF CloseStep, ChannelInactive, LookBound, UnboundToken, RegisterToken, Goto,
     Fail, End
<1> QED BY <1>1, <1>2, <1>3, <1>4 DEF HandlerStep

\* A thread's step keeps the tokens that other threads keep; what it has to care
\* for is the registered tokens and its own.
LEMMA KeptByOthers ==
    ASSUME NEW th \in Threads, NEW t, Kept(t),
           \A o \in Threads \ {th} : pc'[o] = pc[o] /\ tok'[o] = tok[o],
           Registered(t) => Kept(t)',
           pc[th] \in Keeping /\ tok[th] = t => Kept(t)'
    PROVE  Kept(t)'
<1>1. CASE Registered(t)
  BY <1>1
<1>2. CASE \E o \in Threads : tok[o] = t /\ pc[o] \in Keeping
  <2>1. PICK o \in Threads : tok[o] = t /\ pc[o] \in Keeping
    BY <1>2
  <2>2. CASE o = th
    BY <2>1, <2>2
  <2>3. CASE o # th
    BY <2>1, <2>3 DEF Kept
  <2> QED BY <2>2, <2>3
<1> QED BY <1>1, <1>2 DEF Kept

\* unregisterToken keeps every token, to the end of its removals.
LEMMA UnregisterKeeps ==
    ASSUME IInv, NEW th \in Threads, NEW t \in Tokens, UnregisterStep(th), Kept(t)
    PROVE  Kept(t)'
<1> USE DEF IInv
<1>1. \A o \in Threads \ {th} : pc'[o] = pc[o] /\ tok'[o] = tok[o]
  BY OwnLocals
<1>2. Registered(t) => Kept(t)'
  <2>1. CASE UNCHANGED <<unbound, bound>>
    BY <2>1 DEF Registered, Kept
  <2>2. CASE RemoveBound(th)
    <3>1. CASE tok[th] = t
      BY <2>2, <3>1 DEF RemoveBound, Goto, Kept, Keeping, TypeOK
    <3>2. CASE tok[th] # t
      BY <2>2, <3>2 DEF RemoveBound, Registered, Kept, TypeOK
    <3> QED BY <3>1, <3>2
  <2>3. CASE RemoveUnbound(th)
    <3>1. CASE tok[th] = t
      BY <2>3, <3>1 DEF RemoveUnbound, Goto, Kept, Keeping, TypeOK
    <3>2. CASE tok[th] # t
      BY <2>3, <3>2 DEF RemoveUnbound, Registered, Kept, TypeOK
    <3> QED BY <3>1, <3>2
  <2> QED BY <2>1, <2>2, <2>3 DEF UnregisterStep, Contains, Tell, Disconnect, Unmap
<1>3. pc[th] \in Keeping /\ tok[th] = t => Kept(t)'
  <2>1. CASE RemoveUnbound(th)
    BY <2>1 DEF RemoveUnbound, Goto, Kept, Keeping, TypeOK
  <2>2. CASE Unmap(th)
    <3>1. After(th) \in Keeping
      BY DEF After, Keeping
    <3> QED BY <2>2, <3>1 DEF Unmap, Goto, Kept, TypeOK
  <2>3. CASE pc[th] \notin Keeping
    BY <2>3
  <2> QED BY <2>1, <2>2, <2>3 DEF UnregisterStep, Contains, Tell, Disconnect, RemoveBound,
             Goto, Keeping
<1> QED BY <1>1, <1>2, <1>3, KeptByOthers

\* So does a handler.
LEMMA HandlerKeeps ==
    ASSUME IInv, NEW c \in Channels, NEW t \in Tokens, BindStep(c) \/ CloseStep(c), Kept(t)
    PROVE  Kept(t)'
<1> USE NoneAssumption DEF IInv
<1>1. \A o \in Threads \ {c} : pc'[o] = pc[o] /\ tok'[o] = tok[o]
  BY OwnLocals DEF HandlerStep
<1>k. pc[c] \in {"take", "put", "register"} => /\ tok[c] \in Tokens
                                               /\ plr[c] \in Persons
  BY DEF HandlerLocals, TypeOK
<1>2. Registered(t) => Kept(t)'
  <2>1. CASE UNCHANGED <<unbound, bound>>
    BY <2>1 DEF Registered, Kept
  <2>2. CASE TakeToken(c)
    <3>1. CASE tok[c] = t
      BY <2>2, <3>1 DEF TakeToken, Goto, Kept, Keeping, TypeOK
    <3>2. CASE tok[c] # t
      BY <2>2, <3>2 DEF TakeToken, Registered, Kept, TypeOK
    <3> QED BY <3>1, <3>2
  <2>3. CASE PutBound(c)
    <3>1. [player |-> plr[c], channel |-> c] # None
      BY <1>k, <2>3 DEF PutBound, Goto
    <3> QED BY <2>3, <3>1 DEF PutBound, Registered, Kept, TypeOK
  <2>4. CASE RegisterToken(c)
    BY <1>k, <2>4 DEF RegisterToken, Registered, Kept, TypeOK
  <2> QED BY <2>1, <2>2, <2>3, <2>4 DEF BindStep, CloseStep, GetPlayer, MapChannel,
             ChannelInactive, LookBound, UnboundToken
<1>3. pc[c] \in Keeping /\ tok[c] = t => Kept(t)'
  <2>1. CASE PutBound(c)
    <3>1. [player |-> plr[c], channel |-> c] # None
      BY <1>k, <2>1 DEF PutBound, Goto
    <3> QED BY <2>1, <3>1 DEF PutBound, Registered, Kept, TypeOK
  <2>2. CASE RegisterToken(c)
    BY <1>k, <2>2 DEF RegisterToken, Registered, Kept, TypeOK
  <2> QED BY <2>1, <2>2 DEF BindStep, CloseStep, GetPlayer, TakeToken, MapChannel,
             ChannelInactive, LookBound, UnboundToken, Goto, Keeping
<1> QED BY <1>1, <1>2, <1>3, KeptByOthers

\* No step loses a player's token.
LEMMA StepNotLost ==
    ASSUME IInv, TokenNotLost, [Next]_vars
    PROVE  TokenNotLost'
<1> SUFFICES ASSUME NEW q \in Players, tokens'[q] # None
             PROVE  Kept(tokens[q])'
  BY DEF TokenNotLost
<1> USE NoneAssumption DEF IInv
<1>1. ASSUME NEW p \in Players, FirstToken(p) \/ ResetToken(p) \/ PlayerLeave(p)
      PROVE  Kept(tokens[q])'
  <2>1. /\ UNCHANGED <<unbound, bound, tokens>>
        /\ pc[Main] = "idle"
        /\ \A o \in Threads \ {Main} : pc'[o] = pc[o] /\ tok'[o] = tok[o]
    BY <1>1 DEF FirstToken, ResetToken, PlayerLeave, Serve, Goto, TypeOK
  <2>2. PICK t : t = tokens[q] /\ t = tokens'[q] /\ Kept(t)
    BY <2>1 DEF TokenNotLost
  <2>3. Kept(t)'
    <3>1. Registered(t) => Kept(t)'
      BY <2>1 DEF Registered, Kept
    <3> QED BY <2>1, <2>2, <3>1, KeptByOthers DEF Keeping
  <2> QED BY <2>2, <2>3 DEF Kept, Registered
<1>2. CASE LoadComputers
  BY <1>2 DEF LoadComputers
<1>3. CASE UnregisterStep(Main) \/ \E c \in Channels : HandlerStep(c)
  <2>1. UNCHANGED tokens
    BY <1>3 DEF UnregisterStep, Contains, Tell, Disconnect, RemoveBound, RemoveUnbound,
       Unmap, HandlerStep, BindStep, CloseStep, GetPlayer, TakeToken, PutBound, MapChannel,
       ChannelInactive, LookBound, UnboundToken, RegisterToken
  <2>2. PICK t \in Tokens : t = tokens[q] /\ t = tokens'[q] /\ Kept(t)
    BY <2>1 DEF TokenNotLost, TypeOK
  <2>3. Kept(t)'
    BY <1>3, <2>2, UnregisterKeeps, HandlerKeeps DEF HandlerStep
  <2> QED BY <2>2, <2>3 DEF Kept, Registered
<1>4. CASE DrawToken
  <2>1. CASE q = plr[Main]
    <3>1. PICK t \in Tokens :
             /\ unbound' = [unbound EXCEPT ![t] = plr[Main]]
             /\ tokens' = [tokens EXCEPT ![plr[Main]] = t]
      BY <1>4 DEF DrawToken
    <3>2. tokens'[q] = t /\ unbound'[t] = q
      BY <2>1, <3>1 DEF TypeOK
    <3> QED BY <3>2 DEF Kept, Registered
  <2>2. CASE q # plr[Main]
    <3>1. tokens'[q] = tokens[q] /\ tokens[q] \in Tokens
      BY <1>4, <2>2 DEF DrawToken, TypeOK
    <3>2. tokens[q] # tok[Main]
      BY <2>2, <3>1, DistinctTokens DEF MainLocals, TypeOK
    <3>3. unbound[tokens[q]] # None => unbound'[tokens[q]] # None
      BY <1>4, <3>1 DEF DrawToken, TypeOK
    <3>4. UNCHANGED bound
      BY <1>4 DEF DrawToken
    <3>5. \A o \in Threads \ {Main} : pc'[o] = pc[o] /\ tok'[o] = tok[o]
      BY <1>4, OwnLocals
    <3>6. Kept(tokens[q])
      BY <3>1 DEF TokenNotLost
    <3> QED BY <3>1, <3>2, <3>3, <3>4, <3>5, <3>6 DEF Kept, Registered
  <2> QED BY <2>1, <2>2
<1>5. CASE ForgetPlayer
  <2>1. q # plr[Main] /\ tokens'[q] = tokens[q]
    BY <1>5 DEF ForgetPlayer, TypeOK, MainLocals
  <2>2. tokens[q] # tok[Main]
    BY <1>5, <2>1, DistinctTokens DEF ForgetPlayer, MainLocals, TypeOK
  <2>3. \A o \in Threads \ {Main} : pc'[o] = pc[o] /\ tok'[o] = tok[o]
    BY <1>5, OwnLocals
  <2>4. UNCHANGED <<unbound, bound>>
    BY <1>5 DEF ForgetPlayer
  <2>5. Kept(tokens[q])
    BY <2>1 DEF TokenNotLost
  <2> QED BY <2>1, <2>2, <2>3, <2>4, <2>5 DEF Kept, Registered
<1>6. ASSUME NEW c \in Channels, DropChannel(c)
      PROVE  Kept(tokens[q])'
  BY <1>6 DEF TokenNotLost, DropChannel, Kept, Registered
<1>7. ASSUME NEW c \in Channels, NEW t \in Tokens, ConnectPacket(c, t)
      PROVE  Kept(tokens[q])'
  <2>1. /\ UNCHANGED <<unbound, bound, tokens>>
        /\ pc[c] = "idle"
        /\ \A o \in Threads \ {c} : pc'[o] = pc[o] /\ tok'[o] = tok[o]
    BY <1>7 DEF ConnectPacket, Goto, TypeOK
  <2>2. PICK u : u = tokens[q] /\ u = tokens'[q] /\ Kept(u)
    BY <2>1 DEF TokenNotLost
  <2>3. Kept(u)'
    <3>1. Registered(u) => Kept(u)'
      BY <2>1 DEF Registered, Kept
    <3> QED BY <2>1, <2>2, <3>1, KeptByOthers DEF Keeping
  <2> QED BY <2>2, <2>3 DEF Kept, Registered
<1>8. CASE UNCHANGED vars
  BY <1>8 DEF TokenNotLost, vars, Kept, Registered
<1> QED
  BY <1>1, <1>2, <1>3, <1>4, <1>5, <1>6, <1>7, <1>8 DEF Next, MainStep

\* The token a player was given never vanishes (unboundToken, bindToken and the
\* two commands never leave it unregistered behind them).
THEOREM NotLost == Spec => []TokenNotLost
<1>1. IInv /\ TokenNotLost /\ [Next]_vars => TokenNotLost'
  BY StepNotLost
<1> QED BY <1>1, InvAlways, InitNotLost, PTL DEF Spec

-----------------------------------------------------------------------------
\* A step never brings back a token that is gone.
LEMMA StepGone ==
    ASSUME IInv, [Next]_vars, NEW t \in Tokens, Gone(t)
    PROVE  Gone(t)'
<1> USE NoneAssumption DEF IInv, Gone, Registered, Retired
<1>1. ASSUME NEW p \in Players, FirstToken(p) \/ ResetToken(p) \/ PlayerLeave(p)
      PROVE  Gone(t)'
  BY <1>1 DEF FirstToken, ResetToken, PlayerLeave, Serve, Goto, TypeOK
<1>2. CASE LoadComputers
  BY <1>2 DEF LoadComputers, TypeOK
<1>3. ASSUME NEW th \in Threads, UnregisterStep(th)
      PROVE  Gone(t)'
  <2>1. UNCHANGED <<tokens, owner>>
    BY <1>3 DEF UnregisterStep, Contains, Tell, Disconnect, RemoveBound, RemoveUnbound, Unmap
  <2>2. ~Registered(t)'
    BY <1>3 DEF UnregisterStep, Contains, Tell, Disconnect, RemoveBound, RemoveUnbound, Unmap,
       TypeOK
  <2>3. \A c \in Channels : tok'[c] = t => pc'[c] \in Closing
    BY <1>3 DEF UnregisterStep, Contains, Tell, Disconnect, RemoveBound, RemoveUnbound, Unmap,
       Goto, Fail, End, TypeOK
  <2> QED BY <2>1, <2>2, <2>3
<1>4. CASE DrawToken
  <2>1. PICK u \in Tokens :
           /\ owner[u] = None
           /\ unbound' = [unbound EXCEPT ![u] = plr[Main]]
           /\ tokens' = [tokens EXCEPT ![plr[Main]] = u]
           /\ owner' = [owner EXCEPT ![u] = plr[Main]]
    BY <1>4 DEF DrawToken
  <2>2. u # t /\ UNCHANGED bound
    BY <1>4, <2>1 DEF DrawToken
  <2>3. Retired(t)' /\ ~Registered(t)'
    BY <2>1, <2>2 DEF TypeOK
  <2>4. \A c \in Channels : tok'[c] = tok[c] /\ pc'[c] = pc[c]
    BY <1>4 DEF DrawToken, End, TypeOK
  <2> QED BY <2>3, <2>4
<1>5. CASE ForgetPlayer
  BY <1>5 DEF ForgetPlayer, End, TypeOK
<1>6. ASSUME NEW c \in Channels, DropChannel(c)
      PROVE  Gone(t)'
  BY <1>6 DEF DropChannel
<1>7. ASSUME NEW c \in Channels, NEW u \in Tokens, ConnectPacket(c, u)
      PROVE  Gone(t)'
  BY <1>7 DEF ConnectPacket, Goto, TypeOK
<1>8. ASSUME NEW c \in Channels, BindStep(c)
      PROVE  Gone(t)'
  <2>1. CASE GetPlayer(c)
    BY <2>1 DEF GetPlayer, Goto, TypeOK
  <2>2. CASE TakeToken(c)
    BY <2>2 DEF TakeToken, Goto, TypeOK
  <2>3. CASE PutBound(c)
    BY <2>3 DEF PutBound, Goto, TypeOK
  <2>4. CASE MapChannel(c)
    BY <2>4 DEF MapChannel, End, TypeOK
  <2> QED BY <1>8, <2>1, <2>2, <2>3, <2>4 DEF BindStep
<1>9. ASSUME NEW c \in Channels, CloseStep(c)
      PROVE  Gone(t)'
  <2>1. CASE ChannelInactive(c)
    <3>1. channel2token[c] = t => pc'[c] = "look"
      BY <2>1 DEF ChannelInactive, Goto, TypeOK
    <3> QED BY <2>1, <3>1 DEF ChannelInactive, Goto, TypeOK
  <2>2. CASE LookBound(c)
    BY <2>2 DEF LookBound, Goto, Fail, End, TypeOK
  <2>3. CASE UnboundToken(c)
    BY <2>3 DEF UnboundToken, Goto, End, TypeOK
  <2>4. CASE RegisterToken(c)
    BY <2>4 DEF RegisterToken, End, TypeOK
  <2> QED BY <1>9, <2>1, <2>2, <2>3, <2>4 DEF CloseStep
<1>10. CASE UNCHANGED vars
  BY <1>10 DEF vars
<1> QED
  BY <1>1, <1>2, <1>3, <1>4, <1>5, <1>6, <1>7, <1>8, <1>9, <1>10
     DEF Next, MainStep, HandlerStep

\* A token that was unregistered, and that no handler held then, stays invalid:
\* no later connect packet, lost connection or draw makes it valid again.
THEOREM NoReturn == Spec => GoneForever
<1>1. IInv /\ [Next]_vars => [\A t \in Tokens : Gone(t) => Gone(t)']_vars
  BY StepGone
<1> QED BY <1>1, InvAlways, PTL DEF Spec, GoneForever

-----------------------------------------------------------------------------
\* What a handler that closes its connection relies on, and what it leaves: the
\* channel's token is the one it works on, and when the token is past its removal it
\* is not bound to this connection any more.
Uses(t, c) == bound[t] # None /\ bound[t].channel = c

CloseLocals(c) ==
    /\ pc[c] \in Closing \cup Unregistering \cup {"register"}
           => channel2token[c] \in {None, tok[c]}
    /\ pc[c] \in {"remove unbound", "unmap", "register"} => ~Uses(tok[c], c)
    /\ pc[c] = "closed" /\ channel2token[c] # None /\ Uses(channel2token[c], c)
           => bound[channel2token[c]].player = Nobody

ClosingInv == \A c \in Channels : CloseLocals(c)

\* Other threads do not disturb it: they do not bind a token to connection c.
LEMMA CloseByOthers ==
    ASSUME IInv, NEW c \in Channels, CloseLocals(c), pc'[c] = pc[c], tok'[c] = tok[c],
           channel2token'[c] \in {None, channel2token[c]},
           \A t \in Tokens : Uses(t, c)' => bound'[t] = bound[t]
    PROVE  CloseLocals(c)'
<1> USE NoneAssumption DEF IInv
<1>1. \A t \in Tokens : Uses(t, c)' => Uses(t, c)
  BY DEF Uses
<1>2. tok[c] \in Tokens \/ tok[c] = None
  BY DEF TypeOK
<1>3. channel2token[c] \in Tokens \/ channel2token[c] = None
  BY DEF TypeOK
<1>4. ASSUME pc[c] \in {"remove unbound", "unmap", "register"}, tok[c] \in Tokens
      PROVE  ~Uses(tok[c], c)'
  <2>1. ~Uses(tok[c], c)
    BY <1>4 DEF CloseLocals
  <2> QED BY <1>1, <1>4, <2>1 DEF Uses
<1>5. ASSUME pc[c] = "closed", channel2token'[c] # None, Uses(channel2token[c], c)'
      PROVE  bound'[channel2token'[c]].player = Nobody
  <2>1. channel2token'[c] = channel2token[c] /\ channel2token[c] \in Tokens
    BY <1>3, <1>5
  <2>2. PICK t \in Tokens : t = channel2token[c] /\ t = channel2token'[c]
    BY <2>1
  <2>3. Uses(t, c)'
    BY <1>5, <2>2 DEF Uses
  <2>4. bound'[t] = bound[t] /\ Uses(t, c)
    BY <1>1, <2>3
  <2> QED BY <1>5, <2>2, <2>4 DEF CloseLocals
<1>6. pc[c] \in Closing \cup Unregistering \cup {"register"}
          => channel2token'[c] \in {None, tok[c]}
  BY DEF CloseLocals
<1>7. pc[c] \in {"remove unbound", "unmap", "register"} => ~Uses(tok[c], c)'
  BY <1>2, <1>4 DEF HandlerLocals
<1>8. (pc[c] = "closed" /\ channel2token'[c] # None /\ Uses(channel2token[c], c)')
          => bound'[channel2token'[c]].player = Nobody
  BY <1>5
<1> QED BY <1>6, <1>7, <1>8 DEF CloseLocals, Uses

\* A step of c's own thread.
LEMMA CloseByUnregister ==
    ASSUME IInv, NEW c \in Channels, CloseLocals(c), UnregisterStep(c)
    PROVE  CloseLocals(c)'
<1> USE NoneAssumption DEF IInv
<1>1. tok[c] \in Tokens /\ pc[c] \in Unregistering
  BY DEF UnregisterStep, Contains, Tell, Disconnect, RemoveBound, RemoveUnbound, Unmap, Goto,
     HandlerLocals, TypeOK
<1>2. channel2token[c] \in {None, tok[c]}
  BY <1>1 DEF CloseLocals
<1>3. ASSUME Fail(c), UNCHANGED registry, bound[tok[c]] = None
      PROVE  CloseLocals(c)'
  <2>1. pc'[c] = "closed" /\ channel2token'[c] \in {None, tok[c]}
    BY <1>2, <1>3 DEF Fail, End, TypeOK
  <2>2. bound'[tok[c]] = None
    BY <1>3
  <2> QED BY <2>1, <2>2 DEF CloseLocals, Uses
<1>4. CASE Contains(c)
  <2>1. /\ pc'[c] \in {"tell", "remove unbound"}
        /\ pc'[c] = "remove unbound" => bound[tok[c]] = None
        /\ UNCHANGED <<registry, tok>>
    BY <1>4 DEF Contains, Goto, TypeOK
  <2> QED BY <1>2, <2>1 DEF CloseLocals, Uses
<1>5. CASE Tell(c)
  <2>1. CASE Goto(c, "tell", "disconnect") /\ UNCHANGED <<registry, tok>>
    BY <1>2, <2>1 DEF Goto, TypeOK, CloseLocals
  <2> QED BY <1>3, <1>5, <2>1 DEF Tell
<1>6. CASE Disconnect(c)
  <2>1. CASE Goto(c, "disconnect", "remove bound") /\ UNCHANGED <<registry, tok>>
    BY <1>2, <2>1 DEF Goto, TypeOK, CloseLocals
  <2> QED BY <1>3, <1>6, <2>1 DEF Disconnect
<1>7. CASE RemoveBound(c)
  <2>1. /\ pc'[c] = "remove unbound"
        /\ bound'[tok[c]] = None
        /\ UNCHANGED <<channel2token, tok>>
    BY <1>1, <1>7 DEF RemoveBound, Goto, TypeOK
  <2> QED BY <1>2, <2>1 DEF CloseLocals, Uses
<1>8. ASSUME pc[c] \in {"remove unbound", "unmap"}, pc'[c] \in {"unmap", "register"},
             UNCHANGED <<bound, tok>>, channel2token'[c] \in {None, channel2token[c]}
      PROVE  CloseLocals(c)'
  BY <1>2, <1>8 DEF CloseLocals, Uses
<1>9. CASE RemoveUnbound(c)
  BY <1>8, <1>9 DEF RemoveUnbound, Goto, TypeOK
<1>10. CASE Unmap(c)
  BY <1>8, <1>10 DEF Unmap, After, Goto, TypeOK
<1> QED BY <1>4, <1>5, <1>6, <1>7, <1>9, <1>10 DEF UnregisterStep

LEMMA CloseByHandler ==
    ASSUME IInv, NEW c \in Channels, CloseLocals(c), BindStep(c) \/ CloseStep(c)
    PROVE  CloseLocals(c)'
<1> USE NoneAssumption DEF IInv
<1>1. CASE BindStep(c)
  <2>1. pc'[c] \in Binding \cup {"idle"}
    BY <1>1 DEF BindStep, GetPlayer, TakeToken, PutBound, MapChannel, Goto, End, TypeOK
  <2> QED BY <2>1 DEF CloseLocals
<1>2. CASE ChannelInactive(c)
  <2>1. /\ pc'[c] \in {"closed", "look"}
        /\ pc'[c] = "closed" => channel2token'[c] = None
        /\ tok'[c] = channel2token'[c]
    BY <1>2 DEF ChannelInactive, Goto, TypeOK
  <2> QED BY <2>1 DEF CloseLocals
<1>t. pc[c] \in Closing \cup {"register"} =>
          tok[c] \in Tokens /\ channel2token[c] \in {None, tok[c]}
  BY DEF HandlerLocals, TypeOK, CloseLocals
<1>3. CASE LookBound(c)
  <2>0. pc[c] = "look" /\ UNCHANGED registry
    BY <1>3 DEF LookBound
  <2>1. CASE Fail(c) /\ ~HasPlayer(tok[c])
    <3>1. pc'[c] = "closed"
      BY <2>1 DEF Fail, End, TypeOK
    <3>2. bound[tok[c]] = None \/ bound[tok[c]].player = Nobody
      BY <2>1 DEF HasPlayer
    <3> QED BY <1>t, <2>0, <3>1, <3>2 DEF CloseLocals, Uses
  <2>2. CASE Goto(c, "look", "unbind") /\ UNCHANGED tok
    BY <1>t, <2>0, <2>2 DEF Goto, TypeOK, CloseLocals
  <2> QED BY <1>3, <2>1, <2>2 DEF LookBound
<1>4. CASE UnboundToken(c)
  <2>0. pc[c] = "unbind" /\ UNCHANGED registry
    BY <1>4 DEF UnboundToken
  <2>1. CASE bound[tok[c]] = None /\ End(c, "closed")
    <3>1. pc'[c] = "closed"
      BY <2>1 DEF End, TypeOK
    <3> QED BY <1>t, <2>0, <2>1, <3>1 DEF CloseLocals, Uses
  <2>2. CASE Goto(c, "unbind", "contains") /\ UNCHANGED tok
    BY <1>t, <2>0, <2>2 DEF Goto, TypeOK, CloseLocals
  <2> QED BY <1>4, <2>1, <2>2 DEF UnboundToken
<1>5. CASE RegisterToken(c)
  <2>1. pc'[c] = "closed" /\ pc[c] = "register" /\ UNCHANGED <<bound, channel2token>>
    BY <1>5 DEF RegisterToken, End, TypeOK
  <2>2. ~Uses(tok[c], c)
    BY <2>1 DEF CloseLocals
  <2> QED BY <1>t, <2>1, <2>2 DEF CloseLocals, Uses
<1> QED BY <1>1, <1>2, <1>3, <1>4, <1>5 DEF CloseStep

\* Every step keeps it for every connection.
LEMMA StepClosing ==
    ASSUME IInv, ClosingInv, [Next]_vars
    PROVE  ClosingInv'
<1> SUFFICES ASSUME NEW c \in Channels, CloseLocals(c)
             PROVE  CloseLocals(c)'
  BY DEF ClosingInv
<1> USE NoneAssumption DEF IInv
<1>0. UNCHANGED bound => \A t \in Tokens : Uses(t, c)' => bound'[t] = bound[t]
  OBVIOUS
<1>1. ASSUME NEW p \in Players, FirstToken(p) \/ ResetToken(p) \/ PlayerLeave(p)
      PROVE  CloseLocals(c)'
  <2>1. /\ UNCHANGED registry
        /\ pc'[c] = pc[c] /\ tok'[c] = tok[c]
    BY <1>1 DEF FirstToken, ResetToken, PlayerLeave, Serve, Goto, TypeOK
  <2> QED BY <1>0, <2>1, CloseByOthers
<1>2. CASE LoadComputers
  <2>1. UNCHANGED <<registry, pc, tok>>
    BY <1>2 DEF LoadComputers
  <2> QED BY <1>0, <2>1, CloseByOthers
<1>3. CASE DrawToken \/ ForgetPlayer
  <2>1. /\ UNCHANGED <<bound, channel2token>>
        /\ pc'[c] = pc[c] /\ tok'[c] = tok[c]
    BY <1>3 DEF DrawToken, ForgetPlayer, End, TypeOK
  <2> QED BY <1>0, <2>1, CloseByOthers
<1>4. ASSUME NEW th \in Threads \ {c}, UnregisterStep(th)
      PROVE  CloseLocals(c)'
  <2>1. pc'[c] = pc[c] /\ tok'[c] = tok[c]
    BY <1>4, OwnLocals
  <2>2. channel2token'[c] \in {None, channel2token[c]}
    BY <1>4 DEF UnregisterStep, Contains, Tell, Disconnect, RemoveBound, RemoveUnbound, Unmap,
       TypeOK
  <2>3. \A t \in Tokens : bound'[t] \in {None, bound[t]}
    BY <1>4 DEF UnregisterStep, Contains, Tell, Disconnect, RemoveBound, RemoveUnbound, Unmap,
       TypeOK
  <2>4. \A t \in Tokens : Uses(t, c)' => bound'[t] = bound[t]
    BY <2>3 DEF Uses
  <2> QED BY <2>1, <2>2, <2>4, CloseByOthers
<1>5. ASSUME NEW d \in Channels \ {c}, BindStep(d) \/ CloseStep(d)
      PROVE  CloseLocals(c)'
  <2>1. pc'[c] = pc[c] /\ tok'[c] = tok[c]
    BY <1>5, OwnLocals DEF HandlerStep
  <2>2. channel2token'[c] = channel2token[c]
    BY <1>5 DEF BindStep, CloseStep, GetPlayer, TakeToken, PutBound, MapChannel,
       ChannelInactive, LookBound, UnboundToken, RegisterToken, TypeOK
  <2>3. \A t \in Tokens : Uses(t, c)' => bound'[t] = bound[t]
    <3>1. CASE PutBound(d)
      BY <1>5, <3>1 DEF PutBound, Uses, TypeOK
    <3>2. CASE UNCHANGED bound
      BY <1>0, <3>2
    <3> QED BY <1>5, <3>1, <3>2 DEF BindStep, CloseStep, GetPlayer, TakeToken, MapChannel,
               ChannelInactive, LookBound, UnboundToken, RegisterToken
  <2> QED BY <2>1, <2>2, <2>3, CloseByOthers
<1>6. CASE UnregisterStep(c)
  BY <1>6, CloseByUnregister
<1>7. CASE BindStep(c) \/ CloseStep(c)
  BY <1>7, CloseByHandler
<1>8. ASSUME NEW d \in Channels, DropChannel(d)
      PROVE  CloseLocals(c)'
  <2>1. UNCHANGED <<registry, pc, tok>>
    BY <1>8 DEF DropChannel
  <2> QED BY <1>0, <2>1, CloseByOthers
<1>9. ASSUME NEW d \in Channels, NEW t \in Tokens, ConnectPacket(d, t)
      PROVE  CloseLocals(c)'
  <2>1. UNCHANGED registry
    BY <1>9 DEF ConnectPacket
  <2>2. \/ pc'[c] = pc[c] /\ tok'[c] = tok[c]
        \/ pc'[c] = "get"
    BY <1>9 DEF ConnectPacket, Goto, TypeOK
  <2>3. CASE pc'[c] = "get"
    BY <2>3 DEF CloseLocals
  <2> QED BY <1>0, <2>1, <2>2, <2>3, CloseByOthers
<1>10. CASE UNCHANGED vars
  <2>1. UNCHANGED <<registry, pc, tok>>
    BY <1>10 DEF vars
  <2> QED BY <1>0, <2>1, CloseByOthers
<1> QED
  BY <1>1, <1>2, <1>3, <1>4, <1>5, <1>6, <1>7, <1>8, <1>9, <1>10
     DEF Next, MainStep, HandlerStep

\* When the handler of a connection is over, the token it connected with is not left
\* bound to it for its player: she can connect again with the token she has.
THEOREM Reconnects == Spec => []ReconnectPossible
<1>1. Init => ClosingInv
  BY NoneAssumption DEF Init, ClosingInv, CloseLocals
<1>2. IInv /\ ClosingInv /\ [Next]_vars => ClosingInv'
  BY StepClosing
<1>3. ClosingInv => ReconnectPossible
  <2> SUFFICES ASSUME ClosingInv, NEW t \in Tokens, NEW c \in Channels,
                      pc[c] = "closed", channel2token[c] = t, bound[t] # None,
                      bound[t].channel = c
               PROVE  bound[t].player = Nobody
    BY DEF ReconnectPossible
  <2> QED BY NoneAssumption DEF ClosingInv, CloseLocals, Uses
<1> QED BY <1>1, <1>2, <1>3, InvAlways, PTL DEF Spec

-----------------------------------------------------------------------------
(* The refinement.                                                         *)

Valids == {t \in Tokens : Valid(t)}

\* Thread th has token t in hand: a handler from its first read on, the main thread
\* from its first removal on.
InHand(th, t) ==
    /\ tok[th] = t
    /\ pc[th] \in Keeping \/ (th # Main /\ pc[th] \in Working)

LEMMA ValidMeans ==
    ASSUME NEW t
    PROVE  Valid(t) <=> Registered(t) \/ \E th \in Threads : InHand(th, t)
BY NoneAssumption DEF Valid, Kept, InHand

\* Nothing changes for the promise but the connection that uses a token.
LEMMA SameValid ==
    ASSUME \A t \in Tokens : Valid(t)' <=> Valid(t)
    PROVE  Valids' = Valids
BY DEF Valids

\* A thread's step leaves alone what others have in hand; what it has to care for is
\* the registered tokens, the token it had and the one it has.
LEMMA ValidByOthers ==
    ASSUME NEW th \in Threads, NEW t,
           \A o \in Threads \ {th} : pc'[o] = pc[o] /\ tok'[o] = tok[o],
           InHand(th, t)' => Valid(t),
           Registered(t)' => Valid(t)
    PROVE  /\ Valid(t)' => Valid(t)
           /\ (InHand(th, t) => Valid(t)') /\ (Registered(t) => Valid(t)')
                  => (Valid(t) => Valid(t)')
<1>0. Valid(t)' <=> Registered(t)' \/ \E o \in Threads : InHand(o, t)'
  BY NoneAssumption DEF Valid, Kept, InHand, Registered
<1>1. ASSUME NEW o \in Threads, o # th
      PROVE  InHand(o, t)' <=> InHand(o, t)
  BY <1>1 DEF InHand
<1>2. ASSUME Valid(t)' PROVE Valid(t)
  <2>1. CASE \E o \in Threads : InHand(o, t)'
    <3>1. PICK o \in Threads : InHand(o, t)'
      BY <2>1
    <3>2. CASE o = th
      BY <3>1, <3>2 DEF InHand
    <3>3. CASE o # th
      BY <1>1, <3>1, <3>3, ValidMeans
    <3> QED BY <3>2, <3>3
  <2> QED BY <1>0, <1>2, <2>1
<1>3. ASSUME InHand(th, t) => Valid(t)', Registered(t) => Valid(t)', Valid(t)
      PROVE  Valid(t)'
  <2>1. CASE \E o \in Threads : InHand(o, t)
    <3>1. PICK o \in Threads : InHand(o, t)
      BY <2>1
    <3>2. CASE o = th
      BY <1>3, <3>1, <3>2
    <3>3. CASE o # th
      <4>1. InHand(o, t)'
        BY <1>1, <3>1, <3>3
      <4> QED BY <1>0, <4>1
    <3> QED BY <3>2, <3>3
  <2> QED BY <1>3, <2>1, ValidMeans
<1> QED BY <1>2, <1>3

\* When a thread lets go of a token that is not registered, the token ends, and no
\* player has it then.
LEMMA OneLapses ==
    ASSUME TypeOK, TokenNotLost', UNCHANGED <<tokens, owner, bound>>, NEW t \in Tokens,
           \A u \in Tokens \ {t} : Valid(u)' <=> Valid(u),
           Valid(t)' => Valid(t)
    PROVE  [Promised!Next]_<<tokens, owner, Valids, bound>>
<1>1. CASE Valid(t)' <=> Valid(t)
  BY <1>1, SameValid
<1>2. CASE ~Valid(t)' /\ Valid(t)
  <2>1. bound[t] = None
    BY <1>2 DEF Valid, Kept, Registered
  <2>2. ASSUME NEW p \in Players, tokens[p] = t
        PROVE  FALSE
    <3>1. tokens'[p] = t /\ t # None
      BY <2>2, NoneAssumption
    <3>2. Kept(t)'
      BY <3>1 DEF TokenNotLost, Kept, Registered
    <3> QED BY <1>2, <3>2 DEF Valid, Kept, Registered
  <2>3. Valids' = Valids \ {t}
    BY <1>2 DEF Valids
  <2> QED BY <2>1, <2>2, <2>3 DEF Promised!Next, Promised!Lapse, Valids
<1> QED BY <1>1, <1>2

\* A thread whose method ends, with nothing changed in the registry.
LEMMA LetGo ==
    ASSUME IInv, TokenNotLost', NEW th \in Threads, NEW to, End(th, to),
           to \notin Keeping \cup Working,
           UNCHANGED <<unbound, bound, tokens, owner>>, tok[th] \in Tokens
    PROVE  [Promised!Next]_<<tokens, owner, Valids, bound>>
<1> USE NoneAssumption DEF IInv
<1>0. \A o \in Threads \ {th} : pc'[o] = pc[o] /\ tok'[o] = tok[o]
  BY DEF End, TypeOK
<1>1. ASSUME NEW t \in Tokens
      PROVE  /\ Valid(t)' => Valid(t)
             /\ t # tok[th] => (Valid(t) => Valid(t)')
  <2>1. ~InHand(th, t)'
    BY DEF InHand, End, TypeOK
  <2>2. Registered(t)' <=> Registered(t)
    BY DEF Registered
  <2>3. (Registered(t)' => Valid(t)) /\ (Registered(t) => Valid(t)')
    BY <2>2 DEF Valid, Kept
  <2>4. t # tok[th] => ~InHand(th, t)
    BY DEF InHand
  <2> QED BY <1>0, <2>1, <2>3, <2>4, ValidByOthers
<1> QED BY <1>1, OneLapses

\* unregisterToken ends the use of a token, or a token that no player has and that
\* another thread took from it.
LEMMA UnregisterPromise ==
    ASSUME IInv, TokenNotLost, TokenNotLost', NEW th \in Threads, UnregisterStep(th)
    PROVE  [Promised!Next]_<<tokens, owner, Valids, bound>>
<1> USE NoneAssumption DEF IInv
<1>0. \A o \in Threads \ {th} : pc'[o] = pc[o] /\ tok'[o] = tok[o]
  BY OwnLocals
<1>1. UNCHANGED <<tokens, owner>> /\ pc[th] \in Unregistering
  BY DEF UnregisterStep, Contains, Tell, Disconnect, RemoveBound, RemoveUnbound, Unmap, Goto
<1>2. tok[th] \in Tokens
  <2>1. CASE th = Main
    BY <1>1, <2>1 DEF MainLocals, TypeOK
  <2>2. CASE th # Main
    BY <1>1, <2>2 DEF HandlerLocals, TypeOK
  <2> QED BY <2>1, <2>2
<1>3. Valid(tok[th])
  <2>1. CASE th = Main
    BY <1>1, <2>1 DEF MainLocals, TypeOK, TokenNotLost, Valid
  <2>2. CASE th # Main
    BY <1>1, <2>2 DEF Valid, Working
  <2> QED BY <2>1, <2>2
<1>4. ASSUME Fail(th), UNCHANGED <<registry, status>>
      PROVE  [Promised!Next]_<<tokens, owner, Valids, bound>>
  <2>1. "idle" \notin Keeping \cup Working /\ "closed" \notin Keeping \cup Working
    BY DEF Keeping, Working
  <2> QED BY <1>1, <1>2, <1>4, <2>1, LetGo DEF Fail
<1>5. ASSUME tok' = tok,
             \A t \in Tokens : Registered(t)' => Valid(t),
             \A t \in Tokens : Registered(t) => Valid(t)',
             InHand(th, tok[th]) => pc'[th] \in Keeping \/ (th # Main /\ pc'[th] \in Working)
      PROVE  Valids' = Valids
  <2>1. ASSUME NEW t \in Tokens
        PROVE  Valid(t)' <=> Valid(t)
    <3>1. InHand(th, t)' => Valid(t)
      BY <1>3, <1>5 DEF InHand
    <3>2. InHand(th, t) => InHand(th, t)'
      BY <1>5 DEF InHand
    <3>3. InHand(th, t)' => Valid(t)'
      BY DEF InHand, Valid, Kept
    <3> QED BY <1>0, <1>5, <3>1, <3>2, <3>3, ValidByOthers
  <2> QED BY <2>1, SameValid
<1>6. UNCHANGED <<unbound, bound>> => /\ \A t \in Tokens : Registered(t)' => Valid(t)
                                      /\ \A t \in Tokens : Registered(t) => Valid(t)'
  BY DEF Registered, Valid, Kept
<1>7. ASSUME UNCHANGED <<bound, unbound, tok>>, pc'[th] \in Unregistering \cup {After(th)},
             pc[th] \in Keeping => pc'[th] \in Keeping
      PROVE  [Promised!Next]_<<tokens, owner, Valids, bound>>
  <2>1. InHand(th, tok[th]) => pc'[th] \in Keeping \/ (th # Main /\ pc'[th] \in Working)
    BY <1>7 DEF InHand, After, Working, Keeping
  <2>2. Valids' = Valids
    BY <1>5, <1>6, <1>7, <2>1
  <2> QED BY <1>1, <1>7, <2>2
<1>8. CASE Contains(th)
  BY <1>7, <1>8 DEF Contains, Goto, TypeOK, Keeping
<1>9. CASE Tell(th)
  <2>1. CASE Fail(th)
    BY <1>4, <1>9, <2>1 DEF Tell
  <2>2. CASE Goto(th, "tell", "disconnect") /\ UNCHANGED tok
    BY <1>7, <1>9, <2>2 DEF Tell, Goto, TypeOK, Keeping
  <2> QED BY <1>9, <2>1, <2>2 DEF Tell
<1>10. CASE Disconnect(th)
  <2>1. CASE Fail(th) /\ UNCHANGED status
    BY <1>4, <1>10, <2>1 DEF Disconnect
  <2>2. CASE Goto(th, "disconnect", "remove bound") /\ UNCHANGED tok
    BY <1>7, <1>10, <2>2 DEF Disconnect, Goto, TypeOK, Keeping
  <2> QED BY <1>10, <2>1, <2>2 DEF Disconnect
<1>11. ASSUME RemoveBound(th) \/ RemoveUnbound(th)
       PROVE  Valids' = Valids
  <2>1. /\ tok' = tok
        /\ pc'[th] \in {"remove unbound", "unmap"}
        /\ \A t \in Tokens \ {tok[th]} : bound'[t] = bound[t] /\ unbound'[t] = unbound[t]
        /\ \A t \in Tokens : bound'[t] \in {None, bound[t]} /\ unbound'[t] \in {None, unbound[t]}
    BY <1>11 DEF RemoveBound, RemoveUnbound, Goto, TypeOK
  <2>2. \A t \in Tokens : Registered(t)' => Valid(t)
    BY <2>1 DEF Registered, Valid, Kept
  <2>3. Valid(tok[th])'
    BY <2>1 DEF Valid, Kept, Keeping
  <2>4. \A t \in Tokens : Registered(t) => Valid(t)'
    <3> SUFFICES ASSUME NEW t \in Tokens, Registered(t)
                 PROVE  Valid(t)'
      OBVIOUS
    <3>1. CASE t = tok[th]
      BY <2>1, <3>1 DEF Valid, Kept, Keeping
    <3>2. CASE t # tok[th]
      BY <2>1, <3>2 DEF Valid, Kept, Registered
    <3> QED BY <3>1, <3>2
  <2> QED BY <1>5, <2>1, <2>2, <2>4 DEF Keeping
<1>12. CASE RemoveBound(th)
  <2>1. bound' = [bound EXCEPT ![tok[th]] = None]
    BY <1>12 DEF RemoveBound
  <2>2. CASE bound[tok[th]] = None
    <3>1. bound' = bound
      BY <2>1, <2>2 DEF TypeOK
    <3> QED BY <1>1, <1>11, <1>12, <3>1
  <2>3. CASE bound[tok[th]] # None
    <3>1. Promised!StopUse(tok[th])
      BY <1>1, <1>11, <1>12, <2>1, <2>3 DEF Promised!StopUse, Valids
    <3> QED BY <1>2, <3>1 DEF Promised!Next
  <2> QED BY <2>2, <2>3
<1>13. CASE RemoveUnbound(th)
  BY <1>1, <1>11, <1>13 DEF RemoveUnbound
<1>14. CASE Unmap(th)
  <2>1. UNCHANGED <<unbound, bound, tok>> /\ pc'[th] = After(th)
    BY <1>14 DEF Unmap, Goto, TypeOK
  <2>2. After(th) \in Keeping
    BY DEF After, Keeping
  <2> QED BY <1>7, <2>1, <2>2
<1> QED BY <1>8, <1>9, <1>10, <1>12, <1>13, <1>14 DEF UnregisterStep

\* A handler's step begins a use, or lets go of a token that another thread took from
\* it.
LEMMA HandlerPromise ==
    ASSUME IInv, TokenNotLost, TokenNotLost', NEW c \in Channels, BindStep(c) \/ CloseStep(c)
    PROVE  [Promised!Next]_<<tokens, owner, Valids, bound>>
<1> USE NoneAssumption DEF IInv
<1>0. \A o \in Threads \ {c} : pc'[o] = pc[o] /\ tok'[o] = tok[o]
  BY OwnLocals DEF HandlerStep
<1>1. UNCHANGED <<tokens, owner>>
  BY DEF BindStep, CloseStep, GetPlayer, TakeToken, PutBound, MapChannel, ChannelInactive,
     LookBound, UnboundToken, RegisterToken
<1>2. pc[c] \in Binding \cup Closing \cup {"register"} => tok[c] \in Tokens
  BY DEF HandlerLocals, TypeOK
<1>3. pc[c] \in {"put", "register"} => plr[c] \in Persons /\ plr[c] \in {Nobody, owner[tok[c]]}
  BY DEF HandlerLocals, TypeOK
\* The token it had and the token it has are valid before and after, and what is
\* registered is valid.
<1>4. ASSUME \A t \in Tokens : InHand(c, t)' => Valid(t),
             \A t \in Tokens : InHand(c, t) => Valid(t)',
             \A t \in Tokens : Registered(t)' => Valid(t),
             \A t \in Tokens : Registered(t) => Valid(t)'
      PROVE  Valids' = Valids
  <2>1. ASSUME NEW t \in Tokens
        PROVE  Valid(t)' <=> Valid(t)
    BY <1>0, <1>4, ValidByOthers
  <2> QED BY <2>1, SameValid
<1>5. UNCHANGED <<unbound, bound>> => /\ \A t \in Tokens : Registered(t)' => Valid(t)
                                      /\ \A t \in Tokens : Registered(t) => Valid(t)'
  BY DEF Registered, Valid, Kept
<1>6. \A t \in Tokens : InHand(c, t) => Valid(t)
  BY ValidMeans
<1>7. \A t \in Tokens : InHand(c, t)' => Valid(t)'
  BY DEF InHand, Valid, Kept
<1>8. ASSUME UNCHANGED <<unbound, bound, tok>>,
             pc[c] \in Binding, pc'[c] \in Binding
      PROVE  Valids' = Valids
  <2>1. \A t \in Tokens : InHand(c, t) <=> tok[c] = t
    BY <1>8 DEF InHand, Working
  <2>2. \A t \in Tokens : InHand(c, t)' <=> tok[c] = t
    BY <1>8 DEF InHand, Working
  <2> QED BY <1>4, <1>5, <1>6, <1>7, <1>8, <2>1, <2>2
<1>9. ASSUME UNCHANGED <<unbound, bound>>,
             pc[c] \notin Keeping \cup Working, pc'[c] \notin Keeping \cup Working
      PROVE  Valids' = Valids
  <2>1. \A t \in Tokens : ~InHand(c, t) /\ ~InHand(c, t)'
    BY <1>9 DEF InHand
  <2> QED BY <1>4, <1>5, <1>9, <2>1
<1>10. CASE GetPlayer(c)
  <2>1. UNCHANGED <<unbound, bound, tok>> /\ pc[c] = "get" /\ pc'[c] = "take"
    BY <1>10 DEF GetPlayer, Goto, TypeOK
  <2> QED BY <1>1, <1>8, <2>1
<1>11. CASE TakeToken(c)
  <2>1. /\ UNCHANGED <<bound, tok>> /\ pc[c] = "take" /\ pc'[c] = "put"
        /\ tok[c] \in Tokens
        /\ \A t \in Tokens \ {tok[c]} : unbound'[t] = unbound[t]
        /\ unbound'[tok[c]] = None
    BY <1>2, <1>11 DEF TakeToken, Goto, TypeOK
  <2>2. \A t \in Tokens : InHand(c, t) <=> tok[c] = t
    BY <2>1 DEF InHand, Working
  <2>3. \A t \in Tokens : InHand(c, t)' <=> tok[c] = t
    BY <2>1 DEF InHand, Working
  <2>4. \A t \in Tokens : Registered(t)' => Registered(t)
    BY <2>1 DEF Registered
  <2>5. \A t \in Tokens : Registered(t) /\ t # tok[c] => Registered(t)'
    BY <2>1 DEF Registered
  <2>6. \A t \in Tokens : (Registered(t) => Valid(t)) /\ (Registered(t)' => Valid(t)')
    BY DEF Valid, Kept
  <2>7. Valids' = Valids
    BY <1>4, <1>6, <1>7, <2>2, <2>3, <2>4, <2>5, <2>6
  <2> QED BY <1>1, <2>1, <2>7
<1>12. CASE PutBound(c)
  <2> DEFINE entry == [player |-> plr[c], channel |-> c]
  <2>1. /\ UNCHANGED <<unbound, tok>> /\ pc[c] = "put" /\ pc'[c] = "map"
        /\ bound' = [bound EXCEPT ![tok[c]] = entry]
        /\ tok[c] \in Tokens
    BY <1>2, <1>12 DEF PutBound, Goto, TypeOK
  <2>2. entry \in BoundTokens
    BY <1>3, <2>1
  <2>3. \A t \in Tokens \ {tok[c]} : bound'[t] = bound[t]
    BY <2>1 DEF TypeOK
  <2>4. \A t \in Tokens : InHand(c, t) <=> tok[c] = t
    BY <2>1 DEF InHand, Working
  <2>5. \A t \in Tokens : InHand(c, t)' <=> tok[c] = t
    BY <2>1 DEF InHand, Working
  <2>6. \A t \in Tokens : t # tok[c] => (Registered(t) <=> Registered(t)')
    BY <2>1, <2>3 DEF Registered
  <2>7. \A t \in Tokens : (Registered(t) => Valid(t)) /\ (Registered(t)' => Valid(t)')
    BY DEF Valid, Kept
  <2>8. Valids' = Valids
    BY <1>4, <1>6, <1>7, <2>4, <2>5, <2>6, <2>7
  <2>9. tok[c] \in Valids /\ plr[c] \in {owner[tok[c]], Nobody}
    BY <1>3, <1>6, <2>1, <2>4 DEF Valids
  <2>10. Promised!Use(tok[c], c)
    BY <1>1, <2>1, <2>8, <2>9 DEF Promised!Use, Valids
  <2> QED BY <2>1, <2>10 DEF Promised!Next
<1>13. CASE MapChannel(c)
  <2>1. "idle" \notin Keeping \cup Working
    BY DEF Keeping, Working
  <2> QED BY <1>1, <1>2, <1>13, <2>1, LetGo DEF MapChannel
<1>14. CASE ChannelInactive(c)
  <2>1. /\ UNCHANGED <<unbound, bound>>
        /\ pc[c] \notin Keeping \cup Working /\ pc'[c] \notin Keeping \cup Working
    BY <1>14 DEF ChannelInactive, Goto, TypeOK, Keeping, Working
  <2> QED BY <1>1, <1>9, <2>1
<1>15. CASE LookBound(c)
  <2>1. /\ UNCHANGED <<unbound, bound>>
        /\ pc[c] \notin Keeping \cup Working /\ pc'[c] \notin Keeping \cup Working
    BY <1>15 DEF LookBound, Goto, Fail, End, TypeOK, Keeping, Working
  <2> QED BY <1>1, <1>9, <2>1
<1>16. CASE UnboundToken(c)
  <2>0. UNCHANGED <<unbound, bound>> /\ pc[c] = "unbind" /\ tok[c] \in Tokens
    BY <1>2, <1>16 DEF UnboundToken
  <2>1. CASE End(c, "closed")
    <3>1. pc[c] \notin Keeping \cup Working /\ pc'[c] \notin Keeping \cup Working
      BY <2>0, <2>1 DEF End, TypeOK, Keeping, Working
    <3> QED BY <1>1, <1>9, <2>0, <3>1
  <2>2. CASE bound[tok[c]] # None /\ Goto(c, "unbind", "contains") /\ UNCHANGED tok
    <3>1. \A t \in Tokens : ~InHand(c, t)
      BY <2>0 DEF InHand, Keeping, Working
    <3>2. \A t \in Tokens : InHand(c, t)' => Valid(t)
      BY <2>2 DEF InHand, Valid, Kept, Registered
    <3>3. Valids' = Valids
      BY <1>4, <1>5, <2>0, <3>1, <3>2
    <3> QED BY <1>1, <2>0, <3>3
  <2> QED BY <1>16, <2>1, <2>2 DEF UnboundToken
<1>17. CASE RegisterToken(c)
  <2>1. /\ UNCHANGED bound /\ pc[c] = "register" /\ pc'[c] = "closed"
        /\ unbound' = [unbound EXCEPT ![tok[c]] = plr[c]]
        /\ tok[c] \in Tokens
    BY <1>2, <1>17 DEF RegisterToken, End, TypeOK
  <2>2. /\ unbound'[tok[c]] # None
        /\ \A t \in Tokens \ {tok[c]} : unbound'[t] = unbound[t]
    BY <1>3, <2>1 DEF TypeOK
  <2>3. \A t \in Tokens : InHand(c, t) <=> tok[c] = t
    BY <2>1 DEF InHand, Working
  <2>4. \A t \in Tokens : ~InHand(c, t)'
    BY <2>1 DEF InHand, Keeping, Working
  <2>5. \A t \in Tokens : t # tok[c] => (Registered(t) <=> Registered(t)')
    BY <2>1, <2>2 DEF Registered
  <2>6. \A t \in Tokens : (Registered(t) => Valid(t)) /\ (Registered(t)' => Valid(t)')
    BY DEF Valid, Kept
  <2>7. \A t \in Tokens : tok[c] = t => Registered(t)'
    BY <2>1, <2>2 DEF Registered
  <2>8. Valids' = Valids
    BY <1>4, <1>6, <2>3, <2>4, <2>5, <2>6, <2>7
  <2> QED BY <1>1, <2>1, <2>8
<1> QED BY <1>10, <1>11, <1>12, <1>13, <1>14, <1>15, <1>16, <1>17 DEF BindStep, CloseStep

\* A command that takes its player's token ends it at its last step, unless a
\* connection has it registered or in hand then.
LEMMA CommandEnds ==
    ASSUME IInv, NEW p \in Players, p = plr[Main], pc[Main] \in {"draw", "forget"},
           NEW S, S \in SUBSET Valids,
           \A t \in Valids : t # tok[Main] => t \in S,
           \A t \in Valids : Registered(t) => t \in S
    PROVE  S \in Promised!Rest(p)
<1> USE NoneAssumption DEF IInv
<1>1. CASE \E u \in Valids : u \notin S
  <2>1. PICK u \in Valids : u = tok[Main] /\ u \notin S
    BY <1>1
  <2>2. tokens[p] = u /\ u \in Tokens
    BY <2>1 DEF MainLocals, Valids
  <2>3. bound[u] = None
    BY <2>1 DEF Registered
  <2>4. S = Valids \ {u}
    BY <2>1
  <2> QED BY <2>2, <2>3, <2>4 DEF Promised!Rest, Valids
<1>2. CASE ~ \E u \in Valids : u \notin S
  <2>1. S = Valids
    BY <1>2
  <2> QED BY <2>1 DEF Promised!Rest, Valids
<1> QED BY <1>1, <1>2

\* The commands of the main thread give a token, take it back or forget them all.
LEMMA MainPromise ==
    ASSUME IInv, DrawToken \/ ForgetPlayer
    PROVE  Promised!Next
<1> USE NoneAssumption DEF IInv
<1>1. /\ pc[Main] \in {"draw", "forget"} /\ pc'[Main] = "idle"
      /\ \A o \in Threads \ {Main} : pc'[o] = pc[o] /\ tok'[o] = tok[o]
      /\ UNCHANGED bound
      /\ plr[Main] \in Players
  BY DEF DrawToken, ForgetPlayer, End, TypeOK, MainLocals
<1>2. \A t : ~InHand(Main, t)'
  BY <1>1 DEF InHand, Keeping
<1>3. ASSUME NEW t, Registered(t)' <=> Registered(t)
      PROVE  /\ Valid(t)' => Valid(t)
             /\ t # tok[Main] => (Valid(t) => Valid(t)')
             /\ Registered(t) => Valid(t)'
  <2>1. Registered(t) => Valid(t)'
    BY <1>3 DEF Valid, Kept
  <2>2. Registered(t)' => Valid(t)
    BY <1>3 DEF Valid, Kept
  <2>3. t # tok[Main] => ~InHand(Main, t)
    BY DEF InHand
  <2> QED BY <1>1, <1>2, <2>1, <2>2, <2>3, ValidByOthers
<1>4. CASE DrawToken
  <2>1. PICK t \in Tokens :
           /\ owner[t] = None
           /\ unbound' = [unbound EXCEPT ![t] = plr[Main]]
           /\ tokens' = [tokens EXCEPT ![plr[Main]] = t]
           /\ owner' = [owner EXCEPT ![t] = plr[Main]]
    BY <1>4 DEF DrawToken
  <2>2. ASSUME NEW u \in Tokens \ {t}
        PROVE  Registered(u)' <=> Registered(u)
    BY <1>1, <2>1 DEF Registered, TypeOK
  <2>3. Registered(t)' /\ Valid(t)'
    BY <1>1, <2>1 DEF Registered, TypeOK, Valid, Kept
  <2> DEFINE rest == {u \in Valids : u # t => Valid(u)'}
  <2>4. Valids' = rest \cup {t}
    BY <1>3, <2>2, <2>3 DEF Valids
  <2>5. rest \in Promised!Rest(plr[Main])
    <3>1. \A u \in Valids : u # tok[Main] => u \in rest
      BY <1>3, <2>2 DEF Valids
    <3>2. \A u \in Valids : Registered(u) => u \in rest
      BY <1>3, <2>2 DEF Valids
    <3> HIDE DEF rest
    <3>3. rest \in SUBSET Valids
      BY DEF rest
    <3> QED BY <1>1, <3>1, <3>2, <3>3, CommandEnds
  <2> HIDE DEF rest
  <2>6. Promised!Give(plr[Main], t)
    BY <1>1, <2>1, <2>4, <2>5 DEF Promised!Give, Valids
  <2> QED BY <1>1, <2>6 DEF Promised!Next
<1>5. CASE ForgetPlayer
  <2>1. /\ tokens' = [tokens EXCEPT ![plr[Main]] = None]
        /\ UNCHANGED <<unbound, owner>>
    BY <1>5 DEF ForgetPlayer
  <2>2. ASSUME NEW u \in Tokens
        PROVE  Registered(u)' <=> Registered(u)
    BY <1>1, <2>1 DEF Registered
  <2>3. Valids' \in Promised!Rest(plr[Main])
    <3>1. Valids' \in SUBSET Valids
      BY <1>3, <2>2 DEF Valids
    <3>2. \A u \in Valids : u # tok[Main] => u \in Valids'
      BY <1>3, <2>2 DEF Valids
    <3>3. \A u \in Valids : Registered(u) => u \in Valids'
      BY <1>3, <2>2 DEF Valids
    <3> QED BY <1>1, <3>1, <3>2, <3>3, CommandEnds
  <2>4. tokens[plr[Main]] # None
    BY <1>5 DEF ForgetPlayer, MainLocals
  <2>5. Promised!TakeBack(plr[Main])
    BY <1>1, <2>1, <2>3, <2>4 DEF Promised!TakeBack, Valids
  <2> QED BY <1>1, <2>5 DEF Promised!Next
<1> QED BY <1>4, <1>5

\* Every step of the registry is a step of the promise, or none.
LEMMA PromiseStep ==
    ASSUME IInv, TokenNotLost, TokenNotLost', [Next]_vars
    PROVE  [Promised!Next]_<<tokens, owner, Valids, bound>>
<1> USE NoneAssumption DEF IInv
<1>1. ASSUME NEW th \in Threads, UNCHANGED <<unbound, bound, tokens, owner>>,
             \A o \in Threads \ {th} : pc'[o] = pc[o] /\ tok'[o] = tok[o],
             \A t \in Tokens : ~InHand(th, t),
             \A t \in Tokens : InHand(th, t)' => Valid(t)
      PROVE  UNCHANGED <<tokens, owner, Valids, bound>>
  <2>1. ASSUME NEW t \in Tokens
        PROVE  Valid(t)' <=> Valid(t)
    <3>1. (Registered(t)' => Valid(t)) /\ (Registered(t) => Valid(t)')
      BY <1>1 DEF Registered, Valid, Kept
    <3> QED BY <1>1, <3>1, ValidByOthers
  <2> QED BY <1>1, <2>1, SameValid
<1>2. ASSUME NEW p \in Players, FirstToken(p) \/ ResetToken(p) \/ PlayerLeave(p)
      PROVE  UNCHANGED <<tokens, owner, Valids, bound>>
  <2>1. /\ UNCHANGED <<unbound, bound, tokens, owner>>
        /\ \A o \in Threads \ {Main} : pc'[o] = pc[o] /\ tok'[o] = tok[o]
        /\ pc[Main] = "idle"
        /\ pc'[Main] = "contains" \/ (pc'[Main] = "draw" /\ tok'[Main] = None)
    BY <1>2 DEF FirstToken, ResetToken, PlayerLeave, Serve, Goto, TypeOK
  <2>2. \A t \in Tokens : ~InHand(Main, t) /\ ~InHand(Main, t)'
    BY <2>1 DEF InHand, Keeping
  <2> QED BY <1>1, <2>1, <2>2
<1>3. CASE LoadComputers
  <2>1. Valids' = Valids
    BY <1>3 DEF LoadComputers, Valids, Valid, Kept, Registered
  <2> QED BY <1>3, <2>1 DEF LoadComputers, Promised!Next, Promised!Forget, Valids
<1>4. CASE MainStep
  BY <1>4, UnregisterPromise, MainPromise DEF MainStep
<1>5. ASSUME NEW c \in Channels, DropChannel(c)
      PROVE  UNCHANGED <<tokens, owner, Valids, bound>>
  BY <1>5 DEF DropChannel, Valids, Valid, Kept, Registered
<1>6. ASSUME NEW c \in Channels, NEW u \in Tokens, ConnectPacket(c, u)
      PROVE  UNCHANGED <<tokens, owner, Valids, bound>>
  <2>1. /\ UNCHANGED <<unbound, bound, tokens, owner>>
        /\ \A o \in Threads \ {c} : pc'[o] = pc[o] /\ tok'[o] = tok[o]
        /\ pc[c] = "idle"
        /\ \/ pc'[c] = "idle"
           \/ tok'[c] = u /\ unbound[u] # None
    BY <1>6 DEF ConnectPacket, Goto, TypeOK
  <2>2. \A t \in Tokens : ~InHand(c, t)
    BY <2>1 DEF InHand, Keeping, Working
  <2>3. \A t \in Tokens : InHand(c, t)' => Valid(t)
    BY <2>1 DEF InHand, Keeping, Working, Valid, Kept, Registered
  <2> QED BY <1>1, <2>1, <2>2, <2>3
<1>7. ASSUME NEW c \in Channels, HandlerStep(c)
      PROVE  [Promised!Next]_<<tokens, owner, Valids, bound>>
  BY <1>7, UnregisterPromise, HandlerPromise DEF HandlerStep
<1>8. CASE UNCHANGED vars
  BY <1>8 DEF vars, Valids, Valid, Kept, Registered
<1> QED
  BY <1>2, <1>3, <1>4, <1>5, <1>6, <1>7, <1>8 DEF Next

\* However main thread and connections interleave, Server implements TokenRegistry:
\* clients act for the owners of valid tokens or for nobody, and a token a player has
\* never ends (unregisterToken, unboundToken, bindToken).
THEOREM KeepsPromise == Spec => RegistryPromise
<1>1. Init => Promised!Init
  <2>1. Init => Valids = {}
    BY NoneAssumption DEF Init, Valids, Valid, Kept, Registered
  <2> QED BY <2>1 DEF Init, Promised!Init, Valids
<1>2. IInv /\ TokenNotLost /\ TokenNotLost' /\ [Next]_vars
          => [Promised!Next]_<<tokens, owner, Valids, bound>>
  BY PromiseStep
<1> QED BY <1>1, <1>2, InvAlways, NotLost, PTL DEF Spec, RegistryPromise, Promised!Spec, Valids
=============================================================================
