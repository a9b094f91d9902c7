--------------------------- MODULE Capture_proofs ---------------------------
(***************************************************************************)
(* Proofs about Capture, for any players, computers and spots.             *)
(***************************************************************************)
EXTENDS Capture, TLAPS

\* The part of TypeOK on what the capture operations write.
Maps ==
    /\ targets \in [Computers -> Objects \cup {None}]
    /\ locked \in [Objects -> Computers \cup {None}]
    /\ slots \in [Objects -> Items \cup {None}]
    /\ drop \in [Objects -> Nat]
    /\ inv \in [Objects -> Items]
    /\ riding \subseteq Players
    /\ mounting \subseteq Players
    /\ mislaid \subseteq Players

\* None is neither a computer nor a Player object.
LEMMA NoneApart == None \notin Computers /\ None \notin Objects /\ None \notin Items /\ None \notin Players
BY NoneAssumption, RecordAssumption

\* Every player has a Player object.
LEMMA ObjectTyped ==
    ASSUME TypeOK, NEW p \in Players
    PROVE  Object(p) \in Objects
BY DEF TypeOK, Object, Objects

\* Whoever is locked to a computer can be ended there.
LEMMA LockedHasTarget ==
    ASSUME TypeOK, LockedIsTarget, NEW o \in Objects, locked[o] # None
    PROVE  locked[o] \in Computers /\ targets[locked[o]] = o
BY DEF TypeOK, LockedIsTarget

\* The end of a capture (forceStopCapture and the dismount that it may cause)
\* leaves the maps in agreement.
LEMMA FreeKeeps ==
    ASSUME Maps, LockedIsTarget, NEW c \in Computers, targets[c] # None,
           NEW ejects \in BOOLEAN, Free(c, ejects)
    PROVE  /\ targets' \in [Computers -> Objects \cup {None}]
           /\ locked' \in [Objects -> Computers \cup {None}]
           /\ slots' \in [Objects -> Items \cup {None}]
           /\ drop' \in [Objects -> Nat]
           /\ LockedIsTarget'
<1> DEFINE o == targets[c]
<1>o. o \in Objects
  BY DEF Maps
<1>1. targets' \in [Computers -> Objects \cup {None}]
  BY DEF Free, Maps
<1>2. locked' \in [Objects -> Computers \cup {None}]
  BY <1>o DEF Free, Maps
<1>3. slots' \in [Objects -> Items \cup {None}]
  BY <1>o DEF Free, Maps
<1>4. drop' \in [Objects -> Nat]
  <2>1. PICK t \in {1, 2} : drop' = [drop EXCEPT ![o] = IF @ > t THEN @ - t ELSE 0]
    BY DEF Free
  <2>2. drop[o] \in Nat
    BY <1>o DEF Maps
  <2>3. (IF drop[o] > t THEN drop[o] - t ELSE 0) \in Nat
    BY <2>1, <2>2
  <2> QED  BY <1>o, <2>1, <2>3 DEF Maps
<1>5. LockedIsTarget'
  <2> SUFFICES ASSUME NEW q \in Objects, locked'[q] # None
               PROVE  targets'[locked'[q]] = q
    BY DEF LockedIsTarget
  <2>1. q # o /\ locked'[q] = locked[q]
    BY <1>o DEF Free, Maps
  <2>2. locked[q] \in Computers /\ targets[locked[q]] = q
    BY <2>1 DEF LockedIsTarget, Maps
  <2>3. locked[q] # c
    BY <2>1, <2>2
  <2>4. \A d \in Ended(c, ejects) : d = c \/ (d = locked[o] /\ ejects)
    BY DEF Ended
  <2>5. locked[o] # None => targets[locked[o]] = o
    BY <1>o DEF LockedIsTarget
  <2>6. locked[q] \notin Ended(c, ejects)
    BY <2>1, <2>2, <2>3, <2>4, <2>5, NoneApart
  <2> QED  BY <2>1, <2>2, <2>6 DEF Free, Maps
<1> QED  BY <1>1, <1>2, <1>3, <1>4, <1>5

\* What is given back are items.
LEMMA GivenBackTyped ==
    ASSUME Maps, NEW o \in Objects
    PROVE  GivenBack(o) \in [Objects -> Items]
BY DEF Maps, GivenBack

LEMMA ForceStopKeeps ==
    ASSUME Maps, LockedIsTarget, NEW c \in Computers, ForceStopCapture(c)
    PROVE  Maps' /\ LockedIsTarget'
<1>1. targets[c] # None /\ targets[c] \in Objects /\ Free(c, Ejects(c))
      /\ inv' = GivenBack(targets[c])
  BY DEF ForceStopCapture, EndCapture, Maps
<1>2. Ejects(c) \in BOOLEAN
  BY DEF Ejects
<1>3. riding' \subseteq Players /\ mounting' \subseteq Players /\ mislaid' \subseteq Players
  BY DEF ForceStopCapture, Maps
<1> QED  BY <1>1, <1>2, <1>3, FreeKeeps, GivenBackTyped DEF Maps

LEMMA StopKeeps ==
    ASSUME Maps, LockedIsTarget, NEW c \in Computers, NEW o, StopCapture(c, o)
    PROVE  Maps' /\ LockedIsTarget'
<1>1. CASE ForceStopCapture(c)
  BY <1>1, ForceStopKeeps
<1>2. CASE UNCHANGED capture
  BY <1>2 DEF capture, Maps, LockedIsTarget
<1> QED  BY <1>1, <1>2 DEF StopCapture

LEMMA StartKeeps ==
    ASSUME Maps, LockedIsTarget, NEW c \in Computers, NEW o \in Objects,
           NEW withSlots \in BOOLEAN, StartCapture(c, o, withSlots)
    PROVE  Maps' /\ LockedIsTarget'
<1>n. o.name \in Players
  BY DEF Objects
<1>1. Maps'
  <2>1. /\ targets' \in [Computers -> Objects \cup {None}]
        /\ locked' \in [Objects -> Computers \cup {None}]
    BY DEF StartCapture, Maps
  <2>2. /\ slots' \in [Objects -> Items \cup {None}]
        /\ inv' \in [Objects -> Items]
        /\ drop' \in [Objects -> Nat]
    BY DEF StartCapture, Maps, Items
  <2>3. riding' \subseteq Players /\ mounting' \subseteq Players /\ mislaid' \subseteq Players
    BY <1>n DEF StartCapture, Maps
  <2> QED  BY <2>1, <2>2, <2>3 DEF Maps
<1>2. LockedIsTarget'
  <2> SUFFICES ASSUME NEW q \in Objects, locked'[q] # None
               PROVE  targets'[locked'[q]] = q
    BY DEF LockedIsTarget
  <2>1. CASE q = o
    BY <2>1 DEF StartCapture, Maps
  <2>2. CASE q # o
    <3>1. locked'[q] = locked[q] /\ targets[locked[q]] = q
      BY <2>2 DEF StartCapture, Maps, LockedIsTarget
    <3>2. locked[q] # c
      BY <3>1, NoneApart DEF StartCapture
    <3> QED  BY <3>1, <3>2 DEF StartCapture, Maps
  <2> QED  BY <2>1, <2>2
<1> QED  BY <1>1, <1>2

LEMMA ReactionKeeps ==
    ASSUME Maps, LockedIsTarget, NEW i \in Inputs, NEW closing \in BOOLEAN,
           Reaction(i, closing)
    PROVE  Maps' /\ LockedIsTarget'
<1>0. i.computer \in Computers /\ i.player \in Objects
  BY DEF Inputs
<1>1. CASE UNCHANGED capture
  BY <1>1 DEF capture, Maps, LockedIsTarget
<1>2. CASE \E withSlots \in BOOLEAN : StartCapture(i.computer, i.player, withSlots)
  BY <1>0, <1>2, StartKeeps
<1>3. CASE StopCapture(i.computer, i.player)
  BY <1>0, <1>3, StopKeeps
<1>4. CASE ForceStopCapture(i.computer)
  BY <1>0, <1>4, ForceStopKeeps
<1> QED  BY <1>1, <1>2, <1>3, <1>4 DEF Reaction

\* The handler of a dismount.
LEMMA DismountedKeeps ==
    ASSUME TypeOK, LockedIsTarget, NEW p \in Players, Dismounted(Object(p)),
           riding' \subseteq Players, mounting' \subseteq Players, mislaid' \subseteq Players
    PROVE  Maps' /\ LockedIsTarget'
<1> DEFINE o == Object(p)
<1>m. Maps /\ o \in Objects
  BY ObjectTyped DEF TypeOK, Maps
<1>1. CASE locked[o] # None /\ EndCapture(locked[o], FALSE)
  <2>1. locked[o] \in Computers /\ targets[locked[o]] = o
    BY <1>1, <1>m, LockedHasTarget
  <2>2. Free(locked[o], FALSE) /\ inv' = GivenBack(o) /\ targets[locked[o]] # None
    BY <1>1, <1>m, <2>1, NoneApart DEF EndCapture
  <2> HIDE DEF o
  <2> QED  BY <1>m, <2>1, <2>2, FreeKeeps, GivenBackTyped DEF Maps
<1>2. CASE UNCHANGED hold
  BY <1>m, <1>2 DEF hold, Maps, LockedIsTarget
<1> QED  BY <1>1, <1>2 DEF Dismounted

-----------------------------------------------------------------------------
(* The queue and the sessions.                                             *)

\* The part of TypeOK on what the capture operations leave alone.
Rest ==
    /\ unhandled \subseteq Inputs
    /\ main \in Computers \cup Players \cup {None}
    /\ handled \subseteq unhandled
    /\ handled # {} => main \in Computers
    /\ executors \in [Computers -> Objects \cup {None}]
    /\ toRestore \in [Players -> Items \cup {None}]
    /\ session \in [Players -> 1 .. MaxSessions]
    /\ online \subseteq Players
    /\ registered \subseteq Computers

LEMMA TypeParts == TypeOK <=> Maps /\ Rest
BY DEF TypeOK, Maps, Rest

\* What IInv says of the queue.
QueueInv == Rest /\ ExecutorWillReturn /\ HandledHere /\ LeavingInBound

LEMMA InvParts == IInv <=> Maps /\ LockedIsTarget /\ QueueInv
BY TypeParts DEF IInv, QueueInv

\* An action that leaves the queue alone leaves what IInv says of it.
LEMMA QueueKept ==
    ASSUME QueueInv, UNCHANGED <<queue, executors, players, registered>>,
           toRestore' \in [Players -> Items \cup {None}]
    PROVE  QueueInv'
BY DEF QueueInv, Rest, ExecutorWillReturn, HandledHere, LeavingInBound, queue, players

LEMMA NoneIsNobody == None \notin Computers \cup Players /\ Players \cap Computers = {}
BY NoneAssumption

\* The end of a tick takes the touches of its computer out of the queue; its
\* computer has no executor then, and the others lose no touch.
LEMMA TouchKeepsQueue ==
    ASSUME IInv, NEW i \in unhandled, NEW closing \in BOOLEAN, Touch(i, closing)
    PROVE  QueueInv'
<1>0. /\ i \in Inputs
      /\ i.computer \in Computers
      /\ QueueInv
      /\ UNCHANGED <<toRestore, session, online, registered>>
  BY InvParts DEF QueueInv, Rest, Inputs, Touch, players
<1>1. \A j \in handled \cup {i} : j.computer = i.computer
  <2>1. CASE handled = {}
    BY <2>1
  <2>2. CASE handled # {}
    <3>1. main \in Computers
      BY <1>0, <2>2 DEF QueueInv, Rest
    <3>2. main = i.computer
      BY <3>1, NoneIsNobody DEF Touch, Turn
    <3> QED  BY <1>0, <3>2 DEF QueueInv, HandledHere
  <2> QED  BY <2>1, <2>2
<1>2. /\ executors' \in [Computers -> Objects \cup {None}]
      /\ executors'[i.computer] = None
      /\ \A c \in Computers : c # i.computer => executors'[c] = executors[c]
  BY <1>0 DEF Touch, QueueInv, Rest
<1>3. \A j \in unhandled : j.computer # i.computer => j \in unhandled'
  BY <1>1 DEF Touch, EndTick
<1>4. Rest' /\ HandledHere' /\ LeavingInBound'
  <2>1. CASE /\ main' = i.computer
             /\ handled' = handled \cup {i}
             /\ UNCHANGED unhandled
    BY <1>0, <1>1, <1>2, <2>1, NoneIsNobody DEF QueueInv, Rest, HandledHere, LeavingInBound
  <2>2. CASE EndTick(i)
    BY <1>0, <1>2, <2>2, NoneIsNobody
       DEF EndTick, QueueInv, Rest, HandledHere, LeavingInBound
  <2> QED  BY <2>1, <2>2 DEF Touch
<1>5. ExecutorWillReturn'
  <2> SUFFICES ASSUME NEW c \in registered', executors'[c] # None
               PROVE  \E j \in unhandled' : j.computer = c /\ j.player = executors'[c]
    BY DEF ExecutorWillReturn
  <2>1. c \in registered /\ c \in Computers /\ c # i.computer
    BY <1>0, <1>2 DEF QueueInv, Rest
  <2>2. PICK j \in unhandled : j.computer = c /\ j.player = executors[c]
    BY <1>0, <1>2, <2>1 DEF QueueInv, ExecutorWillReturn
  <2> QED  BY <1>2, <1>3, <2>1, <2>2
<1> QED  BY <1>4, <1>5 DEF QueueInv

\* A failed touch leaves its player as the executor, and itself in the queue.
LEMMA FailureKeepsQueue ==
    ASSUME IInv, NEW i \in unhandled, NEW closing \in BOOLEAN, TouchFails(i, closing)
    PROVE  QueueInv'
<1>0. /\ i.computer \in Computers
      /\ i.player \in Objects
      /\ QueueInv
      /\ UNCHANGED <<unhandled, toRestore, session, online, registered>>
      /\ main' = None
      /\ handled' = {}
      /\ executors' = [executors EXCEPT ![i.computer] = i.player]
  BY InvParts DEF QueueInv, Rest, Inputs, TouchFails, players
<1>1. Rest' /\ HandledHere' /\ LeavingInBound'
  BY <1>0, NoneIsNobody DEF QueueInv, Rest, HandledHere, LeavingInBound
<1>2. ExecutorWillReturn'
  BY <1>0 DEF QueueInv, Rest, ExecutorWillReturn
<1> QED  BY <1>1, <1>2 DEF QueueInv

LEMMA InvRestored ==
    ASSUME Maps', LockedIsTarget', QueueInv'
    PROVE  IInv'
BY DEF IInv, TypeOK, Maps, Rest, QueueInv

LEMMA InitIInv == Init => IInv
<1> SUFFICES ASSUME Init PROVE IInv
  OBVIOUS
<1>1. TypeOK
  BY NoneAssumption DEF Init, TypeOK, Items
<1>2. LockedIsTarget /\ ExecutorWillReturn /\ HandledHere
  BY DEF Init, LockedIsTarget, ExecutorWillReturn, HandledHere
<1>3. LeavingInBound
  BY NoneIsNobody DEF Init, LeavingInBound
<1> QED  BY <1>1, <1>2, <1>3 DEF IInv

LEMMA NextIInv == IInv /\ [Next]_vars => IInv'
<1> SUFFICES ASSUME IInv, [Next]_vars PROVE IInv'
  OBVIOUS
<1>0. TypeOK /\ Maps /\ LockedIsTarget /\ QueueInv
  BY InvParts DEF IInv
<1>1. ASSUME NEW p \in Players, NEW c \in Computers, NEW spot \in Spots, Click(p, c, spot)
      PROVE  IInv'
  <2>1. Maps' /\ LockedIsTarget'
    BY <1>0, <1>1 DEF Click, capture, Maps, LockedIsTarget
  <2>2. [computer |-> c, player |-> Object(p), spot |-> spot] \in Inputs
    BY <1>0, ObjectTyped DEF Inputs
  <2>3. QueueInv'
    BY <1>0, <1>1, <2>2
       DEF Click, players, QueueInv, Rest, ExecutorWillReturn, HandledHere, LeavingInBound
  <2> QED  BY <2>1, <2>3, InvRestored
<1>2. ASSUME NEW i \in unhandled, NEW closing \in BOOLEAN, Touch(i, closing) PROVE IInv'
  <2>1. i \in Inputs /\ Reaction(i, closing)
    BY <1>0, <1>2 DEF Touch, QueueInv, Rest
  <2>2. Maps' /\ LockedIsTarget'
    BY <1>0, <2>1, ReactionKeeps
  <2>3. QueueInv'
    BY <1>2, TouchKeepsQueue
  <2> QED  BY <2>2, <2>3, InvRestored
<1>3. ASSUME NEW i \in unhandled, NEW closing \in BOOLEAN, TouchFails(i, closing)
      PROVE  IInv'
  <2>1. i \in Inputs /\ Reaction(i, closing)
    BY <1>0, <1>3 DEF TouchFails, QueueInv, Rest
  <2>2. Maps' /\ LockedIsTarget'
    BY <1>0, <2>1, ReactionKeeps
  <2>3. QueueInv'
    BY <1>3, FailureKeepsQueue
  <2> QED  BY <2>2, <2>3, InvRestored
<1>4. ASSUME NEW p \in Players, Release(p) PROVE IInv'
  <2>1. locked[Object(p)] \in Computers
    BY <1>0, <1>4, ObjectTyped, LockedHasTarget DEF Release
  <2>2. QueueInv'
    BY <1>0, <1>4, QueueKept DEF Release, QueueInv, Rest
  <2> QED  BY <1>0, <1>4, <2>1, <2>2, ForceStopKeeps, InvRestored DEF Release
<1>5. ASSUME NEW p \in Players, Dismount(p) PROVE IInv'
  <2>1. Maps' /\ LockedIsTarget'
    BY <1>0, <1>5, DismountedKeeps DEF Dismount, Maps
  <2>2. QueueInv'
    BY <1>0, <1>5, QueueKept DEF Dismount, QueueInv, Rest
  <2> QED  BY <2>1, <2>2, InvRestored
<1>6. ASSUME NEW p \in Players, Mount(p) PROVE IInv'
  <2>1. riding' \subseteq Players /\ mounting' \subseteq Players /\ mislaid' \subseteq Players
    BY <1>0, <1>6 DEF Mount, Maps
  <2>2. Maps' /\ LockedIsTarget'
    <3>1. CASE Dismounted(Object(p))
      BY <1>0, <2>1, <3>1, DismountedKeeps
    <3>2. CASE UNCHANGED hold
      BY <1>0, <2>1, <3>2 DEF hold, Maps, LockedIsTarget
    <3> QED  BY <1>6, <3>1, <3>2 DEF Mount
  <2>3. QueueInv'
    BY <1>0, <1>6, QueueKept DEF Mount, QueueInv, Rest
  <2> QED  BY <2>2, <2>3, InvRestored
<1>7. ASSUME NEW p \in Players, PlayerLeave(p) PROVE IInv'
  <2>0. Object(p) \in Objects
    BY <1>0, ObjectTyped
  <2>1. Maps' /\ LockedIsTarget'
    <3>1. CASE UNCHANGED capture
      BY <1>0, <3>1 DEF capture, Maps, LockedIsTarget
    <3>2. CASE locked[Object(p)] # None
               /\ StopCapture(locked[Object(p)], executors[locked[Object(p)]])
      BY <1>0, <2>0, <3>2, LockedHasTarget, StopKeeps
    <3> QED  BY <1>7, <3>1, <3>2 DEF PlayerLeave
  <2>2. toRestore' \in [Players -> Items \cup {None}]
    BY <1>0, <1>7, <2>0 DEF PlayerLeave, QueueInv, Rest, Maps
  <2>3. handled = {}
    BY <1>0, <1>7, NoneIsNobody DEF PlayerLeave, QueueInv, Rest
  <2>4. QueueInv'
    BY <1>0, <1>7, <2>2, <2>3
       DEF PlayerLeave, players, QueueInv, Rest, ExecutorWillReturn, HandledHere, LeavingInBound
  <2> QED  BY <2>1, <2>4, InvRestored
<1>8. ASSUME NEW p \in Players, EndSession(p) PROVE IInv'
  <2> DEFINE o == Object(p)
             next == [o EXCEPT !.session = @ + 1]
  <2>0. o \in Objects
    BY <1>0, ObjectTyped
  <2>1. session[p] \in 1 .. MaxSessions /\ session[p] < MaxSessions /\ MaxSessions \in Nat
    BY <1>0, <1>8, NoneAssumption DEF EndSession, QueueInv, Rest, LeavingInBound
  <2>2. session[p] + 1 \in 1 .. MaxSessions
    BY <2>1
  <2>3. next \in Objects
    BY <2>0, <2>2 DEF Objects, Object
  <2>4. riding' \subseteq Players /\ mounting' \subseteq Players /\ mislaid' \subseteq Players
    BY <1>0, <1>8 DEF EndSession, Maps
  <2>5. Maps' /\ LockedIsTarget'
    <3>1. CASE locked[o] # None /\ Free(locked[o], FALSE)
               /\ inv' = [GivenBack(o) EXCEPT ![next] = inv[o]]
      <4>1. locked[o] \in Computers /\ targets[locked[o]] # None
        BY <1>0, <2>0, <3>1, LockedHasTarget, NoneApart
      <4>2. inv' \in [Objects -> Items]
        <5> HIDE DEF o, next
        <5>1. GivenBack(o) \in [Objects -> Items] /\ inv[o] \in Items
          BY <1>0, <2>0, GivenBackTyped DEF Maps
        <5> QED  BY <2>3, <3>1, <5>1
      <4> HIDE DEF o, next
      <4> QED  BY <1>0, <2>4, <3>1, <4>1, <4>2, FreeKeeps DEF Maps
    <3>2. CASE inv' = [inv EXCEPT ![next] = inv[o]]
               /\ UNCHANGED <<targets, locked, slots, drop>>
      <4> HIDE DEF o, next
      <4> QED  BY <1>0, <2>0, <2>3, <2>4, <3>2 DEF Maps, LockedIsTarget
    <3> QED  BY <1>8, <3>1, <3>2 DEF EndSession
  <2>6. QueueInv'
    BY <1>0, <1>8, <2>2, NoneIsNobody
       DEF EndSession, QueueInv, Rest, ExecutorWillReturn, HandledHere, LeavingInBound
  <2> QED  BY <2>5, <2>6, InvRestored
<1>9. ASSUME NEW p \in Players, PlayerJoin(p) PROVE IInv'
  <2>0. Object(p) \in Objects
    BY <1>0, ObjectTyped
  <2>1. Maps' /\ LockedIsTarget'
    BY <1>0, <1>9, <2>0 DEF PlayerJoin, QueueInv, Rest, Maps, LockedIsTarget
  <2>2. QueueInv'
    BY <1>0, <1>9
       DEF PlayerJoin, queue, QueueInv, Rest, ExecutorWillReturn, HandledHere, LeavingInBound
  <2> QED  BY <2>1, <2>2, InvRestored
<1>10. ASSUME NEW c \in Computers, RemoveComputer(c) PROVE IInv'
  <2>1. Maps' /\ LockedIsTarget'
    BY <1>0, <1>10, StopKeeps DEF RemoveComputer
  <2>2. handled = {}
    BY <1>0, <1>10, NoneIsNobody DEF RemoveComputer, QueueInv, Rest
  <2>3. QueueInv'
    BY <1>0, <1>10, <2>2, NoneIsNobody
       DEF RemoveComputer, players, QueueInv, Rest, ExecutorWillReturn, HandledHere, LeavingInBound
  <2> QED  BY <2>1, <2>3, InvRestored
<1>11. CASE Reload
  <2>1. Maps' /\ LockedIsTarget'
    BY <1>0, <1>11 DEF Reload, Maps, LockedIsTarget
  <2>2. handled = {}
    BY <1>0, <1>11, NoneIsNobody DEF Reload, QueueInv, Rest
  <2>3. QueueInv'
    BY <1>0, <1>11, <2>2
       DEF Reload, players, QueueInv, Rest, ExecutorWillReturn, HandledHere, LeavingInBound
  <2> QED  BY <2>1, <2>3, InvRestored
<1>12. CASE UNCHANGED vars
  <2>1. Maps' /\ LockedIsTarget' /\ QueueInv'
    BY <1>0, <1>12
       DEF vars, Maps, LockedIsTarget, QueueInv, Rest, ExecutorWillReturn, HandledHere,
           LeavingInBound
  <2> QED  BY <2>1, InvRestored
<1> QED  BY <1>1, <1>2, <1>3, <1>4, <1>5, <1>6, <1>7, <1>8, <1>9, <1>10, <1>11, <1>12 DEF Next

-----------------------------------------------------------------------------
(* The items.                                                              *)

\* What the end of a capture does to the Player object it captured.
Released(o) ==
    /\ locked' = [locked EXCEPT ![o] = None]
    /\ slots' = [slots EXCEPT ![o] = None]
    /\ inv' = GivenBack(o)
    /\ drop[o] <= 1 => drop'[o] = 0
    /\ \A q \in Objects : q # o => drop'[q] = drop[q]

LEMMA FreeReleases ==
    ASSUME Maps, NEW c \in Computers, targets[c] # None, NEW ejects \in BOOLEAN,
           Free(c, ejects), inv' = GivenBack(targets[c])
    PROVE  targets[c] \in Objects /\ Released(targets[c])
<1> DEFINE o == targets[c]
<1>1. o \in Objects
  BY DEF Maps
<1>2. PICK t \in {1, 2} : drop' = [drop EXCEPT ![o] = IF @ > t THEN @ - t ELSE 0]
  BY DEF Free
<1>3. drop[o] \in Nat
  BY <1>1 DEF Maps
<1>4. drop[o] <= 1 => drop'[o] = 0
  BY <1>1, <1>2, <1>3 DEF Maps
<1>5. \A q \in Objects : q # o => drop'[q] = drop[q]
  BY <1>2 DEF Maps
<1> QED  BY <1>1, <1>4, <1>5 DEF Free, Released

LEMMA ForceStopReleases ==
    ASSUME Maps, NEW c \in Computers, ForceStopCapture(c)
    PROVE  targets[c] \in Objects /\ Released(targets[c]) /\ mislaid' = mislaid
<1>1. Ejects(c) \in BOOLEAN
  BY DEF Ejects
<1> QED  BY <1>1, FreeReleases DEF ForceStopCapture, EndCapture

\* What the steps have in common that only start or end captures.
Context ==
    /\ UNCHANGED <<session, online, toRestore>>
    /\ unhandled' \subseteq unhandled
    /\ \A p \in Players : main' = p <=> main = p

\* An object that is not born is not released; a born one has its items back.
LEMMA ReleasedKeepsItems ==
    ASSUME TypeOK, ItemsInv, Context, NEW o \in Objects, Released(o), mislaid' = mislaid
    PROVE  ItemsInv'
<1>1. UnbornUnknown'
  <2>1. \A q \in Objects : Unborn(q)' <=> Unborn(q)
    BY DEF Context, Unborn
  <2>2. \A q \in Objects : Unborn(q) => locked'[q] = None /\ slots'[q] = None /\ drop'[q] = 0
    BY DEF ItemsInv, UnbornUnknown, Released, TypeOK
  <2>3. \A i \in unhandled' : i.player \in Objects /\ ~Unborn(i.player)
    BY DEF Context, ItemsInv, UnbornUnknown, TypeOK, Inputs
  <2> QED  BY <2>1, <2>2, <2>3 DEF UnbornUnknown
<1>2. SlotsLocked'
  BY DEF SlotsLocked, Released, ItemsInv, TypeOK
<1>3. ASSUME NEW p \in Players \ mislaid PROVE OwnItems(p)'
  <2>1. OwnItems(p) /\ Object(p)' = Object(p) /\ Object(p) \in Objects
    BY ObjectTyped DEF ItemsInv, Object, Context
  <2>2. CASE Object(p) = o
    <3>1. drop[o] <= 1
      BY <2>1, <2>2 DEF OwnItems
    <3>2. /\ slots'[o] = None
          /\ drop'[o] = 0
          /\ inv'[o] = IF slots[o] # None THEN slots[o] ELSE inv[o]
      BY <3>1 DEF Released, GivenBack, TypeOK
    <3> QED  BY <2>1, <2>2, <3>2 DEF OwnItems, Context
  <2>3. CASE Object(p) # o
    <3>1. /\ slots'[Object(p)] = slots[Object(p)]
          /\ drop'[Object(p)] = drop[Object(p)]
          /\ inv'[Object(p)] = inv[Object(p)]
      BY <2>1, <2>3 DEF Released, GivenBack, TypeOK
    <3> QED  BY <2>1, <3>1 DEF OwnItems, Context
  <2> QED  BY <2>2, <2>3
<1>4. (main \in Players => main \in online)'
  BY DEF ItemsInv, Context
<1> QED  BY <1>1, <1>2, <1>3, <1>4 DEF ItemsInv

LEMMA HoldKeepsItems ==
    ASSUME TypeOK, ItemsInv, Context, UNCHANGED <<locked, slots, drop, inv, mislaid>>
    PROVE  ItemsInv'
<1>1. UnbornUnknown'
  BY DEF Context, ItemsInv, UnbornUnknown, Unborn
<1>2. SlotsLocked'
  BY DEF SlotsLocked, ItemsInv
<1>3. ASSUME NEW p \in Players \ mislaid PROVE OwnItems(p)'
  BY DEF ItemsInv, OwnItems, Object, Context
<1>4. (main \in Players => main \in online)'
  BY DEF ItemsInv, Context
<1> QED  BY <1>1, <1>2, <1>3, <1>4 DEF ItemsInv

\* A capture of a player who is not captured saves her own items.
LEMMA StartKeepsItems ==
    ASSUME TypeOK, ItemsInv, Context, NEW c \in Computers, NEW o \in Objects, ~Unborn(o),
           main \notin Players, NEW withSlots \in BOOLEAN, StartCapture(c, o, withSlots)
    PROVE  ItemsInv'
<1>0. /\ locked' = [locked EXCEPT ![o] = c]
      /\ c # None
  BY NoneApart DEF StartCapture
<1>1. UnbornUnknown'
  <2>1. \A q \in Objects : Unborn(q)' <=> Unborn(q)
    BY DEF Context, Unborn
  <2>2. \A q \in Objects : Unborn(q) => locked'[q] = None /\ slots'[q] = None /\ drop'[q] = 0
    BY <1>0 DEF ItemsInv, UnbornUnknown, StartCapture, TypeOK
  <2>3. \A i \in unhandled' : i.player \in Objects /\ ~Unborn(i.player)
    BY DEF Context, ItemsInv, UnbornUnknown, TypeOK, Inputs
  <2> QED  BY <2>1, <2>2, <2>3 DEF UnbornUnknown
<1>2. SlotsLocked'
  BY <1>0 DEF SlotsLocked, StartCapture, ItemsInv, TypeOK
<1>3. ASSUME NEW p \in Players \ mislaid' PROVE OwnItems(p)'
  <2>0. p \notin mislaid
    BY DEF StartCapture
  <2>1. OwnItems(p) /\ Object(p)' = Object(p) /\ Object(p) \in Objects
    BY <2>0, ObjectTyped DEF ItemsInv, Object, Context
  <2>2. CASE Object(p) = o
    <3>1. p \in online /\ main # p /\ o.name = p
      BY <2>2 DEF Unborn, Object
    <3>2. locked[o] = None
      BY <2>2, <3>1 DEF StartCapture
    <3>3. slots[o] = None /\ drop[o] = 0 /\ inv[o] = "own"
      BY <2>1, <2>2, <3>1, <3>2, NoneApart DEF ItemsInv, SlotsLocked, OwnItems, Items
    <3>4. \/ slots'[o] = "own" /\ drop'[o] = 1
          \/ slots'[o] = None /\ drop'[o] = 0 /\ inv'[o] = "own"
      BY <3>3 DEF StartCapture, TypeOK
    <3> QED  BY <2>1, <2>2, <3>1, <3>4, NoneApart DEF OwnItems, Context, Items
  <2>3. CASE Object(p) # o
    <3>1. /\ slots'[Object(p)] = slots[Object(p)]
          /\ drop'[Object(p)] = drop[Object(p)]
          /\ inv'[Object(p)] = inv[Object(p)]
      BY <2>1, <2>3 DEF StartCapture, TypeOK
    <3> QED  BY <2>1, <3>1 DEF OwnItems, Context
  <2> QED  BY <2>2, <2>3
<1>4. (main \in Players => main \in online)'
  BY DEF ItemsInv, Context
<1> QED  BY <1>1, <1>2, <1>3, <1>4 DEF ItemsInv

LEMMA StopKeepsItems ==
    ASSUME TypeOK, ItemsInv, Context, NEW c \in Computers, NEW o, StopCapture(c, o)
    PROVE  ItemsInv'
<1>1. CASE ForceStopCapture(c)
  BY <1>1, TypeParts, ForceStopReleases, ReleasedKeepsItems
<1>2. CASE UNCHANGED capture
  BY <1>2, HoldKeepsItems DEF capture
<1> QED  BY <1>1, <1>2 DEF StopCapture

LEMMA ReactionKeepsItems ==
    ASSUME TypeOK, ItemsInv, Context, NEW i \in unhandled, main \notin Players,
           NEW closing \in BOOLEAN, Reaction(i, closing)
    PROVE  ItemsInv'
<1>0. i.computer \in Computers /\ i.player \in Objects /\ ~Unborn(i.player)
  BY DEF TypeOK, Inputs, ItemsInv, UnbornUnknown
<1>1. CASE UNCHANGED capture
  BY <1>1, HoldKeepsItems DEF capture
<1>2. CASE \E withSlots \in BOOLEAN : StartCapture(i.computer, i.player, withSlots)
  BY <1>0, <1>2, StartKeepsItems
<1>3. CASE StopCapture(i.computer, i.player)
  BY <1>0, <1>3, StopKeepsItems
<1>4. CASE ForceStopCapture(i.computer)
  BY <1>0, <1>4, TypeParts, ForceStopReleases, ReleasedKeepsItems
<1> QED  BY <1>1, <1>2, <1>3, <1>4 DEF Reaction

LEMMA DismountedKeepsItems ==
    ASSUME TypeOK, LockedIsTarget, ItemsInv, Context, NEW p \in Players,
           Dismounted(Object(p)), mislaid' = mislaid
    PROVE  ItemsInv'
<1> DEFINE o == Object(p)
<1>0. o \in Objects
  BY ObjectTyped
<1>1. CASE locked[o] # None /\ EndCapture(locked[o], FALSE)
  <2>1. locked[o] \in Computers /\ targets[locked[o]] = o
    BY <1>0, <1>1, LockedHasTarget
  <2>2. Free(locked[o], FALSE) /\ inv' = GivenBack(o) /\ targets[locked[o]] # None
    BY <1>0, <1>1, <2>1, NoneApart DEF EndCapture
  <2> HIDE DEF o
  <2>3. Released(o)
    BY <2>1, <2>2, TypeParts, FreeReleases
  <2> QED  BY <1>0, <2>3, ReleasedKeepsItems
<1>2. CASE UNCHANGED hold
  BY <1>2, HoldKeepsItems DEF hold
<1> QED  BY <1>1, <1>2 DEF Dismounted

LEMMA InitItems == Init => ItemsInv
<1> SUFFICES ASSUME Init PROVE ItemsInv
  OBVIOUS
<1>1. UnbornUnknown /\ SlotsLocked
  BY DEF Init, UnbornUnknown, SlotsLocked
<1>2. ASSUME NEW p \in Players PROVE OwnItems(p)
  <2>1. Object(p) \in Objects
    BY NoneAssumption DEF Init, Object, Objects
  <2> QED  BY <2>1, NoneApart DEF Init, OwnItems
<1>3. main \notin Players
  BY NoneApart DEF Init
<1> QED  BY <1>1, <1>2, <1>3 DEF ItemsInv

\* A leaving player's saved items are kept by name, whether or not her capture is
\* stopped as well.
LEMMA LeaveKeepsItems ==
    ASSUME TypeOK, LockedIsTarget, ItemsInv, NEW p \in Players, PlayerLeave(p)
    PROVE  ItemsInv'
<1> DEFINE o == Object(p)
<1>0. o \in Objects
  BY ObjectTyped
<1>1. UNCHANGED hold \/ Released(o)
  <2>1. CASE UNCHANGED capture
    BY <2>1 DEF capture, hold
  <2>2. CASE locked[o] # None /\ ForceStopCapture(locked[o])
    <3>1. locked[o] \in Computers /\ targets[locked[o]] = o
      BY <1>0, <2>2, LockedHasTarget
    <3> HIDE DEF o
    <3> QED  BY <2>2, <3>1, TypeParts, ForceStopReleases
  <2> QED  BY <2>1, <2>2 DEF PlayerLeave, StopCapture
<1>2. /\ UNCHANGED <<unhandled, session, online, mislaid>>
      /\ main = None
      /\ main' = p
      /\ p \in online
      /\ toRestore' = IF slots[o] # None THEN [toRestore EXCEPT ![p] = slots[o]] ELSE toRestore
  BY DEF PlayerLeave, StopCapture, ForceStopCapture, capture, players
<1>3. \A q \in Objects : q # o => /\ locked'[q] = locked[q]
                                  /\ slots'[q] = slots[q]
                                  /\ drop'[q] = drop[q]
                                  /\ inv'[q] = inv[q]
  BY <1>1 DEF hold, Released, GivenBack, TypeOK
<1>4. ~Unborn(o)
  BY <1>2, NoneAssumption DEF Unborn, Object, TypeOK
<1>5. UnbornUnknown'
  <2>1. \A q \in Objects : Unborn(q)' <=> Unborn(q)
    BY <1>2 DEF Unborn
  <2>2. \A q \in Objects : Unborn(q) => locked'[q] = None /\ slots'[q] = None /\ drop'[q] = 0
    BY <1>3, <1>4 DEF ItemsInv, UnbornUnknown
  <2>3. \A i \in unhandled' : i.player \in Objects /\ ~Unborn(i.player)
    BY <1>2 DEF ItemsInv, UnbornUnknown, TypeOK, Inputs
  <2> QED  BY <2>1, <2>2, <2>3 DEF UnbornUnknown
<1>6. SlotsLocked'
  BY <1>1, <1>0 DEF SlotsLocked, Released, hold, ItemsInv, TypeOK
<1>7. ASSUME NEW q \in Players \ mislaid PROVE OwnItems(q)'
  <2>1. OwnItems(q) /\ Object(q)' = Object(q) /\ Object(q) \in Objects
    BY <1>2, ObjectTyped DEF ItemsInv, Object
  <2>2. CASE q = p
    <3>1. /\ slots[o] \in {None, "own"}
          /\ toRestore[p] = None
          /\ "own" \in {inv[o], slots[o]}
          /\ drop[o] = IF slots[o] # None THEN 1 ELSE 0
      BY <1>2, <2>1, <2>2, NoneApart DEF OwnItems
    <3>2. toRestore'[p] = slots[o]
      BY <1>2, <3>1 DEF TypeOK
    <3>3. /\ slots'[o] \in {None, "own"}
          /\ drop'[o] = IF slots'[o] # None THEN 1 ELSE 0
          /\ "own" \in {inv'[o], slots[o]}
      <4>1. CASE Released(o)
        <5>1. slots'[o] = None /\ drop'[o] = 0
          BY <1>0, <3>1, <4>1 DEF Released, TypeOK
        <5>2. inv'[o] = IF slots[o] # None THEN slots[o] ELSE inv[o]
          BY <1>0, <4>1 DEF Released, GivenBack, TypeOK
        <5> QED  BY <3>1, <5>1, <5>2
      <4>2. CASE UNCHANGED hold
        BY <3>1, <4>2 DEF hold
      <4> QED  BY <1>1, <4>1, <4>2
    <3> HIDE DEF o
    <3>4. Object(p)' = o
      BY <2>1, <2>2 DEF o
    <3> QED  BY <1>2, <2>2, <3>1, <3>2, <3>3, <3>4 DEF OwnItems
  <2>3. CASE q # p
    <3>1. Object(q) # o /\ toRestore'[q] = toRestore[q]
      BY <1>2, <2>3 DEF Object, TypeOK
    <3>2. main' # q /\ main # q
      BY <1>2, <2>3, NoneApart
    <3> QED  BY <1>2, <1>3, <2>1, <3>1, <3>2 DEF OwnItems
  <2> QED  BY <2>2, <2>3
<1> QED  BY <1>2, <1>5, <1>6, <1>7 DEF ItemsInv

\* The object of the next session gets what the game saved; the old one is not
\* looked at any more.
LEMMA EndKeepsItems ==
    ASSUME IInv, ItemsInv, NEW p \in Players, EndSession(p)
    PROVE  ItemsInv'
<1> DEFINE o == Object(p)
           next == [o EXCEPT !.session = @ + 1]
<1>a. TypeOK /\ LockedIsTarget /\ LeavingInBound /\ Maps
  BY TypeParts DEF IInv
<1>0. o \in Objects /\ o = [name |-> p, session |-> session[p]]
  BY <1>a, ObjectTyped DEF Object
<1>1. session[p] \in Nat /\ session[p] + 1 \in 1 .. MaxSessions /\ main = p /\ p \in online
  BY <1>a, NoneAssumption DEF EndSession, LeavingInBound, TypeOK, ItemsInv
<1>2. next = [name |-> p, session |-> session[p] + 1] /\ next \in Objects /\ next # o
  BY <1>0, <1>1 DEF Objects
<1>3. /\ session' = [session EXCEPT ![p] = @ + 1]
      /\ online' = online \ {p}
      /\ main' = None
      /\ UNCHANGED <<unhandled, toRestore, mislaid>>
  BY DEF EndSession
<1>4. /\ \A q \in Objects : q # o => /\ locked'[q] = locked[q]
                                     /\ slots'[q] = slots[q]
                                     /\ drop'[q] = drop[q]
      /\ \A q \in Objects : q # o /\ q # next => inv'[q] = inv[q]
      /\ slots'[o] # None => locked'[o] # None
      /\ inv'[next] = inv[o]
  <2> HIDE DEF o, next
  <2>1. CASE locked[o] # None /\ Free(locked[o], FALSE)
             /\ inv' = [GivenBack(o) EXCEPT ![next] = inv[o]]
    <3>1. locked[o] \in Computers /\ targets[locked[o]] = o
      BY <1>a, <1>0, <2>1, LockedHasTarget
    <3>2. GivenBack(o) \in [Objects -> Items]
      BY <1>a, <1>0, GivenBackTyped
    <3>3. \A q \in Objects : q # o => GivenBack(o)[q] = inv[q]
      BY <1>a DEF GivenBack, Maps
    <3>4. \A q \in Objects : q # o /\ q # next => inv'[q] = inv[q]
      BY <2>1, <3>2, <3>3
    <3>5. inv'[next] = inv[o]
      BY <1>2, <2>1, <3>2
    <3>6. \A q \in Objects : q # o => /\ locked'[q] = locked[q]
                                      /\ slots'[q] = slots[q]
                                      /\ drop'[q] = drop[q]
      BY <1>a, <2>1, <3>1 DEF Free, Maps
    <3>7. slots'[o] = None
      BY <1>a, <1>0, <2>1, <3>1 DEF Free, Maps
    <3> QED  BY <3>4, <3>5, <3>6, <3>7
  <2>2. CASE inv' = [inv EXCEPT ![next] = inv[o]]
             /\ UNCHANGED <<targets, locked, slots, drop>>
    BY <1>a, <1>0, <1>2, <2>2 DEF Maps, ItemsInv, SlotsLocked
  <2> QED  BY <2>1, <2>2 DEF EndSession, o, next
<1>5. \A q \in Objects : Unborn(q)' => Unborn(q) /\ q # o
  <2> SUFFICES ASSUME NEW q \in Objects, Unborn(q)' PROVE Unborn(q) /\ q # o
    OBVIOUS
  <2>1. q.name \in Players /\ q.session \in Nat
    BY NoneAssumption DEF Objects
  <2>2. CASE q.name = p
    <3>1. session'[p] = session[p] + 1
      BY <1>a, <1>3 DEF TypeOK
    <3>2. q.session > session[p]
      BY <1>1, <2>1, <2>2, <3>1 DEF Unborn
    <3>3. q.session # o.session
      BY <1>0, <1>1, <2>1, <3>2
    <3> QED  BY <2>2, <3>2, <3>3 DEF Unborn
  <2>3. CASE q.name # p
    <3>1. session'[q.name] = session[q.name] /\ (q.name \in online' <=> q.name \in online)
      BY <1>a, <1>3, <2>1, <2>3 DEF TypeOK
    <3> QED  BY <1>0, <2>3, <3>1 DEF Unborn
  <2> QED  BY <2>2, <2>3
<1>6. UnbornUnknown'
  <2>1. \A q \in Objects : Unborn(q)' => locked'[q] = None /\ slots'[q] = None /\ drop'[q] = 0
    BY <1>4, <1>5 DEF ItemsInv, UnbornUnknown
  <2>2. \A i \in unhandled' : ~Unborn(i.player)'
    BY <1>a, <1>3, <1>5 DEF ItemsInv, UnbornUnknown, TypeOK, Inputs
  <2> QED  BY <2>1, <2>2 DEF UnbornUnknown
<1>7. SlotsLocked'
  BY <1>0, <1>4 DEF SlotsLocked, ItemsInv
<1>8. ASSUME NEW q \in Players \ mislaid PROVE OwnItems(q)'
  <2>1. OwnItems(q)
    BY DEF ItemsInv
  <2>2. CASE q = p
    <3>1. Object(p)' = next
      BY <1>a, <1>2, <1>3 DEF Object, TypeOK
    <3>2. Unborn(next)
      BY <1>1, <1>2 DEF Unborn
    <3>3. slots'[next] = None /\ drop'[next] = 0
      BY <1>2, <1>4, <3>2 DEF ItemsInv, UnbornUnknown
    <3>4. toRestore[p] \in {None, "own"} /\ "own" \in {inv[o], toRestore[p]}
      BY <1>1, <2>1, <2>2 DEF OwnItems
    <3> HIDE DEF o, next
    <3> QED  BY <1>3, <1>4, <2>2, <3>1, <3>3, <3>4 DEF OwnItems
  <2>3. CASE q # p
    <3>1. Object(q)' = Object(q) /\ Object(q) \in Objects /\ Object(q) # o /\ Object(q) # next
      BY <1>a, <1>0, <1>2, <1>3, <2>3, ObjectTyped DEF Object, TypeOK
    <3>2. main # q /\ main' # q /\ (q \in online' <=> q \in online)
      BY <1>1, <1>3, <2>3, NoneApart
    <3> HIDE DEF o, next
    <3> QED  BY <1>3, <1>4, <2>1, <3>1, <3>2 DEF OwnItems
  <2> QED  BY <2>2, <2>3
<1> QED  BY <1>3, <1>6, <1>7, <1>8, NoneApart DEF ItemsInv

\* A returning player gets what was saved by name.
LEMMA JoinKeepsItems ==
    ASSUME TypeOK, ItemsInv, NEW p \in Players, PlayerJoin(p)
    PROVE  ItemsInv'
<1> DEFINE o == Object(p)
<1>0. o \in Objects /\ Unborn(o)
  BY ObjectTyped DEF Unborn, PlayerJoin, Object
<1>1. /\ UNCHANGED <<unhandled, main, locked, slots, drop, session, mislaid>>
      /\ main = None
      /\ p \notin online
      /\ online' = online \cup {p}
      /\ toRestore' = [toRestore EXCEPT ![p] = None]
      /\ inv' = IF toRestore[p] # None THEN [inv EXCEPT ![o] = toRestore[p]] ELSE inv
  BY DEF PlayerJoin, queue
<1>2. UnbornUnknown'
  BY <1>1 DEF ItemsInv, UnbornUnknown, Unborn
<1>3. SlotsLocked'
  BY <1>1 DEF ItemsInv, SlotsLocked
<1>4. ASSUME NEW q \in Players \ mislaid PROVE OwnItems(q)'
  <2>1. OwnItems(q) /\ Object(q)' = Object(q) /\ Object(q) \in Objects
    BY <1>1, ObjectTyped DEF ItemsInv, Object
  <2>2. CASE q = p
    <3>1. slots[o] = None /\ drop[o] = 0
      BY <1>0 DEF ItemsInv, UnbornUnknown
    <3>2. toRestore[p] \in {None, "own"} /\ "own" \in {inv[o], toRestore[p]}
      BY <1>1, <2>1, <2>2 DEF OwnItems
    <3>3. inv'[o] = "own"
      BY <1>0, <1>1, <3>2, NoneApart DEF TypeOK, Items
    <3>4. toRestore'[p] = None
      BY <1>1 DEF TypeOK
    <3> HIDE DEF o
    <3>5. Object(p)' = o
      BY <2>1, <2>2 DEF o
    <3> QED  BY <1>1, <2>2, <3>1, <3>3, <3>4, <3>5 DEF OwnItems
  <2>3. CASE q # p
    <3>1. Object(q) # o /\ toRestore'[q] = toRestore[q]
      BY <1>1, <2>3 DEF Object, TypeOK
    <3>2. inv'[Object(q)] = inv[Object(q)]
      BY <1>1, <2>1, <3>1 DEF TypeOK
    <3> QED  BY <1>1, <2>1, <2>3, <3>1, <3>2 DEF OwnItems
  <2> QED  BY <2>2, <2>3
<1> QED  BY <1>1, <1>2, <1>3, <1>4, NoneApart DEF ItemsInv

LEMMA NextItems == IInv /\ ItemsInv /\ [Next]_vars => ItemsInv'
<1> SUFFICES ASSUME IInv, ItemsInv, [Next]_vars PROVE ItemsInv'
  OBVIOUS
<1>0. TypeOK /\ Maps /\ LockedIsTarget
  BY TypeParts DEF IInv
<1>1. ASSUME NEW p \in Players, NEW c \in Computers, NEW spot \in Spots, Click(p, c, spot)
      PROVE  ItemsInv'
  <2>0. /\ UNCHANGED <<main, locked, slots, drop, inv, mislaid, session, online, toRestore>>
        /\ p \in online
        /\ unhandled' = unhandled \cup
                           {[computer |-> c, player |-> Object(p), spot |-> spot]}
    BY <1>1 DEF Click, capture, players
  <2>1. ~Unborn(Object(p))
    BY <1>0, <2>0, NoneAssumption DEF Unborn, Object, TypeOK
  <2>2. UnbornUnknown'
    BY <2>0, <2>1 DEF ItemsInv, UnbornUnknown, Unborn
  <2>3. SlotsLocked' /\ (main \in Players => main \in online)'
    BY <2>0 DEF ItemsInv, SlotsLocked
  <2>4. \A q \in Players \ mislaid : OwnItems(q)'
    BY <2>0 DEF ItemsInv, OwnItems, Object
  <2> QED  BY <2>0, <2>2, <2>3, <2>4 DEF ItemsInv
<1>2. ASSUME NEW i \in unhandled, NEW closing \in BOOLEAN,
             Touch(i, closing) \/ TouchFails(i, closing)
      PROVE  ItemsInv'
  <2>1. i.computer \in Computers
    BY <1>0 DEF TypeOK, Inputs
  <2>2. main \notin Players /\ main' \notin Players
    BY <1>2, <2>1, NoneIsNobody DEF Touch, TouchFails, Turn, EndTick
  <2>3. Context
    BY <1>2, <2>2 DEF Touch, TouchFails, EndTick, players, Context
  <2> QED  BY <1>0, <1>2, <2>2, <2>3, ReactionKeepsItems DEF Touch, TouchFails
<1>3. ASSUME NEW p \in Players, Release(p) PROVE ItemsInv'
  <2>1. Context
    BY <1>3 DEF Release, queue, players, Context
  <2>2. locked[Object(p)] \in Computers
    BY <1>0, <1>3, ObjectTyped, LockedHasTarget DEF Release
  <2> QED  BY <1>0, <1>3, <2>1, <2>2, ForceStopReleases, ReleasedKeepsItems DEF Release
<1>4. ASSUME NEW p \in Players, Dismount(p) PROVE ItemsInv'
  <2>1. Context /\ mislaid' = mislaid
    BY <1>4 DEF Dismount, queue, players, Context
  <2> QED  BY <1>0, <1>4, <2>1, DismountedKeepsItems DEF Dismount
<1>5. ASSUME NEW p \in Players, Mount(p) PROVE ItemsInv'
  <2>1. Context /\ mislaid' = mislaid
    BY <1>5 DEF Mount, queue, players, Context
  <2>2. CASE Dismounted(Object(p))
    BY <1>0, <2>1, <2>2, DismountedKeepsItems
  <2>3. CASE UNCHANGED hold
    BY <1>0, <2>1, <2>3, HoldKeepsItems DEF hold
  <2> QED  BY <1>5, <2>2, <2>3 DEF Mount
<1>6. ASSUME NEW p \in Players, PlayerLeave(p) PROVE ItemsInv'
  BY <1>0, <1>6, LeaveKeepsItems
<1>7. ASSUME NEW p \in Players, EndSession(p) PROVE ItemsInv'
  BY <1>7, EndKeepsItems
<1>8. ASSUME NEW p \in Players, PlayerJoin(p) PROVE ItemsInv'
  BY <1>0, <1>8, JoinKeepsItems
<1>9. ASSUME NEW c \in Computers, RemoveComputer(c) PROVE ItemsInv'
  <2>1. Context
    BY <1>9 DEF RemoveComputer, players, Context
  <2> QED  BY <1>0, <1>9, <2>1, StopKeepsItems DEF RemoveComputer
<1>10. CASE Reload
  <2>0. /\ UNCHANGED <<main, inv, session, online>>
        /\ unhandled' = {}
        /\ locked' = [o \in Objects |-> None]
        /\ slots' = [o \in Objects |-> None]
        /\ drop' = [o \in Objects |-> 0]
        /\ toRestore' = [p \in Players |-> None]
        /\ mislaid' = mislaid \cup
                          {p \in Players : slots[Object(p)] # None \/ toRestore[p] # None}
    BY <1>10 DEF Reload, players
  <2>1. UnbornUnknown' /\ SlotsLocked' /\ (main \in Players => main \in online)'
    BY <2>0 DEF ItemsInv, UnbornUnknown, SlotsLocked
  <2>2. ASSUME NEW p \in Players \ mislaid' PROVE OwnItems(p)'
    <3>1. OwnItems(p) /\ slots[Object(p)] = None /\ toRestore[p] = None
      BY <2>0 DEF ItemsInv
    <3>2. inv[Object(p)] = "own"
      BY <3>1, NoneApart DEF OwnItems, Items
    <3>3. Object(p)' = Object(p) /\ Object(p) \in Objects
      BY <1>0, <2>0, ObjectTyped DEF Object
    <3> QED  BY <2>0, <3>2, <3>3 DEF OwnItems
  <2> QED  BY <2>1, <2>2 DEF ItemsInv
<1>11. CASE UNCHANGED vars
  <2>1. Context /\ UNCHANGED <<locked, slots, drop, inv, mislaid>>
    BY <1>11 DEF vars, Context
  <2> QED  BY <1>0, <2>1, HoldKeepsItems
<1> QED  BY <1>1, <1>2, <1>3, <1>4, <1>5, <1>6, <1>7, <1>8, <1>9, <1>10, <1>11 DEF Next

-----------------------------------------------------------------------------
(* Captures and locks agree both ways.                                     *)

LockedOnce ==
    \A p \in Players \ mislaid, c \in Computers :
        targets[c] = Object(p) => locked[Object(p)] = c

\* What the proof of CapturesAgree rests on.
OnceInv == TargetsBorn /\ LockedOnce

\* A capture of o ends, perhaps with others of o.
Loosened(o) ==
    /\ \E c \in Computers : targets[c] = o /\ targets'[c] = None
    /\ \A d \in Computers : targets'[d] \in {None, targets[d]}
    /\ locked' = [locked EXCEPT ![o] = None]

LEMMA FreeLoosens ==
    ASSUME Maps, NEW c \in Computers, targets[c] # None, NEW ejects \in BOOLEAN,
           Free(c, ejects)
    PROVE  Loosened(targets[c])
<1>1. targets'[c] = None
  BY DEF Free, Ended
<1>2. \A d \in Computers : targets'[d] \in {None, targets[d]}
  BY DEF Free, Maps
<1> QED  BY <1>1, <1>2 DEF Loosened, Free

\* Her only capture was the one she was locked to.
LEMMA LoosenedKeepsOnce ==
    ASSUME TypeOK, OnceInv, UNCHANGED <<session, online>>, mislaid \subseteq mislaid',
           NEW o \in Objects, Loosened(o)
    PROVE  OnceInv'
<1>1. TargetsBorn'
  BY DEF OnceInv, TargetsBorn, Loosened, Unborn, TypeOK
<1>2. ASSUME NEW p \in Players \ mislaid', NEW c \in Computers, targets'[c] = Object(p)'
      PROVE  locked'[Object(p)'] = c
  <2>1. Object(p)' = Object(p) /\ Object(p) \in Objects /\ p \notin mislaid
    BY ObjectTyped DEF Object
  <2>2. targets[c] = Object(p) /\ locked[Object(p)] = c
    BY <1>2, <2>1, NoneApart DEF Loosened, OnceInv, LockedOnce
  <2>3. Object(p) # o
    BY <1>2, <2>1, <2>2, NoneApart DEF Loosened, OnceInv, LockedOnce
  <2> QED  BY <2>1, <2>2, <2>3 DEF Loosened, TypeOK
<1> QED  BY <1>1, <1>2 DEF OnceInv, LockedOnce

\* Nothing is captured or freed; players may join.
LEMMA HeldKeepsOnce ==
    ASSUME TypeOK, OnceInv, UNCHANGED <<targets, locked, session>>,
           online \subseteq online', mislaid \subseteq mislaid'
    PROVE  OnceInv'
<1>1. TargetsBorn'
  BY DEF OnceInv, TargetsBorn, Unborn
<1>2. LockedOnce'
  BY DEF OnceInv, LockedOnce, Object
<1> QED  BY <1>1, <1>2 DEF OnceInv

\* Who is captured while another computer captures her is mislaid.
LEMMA StartKeepsOnce ==
    ASSUME TypeOK, OnceInv, UNCHANGED <<session, online>>, NEW c \in Computers,
           NEW o \in Objects, ~Unborn(o), NEW withSlots \in BOOLEAN,
           StartCapture(c, o, withSlots)
    PROVE  OnceInv'
<1>0. /\ targets' = [targets EXCEPT ![c] = o]
      /\ locked' = [locked EXCEPT ![o] = c]
      /\ mislaid \subseteq mislaid'
      /\ o = Object(o.name) /\ locked[o] # None => o.name \in mislaid'
  BY DEF StartCapture
<1>1. TargetsBorn'
  BY <1>0 DEF OnceInv, TargetsBorn, Unborn, TypeOK
<1>2. ASSUME NEW p \in Players \ mislaid', NEW d \in Computers, targets'[d] = Object(p)'
      PROVE  locked'[Object(p)'] = d
  <2>1. Object(p)' = Object(p) /\ Object(p) \in Objects /\ p \notin mislaid
    BY <1>0, ObjectTyped DEF Object
  <2>2. CASE Object(p) = o
    <3>1. o.name = p
      BY <2>2 DEF Object
    <3>2. locked[o] = None
      BY <1>0, <1>2, <2>2, <3>1
    <3>3. d = c
      BY <1>0, <1>2, <2>1, <2>2, <3>2, NoneApart DEF OnceInv, LockedOnce, TypeOK
    <3> QED  BY <1>0, <2>1, <2>2, <3>3 DEF TypeOK
  <2>3. CASE Object(p) # o
    <3>1. d # c
      BY <1>0, <1>2, <2>1, <2>3 DEF TypeOK
    <3>2. locked[Object(p)] = d
      BY <1>0, <1>2, <2>1, <3>1 DEF OnceInv, LockedOnce, TypeOK
    <3> QED  BY <1>0, <2>1, <2>3, <3>2 DEF TypeOK
  <2> QED  BY <2>2, <2>3
<1> QED  BY <1>1, <1>2 DEF OnceInv, LockedOnce

LEMMA ForceStopKeepsOnce ==
    ASSUME TypeOK, OnceInv, UNCHANGED <<session, online>>, NEW c \in Computers,
           ForceStopCapture(c)
    PROVE  OnceInv'
<1>1. targets[c] # None /\ targets[c] \in Objects /\ Free(c, Ejects(c)) /\ mislaid' = mislaid
  BY DEF ForceStopCapture, EndCapture, TypeOK
<1>2. Ejects(c) \in BOOLEAN
  BY DEF Ejects
<1>3. Loosened(targets[c])
  BY <1>1, <1>2, TypeParts, FreeLoosens
<1> QED  BY <1>1, <1>3, LoosenedKeepsOnce

LEMMA StopKeepsOnce ==
    ASSUME TypeOK, OnceInv, UNCHANGED <<session, online>>, NEW c \in Computers, NEW o,
           StopCapture(c, o)
    PROVE  OnceInv'
<1>1. CASE UNCHANGED capture
  BY <1>1, HeldKeepsOnce DEF capture
<1> QED  BY <1>1, ForceStopKeepsOnce DEF StopCapture

LEMMA DismountedKeepsOnce ==
    ASSUME TypeOK, LockedIsTarget, OnceInv, UNCHANGED <<session, online, mislaid>>,
           NEW p \in Players, Dismounted(Object(p))
    PROVE  OnceInv'
<1> DEFINE o == Object(p)
<1>0. o \in Objects
  BY ObjectTyped
<1>1. CASE locked[o] # None /\ EndCapture(locked[o], FALSE)
  <2>1. locked[o] \in Computers /\ targets[locked[o]] = o
    BY <1>0, <1>1, LockedHasTarget
  <2>2. Free(locked[o], FALSE) /\ targets[locked[o]] # None
    BY <1>0, <1>1, <2>1, NoneApart DEF EndCapture
  <2> HIDE DEF o
  <2>3. Loosened(o)
    BY <2>1, <2>2, TypeParts, FreeLoosens
  <2> QED  BY <1>0, <2>3, LoosenedKeepsOnce
<1>2. CASE UNCHANGED hold
  BY <1>2, HeldKeepsOnce DEF hold
<1> QED  BY <1>1, <1>2 DEF Dismounted

\* The object of the next session is captured by nobody.
LEMMA EndKeepsOnce ==
    ASSUME IInv, ItemsInv, OnceInv, NEW p \in Players, EndSession(p)
    PROVE  OnceInv'
<1> DEFINE o == Object(p)
<1>0. TypeOK /\ LockedIsTarget /\ LeavingInBound /\ Maps /\ o \in Objects
  BY TypeParts, ObjectTyped DEF IInv
<1>1. /\ main = p /\ p \in online
      /\ session[p] \in Nat /\ session'[p] = session[p] + 1 /\ session'[p] \in 1 .. MaxSessions
      /\ session' = [session EXCEPT ![p] = @ + 1]
      /\ online' = online \ {p}
      /\ UNCHANGED mislaid
  BY <1>0, NoneAssumption DEF EndSession, LeavingInBound, TypeOK, ItemsInv
<1>2. /\ \A d \in Computers : targets'[d] \in {None, targets[d]}
      /\ \A q \in Objects : q # o => locked'[q] = locked[q]
  <2>1. CASE locked[o] # None /\ Free(locked[o], FALSE)
    <3>1. locked[o] \in Computers /\ targets[locked[o]] = o /\ targets[locked[o]] # None
      BY <1>0, <2>1, LockedHasTarget, NoneApart
    <3> HIDE DEF o
    <3>2. Loosened(o)
      BY <1>0, <2>1, <3>1, FreeLoosens
    <3> QED  BY <1>0, <3>2 DEF Loosened, Maps
  <2>2. CASE UNCHANGED <<targets, locked>>
    BY <2>2
  <2> QED  BY <2>1, <2>2 DEF EndSession
<1>3. ASSUME NEW q \in Objects, Unborn(q)' PROVE Unborn(q)
  <2>1. q.name \in Players /\ q.session \in Nat
    BY NoneAssumption DEF Objects
  <2>2. CASE q.name = p
    BY <1>1, <1>3, <2>1, <2>2 DEF Unborn
  <2>3. CASE q.name # p
    BY <1>0, <1>1, <1>3, <2>1, <2>3 DEF Unborn, TypeOK
  <2> QED  BY <2>2, <2>3
<1>4. TargetsBorn'
  BY <1>0, <1>2, <1>3 DEF OnceInv, TargetsBorn, TypeOK
<1>5. ASSUME NEW q \in Players \ mislaid', NEW c \in Computers, targets'[c] = Object(q)'
      PROVE  locked'[Object(q)'] = c
  <2>1. CASE q = p
    <3>1. Object(p)' = [name |-> p, session |-> session'[p]] /\ Object(p)' \in Objects
      BY <1>1 DEF Object, Objects
    <3>2. Object(p)'.session = session'[p] /\ Object(p)'.name = p
      BY <3>1
    <3>3. Unborn(Object(p)')
      BY <1>1, <3>2 DEF Unborn
    <3>4. targets[c] = Object(p)'
      BY <1>2, <1>5, <2>1, <3>1, NoneApart
    <3> QED  BY <3>1, <3>3, <3>4, NoneApart DEF OnceInv, TargetsBorn
  <2>2. CASE q # p
    <3>1. Object(q)' = Object(q) /\ Object(q) \in Objects /\ Object(q) # o
      BY <1>0, <1>1, <2>2, ObjectTyped DEF Object, TypeOK
    <3> HIDE DEF o
    <3> QED  BY <1>1, <1>2, <1>5, <3>1, NoneApart DEF OnceInv, LockedOnce
  <2> QED  BY <2>1, <2>2
<1> QED  BY <1>4, <1>5 DEF OnceInv, LockedOnce

LEMMA InitOnce == Init => OnceInv
<1> SUFFICES ASSUME Init PROVE OnceInv
  OBVIOUS
<1>1. \A p \in Players : Object(p) # None
  BY InitIInv, ObjectTyped, NoneApart DEF IInv
<1> QED  BY <1>1 DEF Init, OnceInv, TargetsBorn, LockedOnce

LEMMA NextOnce == IInv /\ ItemsInv /\ OnceInv /\ [Next]_vars => OnceInv'
<1> SUFFICES ASSUME IInv, ItemsInv, OnceInv, [Next]_vars PROVE OnceInv'
  OBVIOUS
<1>0. TypeOK /\ LockedIsTarget
  BY DEF IInv
<1>1. ASSUME NEW p \in Players, NEW c \in Computers, NEW spot \in Spots, Click(p, c, spot)
      PROVE  OnceInv'
  BY <1>0, <1>1, HeldKeepsOnce DEF Click, capture, players
<1>2. ASSUME NEW i \in unhandled, NEW closing \in BOOLEAN,
             Touch(i, closing) \/ TouchFails(i, closing)
      PROVE  OnceInv'
  <2>0. i.computer \in Computers /\ i.player \in Objects /\ ~Unborn(i.player)
    BY <1>0 DEF TypeOK, Inputs, ItemsInv, UnbornUnknown
  <2>1. UNCHANGED <<session, online>> /\ Reaction(i, closing)
    BY <1>2 DEF Touch, TouchFails, players
  <2>2. CASE UNCHANGED capture
    BY <1>0, <2>1, <2>2, HeldKeepsOnce DEF capture
  <2>3. CASE \E withSlots \in BOOLEAN : StartCapture(i.computer, i.player, withSlots)
    BY <1>0, <2>0, <2>1, <2>3, StartKeepsOnce
  <2>4. CASE StopCapture(i.computer, i.player)
    BY <1>0, <2>0, <2>1, <2>4, StopKeepsOnce
  <2>5. CASE ForceStopCapture(i.computer)
    BY <1>0, <2>0, <2>1, <2>5, ForceStopKeepsOnce
  <2> QED  BY <2>1, <2>2, <2>3, <2>4, <2>5 DEF Reaction
<1>3. ASSUME NEW p \in Players, Release(p) PROVE OnceInv'
  <2>1. locked[Object(p)] \in Computers
    BY <1>0, <1>3, ObjectTyped, LockedHasTarget DEF Release
  <2> QED  BY <1>0, <1>3, <2>1, ForceStopKeepsOnce DEF Release, players
<1>4. ASSUME NEW p \in Players, Dismount(p) PROVE OnceInv'
  BY <1>0, <1>4, DismountedKeepsOnce DEF Dismount, players
<1>5. ASSUME NEW p \in Players, Mount(p) PROVE OnceInv'
  <2>1. CASE Dismounted(Object(p))
    BY <1>0, <1>5, <2>1, DismountedKeepsOnce DEF Mount, players
  <2>2. CASE UNCHANGED hold
    BY <1>0, <1>5, <2>2, HeldKeepsOnce DEF Mount, players, hold
  <2> QED  BY <1>5, <2>1, <2>2 DEF Mount
<1>6. ASSUME NEW p \in Players, PlayerLeave(p) PROVE OnceInv'
  <2>0. UNCHANGED <<session, online>>
    BY <1>6 DEF PlayerLeave, players
  <2>1. CASE UNCHANGED capture
    BY <1>0, <2>0, <2>1, HeldKeepsOnce DEF capture
  <2>2. CASE /\ locked[Object(p)] # None
             /\ StopCapture(locked[Object(p)], executors[locked[Object(p)]])
    <3>1. locked[Object(p)] \in Computers
      BY <1>0, <2>2, ObjectTyped, LockedHasTarget
    <3> QED  BY <1>0, <2>0, <2>2, <3>1, StopKeepsOnce
  <2> QED  BY <1>6, <2>1, <2>2 DEF PlayerLeave
<1>7. ASSUME NEW p \in Players, EndSession(p) PROVE OnceInv'
  BY <1>7, EndKeepsOnce
<1>8. ASSUME NEW p \in Players, PlayerJoin(p) PROVE OnceInv'
  BY <1>0, <1>8, HeldKeepsOnce DEF PlayerJoin
<1>9. ASSUME NEW c \in Computers, RemoveComputer(c) PROVE OnceInv'
  BY <1>0, <1>9, StopKeepsOnce DEF RemoveComputer, players
<1>10. CASE Reload
  <2>1. targets' = [c \in Computers |-> None] /\ UNCHANGED session
    BY <1>10 DEF Reload, players
  <2>2. \A p \in Players : Object(p)' # None
    BY <1>0, <2>1, ObjectTyped, NoneApart DEF Object
  <2> QED  BY <2>1, <2>2 DEF OnceInv, TargetsBorn, LockedOnce
<1>11. CASE UNCHANGED vars
  BY <1>0, <1>11, HeldKeepsOnce DEF vars
<1> QED  BY <1>1, <1>2, <1>3, <1>4, <1>5, <1>6, <1>7, <1>8, <1>9, <1>10, <1>11 DEF Next

-----------------------------------------------------------------------------
(* Theorems.                                                               *)

\* Every variable of Capture keeps its type.
THEOREM Typing == Spec => []TypeOK
<1>1. IInv => TypeOK
  BY DEF IInv
<1> QED  BY InitIInv, NextIInv, <1>1, PTL DEF Spec

\* Who is locked to a computer is its target, whatever captures, stops, quits and
\* failed touches came before; and unless she was captured twice at once, a player is
\* locked to the one computer that captures her, so that "/tcmp release" and her
\* dismount free her (locked and targets in TotalComputers).
THEOREM LockedAgrees == Spec => []CapturesAgree
<1>1. IInv /\ OnceInv => CapturesAgree
  BY DEF IInv, OnceInv, LockedOnce, CapturesAgree
<1> QED  BY InitIInv, NextIInv, InitItems, NextItems, InitOnce, NextOnce, <1>1, PTL DEF Spec

\* An executor that is left over belongs to a touch that is still queued (the
\* tick of a computer and executors in TotalComputers).
THEOREM ExecutorsReturn == Spec => []ExecutorWillReturn
<1>1. IInv => ExecutorWillReturn
  BY DEF IInv
<1> QED  BY InitIInv, NextIInv, <1>1, PTL DEF Spec

\* Over any stops, quits, failed touches and returns a player's own items are in
\* her slots or saved, unless she was captured twice at once or the plugin was
\* reloaded while they were saved (slots and slotsToRestore in TotalComputers).
THEOREM ItemsStay == Spec => []ItemsKept
<1>1. IInv /\ ItemsInv => ItemsKept
  BY DEF IInv, ItemsInv, OwnItems, ItemsKept
<1> QED  BY InitIInv, NextIInv, InitItems, NextItems, <1>1, PTL DEF Spec

\* With the same exceptions a player may not drop items exactly as long as hers
\* are saved (drop in TotalComputers).
THEOREM DropsMatch == Spec => []DropWhileSaved
<1>1. IInv /\ ItemsInv => DropWhileSaved
  BY DEF IInv, ItemsInv, OwnItems, DropWhileSaved
<1> QED  BY InitIInv, NextIInv, InitItems, NextItems, <1>1, PTL DEF Spec

\* The touches of one player never take the capture of another over (startCapture
\* and stopCapture in TotalComputers), and end it only by closing a window, which
\* lets her go altogether (forceStopCapture).
THEOREM Undisturbed == Spec => OthersUndisturbed
<1> DEFINE Step == \A c \in Computers :
                      targets[c] # None /\ targets'[c] # targets[c] =>
                          \A i \in unhandled :
                              ~Captures(c, i.player) =>
                                  /\ ~(Touch(i, FALSE) \/ TouchFails(i, FALSE))
                                  /\ Touch(i, TRUE) \/ TouchFails(i, TRUE) => LetGo(c)
<1>1. IInv => Step
  <2> SUFFICES ASSUME IInv, NEW c \in Computers, targets[c] # None, targets'[c] # targets[c],
                      NEW i \in unhandled, ~Captures(c, i.player)
               PROVE  /\ ~(Touch(i, FALSE) \/ TouchFails(i, FALSE))
                      /\ Touch(i, TRUE) \/ TouchFails(i, TRUE) => LetGo(c)
    OBVIOUS
  <2>0. Maps /\ LockedIsTarget /\ i.computer \in Computers /\ i.player \in Objects
    BY TypeParts DEF IInv, TypeOK, Inputs
  <2>1. ~UNCHANGED capture
    BY DEF capture
  <2> DEFINE d == i.computer
             o == targets[d]
  \* A forced stop ends the captures of one Player object.
  <2>2. ASSUME ForceStopCapture(d)
        PROVE  /\ o \in Objects
               /\ targets[c] = o
               /\ targets'[c] = None
    <3>1. o \in Objects
      BY <2>0, <2>2 DEF ForceStopCapture, Maps
    <3>2. c \in Ended(d, Ejects(d)) /\ targets'[c] = None
      BY <2>0, <2>2 DEF ForceStopCapture, EndCapture, Free, Maps
    <3>3. c = d \/ (locked[o] = c /\ locked[o] # None)
      BY <3>2 DEF Ended, Ejects
    <3>4. targets[c] = o
      BY <2>0, <3>1, <3>3 DEF LockedIsTarget
    <3> QED  BY <3>1, <3>2, <3>4
  <2>3. ~Reaction(i, FALSE)
    <3>1. ASSUME NEW withSlots \in BOOLEAN, StartCapture(d, i.player, withSlots)
          PROVE  FALSE
      BY <2>0, <3>1 DEF StartCapture, Maps
    <3>2. ~StopCapture(d, i.player)
      <4>1. SUFFICES ASSUME Captures(d, i.player), ForceStopCapture(d) PROVE FALSE
        BY <2>1 DEF StopCapture
      <4> QED  BY <2>2, <4>1 DEF Captures
    <3> QED  BY <2>1, <3>1, <3>2 DEF Reaction
  <2>4. Reaction(i, TRUE) => LetGo(c)
    <3>1. SUFFICES ASSUME ForceStopCapture(d) PROVE LetGo(c)
      BY <2>1 DEF Reaction
    <3>2. Released(o)
      BY <2>0, <3>1, ForceStopReleases
    <3> QED  BY <2>0, <2>2, <3>1, <3>2 DEF LetGo, Released, GivenBack, Maps
  <2> QED  BY <2>3, <2>4 DEF Touch, TouchFails
<1>2. Step => [Step]_vars
  OBVIOUS
<1> QED  BY InitIInv, NextIInv, <1>1, <1>2, PTL DEF Spec, OthersUndisturbed
=============================================================================
