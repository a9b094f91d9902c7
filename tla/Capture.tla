------------------------------ MODULE Capture ------------------------------
(***************************************************************************)
(* Touches and motion capture (TotalComputers.java).  A player's clicks on *)
(* a screen are queued; the tick of a computer hands them to its           *)
(* applications, and an application may take the player's movements over:  *)
(* the player is put on an arrow, the three middle slots of the hotbar are *)
(* emptied but for a barrier, and what was in them is saved.               *)
(*                                                                         *)
(* All of it runs on the main thread, so an action is one handler, except  *)
(* that a tick is cut into its touches, each of which may fail: the tick   *)
(* then ends before it takes those it handled out of the queue.            *)
(* What can go wrong is a long sequence of legal calls.                    *)
(*                                                                         *)
(* Abstractions: the three slots hold the player's own items or what a     *)
(* capture put there; the packets of a captured player, the task that      *)
(* holds her on the middle slot, the drop event and windows that close     *)
(* while a frame is drawn are left out.                                    *)
(*                                                                         *)
(* The maps of the plugin are keyed by Player objects.  The game makes a   *)
(* new one, equal to no other, each time a player joins; what lasts over   *)
(* sessions is kept by name.                                               *)
(***************************************************************************)
EXTENDS Naturals, FiniteSets

CONSTANTS Players,
          Leaving,     \* the players who may leave
          MaxSessions, \* bound on the times one of them plays
          Computers,
          Reach,       \* which players get to which screens
          Spots,       \* places and kinds of clicks
          MaxQueue,    \* bound on the clicks that wait
          None         \* Java's null, or no map entry

ASSUME NoneAssumption ==
    /\ None \notin Players \cup Computers
    /\ Players \cap Computers = {}
    /\ Leaving \subseteq Players
    /\ Reach \subseteq Players \X Computers
    /\ MaxQueue \in Nat
    /\ MaxSessions \in Nat \ {0}

\* Player objects, and InputInfo.
Objects == [name : Players, session : 1 .. MaxSessions]
Inputs == [computer : Computers, player : Objects, spot : Spots]
Items == {"own", "control"}

ASSUME RecordAssumption == None \notin Objects \cup Items

VARIABLES
    unhandled,   \* unhandledInputs
    main,        \* what the main thread is in: a computer's tick, a player's leave
    handled,     \* the main's handledInputs
    executors,   \* executors: computer -> Player object
    targets,     \* targets: computer -> the captured Player object
    locked,      \* locked: Player object -> computer
    slots,       \* slots: Player object -> the items saved in its SlotControl
    drop,        \* drop, a list: Player object -> how often it is in it
    toRestore,   \* slotsToRestore: player -> saved items
    inv,         \* what is in the slots of a Player object
    session,     \* the session a player is in, or will be in next
    online,      \* the players on the server
    riding,      \* the players on an arrow
    mounting,    \* those that a scheduled task will put on an arrow
    registered,  \* registeredComputers
    mislaid      \* history: players captured twice at once, or at a reload

queue == <<unhandled, main, handled>>
players == <<session, online>>
hold == <<targets, locked, slots, drop, inv>>
capture == <<targets, locked, slots, drop, inv, riding, mounting, mislaid>>
vars == <<unhandled, main, handled, executors, targets, locked, slots, drop,
          toRestore, inv, session, online, riding, mounting, registered, mislaid>>

\* The Player object a player has, or will have when she joins.
Object(p) == [name |-> p, session |-> session[p]]

Init ==
    /\ unhandled = {}
    /\ main = None
    /\ handled = {}
    /\ executors = [c \in Computers |-> None]
    /\ targets = [c \in Computers |-> None]
    /\ locked = [o \in Objects |-> None]
    /\ slots = [o \in Objects |-> None]
    /\ drop = [o \in Objects |-> 0]
    /\ toRestore = [p \in Players |-> None]
    /\ inv = [o \in Objects |-> "own"]
    /\ session = [p \in Players |-> 1]
    /\ online = Players
    /\ riding = {}
    /\ mounting = {}
    /\ registered = Computers
    /\ mislaid = {}

-----------------------------------------------------------------------------
(* Starting and stopping a capture.                                        *)

\* Players are compared by name.
Captures(c, o) == targets[c] # None /\ targets[c].name = o.name

\* Slip: startCapture does not ask whether the computer is busy.
StartCaptureBusy(c, o, withSlots) ==
    /\ targets' = [targets EXCEPT ![c] = o]
    /\ locked' = [locked EXCEPT ![o] = c]
    /\ mounting' = IF o = Object(o.name) THEN mounting \cup {o.name} ELSE mounting
    /\ IF withSlots
       THEN /\ slots' = [slots EXCEPT ![o] = inv[o]]
            /\ inv' = [inv EXCEPT ![o] = "control"]
            /\ drop' = [drop EXCEPT ![o] = @ + 1]
       ELSE UNCHANGED <<slots, inv, drop>>
    /\ mislaid' = IF o = Object(o.name) /\ locked[o] # None
                  THEN mislaid \cup {o.name} ELSE mislaid
    /\ UNCHANGED riding

\* startCapture, past its refusals.  It asks whether the computer is busy, not
\* whether the player is.
StartCapture(c, o, withSlots) ==
    /\ targets[c] = None
    /\ targets' = [targets EXCEPT ![c] = o]
    /\ locked' = [locked EXCEPT ![o] = c]
    /\ mounting' = IF o = Object(o.name) THEN mounting \cup {o.name} ELSE mounting
    /\ IF withSlots
       THEN /\ slots' = [slots EXCEPT ![o] = inv[o]]
            /\ inv' = [inv EXCEPT ![o] = "control"]
            /\ drop' = [drop EXCEPT ![o] = @ + 1]
       ELSE UNCHANGED <<slots, inv, drop>>
    /\ mislaid' = IF o = Object(o.name) /\ locked[o] # None
                  THEN mislaid \cup {o.name} ELSE mislaid
    /\ UNCHANGED riding

\* forceStopCapture removes the arrow of the target before it forgets her; the
\* game then reports a dismount, whose handler ends the capture "locked" names.
Ejects(c) ==
    LET o == targets[c]
    IN  o = Object(o.name) /\ o.name \in riding /\ locked[o] # None

Ended(c, ejects) == {c} \cup (IF ejects THEN {locked[targets[c]]} ELSE {})

\* Slip: the saved items stay saved.
FreeKeepsSlots(c, ejects) ==
    LET o == targets[c]
        times == IF ejects THEN 2 ELSE 1
    IN  /\ targets' = [d \in Computers |-> IF d \in Ended(c, ejects) THEN None ELSE targets[d]]
        /\ locked' = [locked EXCEPT ![o] = None]
        /\ drop' = [drop EXCEPT ![o] = IF @ > times THEN @ - times ELSE 0]
        /\ UNCHANGED slots

\* What forceStopCapture does to the maps, and the dismount handler once more if
\* it ejects the target.
Free(c, ejects) ==
    LET o == targets[c]
        times == IF ejects THEN 2 ELSE 1
    IN  /\ targets' = [d \in Computers |-> IF d \in Ended(c, ejects) THEN None ELSE targets[d]]
        /\ locked' = [locked EXCEPT ![o] = None]
        /\ drop' = [drop EXCEPT ![o] = IF @ > times THEN @ - times ELSE 0]
        /\ slots' = [slots EXCEPT ![o] = None]

\* forceStopCapture puts the saved items back.
GivenBack(o) == IF slots[o] # None THEN [inv EXCEPT ![o] = slots[o]] ELSE inv

EndCapture(c, ejects) ==
    /\ Free(c, ejects)
    /\ inv' = GivenBack(targets[c])

ForceStopCapture(c) ==
    /\ targets[c] # None
    /\ EndCapture(c, Ejects(c))
    /\ LET o == targets[c]
       IN  riding' = IF o = Object(o.name) THEN riding \ {o.name} ELSE riding
    /\ UNCHANGED <<mounting, mislaid>>

\* Slip: anyone stops a capture.
StopCaptureOfAnyone(c, o) ==
    \/ targets[c] # None /\ o # None /\ ForceStopCapture(c)
    \/ targets[c] = None /\ UNCHANGED capture

\* stopCapture while o is the executor, or nobody: only the player who is the
\* target stops a capture.
StopCapture(c, o) ==
    \/ o # None /\ Captures(c, o) /\ ForceStopCapture(c)
    \/ ~(o # None /\ Captures(c, o)) /\ UNCHANGED capture

-----------------------------------------------------------------------------
(* The tick of a computer.                                                 *)

\* processInput queues a click of a player whose hand is empty or captured.
Click(p, c, spot) ==
    /\ main = None
    /\ p \in online
    /\ <<p, c>> \in Reach
    /\ c \in registered
    /\ Cardinality(unhandled) < MaxQueue
    /\ unhandled' = unhandled \cup
                        {[computer |-> c, player |-> Object(p), spot |-> spot]}
    /\ UNCHANGED <<main, handled, executors, capture, toRestore, players, registered>>

\* What the application at the touched place does, or one whose window the touch
\* closes: the emulators stop the capture of their computer then, whoever it is of.
Reaction(i, closing) ==
    \/ UNCHANGED capture
    \/ /\ ~closing
       /\ \E withSlots \in BOOLEAN : StartCapture(i.computer, i.player, withSlots)
    \/ ~closing /\ StopCapture(i.computer, i.player)
    \/ closing /\ ForceStopCapture(i.computer)

\* A touch is the turn of its computer's tick: a tick starts when nothing else
\* runs, and goes on while touches of its computer are left.
Turn(i) ==
    /\ main \in {None, i.computer}
    /\ i.computer \in registered
    /\ i \notin handled

Left(i) == {j \in unhandled : j.computer = i.computer} \ (handled \cup {i})

\* Slip: the list of handled touches is kept for the next tick.
EndTickKeepsHandled(i) ==
    /\ Left(i) = {}
    /\ unhandled' = unhandled \ (handled \cup {i})
    /\ main' = None
    /\ handled' = handled \cup {i}

\* The end of the tick takes the handled touches out of the queue.
EndTick(i) ==
    /\ Left(i) = {}
    /\ unhandled' = unhandled \ (handled \cup {i})
    /\ main' = None
    /\ handled' = {}

Touch(i, closing) ==
    /\ Turn(i)
    /\ Reaction(i, closing)
    /\ executors' = [executors EXCEPT ![i.computer] = None]
    /\ \/ /\ Left(i) # {}
          /\ main' = i.computer
          /\ handled' = handled \cup {i}
          /\ UNCHANGED unhandled
       \/ EndTick(i)
    /\ UNCHANGED <<toRestore, players, registered>>

\* Slip: the failed touch is taken out of the queue, and the executor stays.
TouchFailsOnce(i, closing) ==
    /\ Turn(i)
    /\ Reaction(i, closing)
    /\ executors' = [executors EXCEPT ![i.computer] = i.player]
    /\ unhandled' = unhandled \ {i}
    /\ main' = None
    /\ handled' = {}
    /\ UNCHANGED <<toRestore, players, registered>>

\* An exception out of the application ends the tick: the executor stays, and
\* so do all the touches of the tick, to be handled again.
TouchFails(i, closing) ==
    /\ Turn(i)
    /\ Reaction(i, closing)
    /\ executors' = [executors EXCEPT ![i.computer] = i.player]
    /\ main' = None
    /\ handled' = {}
    /\ UNCHANGED <<unhandled, toRestore, players, registered>>

-----------------------------------------------------------------------------
(* Commands, events and scheduled tasks.                                   *)

\* "/tcmp release".
Release(p) ==
    /\ main = None
    /\ p \in online
    /\ locked[Object(p)] # None
    /\ ForceStopCapture(locked[Object(p)])
    /\ UNCHANGED <<queue, executors, toRestore, players, registered>>

\* The handler of a dismount; the player is on no vehicle when it runs.
Dismounted(o) ==
    \/ locked[o] # None /\ EndCapture(locked[o], FALSE)
    \/ locked[o] = None /\ UNCHANGED hold

\* The game takes a player off her arrow, which was removed.
Dismount(p) ==
    /\ main = None
    /\ p \in riding \cap online
    /\ Dismounted(Object(p))
    /\ riding' = riding \ {p}
    /\ UNCHANGED <<queue, executors, mounting, mislaid, toRestore, players, registered>>

\* The task of startCapture that puts the player on a new arrow; the game takes
\* her off an old one first.  It does nothing to a player who has left.
Mount(p) ==
    /\ main = None
    /\ p \in mounting
    /\ mounting' = mounting \ {p}
    /\ IF p \in riding THEN Dismounted(Object(p)) ELSE UNCHANGED hold
    /\ riding' = riding \cup {p}
    /\ UNCHANGED <<queue, executors, mislaid, toRestore, players, registered>>

\* Slip: the saved items of a leaving player are not kept.
PlayerLeaveForgets(p) ==
    /\ main = None
    /\ p \in online \cap Leaving
    /\ session[p] < MaxSessions
    /\ main' = p
    /\ LET c == locked[Object(p)]
       IN  \/ c # None /\ StopCapture(c, executors[c])
           \/ c = None /\ UNCHANGED capture
    /\ UNCHANGED <<toRestore, unhandled, handled, executors, players, registered>>

\* playerLeave saves the items by name.  Its stopCapture has an effect only when
\* a failed touch of the player has left the executor behind.
PlayerLeave(p) ==
    /\ main = None
    /\ p \in online \cap Leaving
    /\ session[p] < MaxSessions
    /\ main' = p
    /\ LET saved == slots[Object(p)]
       IN  toRestore' = IF saved # None THEN [toRestore EXCEPT ![p] = saved] ELSE toRestore
    /\ LET c == locked[Object(p)]
       IN  \/ c # None /\ StopCapture(c, executors[c])
           \/ c = None /\ UNCHANGED capture
    /\ UNCHANGED <<unhandled, handled, executors, players, registered>>

\* The game saves the player, for the object that she will have next, and takes
\* her off her arrow.  The plugin's maps and the queue keep the old object.
EndSession(p) ==
    LET o == Object(p)
        next == [o EXCEPT !.session = @ + 1]
    IN  /\ main = p
        /\ main' = None
        /\ online' = online \ {p}
        /\ session' = [session EXCEPT ![p] = @ + 1]
        /\ \/ /\ p \in riding
              /\ locked[o] # None
              /\ Free(locked[o], FALSE)
              /\ inv' = [GivenBack(o) EXCEPT ![next] = inv[o]]
           \/ /\ p \notin riding \/ locked[o] = None
              /\ inv' = [inv EXCEPT ![next] = inv[o]]
              /\ UNCHANGED <<targets, locked, slots, drop>>
        /\ riding' = riding \ {p}
        /\ mounting' = mounting \ {p}
        /\ UNCHANGED <<unhandled, handled, executors, toRestore, registered, mislaid>>

\* The player is loaded as she was saved, perhaps on the arrow she was on.
PlayerJoin(p) ==
    /\ main = None
    /\ p \notin online
    /\ online' = online \cup {p}
    /\ inv' = IF toRestore[p] # None THEN [inv EXCEPT ![Object(p)] = toRestore[p]] ELSE inv
    /\ toRestore' = [toRestore EXCEPT ![p] = None]
    /\ riding' \in {riding, riding \cup {p}}
    /\ UNCHANGED <<queue, executors, targets, locked, slots, drop, session, mounting,
                   registered, mislaid>>

\* removeComputer: its stopCapture fails when a failed touch has left an executor
\* behind and nobody is captured; nothing is removed then.
RemoveComputer(c) ==
    /\ main = None
    /\ c \in registered
    /\ executors[c] # None => targets[c] # None
    /\ StopCapture(c, executors[c])
    /\ unhandled' = {i \in unhandled : i.computer # c}
    /\ registered' = registered \ {c}
    /\ UNCHANGED <<main, handled, executors, toRestore, players>>

\* "/tcmp reload": loadComputers starts all the maps anew.
Reload ==
    /\ main = None
    /\ unhandled' = {}
    /\ executors' = [c \in Computers |-> None]
    /\ targets' = [c \in Computers |-> None]
    /\ locked' = [o \in Objects |-> None]
    /\ slots' = [o \in Objects |-> None]
    /\ drop' = [o \in Objects |-> 0]
    /\ toRestore' = [p \in Players |-> None]
    /\ mislaid' = mislaid \cup {p \in Players : slots[Object(p)] # None \/ toRestore[p] # None}
    /\ UNCHANGED <<main, handled, inv, players, riding, mounting, registered>>

-----------------------------------------------------------------------------
Next ==
    \/ \E p \in Players, c \in Computers, spot \in Spots : Click(p, c, spot)
    \/ \E i \in unhandled, closing \in BOOLEAN : Touch(i, closing) \/ TouchFails(i, closing)
    \/ \E p \in Players :
          \/ Release(p) \/ Dismount(p) \/ Mount(p)
          \/ PlayerLeave(p) \/ EndSession(p) \/ PlayerJoin(p)
    \/ \E c \in Computers : RemoveComputer(c)
    \/ Reload

Spec == Init /\ [][Next]_vars

-----------------------------------------------------------------------------
(* Properties.                                                             *)

\* Every variable holds what the Java type allows; the list of handled touches
\* is in use during a tick only.
TypeOK ==
    /\ unhandled \subseteq Inputs
    /\ main \in Computers \cup Players \cup {None}
    /\ handled \subseteq unhandled
    /\ handled # {} => main \in Computers
    /\ executors \in [Computers -> Objects \cup {None}]
    /\ targets \in [Computers -> Objects \cup {None}]
    /\ locked \in [Objects -> Computers \cup {None}]
    /\ slots \in [Objects -> Items \cup {None}]
    /\ drop \in [Objects -> Nat]
    /\ toRestore \in [Players -> Items \cup {None}]
    /\ inv \in [Objects -> Items]
    /\ session \in [Players -> 1 .. MaxSessions]
    /\ online \subseteq Players
    /\ riding \subseteq Players
    /\ mounting \subseteq Players
    /\ registered \subseteq Computers
    /\ mislaid \subseteq Players

\* Who is locked to a computer is its target: "/tcmp release", a dismount and
\* the drop event look the computer up in "locked" and rely on its target,
\* whatever captures, stops, quits and failed touches came before.
LockedIsTarget == \A o \in Objects : locked[o] # None => targets[locked[o]] = o

\* Unless a player was captured twice at once, she is locked to the one computer
\* that captures her, and to none if none does: what "/tcmp release", a dismount and
\* a quit find in "locked" is all there is to end.
CapturesAgree ==
    /\ LockedIsTarget
    /\ \A p \in Players \ mislaid, c \in Computers :
          targets[c] = Object(p) => locked[Object(p)] = c

\* An executor that is left over after a tick belongs to a touch that is still
\* queued and will be handled again: no player acts for a computer for ever.
ExecutorWillReturn ==
    \A c \in registered :
        executors[c] # None =>
            \E i \in unhandled : i.computer = c /\ i.player = executors[c]

\* The items a capture took are never lost over stops, quits, failed touches and
\* returns: they are in the player's slots or saved.  The exceptions are a
\* second capture of the same player, which saves what the first one put there,
\* and a reload.
ItemsKept ==
    \A p \in Players \ mislaid : "own" \in {inv[Object(p)], slots[Object(p)], toRestore[p]}

\* A player may not drop items exactly as long as hers are saved.
DropWhileSaved ==
    \A p \in Players \ mislaid :
        drop[Object(p)] = IF slots[Object(p)] # None THEN 1 ELSE 0

\* What one player's touches may do to the capture of another: they never take it
\* over, and they end it only by closing a window of its computer (NESEmulator line
\* 161, GBEmulator line 174, SNESEmulator line 182); she is then let go of, with her
\* items given back, and not left half captured.
LetGo(c) ==
    LET o == targets[c]
    IN  /\ targets'[c] = None
        /\ locked'[o] = None
        /\ slots'[o] = None
        /\ slots[o] # None => inv'[o] = slots[o]

OthersUndisturbed ==
    [][\A c \in Computers :
          targets[c] # None /\ targets'[c] # targets[c] =>
              \A i \in unhandled :
                  ~Captures(c, i.player) =>
                      /\ ~(Touch(i, FALSE) \/ TouchFails(i, FALSE))
                      /\ Touch(i, TRUE) \/ TouchFails(i, TRUE) => LetGo(c)]_vars

\* A tick handles the touches of its own computer; a player who is leaving has
\* a session left.
HandledHere == \A i \in handled : i.computer = main
LeavingInBound == main \in Players => session[main] < MaxSessions

\* What the proofs rest on.
IInv == TypeOK /\ LockedIsTarget /\ ExecutorWillReturn /\ HandledHere /\ LeavingInBound

\* A Player object that the game has not made yet; the plugin knows nothing of
\* it.
Unborn(o) ==
    \/ o.session > session[o.name]
    \/ o.session = session[o.name] /\ o.name \notin online

UnbornUnknown ==
    /\ \A o \in Objects : Unborn(o) => locked[o] = None /\ slots[o] = None /\ drop[o] = 0
    /\ \A i \in unhandled : ~Unborn(i.player)

\* The game has made the Player objects that are captured.
TargetsBorn == \A c \in Computers : targets[c] # None => ~Unborn(targets[c])

SlotsLocked == \A o \in Objects : slots[o] # None => locked[o] # None

\* Where a player's own items are: on the server in her slots or saved by the
\* capture; from her leave to her return in her saved slots or saved by name.
OwnItems(p) ==
    LET o == Object(p)
        gone == p \notin online \/ main = p
    IN  /\ slots[o] \in {None, "own"}
        /\ toRestore[p] \in {None, "own"}
        /\ toRestore[p] # None => gone
        /\ gone => "own" \in {inv[o], toRestore[p]}
        /\ ~gone => "own" \in {inv[o], slots[o]}
        /\ drop[o] = IF slots[o] # None THEN 1 ELSE 0

\* What the proofs about items rest on.
ItemsInv ==
    /\ UnbornUnknown
    /\ SlotsLocked
    /\ \A p \in Players \ mislaid : OwnItems(p)
    /\ main \in Players => main \in online

\* "Type /tcmp release to stop it" (Localization.java:190): while a computer
\* captures a player, the command finds a computer to release her from.
ReleaseStops ==
    \A c \in Computers : targets[c] # None => locked[targets[c]] # None
=============================================================================
