------------------------------- MODULE Launch -------------------------------
(***************************************************************************)
(* From a click to a window: how the computers of a server start           *)
(* applications (system/TotalOS.java, desktop/ApplicationHandler.java, the *)
(* timer task of TotalComputers.initComputer).                             *)
(*                                                                         *)
(*   - The main thread handles a touch (processTouch), and on a click on an *)
(*     icon the application's main method puts a task into the "threads"   *)
(*     of TotalOS.current(), a static field that all computers share.      *)
(*   - Every tick starts a frame of each computer on a thread of a pool    *)
(*     (renderFrame): the frame runs the tasks, removes those it ran and   *)
(*     draws.  Frames that are slow overlap.                               *)
(*                                                                         *)
(* "threads" is guarded by synchronized blocks, which are single steps     *)
(* here; "current" is not guarded at all.                                  *)
(*                                                                         *)
(* Abstractions: a task is the click it comes from; the order in which a   *)
(* frame runs the tasks it finds is left out, so that a frame that fails   *)
(* may have run any of them, and so is what a touch does that starts no    *)
(* application (an application that needs a newer API is such a touch).  A *)
(* frame thread is tied to its computer.  An application that starts       *)
(* another one out of a frame is left out.                                 *)
(***************************************************************************)
EXTENDS Naturals

CONSTANTS Computers,   \* the running computers of the server
          Clicks,      \* clicks on application icons: bounds the launches
          Frames,      \* threads that render: bounds the overlap of frames
          Screen,      \* Frames -> Computers: whose frames a thread renders
          MaxWindows,  \* bound on the windows a click has before a frame that fails
          None         \* Java's null

ASSUME ConstantsAssumption ==
    /\ Screen \in [Frames -> Computers]
    /\ MaxWindows \in Nat \ {0}
    /\ None \notin Computers

VARIABLES
    current,    \* TotalOS.current
    threads,    \* TotalOS.threads: computer -> the tasks that wait
    fpc,        \* frame thread -> where renderFrame is
    finished,   \* frame thread -> renderFrame's finished
    mpc,        \* where the main thread is in processTouch
    click,      \* the click it handles
    place,      \* click -> the computer that was clicked
    target,     \* click -> the computer whose threads got the task
    windows,    \* click -> the number of windows opened for it
    left,       \* history: tasks in threads that a frame ran which then failed
    disturbed   \* history: a frame wrote "current" since this touch began

frame == <<fpc, finished>>
touch == <<mpc, click, place>>
vars == <<current, threads, fpc, finished, mpc, click, place, target, windows,
          left, disturbed>>

Init ==
    /\ current = None
    /\ threads = [c \in Computers |-> {}]
    /\ fpc = [f \in Frames |-> "idle"]
    /\ finished = [f \in Frames |-> {}]
    /\ mpc = "idle"
    /\ click = None
    /\ place = [k \in Clicks |-> None]
    /\ target = [k \in Clicks |-> None]
    /\ windows = [k \in Clicks |-> 0]
    /\ left = {}
    /\ disturbed = FALSE

-----------------------------------------------------------------------------
(* The main thread: processTouch.                                          *)

\* Slip: a current computer that is set already is left as it is.
TouchKeepsCurrent(k, c) ==
    /\ mpc = "idle"
    /\ place[k] = None
    /\ mpc' = "touching"
    /\ click' = k
    /\ place' = [place EXCEPT ![k] = c]
    /\ current' = IF current = None THEN c ELSE current
    /\ disturbed' = FALSE
    /\ UNCHANGED <<threads, frame, target, windows, left>>

\* A touch that reaches an icon (of the desktop, the task bar or a window).
Touch(k, c) ==
    /\ mpc = "idle"
    /\ place[k] = None
    /\ mpc' = "touching"
    /\ click' = k
    /\ place' = [place EXCEPT ![k] = c]
    /\ current' = c
    /\ disturbed' = FALSE
    /\ UNCHANGED <<threads, frame, target, windows, left>>

\* A touch that starts no application.  It resets "current" at its end, unless
\* it turned the computer on or an overlay took it: then it returned early.
TouchElsewhere(c) ==
    /\ mpc = "idle"
    /\ current' \in {c, None}
    /\ UNCHANGED <<threads, frame, touch, target, windows, left, disturbed>>

\* ApplicationHandler.open on TotalOS.current(): nothing happens on null.
Open ==
    /\ mpc = "touching"
    /\ target' = [target EXCEPT ![click] = current]
    /\ threads' = [c \in Computers |->
                      IF c = current THEN threads[c] \cup {click} ELSE threads[c]]
    /\ mpc' = "opened"
    /\ UNCHANGED <<current, frame, click, place, windows, left, disturbed>>

\* An exception in the state's processInput skips the reset.
EndTouch ==
    /\ mpc = "opened"
    /\ mpc' = "idle"
    /\ click' = None
    /\ current' \in {current, None}
    /\ disturbed' = FALSE
    /\ UNCHANGED <<threads, frame, place, target, windows, left>>

-----------------------------------------------------------------------------
(* A frame thread: renderFrame.                                            *)

StartFrame(f) ==
    /\ fpc[f] = "idle"
    /\ fpc' = [fpc EXCEPT ![f] = "started"]
    /\ current' = Screen[f]
    /\ disturbed' = (mpc # "idle")
    /\ UNCHANGED <<threads, finished, touch, target, windows, left>>

OpenWindows(tasks) ==
    windows' = [k \in Clicks |-> IF k \in tasks THEN windows[k] + 1 ELSE windows[k]]

\* The first synchronized block: all tasks run, and stay where they are.
RunThreads(f) ==
    LET tasks == threads[Screen[f]]
    IN  /\ fpc[f] = "started"
        /\ fpc' = [fpc EXCEPT ![f] = "ran"]
        /\ finished' = [finished EXCEPT ![f] = tasks]
        /\ OpenWindows(tasks)
        /\ UNCHANGED <<current, threads, touch, target, left, disturbed>>

\* A task throws, or there is no memory for the image: the catch block of the
\* timer task counts the error and ends the frame, and with it the list of what
\* has run; "current" stays set.
RunFails(f) ==
    /\ fpc[f] = "started"
    /\ fpc' = [fpc EXCEPT ![f] = "idle"]
    /\ \E done \in SUBSET threads[Screen[f]] :
          /\ \A k \in done : windows[k] < MaxWindows
          /\ OpenWindows(done)
          /\ left' = left \cup done
    /\ UNCHANGED <<current, threads, finished, touch, target, disturbed>>

\* Slips: all tasks are removed, whether they ran or not; none is; the list of
\* finished tasks is not a new one for the next frame.
RemoveAllThreads(f) ==
    /\ fpc[f] = "ran"
    /\ fpc' = [fpc EXCEPT ![f] = "removed"]
    /\ threads' = [threads EXCEPT ![Screen[f]] = {}]
    /\ finished' = [finished EXCEPT ![f] = {}]
    /\ left' = left \ threads[Screen[f]]
    /\ UNCHANGED <<current, touch, target, windows, disturbed>>

RemoveNoThreads(f) ==
    /\ fpc[f] = "ran"
    /\ fpc' = [fpc EXCEPT ![f] = "removed"]
    /\ finished' = [finished EXCEPT ![f] = {}]
    /\ left' = left \ finished[f]
    /\ UNCHANGED <<current, threads, touch, target, windows, disturbed>>

RemoveFinishedKeepsList(f) ==
    /\ fpc[f] = "ran"
    /\ fpc' = [fpc EXCEPT ![f] = "removed"]
    /\ threads' = [threads EXCEPT ![Screen[f]] = @ \ finished[f]]
    /\ left' = left \ finished[f]
    /\ UNCHANGED <<current, finished, touch, target, windows, disturbed>>

\* The second synchronized block: threads.removeAll(finished).
RemoveFinished(f) ==
    /\ fpc[f] = "ran"
    /\ fpc' = [fpc EXCEPT ![f] = "removed"]
    /\ threads' = [threads EXCEPT ![Screen[f]] = @ \ finished[f]]
    /\ finished' = [finished EXCEPT ![f] = {}]
    /\ left' = left \ finished[f]
    /\ UNCHANGED <<current, touch, target, windows, disturbed>>

\* Slip: an exception in a frame ends the computer's frames.
EndFrameStops(f) ==
    /\ fpc[f] = "removed"
    /\ \/ /\ fpc' = [fpc EXCEPT ![f] = "idle"]
          /\ current' = None
          /\ disturbed' = (mpc # "idle")
       \/ /\ fpc' = [fpc EXCEPT ![f] = "stopped"]
          /\ UNCHANGED <<current, disturbed>>
    /\ UNCHANGED <<threads, finished, touch, target, windows, left>>

\* The state updates and draws itself; an exception leaves "current" set and
\* is counted by the task, which goes on with the next frame.
EndFrame(f) ==
    /\ fpc[f] = "removed"
    /\ fpc' = [fpc EXCEPT ![f] = "idle"]
    /\ \/ /\ current' = None
          /\ disturbed' = (mpc # "idle")
       \/ UNCHANGED <<current, disturbed>>
    /\ UNCHANGED <<threads, finished, touch, target, windows, left>>

-----------------------------------------------------------------------------
FrameStep(f) ==
    \/ StartFrame(f)
    \/ RunThreads(f)
    \/ RunFails(f)
    \/ RemoveFinished(f)
    \/ EndFrame(f)

TouchStep == Open \/ EndTouch

Next ==
    \/ \E k \in Clicks, c \in Computers : Touch(k, c)
    \/ \E c \in Computers : TouchElsewhere(c)
    \/ TouchStep
    \/ \E f \in Frames : FrameStep(f)

Spec == Init /\ [][Next]_vars

\* The timer starts frames for ever and the pool runs them.
Fairness == WF_vars(TouchStep) /\ \A f \in Frames : WF_vars(FrameStep(f))

FairSpec == Spec /\ Fairness

-----------------------------------------------------------------------------
(* Properties.                                                             *)

\* Every variable holds what the Java type allows; "finished" is in use between
\* the two synchronized blocks only.
TypeOK ==
    /\ current \in Computers \cup {None}
    /\ threads \in [Computers -> SUBSET Clicks]
    /\ fpc \in [Frames -> {"idle", "started", "ran", "removed"}]
    /\ finished \in [Frames -> SUBSET Clicks]
    /\ \A f \in Frames : fpc[f] # "ran" => finished[f] = {}
    /\ mpc \in {"idle", "touching", "opened"}
    /\ click \in Clicks \cup {None}
    /\ mpc # "idle" => click \in Clicks
    /\ place \in [Clicks -> Computers \cup {None}]
    /\ target \in [Clicks -> Computers \cup {None}]
    /\ windows \in [Clicks -> Nat]
    /\ left \subseteq Clicks
    /\ disturbed \in BOOLEAN

\* A task is never lost between the two synchronized blocks of renderFrame: what
\* was put into a computer's threads waits there until a frame has run it.
TaskNotLost ==
    \A k \in Clicks : target[k] # None => k \in threads[target[k]] \/ windows[k] > 0

\* A task that has run is still in threads only while a frame that ran it is on
\* its way to remove it, or when a frame failed that had run it, and until another
\* has run it and removed it: one click opens several windows only by overlapping
\* frames and by frames that fail before their second synchronized block.
RanTasksLeave ==
    \A k \in Clicks, c \in Computers :
        k \in threads[c] /\ windows[k] > 0
            => \/ \E f \in Frames : fpc[f] = "ran" /\ k \in finished[f]
               \/ k \in left

\* What a failed frame left has run, and is in threads.
LeftStays ==
    \A k \in left : target[k] # None /\ k \in threads[target[k]] /\ windows[k] > 0

\* A click starts its application on the computer that was clicked, unless a
\* frame wrote "current" in the meantime: what early returns and failed frames
\* leave in "current" never decides where an application opens.
OpensHere ==
    \A k \in Clicks :
        mpc = "opened" /\ click = k /\ ~disturbed => target[k] = place[k]

\* What the invariants above rest on: a task waits where it was put and nowhere
\* else, a frame's finished tasks are its computer's and have run, a click whose
\* task was put nowhere opened nothing, and a click is handled once, with
\* "current" at its computer unless a frame wrote it.
TasksHere == \A k \in Clicks, c \in Computers : k \in threads[c] => target[k] = c

FinishedHere ==
    \A f \in Frames, k \in Clicks :
        k \in finished[f] => target[k] = Screen[f] /\ windows[k] > 0

FreshClicks ==
    \A k \in Clicks :
        /\ place[k] = None => target[k] = None
        /\ target[k] = None => windows[k] = 0

TouchState ==
    mpc = "touching" =>
        /\ target[click] = None
        /\ place[click] # None
        /\ ~disturbed => current = place[click]

IInv ==
    /\ TypeOK
    /\ TasksHere
    /\ FinishedHere
    /\ FreshClicks
    /\ TouchState
    /\ TaskNotLost
    /\ RanTasksLeave
    /\ LeftStays
    /\ OpensHere

\* A task that is in some computer's threads.
Listed(k) == \E c \in Computers : k \in threads[c]

\* However touches and frames interleave, threads is a TaskList: renderFrame runs
\* what waits for its computer, removes nothing that has not run, and what it has
\* removed never opens a window again (the synchronized blocks of renderFrame and
\* ApplicationHandler.open).
List == INSTANCE TaskList
            WITH Tasks <- Clicks,
                 at <- target,
                 waiting <- {k \in Clicks : Listed(k) /\ windows[k] = 0},
                 lingering <- {k \in Clicks : Listed(k) /\ windows[k] > 0},
                 runs <- windows

TasksAreListed == List!Spec

\* The task of a click runs in the end, though every frame may fail while it
\* updates or draws; only tasks that throw, or a lack of memory, in one frame of the
\* computer after the other can keep it waiting.
TasksRun ==
    \A c \in Computers :
        \/ []<><<\E f \in Frames : Screen[f] = c /\ RunFails(f)>>_vars
        \/ \A k \in Clicks : k \in threads[c] ~> windows[k] > 0
=============================================================================
