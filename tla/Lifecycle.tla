------------------------------ MODULE Lifecycle ------------------------------
(***************************************************************************)
(* The life of one computer (system/TotalOS.java, the states, BSoD.java    *)
(* and the frame task of TotalComputers.initComputer): off, splash, setup  *)
(* or login, desktop, blue screen.                                         *)
(*                                                                         *)
(*   - The main thread handles touches: it turns the computer on and off.  *)
(*   - Frame threads, which overlap when frames are slow, end the splash   *)
(*     screen, count the frames that fail and invoke the blue screen.      *)
(*   - A tap on "sign in" starts a thread that makes a Desktop and shows   *)
(*     it; a blue screen prepares itself on a thread of its own.           *)
(*                                                                         *)
(* They share the state that is shown and the count without any lock.      *)
(*                                                                         *)
(* Abstractions: a Desktop is named after the thread that makes it, and    *)
(* its name is used again when it is gone; a blue screen is what a click   *)
(* on it does, and gets ready only when it is shown, since that takes      *)
(* eleven seconds; the setup screens are one, left by its last button; a   *)
(* frame fails anywhere; overlays and a computer hosted by a client are   *)
(* left out.                                                               *)
(***************************************************************************)
EXTENDS Integers

CONSTANTS Frames,   \* frame threads: bounds the overlap of frames
          Logins,   \* login threads and the Desktops they make
          Delay,    \* delay-ticks of config.yml
          None      \* Java's null

\* A blue screen waits, is ready for a click, or never will be.
Blues == {"waiting", "ready", "stuck"}

Fixed == {"splash", "setup", "login"}

ASSUME ConstantsAssumption ==
    /\ Delay \in Nat
    /\ Logins \cap (Fixed \cup Blues \cup {None}) = {}
    /\ None \notin Fixed \cup Blues

VARIABLES
    on,         \* TotalOS.currentState
    ready,      \* whether fs is there
    firstRun,
    configured, \* init.flag on the disk
    screen,     \* StateManager.currentState
    handler,    \* ApplicationHandler's Desktop of this computer
    main,       \* where the main thread is
    login,      \* where each login thread is
    frame,      \* where each frame thread is
    seen,       \* frame thread -> the count it has read
    uncaught,   \* the count of frames that failed
    twice,      \* history: the last login began while another was under way
    late        \* history: when the main thread turned the computer off, a login
                \* or frame thread was about to show a state

power == <<on, ready, firstRun, configured>>
threads == <<main, login, handler, twice, late>>
count == <<seen, uncaught>>
vars == <<power, screen, threads, frame, count>>

Init ==
    /\ on = FALSE
    /\ ready = FALSE
    /\ firstRun = FALSE
    /\ configured \in BOOLEAN
    /\ screen = None
    /\ handler = None
    /\ main = "idle"
    /\ login = [l \in Logins |-> "none"]
    /\ frame = [f \in Frames |-> "idle"]
    /\ seen = [f \in Frames |-> 0]
    /\ uncaught = -2
    /\ twice = FALSE
    /\ late = FALSE

-----------------------------------------------------------------------------
(* The main thread.                                                        *)

MainOnly == UNCHANGED <<twice, login, handler, frame, count>>

\* turnOff, first half: what the states need is taken away.
TurnsOff(next) ==
    /\ on' = FALSE
    /\ ready' = FALSE
    /\ firstRun' = FALSE
    /\ main' = next
    /\ UNCHANGED <<screen, late>>
    /\ MainOnly

\* turnOn, up to the new FileSystem.
TurnsOn ==
    /\ on' = TRUE
    /\ ready' = TRUE
    /\ firstRun' = ~configured
    /\ main' = "splash"
    /\ late' = FALSE
    /\ UNCHANGED <<configured, screen>>
    /\ MainOnly

\* processTouch of a computer that is off, whatever it shows.
TouchOff == main = "idle" /\ ~on /\ TurnsOn

Idle == main = "idle" /\ on

\* SetupFinishedState.restart
TouchSetup ==
    /\ Idle
    /\ screen = "setup"
    /\ configured' = TRUE
    /\ TurnsOff("blank, restart")

\* The shutdown and reset pages of Preferences.
TouchDesktop ==
    /\ Idle
    /\ screen \in Logins
    /\ \/ /\ UNCHANGED configured
          /\ \E next \in {"blank", "blank, restart"} : TurnsOff(next)
       \/ /\ configured' = FALSE
          /\ TurnsOff("blank")

\* BSoD.processInput
TouchBlue ==
    /\ Idle
    /\ screen = "ready"
    /\ TurnsOff("blank, restart")
    /\ UNCHANGED configured

\* LoginScreen.tryLogIn, with the right password: a thread for each tap.
LoginRuns(l) == login[l] # "none"

TouchLogin(l) ==
    /\ Idle
    /\ screen = "login"
    /\ login[l] = "none"
    /\ l # handler
    /\ login' = [login EXCEPT ![l] = "construct"]
    /\ twice' = (\E k \in Logins : LoginRuns(k))
    /\ UNCHANGED <<power, screen, handler, main, late, frame, count>>

\* The frame thread is about to leave the splash screen.
FrameShows(f) == frame[f] \in {"setup", "login"}

\* Slip: only a restart takes the picture away.
BlankOnOff ==
    /\ main \in {"blank", "blank, restart"}
    /\ screen' = IF main = "blank" THEN screen ELSE None
    /\ main' = IF main = "blank" THEN "idle" ELSE "on"
    /\ late' = \/ \E l \in Logins : LoginRuns(l)
               \/ \E f \in Frames : FrameShows(f)
    /\ UNCHANGED power
    /\ MainOnly

\* turnOff: stateManager.setState(null).
Blank ==
    /\ main \in {"blank", "blank, restart"}
    /\ screen' = None
    /\ main' = IF main = "blank" THEN "idle" ELSE "on"
    /\ late' = \/ \E l \in Logins : LoginRuns(l)
               \/ \E f \in Frames : FrameShows(f)
    /\ UNCHANGED power
    /\ MainOnly

TurnOn == main = "on" /\ TurnsOn

ShowSplash ==
    /\ main = "splash"
    /\ screen' = "splash"
    /\ main' = "idle"
    /\ UNCHANGED <<power, late>>
    /\ MainOnly

-----------------------------------------------------------------------------
(* A login thread.                                                         *)

LoginOnly == UNCHANGED <<power, main, twice, late, frame, count>>

\* The constructor of Desktop; without a file system it fails.
Construct(l) ==
    /\ login[l] = "construct"
    /\ login' = [login EXCEPT ![l] = IF ready THEN "register" ELSE "none"]
    /\ UNCHANGED <<screen, handler>>
    /\ LoginOnly

\* Slip: the Desktop is shown and never registered.
RegisterNot(l) ==
    /\ login[l] = "register"
    /\ login' = [login EXCEPT ![l] = "show"]
    /\ UNCHANGED <<screen, handler>>
    /\ LoginOnly

\* Its last line, ApplicationHandler.init.
Register(l) ==
    /\ login[l] = "register"
    /\ handler' = l
    /\ login' = [login EXCEPT ![l] = "show"]
    /\ UNCHANGED screen
    /\ LoginOnly

\* setState, whatever is shown by now.
ShowDesktop(l) ==
    /\ login[l] = "show"
    /\ screen' = l
    /\ login' = [login EXCEPT ![l] = "none"]
    /\ UNCHANGED handler
    /\ LoginOnly

LoginStep(l) == Construct(l) \/ Register(l) \/ ShowDesktop(l)

-----------------------------------------------------------------------------
(* A frame.                                                                *)

FrameOnly == UNCHANGED <<power, threads>>

\* SplashScreen.update, when the time is over.
SplashEnds(f) ==
    /\ frame[f] = "idle"
    /\ screen = "splash"
    /\ frame' = [frame EXCEPT ![f] = IF firstRun THEN "setup" ELSE "login"]
    /\ UNCHANGED <<screen, count>>
    /\ FrameOnly

LeaveSplash(f) ==
    /\ frame[f] \in {"setup", "login"}
    /\ screen' = frame[f]
    /\ frame' = [frame EXCEPT ![f] = "draw"]
    /\ UNCHANGED count
    /\ FrameOnly

Succeed(f) ==
    /\ frame[f] \in {"idle", "draw"}
    /\ uncaught' = 0
    /\ frame' = [frame EXCEPT ![f] = "idle"]
    /\ UNCHANGED <<screen, seen>>
    /\ FrameOnly

PerSecond == IF Delay = 0 THEN 60 ELSE 20 \div Delay

TooMany == PerSecond > 0 /\ uncaught \div PerSecond >= 3

\* A throwable is caught.  But for the first two, errors end in a blue screen when
\* there are too many, lack of memory at once; with more than a second between
\* frames the division by zero ends the frame without anything done.
Fail(f) ==
    /\ frame[f] \in {"idle", "setup", "login", "draw"}
    /\ \/ /\ uncaught >= 0
          /\ frame' = [frame EXCEPT ![f] = "blue"]
          /\ UNCHANGED seen
       \/ /\ uncaught < 0 \/ ~TooMany
          /\ frame' = [frame EXCEPT ![f] =
                 IF uncaught >= 0 /\ PerSecond = 0 THEN "idle" ELSE "count"]
          /\ seen' = [seen EXCEPT ![f] = uncaught]
    /\ UNCHANGED <<screen, uncaught>>
    /\ FrameOnly

\* Slip: the first two errors are forgiven for ever.
CountForgives(f) ==
    /\ frame[f] = "count"
    /\ frame' = [frame EXCEPT ![f] = "idle"]
    /\ seen' = [seen EXCEPT ![f] = 0]
    /\ uncaught' = IF seen[f] < 0 THEN uncaught ELSE seen[f] + 1
    /\ UNCHANGED screen
    /\ FrameOnly

\* Slip: the count goes down.
CountDown(f) ==
    /\ frame[f] = "count"
    /\ frame' = [frame EXCEPT ![f] = "idle"]
    /\ seen' = [seen EXCEPT ![f] = 0]
    /\ uncaught' = seen[f] - 1
    /\ UNCHANGED screen
    /\ FrameOnly

\* uncaught[0]++, which reads the count anew, at once or just before it writes.
Count(f) ==
    /\ frame[f] = "count"
    /\ frame' = [frame EXCEPT ![f] = "idle"]
    /\ seen' = [seen EXCEPT ![f] = 0]
    /\ \E read \in {seen[f], uncaught} : uncaught' = read + 1
    /\ UNCHANGED screen
    /\ FrameOnly

\* new BSoD: it keeps the state that is shown, without which its own thread fails.
InvokeBSoD(f) ==
    /\ frame[f] = "blue"
    /\ frame' = [frame EXCEPT ![f] = IF screen = None THEN "show stuck" ELSE "show"]
    /\ UNCHANGED <<screen, count>>
    /\ FrameOnly

ShowBSoD(f) ==
    /\ frame[f] \in {"show", "show stuck"}
    /\ screen' = IF frame[f] = "show" THEN "waiting" ELSE "stuck"
    /\ frame' = [frame EXCEPT ![f] = "idle"]
    /\ UNCHANGED count
    /\ FrameOnly

FrameStep(f) ==
    \/ SplashEnds(f) \/ LeaveSplash(f) \/ Succeed(f) \/ Fail(f)
    \/ Count(f) \/ InvokeBSoD(f) \/ ShowBSoD(f)

\* BSoD.prerender
Prerender ==
    /\ screen = "waiting"
    /\ screen' = "ready"
    /\ UNCHANGED <<power, threads, frame, count>>

-----------------------------------------------------------------------------
MainStep == Blank \/ TurnOn \/ ShowSplash

Next ==
    \/ TouchOff \/ TouchSetup \/ TouchDesktop \/ TouchBlue
    \/ \E l \in Logins : TouchLogin(l) \/ LoginStep(l)
    \/ MainStep
    \/ \E f \in Frames : FrameStep(f)
    \/ Prerender

\* Threads are scheduled; nobody has to touch the screen.
Fairness ==
    /\ WF_vars(MainStep)
    /\ \A f \in Frames : WF_vars(FrameStep(f))
    /\ \A l \in Logins : WF_vars(LoginStep(l))

Spec == Init /\ [][Next]_vars /\ Fairness

-----------------------------------------------------------------------------
Screens == Fixed \cup Logins \cup Blues \cup {None}

\* Type correctness; the count begins at minus two and is never less.
TypeOK ==
    /\ on \in BOOLEAN /\ ready \in BOOLEAN
    /\ firstRun \in BOOLEAN /\ configured \in BOOLEAN
    /\ twice \in BOOLEAN /\ late \in BOOLEAN
    /\ screen \in Screens
    /\ handler \in Logins \cup {None}
    /\ main \in {"idle", "blank", "blank, restart", "on", "splash"}
    /\ login \in [Logins -> {"none", "construct", "register", "show"}]
    /\ frame \in [Frames ->
           {"idle", "draw", "setup", "login", "count", "blue", "show", "show stuck"}]
    /\ seen \in [Frames -> Int]
    /\ \A f \in Frames : seen[f] >= -2
    /\ uncaught \in Int
    /\ uncaught >= -2

\* The Desktop that is shown is the one that windows are opened on, unless
\* someone signed in again before the first Desktop was there (LoginScreen
\* line 79, Desktop line 204).
OneDesktop == screen \in Logins /\ ~twice => handler = screen

\* A computer that was turned off is dark, but for a blue screen or the state that
\* a login or frame thread was about to show at that time.
DarkWhenOff == ~on /\ main = "idle" /\ ~late => screen \in Blues \cup {None}

\* When frames fail and none succeeds again, a blue screen is shown, although
\* the frames that count the errors overlap and overwrite each other's count
\* (TotalComputers lines 2086 to 2097), if frames are drawn at least once a second.
ErrorsShown ==
    PerSecond > 0 =>
        \/ []<><<\E f \in Frames : Succeed(f)>>_vars
        \/ []<>(screen \in Blues)
=============================================================================
