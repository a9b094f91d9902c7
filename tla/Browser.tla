------------------------------- MODULE Browser -------------------------------
(***************************************************************************)
(* The web browser's windows and their processes ("Web Browser": system/   *)
(* WebBrowser.java, RemoteBrowser.java, BrowserImpl_Native.java and        *)
(* native/impl.cpp).                                                       *)
(*                                                                         *)
(* A window starts a thread, which spawns a process and looks for it in    *)
(* the RMI registry of port 2099 until it is there or 15 seconds are over; *)
(* the first process that finds no registry hosts one, and takes it along  *)
(* when it exits.  The main thread closes windows; frame threads draw them *)
(* by calls to the process.                                                *)
(*                                                                         *)
(* A session's name is the id of its starter thread: unique in one run of  *)
(* the server, but the processes survive a crash of the server and the ids *)
(* start again.                                                            *)
(*                                                                         *)
(* Abstractions: a process is named after its window; a picture is left    *)
(* out; a process may crash at any time; an RMI call returns, or fails     *)
(* when its process is gone (external); buttons and keys, further calls of *)
(* the kind that frames make, are left out.                                *)
(***************************************************************************)
EXTENDS Naturals

CONSTANTS Windows,
          Names,     \* names of sessions
          Session,   \* Windows -> Names
          Run,       \* Windows -> the run of the server it is opened in
          LastRun,   \* bounds the runs
          Frames,    \* frame threads
          None       \* Java's null, or no entry

ASSUME ConstantsAssumption ==
    /\ LastRun \in Nat \ {0}
    /\ Run \in [Windows -> 1 .. LastRun]
    /\ Session \in [Windows -> Names]
    /\ None \notin Windows
    /\ \A v, w \in Windows : Run[v] = Run[w] /\ Session[v] = Session[w] => v = w

VARIABLES
    run,       \* the run of the server
    win,       \* where the life of each window is
    server,    \* WebBrowser.server: the process, or None
    init,      \* windows whose init is set
    starter,   \* where the window's thread is
    callee,    \* the process whose onStart it has called
    proc,      \* where each process is
    handle,    \* processes with a native browser
    told,      \* the process that each window has told to close
    host,      \* the process that hosts the registry
    bound,     \* the registry: name -> process
    frame,     \* frame thread -> the window it draws
    met,       \* history: windows that found their own process before they
               \* closed, and no other since
    npe        \* history: windows whose frame met a null pointer

window == <<win, server, init>>
thread == <<starter, callee>>
process == <<proc, handle, told>>
registry == <<host, bound>>
drawing == <<frame, npe>>
vars == <<run, window, thread, process, registry, drawing, met>>

Init ==
    /\ run = 1
    /\ win = [w \in Windows |-> "unopened"]
    /\ server = [w \in Windows |-> None]
    /\ init = {}
    /\ starter = [w \in Windows |-> "unborn"]
    /\ callee = [w \in Windows |-> None]
    /\ proc = [w \in Windows |-> "none"]
    /\ handle = {}
    /\ told = [w \in Windows |-> None]
    /\ host = None
    /\ bound = [n \in Names |-> None]
    /\ frame = [f \in Frames |-> None]
    /\ met = {}
    /\ npe = {}

-----------------------------------------------------------------------------
(* The starter thread of a window.                                         *)

Starting == {"spawn", "lookup", "start", "wait", "init"}
Goto(w, where) == starter' = [starter EXCEPT ![w] = where]

\* The main thread opens a window.
Open(w) ==
    /\ run = Run[w]
    /\ win[w] = "unopened"
    /\ win' = [win EXCEPT ![w] = "open"]
    /\ Goto(w, "spawn")
    /\ UNCHANGED <<run, server, init, callee, process, registry, drawing, met>>

\* ProcessBuilder.start; without a process the thread looks all the same.
Spawn(w) ==
    /\ starter[w] = "spawn"
    /\ \E p \in {"boot", "failed"} : proc' = [proc EXCEPT ![w] = p]
    /\ Goto(w, "lookup")
    /\ UNCHANGED <<run, window, callee, handle, told, registry, drawing, met>>

\* A turn of the loop that finds a session; one that finds nothing is another
\* turn.  The thread of a window without a process fails on what it finds.
Lookup(w) ==
    /\ starter[w] = "lookup"
    /\ bound[Session[w]] # None
    /\ server' = [server EXCEPT ![w] = bound[Session[w]]]
    /\ met' = IF bound[Session[w]] # w THEN met \ {w}
              ELSE met \cup {v \in {w} : win[v] = "open"}
    /\ Goto(w, IF proc[w] = "failed" THEN "dead" ELSE "start")
    /\ UNCHANGED <<run, win, init, callee, process, registry, drawing>>

\* Slip: the time is looked at only when nothing is found.
TimesOutUnbound(w) ==
    /\ starter[w] = "lookup"
    /\ bound[Session[w]] = None
    /\ Goto(w, "done")
    /\ UNCHANGED <<run, window, callee, process, registry, drawing, met>>

\* A turn of the loop after 15 seconds.
TimesOut(w) ==
    /\ starter[w] = "lookup"
    /\ Goto(w, "done")
    /\ UNCHANGED <<run, window, callee, process, registry, drawing, met>>

\* server.onStart is called, on the process that server refers to by now.
CallStart(w) ==
    /\ starter[w] = "start"
    /\ \/ /\ server[w] = None
          /\ Goto(w, "dead")
          /\ UNCHANGED callee
       \/ /\ server[w] # None
          /\ callee' = [callee EXCEPT ![w] = server[w]]
          /\ Goto(w, "wait")
    /\ UNCHANGED <<run, window, process, registry, drawing, met>>

\* N_createCef returns a handle or null, or throws; a process that is gone is
\* another turn of the loop, and so is an error while the library is loaded.
StartReturns(w) ==
    /\ starter[w] = "wait"
    /\ \/ /\ proc[callee[w]] = "up"
          /\ \/ /\ handle' = handle \cup {callee[w]}
                /\ Goto(w, "init")
             \/ /\ handle' = handle \ {callee[w]}
                /\ Goto(w, "init")
             \/ \E where \in {"lookup", "dead"} : Goto(w, where) /\ UNCHANGED handle
       \/ /\ proc[callee[w]] # "up"
          /\ Goto(w, "lookup")
          /\ UNCHANGED handle
    /\ callee' = [callee EXCEPT ![w] = None]
    /\ UNCHANGED <<run, window, proc, told, registry, drawing, met>>

\* init = true, whether or not the window has been closed.
SetInit(w) ==
    /\ starter[w] = "init"
    /\ init' = init \cup {w}
    /\ Goto(w, "done")
    /\ UNCHANGED <<run, win, server, callee, process, registry, drawing, met>>

StarterStep(w) ==
    \/ Spawn(w) \/ Lookup(w) \/ TimesOut(w)
    \/ CallStart(w) \/ StartReturns(w) \/ SetInit(w)

-----------------------------------------------------------------------------
(* A process.                                                              *)

\* LocateRegistry.createRegistry, or getRegistry if the port is taken.
Boot(p) ==
    /\ proc[p] = "boot"
    /\ proc' = [proc EXCEPT ![p] = "bind"]
    /\ host' = IF host = None THEN p ELSE host
    /\ UNCHANGED <<run, window, thread, handle, told, bound, drawing, met>>

\* Slip: all sessions go by one name.
BindOneName(p) ==
    /\ proc[p] = "bind"
    /\ proc' = [proc EXCEPT ![p] = "up"]
    /\ bound' = IF host = None THEN bound ELSE [n \in Names |-> p]
    /\ UNCHANGED <<run, window, thread, handle, told, host, drawing, met>>

\* registry.rebind, which fails if the registry has gone.
Bind(p) ==
    /\ proc[p] = "bind"
    /\ proc' = [proc EXCEPT ![p] = "up"]
    /\ bound' = IF host = None THEN bound ELSE [bound EXCEPT ![Session[p]] = p]
    /\ UNCHANGED <<run, window, thread, handle, told, host, drawing, met>>

\* The end of a process is the end of the registry that it hosts.
Ends(p) ==
    /\ proc' = [proc EXCEPT ![p] = "exited"]
    /\ handle' = handle \ {p}
    /\ host' = IF host = p THEN None ELSE host
    /\ bound' = IF host = p THEN [n \in Names |-> None] ELSE bound
    /\ UNCHANGED <<run, window, thread, told, drawing, met>>

\* RemoteBrowser.close: the native browser is closed, System.exit.
Exit(p) ==
    /\ proc[p] = "up"
    /\ \E w \in Windows : told[w] = p
    /\ Ends(p)

Crash(p) ==
    /\ proc[p] \in {"boot", "bind", "up"}
    /\ Ends(p)

ProcessStep(p) == Boot(p) \/ Bind(p) \/ Exit(p)

-----------------------------------------------------------------------------
(* The main thread closes a window.                                        *)

Closing == {"calling", "waiting"}

\* Slip: onClose calls a server that may be missing.
OnCloseUnchecked(w) ==
    /\ win[w] = "open"
    /\ \A v \in Windows : win[v] \notin Closing
    /\ init' = init \ {w}
    /\ win' = [win EXCEPT ![w] = "calling"]
    /\ UNCHANGED <<run, server, thread, process, registry, drawing, met>>

\* onClose: without a server there is nothing to close.
OnClose(w) ==
    /\ win[w] = "open"
    /\ \A v \in Windows : win[v] \notin Closing
    /\ init' = init \ {w}
    /\ win' = [win EXCEPT ![w] = IF server[w] = None THEN "closed" ELSE "calling"]
    /\ UNCHANGED <<run, server, thread, process, registry, drawing, met>>

\* Slip: the server is forgotten before it is told.
CallCloseNullsFirst(w) ==
    /\ win[w] = "calling"
    /\ win' = [win EXCEPT ![w] = "waiting"]
    /\ told' = [told EXCEPT ![w] = server[w]]
    /\ server' = [server EXCEPT ![w] = None]
    /\ UNCHANGED <<run, init, thread, proc, handle, registry, drawing, met>>

\* Slip: the server is forgotten and never told.
CallCloseForgets(w) ==
    /\ win[w] = "calling"
    /\ win' = [win EXCEPT ![w] = "closed"]
    /\ server' = [server EXCEPT ![w] = None]
    /\ UNCHANGED <<run, init, thread, process, registry, drawing, met>>

CallClose(w) ==
    /\ win[w] = "calling"
    /\ win' = [win EXCEPT ![w] = "waiting"]
    /\ told' = [told EXCEPT ![w] = server[w]]
    /\ UNCHANGED <<run, server, init, thread, proc, handle, registry, drawing, met>>

\* The call fails as the process exits; server = null.
CloseReturns(w) ==
    /\ win[w] = "waiting"
    /\ proc[told[w]] = "exited"
    /\ win' = [win EXCEPT ![w] = "closed"]
    /\ server' = [server EXCEPT ![w] = None]
    /\ told' = [told EXCEPT ![w] = None]
    /\ UNCHANGED <<run, init, thread, proc, handle, registry, drawing, met>>

MainStep(w) == CallClose(w) \/ CloseReturns(w)

-----------------------------------------------------------------------------
(* A frame thread.                                                         *)

\* The frame goes on if init is set; it may have taken the window from the list
\* before it was closed.
FrameChecks(f, w) ==
    /\ frame[f] = None
    /\ win[w] \in {"open", "closed"} \cup Closing
    /\ w \in init
    /\ frame' = [frame EXCEPT ![f] = w]
    /\ UNCHANGED <<run, window, thread, process, registry, npe, met>>

\* server.render, or one of the calls after it when there is an image: each
\* reads server again.  A process that is gone, or has no handle, ends the frame.
FrameCalls(f) ==
    /\ frame[f] # None
    /\ \/ /\ server[frame[f]] \in handle
          /\ UNCHANGED frame
       \/ frame' = [frame EXCEPT ![f] = None]
    /\ npe' = npe \cup {w \in {frame[f]} : server[w] = None}
    /\ UNCHANGED <<run, window, thread, process, registry, met>>

-----------------------------------------------------------------------------

\* The server crashes and is started again.
ServerRestarts ==
    /\ run < LastRun
    /\ run' = run + 1
    /\ win' = [w \in Windows |-> IF win[w] = "unopened" THEN "unopened" ELSE "lost"]
    /\ server' = [w \in Windows |-> None]
    /\ init' = {}
    /\ starter' = [w \in Windows |-> IF starter[w] = "unborn" THEN "unborn" ELSE "dead"]
    /\ callee' = [w \in Windows |-> None]
    /\ frame' = [f \in Frames |-> None]
    /\ UNCHANGED <<process, registry, npe, met>>

Next ==
    \/ \E w \in Windows :
          \/ Open(w) \/ OnClose(w)
          \/ StarterStep(w) \/ MainStep(w)
          \/ ProcessStep(w) \/ Crash(w)
    \/ \E f \in Frames : FrameCalls(f) \/ \E w \in Windows : FrameChecks(f, w)
    \/ ServerRestarts

\* Starters and processes are scheduled; 15 seconds pass, so that a loop which is
\* turned again and again times out.  Nobody has to open or close a window, and
\* nothing has to crash.
Fairness ==
    /\ \A w \in Windows :
          /\ WF_vars(StarterStep(w)) /\ SF_vars(TimesOut(w))
          /\ WF_vars(ProcessStep(w))
    /\ WF_vars(\E w \in Windows : MainStep(w))

Spec == Init /\ [][Next]_vars /\ Fairness

-----------------------------------------------------------------------------
Sessions == Windows \cup {None}

\* Type correctness; the main thread calls a server that is there.
TypeOK ==
    /\ run \in 1 .. LastRun
    /\ win \in [Windows -> {"unopened", "open", "calling", "waiting", "closed", "lost"}]
    /\ server \in [Windows -> Sessions]
    /\ \A w \in Windows : win[w] = "calling" => server[w] # None
    /\ init \subseteq Windows
    /\ starter \in [Windows -> Starting \cup {"unborn", "done", "dead"}]
    /\ callee \in [Windows -> Sessions]
    /\ proc \in [Windows -> {"none", "failed", "boot", "bind", "up", "exited"}]
    /\ handle \subseteq {p \in Windows : proc[p] = "up"}
    /\ told \in [Windows -> Sessions]
    /\ host \in Sessions
    /\ bound \in [Names -> Sessions]
    /\ frame \in [Frames -> Sessions]
    /\ met \subseteq Windows
    /\ npe \subseteq Windows

\* A window talks to its own process and to no other window's, unless a process
\* of an earlier run still holds its name (WebBrowser.java lines 114 and 133).
OwnSession ==
    \A w \in Windows :
        \/ server[w] \in {None, w}
        \/ /\ Session[server[w]] = Session[w]
           /\ Run[server[w]] < Run[w]

\* A frame meets a null server only in a window that was closed meanwhile, never
\* in one that is just being opened (lines 135, 136 and 181 to 188).
FailsOnlyClosed == \A w \in npe : win[w] \in {"closed", "lost"}

\* A window that met its process and is being closed takes it along, also when its
\* thread is still calling it, unless before it is told the server crashes or the
\* thread finds an older process; a window that is closed sooner leaves its process
\* behind.
ProcessEnds ==
    \A w \in Windows :
        win[w] \in Closing /\ w \in met ~>
            proc[w] = "exited" \/ win[w] = "lost" \/ w \notin met

\* When such a window is closed its process has ended already: onClose returns no
\* sooner (WebBrowser.java lines 180 to 189).
ClosedIsGone == \A w \in Windows : win[w] = "closed" /\ w \in met => proc[w] = "exited"

\* The thread that opens a window ends, whatever becomes of the processes, of the
\* registry and of the window.
StartersEnd == \A w \in Windows : starter[w] \in Starting ~> starter[w] \notin Starting
=============================================================================
