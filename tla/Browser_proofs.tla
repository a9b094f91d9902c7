---------------------------- MODULE Browser_proofs ----------------------------
(***************************************************************************)
(* Proofs about Browser, for any number of windows, names, frame threads   *)
(* and runs of the server.                                                 *)
(***************************************************************************)
EXTENDS Browser, TLAPS

\* A window that was not opened has no thread, one that has not begun to spawn no
\* process, and a thread that waits for an answer waits for a process.
Unspawned ==
    \A w \in Windows :
        /\ win[w] = "unopened" => starter[w] = "unborn"
        /\ starter[w] \in {"unborn", "spawn"} => proc[w] = "none"
        /\ starter[w] = "wait" => callee[w] # None

TypeInv == TypeOK /\ Unspawned

\* Processes belong to this run or to an earlier one, threads to this one, and the
\* registry knows processes by the names of their sessions.
Runs ==
    \A w \in Windows :
        /\ proc[w] # "none" => Run[w] <= run
        /\ starter[w] \in Starting => Run[w] = run
NamesOfSessions ==
    \A n \in Names : bound[n] # None => Session[bound[n]] = n /\ proc[bound[n]] # "none"

SessionInv == TypeInv /\ Runs /\ NamesOfSessions /\ OwnSession

\* What a frame may draw has a server, or had one until it was closed.
Served(w) == server[w] # None \/ win[w] \in {"closed", "lost"}
Drawable ==
    \A w \in Windows :
        \/ w \in init
        \/ starter[w] \in {"wait", "init"}
        \/ \E f \in Frames : frame[f] = w
        => Served(w)

FrameInv == TypeInv /\ Drawable /\ FailsOnlyClosed

-----------------------------------------------------------------------------
LEMMA TypeInit == Init => TypeInv
BY ConstantsAssumption DEF Init, TypeInv, TypeOK, Unspawned, Sessions, Starting

LEMMA StarterTypes ==
    ASSUME TypeInv, NEW w \in Windows, StarterStep(w) PROVE TypeInv'
<1> USE ConstantsAssumption
    DEF TypeInv, TypeOK, Unspawned, Sessions, Starting, Goto, window, thread, process,
        registry, drawing
<1>1. CASE Spawn(w)
      BY <1>1 DEF Spawn
<1>2. CASE Lookup(w)
      BY <1>2 DEF Lookup
<1>3. CASE TimesOut(w)
      BY <1>3 DEF TimesOut
<1>4. CASE CallStart(w)
      BY <1>4 DEF CallStart
<1>5. CASE StartReturns(w)
      BY <1>5 DEF StartReturns
<1>6. CASE SetInit(w)
      BY <1>6 DEF SetInit
<1> QED
    BY <1>1, <1>2, <1>3, <1>4, <1>5, <1>6 DEF StarterStep

LEMMA TypeStep == TypeInv /\ [Next]_vars => TypeInv'
<1> SUFFICES ASSUME TypeInv, [Next]_vars PROVE TypeInv'
    OBVIOUS
<1> USE ConstantsAssumption
    DEF Sessions, Starting, Goto, window, thread, process, registry, drawing
<1>1. ASSUME NEW w \in Windows, Open(w) PROVE TypeInv'
  <2>1. /\ win' = [win EXCEPT ![w] = "open"]
        /\ starter' = [starter EXCEPT ![w] = "spawn"]
        /\ win[w] = "unopened"
        /\ UNCHANGED <<run, server, init, callee, process, registry, drawing, met>>
        BY <1>1 DEF Open
  <2>2. \A v \in Windows : win'[v] = "calling" => server'[v] # None
        BY <2>1 DEF TypeInv, TypeOK
  <2>3. Unspawned'
        BY <2>1 DEF TypeInv, TypeOK, Unspawned
  <2> QED
      BY <2>1, <2>2, <2>3 DEF TypeInv, TypeOK
<1>2. ASSUME NEW w \in Windows, OnClose(w) PROVE TypeInv'
      BY <1>2 DEF OnClose, TypeInv, TypeOK, Unspawned
<1>3. ASSUME NEW w \in Windows, StarterStep(w) PROVE TypeInv'
      BY <1>3, StarterTypes
<1>4. ASSUME NEW w \in Windows, MainStep(w) PROVE TypeInv'
  <2>1. CASE CallClose(w)
    <3>1. told' \in [Windows -> Sessions]
          BY <2>1 DEF CallClose, TypeInv, TypeOK
    <3>2. /\ win' \in [Windows -> {"unopened", "open", "calling", "waiting", "closed", "lost"}]
          /\ \A v \in Windows : win'[v] = "calling" => server'[v] # None
          BY <2>1 DEF CallClose, TypeInv, TypeOK
    <3> QED
        BY <2>1, <3>1, <3>2 DEF CallClose, TypeInv, TypeOK, Unspawned
  <2>2. CASE CloseReturns(w)
    <3>1. told' \in [Windows -> Sessions] /\ server' \in [Windows -> Sessions]
          BY <2>2 DEF CloseReturns, TypeInv, TypeOK
    <3>2. /\ win' \in [Windows -> {"unopened", "open", "calling", "waiting", "closed", "lost"}]
          /\ \A v \in Windows : win'[v] = "calling" => server'[v] # None
          BY <2>2 DEF CloseReturns, TypeInv, TypeOK
    <3> QED
        BY <2>2, <3>1, <3>2 DEF CloseReturns, TypeInv, TypeOK, Unspawned
  <2> QED
      BY <1>4, <2>1, <2>2 DEF MainStep
<1>5. ASSUME NEW w \in Windows, ProcessStep(w) \/ Crash(w) PROVE TypeInv'
  <2>1. CASE Boot(w)
        BY <2>1 DEF Boot, TypeInv, TypeOK, Unspawned
  <2>2. CASE Bind(w)
        BY <2>2 DEF Bind, TypeInv, TypeOK, Unspawned
  <2>3. CASE Ends(w) /\ proc[w] # "none"
        BY <2>3 DEF Ends, TypeInv, TypeOK, Unspawned
  <2> QED
      BY <1>5, <2>1, <2>2, <2>3 DEF ProcessStep, Exit, Crash
<1>6. ASSUME NEW f \in Frames, NEW w \in Windows, FrameChecks(f, w) PROVE TypeInv'
      BY <1>6 DEF FrameChecks, TypeInv, TypeOK, Unspawned
<1>7. ASSUME NEW f \in Frames, FrameCalls(f) PROVE TypeInv'
      BY <1>7 DEF FrameCalls, TypeInv, TypeOK, Unspawned
<1>8. CASE ServerRestarts
      BY <1>8 DEF ServerRestarts, TypeInv, TypeOK, Unspawned
<1>9. CASE UNCHANGED vars
      BY <1>9 DEF vars, TypeInv, TypeOK, Unspawned
<1> QED
    BY <1>1, <1>2, <1>3, <1>4, <1>5, <1>6, <1>7, <1>8, <1>9 DEF Next

\* Type correctness of windows, processes and the registry; the main thread never
\* calls a server that is missing, and no process is given a native browser that
\* is not up.
THEOREM Typing == Spec => []TypeOK
<1>1. TypeInv => TypeOK
      BY DEF TypeInv
<1> QED
    BY TypeInit, TypeStep, <1>1, PTL DEF Spec

-----------------------------------------------------------------------------
LEMMA SessionInit == Init => SessionInv
BY TypeInit, ConstantsAssumption
DEF Init, SessionInv, Runs, NamesOfSessions, OwnSession, Starting

\* The process that is found under a window's name is its own, or an older one.
LEMMA FoundIsOwn ==
    ASSUME SessionInv, NEW w \in Windows, Run[w] = run, bound[Session[w]] # None
    PROVE  \/ bound[Session[w]] = w
           \/ /\ Session[bound[Session[w]]] = Session[w]
              /\ Run[bound[Session[w]]] < Run[w]
<1> DEFINE p == bound[Session[w]]
<1>1. Session[w] \in Names
      BY ConstantsAssumption
<1>2. p \in Windows
      BY <1>1 DEF SessionInv, TypeInv, TypeOK, Sessions
<1>3. Session[p] = Session[w] /\ proc[p] # "none"
      BY <1>1 DEF SessionInv, NamesOfSessions
<1>4. Run[p] <= Run[w]
      BY <1>2, <1>3 DEF SessionInv, Runs
<1>5. Run[p] \in Nat /\ Run[w] \in Nat
      BY <1>2, ConstantsAssumption
<1>6. CASE Run[p] = Run[w]
      BY <1>2, <1>3, <1>6, ConstantsAssumption
<1>7. CASE Run[p] < Run[w]
      BY <1>3, <1>7
<1> QED
    BY <1>4, <1>5, <1>6, <1>7

LEMMA SessionStep == SessionInv /\ [Next]_vars => SessionInv'
<1> SUFFICES ASSUME SessionInv, [Next]_vars PROVE SessionInv'
    OBVIOUS
<1>0. TypeOK /\ Unspawned /\ TypeInv'
      BY TypeStep DEF SessionInv, TypeInv
<1>t. /\ proc \in [Windows -> {"none", "failed", "boot", "bind", "up", "exited"}]
      /\ starter \in [Windows -> Starting \cup {"unborn", "done", "dead"}]
      /\ server \in [Windows -> Sessions]
      /\ bound \in [Names -> Sessions]
      /\ run \in 1 .. LastRun
      BY <1>0 DEF TypeOK
<1>i. Runs /\ NamesOfSessions /\ OwnSession
      BY DEF SessionInv
<1>s. SUFFICES Runs' /\ NamesOfSessions' /\ OwnSession'
      BY <1>0 DEF SessionInv
<1> USE DEF window, thread, process, registry, drawing
\* A step that starts nothing, and at most lets go of servers and of names.
<1>1. ASSUME UNCHANGED run,
             \A w \in Windows : proc'[w] # "none" => proc[w] # "none",
             \A w \in Windows : proc[w] # "none" => proc'[w] # "none",
             \A w \in Windows : starter'[w] \in Starting => starter[w] \in Starting,
             \A w \in Windows : server'[w] \in {server[w], None},
             \A n \in Names : bound'[n] \in {bound[n], None}
      PROVE  Runs' /\ NamesOfSessions' /\ OwnSession'
  <2>1. Runs'
        BY <1>1, <1>i DEF Runs
  <2>2. NamesOfSessions'
        BY <1>t, <1>1, <1>i DEF NamesOfSessions, Sessions
  <2>3. OwnSession'
        BY <1>1, <1>i DEF OwnSession
  <2> QED
      BY <2>1, <2>2, <2>3
<1>2. ASSUME NEW w \in Windows, Open(w)
      PROVE  Runs' /\ NamesOfSessions' /\ OwnSession'
      BY <1>t, <1>2, <1>i DEF Open, Goto, Runs, NamesOfSessions, OwnSession, Starting
<1>3. ASSUME NEW w \in Windows, StarterStep(w)
      PROVE  Runs' /\ NamesOfSessions' /\ OwnSession'
  <2>1. CASE Spawn(w)
    <3>1. Run[w] = run /\ proc[w] = "none"
          BY <1>0, <1>i, <2>1 DEF Spawn, Runs, Starting, Unspawned
    <3>2. PICK p \in {"boot", "failed"} : proc' = [proc EXCEPT ![w] = p]
          BY <2>1 DEF Spawn
    <3>3. /\ starter' = [starter EXCEPT ![w] = "lookup"]
          /\ UNCHANGED <<run, server, bound>>
          /\ starter[w] = "spawn"
          BY <2>1 DEF Spawn, Goto
    <3>4. run <= run
          BY <1>t
    <3>5. Runs'
          BY <1>t, <1>i, <3>1, <3>2, <3>3, <3>4 DEF Runs, Starting
    <3>6. NamesOfSessions'
          BY <1>t, <1>i, <3>2, <3>3 DEF NamesOfSessions, Sessions
    <3>7. OwnSession'
          BY <1>i, <3>3 DEF OwnSession
    <3> QED
        BY <3>5, <3>6, <3>7
  <2>2. CASE Lookup(w)
    <3>1. Run[w] = run /\ bound[Session[w]] # None
          BY <1>i, <2>2 DEF Lookup, Runs, Starting
    <3>2. /\ server' = [server EXCEPT ![w] = bound[Session[w]]]
          /\ UNCHANGED <<run, proc, bound>>
          BY <2>2 DEF Lookup
    <3>3. \A v \in Windows : starter'[v] \in Starting => starter[v] \in Starting
          BY <1>t, <2>2 DEF Lookup, Goto, Starting
    <3>4. OwnSession'
      <4>1. server'[w] = bound[Session[w]] /\ \A v \in Windows \ {w} : server'[v] = server[v]
            BY <1>t, <3>2
      <4> QED
          BY <1>i, <3>1, <4>1, FoundIsOwn DEF OwnSession
    <3> QED
        BY <1>i, <3>2, <3>3, <3>4 DEF Runs, NamesOfSessions
  <2>3. CASE TimesOut(w) \/ CallStart(w) \/ StartReturns(w) \/ SetInit(w)
    <3>1. UNCHANGED <<run, proc, server, bound>>
          BY <2>3 DEF TimesOut, CallStart, StartReturns, SetInit
    <3>2. \A v \in Windows : starter'[v] \in Starting => starter[v] \in Starting
          BY <1>t, <2>3 DEF TimesOut, CallStart, StartReturns, SetInit, Goto, Starting
    <3> QED
        BY <1>1, <3>1, <3>2
  <2> QED
      BY <1>3, <2>1, <2>2, <2>3 DEF StarterStep
<1>4. ASSUME NEW w \in Windows, OnClose(w) \/ MainStep(w)
      PROVE  Runs' /\ NamesOfSessions' /\ OwnSession'
      BY <1>t, <1>1, <1>4 DEF OnClose, MainStep, CallClose, CloseReturns
<1>5. ASSUME NEW w \in Windows, ProcessStep(w) \/ Crash(w)
      PROVE  Runs' /\ NamesOfSessions' /\ OwnSession'
  <2>1. CASE Boot(w)
        BY <1>t, <1>1, <2>1 DEF Boot
  <2>2. CASE Bind(w)
    <3>1. /\ proc[w] = "bind" /\ proc' = [proc EXCEPT ![w] = "up"]
          /\ UNCHANGED <<run, starter, server>>
          BY <2>2 DEF Bind
    <3>2. \A n \in Names : bound'[n] = bound[n] \/ (n = Session[w] /\ bound'[n] = w)
          BY <1>t, <2>2 DEF Bind
    <3>3. \A v \in Windows : proc'[v] # "none" <=> proc[v] # "none"
          BY <1>t, <3>1
    <3>4. NamesOfSessions'
      <4> SUFFICES ASSUME NEW n \in Names, bound'[n] # None
                   PROVE  Session[bound'[n]] = n /\ proc'[bound'[n]] # "none"
          BY DEF NamesOfSessions
      <4>1. CASE bound'[n] = bound[n]
            BY <1>t, <1>i, <3>3, <4>1 DEF NamesOfSessions, Sessions
      <4>2. CASE n = Session[w] /\ bound'[n] = w
            BY <1>t, <3>1, <4>2
      <4> QED
          BY <3>2, <4>1, <4>2
    <3> QED
        BY <1>i, <3>1, <3>3, <3>4 DEF Runs, OwnSession
  <2>3. CASE Ends(w) /\ proc[w] # "none"
    <3>1. \A v \in Windows : proc'[v] # "none" <=> proc[v] # "none"
          BY <1>t, <2>3 DEF Ends
    <3>2. \A n \in Names : bound'[n] \in {bound[n], None}
          BY <2>3 DEF Ends
    <3> QED
        BY <1>1, <2>3, <3>1, <3>2 DEF Ends
  <2> QED
      BY <1>5, <2>1, <2>2, <2>3 DEF ProcessStep, Exit, Crash
<1>6. ASSUME NEW f \in Frames, NEW w \in Windows, FrameChecks(f, w)
      PROVE  Runs' /\ NamesOfSessions' /\ OwnSession'
      BY <1>1, <1>6 DEF FrameChecks
<1>7. ASSUME NEW f \in Frames, FrameCalls(f)
      PROVE  Runs' /\ NamesOfSessions' /\ OwnSession'
      BY <1>1, <1>7 DEF FrameCalls
<1>8. CASE ServerRestarts
  <2>1. /\ run' = run + 1
        /\ UNCHANGED <<proc, bound>>
        /\ \A w \in Windows : server'[w] = None /\ starter'[w] \notin Starting
        BY <1>8 DEF ServerRestarts, Starting
  <2>2. Runs'
    <3>1. \A w \in Windows : Run[w] \in Nat
          BY ConstantsAssumption
    <3> QED
        BY <1>t, <1>i, <2>1, <3>1 DEF Runs
  <2> QED
      BY <1>i, <2>1, <2>2 DEF NamesOfSessions, OwnSession
<1>9. CASE UNCHANGED vars
      BY <1>1, <1>9 DEF vars
<1> QED
    BY <1>2, <1>3, <1>4, <1>5, <1>6, <1>7, <1>8, <1>9 DEF Next

\* A window talks to its own process or to one that an earlier run of the server
\* left behind under its name (WebBrowser.java lines 114 and 133), never to another
\* window's of the same run.
THEOREM TalksToItsOwn == Spec => []OwnSession
<1>1. SessionInv => OwnSession
      BY DEF SessionInv
<1> QED
    BY SessionInit, SessionStep, <1>1, PTL DEF Spec

-----------------------------------------------------------------------------
LEMMA FrameInit == Init => FrameInv
BY TypeInit, ConstantsAssumption DEF Init, FrameInv, Drawable, FailsOnlyClosed

LEMMA FrameStep == FrameInv /\ [Next]_vars => FrameInv'
<1> SUFFICES ASSUME FrameInv, [Next]_vars PROVE FrameInv'
    OBVIOUS
<1>0. TypeOK /\ TypeInv'
      BY TypeStep DEF FrameInv, TypeInv
<1>t. /\ win \in [Windows -> {"unopened", "open", "calling", "waiting", "closed", "lost"}]
      /\ starter \in [Windows -> Starting \cup {"unborn", "done", "dead"}]
      /\ server \in [Windows -> Sessions]
      /\ init \subseteq Windows
      /\ frame \in [Frames -> Sessions]
      /\ npe \subseteq Windows
      BY <1>0 DEF TypeOK
<1>i. Drawable /\ FailsOnlyClosed
      BY DEF FrameInv
<1>s. SUFFICES Drawable' /\ FailsOnlyClosed'
      BY <1>0 DEF FrameInv
<1> USE DEF window, thread, process, registry, drawing
\* A step that makes no window drawable and takes no server away.
<1>1. ASSUME init' \subseteq init, UNCHANGED <<frame, npe>>,
             \A w \in Windows : Served(w) => Served(w)',
             \A w \in Windows : win[w] \in {"closed", "lost"} => win'[w] \in {"closed", "lost"},
             \A w \in Windows : starter'[w] \in {"wait", "init"} =>
                 starter[w] \in {"wait", "init"}
      PROVE  Drawable' /\ FailsOnlyClosed'
  <2>1. Drawable'
        BY <1>1, <1>i DEF Drawable
  <2>2. FailsOnlyClosed'
        BY <1>t, <1>1, <1>i DEF FailsOnlyClosed
  <2> QED
      BY <2>1, <2>2
<1>2. ASSUME NEW w \in Windows, Open(w)
      PROVE  Drawable' /\ FailsOnlyClosed'
  <2>1. /\ UNCHANGED <<init, frame, npe, server>>
        /\ win[w] = "unopened"
        /\ \A v \in Windows \ {w} : win'[v] = win[v]
        /\ \A v \in Windows : starter'[v] \in {"wait", "init"} => starter[v] \in {"wait", "init"}
        BY <1>t, <1>2 DEF Open, Goto
  <2> QED
      BY <1>1, <2>1 DEF Served
<1>3. ASSUME NEW w \in Windows, StarterStep(w)
      PROVE  Drawable' /\ FailsOnlyClosed'
  <2>1. CASE Spawn(w) \/ TimesOut(w)
        BY <1>t, <1>1, <2>1 DEF Spawn, TimesOut, Goto, Served
  <2>2. CASE Lookup(w)
    <3>1. /\ UNCHANGED <<init, frame, npe, win>>
          /\ \A v \in Windows : server[v] # None => server'[v] # None
          BY <1>t, <2>2 DEF Lookup
    <3>2. \A v \in Windows : starter'[v] \in {"wait", "init"} => starter[v] \in {"wait", "init"}
          BY <1>t, <2>2 DEF Lookup, Goto
    <3> QED
        BY <1>1, <3>1, <3>2 DEF Served
  <2>3. CASE CallStart(w)
    <3>1. /\ UNCHANGED <<init, frame, npe, win, server>>
          /\ \A v \in Windows : starter'[v] \in {"wait", "init"} =>
                 starter[v] \in {"wait", "init"} \/ server[v] # None
          BY <1>t, <2>3 DEF CallStart, Goto
    <3> QED
        BY <1>t, <1>i, <3>1 DEF Drawable, FailsOnlyClosed, Served
  <2>4. CASE StartReturns(w)
    <3>1. /\ UNCHANGED <<init, frame, npe, win, server>>
          /\ \A v \in Windows : starter'[v] \in {"wait", "init"} => starter[v] \in {"wait", "init"}
          BY <1>t, <2>4 DEF StartReturns, Goto
    <3> QED
        BY <1>1, <3>1 DEF Served
  <2>5. CASE SetInit(w)
    <3>1. /\ UNCHANGED <<frame, npe, win, server>>
          /\ init' = init \cup {w} /\ starter[w] = "init"
          /\ \A v \in Windows : starter'[v] \in {"wait", "init"} => starter[v] \in {"wait", "init"}
          BY <1>t, <2>5 DEF SetInit, Goto
    <3> QED
        BY <1>t, <1>i, <3>1 DEF Drawable, FailsOnlyClosed, Served
  <2> QED
      BY <1>3, <2>1, <2>2, <2>3, <2>4, <2>5 DEF StarterStep
<1>4. ASSUME NEW w \in Windows, OnClose(w)
      PROVE  Drawable' /\ FailsOnlyClosed'
  <2>1. /\ UNCHANGED <<frame, npe, starter, server>> /\ init' \subseteq init
        /\ \A v \in Windows : win[v] \in {"closed", "lost"} => win'[v] \in {"closed", "lost"}
        BY <1>t, <1>4 DEF OnClose
  <2> QED
      BY <1>1, <2>1 DEF Served
<1>5. ASSUME NEW w \in Windows, MainStep(w)
      PROVE  Drawable' /\ FailsOnlyClosed'
  <2>1. /\ UNCHANGED <<frame, npe, starter, init>>
        /\ \A v \in Windows : win[v] \in {"closed", "lost"} => win'[v] \in {"closed", "lost"}
        /\ \A v \in Windows : server'[v] = server[v] \/ win'[v] = "closed"
        BY <1>t, <1>5 DEF MainStep, CallClose, CloseReturns
  <2> QED
      BY <1>1, <2>1 DEF Served
<1>6. ASSUME NEW w \in Windows, ProcessStep(w) \/ Crash(w)
      PROVE  Drawable' /\ FailsOnlyClosed'
      BY <1>1, <1>6 DEF ProcessStep, Crash, Exit, Boot, Bind, Ends, Served
<1>7. ASSUME NEW f \in Frames, NEW w \in Windows, FrameChecks(f, w)
      PROVE  Drawable' /\ FailsOnlyClosed'
  <2>1. /\ UNCHANGED <<win, server, init, starter, npe>>
        /\ w \in init
        /\ frame' = [frame EXCEPT ![f] = w]
        BY <1>7 DEF FrameChecks
  <2> QED
      BY <1>t, <1>i, <2>1 DEF Drawable, FailsOnlyClosed, Served
<1>8. ASSUME NEW f \in Frames, FrameCalls(f)
      PROVE  Drawable' /\ FailsOnlyClosed'
  <2>1. /\ UNCHANGED <<win, server, init, starter>>
        /\ \A g \in Frames : frame'[g] \in {frame[g], None}
        /\ frame[f] # None
        /\ npe' = npe \cup {w \in {frame[f]} : server[w] = None}
        BY <1>t, <1>8 DEF FrameCalls
  <2>2. frame[f] \in Windows
        BY <1>t, <2>1 DEF Sessions
  <2>3. Served(frame[f])
        BY <1>i, <2>2 DEF Drawable
  <2>4. FailsOnlyClosed'
        BY <1>i, <2>1, <2>3 DEF FailsOnlyClosed, Served
  <2>5. Drawable'
    <3>1. \A v \in Windows, g \in Frames : frame'[g] = v => frame[g] = v
          BY <2>1, ConstantsAssumption
    <3> QED
        BY <1>i, <2>1, <3>1 DEF Drawable, Served
  <2> QED
      BY <2>4, <2>5
<1>9. CASE ServerRestarts
  <2>1. /\ init' = {} /\ UNCHANGED npe
        /\ \A v \in Windows : starter'[v] \notin {"wait", "init"}
        /\ \A v \in Windows : win[v] \in {"closed", "lost"} => win'[v] = "lost"
        /\ \A g \in Frames : frame'[g] = None
        BY <1>9 DEF ServerRestarts
  <2> QED
      BY <1>t, <1>i, <2>1, ConstantsAssumption DEF Drawable, FailsOnlyClosed
<1>10. CASE UNCHANGED vars
      BY <1>1, <1>10 DEF vars, Served
<1> QED
    BY <1>2, <1>3, <1>4, <1>5, <1>6, <1>7, <1>8, <1>9, <1>10 DEF Next

\* A frame that finds no server draws a window that was closed, or lost with the
\* server: the starter thread sets init after server, and nothing takes server
\* away from a window that is open (WebBrowser.java lines 133 to 136 and 180 to 189).
THEOREM OnlyClosedFail == Spec => []FailsOnlyClosed
<1>1. FrameInv => FailsOnlyClosed
      BY DEF FrameInv
<1> QED
    BY FrameInit, FrameStep, <1>1, PTL DEF Spec

-----------------------------------------------------------------------------
(* What becomes of a window that met its process.                          *)

\* It has its own process for a server until it tells the process to close, and it
\* is closed only when that process has ended.
ProcessOf(w) ==
    /\ win[w] # "unopened"
    /\ win[w] \in {"open", "calling"} => server[w] = w
    /\ win[w] = "waiting" => told[w] = w
    /\ win[w] = "closed" => proc[w] = "exited"

MetInv == TypeInv /\ \A w \in met : ProcessOf(w)

LEMMA MetInit == Init => MetInv
BY TypeInit DEF Init, MetInv

LEMMA MetStep == MetInv /\ [Next]_vars => MetInv'
<1> SUFFICES ASSUME MetInv, [Next]_vars PROVE MetInv'
    OBVIOUS
<1>0. TypeInv' /\ met' \subseteq Windows
      BY TypeStep DEF MetInv, TypeInv, TypeOK
<1> SUFFICES ASSUME NEW w \in Windows, w \in met' PROVE ProcessOf(w)'
      BY <1>0 DEF MetInv
<1>t. /\ win \in [Windows -> {"unopened", "open", "calling", "waiting", "closed", "lost"}]
      /\ starter \in [Windows -> Starting \cup {"unborn", "done", "dead"}]
      /\ server \in [Windows -> Sessions]
      /\ told \in [Windows -> Sessions]
      /\ proc \in [Windows -> {"none", "failed", "boot", "bind", "up", "exited"}]
      /\ \A v \in Windows : /\ win[v] = "unopened" => starter[v] = "unborn"
                            /\ starter[v] \in {"unborn", "spawn"} => proc[v] = "none"
      BY DEF MetInv, TypeInv, TypeOK, Unspawned
<1>i. w \in met => ProcessOf(w)
      BY DEF MetInv
<1>n. None # w
      BY ConstantsAssumption
<1> USE DEF window, thread, process, registry, drawing
\* A step that leaves the window alone, and no process that has ended runs again.
<1>1. ASSUME w \in met, win'[w] = win[w], server'[w] = server[w], told'[w] = told[w],
             proc[w] = "exited" => proc'[w] = "exited"
      PROVE  ProcessOf(w)'
      BY <1>1, <1>i DEF ProcessOf
<1>2. ASSUME NEW v \in Windows, Open(v) PROVE ProcessOf(w)'
  <2>1. w \in met /\ v # w
        BY <1>i, <1>2 DEF Open, ProcessOf
  <2> QED
      BY <1>1, <1>2, <1>t, <2>1 DEF Open
<1>3. ASSUME NEW v \in Windows, StarterStep(v) PROVE ProcessOf(w)'
  <2>1. CASE Spawn(v)
        BY <1>1, <1>t, <2>1 DEF Spawn
  <2>2. CASE Lookup(v)
    <3>1. /\ server' = [server EXCEPT ![v] = bound[Session[v]]]
          /\ met' = IF bound[Session[v]] # v THEN met \ {v}
                    ELSE met \cup {u \in {v} : win[u] = "open"}
          /\ starter[v] = "lookup"
          /\ UNCHANGED <<win, told, proc>>
          BY <2>2 DEF Lookup
    <3>2. CASE v # w
          BY <1>1, <1>t, <3>1, <3>2
    <3>3. CASE v = w
      <4>1. server'[w] = w /\ bound[Session[w]] = w
            BY <1>t, <3>1, <3>3
      <4>2. w \in met \/ win[w] = "open"
            BY <3>1, <3>3, <4>1
      <4> QED
          BY <1>i, <3>1, <4>1, <4>2 DEF ProcessOf
    <3> QED
        BY <3>2, <3>3
  <2>3. CASE TimesOut(v) \/ CallStart(v) \/ StartReturns(v) \/ SetInit(v)
        BY <1>1, <2>3 DEF TimesOut, CallStart, StartReturns, SetInit
  <2> QED
      BY <1>3, <2>1, <2>2, <2>3 DEF StarterStep
<1>4. ASSUME NEW v \in Windows, OnClose(v) PROVE ProcessOf(w)'
  <2>1. CASE v # w
        BY <1>1, <1>4, <1>t, <2>1 DEF OnClose
  <2>2. CASE v = w
    <3>1. server[w] = w /\ w \in met
          BY <1>4, <1>i, <2>2 DEF OnClose, ProcessOf
    <3>2. win'[w] = "calling" /\ server' = server
          BY <1>4, <1>t, <1>n, <2>2, <3>1 DEF OnClose
    <3> QED
        BY <3>1, <3>2 DEF ProcessOf
  <2> QED
      BY <2>1, <2>2
<1>5. ASSUME NEW v \in Windows, MainStep(v) PROVE ProcessOf(w)'
  <2>1. CASE v # w
        BY <1>1, <1>5, <1>t, <2>1 DEF MainStep, CallClose, CloseReturns
  <2>2. CASE v = w /\ CallClose(w)
    <3>1. server[w] = w /\ win'[w] = "waiting" /\ told'[w] = server[w]
          BY <1>i, <1>t, <2>2 DEF CallClose, ProcessOf
    <3> QED
        BY <3>1 DEF ProcessOf
  <2>3. CASE v = w /\ CloseReturns(w)
    <3>1. told[w] = w /\ win'[w] = "closed" /\ proc'[w] = proc[w] /\ proc[told[w]] = "exited"
          BY <1>i, <1>t, <2>3 DEF CloseReturns, ProcessOf
    <3> QED
        BY <3>1 DEF ProcessOf
  <2> QED
      BY <1>5, <2>1, <2>2, <2>3 DEF MainStep
<1>6. ASSUME NEW v \in Windows, ProcessStep(v) \/ Crash(v) PROVE ProcessOf(w)'
      BY <1>1, <1>6, <1>t DEF ProcessStep, Crash, Exit, Boot, Bind, Ends
<1>7. ASSUME NEW f \in Frames, NEW v \in Windows, FrameChecks(f, v) PROVE ProcessOf(w)'
      BY <1>1, <1>7 DEF FrameChecks
<1>8. ASSUME NEW f \in Frames, FrameCalls(f) PROVE ProcessOf(w)'
      BY <1>1, <1>8 DEF FrameCalls
<1>9. CASE ServerRestarts
  <2>1. win'[w] = "lost"
        BY <1>9, <1>i DEF ServerRestarts, ProcessOf
  <2> QED
      BY <2>1 DEF ProcessOf
<1>10. CASE UNCHANGED vars
       BY <1>1, <1>10 DEF vars
<1> QED
    BY <1>2, <1>3, <1>4, <1>5, <1>6, <1>7, <1>8, <1>9, <1>10 DEF Next

\* The process of a window that met it has ended when the window is closed, for any
\* windows, whatever crashes and whatever the window's thread does meanwhile: onClose
\* forgets the server only after the call that ends it (WebBrowser.java lines 180 to
\* 189).
THEOREM ClosedProcessEnded == Spec => []ClosedIsGone
<1>1. MetInv => ClosedIsGone
      BY DEF MetInv, ProcessOf, ClosedIsGone
<1> QED
    BY MetInit, MetStep, <1>1, PTL DEF Spec
=============================================================================
