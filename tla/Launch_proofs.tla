--------------------------- MODULE Launch_proofs ---------------------------
(***************************************************************************)
(* Proofs about the launch of applications, for any number of computers,   *)
(* clicks and overlapping frames.                                          *)
(***************************************************************************)
EXTENDS Launch, TLAPS

USE DEF frame, touch

LEMMA InitInv == Init => IInv
<1> SUFFICES ASSUME Init
             PROVE  IInv
  OBVIOUS
<1> USE DEF Init
<1>1. TypeOK
  BY DEF TypeOK
<1>2. TasksHere /\ FinishedHere /\ FreshClicks
  BY DEF TasksHere, FinishedHere, FreshClicks
<1>3. TouchState /\ TaskNotLost /\ RanTasksLeave /\ LeftStays /\ OpensHere
  BY DEF TouchState, TaskNotLost, RanTasksLeave, LeftStays, OpensHere
<1> QED BY <1>1, <1>2, <1>3 DEF IInv

LEMMA StepInv == IInv /\ [Next]_vars => IInv'
<1> SUFFICES ASSUME IInv, [Next]_vars
             PROVE  IInv'
  OBVIOUS
<1> USE ConstantsAssumption DEF IInv
<1>1. ASSUME NEW k \in Clicks, NEW c \in Computers, Touch(k, c)
      PROVE  IInv'
  <2> USE <1>1 DEF Touch
  <2>1. TypeOK'
    BY DEF TypeOK
  <2>2. TasksHere'
    BY DEF TypeOK, TasksHere, TouchState
  <2>3. FinishedHere'
    BY DEF TypeOK, FinishedHere, TasksHere, TouchState
  <2>4. FreshClicks'
    BY DEF TypeOK, FreshClicks, TasksHere, TouchState
  <2>5. TouchState'
    BY DEF TypeOK, TouchState, FreshClicks
  <2>6. TaskNotLost'
    BY DEF TypeOK, TaskNotLost, FinishedHere
  <2>7. RanTasksLeave'
    BY DEF TypeOK, RanTasksLeave, FinishedHere, TasksHere, FreshClicks, TouchState
  <2>8. OpensHere'
    BY DEF TypeOK, OpensHere, TouchState
  <2>9. LeftStays'
    BY DEF TypeOK, LeftStays, FinishedHere, TasksHere, FreshClicks, TouchState
  <2> QED BY <2>1, <2>2, <2>3, <2>4, <2>5, <2>6, <2>7, <2>8, <2>9
<1>2. ASSUME NEW c \in Computers, TouchElsewhere(c)
      PROVE  IInv'
  <2> USE <1>2 DEF TouchElsewhere
  <2>1. TypeOK'
    BY DEF TypeOK
  <2>2. TasksHere'
    BY DEF TypeOK, TasksHere, TouchState
  <2>3. FinishedHere'
    BY DEF TypeOK, FinishedHere, TasksHere, TouchState
  <2>4. FreshClicks'
    BY DEF TypeOK, FreshClicks, TasksHere, TouchState
  <2>5. TouchState'
    BY DEF TypeOK, TouchState, FreshClicks
  <2>6. TaskNotLost'
    BY DEF TypeOK, TaskNotLost, FinishedHere
  <2>7. RanTasksLeave'
    BY DEF TypeOK, RanTasksLeave, FinishedHere, TasksHere, FreshClicks, TouchState
  <2>8. OpensHere'
    BY DEF TypeOK, OpensHere, TouchState
  <2>9. LeftStays'
    BY DEF TypeOK, LeftStays, FinishedHere, TasksHere, FreshClicks, TouchState
  <2> QED BY <2>1, <2>2, <2>3, <2>4, <2>5, <2>6, <2>7, <2>8, <2>9
<1>3. ASSUME Open
      PROVE  IInv'
  <2> USE <1>3 DEF Open
  <2>1. TypeOK'
    BY DEF TypeOK
  <2>2. TasksHere'
    BY DEF TypeOK, TasksHere, TouchState
  <2>3. FinishedHere'
    BY DEF TypeOK, FinishedHere, TasksHere, TouchState
  <2>4. FreshClicks'
    BY DEF TypeOK, FreshClicks, TasksHere, TouchState
  <2>5. TouchState'
    BY DEF TypeOK, TouchState, FreshClicks
  <2>6. TaskNotLost'
    BY DEF TypeOK, TaskNotLost, FinishedHere
  <2>7. RanTasksLeave'
    BY DEF TypeOK, RanTasksLeave, FinishedHere, TasksHere, FreshClicks, TouchState
  <2>8. OpensHere'
    BY DEF TypeOK, OpensHere, TouchState
  <2>9. LeftStays'
    BY DEF TypeOK, LeftStays, FinishedHere, TasksHere, FreshClicks, TouchState
  <2> QED BY <2>1, <2>2, <2>3, <2>4, <2>5, <2>6, <2>7, <2>8, <2>9
<1>4. ASSUME EndTouch
      PROVE  IInv'
  <2> USE <1>4 DEF EndTouch
  <2>1. TypeOK'
    BY DEF TypeOK
  <2>2. TasksHere'
    BY DEF TypeOK, TasksHere, TouchState
  <2>3. FinishedHere'
    BY DEF TypeOK, FinishedHere, TasksHere, TouchState
  <2>4. FreshClicks'
    BY DEF TypeOK, FreshClicks, TasksHere, TouchState
  <2>5. TouchState'
    BY DEF TypeOK, TouchState, FreshClicks
  <2>6. TaskNotLost'
    BY DEF TypeOK, TaskNotLost, FinishedHere
  <2>7. RanTasksLeave'
    BY DEF TypeOK, RanTasksLeave, FinishedHere, TasksHere, FreshClicks, TouchState
  <2>8. OpensHere'
    BY DEF TypeOK, OpensHere, TouchState
  <2>9. LeftStays'
    BY DEF TypeOK, LeftStays, FinishedHere, TasksHere, FreshClicks, TouchState
  <2> QED BY <2>1, <2>2, <2>3, <2>4, <2>5, <2>6, <2>7, <2>8, <2>9
<1>5. ASSUME NEW f \in Frames, StartFrame(f)
      PROVE  IInv'
  <2> USE <1>5 DEF StartFrame
  <2>1. TypeOK'
    BY DEF TypeOK
  <2>2. TasksHere'
    BY DEF TypeOK, TasksHere, TouchState
  <2>3. FinishedHere'
    BY DEF TypeOK, FinishedHere, TasksHere, TouchState
  <2>4. FreshClicks'
    BY DEF TypeOK, FreshClicks, TasksHere, TouchState
  <2>5. TouchState'
    BY DEF TypeOK, TouchState, FreshClicks
  <2>6. TaskNotLost'
    BY DEF TypeOK, TaskNotLost, FinishedHere
  <2>7. RanTasksLeave'
    BY DEF TypeOK, RanTasksLeave, FinishedHere, TasksHere, FreshClicks, TouchState
  <2>8. OpensHere'
    BY DEF TypeOK, OpensHere, TouchState
  <2>9. LeftStays'
    BY DEF TypeOK, LeftStays, FinishedHere, TasksHere, FreshClicks, TouchState
  <2> QED BY <2>1, <2>2, <2>3, <2>4, <2>5, <2>6, <2>7, <2>8, <2>9
<1>6. ASSUME NEW f \in Frames, RunThreads(f)
      PROVE  IInv'
  <2> USE <1>6 DEF RunThreads, OpenWindows
  <2>1. TypeOK'
    BY DEF TypeOK
  <2>2. TasksHere'
    BY DEF TypeOK, TasksHere, TouchState
  <2>3. FinishedHere'
    BY DEF TypeOK, FinishedHere, TasksHere, TouchState
  <2>4. FreshClicks'
    BY DEF TypeOK, FreshClicks, TasksHere, TouchState
  <2>5. TouchState'
    BY DEF TypeOK, TouchState, FreshClicks
  <2>6. TaskNotLost'
    BY DEF TypeOK, TaskNotLost, FinishedHere
  <2>7. RanTasksLeave'
    BY DEF TypeOK, RanTasksLeave, FinishedHere, TasksHere, FreshClicks, TouchState
  <2>8. OpensHere'
    BY DEF TypeOK, OpensHere, TouchState
  <2>9. LeftStays'
    BY DEF TypeOK, LeftStays, FinishedHere, TasksHere, FreshClicks, TouchState
  <2> QED BY <2>1, <2>2, <2>3, <2>4, <2>5, <2>6, <2>7, <2>8, <2>9
<1>7. ASSUME NEW f \in Frames, RemoveFinished(f)
      PROVE  IInv'
  <2> USE <1>7 DEF RemoveFinished
  <2>1. TypeOK'
    BY DEF TypeOK
  <2>2. TasksHere'
    BY DEF TypeOK, TasksHere, TouchState
  <2>3. FinishedHere'
    BY DEF TypeOK, FinishedHere, TasksHere, TouchState
  <2>4. FreshClicks'
    BY DEF TypeOK, FreshClicks, TasksHere, TouchState
  <2>5. TouchState'
    BY DEF TypeOK, TouchState, FreshClicks
  <2>6. TaskNotLost'
    BY DEF TypeOK, TaskNotLost, FinishedHere
  <2>7. RanTasksLeave'
    BY DEF TypeOK, RanTasksLeave, FinishedHere, TasksHere, FreshClicks, TouchState
  <2>8. OpensHere'
    BY DEF TypeOK, OpensHere, TouchState
  <2>9. LeftStays'
    BY DEF TypeOK, LeftStays, FinishedHere, TasksHere, FreshClicks, TouchState
  <2> QED BY <2>1, <2>2, <2>3, <2>4, <2>5, <2>6, <2>7, <2>8, <2>9
<1>8. ASSUME NEW f \in Frames, EndFrame(f)
      PROVE  IInv'
  <2> USE <1>8 DEF EndFrame
  <2>1. TypeOK'
    BY DEF TypeOK
  <2>2. TasksHere'
    BY DEF TypeOK, TasksHere, TouchState
  <2>3. FinishedHere'
    BY DEF TypeOK, FinishedHere, TasksHere, TouchState
  <2>4. FreshClicks'
    BY DEF TypeOK, FreshClicks, TasksHere, TouchState
  <2>5. TouchState'
    BY DEF TypeOK, TouchState, FreshClicks
  <2>6. TaskNotLost'
    BY DEF TypeOK, TaskNotLost, FinishedHere
  <2>7. RanTasksLeave'
    BY DEF TypeOK, RanTasksLeave, FinishedHere, TasksHere, FreshClicks, TouchState
  <2>8. OpensHere'
    BY DEF TypeOK, OpensHere, TouchState
  <2>9. LeftStays'
    BY DEF TypeOK, LeftStays, FinishedHere, TasksHere, FreshClicks, TouchState
  <2> QED BY <2>1, <2>2, <2>3, <2>4, <2>5, <2>6, <2>7, <2>8, <2>9
<1>9. ASSUME NEW f \in Frames, RunFails(f)
      PROVE  IInv'
  <2> USE <1>9 DEF RunFails, OpenWindows
  <2>1. TypeOK'
    BY DEF TypeOK
  <2>2. TasksHere'
    BY DEF TypeOK, TasksHere, TouchState
  <2>3. FinishedHere'
    BY DEF TypeOK, FinishedHere, TasksHere, TouchState
  <2>4. FreshClicks'
    BY DEF TypeOK, FreshClicks, TasksHere, TouchState
  <2>5. TouchState'
    BY DEF TypeOK, TouchState, FreshClicks
  <2>6. TaskNotLost'
    BY DEF TypeOK, TaskNotLost, FinishedHere
  <2>7. RanTasksLeave'
    BY DEF TypeOK, RanTasksLeave, FinishedHere, TasksHere, FreshClicks, TouchState
  <2>8. OpensHere'
    BY DEF TypeOK, OpensHere, TouchState
  <2>9. LeftStays'
    BY DEF TypeOK, LeftStays, FinishedHere, TasksHere, FreshClicks, TouchState
  <2> QED BY <2>1, <2>2, <2>3, <2>4, <2>5, <2>6, <2>7, <2>8, <2>9
<1>10. CASE UNCHANGED vars
  BY <1>10 DEF vars, TypeOK, TasksHere, FinishedHere, FreshClicks, TouchState,
     TaskNotLost, RanTasksLeave, LeftStays, OpensHere
<1> QED
  BY <1>1, <1>2, <1>3, <1>4, <1>5, <1>6, <1>7, <1>8, <1>9, <1>10 DEF Next, TouchStep, FrameStep

\* The inductive invariant holds in every reachable state.
LEMMA InvAlways == Spec => []IInv
BY InitInv, StepInv, PTL DEF Spec

\* Type correctness of TotalOS.current, the system threads and the frames.
THEOREM Typing == Spec => []TypeOK
<1>1. IInv => TypeOK
  BY DEF IInv
<1> QED BY <1>1, InvAlways, PTL

\* However many frames overlap, no task is removed from a computer's threads
\* before it has run.
THEOREM NoTaskLost == Spec => []TaskNotLost
<1>1. IInv => TaskNotLost
  BY DEF IInv
<1> QED BY <1>1, InvAlways, PTL

\* A task that has run is still in threads only while a frame that ran it is about
\* to remove it, or since a frame that ran it failed before it could.
THEOREM RanTasksGo == Spec => []RanTasksLeave
<1>1. IInv => RanTasksLeave
  BY DEF IInv
<1> QED BY <1>1, InvAlways, PTL

\* A click starts its application where it was made unless a frame wrote
\* TotalOS.current between the click and the start.
THEOREM OpenedHere == Spec => []OpensHere
<1>1. IInv => OpensHere
  BY DEF IInv
<1> QED BY <1>1, InvAlways, PTL

-----------------------------------------------------------------------------
(* The refinement.                                                         *)

WaitingTasks == {k \in Clicks : Listed(k) /\ windows[k] = 0}
LingeringTasks == {k \in Clicks : Listed(k) /\ windows[k] > 0}
listed == <<target, WaitingTasks, LingeringTasks, windows>>

\* What neither puts nor runs nor removes a task is a stutter.
LEMMA StutterListed ==
    ASSUME UNCHANGED <<threads, target, windows>>
    PROVE  UNCHANGED listed
BY DEF listed, WaitingTasks, LingeringTasks, Listed

\* The tasks at a computer are its threads.
LEMMA TasksOfComputer ==
    ASSUME IInv, NEW c \in Computers
    PROVE  List!TasksAt(c) = threads[c]
<1>1. \A k \in Clicks : windows[k] = 0 \/ windows[k] > 0
  BY DEF IInv, TypeOK
<1>2. ASSUME NEW k \in Clicks PROVE Listed(k) /\ target[k] = c <=> k \in threads[c]
  BY DEF IInv, TasksHere, Listed
<1>3. threads[c] \subseteq Clicks
  BY DEF IInv, TypeOK
<1> QED BY <1>1, <1>2, <1>3 DEF List!TasksAt

LEMMA OpenPuts ==
    ASSUME IInv, Open
    PROVE  [List!Next]_listed
<1> USE ConstantsAssumption
<1>0. /\ click \in Clicks
      /\ target[click] = None
      /\ windows[click] = 0
      /\ current \in Computers \cup {None}
  BY DEF IInv, TypeOK, TouchState, FreshClicks, Open
<1>1. CASE current = None
  <2>1. UNCHANGED <<target, windows>>
    BY <1>0, <1>1 DEF Open, IInv, TypeOK
  <2>2. UNCHANGED threads
    BY <1>1 DEF Open, IInv, TypeOK
  <2> QED BY <2>1, <2>2, StutterListed
<1>2. CASE current \in Computers
  <2>1. /\ target' = [target EXCEPT ![click] = current]
        /\ UNCHANGED windows
    BY DEF Open
  <2>2. \A k \in Clicks : Listed(k)' <=> Listed(k) \/ k = click
    BY <1>2 DEF Open, Listed
  <2>3. WaitingTasks' = WaitingTasks \cup {click}
    BY <1>0, <2>1, <2>2 DEF WaitingTasks
  <2>4. LingeringTasks' = LingeringTasks
    BY <1>0, <2>1, <2>2 DEF LingeringTasks
  <2>5. List!Put(click, current)
    BY <1>0, <2>1, <2>3, <2>4 DEF List!Put, WaitingTasks, LingeringTasks
  <2>6. List!Next
    BY <1>0, <1>2, <2>5 DEF List!Next, List!Put
  <2> QED BY <2>6
<1> QED BY <1>0, <1>1, <1>2

\* A step that runs some of a computer's threads and removes none is a run.
LEMMA RunsTasks ==
    ASSUME IInv, NEW c \in Computers, NEW done \in SUBSET threads[c],
           OpenWindows(done), UNCHANGED <<threads, target>>
    PROVE  List!Next
<1>1. List!TasksAt(c) = threads[c] /\ threads[c] \subseteq Clicks
  BY TasksOfComputer DEF IInv, TypeOK
<1>2. ASSUME NEW k \in Clicks
      PROVE  /\ windows[k] \in Nat
             /\ windows'[k] = IF k \in done THEN windows[k] + 1 ELSE windows[k]
             /\ Listed(k)' <=> Listed(k)
             /\ k \in done => Listed(k)
  BY DEF IInv, TypeOK, Listed, OpenWindows
<1>3. WaitingTasks' = WaitingTasks \ done
  BY <1>2 DEF WaitingTasks
<1>4. LingeringTasks' = LingeringTasks \cup done
  BY <1>1, <1>2 DEF LingeringTasks
<1>5. List!Run(done)
  BY <1>3, <1>4 DEF List!Run, WaitingTasks, LingeringTasks, OpenWindows
<1>6. done \in SUBSET List!TasksAt(c)
  BY <1>1
<1> QED BY <1>5, <1>6 DEF List!Next

LEMMA FrameRemoves ==
    ASSUME IInv, NEW f \in Frames, RemoveFinished(f)
    PROVE  List!Leave(Screen[f])
<1> DEFINE c == Screen[f]
           gone == finished[f] \cap threads[c]
<1>1. c \in Computers
  BY ConstantsAssumption
<1>2. List!TasksAt(c) = threads[c] /\ threads[c] \subseteq Clicks
  BY <1>1, TasksOfComputer DEF IInv, TypeOK
<1>3. /\ UNCHANGED <<target, windows>>
      /\ threads' = [threads EXCEPT ![c] = @ \ finished[f]]
  BY DEF RemoveFinished
<1>4. \A k \in gone : k \in Clicks /\ windows[k] > 0 /\ Listed(k)
  BY <1>1, <1>2 DEF IInv, FinishedHere, Listed
<1>5. ASSUME NEW k \in Clicks PROVE Listed(k)' <=> Listed(k) /\ k \notin gone
  BY <1>1, <1>3 DEF IInv, TypeOK, TasksHere, Listed
<1>6. gone \subseteq LingeringTasks \cap List!TasksAt(c)
  BY <1>2, <1>4 DEF LingeringTasks
<1>7. LingeringTasks' = LingeringTasks \ gone
  BY <1>3, <1>5 DEF LingeringTasks
<1>8. WaitingTasks' = WaitingTasks
  <2>1. \A k \in gone : windows[k] # 0
    BY <1>4
  <2> QED BY <1>3, <1>5, <2>1 DEF WaitingTasks
<1> HIDE DEF gone
<1> QED BY <1>3, <1>6, <1>7, <1>8 DEF List!Leave, WaitingTasks, LingeringTasks

\* However touches and frames overlap, TotalOS and renderFrame implement TaskList:
\* nothing is removed that has not run, and nothing runs that was removed.
THEOREM ListsTasks == Spec => TasksAreListed
<1>1. Init => List!Init
  <2> SUFFICES ASSUME Init PROVE List!Init
    OBVIOUS
  <2>1. \A k \in Clicks : ~Listed(k)
    BY DEF Init, Listed
  <2> QED BY <2>1 DEF Init, List!Init
<1>2. ASSUME IInv, [Next]_vars PROVE [List!Next]_listed
  <2>1. ASSUME NEW k \in Clicks, NEW c \in Computers, Touch(k, c) PROVE UNCHANGED listed
    BY <2>1, StutterListed DEF Touch
  <2>2. ASSUME NEW c \in Computers, TouchElsewhere(c) PROVE UNCHANGED listed
    BY <2>2, StutterListed DEF TouchElsewhere
  <2>3. CASE Open
    BY <1>2, <2>3, OpenPuts
  <2>4. CASE EndTouch
    BY <2>4, StutterListed DEF EndTouch
  <2>5. ASSUME NEW f \in Frames, StartFrame(f) \/ EndFrame(f) PROVE UNCHANGED listed
    BY <2>5, StutterListed DEF StartFrame, EndFrame
  <2>6. ASSUME NEW f \in Frames, RunThreads(f) \/ RunFails(f) PROVE List!Next
    <3>1. Screen[f] \in Computers
      BY ConstantsAssumption
    <3>2. PICK done \in SUBSET threads[Screen[f]] : OpenWindows(done)
      BY <2>6 DEF RunThreads, RunFails
    <3>3. UNCHANGED <<threads, target>>
      BY <2>6 DEF RunThreads, RunFails
    <3> QED BY <1>2, <3>1, <3>2, <3>3, RunsTasks
  <2>7. ASSUME NEW f \in Frames, RemoveFinished(f) PROVE List!Next
    BY <1>2, <2>7, FrameRemoves, ConstantsAssumption DEF List!Next
  <2>8. CASE UNCHANGED vars
    BY <2>8, StutterListed DEF vars
  <2> QED BY <1>2, <2>1, <2>2, <2>3, <2>4, <2>5, <2>6, <2>7, <2>8
          DEF Next, TouchStep, FrameStep
<1> QED BY <1>1, <1>2, InvAlways, PTL DEF Spec, TasksAreListed, List!Spec, listed,
           WaitingTasks, LingeringTasks
=============================================================================
