--------------------------- MODULE Lifecycle_proofs ---------------------------
(***************************************************************************)
(* Proofs about Lifecycle, for any number of frame threads, any number of  *)
(* logins and any delay.                                                   *)
(***************************************************************************)
EXTENDS Lifecycle, TLAPS

\* What holds of a login that no other one overlaps: it is alone, shows nothing
\* yet, and shows the Desktop that it registered.
Alone == ~twice => \A k, l \in Logins : LoginRuns(k) /\ LoginRuns(l) => k = l
Unshown == ~twice => \A l \in Logins : LoginRuns(l) => screen \notin Logins
Registered == ~twice => \A l \in Logins : login[l] = "show" => handler = l

DesktopInv == TypeOK /\ Alone /\ Unshown /\ Registered /\ OneDesktop

\* A computer that was turned off in time has no thread that shows a state.
Quiet ==
    ~on /\ main = "idle" /\ ~late =>
        /\ \A l \in Logins : ~LoginRuns(l)
        /\ \A f \in Frames : ~FrameShows(f)

SplashOn == main = "splash" => on

DarkInv == TypeOK /\ Quiet /\ SplashOn /\ DarkWhenOff

-----------------------------------------------------------------------------
\* The names of the states, of the Desktops and of null are different.
LEMMA Different ==
    /\ \A l \in Logins : l \notin Blues /\ l \notin Fixed /\ l # None
    /\ None \notin Blues /\ None \notin Fixed
    /\ Blues \cap Fixed = {}
BY ConstantsAssumption DEF Blues, Fixed

LEMMA TypeInit == Init => TypeOK
<1> SUFFICES ASSUME Init PROVE TypeOK
    OBVIOUS
<1> USE DEF Init
<1>1. seen \in [Frames -> Int] /\ \A f \in Frames : seen[f] >= -2
      OBVIOUS
<1>2. uncaught \in Int /\ uncaught >= -2
      OBVIOUS
<1>3. login \in [Logins -> {"none", "construct", "register", "show"}]
      OBVIOUS
<1>4. frame \in [Frames ->
          {"idle", "draw", "setup", "login", "count", "blue", "show", "show stuck"}]
      OBVIOUS
<1> QED
    BY <1>1, <1>2, <1>3, <1>4 DEF TypeOK, Screens

LEMMA TypeStep == TypeOK /\ [Next]_vars => TypeOK'
<1> SUFFICES ASSUME TypeOK, [Next]_vars PROVE TypeOK'
    OBVIOUS
<1> USE DEF TypeOK, Screens, power, threads, count
<1>1. CASE TouchOff \/ TouchSetup \/ TouchDesktop \/ TouchBlue
      BY <1>1 DEF TouchOff, TouchSetup, TouchDesktop, TouchBlue, TurnsOn, TurnsOff,
                  MainOnly
<1>2. ASSUME NEW l \in Logins, TouchLogin(l)
      PROVE  TypeOK'
      BY <1>2 DEF TouchLogin
<1>3. ASSUME NEW l \in Logins, LoginStep(l)
      PROVE  TypeOK'
      BY <1>3 DEF LoginStep, Construct, Register, ShowDesktop, LoginOnly
<1>4. CASE MainStep
      BY <1>4 DEF MainStep, Blank, TurnOn, TurnsOn, ShowSplash, MainOnly, Fixed
<1>5. ASSUME NEW f \in Frames, FrameStep(f)
      PROVE  TypeOK'
  <2>1. CASE SplashEnds(f)
        BY <2>1 DEF SplashEnds, FrameOnly
  <2>2. CASE LeaveSplash(f)
        BY <2>2 DEF LeaveSplash, FrameOnly, Fixed
  <2>3. CASE Succeed(f)
    <3>1. uncaught' \in Int /\ uncaught' >= -2
      <4>1. uncaught' = 0
            BY <2>3 DEF Succeed
      <4> HIDE DEF TypeOK
      <4> QED
          BY <4>1
    <3> QED
        BY <2>3, <3>1 DEF Succeed, FrameOnly
  <2>4. CASE Fail(f)
    <3>1. seen' \in [Frames -> Int] /\ \A g \in Frames : seen'[g] >= -2
          BY <2>4 DEF Fail
    <3>2. frame' \in [Frames ->
              {"idle", "draw", "setup", "login", "count", "blue", "show", "show stuck"}]
          BY <2>4 DEF Fail
    <3> QED
        BY <2>4, <3>1, <3>2 DEF Fail, FrameOnly
  <2>5. CASE Count(f)
    <3>1. PICK read \in {seen[f], uncaught} : uncaught' = read + 1
          BY <2>5 DEF Count
    <3>2. uncaught' \in Int /\ uncaught' >= -2
      <4>1. read \in Int /\ read >= -2
            OBVIOUS
      <4> HIDE DEF TypeOK
      <4> QED
          BY <3>1, <4>1
    <3>3. seen' \in [Frames -> Int] /\ \A g \in Frames : seen'[g] >= -2
      <4>1. seen' = [seen EXCEPT ![f] = 0]
            BY <2>5 DEF Count
      <4>2. seen \in [Frames -> Int] /\ \A g \in Frames : seen[g] >= -2
            OBVIOUS
      <4> HIDE DEF TypeOK
      <4> QED
          BY <4>1, <4>2
    <3>4. frame' \in [Frames ->
              {"idle", "draw", "setup", "login", "count", "blue", "show", "show stuck"}]
          BY <2>5 DEF Count
    <3> QED
        BY <2>5, <3>2, <3>3, <3>4 DEF Count, FrameOnly
  <2>6. CASE InvokeBSoD(f)
        BY <2>6 DEF InvokeBSoD, FrameOnly
  <2>7. CASE ShowBSoD(f)
        BY <2>7 DEF ShowBSoD, FrameOnly, Blues
  <2> QED
      BY <1>5, <2>1, <2>2, <2>3, <2>4, <2>5, <2>6, <2>7 DEF FrameStep
<1>6. CASE Prerender
      BY <1>6 DEF Prerender, Blues
<1>7. CASE UNCHANGED vars
      BY <1>7 DEF vars
<1> QED
    BY <1>1, <1>2, <1>3, <1>4, <1>5, <1>6, <1>7 DEF Next

\* Type correctness of one computer, its frames, its logins and its blue screen.
THEOREM Typing == Spec => []TypeOK
<1>1. Init => TypeOK
      BY TypeInit
<1>2. TypeOK /\ [Next]_vars => TypeOK'
      BY TypeStep
<1> QED
    BY <1>1, <1>2, PTL DEF Spec

-----------------------------------------------------------------------------
LEMMA DesktopInit == Init => DesktopInv
<1> SUFFICES ASSUME Init PROVE DesktopInv
    OBVIOUS
<1>1. \A l \in Logins : login[l] = "none"
      BY DEF Init
<1>2. screen \notin Logins
      BY Different DEF Init
<1> QED
    BY <1>1, <1>2, TypeInit DEF DesktopInv, Alone, Unshown, Registered, OneDesktop,
       LoginRuns

LEMMA DesktopStep == DesktopInv /\ [Next]_vars => DesktopInv'
<1> SUFFICES ASSUME DesktopInv, [Next]_vars PROVE DesktopInv'
    OBVIOUS
<1>0. TypeOK'
      BY TypeStep DEF DesktopInv
<1> USE DEF power, threads, count
<1> USE Different DEF Alone, Unshown, Registered, OneDesktop, LoginRuns
\* A step that leaves the logins alone and shows no Desktop that was not shown.
<1>k. ASSUME UNCHANGED <<twice, login, handler>>, screen' \notin Logins \/ screen' = screen
      PROVE  DesktopInv'
      BY <1>0, <1>k DEF DesktopInv
<1>1. CASE TouchOff \/ TouchSetup \/ TouchDesktop \/ TouchBlue
      BY <1>1, <1>k DEF TouchOff, TouchSetup, TouchDesktop, TouchBlue, TurnsOn, TurnsOff,
                  MainOnly
<1>2. ASSUME NEW l \in Logins, TouchLogin(l)
      PROVE  DesktopInv'
  <2>1. /\ login' = [login EXCEPT ![l] = "construct"]
        /\ UNCHANGED <<screen, handler>>
        /\ screen \notin Logins
        /\ twice' = (\E k \in Logins : LoginRuns(k))
        BY <1>2 DEF TouchLogin, Fixed
  <2>2. login \in [Logins -> {"none", "construct", "register", "show"}]
        BY DEF DesktopInv, TypeOK
  <2>3. ~twice' => \A k \in Logins : login[k] = "none"
        BY <2>1
  <2> QED
      BY <1>0, <2>1, <2>2, <2>3 DEF DesktopInv
<1>3. ASSUME NEW l \in Logins, LoginStep(l)
      PROVE  DesktopInv'
  <2>t. login \in [Logins -> {"none", "construct", "register", "show"}]
        BY DEF DesktopInv, TypeOK
  <2>1. CASE Construct(l)
        BY <1>0, <2>1, <2>t DEF Construct, LoginOnly, DesktopInv
  <2>2. CASE Register(l)
        BY <1>0, <2>2, <2>t DEF Register, LoginOnly, DesktopInv
  <2>3. CASE ShowDesktop(l)
        BY <1>0, <2>3, <2>t DEF ShowDesktop, LoginOnly, DesktopInv
  <2> QED
      BY <1>3, <2>1, <2>2, <2>3 DEF LoginStep
<1>4. CASE MainStep
      BY <1>4, <1>k DEF MainStep, Blank, TurnOn, TurnsOn, ShowSplash, MainOnly, Fixed
<1>5. ASSUME NEW f \in Frames, FrameStep(f)
      PROVE  DesktopInv'
  <2>1. UNCHANGED <<twice, login, handler>>
        BY <1>5 DEF FrameStep, SplashEnds, LeaveSplash, Succeed, Fail, Count, InvokeBSoD,
                    ShowBSoD, FrameOnly
  <2>2. screen' \notin Logins \/ screen' = screen
        BY <1>5 DEF FrameStep, SplashEnds, LeaveSplash, Succeed, Fail, Count, InvokeBSoD,
                    ShowBSoD, FrameOnly, Fixed, Blues
  <2> QED
      BY <2>1, <2>2, <1>k
<1>6. CASE Prerender
      BY <1>6, <1>k DEF Prerender, Blues
<1>7. CASE UNCHANGED vars
      BY <1>7, <1>k DEF vars
<1> QED
    BY <1>1, <1>2, <1>3, <1>4, <1>5, <1>6, <1>7 DEF Next

\* The Desktop that is shown is the one that windows open on, unless two logins
\* overlapped (LoginScreen.tryLogIn, Desktop's constructor): a login that is alone
\* finds no Desktop shown and registers its own before it shows it.
THEOREM WindowsOnShownDesktop == Spec => []OneDesktop
<1>1. DesktopInv => OneDesktop
      BY DEF DesktopInv
<1> QED
    BY DesktopInit, DesktopStep, <1>1, PTL DEF Spec

-----------------------------------------------------------------------------
LEMMA DarkInit == Init => DarkInv
<1> SUFFICES ASSUME Init PROVE DarkInv
    OBVIOUS
<1>1. \A l \in Logins : ~LoginRuns(l)
      BY DEF Init, LoginRuns
<1>2. \A f \in Frames : ~FrameShows(f)
      BY DEF Init, FrameShows
<1> QED
    BY <1>1, <1>2, TypeInit DEF Init, DarkInv, Quiet, SplashOn, DarkWhenOff

LEMMA DarkStep == DarkInv /\ [Next]_vars => DarkInv'
<1> SUFFICES ASSUME DarkInv, [Next]_vars PROVE DarkInv'
    OBVIOUS
<1>0. TypeOK'
      BY TypeStep DEF DarkInv
<1> USE DEF power, threads, count, Quiet, SplashOn, DarkWhenOff
<1> USE Different
<1>1. CASE TouchOff \/ TouchSetup \/ TouchDesktop \/ TouchBlue
      BY <1>0, <1>1 DEF DarkInv, TouchOff, TouchSetup, TouchDesktop, TouchBlue, TurnsOn,
                        TurnsOff, Idle
<1>2. ASSUME NEW l \in Logins, TouchLogin(l)
      PROVE  DarkInv'
      BY <1>0, <1>2 DEF DarkInv, TouchLogin, Idle
<1>3. ASSUME NEW l \in Logins, LoginStep(l)
      PROVE  DarkInv'
  <2>1. LoginRuns(l)
        BY <1>3 DEF LoginStep, Construct, Register, ShowDesktop, LoginRuns
  <2>2. UNCHANGED <<on, main, late>>
        BY <1>3 DEF LoginStep, Construct, Register, ShowDesktop, LoginOnly
  <2>3. ~(~on /\ main = "idle" /\ ~late)
        BY <2>1 DEF DarkInv
  <2> QED
      BY <1>0, <2>2, <2>3 DEF DarkInv
<1>4. CASE MainStep
  <2>1. CASE Blank
    <3>1. ~late' => /\ \A l \in Logins : ~LoginRuns(l)
                    /\ \A f \in Frames : ~FrameShows(f)
          BY <2>1 DEF Blank
    <3>2. UNCHANGED <<on, login, frame>> /\ screen' = None /\ main' # "splash"
          BY <2>1 DEF Blank, MainOnly
    <3> QED
        BY <1>0, <3>1, <3>2 DEF DarkInv, LoginRuns, FrameShows
  <2>2. CASE TurnOn
        BY <1>0, <2>2 DEF DarkInv, TurnOn, TurnsOn
  <2>3. CASE ShowSplash
        BY <1>0, <2>3 DEF DarkInv, ShowSplash
  <2> QED
      BY <1>4, <2>1, <2>2, <2>3 DEF MainStep
<1>5. ASSUME NEW f \in Frames, FrameStep(f)
      PROVE  DarkInv'
  <2>1. UNCHANGED <<on, main, late, login>>
        BY <1>5 DEF FrameStep, SplashEnds, LeaveSplash, Succeed, Fail, Count, InvokeBSoD,
                    ShowBSoD, FrameOnly
  <2>2. frame \in [Frames ->
            {"idle", "draw", "setup", "login", "count", "blue", "show", "show stuck"}]
        BY DEF DarkInv, TypeOK
  <2>3. CASE ~(~on /\ main = "idle" /\ ~late)
        BY <1>0, <2>1, <2>3 DEF DarkInv
  <2>4. CASE ~on /\ main = "idle" /\ ~late
    <3>1. screen \in Blues \cup {None} /\ screen # "splash"
          BY <2>4 DEF DarkInv, Fixed
    <3>2. \A g \in Frames : ~FrameShows(g)
          BY <2>4 DEF DarkInv
    <3>3. ~SplashEnds(f) /\ ~LeaveSplash(f)
          BY <3>1, <3>2 DEF SplashEnds, LeaveSplash, FrameShows
    <3>4. screen' \in Blues \cup {None}
          BY <1>5, <3>1, <3>3 DEF FrameStep, Succeed, Fail, Count, InvokeBSoD, ShowBSoD, Blues
    <3>5. \A g \in Frames : ~FrameShows(g)'
      <4>1. PICK pc \in {"idle", "count", "blue", "show", "show stuck"} :
                frame' = [frame EXCEPT ![f] = pc]
            BY <1>5, <3>3 DEF FrameStep, Succeed, Fail, Count, InvokeBSoD, ShowBSoD
      <4> QED
          BY <2>2, <3>2, <4>1 DEF FrameShows
    <3>6. \A l \in Logins : ~LoginRuns(l)'
          BY <2>1, <2>4 DEF DarkInv, LoginRuns
    <3> QED
        BY <1>0, <2>1, <2>4, <3>4, <3>5, <3>6 DEF DarkInv
  <2> QED
      BY <2>3, <2>4
<1>6. CASE Prerender
      BY <1>0, <1>6 DEF DarkInv, Prerender, Blues, LoginRuns, FrameShows
<1>7. CASE UNCHANGED vars
      BY <1>0, <1>7 DEF vars, DarkInv, LoginRuns, FrameShows
<1> QED
    BY <1>1, <1>2, <1>3, <1>4, <1>5, <1>6, <1>7 DEF Next

\* A computer that was turned off while no thread was about to show a state stays
\* dark, but for a blue screen (TotalOS.turnOff, SplashScreen, LoginScreen): a
\* login begins and a splash screen is shown on a computer that is on only.
THEOREM StaysDark == Spec => []DarkWhenOff
<1>1. DarkInv => DarkWhenOff
      BY DEF DarkInv
<1> QED
    BY DarkInit, DarkStep, <1>1, PTL DEF Spec

=============================================================================
