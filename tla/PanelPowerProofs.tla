-------------------------- MODULE PanelPowerProofs --------------------------
(***************************************************************************)
(* Safety of PanelPower for every value of its constants.                  *)
(*                                                                         *)
(* SequenceInv says where the off sequence can be relative to the light    *)
(* and what the screen shows meanwhile; it needs no assumption on failures *)
(* or fingers.  MarginInv adds the timing: what may still be moving while  *)
(* the cut approaches, stalls of the event loop included.  It needs that   *)
(* DPMS On succeeds and that no finger rests on a control across the       *)
(* sequence.                                                               *)
(***************************************************************************)
EXTENDS PanelPower, TLAPS

\* The off sequence runs only while the effective brightness is 0; the UI is
\* frozen exactly from Freeze on; the clock shown is the last one recorded.
SequenceInv ==
    /\ ScreenFollowsLight
    /\ ContentIsCurrent
    /\ dpmsTimer # "idle" \/ frozen => Effective(light, awake) = 0
    /\ dpmsTimer = "freeze" => ~frozen
    /\ dpmsTimer = "cut" => frozen
    /\ ui.clock = lastClock
    /\ proc # "died" /\ ~redraw => painted = ui.level

\* The program has darkened the panel: a CRTC found dark at start does not count.
Dark == ~crtc /\ painted # NoFrame

\* While the cut approaches, an animation that still runs ends before it, with
\* room for the last frame to be late, and a finger that is still down has been
\* down since the freeze.  On a dark panel nothing is left to draw.
MarginInv ==
    /\ dpmsTimer = "cut" => fade = 0 \/ dpmsIn + FadeTime >= fade + FreezeTime
    /\ dpmsTimer = "cut" /\ fade = 0 /\ redraw => dpmsIn + late > MaxStall
    /\ dpmsTimer = "cut" /\ finger => dpmsIn = FreezeTime
    /\ proc = "running" /\ cell => crtc
    /\ proc = "running" /\ painted = NoFrame => redraw
    /\ Dark => /\ proc \in {"running", "killed"} /\ frozen /\ dpmsTimer = "idle"
               /\ ~redraw /\ fade = 0 /\ ~finger
    /\ dpmsTimer # "idle" \/ Dark => HasDpms
    /\ proc # "died"

-----------------------------------------------------------------------------
\* effective_brightness returns a u8, whatever the light and the wake window.
LEMMA EffectiveIsALevel ==
    ASSUME NEW l \in Lights, NEW a \in BOOLEAN
    PROVE  /\ Effective(l, a) \in 0..255
           /\ WakeGuard(l, a) \in BOOLEAN
           /\ a => Effective(l, a) >= WakeBrightness /\ Effective(l, a) # 0
           /\ a => ~WakeGuard(l, a)
  BY LevelAssumption, SMT DEF Effective, WakeGuard, Larger, Lights

\* on_light_command never stores a brightness of 0, and the state file holds none.
LEMMA CommandsAreLights ==
    ASSUME light \in Lights
    PROVE  Commanded \cup SavedLights \subseteq Lights
<1>1. SavedLights \subseteq Lights
  BY LevelAssumption DEF SavedLights, Lights
<1>2. \A b \in Requests : AtLeastOne(b) \in 1..255
  BY LevelAssumption DEF AtLeastOne, Larger
<1>3. light.brightness \in 1..255
  BY DEF Lights
<1>4. \A o \in BOOLEAN : \A b \in Requests \cup {Unchanged} :
        [on |-> o, brightness |-> IF b = Unchanged THEN light.brightness ELSE AtLeastOne(b)]
          \in Lights
  BY <1>2, <1>3 DEF Lights
<1>5. QED
  BY <1>1, <1>4 DEF Commanded

\* Overwriting the overlay level and the wake guard leaves a well-typed screen.
LEMMA ScreenUpdate ==
    ASSUME NEW u \in Screens, NEW e \in Levels, NEW g \in BOOLEAN
    PROVE  [u EXCEPT !.level = e, !.guard = g] \in Screens
  BY DEF Screens

\* refresh_screen re-establishes the sequence invariant for the light and the
\* awake flag it was called with, from any state that satisfied it for the old.
LEMMA RefreshScreenStep ==
    ASSUME TypeOK, SequenceInv,
           NEW l \in Lights, NEW a \in BOOLEAN,
           RefreshScreen(l, a), light' = l, awake' = a,
           UNCHANGED <<proc, late, content, toastArmed, finger, painted>>
    PROVE  TypeOK' /\ SequenceInv'
<1>1. /\ Effective(l, a) \in 0..255
      /\ WakeGuard(l, a) \in BOOLEAN
  BY EffectiveIsALevel
<1>2. Effective(light', awake') = Effective(l, a) /\ WakeGuard(light', awake') = WakeGuard(l, a)
  OBVIOUS
<1>3. CASE StayBlack(l, a)
  BY <1>1, <1>2, <1>3, EffectiveIsALevel, TimeAssumption
     DEF StayBlack, TypeOK, SequenceInv, ScreenFollowsLight, ContentIsCurrent, content, screen,
         output, WakeGuard
<1>4. CASE GoBlack(l, a)
  <2>1. ui' = [ui EXCEPT !.level = 0, !.guard = TRUE]
    BY <1>4 DEF GoBlack, Put
  <2>2. ui' \in Screens
    <3>1. ui \in Screens /\ 0 \in Levels
      BY DEF TypeOK, Levels
    <3>2. [ui EXCEPT !.level = 0, !.guard = TRUE] \in Screens
      BY <3>1, ScreenUpdate
    <3>3. QED BY <2>1, <3>2
  <2>3. TypeOK'
    BY <1>4, <2>2, TimeAssumption DEF GoBlack, Put, TypeOK, content, output
  <2>4. ui'.level = 0 /\ ui'.guard = TRUE /\ ui'.overlay = ui.overlay /\ ui'.text = ui.text
        /\ ui'.clock = ui.clock
    BY <2>1 DEF TypeOK, Screens
  <2>5. ScreenFollowsLight'
    BY <1>1, <1>2, <1>4, <2>4 DEF GoBlack, ScreenFollowsLight
  <2>6. ContentIsCurrent' /\ ui'.clock = lastClock'
    BY <1>4, <2>4 DEF GoBlack, SequenceInv, ContentIsCurrent, content
  <2>7. /\ Effective(light', awake') = 0
        /\ ~frozen' /\ dpmsTimer' # "cut"
    BY <1>2, <1>4 DEF GoBlack
  <2>8. proc' # "died" /\ ~redraw' => painted' = ui'.level
    <3> SUFFICES ASSUME proc' # "died", ~redraw' PROVE painted' = ui'.level
      OBVIOUS
    <3>1. ~redraw /\ ui' = ui
      BY <1>4 DEF GoBlack, Put, TypeOK
    <3>2. QED BY <3>1 DEF SequenceInv
  <2>9. QED
    BY <2>3, <2>5, <2>6, <2>7, <2>8 DEF SequenceInv
<1>5. CASE LightUp(l, a)
  <2> DEFINE base == IF frozen THEN CaughtUp ELSE ui
  <2>1. base \in Screens /\ (frozen => base.clock = second)
    BY DEF CaughtUp, TypeOK, Screens, SequenceInv
  <2>2. ui' = [base EXCEPT !.level = Effective(l, a), !.guard = WakeGuard(l, a)]
    BY <1>5 DEF LightUp, Put
  <2>3. ui' \in Screens
    BY <1>1, <2>1, <2>2, ScreenUpdate DEF Levels
  <2>4. crtc' \in BOOLEAN /\ cell' \in BOOLEAN /\ lastClock' \in Seconds
    BY <1>5 DEF LightUp, SetOn, SetOnDone, SetOnFails, output, TypeOK
  <2>5. redraw' \in BOOLEAN /\ fade' \in 0..FadeTime
    BY <1>5, TimeAssumption DEF LightUp, Put, TypeOK
  <2>6. TypeOK'
    BY <1>5, <2>3, <2>4, <2>5 DEF LightUp, TypeOK, content
  <2>7. ScreenFollowsLight'
    BY <1>1, <1>2, <1>5, <2>1, <2>2 DEF LightUp, ScreenFollowsLight, Screens
  <2>8. ContentIsCurrent'
    BY <1>5, <2>1, <2>2
       DEF LightUp, ContentIsCurrent, content, CaughtUp, Screens, SequenceInv, TypeOK
  <2>9. ui'.clock = lastClock'
    BY <1>5, <2>1, <2>2 DEF LightUp, SequenceInv, Screens
  <2>10. proc' # "died" /\ ~redraw' => painted' = ui'.level
    <3> SUFFICES ASSUME proc' # "died", ~redraw' PROVE painted' = ui'.level
      OBVIOUS
    <3>1. ~redraw /\ ui' = ui
      BY <1>5 DEF LightUp, Put, TypeOK
    <3>2. QED BY <3>1 DEF SequenceInv
  <2>11. QED
    BY <1>5, <2>6, <2>7, <2>8, <2>9, <2>10 DEF LightUp, SequenceInv
<1>6. QED
  BY <1>3, <1>4, <1>5 DEF RefreshScreen

\* A write through ui() keeps the frame bookkeeping: a changed screen is redrawn.
LEMMA WriteStep ==
    ASSUME TypeOK, SequenceInv, NEW u \in Screens, Write(u), u.level = ui.level,
           UNCHANGED <<proc, painted>>
    PROVE  /\ ui' = IF frozen THEN ui ELSE u
           /\ ui' \in Screens /\ redraw' \in BOOLEAN /\ fade' \in 0..FadeTime
           /\ proc' # "died" /\ ~redraw' => painted' = ui'.level
<1>1. ui' = IF frozen THEN ui ELSE u
  BY DEF Write, Put, screen
<1>2. ui' \in Screens
  BY <1>1 DEF TypeOK
<1>3. redraw' \in BOOLEAN /\ fade' \in 0..FadeTime
  <2>1. CASE frozen
    BY <2>1 DEF Write, screen, TypeOK
  <2>2. CASE ~frozen
    BY <2>2, TimeAssumption DEF Write, Put, TypeOK
  <2>3. QED BY <2>1, <2>2
<1>4. proc' # "died" /\ ~redraw' => painted' = ui'.level
  <2>1. CASE frozen
    BY <2>1 DEF Write, screen, SequenceInv
  <2>2. CASE ~frozen
    BY <1>1, <2>2 DEF Write, Put, SequenceInv
  <2>3. QED BY <2>1, <2>2
<1>5. QED BY <1>1, <1>2, <1>3, <1>4

-----------------------------------------------------------------------------
\* What Dpms::discover reads is a Boolean.
LEMMA FoundIsBoolean == Found \subseteq BOOLEAN
  BY BooleanAssumption DEF Found

\* The state UiCtl::start leaves satisfies the sequence invariant.
LEMMA StartUpScreen ==
    ASSUME NEW l \in SavedLights, second \in Seconds
    PROVE  /\ l \in Lights
           /\ StartUp(l).ui \in Screens
           /\ StartUp(l).ui.level = Effective(l, FALSE)
           /\ StartUp(l).ui.guard = (WakeGuard(l, FALSE) \/ StartUp(l).ui.level = 0)
           /\ StartUp(l).dpmsIn \in Nat
<1>1. l \in Lights
  BY LevelAssumption DEF SavedLights, Lights
<1>2. Effective(l, FALSE) \in 0..255 /\ WakeGuard(l, FALSE) \in BOOLEAN
  BY <1>1, EffectiveIsALevel
<1>3. StartUp(l).ui \in Screens
  BY <1>2, TextAssumption DEF StartUp, Screens, Levels, Seconds
<1>4. QED
  BY <1>1, <1>3, TimeAssumption DEF StartUp

\* Both hold when the process starts.
LEMMA SequenceInit == Init => TypeOK /\ SequenceInv
<1> SUFFICES ASSUME Init PROVE TypeOK /\ SequenceInv
  OBVIOUS
<1>1. light \in SavedLights /\ entity \in Texts /\ second \in Seconds /\ second = 0
  BY TextAssumption DEF Init, Seconds
<1>2. /\ light \in Lights /\ ui \in Screens /\ dpmsIn \in Nat
      /\ ui.level = Effective(light, FALSE)
      /\ ui.guard = (WakeGuard(light, FALSE) \/ ui.level = 0)
  BY <1>1, StartUpScreen DEF Init
<1>3. TypeOK
  <2>1. /\ fade \in 0..FadeTime /\ painted \in Levels \cup {NoFrame}
        /\ crtc \in BOOLEAN /\ cell \in BOOLEAN /\ late \in 0..MaxStall
    BY TimeAssumption, FoundIsBoolean DEF Init
  <2>2. /\ proc = "running" /\ awake = FALSE /\ frozen = FALSE
        /\ dpmsTimer \in {"idle", "freeze", "cut"}
    BY DEF Init, StartUp
  <2>3. QED
    BY <1>1, <1>2, <2>1, <2>2 DEF Init, TypeOK
<1>4. SequenceInv
  BY <1>1, <1>2 DEF Init, StartUp, SequenceInv, ScreenFollowsLight, ContentIsCurrent
<1>5. QED BY <1>3, <1>4

\* No callback, frame, tick, exit or restart breaks them.
LEMMA SequenceNext == TypeOK /\ SequenceInv /\ [Next]_vars => TypeOK' /\ SequenceInv'
<1> SUFFICES ASSUME TypeOK, SequenceInv, [Next]_vars
             PROVE  TypeOK' /\ SequenceInv'
  OBVIOUS
<1>1. CASE LightCommand
  <2>1. PICK l \in Commanded \cup SavedLights : light' = l /\ RefreshScreen(l, awake)
    BY <1>1 DEF LightCommand
  <2>2. l \in Lights /\ awake \in BOOLEAN /\ awake' = awake
    BY <1>1, <2>1, CommandsAreLights DEF LightCommand, TypeOK
  <2>3. QED
    BY <1>1, <2>1, <2>2, RefreshScreenStep DEF LightCommand
<1>2. CASE Wake
  <2>1. light \in Lights /\ light' = light /\ awake' = TRUE /\ RefreshScreen(light, TRUE)
    BY <1>2 DEF Wake, TypeOK
  <2>2. QED
    BY <1>2, <2>1, RefreshScreenStep DEF Wake
<1>3. CASE EndWake
  <2>1. light \in Lights /\ light' = light /\ awake' = FALSE /\ RefreshScreen(light, FALSE)
    BY <1>3 DEF EndWake, TypeOK
  <2>2. QED
    BY <1>3, <2>1, RefreshScreenStep DEF EndWake
<1>4. CASE Freeze
  BY <1>4, TimeAssumption
     DEF Freeze, TypeOK, SequenceInv, ScreenFollowsLight, ContentIsCurrent, content, screen,
         output
<1>5. CASE CutSignal
  <2>0. late' \in 0..MaxStall
    BY <1>5, TimeAssumption DEF CutSignal
  <2>1. CASE SetOnDone(FALSE) /\ UNCHANGED <<frozen, lastClock, screen>>
    BY <1>5, <2>0, <2>1
       DEF CutSignal, SetOnDone, TypeOK, SequenceInv, ScreenFollowsLight, ContentIsCurrent,
           content, screen
  <2>2. CASE SetOnFails(FALSE) /\ frozen' = FALSE /\ lastClock' = second /\ Put(CaughtUp)
    <3>1. CaughtUp \in Screens /\ CaughtUp.level = ui.level /\ CaughtUp.guard = ui.guard
          /\ CaughtUp.overlay = ~online /\ CaughtUp.text = entity /\ CaughtUp.clock = second
      BY DEF CaughtUp, TypeOK, Screens, SequenceInv
    <3>2. ui' = CaughtUp /\ redraw' = (redraw \/ CaughtUp # ui) /\ fade' \in 0..FadeTime
      BY <2>2, TimeAssumption DEF Put, TypeOK
    <3>3. TypeOK'
      BY <1>5, <2>0, <2>2, <3>1, <3>2 DEF CutSignal, SetOnFails, output, TypeOK, content
    <3>4. SequenceInv'
      BY <1>5, <2>2, <3>1, <3>2
         DEF CutSignal, SequenceInv, ScreenFollowsLight, ContentIsCurrent, content
    <3>5. QED BY <3>3, <3>4
  <2>3. QED BY <1>5, <2>1, <2>2 DEF CutSignal
<1>6. CASE ShowToast
  <2> DEFINE u == [ui EXCEPT !.toast = TRUE]
  <2>1. u \in Screens /\ u.level = ui.level /\ u.guard = ui.guard /\ u.overlay = ui.overlay
        /\ u.text = ui.text /\ u.clock = ui.clock
    BY DEF TypeOK, Screens
  <2>2. Write(u) /\ UNCHANGED <<proc, painted>>
    BY <1>6 DEF ShowToast
  <2> HIDE DEF u
  <2>3. QED
    BY <1>6, <2>1, <2>2, WriteStep
       DEF ShowToast, TypeOK, SequenceInv, ScreenFollowsLight, ContentIsCurrent, content, power,
           output
<1>7. CASE HideToast
  <2> DEFINE u == [ui EXCEPT !.toast = FALSE]
  <2>1. u \in Screens /\ u.level = ui.level /\ u.guard = ui.guard /\ u.overlay = ui.overlay
        /\ u.text = ui.text /\ u.clock = ui.clock
    BY DEF TypeOK, Screens
  <2>2. Write(u) /\ UNCHANGED <<proc, painted>>
    BY <1>7 DEF HideToast
  <2> HIDE DEF u
  <2>3. QED
    BY <1>7, <2>1, <2>2, WriteStep
       DEF HideToast, TypeOK, SequenceInv, ScreenFollowsLight, ContentIsCurrent, content, power,
           output
<1>8. ASSUME NEW b \in BOOLEAN, SetOnline(b) PROVE TypeOK' /\ SequenceInv'
  <2> DEFINE u == [ui EXCEPT !.overlay = ~b]
  <2>1. u \in Screens /\ u.level = ui.level /\ u.guard = ui.guard /\ u.overlay = ~b
        /\ u.text = ui.text /\ u.clock = ui.clock
    BY DEF TypeOK, Screens
  <2>2. Write(u) /\ UNCHANGED <<proc, painted>>
    BY <1>8 DEF SetOnline
  <2> HIDE DEF u
  <2>3. QED
    BY <1>8, <2>1, <2>2, WriteStep
       DEF SetOnline, TypeOK, SequenceInv, ScreenFollowsLight, ContentIsCurrent, power, output
<1>9. ASSUME NEW t \in Texts, UpdateEntity(t) PROVE TypeOK' /\ SequenceInv'
  <2> DEFINE u == [ui EXCEPT !.text = t]
  <2>1. u \in Screens /\ u.level = ui.level /\ u.guard = ui.guard /\ u.overlay = ui.overlay
        /\ u.text = t /\ u.clock = ui.clock
    BY DEF TypeOK, Screens
  <2>2. Write(u) /\ UNCHANGED <<proc, painted>>
    BY <1>9 DEF UpdateEntity
  <2> HIDE DEF u
  <2>3. QED
    BY <1>9, <2>1, <2>2, WriteStep
       DEF UpdateEntity, TypeOK, SequenceInv, ScreenFollowsLight, ContentIsCurrent, power, output
<1>10. CASE ClockTick
  <2> DEFINE u == [ui EXCEPT !.clock = second']
  <2>1. second' \in Seconds
    BY <1>10 DEF ClockTick, TypeOK, Seconds
  <2>2. u \in Screens /\ u.level = ui.level /\ u.guard = ui.guard /\ u.overlay = ui.overlay
        /\ u.text = ui.text /\ u.clock = second'
    BY <2>1 DEF TypeOK, Screens
  <2>3. UNCHANGED <<proc, painted>>
    BY <1>10 DEF ClockTick
  <2>4. CASE lastClock # second'
    <3>1. Write(u)
      BY <1>10, <2>4 DEF ClockTick
    <3> HIDE DEF u
    <3>2. QED
      BY <1>10, <2>1, <2>2, <2>3, <3>1, WriteStep
         DEF ClockTick, TypeOK, SequenceInv, ScreenFollowsLight, ContentIsCurrent, power, output
  <2>5. CASE lastClock = second'
    BY <1>10, <2>1, <2>3, <2>5
       DEF ClockTick, TypeOK, SequenceInv, ScreenFollowsLight, ContentIsCurrent, power, screen,
           output
  <2>6. QED BY <2>4, <2>5
<1>11. CASE Press \/ Drag \/ Release
  <2>1. /\ finger' \in BOOLEAN /\ redraw' = TRUE
        /\ UNCHANGED <<proc, light, awake, power, content, lastClock, toastArmed, ui, fade, painted>>
    BY <1>11 DEF Press, Drag, Release, TypeOK
  <2>2. TypeOK'
    BY <2>1 DEF TypeOK, content, power, output
  <2>3. SequenceInv'
    BY <2>1 DEF SequenceInv, ScreenFollowsLight, ContentIsCurrent, content, power,
           output
  <2>4. QED BY <2>2, <2>3
<1>12. CASE Render
  <2>1. crtc' \in BOOLEAN /\ cell' \in BOOLEAN /\ late' \in 0..MaxStall
    <3>1. late' \in 0..MaxStall
      BY <1>12, TimeAssumption DEF Render
    <3>2. ASSUME Shutdown PROVE crtc' \in BOOLEAN /\ cell' \in BOOLEAN
      BY <3>2 DEF Shutdown, SetOn, SetOnDone, SetOnFails, output, TypeOK
    <3>3. crtc' \in BOOLEAN /\ cell' \in BOOLEAN
      BY <1>12, <3>2 DEF Render, TypeOK
    <3>4. QED BY <3>1, <3>3
  <2>2. ui.level \in Levels
    BY DEF TypeOK, Screens
  <2>3. QED
    BY <1>12, <2>1, <2>2
       DEF Render, TypeOK, SequenceInv, ScreenFollowsLight, ContentIsCurrent, content
<1>13. CASE Quit \/ Kill
  <2>1. crtc' \in BOOLEAN /\ cell' \in BOOLEAN
    BY <1>13 DEF Quit, Kill, Shutdown, SetOn, SetOnDone, SetOnFails, output, power, TypeOK
  <2>2. QED
    BY <1>13, <2>1
       DEF Quit, Kill, TypeOK, SequenceInv, ScreenFollowsLight, ContentIsCurrent, content,
           screen, power
<1>14. CASE Tick
  <2>1. fade' \in 0..FadeTime /\ dpmsIn' \in Nat
    BY <1>14, TimeAssumption DEF Tick, TypeOK
  <2>2. late' \in 0..MaxStall
    BY <1>14, TimeAssumption DEF Tick, TypeOK
  <2>3. redraw' \in BOOLEAN /\ (~redraw' => ~redraw)
    BY <1>14 DEF Tick, TypeOK
  <2>4. QED
    BY <1>14, <2>1, <2>2, <2>3
       DEF Tick, TypeOK, SequenceInv, ScreenFollowsLight, ContentIsCurrent, content, output
<1>15. CASE Restart
  <2>1. PICK l \in SavedLights :
            LET s == StartUp(l) IN
            /\ proc' = s.proc /\ light' = s.light /\ awake' = s.awake /\ frozen' = s.frozen
            /\ dpmsTimer' = s.dpmsTimer /\ dpmsIn' = s.dpmsIn /\ ui' = s.ui
    BY <1>15 DEF Restart
  <2>2. /\ l \in Lights /\ ui' \in Screens /\ dpmsIn' \in Nat
        /\ ui'.level = Effective(l, FALSE)
        /\ ui'.guard = (WakeGuard(l, FALSE) \/ ui'.level = 0)
    BY <2>1, StartUpScreen DEF TypeOK
  <2>3. light' = l /\ awake' = FALSE /\ frozen' = FALSE /\ proc' = "running"
        /\ dpmsTimer' \in {"idle", "freeze"} /\ (dpmsTimer' # "idle" => Effective(l, FALSE) = 0)
        /\ ui'.overlay = TRUE /\ ui'.text = NoText /\ ui'.clock = second
    BY <2>1 DEF StartUp
  <2>4. TypeOK'
    <3>1. /\ fade' \in 0..FadeTime /\ painted' \in Levels \cup {NoFrame}
          /\ crtc' \in BOOLEAN /\ cell' \in BOOLEAN /\ late' \in 0..MaxStall
      BY <1>15, TimeAssumption, FoundIsBoolean DEF Restart
    <3>2. QED
      BY <1>15, <2>2, <2>3, <3>1, TextAssumption DEF Restart, TypeOK
  <2>5. SequenceInv'
    BY <1>15, <2>2, <2>3 DEF Restart, SequenceInv, ScreenFollowsLight, ContentIsCurrent
  <2>6. QED BY <2>4, <2>5
<1>16. CASE UNCHANGED vars
  BY <1>16
     DEF vars, TypeOK, SequenceInv, ScreenFollowsLight, ContentIsCurrent
<1>17. QED
  BY <1>1, <1>2, <1>3, <1>4, <1>5, <1>6, <1>7, <1>8, <1>9, <1>10, <1>11, <1>12, <1>13,
     <1>14, <1>15, <1>16 DEF Next

-----------------------------------------------------------------------------
\* Every variable keeps its type, for all constants: in particular no command
\* sequence stores a brightness of 0 (LightCommand::Set, b.max(1)).
THEOREM TypeCorrect == Spec => []TypeOK
<1>1. Spec => [](TypeOK /\ SequenceInv)
  BY SequenceInit, SequenceNext, PTL DEF Spec
<1>2. QED BY <1>1, PTL

\* What refresh_screen left on the panel is always what the light and the wake
\* window ask for, for all constants, failures and fingers included.
THEOREM ScreenCorrect == Spec => []ScreenFollowsLight
<1>1. Spec => [](TypeOK /\ SequenceInv)
  BY SequenceInit, SequenceNext, PTL DEF Spec
<1>2. SequenceInv => ScreenFollowsLight
  BY DEF SequenceInv
<1>3. QED BY <1>1, <1>2, PTL

\* Nothing dropped while frozen is missing once the UI takes writes again, for
\* all constants, failures and fingers included.
THEOREM ContentCorrect == Spec => []ContentIsCurrent
<1>1. Spec => [](TypeOK /\ SequenceInv)
  BY SequenceInit, SequenceNext, PTL DEF Spec
<1>2. SequenceInv => ContentIsCurrent
  BY DEF SequenceInv
<1>3. QED BY <1>1, <1>2, PTL

-----------------------------------------------------------------------------
\* The conditions under which the cut is safe.
Benign == TRUE \notin Failing /\ ~SlowFingers

\* The margin holds at start: nothing is armed but possibly the freeze.
LEMMA MarginInit == Init => MarginInv
<1> SUFFICES ASSUME Init PROVE MarginInv
  OBVIOUS
<1>1. /\ proc = "running" /\ dpmsTimer \in {"idle", "freeze"}
      /\ (dpmsTimer # "idle" => HasDpms)
  BY DEF Init, StartUp
<1>2. cell = crtc /\ redraw = TRUE /\ painted = NoFrame
  BY DEF Init
<1>3. QED
  BY <1>1, <1>2 DEF MarginInv, Dark

\* When the cut is due nothing is left to draw and no finger is down.
LEMMA CutIsDue ==
    ASSUME TypeOK, MarginInv, dpmsTimer = "cut", dpmsIn = 0
    PROVE  ~redraw /\ fade = 0 /\ ~finger
<1>1. fade \in Nat /\ late \in Nat /\ late <= MaxStall
  BY TimeAssumption DEF TypeOK
<1>2. ~finger
  BY TimeAssumption DEF MarginInv
<1>3. fade = 0
  BY <1>1, TimeAssumption DEF MarginInv
<1>4. ~redraw
  BY <1>1, <1>3, TimeAssumption DEF MarginInv
<1>5. QED BY <1>2, <1>3, <1>4

\* A step that ends with no cut armed and the panel not darkened.
LEMMA LitStep ==
    ASSUME dpmsTimer' # "cut", dpmsTimer' # "idle" => HasDpms, ~Dark', proc' # "died",
           proc' = "running" /\ cell' => crtc',
           proc' = "running" /\ painted' = NoFrame => redraw'
    PROVE  MarginInv'
  BY DEF MarginInv, Dark

\* refresh_screen either cancels the sequence, or restarts it from its first
\* step, or thaws onto a lit CRTC.
LEMMA RefreshScreenMargin ==
    ASSUME Benign, TypeOK, SequenceInv, MarginInv, NEW l, NEW a, RefreshScreen(l, a),
           proc = "running", UNCHANGED <<proc, finger, painted, late>>
    PROVE  MarginInv'
<1>1. CASE StayBlack(l, a)
  BY <1>1 DEF StayBlack, MarginInv, Dark, screen, output
<1>2. CASE GoBlack(l, a)
  <2>1. ~Dark /\ ~Dark' /\ (cell' => crtc')
    BY <1>2 DEF GoBlack, MarginInv, Dark, output
  <2>2. dpmsTimer' # "cut" /\ (dpmsTimer' # "idle" => HasDpms)
    BY <1>2 DEF GoBlack
  <2>3. painted' = NoFrame => redraw'
    BY <1>2 DEF GoBlack, Put, MarginInv
  <2>4. QED BY <2>1, <2>2, <2>3, LitStep
<1>3. CASE LightUp(l, a)
  <2>1. ~Dark' /\ (cell' => crtc')
    <3>1. CASE frozen
      BY <1>3, <3>1
         DEF LightUp, SetOn, SetOnDone, SetOnFails, MarginInv, Dark, TypeOK, Benign
    <3>2. CASE ~frozen
      BY <1>3, <3>2 DEF LightUp, MarginInv, Dark, output
    <3>3. QED BY <3>1, <3>2
  <2>2. dpmsTimer' = "idle"
    BY <1>3 DEF LightUp
  <2>3. painted' = NoFrame => redraw'
    BY <1>3 DEF LightUp, Put, MarginInv
  <2>4. QED BY <2>1, <2>2, <2>3, LitStep
<1>4. QED BY <1>1, <1>2, <1>3 DEF RefreshScreen

\* While the sequence runs, or the UI is frozen, no control can be pressed.
LEMMA GuardedWhileOff ==
    ASSUME TypeOK, SequenceInv
    PROVE  dpmsTimer # "idle" \/ frozen => ui.guard /\ ui.level = 0
  BY DEF SequenceInv, ScreenFollowsLight

\* A handler that writes through ui() changes no power state, and a frozen UI
\* drops its write.
LEMMA UiWriteMargin ==
    ASSUME TypeOK, SequenceInv, MarginInv,
           UNCHANGED <<proc, power, finger, painted>>,
           frozen => UNCHANGED screen, redraw => redraw'
    PROVE  MarginInv'
<1>1. CASE frozen
  BY <1>1 DEF MarginInv, Dark, power, output, screen
<1>2. CASE ~frozen
  <2>1. dpmsTimer # "cut" /\ ~Dark
    BY <1>2 DEF SequenceInv, MarginInv
  <2>2. QED BY <2>1 DEF MarginInv, Dark, power, output
<1>3. QED BY <1>1, <1>2

\* No step of the program uses the margin up.
LEMMA MarginNext ==
    ASSUME Benign, TypeOK, SequenceInv, MarginInv, [Next]_vars
    PROVE  MarginInv'
<1>1. CASE LightCommand
  <2>1. PICK l : RefreshScreen(l, awake)
    BY <1>1 DEF LightCommand
  <2>2. QED
    BY <1>1, <2>1, RefreshScreenMargin DEF LightCommand
<1>2. CASE Wake
  BY <1>2, RefreshScreenMargin DEF Wake
<1>3. CASE EndWake
  BY <1>3, RefreshScreenMargin DEF EndWake
<1>4. CASE Freeze
  <2>1. fade \in Nat /\ fade <= FadeTime
    BY TimeAssumption DEF TypeOK
  <2>2. dpmsIn' + FadeTime >= fade' + FreezeTime /\ dpmsIn' = FreezeTime /\ late' = 0
    BY <1>4, <2>1, TimeAssumption DEF Freeze, screen
  <2>3. dpmsIn' + late' > MaxStall
    BY <2>2, TimeAssumption
  <2>4. ~Dark /\ ~Dark' /\ HasDpms /\ UNCHANGED <<proc, output, painted, redraw>>
    BY <1>4 DEF Freeze, MarginInv, Dark, output, screen
  <2>5. QED
    BY <1>4, <2>2, <2>3, <2>4 DEF MarginInv, output
<1>5. CASE CutSignal
  <2>1. ~redraw /\ ~finger /\ fade = 0 /\ frozen
    BY <1>5, CutIsDue DEF CutSignal, SequenceInv
  <2>2. crtc /\ HasDpms /\ painted # NoFrame
    BY <1>5, <2>1 DEF CutSignal, MarginInv, Dark
  <2>3. dpmsTimer' = "idle" /\ UNCHANGED <<proc, painted, finger>> /\ proc = "running"
    BY <1>5 DEF CutSignal
  <2>4. CASE SetOnDone(FALSE) /\ UNCHANGED <<frozen, lastClock, screen>>
    BY <2>1, <2>2, <2>3, <2>4 DEF SetOnDone, MarginInv, Dark, screen
  <2>5. CASE SetOnFails(FALSE)
    <3>1. crtc' /\ ~Dark'
      BY <2>2, <2>5 DEF SetOnFails, output, Dark
    <3>2. QED BY <2>2, <2>3, <3>1, LitStep
  <2>6. QED BY <1>5, <2>4, <2>5 DEF CutSignal
<1>6. CASE ShowToast \/ HideToast \/ ClockTick
  <2>1. (frozen => UNCHANGED screen) /\ (redraw => redraw')
    BY <1>6 DEF ShowToast, HideToast, ClockTick, Write, Put, screen
  <2>2. QED BY <1>6, <2>1, UiWriteMargin DEF ShowToast, HideToast, ClockTick
<1>7. ASSUME NEW b \in BOOLEAN, SetOnline(b) PROVE MarginInv'
  <2>1. (frozen => UNCHANGED screen) /\ (redraw => redraw')
    BY <1>7 DEF SetOnline, Write, Put, screen
  <2>2. QED BY <1>7, <2>1, UiWriteMargin DEF SetOnline
<1>8. ASSUME NEW t \in Texts, UpdateEntity(t) PROVE MarginInv'
  <2>1. (frozen => UNCHANGED screen) /\ (redraw => redraw')
    BY <1>8 DEF UpdateEntity, Write, Put, screen
  <2>2. QED BY <1>8, <2>1, UiWriteMargin DEF UpdateEntity
<1>9. CASE Press
  <2>1. dpmsTimer = "idle" /\ ~frozen
    BY <1>9, GuardedWhileOff DEF Press
  <2>2. ~Dark
    BY <2>1 DEF MarginInv
  <2>3. QED
    BY <1>9, <2>1, <2>2 DEF Press, MarginInv, Dark, power, output
<1>10. CASE Drag \/ Release
  <2>1. /\ finger /\ redraw' = TRUE /\ UNCHANGED <<proc, power, fade, painted>>
        /\ (finger' => finger)
    BY <1>10 DEF Drag, Release
  <2>2. ~Dark /\ (dpmsTimer = "cut" => dpmsIn = FreezeTime)
    BY <2>1 DEF MarginInv
  <2>3. late \in Nat
    BY TimeAssumption DEF TypeOK
  <2>4. dpmsTimer = "cut" => dpmsIn + late > MaxStall
    BY <2>2, <2>3, TimeAssumption
  <2>5. QED
    BY <2>1, <2>2, <2>4 DEF MarginInv, Dark, power, output
<1>11. CASE Render
  <2>1. crtc \/ painted = NoFrame
    BY <1>11 DEF Render, MarginInv, Dark
  <2>2. crtc' /\ ~redraw' /\ painted' = ui.level /\ UNCHANGED <<proc, dpmsTimer, dpmsIn, fade, finger>>
    BY <1>11, <2>1 DEF Render
  <2>3. painted' # NoFrame
    BY <2>2 DEF TypeOK, Screens, Levels, NoFrame
  <2>4. QED
    BY <1>11, <2>2, <2>3 DEF MarginInv, Dark
<1>12. CASE Quit
  <2>1. ~Dark'
    <3>1. CASE HasDpms
      BY <1>12, <3>1
         DEF Quit, Shutdown, SetOn, SetOnDone, SetOnFails, Benign, MarginInv, Dark, TypeOK
    <3>2. CASE ~HasDpms
      BY <1>12, <3>2 DEF Quit, Shutdown, MarginInv, Dark, output
    <3>3. QED BY <3>1, <3>2
  <2>2. UNCHANGED <<dpmsTimer, dpmsIn, late, fade, redraw, finger>> /\ proc' = "quit"
    BY <1>12 DEF Quit, screen
  <2>3. QED
    BY <2>1, <2>2 DEF MarginInv
<1>13. CASE Kill
  <2>1. UNCHANGED <<power, screen, finger, painted>> /\ proc' = "killed" /\ proc = "running"
    BY <1>13 DEF Kill
  <2>2. QED BY <2>1 DEF MarginInv, Dark, power, output, screen
<1>14. CASE Tick
  <2>1. /\ ~finger /\ UNCHANGED <<proc, frozen, dpmsTimer, output, finger, painted>>
        /\ redraw' = (redraw \/ fade > 0)
    BY <1>14 DEF Tick, Benign
  <2>2. fade \in Nat /\ late \in Nat /\ dpmsIn \in Nat
    BY TimeAssumption DEF TypeOK
  <2>3. CASE fade > 0
    <3>1. dpmsTimer = "cut" => dpmsIn > fade + MaxStall
      BY <2>2, <2>3, TimeAssumption DEF MarginInv
    <3>2. fade' = fade - 1 /\ late' \in Nat
      BY <1>14, <2>2, <2>3 DEF Tick
    <3>3. dpmsTimer = "cut" => dpmsIn' = dpmsIn - 1 /\ dpmsIn + FadeTime >= fade + FreezeTime
      BY <1>14, <2>2, <2>3, <3>1, TimeAssumption DEF Tick, MarginInv
    <3>4. ASSUME dpmsTimer = "cut"
          PROVE  dpmsIn' + FadeTime >= fade' + FreezeTime /\ dpmsIn' + late' > MaxStall
      <4>1. dpmsIn' = dpmsIn - 1 /\ dpmsIn > fade + MaxStall
        BY <3>1, <3>3, <3>4
      <4>2. dpmsIn' + FadeTime >= fade' + FreezeTime
        BY <2>2, <3>2, <3>3, <3>4, <4>1, TimeAssumption
      <4>3. dpmsIn' + late' > MaxStall
        <5>1. fade \in Nat /\ dpmsIn \in Nat /\ MaxStall \in Nat /\ late' \in Nat
          BY <2>2, <3>2, TimeAssumption
        <5>2. dpmsIn' \in Nat /\ dpmsIn' > MaxStall
          BY <2>3, <4>1, <5>1
        <5>3. \A a, b, m \in Nat : a > m => a + b > m
          OBVIOUS
        <5>4. QED BY <5>1, <5>2, <5>3, Zenon
      <4>4. QED BY <4>2, <4>3
    <3>5. ~Dark
      BY <2>3 DEF MarginInv
    <3>6. QED
      BY <2>1, <2>3, <3>4, <3>5 DEF MarginInv, Dark, output
  <2>4. CASE ~(fade > 0)
    <3>1. fade = 0 /\ fade' = 0
      BY <1>14, <2>2, <2>4 DEF Tick
    <3>2. redraw' = redraw
      BY <2>1, <2>4 DEF TypeOK
    <3>3. ASSUME dpmsTimer = "cut", redraw PROVE dpmsIn' + late' > MaxStall
      <4>1. late < MaxStall /\ late' = late + 1
        BY <1>14, <3>3 DEF Tick, Idle
      <4>2. dpmsIn + late > MaxStall
        BY <3>1, <3>3 DEF MarginInv
      <4>3. dpmsIn > 0
        BY <2>2, <4>1, <4>2, TimeAssumption
      <4>4. dpmsIn' = dpmsIn - 1
        BY <1>14, <4>3 DEF Tick
      <4>5. QED BY <2>2, <4>1, <4>2, <4>4, TimeAssumption
    <3>4. QED
      BY <2>1, <3>1, <3>2, <3>3 DEF MarginInv, Dark, output
  <2>5. QED BY <2>3, <2>4
<1>15. CASE Restart
  BY <1>15 DEF Restart, StartUp, MarginInv, Dark
<1>16. CASE UNCHANGED vars
  BY <1>16 DEF vars, MarginInv, Dark
<1>17. QED
  BY <1>1, <1>2, <1>3, <1>4, <1>5, <1>6, <1>7, <1>8, <1>9, <1>10, <1>11, <1>12, <1>13,
     <1>14, <1>15, <1>16 DEF Next

\* The three invariants together, when nothing is left to chance.
LEMMA AllInvariants ==
    ASSUME Benign
    PROVE  Spec => [](TypeOK /\ SequenceInv /\ MarginInv)
<1>1. Init => TypeOK /\ SequenceInv /\ MarginInv
  BY SequenceInit, MarginInit
<1>2. TypeOK /\ SequenceInv /\ MarginInv /\ [Next]_vars
        => (TypeOK /\ SequenceInv /\ MarginInv)'
  BY SequenceNext, MarginNext
<1>3. QED BY <1>1, <1>2, PTL DEF Spec

\* The rule the whole design is built on: with a DPMS On that succeeds and no
\* finger resting on a control, the event loop never draws on a dark CRTC.
THEOREM NeverDrawsOnDark ==
    ASSUME Benign
    PROVE  Spec => []NoDrawOnDark
<1>1. MarginInv => NoDrawOnDark
  BY DEF MarginInv, Dark, NoDrawOnDark
<1>2. QED BY <1>1, AllInvariants, PTL

\* Under the same conditions a dark panel shows black, can only be woken, and
\* belongs to a running process.
THEOREM DarkPanelIsGuarded ==
    ASSUME Benign
    PROVE  Spec => []DarkIsGuarded
<1>1. TypeOK /\ SequenceInv /\ MarginInv => DarkIsGuarded
  <2> SUFFICES ASSUME TypeOK, SequenceInv, MarginInv, Dark
               PROVE  /\ proc \in {"running", "killed"}
                      /\ frozen /\ ui.guard /\ ui.level = 0 /\ painted = 0
    BY DEF Dark, DarkIsGuarded
  <2>1. proc \in {"running", "killed"} /\ frozen /\ ~redraw
    BY DEF MarginInv
  <2>2. ui.guard /\ ui.level = 0 /\ painted = ui.level
    BY <2>1, GuardedWhileOff DEF SequenceInv
  <2>3. QED BY <2>1, <2>2
<1>2. QED BY <1>1, AllInvariants, PTL

\* Under the same conditions a wake window always has signal and is readable.
THEOREM WakeWindowIsLit ==
    ASSUME Benign
    PROVE  Spec => []AwakeIsLit
<1>1. TypeOK /\ SequenceInv /\ MarginInv => AwakeIsLit
  <2> SUFFICES ASSUME TypeOK, SequenceInv, MarginInv, awake PROVE AwakeIsLit
    BY DEF AwakeIsLit
  <2>1. Effective(light, awake) >= WakeBrightness /\ Effective(light, awake) # 0
    BY EffectiveIsALevel DEF TypeOK
  <2>2. ~frozen /\ (crtc \/ painted = NoFrame) /\ ui.level = Effective(light, awake)
    BY <2>1, Zenon DEF SequenceInv, MarginInv, Dark, ScreenFollowsLight
  <2>3. QED BY <2>1, <2>2 DEF AwakeIsLit
<1>2. QED BY <1>1, AllInvariants, PTL

\* Under the same conditions the cut comes after the black frame was presented,
\* with every animation over: 1000 ms is enough because the fade takes 700.
THEOREM CutIsOrdered ==
    ASSUME Benign
    PROVE  Spec => CutComesAfterBlack
<1> DEFINE Safe == /\ painted = 0 /\ fade = 0 /\ ~redraw
                   /\ Effective(light, awake) = 0
<1>1. ASSUME TypeOK, SequenceInv, MarginInv, [Next]_vars
      PROVE  [proc = "running" /\ crtc /\ ~crtc' => Safe]_vars
  <2> SUFFICES ASSUME Next, proc = "running", crtc, ~crtc' PROVE Safe
    BY <1>1
  <2>1. CutSignal
    <3>1. ASSUME NEW l, NEW a, RefreshScreen(l, a) PROVE crtc'
      BY <3>1 DEF RefreshScreen, StayBlack, GoBlack, LightUp, SetOn, SetOnDone, SetOnFails, output
    <3>2. ~Shutdown
      BY DEF Shutdown, SetOn, SetOnDone, SetOnFails, output
    <3>3. ~LightCommand /\ ~Wake /\ ~EndWake
      BY <3>1 DEF LightCommand, Wake, EndWake
    <3>4. QED
      BY <3>2, <3>3
         DEF Next, Freeze, ShowToast, HideToast, SetOnline, UpdateEntity, ClockTick, Press,
             Drag, Release, Render, Tick, Quit, Kill, Restart, power, output
  <2>2. ~redraw /\ fade = 0 /\ painted = ui.level
    BY <1>1, <2>1, CutIsDue DEF CutSignal, SequenceInv
  <2>3. Effective(light, awake) = 0 /\ ui.level = 0
    BY <1>1, <2>1 DEF CutSignal, SequenceInv, ScreenFollowsLight
  <2>4. QED BY <2>2, <2>3
<1>2. QED BY <1>1, AllInvariants, PTL DEF Spec, CutComesAfterBlack
=============================================================================
