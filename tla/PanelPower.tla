----------------------------- MODULE PanelPower -----------------------------
(***************************************************************************)
(* The brightness and panel power logic of the UI thread (src/main.rs,     *)
(* "brightness / panel power"), with the parts of the Slint event loop and *)
(* of the DRM output it depends on.                                        *)
(*                                                                         *)
(* The panel goes off in three steps: a black frame, then a freeze of all  *)
(* property writes, then DPMS Off.  A frame drawn on a switched off CRTC   *)
(* fails and ends the event loop, so the whole design is about never       *)
(* having anything to draw between the cut and the next thaw.              *)
(*                                                                         *)
(* Time passes in ticks while the loop is idle, and for at most MaxStall   *)
(* ticks while it has a frame to draw or a timer to run but is held up.  A *)
(* callback is one action; Render is the end of a loop iteration.  The     *)
(* wake and toast timers are long against the off sequence: when armed,    *)
(* they may fire at any moment.                                            *)
(***************************************************************************)
EXTENDS Naturals

CONSTANTS
    HasDpms,            \* a DPMS property was found and dpms_off is set
    Failing,            \* values v for which the ioctl of set_on(v) may fail
    SavedLevels,        \* brightness values the state file or the default may hold
    Requests,           \* brightness values a light command may carry
    WakeBrightness,     \* display.wake_brightness
    ReadableThreshold,  \* display.readable_threshold
    DpmsDelay,          \* ticks from the black frame to the freeze (dpms_delay_ms)
    FreezeTime,         \* ticks from the freeze to the cut (1000 ms)
    FadeTime,           \* ticks of the connecting overlay's animation (700 ms)
    MaxStall,           \* ticks the event loop may be late with a frame or a timer
    Texts,              \* contents an entity widget can show
    NoText,             \* ... while Home Assistant has not sent the entity
    SlowFingers,        \* may a finger rest on a control while time passes?
    EchoOff,            \* may a light command that leaves the light off arrive while frozen?
    FoundDark           \* may the process start while the CRTC is off?

ASSUME BooleanAssumption ==
    /\ HasDpms \in BOOLEAN /\ SlowFingers \in BOOLEAN
    /\ EchoOff \in BOOLEAN /\ FoundDark \in BOOLEAN
ASSUME FailingAssumption == Failing \subseteq BOOLEAN
ASSUME LevelAssumption ==
    /\ SavedLevels \subseteq 1..255
    /\ Requests \subseteq 0..255
    /\ WakeBrightness \in 1..255          \* Config::validate
    /\ ReadableThreshold \in 0..255
ASSUME TextAssumption == NoText \in Texts
ASSUME TimeAssumption ==
    /\ DpmsDelay \in Nat
    /\ FreezeTime \in Nat
    /\ FadeTime \in Nat
    /\ MaxStall \in Nat
    /\ FadeTime + MaxStall < FreezeTime    \* 700 ms against 1000 ms

VARIABLES
    proc,       \* "running", "quit" (SIGTERM), "killed" (SIGKILL) or "died" (the event
                \* loop returned an error)
    light,      \* St.light: the state Home Assistant sees
    awake,      \* St.awake, which is also "wake_timer is armed"
    frozen,     \* St.frozen
    dpmsTimer,  \* what dpms_timer will run: "idle", "freeze" or "cut"
    dpmsIn,     \* ticks until it does
    crtc,       \* the CRTC is on
    cell,       \* Dpms.on: what the program believes the CRTC to be
    late,       \* ticks the loop has been late with what it has to do
    online,     \* ha_connected /\ time_synced
    entity,     \* St.entities, as the text of one widget
    second,     \* the wall clock
    lastClock,  \* St.last_clock
    toastArmed, \* toast_timer is armed
    finger,     \* a finger is down on a control
    ui,         \* the Slint properties
    redraw,     \* Slint wants a new frame
    fade,       \* ticks left of the connecting overlay's opacity animation
    painted     \* brightness level of the last frame presented

vars == <<proc, light, awake, frozen, dpmsTimer, dpmsIn, crtc, cell, late, online,
          entity, second, lastClock, toastArmed, finger, ui, redraw, fade, painted>>

NoFrame == 256
Unchanged == 256
Levels == 0..255
Seconds == 0..1
Lights == [on : BOOLEAN, brightness : 1..255]
Screens == [overlay : BOOLEAN, text : Texts, clock : Seconds,
            toast : BOOLEAN, level : Levels, guard : BOOLEAN]

content == <<online, entity, second>>
output == <<crtc, cell>>
power == <<frozen, dpmsTimer, dpmsIn, output, late>>
screen == <<ui, redraw, fade>>

-----------------------------------------------------------------------------
\* effective_brightness: the level to show, and whether a touch only wakes.
Larger(a, b) == IF a > b THEN a ELSE b

\* Mutant: a wake shows the light's own brightness, however low.
EffectiveUnraised(l, a) ==
    IF a THEN (IF l.on THEN l.brightness ELSE WakeBrightness)
         ELSE (IF l.on THEN l.brightness ELSE 0)

Effective(l, a) ==
    IF a THEN (IF l.on THEN Larger(l.brightness, WakeBrightness) ELSE WakeBrightness)
         ELSE (IF l.on THEN l.brightness ELSE 0)

WakeGuard(l, a) == ~a /\ Effective(l, a) < ReadableThreshold

\* A direct write of Slint properties.  A changed property asks for a frame,
\* a changed `connecting` starts the overlay's opacity animation.
Put(u) ==
    /\ ui' = u
    /\ redraw' = (redraw \/ u # ui)
    /\ fade' = IF u.overlay # ui.overlay THEN FadeTime ELSE fade

\* UiCtl::ui: the write is dropped while frozen.
Write(u) == IF frozen THEN UNCHANGED screen ELSE Put(u)

\* Dpms::set_on: nothing to do when the cell agrees, otherwise the ioctl,
\* which changes the CRTC or reports an error.
SetOnDone(on) ==
    /\ cell' = on
    /\ crtc' = IF cell = on THEN crtc ELSE on

SetOnFails(on) ==
    /\ cell # on
    /\ on \in Failing
    /\ UNCHANGED output

SetOn(on) == SetOnDone(on) \/ SetOnFails(on)

\* thaw's refresh_everything: connecting, tick, entities, but not the toast.
CaughtUp ==
    [ui EXCEPT !.overlay = ~online, !.text = entity,
               !.clock = IF lastClock # second THEN second ELSE @]

\* refresh_screen, for the light and the awake flag it finds.  The pending
\* step of the off sequence is always cancelled first.
StayBlack(l, a) ==
    /\ Effective(l, a) = 0
    /\ frozen
    /\ dpmsTimer' = "idle" /\ dpmsIn' = 0
    /\ UNCHANGED <<frozen, output, lastClock, screen>>

\* Mutant: the wake guard is not raised.
GoBlackUnguarded(l, a) ==
    /\ Effective(l, a) = 0
    /\ ~frozen
    /\ Put([ui EXCEPT !.level = 0])
    /\ dpmsTimer' = IF HasDpms THEN "freeze" ELSE "idle"
    /\ dpmsIn' = IF HasDpms THEN DpmsDelay ELSE 0
    /\ UNCHANGED <<frozen, output, lastClock>>

GoBlack(l, a) ==
    /\ Effective(l, a) = 0
    /\ ~frozen
    /\ Put([ui EXCEPT !.level = 0, !.guard = TRUE])
    /\ dpmsTimer' = IF HasDpms THEN "freeze" ELSE "idle"
    /\ dpmsIn' = IF HasDpms THEN DpmsDelay ELSE 0
    /\ UNCHANGED <<frozen, output, lastClock>>

\* Mutant: the pending step of the off sequence is not cancelled.
LightUpKeepsTimer(l, a) ==
    /\ Effective(l, a) > 0
    /\ UNCHANGED <<dpmsTimer, dpmsIn>>
    /\ frozen' = FALSE
    /\ IF frozen THEN SetOn(TRUE) /\ lastClock' = second
                 ELSE UNCHANGED <<output, lastClock>>
    /\ Put([(IF frozen THEN CaughtUp ELSE ui)
              EXCEPT !.level = Effective(l, a), !.guard = WakeGuard(l, a)])

\* Mutant: after a failed DPMS On the screen stays frozen.
LightUpGivesUp(l, a) ==
    /\ Effective(l, a) > 0
    /\ dpmsTimer' = "idle" /\ dpmsIn' = 0
    /\ IF frozen THEN SetOn(TRUE) ELSE UNCHANGED output
    /\ frozen' = (frozen /\ ~cell')
    /\ IF frozen' THEN UNCHANGED <<lastClock, screen>>
       ELSE /\ lastClock' = IF frozen THEN second ELSE lastClock
            /\ Put([(IF frozen THEN CaughtUp ELSE ui)
                      EXCEPT !.level = Effective(l, a), !.guard = WakeGuard(l, a)])

LightUp(l, a) ==
    /\ Effective(l, a) > 0
    /\ dpmsTimer' = "idle" /\ dpmsIn' = 0
    /\ frozen' = FALSE
    /\ IF frozen THEN SetOn(TRUE) /\ lastClock' = second
                 ELSE UNCHANGED <<output, lastClock>>
    /\ Put([(IF frozen THEN CaughtUp ELSE ui)
              EXCEPT !.level = Effective(l, a), !.guard = WakeGuard(l, a)])

RefreshScreen(l, a) == StayBlack(l, a) \/ GoBlack(l, a) \/ LightUp(l, a)

-----------------------------------------------------------------------------
\* main: window, Dpms::discover, load_light_state, then UiCtl::start, which
\* ends in a refresh_screen.
StartUp(l) ==
    LET e == Effective(l, FALSE)
        off == e = 0 /\ HasDpms
    IN  [proc |-> "running", light |-> l, awake |-> FALSE, frozen |-> FALSE,
         dpmsTimer |-> IF off THEN "freeze" ELSE "idle",
         dpmsIn |-> IF off THEN DpmsDelay ELSE 0,
         ui |-> [overlay |-> TRUE, clock |-> second, text |-> NoText, toast |-> FALSE,
                 level |-> e, guard |-> WakeGuard(l, FALSE) \/ e = 0]]

SavedLights == [on : BOOLEAN, brightness : SavedLevels]

\* What Dpms::discover may read: whether the last process, or the console the
\* kernel falls back to, left the CRTC on.
Found == {TRUE, ~FoundDark}

Init ==
    /\ light \in SavedLights
    /\ entity = NoText
    /\ second = 0
    /\ online = FALSE
    /\ LET s == StartUp(light) IN
       /\ proc = s.proc /\ awake = s.awake /\ frozen = s.frozen
       /\ dpmsTimer = s.dpmsTimer /\ dpmsIn = s.dpmsIn /\ ui = s.ui
    /\ crtc \in Found /\ cell = crtc /\ late = 0
    /\ lastClock = second
    /\ toastArmed = FALSE /\ finger = FALSE
    /\ redraw = TRUE /\ fade = 0 /\ painted = NoFrame

\* systemd starts the process again.
Restart ==
    /\ proc # "running"
    /\ \E l \in SavedLights : LET s == StartUp(l) IN
       /\ proc' = s.proc /\ light' = s.light /\ awake' = s.awake /\ frozen' = s.frozen
       /\ dpmsTimer' = s.dpmsTimer /\ dpmsIn' = s.dpmsIn /\ ui' = s.ui
    /\ crtc' \in Found /\ cell' = crtc' /\ late' = 0
    /\ online' = FALSE /\ entity' = NoText /\ lastClock' = second
    /\ toastArmed' = FALSE /\ finger' = FALSE
    /\ redraw' = TRUE /\ fade' = 0 /\ painted' = NoFrame
    /\ UNCHANGED second

\* on_light_command: Set keeps the brightness it does not carry and never
\* stores 0; Restore replaces the state.  Then light_changed.
\* Mutant: the brightness is stored as received.
AsReceived(b) == b

AtLeastOne(b) == Larger(b, 1)

Commanded ==
    { [on |-> o, brightness |-> IF b = Unchanged THEN light.brightness ELSE AtLeastOne(b)] :
        o \in BOOLEAN, b \in Requests \cup {Unchanged} }

LightCommand ==
    /\ proc = "running"
    /\ \E l \in Commanded \cup SavedLights :
        /\ EchoOff \/ ~frozen \/ Effective(l, awake) > 0
        /\ light' = l
        /\ RefreshScreen(l, awake)
    /\ UNCHANGED <<proc, awake, late, content, toastArmed, finger, painted>>

\* A touch on the wake guard: wake, which arms wake_timer.
\* Mutant: the screen is not refreshed.
WakeUnrefreshed ==
    /\ proc = "running"
    /\ ui.guard
    /\ awake' = TRUE
    /\ UNCHANGED <<proc, light, power, content, lastClock, toastArmed, finger,
                   screen, painted>>

Wake ==
    /\ proc = "running"
    /\ ui.guard
    /\ awake' = TRUE
    /\ RefreshScreen(light, TRUE)
    /\ UNCHANGED <<proc, light, late, content, toastArmed, finger, painted>>

\* wake_timer runs end_wake.
\* Mutant: the screen is not refreshed.
EndWakeUnrefreshed ==
    /\ proc = "running"
    /\ awake
    /\ awake' = FALSE
    /\ UNCHANGED <<proc, light, power, content, lastClock, toastArmed, finger,
                   screen, painted>>

EndWake ==
    /\ proc = "running"
    /\ awake
    /\ awake' = FALSE
    /\ RefreshScreen(light, FALSE)
    /\ UNCHANGED <<proc, light, late, content, toastArmed, finger, painted>>

\* dpms_timer runs freeze, which arms it for cut_signal.
\* Mutants: the cut follows too soon; the cut is never armed.
FreezeTooShort ==
    /\ proc = "running"
    /\ dpmsTimer = "freeze" /\ dpmsIn = 0
    /\ frozen' = TRUE
    /\ dpmsTimer' = "cut" /\ dpmsIn' = DpmsDelay
    /\ late' = 0
    /\ UNCHANGED <<proc, light, awake, output, content, lastClock, toastArmed, finger,
                   screen, painted>>

FreezeForgetsCut ==
    /\ proc = "running"
    /\ dpmsTimer = "freeze" /\ dpmsIn = 0
    /\ frozen' = TRUE
    /\ dpmsTimer' = "idle" /\ dpmsIn' = 0
    /\ late' = 0
    /\ UNCHANGED <<proc, light, awake, output, content, lastClock, toastArmed, finger,
                   screen, painted>>

Freeze ==
    /\ proc = "running"
    /\ dpmsTimer = "freeze" /\ dpmsIn = 0
    /\ frozen' = TRUE
    /\ dpmsTimer' = "cut" /\ dpmsIn' = FreezeTime
    /\ late' = 0
    /\ UNCHANGED <<proc, light, awake, output, content, lastClock, toastArmed, finger,
                   screen, painted>>

\* dpms_timer runs cut_signal: DPMS Off, or a thaw back to the black screen.
CutSignal ==
    /\ proc = "running"
    /\ dpmsTimer = "cut" /\ dpmsIn = 0
    /\ dpmsTimer' = "idle" /\ dpmsIn' = 0
    /\ \/ SetOnDone(FALSE) /\ UNCHANGED <<frozen, lastClock, screen>>
       \/ SetOnFails(FALSE) /\ frozen' = FALSE /\ lastClock' = second /\ Put(CaughtUp)
    /\ late' = 0
    /\ UNCHANGED <<proc, light, awake, content, toastArmed, finger, painted>>

\* toast, and toast_timer hiding it again.  Both writes go through ui().
ShowToast ==
    /\ proc = "running"
    /\ Write([ui EXCEPT !.toast = TRUE])
    /\ toastArmed' = TRUE
    /\ UNCHANGED <<proc, light, awake, power, content, lastClock, finger, painted>>

HideToast ==
    /\ proc = "running"
    /\ toastArmed
    /\ Write([ui EXCEPT !.toast = FALSE])
    /\ toastArmed' = FALSE
    /\ UNCHANGED <<proc, light, awake, power, content, lastClock, finger, painted>>

\* set_time_synced, Connected and the grace timer of Disconnected: each sets
\* its flag and calls refresh_connecting.
SetOnline(b) ==
    /\ proc = "running"
    /\ online' = b
    /\ Write([ui EXCEPT !.overlay = ~b])
    /\ UNCHANGED <<proc, light, awake, power, entity, second, lastClock, toastArmed,
                   finger, painted>>

\* StateChanged / StateRemoved: the entity map, then refresh_entity.
UpdateEntity(t) ==
    /\ proc = "running"
    /\ entity' = t
    /\ Write([ui EXCEPT !.text = t])
    /\ UNCHANGED <<proc, light, awake, power, online, second, lastClock, toastArmed,
                   finger, painted>>

\* tick at the next whole second; last_clock records only what was written.
\* Mutant: a dropped write is recorded too.
ClockTickRecordsDropped ==
    /\ proc = "running"
    /\ second' = 1 - second
    /\ lastClock' = second'
    /\ IF lastClock # second' THEN Write([ui EXCEPT !.clock = second'])
                              ELSE UNCHANGED screen
    /\ UNCHANGED <<proc, light, awake, power, online, entity, toastArmed, finger, painted>>

ClockTick ==
    /\ proc = "running"
    /\ second' = 1 - second
    /\ lastClock' = IF frozen THEN lastClock ELSE second'
    /\ IF lastClock # second' THEN Write([ui EXCEPT !.clock = second'])
                              ELSE UNCHANGED screen
    /\ UNCHANGED <<proc, light, awake, power, online, entity, toastArmed, finger, painted>>

\* A control changes its looks as it is pressed, dragged and released: these
\* writes are Slint's own and do not pass through ui().
Press ==
    /\ proc = "running"
    /\ ~ui.guard /\ ~ui.overlay /\ ~finger
    /\ finger' = TRUE
    /\ redraw' = TRUE
    /\ UNCHANGED <<proc, light, awake, power, content, lastClock, toastArmed, ui, fade, painted>>

Drag ==
    /\ proc = "running"
    /\ finger
    /\ redraw' = TRUE
    /\ UNCHANGED <<proc, light, awake, power, content, lastClock, toastArmed, finger,
                   ui, fade, painted>>

Release ==
    /\ proc = "running"
    /\ finger
    /\ finger' = FALSE
    /\ redraw' = TRUE
    /\ UNCHANGED <<proc, light, awake, power, content, lastClock, toastArmed, ui, fade, painted>>

\* UiCtl::shutdown at the end of main.
Shutdown == IF HasDpms THEN SetOn(TRUE) ELSE UNCHANGED output

\* render_if_needed, down to present (drmoutput.rs): the first frame of a
\* process sets the mode, which turns the CRTC on; the next ones flip pages,
\* which fails on a dark CRTC and makes run_event_loop return the error to main.
Render ==
    /\ proc = "running"
    /\ redraw
    /\ redraw' = FALSE
    /\ late' = 0
    /\ IF crtc \/ painted = NoFrame
       THEN painted' = ui.level /\ crtc' = TRUE /\ UNCHANGED <<proc, cell>>
       ELSE proc' = "died" /\ UNCHANGED painted /\ Shutdown
    /\ UNCHANGED <<light, awake, frozen, dpmsTimer, dpmsIn, content, lastClock,
                   toastArmed, finger, ui, fade>>

\* SIGTERM: quit_event_loop, shutdown, exit.
Quit ==
    /\ proc = "running"
    /\ proc' = "quit"
    /\ Shutdown
    /\ UNCHANGED <<light, awake, frozen, dpmsTimer, dpmsIn, late, content, lastClock,
                   toastArmed, finger, screen, painted>>

\* SIGKILL or a panic that aborts: no shutdown, the CRTC stays as it is.
Kill ==
    /\ proc = "running"
    /\ proc' = "killed"
    /\ UNCHANGED <<light, awake, power, content, lastClock, toastArmed, finger,
                   screen, painted>>

\* The loop has nothing to draw and no dpms step is due.
Idle == ~redraw /\ (dpmsTimer # "idle" => dpmsIn > 0)

\* 100 ms pass.  A running animation then wants its next frame.
Tick ==
    /\ proc = "running"
    /\ Idle \/ late < MaxStall
    /\ SlowFingers \/ ~finger
    /\ dpmsIn > 0 \/ fade > 0
    /\ late' = IF Idle THEN 0 ELSE late + 1
    /\ dpmsIn' = IF dpmsIn > 0 THEN dpmsIn - 1 ELSE 0
    /\ fade' = IF fade > 0 THEN fade - 1 ELSE 0
    /\ redraw' = (redraw \/ fade > 0)
    /\ UNCHANGED <<proc, light, awake, frozen, dpmsTimer, output, content, lastClock,
                   toastArmed, finger, ui, painted>>

Next ==
    \/ LightCommand \/ Wake \/ EndWake \/ Freeze \/ CutSignal
    \/ ShowToast \/ HideToast
    \/ \E b \in BOOLEAN : SetOnline(b)
    \/ \E t \in Texts : UpdateEntity(t)
    \/ ClockTick
    \/ Press \/ Drag \/ Release
    \/ Render \/ Tick
    \/ Quit \/ Kill \/ Restart

Spec == Init /\ [][Next]_vars

\* The loop keeps iterating and time keeps passing; a tap ends.  Tick needs
\* strong fairness: each frame drawn for something else disables it for a moment.
\* systemd restarts a process that was not told to stop (Restart=always).
Fairness ==
    /\ WF_vars(Render) /\ SF_vars(Tick)
    /\ WF_vars(Freeze) /\ WF_vars(CutSignal)
    /\ WF_vars(HideToast) /\ WF_vars(Release)
    /\ WF_vars(proc # "quit" /\ Restart)

FairSpec == Spec /\ Fairness

-----------------------------------------------------------------------------
\* Every variable has its type; a stored brightness is never 0.
TypeOK ==
    /\ proc \in {"running", "quit", "killed", "died"}
    /\ light \in Lights
    /\ awake \in BOOLEAN /\ frozen \in BOOLEAN
    /\ crtc \in BOOLEAN /\ cell \in BOOLEAN /\ late \in 0..MaxStall
    /\ dpmsTimer \in {"idle", "freeze", "cut"}
    /\ dpmsIn \in Nat /\ fade \in 0..FadeTime
    /\ online \in BOOLEAN /\ entity \in Texts
    /\ second \in Seconds /\ lastClock \in Seconds
    /\ toastArmed \in BOOLEAN /\ finger \in BOOLEAN /\ redraw \in BOOLEAN
    /\ ui \in Screens
    /\ painted \in Levels \cup {NoFrame}

\* "Nothing may be drawn while the CRTC is off": no interleaving of commands,
\* wakes, timers, network events and animations makes the event loop present a
\* frame between the cut and the next thaw, so it never dies of one.
NoDrawOnDark ==
    /\ proc # "died"
    /\ proc = "running" /\ ~crtc /\ painted # NoFrame => ~redraw /\ fade = 0

\* A panel the program has darkened shows the black frame and its next touch
\* wakes it: no control can be operated blind, no write is accepted until the
\* thaw, and the process does not end by itself with the panel dark.
DarkIsGuarded ==
    ~crtc /\ painted # NoFrame =>
        /\ proc \in {"running", "killed"}
        /\ frozen /\ ui.guard /\ ui.level = 0 /\ painted = 0

\* After every callback the overlay and the wake guard are what the light and
\* the wake window ask for, whatever the order commands and timers came in.
ScreenFollowsLight ==
    /\ ui.level = Effective(light, awake)
    /\ ui.guard = (WakeGuard(light, awake) \/ ui.level = 0)

\* A frozen UI drops writes; once it takes writes again nothing dropped is
\* missing: connecting screen, clock and entity show the current state.
ContentIsCurrent ==
    ~frozen => /\ ui.overlay = ~online
               /\ ui.text = entity
               /\ ui.clock = second

\* During a wake window the panel has signal (or is about to get its first
\* frame), takes writes and is readable.
AwakeIsLit ==
    awake => ~frozen /\ (crtc \/ painted = NoFrame) /\ ui.level >= WakeBrightness

\* The signal is cut only after the black frame has reached the panel, with
\* every animation finished and the light really off.
CutComesAfterBlack ==
    [][proc = "running" /\ crtc /\ ~crtc' =>
            painted = 0 /\ fade = 0 /\ ~redraw /\ Effective(light, awake) = 0]_vars

\* Commands and exits that keep restarting the sequence.
Disturbed == LightCommand \/ Quit \/ Kill

\* Once the light stays off, nobody touches the panel and commands stop, the
\* signal is eventually cut and stays cut.
OffCutsSignal ==
    <>[][~Disturbed]_vars /\ <>[](proc = "running" /\ Effective(light, awake) = 0)
        => <>[](~crtc)

\* A wake is followed by a frame at a readable brightness, unless it or the
\* process ends first.
WakeIsPainted ==
    awake ~> (~awake \/ proc # "running" \/ painted \in WakeBrightness..255)

\* A light that is on is shown, even when DPMS On fails: the page flip that then
\* fails ends the process, and the next one sets the mode with its first frame.
LightIsShown ==
    <>[][~(Quit \/ Kill)]_vars =>
        (Effective(light, awake) > 0
            ~> (Effective(light, awake) = 0 \/ proc = "quit"
                \/ (crtc /\ painted \in 1..255)))

\* "Seconds an error toast stays visible": a toast on a live screen is hidden
\* again, unless the screen goes dark under it.
ToastExpires ==
    (proc = "running" /\ ui.toast /\ ~frozen)
        ~> (proc # "running" \/ ~ui.toast \/ frozen)
=============================================================================
