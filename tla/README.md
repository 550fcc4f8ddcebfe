# A verification of barclock in TLA+

barclock (`../src`) is a wall panel: a Rust program with a Slint user
interface on a bar-shaped touch screen, which shows Home Assistant entities and
the readings of an IoTaWatt power monitor, sends service calls, and is itself a
light in Home Assistant over MQTT. This directory holds TLA+ models of its
concurrent parts, TLC configurations that check them on small instances, and
proofs checked by TLAPS. Source lines are cited as `main.rs:1117`, for
`src/src/main.rs`; the complete map from definitions to lines is `map` in
`PROJECT.json`.

## Inventory

Two threads. The **UI thread** runs the Slint event loop; all of `UiCtl` runs on
it, one callback at a time. The **networking thread** runs a single-threaded
tokio runtime with three tasks that never share memory with the UI, only
channels: tokio `mpsc` towards the tasks and, towards the UI, `mpsc` plus
`slint::invoke_from_event_loop`, which keeps the order.

| component | state | operations | talks to | what makes it correct |
|---|---|---|---|---|
| panel power and brightness (`main.rs:1073-1211`) | light, awake, frozen, dpms_timer, CRTC | light command, wake, end of wake, freeze, cut, thaw, shutdown | MQTT task, every other UI callback, DRM | never a frame on a dark CRTC; screen follows light and wake window; dropped writes are caught up |
| Slint event loop (`vendor/i-slint-backend-linuxkms`) | what wants redrawing, animations | draw, wait, be late | the panel | ends if a page flip fails |
| Home Assistant task (`ha_ws.rs`) | connection, phase, next id, pending calls, deadline, backoff | connect, handshake, call, result, ping, deadline, backoff | UI, Home Assistant | no call lost or answered twice, no wait without bound, retries paced |
| entity stream (`ha_ws.rs:536-568`, `772-855`, `main.rs:566-583`) | the session's merged copy, the UI's entity map | snapshot, delta, removal, pruning | UI, Home Assistant | the UI ends up with what HA holds, never with half of it |
| UI calls and link (`main.rs:548-775`) | in-flight markers, ha_connected, grace timer | press, result, state, call timeout, grace | HA task | every press ends, told at most once, buttons show what is pending |
| power figures (`iotawatt.rs`, `main.rs:510-546`) | failures, fell_back, servers_channel; iotawatt_live | poll, live, down, sensor update | device, HA sensors, UI | the right source is shown |
| MQTT light (`mqtt_light.rs`) | connection, restore window, watch value | ConnAck, message, window, watch, error | broker, UI, state file | broker and panel agree, the light is what it was last told to be, an outage queues nothing |
| outage pacing (`mqtt_light.rs`) | failure count | retry delay, log level | MQTT task | -- |
| formatting, clock, configuration, preview, deployment | none, or set once | pure functions, start-up | -- | -- |

The hard parts: timers of the off sequence against commands, touches, network
events and an event loop that is late; what the program believes of the CRTC
against what it is, from one process to the next; writes dropped while frozen;
calls across reconnects; a copy kept up by deltas over a link that comes and
goes; results, states and timeouts of one call racing each other; two sources
for one figure; a restore window against changes, reconnects and crashes. `hazards` in
`PROJECT.json` lists each at its line with the properties aimed at it.

## Modules

| module | models | composed with |
|---|---|---|
| `PanelPower` | panel power, brightness and what of the event loop, DRM output, clock, toast, connecting screen and controls may ask for a frame | -- |
| `PanelPowerProofs` | theorems about `PanelPower` | |
| `HaContract` | abstract: what the Home Assistant task promises the UI | implemented by `HaSession`, used by `UiCalls` |
| `HaSession` | `ha_ws.rs` with Home Assistant and the network as external actions | refines `HaContract` |
| `EntityMirror` | the entity stream, from Home Assistant's states to the UI's map | -- |
| `UiCalls` | the UI side of calls and of the link | extends `HaContract` |
| `PowerFeed` | poller, channel, and the two figures | -- |
| `MqttLight` | MQTT task, UI end, state file, broker | -- |
| `HaSessionProofs`, `UiCallsProofs`, `EntityMirrorProofs`, `PowerFeedProofs`, `MqttLightProofs` | theorems about the module each is named after | |
| `Stepwise` | lemmas: least elements of sets of naturals, results of functions applied in turn | used by `EntityMirrorProofs` and `MqttLightProofs` |
| `MC*` | constants for TLC | |

Operators whose comment says *Mutant* are deliberately wrong variants of the
definition that follows them. No specification uses them: each exists to show
that a property fails when the code is wrong in that way (`mutants` in
`PROJECT.json`).

### PanelPower

A callback of the UI thread is one action; `Render` is the end of a loop
iteration (`render_if_needed`), `Tick` lets 100 ms pass while the loop waits or,
for at most `MaxStall` ticks in a row, while it is held up with a frame to draw
or a step of the sequence to run (`late` counts them).
`ui` is the Slint properties that matter: connecting overlay, one entity's text,
clock, toast, brightness level, wake guard. Backlight and dim overlay are one
level, since both are set in the same places.

* `Write` is `UiCtl::ui`, which drops while frozen; `Put` is a direct write.
* `RefreshScreen` has the three outcomes of `refresh_screen`: `StayBlack` (the
  early return while frozen, *after* the timer was stopped), `GoBlack`,
  `LightUp` (with `thaw`).
* `Freeze` and `CutSignal` are what `dpms_timer` runs; the timer's delays are
  the constants `DpmsDelay` and `FreezeTime`, the overlay's animation is
  `FadeTime`. Only their relation matters: `FadeTime + MaxStall < FreezeTime`
  (700 ms in `app.slint:698`, 1000 ms in `main.rs:1155`, so the design stands a
  loop that is less than 300 ms late).
* `crtc` is the hardware, `cell` is `Dpms.on`, what the program believes it to
  be. `SetOn` compares with the cell and changes both, or neither when the ioctl
  fails. The first frame of a process sets the mode and so turns the CRTC on
  (`present` in the vendored `drmoutput.rs`) without the cell; later frames flip
  pages, which needs a lit CRTC.
* A process ends by `Quit` (SIGTERM: `shutdown` lights the panel), by a failed
  page flip in `Render`, or by `Kill` (SIGKILL, or a panic, which aborts), which
  leaves the CRTC as it is. `Restart` starts the next one, which reads whatever
  `Found` allows.
* Wake and toast timers last minutes and seconds: armed, they may fire at any
  time.
* `Failing` says which ioctl may fail, `SlowFingers` whether a finger may rest
  on a control while time passes, `EchoOff` whether a command that leaves the
  light off may come in while frozen, `FoundDark` whether a process may start on
  a dark CRTC. They make the conditions of each result explicit.

### HaContract, HaSession and UiCalls

`HaContract` has a link that is up or down, the calls passed on, and the two
channels. It says what a UI author may rely on: calls are passed on only while
up, answered once, failed before the loss is announced, and `Connected` /
`Disconnected` mark exactly the stretches in which the link is up.

`HaSession` has one action per branch of the select loops and per kind of
frame. `net` is the place of `run()`: connecting, serving, sending, closing,
sleeping. Every way out of `serve` is `Leave`, then the closing handshake
(`Closes`), then `EndSession`: `fail_pending`, the farewell if the session was
live, `delay_after`. A send is awaited inside its branch of the select loop: it
completes, fails, or, with a silent peer and a full buffer, waits (`Waits`) with
no other branch and no deadline looked at until TCP gives up (`SendFails`).
Frames keep their order in each direction. Home Assistant answers calls in any
order or never, may refuse token and subscription, may repeat the result of the
subscription, and may fall silent without closing; as its protocol has it, it
refuses a token in the handshake only. `outstanding` of the contract is the requests in `pending`, `up` is
the stretch from the first successful subscribe result to `EndSession`.

`UiCalls` extends the contract with the UI thread: `Press` sends the calls of a
button and leaves a marker for each, `OnResult`, `OnStateChanged` and
`CallTimeout` remove them, `GraceEnds` is the `connecting_after_s` timer. The
error branch of `send` (`main.rs:624`, the call channel is closed) is left out:
a press needs a connection, and the task that made it never returns. So
what `UiCalls` shows holds for the real task as far as `HaSession` refines
`HaContract`. `told` is a ghost that counts toasts.

### EntityMirror

`Merged` is `apply_event` on the session's copy, with `full_state` for `a` and
`apply_diff` for `c`; `Report` is the list of UI events it returns, in its order;
`OnEvent` adds what the snapshot lacks (`missing_from_snapshot`). An entity is a
function from fields to values, its `state` string being one field beside its
attributes. The UI's map is `view`, behind the event channel: it outlives the
connections, the session's copy (`entities`) does not. Home Assistant is external:
a snapshot when it takes the subscription, differences from then on, nothing
while nobody is subscribed. `Drop` may come at any point, with frames in flight.

### PowerFeed

`PollFails` and `PollAnswers` are one round of the loop in `iotawatt.rs`; the
device is a choice of failure or of figures. `OnLive` and `OnDown` are
`on_power_event`, `OnSensor` is a sensor's state with the part of
`refresh_entity` that shows house and servers. `Freeze` and `Thaw` stand for
`PanelPower`. `from` is a ghost: the source of the text shown. The code's
failure counter has no limit; it is compared only with `GiveUpAfter`, so the
model stops counting there.

### MqttLight

One action per branch of the select loop. `outgoing` is the rumqttc queue with
`sent` requests handed to the broker and not acknowledged; after a lost
connection the next session sends the publishes among them again, first, or
starts without them (rumqttc asks the broker whether it kept the session).
`BrokerTakes` keeps retained values and answers a subscription with them, or
refuses it. A retained state may lack its brightness, like a command; `Restored`
completes it with the light's own (`Command::restore`). The UI takes commands,
saves the file, which may fail, and changes the watch value. `Crash` keeps the file and the broker. `word` is a history
variable: what the light was last told to be.

## Runs

| run | instance | states | shows |
|---|---|---|---|
| `PanelPower.cfg` | levels 1 and 200 (below the readable threshold and above the wake brightness), delays 1, 4, 2, stalls of 1, DPMS Off may fail, echoes allowed, dark starts | 231 k | the safety of the off sequence, current content, brightness |
| `PanelPowerLive.cfg` | one level, DPMS On may fail, no echo, no process starts on a CRTC it finds dark, fairness | 20 k | off cuts the signal; a wake is seen; a light that is on is shown |
| `PanelEchoOff.cfg`, `PanelFoundDark.cfg`, `PanelToast.cfg`, `PanelSlowFinger.cfg` | one level | -- | disagreements, below |
| `HaSession.cfg` | 3 calls, table of 2, backoff 1 to 3, pings up to id 3, fairness | 372 k | conservation of calls, ids, deadlines, pacing, refinement, dead links dropped, no stuck state, calls taken without waiting for a connection |
| `EntityMirror.cfg` | 2 entities with 3 possible states over 3 fields, queues of 1, fairness | 39 k | nothing missed, nothing half merged, the panel catches up |
| `UiCalls.cfg` | a preset of two calls, a preset of one call on two entities, a toggle; 3 requests; fairness | 107 k | markers, toasts, connecting screen |
| `PowerFeed.cfg` | both figures, fallback after 2 failures, 2 values, channel of 2, fairness | 93 k | the figure's source |
| `PowerMissing.cfg` | the same | -- | a disagreement, below |
| `MqttLight.cfg` | two brightness levels; a command with and one without brightness; at first a retained state without brightness, an unreadable one or none; a stale retained command; fairness | 1.0 M | the last publish is the light's, the light keeps the last word, an outage queues nothing, broker and panel end up the same |

Why the bounds are enough. *Panel*: the sequence has three steps, its delays
matter only by their relation, a stall of one tick is the largest that the
assumption allows for them, and every boolean flag takes both values; a second
entity would behave like the first. *HaSession*: two calls in the table and one
beyond it give out-of-order answers, a full table and ids reused over
connections; `MaxPingId` stops pings with a responsive peer only, so a silent
one is always noticed; a repeated result is sent when no other is in flight;
`MaxEvents` holds back a reconnect while the UI is behind, nothing else.
*EntityMirror*: two entities let one be
added, changed or removed in the event that leaves the other alone; the three
states differ in every field, one lacks an attribute, so a change can set one
field, remove one and keep one; `MaxQueue` holds back new changes and
connections, and an event of two entities still queues several. *UiCalls*: three requests let a preset of two calls and a
toggle on the same entity be pending together; `MaxEvents` holds back the
other end of the channel, which may still add several events at once when the
link is lost. *PowerFeed*: two failures tell
"first" from "give up"; a channel of two holds a Down and the Live that follows.
*MqttLight*: two levels
tell the brightness a command sets from the one kept where a command or a
retained state has none; of the commands and of the states found retained
(`HaCommands`, `FoundStates`) the instance has some, the theorems have all;
`MaxQueue` holds back new commands and new disconnections while much is queued,
so old publishes of one connection meet those of the next.

### Fairness

*Panel*: the loop keeps iterating, timers that are due fire, time passes, a tap
ends, and a process that ended by itself or was killed is started again
(`Restart=always` in `deploy/barclock.service`; one that was told to quit may stay
down). `Tick` has strong fairness since each frame drawn for another reason
disables it for a moment. *HaSession*: tokio serves a ready branch of a select
eventually; the branch for calls has strong fairness because other branches may
take turns with it (tokio's `select!` picks among ready branches at random).
Pings and deadlines that are due are served, the closing handshake ends
(`CLOSE_TIMEOUT`), and TCP gives up on a send nobody acknowledges. Nothing else
is assumed: an attempt to connect or a sleep may last for ever, so a call that
had to wait for its end would show in `CallsAreTaken`, and `KeepsTrying` names in
its premise (`SleepsEnd`) that sleeps end and the UI drains its channel. Nothing
at all is assumed of Home Assistant, of the network or of the frames received.
*EntityMirror*: the task connects again and drains its socket
(`HaSession` shows it keeps trying), the UI drains its channel, and Home Assistant
answers a subscription; `ViewConverges` names in its premise that links, crashes and
changes end.
*UiCalls*: delivery of events, and timers. *PowerFeed*: the poll ticker until
the poller gives up, and the channel. After it has given up, one more failed poll
changes nothing, so fairness must not ask for a changing step there: it would
force the device to answer. `ComesBack` names the answers it needs in its premise. *MqttLight*: the task's own
branches, the UI, and a broker that takes and acknowledges while the connection
stays up; commands, errors and crashes are never forced.

## Disagreements between the code and what it says

* **An off command can keep the signal on** (`PanelEchoOff.cfg`,
  `main.rs:1117`). `refresh_screen` stops the timer before it returns early for
  a frozen UI. An off command (or a restored state that is off) in the second
  between freeze and cut cancels the cut, and nothing arms it again.
  README.md:168 promises the cut.
* **A start on a dark CRTC skips the first cut** (`PanelFoundDark.cfg`,
  `display.rs:95`). After a SIGKILL while dark `Dpms::discover` may read "off" and
  the cell says so; the first frame's `set_crtc` lights the CRTC without the cell,
  and the cut of the first off sequence finds nothing to do. The run allows any
  reading at start; whether a given kernel restores the console, and with it the
  CRTC, between the two processes is not modelled. README.md:168 promises the
  cut.
* **A toast can outlive its time** (`PanelToast.cfg`, `main.rs:1068`). If its
  timer fires while frozen the hiding write is dropped, and the thaw does not
  refresh the toast.
* **A resting finger gets past the freeze** (`PanelSlowFinger.cfg`,
  `app.slint:52`). The pressed look of a control is Slint's own write.
  `main.rs:1152` says no page flip can be queued after the cut.
* **A missing figure does not use its sensor** (`PowerMissing.cfg`,
  `main.rs:528`). The refresh that the comment in `main.rs:527` announces
  writes nothing, because the device is live.

Related: when DPMS On fails, `thaw` logs it and the UI draws on a dark CRTC
(`main.rs:1181`). `NoDrawOnDark` is false then, so the theorems assume that this
ioctl succeeds; `LightIsShown`, checked with the ioctl failing at will, says that
the process which dies of it is followed by one that shows the light.

## What is proved

Every safety invariant and every action property that a passing run checks is a
theorem, and so is the refinement of `HaContract` by `HaSession`: for all
values of the constants that satisfy the named assumptions of the module, and
for queues and histories of any length, since the bounds of the runs are
constants without an assumption.

### Panel

`PanelPowerProofs` assumes levels in range, what `Config::validate` guarantees
and `FadeTime + MaxStall < FreezeTime`; `FoundDark` is free.

| theorem | property | condition |
|---|---|---|
| `TypeCorrect` | `TypeOK` | none |
| `ScreenCorrect` | `ScreenFollowsLight` | none |
| `ContentCorrect` | `ContentIsCurrent` | none |
| `NeverDrawsOnDark` | `NoDrawOnDark` | `Benign` |
| `DarkPanelIsGuarded` | `DarkIsGuarded` | `Benign` |
| `WakeWindowIsLit` | `AwakeIsLit` | `Benign` |
| `CutIsOrdered` | `CutComesAfterBlack` | `Benign` |

`Benign` is `TRUE \notin Failing /\ ~SlowFingers`: switching the panel on does not
fail, and no finger rests on a control while time passes. The violated runs show
that the second is needed. "None" includes both kinds of failures and fingers.
`NoDrawOnDark`, `DarkIsGuarded` and `AwakeIsLit` speak of a CRTC the process has
darkened: before its first frame, a process may find it dark.

The argument has three invariants. `TypeOK` is inductive. `SequenceInv`
strengthens `ScreenFollowsLight` and `ContentIsCurrent` with what relates the
timer to the freeze: a freeze or a cut is armed only while the light is
effectively off, the cut only while frozen, and whenever the sequence runs the
wake guard is up, so that no control can be touched. `MarginInv` is what makes
the cut safe. While the cut is armed, an animation that still runs started
before the freeze, so what is left of it ends `FreezeTime - FadeTime` ticks or
more before the cut; once it is over, a last frame that is still to be drawn
cannot be later than the cut, since `dpmsIn + late > MaxStall` and a loop that
is `MaxStall` late must draw before time passes (lemma `CutIsDue`). On a panel
the process has darkened (`Dark`) nothing is wanted and nothing animates, and a
cell that says "on" is never wrong. `NoDrawOnDark` is not inductive without it:
it says nothing of the last second before the cut. `MarginInv` and `SequenceInv`
are proved preserved action by action.

### Home Assistant task

`HaSessionProofs` assumes that requests are numbers, a table size and, from
`Config::validate`, `0 < BackoffMin <= BackoffMax`.

| theorem | property |
|---|---|
| `TypeCorrect` | `TypeOK` |
| `SessionInvariant` | (`SessionInv`) |
| `IdsAlwaysIncrease` | `IdsIncrease` |
| `WaitsAreBounded` | `EveryWaitIsBounded` |
| `AnswersAreMatched` | `AnswersMatch` |
| `RetriesKeepPace` | `RetriesArePaced` |
| `SessionKeepsContract` | `KeepsContract` |
| `NoCallIsLost` | `NothingLost` |

None of these invariants is inductive alone. `SessionInv` adds `Lifecycle` (where
`run()` is decides what is left of a connection: no frames and no jobs outside
`serve`, no pending call before Live), `Handshake` (until Home Assistant has
accepted the token it sends nothing that takes a session beyond `AwaitAuthOk`),
`Numbered` (every id in flight, either way, is below `nextId`) and `Matched` (a
call's id, wherever it travels, is that of its own entry in the table or of
none). They depend on each other: a call cannot be answered before Live because of
the handshake, its id is fresh because the connection is, and the connection
starts with nothing in flight because of `Lifecycle`.

The refinement takes `InFlight`, the requests of the pending table, for
`outstanding`, and "live and not yet asleep" for `up`. Under `SessionInv` every
branch of the select loops is one step of the contract or none (`TaskContract`),
Home Assistant and the network are none (`PeerContract`). `NothingLost` is then
proved over the contract's steps alone: `GoDown` turns what is outstanding into
as many failures, and the other steps move one call.

### UI side of calls

`UiCallsProofs` holds for any link that keeps `HaContract`, any buttons with
presets over non-empty sets of entities, and any number of requests.

| theorem | property | invariant behind it |
|---|---|---|
| `TypeCorrect`, `PendingAlwaysShown` | `TypeOK`, `PendingIsShown` | the two together |
| `OneToast` | `OneToastPerCall` | `ToldOnce`: a request that still has its marker, or is not made yet, has had no toast |
| `DashboardIsTruthful` | `DashboardTellsTruth` | `NewsArrives`: the last link event still queued tells of the link as it is, or none is queued and the screen, or its grace timer, already follows the link |
| `NoSilentEnd` | `SilentEndIsExplained` | the same as `TypeOK` |

### Entity stream

`EntityMirrorProofs` assumes that the subscribed entities are finitely many
(`Report` lists them), and what tells a state from `Blank` and from no entity.

| theorem | property |
|---|---|
| `TypeCorrect` | `TypeOK` |
| `MirrorInvariant` | (`MirrorInv`) |
| `NothingIsMissed` | `NothingMissed` |
| `OnlyWholeShown` | `ShownIsWhole` |

`NothingMissed` folds queues into copies, and says nothing of the copies in
between; `ShownIsWhole` needs them. `MirrorInv` therefore speaks of plays:
`Plays(copy, c, s, w)` is a list of states of the world, from `c` to `w`, each
reached from the one before by the next item of `s`. The frames in flight play
from the session's copy to Home Assistant's; the queued events play from the
UI's map to the session's copy, or, while a snapshot is pending, to some state of
the world. A play is prolonged by an item queued (`PlaysOneMore`), shortened
by one taken (`PlaysOneLess`), and joined to another (`PlaysOn`). What makes the
steps work are facts about the code's algorithms: `SnapshotMerges` and
`DifferenceMerges` (`apply_event` on what Home Assistant sends gives what it
holds), `ReportTells` and `SnapshotTells` (what is reported names every entity
that may differ, with its merged state, so any order and any repetition leads
to the copy; with `missing_from_snapshot` it names every entity). The snapshot
may meet any earlier map, hence the second. `FoldLeftIsPlayed` leads back to
the folds of `NothingMissed`.

### Power figures

`PowerFeedProofs` assumes that some figure is configured, that the fallback
takes at least one failure, and that no value is `None`.

| theorem | property |
|---|---|
| `TypeCorrect` | `TypeOK` |
| `FallbackIsComplete` | `FallbackShowsSensors` |
| `DeviceFigureKept` | `DeviceFigureStays` |
| `FirstLiveLeavesSensors` | what remains true of the comment that `PowerMissing.cfg` refutes |

### MQTT light

`MqttLightProofs` assumes only that the default is a light, that the commands
and the states found are among those there are, and that the values standing for no state and for garbage are
neither.

| theorem | property |
|---|---|
| `TypeCorrect` | `TypeOK` |
| `LightInvariant` | (`LightInv`) |
| `BrokerIsTold` | `BrokerFollowsLight` |
| `LightKeepsWord` | `LastWordHolds` |
| `OutageStaysQuiet` | `OutageQueuesNothing` |

`LightInv` strengthens `LastWordHolds` to every queue of commands: replayed on
the light, they lead to the word (`Replays`). `BrokerFollowsLight` is
preserved as it stands once the queue is typed: acknowledging, handing over
and queueing requests, and the loss of a connection that keeps publishes only,
leave the last state published where it was (`EndsWith`).

### How

Induction over data has no proof rule here that takes a predicate, but
`Stepwise` gets what is needed from the well-foundedness of `<` on the naturals:
a property that fails somewhere fails at a least place. This shows that the
recursive function in `Publishes` and the one inside `FoldLeft` have values and
what these are.

The definitions were arranged for the proofs, without changing what they
describe: `Publishes` is a recursive function rather than a `SelectSeq`,
whose definition is a recursive operator, `InFlight` and `Unsent` name positions
rather than filtered sequences, and each `TypeOK` types every variable.

### Model-checked only

Liveness is out of the provers' reach: `OffCutsSignal`, `WakeIsPainted`,
`LightIsShown`, `DeadLinkDropped`, `KeepsTrying`, `CallsAreTaken`, `MarkersClear`,
`FallsBack`, `ComesBack`, `Converges`, `ViewConverges`. The five disagreements are
runs by nature.

## Not modelled

* The text each entity becomes (`refresh_entity` and its helpers), calendar
  arithmetic, configuration parsing: pure functions without state of their own,
  whose results no other component reads back.
* The outage pacing of `mqtt_light.rs`: the length of the retry pause and the log
  level. No state but the pause itself depends on it. The packet ids of
  subscriptions likewise serve a log line only.
* HTTP and TLS, payload formats, the buffers of the vendored backend, input
  devices, the preview and the deployment files.
* A full rumqttc queue (64 requests): `OutageQueuesNothing` is why an outage does
  not fill it; a broker that stays connected and takes nothing for 64 changes of
  the light is left out.
* How `PanelPower` and the other UI modules share the thread: `PowerFeed` has the
  freeze and the thaw as free actions, `UiCalls` has neither, `PanelPower` has one
  opaque text per entity.

## Plan

Done, in this order: `PanelPower` and its proofs, `HaContract`, `HaSession`,
`UiCalls`, `PowerFeed`, `MqttLight`; then `EntityMirror`, sends that wait and the
closing handshake in `HaSession`, stalls, dark starts and kills in `PanelPower`
with the proofs redone for them, failed saves, refused subscriptions and dropped
sessions in `MqttLight`; then the safety of `PowerFeed`, `HaSession` with its
refinement, `UiCalls`, `MqttLight` and `EntityMirror` proved.

Next:

1. Theorems about `HaContract` itself that its users rely on without a property
   of their own: no result of a call passed on before a `Disconnected` comes
   after it, and `Connected` and `Disconnected` alternate in the channel.
2. The safety half of what the liveness runs show, as theorems: the steps that
   lead to the cut, to the wake's first frame and to the fallback are armed
   whenever they are needed.
