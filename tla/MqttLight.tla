------------------------------ MODULE MqttLight ------------------------------
(***************************************************************************)
(* The panel as an MQTT light (src/mqtt_light.rs, run): one select loop    *)
(* over the rumqttc event loop, the UI's watch channel, the retry pause    *)
(* and the restore window of the first session.  Around it: the UI end     *)
(* (main.rs, on_light_command), the state file, crashes, and as external   *)
(* parts the rumqttc queue, the broker and Home Assistant.                 *)
(*                                                                         *)
(* rumqttc sends requests in order.  After a lost connection it keeps the  *)
(* publishes that were unsent or unacknowledged, and the next session      *)
(* sends them again or starts without them, as the broker's session flag   *)
(* has it; a subscription kept with them would only repeat one of the next *)
(* session's.  The queue is taken to have room (64 requests).  Log levels, *)
(* the length of the retry pause and the packet ids of subscriptions are   *)
(* left out.                                                               *)
(***************************************************************************)
EXTENDS Naturals, Sequences

CONSTANTS
    Levels,         \* brightness values in use
    DefaultLight,   \* load_light_state's fallback in main
    StaleCommand,   \* a command somebody published with the retain flag, or NoState
    NoState,        \* nothing retained; no brightness in a command
    Garbage,        \* a retained state that does not parse
    HaCommands,     \* bound: the commands Home Assistant sends
    FoundStates,    \* bound: what the broker may retain at first
    MaxQueue        \* bound: no command and no lost connection with more queued

Lights == [on : BOOLEAN, brightness : Levels]
Commands == [on : BOOLEAN, brightness : Levels \cup {NoState}]

ASSUME LightAssumption ==
    /\ DefaultLight \in Lights
    /\ HaCommands \subseteq Commands /\ StaleCommand \in Commands \cup {NoState}
    /\ FoundStates \subseteq Commands \cup {NoState, Garbage}
    /\ NoState \notin Lights \cup Commands \cup Levels /\ Garbage \notin Commands

VARIABLES
    light,          \* St.light, which is also the watch channel's value
    changed,        \* the watch channel holds a change the task has not seen
    file,           \* the state file, NoState while absent
    commands,       \* task -> UI
    connected,      \* run(): connected
    retryArmed,     \* run(): retry_at is Some
    window,         \* run(): restore_deadline is Some
    restoreDone,    \* run(): restore_done
    outgoing, sent, \* requests not yet acknowledged, how many the broker has
    retained,       \* broker: the retained state
    available,      \* broker: the retained availability is "online"
    subscribed,     \* broker: our subscriptions on this connection
    incoming,       \* broker -> task
    word            \* history: what the light was last told to be, see LastWordHolds

uiEnd == <<light, changed, file>>
task == <<connected, retryArmed, window, restoreDone>>
queue == <<outgoing, sent>>
broker == <<retained, available, subscribed>>
vars == <<uiEnd, commands, task, queue, broker, incoming, word>>

PublishState(l) == [kind |-> "state", value |-> l]
Online == [kind |-> "online", value |-> NoState]
Subscribe(topic) == [kind |-> topic, value |-> NoState]
Message(topic, retain, value) == [topic |-> topic, retain |-> retain, value |-> value]

Set(c) == [type |-> "Set", value |-> c]
Restore(l) == [type |-> "Restore", value |-> l]

IsPublish(request) == request.kind \in {"state", "online"}

\* The publishes among the requests, in their order.
Publishes(requests) ==
    LET kept[i \in 0..Len(requests)] ==
          IF i = 0 THEN <<>>
          ELSE IF IsPublish(requests[i]) THEN Append(kept[i - 1], requests[i]) ELSE kept[i - 1]
    IN  kept[Len(requests)]

\* What a process starts with: the file, or the default.
Saved(f) == IF f = NoState THEN DefaultLight ELSE f

Init ==
    /\ file = NoState
    /\ light = Saved(file) /\ changed = TRUE     \* UiCtl::start: light_changed(false)
    /\ commands = <<>>
    /\ connected = FALSE /\ retryArmed = FALSE /\ window = FALSE /\ restoreDone = FALSE
    /\ outgoing = <<>> /\ sent = 0
    /\ retained \in FoundStates
    /\ available = FALSE /\ subscribed = {}
    /\ incoming = <<>> /\ word = light

-----------------------------------------------------------------------------
\* The brightness a command does not carry is kept.
Merge(old, c) ==
    [on |-> c.on, brightness |-> IF c.brightness = NoState THEN old.brightness ELSE c.brightness]

\* try_publish and try_subscribe.
Queue(requests) == outgoing' = outgoing \o requests /\ UNCHANGED sent

\* ConnAck: announce, subscribe, and then either publish the state or, as long
\* as no restore window has closed in this process, open one.  What rumqttc
\* carried over from the last connection comes first.
Announcement == <<Online, Subscribe("command"), Subscribe("retained")>>

NewSession(requests) ==
    /\ ~connected /\ ~retryArmed
    /\ connected' = TRUE
    /\ \E carried \in {outgoing, <<>>} : outgoing' = carried \o requests
    /\ UNCHANGED <<light, file, commands, retryArmed, restoreDone, sent, broker, incoming, word>>

\* Mutant: every connection opens a window.
OnConnAckAlwaysRestores ==
    /\ NewSession(Announcement)
    /\ window' = TRUE
    /\ UNCHANGED changed

OnConnAck ==
    \/ /\ restoreDone
       /\ NewSession(Append(Announcement, PublishState(light)))
       /\ changed' = FALSE
       /\ UNCHANGED window
    \/ /\ ~restoreDone
       /\ NewSession(Announcement)
       /\ window' = TRUE
       /\ UNCHANGED changed

\* poll() fails, connected or not: the window dies, the pause begins.  The
\* broker publishes the last will and forgets the session.
OnPollError ==
    /\ ~retryArmed
    /\ connected' = FALSE /\ retryArmed' = TRUE /\ window' = FALSE
    /\ outgoing' = Publishes(outgoing) /\ sent' = 0
    /\ Len(outgoing') <= MaxQueue
    /\ available' = FALSE /\ subscribed' = {} /\ incoming' = <<>>
    /\ UNCHANGED <<uiEnd, commands, restoreDone, retained, word>>

RetryDue ==
    /\ retryArmed
    /\ retryArmed' = FALSE
    /\ UNCHANGED <<uiEnd, commands, connected, window, restoreDone, queue, broker, incoming,
                   word>>

Receives(topic) ==
    /\ connected /\ incoming # <<>> /\ Head(incoming).topic = topic
    /\ incoming' = Tail(incoming)

\* decode_command: a retained one is refused.
\* Mutant: the retain flag is not looked at.
AnyCommand(m) == TRUE

LiveCommand(m) == ~m.retain

OnCommand ==
    /\ Receives("command")
    /\ LET m == Head(incoming) IN
       /\ commands' = IF LiveCommand(m) THEN Append(commands, Set(m.value)) ELSE commands
       /\ word' = IF ~m.retain THEN Merge(word, m.value) ELSE word
    /\ UNCHANGED <<uiEnd, task, queue, broker>>

\* Command::restore, on what the watch channel holds.
Restored(c) == Merge(light, c)

\* A message on the state topic matters in the window only, and only with the
\* retain flag: it closes the window, and what the process runs with from now
\* on is published.
OnRetainedState ==
    /\ Receives("state")
    /\ LET value == Head(incoming).value
           readable == value # Garbage
           restored == Restored(value)
       IN  IF window /\ Head(incoming).retain
             THEN /\ commands' = IF readable THEN Append(commands, Restore(restored)) ELSE commands
                  /\ word' = IF readable /\ ~restoreDone THEN Merge(light, value) ELSE word
                  /\ Queue(<<PublishState(IF readable THEN restored ELSE light)>>)
                  /\ window' = FALSE /\ restoreDone' = TRUE /\ changed' = FALSE
             ELSE UNCHANGED <<commands, word, queue, window, restoreDone, changed>>
    /\ UNCHANGED <<light, file, connected, retryArmed, broker>>

\* The window ends: ours is published.
\* Mutant: what the window deferred is left to the next change.
RestoreTimeoutSilent ==
    /\ window
    /\ window' = FALSE /\ restoreDone' = TRUE
    /\ UNCHANGED <<uiEnd, commands, connected, retryArmed, queue, broker, incoming, word>>

RestoreTimeout ==
    /\ window
    /\ window' = FALSE /\ restoreDone' = TRUE /\ changed' = FALSE
    /\ Queue(<<PublishState(light)>>)
    /\ UNCHANGED <<light, file, commands, connected, retryArmed, broker, incoming, word>>

\* Home Assistant's birth message: announce again, with the state unless the
\* window is open.
OnHaOnline ==
    /\ Receives("status")
    /\ Queue(<<Online>> \o (IF window THEN <<>> ELSE <<PublishState(light)>>))
    /\ changed' = (changed /\ window)
    /\ UNCHANGED <<light, file, commands, task, broker, word>>

\* The watch channel: publish, unless a window or the next ConnAck will.
\* Mutant: also while disconnected.
OnWatchUngated ==
    /\ changed
    /\ changed' = FALSE
    /\ IF ~window THEN Queue(<<PublishState(light)>>) ELSE UNCHANGED queue
    /\ UNCHANGED <<light, file, commands, task, broker, incoming, word>>

OnWatch ==
    /\ changed
    /\ changed' = FALSE
    /\ IF connected /\ ~window THEN Queue(<<PublishState(light)>>) ELSE UNCHANGED queue
    /\ UNCHANGED <<light, file, commands, task, broker, incoming, word>>

-----------------------------------------------------------------------------
\* The UI: on_light_command stores and saves the light, then notifies the task.
\* Mutant: the task is told only of restored states.
NotifiesRestore(command) == command.type = "Restore"

Notifies(command) == TRUE

UiTakes ==
    /\ commands # <<>>
    /\ commands' = Tail(commands)
    /\ LET c == Head(commands) IN
       /\ light' = IF c.type = "Set" THEN Merge(light, c.value) ELSE c.value
       /\ changed' = (changed \/ Notifies(c))
    /\ file' \in {light', file}            \* save_light_state may fail, which is only logged
    /\ UNCHANGED <<task, queue, broker, incoming, word>>

\* The process dies and systemd starts it again.
Crash ==
    /\ light' = Saved(file) /\ changed' = TRUE
    /\ commands' = <<>>
    /\ connected' = FALSE /\ retryArmed' = FALSE /\ window' = FALSE /\ restoreDone' = FALSE
    /\ outgoing' = <<>> /\ sent' = 0
    /\ available' = FALSE /\ subscribed' = {} /\ incoming' = <<>> /\ word' = light'
    /\ UNCHANGED <<file, retained>>

-----------------------------------------------------------------------------
\* The broker (external) takes the next request.  A subscription to the state
\* topic is answered with the retained message, if any; either may be refused,
\* of which the task only complains.
BrokerTakes ==
    /\ connected /\ sent < Len(outgoing)
    /\ sent' = sent + 1
    /\ LET request == outgoing[sent + 1] IN
       \/ /\ request.kind = "state" /\ retained' = request.value
          /\ UNCHANGED <<available, subscribed, incoming>>
       \/ /\ request.kind = "online" /\ available' = TRUE
          /\ UNCHANGED <<retained, subscribed, incoming>>
       \/ /\ request.kind = "command" /\ subscribed' = subscribed \cup {"command"}
          /\ incoming' = IF StaleCommand = NoState THEN incoming
                         ELSE Append(incoming, Message("command", TRUE, StaleCommand))
          /\ UNCHANGED <<retained, available>>
       \/ /\ request.kind = "retained" /\ subscribed' = subscribed \cup {"state", "status"}
          /\ incoming' = IF retained = NoState THEN incoming
                         ELSE Append(incoming, Message("state", TRUE, retained))
          /\ UNCHANGED <<retained, available>>
       \/ /\ request.kind \in {"command", "retained"}
          /\ UNCHANGED <<broker, incoming>>
    /\ UNCHANGED <<uiEnd, commands, task, outgoing, word>>

Acknowledge ==
    /\ connected /\ sent > 0
    /\ outgoing' = Tail(outgoing) /\ sent' = sent - 1
    /\ UNCHANGED <<uiEnd, commands, task, broker, incoming, word>>

\* Home Assistant (external) sends a command, or comes online.
Forward(topic, value) ==
    /\ topic \in subscribed /\ Len(incoming) + Len(commands) < MaxQueue /\ Len(outgoing) < MaxQueue
    /\ incoming' = Append(incoming, Message(topic, FALSE, value))
    /\ UNCHANGED <<uiEnd, commands, task, queue, broker, word>>

HaCommand == \E c \in HaCommands : Forward("command", c)
HaOnline == Forward("status", NoState)

Next ==
    \/ OnConnAck \/ OnPollError \/ RetryDue
    \/ OnCommand \/ OnRetainedState \/ OnHaOnline
    \/ RestoreTimeout \/ OnWatch
    \/ UiTakes \/ Crash
    \/ BrokerTakes \/ Acknowledge \/ HaCommand \/ HaOnline

Spec == Init /\ [][Next]_vars

\* The select loop polls every enabled branch, the UI drains its channel, and a
\* connection that stays up carries what is queued.
Fairness ==
    /\ WF_vars(OnConnAck) /\ WF_vars(RetryDue)
    /\ WF_vars(OnCommand \/ OnRetainedState \/ OnHaOnline)
    /\ WF_vars(RestoreTimeout) /\ WF_vars(OnWatch)
    /\ WF_vars(UiTakes) /\ WF_vars(BrokerTakes) /\ WF_vars(Acknowledge)

FairSpec == Spec /\ Fairness

-----------------------------------------------------------------------------
Requests ==
    [kind : {"state"}, value : Lights]
        \cup [kind : {"online", "command", "retained"}, value : {NoState}]
Messages ==
    [topic : {"command"}, retain : BOOLEAN, value : Commands]
        \cup [topic : {"state"}, retain : BOOLEAN, value : Commands \cup {Garbage}]
        \cup [topic : {"status"}, retain : BOOLEAN, value : {NoState}]
UiCommands ==
    [type : {"Set"}, value : Commands] \cup [type : {"Restore"}, value : Lights]

\* Every variable has its type.
TypeOK ==
    /\ light \in Lights /\ word \in Lights /\ file \in Lights \cup {NoState}
    /\ changed \in BOOLEAN /\ connected \in BOOLEAN /\ retryArmed \in BOOLEAN
    /\ window \in BOOLEAN /\ restoreDone \in BOOLEAN
    /\ retained \in Commands \cup {NoState, Garbage}
    /\ commands \in Seq(UiCommands) /\ outgoing \in Seq(Requests) /\ incoming \in Seq(Messages)
    /\ sent \in 0..Len(outgoing)
    /\ available \in BOOLEAN /\ subscribed \subseteq {"command", "state", "status"}
    /\ ~(window /\ restoreDone) /\ ~(connected /\ retryArmed)

\* The state the broker holds once it has everything it is being sent.
Unsent == {i \in (sent + 1)..Len(outgoing) : outgoing[i].kind = "state"}
BrokerEndsWith(l) ==
    \/ Unsent = {} /\ retained = l
    \/ \E i \in Unsent : outgoing[i].value = l /\ \A j \in Unsent : j <= i

\* Whatever order commands, restores, changes and connections come in: with the
\* link up, the window closed and nothing left to process, the last state the
\* broker has been or will be given is the one the panel shows.
BrokerFollowsLight ==
    connected /\ ~window /\ ~changed /\ commands = <<>> => BrokerEndsWith(light)

\* The light is what it was last told to be: by the file at start, by the state
\* retained on the broker, which is restored in the first window and never
\* again, and by each live command in the order of its arrival.  Where the
\* retained state has no brightness, the light's own stays.  A command with the
\* retain flag, delivered again on every subscription, says nothing.  A command
\* the UI has not taken when the retained state arrives gives way to it.
LastWordHolds == commands = <<>> => light = word

\* "Nothing is queued while the broker is unreachable": however the light
\* changes during an outage, rumqttc's queue does not grow.
OutageQueuesNothing == [][~connected' => Len(outgoing') <= Len(outgoing)]_vars

\* What keeps the state moving.
Disturbed == OnPollError \/ Crash \/ HaCommand

\* Once connections, crashes and commands settle, Home Assistant is left with
\* the state of the panel.
Converges == <>[][~Disturbed]_vars => <>[](retained = light /\ available)
=============================================================================
