------------------------------ MODULE PowerFeed ------------------------------
(***************************************************************************)
(* The two power figures of the panel, "house" and "servers", and their    *)
(* two sources: the IoTaWatt poller on the networking thread (iotawatt.rs, *)
(* run) and the Home Assistant sensors (main.rs, on_power_event and        *)
(* refresh_entity).  The poller tells the UI thread over a channel; while  *)
(* the device is live its figures win, after `Down` the sensors do.        *)
(*                                                                         *)
(* The device is external: each poll fails or returns watts for some of    *)
(* the configured names.  What freezes and thaws the UI is PanelPower's    *)
(* subject; here it may happen at any time.                                *)
(***************************************************************************)
EXTENDS Naturals, Sequences

CONSTANTS
    Configured,     \* which of house_output and servers_input are set
    GiveUpAfter,    \* failures_before_fallback
    Values,         \* figures the device or a sensor can show
    None,           \* no figure: Option::None, an absent entity, the text "— W"
    MaxQueue        \* bound: no poll while the UI is further behind

Names == {"house", "servers"}

ASSUME ConfiguredAssumption ==              \* Config::validate
    Configured \subseteq Names /\ Configured # {}
ASSUME GiveUpAssumption == GiveUpAfter \in Nat \ {0}
ASSUME ValueAssumption == None \notin Values

VARIABLES
    failures,       \* run(): consecutive failed polls, counted up to GiveUpAfter
    fellBack,       \* run(): Down has been sent for this outage
    channelKnown,   \* run(): servers_channel is Some
    queue,          \* poller -> UI
    iotawattLive,   \* St.iotawatt_live
    entities,       \* St.entities for the two sensors
    shown,          \* the two text properties
    from,           \* history: where the text in `shown` came from
    frozen          \* St.frozen

poller == <<failures, fellBack, channelKnown>>
panel == <<shown, from>>
vars == <<poller, queue, iotawattLive, entities, panel, frozen>>

Figures == Values \cup {None}
Live(w) == [type |-> "Live", watts |-> w]
Down == [type |-> "Down", watts |-> [n \in Names |-> None]]

Init ==
    /\ failures = 0 /\ fellBack = FALSE /\ channelKnown = FALSE
    /\ queue = <<>>
    /\ iotawattLive = FALSE
    /\ entities = [n \in Names |-> None]
    /\ shown = [n \in Names |-> None] /\ from = [n \in Names |-> "sensor"]
    /\ frozen = FALSE

-----------------------------------------------------------------------------
\* A poll that fails; the GiveUpAfter-th in a row sends Down, once.
PollFails ==
    /\ Len(queue) < MaxQueue
    /\ failures' = IF failures < GiveUpAfter THEN failures + 1 ELSE failures
    /\ IF failures' = GiveUpAfter /\ ~fellBack
         THEN /\ fellBack' = TRUE /\ channelKnown' = FALSE
              /\ queue' = Append(queue, Down)
         ELSE UNCHANGED <<fellBack, channelKnown, queue>>
    /\ UNCHANGED <<iotawattLive, entities, panel, frozen>>

\* fell_back after a poll that succeeds.  Mutant: it is not reset, so that only
\* the first outage is announced.
FallbackStays == fellBack

FallbackOver == FALSE

\* A poll that succeeds: the outage is over, the servers' channel is resolved
\* if it is not known (and config.txt has it), the figures found are sent.
PollAnswers ==
    /\ Len(queue) < MaxQueue
    /\ failures' = 0
    /\ fellBack' = FallbackOver
    /\ channelKnown' \in {channelKnown, "servers" \in Configured}
    /\ channelKnown => channelKnown'
    /\ \E w \in [Names -> Figures] :
         /\ "house" \notin Configured => w["house"] = None
         /\ ~channelKnown' => w["servers"] = None
         /\ queue' = Append(queue, Live(w))
    /\ UNCHANGED <<iotawattLive, entities, panel, frozen>>

\* Writes of a set of figures through UiCtl::ui, dropped while frozen.
Show(which, figure, source) ==
    IF frozen THEN UNCHANGED panel
    ELSE /\ shown' = [n \in Names |-> IF n \in which THEN figure[n] ELSE shown[n]]
         /\ from' = [n \in Names |-> IF n \in which THEN source ELSE from[n]]

\* on_power_event(Live).  The refresh_entity it calls for a missing figure
\* finds iotawatt_live set and writes nothing.
\* Mutant: the device counts as live only once it has returned the house.
OnLiveNeedsHouse ==
    /\ queue # <<>> /\ Head(queue).type = "Live"
    /\ queue' = Tail(queue)
    /\ LET w == Head(queue).watts IN
         /\ iotawattLive' = (w["house"] # None)
         /\ Show({n \in Names : w[n] # None}, w, "device")
    /\ UNCHANGED <<poller, entities, frozen>>

OnLive ==
    /\ queue # <<>> /\ Head(queue).type = "Live"
    /\ queue' = Tail(queue)
    /\ iotawattLive' = TRUE
    /\ LET w == Head(queue).watts IN
         Show({n \in Names : w[n] # None}, w, "device")
    /\ UNCHANGED <<poller, entities, frozen>>

\* on_power_event(Down): both figures go back to the sensors.
\* Mutant: the flag is cleared, the text is left to the next sensor update.
OnDownWithoutRefresh ==
    /\ queue # <<>> /\ Head(queue).type = "Down"
    /\ queue' = Tail(queue)
    /\ iotawattLive' = FALSE
    /\ UNCHANGED <<poller, entities, panel, frozen>>

OnDown ==
    /\ queue # <<>> /\ Head(queue).type = "Down"
    /\ queue' = Tail(queue)
    /\ iotawattLive' = FALSE
    /\ Show(Names, entities, "sensor")
    /\ UNCHANGED <<poller, entities, frozen>>

\* StateChanged / StateRemoved: the entity map, then refresh_entity, which
\* leaves these two figures alone while the device is live.
\* Mutant: the sensor is shown whatever the device says.
SensorAlwaysShown == TRUE

SensorIsShown == ~iotawattLive

OnSensor(n, v) ==
    /\ entities' = [entities EXCEPT ![n] = v]
    /\ Show(IF SensorIsShown THEN {n} ELSE {}, entities', "sensor")
    /\ UNCHANGED <<poller, queue, iotawattLive, frozen>>

\* PanelPower freezes the UI; thaw ends in refresh_all_entities.
Freeze ==
    /\ ~frozen
    /\ frozen' = TRUE
    /\ UNCHANGED <<poller, queue, iotawattLive, entities, panel>>

Thaw ==
    /\ frozen
    /\ frozen' = FALSE
    /\ IF iotawattLive THEN UNCHANGED panel
       ELSE shown' = entities /\ from' = [n \in Names |-> "sensor"]
    /\ UNCHANGED <<poller, queue, iotawattLive, entities>>

Next ==
    \/ PollFails \/ PollAnswers
    \/ OnLive \/ OnDown
    \/ \E n \in Names, v \in Figures : OnSensor(n, v)
    \/ Freeze \/ Thaw

Spec == Init /\ [][Next]_vars

\* The poller's ticker ticks and the UI thread drains its channel, frozen or
\* not.  The device owes nothing: once the poller has given up, a further failure
\* changes nothing, and no answer is forced.
Fairness ==
    /\ WF_vars(~fellBack /\ (PollFails \/ PollAnswers))
    /\ WF_vars(OnLive \/ OnDown)

FairSpec == Spec /\ Fairness

-----------------------------------------------------------------------------
\* Every variable has its type, and an outage that was announced has its
\* failures and no resolved channel.
TypeOK ==
    /\ failures \in 0..GiveUpAfter
    /\ fellBack => failures = GiveUpAfter /\ ~channelKnown
    /\ fellBack \in BOOLEAN /\ channelKnown \in BOOLEAN
    /\ queue \in Seq([type : {"Live", "Down"}, watts : [Names -> Figures]])
    /\ iotawattLive \in BOOLEAN /\ frozen \in BOOLEAN
    /\ entities \in [Names -> Figures] /\ shown \in [Names -> Figures]
    /\ from \in [Names -> {"sensor", "device"}]

\* Once the device is not live, the panel shows the sensors' present values,
\* also those that changed while the device's figures hid them or while the UI
\* was frozen.
FallbackShowsSensors == ~frozen /\ ~iotawattLive => shown = entities

\* A sensor update, up to 30 seconds old, never covers a figure of a device
\* that is live.
DeviceFigureStays ==
    [][iotawattLive /\ iotawattLive' =>
         \A n \in Names : from[n] = "device" => from'[n] = "device"]_vars

\* "If the monitor stops answering, both values fall back to the Home Assistant
\* sensors", after every outage, not only the first.
FallsBack ==
    <>[][~PollAnswers]_vars => <>[](~iotawattLive)

\* "... and come back on their own", once the device answers again and again
\* and its polls stop failing.
ComesBack ==
    <>[][~PollFails]_vars /\ []<><<PollAnswers>>_vars => <>[]iotawattLive

\* "A configured value the device didn't return keeps using its own HA sensor":
\* with the UI live, a figure the last Live left out shows its sensor.  The
\* step in question is the delivery of that Live.
MissingUsesSensor ==
    [][OnLive /\ ~frozen =>
         \A n \in Names : Head(queue).watts[n] = None => shown'[n] = entities[n]]_vars
=============================================================================
