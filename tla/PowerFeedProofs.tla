--------------------------- MODULE PowerFeedProofs ---------------------------
(***************************************************************************)
(* Proofs about PowerFeed, for any set of configured figures, any number   *)
(* of failures before the fallback, any figures and any queue bound.       *)
(***************************************************************************)
EXTENDS PowerFeed, TLAPS

\* What the poller sends.
Messages == [type : {"Live", "Down"}, watts : [Names -> Figures]]

\* What Show leaves well-typed.
LEMMA ShowTyped ==
    ASSUME NEW which, NEW figure \in [Names -> Figures], NEW source \in {"sensor", "device"},
           shown \in [Names -> Figures], from \in [Names -> {"sensor", "device"}],
           Show(which, figure, source)
    PROVE  /\ shown' \in [Names -> Figures]
           /\ from' \in [Names -> {"sensor", "device"}]
BY DEF Show, panel

\* The head of a queue of messages is one of them, the tail a shorter queue.
LEMMA QueueTyped ==
    ASSUME queue \in Seq(Messages), queue # <<>>
    PROVE  Head(queue) \in Messages /\ Tail(queue) \in Seq(Messages)
OBVIOUS

\* Every variable keeps its type, and an announced outage (PollFails sends
\* Down) has its GiveUpAfter failures and no resolved channel.
THEOREM TypeCorrect == Spec => []TypeOK
<1>1. Init => TypeOK
  <2> SUFFICES ASSUME Init PROVE TypeOK
    OBVIOUS
  <2>1. failures \in 0..GiveUpAfter
    BY GiveUpAssumption DEF Init
  <2>2. queue \in Seq(Messages)
    BY DEF Init
  <2> QED
    BY <2>1, <2>2 DEF Init, TypeOK, Figures, Messages
<1>2. TypeOK /\ [Next]_vars => TypeOK'
  <2> SUFFICES ASSUME TypeOK, [Next]_vars PROVE TypeOK'
    OBVIOUS
  <2> USE GiveUpAssumption
  <2>1. CASE PollFails
    <3>1. Down \in Messages
      BY DEF Down, Messages, Figures
    <3>2. queue' \in Seq(Messages)
      <4>1. queue \in Seq(Messages)
        BY DEF TypeOK, Messages
      <4>2. queue' = queue \/ queue' = Append(queue, Down)
        BY <2>1 DEF PollFails
      <4> QED
        BY <4>1, <4>2, <3>1
    <3>3. failures' \in 0..GiveUpAfter
      BY <2>1 DEF PollFails, TypeOK
    <3>4. /\ fellBack' => failures' = GiveUpAfter /\ ~channelKnown'
          /\ fellBack' \in BOOLEAN /\ channelKnown' \in BOOLEAN
      <4>1. CASE failures' = GiveUpAfter /\ ~fellBack
        BY <2>1, <4>1 DEF PollFails, TypeOK
      <4>2. CASE ~(failures' = GiveUpAfter /\ ~fellBack)
        <5>1. fellBack => failures' = failures
          BY <2>1 DEF PollFails, TypeOK
        <5>2. UNCHANGED <<fellBack, channelKnown>>
          BY <2>1, <4>2 DEF PollFails
        <5> QED
          BY <5>1, <5>2 DEF TypeOK
      <4> QED
        BY <4>1, <4>2
    <3>5. UNCHANGED <<iotawattLive, entities, shown, from, frozen>>
      BY <2>1 DEF PollFails, panel
    <3> QED
      BY <3>2, <3>3, <3>4, <3>5 DEF TypeOK, Messages
  <2>2. CASE PollAnswers
    <3>1. PICK w \in [Names -> Figures] : queue' = Append(queue, Live(w))
      BY <2>2 DEF PollAnswers
    <3>2. Live(w) \in Messages
      BY DEF Live, Messages
    <3>3. queue' \in Seq(Messages)
      BY <3>1, <3>2 DEF TypeOK, Messages
    <3>4. ~fellBack' /\ fellBack' \in BOOLEAN /\ failures' = 0
      BY <2>2 DEF PollAnswers, FallbackOver
    <3>5. channelKnown' \in BOOLEAN
      <4>1. channelKnown' = channelKnown \/ channelKnown' = ("servers" \in Configured)
        BY <2>2 DEF PollAnswers
      <4>2. ("servers" \in Configured) = TRUE \/ ("servers" \in Configured) = FALSE
        OBVIOUS
      <4> QED
        BY <4>1, <4>2 DEF TypeOK
    <3>6. UNCHANGED <<iotawattLive, entities, panel, frozen>>
      BY <2>2 DEF PollAnswers
    <3> QED
      BY <3>3, <3>4, <3>5, <3>6 DEF TypeOK, Messages, panel
  <2>3. CASE OnLive
    <3>1. Head(queue) \in Messages /\ Tail(queue) \in Seq(Messages)
      BY <2>3, QueueTyped DEF OnLive, TypeOK, Messages
    <3>2. Head(queue).watts \in [Names -> Figures]
      BY <3>1 DEF Messages
    <3>3. shown' \in [Names -> Figures] /\ from' \in [Names -> {"sensor", "device"}]
      BY <2>3, <3>2, ShowTyped DEF OnLive, TypeOK
    <3> QED
      BY <2>3, <3>1, <3>3 DEF OnLive, TypeOK, Messages, poller
  <2>4. CASE OnDown
    <3>1. Tail(queue) \in Seq(Messages)
      BY <2>4, QueueTyped DEF OnDown, TypeOK, Messages
    <3>2. shown' \in [Names -> Figures] /\ from' \in [Names -> {"sensor", "device"}]
      BY <2>4, ShowTyped DEF OnDown, TypeOK
    <3> QED
      BY <2>4, <3>1, <3>2 DEF OnDown, TypeOK, Messages, poller
  <2>5. ASSUME NEW n \in Names, NEW v \in Figures, OnSensor(n, v) PROVE TypeOK'
    <3>1. entities' \in [Names -> Figures]
      BY <2>5 DEF OnSensor, TypeOK
    <3>2. shown' \in [Names -> Figures] /\ from' \in [Names -> {"sensor", "device"}]
      BY <2>5, <3>1, ShowTyped DEF OnSensor, TypeOK
    <3> QED
      BY <2>5, <3>1, <3>2 DEF OnSensor, TypeOK, poller
  <2>6. CASE Freeze
    BY <2>6 DEF Freeze, TypeOK, poller, panel
  <2>7. CASE Thaw
    BY <2>7 DEF Thaw, TypeOK, poller, panel
  <2>8. CASE UNCHANGED vars
    BY <2>8 DEF TypeOK, vars, poller, panel
  <2> QED
    BY <2>1, <2>2, <2>3, <2>4, <2>5, <2>6, <2>7, <2>8 DEF Next
<1> QED
  BY <1>1, <1>2, PTL DEF Spec

\* While neither the device nor a freeze hides the sensors, the panel shows
\* their present values: on_power_event(Down), thaw and refresh_entity between
\* them leave no figure behind.  The queue's types are all the invariant needs.
THEOREM FallbackIsComplete == Spec => []FallbackShowsSensors
<1>1. Init => FallbackShowsSensors
  BY DEF Init, FallbackShowsSensors
<1>2. TypeOK /\ FallbackShowsSensors /\ [Next]_vars => FallbackShowsSensors'
  <2> SUFFICES ASSUME TypeOK, FallbackShowsSensors, [Next]_vars,
                      ~frozen', ~iotawattLive'
               PROVE  shown' = entities'
    BY DEF FallbackShowsSensors
  <2> USE DEF FallbackShowsSensors, TypeOK
  <2>1. CASE PollFails \/ PollAnswers
    BY <2>1 DEF PollFails, PollAnswers, panel
  <2>2. CASE OnLive
    BY <2>2 DEF OnLive
  <2>3. CASE OnDown
    BY <2>3 DEF OnDown, Show, panel
  <2>4. ASSUME NEW n \in Names, NEW v \in Figures, OnSensor(n, v)
        PROVE  shown' = entities'
    <3>1. shown' = [m \in Names |-> IF m \in {n} THEN entities'[m] ELSE shown[m]]
      BY <2>4 DEF OnSensor, Show, SensorIsShown
    <3>2. shown = entities /\ entities' = [entities EXCEPT ![n] = v]
      BY <2>4 DEF OnSensor
    <3> QED
      BY <3>1, <3>2
  <2>5. CASE Freeze
    BY <2>5 DEF Freeze
  <2>6. CASE Thaw
    BY <2>6 DEF Thaw
  <2>7. CASE UNCHANGED vars
    BY <2>7 DEF vars, panel
  <2> QED
    BY <2>1, <2>2, <2>3, <2>4, <2>5, <2>6, <2>7 DEF Next
<1> QED
  BY <1>1, <1>2, TypeCorrect, PTL DEF Spec

\* No step takes a figure from a device that is live before and after it:
\* refresh_entity looks at iotawatt_live, thaw does too, and a Live that leaves
\* a figure out does not touch it.
THEOREM DeviceFigureKept == Spec => DeviceFigureStays
<1>1. TypeOK /\ [Next]_vars =>
        [iotawattLive /\ iotawattLive' =>
           \A n \in Names : from[n] = "device" => from'[n] = "device"]_vars
  <2> SUFFICES ASSUME TypeOK, Next, iotawattLive, iotawattLive',
                      NEW m \in Names, from[m] = "device"
               PROVE  from'[m] = "device"
    OBVIOUS
  <2>1. CASE PollFails \/ PollAnswers \/ Freeze \/ Thaw
    BY <2>1 DEF PollFails, PollAnswers, Freeze, Thaw, panel
  <2>2. CASE OnLive
    BY <2>2 DEF OnLive, Show, panel
  <2>3. CASE OnDown
    BY <2>3 DEF OnDown
  <2>4. ASSUME NEW n \in Names, NEW v \in Figures, OnSensor(n, v)
        PROVE  from'[m] = "device"
    BY <2>4 DEF OnSensor, SensorIsShown, Show, panel
  <2> QED
    BY <2>1, <2>2, <2>3, <2>4 DEF Next
<1> QED
  BY <1>1, TypeCorrect, PTL DEF Spec, DeviceFigureStays

\* "A configured value the device didn't return keeps using its own HA
\* sensor", for the first Live after an outage: what it leaves out is the
\* sensor's, because the panel showed the sensors until then.
THEOREM FirstLiveLeavesSensors ==
    Spec => [][OnLive /\ ~frozen /\ ~iotawattLive =>
                 \A n \in Names : Head(queue).watts[n] = None => shown'[n] = entities[n]]_vars
<1>1. FallbackShowsSensors =>
        (OnLive /\ ~frozen /\ ~iotawattLive =>
           \A n \in Names : Head(queue).watts[n] = None => shown'[n] = entities[n])
  BY DEF FallbackShowsSensors, OnLive, Show
<1> QED
  BY <1>1, FallbackIsComplete, PTL DEF Spec
=============================================================================
