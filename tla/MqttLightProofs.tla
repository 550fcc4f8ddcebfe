--------------------------- MODULE MqttLightProofs ---------------------------
(***************************************************************************)
(* Safety of MqttLight for any brightness values, any retained or stale    *)
(* messages and a queue of any length.                                     *)
(***************************************************************************)
EXTENDS MqttLight, Stepwise, SequenceTheorems

\* The requests a lost connection leaves are publishes, no more of them than
\* there were.
LEMMA PublishesTyped ==
    ASSUME NEW s \in Seq(Requests)
    PROVE  Publishes(s) \in Seq(Requests) /\ Len(Publishes(s)) <= Len(s)
<1> DEFINE n == Len(s)
           R == Seq(Requests)
           step == [i \in 1..n |-> [t \in R |-> IF IsPublish(s[i]) THEN Append(t, s[i]) ELSE t]]
           Eq(g) == g = [i \in 0..n |-> IF i = 0 THEN <<>>
                                        ELSE IF IsPublish(s[i]) THEN Append(g[i - 1], s[i])
                                        ELSE g[i - 1]]
           kept == CHOOSE g : Eq(g)
<1>1. n \in Nat /\ \A i \in 1..n : s[i] \in Requests
  BY LenProperties, ElementOfSeq
<1>2. PICK f \in [0..n -> R] : Results(f, <<>>, step, n)
  <2>1. step \in [1..n -> [R -> R]]
    <3>1. \A i \in 1..n : \A t \in R : Append(t, s[i]) \in R
      BY <1>1, AppendProperties
    <3> HIDE DEF R, n
    <3> QED
      BY <3>1
  <2>2. <<>> \in R
    BY EmptySeq
  <2> HIDE DEF step, R, n
  <2> QED
    BY <1>1, <2>1, <2>2, ResultsExist
<1>3. Eq(f)
  <2>1. f[0] = <<>> /\ \A i \in 1..n : f[i] = step[i][f[i - 1]]
    BY <1>2 DEF Results
  <2>2. \A i \in 1..n : f[i - 1] \in R /\ i - 1 \in 0..n
    BY <1>1, <1>2
  <2>3. \A i \in 1..n : f[i] = IF IsPublish(s[i]) THEN Append(f[i - 1], s[i]) ELSE f[i - 1]
    BY <2>1, <2>2
  <2>4. \A i \in 0..n : i = 0 \/ i \in 1..n
    BY <1>1
  <2> HIDE DEF R, n, step
  <2> QED
    BY <1>2, <2>1, <2>3, <2>4
<1>4. Eq(kept)
  BY <1>3
<1>5. Publishes(s) = kept[n]
  BY DEF Publishes
<1> HIDE DEF kept
<1>6. kept[0] = <<>>
      /\ \A i \in 1..n : kept[i] = IF IsPublish(s[i]) THEN Append(kept[i - 1], s[i]) ELSE kept[i - 1]
  <2>1. 0 \in 0..n /\ \A i \in 1..n : i \in 0..n /\ i # 0
    BY <1>1
  <2> HIDE DEF n
  <2> QED
    BY <1>4, <2>1
<1>0. <<>> \in R /\ Len(<<>>) = 0
  BY EmptySeq
<1> HIDE DEF Eq, step
<1> DEFINE Bad == {k \in 0..n : ~(kept[k] \in R /\ Len(kept[k]) <= k)}
<1>7. Bad = {}
  <2>1. SUFFICES ASSUME Bad # {} PROVE FALSE
    OBVIOUS
  <2>2. PICK k \in Bad : \A m \in Bad : k <= m
    <3>1. Bad \subseteq Nat
      BY <1>1
    <3> HIDE DEF Bad
    <3> QED
      BY <2>1, <3>1, LeastNatural
  <2>3. k # 0
    <3> HIDE DEF R, n
    <3> QED
      BY <1>0, <1>6, <2>2
  <2>4. k \in 1..n /\ k - 1 \in 0..n /\ ~(k <= k - 1)
    BY <1>1, <2>2, <2>3
  <2>5. kept[k - 1] \in R /\ Len(kept[k - 1]) <= k - 1
    BY <2>2, <2>4
  <2>6. kept[k] \in R /\ Len(kept[k]) <= k
    <3>1. s[k] \in Requests /\ Len(kept[k - 1]) \in Nat /\ k \in Nat
      BY <1>1, <2>4, <2>5, LenProperties
    <3>2. /\ Append(kept[k - 1], s[k]) \in R
          /\ Len(Append(kept[k - 1], s[k])) = Len(kept[k - 1]) + 1
      BY <2>5, <3>1, AppendProperties
    <3>3. kept[k] \in {Append(kept[k - 1], s[k]), kept[k - 1]}
      BY <1>6, <2>4
    <3> HIDE DEF R, n
    <3>4. Len(kept[k - 1]) <= k /\ Len(Append(kept[k - 1], s[k])) <= k
      BY <2>5, <3>1, <3>2
    <3> QED
      BY <2>5, <3>2, <3>3, <3>4, Zenon
  <2> QED
    BY <2>2, <2>6
<1> QED
  BY <1>1, <1>5, <1>7

-----------------------------------------------------------------------------
\* What the queues carry.
LEMMA RequestsBuilt ==
    /\ \A l \in Lights : PublishState(l) \in Requests
    /\ Online \in Requests /\ Subscribe("command") \in Requests /\ Subscribe("retained") \in Requests
BY DEF Requests, PublishState, Online, Subscribe

\* What is published of the state is a light, and reads as a command.
LEMMA RequestFields ==
    /\ \A q \in Requests : q.kind = "state" => q.value \in Lights
    /\ Lights \subseteq Commands
BY DEF Requests, Lights, Commands

\* What a message may carry.
LEMMA MessageFields ==
    \A m \in Messages :
        /\ m.retain \in BOOLEAN
        /\ m.topic = "command" => m.value \in Commands
        /\ m.topic = "state" => m.value \in Commands \cup {Garbage}
BY DEF Messages

\* A new connection's announcement says nothing of the state.
LEMMA AnnouncementTyped ==
    /\ Announcement \in Seq(Requests) /\ Len(Announcement) = 3
    /\ \A i \in 1..3 : Announcement[i].kind # "state"
<1>1. Announcement[1] = Online /\ Announcement[2] = Subscribe("command")
      /\ Announcement[3] = Subscribe("retained") /\ Len(Announcement) = 3
  BY DEF Announcement
<1>2. Announcement \in Seq(Requests)
  BY RequestsBuilt DEF Announcement
<1>3. Online.kind # "state" /\ Subscribe("command").kind # "state"
      /\ Subscribe("retained").kind # "state"
  BY DEF Online, Subscribe
<1>4. \A i \in 1..3 : i = 1 \/ i = 2 \/ i = 3
  OBVIOUS
<1> QED
  BY <1>1, <1>2, <1>3, <1>4

\* A command merged into a light gives a light.
LEMMA MergeTyped ==
    ASSUME NEW l \in Lights, NEW c \in Commands
    PROVE  Merge(l, c) \in Lights
<1>1. c.on \in BOOLEAN /\ c.brightness \in Levels \cup {NoState}
  BY DEF Commands
<1>2. l.brightness \in Levels
  BY DEF Lights
<1> QED
  BY <1>1, <1>2 DEF Merge, Lights

\* What on_light_command makes of the light.
Applied(l, c) == IF c.type = "Set" THEN Merge(l, c.value) ELSE c.value

\* A command to the UI leaves it with a light.
LEMMA AppliedTyped ==
    ASSUME NEW l \in Lights, NEW c \in UiCommands
    PROVE  Applied(l, c) \in Lights
<1>1. \/ c.type = "Set" /\ c.value \in Commands
      \/ c.type = "Restore" /\ c.value \in Lights
  BY DEF UiCommands
<1> QED
  BY <1>1, MergeTyped DEF Applied

\* The commands the task sends to the UI, and what they do.
LEMMA CommandsBuilt ==
    /\ \A c \in Commands : Set(c) \in UiCommands /\ \A l : Applied(l, Set(c)) = Merge(l, c)
    /\ \A v \in Lights : Restore(v) \in UiCommands /\ \A l : Applied(l, Restore(v)) = v
BY DEF Set, Restore, UiCommands, Applied

-----------------------------------------------------------------------------
\* The task's own state: a restore window belongs to a connection, and a
\* connection without one has had one closed in this process.
TaskFits ==
    /\ connected \in BOOLEAN /\ retryArmed \in BOOLEAN
    /\ window \in BOOLEAN /\ restoreDone \in BOOLEAN
    /\ ~(window /\ restoreDone) /\ ~(connected /\ retryArmed)
    /\ window => connected
    /\ connected => window \/ restoreDone

\* Every step preserves TaskFits.
LEMMA TaskStep ==
    ASSUME TaskFits, [Next]_vars
    PROVE  TaskFits'
<1> USE DEF TaskFits
<1>1. CASE OnConnAck
  <2>1. /\ ~retryArmed /\ connected' = TRUE /\ UNCHANGED <<retryArmed, restoreDone>>
        /\ (restoreDone /\ UNCHANGED window) \/ (~restoreDone /\ window' = TRUE)
    BY <1>1 DEF OnConnAck, NewSession
  <2>2. CASE restoreDone /\ UNCHANGED window
    <3>1. window' = window /\ ~window /\ restoreDone' = restoreDone /\ retryArmed' = retryArmed
      BY <2>1, <2>2
    <3> QED
      BY <2>1, <2>2, <3>1
  <2>3. CASE ~restoreDone /\ window' = TRUE
    <3>1. restoreDone' = restoreDone /\ retryArmed' = retryArmed
      BY <2>1
    <3> QED
      BY <2>1, <2>3, <3>1
  <2> QED
    BY <2>1, <2>2, <2>3
<1>2. CASE OnPollError
  BY <1>2 DEF OnPollError
<1>3. CASE RetryDue
  BY <1>3 DEF RetryDue
<1>4. CASE OnRetainedState
  <2>1. CASE window /\ Head(incoming).retain
    BY <1>4, <2>1 DEF OnRetainedState, Receives
  <2>2. CASE ~(window /\ Head(incoming).retain)
    BY <1>4, <2>2 DEF OnRetainedState, Receives
  <2> QED
    BY <2>1, <2>2
<1>5. CASE RestoreTimeout
  BY <1>5 DEF RestoreTimeout
<1>6. CASE Crash
  BY <1>6 DEF Crash
<1>7. CASE \/ OnCommand \/ OnHaOnline \/ OnWatch \/ UiTakes \/ BrokerTakes \/ Acknowledge
           \/ HaCommand \/ HaOnline \/ UNCHANGED vars
  <2>1. UNCHANGED task
    BY <1>7 DEF OnCommand, OnHaOnline, OnWatch, UiTakes, BrokerTakes, Acknowledge, HaCommand,
                HaOnline, Forward, vars
  <2> QED
    BY <2>1 DEF task
<1> QED
  BY <1>1, <1>2, <1>3, <1>4, <1>5, <1>6, <1>7 DEF Next

-----------------------------------------------------------------------------
\* The messages from the broker.
IncomingFits ==
    /\ retained \in Commands \cup {NoState, Garbage}
    /\ available \in BOOLEAN /\ subscribed \subseteq {"command", "state", "status"}
    /\ incoming \in Seq(Messages)

\* Every step preserves IncomingFits.
LEMMA IncomingStep ==
    ASSUME IncomingFits, outgoing \in Seq(Requests), sent \in 0..Len(outgoing), [Next]_vars
    PROVE  IncomingFits'
<1> USE DEF IncomingFits
<1>1. \A m \in Messages : Append(incoming, m) \in Seq(Messages)
  BY AppendProperties
<1>2. incoming # <<>> => Tail(incoming) \in Seq(Messages)
  BY HeadTailProperties
<1>3. CASE OnPollError \/ Crash
  BY <1>3, EmptySeq DEF OnPollError, Crash
<1>4. CASE OnCommand \/ OnRetainedState \/ OnHaOnline
  <2>1. UNCHANGED broker /\ incoming # <<>> /\ incoming' = Tail(incoming)
    BY <1>4 DEF OnCommand, OnRetainedState, OnHaOnline, Receives
  <2> QED
    BY <1>2, <2>1 DEF broker
<1>5. CASE BrokerTakes
  <2> DEFINE request == outgoing[sent + 1]
  <2>1. request \in Requests
    <3>1. sent + 1 \in 1..Len(outgoing)
      BY <1>5, LenProperties DEF BrokerTakes
    <3> QED
      BY <3>1, ElementOfSeq
  <2>2. CASE request.kind = "state" /\ retained' = request.value
             /\ UNCHANGED <<available, subscribed, incoming>>
    BY <2>1, <2>2, RequestFields
  <2>3. CASE available' = TRUE /\ UNCHANGED <<retained, subscribed, incoming>>
    BY <2>3
  <2>4. CASE /\ subscribed' = subscribed \cup {"command"}
             /\ incoming' = IF StaleCommand = NoState THEN incoming
                            ELSE Append(incoming, Message("command", TRUE, StaleCommand))
             /\ UNCHANGED <<retained, available>>
    <3>1. StaleCommand # NoState => Message("command", TRUE, StaleCommand) \in Messages
      BY LightAssumption DEF Message, Messages
    <3>2. incoming' \in Seq(Messages)
      BY <1>1, <2>4, <3>1
    <3> QED
      BY <2>4, <3>2
  <2>5. CASE /\ subscribed' = subscribed \cup {"state", "status"}
             /\ incoming' = IF retained = NoState THEN incoming
                            ELSE Append(incoming, Message("state", TRUE, retained))
             /\ UNCHANGED <<retained, available>>
    <3>1. retained # NoState => Message("state", TRUE, retained) \in Messages
      BY DEF Message, Messages
    <3>2. incoming' \in Seq(Messages)
      BY <1>1, <2>5, <3>1
    <3> QED
      BY <2>5, <3>2
  <2>6. CASE UNCHANGED <<broker, incoming>>
    BY <2>6 DEF broker
  <2> QED
    BY <1>5, <2>2, <2>3, <2>4, <2>5, <2>6 DEF BrokerTakes
<1>6. CASE HaCommand \/ HaOnline
  <2>1. PICK m \in Messages : incoming' = Append(incoming, m)
    <3>1. \A c \in Commands : Message("command", FALSE, c) \in Messages
      BY DEF Message, Messages
    <3>2. Message("status", FALSE, NoState) \in Messages
      BY DEF Message, Messages
    <3> QED
      BY <1>6, <3>1, <3>2, LightAssumption DEF HaCommand, HaOnline, Forward
  <2>2. UNCHANGED broker
    BY <1>6 DEF HaCommand, HaOnline, Forward
  <2> QED
    BY <1>1, <2>1, <2>2 DEF broker
<1>7. CASE OnConnAck \/ RetryDue \/ RestoreTimeout \/ OnWatch \/ UiTakes \/ Acknowledge
           \/ UNCHANGED vars
  <2>1. UNCHANGED <<broker, incoming>>
    BY <1>7 DEF OnConnAck, NewSession, RetryDue, RestoreTimeout, OnWatch, UiTakes, Acknowledge, vars
  <2> QED
    BY <2>1 DEF broker
<1> QED
  BY <1>3, <1>4, <1>5, <1>6, <1>7 DEF Next

-----------------------------------------------------------------------------
\* The light, its file and the commands to the UI.  Replays says that the
\* commands still queued turn the light into the last word: ws goes through
\* what the light will be.
LightFits ==
    /\ light \in Lights /\ word \in Lights /\ file \in Lights \cup {NoState}
    /\ changed \in BOOLEAN
    /\ commands \in Seq(UiCommands)

Replays(l, cs, w) ==
    \E ws \in [0..Len(cs) -> Lights] :
        /\ ws[0] = l /\ ws[Len(cs)] = w
        /\ \A i \in 1..Len(cs) : ws[i] = Applied(ws[i - 1], cs[i])

\* No command, no change.
LEMMA ReplaysNothing ==
    ASSUME NEW l \in Lights
    PROVE  Replays(l, <<>>, l)
<1> DEFINE ws == [i \in 0..0 |-> l]
<1>1. Len(<<>>) = 0 /\ ws \in [0..0 -> Lights] /\ ws[0] = l
  BY EmptySeq
<1>2. \A i \in 1..0 : FALSE
  OBVIOUS
<1> HIDE DEF ws
<1> QED
  BY <1>1, <1>2 DEF Replays

\* A command queued prolongs the replay by what it does.
LEMMA ReplaysOneMore ==
    ASSUME NEW l, NEW cs \in Seq(UiCommands), NEW w, NEW c \in UiCommands, Replays(l, cs, w)
    PROVE  Replays(l, Append(cs, c), Applied(w, c))
<1> DEFINE n == Len(cs)
           ds == Append(cs, c)
<1>1. PICK ws \in [0..n -> Lights] :
        /\ ws[0] = l /\ ws[n] = w
        /\ \A i \in 1..n : ws[i] = Applied(ws[i - 1], cs[i])
  BY DEF Replays
<1>2. n \in Nat /\ Len(ds) = n + 1 /\ ds[n + 1] = c /\ \A i \in 1..n : ds[i] = cs[i]
  BY AppendProperties, LenProperties
<1> DEFINE vs == [i \in 0..(n + 1) |-> IF i = n + 1 THEN Applied(w, c) ELSE ws[i]]
<1>3. vs \in [0..(n + 1) -> Lights]
  <2>1. w \in Lights
    BY <1>1, <1>2
  <2>2. Applied(w, c) \in Lights
    BY <2>1, AppliedTyped
  <2>3. \A i \in 0..(n + 1) : i # n + 1 => i \in 0..n
    BY <1>2
  <2> HIDE DEF n, ds
  <2> QED
    BY <2>2, <2>3
<1>4. vs[0] = l /\ vs[n + 1] = Applied(w, c)
  <2>1. 0 \in 0..(n + 1) /\ n + 1 \in 0..(n + 1) /\ 0 # n + 1
    BY <1>2
  <2> HIDE DEF n, ds
  <2> QED
    BY <1>1, <2>1
<1>5. ASSUME NEW i \in 1..(n + 1) PROVE vs[i] = Applied(vs[i - 1], ds[i])
  <2>1. i \in 0..(n + 1) /\ i - 1 \in 0..(n + 1) /\ i - 1 # n + 1 /\ (i = n + 1 \/ i \in 1..n)
    BY <1>2
  <2>2. vs[i - 1] = ws[i - 1]
    BY <2>1
  <2>3. CASE i = n + 1
    <3>1. i - 1 = n
      BY <1>2, <2>3
    <3> HIDE DEF n, ds
    <3> QED
      BY <1>1, <1>2, <2>1, <2>2, <2>3, <3>1
  <2>4. CASE i # n + 1
    <3>1. i \in 1..n /\ vs[i] = ws[i] /\ ds[i] = cs[i]
      BY <1>2, <2>1, <2>4
    <3> HIDE DEF n, ds, vs
    <3> QED
      BY <1>1, <2>2, <3>1
  <2> QED
    BY <2>3, <2>4
<1> HIDE DEF vs, ds
<1>6. Replays(l, ds, Applied(w, c))
  BY <1>2, <1>3, <1>4, <1>5 DEF Replays
<1> QED
  BY <1>6 DEF ds

\* A command taken shortens the replay from the front.
LEMMA ReplaysOneLess ==
    ASSUME NEW l, NEW cs \in Seq(UiCommands), cs # <<>>, NEW w, Replays(l, cs, w)
    PROVE  Replays(Applied(l, Head(cs)), Tail(cs), w)
<1> DEFINE n == Len(cs)
           ds == Tail(cs)
<1>1. PICK ws \in [0..n -> Lights] :
        /\ ws[0] = l /\ ws[n] = w
        /\ \A i \in 1..n : ws[i] = Applied(ws[i - 1], cs[i])
  BY DEF Replays
<1>2. n \in Nat \ {0} /\ Len(ds) = n - 1 /\ Head(cs) = cs[1] /\ \A i \in 1..(n - 1) : ds[i] = cs[i + 1]
  BY HeadTailProperties, EmptySeq
<1> DEFINE vs == [i \in 0..(n - 1) |-> ws[i + 1]]
<1>3. vs \in [0..(n - 1) -> Lights]
  BY <1>2
<1>4. vs[0] = Applied(l, Head(cs)) /\ vs[n - 1] = w
  <2>1. 0 \in 0..(n - 1) /\ n - 1 \in 0..(n - 1) /\ (n - 1) + 1 = n /\ 1 \in 1..n /\ 0 + 1 = 1
        /\ 1 - 1 = 0
    BY <1>2
  <2>2. vs[0] = ws[1] /\ vs[n - 1] = ws[n]
    BY <2>1
  <2> HIDE DEF n, ds, vs
  <2> QED
    BY <1>1, <1>2, <2>1, <2>2
<1>5. ASSUME NEW i \in 1..(n - 1) PROVE vs[i] = Applied(vs[i - 1], ds[i])
  <2>1. i \in 0..(n - 1) /\ i - 1 \in 0..(n - 1) /\ i + 1 \in 1..n /\ (i - 1) + 1 = i
        /\ (i + 1) - 1 = i
    BY <1>2
  <2>2. vs[i] = ws[i + 1] /\ vs[i - 1] = ws[i]
    BY <2>1
  <2> HIDE DEF n, ds, vs
  <2> QED
    BY <1>1, <1>2, <2>1, <2>2
<1> HIDE DEF vs, ds
<1>6. Replays(Applied(l, Head(cs)), ds, w)
  BY <1>2, <1>3, <1>4, <1>5 DEF Replays
<1> QED
  BY <1>6 DEF ds

\* Every step preserves LightFits, and the queued commands still lead to the word.
LEMMA LightStep ==
    ASSUME LightFits, Replays(light, commands, word), TaskFits, IncomingFits, [Next]_vars
    PROVE  LightFits' /\ Replays(light', commands', word')
<1> USE DEF LightFits
<1>1. ASSUME incoming # <<>> PROVE Head(incoming) \in Messages
  BY <1>1, HeadTailProperties DEF IncomingFits
<1>2. ASSUME NEW c \in UiCommands, commands' = Append(commands, c), word' = Applied(word, c),
             light' = light
      PROVE  Replays(light', commands', word') /\ commands' \in Seq(UiCommands) /\ word' \in Lights
  BY <1>2, ReplaysOneMore, AppliedTyped, AppendProperties
<1>3. CASE OnCommand
  <2> DEFINE m == Head(incoming)
  <2>1. m \in Messages /\ m.topic = "command" /\ UNCHANGED <<light, file, changed>>
        /\ commands' = (IF LiveCommand(m) THEN Append(commands, Set(m.value)) ELSE commands)
        /\ word' = (IF ~m.retain THEN Merge(word, m.value) ELSE word)
    BY <1>1, <1>3 DEF OnCommand, Receives, uiEnd
  <2>2. m.value \in Commands /\ m.retain \in BOOLEAN
    BY <2>1, MessageFields
  <2> HIDE DEF m
  <2>3. CASE m.retain
    <3>1. commands' = commands /\ word' = word
      BY <2>1, <2>3 DEF LiveCommand
    <3> QED
      BY <2>1, <3>1
  <2>4. CASE ~m.retain
    <3>1. commands' = Append(commands, Set(m.value)) /\ word' = Merge(word, m.value)
      BY <2>1, <2>4 DEF LiveCommand
    <3>2. Set(m.value) \in UiCommands /\ word' = Applied(word, Set(m.value))
      BY <2>2, <3>1, CommandsBuilt
    <3> QED
      BY <1>2, <2>1, <3>1, <3>2
  <2> QED
    BY <2>3, <2>4
<1>4. CASE OnRetainedState
  <2> DEFINE value == Head(incoming).value
  <2>1. Head(incoming) \in Messages /\ Head(incoming).topic = "state" /\ UNCHANGED <<light, file>>
    BY <1>1, <1>4 DEF OnRetainedState, Receives
  <2>2. value \in Commands \cup {Garbage}
    BY <2>1, MessageFields
  <2>3. CASE window /\ Head(incoming).retain
    <3>1. /\ commands' = (IF value # Garbage THEN Append(commands, Restore(Restored(value)))
                                              ELSE commands)
          /\ word' = (IF value # Garbage /\ ~restoreDone THEN Restored(value) ELSE word)
          /\ changed' = FALSE
      BY <1>4, <2>3 DEF OnRetainedState, Restored
    <3>2. ~restoreDone
      BY <2>3 DEF TaskFits
    <3> HIDE DEF value
    <3>3. CASE value = Garbage
      <4>1. commands' = commands /\ word' = word
        BY <3>1, <3>3
      <4> QED
        BY <2>1, <3>1, <4>1
    <3>4. CASE value # Garbage
      <4>1. /\ commands' = Append(commands, Restore(Restored(value)))
            /\ Restored(value) \in Lights /\ word' = Restored(value)
        BY <1>1, <2>2, <3>1, <3>2, <3>4, MergeTyped DEF Restored
      <4>2. /\ Restore(Restored(value)) \in UiCommands
            /\ word' = Applied(word, Restore(Restored(value)))
        BY <4>1, CommandsBuilt
      <4> QED
        BY <1>2, <2>1, <3>1, <4>1, <4>2
    <3> QED
      BY <3>3, <3>4
  <2>4. CASE ~(window /\ Head(incoming).retain)
    <3>1. UNCHANGED <<commands, word, changed>>
      BY <1>4, <2>4 DEF OnRetainedState
    <3> QED
      BY <2>1, <3>1
  <2> QED
    BY <2>3, <2>4
<1>5. CASE UiTakes
  <2> DEFINE c == Head(commands)
  <2>1. /\ commands # <<>> /\ commands' = Tail(commands) /\ word' = word
        /\ light' = Applied(light, c)
        /\ changed' = (changed \/ Notifies(c))
        /\ file' \in {light', file}
    BY <1>5 DEF UiTakes, Applied
  <2>2. c \in UiCommands /\ Tail(commands) \in Seq(UiCommands)
    BY <2>1, HeadTailProperties
  <2>3. light' \in Lights
    BY <2>1, <2>2, AppliedTyped
  <2>4. Replays(light', commands', word')
    BY <2>1, ReplaysOneLess
  <2>5. changed' \in BOOLEAN
    BY <2>1 DEF Notifies
  <2> HIDE DEF c
  <2> QED
    BY <2>1, <2>2, <2>3, <2>4, <2>5
<1>6. CASE Crash
  <2>1. /\ light' = Saved(file) /\ changed' = TRUE /\ commands' = <<>> /\ word' = light'
        /\ file' = file
    BY <1>6 DEF Crash
  <2>2. light' \in Lights
    BY <2>1, LightAssumption DEF Saved
  <2>3. Replays(light', <<>>, light') /\ <<>> \in Seq(UiCommands)
    BY <2>2, ReplaysNothing, EmptySeq
  <2> QED
    BY <2>1, <2>2, <2>3
<1>7. CASE \/ OnConnAck \/ OnPollError \/ RetryDue \/ OnHaOnline \/ RestoreTimeout \/ OnWatch
           \/ BrokerTakes \/ Acknowledge \/ HaCommand \/ HaOnline \/ UNCHANGED vars
  <2>1. UNCHANGED <<light, file, commands, word>>
    BY <1>7 DEF OnConnAck, NewSession, OnPollError, RetryDue, OnHaOnline, RestoreTimeout, OnWatch,
                BrokerTakes, Acknowledge, HaCommand, HaOnline, Forward, uiEnd, vars
  <2>2. changed' \in BOOLEAN
    <3>1. changed' \in {changed, FALSE, changed /\ window}
      BY <1>7 DEF OnConnAck, NewSession, OnPollError, RetryDue, OnHaOnline, RestoreTimeout, OnWatch,
                  BrokerTakes, Acknowledge, HaCommand, HaOnline, Forward, uiEnd, vars
    <3> QED
      BY <3>1
  <2> QED
    BY <2>1, <2>2
<1> QED
  BY <1>3, <1>4, <1>5, <1>6, <1>7 DEF Next

-----------------------------------------------------------------------------
\* rumqttc's queue: the broker has nothing of it while there is no connection.
QueueFits ==
    /\ outgoing \in Seq(Requests) /\ sent \in 0..Len(outgoing)
    /\ ~connected => sent = 0

\* A light's publish is one request.
LEMMA LightPublished ==
    ASSUME NEW l \in Lights
    PROVE  <<PublishState(l)>> \in Seq(Requests) /\ Len(<<PublishState(l)>>) = 1
BY RequestsBuilt

\* Every way the queue changes.
LEMMA QueueSteps ==
    ASSUME QueueFits, TaskFits, LightFits, IncomingFits, [Next]_vars
    PROVE  \/ /\ connected' /\ sent' = sent
              /\ \E old \in {outgoing, <<>>}, new \in Seq(Requests) :
                    outgoing' = old \o new /\ (old = outgoing \/ ~connected)
           \/ outgoing' = Publishes(outgoing) /\ sent' = 0
           \/ outgoing' = <<>> /\ sent' = 0
           \/ /\ connected /\ UNCHANGED connected
              /\ outgoing' = outgoing /\ sent' = sent + 1 /\ sent < Len(outgoing)
           \/ /\ connected /\ UNCHANGED connected
              /\ sent > 0 /\ outgoing' = Tail(outgoing) /\ sent' = sent - 1
           \/ UNCHANGED queue /\ (connected' = connected)
<1>1. ASSUME connected', NEW new \in Seq(Requests), Queue(new)
      PROVE  /\ connected' /\ sent' = sent
             /\ \E old \in {outgoing, <<>>}, n \in Seq(Requests) :
                   outgoing' = old \o n /\ (old = outgoing \/ ~connected)
  BY <1>1 DEF Queue
<1>2. ASSUME NEW l \in Lights PROVE <<PublishState(l)>> \in Seq(Requests)
  BY LightPublished
<1>3. light \in Lights
  BY DEF LightFits
<1>4. CASE OnConnAck
  <2>1. \E rs \in Seq(Requests) : NewSession(rs)
    <3>1. Append(Announcement, PublishState(light)) \in Seq(Requests)
      BY <1>3, AnnouncementTyped, RequestsBuilt, AppendProperties
    <3> QED
      BY <1>4, <3>1, AnnouncementTyped DEF OnConnAck
  <2> QED
    BY <2>1 DEF NewSession
<1>5. CASE OnPollError
  BY <1>5 DEF OnPollError
<1>6. CASE RetryDue \/ OnCommand \/ UiTakes \/ HaCommand \/ HaOnline \/ UNCHANGED vars
  BY <1>6 DEF RetryDue, OnCommand, UiTakes, HaCommand, HaOnline, Forward, task, vars
<1>7. CASE OnRetainedState
  <2>1. UNCHANGED connected /\ connected
    BY <1>7 DEF OnRetainedState, Receives
  <2>2. CASE window /\ Head(incoming).retain
    <3> DEFINE value == Head(incoming).value
    <3>1. Queue(<<PublishState(IF value # Garbage THEN Restored(value) ELSE light)>>)
      BY <1>7, <2>2 DEF OnRetainedState
    <3>2. value \in Commands \cup {Garbage}
      <4>1. Head(incoming) \in Messages /\ Head(incoming).topic = "state"
        BY <1>7, HeadTailProperties DEF OnRetainedState, Receives, IncomingFits
      <4> QED
        BY <4>1, MessageFields
    <3>3. (IF value # Garbage THEN Restored(value) ELSE light) \in Lights
      BY <1>3, <3>2, MergeTyped DEF Restored
    <3> HIDE DEF value
    <3> QED
      BY <1>1, <1>2, <2>1, <3>1, <3>3
  <2>3. CASE ~(window /\ Head(incoming).retain)
    BY <1>7, <2>1, <2>3 DEF OnRetainedState
  <2> QED
    BY <2>2, <2>3
<1>8. CASE OnHaOnline
  <2>1. connected' /\ Queue(<<Online>> \o (IF window THEN <<>> ELSE <<PublishState(light)>>))
    BY <1>8 DEF OnHaOnline, Receives, task
  <2>2. <<Online>> \in Seq(Requests) /\ <<>> \in Seq(Requests) /\ <<PublishState(light)>> \in Seq(Requests)
    BY <1>2, <1>3, RequestsBuilt, EmptySeq
  <2>3. <<Online>> \o (IF window THEN <<>> ELSE <<PublishState(light)>>) \in Seq(Requests)
    BY <2>2, ConcatProperties
  <2> QED
    BY <1>1, <2>1, <2>3
<1>9. CASE RestoreTimeout
  <2>1. connected' /\ Queue(<<PublishState(light)>>)
    BY <1>9 DEF RestoreTimeout, TaskFits
  <2> QED
    BY <1>1, <1>2, <1>3, <2>1
<1>10. CASE OnWatch
  <2>1. UNCHANGED connected
    BY <1>10 DEF OnWatch, task
  <2>2. CASE connected /\ ~window
    BY <1>1, <1>2, <1>3, <1>10, <2>1, <2>2 DEF OnWatch
  <2>3. CASE ~(connected /\ ~window)
    BY <1>10, <2>1, <2>3 DEF OnWatch
  <2> QED
    BY <2>2, <2>3
<1>11. CASE Crash
  BY <1>11 DEF Crash
<1>12. CASE BrokerTakes
  BY <1>12 DEF BrokerTakes, task
<1>13. CASE Acknowledge
  BY <1>13 DEF Acknowledge, task
<1> QED
  BY <1>4, <1>5, <1>6, <1>7, <1>8, <1>9, <1>10, <1>11, <1>12, <1>13 DEF Next

\* Every step preserves QueueFits, and no step queues while disconnected.
LEMMA QueueStep ==
    ASSUME QueueFits, TaskFits, LightFits, IncomingFits, [Next]_vars
    PROVE  QueueFits' /\ (~connected' => Len(outgoing') <= Len(outgoing))
<1>0. outgoing \in Seq(Requests) /\ sent \in 0..Len(outgoing) /\ Len(outgoing) \in Nat
      /\ (~connected => sent = 0)
  BY LenProperties DEF QueueFits
<1>1. <<>> \in Seq(Requests) /\ Len(<<>>) = 0
  BY EmptySeq
<1>2. ASSUME connected', sent' = sent,
             NEW old \in {outgoing, <<>>}, NEW new \in Seq(Requests),
             outgoing' = old \o new, old = outgoing \/ ~connected
      PROVE  QueueFits' /\ (~connected' => Len(outgoing') <= Len(outgoing))
  <2>1. old \in Seq(Requests) /\ Len(old) \in Nat /\ Len(new) \in Nat
    BY <1>0, <1>1, LenProperties
  <2>2. outgoing' \in Seq(Requests) /\ Len(outgoing') = Len(old) + Len(new)
    BY <1>2, <2>1, ConcatProperties
  <2>3. sent \in 0..Len(old)
    BY <1>0, <1>2, <2>1
  <2>4. sent' \in 0..Len(outgoing')
    BY <1>2, <2>1, <2>2, <2>3
  <2> QED
    BY <1>2, <2>2, <2>4 DEF QueueFits
<1>3. ASSUME outgoing' = Publishes(outgoing), sent' = 0
      PROVE  QueueFits' /\ Len(outgoing') <= Len(outgoing)
  <2>1. outgoing' \in Seq(Requests) /\ Len(outgoing') <= Len(outgoing)
    BY <1>0, <1>3, PublishesTyped
  <2>2. Len(outgoing') \in Nat
    BY <2>1, LenProperties
  <2> QED
    BY <1>3, <2>1, <2>2 DEF QueueFits
<1>4. ASSUME outgoing' = <<>>, sent' = 0
      PROVE  QueueFits' /\ Len(outgoing') <= Len(outgoing)
  BY <1>0, <1>1, <1>4 DEF QueueFits
<1>5. ASSUME connected, connected' = connected, outgoing' = outgoing, sent' = sent + 1,
             sent < Len(outgoing)
      PROVE  QueueFits' /\ (~connected' => Len(outgoing') <= Len(outgoing))
  BY <1>0, <1>5 DEF QueueFits
<1>6. ASSUME connected, connected' = connected, sent > 0, outgoing' = Tail(outgoing),
             sent' = sent - 1
      PROVE  QueueFits' /\ (~connected' => Len(outgoing') <= Len(outgoing))
  <2>1. outgoing # <<>>
    BY <1>0, <1>1, <1>6
  <2>2. Tail(outgoing) \in Seq(Requests) /\ Len(Tail(outgoing)) = Len(outgoing) - 1
    BY <1>0, <2>1, HeadTailProperties
  <2> QED
    BY <1>0, <1>6, <2>2 DEF QueueFits
<1>7. ASSUME UNCHANGED queue, connected' = connected
      PROVE  QueueFits' /\ (~connected' => Len(outgoing') <= Len(outgoing))
  BY <1>0, <1>7 DEF QueueFits, queue
<1> QED
  BY <1>2, <1>3, <1>4, <1>5, <1>6, <1>7, QueueSteps

-----------------------------------------------------------------------------
\* BrokerEndsWith of any queue q of which the broker has n requests, and r
\* retained.
StatesIn(q, n) == {i \in (n + 1)..Len(q) : q[i].kind = "state"}
EndsWith(q, n, r, l) ==
    \/ StatesIn(q, n) = {} /\ r = l
    \/ \E i \in StatesIn(q, n) : q[i].value = l /\ \A j \in StatesIn(q, n) : j <= i

\* A light that is queued last is what the broker ends with.
LEMMA EndsWithLast ==
    ASSUME NEW q \in Seq(Requests), NEW n \in 0..Len(q), NEW l \in Lights, NEW r
    PROVE  EndsWith(q \o <<PublishState(l)>>, n, r, l)
<1> DEFINE p == q \o <<PublishState(l)>>
<1>1. /\ Len(q) \in Nat /\ Len(p) = Len(q) + 1 /\ p[Len(q) + 1] = PublishState(l)
  <2>1. p = Append(q, PublishState(l))
    BY RequestsBuilt, AppendIsConcat
  <2> QED
    BY <2>1, RequestsBuilt, AppendProperties, LenProperties
<1> HIDE DEF p
<1>2. p[Len(p)].kind = "state" /\ p[Len(p)].value = l
  BY <1>1 DEF PublishState
<1>3. Len(p) \in StatesIn(p, n) /\ \A j \in StatesIn(p, n) : j <= Len(p)
  BY <1>1, <1>2 DEF StatesIn
<1>4. EndsWith(p, n, r, l)
  BY <1>2, <1>3 DEF EndsWith
<1> QED
  BY <1>4 DEF p

\* Taking a request does not change what the broker ends with.
LEMMA EndsWithTaken ==
    ASSUME NEW q \in Seq(Requests), NEW n \in Nat, n < Len(q), NEW r, NEW new, NEW l,
           IF q[n + 1].kind = "state" THEN new = q[n + 1].value ELSE new = r,
           EndsWith(q, n, r, l)
    PROVE  EndsWith(q, n + 1, new, l)
<1>1. Len(q) \in Nat
  BY LenProperties
<1>2. StatesIn(q, n + 1) = StatesIn(q, n) \ {n + 1}
  BY <1>1 DEF StatesIn
<1>3. n + 1 \in StatesIn(q, n) <=> q[n + 1].kind = "state"
  BY <1>1 DEF StatesIn
<1>4. \A j \in StatesIn(q, n) : j \in Nat /\ j >= n + 1
  BY DEF StatesIn
<1>5. CASE StatesIn(q, n) = {} /\ r = l
  BY <1>2, <1>3, <1>5 DEF EndsWith
<1>6. ASSUME NEW i \in StatesIn(q, n), q[i].value = l, \A j \in StatesIn(q, n) : j <= i
      PROVE  EndsWith(q, n + 1, new, l)
  <2>1. CASE i = n + 1
    <3>1. StatesIn(q, n + 1) = {}
      <4>1. \A j \in StatesIn(q, n) : j = n + 1
        BY <1>4, <1>6, <2>1
      <4> QED
        BY <1>2, <4>1
    <3>2. new = l
      BY <1>3, <1>6, <2>1
    <3> QED
      BY <3>1, <3>2 DEF EndsWith
  <2>2. CASE i # n + 1
    <3>1. i \in StatesIn(q, n + 1) /\ \A j \in StatesIn(q, n + 1) : j <= i
      BY <1>2, <1>6, <2>2
    <3> QED
      BY <1>6, <3>1 DEF EndsWith
  <2> QED
    BY <2>1, <2>2
<1> QED
  BY <1>5, <1>6 DEF EndsWith

\* Nor does an acknowledgement.
LEMMA EndsWithAcknowledged ==
    ASSUME NEW q \in Seq(Requests), NEW n \in 1..Len(q), NEW r, NEW l, EndsWith(q, n, r, l)
    PROVE  EndsWith(Tail(q), n - 1, r, l)
<1> DEFINE p == Tail(q)
<1>1. Len(q) \in Nat /\ n \in Nat /\ n >= 1 /\ q # <<>>
  <2>1. Len(q) \in Nat /\ n >= 1 /\ n <= Len(q) /\ n \in Nat
    BY LenProperties
  <2>2. Len(q) # 0
    BY <2>1
  <2> QED
    BY <2>1, <2>2, EmptySeq
<1>2. Len(p) = Len(q) - 1 /\ \A i \in 1..(Len(q) - 1) : p[i] = q[i + 1]
  BY <1>1, HeadTailProperties
<1> HIDE DEF p
<1>3. \A i \in StatesIn(q, n) : i - 1 \in StatesIn(p, n - 1) /\ p[i - 1] = q[i]
  BY <1>1, <1>2 DEF StatesIn
<1>4. \A i \in StatesIn(p, n - 1) : i + 1 \in StatesIn(q, n) /\ i \in Nat
  BY <1>1, <1>2 DEF StatesIn
<1>5. CASE StatesIn(q, n) = {} /\ r = l
  <2>1. StatesIn(p, n - 1) = {}
    BY <1>4, <1>5
  <2> QED
    BY <1>5, <2>1 DEF EndsWith, p
<1>6. ASSUME NEW i \in StatesIn(q, n), q[i].value = l, \A j \in StatesIn(q, n) : j <= i
      PROVE  EndsWith(Tail(q), n - 1, r, l)
  <2>1. i - 1 \in StatesIn(p, n - 1) /\ p[i - 1].value = l
    BY <1>3, <1>6
  <2>2. i \in Nat
    BY <1>1 DEF StatesIn
  <2>3. \A j \in StatesIn(p, n - 1) : j <= i - 1
    BY <1>4, <1>6, <2>2
  <2> QED
    BY <2>1, <2>3 DEF EndsWith, p
<1> QED
  BY <1>5, <1>6 DEF EndsWith

\* With the link up, the window closed and nothing left to process, the queue
\* ends with the light.
LEMMA BrokerStep ==
    ASSUME TaskFits, LightFits, IncomingFits, QueueFits, BrokerFollowsLight, [Next]_vars
    PROVE  BrokerFollowsLight'
<1> SUFFICES ASSUME connected', ~window', ~changed', commands' = <<>>
             PROVE  EndsWith(outgoing', sent', retained', light')
  BY DEF BrokerFollowsLight, BrokerEndsWith, Unsent, EndsWith, StatesIn
<1>0. outgoing \in Seq(Requests) /\ sent \in 0..Len(outgoing) /\ light \in Lights
      /\ Len(outgoing) \in Nat /\ sent \in Nat /\ (~connected => sent = 0)
      /\ connected \in BOOLEAN /\ window \in BOOLEAN /\ changed \in BOOLEAN
  BY LenProperties DEF QueueFits, LightFits, TaskFits
<1>1. ASSUME connected, ~window, ~changed, commands = <<>>
      PROVE  EndsWith(outgoing, sent, retained, light)
  BY <1>1 DEF BrokerFollowsLight, BrokerEndsWith, Unsent, EndsWith, StatesIn
<1>2. ASSUME NEW q \in Seq(Requests), outgoing' = q \o <<PublishState(light)>>,
             sent' \in 0..Len(q), light' = light
      PROVE  EndsWith(outgoing', sent', retained', light')
  <2>1. EndsWith(q \o <<PublishState(light)>>, sent', retained', light)
    BY <1>0, <1>2, EndsWithLast
  <2> QED
    BY <1>2, <2>1
<1>3. ASSUME outgoing' = outgoing \o <<PublishState(light)>>, sent' = sent, light' = light
      PROVE  EndsWith(outgoing', sent', retained', light')
  BY <1>0, <1>2, <1>3
<1>4. CASE OnConnAck
  <2>1. /\ NewSession(Append(Announcement, PublishState(light)))
        /\ light' = light /\ sent' = sent /\ sent = 0
    BY <1>0, <1>4 DEF OnConnAck, NewSession
  <2>2. PICK carried \in {outgoing, <<>>} :
          outgoing' = carried \o Append(Announcement, PublishState(light))
    BY <2>1 DEF NewSession
  <2>3. carried \in Seq(Requests) /\ Announcement \in Seq(Requests)
        /\ <<PublishState(light)>> \in Seq(Requests)
    BY <1>0, EmptySeq, AnnouncementTyped, LightPublished
  <2>4. Append(Announcement, PublishState(light)) = Announcement \o <<PublishState(light)>>
    BY <1>0, <2>3, RequestsBuilt, AppendIsConcat
  <2>5. outgoing' = (carried \o Announcement) \o <<PublishState(light)>>
    BY <2>2, <2>3, <2>4, ConcatAssociative
  <2>6. carried \o Announcement \in Seq(Requests)
    BY <2>3, ConcatProperties
  <2>7. sent' \in 0..Len(carried \o Announcement)
    BY <2>1, <2>6, LenProperties
  <2> QED
    BY <1>2, <2>1, <2>5, <2>6, <2>7
<1>5. CASE OnPollError \/ Crash
  BY <1>5 DEF OnPollError, Crash
<1>6. CASE OnCommand
  <2>1. UNCHANGED <<outgoing, sent, retained, light, connected, window, changed>>
    BY <1>6 DEF OnCommand, uiEnd, task, queue, broker
  <2>2. commands = <<>>
    <3>1. commands' = commands \/ commands' = Append(commands, Set(Head(incoming).value))
      BY <1>6 DEF OnCommand
    <3>2. ASSUME commands' = Append(commands, Set(Head(incoming).value)) PROVE FALSE
      <4>1. Head(incoming) \in Messages /\ Head(incoming).topic = "command"
        BY <1>6, HeadTailProperties DEF OnCommand, Receives, IncomingFits
      <4>2. Set(Head(incoming).value) \in UiCommands
        BY <4>1, MessageFields, CommandsBuilt
      <4>3. commands \in Seq(UiCommands)
        BY DEF LightFits
      <4>4. commands' # <<>>
        BY <3>2, <4>2, <4>3, AppendProperties
      <4> QED
        BY <4>4
    <3> QED
      BY <3>1, <3>2
  <2> QED
    BY <1>1, <2>1, <2>2
<1>7. CASE OnRetainedState
  <2>0. UNCHANGED <<light, retained, connected>> /\ Receives("state")
    BY <1>7 DEF OnRetainedState, broker
  <2>1. CASE window /\ Head(incoming).retain
    <3> DEFINE value == Head(incoming).value
    <3>1. /\ commands' = IF value # Garbage THEN Append(commands, Restore(Restored(value)))
                                            ELSE commands
          /\ Queue(<<PublishState(IF value # Garbage THEN Restored(value) ELSE light)>>)
      BY <1>7, <2>1 DEF OnRetainedState
    <3>2. value = Garbage
      <4>1. SUFFICES ASSUME value # Garbage PROVE FALSE
        OBVIOUS
      <4>2. Head(incoming) \in Messages /\ Head(incoming).topic = "state"
        BY <2>0, HeadTailProperties DEF Receives, IncomingFits
      <4>3. Restored(value) \in Lights
        BY <4>1, <4>2, MessageFields, MergeTyped DEF Restored, LightFits
      <4>4. Restore(Restored(value)) \in UiCommands /\ commands \in Seq(UiCommands)
        BY <4>3, CommandsBuilt DEF LightFits
      <4>5. Append(commands, Restore(Restored(value))) # <<>>
        BY <4>4, AppendProperties
      <4> QED
        BY <3>1, <4>1, <4>5
    <3>3. outgoing' = outgoing \o <<PublishState(light)>> /\ sent' = sent
      BY <3>1, <3>2 DEF Queue
    <3> QED
      BY <1>3, <2>0, <3>3
  <2>2. CASE ~(window /\ Head(incoming).retain)
    <3>1. UNCHANGED <<commands, queue, window, changed>>
      BY <1>7, <2>2 DEF OnRetainedState
    <3> QED
      BY <1>1, <2>0, <3>1 DEF queue
  <2> QED
    BY <2>1, <2>2
<1>8. CASE OnHaOnline
  <2>1. ~window /\ light' = light
        /\ Queue(<<Online>> \o (IF window THEN <<>> ELSE <<PublishState(light)>>))
    BY <1>8 DEF OnHaOnline, task
  <2>2. outgoing' = outgoing \o (<<Online>> \o <<PublishState(light)>>) /\ sent' = sent
    BY <2>1 DEF Queue
  <2>3. <<Online>> \in Seq(Requests) /\ <<PublishState(light)>> \in Seq(Requests)
    BY <1>0, RequestsBuilt, LightPublished
  <2>4. outgoing' = (outgoing \o <<Online>>) \o <<PublishState(light)>>
    BY <1>0, <2>2, <2>3, ConcatAssociative
  <2>5. outgoing \o <<Online>> \in Seq(Requests) /\ Len(outgoing \o <<Online>>) = Len(outgoing) + 1
    BY <1>0, <2>3, ConcatProperties
  <2>6. sent' \in 0..Len(outgoing \o <<Online>>)
    BY <1>0, <2>2, <2>5
  <2> QED
    BY <1>2, <2>1, <2>4, <2>5, <2>6
<1>9. CASE RestoreTimeout
  BY <1>3, <1>9 DEF RestoreTimeout, Queue
<1>10. CASE OnWatch
  <2>1. UNCHANGED <<light, connected, window>>
    BY <1>10 DEF OnWatch, task
  <2>2. Queue(<<PublishState(light)>>)
    BY <1>10, <2>1 DEF OnWatch
  <2> QED
    BY <1>3, <2>1, <2>2 DEF Queue
<1>11. CASE UiTakes
  BY <1>11 DEF UiTakes, Notifies
<1>12. CASE BrokerTakes
  <2>1. /\ UNCHANGED <<light, changed, commands, connected, window, outgoing>>
        /\ sent < Len(outgoing) /\ sent' = sent + 1
    BY <1>12 DEF BrokerTakes, uiEnd, task
  <2>2. IF outgoing[sent + 1].kind = "state" THEN retained' = outgoing[sent + 1].value
                                             ELSE retained' = retained
    BY <1>12 DEF BrokerTakes, broker
  <2>3. EndsWith(outgoing, sent, retained, light)
    BY <1>1, <2>1
  <2>4. EndsWith(outgoing, sent + 1, retained', light)
    BY <1>0, <2>1, <2>2, <2>3, EndsWithTaken
  <2> QED
    BY <2>1, <2>4
<1>13. CASE Acknowledge
  <2>1. /\ UNCHANGED <<light, changed, commands, connected, window, retained>>
        /\ sent > 0 /\ outgoing' = Tail(outgoing) /\ sent' = sent - 1
    BY <1>13 DEF Acknowledge, uiEnd, task, broker
  <2>2. EndsWith(outgoing, sent, retained, light) /\ sent \in 1..Len(outgoing)
    BY <1>0, <1>1, <2>1
  <2>3. EndsWith(Tail(outgoing), sent - 1, retained, light)
    BY <1>0, <2>2, EndsWithAcknowledged
  <2> QED
    BY <2>1, <2>3
<1>14. CASE RetryDue \/ HaCommand \/ HaOnline \/ UNCHANGED vars
  <2>1. UNCHANGED <<light, changed, commands, connected, window, retained, queue>>
    BY <1>14 DEF RetryDue, HaCommand, HaOnline, Forward, uiEnd, task, broker, vars
  <2> QED
    BY <1>1, <2>1 DEF queue
<1> QED
  BY <1>4, <1>5, <1>6, <1>7, <1>8, <1>9, <1>10, <1>11, <1>12, <1>13, <1>14 DEF Next

-----------------------------------------------------------------------------
\* The invariant behind all of them.
LightInv ==
    /\ TaskFits /\ IncomingFits /\ LightFits /\ QueueFits
    /\ Replays(light, commands, word)
    /\ BrokerFollowsLight

\* It holds in every reachable state.
THEOREM LightInvariant == Spec => []LightInv
<1>1. Init => LightInv
  <2> SUFFICES ASSUME Init PROVE LightInv
    OBVIOUS
  <2>1. TaskFits
    BY DEF Init, TaskFits
  <2>2. IncomingFits
    BY EmptySeq, LightAssumption DEF Init, IncomingFits
  <2>3. light \in Lights
    BY LightAssumption DEF Init, Saved
  <2>4. LightFits
    BY <2>3, EmptySeq DEF Init, LightFits
  <2>5. QueueFits
    BY EmptySeq DEF Init, QueueFits
  <2>6. Replays(light, commands, word)
    <3>1. Replays(light, <<>>, light)
      BY <2>3, ReplaysNothing
    <3> QED
      BY <3>1 DEF Init
  <2>7. BrokerFollowsLight
    BY DEF Init, BrokerFollowsLight
  <2> QED
    BY <2>1, <2>2, <2>4, <2>5, <2>6, <2>7 DEF LightInv
<1>2. LightInv /\ [Next]_vars => LightInv'
  <2> SUFFICES ASSUME LightInv, [Next]_vars PROVE LightInv'
    OBVIOUS
  <2>0. outgoing \in Seq(Requests) /\ sent \in 0..Len(outgoing)
    BY DEF LightInv, QueueFits
  <2>1. TaskFits' /\ IncomingFits'
    BY <2>0, TaskStep, IncomingStep DEF LightInv
  <2>2. LightFits' /\ Replays(light, commands, word)'
    BY LightStep DEF LightInv
  <2>3. QueueFits'
    BY QueueStep DEF LightInv
  <2>4. BrokerFollowsLight'
    BY BrokerStep DEF LightInv
  <2> QED
    BY <2>1, <2>2, <2>3, <2>4 DEF LightInv
<1> QED
  BY <1>1, <1>2, PTL DEF Spec

\* Every variable has its type, a restore window and a retry pause excluding
\* what they have to exclude.
THEOREM TypeCorrect == Spec => []TypeOK
<1>1. LightInv => TypeOK
  BY DEF LightInv, TaskFits, IncomingFits, LightFits, QueueFits, TypeOK
<1> QED
  BY <1>1, LightInvariant, PTL

\* With the link up, the window closed and nothing left to process, the last
\* state the broker has been or will be given is the one the panel shows.
THEOREM BrokerIsTold == Spec => []BrokerFollowsLight
<1>1. LightInv => BrokerFollowsLight
  BY DEF LightInv
<1> QED
  BY <1>1, LightInvariant, PTL

\* The light is what it was last told to be by its file, a restored state or a
\* live command, and by nothing else.
THEOREM LightKeepsWord == Spec => []LastWordHolds
<1>1. LightInv => LastWordHolds
  <2> SUFFICES ASSUME Replays(light, commands, word), commands = <<>> PROVE light = word
    BY DEF LightInv, LastWordHolds
  <2>1. Len(commands) = 0
    BY EmptySeq
  <2> QED
    BY <2>1 DEF Replays
<1> QED
  BY <1>1, LightInvariant, PTL

\* However the light changes while there is no connection, rumqttc's queue does
\* not grow.
THEOREM OutageStaysQuiet == Spec => OutageQueuesNothing
<1>1. LightInv /\ [Next]_vars => [~connected' => Len(outgoing') <= Len(outgoing)]_vars
  BY QueueStep DEF LightInv
<1> QED
  BY <1>1, LightInvariant, PTL DEF Spec, OutageQueuesNothing
=============================================================================
