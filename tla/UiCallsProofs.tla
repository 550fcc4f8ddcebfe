---------------------------- MODULE UiCallsProofs ----------------------------
(***************************************************************************)
(* Safety of UiCalls for any buttons, any calls behind them, any number of *)
(* requests and any behaviour of a link that keeps HaContract.             *)
(***************************************************************************)
EXTENDS UiCalls, SequenceTheorems, TLAPS

\* The kinds of events, and what the contract's steps append.
LEMMA EventFields ==
    \A e \in ContractEvents :
        /\ e.type \in {"Connected", "Disconnected", "CallResult", "StateChanged", "StateRemoved"}
        /\ e.type = "CallResult" => e.request \in Requests /\ e.success \in BOOLEAN
        /\ e.type \in {"StateChanged", "StateRemoved"} => e.entity \in Entities
BY DEF ContractEvents

\* What the link sends to the UI are events of the contract.
LEMMA EventsBuilt ==
    /\ Connected \in ContractEvents /\ Disconnected \in ContractEvents
    /\ \A r \in Requests, ok \in BOOLEAN : CallResult(r, ok) \in ContractEvents
    /\ \A e \in Entities : StateChanged(e) \in ContractEvents /\ StateRemoved(e) \in ContractEvents
BY DEF ContractEvents, Connected, Disconnected, CallResult, StateChanged, StateRemoved

\* A function on 1..n is a sequence of length n.
LEMMA TableIsSeq ==
    ASSUME NEW S, NEW n \in Nat, NEW f \in [1..n -> S]
    PROVE  f \in Seq(S) /\ Len(f) = n
<1>1. f \in Seq(S)
  BY SeqDef
<1>2. DOMAIN f = 1..n
  OBVIOUS
<1>3. Len(f) \in Nat /\ DOMAIN f = 1..Len(f)
  BY <1>1, LenProperties
<1> QED
  BY <1>1, <1>2, <1>3

\* The failures of a lost link are results, and nothing else.
LEMMA FailuresTyped ==
    ASSUME NEW rs \in Seq(Requests)
    PROVE  /\ Failures(rs) \in Seq(ContractEvents)
           /\ \A i \in DOMAIN Failures(rs) : Failures(rs)[i].type = "CallResult"
<1>1. DOMAIN rs = 1..Len(rs) /\ Len(rs) \in Nat /\ \A i \in 1..Len(rs) : rs[i] \in Requests
  BY LenProperties, ElementOfSeq
<1>2. \A i \in 1..Len(rs) : CallResult(rs[i], FALSE) \in ContractEvents
  BY <1>1, EventsBuilt
<1>3. Failures(rs) \in [1..Len(rs) -> ContractEvents]
  BY <1>1, <1>2 DEF Failures
<1>4. \A i \in DOMAIN Failures(rs) : Failures(rs)[i].type = "CallResult"
  BY DEF Failures, CallResult
<1> QED
  BY <1>1, <1>3, <1>4, TableIsSeq

\* Removing a call leaves calls.
LEMMA WithoutTyped ==
    ASSUME NEW s \in Seq(Requests), NEW i \in DOMAIN s
    PROVE  Without(s, i) \in Seq(Requests)
<1>1. i \in 1..Len(s) /\ Len(s) \in Nat /\ \A j \in 1..Len(s) : s[j] \in Requests
  BY LenProperties, ElementOfSeq
<1>2. SubSeq(s, 1, i - 1) \in Seq(Requests)
  <2>1. i - 1 \in Int /\ \A j \in 1..(i - 1) : s[j] \in Requests
    BY <1>1
  <2> QED
    BY <2>1, SubSeqProperties
<1>3. SubSeq(s, i + 1, Len(s)) \in Seq(Requests)
  <2>1. i + 1 \in Int /\ Len(s) \in Int /\ \A j \in (i + 1)..Len(s) : s[j] \in Requests
    BY <1>1
  <2> QED
    BY <2>1, SubSeqProperties
<1> QED
  BY <1>2, <1>3, ConcatProperties DEF Without

\* The link's steps keep the channels typed.
LEMMA LinkTyped ==
    ASSUME ContractTypeOK, Link
    PROVE  ContractTypeOK'
<1> USE DEF ContractTypeOK
<1>1. calls # <<>> => Head(calls) \in Requests /\ Tail(calls) \in Seq(Requests)
  OBVIOUS
<1>2. \A e \in ContractEvents : Append(events, e) \in Seq(ContractEvents)
  BY AppendProperties
<1>3. CASE Refuse
  BY <1>1, <1>2, <1>3, EventsBuilt DEF Refuse
<1>4. CASE Accept
  BY <1>1, <1>4, AppendProperties DEF Accept
<1>5. CASE Answer
  <2>1. PICK i \in DOMAIN outstanding, ok \in BOOLEAN :
          /\ outstanding' = Without(outstanding, i)
          /\ events' = Append(events, CallResult(outstanding[i], ok))
    BY <1>5 DEF Answer
  <2>2. outstanding[i] \in Requests
    BY ElementOfSeq, LenProperties
  <2> QED
    BY <1>2, <1>5, <2>1, <2>2, EventsBuilt, WithoutTyped DEF Answer
<1>6. ASSUME NEW e \in Entities, Push(e) PROVE ContractTypeOK'
  BY <1>2, <1>6, EventsBuilt DEF Push
<1>7. CASE GoUp
  BY <1>2, <1>7, EventsBuilt DEF GoUp
<1>8. CASE GoDown
  <2>1. PICK rs \in Seq(Requests) : events' = events \o Failures(rs) \o <<Disconnected>>
    BY <1>1, <1>8, AppendProperties DEF GoDown
  <2>2. events' \in Seq(ContractEvents)
    <3>1. Failures(rs) \in Seq(ContractEvents) /\ <<Disconnected>> \in Seq(ContractEvents)
      BY FailuresTyped, EventsBuilt
    <3>2. events \o Failures(rs) \in Seq(ContractEvents)
      BY <3>1, ConcatProperties
    <3> HIDE DEF ContractTypeOK
    <3>3. (events \o Failures(rs)) \o <<Disconnected>> \in Seq(ContractEvents)
      BY <3>1, <3>2, ConcatProperties
    <3> QED
      BY <2>1, <3>3
  <2> QED
    <3>1. calls' \in Seq(Requests)
      BY <1>1, <1>8 DEF GoDown
    <3>2. outstanding' \in Seq(Requests) /\ up' \in BOOLEAN
      BY <1>8, EmptySeq DEF GoDown
    <3> QED
      BY <2>2, <3>1, <3>2
<1> QED
  BY <1>3, <1>4, <1>5, <1>6, <1>7, <1>8 DEF Link

\* Taking an event keeps the contract's types.
LEMMA TakeTyped ==
    ASSUME ContractTypeOK, Take
    PROVE  ContractTypeOK' /\ Head(events) \in ContractEvents
BY DEF ContractTypeOK, Take

\* refresh_pending yields what PendingIsShown asks for.
LEMMA RefreshShows ==
    ASSUME NEW inf, RefreshPending(inf), inflight' = inf
    PROVE  /\ PendingIsShown'
           /\ togglePending' \subseteq Toggles /\ presetPending' \in Presets \cup {NoPreset}
<1>1. PresetsOf(inf) \subseteq Presets /\ TogglesOf(inf) \subseteq Toggles
  BY DEF PresetsOf, TogglesOf
<1> QED
  BY <1>1 DEF RefreshPending, PendingIsShown

-----------------------------------------------------------------------------
\* What TypeOK says of the markers.
MarkersFit(inf, top) ==
    /\ DOMAIN inf \subseteq Requests
    /\ \A r \in DOMAIN inf : r <= top /\ inf[r] \in Markers

\* What a success does to the markers.
Confirm(inf, r) == [inf EXCEPT ![r].confirmed = TRUE]

\* Dropping markers keeps the rest as they are.
LEMMA KeepFits ==
    ASSUME NEW inf, NEW rs, NEW top, MarkersFit(inf, top)
    PROVE  MarkersFit(Keep(inf, rs), top)
BY DEF MarkersFit, Keep

\* A confirmation changes neither key nor entities of a marker.
LEMMA ConfirmFits ==
    ASSUME NEW inf, NEW top, MarkersFit(inf, top), NEW r \in DOMAIN inf
    PROVE  LET new == Confirm(inf, r)
           IN  /\ MarkersFit(new, top) /\ DOMAIN new = DOMAIN inf
               /\ \A q \in DOMAIN inf : new[q].key = inf[q].key /\ new[q].entities = inf[q].entities
<1> DEFINE new == Confirm(inf, r)
<1>0. new = [inf EXCEPT ![r].confirmed = TRUE]
  BY DEF Confirm
<1> HIDE DEF new
<1>1. DOMAIN new = DOMAIN inf /\ \A q \in DOMAIN inf : q # r => new[q] = inf[q]
  BY <1>0
<1>2. new[r] = [inf[r] EXCEPT !.confirmed = TRUE] /\ inf[r] \in Markers
  BY <1>0 DEF MarkersFit
<1>3. new[r] \in Markers /\ new[r].key = inf[r].key /\ new[r].entities = inf[r].entities
  BY <1>2 DEF Markers
<1> QED
  BY <1>1, <1>3 DEF MarkersFit, new

\* A press: its requests are new, one marker and one call for each.
LEMMA PressTyped ==
    ASSUME TypeOK, NEW b \in Buttons, Press(b)
    PROVE  /\ calls' \in Seq(Requests)
           /\ nextRequest' \in 1..MaxRequest /\ nextRequest <= nextRequest'
           /\ MarkersFit(inflight', nextRequest')
           /\ DOMAIN inflight \subseteq DOMAIN inflight' /\ RefreshPending(inflight')
           /\ \A r \in DOMAIN inflight' \ DOMAIN inflight : r > nextRequest
<1> DEFINE n == Len(CallsOf[b])
           new == (nextRequest + 1)..(nextRequest + n)
           ids == [i \in 1..n |-> nextRequest + i]
<1>1. CallsOf[b] \in Seq(SUBSET Entities) /\ n \in Nat
  <2>1. CallsOf[b] \in Seq((SUBSET Entities) \ {{}})
    BY ButtonAssumption
  <2> QED
    BY <2>1, SeqMonotonic, LenProperties
<1>2. /\ nextRequest + n <= MaxRequest /\ nextRequest' = nextRequest + n
      /\ calls' = calls \o ids
      /\ inflight' = [r \in DOMAIN inflight \cup new |->
                       IF r \in new
                       THEN [key |-> b, entities |-> CallsOf[b][r - nextRequest], confirmed |-> FALSE]
                       ELSE inflight[r]]
      /\ RefreshPending(inflight')
  BY DEF Press
<1>3. nextRequest \in Nat /\ nextRequest >= 1 /\ MaxRequest \in Nat /\ Requests = 2..MaxRequest
  BY RequestAssumption DEF TypeOK
<1>4. new \subseteq Requests /\ \A r \in new : r <= nextRequest' /\ r > nextRequest
  BY <1>1, <1>2, <1>3
<1>5. ids \in Seq(Requests)
  <2>1. ids \in [1..n -> Requests]
    BY <1>1, <1>2, <1>3
  <2> QED
    BY <1>1, <2>1, TableIsSeq
<1>6. calls' \in Seq(Requests)
  BY <1>2, <1>5, ConcatProperties DEF TypeOK, ContractTypeOK
<1>7. \A r \in new : CallsOf[b][r - nextRequest] \in SUBSET Entities
  <2>1. \A r \in new : r - nextRequest \in 1..n
    BY <1>1, <1>3
  <2> QED
    BY <1>1, <2>1, ElementOfSeq
<1>8. DOMAIN inflight \subseteq Requests
      /\ \A r \in DOMAIN inflight : r <= nextRequest /\ inflight[r] \in Markers
  BY DEF TypeOK
<1>9. nextRequest' \in 1..MaxRequest /\ nextRequest <= nextRequest'
  BY <1>1, <1>2, <1>3
<1>10. DOMAIN inflight' = DOMAIN inflight \cup new
  BY <1>2
<1>11. \A r \in DOMAIN inflight' : inflight'[r] \in Markers
  <2>1. \A r \in new : inflight'[r] \in Markers
    BY <1>2, <1>7 DEF Markers
  <2>2. \A r \in DOMAIN inflight \ new : inflight'[r] = inflight[r]
    BY <1>2
  <2> QED
    BY <1>8, <1>10, <2>1, <2>2
<1>12. \A r \in DOMAIN inflight : r <= nextRequest'
  BY <1>3, <1>8, <1>9
<1> HIDE DEF new, n, ids
<1>13. MarkersFit(inflight', nextRequest')
  BY <1>4, <1>8, <1>10, <1>11, <1>12 DEF MarkersFit
<1> QED
  BY <1>2, <1>4, <1>6, <1>9, <1>10, <1>13

\* Every step, seen from the markers: a press adds some, the rest only drop
\* or confirm them, and what the buttons show follows.
LEMMA MarkerSteps ==
    ASSUME TypeOK, [Next]_vars
    PROVE  /\ MarkersFit(inflight', nextRequest')
           /\ nextRequest' \in 1..MaxRequest /\ nextRequest <= nextRequest'
           /\ \A r \in DOMAIN inflight' \ DOMAIN inflight : r > nextRequest
           /\ \/ RefreshPending(inflight')
              \/ UNCHANGED markers
              \/ /\ UNCHANGED <<togglePending, presetPending>>
                 /\ DOMAIN inflight' = DOMAIN inflight
                 /\ \A q \in DOMAIN inflight : /\ inflight'[q].key = inflight[q].key
                                               /\ inflight'[q].entities = inflight[q].entities
<1>0. MarkersFit(inflight, nextRequest) /\ nextRequest \in 1..MaxRequest /\ MaxRequest \in Nat
  BY RequestAssumption DEF MarkersFit, TypeOK
<1>1. CASE \E b \in Buttons : Press(b)
  BY <1>1, PressTyped
<1> SUFFICES ASSUME ~\E b \in Buttons : Press(b)
             PROVE  /\ nextRequest' = nextRequest
                    /\ \/ \E rs : inflight' = Keep(inflight, rs) /\ RefreshPending(inflight')
                       \/ UNCHANGED markers
                       \/ /\ UNCHANGED <<togglePending, presetPending>>
                          /\ \E r \in DOMAIN inflight :
                               inflight' = Confirm(inflight, r)
  <2>1. nextRequest <= nextRequest
    BY <1>0
  <2>2. ASSUME NEW rs, inflight' = Keep(inflight, rs)
        PROVE  MarkersFit(inflight', nextRequest) /\ DOMAIN inflight' \subseteq DOMAIN inflight
    BY <1>0, <2>2, KeepFits DEF Keep
  <2>3. ASSUME NEW r \in DOMAIN inflight, inflight' = Confirm(inflight, r)
        PROVE  /\ MarkersFit(inflight', nextRequest) /\ DOMAIN inflight' = DOMAIN inflight
               /\ \A q \in DOMAIN inflight : /\ inflight'[q].key = inflight[q].key
                                             /\ inflight'[q].entities = inflight[q].entities
    BY <1>0, <2>3, ConfirmFits
  <2>4. UNCHANGED markers => inflight' = inflight
    BY DEF markers
  <2> QED
    BY <1>0, <1>1, <2>1, <2>2, <2>3, <2>4
<1>2. CASE OnEvent
  <2>1. CASE OnStateChanged
    <3> DEFINE kept == Keep(inflight,
                            {r \in DOMAIN inflight : Head(events).entity \notin inflight[r].entities})
    <3>1. /\ inflight' = kept /\ UNCHANGED nextRequest
          /\ \/ RefreshPending(kept)
             \/ kept = inflight /\ UNCHANGED <<togglePending, presetPending>>
      BY <2>1 DEF OnStateChanged
    <3>2. inflight' = inflight /\ UNCHANGED <<togglePending, presetPending>> => UNCHANGED markers
      BY DEF markers
    <3> QED
      BY <3>1, <3>2
  <2>2. CASE OnResult
    BY <2>2 DEF OnResult, Confirm
  <2>3. CASE OnConnected \/ OnDisconnected \/ OnStateRemoved
    BY <2>3 DEF OnConnected, OnDisconnected, OnStateRemoved
  <2> QED
    BY <1>2, <2>1, <2>2, <2>3 DEF OnEvent
<1>3. CASE GraceEnds \/ LinkStep \/ UNCHANGED vars
  BY <1>3 DEF GraceEnds, LinkStep, vars
<1>4. ASSUME NEW r \in Requests, CallTimeout(r)
      PROVE  /\ inflight' = Keep(inflight, DOMAIN inflight \ {r}) /\ RefreshPending(inflight')
             /\ nextRequest' = nextRequest
  BY <1>4 DEF CallTimeout
<1> QED
  BY <1>2, <1>3, <1>4 DEF Next

-----------------------------------------------------------------------------
\* The contract's variables stay typed: a step is the link's, takes an event
\* or is a press.
LEMMA ChannelsTyped ==
    ASSUME TypeOK, [Next]_vars
    PROVE  ContractTypeOK'
<1>0. ContractTypeOK
  BY DEF TypeOK
<1>1. ASSUME NEW b \in Buttons, Press(b) PROVE ContractTypeOK'
  <2>1. calls' \in Seq(Requests)
    BY <1>1, PressTyped
  <2>2. UNCHANGED <<events, outstanding, up>>
    BY <1>1 DEF Press
  <2> QED
    BY <1>0, <2>1, <2>2 DEF ContractTypeOK
<1>2. CASE OnEvent
  <2>1. Take
    BY <1>2 DEF OnEvent, OnConnected, OnDisconnected, OnStateChanged, OnStateRemoved, OnResult, Takes
  <2> QED
    BY <1>0, <2>1, TakeTyped
<1>3. CASE LinkStep
  BY <1>0, <1>3, LinkTyped DEF LinkStep
<1>4. CASE GraceEnds \/ (\E r \in Requests : CallTimeout(r)) \/ UNCHANGED vars
  <2>1. UNCHANGED contractVars
    BY <1>4 DEF GraceEnds, CallTimeout, vars
  <2> QED
    BY <1>0, <2>1 DEF ContractTypeOK, contractVars
<1> QED
  BY <1>1, <1>2, <1>3, <1>4 DEF Next

\* The toasts: at most one per step, and only with a marker that goes.
LEMMA ToldSteps ==
    ASSUME TypeOK, [Next]_vars
    PROVE  \/ UNCHANGED told
           \/ \E r \in DOMAIN inflight : /\ r \in Requests /\ Toast(r)
                                         /\ DOMAIN inflight' = DOMAIN inflight \ {r}
                                         /\ UNCHANGED nextRequest
<1>1. \A r : DOMAIN Keep(inflight, DOMAIN inflight \ {r}) = DOMAIN inflight \ {r}
  BY DEF Keep
<1>2. CASE OnResult
  BY <1>1, <1>2 DEF OnResult, TypeOK
<1>3. ASSUME NEW r \in Requests, CallTimeout(r)
      PROVE  UNCHANGED told \/ /\ Toast(r) /\ r \in DOMAIN inflight
                               /\ DOMAIN inflight' = DOMAIN inflight \ {r}
                               /\ UNCHANGED nextRequest
  BY <1>1, <1>3 DEF CallTimeout
<1>4. CASE (\E b \in Buttons : Press(b)) \/ LinkStep \/ GraceEnds \/ OnConnected \/ OnDisconnected
           \/ OnStateChanged \/ OnStateRemoved \/ UNCHANGED vars
  BY <1>4 DEF Press, LinkStep, GraceEnds, OnConnected, OnDisconnected, OnStateChanged,
              OnStateRemoved, vars
<1> QED
  BY <1>2, <1>3, <1>4 DEF Next, OnEvent

\* Every step keeps the types and shows what is pending.
LEMMA TypeStep ==
    ASSUME TypeOK, PendingIsShown, [Next]_vars
    PROVE  TypeOK' /\ PendingIsShown'
<1>1. ContractTypeOK'
  BY ChannelsTyped
<1>2. MarkersFit(inflight', nextRequest') /\ nextRequest' \in 1..MaxRequest
  BY MarkerSteps
<1>3. PendingIsShown' /\ togglePending' \subseteq Toggles /\ presetPending' \in Presets \cup {NoPreset}
  <2>0. /\ togglePending \subseteq Toggles /\ presetPending \in Presets \cup {NoPreset}
    BY DEF TypeOK
  <2>1. CASE RefreshPending(inflight')
    BY <2>1, RefreshShows
  <2>2. CASE UNCHANGED markers
    <3>1. inflight' = inflight /\ togglePending' = togglePending /\ presetPending' = presetPending
      BY <2>2 DEF markers
    <3> QED
      BY <2>0, <3>1 DEF PendingIsShown
  <2>3. CASE /\ UNCHANGED <<togglePending, presetPending>>
             /\ DOMAIN inflight' = DOMAIN inflight
             /\ \A q \in DOMAIN inflight : /\ inflight'[q].key = inflight[q].key
                                           /\ inflight'[q].entities = inflight[q].entities
    <3>1. TogglesOf(inflight') = TogglesOf(inflight) /\ PresetsOf(inflight') = PresetsOf(inflight)
      BY <2>3 DEF TogglesOf, PresetsOf
    <3> QED
      BY <2>0, <2>3, <3>1 DEF PendingIsShown
  <2> QED
    BY <2>1, <2>2, <2>3, MarkerSteps
<1>4. told' \in [Requests -> Nat]
  <2>1. told \in [Requests -> Nat]
    BY DEF TypeOK
  <2>2. ASSUME NEW r \in Requests, Toast(r) PROVE told' \in [Requests -> Nat]
    <3>1. told[r] + 1 \in Nat
      BY <2>1
    <3>2. told' = [told EXCEPT ![r] = told[r] + 1]
      BY <2>2 DEF Toast
    <3> QED
      BY <2>1, <3>1, <3>2
  <2> QED
    BY <2>1, <2>2, ToldSteps
<1>5. haConnected' \in BOOLEAN /\ graceArmed' \in BOOLEAN
  <2>0. haConnected \in BOOLEAN /\ graceArmed \in BOOLEAN
    BY DEF TypeOK
  <2>1. CASE (\E b \in Buttons : Press(b)) \/ LinkStep \/ OnStateChanged \/ OnStateRemoved
             \/ OnResult \/ (\E r \in Requests : CallTimeout(r)) \/ UNCHANGED vars
    <3>1. UNCHANGED <<haConnected, graceArmed>>
      BY <2>1 DEF Press, LinkStep, OnStateChanged, OnStateRemoved, OnResult, CallTimeout, vars
    <3> QED
      BY <2>0, <3>1
  <2>2. CASE OnConnected
    BY <2>2 DEF OnConnected
  <2>3. CASE OnDisconnected
    BY <2>0, <2>3 DEF OnDisconnected
  <2>4. CASE GraceEnds
    BY <2>4 DEF GraceEnds
  <2> QED
    BY <2>1, <2>2, <2>3, <2>4 DEF Next, OnEvent
<1> QED
  BY <1>1, <1>2, <1>3, <1>4, <1>5 DEF TypeOK, MarkersFit

\* Initially nothing is pending.
LEMMA TypeInit ==
    ASSUME Init
    PROVE  TypeOK /\ PendingIsShown
<1>1. ContractTypeOK
  BY EmptySeq DEF Init, ContractInit, ContractTypeOK
<1>2. nextRequest \in 1..MaxRequest
  BY RequestAssumption DEF Init
<1>3. DOMAIN inflight = {}
  BY DEF Init
<1>4. PendingIsShown
  BY <1>3 DEF Init, PendingIsShown, TogglesOf, PresetsOf
<1>5. told \in [Requests -> Nat] /\ haConnected \in BOOLEAN /\ graceArmed \in BOOLEAN
      /\ togglePending \subseteq Toggles /\ presetPending \in Presets \cup {NoPreset}
  BY DEF Init
<1> QED
  BY <1>1, <1>2, <1>3, <1>4, <1>5 DEF TypeOK

\* Every variable has its type, the channels, the markers and the requests
\* they belong to included.
THEOREM TypeCorrect == Spec => []TypeOK
<1>1. TypeOK /\ PendingIsShown /\ [Next]_vars => (TypeOK /\ PendingIsShown)'
  BY TypeStep
<1> QED
  BY TypeInit, <1>1, PTL DEF Spec

\* What the buttons show as pending is what is pending after every press,
\* event and timer, however presets and toggles share entities.
THEOREM PendingAlwaysShown == Spec => []PendingIsShown
<1>1. TypeOK /\ PendingIsShown /\ [Next]_vars => (TypeOK /\ PendingIsShown)'
  BY TypeStep
<1> QED
  BY TypeInit, <1>1, PTL DEF Spec

-----------------------------------------------------------------------------
\* A request has its toast at most once, and none while its marker is there
\* or before it is made.
ToldOnce ==
    \A r \in Requests :
        /\ told[r] <= 1
        /\ r \in DOMAIN inflight \/ r > nextRequest => told[r] = 0

\* Every step preserves ToldOnce.
LEMMA ToldStep ==
    ASSUME TypeOK, ToldOnce, [Next]_vars
    PROVE  ToldOnce'
<1>0. /\ nextRequest \in Nat /\ nextRequest' \in Nat /\ nextRequest <= nextRequest'
      /\ \A r \in DOMAIN inflight' \ DOMAIN inflight : r > nextRequest
      /\ Requests \subseteq Nat /\ told \in [Requests -> Nat]
  <2>1. /\ nextRequest' \in 1..MaxRequest /\ nextRequest <= nextRequest'
        /\ \A r \in DOMAIN inflight' \ DOMAIN inflight : r > nextRequest
    BY MarkerSteps
  <2> QED
    BY <2>1, RequestAssumption DEF TypeOK
<1>1. CASE UNCHANGED told
  BY <1>0, <1>1 DEF ToldOnce
<1>2. ASSUME NEW r \in DOMAIN inflight, r \in Requests, Toast(r), UNCHANGED nextRequest,
             DOMAIN inflight' = DOMAIN inflight \ {r}
      PROVE  ToldOnce'
  <2>1. told[r] = 0 /\ r <= nextRequest
    BY <1>2 DEF ToldOnce, TypeOK
  <2>2. told' = [told EXCEPT ![r] = 1]
    BY <1>0, <1>2, <2>1 DEF Toast
  <2>3. told'[r] = 1 /\ \A q \in Requests \ {r} : told'[q] = told[q]
    BY <1>0, <1>2, <2>2
  <2> QED
    BY <1>0, <1>2, <2>1, <2>3 DEF ToldOnce
<1> QED
  BY <1>1, <1>2, ToldSteps

\* A press is reported as failed at most once, whichever of its result, its
\* timer, the states it causes and the loss of the link come first.
THEOREM OneToast == Spec => []OneToastPerCall
<1>1. Init => TypeOK /\ PendingIsShown /\ ToldOnce
  <2>1. Init => ToldOnce
    <3>1. Init => \A r \in Requests : told[r] = 0
      BY DEF Init
    <3>2. 0 <= 1
      OBVIOUS
    <3> QED
      BY <3>1, <3>2 DEF ToldOnce
  <2> QED
    BY <2>1, TypeInit
<1>2. TypeOK /\ PendingIsShown /\ ToldOnce /\ [Next]_vars => (TypeOK /\ PendingIsShown /\ ToldOnce)'
  BY TypeStep, ToldStep
<1>3. ToldOnce => OneToastPerCall
  BY DEF ToldOnce, OneToastPerCall
<1> QED
  BY <1>1, <1>2, <1>3, PTL DEF Spec

-----------------------------------------------------------------------------
\* The last word about the link: it is on its way to the UI, or nothing about
\* the link is and the UI has acted on it.
LinkTypes == {"Connected", "Disconnected"}
NewsOf(u) == IF u THEN "Connected" ELSE "Disconnected"
NoNews(s) == \A j \in DOMAIN s : s[j].type \notin LinkTypes
LastNews(s, u) ==
    \E i \in DOMAIN s :
        /\ s[i].type = NewsOf(u)
        /\ \A j \in DOMAIN s : j > i => s[j].type \notin LinkTypes
UpToDate == IF up THEN haConnected /\ ~graceArmed ELSE graceArmed \/ ~haConnected
NewsArrives == LastNews(events, up) \/ (NoNews(events) /\ UpToDate)

\* Sending something else does not hide the last word.
LEMMA OtherEventSent ==
    ASSUME NEW s \in Seq(ContractEvents), NEW e \in ContractEvents, e.type \notin LinkTypes, NEW u
    PROVE  /\ LastNews(s, u) => LastNews(Append(s, e), u)
           /\ NoNews(s) => NoNews(Append(s, e))
<1> DEFINE t == Append(s, e)
<1>1. /\ Len(s) \in Nat /\ DOMAIN s = 1..Len(s) /\ DOMAIN t = 1..(Len(s) + 1)
      /\ \A i \in 1..Len(s) : t[i] = s[i]
      /\ t[Len(s) + 1] = e
  BY AppendProperties, LenProperties
<1>2. \A j \in DOMAIN t : j \in DOMAIN s \/ j = Len(s) + 1
  BY <1>1
<1> HIDE DEF t
<1>3. NoNews(s) => NoNews(t)
  BY <1>1, <1>2 DEF NoNews
<1>4. ASSUME LastNews(s, u) PROVE LastNews(t, u)
  <2>1. PICK i \in DOMAIN s : /\ s[i].type = NewsOf(u)
                              /\ \A j \in DOMAIN s : j > i => s[j].type \notin LinkTypes
    BY <1>4 DEF LastNews
  <2>2. i \in DOMAIN t /\ t[i].type = NewsOf(u)
    BY <1>1, <2>1
  <2>3. \A j \in DOMAIN t : j > i => t[j].type \notin LinkTypes
    BY <1>1, <1>2, <2>1
  <2> QED
    BY <2>2, <2>3 DEF LastNews
<1> QED
  BY <1>3, <1>4 DEF t

\* Announcing a link makes the announcement the last word.
LEMMA LinkEventSent ==
    ASSUME NEW s \in Seq(ContractEvents), NEW e \in ContractEvents, NEW u, e.type = NewsOf(u)
    PROVE  LastNews(Append(s, e), u)
<1> DEFINE t == Append(s, e)
<1>1. Len(s) \in Nat /\ DOMAIN t = 1..(Len(s) + 1) /\ t[Len(s) + 1] = e
  BY AppendProperties, LenProperties
<1>2. \A j \in DOMAIN t : ~(j > Len(s) + 1)
  BY <1>1
<1>3. Len(s) + 1 \in DOMAIN t
  BY <1>1
<1> HIDE DEF t
<1>4. LastNews(t, u)
  BY <1>1, <1>2, <1>3 DEF LastNews
<1> QED
  BY <1>4 DEF t

\* Taking an event: the last word stays in the channel, or it was just taken.
LEMMA EventTaken ==
    ASSUME NEW s \in Seq(ContractEvents), s # <<>>, NEW u
    PROVE  /\ LastNews(s, u) => \/ LastNews(Tail(s), u)
                                \/ Head(s).type = NewsOf(u) /\ NoNews(Tail(s))
           /\ NoNews(s) => NoNews(Tail(s)) /\ Head(s).type \notin LinkTypes
<1> DEFINE t == Tail(s)
<1>1. /\ Len(s) \in Nat \ {0} /\ DOMAIN s = 1..Len(s) /\ DOMAIN t = 1..(Len(s) - 1)
      /\ \A i \in 1..(Len(s) - 1) : t[i] = s[i + 1]
      /\ Head(s) = s[1] /\ 1 \in DOMAIN s
  <2>1. Len(s) \in Nat \ {0} /\ DOMAIN s = 1..Len(s) /\ Head(s) = s[1]
    BY EmptySeq, LenProperties
  <2>2. t \in Seq(ContractEvents) /\ Len(t) = Len(s) - 1 /\ \A i \in 1..Len(t) : t[i] = s[i + 1]
    BY HeadTailProperties
  <2>3. DOMAIN t = 1..Len(t)
    BY <2>2, LenProperties
  <2> QED
    BY <2>1, <2>2, <2>3
<1>2. \A j \in DOMAIN t : j + 1 \in DOMAIN s /\ t[j] = s[j + 1]
  BY <1>1
<1>3. \A i \in DOMAIN s : i = 1 \/ (i - 1 \in DOMAIN t /\ t[i - 1] = s[i])
  BY <1>1
<1> HIDE DEF t
<1>4. NoNews(s) => NoNews(t) /\ Head(s).type \notin LinkTypes
  BY <1>1, <1>2 DEF NoNews
<1>5. ASSUME LastNews(s, u), ~LastNews(t, u)
      PROVE  Head(s).type = NewsOf(u) /\ NoNews(t)
  <2>1. PICK i \in DOMAIN s : /\ s[i].type = NewsOf(u)
                              /\ \A j \in DOMAIN s : j > i => s[j].type \notin LinkTypes
    BY <1>5 DEF LastNews
  <2>2. \A j \in DOMAIN t : j + 1 > i => t[j].type \notin LinkTypes
    BY <1>2, <2>1
  <2>3. i = 1
    <3>1. SUFFICES ASSUME i # 1 PROVE FALSE
      OBVIOUS
    <3>2. i - 1 \in DOMAIN t /\ t[i - 1].type = NewsOf(u)
      BY <1>3, <2>1, <3>1
    <3>3. \A j \in DOMAIN t : j > i - 1 => j + 1 > i
      BY <1>1
    <3> QED
      BY <1>5, <2>2, <3>2, <3>3 DEF LastNews
  <2>4. \A j \in DOMAIN t : j + 1 > 1
    BY <1>1
  <2> QED
    BY <1>1, <2>1, <2>2, <2>3, <2>4 DEF NoNews
<1> QED
  BY <1>4, <1>5 DEF t

\* The link's steps, as far as the dashboard is concerned.
LEMMA LinkNews ==
    ASSUME ContractTypeOK, NewsArrives, Link, UNCHANGED <<haConnected, graceArmed>>
    PROVE  NewsArrives'
<1>0. calls \in Seq(Requests) /\ events \in Seq(ContractEvents) /\ outstanding \in Seq(Requests)
  BY DEF ContractTypeOK
<1>1. ASSUME NEW e \in ContractEvents, e.type \notin LinkTypes,
             events' = Append(events, e), up' = up
      PROVE  NewsArrives'
  <2>1. LastNews(events, up) => LastNews(events', up)
    BY <1>0, <1>1, OtherEventSent
  <2>2. NoNews(events) => NoNews(events')
    BY <1>0, <1>1, OtherEventSent
  <2>3. UpToDate' = UpToDate
    BY <1>1 DEF UpToDate
  <2>4. LastNews(events', up') \/ (NoNews(events') /\ UpToDate')
    BY <1>1, <2>1, <2>2, <2>3 DEF NewsArrives
  <2> QED
    BY <2>4 DEF NewsArrives
<1>2. CASE Refuse
  <2>1. Head(calls) \in Requests
    BY <1>0, <1>2, HeadTailProperties DEF Refuse
  <2>2. /\ CallResult(Head(calls), FALSE) \in ContractEvents
        /\ CallResult(Head(calls), FALSE).type \notin LinkTypes
    BY <2>1, EventsBuilt DEF CallResult, LinkTypes
  <2> QED
    BY <1>1, <1>2, <2>2 DEF Refuse
<1>3. CASE Accept
  <2>1. events' = events /\ up' = up
    BY <1>3 DEF Accept
  <2> QED
    BY <2>1 DEF NewsArrives, UpToDate
<1>4. CASE Answer
  <2>1. PICK i \in DOMAIN outstanding, ok \in BOOLEAN :
          events' = Append(events, CallResult(outstanding[i], ok))
    BY <1>4 DEF Answer
  <2>2. outstanding[i] \in Requests
    BY <1>0, ElementOfSeq, LenProperties
  <2>3. /\ CallResult(outstanding[i], ok) \in ContractEvents
        /\ CallResult(outstanding[i], ok).type \notin LinkTypes
    BY <2>2, EventsBuilt DEF CallResult, LinkTypes
  <2> QED
    BY <1>1, <1>4, <2>1, <2>3 DEF Answer
<1>5. ASSUME NEW e \in Entities, Push(e) PROVE NewsArrives'
  <2>1. PICK event \in {StateChanged(e), StateRemoved(e)} : events' = Append(events, event)
    BY <1>5 DEF Push
  <2>2. event \in ContractEvents /\ event.type \notin LinkTypes
    <3>1. /\ StateChanged(e).type \notin LinkTypes /\ StateRemoved(e).type \notin LinkTypes
      BY DEF StateChanged, StateRemoved, LinkTypes
    <3> QED
      BY <3>1, EventsBuilt
  <2> QED
    BY <1>1, <1>5, <2>1, <2>2 DEF Push
<1>6. CASE GoUp
  <2>1. events' = Append(events, Connected) /\ up' = TRUE
    BY <1>6 DEF GoUp
  <2>2. Connected \in ContractEvents /\ Connected.type = NewsOf(TRUE)
    BY EventsBuilt DEF Connected, NewsOf
  <2>3. LastNews(events', up')
    BY <1>0, <2>1, <2>2, LinkEventSent
  <2> QED
    BY <2>3 DEF NewsArrives
<1>7. CASE GoDown
  <2>1. up' = FALSE
    BY <1>7 DEF GoDown
  <2>2. calls # <<>> => Head(calls) \in Requests
    BY <1>0, HeadTailProperties
  <2>3. PICK rs \in Seq(Requests) : events' = events \o Failures(rs) \o <<Disconnected>>
    BY <1>0, <1>7, <2>2, AppendProperties DEF GoDown
  <2>4. events \o Failures(rs) \in Seq(ContractEvents)
    BY <1>0, FailuresTyped, ConcatProperties
  <2>5. Disconnected \in ContractEvents /\ Disconnected.type = NewsOf(FALSE)
    BY EventsBuilt DEF Disconnected, NewsOf
  <2>6. events' = Append(events \o Failures(rs), Disconnected)
    BY <2>3, <2>4, <2>5, AppendIsConcat
  <2>7. LastNews(events', up')
    BY <2>1, <2>4, <2>5, <2>6, LinkEventSent
  <2> QED
    BY <2>7 DEF NewsArrives
<1> QED
  BY <1>2, <1>3, <1>4, <1>5, <1>6, <1>7 DEF Link

\* Every step preserves NewsArrives.
LEMMA NewsStep ==
    ASSUME TypeOK, NewsArrives, [Next]_vars
    PROVE  NewsArrives'
<1>0. ContractTypeOK /\ events \in Seq(ContractEvents)
  BY DEF TypeOK, ContractTypeOK
<1>1. CASE LinkStep
  BY <1>0, <1>1, LinkNews DEF LinkStep
<1>2. CASE (\E b \in Buttons : Press(b)) \/ (\E r \in Requests : CallTimeout(r)) \/ UNCHANGED vars
  <2>1. UNCHANGED <<events, up, haConnected, graceArmed>>
    BY <1>2 DEF Press, CallTimeout, vars, contractVars
  <2> QED
    BY <2>1 DEF NewsArrives, UpToDate
<1>3. CASE GraceEnds
  <2>1. UNCHANGED <<events, up>> /\ graceArmed /\ ~graceArmed' /\ ~haConnected'
    BY <1>3 DEF GraceEnds, contractVars
  <2>2. UpToDate => UpToDate'
    BY <2>1 DEF UpToDate
  <2> QED
    BY <2>1, <2>2 DEF NewsArrives
<1>4. CASE OnEvent
  <2>1. Take
    BY <1>4 DEF OnEvent, OnConnected, OnDisconnected, OnStateChanged, OnStateRemoved, OnResult, Takes
  <2>2. events # <<>> /\ events' = Tail(events) /\ up' = up
    BY <2>1 DEF Take
  <2>3. /\ LastNews(events, up) => \/ LastNews(events', up)
                                   \/ Head(events).type = NewsOf(up) /\ NoNews(events')
        /\ NoNews(events) => NoNews(events') /\ Head(events).type \notin LinkTypes
    BY <1>0, <2>2, EventTaken
  <2>4. up \in BOOLEAN /\ haConnected \in BOOLEAN /\ graceArmed \in BOOLEAN
    BY DEF TypeOK, ContractTypeOK
  <2>5. Head(events).type \notin LinkTypes => UNCHANGED <<haConnected, graceArmed>>
    BY <1>4 DEF OnEvent, OnConnected, OnDisconnected, OnStateChanged, OnStateRemoved, OnResult,
                Takes, LinkTypes
  <2>6. Head(events).type = NewsOf(up) => UpToDate'
    <3>1. CASE up
      <4>1. Head(events).type = "Connected" => haConnected' /\ ~graceArmed'
        BY <1>4 DEF OnEvent, OnConnected, OnDisconnected, OnStateChanged, OnStateRemoved, OnResult,
                    Takes
      <4> QED
        BY <2>2, <3>1, <4>1 DEF UpToDate, NewsOf
    <3>2. CASE ~up
      <4>1. Head(events).type = "Disconnected" => graceArmed'
        BY <1>4 DEF OnEvent, OnConnected, OnDisconnected, OnStateChanged, OnStateRemoved, OnResult,
                    Takes
      <4> QED
        BY <2>2, <3>2, <4>1 DEF UpToDate, NewsOf
    <3> QED
      BY <3>1, <3>2
  <2>7. Head(events).type \notin LinkTypes /\ UpToDate => UpToDate'
    BY <2>2, <2>5 DEF UpToDate
  <2> QED
    BY <2>2, <2>3, <2>6, <2>7 DEF NewsArrives
<1> QED
  BY <1>1, <1>2, <1>3, <1>4 DEF Next

\* With no event on its way and no grace period running, the dashboard is
\* shown exactly while the link is up, whatever came before.
THEOREM DashboardIsTruthful == Spec => []DashboardTellsTruth
<1>1. Init => TypeOK /\ PendingIsShown /\ NewsArrives
  <2>1. Init => NoNews(events) /\ UpToDate
    <3>1. Init => DOMAIN events = {}
      BY DEF Init, ContractInit
    <3> QED
      BY <3>1 DEF Init, ContractInit, NoNews, UpToDate
  <2> QED
    BY <2>1, TypeInit DEF NewsArrives
<1>2. TypeOK /\ PendingIsShown /\ NewsArrives /\ [Next]_vars
        => (TypeOK /\ PendingIsShown /\ NewsArrives)'
  BY TypeStep, NewsStep
<1>3. TypeOK /\ NewsArrives => DashboardTellsTruth
  <2>1. SUFFICES ASSUME TypeOK, NewsArrives, events = <<>>, ~graceArmed
                 PROVE  haConnected = up
    BY DEF DashboardTellsTruth
  <2>2. ~LastNews(events, up)
    <3>1. DOMAIN events = {}
      BY <2>1
    <3> QED
      BY <3>1 DEF LastNews
  <2>3. haConnected <=> up
    BY <2>1, <2>2 DEF NewsArrives, UpToDate
  <2>4. haConnected \in BOOLEAN /\ up \in BOOLEAN
    BY <2>1 DEF TypeOK, ContractTypeOK
  <2> QED
    BY <2>3, <2>4
<1> QED
  BY <1>1, <1>2, <1>3, PTL DEF Spec

-----------------------------------------------------------------------------
\* A marker that goes without a toast was confirmed by Home Assistant, or a
\* state of one of its entities is what cleared it.
THEOREM NoSilentEnd == Spec => SilentEndIsExplained
<1> DEFINE Explained(r) ==
        \/ told'[r] > told[r]
        \/ inflight[r].confirmed
        \/ /\ events # <<>> /\ Head(events).type = "StateChanged"
           /\ Head(events).entity \in inflight[r].entities
<1>1. ASSUME TypeOK, [Next]_vars, NEW r \in DOMAIN inflight, r \notin DOMAIN inflight'
      PROVE  Explained(r)
  <2>0. /\ told \in [Requests -> Nat] /\ r \in Requests
        /\ \A q : DOMAIN Keep(inflight, DOMAIN inflight \ {q}) = DOMAIN inflight \ {q}
    BY <1>1 DEF TypeOK, Keep
  <2>1. ASSUME Toast(r) PROVE told'[r] > told[r]
    <3>1. told[r] \in Nat /\ told'[r] = told[r] + 1
      BY <2>0, <2>1 DEF Toast
    <3> QED
      BY <3>1
  <2>2. CASE \E b \in Buttons : Press(b)
    BY <1>1, <2>2, PressTyped
  <2>3. CASE OnStateChanged
    <3>1. /\ events # <<>> /\ Head(events).type = "StateChanged"
          /\ inflight' = Keep(inflight, {q \in DOMAIN inflight :
                                          Head(events).entity \notin inflight[q].entities})
      BY <2>3 DEF OnStateChanged, Takes
    <3>2. DOMAIN inflight' = {q \in DOMAIN inflight : Head(events).entity \notin inflight[q].entities}
      BY <3>1 DEF Keep
    <3> QED
      BY <1>1, <3>1, <3>2
  <2>4. CASE OnResult
    <3>1. \/ Toast(r)
          \/ DOMAIN inflight' = DOMAIN inflight
          \/ \E q : q # r /\ DOMAIN inflight' = DOMAIN inflight \ {q}
      BY <2>0, <2>4 DEF OnResult, markers
    <3> QED
      BY <1>1, <2>1, <3>1
  <2>5. ASSUME NEW q \in Requests, CallTimeout(q) PROVE Explained(r)
    <3>1. q = r
      BY <1>1, <2>0, <2>5 DEF CallTimeout
    <3> QED
      BY <2>1, <2>5, <3>1 DEF CallTimeout
  <2>6. CASE OnConnected \/ OnDisconnected \/ OnStateRemoved \/ GraceEnds \/ LinkStep \/ UNCHANGED vars
    <3>1. inflight' = inflight
      BY <2>6 DEF OnConnected, OnDisconnected, OnStateRemoved, GraceEnds, LinkStep, vars, markers
    <3> QED
      BY <1>1, <3>1
  <2> QED
    BY <1>1, <2>2, <2>3, <2>4, <2>5, <2>6 DEF Next, OnEvent
<1>2. TypeOK /\ [Next]_vars
        => [\A r \in DOMAIN inflight \ DOMAIN inflight' : Explained(r)]_vars
  BY <1>1
<1> QED
  BY <1>2, TypeCorrect, PTL DEF Spec, SilentEndIsExplained
=============================================================================
