------------------------------- MODULE UiCalls -------------------------------
(***************************************************************************)
(* The UI thread's side of Home Assistant (src/main.rs): pressing a        *)
(* control sends service calls and leaves a pending marker for each; the   *)
(* marker goes with a state of one of its entities, a failure, or          *)
(* call_timeout_s.  The dashboard goes behind the connecting screen        *)
(* connecting_after_s after the link was lost.                             *)
(*                                                                         *)
(* The task at the other end of the two channels is whatever keeps         *)
(* HaContract.  The clock counts as synchronised; PanelPower covers what   *)
(* happens to the writes while the UI is frozen.                           *)
(***************************************************************************)
EXTENDS HaContract, FiniteSets

CONSTANTS
    Presets,       \* the preset buttons
    Toggles,       \* the toggle buttons
    EntityOf,      \* toggle -> its entity
    CallsOf,       \* button -> the entity sets of the calls it sends, in order
    NoPreset,      \* preset-pending = -1
    MaxRequest,    \* bound on the request counter
    MaxEvents      \* bound: nothing is sent to a UI that is further behind

Buttons == Presets \cup Toggles

ASSUME ButtonAssumption ==
    /\ NoPreset \notin Buttons
    /\ EntityOf \in [Toggles -> Entities]
    /\ CallsOf \in [Buttons -> Seq((SUBSET Entities) \ {{}})]
ASSUME RequestAssumption == MaxRequest \in Nat \ {0} /\ Requests = 2..MaxRequest

VARIABLES
    nextRequest,   \* St.next_request
    inflight,      \* St.inflight: request -> marker, its timer running
    haConnected,   \* St.ha_connected, so the dashboard is visible
    graceArmed,    \* disconnect_timer is running
    togglePending, \* the toggles whose `pending` property is set
    presetPending, \* the preset-pending property
    told           \* history: toasts shown for each request

markers == <<inflight, togglePending, presetPending>>
vars == <<contractVars, nextRequest, markers, haConnected, graceArmed, told>>

Init ==
    /\ ContractInit
    /\ nextRequest = 1
    /\ inflight = <<>>
    /\ haConnected = FALSE /\ graceArmed = FALSE
    /\ togglePending = {} /\ presetPending = NoPreset
    /\ told = [r \in Requests |-> 0]

-----------------------------------------------------------------------------
\* toggle_state(..).pending: a marker of the toggle, or of a preset that
\* drives its entity.
TogglesOf(inf) ==
    {t \in Toggles : \E r \in DOMAIN inf :
        inf[r].key = t \/ (inf[r].key \in Presets /\ EntityOf[t] \in inf[r].entities)}

PresetsOf(inf) == {inf[r].key : r \in DOMAIN inf} \cap Presets

\* refresh_pending, for the markers it finds.  With several presets pending,
\* the map's iteration order picks the one that is shown.
RefreshPending(inf) ==
    /\ togglePending' = TogglesOf(inf)
    /\ presetPending' \in IF PresetsOf(inf) = {} THEN {NoPreset} ELSE PresetsOf(inf)

Keep(inf, rs) == [r \in DOMAIN inf \cap rs |-> inf[r]]
Toast(r) == told' = [told EXCEPT ![r] = @ + 1]

\* preset, toggle and the fan: send for each call, in order.  The last
\* refresh_pending is the one that stays.  The channel does not refuse a call:
\* once connected, the task that reads it lives as long as the process.
\* Mutant: a press takes one request id, however many calls it sends.
PressCountsOnce(b) ==
    /\ haConnected
    /\ LET n == Len(CallsOf[b])
           new == (nextRequest + 1)..(nextRequest + n)
           inf == [r \in DOMAIN inflight \cup new |->
                     IF r \in new
                     THEN [key |-> b, entities |-> CallsOf[b][r - nextRequest], confirmed |-> FALSE]
                     ELSE inflight[r]]
       IN  /\ nextRequest + n <= MaxRequest
           /\ nextRequest' = nextRequest + 1
           /\ calls' = calls \o [i \in 1..n |-> nextRequest + i]
           /\ inflight' = inf
           /\ RefreshPending(inf)
    /\ UNCHANGED <<events, outstanding, up, haConnected, graceArmed, told>>

Press(b) ==
    /\ haConnected
    /\ LET n == Len(CallsOf[b])
           new == (nextRequest + 1)..(nextRequest + n)
           inf == [r \in DOMAIN inflight \cup new |->
                     IF r \in new
                     THEN [key |-> b, entities |-> CallsOf[b][r - nextRequest], confirmed |-> FALSE]
                     ELSE inflight[r]]
       IN  /\ nextRequest + n <= MaxRequest
           /\ nextRequest' = nextRequest + n
           /\ calls' = calls \o [i \in 1..n |-> nextRequest + i]
           /\ inflight' = inf
           /\ RefreshPending(inf)
    /\ UNCHANGED <<events, outstanding, up, haConnected, graceArmed, told>>

\* on_ha_event, by event.
Takes(type) == events # <<>> /\ Head(events).type = type /\ Take

\* Mutant: the grace timer keeps running.
OnConnectedKeepsTimer ==
    /\ Takes("Connected")
    /\ haConnected' = TRUE
    /\ UNCHANGED <<nextRequest, markers, graceArmed, told>>

OnConnected ==
    /\ Takes("Connected")
    /\ haConnected' = TRUE
    /\ graceArmed' = FALSE
    /\ UNCHANGED <<nextRequest, markers, told>>

OnDisconnected ==
    /\ Takes("Disconnected")
    /\ graceArmed' = TRUE
    /\ UNCHANGED <<nextRequest, markers, haConnected, told>>

\* disconnect_timer.
GraceEnds ==
    /\ graceArmed
    /\ graceArmed' = FALSE
    /\ haConnected' = FALSE
    /\ UNCHANGED <<contractVars, nextRequest, markers, told>>

\* A state clears every marker that waits for its entity.
OnStateChanged ==
    /\ Takes("StateChanged")
    /\ LET e == Head(events).entity
           kept == Keep(inflight, {r \in DOMAIN inflight : e \notin inflight[r].entities})
       IN  /\ inflight' = kept
           /\ IF kept # inflight THEN RefreshPending(kept)
                                 ELSE UNCHANGED <<togglePending, presetPending>>
    /\ UNCHANGED <<nextRequest, haConnected, graceArmed, told>>

\* The end of an entity clears nothing: what waits for it is left to its timer.
OnStateRemoved ==
    /\ Takes("StateRemoved")
    /\ UNCHANGED <<nextRequest, markers, haConnected, graceArmed, told>>

\* A success only confirms the marker, a failure clears it with a toast, and
\* a result nobody waits for is dropped.
\* Mutant: a failure leaves the marker to its timer.
OnResultKeepsMarker ==
    /\ Takes("CallResult")
    /\ LET r == Head(events).request
       IN  IF r \in DOMAIN inflight /\ ~Head(events).success THEN Toast(r)
           ELSE UNCHANGED told
    /\ UNCHANGED <<nextRequest, markers, haConnected, graceArmed>>

OnResult ==
    /\ Takes("CallResult")
    /\ LET r == Head(events).request
           kept == Keep(inflight, DOMAIN inflight \ {r})
       IN  \/ /\ r \in DOMAIN inflight /\ Head(events).success
              /\ inflight' = [inflight EXCEPT ![r].confirmed = TRUE]
              /\ UNCHANGED <<togglePending, presetPending, told>>
           \/ /\ r \in DOMAIN inflight /\ ~Head(events).success
              /\ inflight' = kept
              /\ RefreshPending(kept)
              /\ Toast(r)
           \/ r \notin DOMAIN inflight /\ UNCHANGED <<markers, told>>
    /\ UNCHANGED <<nextRequest, haConnected, graceArmed>>

\* call_timeout: the marker goes, with a toast unless HA had confirmed the call.
\* Mutants: the buttons are not refreshed; an unanswered call ends silently; a
\* confirmed call is left pending.
CallTimeoutUnrefreshed(r) ==
    /\ r \in DOMAIN inflight
    /\ inflight' = Keep(inflight, DOMAIN inflight \ {r})
    /\ IF inflight[r].confirmed THEN UNCHANGED told ELSE Toast(r)
    /\ UNCHANGED <<contractVars, nextRequest, togglePending, presetPending, haConnected,
                   graceArmed>>

CallTimeoutSilent(r) ==
    /\ r \in DOMAIN inflight
    /\ inflight' = Keep(inflight, DOMAIN inflight \ {r})
    /\ RefreshPending(inflight')
    /\ UNCHANGED <<contractVars, nextRequest, haConnected, graceArmed, told>>

CallTimeoutUnconfirmed(r) ==
    /\ r \in DOMAIN inflight /\ ~inflight[r].confirmed
    /\ inflight' = Keep(inflight, DOMAIN inflight \ {r})
    /\ RefreshPending(inflight')
    /\ Toast(r)
    /\ UNCHANGED <<contractVars, nextRequest, haConnected, graceArmed>>

CallTimeout(r) ==
    /\ r \in DOMAIN inflight
    /\ inflight' = Keep(inflight, DOMAIN inflight \ {r})
    /\ RefreshPending(inflight')
    /\ IF inflight[r].confirmed THEN UNCHANGED told ELSE Toast(r)
    /\ UNCHANGED <<contractVars, nextRequest, haConnected, graceArmed>>

\* The other end of the channels.
LinkStep ==
    /\ Len(events) < MaxEvents
    /\ Link
    /\ UNCHANGED <<nextRequest, markers, haConnected, graceArmed, told>>

OnEvent == OnConnected \/ OnDisconnected \/ OnStateChanged \/ OnStateRemoved \/ OnResult

Next ==
    \/ \E b \in Buttons : Press(b)
    \/ OnEvent
    \/ GraceEnds
    \/ \E r \in Requests : CallTimeout(r)
    \/ LinkStep

Spec == Init /\ [][Next]_vars

\* The Slint loop delivers what is in the channel and runs timers that are due.
Fairness ==
    /\ WF_vars(OnEvent) /\ WF_vars(GraceEnds)
    /\ \A r \in Requests : WF_vars(CallTimeout(r))

FairSpec == Spec /\ Fairness

-----------------------------------------------------------------------------
Markers == [key : Buttons, entities : SUBSET Entities, confirmed : BOOLEAN]

\* Every variable has its type.
TypeOK ==
    /\ ContractTypeOK
    /\ nextRequest \in 1..MaxRequest
    /\ DOMAIN inflight \subseteq Requests /\ \A r \in DOMAIN inflight : r <= nextRequest
    /\ \A r \in DOMAIN inflight : inflight[r] \in Markers
    /\ haConnected \in BOOLEAN /\ graceArmed \in BOOLEAN
    /\ togglePending \subseteq Toggles /\ presetPending \in Presets \cup {NoPreset}
    /\ told \in [Requests -> Nat]

\* A press is reported as failed at most once, however its result, its timer,
\* the states it causes and a lost link race each other.
OneToastPerCall == \A r \in Requests : told[r] <= 1

\* What the buttons show as pending is what is pending, after every handler and
\* with presets and toggles sharing entities.
PendingIsShown ==
    /\ togglePending = TogglesOf(inflight)
    /\ IF PresetsOf(inflight) = {} THEN presetPending = NoPreset
                                   ELSE presetPending \in PresetsOf(inflight)

\* With nothing on its way to the UI, the dashboard is shown exactly while the
\* link is up, whatever blips the grace timer has ridden out.
DashboardTellsTruth == events = <<>> /\ ~graceArmed => haConnected = up

\* A press never just disappears: a marker that goes without a toast was
\* confirmed by HA, or HA pushed a state of one of its entities.
SilentEndIsExplained ==
    [][\A r \in DOMAIN inflight \ DOMAIN inflight' :
          \/ told'[r] > told[r]
          \/ inflight[r].confirmed
          \/ /\ events # <<>> /\ Head(events).type = "StateChanged"
             /\ Head(events).entity \in inflight[r].entities]_vars

\* No button stays pending: every marker goes, also when HA never answers.
MarkersClear == \A r \in Requests : r \in DOMAIN inflight ~> r \notin DOMAIN inflight
=============================================================================
