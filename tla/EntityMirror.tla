---------------------------- MODULE EntityMirror ----------------------------
(***************************************************************************)
(* The entity stream: from the states Home Assistant holds, over the       *)
(* subscribe_entities events, to the copy each connection keeps            *)
(* (src/ha_ws.rs, on_event) and to the one the widgets are drawn from      *)
(* (src/main.rs, St.entities), which outlives every connection.            *)
(*                                                                         *)
(* The link only comes and goes here: HaSession models it.  Home Assistant *)
(* is external: it opens a subscription with the whole of what it holds,   *)
(* then sends what differs, naming an entity once per event.  Nothing ever *)
(* tells of a change made while there was no subscription.                 *)
(***************************************************************************)
EXTENDS SequencesExt

CONSTANTS
    Subscribed,    \* Config::entity_ids
    Fields,        \* "state" and the attribute names in use
    Values,        \* what they hold
    NoValue,       \* the attribute is not there
    Bodies,        \* what Home Assistant may say an entity is
    Blank,         \* EntityState::default()
    Gone,          \* there is no such entity
    MaxQueue       \* bound: no change and no connection with more frames or UI
                   \* events queued

Shapes == [Fields -> Values \cup {NoValue}]

ASSUME BodyAssumption ==
    Bodies \subseteq Shapes /\ Blank \in Shapes \ Bodies /\ Gone \notin Shapes
ASSUME SubscriptionAssumption == IsFiniteSet(Subscribed)

VARIABLES
    world,             \* what Home Assistant holds
    up,                \* there is a connection
    streaming,         \* Home Assistant has our subscription
    frames,            \* events in flight on the connection
    entities,          \* Session.entities
    snapshotPending,   \* Session.snapshot_pending
    events,            \* task -> UI
    view               \* St.entities

link == <<up, streaming, frames>>
task == <<entities, snapshotPending>>
vars == <<world, link, task, events, view>>

Worlds == [Subscribed -> Bodies \cup {Gone}]
Nothing == [e \in Subscribed |-> Gone]

StateChanged(e, body) == [type |-> "StateChanged", entity |-> e, body |-> body]
StateRemoved(e) == [type |-> "StateRemoved", entity |-> e]
ForEach(Report(_), S) == [i \in 1..Len(SetToSeq(S)) |-> Report(SetToSeq(S)[i])]

Init ==
    /\ world \in Worlds
    /\ up = FALSE /\ streaming = FALSE /\ frames = <<>>
    /\ entities = Nothing /\ snapshotPending = TRUE
    /\ events = <<>> /\ view = Nothing

-----------------------------------------------------------------------------
\* full_state: an attribute that is not given is not there.
\* Mutant: only the fields given exist.
FullStateAsGiven(given) == given

FullState(given) ==
    [f \in Fields |-> IF f \in DOMAIN given THEN given[f] ELSE NoValue]

\* apply_diff.  Mutant: what the change does not name is dropped.
ApplyDiffReplacing(body, diff) ==
    [f \in Fields |-> IF f \in DOMAIN diff.plus THEN diff.plus[f] ELSE NoValue]

ApplyDiff(body, diff) ==
    [f \in Fields |-> IF f \in diff.minus THEN NoValue
                      ELSE IF f \in DOMAIN diff.plus THEN diff.plus[f] ELSE body[f]]

\* apply_event on the copy: `a` adds or replaces, `c` merges into the entity, or
\* into an empty one, `r` removes.  Only subscribed entities are kept.
Merged(copy, event) ==
    [e \in Subscribed |->
        IF e \in event.r THEN Gone
        ELSE IF e \in DOMAIN event.a THEN FullState(event.a[e])
        ELSE IF e \in DOMAIN event.c
             THEN ApplyDiff(IF copy[e] = Gone THEN Blank ELSE copy[e], event.c[e])
        ELSE copy[e]]

\* ... and its report, entity by entity.  Mutant: removals are not reported.
ReportChanges(after, event) ==
    LET Changed(e) == StateChanged(e, after[e])
    IN  ForEach(Changed, DOMAIN event.a \cap Subscribed)
          \o ForEach(Changed, DOMAIN event.c \cap Subscribed)

Report(after, event) ==
    LET Changed(e) == StateChanged(e, after[e])
    IN  ForEach(Changed, DOMAIN event.a \cap Subscribed)
          \o ForEach(Changed, DOMAIN event.c \cap Subscribed)
          \o ForEach(StateRemoved, event.r \cap Subscribed)

\* missing_from_snapshot.  Mutant: nothing is missed.
NothingMissing(event) == <<>>

MissingFromSnapshot(event) == ForEach(StateRemoved, Subscribed \ DOMAIN event.a)

-----------------------------------------------------------------------------
\* A connection, with its fresh Session, and its end.
Connect ==
    /\ ~up /\ Len(events) <= MaxQueue
    /\ up' = TRUE
    /\ entities' = Nothing /\ snapshotPending' = TRUE
    /\ UNCHANGED <<world, streaming, frames, events, view>>

Drop ==
    /\ up
    /\ up' = FALSE /\ streaming' = FALSE /\ frames' = <<>>
    /\ UNCHANGED <<world, task, events, view>>

\* on_event: merge and report; the first `a` is the snapshot, after which every
\* subscribed entity it lacks is reported as removed.
OnEvent ==
    /\ up /\ frames # <<>>
    /\ frames' = Tail(frames)
    /\ LET event == Head(frames)
           isSnapshot == snapshotPending /\ event.full
       IN  /\ entities' = Merged(entities, event)
           /\ snapshotPending' = (snapshotPending /\ ~isSnapshot)
           /\ events' = events \o Report(entities', event)
                               \o (IF isSnapshot THEN MissingFromSnapshot(event) ELSE <<>>)
    /\ UNCHANGED <<world, up, streaming, view>>

\* on_ha_event: the entity map follows StateChanged and StateRemoved.
Taken(shown, ev) ==
    [shown EXCEPT ![ev.entity] = IF ev.type = "StateChanged" THEN ev.body ELSE Gone]

UiTakes ==
    /\ events # <<>>
    /\ events' = Tail(events)
    /\ view' = Taken(view, Head(events))
    /\ UNCHANGED <<world, link, task>>

\* The process dies and systemd starts it again.
Crash ==
    /\ up' = FALSE /\ streaming' = FALSE /\ frames' = <<>>
    /\ entities' = Nothing /\ snapshotPending' = TRUE
    /\ events' = <<>> /\ view' = Nothing
    /\ UNCHANGED world

-----------------------------------------------------------------------------
\* Home Assistant (external).  `full` records that the event has an `a` key.
Present(w) == {e \in Subscribed : w[e] # Gone}
Given(body) == [f \in {g \in Fields : body[g] # NoValue} |-> body[f]]

Snapshot(w) ==
    [full |-> TRUE, a |-> [e \in Present(w) |-> Given(w[e])], c |-> <<>>, r |-> {}]

Diff(old, new) ==
    [plus |-> [f \in {g \in DOMAIN Given(new) : old[g] # new[g]} |-> new[f]],
     minus |-> DOMAIN Given(old) \ DOMAIN Given(new)]

Difference(old, new) ==
    LET added == Present(new) \ Present(old)
        changed == {e \in Present(old) \cap Present(new) : old[e] # new[e]}
    IN  [full |-> added # {},
         a |-> [e \in added |-> Given(new[e])],
         c |-> [e \in changed |-> Diff(old[e], new[e])],
         r |-> Present(old) \ Present(new)]

HaSubscribes ==
    /\ up /\ ~streaming
    /\ streaming' = TRUE
    /\ frames' = <<Snapshot(world)>>
    /\ UNCHANGED <<world, up, task, events, view>>

HaChanges ==
    /\ Len(frames) + Len(events) <= MaxQueue
    /\ world' \in Worlds \ {world}
    /\ frames' = IF streaming THEN Append(frames, Difference(world, world')) ELSE frames
    /\ UNCHANGED <<up, streaming, task, events, view>>

Next ==
    \/ Connect \/ Drop \/ OnEvent \/ UiTakes \/ Crash
    \/ HaSubscribes \/ HaChanges

Spec == Init /\ [][Next]_vars

\* The task connects again and drains its socket, the UI drains its channel, and
\* Home Assistant answers a subscription.
Fairness == WF_vars(Connect) /\ WF_vars(HaSubscribes) /\ WF_vars(OnEvent) /\ WF_vars(UiTakes)

FairSpec == Spec /\ Fairness

-----------------------------------------------------------------------------
Frames == {Snapshot(w) : w \in Worlds} \cup {Difference(old, new) : old, new \in Worlds}
UiEvents ==
    [type : {"StateChanged"}, entity : Subscribed, body : Shapes \cup {Gone}]
        \cup [type : {"StateRemoved"}, entity : Subscribed]

\* Every variable has its type.
TypeOK ==
    /\ world \in Worlds
    /\ frames \in Seq(Frames) /\ events \in Seq(UiEvents)
    /\ entities \in [Subscribed -> Shapes \cup {Gone}]
    /\ view \in [Subscribed -> Shapes \cup {Gone}]
    /\ up \in BOOLEAN /\ streaming \in BOOLEAN /\ snapshotPending \in BOOLEAN
    /\ streaming => up

\* Nothing is missed, however changes, reconnects and deliveries interleave:
\* once everything in flight is applied, the session's copy is what Home
\* Assistant holds, and, from the snapshot on, the UI's map is that copy, also
\* for entities that vanished while nobody was listening.
NothingMissed ==
    /\ streaming => FoldLeft(Merged, entities, frames) = world
    /\ ~snapshotPending => FoldLeft(Taken, view, events) = entities

\* The panel never shows an entity half merged: what a widget is drawn from is
\* a whole state Home Assistant gave.
ShownIsWhole == \A e \in Subscribed : view[e] \in Bodies \cup {Gone}

\* What keeps the view behind.
Disturbed == Drop \/ Crash \/ HaChanges

\* Once Home Assistant and the link settle, the panel shows what it holds.
ViewConverges == <>[][~Disturbed]_vars => <>[](view = world)
=============================================================================
