------------------------------ MODULE HaSession ------------------------------
(***************************************************************************)
(* The Home Assistant client task (src/ha_ws.rs): one connection at a      *)
(* time, authenticated, subscribed, then a single select loop over the     *)
(* socket, the UI's service calls, the ping interval and one deadline.     *)
(* When a connection ends, the socket is closed, then every unanswered     *)
(* call is failed, the UI is told once, and the task sleeps its backoff.   *)
(*                                                                         *)
(* Home Assistant and the wire are external: frames travel in order in     *)
(* each direction, HA answers calls in any order or never, may repeat the  *)
(* result of the subscription, and refuses a token in the handshake only;  *)
(* the connection can break, and the peer can fall silent without breaking *)
(* it, until a send finds the socket buffer full and waits.  The UI end of *)
(* the two unbounded channels is reduced to "asks" and "takes"; UiCalls    *)
(* models the real UI, over HaContract.  Entity events are left to         *)
(* EntityMirror: they touch none of the state kept here.                   *)
(***************************************************************************)
EXTENDS Naturals, Sequences

CONSTANTS
    Requests,      \* ServiceCall::request values the UI will use, in order
    MaxPending,    \* MAX_PENDING_CALLS
    BackoffMin,    \* homeassistant.backoff_min_s
    BackoffMax,    \* homeassistant.backoff_max_s
    AuthRetry,     \* AUTH_RETRY
    MaxPingId,     \* bound: with a responsive peer, no ping takes a higher id
    MaxEvents      \* bound: no reconnect while the UI is further behind

ASSUME BackoffAssumption ==
    /\ BackoffMin \in Nat \ {0} /\ BackoffMax \in Nat /\ AuthRetry \in Nat
    /\ BackoffMin <= BackoffMax            \* Config::validate
ASSUME PendingAssumption == MaxPending \in Nat
ASSUME RequestAssumption == Requests \subseteq Nat

VARIABLES
    net,           \* where run() is: "connecting", "serving", "sending" (inside
                   \* serve, waiting for a send), "closing" or "sleeping"
    phase,         \* Session.phase
    nextId,        \* Session.next_id
    pending,       \* Session.pending, in the order the calls were sent
    ping,          \* Session.ping_outstanding, 0 for None
    deadline,      \* Session.deadline: "none", "handshake" or "pong"
    live,          \* Session.live_since is set
    stable,        \* ... and STABLE_SESSION ago
    rejected,      \* Session.auth_rejected
    backoff,       \* Backoff.next
    delay,         \* what the current or last sleep waits for
    calls,         \* UI -> task
    events,        \* task -> UI
    toHa, toUs,    \* frames in flight
    silent,        \* the peer is gone without a FIN
    tokenOk,       \* HA accepts HA_TOKEN; fixed until the process restarts
    haStage,       \* what HA expects next: "auth", "commands" or "closed"
    haLastId,      \* highest message id HA has seen on this connection
    haBusy,        \* calls HA is executing
    asked, got     \* the UI end: requests sent, results taken

session == <<phase, nextId, pending, ping, deadline, live, stable, rejected>>
policy == <<backoff, delay>>
peer == <<haStage, haLastId, haBusy>>
wire == <<toHa, toUs, silent>>
ui == <<asked, got>>
vars == <<net, session, policy, calls, events, wire, tokenOk, peer, ui>>

SubscribeId == 1
NoPing == 0
Phases == {"AwaitAuthRequired", "AwaitAuthOk", "AwaitSubscribed", "Live"}

Connected == [type |-> "Connected"]
Disconnected == [type |-> "Disconnected"]
CallResult(r, ok) == [type |-> "CallResult", request |-> r, success |-> ok]

Smaller(a, b) == IF a < b THEN a ELSE b
SeqSet(s) == {s[i] : i \in DOMAIN s}
Without(s, i) == SubSeq(s, 1, i - 1) \o SubSeq(s, i + 1, Len(s))

-----------------------------------------------------------------------------
\* Session::new, when run() starts an attempt.
FreshSession ==
    /\ phase' = "AwaitAuthRequired" /\ nextId' = SubscribeId
    /\ pending' = <<>> /\ ping' = NoPing /\ deadline' = "none"
    /\ live' = FALSE /\ stable' = FALSE /\ rejected' = FALSE

Init ==
    /\ net = "connecting"
    /\ phase = "AwaitAuthRequired" /\ nextId = SubscribeId
    /\ pending = <<>> /\ ping = NoPing /\ deadline = "none"
    /\ live = FALSE /\ stable = FALSE /\ rejected = FALSE
    /\ backoff = BackoffMin /\ delay = 0
    /\ calls = <<>> /\ events = <<>>
    /\ toHa = <<>> /\ toUs = <<>> /\ silent = FALSE
    /\ tokenOk \in BOOLEAN
    /\ haStage = "closed" /\ haLastId = 0 /\ haBusy = {}
    /\ asked = {} /\ got = {}

\* A frame handed to the socket.  A silent peer never sees it.
Send(frame) == toHa' = IF silent THEN toHa ELSE Append(toHa, frame)

\* What a completed send leaves alone, and a send that waits for room in the
\* buffer of a silent connection, with the whole select loop behind it.
Sent == UNCHANGED <<net, phase, live, stable, rejected, policy, events, toUs, silent, tokenOk,
                    peer, ui>>
Waits ==
    /\ silent /\ net' = "sending"
    /\ UNCHANGED <<phase, live, stable, rejected, policy, events, wire, tokenOk, peer, ui>>

\* Backoff::step.  Mutant: without the ceiling.
ClimbUncapped(from) == delay' = from /\ backoff' = 2 * from

Climb(from) == delay' = from /\ backoff' = Smaller(2 * from, BackoffMax)

\* Backoff::delay_after: a stable session starts the climb over, a rejected
\* token waits AUTH_RETRY and leaves the climb where it was.
\* Mutant: any Live session resets the climb.
DelayAfterAnyLive(auth, wasStable) ==
    IF auth THEN delay' = AuthRetry /\ UNCHANGED backoff
    ELSE Climb(IF live THEN BackoffMin ELSE backoff)

DelayAfter(auth, wasStable) ==
    IF auth THEN delay' = AuthRetry /\ UNCHANGED backoff
    ELSE Climb(IF wasStable THEN BackoffMin ELSE backoff)

\* fail_pending: a failure for every call in flight, in the order they were
\* sent.  Mutant: the table is dropped with its session.
FailPendingDrops(inFlight) == <<>>

FailPending(inFlight) ==
    [i \in DOMAIN inFlight |-> CallResult(inFlight[i].request, FALSE)]

\* The loss is announced when the session ends as SessionEnd::Live.
\* Mutant: after every attempt.
FarewellAlways(auth) == <<Disconnected>>

Farewell(auth) == IF live /\ ~auth THEN <<Disconnected>> ELSE <<>>

\* serve breaks out of its loop: the connection is given up, whatever is on it,
\* and closed.
Leave(auth) ==
    /\ net' = "closing"
    /\ rejected' = auth
    /\ toHa' = <<>> /\ toUs' = <<>> /\ silent' = FALSE
    /\ haStage' = "closed" /\ haLastId' = 0 /\ haBusy' = {}
    /\ UNCHANGED <<phase, live, stable, policy, events, tokenOk, ui>>

LeaveAsIs(auth) == Leave(auth) /\ UNCHANGED <<nextId, pending, ping, deadline>>

\* The end of connect_and_serve and of the loop body.
EndSession ==
    /\ net' = "sleeping"
    /\ events' = events \o FailPending(pending) \o Farewell(rejected)
    /\ DelayAfter(rejected, live /\ stable)
    /\ pending' = <<>>
    /\ UNCHANGED <<phase, nextId, ping, deadline, live, stable, rejected, calls, wire, tokenOk,
                   peer, ui>>

\* Session::next_id.  Mutant: the counter does not move.
NextIdStuck == UNCHANGED nextId

NextId == nextId' = nextId + 1

\* ---- connecting ----

\* connect() succeeds; serve arms the handshake deadline, HA opens with
\* auth_required.
\* Mutant: no handshake deadline.
ArmNothing == UNCHANGED deadline

ArmHandshake == deadline' = "handshake"

ConnectOk ==
    /\ net = "connecting"
    /\ net' = "serving"
    /\ ArmHandshake
    /\ toUs' = <<[type |-> "auth_required"]>>
    /\ haStage' = "auth"
    /\ UNCHANGED <<phase, nextId, pending, ping, live, stable, rejected, policy, calls,
                   events, toHa, silent, tokenOk, haLastId, haBusy, ui>>

\* TCP, TLS or the upgrade fails, or CONNECT_TIMEOUT passes.
ConnectFails == net = "connecting" /\ EndSession

\* The closing handshake is over, or CLOSE_TIMEOUT is.
Closes == net = "closing" /\ EndSession

\* The backoff has been slept; the loop builds the next session.
Wakes ==
    /\ net = "sleeping"
    /\ Len(events) <= MaxEvents
    /\ net' = "connecting"
    /\ FreshSession
    /\ UNCHANGED <<policy, calls, events, wire, tokenOk, peer, ui>>

\* connect_and_serve and sleep_rejecting answer calls with "not connected".
\* Mutant: a plain sleep.
RejectCallUnlessAsleep ==
    /\ net = "connecting"
    /\ calls # <<>>
    /\ calls' = Tail(calls)
    /\ events' = Append(events, CallResult(Head(calls), FALSE))
    /\ UNCHANGED <<net, session, policy, wire, tokenOk, peer, ui>>

RejectCall ==
    /\ net \in {"connecting", "sleeping"}
    /\ calls # <<>>
    /\ calls' = Tail(calls)
    /\ events' = Append(events, CallResult(Head(calls), FALSE))
    /\ UNCHANGED <<net, session, policy, wire, tokenOk, peer, ui>>

\* ---- serving: the select loop ----

\* on_call: refused before Live and beyond MAX_PENDING_CALLS; otherwise
\* recorded, then sent.  A failed send ends the session with the call in it.
RefuseCall ==
    /\ net = "serving" /\ calls # <<>>
    /\ phase # "Live" \/ Len(pending) >= MaxPending
    /\ calls' = Tail(calls)
    /\ events' = Append(events, CallResult(Head(calls), FALSE))
    /\ UNCHANGED <<net, session, policy, wire, tokenOk, peer, ui>>

\* Mutant: the id is taken from the size of the table.
CallIdFromTable == Len(pending) + 2

CallId == nextId

SendCall ==
    /\ net = "serving" /\ calls # <<>>
    /\ phase = "Live" /\ Len(pending) < MaxPending
    /\ calls' = Tail(calls)
    /\ NextId
    /\ pending' = Append(pending, [id |-> CallId, request |-> Head(calls)])
    /\ \/ /\ Send([type |-> "call", id |-> CallId, request |-> Head(calls)])
          /\ Sent
       \/ Leave(FALSE)
       \/ Waits
    /\ UNCHANGED <<ping, deadline>>

\* on_ping_tick: only when Live with no ping outstanding.
\* Mutant: the pong is not waited for.
ArmNoPong == UNCHANGED deadline

ArmPong == deadline' = "pong"

PingTick ==
    /\ net = "serving" /\ phase = "Live" /\ ping = NoPing
    /\ nextId <= MaxPingId \/ silent
    /\ NextId
    /\ ping' = nextId
    /\ ArmPong
    /\ (Send([type |-> "ping", id |-> nextId]) /\ Sent) \/ Waits
    /\ UNCHANGED <<pending, calls>>

\* TCP gives up on a silent peer, and with it on the send.
SendFails ==
    /\ net = "sending"
    /\ LeaveAsIs(FALSE) /\ UNCHANGED calls

\* wait_until(deadline), and any end of the socket: closed, error, failed send.
DeadlineFires ==
    /\ net = "serving"
    /\ deadline # "none"
    /\ LeaveAsIs(FALSE) /\ UNCHANGED calls

SocketEnds ==
    /\ net = "serving"
    /\ LeaveAsIs(FALSE) /\ UNCHANGED calls

\* on_frame, by frame type, for the frame at the head of the stream.
Incoming(type) == net = "serving" /\ toUs # <<>> /\ Head(toUs).type = type

OnAuthRequired ==
    /\ Incoming("auth_required")
    /\ toUs' = Tail(toUs)
    /\ IF phase = "AwaitAuthRequired"
         THEN /\ Send([type |-> "auth"])
              /\ phase' = "AwaitAuthOk" /\ deadline' = "handshake"
         ELSE UNCHANGED <<toHa, phase, deadline>>
    /\ UNCHANGED <<net, nextId, pending, ping, live, stable, rejected, policy, calls, events,
                   silent, tokenOk, peer, ui>>

OnAuthOk ==
    /\ Incoming("auth_ok")
    /\ toUs' = Tail(toUs)
    /\ IF phase = "AwaitAuthOk"
         THEN /\ NextId
              /\ Send([type |-> "subscribe", id |-> nextId])
              /\ phase' = "AwaitSubscribed" /\ deadline' = "handshake"
         ELSE UNCHANGED <<nextId, toHa, phase, deadline>>
    /\ UNCHANGED <<net, pending, ping, live, stable, rejected, policy, calls, events,
                   silent, tokenOk, peer, ui>>

OnAuthInvalid ==
    /\ Incoming("auth_invalid")
    /\ LeaveAsIs(TRUE) /\ UNCHANGED calls

\* on_subscribe_result: a failure ends the session, the first success makes it
\* Live and announces it, a duplicate is ignored.
OnSubscribeResult ==
    /\ Incoming("result") /\ Head(toUs).id = SubscribeId
    /\ \/ /\ ~Head(toUs).success
          /\ LeaveAsIs(FALSE)
       \/ /\ Head(toUs).success
          /\ toUs' = Tail(toUs)
          /\ IF phase = "Live" THEN UNCHANGED <<phase, deadline, live, events>>
             ELSE /\ phase' = "Live" /\ deadline' = "none" /\ live' = TRUE
                  /\ events' = Append(events, Connected)
          /\ UNCHANGED <<net, nextId, pending, ping, stable, rejected, policy,
                         toHa, silent, tokenOk, peer, ui>>
    /\ UNCHANGED calls

\* A call's result: forwarded when its id is pending, dropped otherwise.
OnCallResult ==
    /\ Incoming("result") /\ Head(toUs).id # SubscribeId
    /\ toUs' = Tail(toUs)
    /\ \/ \E i \in DOMAIN pending :
             /\ pending[i].id = Head(toUs).id
             /\ pending' = Without(pending, i)
             /\ events' = Append(events, CallResult(pending[i].request, Head(toUs).success))
       \/ /\ \A i \in DOMAIN pending : pending[i].id # Head(toUs).id
          /\ UNCHANGED <<pending, events>>
    /\ UNCHANGED <<net, phase, nextId, ping, deadline, live, stable, rejected, policy, calls,
                   toHa, silent, tokenOk, peer, ui>>

\* Only the pong of the outstanding ping clears the deadline.
OnPong ==
    /\ Incoming("pong")
    /\ toUs' = Tail(toUs)
    /\ IF Head(toUs).id = ping THEN ping' = NoPing /\ deadline' = "none"
                               ELSE UNCHANGED <<ping, deadline>>
    /\ UNCHANGED <<net, phase, nextId, pending, live, stable, rejected, policy, calls, events,
                   toHa, silent, tokenOk, peer, ui>>

\* STABLE_SESSION passes since Connected.
GrowsStable ==
    /\ net \in {"serving", "sending", "closing"} /\ live /\ ~stable
    /\ stable' = TRUE
    /\ UNCHANGED <<net, phase, nextId, pending, ping, deadline, live, rejected, policy, calls,
                   events, wire, tokenOk, peer, ui>>

-----------------------------------------------------------------------------
\* Home Assistant (external).  It reads frames in order and answers auth,
\* subscribe and ping at once, calls whenever they are done.
Receives(type) == net = "serving" /\ ~silent /\ toHa # <<>> /\ Head(toHa).type = type

HaAuth ==
    /\ Receives("auth") /\ haStage = "auth"
    /\ toHa' = Tail(toHa)
    /\ IF tokenOk THEN haStage' = "commands" /\ toUs' = Append(toUs, [type |-> "auth_ok"])
       ELSE haStage' = "closed" /\ toUs' = Append(toUs, [type |-> "auth_invalid"])
    /\ UNCHANGED <<net, session, policy, calls, events, silent, tokenOk, haLastId, haBusy, ui>>

HaSubscribe ==
    /\ Receives("subscribe") /\ haStage = "commands"
    /\ toHa' = Tail(toHa)
    /\ haLastId' = Head(toHa).id
    /\ \E ok \in BOOLEAN :
         toUs' = Append(toUs, [type |-> "result", id |-> Head(toHa).id, success |-> ok])
    /\ UNCHANGED <<net, session, policy, calls, events, silent, tokenOk, haStage, haBusy, ui>>

\* The result of the subscription again, not more than one at a time.
HaRepeatsResult ==
    /\ net = "serving" /\ ~silent /\ haStage = "commands" /\ haLastId >= SubscribeId
    /\ \A i \in DOMAIN toUs : toUs[i].type = "result" => toUs[i].id # SubscribeId
    /\ \E ok \in BOOLEAN :
         toUs' = Append(toUs, [type |-> "result", id |-> SubscribeId, success |-> ok])
    /\ UNCHANGED <<net, session, policy, calls, events, toHa, silent, tokenOk, peer, ui>>

HaStartsCall ==
    /\ Receives("call") /\ haStage = "commands"
    /\ toHa' = Tail(toHa)
    /\ haLastId' = Head(toHa).id
    /\ haBusy' = haBusy \cup {[id |-> Head(toHa).id, request |-> Head(toHa).request]}
    /\ UNCHANGED <<net, session, policy, calls, events, toUs, silent, tokenOk, haStage, ui>>

\* `request` is not on the wire: it records which call HA is answering.
HaAnswers ==
    /\ net = "serving" /\ ~silent
    /\ \E job \in haBusy, ok \in BOOLEAN :
         /\ toUs' = Append(toUs, [type |-> "result", id |-> job.id, success |-> ok,
                                  request |-> job.request])
         /\ haBusy' = haBusy \ {job}
    /\ UNCHANGED <<net, session, policy, calls, events, toHa, silent, tokenOk, haStage,
                   haLastId, ui>>

HaPong ==
    /\ Receives("ping") /\ haStage = "commands"
    /\ toHa' = Tail(toHa)
    /\ haLastId' = Head(toHa).id
    /\ toUs' = Append(toUs, [type |-> "pong", id |-> Head(toHa).id])
    /\ UNCHANGED <<net, session, policy, calls, events, silent, tokenOk, haStage, haBusy, ui>>

\* The host or the link vanishes: what was in flight is lost, no FIN comes.
FallsSilent ==
    /\ net = "serving" /\ ~silent
    /\ silent' = TRUE /\ toHa' = <<>> /\ toUs' = <<>>
    /\ UNCHANGED <<net, session, policy, calls, events, tokenOk, peer, ui>>

-----------------------------------------------------------------------------
\* The UI end (external here): each request is sent once, events are taken in
\* order.
UiAsks ==
    /\ \E r \in Requests \ asked :
         /\ \A q \in Requests \ asked : r <= q
         /\ asked' = asked \cup {r} /\ calls' = Append(calls, r)
    /\ UNCHANGED <<net, session, policy, events, wire, tokenOk, peer, got>>

UiTakes ==
    /\ events # <<>>
    /\ events' = Tail(events)
    /\ got' = IF Head(events).type = "CallResult" THEN got \cup {Head(events).request} ELSE got
    /\ UNCHANGED <<net, session, policy, calls, wire, tokenOk, peer, asked>>

Task ==
    \/ ConnectOk \/ ConnectFails \/ Closes \/ Wakes \/ RejectCall
    \/ RefuseCall \/ SendCall \/ PingTick \/ SendFails \/ DeadlineFires \/ SocketEnds
    \/ OnAuthRequired \/ OnAuthOk \/ OnAuthInvalid
    \/ OnSubscribeResult \/ OnCallResult \/ OnPong \/ GrowsStable

HomeAssistant ==
    \/ HaAuth \/ HaSubscribe \/ HaRepeatsResult
    \/ HaStartsCall \/ HaAnswers \/ HaPong \/ FallsSilent

Next == Task \/ HomeAssistant \/ UiAsks \/ UiTakes

Spec == Init /\ [][Next]_vars

\* tokio polls every ready branch of the select loops eventually; the timers of
\* pings and deadlines fire; TCP gives up on a send nobody acknowledges, and
\* CLOSE_TIMEOUT ends the closing handshake.  An attempt to connect and a sleep
\* may last forever, and nothing is assumed of Home Assistant, of the network
\* or of the UI.
Fairness ==
    /\ SF_vars(RejectCall \/ RefuseCall \/ SendCall)
    /\ WF_vars(PingTick) /\ WF_vars(DeadlineFires)
    /\ WF_vars(SendFails) /\ WF_vars(Closes)

FairSpec == Spec /\ Fairness

\* A sleep ends, once the UI has drained its channel.
SleepsEnd == WF_vars(Wakes) /\ WF_vars(UiTakes)

-----------------------------------------------------------------------------
Ids == Nat \ {0}
Jobs == [id : Ids, request : Requests]
FramesToHa ==
    [type : {"auth"}] \cup [type : {"subscribe", "ping"}, id : Ids]
        \cup [type : {"call"}, id : Ids, request : Requests]
FramesToUs ==
    [type : {"auth_required", "auth_ok", "auth_invalid"}] \cup [type : {"pong"}, id : Ids]
        \cup [type : {"result"}, id : Ids, success : BOOLEAN]
        \cup [type : {"result"}, id : Ids, success : BOOLEAN, request : Requests]
Events ==
    [type : {"Connected", "Disconnected"}]
        \cup [type : {"CallResult"}, request : Requests, success : BOOLEAN]

\* Every variable has its type.
TypeOK ==
    /\ net \in {"connecting", "serving", "sending", "closing", "sleeping"}
    /\ phase \in Phases
    /\ nextId \in Ids /\ ping \in Nat
    /\ deadline \in {"none", "handshake", "pong"}
    /\ live \in BOOLEAN /\ stable \in BOOLEAN /\ rejected \in BOOLEAN
    /\ pending \in Seq(Jobs)
    /\ backoff \in BackoffMin..BackoffMax
    /\ delay \in {0, AuthRetry} \cup BackoffMin..BackoffMax
    /\ calls \in Seq(Requests) /\ events \in Seq(Events)
    /\ toHa \in Seq(FramesToHa) /\ toUs \in Seq(FramesToUs)
    /\ silent \in BOOLEAN /\ tokenOk \in BOOLEAN
    /\ haStage \in {"auth", "commands", "closed"} /\ haLastId \in Nat
    /\ haBusy \subseteq Jobs
    /\ asked \subseteq Requests /\ got \subseteq Requests

\* The calls passed on to Home Assistant, and those whose result is on its way
\* to the UI.
InFlight == [i \in DOMAIN pending |-> pending[i].request]
Results(es) == {i \in DOMAIN es : es[i].type = "CallResult"}
Answered(es) == {es[i].request : i \in Results(es)}

\* A sequence, or the results in an event queue, naming no request twice.
Distinct(s) == \A i, j \in DOMAIN s : s[i] = s[j] => i = j
AnsweredOnce(es) == \A i, j \in Results(es) : es[i].request = es[j].request => i = j

\* A call the UI made is never lost and never answered twice, across any number
\* of reconnects: it is in exactly one of the call channel, the pending table,
\* the event channel and the results already taken.
NothingLost ==
    /\ asked = SeqSet(calls) \cup SeqSet(InFlight) \cup Answered(events) \cup got
    /\ Distinct(calls) /\ Distinct(InFlight) /\ AnsweredOnce(events)
    /\ SeqSet(calls) \cap SeqSet(InFlight) = {}
    /\ (SeqSet(calls) \cup SeqSet(InFlight)) \cap Answered(events) = {}
    /\ (SeqSet(calls) \cup SeqSet(InFlight) \cup Answered(events)) \cap got = {}

\* An answer is given to the call it belongs to: for every result on the wire,
\* the pending table maps its id to the call HA executed, also when HA answers
\* out of order or an earlier connection used the same id for another call.
AnswersMatch ==
    \A i \in DOMAIN toUs : \A j \in DOMAIN pending :
        toUs[i].type = "result" /\ toUs[i].id = pending[j].id
            => toUs[i].id # SubscribeId /\ toUs[i].request = pending[j].request

\* "HA answers id_reuse otherwise": the ids HA will read on a connection are
\* strictly increasing, whatever mix of subscribe, calls and pings they number.
IdsIncrease ==
    LET Numbered == {i \in DOMAIN toHa : toHa[i].type # "auth"}
    IN  /\ \A i \in Numbered : toHa[i].id > haLastId
        /\ \A i, j \in Numbered : i < j => toHa[i].id < toHa[j].id

\* No wait is unbounded: before Live the handshake deadline is armed, in Live
\* the pong deadline is armed exactly while a ping is outstanding.
EveryWaitIsBounded ==
    net = "serving" =>
        deadline = IF phase # "Live" THEN "handshake"
                   ELSE IF ping # NoPing THEN "pong" ELSE "none"

\* Home Assistant is never hammered.  Only a session that stayed Live for
\* STABLE_SESSION brings the delay down, so a link that dies right after
\* authenticating does not turn into a retry storm, and an attempt that follows
\* a rejected token has waited AUTH_RETRY, since each counts toward an IP ban.
RetriesArePaced ==
    [][/\ backoff' < backoff => live /\ stable
       /\ net = "sleeping" /\ net' = "connecting" /\ rejected => delay = AuthRetry]_vars

\* The task keeps the promise the UI is written against (HaContract): a call
\* passed on is answered once, by Home Assistant or by the end of the session,
\* and Connected / Disconnected mark exactly the Live stretches.
Contract == INSTANCE HaContract WITH
    Entities <- {},
    outstanding <- InFlight,
    up <- net \in {"serving", "sending", "closing"} /\ live
KeepsContract == Contract!ContractSpec

\* A peer that vanished is noticed: the session is dropped, by the pong or the
\* handshake deadline, or with the send it was waiting for when a full buffer
\* kept both deadlines from being looked at.
DeadLinkDropped == silent ~> ~silent

\* The task never gets stuck, be it in a handshake, a send, a close or, as long
\* as sleeps end, a sleep: again and again it starts an attempt or serves a
\* session that is Live.
KeepsTrying == SleepsEnd => []<>(net = "connecting" \/ (net = "serving" /\ phase = "Live"))

\* A call is answered or passed on without waiting for the connection, however
\* long an attempt or a sleep lasts, and a full table does not hold it back.
CallsAreTaken == \A r \in Requests : r \in SeqSet(calls) ~> r \notin SeqSet(calls)
=============================================================================
