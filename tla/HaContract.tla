----------------------------- MODULE HaContract -----------------------------
(***************************************************************************)
(* What the Home Assistant task promises the UI thread, with nothing of    *)
(* how it keeps the promise: a link that is up or down, the calls it has   *)
(* passed on and not yet answered, and the two channels (ServiceCall and   *)
(* HaEvent in src/types.rs).  HaSession implements it; UiCalls relies on   *)
(* it and on nothing else.                                                 *)
(***************************************************************************)
EXTENDS Naturals, Sequences

CONSTANTS Requests, Entities

VARIABLES
    calls,         \* UI -> task: requests not yet looked at
    events,        \* task -> UI
    outstanding,   \* requests passed on to Home Assistant, oldest first
    up             \* the session is Live

contractVars == <<calls, events, outstanding, up>>

Connected == [type |-> "Connected"]
Disconnected == [type |-> "Disconnected"]
CallResult(r, ok) == [type |-> "CallResult", request |-> r, success |-> ok]
StateChanged(e) == [type |-> "StateChanged", entity |-> e]
StateRemoved(e) == [type |-> "StateRemoved", entity |-> e]

Failures(rs) == [i \in DOMAIN rs |-> CallResult(rs[i], FALSE)]
Without(s, i) == SubSeq(s, 1, i - 1) \o SubSeq(s, i + 1, Len(s))

ContractInit ==
    calls = <<>> /\ events = <<>> /\ outstanding = <<>> /\ up = FALSE

\* A call is refused: the link is down, or too many calls are unanswered.
Refuse ==
    /\ calls # <<>>
    /\ calls' = Tail(calls)
    /\ events' = Append(events, CallResult(Head(calls), FALSE))
    /\ UNCHANGED <<outstanding, up>>

\* A call is passed on.
Accept ==
    /\ up /\ calls # <<>>
    /\ calls' = Tail(calls)
    /\ outstanding' = Append(outstanding, Head(calls))
    /\ UNCHANGED <<events, up>>

\* Home Assistant's answer to one of them, in any order.
Answer ==
    /\ up
    /\ \E i \in DOMAIN outstanding, ok \in BOOLEAN :
         /\ outstanding' = Without(outstanding, i)
         /\ events' = Append(events, CallResult(outstanding[i], ok))
    /\ UNCHANGED <<calls, up>>

\* A state Home Assistant pushes, or the end of an entity.
Push(e) ==
    /\ up
    /\ \E event \in {StateChanged(e), StateRemoved(e)} : events' = Append(events, event)
    /\ UNCHANGED <<calls, outstanding, up>>

GoUp ==
    /\ ~up
    /\ up' = TRUE
    /\ events' = Append(events, Connected)
    /\ UNCHANGED <<calls, outstanding>>

\* The link is lost, perhaps on sending the next call.  Every unanswered call
\* is failed before the loss is announced.
GoDown ==
    /\ up
    /\ up' = FALSE
    /\ outstanding' = <<>>
    /\ \/ /\ UNCHANGED calls
          /\ events' = events \o Failures(outstanding) \o <<Disconnected>>
       \/ /\ calls # <<>>
          /\ calls' = Tail(calls)
          /\ events' = events \o Failures(Append(outstanding, Head(calls))) \o <<Disconnected>>

Link == Refuse \/ Accept \/ Answer \/ (\E e \in Entities : Push(e)) \/ GoUp \/ GoDown

\* The UI end.
Ask(r) == calls' = Append(calls, r) /\ UNCHANGED <<events, outstanding, up>>
Take == events # <<>> /\ events' = Tail(events) /\ UNCHANGED <<calls, outstanding, up>>

ContractNext == Link \/ (\E r \in Requests : Ask(r)) \/ Take

ContractSpec == ContractInit /\ [][ContractNext]_contractVars

\* The events and requests the two channels carry.
ContractEvents ==
    [type : {"Connected", "Disconnected"}]
        \cup [type : {"CallResult"}, request : Requests, success : BOOLEAN]
        \cup [type : {"StateChanged", "StateRemoved"}, entity : Entities]

ContractTypeOK ==
    /\ calls \in Seq(Requests) /\ events \in Seq(ContractEvents)
    /\ outstanding \in Seq(Requests) /\ up \in BOOLEAN
=============================================================================
