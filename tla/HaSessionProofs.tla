--------------------------- MODULE HaSessionProofs ---------------------------
(***************************************************************************)
(* Safety of HaSession for every set of requests, table size, backoff and  *)
(* bound.                                                                  *)
(***************************************************************************)
EXTENDS HaSession, SequenceTheorems, TLAPS

\* Every frame Home Assistant can read next, or we can, is one of its kind.
LEMMA HeadsTyped ==
    ASSUME TypeOK
    PROVE  /\ toHa # <<>> => Head(toHa) \in FramesToHa /\ Tail(toHa) \in Seq(FramesToHa)
           /\ toUs # <<>> => Head(toUs) \in FramesToUs /\ Tail(toUs) \in Seq(FramesToUs)
           /\ calls # <<>> => Head(calls) \in Requests /\ Tail(calls) \in Seq(Requests)
           /\ events # <<>> => Head(events) \in Events /\ Tail(events) \in Seq(Events)
BY DEF TypeOK

\* What a frame of each type carries.
LEMMA FrameFields ==
    /\ \A f \in FramesToHa :
         /\ f.type \in {"auth", "subscribe", "ping", "call"}
         /\ f.type # "auth" => f.id \in Ids
         /\ f.type = "call" => f.request \in Requests
    /\ \A f \in FramesToUs :
         /\ f.type \in {"auth_required", "auth_ok", "auth_invalid", "pong", "result"}
         /\ f.type \in {"pong", "result"} => f.id \in Ids
         /\ f.type = "result" => f.success \in BOOLEAN
    /\ \A e \in Events : e.type = "CallResult" => e.request \in Requests
BY DEF FramesToHa, FramesToUs, Events

\* ... and the frames each side builds.
LEMMA FramesBuilt ==
    /\ [type |-> "auth"] \in FramesToHa
    /\ \A n \in Ids : /\ [type |-> "subscribe", id |-> n] \in FramesToHa
                      /\ [type |-> "ping", id |-> n] \in FramesToHa
                      /\ [type |-> "pong", id |-> n] \in FramesToUs
    /\ \A n \in Ids, r \in Requests : [type |-> "call", id |-> n, request |-> r] \in FramesToHa
    /\ \A t \in {"auth_required", "auth_ok", "auth_invalid"} : [type |-> t] \in FramesToUs
    /\ \A n \in Ids, ok \in BOOLEAN :
         [type |-> "result", id |-> n, success |-> ok] \in FramesToUs
    /\ \A n \in Ids, ok \in BOOLEAN, r \in Requests :
         [type |-> "result", id |-> n, success |-> ok, request |-> r] \in FramesToUs
    /\ Connected \in Events /\ Disconnected \in Events
    /\ \A r \in Requests, ok \in BOOLEAN : CallResult(r, ok) \in Events
BY DEF FramesToHa, FramesToUs, Events, Connected, Disconnected, CallResult

\* What Home Assistant repeats is a frame, a result with the subscription's id.
LEMMA ResultRepeated ==
    ASSUME HaRepeatsResult
    PROVE  \E f \in FramesToUs :
              toUs' = Append(toUs, f) /\ f.type = "result" /\ f.id = SubscribeId
<1>1. PICK ok \in BOOLEAN :
        toUs' = Append(toUs, [type |-> "result", id |-> SubscribeId, success |-> ok])
  BY DEF HaRepeatsResult
<1>2. [type |-> "result", id |-> SubscribeId, success |-> ok] \in FramesToUs
  <2>1. SubscribeId \in Ids
    BY DEF SubscribeId, Ids
  <2> QED
    BY <2>1, FramesBuilt
<1> QED
  BY <1>1, <1>2

\* The elements of a sequence after each way the model changes one.
LEMMA Elements ==
    ASSUME NEW S, NEW s \in Seq(S)
    PROVE  /\ SeqSet(s) \subseteq S
           /\ \A x \in S : /\ Append(s, x) \in Seq(S)
                           /\ SeqSet(Append(s, x)) = SeqSet(s) \cup {x}
           /\ s # <<>> => /\ Head(s) \in SeqSet(s)
                          /\ SeqSet(Tail(s)) \subseteq SeqSet(s)
                          /\ SeqSet(s) = SeqSet(Tail(s)) \cup {Head(s)}
<1>1. SeqSet(s) \subseteq S
  BY ElementOfSeq, LenProperties DEF SeqSet
<1>2. ASSUME NEW x \in S
      PROVE  /\ Append(s, x) \in Seq(S)
             /\ SeqSet(Append(s, x)) = SeqSet(s) \cup {x}
  BY AppendProperties DEF SeqSet
<1>3. ASSUME s # <<>>
      PROVE  /\ Head(s) \in SeqSet(s)
             /\ SeqSet(Tail(s)) \subseteq SeqSet(s)
             /\ SeqSet(s) = SeqSet(Tail(s)) \cup {Head(s)}
  <2>1. DOMAIN s = 1..Len(s) /\ Len(s) \in Nat /\ Len(s) > 0 /\ Head(s) = s[1]
    BY <1>3
  <2>2. /\ DOMAIN Tail(s) = 1..(Len(s) - 1)
        /\ \A i \in 1..(Len(s) - 1) : Tail(s)[i] = s[i + 1]
    BY <1>3, <2>1, HeadTailProperties, LenProperties
  <2>3. \A i \in DOMAIN Tail(s) : i + 1 \in DOMAIN s
    BY <2>1, <2>2
  <2>4. \A i \in DOMAIN s : i = 1 \/ (i - 1 \in DOMAIN Tail(s) /\ s[i] = Tail(s)[i - 1])
    BY <2>1, <2>2
  <2>5. SeqSet(Tail(s)) \subseteq SeqSet(s) /\ Head(s) \in SeqSet(s)
    BY <2>1, <2>2, <2>3 DEF SeqSet
  <2>6. ASSUME NEW x \in SeqSet(s) PROVE x \in SeqSet(Tail(s)) \cup {Head(s)}
    BY <2>1, <2>4, <2>6 DEF SeqSet
  <2> QED
    BY <2>5, <2>6
<1> QED
  BY <1>1, <1>2, <1>3

\* The empty sequence has no elements.
LEMMA NoElements == SeqSet(<<>>) = {}
BY DEF SeqSet

\* A function on 1..n is a sequence of length n.
LEMMA TableIsSeq ==
    ASSUME NEW S, NEW n \in Nat, NEW f \in [1..n -> S]
    PROVE  f \in Seq(S) /\ Len(f) = n
<1>1. f \in Seq(S)
  BY SeqDef
<1>2. DOMAIN f = 1..n
  OBVIOUS
<1>3. Len(f) \in Nat /\ DOMAIN f = 1..Len(f)
  BY <1>1, LenProperties
<1> QED
  BY <1>1, <1>2, <1>3

\* Without drops the i-th element and closes the gap.
LEMMA WithoutIs ==
    ASSUME NEW S, NEW s \in Seq(S), NEW i \in DOMAIN s
    PROVE  /\ Without(s, i) \in Seq(S)
           /\ Len(Without(s, i)) = Len(s) - 1
           /\ DOMAIN Without(s, i) = 1..(Len(s) - 1)
           /\ \A j \in 1..(Len(s) - 1) :
                Without(s, i)[j] = IF j < i THEN s[j] ELSE s[j + 1]
<1> DEFINE front == SubSeq(s, 1, i - 1)
           back == SubSeq(s, i + 1, Len(s))
<1>1. i \in 1..Len(s) /\ Len(s) \in Nat /\ \A j \in 1..Len(s) : s[j] \in S
  BY LenProperties, ElementOfSeq
<1>2. /\ front \in Seq(S) /\ Len(front) = i - 1
      /\ \A j \in 1..(i - 1) : front[j] = s[j]
  <2>1. i - 1 \in Int /\ \A j \in 1..(i - 1) : s[j] \in S
    BY <1>1
  <2> QED
    BY <1>1, <2>1, SubSeqProperties
<1>3. /\ back \in Seq(S) /\ Len(back) = Len(s) - i
      /\ \A j \in 1..(Len(s) - i) : back[j] = s[i + j]
  <2>1. i + 1 \in Int /\ Len(s) \in Int /\ \A j \in (i + 1)..Len(s) : s[j] \in S
    BY <1>1
  <2>2. /\ back \in Seq(S)
        /\ Len(back) = IF i + 1 <= Len(s) THEN Len(s) - (i + 1) + 1 ELSE 0
        /\ \A j \in 1..(Len(s) - (i + 1) + 1) : back[j] = s[(i + 1) + j - 1]
    BY <2>1, SubSeqProperties
  <2> QED
    BY <1>1, <2>2
<1>4. /\ Without(s, i) \in Seq(S)
      /\ Len(Without(s, i)) = Len(s) - 1
      /\ \A j \in 1..(Len(s) - 1) :
           Without(s, i)[j] = IF j <= i - 1 THEN front[j] ELSE back[j - (i - 1)]
  <2> HIDE DEF front, back
  <2>1. Without(s, i) = front \o back
    BY DEF Without, front, back
  <2>2. /\ front \o back \in Seq(S)
        /\ Len(front \o back) = Len(front) + Len(back)
        /\ \A j \in 1..(Len(front) + Len(back)) :
             (front \o back)[j] = IF j <= Len(front) THEN front[j] ELSE back[j - Len(front)]
    BY <1>2, <1>3, ConcatProperties
  <2>3. Len(front) = i - 1 /\ Len(front) + Len(back) = Len(s) - 1
    BY <1>1, <1>2, <1>3
  <2> QED
    BY <2>1, <2>2, <2>3
<1> HIDE DEF front, back
<1>5. DOMAIN Without(s, i) = 1..(Len(s) - 1)
  BY <1>4, LenProperties
<1>6. ASSUME NEW j \in 1..(Len(s) - 1)
      PROVE  Without(s, i)[j] = IF j < i THEN s[j] ELSE s[j + 1]
  <2>1. CASE j < i
    BY <1>1, <1>2, <1>4, <2>1
  <2>2. CASE ~(j < i)
    <3>1. j - (i - 1) \in 1..(Len(s) - i) /\ i + (j - (i - 1)) = j + 1 /\ ~(j <= i - 1)
      BY <1>1, <2>2
    <3> QED
      BY <1>3, <1>4, <2>2, <3>1
  <2> QED
    BY <2>1, <2>2
<1> QED
  BY <1>4, <1>5, <1>6

\* Removing an element adds none.
LEMMA WithoutElements ==
    ASSUME NEW S, NEW s \in Seq(S), NEW i \in DOMAIN s
    PROVE  SeqSet(Without(s, i)) \subseteq SeqSet(s)
<1>1. DOMAIN s = 1..Len(s) /\ Len(s) \in Nat
  BY LenProperties
<1>2. ASSUME NEW j \in DOMAIN Without(s, i) PROVE Without(s, i)[j] \in SeqSet(s)
  <2>1. j \in 1..(Len(s) - 1) /\ Without(s, i)[j] = IF j < i THEN s[j] ELSE s[j + 1]
    BY <1>2, WithoutIs
  <2>2. j \in DOMAIN s /\ j + 1 \in DOMAIN s
    BY <1>1, <2>1
  <2> QED
    BY <2>1, <2>2 DEF SeqSet
<1> QED
  BY <1>2 DEF SeqSet

\* fail_pending: one failure for each call of the table, in its order.
LEMMA FailPendingIs ==
    ASSUME NEW p \in Seq(Jobs)
    PROVE  /\ FailPending(p) \in Seq(Events)
           /\ Len(FailPending(p)) = Len(p)
           /\ \A i \in 1..Len(p) : FailPending(p)[i] = CallResult(p[i].request, FALSE)
<1>1. Len(p) \in Nat /\ DOMAIN p = 1..Len(p) /\ \A i \in 1..Len(p) : p[i] \in Jobs
  BY LenProperties, ElementOfSeq
<1>2. \A i \in 1..Len(p) : p[i].request \in Requests
  BY <1>1 DEF Jobs
<1>3. \A i \in 1..Len(p) : CallResult(p[i].request, FALSE) \in Events
  BY <1>2, FramesBuilt
<1>4. FailPending(p) = [i \in 1..Len(p) |-> CallResult(p[i].request, FALSE)]
  BY <1>1 DEF FailPending
<1>5. FailPending(p) \in [1..Len(p) -> Events]
  BY <1>3, <1>4
<1> QED
  BY <1>1, <1>4, <1>5, TableIsSeq

-----------------------------------------------------------------------------
\* The delay and the climb stay within the configured bounds.
LEMMA BackoffTyped ==
    ASSUME TypeOK, NEW auth \in BOOLEAN, NEW wasStable \in BOOLEAN,
           DelayAfter(auth, wasStable)
    PROVE  /\ backoff' \in BackoffMin..BackoffMax
           /\ delay' \in {0, AuthRetry} \cup BackoffMin..BackoffMax
           /\ backoff' < backoff => wasStable
           /\ auth => delay' = AuthRetry
<1>1. PICK from \in BackoffMin..BackoffMax :
         auth \/ (delay' = from /\ backoff' = Smaller(2 * from, BackoffMax)
                    /\ (from = backoff \/ wasStable))
  BY BackoffAssumption DEF TypeOK, DelayAfter, Climb
<1>2. BackoffMin \in Nat /\ BackoffMax \in Nat /\ backoff \in BackoffMin..BackoffMax
  BY BackoffAssumption DEF TypeOK
<1>3. CASE auth
  BY <1>2, <1>3 DEF DelayAfter
<1>4. CASE ~auth
  <2>1. delay' = from /\ backoff' = Smaller(2 * from, BackoffMax)
          /\ (from = backoff \/ wasStable)
    BY <1>1, <1>4
  <2>2. /\ Smaller(2 * from, BackoffMax) \in BackoffMin..BackoffMax
        /\ Smaller(2 * from, BackoffMax) >= from
    BY <1>2 DEF Smaller
  <2> QED
    BY <1>2, <1>4, <2>1, <2>2
<1> QED
  BY <1>3, <1>4

-----------------------------------------------------------------------------
\* One step of each kind keeps every variable in its type.
LEMMA SendTyped ==
    ASSUME TypeOK, NEW frame \in FramesToHa, Send(frame)
    PROVE  toHa' \in Seq(FramesToHa)
BY DEF TypeOK, Send

\* Leave keeps the types.
LEMMA LeaveTyped ==
    ASSUME TypeOK, NEW auth \in BOOLEAN, Leave(auth),
           nextId' \in Ids, pending' \in Seq(Jobs), ping' = ping, deadline' = deadline,
           calls' \in Seq(Requests)
    PROVE  TypeOK'
<1>1. toHa' \in Seq(FramesToHa) /\ toUs' \in Seq(FramesToUs) /\ haBusy' \subseteq Jobs
  BY DEF Leave
<1> QED
  BY <1>1 DEF TypeOK, Leave, policy, ui

\* EndSession keeps the types.
LEMMA EndSessionTyped ==
    ASSUME TypeOK, EndSession
    PROVE  TypeOK'
<1>1. Farewell(rejected) \in Seq(Events)
  BY FramesBuilt DEF Farewell
<1>2. FailPending(pending) \in Seq(Events)
  BY FailPendingIs DEF TypeOK
<1>3. events' \in Seq(Events)
  BY <1>1, <1>2 DEF EndSession, TypeOK
<1>4. /\ backoff' \in BackoffMin..BackoffMax
      /\ delay' \in {0, AuthRetry} \cup BackoffMin..BackoffMax
  <2>1. rejected \in BOOLEAN /\ (live /\ stable) \in BOOLEAN
    BY DEF TypeOK
  <2> QED
    BY <2>1, BackoffTyped DEF EndSession
<1>5. pending' \in Seq(Jobs)
  BY DEF EndSession
<1> QED
  BY <1>3, <1>4, <1>5 DEF TypeOK, EndSession, wire, peer, ui

\* Every branch of the task keeps the types.
LEMMA TaskTyped ==
    ASSUME TypeOK, Task
    PROVE  TypeOK'
<1>1. CASE ConnectOk
  BY <1>1, FramesBuilt DEF TypeOK, ConnectOk, ArmHandshake, policy, ui
<1>2. CASE ConnectFails \/ Closes
  BY <1>2, EndSessionTyped DEF ConnectFails, Closes
<1>3. CASE Wakes
  <2>1. /\ net' = "connecting" /\ phase' \in Phases /\ deadline' = "none"
        /\ live' = FALSE /\ stable' = FALSE /\ rejected' = FALSE
    BY <1>3 DEF Wakes, FreshSession, Phases
  <2>2. nextId' \in Ids /\ ping' \in Nat /\ pending' \in Seq(Jobs)
    BY <1>3 DEF Wakes, FreshSession, SubscribeId, NoPing, Ids
  <2>3. UNCHANGED <<policy, calls, events, wire, tokenOk, peer, ui>>
    BY <1>3 DEF Wakes
  <2> QED
    BY <2>1, <2>2, <2>3 DEF TypeOK, policy, wire, peer, ui
<1>4. CASE RejectCall \/ RefuseCall
  <2>1. Head(calls) \in Requests /\ calls' \in Seq(Requests)
    BY <1>4, HeadsTyped DEF RejectCall, RefuseCall
  <2>2. CallResult(Head(calls), FALSE) \in Events /\ events \in Seq(Events)
    BY <2>1, FramesBuilt DEF TypeOK
  <2>3. events' = Append(events, CallResult(Head(calls), FALSE))
    BY <1>4 DEF RejectCall, RefuseCall
  <2>5. events' \in Seq(Events)
    BY <2>2, <2>3, AppendProperties
  <2>4. UNCHANGED <<net, session, policy, wire, tokenOk, peer, ui>>
    BY <1>4 DEF RejectCall, RefuseCall
  <2> QED
    BY <2>1, <2>4, <2>5 DEF TypeOK, session, policy, wire, peer, ui
<1>5. CASE SendCall
  <2>1. nextId' \in Ids /\ CallId \in Ids
    BY <1>5 DEF TypeOK, SendCall, NextId, CallId, Ids
  <2>2. Head(calls) \in Requests /\ calls' \in Seq(Requests)
    BY <1>5, HeadsTyped DEF SendCall
  <2>3. pending' \in Seq(Jobs)
    <3>1. [id |-> CallId, request |-> Head(calls)] \in Jobs
      BY <2>1, <2>2 DEF Jobs
    <3> QED
      BY <1>5, <3>1 DEF SendCall, TypeOK
  <2>4. CASE Leave(FALSE)
    BY <1>5, <2>1, <2>2, <2>3, <2>4, LeaveTyped DEF SendCall
  <2>5. CASE Waits
    BY <1>5, <2>1, <2>2, <2>3, <2>5 DEF TypeOK, SendCall, Waits, policy, wire, peer, ui
  <2>6. CASE Send([type |-> "call", id |-> CallId, request |-> Head(calls)]) /\ Sent
    <3>1. toHa' \in Seq(FramesToHa)
      BY <2>1, <2>2, <2>6, SendTyped, FramesBuilt
    <3> QED
      BY <1>5, <2>1, <2>2, <2>3, <2>6, <3>1 DEF TypeOK, SendCall, Sent, policy, peer, ui
  <2> QED
    BY <1>5, <2>4, <2>5, <2>6 DEF SendCall
<1>6. CASE PingTick
  <2>1. nextId' \in Ids /\ ping' \in Nat /\ deadline' = "pong"
    BY <1>6 DEF TypeOK, PingTick, NextId, ArmPong, Ids
  <2>2. CASE Waits
    BY <1>6, <2>1, <2>2 DEF TypeOK, PingTick, Waits, policy, wire, peer, ui
  <2>3. CASE Send([type |-> "ping", id |-> nextId]) /\ Sent
    <3>1. toHa' \in Seq(FramesToHa)
      BY <2>3, SendTyped, FramesBuilt DEF TypeOK
    <3>2. /\ UNCHANGED <<net, phase, live, stable, rejected, policy, events, toUs, silent>>
          /\ UNCHANGED <<tokenOk, peer, ui, pending, calls>>
      BY <1>6, <2>3 DEF PingTick, Sent
    <3> QED
      BY <2>1, <3>1, <3>2 DEF TypeOK, policy, peer, ui
  <2> QED
    BY <1>6, <2>2, <2>3 DEF PingTick
<1>7. CASE SendFails \/ DeadlineFires \/ SocketEnds
  BY <1>7, LeaveTyped DEF SendFails, DeadlineFires, SocketEnds, LeaveAsIs, TypeOK
<1>8. CASE OnAuthRequired
  <2>1. toHa' \in Seq(FramesToHa)
    BY <1>8, SendTyped, FramesBuilt DEF OnAuthRequired, TypeOK
  <2> QED
    BY <1>8, <2>1 DEF TypeOK, OnAuthRequired, Incoming, Phases, policy, peer, ui
<1>9. CASE OnAuthOk
  <2>1. nextId \in Ids /\ nextId + 1 \in Ids
    BY DEF TypeOK, Ids
  <2>2. nextId' \in Ids
    BY <1>9, <2>1 DEF OnAuthOk, NextId
  <2>3. toHa' \in Seq(FramesToHa)
    <3>1. CASE Send([type |-> "subscribe", id |-> nextId])
      BY <2>1, <3>1, SendTyped, FramesBuilt
    <3>2. CASE toHa' = toHa
      BY <3>2 DEF TypeOK
    <3> QED
      BY <1>9, <3>1, <3>2 DEF OnAuthOk
  <2> QED
    BY <1>9, <2>2, <2>3 DEF TypeOK, OnAuthOk, Incoming, Phases, policy, peer, ui
<1>10. CASE OnAuthInvalid
  BY <1>10, LeaveTyped DEF OnAuthInvalid, LeaveAsIs, TypeOK
<1>11. CASE OnSubscribeResult
  <2>1. CASE LeaveAsIs(FALSE)
    BY <1>11, <2>1, LeaveTyped DEF OnSubscribeResult, LeaveAsIs, TypeOK
  <2>2. CASE Head(toUs).success /\ ~LeaveAsIs(FALSE)
    <3>1. events' \in Seq(Events)
      <4>1. events' = events \/ events' = Append(events, Connected)
        BY <1>11, <2>2 DEF OnSubscribeResult
      <4>2. events \in Seq(Events)
        BY DEF TypeOK
      <4>3. Append(events, Connected) \in Seq(Events)
        BY <4>2, FramesBuilt, Elements
      <4> QED
        BY <4>1, <4>2, <4>3
    <3>2. /\ phase' \in {phase, "Live"} /\ deadline' \in {deadline, "none"} /\ live' \in {live, TRUE}
          /\ toUs # <<>> /\ toUs' = Tail(toUs)
          /\ UNCHANGED <<net, nextId, pending, ping, stable, rejected, policy>>
          /\ UNCHANGED <<toHa, silent, tokenOk, peer, ui, calls>>
      BY <1>11, <2>2 DEF OnSubscribeResult, Incoming
    <3>3. /\ toUs' \in Seq(FramesToUs) /\ phase' \in Phases
          /\ deadline' \in {"none", "handshake", "pong"} /\ live' \in BOOLEAN
      BY <3>2, HeadsTyped DEF TypeOK, Phases
    <3>4. /\ UNCHANGED <<net, nextId, pending, ping, stable, rejected, policy>>
          /\ UNCHANGED <<toHa, silent, tokenOk, peer, ui, calls>>
      BY <3>2
    <3> QED
      BY <3>1, <3>3, <3>4 DEF TypeOK, policy, peer, ui
  <2> QED
    BY <1>11, <2>1, <2>2 DEF OnSubscribeResult
<1>12. CASE OnCallResult
  <2>1. pending' \in Seq(Jobs) /\ events' \in Seq(Events)
    <3>1. CASE UNCHANGED <<pending, events>>
      BY <3>1 DEF TypeOK
    <3>2. ASSUME NEW i \in DOMAIN pending,
                 pending' = Without(pending, i),
                 events' = Append(events, CallResult(pending[i].request, Head(toUs).success))
          PROVE  pending' \in Seq(Jobs) /\ events' \in Seq(Events)
      <4>1. pending[i].request \in Requests
        <5>1. pending \in Seq(Jobs) /\ i \in 1..Len(pending)
          BY DEF TypeOK
        <5>2. pending[i] \in Jobs
          BY <5>1, ElementOfSeq
        <5> QED
          BY <5>2 DEF Jobs
      <4>2. Head(toUs).success \in BOOLEAN
        BY <1>12, HeadsTyped, FrameFields DEF OnCallResult, Incoming
      <4> QED
        BY <3>2, <4>1, <4>2, WithoutIs, FramesBuilt DEF TypeOK
    <3> QED
      BY <1>12, <3>1, <3>2 DEF OnCallResult
  <2> QED
    BY <1>12, <2>1 DEF TypeOK, OnCallResult, Incoming, policy, peer, ui
<1>13. CASE OnPong
  BY <1>13 DEF TypeOK, OnPong, Incoming, NoPing, policy, peer, ui
<1>14. CASE GrowsStable
  BY <1>14 DEF TypeOK, GrowsStable, policy, wire, peer, ui
<1> QED
  BY <1>1, <1>2, <1>3, <1>4, <1>5, <1>6, <1>7, <1>8, <1>9, <1>10, <1>11, <1>12, <1>13, <1>14
  DEF Task

\* Whatever Home Assistant and the network do keeps the types.
LEMMA PeerTyped ==
    ASSUME TypeOK, HomeAssistant
    PROVE  TypeOK'
<1>1. CASE HaAuth
  <2>1. toHa' \in Seq(FramesToHa)
    BY <1>1, HeadsTyped DEF HaAuth, Receives
  <2>2. toUs' \in Seq(FramesToUs) /\ haStage' \in {"commands", "closed"}
    <3>1. toUs \in Seq(FramesToUs)
      BY DEF TypeOK
    <3>2. \/ toUs' = Append(toUs, [type |-> "auth_ok"]) /\ haStage' = "commands"
          \/ toUs' = Append(toUs, [type |-> "auth_invalid"]) /\ haStage' = "closed"
      BY <1>1 DEF HaAuth
    <3>3. /\ Append(toUs, [type |-> "auth_ok"]) \in Seq(FramesToUs)
          /\ Append(toUs, [type |-> "auth_invalid"]) \in Seq(FramesToUs)
      BY <3>1, AppendProperties, FramesBuilt
    <3> QED
      BY <3>2, <3>3
  <2> QED
    BY <1>1, <2>1, <2>2 DEF TypeOK, HaAuth, session, policy, ui
<1>2. CASE HaSubscribe
  <2>1. Head(toHa).id \in Ids
    BY <1>2, HeadsTyped, FrameFields DEF HaSubscribe, Receives
  <2>2. toUs' \in Seq(FramesToUs)
    BY <1>2, <2>1, FramesBuilt DEF HaSubscribe, TypeOK
  <2> QED
    BY <1>2, <2>1, <2>2 DEF TypeOK, HaSubscribe, Receives, Ids, session, policy, ui
<1>3. CASE HaStartsCall
  <2>1. Head(toHa).id \in Ids /\ Head(toHa).request \in Requests
    BY <1>3, HeadsTyped, FrameFields DEF HaStartsCall, Receives
  <2>2. haBusy' \subseteq Jobs
    BY <1>3, <2>1 DEF HaStartsCall, TypeOK, Jobs
  <2> QED
    BY <1>3, <2>1, <2>2 DEF TypeOK, HaStartsCall, Receives, Ids, session, policy, ui
<1>4. CASE HaAnswers
  <2>1. toUs' \in Seq(FramesToUs) /\ haBusy' \subseteq Jobs
    BY <1>4, FramesBuilt DEF HaAnswers, TypeOK, Jobs
  <2> QED
    BY <1>4, <2>1 DEF TypeOK, HaAnswers, session, policy, ui
<1>5. CASE HaPong
  <2>1. Head(toHa).id \in Ids
    BY <1>5, HeadsTyped, FrameFields DEF HaPong, Receives
  <2>2. toUs' \in Seq(FramesToUs)
    <3>1. toUs \in Seq(FramesToUs)
      BY DEF TypeOK
    <3> QED
      BY <1>5, <2>1, <3>1, AppendProperties, FramesBuilt DEF HaPong
  <2> QED
    BY <1>5, <2>1, <2>2 DEF TypeOK, HaPong, Receives, Ids, session, policy, ui
<1>6. CASE FallsSilent
  BY <1>6 DEF TypeOK, FallsSilent, session, policy, peer, ui
<1>7. CASE HaRepeatsResult
  <2>1. toUs' \in Seq(FramesToUs)
    <3>1. PICK f \in FramesToUs : toUs' = Append(toUs, f)
      BY <1>7, ResultRepeated
    <3>2. toUs \in Seq(FramesToUs)
      BY DEF TypeOK
    <3> QED
      BY <3>1, <3>2, AppendProperties
  <2> QED
    BY <1>7, <2>1 DEF TypeOK, HaRepeatsResult, session, policy, peer, ui
<1> QED
  BY <1>1, <1>2, <1>3, <1>4, <1>5, <1>6, <1>7 DEF HomeAssistant

\* The initial states are well typed.
LEMMA InitTyped == Init => TypeOK
<1> SUFFICES ASSUME Init PROVE TypeOK
  OBVIOUS
<1>1. /\ backoff \in BackoffMin..BackoffMax /\ delay = 0
      /\ nextId \in Ids /\ ping \in Nat /\ haLastId \in Nat
  BY BackoffAssumption DEF Init, SubscribeId, NoPing, Ids
<1>2. /\ pending \in Seq(Jobs) /\ calls \in Seq(Requests) /\ events \in Seq(Events)
      /\ toHa \in Seq(FramesToHa) /\ toUs \in Seq(FramesToUs)
  BY DEF Init
<1> QED
  BY <1>1, <1>2 DEF Init, TypeOK, Phases

\* Every step keeps the types.
LEMMA StepTyped ==
    ASSUME TypeOK, [Next]_vars
    PROVE  TypeOK'
<1>1. CASE UiAsks
  <2>1. calls' \in Seq(Requests) /\ asked' \subseteq Requests
    BY <1>1 DEF UiAsks, TypeOK
  <2> QED
    BY <1>1, <2>1 DEF TypeOK, UiAsks, session, policy, wire, peer
<1>2. CASE UiTakes
  <2>1. events' \in Seq(Events) /\ got' \subseteq Requests
    BY <1>2, HeadsTyped, FrameFields DEF UiTakes, TypeOK
  <2> QED
    BY <1>2, <2>1 DEF TypeOK, UiTakes, session, policy, wire, peer
<1>3. CASE UNCHANGED vars
  BY <1>3 DEF TypeOK, vars, session, policy, wire, peer, ui
<1> QED
  BY <1>1, <1>2, <1>3, TaskTyped, PeerTyped DEF Next

\* Every variable keeps its type: the frames of both directions, the pending
\* table and Home Assistant's jobs with an id from 1, the climb of the backoff
\* between its configured bounds.
THEOREM TypeCorrect == Spec => []TypeOK
BY InitTyped, StepTyped, PTL DEF Spec

-----------------------------------------------------------------------------
\* Where run() is says what is left of a connection, and the phase what the
\* handshake has numbered.
Lifecycle ==
    /\ net = "connecting" => phase = "AwaitAuthRequired" /\ ~rejected
    /\ net \in {"connecting", "sleeping"} => pending = <<>>
    /\ net \notin {"serving", "sending"} =>
         toHa = <<>> /\ toUs = <<>> /\ haBusy = {} /\ haLastId = 0
    /\ net \in {"serving", "sending"} => ~rejected
    /\ live <=> phase = "Live"
    /\ pending # <<>> => live
    /\ rejected => ~live
    /\ ~live => ping = NoPing
    /\ nextId = SubscribeId <=> phase \in {"AwaitAuthRequired", "AwaitAuthOk"}
    /\ net = "sleeping" /\ rejected => delay = AuthRetry

\* Until Home Assistant has accepted the token it sends nothing a session gets
\* beyond AwaitAuthOk with, it executes nothing, and it refuses a token only then.
Handshake ==
    /\ net = "serving" /\ haStage # "commands" =>
         /\ phase \in {"AwaitAuthRequired", "AwaitAuthOk"}
         /\ \A f \in SeqSet(toUs) : f.type \in {"auth_required", "auth_invalid"}
    /\ haBusy # {} => haStage = "commands"
    /\ \A f \in SeqSet(toUs) : f.type = "auth_invalid" => haStage = "closed"

\* Every id in flight was handed out by next_id on this connection.
Numbered ==
    /\ haLastId < nextId
    /\ \A f \in SeqSet(toHa) : f.type # "auth" => f.id < nextId
    /\ \A job \in haBusy : job.id < nextId
    /\ \A f \in SeqSet(toUs) : f.type \in {"pong", "result"} => f.id < nextId
    /\ \A e \in SeqSet(pending) : e.id < nextId

\* Every step preserves Handshake.
LEMMA HandshakeStep ==
    ASSUME TypeOK, Lifecycle, Handshake, [Next]_vars
    PROVE  Handshake'
<1> USE NoElements DEF Handshake
<1>0. /\ toUs \in Seq(FramesToUs)
      /\ toUs # <<>> => /\ Head(toUs) \in SeqSet(toUs)
                        /\ SeqSet(Tail(toUs)) \subseteq SeqSet(toUs)
      /\ \A f \in FramesToUs : SeqSet(Append(toUs, f)) = SeqSet(toUs) \cup {f}
  <2>1. toUs \in Seq(FramesToUs)
    BY DEF TypeOK
  <2> QED
    BY <2>1, Elements
<1>1. CASE ConnectOk
  <2>1. SeqSet(toUs') = {[type |-> "auth_required"]}
    BY <1>1 DEF ConnectOk, SeqSet
  <2> QED
    BY <1>1, <2>1 DEF ConnectOk, Lifecycle
<1>2. CASE ConnectFails \/ Closes
  BY <1>2 DEF ConnectFails, Closes, EndSession, wire, peer
<1>3. CASE Wakes
  BY <1>3 DEF Wakes, wire, peer
<1>4. CASE RejectCall \/ RefuseCall
  BY <1>4 DEF RejectCall, RefuseCall, session, wire, peer
<1>5. ASSUME NEW auth, Leave(auth) PROVE Handshake'
  BY <1>5 DEF Leave
<1>6. CASE SendCall \/ PingTick
  BY <1>5, <1>6 DEF SendCall, PingTick, Sent, Waits, wire, peer
<1>7. CASE SendFails \/ DeadlineFires \/ SocketEnds \/ OnAuthInvalid
  BY <1>5, <1>7 DEF SendFails, DeadlineFires, SocketEnds, OnAuthInvalid, LeaveAsIs
<1>8. CASE OnAuthRequired
  BY <1>0, <1>8 DEF OnAuthRequired, Incoming, peer
<1>9. CASE OnAuthOk
  BY <1>0, <1>9 DEF OnAuthOk, Incoming, peer
<1>10. CASE OnSubscribeResult
  BY <1>0, <1>5, <1>10 DEF OnSubscribeResult, LeaveAsIs, Incoming, peer
<1>11. CASE OnCallResult \/ OnPong
  BY <1>0, <1>11 DEF OnCallResult, OnPong, Incoming, peer
<1>12. CASE GrowsStable
  BY <1>12 DEF GrowsStable, wire, peer
<1>13. CASE HaAuth
  <2>1. PICK f \in FramesToUs :
           /\ toUs' = Append(toUs, f)
           /\ \/ f.type = "auth_ok" /\ haStage' = "commands"
              \/ f.type = "auth_invalid" /\ haStage' = "closed"
    BY <1>13, FramesBuilt DEF HaAuth
  <2>2. /\ haStage = "auth" /\ net = "serving"
        /\ net' = net /\ phase' = phase /\ haBusy' = haBusy
    BY <1>13 DEF HaAuth, Receives, session
  <2> QED
    BY <1>0, <2>1, <2>2
<1>14. CASE HaSubscribe \/ HaRepeatsResult \/ HaPong \/ HaAnswers
  <2>1. PICK f \in FramesToUs : toUs' = Append(toUs, f) /\ f.type \in {"result", "pong"}
    <3>3. CASE HaSubscribe
      <4>1. Head(toHa).id \in Ids
        BY <3>3, HeadsTyped, FrameFields DEF HaSubscribe, Receives
      <4> QED
        BY <3>3, <4>1, FramesBuilt DEF HaSubscribe
    <3>4. CASE HaPong
      <4>1. Head(toHa).id \in Ids
        BY <3>4, HeadsTyped, FrameFields DEF HaPong, Receives
      <4> QED
        BY <3>4, <4>1, FramesBuilt DEF HaPong
    <3>5. CASE HaAnswers
      <4>1. \A job \in haBusy : job.id \in Ids /\ job.request \in Requests
        BY DEF TypeOK, Jobs
      <4> QED
        BY <3>5, <4>1, FramesBuilt DEF HaAnswers
    <3>6. CASE HaRepeatsResult
      BY <3>6, ResultRepeated
    <3> QED
      BY <1>14, <3>3, <3>4, <3>5, <3>6
  <2>2. /\ haStage = "commands" /\ haStage' = haStage /\ net' = net /\ phase' = phase
        /\ haBusy' \subseteq haBusy
    BY <1>14 DEF HaSubscribe, HaRepeatsResult, HaPong, HaAnswers, session, peer
  <2> QED
    BY <1>0, <1>14, <2>1, <2>2
<1>15. CASE HaStartsCall
  BY <1>15 DEF HaStartsCall, session
<1>16. CASE FallsSilent
  BY <1>16 DEF FallsSilent, session, peer
<1>17. CASE UiAsks \/ UiTakes
  BY <1>17 DEF UiAsks, UiTakes, session, wire, peer
<1>18. CASE UNCHANGED vars
  BY <1>18 DEF vars, session, wire, peer
<1> QED
  BY <1>1, <1>2, <1>3, <1>4, <1>6, <1>7, <1>8, <1>9, <1>10, <1>11, <1>12, <1>13, <1>14, <1>15,
     <1>16, <1>17, <1>18 DEF Next, Task, HomeAssistant

\* Leave clears the connection; what it is given up for is a rejected token only
\* when the session was not Live.
LEMMA LeaveLifecycle ==
    ASSUME Lifecycle, NEW auth \in BOOLEAN, auth => ~live,
           Leave(auth), net \in {"serving", "sending"}, ping' = ping,
           nextId' = nextId /\ pending' = pending
    PROVE  Lifecycle'
BY DEF Lifecycle, Leave

\* Every step preserves Lifecycle.
LEMMA LifecycleStep ==
    ASSUME TypeOK, Lifecycle, Handshake, Numbered, [Next]_vars
    PROVE  Lifecycle'
<1> USE DEF Lifecycle
<1>1. CASE ConnectOk
  BY <1>1 DEF ConnectOk
<1>2. CASE ConnectFails \/ Closes
  <2>1. rejected => delay' = AuthRetry
    <3>1. rejected \in BOOLEAN /\ (live /\ stable) \in BOOLEAN
      BY DEF TypeOK
    <3> QED
      BY <1>2, <3>1, BackoffTyped DEF ConnectFails, Closes, EndSession
  <2> QED
    BY <1>2, <2>1 DEF ConnectFails, Closes, EndSession, wire, peer
<1>3. CASE Wakes
  BY <1>3 DEF Wakes, FreshSession, wire, peer
<1>4. CASE RejectCall \/ RefuseCall
  <2>1. UNCHANGED <<net, session, policy, wire, peer>>
    BY <1>4 DEF RejectCall, RefuseCall
  <2> QED
    BY <2>1 DEF session, policy, wire, peer
<1>5. CASE SendCall
  <2>1. /\ net = "serving" /\ phase = "Live" /\ live /\ ~rejected
        /\ nextId' = nextId + 1 /\ nextId' # SubscribeId
        /\ ping' = ping
    BY <1>5 DEF SendCall, NextId, SubscribeId, TypeOK, Ids
  <2>2. CASE Leave(FALSE)
    BY <2>1, <2>2 DEF Leave
  <2>3. CASE Waits \/ Sent
    <3>1. /\ net' \in {"serving", "sending"}
          /\ UNCHANGED <<phase, live, rejected>>
      BY <2>1, <2>3 DEF Waits, Sent
    <3> QED
      BY <2>1, <3>1
  <2> QED
    BY <1>5, <2>2, <2>3 DEF SendCall
<1>6. CASE PingTick
  <2>1. /\ net = "serving" /\ phase = "Live" /\ live /\ ~rejected
        /\ nextId' = nextId + 1 /\ nextId' # SubscribeId
        /\ pending' = pending
    BY <1>6 DEF PingTick, NextId, SubscribeId, TypeOK, Ids
  <2>2. /\ net' \in {"serving", "sending"}
        /\ UNCHANGED <<phase, live, rejected>>
    BY <1>6, <2>1 DEF PingTick, Waits, Sent
  <2> QED
    BY <2>1, <2>2
<1>7. CASE SendFails \/ DeadlineFires \/ SocketEnds
  BY <1>7, LeaveLifecycle DEF SendFails, DeadlineFires, SocketEnds, LeaveAsIs
<1>8. CASE OnAuthRequired
  BY <1>8 DEF OnAuthRequired, Incoming, policy, peer
<1>9. CASE OnAuthOk
  <2>1. nextId + 1 # SubscribeId
    BY DEF TypeOK, Ids, SubscribeId
  <2> QED
    BY <1>9, <2>1 DEF OnAuthOk, Incoming, NextId, policy, peer
<1>10. CASE OnAuthInvalid
  <2>1. Head(toUs) \in SeqSet(toUs) /\ Head(toUs).type = "auth_invalid" /\ net = "serving"
    BY <1>10, Elements DEF OnAuthInvalid, Incoming, TypeOK
  <2>2. haStage = "closed" /\ ~live
    BY <2>1 DEF Handshake
  <2> QED
    BY <1>10, <2>1, <2>2, LeaveLifecycle DEF OnAuthInvalid, LeaveAsIs
<1>11. CASE OnSubscribeResult
  <2>1. net = "serving" /\ phase \notin {"AwaitAuthRequired", "AwaitAuthOk"}
    <3>1. Head(toUs) \in SeqSet(toUs) /\ Head(toUs).type = "result" /\ net = "serving"
      BY <1>11, Elements DEF OnSubscribeResult, Incoming, TypeOK
    <3>2. SubscribeId < nextId /\ nextId \in Nat
      BY <1>11, <3>1 DEF Numbered, OnSubscribeResult, TypeOK, Ids
    <3> QED
      BY <3>1, <3>2 DEF SubscribeId
  <2>2. CASE LeaveAsIs(FALSE)
    BY <2>1, <2>2, LeaveLifecycle DEF LeaveAsIs
  <2>3. CASE ~LeaveAsIs(FALSE)
    <3>1. UNCHANGED <<net, nextId, pending, ping, rejected>>
      BY <1>11, <2>3 DEF OnSubscribeResult
    <3>2. phase' = "Live" /\ live'
      BY <1>11, <2>3 DEF OnSubscribeResult
    <3> QED
      BY <2>1, <3>1, <3>2
  <2> QED
    BY <2>2, <2>3
<1>12. CASE OnCallResult
  <2>1. pending' # <<>> => pending # <<>>
    BY <1>12, NoElements DEF OnCallResult
  <2> QED
    BY <1>12, <2>1 DEF OnCallResult, Incoming, policy, peer
<1>13. CASE OnPong
  BY <1>13 DEF OnPong, Incoming, NoPing, policy, peer
<1>14. CASE GrowsStable
  BY <1>14 DEF GrowsStable, policy, wire, peer
<1>15. CASE HomeAssistant
  BY <1>15 DEF HomeAssistant, HaAuth, HaSubscribe, HaRepeatsResult, HaStartsCall, HaAnswers, HaPong,
     FallsSilent, Receives, session, policy, peer
<1>16. CASE UiAsks \/ UiTakes
  BY <1>16 DEF UiAsks, UiTakes, session, policy, wire, peer
<1>17. CASE UNCHANGED vars
  BY <1>17 DEF vars, session, policy, wire, peer
<1> QED
  BY <1>1, <1>2, <1>3, <1>4, <1>5, <1>6, <1>7, <1>8, <1>9, <1>10, <1>11, <1>12, <1>13, <1>14,
     <1>15, <1>16, <1>17 DEF Next, Task

-----------------------------------------------------------------------------
\* Every step preserves Numbered.
LEMMA NumberedStep ==
    ASSUME TypeOK, Lifecycle, Numbered, [Next]_vars
    PROVE  Numbered'
<1> USE NoElements DEF Numbered
<1>0. /\ nextId \in Nat /\ nextId > 0 /\ haLastId \in Nat
      /\ \A f \in SeqSet(toHa) : f.type # "auth" => f.id \in Nat
      /\ \A job \in haBusy : job.id \in Nat
      /\ \A f \in SeqSet(toUs) : f.type \in {"pong", "result"} => f.id \in Nat
      /\ \A e \in SeqSet(pending) : e.id \in Nat
  <2>1. /\ SeqSet(toHa) \subseteq FramesToHa /\ SeqSet(toUs) \subseteq FramesToUs
        /\ SeqSet(pending) \subseteq Jobs
    BY Elements DEF TypeOK
  <2> QED
    BY <2>1, FrameFields DEF TypeOK, Ids, Jobs
<1>1. /\ toUs # <<>> => /\ Head(toUs) \in SeqSet(toUs)
                        /\ SeqSet(Tail(toUs)) \subseteq SeqSet(toUs)
      /\ toHa # <<>> => /\ Head(toHa) \in SeqSet(toHa)
                        /\ SeqSet(Tail(toHa)) \subseteq SeqSet(toHa)
      /\ \A f \in FramesToUs : SeqSet(Append(toUs, f)) = SeqSet(toUs) \cup {f}
      /\ \A f \in FramesToHa : SeqSet(Append(toHa, f)) = SeqSet(toHa) \cup {f}
      /\ \A e \in Jobs : SeqSet(Append(pending, e)) = SeqSet(pending) \cup {e}
  BY Elements DEF TypeOK
\* Nothing new is in flight, and the counter has not gone back.
<1>2. ASSUME nextId' \in Nat, nextId' >= nextId, haLastId' = haLastId \/ haLastId' = 0,
             SeqSet(toHa') \subseteq SeqSet(toHa), SeqSet(toUs') \subseteq SeqSet(toUs),
             haBusy' \subseteq haBusy, SeqSet(pending') \subseteq SeqSet(pending)
      PROVE  Numbered'
  BY <1>0, <1>2
<1>3. CASE ConnectOk
  <2>1. SeqSet(toUs') = {[type |-> "auth_required"]}
    BY <1>3 DEF ConnectOk, SeqSet
  <2> QED
    BY <1>0, <1>3, <2>1 DEF ConnectOk
<1>4. CASE ConnectFails \/ Closes
  BY <1>0, <1>2, <1>4 DEF ConnectFails, Closes, EndSession, wire, peer
<1>5. CASE Wakes
  BY <1>5 DEF Wakes, FreshSession, SubscribeId, Lifecycle, wire, peer
<1>6. CASE RejectCall \/ RefuseCall
  BY <1>0, <1>2, <1>6 DEF RejectCall, RefuseCall, session, wire, peer
<1>7. ASSUME NEW auth, LeaveAsIs(auth)
      PROVE  Numbered'
  BY <1>0, <1>2, <1>7 DEF LeaveAsIs, Leave
<1>8. CASE SendCall
  <2>1. nextId' = nextId + 1 /\ Head(calls) \in Requests /\ nextId \in Ids
    BY <1>8, HeadsTyped DEF SendCall, NextId, TypeOK
  <2>2. SeqSet(pending') = SeqSet(pending) \cup {[id |-> nextId, request |-> Head(calls)]}
    BY <1>1, <1>8, <2>1 DEF SendCall, CallId, Jobs
  <2>3. CASE Leave(FALSE)
    BY <1>0, <2>1, <2>2, <2>3 DEF Leave
  <2>4. CASE Waits
    BY <1>0, <2>1, <2>2, <2>4 DEF Waits, wire, peer
  <2>5. CASE Send([type |-> "call", id |-> CallId, request |-> Head(calls)]) /\ Sent
    <3>1. SeqSet(toHa') \subseteq SeqSet(toHa) \cup
            {[type |-> "call", id |-> nextId, request |-> Head(calls)]}
      BY <1>1, <2>1, <2>5, FramesBuilt DEF Send, CallId
    <3> QED
      BY <1>0, <2>1, <2>2, <2>5, <3>1 DEF Sent, peer
  <2> QED
    BY <1>8, <2>3, <2>4, <2>5 DEF SendCall
<1>9. CASE PingTick
  <2>1. nextId' = nextId + 1 /\ nextId \in Ids /\ pending' = pending
    BY <1>9 DEF PingTick, NextId, TypeOK
  <2>2. CASE Waits
    BY <1>0, <2>1, <2>2 DEF Waits, wire, peer
  <2>3. CASE Send([type |-> "ping", id |-> nextId]) /\ Sent
    <3>1. SeqSet(toHa') \subseteq SeqSet(toHa) \cup {[type |-> "ping", id |-> nextId]}
      BY <1>1, <2>1, <2>3, FramesBuilt DEF Send
    <3> QED
      BY <1>0, <2>1, <2>3, <3>1 DEF Sent, peer
  <2> QED
    BY <1>9, <2>2, <2>3 DEF PingTick
<1>10. CASE SendFails \/ DeadlineFires \/ SocketEnds \/ OnAuthInvalid
  BY <1>7, <1>10 DEF SendFails, DeadlineFires, SocketEnds, OnAuthInvalid
<1>11. CASE OnAuthRequired
  <2>1. SeqSet(toHa') \subseteq SeqSet(toHa) \cup {[type |-> "auth"]}
    BY <1>1, <1>11, FramesBuilt DEF OnAuthRequired, Send
  <2> QED
    BY <1>0, <1>1, <1>11, <2>1 DEF OnAuthRequired, Incoming, peer
<1>12. CASE OnAuthOk
  <2>1. nextId \in Ids /\ nextId' \in Nat /\ nextId' >= nextId
    BY <1>0, <1>12 DEF OnAuthOk, NextId, TypeOK
  <2>2. \A f \in SeqSet(toHa') : f.type # "auth" => f.id < nextId'
    <3>1. CASE toHa' = toHa
      BY <1>0, <2>1, <3>1
    <3>2. CASE NextId /\ Send([type |-> "subscribe", id |-> nextId])
      <4>1. SeqSet(toHa') \subseteq SeqSet(toHa) \cup {[type |-> "subscribe", id |-> nextId]}
        BY <1>1, <2>1, <3>2, FramesBuilt DEF Send
      <4>2. nextId' = nextId + 1
        BY <3>2 DEF NextId
      <4> QED
        BY <1>0, <4>1, <4>2
    <3> QED
      BY <1>12, <3>1, <3>2 DEF OnAuthOk
  <2>3. /\ SeqSet(toUs') \subseteq SeqSet(toUs)
        /\ UNCHANGED <<pending, haLastId, haBusy>>
    BY <1>1, <1>12 DEF OnAuthOk, Incoming, peer
  <2> QED
    BY <1>0, <2>1, <2>2, <2>3
<1>13. CASE OnSubscribeResult
  <2>1. CASE LeaveAsIs(FALSE)
    BY <1>7, <2>1
  <2>2. CASE ~LeaveAsIs(FALSE)
    <3>1. /\ toUs # <<>> /\ toUs' = Tail(toUs)
          /\ UNCHANGED <<nextId, pending, toHa, haLastId, haBusy>>
      BY <1>13, <2>2 DEF OnSubscribeResult, Incoming, peer
    <3> QED
      BY <1>0, <1>1, <1>2, <3>1
  <2> QED
    BY <2>1, <2>2
<1>14. CASE OnCallResult
  <2>1. SeqSet(pending') \subseteq SeqSet(pending)
    <3>1. ASSUME NEW i \in DOMAIN pending, pending' = Without(pending, i)
          PROVE  SeqSet(pending') \subseteq SeqSet(pending)
      <4>1. pending \in Seq(Jobs)
        BY DEF TypeOK
      <4> QED
        BY <3>1, <4>1, WithoutElements
    <3> QED
      BY <1>14, <3>1 DEF OnCallResult
  <2> QED
    BY <1>0, <1>1, <1>2, <1>14, <2>1 DEF OnCallResult, Incoming, peer
<1>15. CASE OnPong
  BY <1>0, <1>1, <1>2, <1>15 DEF OnPong, Incoming, peer
<1>16. CASE GrowsStable
  BY <1>0, <1>2, <1>16 DEF GrowsStable, wire, peer
<1>17. CASE HaAuth
  <2>1. /\ SeqSet(toUs') \subseteq SeqSet(toUs) \cup {[type |-> "auth_ok"], [type |-> "auth_invalid"]}
        /\ SeqSet(toHa') \subseteq SeqSet(toHa)
    <3>1. \/ toUs' = Append(toUs, [type |-> "auth_ok"])
          \/ toUs' = Append(toUs, [type |-> "auth_invalid"])
      BY <1>17 DEF HaAuth
    <3>2. toHa # <<>> /\ toHa' = Tail(toHa)
      BY <1>17 DEF HaAuth, Receives
    <3>3. /\ SeqSet(Append(toUs, [type |-> "auth_ok"])) = SeqSet(toUs) \cup {[type |-> "auth_ok"]}
          /\ SeqSet(Append(toUs, [type |-> "auth_invalid"]))
               = SeqSet(toUs) \cup {[type |-> "auth_invalid"]}
      BY <1>1, FramesBuilt
    <3> QED
      BY <1>1, <3>1, <3>2, <3>3
  <2> QED
    BY <1>0, <1>17, <2>1 DEF HaAuth, session
<1>18. CASE HaSubscribe \/ HaStartsCall \/ HaPong
  <2>1. /\ SeqSet(toHa') \subseteq SeqSet(toHa)
        /\ Head(toHa).id \in Ids /\ Head(toHa).id < nextId /\ haLastId' = Head(toHa).id
        /\ UNCHANGED <<nextId, pending>>
    <3>1. Head(toHa) \in SeqSet(toHa) /\ toHa # <<>> /\ toHa' = Tail(toHa)
            /\ Head(toHa).type # "auth"
      BY <1>1, <1>18 DEF HaSubscribe, HaStartsCall, HaPong, Receives
    <3>2. Head(toHa) \in FramesToHa
      BY <3>1, HeadsTyped
    <3> QED
      BY <1>1, <1>18, <3>1, <3>2, FrameFields DEF HaSubscribe, HaStartsCall, HaPong, session
  <2>2. \A job \in haBusy' : job.id \in Nat /\ job.id < nextId
    <3>1. haBusy' \subseteq haBusy
            \cup {[id |-> Head(toHa).id, request |-> Head(toHa).request]}
      BY <1>18 DEF HaSubscribe, HaStartsCall, HaPong
    <3> QED
      BY <1>0, <2>1, <3>1 DEF Ids
  <2>3. \A f \in SeqSet(toUs') : f.type \in {"pong", "result"} => f.id < nextId
    <3>1. CASE HaSubscribe
      <4>1. PICK ok \in BOOLEAN :
              toUs' = Append(toUs, [type |-> "result", id |-> Head(toHa).id, success |-> ok])
        BY <3>1 DEF HaSubscribe
      <4> QED
        BY <1>1, <2>1, <4>1, FramesBuilt
    <3>2. CASE HaPong
      <4>1. toUs' = Append(toUs, [type |-> "pong", id |-> Head(toHa).id])
        BY <3>2 DEF HaPong
      <4>2. [type |-> "pong", id |-> Head(toHa).id] \in FramesToUs
        BY <2>1, FramesBuilt
      <4>3. SeqSet(toUs') = SeqSet(toUs) \cup {[type |-> "pong", id |-> Head(toHa).id]}
        BY <1>1, <4>1, <4>2
      <4> QED
        BY <2>1, <4>3
    <3>3. CASE HaStartsCall
      BY <3>3 DEF HaStartsCall
    <3> QED
      BY <1>18, <3>1, <3>2, <3>3
  <2> QED
    BY <1>0, <2>1, <2>2, <2>3
<1>19. CASE HaAnswers
  <2>1. PICK job \in haBusy, ok \in BOOLEAN :
          /\ toUs' = Append(toUs, [type |-> "result", id |-> job.id, success |-> ok,
                                   request |-> job.request])
          /\ haBusy' = haBusy \ {job}
    BY <1>19 DEF HaAnswers
  <2>2. job.id \in Ids /\ job.request \in Requests
    BY DEF TypeOK, Jobs
  <2>3. SeqSet(toUs') = SeqSet(toUs) \cup
          {[type |-> "result", id |-> job.id, success |-> ok, request |-> job.request]}
    BY <1>1, <2>1, <2>2, FramesBuilt
  <2> QED
    BY <1>0, <1>19, <2>1, <2>3 DEF HaAnswers, session
<1>20. CASE HaRepeatsResult
  <2>1. PICK f \in FramesToUs : toUs' = Append(toUs, f) /\ f.id = SubscribeId
    BY <1>20, ResultRepeated
  <2>2. SeqSet(toUs') = SeqSet(toUs) \cup {f}
    BY <1>1, <2>1
  <2>3. SubscribeId < nextId
    BY <1>0, <1>20 DEF HaRepeatsResult, SubscribeId
  <2> QED
    BY <1>0, <1>20, <2>1, <2>2, <2>3 DEF HaRepeatsResult, session, peer
<1>21. CASE FallsSilent
  BY <1>0, <1>2, <1>21 DEF FallsSilent, session, peer
<1>22. CASE UiAsks \/ UiTakes \/ UNCHANGED vars
  BY <1>0, <1>2, <1>22 DEF UiAsks, UiTakes, vars, session, wire, peer
<1> QED
  BY <1>3, <1>4, <1>5, <1>6, <1>8, <1>9, <1>10, <1>11, <1>12, <1>13, <1>14, <1>15, <1>16, <1>17,
     <1>18, <1>19, <1>21, <1>22, <1>20 DEF Next, Task, HomeAssistant

-----------------------------------------------------------------------------
\* The deadline of the select loop follows the phase and the ping.
LEMMA DeadlineStep ==
    ASSUME TypeOK, Lifecycle, Numbered, EveryWaitIsBounded, [Next]_vars
    PROVE  EveryWaitIsBounded'
<1> USE DEF EveryWaitIsBounded
<1>1. CASE ConnectOk
  BY <1>1 DEF ConnectOk, ArmHandshake, Lifecycle
<1>2. CASE ConnectFails \/ Closes \/ Wakes
  BY <1>2 DEF ConnectFails, Closes, EndSession, Wakes
<1>3. CASE RejectCall \/ RefuseCall
  <2>1. UNCHANGED <<net, session>>
    BY <1>3 DEF RejectCall, RefuseCall
  <2> QED
    BY <2>1 DEF session
<1>4. CASE SendCall
  BY <1>4 DEF SendCall, Leave, Waits, Sent
<1>5. CASE PingTick
  <2>1. ping' # NoPing /\ deadline' = "pong" /\ phase' = "Live"
    BY <1>5 DEF PingTick, ArmPong, NoPing, Waits, Sent, TypeOK, Ids
  <2> QED
    BY <2>1
<1>6. CASE SendFails \/ DeadlineFires \/ SocketEnds \/ OnAuthInvalid
  BY <1>6 DEF SendFails, DeadlineFires, SocketEnds, OnAuthInvalid, LeaveAsIs, Leave
<1>7. CASE OnAuthRequired
  BY <1>7 DEF OnAuthRequired, Incoming
<1>8. CASE OnAuthOk
  BY <1>8 DEF OnAuthOk, Incoming
<1>9. CASE OnSubscribeResult
  <2>1. CASE LeaveAsIs(FALSE)
    BY <2>1 DEF LeaveAsIs, Leave
  <2>2. CASE ~LeaveAsIs(FALSE)
    BY <1>9, <2>2 DEF OnSubscribeResult, Lifecycle
  <2> QED
    BY <2>1, <2>2
<1>10. CASE OnCallResult
  BY <1>10 DEF OnCallResult
<1>11. CASE OnPong
  <2>1. Head(toUs) \in FramesToUs /\ Head(toUs).type = "pong"
    BY <1>11, HeadsTyped DEF OnPong, Incoming
  <2>2. Head(toUs).id # NoPing
    BY <2>1, FrameFields DEF Ids, NoPing
  <2>3. CASE Head(toUs).id = ping
    BY <1>11, <2>2, <2>3 DEF OnPong, Lifecycle
  <2>4. CASE Head(toUs).id # ping
    BY <1>11, <2>4 DEF OnPong
  <2> QED
    BY <2>3, <2>4
<1>12. CASE GrowsStable
  BY <1>12 DEF GrowsStable
<1>13. CASE HomeAssistant
  <2>1. UNCHANGED <<net, session>>
    BY <1>13 DEF HomeAssistant, HaAuth, HaSubscribe, HaRepeatsResult, HaStartsCall, HaAnswers, HaPong,
       FallsSilent
  <2> QED
    BY <2>1 DEF session
<1>14. CASE UiAsks \/ UiTakes \/ UNCHANGED vars
  <2>1. UNCHANGED <<net, session>>
    BY <1>14 DEF UiAsks, UiTakes, vars
  <2> QED
    BY <2>1 DEF session
<1> QED
  BY <1>1, <1>2, <1>3, <1>4, <1>5, <1>6, <1>7, <1>8, <1>9, <1>10, <1>11, <1>12, <1>13, <1>14
  DEF Next, Task

-----------------------------------------------------------------------------
\* A frame numbered with next_id goes behind all those already queued.
LEMMA IdsAppended ==
    ASSUME TypeOK, Numbered, IdsIncrease, NEW f \in FramesToHa,
           f.type = "auth" \/ f.id = nextId,
           Send(f), haLastId' = haLastId
    PROVE  IdsIncrease'
<1>1. CASE toHa' = toHa
  BY <1>1 DEF IdsIncrease
<1>2. CASE toHa' = Append(toHa, f)
  <2>1. /\ toHa \in Seq(FramesToHa) /\ Len(toHa) \in Nat /\ DOMAIN toHa = 1..Len(toHa)
        /\ DOMAIN toHa' = 1..(Len(toHa) + 1)
        /\ \A i \in 1..Len(toHa) : toHa'[i] = toHa[i]
        /\ toHa'[Len(toHa) + 1] = f
    BY <1>2, AppendProperties, LenProperties DEF TypeOK
  <2>2. \A i \in DOMAIN toHa :
          toHa[i].type # "auth" => toHa[i].id < nextId /\ toHa[i].id \in Nat
    <3>1. \A i \in DOMAIN toHa : toHa[i] \in SeqSet(toHa)
      BY DEF SeqSet
    <3>2. SeqSet(toHa) \subseteq FramesToHa
      BY <2>1, Elements
    <3> QED
      BY <3>1, <3>2, FrameFields DEF Numbered, Ids
  <2>3. haLastId < nextId /\ nextId \in Nat /\ haLastId \in Nat
    BY DEF Numbered, TypeOK, Ids
  <2>4. ASSUME NEW i \in DOMAIN toHa', toHa'[i].type # "auth"
        PROVE  toHa'[i].id > haLastId
    <3>1. CASE i \in DOMAIN toHa
      BY <2>1, <2>4, <3>1 DEF IdsIncrease
    <3>2. CASE i = Len(toHa) + 1
      BY <2>1, <2>3, <2>4, <3>2
    <3> QED
      BY <2>1, <3>1, <3>2
  <2>5. ASSUME NEW i \in DOMAIN toHa', NEW j \in DOMAIN toHa', i < j,
               toHa'[i].type # "auth", toHa'[j].type # "auth"
        PROVE  toHa'[i].id < toHa'[j].id
    <3>1. i \in DOMAIN toHa /\ toHa'[i] = toHa[i]
      BY <2>1, <2>5
    <3>2. CASE j \in DOMAIN toHa
      BY <2>1, <2>5, <3>1, <3>2 DEF IdsIncrease
    <3>3. CASE j = Len(toHa) + 1
      BY <2>1, <2>2, <2>5, <3>1, <3>3
    <3> QED
      BY <2>1, <3>2, <3>3
  <2> QED
    BY <2>4, <2>5 DEF IdsIncrease
<1> QED
  BY <1>1, <1>2 DEF Send

\* Home Assistant reads the frame at the head.
LEMMA IdsRead ==
    ASSUME TypeOK, IdsIncrease, toHa # <<>>, toHa' = Tail(toHa),
           haLastId' = IF Head(toHa).type = "auth" THEN haLastId ELSE Head(toHa).id
    PROVE  IdsIncrease'
<1>1. /\ toHa \in Seq(FramesToHa) /\ Len(toHa) \in Nat /\ DOMAIN toHa = 1..Len(toHa)
      /\ Len(toHa) > 0 /\ Head(toHa) = toHa[1]
  BY DEF TypeOK
<1>2. /\ DOMAIN toHa' = 1..(Len(toHa) - 1)
      /\ \A i \in 1..(Len(toHa) - 1) : toHa'[i] = toHa[i + 1]
  BY <1>1, HeadTailProperties, LenProperties
<1>3. ASSUME NEW i \in DOMAIN toHa', toHa'[i].type # "auth"
      PROVE  toHa'[i].id > haLastId'
  <2>1. i + 1 \in DOMAIN toHa /\ 1 \in DOMAIN toHa /\ 1 < i + 1 /\ toHa'[i] = toHa[i + 1]
    BY <1>1, <1>2
  <2>2. \A a, b \in DOMAIN toHa :
          toHa[a].type # "auth" /\ toHa[b].type # "auth" /\ a < b => toHa[a].id < toHa[b].id
    BY DEF IdsIncrease
  <2>3. toHa[i + 1].id > haLastId
    BY <1>3, <2>1 DEF IdsIncrease
  <2>4. \A a \in DOMAIN toHa : toHa[a].type # "auth" => toHa[a].id \in Nat
    BY <1>1, ElementOfSeq, FrameFields DEF Ids
  <2>5. CASE toHa[1].type # "auth"
    <3>1. toHa[1].id < toHa[i + 1].id
      BY <1>3, <2>1, <2>2, <2>5
    <3> QED
      BY <1>1, <1>3, <2>1, <2>4, <2>5, <3>1
  <2> QED
    BY <1>1, <2>1, <2>3, <2>5
<1>4. ASSUME NEW i \in DOMAIN toHa', NEW j \in DOMAIN toHa', i < j,
             toHa'[i].type # "auth", toHa'[j].type # "auth"
      PROVE  toHa'[i].id < toHa'[j].id
  <2>1. /\ i + 1 \in DOMAIN toHa /\ j + 1 \in DOMAIN toHa /\ i + 1 < j + 1
        /\ toHa'[i] = toHa[i + 1] /\ toHa'[j] = toHa[j + 1]
    BY <1>1, <1>2, <1>4
  <2> QED
    BY <1>4, <2>1 DEF IdsIncrease
<1> QED
  BY <1>3, <1>4 DEF IdsIncrease

\* Every step preserves IdsIncrease.
LEMMA IdsStep ==
    ASSUME TypeOK, Lifecycle, Numbered, IdsIncrease, [Next]_vars
    PROVE  IdsIncrease'
<1>0. nextId \in Ids
  BY DEF TypeOK
<1>1. ASSUME toHa' = toHa, haLastId' = haLastId PROVE IdsIncrease'
  BY <1>1 DEF IdsIncrease
<1>2. ASSUME toHa' = <<>> PROVE IdsIncrease'
  BY <1>2 DEF IdsIncrease
<1>3. CASE ConnectOk \/ ConnectFails \/ Closes \/ Wakes \/ RejectCall \/ RefuseCall \/ GrowsStable
  BY <1>1, <1>3 DEF ConnectOk, ConnectFails, Closes, EndSession, Wakes, RejectCall, RefuseCall,
     GrowsStable, wire, peer
<1>4. CASE SendFails \/ DeadlineFires \/ SocketEnds \/ OnAuthInvalid
  BY <1>2, <1>4 DEF SendFails, DeadlineFires, SocketEnds, OnAuthInvalid, LeaveAsIs, Leave
<1>5. CASE SendCall
  <2>1. CASE Leave(FALSE) \/ Waits
    BY <1>1, <1>2, <2>1 DEF Leave, Waits, wire, peer
  <2>2. CASE Send([type |-> "call", id |-> CallId, request |-> Head(calls)]) /\ Sent
    <3>1. Head(calls) \in Requests
      BY <1>5, HeadsTyped DEF SendCall
    <3>2. [type |-> "call", id |-> nextId, request |-> Head(calls)] \in FramesToHa
      BY <1>0, <3>1, FramesBuilt
    <3> QED
      BY <2>2, <3>2, IdsAppended DEF CallId, Sent, peer
  <2> QED
    BY <1>5, <2>1, <2>2 DEF SendCall
<1>6. CASE PingTick
  <2>1. CASE Waits
    BY <1>1, <2>1 DEF Waits, wire, peer
  <2>2. CASE Send([type |-> "ping", id |-> nextId]) /\ Sent
    BY <1>0, <2>2, FramesBuilt, IdsAppended DEF Sent, peer
  <2> QED
    BY <1>6, <2>1, <2>2 DEF PingTick
<1>7. CASE OnAuthRequired
  <2>1. haLastId' = haLastId
    BY <1>7 DEF OnAuthRequired, peer
  <2> QED
    BY <1>1, <1>7, <2>1, FramesBuilt, IdsAppended DEF OnAuthRequired
<1>8. CASE OnAuthOk
  <2>1. haLastId' = haLastId
    BY <1>8 DEF OnAuthOk, peer
  <2> QED
    BY <1>0, <1>1, <1>8, <2>1, FramesBuilt, IdsAppended DEF OnAuthOk
<1>9. CASE OnSubscribeResult
  BY <1>1, <1>2, <1>9 DEF OnSubscribeResult, LeaveAsIs, Leave, peer
<1>10. CASE OnCallResult \/ OnPong
  BY <1>1, <1>10 DEF OnCallResult, OnPong, peer
<1>11. CASE HaAuth \/ HaSubscribe \/ HaStartsCall \/ HaPong
  BY <1>11, IdsRead DEF HaAuth, HaSubscribe, HaStartsCall, HaPong, Receives
<1>12. CASE HaRepeatsResult \/ HaAnswers \/ FallsSilent
  BY <1>1, <1>2, <1>12 DEF HaRepeatsResult, HaAnswers, FallsSilent, peer
<1>13. CASE UiAsks \/ UiTakes \/ UNCHANGED vars
  BY <1>1, <1>13 DEF UiAsks, UiTakes, vars, wire, peer
<1> QED
  BY <1>3, <1>4, <1>5, <1>6, <1>7, <1>8, <1>9, <1>10, <1>11, <1>12, <1>13
  DEF Next, Task, HomeAssistant

-----------------------------------------------------------------------------
\* Wherever a call's id travels, to Home Assistant, in its jobs or back in a
\* result, the pending table has it for that call or not at all.
Belongs(f) ==
    /\ f.id > SubscribeId
    /\ \A e \in SeqSet(pending) : e.id = f.id => e.request = f.request

Matched ==
    /\ \A e \in SeqSet(pending) : e.id > SubscribeId
    /\ \A f \in SeqSet(toHa) : /\ f.type = "subscribe" => f.id = SubscribeId
                               /\ f.type = "call" => Belongs(f)
    /\ \A job \in haBusy : Belongs(job)
    /\ \A f \in SeqSet(toUs) : f.type = "result" /\ f.id # SubscribeId => Belongs(f)

\* Matched ids mean matched requests.
LEMMA MatchedIsEnough ==
    ASSUME TypeOK, Matched
    PROVE  AnswersMatch
<1> SUFFICES ASSUME NEW i \in DOMAIN toUs, NEW j \in DOMAIN pending,
                    toUs[i].type = "result", toUs[i].id = pending[j].id
             PROVE  toUs[i].id # SubscribeId /\ toUs[i].request = pending[j].request
  BY DEF AnswersMatch
<1>1. toUs[i] \in SeqSet(toUs) /\ pending[j] \in SeqSet(pending)
  BY DEF SeqSet
<1>2. toUs[i].id > SubscribeId /\ toUs[i].id \in Nat
  <2>1. SeqSet(toUs) \subseteq FramesToUs
    BY Elements DEF TypeOK
  <2> QED
    BY <1>1, <2>1, FrameFields DEF Matched, Ids
<1> QED
  BY <1>1, <1>2 DEF Matched, Belongs, SubscribeId

\* What belongs keeps belonging while the table loses entries, or gains one
\* under an id that is not in flight.
LEMMA MatchedStep ==
    ASSUME TypeOK, Lifecycle, Numbered, Matched, [Next]_vars
    PROVE  Matched'
<1> USE NoElements
<1>0. /\ nextId \in Ids /\ nextId \in Nat
      /\ SeqSet(toHa) \subseteq FramesToHa /\ SeqSet(toUs) \subseteq FramesToUs
      /\ SeqSet(pending) \subseteq Jobs
  BY Elements DEF TypeOK, Ids
<1>1. /\ toUs # <<>> => /\ Head(toUs) \in SeqSet(toUs)
                        /\ SeqSet(Tail(toUs)) \subseteq SeqSet(toUs)
      /\ toHa # <<>> => /\ Head(toHa) \in SeqSet(toHa)
                        /\ SeqSet(Tail(toHa)) \subseteq SeqSet(toHa)
      /\ \A f \in FramesToUs : SeqSet(Append(toUs, f)) = SeqSet(toUs) \cup {f}
      /\ \A f \in FramesToHa : SeqSet(Append(toHa, f)) = SeqSet(toHa) \cup {f}
      /\ \A e \in Jobs : SeqSet(Append(pending, e)) = SeqSet(pending) \cup {e}
  BY Elements DEF TypeOK
\* Nothing new is in flight.
<1>2. ASSUME SeqSet(toHa') \subseteq SeqSet(toHa), SeqSet(toUs') \subseteq SeqSet(toUs),
             haBusy' \subseteq haBusy, SeqSet(pending') \subseteq SeqSet(pending)
      PROVE  Matched'
  BY <1>2 DEF Matched, Belongs
\* Nothing but a frame without a call is new.
<1>3. ASSUME NEW f, f.type \in {"auth", "ping"} \/ (f.type = "subscribe" /\ f.id = SubscribeId),
             SeqSet(toHa') \subseteq SeqSet(toHa) \cup {f}, SeqSet(toUs') \subseteq SeqSet(toUs),
             haBusy' \subseteq haBusy, pending' = pending
      PROVE  Matched'
  BY <1>3 DEF Matched, Belongs
<1>4. ASSUME NEW f, \/ f.type \in {"auth_required", "auth_ok", "auth_invalid", "pong"}
                    \/ f.type = "result" /\ (f.id = SubscribeId \/ Belongs(f)),
             SeqSet(toUs') \subseteq SeqSet(toUs) \cup {f}, SeqSet(toHa') \subseteq SeqSet(toHa),
             haBusy' \subseteq haBusy, pending' = pending
      PROVE  Matched'
  BY <1>4 DEF Matched, Belongs
<1>5. CASE ConnectOk
  <2>1. SeqSet(toUs') = {[type |-> "auth_required"]}
    BY <1>5 DEF ConnectOk, SeqSet
  <2> QED
    BY <1>4, <1>5, <2>1 DEF ConnectOk
<1>6. CASE ConnectFails \/ Closes \/ Wakes
  BY <1>2, <1>6 DEF ConnectFails, Closes, EndSession, Wakes, FreshSession, wire, peer
<1>7. CASE RejectCall \/ RefuseCall \/ GrowsStable
  BY <1>2, <1>7 DEF RejectCall, RefuseCall, GrowsStable, session, wire, peer
<1>8. ASSUME NEW auth, LeaveAsIs(auth)
      PROVE  Matched'
  BY <1>2, <1>8 DEF LeaveAsIs, Leave
<1>9. CASE SendCall
  <2> DEFINE new == [id |-> nextId, request |-> Head(calls)]
             frame == [type |-> "call", id |-> nextId, request |-> Head(calls)]
  <2>1. Head(calls) \in Requests /\ phase = "Live"
    BY <1>9, HeadsTyped DEF SendCall
  <2>2. nextId > SubscribeId
    BY <1>0, <2>1 DEF Lifecycle, Ids, SubscribeId
  <2>3. SeqSet(pending') = SeqSet(pending) \cup {new}
    BY <1>0, <1>1, <1>9, <2>1 DEF SendCall, CallId, Jobs
  <2>4. SeqSet(toHa') \subseteq SeqSet(toHa) \cup {frame} /\ SeqSet(toUs') \subseteq SeqSet(toUs)
          /\ haBusy' \subseteq haBusy
    <3>1. CASE Leave(FALSE) \/ Waits
      BY <3>1 DEF Leave, Waits, wire, peer
    <3>2. CASE Send([type |-> "call", id |-> CallId, request |-> Head(calls)]) /\ Sent
      <4>1. frame \in FramesToHa
        BY <1>0, <2>1, FramesBuilt
      <4>2. Send(frame)
        BY <3>2 DEF CallId
      <4> QED
        BY <1>1, <3>2, <4>1, <4>2 DEF Send, Sent, peer
    <3> QED
      BY <1>9, <3>1, <3>2 DEF SendCall
  \* No frame in flight has the id of the new entry.
  <2>5. /\ \A e \in SeqSet(pending) : e.id # nextId
        /\ \A f \in SeqSet(toHa) : f.type = "call" => f.id # nextId
        /\ \A job \in haBusy : job.id # nextId
        /\ \A f \in SeqSet(toUs) : f.type = "result" => f.id # nextId
    <3>1. /\ \A f \in SeqSet(toHa) : f.type # "auth" => f.id \in Nat
          /\ \A f \in SeqSet(toUs) : f.type = "result" => f.id \in Nat
          /\ \A e \in SeqSet(pending) : e.id \in Nat
          /\ \A job \in haBusy : job.id \in Nat
      BY <1>0, FrameFields DEF Ids, Jobs, TypeOK
    <3> QED
      BY <1>0, <3>1 DEF Numbered
  <2> HIDE DEF new, frame
  <2>6. new.id = nextId /\ new.request = Head(calls)
    BY DEF new
  <2>7. frame.type = "call" /\ frame.id = nextId /\ frame.request = Head(calls)
    BY DEF frame
  <2>8. \A e \in SeqSet(pending') : e.id > SubscribeId
    BY <2>2, <2>3, <2>6 DEF Matched
  <2>9. \A f \in SeqSet(toHa') : /\ f.type = "subscribe" => f.id = SubscribeId
                                 /\ f.type = "call" => Belongs(f)'
    BY <2>2, <2>3, <2>4, <2>5, <2>6, <2>7 DEF Matched, Belongs
  <2>10. \A job \in haBusy' : Belongs(job)'
    BY <2>3, <2>4, <2>5, <2>6 DEF Matched, Belongs
  <2>11. \A f \in SeqSet(toUs') : f.type = "result" /\ f.id # SubscribeId => Belongs(f)'
    BY <2>3, <2>4, <2>5, <2>6 DEF Matched, Belongs
  <2> QED
    BY <2>8, <2>9, <2>10, <2>11 DEF Matched
<1>10. CASE PingTick
  <2>1. pending' = pending
    BY <1>10 DEF PingTick
  <2>2. CASE Waits
    BY <1>2, <2>1, <2>2 DEF Waits, wire, peer
  <2>3. CASE Send([type |-> "ping", id |-> nextId]) /\ Sent
    <3>1. SeqSet(toHa') \subseteq SeqSet(toHa) \cup {[type |-> "ping", id |-> nextId]}
      BY <1>0, <1>1, <2>3, FramesBuilt DEF Send
    <3> QED
      BY <1>3, <2>1, <2>3, <3>1 DEF Sent, peer
  <2> QED
    BY <1>10, <2>2, <2>3 DEF PingTick
<1>11. CASE SendFails \/ DeadlineFires \/ SocketEnds \/ OnAuthInvalid
  BY <1>8, <1>11 DEF SendFails, DeadlineFires, SocketEnds, OnAuthInvalid
<1>12. CASE OnAuthRequired
  <2>1. SeqSet(toHa') \subseteq SeqSet(toHa) \cup {[type |-> "auth"]}
    BY <1>1, <1>12, FramesBuilt DEF OnAuthRequired, Send
  <2> QED
    BY <1>1, <1>3, <1>12, <2>1 DEF OnAuthRequired, Incoming, peer
<1>13. CASE OnAuthOk
  <2>1. UNCHANGED <<pending, haBusy>> /\ SeqSet(toUs') \subseteq SeqSet(toUs)
    BY <1>1, <1>13 DEF OnAuthOk, Incoming, peer
  <2>2. CASE toHa' = toHa
    BY <1>2, <2>1, <2>2
  <2>3. CASE phase = "AwaitAuthOk" /\ Send([type |-> "subscribe", id |-> nextId])
    <3>1. nextId = SubscribeId
      BY <2>3 DEF Lifecycle
    <3>2. SeqSet(toHa') \subseteq SeqSet(toHa) \cup {[type |-> "subscribe", id |-> nextId]}
      BY <1>0, <1>1, <2>3, FramesBuilt DEF Send
    <3> QED
      BY <1>3, <2>1, <3>1, <3>2
  <2> QED
    BY <1>13, <2>2, <2>3 DEF OnAuthOk
<1>14. CASE OnSubscribeResult
  BY <1>1, <1>2, <1>8, <1>14 DEF OnSubscribeResult, Incoming, peer
<1>15. CASE OnCallResult
  <2>1. SeqSet(pending') \subseteq SeqSet(pending)
    <3>1. ASSUME NEW i \in DOMAIN pending, pending' = Without(pending, i)
          PROVE  SeqSet(pending') \subseteq SeqSet(pending)
      <4>1. pending \in Seq(Jobs)
        BY DEF TypeOK
      <4> QED
        BY <3>1, <4>1, WithoutElements
    <3> QED
      BY <1>15, <3>1 DEF OnCallResult
  <2> QED
    BY <1>1, <1>2, <1>15, <2>1 DEF OnCallResult, Incoming, peer
<1>16. CASE OnPong
  BY <1>1, <1>2, <1>16 DEF OnPong, Incoming, peer
<1>17. CASE HaAuth
  <2>1. PICK f \in FramesToUs : toUs' = Append(toUs, f) /\ f.type \in {"auth_ok", "auth_invalid"}
    BY <1>17, FramesBuilt DEF HaAuth
  <2>2. SeqSet(toHa') \subseteq SeqSet(toHa) /\ UNCHANGED <<pending, haBusy>>
    BY <1>1, <1>17 DEF HaAuth, Receives, session
  <2> QED
    BY <1>1, <1>4, <2>1, <2>2
<1>18. CASE HaSubscribe
  <2>1. /\ Head(toHa) \in SeqSet(toHa) /\ Head(toHa).type = "subscribe"
        /\ SeqSet(toHa') \subseteq SeqSet(toHa) /\ UNCHANGED <<pending, haBusy>>
    BY <1>1, <1>18 DEF HaSubscribe, Receives, session
  <2>2. Head(toHa).id = SubscribeId /\ SubscribeId \in Ids
    BY <2>1 DEF Matched, SubscribeId, Ids
  <2>3. PICK ok \in BOOLEAN :
          toUs' = Append(toUs, [type |-> "result", id |-> Head(toHa).id, success |-> ok])
    BY <1>18 DEF HaSubscribe
  <2>4. SeqSet(toUs') = SeqSet(toUs) \cup {[type |-> "result", id |-> SubscribeId, success |-> ok]}
    BY <1>1, <2>2, <2>3, FramesBuilt
  <2> QED
    BY <1>4, <2>1, <2>4
<1>19. CASE HaRepeatsResult
  <2>1. PICK f \in FramesToUs :
          toUs' = Append(toUs, f) /\ f.type = "result" /\ f.id = SubscribeId
    BY <1>19, ResultRepeated
  <2>2. SeqSet(toUs') = SeqSet(toUs) \cup {f}
    BY <1>1, <2>1
  <2>3. UNCHANGED <<pending, toHa, haBusy>>
    BY <1>19 DEF HaRepeatsResult, session, peer
  <2> QED
    BY <1>4, <2>1, <2>2, <2>3
<1>20. CASE HaStartsCall
  <2>1. /\ Head(toHa) \in SeqSet(toHa) /\ Head(toHa).type = "call"
        /\ SeqSet(toHa') \subseteq SeqSet(toHa) /\ UNCHANGED <<pending, toUs>>
        /\ haBusy' = haBusy \cup {[id |-> Head(toHa).id, request |-> Head(toHa).request]}
    BY <1>1, <1>20 DEF HaStartsCall, Receives, session
  <2>2. Belongs(Head(toHa))
    BY <2>1 DEF Matched
  <2> QED
    BY <2>1, <2>2 DEF Matched, Belongs
<1>21. CASE HaAnswers
  <2>1. PICK job \in haBusy, ok \in BOOLEAN :
          /\ toUs' = Append(toUs, [type |-> "result", id |-> job.id, success |-> ok,
                                   request |-> job.request])
          /\ haBusy' = haBusy \ {job}
    BY <1>21 DEF HaAnswers
  <2> DEFINE f == [type |-> "result", id |-> job.id, success |-> ok, request |-> job.request]
  <2>2. job.id \in Ids /\ job.request \in Requests /\ Belongs(job)
    BY DEF TypeOK, Jobs, Matched
  <2>3. f \in FramesToUs /\ Belongs(f) /\ f.type = "result"
    BY <2>2, FramesBuilt DEF Belongs
  <2>4. UNCHANGED <<pending, toHa>>
    BY <1>21 DEF HaAnswers, session
  <2> HIDE DEF f
  <2>5. SeqSet(toUs') = SeqSet(toUs) \cup {f}
    BY <1>1, <2>1, <2>3 DEF f
  <2> QED
    BY <1>4, <2>1, <2>3, <2>4, <2>5
<1>22. CASE HaPong
  <2>1. /\ Head(toHa) \in SeqSet(toHa) /\ Head(toHa).type = "ping"
        /\ SeqSet(toHa') \subseteq SeqSet(toHa) /\ UNCHANGED <<pending, haBusy>>
        /\ toUs' = Append(toUs, [type |-> "pong", id |-> Head(toHa).id])
    BY <1>1, <1>22 DEF HaPong, Receives, session
  <2>2. Head(toHa).id \in Ids
    BY <1>0, <2>1, FrameFields
  <2>3. SeqSet(toUs') = SeqSet(toUs) \cup {[type |-> "pong", id |-> Head(toHa).id]}
    BY <1>1, <2>1, <2>2, FramesBuilt
  <2> QED
    BY <1>4, <2>1, <2>3
<1>23. CASE FallsSilent
  BY <1>2, <1>23 DEF FallsSilent, session, peer
<1>24. CASE UiAsks \/ UiTakes \/ UNCHANGED vars
  BY <1>2, <1>24 DEF UiAsks, UiTakes, vars, session, wire, peer
<1> QED
  BY <1>5, <1>6, <1>7, <1>9, <1>10, <1>11, <1>12, <1>13, <1>14, <1>15, <1>16, <1>17, <1>18, <1>20,
     <1>21, <1>22, <1>23, <1>24, <1>19 DEF Next, Task, HomeAssistant

-----------------------------------------------------------------------------
\* The invariant behind all of them.
SessionInv ==
    /\ TypeOK
    /\ Lifecycle
    /\ Handshake
    /\ Numbered
    /\ EveryWaitIsBounded
    /\ IdsIncrease
    /\ Matched

\* The parts lean on each other: which phase is possible follows from the ids
\* and from what Home Assistant has accepted, which ids are free from the
\* connection being new, and both from the phase.
THEOREM SessionInvariant == Spec => []SessionInv
<1>1. Init => SessionInv
  <2> SUFFICES ASSUME Init PROVE SessionInv
    OBVIOUS
  <2>1. TypeOK
    BY InitTyped
  <2>2. Lifecycle /\ Handshake /\ EveryWaitIsBounded
    BY NoElements DEF Init, Lifecycle, Handshake, EveryWaitIsBounded
  <2>3. Numbered /\ IdsIncrease /\ Matched
    BY NoElements DEF Init, Numbered, IdsIncrease, Matched, SubscribeId
  <2> QED
    BY <2>1, <2>2, <2>3 DEF SessionInv
<1>2. SessionInv /\ [Next]_vars => SessionInv'
  BY StepTyped, LifecycleStep, HandshakeStep, NumberedStep, DeadlineStep, IdsStep, MatchedStep
  DEF SessionInv
<1> QED
  BY <1>1, <1>2, PTL DEF Spec

\* "HA answers id_reuse otherwise" (Session::next_id): subscribe, calls and
\* pings share one counter, and no reconnect leaves an old id in flight.
THEOREM IdsAlwaysIncrease == Spec => []IdsIncrease
BY SessionInvariant, PTL DEF SessionInv

\* The select loop never waits without the deadline its phase asks for.
THEOREM WaitsAreBounded == Spec => []EveryWaitIsBounded
BY SessionInvariant, PTL DEF SessionInv

\* on_call_result looks the id up in the pending table, and never finds a call
\* other than the one Home Assistant has executed.
THEOREM AnswersAreMatched == Spec => []AnswersMatch
<1>1. SessionInv => AnswersMatch
  BY MatchedIsEnough DEF SessionInv
<1> QED
  BY <1>1, SessionInvariant, PTL

\* Backoff: only the end of a session that was Live for STABLE_SESSION lowers
\* the next delay, and an attempt after a rejected token has waited AUTH_RETRY.
THEOREM RetriesKeepPace == Spec => RetriesArePaced
<1>1. SessionInv /\ [Next]_vars =>
        [/\ backoff' < backoff => live /\ stable
         /\ net = "sleeping" /\ net' = "connecting" /\ rejected => delay = AuthRetry]_vars
  <2> SUFFICES ASSUME SessionInv, Next
               PROVE  /\ backoff' < backoff => live /\ stable
                      /\ net = "sleeping" /\ rejected => delay = AuthRetry
    OBVIOUS
  <2>1. net = "sleeping" /\ rejected => delay = AuthRetry
    BY DEF SessionInv, Lifecycle
  <2>2. CASE EndSession
    <3>1. rejected \in BOOLEAN /\ (live /\ stable) \in BOOLEAN /\ TypeOK
      BY DEF SessionInv, TypeOK
    <3> QED
      BY <2>1, <2>2, <3>1, BackoffTyped DEF EndSession
  <2>3. CASE ~EndSession
    <3>1. backoff' = backoff
      BY <2>3 DEF Next, Task, HomeAssistant, ConnectOk, ConnectFails, Closes, Wakes, RejectCall,
         RefuseCall, SendCall, PingTick, SendFails, DeadlineFires, SocketEnds, OnAuthRequired,
         OnAuthOk, OnAuthInvalid, OnSubscribeResult, OnCallResult, OnPong, GrowsStable,
         HaAuth, HaSubscribe, HaRepeatsResult, HaStartsCall, HaAnswers, HaPong,
         FallsSilent, UiAsks, UiTakes, LeaveAsIs, Leave, Waits, Sent, policy
    <3>2. backoff \in Nat
      BY BackoffAssumption DEF SessionInv, TypeOK
    <3> QED
      BY <2>1, <3>1, <3>2
  <2> QED
    BY <2>2, <2>3
<1> QED
  BY <1>1, SessionInvariant, PTL DEF Spec, RetriesArePaced

-----------------------------------------------------------------------------
\* The calls in flight, as HaContract sees them, through each change of the table.
LEMMA InFlightIs ==
    ASSUME NEW p \in Seq(Jobs)
    PROVE  /\ [i \in DOMAIN p |-> p[i].request] \in Seq(Requests)
           /\ Len([i \in DOMAIN p |-> p[i].request]) = Len(p)
           /\ DOMAIN p = 1..Len(p) /\ Len(p) \in Nat
<1>1. DOMAIN p = 1..Len(p) /\ Len(p) \in Nat /\ \A i \in 1..Len(p) : p[i] \in Jobs
  BY LenProperties, ElementOfSeq
<1>2. \A i \in 1..Len(p) : p[i].request \in Requests
  BY <1>1 DEF Jobs
<1>3. [i \in DOMAIN p |-> p[i].request] \in [1..Len(p) -> Requests]
  BY <1>1, <1>2
<1> QED
  BY <1>1, <1>3, TableIsSeq

\* A call put into the table is in flight.
LEMMA InFlightAppended ==
    ASSUME TypeOK, NEW r \in Requests, NEW n \in Ids,
           pending' = Append(pending, [id |-> n, request |-> r])
    PROVE  InFlight' = Append(InFlight, r)
<1> DEFINE new == [id |-> n, request |-> r]
<1>1. pending \in Seq(Jobs) /\ new \in Jobs /\ new.request = r
  BY DEF TypeOK, Jobs
<1> HIDE DEF new
<1>2. pending' = Append(pending, new)
  BY DEF new
<1>3. /\ pending' \in Seq(Jobs) /\ Len(pending') = Len(pending) + 1
      /\ \A i \in 1..Len(pending) : pending'[i] = pending[i]
      /\ pending'[Len(pending) + 1] = new
  BY <1>1, <1>2, AppendProperties
<1>4. /\ InFlight \in Seq(Requests) /\ Len(InFlight) = Len(pending) /\ Len(pending) \in Nat
      /\ DOMAIN pending = 1..Len(pending)
  BY <1>1, InFlightIs DEF InFlight
<1>5. /\ InFlight' \in Seq(Requests) /\ Len(InFlight') = Len(pending')
      /\ DOMAIN pending' = 1..Len(pending')
  BY <1>3, InFlightIs DEF InFlight
<1>6. \A i \in 1..Len(InFlight') : InFlight'[i] = Append(InFlight, r)[i]
  <2>1. /\ \A i \in 1..Len(InFlight) : Append(InFlight, r)[i] = InFlight[i]
        /\ Append(InFlight, r)[Len(InFlight) + 1] = r
    BY <1>4, AppendProperties
  <2>2. \A i \in 1..Len(pending) : InFlight'[i] = InFlight[i]
    BY <1>3, <1>4, <1>5 DEF InFlight
  <2>3. InFlight'[Len(pending) + 1] = r
    BY <1>1, <1>3, <1>4, <1>5 DEF InFlight
  <2> QED
    BY <1>3, <1>4, <1>5, <2>1, <2>2, <2>3
<1>7. Append(InFlight, r) \in Seq(Requests) /\ Len(Append(InFlight, r)) = Len(InFlight')
  BY <1>3, <1>4, <1>5, AppendProperties
<1> QED
  BY <1>5, <1>6, <1>7, SeqEqual

\* A call removed from the table no longer is.
LEMMA InFlightWithout ==
    ASSUME TypeOK, NEW i \in DOMAIN pending, pending' = Without(pending, i)
    PROVE  /\ i \in DOMAIN InFlight
           /\ InFlight[i] = pending[i].request
           /\ InFlight' = Without(InFlight, i)
<1>1. pending \in Seq(Jobs)
  BY DEF TypeOK
<1>2. /\ InFlight \in Seq(Requests) /\ Len(InFlight) = Len(pending) /\ Len(pending) \in Nat
      /\ DOMAIN pending = 1..Len(pending) /\ DOMAIN InFlight = DOMAIN pending
  BY <1>1, InFlightIs DEF InFlight
<1>3. /\ pending' \in Seq(Jobs) /\ Len(pending') = Len(pending) - 1
      /\ DOMAIN pending' = 1..(Len(pending) - 1)
      /\ \A j \in 1..(Len(pending) - 1) :
           pending'[j] = IF j < i THEN pending[j] ELSE pending[j + 1]
  BY <1>1, WithoutIs
<1>4. /\ InFlight' \in Seq(Requests) /\ Len(InFlight') = Len(pending) - 1
  BY <1>3, InFlightIs DEF InFlight
<1>5. /\ Without(InFlight, i) \in Seq(Requests)
      /\ Len(Without(InFlight, i)) = Len(pending) - 1
      /\ \A j \in 1..(Len(pending) - 1) :
           Without(InFlight, i)[j] = IF j < i THEN InFlight[j] ELSE InFlight[j + 1]
  BY <1>2, WithoutIs
<1>6. ASSUME NEW j \in 1..(Len(pending) - 1)
      PROVE  InFlight'[j] = Without(InFlight, i)[j]
  <2>1. j \in DOMAIN pending /\ j + 1 \in DOMAIN pending
    BY <1>2
  <2>2. InFlight'[j] = pending'[j].request
    BY <1>3 DEF InFlight
  <2> QED
    BY <1>3, <1>5, <2>1, <2>2 DEF InFlight
<1>7. InFlight' = Without(InFlight, i)
  BY <1>4, <1>5, <1>6, SeqEqual
<1>8. i \in DOMAIN InFlight /\ InFlight[i] = pending[i].request
  BY <1>2 DEF InFlight
<1> QED
  BY <1>7, <1>8

-----------------------------------------------------------------------------
\* Each step of the task is one step of the contract, or none.
SessionUp == net \in {"serving", "sending", "closing"} /\ live

\* A step that touches neither the channels, the table nor the link stutters.
LEMMA ContractUnchanged ==
    ASSUME UNCHANGED <<calls, events, pending>>, SessionUp' = SessionUp
    PROVE  UNCHANGED Contract!contractVars
BY DEF Contract!contractVars, InFlight, SessionUp

\* The end of a session is GoDown, or nothing the contract speaks of.
LEMMA EndSessionContract ==
    ASSUME SessionInv, EndSession, net \in {"connecting", "closing"}
    PROVE  Contract!GoDown \/ UNCHANGED Contract!contractVars
<1>1. /\ net' = "sleeping" /\ pending' = <<>> /\ calls' = calls
      /\ events' = events \o FailPending(pending) \o Farewell(rejected)
  BY DEF EndSession
<1>2. pending \in Seq(Jobs) /\ events \in Seq(Events) /\ live \in BOOLEAN
  BY DEF SessionInv, TypeOK
<1>3. SessionUp' = FALSE
  BY <1>1, Zenon DEF SessionUp
<1>4. CASE live
  <2>1. net = "closing" /\ ~rejected
    BY <1>4 DEF SessionInv, Lifecycle
  <2>2. SessionUp = TRUE
    BY <1>4, <2>1 DEF SessionUp
  <2>3. Farewell(rejected) = <<Contract!Disconnected>>
    BY <1>4, <2>1 DEF Farewell, Disconnected, Contract!Disconnected
  <2>4. FailPending(pending) = Contract!Failures(InFlight)
    <3>1. DOMAIN InFlight = DOMAIN pending
          /\ \A i \in DOMAIN pending : InFlight[i] = pending[i].request
      BY DEF InFlight
    <3> QED
      BY <3>1 DEF FailPending, Contract!Failures, CallResult, Contract!CallResult
  <2>5. InFlight' = <<>>
    BY <1>1 DEF InFlight
  <2> QED
    BY <1>1, <1>3, <2>2, <2>3, <2>4, <2>5 DEF Contract!GoDown, SessionUp
<1>5. CASE ~live
  <2>1. pending = <<>> /\ Farewell(rejected) = <<>>
    BY <1>5 DEF SessionInv, Lifecycle, Farewell
  <2>2. FailPending(pending) = <<>>
    BY <2>1 DEF FailPending
  <2>3. events' = events
    BY <1>1, <1>2, <2>1, <2>2, ConcatEmptySeq
  <2>4. SessionUp = FALSE
    BY <1>5 DEF SessionUp
  <2> QED
    BY <1>1, <1>3, <2>1, <2>3, <2>4, ContractUnchanged
<1> QED
  BY <1>4, <1>5

\* Every branch of the task is a step of the contract or a stutter.
LEMMA TaskContract ==
    ASSUME SessionInv, Task
    PROVE  (Contract!Link \/ UNCHANGED Contract!contractVars) /\ UNCHANGED ui
<1>0. /\ TypeOK /\ live \in BOOLEAN
      /\ Lifecycle
  BY DEF SessionInv, TypeOK
<1>a. UNCHANGED ui
  BY DEF Task, ConnectOk, ConnectFails, Closes, EndSession, Wakes, RejectCall, RefuseCall,
     SendCall, PingTick, SendFails, DeadlineFires, SocketEnds, OnAuthRequired, OnAuthOk,
     OnAuthInvalid, OnSubscribeResult, OnCallResult, OnPong, GrowsStable, LeaveAsIs, Leave,
     Waits, Sent
<1> SUFFICES Contract!Link \/ UNCHANGED Contract!contractVars
  BY <1>a
\* The connection is given up: nothing of it has been told to the UI yet.
<1>1. ASSUME NEW auth, LeaveAsIs(auth), net \in {"serving", "sending"}, calls' = calls
      PROVE  UNCHANGED Contract!contractVars
  <2>1. SessionUp' = SessionUp
    BY <1>1 DEF LeaveAsIs, Leave, SessionUp
  <2> QED
    BY <1>1, <2>1, ContractUnchanged DEF LeaveAsIs, Leave
<1>2. CASE ConnectOk
  <2>1. SessionUp = FALSE /\ SessionUp' = FALSE
    BY <1>0, <1>2 DEF ConnectOk, SessionUp, Lifecycle
  <2> QED
    BY <1>2, <2>1, ContractUnchanged DEF ConnectOk
<1>3. CASE ConnectFails \/ Closes
  BY <1>3, EndSessionContract DEF ConnectFails, Closes, Contract!Link
<1>4. CASE Wakes
  <2>1. SessionUp = FALSE /\ SessionUp' = FALSE
    BY <1>4 DEF Wakes, FreshSession, SessionUp
  <2>2. pending' = pending
    BY <1>0, <1>4 DEF Wakes, FreshSession, Lifecycle
  <2> QED
    BY <1>4, <2>1, <2>2, ContractUnchanged DEF Wakes
<1>5. CASE RejectCall \/ RefuseCall
  <2>1. SessionUp' = SessionUp /\ InFlight' = InFlight
    <3>1. UNCHANGED <<net, session>>
      BY <1>5 DEF RejectCall, RefuseCall
    <3> QED
      BY <3>1 DEF session, SessionUp, InFlight
  <2>2. Contract!Refuse
    BY <1>5, <2>1 DEF RejectCall, RefuseCall, Contract!Refuse, CallResult, Contract!CallResult,
       SessionUp
  <2> QED
    BY <2>2 DEF Contract!Link
<1>6. CASE SendCall
  <2>1. live /\ net = "serving" /\ Head(calls) \in Requests /\ nextId \in Ids
    BY <1>0, <1>6, HeadsTyped DEF SendCall, Lifecycle, TypeOK
  <2>2. InFlight' = Append(InFlight, Head(calls))
    BY <1>0, <1>6, <2>1, InFlightAppended DEF SendCall, CallId
  <2>3. net' \in {"serving", "sending", "closing"} /\ live' /\ events' = events
    BY <1>6, <2>1 DEF SendCall, Leave, Waits, Sent
  <2>4. SessionUp = TRUE /\ SessionUp' = TRUE
    BY <2>1, <2>3 DEF SessionUp
  <2>5. Contract!Accept
    BY <1>6, <2>2, <2>3, <2>4 DEF SendCall, Contract!Accept, SessionUp
  <2> QED
    BY <2>5 DEF Contract!Link
<1>7. CASE PingTick
  <2>1. SessionUp' = SessionUp /\ events' = events
    BY <1>7 DEF PingTick, Waits, Sent, SessionUp
  <2> QED
    BY <1>7, <2>1, ContractUnchanged DEF PingTick
<1>8. CASE SendFails \/ DeadlineFires \/ SocketEnds \/ OnAuthInvalid
  BY <1>1, <1>8 DEF SendFails, DeadlineFires, SocketEnds, OnAuthInvalid, Incoming
<1>9. CASE OnAuthRequired \/ OnAuthOk \/ OnPong
  <2>1. UNCHANGED <<net, live, calls, events, pending>>
    BY <1>9 DEF OnAuthRequired, OnAuthOk, OnPong
  <2> QED
    BY <2>1, ContractUnchanged DEF SessionUp
<1>10. CASE OnSubscribeResult
  <2>1. net = "serving" /\ calls' = calls
    BY <1>10 DEF OnSubscribeResult, Incoming
  <2>2. CASE LeaveAsIs(FALSE)
    BY <1>1, <2>1, <2>2
  <2>3. CASE phase = "Live" /\ ~LeaveAsIs(FALSE)
    <3>1. UNCHANGED <<net, live, calls, events, pending>>
      BY <1>10, <2>3 DEF OnSubscribeResult
    <3> QED
      BY <3>1, ContractUnchanged DEF SessionUp
  <2>4. CASE phase # "Live" /\ ~LeaveAsIs(FALSE)
    <3>1. /\ net' = net /\ pending' = pending /\ live' = TRUE
          /\ events' = Append(events, Connected)
      BY <1>10, <2>4 DEF OnSubscribeResult
    <3>2. SessionUp = FALSE /\ SessionUp' = TRUE
      BY <1>0, <2>1, <2>4, <3>1 DEF Lifecycle, SessionUp
    <3>3. Contract!GoUp
      BY <2>1, <3>1, <3>2 DEF Contract!GoUp, Connected, Contract!Connected, SessionUp, InFlight
    <3> QED
      BY <3>3 DEF Contract!Link
  <2> QED
    BY <2>2, <2>3, <2>4
<1>11. CASE OnCallResult
  <2>1. UNCHANGED <<net, live, calls>> /\ net = "serving"
    BY <1>11 DEF OnCallResult, Incoming
  <2>2. ASSUME NEW i \in DOMAIN pending, pending' = Without(pending, i),
               events' = Append(events, CallResult(pending[i].request, Head(toUs).success))
        PROVE  Contract!Answer
    <3>1. /\ i \in DOMAIN InFlight /\ InFlight[i] = pending[i].request
          /\ InFlight' = Without(InFlight, i)
      BY <1>0, <2>2, InFlightWithout
    <3>2. Head(toUs).success \in BOOLEAN
      BY <1>0, <1>11, HeadsTyped, FrameFields DEF OnCallResult, Incoming
    <3>3. live
      BY <1>0, <2>2 DEF Lifecycle
    <3> QED
      BY <2>1, <2>2, <3>1, <3>2, <3>3
      DEF Contract!Answer, Contract!CallResult, CallResult, Contract!Without, Without
  <2>3. CASE UNCHANGED <<pending, events>>
    BY <2>1, <2>3, ContractUnchanged DEF SessionUp
  <2> QED
    BY <1>11, <2>2, <2>3 DEF OnCallResult, Contract!Link
<1>12. CASE GrowsStable
  <2>1. UNCHANGED <<net, live, calls, events, pending>>
    BY <1>12 DEF GrowsStable
  <2> QED
    BY <2>1, ContractUnchanged DEF SessionUp
<1> QED
  BY <1>2, <1>3, <1>4, <1>5, <1>6, <1>7, <1>8, <1>9, <1>10, <1>11, <1>12 DEF Task

\* What Home Assistant and the network do is nothing to the contract.
LEMMA PeerContract ==
    ASSUME HomeAssistant
    PROVE  UNCHANGED Contract!contractVars /\ UNCHANGED ui
<1>1. UNCHANGED <<net, session, calls, events, ui>>
  BY DEF HomeAssistant, HaAuth, HaSubscribe, HaRepeatsResult, HaStartsCall, HaAnswers, HaPong,
     FallsSilent
<1> QED
  BY <1>1, ContractUnchanged DEF session, SessionUp

\* The UI's two steps are the contract's.
LEMMA UiContract ==
    /\ UiAsks => \E r \in Requests : Contract!Ask(r)
    /\ UiTakes => Contract!Take
<1>1. UiAsks \/ UiTakes => SessionUp' = SessionUp /\ InFlight' = InFlight
  BY DEF UiAsks, UiTakes, session, SessionUp, InFlight
<1> QED
  BY <1>1 DEF UiAsks, UiTakes, Contract!Ask, Contract!Take, SessionUp

\* run, serve and their handlers implement the contract the UI is written
\* against, with the pending table as the calls passed on, and the link up from
\* Connected to the failures that end its session.
THEOREM SessionKeepsContract == Spec => KeepsContract
<1>1. Init => Contract!ContractInit
  <2> SUFFICES ASSUME Init PROVE Contract!ContractInit
    OBVIOUS
  <2>1. SessionUp = FALSE
    BY DEF Init, SessionUp
  <2>2. InFlight = <<>>
    BY DEF Init, InFlight
  <2> QED
    BY <2>1, <2>2 DEF Init, Contract!ContractInit, SessionUp
<1>2. SessionInv /\ [Next]_vars => [Contract!ContractNext]_Contract!contractVars
  <2> SUFFICES ASSUME SessionInv, [Next]_vars
               PROVE  Contract!ContractNext \/ UNCHANGED Contract!contractVars
    OBVIOUS
  <2>1. CASE UNCHANGED vars
    <3>1. UNCHANGED <<net, live, calls, events, pending>>
      BY <2>1 DEF vars, session
    <3> QED
      BY <3>1, ContractUnchanged DEF SessionUp
  <2> QED
    BY <2>1, TaskContract, PeerContract, UiContract DEF Next, Contract!ContractNext
<1> QED
  BY <1>1, <1>2, SessionInvariant, PTL DEF Spec, KeepsContract, Contract!ContractSpec

-----------------------------------------------------------------------------
\* A sequence without repetitions through each of its changes.
LEMMA DistinctAppend ==
    ASSUME NEW S, NEW s \in Seq(S), NEW x \in S, Distinct(s), x \notin SeqSet(s)
    PROVE  Distinct(Append(s, x))
<1>1. /\ DOMAIN s = 1..Len(s) /\ Len(s) \in Nat
      /\ DOMAIN Append(s, x) = 1..(Len(s) + 1)
      /\ \A i \in 1..Len(s) : Append(s, x)[i] = s[i]
      /\ Append(s, x)[Len(s) + 1] = x
  BY AppendProperties, LenProperties
<1>2. \A i \in 1..Len(s) : s[i] # x
  BY <1>1 DEF SeqSet
<1>3. \A i \in 1..(Len(s) + 1) : i \in 1..Len(s) \/ i = Len(s) + 1
  BY <1>1
<1> QED
  BY <1>1, <1>2, <1>3 DEF Distinct

\* The tail of a sequence without repetition.
LEMMA DistinctTail ==
    ASSUME NEW S, NEW s \in Seq(S), s # <<>>, Distinct(s)
    PROVE  Distinct(Tail(s)) /\ Head(s) \notin SeqSet(Tail(s))
<1>1. DOMAIN s = 1..Len(s) /\ Len(s) \in Nat /\ Len(s) > 0 /\ Head(s) = s[1]
  OBVIOUS
<1>2. /\ DOMAIN Tail(s) = 1..(Len(s) - 1)
      /\ \A i \in 1..(Len(s) - 1) : Tail(s)[i] = s[i + 1]
  BY <1>1, HeadTailProperties, LenProperties
<1>3. \A i \in DOMAIN Tail(s) : i + 1 \in DOMAIN s /\ i + 1 # 1
  BY <1>1, <1>2
<1>4. Head(s) \notin SeqSet(Tail(s))
  BY <1>1, <1>2, <1>3 DEF SeqSet, Distinct
<1>5. ASSUME NEW i \in DOMAIN Tail(s), NEW j \in DOMAIN Tail(s), Tail(s)[i] = Tail(s)[j]
      PROVE  i = j
  <2>1. i + 1 = j + 1
    BY <1>2, <1>3, <1>5 DEF Distinct
  <2> QED
    BY <1>2, <2>1
<1> QED
  BY <1>4, <1>5 DEF Distinct

\* Removing an element from a sequence without repetition.
LEMMA DistinctWithout ==
    ASSUME NEW S, NEW s \in Seq(S), NEW i \in DOMAIN s, Distinct(s)
    PROVE  /\ Distinct(Without(s, i))
           /\ SeqSet(Without(s, i)) = SeqSet(s) \ {s[i]}
<1>1. DOMAIN s = 1..Len(s) /\ Len(s) \in Nat /\ i \in 1..Len(s)
  BY LenProperties
<1> DEFINE w == Without(s, i)
           at(j) == IF j < i THEN j ELSE j + 1
<1>2. /\ DOMAIN w = 1..(Len(s) - 1)
      /\ \A j \in DOMAIN w : w[j] = s[at(j)]
  BY WithoutIs
<1>3. /\ \A j \in DOMAIN w : at(j) \in DOMAIN s /\ at(j) # i
      /\ \A j, k \in DOMAIN w : at(j) = at(k) => j = k
  BY <1>1, <1>2
<1>4. ASSUME NEW k \in DOMAIN s, k # i PROVE \E j \in DOMAIN w : at(j) = k
  <2>1. CASE k < i
    <3>1. k \in DOMAIN w /\ at(k) = k
      BY <1>1, <1>2, <2>1
    <3> QED
      BY <3>1
  <2>2. CASE k > i
    <3>1. k - 1 \in DOMAIN w /\ at(k - 1) = k
      BY <1>1, <1>2, <2>2
    <3> QED
      BY <3>1
  <2> QED
    BY <1>1, <1>4, <2>1, <2>2
<1> HIDE DEF w, at
<1>5. Distinct(w)
  BY <1>2, <1>3 DEF Distinct
<1>6. SeqSet(w) \subseteq SeqSet(s) \ {s[i]}
  BY <1>2, <1>3 DEF SeqSet, Distinct
<1>7. SeqSet(s) \ {s[i]} \subseteq SeqSet(w)
  <2> SUFFICES ASSUME NEW k \in DOMAIN s, s[k] # s[i] PROVE s[k] \in SeqSet(w)
    BY DEF SeqSet
  <2>1. PICK j \in DOMAIN w : at(j) = k
    BY <1>4
  <2> QED
    BY <1>2, <2>1 DEF SeqSet
<1> QED
  BY <1>5, <1>6, <1>7 DEF w

\* The results in an event queue through each of its changes.
LEMMA AnsweredAppend ==
    ASSUME NEW es \in Seq(Events), NEW e \in Events, AnsweredOnce(es),
           e.type = "CallResult" => e.request \notin Answered(es)
    PROVE  /\ Append(es, e) \in Seq(Events)
           /\ AnsweredOnce(Append(es, e))
           /\ Answered(Append(es, e)) =
                Answered(es) \cup (IF e.type = "CallResult" THEN {e.request} ELSE {})
<1> DEFINE t == Append(es, e)
           n == Len(es) + 1
<1>1. /\ DOMAIN es = 1..Len(es) /\ Len(es) \in Nat /\ t \in Seq(Events)
      /\ DOMAIN t = 1..n
      /\ \A i \in 1..Len(es) : t[i] = es[i]
      /\ t[n] = e
  BY AppendProperties, LenProperties
<1>2. \A i \in DOMAIN t : i \in DOMAIN es \/ i = n
  BY <1>1
<1>3. n \notin DOMAIN es /\ n \in DOMAIN t /\ DOMAIN es \subseteq DOMAIN t
  BY <1>1
<1> HIDE DEF t, n
<1>4. Results(t) = Results(es) \cup (IF e.type = "CallResult" THEN {n} ELSE {})
  BY <1>1, <1>2, <1>3 DEF Results
<1>5. \A i \in Results(es) : t[i] = es[i] /\ i # n
  BY <1>1, <1>3 DEF Results
<1>6. AnsweredOnce(t)
  BY <1>1, <1>4, <1>5 DEF AnsweredOnce, Answered
<1>7. Answered(t) = Answered(es) \cup (IF e.type = "CallResult" THEN {e.request} ELSE {})
  BY <1>1, <1>4, <1>5 DEF Answered
<1> QED
  BY <1>1, <1>6, <1>7 DEF t

\* The UI takes an event of a queue that answers each call once.
LEMMA AnsweredTail ==
    ASSUME NEW es \in Seq(Events), es # <<>>, AnsweredOnce(es)
    PROVE  /\ AnsweredOnce(Tail(es))
           /\ Answered(Tail(es)) =
                Answered(es) \ (IF Head(es).type = "CallResult" THEN {Head(es).request} ELSE {})
           /\ Head(es).type = "CallResult" => Head(es).request \in Answered(es)
<1> DEFINE t == Tail(es)
<1>1. DOMAIN es = 1..Len(es) /\ Len(es) \in Nat /\ Len(es) > 0 /\ Head(es) = es[1]
        /\ 1 \in DOMAIN es
  OBVIOUS
<1>2. /\ DOMAIN t = 1..(Len(es) - 1)
      /\ \A i \in 1..(Len(es) - 1) : t[i] = es[i + 1]
  BY <1>1, HeadTailProperties, LenProperties
<1>3. /\ \A i \in DOMAIN t : i + 1 \in DOMAIN es /\ i + 1 # 1 /\ t[i] = es[i + 1]
      /\ \A i \in DOMAIN es : i = 1 \/ (i - 1 \in DOMAIN t /\ es[i] = t[i - 1])
      /\ \A i, j \in DOMAIN t : i + 1 = j + 1 => i = j
  BY <1>1, <1>2
<1> HIDE DEF t
<1>4. AnsweredOnce(t)
  BY <1>3 DEF AnsweredOnce, Results
<1>5. Answered(t) \subseteq Answered(es)
  BY <1>3 DEF Answered, Results
<1>6. ASSUME Head(es).type = "CallResult"
      PROVE  Head(es).request \in Answered(es) /\ Head(es).request \notin Answered(t)
  <2>1. 1 \in Results(es) /\ es[1].request = Head(es).request
    BY <1>1, <1>6 DEF Results
  <2>2. \A i \in Results(t) : i + 1 \in Results(es) /\ i + 1 # 1 /\ t[i] = es[i + 1]
    BY <1>3 DEF Results
  <2> QED
    BY <2>1, <2>2 DEF Answered, AnsweredOnce
<1>7. ASSUME NEW i \in Results(es), i # 1 PROVE es[i].request \in Answered(t)
  BY <1>3, <1>7 DEF Answered, Results
<1>8. \A x \in Answered(es) : x \in Answered(t) \/
                              (Head(es).type = "CallResult" /\ x = Head(es).request)
  BY <1>1, <1>7 DEF Answered, Results
<1> QED
  BY <1>4, <1>5, <1>6, <1>8 DEF t

\* GoDown: the failures of calls no result names yet, then Disconnected.
LEMMA AnsweredFailures ==
    ASSUME NEW es \in Seq(Events), NEW rs \in Seq(Requests), AnsweredOnce(es), Distinct(rs),
           SeqSet(rs) \cap Answered(es) = {}
    PROVE  /\ es \o Contract!Failures(rs) \in Seq(Events)
           /\ AnsweredOnce(es \o Contract!Failures(rs))
           /\ Answered(es \o Contract!Failures(rs)) = Answered(es) \cup SeqSet(rs)
<1> DEFINE f == Contract!Failures(rs)
           t == es \o f
           n == Len(es)
<1>1. DOMAIN rs = 1..Len(rs) /\ Len(rs) \in Nat /\ \A i \in 1..Len(rs) : rs[i] \in Requests
  BY LenProperties, ElementOfSeq
<1>2. f \in [1..Len(rs) -> Events]
        /\ \A i \in 1..Len(rs) : f[i].type = "CallResult" /\ f[i].request = rs[i]
  <2>1. \A i \in 1..Len(rs) : CallResult(rs[i], FALSE) \in Events
    BY <1>1, FramesBuilt
  <2> QED
    BY <1>1, <2>1 DEF Contract!Failures, CallResult, Contract!CallResult
<1>3. f \in Seq(Events) /\ Len(f) = Len(rs)
  BY <1>1, <1>2, TableIsSeq
<1> HIDE DEF f
<1>4. /\ t \in Seq(Events) /\ Len(t) = n + Len(rs)
      /\ \A i \in 1..(n + Len(rs)) : t[i] = IF i <= n THEN es[i] ELSE f[i - n]
  <2>1. /\ es \o f \in Seq(Events) /\ Len(es \o f) = Len(es) + Len(f)
        /\ \A i \in 1..(Len(es) + Len(f)) :
             (es \o f)[i] = IF i <= Len(es) THEN es[i] ELSE f[i - Len(es)]
    BY <1>3, ConcatProperties
  <2> QED
    BY <1>3, <2>1
<1>5. n \in Nat /\ DOMAIN es = 1..n /\ DOMAIN t = 1..(n + Len(rs))
  BY <1>4, LenProperties
<1> HIDE DEF t, n
<1>6. /\ \A i \in DOMAIN es : i \in DOMAIN t /\ t[i] = es[i] /\ i <= n
      /\ \A i \in DOMAIN t : i \in DOMAIN es \/ (i - n \in DOMAIN rs /\ t[i] = f[i - n])
      /\ \A i \in DOMAIN rs : i + n \in DOMAIN t /\ t[i + n] = f[i] /\ i + n > n
  BY <1>1, <1>4, <1>5
<1>7. Answered(t) = Answered(es) \cup SeqSet(rs)
  <2>1. ASSUME NEW i \in Results(t) PROVE t[i].request \in Answered(es) \cup SeqSet(rs)
    <3>1. CASE i \in DOMAIN es
      BY <1>6, <2>1, <3>1 DEF Results, Answered
    <3>2. CASE i - n \in DOMAIN rs /\ t[i] = f[i - n]
      BY <1>1, <1>2, <3>2 DEF SeqSet
    <3> QED
      BY <1>6, <3>1, <3>2 DEF Results
  <2>2. ASSUME NEW i \in Results(es) PROVE es[i].request \in Answered(t)
    BY <1>6, <2>2 DEF Results, Answered
  <2>3. ASSUME NEW i \in DOMAIN rs PROVE rs[i] \in Answered(t)
    <3>1. i + n \in Results(t) /\ t[i + n].request = rs[i]
      BY <1>1, <1>2, <1>6 DEF Results
    <3> QED
      BY <3>1 DEF Answered
  <2> QED
    BY <2>1, <2>2, <2>3 DEF Answered, SeqSet
<1>8. AnsweredOnce(t)
  <2> SUFFICES ASSUME NEW i \in Results(t), NEW j \in Results(t), t[i].request = t[j].request
               PROVE  i = j
    BY DEF AnsweredOnce
  <2>1. \A k \in Results(t) : \/ k \in Results(es) /\ t[k] = es[k]
                              \/ k - n \in DOMAIN rs /\ t[k].request = rs[k - n]
    BY <1>1, <1>2, <1>6 DEF Results
  <2>2. \A k \in Results(es) : es[k].request \in Answered(es)
    BY DEF Answered
  <2>3. \A k \in DOMAIN rs : rs[k] \in SeqSet(rs)
    BY DEF SeqSet
  <2>4. CASE i \in Results(es) /\ t[i] = es[i] /\ j \in Results(es) /\ t[j] = es[j]
    BY <2>4 DEF AnsweredOnce
  <2>5. CASE /\ i - n \in DOMAIN rs /\ t[i].request = rs[i - n]
             /\ j - n \in DOMAIN rs /\ t[j].request = rs[j - n]
    <3>1. i - n = j - n
      BY <2>5 DEF Distinct
    <3> QED
      BY <1>5, <3>1 DEF Results
  <2> QED
    BY <2>1, <2>2, <2>3, <2>4, <2>5
<1> QED
  BY <1>4, <1>7, <1>8 DEF t, f

-----------------------------------------------------------------------------
\* No step of the link loses a call or answers one twice.
LEMMA LinkLosesNothing ==
    ASSUME TypeOK, NothingLost, Contract!Link, UNCHANGED ui
    PROVE  NothingLost'
<1> DEFINE C == SeqSet(calls)
           P == SeqSet(InFlight)
           A == Answered(events)
<1>1. /\ calls \in Seq(Requests) /\ events \in Seq(Events) /\ pending \in Seq(Jobs)
      /\ UNCHANGED <<asked, got>>
  BY DEF TypeOK, ui
<1>2. InFlight \in Seq(Requests)
  BY <1>1, InFlightIs DEF InFlight
<1>3. /\ asked = C \cup P \cup A \cup got
      /\ Distinct(calls) /\ Distinct(InFlight) /\ AnsweredOnce(events)
      /\ C \cap P = {} /\ (C \cup P) \cap A = {} /\ (C \cup P \cup A) \cap got = {}
  BY DEF NothingLost
<1>4. calls # <<>> =>
        /\ Head(calls) \in Requests /\ Head(calls) \in C
        /\ SeqSet(Tail(calls)) = C \ {Head(calls)} /\ Distinct(Tail(calls))
  BY <1>1, <1>3, HeadsTyped, Elements, DistinctTail
<1>5. CASE Contract!Refuse
  <2> DEFINE e == CallResult(Head(calls), FALSE)
  <2>1. /\ calls # <<>> /\ calls' = Tail(calls) /\ events' = Append(events, e)
        /\ InFlight' = InFlight
    BY <1>5 DEF Contract!Refuse, CallResult, Contract!CallResult
  <2>2. e \in Events /\ e.type = "CallResult" /\ e.request = Head(calls)
    BY <1>4, <2>1, FramesBuilt DEF CallResult
  <2> HIDE DEF e
  <2>3. Head(calls) \in C /\ Head(calls) \notin A
    BY <1>3, <1>4, <2>1
  <2>4. AnsweredOnce(events') /\ Answered(events') = A \cup {Head(calls)}
    BY <1>1, <1>3, <2>1, <2>2, <2>3, AnsweredAppend
  <2>5. SeqSet(calls') = C \ {Head(calls)} /\ Distinct(calls')
    BY <1>4, <2>1
  <2> HIDE DEF C, P, A
  <2>6. SeqSet(InFlight') = P /\ Distinct(InFlight')
    BY <1>3, <2>1 DEF P
  <2> QED
    BY <1>1, <1>3, <2>3, <2>4, <2>5, <2>6 DEF NothingLost
<1>6. CASE Contract!Accept
  <2>1. /\ calls # <<>> /\ calls' = Tail(calls) /\ events' = events
        /\ InFlight' = Append(InFlight, Head(calls))
    BY <1>6 DEF Contract!Accept
  <2>2. Head(calls) \in C /\ Head(calls) \notin P /\ Head(calls) \in Requests
    BY <1>3, <1>4, <2>1
  <2>3. SeqSet(InFlight') = P \cup {Head(calls)} /\ Distinct(InFlight')
    BY <1>2, <1>3, <2>1, <2>2, Elements, DistinctAppend
  <2>4. SeqSet(calls') = C \ {Head(calls)} /\ Distinct(calls')
    BY <1>4, <2>1
  <2>5. Answered(events') = A /\ AnsweredOnce(events')
    BY <1>3, <2>1
  <2> HIDE DEF C, P, A
  <2> QED
    BY <1>1, <1>3, <2>2, <2>3, <2>4, <2>5 DEF NothingLost
<1>7. CASE Contract!Answer
  <2>1. PICK i \in DOMAIN InFlight, ok \in BOOLEAN :
          /\ InFlight' = Without(InFlight, i)
          /\ events' = Append(events, CallResult(InFlight[i], ok))
    BY <1>7 DEF Contract!Answer, Contract!Without, Without, CallResult, Contract!CallResult
  <2>2. calls' = calls
    BY <1>7 DEF Contract!Answer
  <2> DEFINE r == InFlight[i]
             e == CallResult(r, ok)
  <2>3. r \in P /\ r \in Requests
    BY <1>2, Elements DEF SeqSet
  <2>4. e \in Events /\ e.type = "CallResult" /\ e.request = r
    BY <2>3, FramesBuilt DEF CallResult
  <2>5. SeqSet(InFlight') = P \ {r} /\ Distinct(InFlight')
    BY <1>2, <1>3, <2>1, DistinctWithout
  <2> HIDE DEF e, r
  <2>6. r \notin A
    BY <1>3, <2>3
  <2>7. AnsweredOnce(events') /\ Answered(events') = A \cup {r}
    BY <1>1, <1>3, <2>1, <2>4, <2>6, AnsweredAppend DEF e, r
  <2>8. SeqSet(calls') = C /\ Distinct(calls')
    BY <1>3, <2>2
  <2> HIDE DEF C, P, A
  <2> QED
    BY <1>1, <1>3, <2>3, <2>5, <2>7, <2>8 DEF NothingLost
<1>8. CASE Contract!GoUp
  <2>1. calls' = calls /\ InFlight' = InFlight /\ events' = Append(events, Connected)
    BY <1>8 DEF Contract!GoUp, Connected, Contract!Connected
  <2>2. Connected \in Events /\ Connected.type # "CallResult"
    BY FramesBuilt DEF Connected
  <2>3. AnsweredOnce(events') /\ Answered(events') = A
    BY <1>1, <1>3, <2>1, <2>2, AnsweredAppend
  <2> QED
    BY <1>1, <1>3, <2>1, <2>3 DEF NothingLost
<1>9. CASE Contract!GoDown
  <2>1. PICK rs \in {InFlight, Append(InFlight, Head(calls))} :
          /\ events' = events \o Contract!Failures(rs) \o <<Disconnected>>
          /\ InFlight' = <<>>
          /\ \/ rs = InFlight /\ calls' = calls
             \/ /\ rs = Append(InFlight, Head(calls))
                /\ calls # <<>> /\ calls' = Tail(calls)
    BY <1>9 DEF Contract!GoDown, Disconnected, Contract!Disconnected
  <2>2. /\ rs \in Seq(Requests) /\ Distinct(rs) /\ Distinct(calls')
        /\ SeqSet(rs) \cap SeqSet(calls') = {}
        /\ SeqSet(rs) \cup SeqSet(calls') = C \cup P
    <3>1. CASE rs = InFlight /\ calls' = calls
      BY <1>2, <1>3, <3>1
    <3>2. CASE /\ rs = Append(InFlight, Head(calls))
               /\ calls # <<>> /\ calls' = Tail(calls)
      <4>1. Head(calls) \in Requests /\ Head(calls) \in C /\ Head(calls) \notin P
        BY <1>3, <1>4, <3>2
      <4>2. rs \in Seq(Requests) /\ SeqSet(rs) = P \cup {Head(calls)} /\ Distinct(rs)
        BY <1>2, <1>3, <3>2, <4>1, Elements, DistinctAppend
      <4>3. SeqSet(calls') = C \ {Head(calls)} /\ Distinct(calls')
        BY <1>4, <3>2
      <4> HIDE DEF C, P
      <4> QED
        BY <1>3, <4>1, <4>2, <4>3
    <3> QED
      BY <2>1, <3>1, <3>2
  <2> DEFINE es == events \o Contract!Failures(rs)
  <2>3. SeqSet(rs) \cap A = {}
    BY <1>3, <2>2
  <2>4. es \in Seq(Events) /\ AnsweredOnce(es) /\ Answered(es) = A \cup SeqSet(rs)
    BY <1>1, <1>3, <2>2, <2>3, AnsweredFailures
  <2>5. events' = es \o <<Disconnected>>
    BY <2>1
  <2> HIDE DEF es
  <2>6. Disconnected \in Events /\ Disconnected.type # "CallResult"
    BY FramesBuilt DEF Disconnected
  <2>7. events' = Append(es, Disconnected)
    BY <2>4, <2>5, <2>6, AppendIsConcat
  <2>8. AnsweredOnce(events') /\ Answered(events') = A \cup SeqSet(rs)
    BY <2>4, <2>6, <2>7, AnsweredAppend
  <2>9. SeqSet(InFlight') = {} /\ Distinct(InFlight')
    BY <2>1, NoElements DEF Distinct
  <2> HIDE DEF C, P, A
  <2> QED
    BY <1>1, <1>3, <2>2, <2>8, <2>9 DEF NothingLost
<1> QED
  BY <1>5, <1>6, <1>7, <1>8, <1>9 DEF Contract!Link

\* The UI asks or takes an event, and no call is lost.
LEMMA UiLosesNothing ==
    ASSUME TypeOK, NothingLost, UiAsks \/ UiTakes
    PROVE  NothingLost'
<1>1. /\ calls \in Seq(Requests) /\ events \in Seq(Events)
  BY DEF TypeOK
<1>2. InFlight' = InFlight
  BY DEF UiAsks, UiTakes, session, InFlight
<1>3. CASE UiAsks
  <2>1. PICK r \in Requests \ asked :
          asked' = asked \cup {r} /\ calls' = Append(calls, r)
    BY <1>3 DEF UiAsks
  <2>2. SeqSet(calls') = SeqSet(calls) \cup {r}
    BY <1>1, <2>1, Elements
  <2>3. Distinct(calls')
    BY <1>1, <2>1, DistinctAppend DEF NothingLost
  <2>4. events' = events /\ got' = got
    BY <1>3 DEF UiAsks
  <2> QED
    BY <1>2, <2>1, <2>2, <2>3, <2>4 DEF NothingLost
<1>4. CASE UiTakes
  <2> DEFINE e == Head(events)
  <2>1. /\ events # <<>> /\ events' = Tail(events) /\ calls' = calls /\ asked' = asked
        /\ got' = IF e.type = "CallResult" THEN got \cup {e.request} ELSE got
    BY <1>4 DEF UiTakes
  <2>2. /\ AnsweredOnce(events')
        /\ Answered(events') =
             Answered(events) \ (IF e.type = "CallResult" THEN {e.request} ELSE {})
        /\ e.type = "CallResult" => e.request \in Answered(events)
    BY <1>1, <2>1, AnsweredTail DEF NothingLost
  <2> HIDE DEF e
  <2>3. CASE e.type = "CallResult"
    BY <1>2, <2>1, <2>2, <2>3 DEF NothingLost
  <2>4. CASE e.type # "CallResult"
    BY <1>2, <2>1, <2>2, <2>4 DEF NothingLost
  <2> QED
    BY <2>3, <2>4
<1> QED
  BY <1>3, <1>4

\* serve, fail_pending and the rejecting waits between them: every call of the
\* UI ends in exactly one result, whatever becomes of the connection that
\* carried it.  What the contract's steps do to the queues is all that counts.
THEOREM NoCallIsLost == Spec => []NothingLost
<1>1. Init => NothingLost
  <2> SUFFICES ASSUME Init PROVE NothingLost
    OBVIOUS
  <2>1. calls = <<>> /\ InFlight = <<>> /\ events = <<>> /\ asked = {} /\ got = {}
    BY DEF Init, InFlight
  <2>2. Answered(<<>>) = {} /\ AnsweredOnce(<<>>) /\ Distinct(<<>>)
    BY DEF Answered, Results, AnsweredOnce, Distinct
  <2> QED
    BY <2>1, <2>2, NoElements DEF NothingLost
<1>2. SessionInv /\ NothingLost /\ [Next]_vars => NothingLost'
  <2> SUFFICES ASSUME SessionInv, NothingLost, [Next]_vars PROVE NothingLost'
    OBVIOUS
  <2>1. TypeOK
    BY DEF SessionInv
  <2>2. ASSUME UNCHANGED Contract!contractVars, UNCHANGED ui
        PROVE  NothingLost'
    BY <2>2 DEF Contract!contractVars, ui, NothingLost
  <2>3. CASE UNCHANGED vars
    BY <2>3 DEF vars, session, ui, NothingLost, InFlight
  <2>4. CASE Task
    BY <2>1, <2>2, <2>4, TaskContract, LinkLosesNothing
  <2>5. CASE HomeAssistant
    BY <2>2, <2>5, PeerContract
  <2>6. CASE UiAsks \/ UiTakes
    BY <2>1, <2>6, UiLosesNothing
  <2> QED
    BY <2>3, <2>4, <2>5, <2>6 DEF Next
<1> QED
  BY <1>1, <1>2, SessionInvariant, PTL DEF Spec
=============================================================================
