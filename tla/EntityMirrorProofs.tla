-------------------------- MODULE EntityMirrorProofs --------------------------
(***************************************************************************)
(* Safety of EntityMirror for any finite set of entities, any fields,      *)
(* values and states of them, and queues of any length.                    *)
(***************************************************************************)
EXTENDS EntityMirror, Stepwise, SequenceTheorems, FiniteSetTheorems

\* Either copy takes its next item: the session's a frame, the UI's an event.
Takes(copy, x, item) == IF copy = "session" THEN Merged(x, item) ELSE Taken(x, item)

\* A copy that starts as c and takes the items of s ends as w, and is a state
\* of the world at every point between.
Plays(copy, c, s, w) ==
    \E ws \in [0..Len(s) -> Worlds] :
        /\ ws[0] = c /\ ws[Len(s)] = w
        /\ \A i \in 1..Len(s) : ws[i] = Takes(copy, ws[i - 1], s[i])

-----------------------------------------------------------------------------
\* FoldLeft of a copy over items, which is what NothingMissed is about.
Folds(copy, g, c, s, k) ==
    g = [t \in SUBSET (1..k) |-> IF t = {} THEN c
                                 ELSE Takes(copy, g[t \ {Max(t)}], s[Max(t)])]

\* Max of positions up to k.
LEMMA MaxOfPositions ==
    ASSUME NEW k \in Nat, NEW t \in SUBSET (1..k), t # {}
    PROVE  Max(t) \in t /\ \A j \in t : j <= Max(t)
<1> DEFINE above == {k - j : j \in t}
<1>1. above \subseteq Nat /\ above # {}
  OBVIOUS
<1>2. PICK m \in above : \A a \in above : m <= a
  <2> HIDE DEF above
  <2> QED
    BY <1>1, LeastNatural
<1>3. PICK x \in t : m = k - x
  BY <1>2
<1>4. \A j \in t : j <= x
  BY <1>2, <1>3
<1>5. \E y \in t : \A j \in t : y >= j
  BY <1>3, <1>4
<1> QED
  BY <1>5 DEF Max

\* A fold over the first n items exists: the CHOOSE of FoldLeft picks one.
LEMMA FoldExists ==
    ASSUME NEW copy, NEW c, NEW s, NEW n \in Nat
    PROVE  \E g : Folds(copy, g, c, s, n)
<1> DEFINE Bad == {k \in 0..n : ~\E g : Folds(copy, g, c, s, k)}
<1>1. SUFFICES ASSUME Bad # {} PROVE FALSE
  <2>1. n \in 0..n
    OBVIOUS
  <2> QED
    BY <2>1
<1>2. PICK k \in Bad : \A m \in Bad : k <= m
  <2>1. Bad \subseteq Nat
    OBVIOUS
  <2> HIDE DEF Bad
  <2> QED
    BY <1>1, <2>1, LeastNatural
<1>3. k # 0
  <2> DEFINE g == [t \in SUBSET (1..0) |-> c]
  <2>1. \A t \in SUBSET (1..0) : t = {}
    OBVIOUS
  <2>2. Folds(copy, g, c, s, 0)
    BY <2>1 DEF Folds
  <2> HIDE DEF g
  <2> QED
    BY <1>2, <2>2
<1>4. k \in Nat /\ k - 1 \in Nat /\ k - 1 \in 0..n /\ k - 1 \notin Bad
  <2>1. k \in 0..n
    BY <1>2
  <2>2. k - 1 \in 0..n /\ ~(k <= k - 1)
    BY <1>3, <2>1
  <2> QED
    BY <1>2, <2>1, <2>2
<1>5. PICK f : Folds(copy, f, c, s, k - 1)
  BY <1>4
<1> DEFINE P == SUBSET (1..(k - 1))
           Q == SUBSET (1..k)
           g == [t \in Q |-> IF t \in P THEN f[t] ELSE Takes(copy, f[t \ {k}], s[k])]
<1>6. \A t \in P : t \in Q /\ (t # {} => t \ {Max(t)} \in P)
  <2>1. 1..(k - 1) \subseteq 1..k
    BY <1>4
  <2> QED
    BY <2>1
<1>7. \A t \in Q : t \in P \/ (t # {} /\ Max(t) = k /\ t \ {k} \in P)
  <2> SUFFICES ASSUME NEW t \in Q, t \notin P PROVE t # {} /\ Max(t) = k /\ t \ {k} \in P
    OBVIOUS
  <2>1. \A j \in 1..k : j = k \/ j \in 1..(k - 1)
    BY <1>4
  <2>2. k \in t /\ t \ {k} \in P
    BY <2>1
  <2>3. Max(t) \in t /\ k <= Max(t)
    BY <1>4, <2>2, MaxOfPositions
  <2>4. Max(t) = k
    <3>1. Max(t) \in 1..k
      BY <2>3
    <3> QED
      BY <1>4, <2>3, <3>1
  <2> QED
    BY <2>2, <2>4
<1>8. \A t \in P : f[t] = IF t = {} THEN c ELSE Takes(copy, f[t \ {Max(t)}], s[Max(t)])
  BY <1>5 DEF Folds
<1>9. \A t \in P : g[t] = f[t]
  BY <1>6
<1>10. ASSUME NEW t \in Q
       PROVE  g[t] = IF t = {} THEN c ELSE Takes(copy, g[t \ {Max(t)}], s[Max(t)])
  <2>1. CASE t \in P
    <3>1. t # {} => g[t \ {Max(t)}] = f[t \ {Max(t)}]
      BY <1>6, <1>9, <2>1
    <3> HIDE DEF g, P
    <3> QED
      BY <1>8, <1>9, <2>1, <3>1
  <2>2. CASE t \notin P
    <3>1. t # {} /\ Max(t) = k /\ t \ {k} \in P
      BY <1>7, <2>2
    <3>2. g[t] = Takes(copy, f[t \ {k}], s[k])
      BY <2>2
    <3>3. g[t \ {k}] = f[t \ {k}]
      BY <1>9, <3>1
    <3> HIDE DEF g, P
    <3> QED
      BY <3>1, <3>2, <3>3
  <2> QED
    BY <2>1, <2>2
<1>11. g = [t \in Q |-> g[t]]
  OBVIOUS
<1> HIDE DEF g
<1>12. Folds(copy, g, c, s, k)
  BY <1>10, <1>11 DEF Folds
<1> QED
  BY <1>2, <1>12

\* The fold ends where the play does.
LEMMA FoldIsPlayed ==
    ASSUME NEW copy, NEW c, NEW T, NEW s \in Seq(T), NEW w, Plays(copy, c, s, w), NEW g,
           Folds(copy, g, c, s, Len(s))
    PROVE  g[1..Len(s)] = w
<1> DEFINE n == Len(s)
<1>1. PICK ws \in [0..n -> Worlds] :
        /\ ws[0] = c /\ ws[n] = w
        /\ \A i \in 1..n : ws[i] = Takes(copy, ws[i - 1], s[i])
  BY DEF Plays
<1>2. n \in Nat
  BY LenProperties
<1>3. \A t \in SUBSET (1..n) :
        g[t] = IF t = {} THEN c ELSE Takes(copy, g[t \ {Max(t)}], s[Max(t)])
  BY DEF Folds
<1> DEFINE Bad == {k \in 0..n : g[1..k] # ws[k]}
<1> HIDE DEF n
<1>4. Bad = {}
  <2>1. SUFFICES ASSUME Bad # {} PROVE FALSE
    OBVIOUS
  <2>2. PICK k \in Bad : \A m \in Bad : k <= m
    <3>1. Bad \subseteq Nat
      BY <1>2
    <3> HIDE DEF Bad
    <3> QED
      BY <2>1, <3>1, LeastNatural
  <2>3. k # 0
    <3>1. 1..0 = {} /\ 1..0 \in SUBSET (1..n)
      BY <1>2
    <3>2. g[1..0] = c
      BY <1>3, <3>1
    <3> QED
      BY <1>1, <2>2, <3>2
  <2>4. k \in Nat /\ k \in 1..n /\ k - 1 \in 0..n /\ ~(k <= k - 1)
    BY <1>2, <2>2, <2>3
  <2>5. g[1..(k - 1)] = ws[k - 1]
    BY <2>2, <2>4
  <2>6. 1..k \in SUBSET (1..n) /\ 1..k # {} /\ (1..k) \ {k} = 1..(k - 1) /\ k \in 1..k
    BY <1>2, <2>4
  <2>7. Max(1..k) = k
    <3>1. Max(1..k) \in 1..k /\ k <= Max(1..k)
      BY <2>4, <2>6, MaxOfPositions
    <3> QED
      BY <2>4, <3>1
  <2>8. g[1..k] = Takes(copy, g[1..(k - 1)], s[k])
    BY <1>3, <2>6, <2>7
  <2> QED
    BY <1>1, <2>2, <2>4, <2>5, <2>8
<1> QED
  BY <1>1, <1>2, <1>4 DEF n

\* So what NothingMissed says follows from plays.
LEMMA FoldLeftIsPlayed ==
    ASSUME NEW c, NEW T, NEW s \in Seq(T), NEW w
    PROVE  /\ Plays("session", c, s, w) => FoldLeft(Merged, c, s) = w
           /\ Plays("ui", c, s, w) => FoldLeft(Taken, c, s) = w
<1>1. Len(s) \in Nat /\ DOMAIN s = 1..Len(s)
  BY LenProperties
<1>2. ASSUME Plays("session", c, s, w) PROVE FoldLeft(Merged, c, s) = w
  <2> DEFINE g == CHOOSE h : h = [t \in SUBSET (1..Len(s)) |->
                                    IF t = {} THEN c
                                    ELSE Merged(h[t \ {Max(t)}], s[Max(t)])]
  <2>1. FoldLeft(Merged, c, s) = g[1..Len(s)]
    BY <1>1 DEF FoldLeft, MapThenFoldSet
  <2>2. \E h : h = [t \in SUBSET (1..Len(s)) |->
                      IF t = {} THEN c ELSE Merged(h[t \ {Max(t)}], s[Max(t)])]
    <3>1. PICK h : Folds("session", h, c, s, Len(s))
      BY <1>1, FoldExists
    <3>2. h = [t \in SUBSET (1..Len(s)) |->
                 IF t = {} THEN c ELSE Merged(h[t \ {Max(t)}], s[Max(t)])]
      BY <3>1 DEF Folds, Takes
    <3> QED
      BY <3>2
  <2>3. Folds("session", g, c, s, Len(s))
    BY <2>2 DEF Folds, Takes
  <2> QED
    BY <1>2, <2>1, <2>3, FoldIsPlayed
<1>3. ASSUME Plays("ui", c, s, w) PROVE FoldLeft(Taken, c, s) = w
  <2> DEFINE g == CHOOSE h : h = [t \in SUBSET (1..Len(s)) |->
                                    IF t = {} THEN c
                                    ELSE Taken(h[t \ {Max(t)}], s[Max(t)])]
  <2>1. FoldLeft(Taken, c, s) = g[1..Len(s)]
    BY <1>1 DEF FoldLeft, MapThenFoldSet
  <2>2. \E h : h = [t \in SUBSET (1..Len(s)) |->
                      IF t = {} THEN c ELSE Taken(h[t \ {Max(t)}], s[Max(t)])]
    <3>1. PICK h : Folds("ui", h, c, s, Len(s))
      BY <1>1, FoldExists
    <3>2. h = [t \in SUBSET (1..Len(s)) |->
                 IF t = {} THEN c ELSE Taken(h[t \ {Max(t)}], s[Max(t)])]
      BY <3>1 DEF Folds, Takes
    <3> QED
      BY <3>2
  <2>3. Folds("ui", g, c, s, Len(s))
    BY <2>2 DEF Folds, Takes
  <2> QED
    BY <1>3, <2>1, <2>3, FoldIsPlayed
<1> QED
  BY <1>2, <1>3

-----------------------------------------------------------------------------
\* How plays begin, end and join.
LEMMA PlaysNothing ==
    ASSUME NEW copy, NEW c \in Worlds
    PROVE  Plays(copy, c, <<>>, c)
<1> DEFINE ws == [i \in 0..0 |-> c]
<1>1. Len(<<>>) = 0 /\ ws \in [0..0 -> Worlds] /\ ws[0] = c
  BY EmptySeq
<1>2. \A i \in 1..0 : FALSE
  OBVIOUS
<1> HIDE DEF ws
<1> QED
  BY <1>1, <1>2 DEF Plays

\* A play starts and ends at a state of the world.
LEMMA PlaysEnds ==
    ASSUME NEW copy, NEW c, NEW T, NEW s \in Seq(T), NEW w, Plays(copy, c, s, w)
    PROVE  c \in Worlds /\ w \in Worlds /\ (s = <<>> => c = w)
<1>1. Len(s) \in Nat /\ (s = <<>> => Len(s) = 0)
  BY LenProperties, EmptySeq
<1>2. 0 \in 0..Len(s) /\ Len(s) \in 0..Len(s)
  BY <1>1
<1> QED
  BY <1>1, <1>2 DEF Plays

\* An item queued prolongs a play by what it does to the end.
LEMMA PlaysOneMore ==
    ASSUME NEW copy, NEW c, NEW T, NEW s \in Seq(T), NEW item \in T, NEW v, NEW w \in Worlds,
           Plays(copy, c, s, v), w = Takes(copy, v, item)
    PROVE  Plays(copy, c, Append(s, item), w)
<1> DEFINE n == Len(s)
           u == Append(s, item)
<1>1. PICK ws \in [0..n -> Worlds] :
        /\ ws[0] = c /\ ws[n] = v
        /\ \A i \in 1..n : ws[i] = Takes(copy, ws[i - 1], s[i])
  BY DEF Plays
<1>2. n \in Nat /\ Len(u) = n + 1 /\ u[n + 1] = item /\ \A i \in 1..n : u[i] = s[i]
  BY AppendProperties, LenProperties
<1> DEFINE vs == [i \in 0..(n + 1) |-> IF i = n + 1 THEN w ELSE ws[i]]
<1> HIDE DEF n, u
<1>3. vs \in [0..(n + 1) -> Worlds]
  <2>1. \A i \in 0..(n + 1) : i # n + 1 => i \in 0..n
    BY <1>2
  <2> QED
    BY <2>1
<1>4. vs[0] = c /\ vs[n + 1] = w
  <2>1. 0 \in 0..(n + 1) /\ n + 1 \in 0..(n + 1) /\ 0 # n + 1
    BY <1>2
  <2> QED
    BY <1>1, <2>1
<1>5. ASSUME NEW i \in 1..(n + 1) PROVE vs[i] = Takes(copy, vs[i - 1], u[i])
  <2>1. i \in 0..(n + 1) /\ i - 1 \in 0..(n + 1) /\ i - 1 # n + 1 /\ (i = n + 1 \/ i \in 1..n)
    BY <1>2
  <2>2. vs[i - 1] = ws[i - 1]
    BY <2>1
  <2>3. CASE i = n + 1
    <3>1. i - 1 = n /\ vs[i] = w
      BY <1>2, <2>1, <2>3
    <3> HIDE DEF vs
    <3> QED
      BY <1>1, <1>2, <2>2, <2>3, <3>1
  <2>4. CASE i # n + 1
    <3>1. i \in 1..n /\ vs[i] = ws[i] /\ u[i] = s[i]
      BY <1>2, <2>1, <2>4
    <3> HIDE DEF vs
    <3> QED
      BY <1>1, <2>2, <3>1
  <2> QED
    BY <2>3, <2>4
<1> HIDE DEF vs
<1>6. Plays(copy, c, u, w)
  BY <1>2, <1>3, <1>4, <1>5 DEF Plays
<1> QED
  BY <1>6 DEF u

\* An item taken shortens a play from the front.
LEMMA PlaysOneLess ==
    ASSUME NEW copy, NEW c, NEW T, NEW s \in Seq(T), s # <<>>, NEW w, Plays(copy, c, s, w)
    PROVE  /\ Plays(copy, Takes(copy, c, Head(s)), Tail(s), w)
           /\ Takes(copy, c, Head(s)) \in Worlds
<1> DEFINE n == Len(s)
           u == Tail(s)
<1>1. PICK ws \in [0..n -> Worlds] :
        /\ ws[0] = c /\ ws[n] = w
        /\ \A i \in 1..n : ws[i] = Takes(copy, ws[i - 1], s[i])
  BY DEF Plays
<1>2. n \in Nat \ {0} /\ Len(u) = n - 1 /\ Head(s) = s[1] /\ \A i \in 1..(n - 1) : u[i] = s[i + 1]
  BY HeadTailProperties, EmptySeq
<1> DEFINE vs == [i \in 0..(n - 1) |-> ws[i + 1]]
<1> HIDE DEF n, u
<1>3. vs \in [0..(n - 1) -> Worlds]
  BY <1>2
<1>4. vs[0] = Takes(copy, c, Head(s)) /\ vs[n - 1] = w /\ vs[0] \in Worlds
  <2>1. 0 \in 0..(n - 1) /\ n - 1 \in 0..(n - 1) /\ (n - 1) + 1 = n /\ 1 \in 1..n /\ 0 + 1 = 1
        /\ 1 - 1 = 0
    BY <1>2
  <2>2. vs[0] = ws[1] /\ vs[n - 1] = ws[n]
    BY <2>1
  <2> HIDE DEF vs
  <2> QED
    BY <1>1, <1>2, <1>3, <2>1, <2>2
<1>5. ASSUME NEW i \in 1..(n - 1) PROVE vs[i] = Takes(copy, vs[i - 1], u[i])
  <2>1. i \in 0..(n - 1) /\ i - 1 \in 0..(n - 1) /\ i + 1 \in 1..n /\ (i - 1) + 1 = i
        /\ (i + 1) - 1 = i
    BY <1>2
  <2>2. vs[i] = ws[i + 1] /\ vs[i - 1] = ws[i]
    BY <2>1
  <2> HIDE DEF vs
  <2> QED
    BY <1>1, <1>2, <2>1, <2>2
<1> HIDE DEF vs
<1>6. Plays(copy, vs[0], u, w)
  BY <1>2, <1>3, <1>4, <1>5 DEF Plays
<1> QED
  BY <1>4, <1>6 DEF u

\* Plays join where one ends and the next begins.
LEMMA PlaysOn ==
    ASSUME NEW copy, NEW c, NEW T, NEW s \in Seq(T), NEW v, Plays(copy, c, s, v),
           NEW u \in Seq(T), NEW w, Plays(copy, v, u, w)
    PROVE  Plays(copy, c, s \o u, w)
<1> DEFINE n == Len(s)
           m == Len(u)
           p == s \o u
<1>1. PICK ws \in [0..n -> Worlds] :
        /\ ws[0] = c /\ ws[n] = v
        /\ \A i \in 1..n : ws[i] = Takes(copy, ws[i - 1], s[i])
  BY DEF Plays
<1>2. PICK xs \in [0..m -> Worlds] :
        /\ xs[0] = v /\ xs[m] = w
        /\ \A i \in 1..m : xs[i] = Takes(copy, xs[i - 1], u[i])
  BY DEF Plays
<1>3. n \in Nat /\ m \in Nat /\ Len(p) = n + m
      /\ \A i \in 1..(n + m) : p[i] = IF i <= n THEN s[i] ELSE u[i - n]
  BY ConcatProperties, LenProperties
<1> DEFINE vs == [i \in 0..(n + m) |-> IF i <= n THEN ws[i] ELSE xs[i - n]]
<1> HIDE DEF n, m, p
<1>4. vs \in [0..(n + m) -> Worlds]
  <2>1. \A i \in 0..(n + m) : IF i <= n THEN i \in 0..n ELSE i - n \in 0..m
    BY <1>3
  <2> QED
    BY <2>1
<1>5. vs[0] = c /\ vs[n + m] = w
  <2>1. 0 \in 0..(n + m) /\ n + m \in 0..(n + m) /\ 0 <= n /\ (n + m) - n = m
    BY <1>3
  <2>2. vs[0] = ws[0]
    BY <2>1
  <2>3. CASE m = 0
    <3>1. n + m = n /\ n + m <= n
      BY <1>3, <2>3
    <3>2. vs[n + m] = ws[n]
      BY <2>1, <3>1
    <3> HIDE DEF vs
    <3> QED
      BY <1>1, <1>2, <2>2, <2>3, <3>2
  <2>4. CASE m # 0
    <3>1. ~(n + m <= n)
      BY <1>3, <2>4
    <3>2. vs[n + m] = xs[m]
      BY <2>1, <3>1
    <3> HIDE DEF vs
    <3> QED
      BY <1>1, <1>2, <2>2, <3>2
  <2> QED
    BY <2>3, <2>4
<1>6. ASSUME NEW i \in 1..(n + m) PROVE vs[i] = Takes(copy, vs[i - 1], p[i])
  <2>0. i \in 0..(n + m) /\ i - 1 \in 0..(n + m) /\ i \in Nat
    BY <1>3
  <2>1. CASE i <= n
    <3>1. i - 1 <= n /\ i \in 1..n
      BY <1>3, <2>0, <2>1
    <3>2. vs[i] = ws[i] /\ vs[i - 1] = ws[i - 1] /\ p[i] = s[i]
      BY <1>3, <2>0, <2>1, <3>1
    <3> HIDE DEF vs
    <3> QED
      BY <1>1, <3>1, <3>2
  <2>2. CASE i = n + 1
    <3>1. ~(i <= n) /\ i - 1 <= n /\ i - 1 = n /\ i - n = 1 /\ 1 \in 1..m /\ 1 - 1 = 0
      BY <1>3, <2>0, <2>2
    <3>2. vs[i] = xs[1] /\ vs[i - 1] = ws[n] /\ p[i] = u[1]
      BY <1>3, <2>0, <3>1
    <3> HIDE DEF vs
    <3> QED
      BY <1>1, <1>2, <3>1, <3>2
  <2>3. CASE i > n + 1
    <3>1. ~(i <= n) /\ ~(i - 1 <= n) /\ i - n \in 1..m /\ (i - 1) - n = (i - n) - 1
      BY <1>3, <2>0, <2>3
    <3>2. vs[i] = xs[i - n] /\ vs[i - 1] = xs[(i - n) - 1] /\ p[i] = u[i - n]
      BY <1>3, <2>0, <3>1
    <3> HIDE DEF vs
    <3> QED
      BY <1>2, <3>1, <3>2
  <2> QED
    BY <1>3, <2>0, <2>1, <2>2, <2>3
<1> HIDE DEF vs
<1>7. Plays(copy, c, p, w)
  BY <1>3, <1>4, <1>5, <1>6 DEF Plays
<1> QED
  BY <1>7 DEF p

-----------------------------------------------------------------------------
\* Home Assistant's snapshot and differences, merged, give what it holds.
LEMMA WorldFields ==
    ASSUME NEW w \in Worlds, NEW e \in Subscribed
    PROVE  /\ w[e] = Gone \/ (w[e] \in Bodies /\ w[e] \in [Fields -> Values \cup {NoValue}])
           /\ e \in Present(w) <=> w[e] # Gone
BY BodyAssumption DEF Worlds, Shapes, Present

\* full_state restores an entity from the attributes given.
LEMMA GivenIsFull ==
    ASSUME NEW body \in Shapes
    PROVE  FullState(Given(body)) = body
<1>1. body = [f \in Fields |-> body[f]]
  BY DEF Shapes
<1>2. \A f \in Fields :
        (IF f \in DOMAIN Given(body) THEN Given(body)[f] ELSE NoValue) = body[f]
  BY DEF Given
<1> QED
  BY <1>1, <1>2 DEF FullState

\* apply_diff restores the new state from the old one and the difference.
LEMMA DiffIsApplied ==
    ASSUME NEW old \in Shapes, NEW new \in Shapes
    PROVE  ApplyDiff(old, Diff(old, new)) = new
<1> DEFINE diff == Diff(old, new)
<1>1. DOMAIN diff.plus = {g \in Fields : new[g] # NoValue /\ old[g] # new[g]}
  BY DEF Diff, Given
<1>2. \A f \in DOMAIN diff.plus : diff.plus[f] = new[f]
  BY DEF Diff
<1>3. diff.minus = {g \in Fields : old[g] # NoValue /\ new[g] = NoValue}
  BY DEF Diff, Given
<1> HIDE DEF diff
<1>4. \A f \in Fields : (IF f \in diff.minus THEN NoValue
                         ELSE IF f \in DOMAIN diff.plus THEN diff.plus[f] ELSE old[f]) = new[f]
  BY <1>1, <1>2, <1>3
<1>5. new = [f \in Fields |-> new[f]]
  BY DEF Shapes
<1>6. ApplyDiff(old, diff) = new
  BY <1>4, <1>5 DEF ApplyDiff
<1> QED
  BY <1>6 DEF diff

\* A snapshot merged into nothing is the world.
LEMMA SnapshotMerges ==
    ASSUME NEW w \in Worlds
    PROVE  Merged(Nothing, Snapshot(w)) = w
<1> DEFINE event == Snapshot(w)
<1>1. /\ event.r = {} /\ DOMAIN event.c = {} /\ DOMAIN event.a = Present(w)
      /\ \A e \in Present(w) : event.a[e] = Given(w[e])
  BY DEF Snapshot
<1> HIDE DEF event
<1>2. ASSUME NEW e \in Subscribed PROVE Merged(Nothing, event)[e] = w[e]
  <2>1. CASE w[e] = Gone
    <3>1. e \notin Present(w) /\ Nothing[e] = Gone
      BY <2>1 DEF Present, Nothing
    <3> QED
      BY <1>1, <2>1, <3>1 DEF Merged
  <2>2. CASE w[e] # Gone
    <3>1. e \in Present(w) /\ w[e] \in Shapes
      BY <2>2, WorldFields, BodyAssumption
    <3>2. FullState(event.a[e]) = w[e]
      BY <1>1, <3>1, GivenIsFull
    <3> QED
      BY <1>1, <3>1, <3>2 DEF Merged
  <2> QED
    BY <2>1, <2>2
<1>3. w = [e \in Subscribed |-> w[e]]
  BY DEF Worlds
<1>4. Merged(Nothing, event) = [e \in Subscribed |-> Merged(Nothing, event)[e]]
  BY DEF Merged
<1>5. Merged(Nothing, event) = w
  BY <1>2, <1>3, <1>4
<1> QED
  BY <1>5 DEF event

\* A difference merged into the world it left gives the one it leads to.
LEMMA DifferenceMerges ==
    ASSUME NEW old \in Worlds, NEW new \in Worlds
    PROVE  Merged(old, Difference(old, new)) = new
<1> DEFINE event == Difference(old, new)
<1>1. /\ event.r = Present(old) \ Present(new)
      /\ DOMAIN event.a = Present(new) \ Present(old)
      /\ \A e \in Present(new) \ Present(old) : event.a[e] = Given(new[e])
      /\ DOMAIN event.c = {e \in Present(old) \cap Present(new) : old[e] # new[e]}
      /\ \A e \in DOMAIN event.c : event.c[e] = Diff(old[e], new[e])
  BY DEF Difference
<1> HIDE DEF event
<1>2. ASSUME NEW e \in Subscribed PROVE Merged(old, event)[e] = new[e]
  <2>0. /\ old[e] = Gone \/ old[e] \in Shapes
        /\ new[e] = Gone \/ new[e] \in Shapes
        /\ e \in Present(old) <=> old[e] # Gone
        /\ e \in Present(new) <=> new[e] # Gone
    BY WorldFields, BodyAssumption
  <2>1. Merged(old, event)[e] =
          IF e \in event.r THEN Gone
          ELSE IF e \in DOMAIN event.a THEN FullState(event.a[e])
          ELSE IF e \in DOMAIN event.c
               THEN ApplyDiff(IF old[e] = Gone THEN Blank ELSE old[e], event.c[e])
          ELSE old[e]
    BY DEF Merged
  <2>2. CASE new[e] = Gone
    BY <1>1, <2>0, <2>1, <2>2
  <2>3. CASE new[e] # Gone /\ old[e] = Gone
    <3>1. FullState(event.a[e]) = new[e]
      BY <1>1, <2>0, <2>3, GivenIsFull
    <3> QED
      BY <1>1, <2>0, <2>1, <2>3, <3>1
  <2>4. CASE new[e] # Gone /\ old[e] # Gone /\ old[e] # new[e]
    <3>1. e \in DOMAIN event.c /\ e \notin DOMAIN event.a /\ e \notin event.r
      BY <1>1, <2>0, <2>4
    <3>2. ApplyDiff(old[e], event.c[e]) = new[e]
      BY <1>1, <2>0, <2>4, <3>1, DiffIsApplied
    <3> QED
      BY <2>1, <2>4, <3>1, <3>2
  <2>5. CASE new[e] # Gone /\ old[e] = new[e]
    <3>1. e \notin DOMAIN event.c /\ e \notin DOMAIN event.a /\ e \notin event.r
      BY <1>1, <2>0, <2>5
    <3> QED
      BY <2>1, <2>5, <3>1
  <2> QED
    BY <2>2, <2>3, <2>4, <2>5
<1>3. new = [e \in Subscribed |-> new[e]]
  BY DEF Worlds
<1>4. Merged(old, event) = [e \in Subscribed |-> Merged(old, event)[e]]
  BY DEF Merged
<1>5. Merged(old, event) = new
  BY <1>2, <1>3, <1>4
<1> QED
  BY <1>5 DEF event

-----------------------------------------------------------------------------
\* A finite set as a sequence: its elements, all of them.
LEMMA SetAsSeq ==
    ASSUME NEW S, IsFiniteSet(S)
    PROVE  /\ SetToSeq(S) \in Seq(S)
           /\ \A x \in S : \E i \in 1..Len(SetToSeq(S)) : SetToSeq(S)[i] = x
<1> DEFINE n == Cardinality(S)
           f == SetToSeq(S)
<1>1. n \in Nat /\ ExistsBijection(1..n, S)
  BY FS_CardinalityType
<1>2. \E g \in [1..n -> S] : IsInjective(g)
  BY <1>1 DEF ExistsBijection, Bijection, Injection
<1>3. f \in [1..n -> S] /\ IsInjective(f)
  BY <1>2 DEF SetToSeq
<1>4. f \in Injection(1..n, S)
  BY <1>3 DEF Injection
<1>5. Cardinality(1..n) = n
  <2> HIDE DEF n
  <2> QED
    BY <1>1, FS_Interval
<1>6. f \in Surjection(1..n, S)
  BY <1>4, <1>5, FS_Injection
<1>7. \A x \in S : \E i \in 1..n : f[i] = x
  BY <1>6 DEF Surjection
<1>8. f \in Seq(S) /\ Len(f) = n
  <2> HIDE DEF f, n
  <2>1. f \in Seq(S)
    BY <1>1, <1>3, SeqDef
  <2>2. DOMAIN f = 1..n /\ DOMAIN f = 1..Len(f) /\ Len(f) \in Nat
    BY <1>3, <2>1, LenProperties
  <2> QED
    BY <1>1, <2>1, <2>2
<1> QED
  BY <1>7, <1>8

\* What an event says of its entity.
Says(ev) == IF ev.type = "StateChanged" THEN ev.body ELSE Gone

\* The events the queue holds speak of states Home Assistant gave.
WholeEvents == {ev \in UiEvents : Says(ev) \in Bodies \cup {Gone}}

\* An event for each entity of S, all saying what w says, and no other.
Tells(es, S, w) ==
    /\ es \in Seq(WholeEvents)
    /\ \A i \in DOMAIN es : es[i].entity \in S /\ Says(es[i]) = w[es[i].entity]
    /\ \A e \in S : \E i \in DOMAIN es : es[i].entity = e

\* The part of a report that tells of changes.
Changes(S, w) == LET Changed(e) == StateChanged(e, w[e]) IN ForEach(Changed, S)

\* An event of change for each entity of a set tells of them.
LEMMA TellsChanges ==
    ASSUME NEW S \in SUBSET Subscribed, NEW w \in Worlds
    PROVE  Tells(Changes(S, w), S, w)
<1> DEFINE f == SetToSeq(S)
           n == Len(f)
           es == [i \in 1..n |-> StateChanged(f[i], w[f[i]])]
<1>1. Changes(S, w) = es
  BY DEF Changes, ForEach
<1>2. f \in Seq(S) /\ \A x \in S : \E i \in 1..n : f[i] = x
  BY SubscriptionAssumption, FS_Subset, SetAsSeq
<1>3. n \in Nat /\ \A i \in 1..n : f[i] \in S
  BY <1>2, LenProperties, ElementOfSeq
<1> HIDE DEF f, n
<1>4. \A e \in S : /\ StateChanged(e, w[e]) \in WholeEvents
                   /\ StateChanged(e, w[e]).entity = e
                   /\ Says(StateChanged(e, w[e])) = w[e]
  <2> SUFFICES ASSUME NEW e \in S
               PROVE  /\ StateChanged(e, w[e]) \in WholeEvents
                      /\ StateChanged(e, w[e]).entity = e
                      /\ Says(StateChanged(e, w[e])) = w[e]
    OBVIOUS
  <2>1. w[e] \in Bodies \cup {Gone} /\ w[e] \in Shapes \cup {Gone}
    BY BodyAssumption DEF Worlds
  <2>2. StateChanged(e, w[e]) \in UiEvents
    BY <2>1 DEF StateChanged, UiEvents
  <2>3. Says(StateChanged(e, w[e])) = w[e] /\ StateChanged(e, w[e]).entity = e
    BY DEF StateChanged, Says
  <2> QED
    BY <2>1, <2>2, <2>3 DEF WholeEvents
<1>5. es \in [1..n -> WholeEvents]
  BY <1>3, <1>4
<1>6. es \in Seq(WholeEvents)
  BY <1>3, <1>5, SeqDef
<1>7. \A i \in 1..n : es[i].entity = f[i] /\ Says(es[i]) = w[f[i]]
  BY <1>3, <1>4
<1>8. DOMAIN es = 1..n
  OBVIOUS
<1> HIDE DEF es
<1>9. \A i \in DOMAIN es : es[i].entity \in S /\ Says(es[i]) = w[es[i].entity]
  BY <1>3, <1>7, <1>8
<1>10. \A e \in S : \E i \in DOMAIN es : es[i].entity = e
  BY <1>2, <1>7, <1>8
<1>11. Tells(es, S, w)
  BY <1>6, <1>9, <1>10 DEF Tells
<1> QED
  BY <1>1, <1>11

\* An event of removal for each entity that is gone tells of them.
LEMMA TellsRemovals ==
    ASSUME NEW S \in SUBSET Subscribed, NEW w \in Worlds, \A e \in S : w[e] = Gone
    PROVE  Tells(ForEach(StateRemoved, S), S, w)
<1> DEFINE f == SetToSeq(S)
           n == Len(f)
           es == [i \in 1..n |-> StateRemoved(f[i])]
<1>1. ForEach(StateRemoved, S) = es
  BY DEF ForEach
<1>2. f \in Seq(S) /\ \A x \in S : \E i \in 1..n : f[i] = x
  BY SubscriptionAssumption, FS_Subset, SetAsSeq
<1>3. n \in Nat /\ \A i \in 1..n : f[i] \in S
  BY <1>2, LenProperties, ElementOfSeq
<1> HIDE DEF f, n
<1>4. \A e \in S : /\ StateRemoved(e) \in WholeEvents
                   /\ StateRemoved(e).entity = e
                   /\ Says(StateRemoved(e)) = w[e]
  <2>1. \A e \in S : StateRemoved(e) \in UiEvents
    BY DEF StateRemoved, UiEvents
  <2>2. \A e \in S : Says(StateRemoved(e)) = Gone /\ StateRemoved(e).entity = e
    BY DEF StateRemoved, Says
  <2> QED
    BY <2>1, <2>2 DEF WholeEvents
<1>5. es \in [1..n -> WholeEvents]
  BY <1>3, <1>4
<1>6. es \in Seq(WholeEvents)
  BY <1>3, <1>5, SeqDef
<1>7. \A i \in 1..n : es[i].entity = f[i] /\ Says(es[i]) = w[f[i]]
  BY <1>3, <1>4
<1>8. DOMAIN es = 1..n
  OBVIOUS
<1> HIDE DEF es
<1>9. \A i \in DOMAIN es : es[i].entity \in S /\ Says(es[i]) = w[es[i].entity]
  BY <1>3, <1>7, <1>8
<1>10. \A e \in S : \E i \in DOMAIN es : es[i].entity = e
  BY <1>2, <1>7, <1>8
<1>11. Tells(es, S, w)
  BY <1>6, <1>9, <1>10 DEF Tells
<1> QED
  BY <1>1, <1>11

\* Reports join.
LEMMA TellsBoth ==
    ASSUME NEW es, NEW S, NEW fs, NEW U, NEW w, Tells(es, S, w), Tells(fs, U, w)
    PROVE  Tells(es \o fs, S \cup U, w)
<1> DEFINE p == es \o fs
<1>1. /\ Len(es) \in Nat /\ Len(fs) \in Nat
      /\ DOMAIN es = 1..Len(es) /\ DOMAIN fs = 1..Len(fs)
  BY LenProperties DEF Tells
<1>2. /\ p \in Seq(WholeEvents) /\ Len(p) = Len(es) + Len(fs)
      /\ \A i \in 1..(Len(es) + Len(fs)) : p[i] = IF i <= Len(es) THEN es[i] ELSE fs[i - Len(es)]
  BY ConcatProperties DEF Tells
<1>3. DOMAIN p = 1..(Len(es) + Len(fs))
  BY <1>2, LenProperties
<1> HIDE DEF p
<1>4. ASSUME NEW i \in DOMAIN p PROVE p[i].entity \in S \cup U /\ Says(p[i]) = w[p[i].entity]
  <2>1. CASE i <= Len(es)
    <3>1. i \in DOMAIN es /\ p[i] = es[i]
      BY <1>1, <1>2, <1>3, <2>1
    <3> QED
      BY <3>1 DEF Tells
  <2>2. CASE ~(i <= Len(es))
    <3>1. i - Len(es) \in DOMAIN fs /\ p[i] = fs[i - Len(es)]
      BY <1>1, <1>2, <1>3, <2>2
    <3> QED
      BY <3>1 DEF Tells
  <2> QED
    BY <2>1, <2>2
<1>5. ASSUME NEW e \in S \cup U PROVE \E i \in DOMAIN p : p[i].entity = e
  <2>1. CASE e \in S
    <3>1. PICK i \in DOMAIN es : es[i].entity = e
      BY <2>1 DEF Tells
    <3>2. i \in DOMAIN p /\ p[i] = es[i]
      BY <1>1, <1>2, <1>3
    <3> QED
      BY <3>1, <3>2
  <2>2. CASE e \in U
    <3>1. PICK i \in DOMAIN fs : fs[i].entity = e
      BY <2>2 DEF Tells
    <3>2. /\ i + Len(es) \in DOMAIN p /\ ~(i + Len(es) <= Len(es))
          /\ (i + Len(es)) - Len(es) = i
      BY <1>1, <1>3
    <3>3. p[i + Len(es)] = fs[i]
      BY <1>2, <1>3, <3>2
    <3> QED
      BY <3>1, <3>2, <3>3
  <2> QED
    BY <2>1, <2>2
<1>6. Tells(p, S \cup U, w)
  BY <1>2, <1>4, <1>5 DEF Tells
<1> QED
  BY <1>6 DEF p

\* Events that tell of every entity in which a map differs from w, in whatever
\* order and however often, make the map w.
LEMMA TellingPlays ==
    ASSUME NEW es, NEW S, NEW v \in Worlds, NEW w \in Worlds, Tells(es, S, w),
           \A e \in Subscribed \ S : v[e] = w[e]
    PROVE  Plays("ui", v, es, w)
<1> DEFINE n == Len(es)
           told(k, e) == \E i \in 1..k : es[i].entity = e
           ws == [k \in 0..n |-> [e \in Subscribed |-> IF told(k, e) THEN w[e] ELSE v[e]]]
<1>1. n \in Nat /\ DOMAIN es = 1..n /\ \A i \in 1..n : es[i] \in UiEvents
  BY LenProperties, ElementOfSeq DEF Tells, WholeEvents
<1>2. \A i \in 1..n : es[i].entity \in Subscribed
  BY <1>1 DEF UiEvents
<1>3. v = [e \in Subscribed |-> v[e]] /\ w = [e \in Subscribed |-> w[e]]
      /\ \A e \in Subscribed : v[e] \in Bodies \cup {Gone} /\ w[e] \in Bodies \cup {Gone}
  BY DEF Worlds
<1> HIDE DEF n
<1>4. ws \in [0..n -> Worlds]
  <2>1. \A k \in 0..n : [e \in Subscribed |-> IF told(k, e) THEN w[e] ELSE v[e]] \in Worlds
    BY <1>3 DEF Worlds
  <2> HIDE DEF told
  <2> QED
    BY <2>1
<1>5. ws[0] = v
  <2>1. \A e : ~told(0, e)
    BY <1>1
  <2>2. ws[0] = [e \in Subscribed |-> IF told(0, e) THEN w[e] ELSE v[e]]
    BY <1>1
  <2> HIDE DEF told, ws
  <2> QED
    BY <1>3, <2>1, <2>2
<1>6. ws[n] = w
  <2>1. \A e \in Subscribed : told(n, e) \/ v[e] = w[e]
    BY <1>1 DEF Tells
  <2>2. ws[n] = [e \in Subscribed |-> IF told(n, e) THEN w[e] ELSE v[e]]
    BY <1>1
  <2> HIDE DEF told, ws
  <2> QED
    BY <1>3, <2>1, <2>2
<1>7. ASSUME NEW i \in 1..n PROVE ws[i] = Takes("ui", ws[i - 1], es[i])
  <2>1. i \in 0..n /\ i - 1 \in 0..n /\ i \in Nat
    BY <1>1
  <2>2. /\ ws[i] = [e \in Subscribed |-> IF told(i, e) THEN w[e] ELSE v[e]]
        /\ ws[i - 1] = [e \in Subscribed |-> IF told(i - 1, e) THEN w[e] ELSE v[e]]
    BY <2>1
  <2>3. \A e : told(i, e) <=> (told(i - 1, e) \/ e = es[i].entity)
    <3>1. \A j : j \in 1..i <=> (j \in 1..(i - 1) \/ j = i)
      BY <2>1
    <3> QED
      BY <3>1
  <2>4. Says(es[i]) = w[es[i].entity] /\ es[i].entity \in Subscribed
    BY <1>1, <1>2 DEF Tells
  <2>5. Takes("ui", ws[i - 1], es[i]) = [ws[i - 1] EXCEPT ![es[i].entity] = w[es[i].entity]]
    BY <2>4 DEF Takes, Taken, Says
  <2> HIDE DEF told, ws
  <2> QED
    BY <2>2, <2>3, <2>4, <2>5
<1> HIDE DEF ws, told
<1> QED
  BY <1>4, <1>5, <1>6, <1>7 DEF Plays, n

-----------------------------------------------------------------------------
\* What a frame merges and reports.
LEMMA FrameParts ==
    ASSUME NEW event \in Frames
    PROVE  /\ DOMAIN event.a \subseteq Subscribed /\ DOMAIN event.c \subseteq Subscribed
           /\ event.r \subseteq Subscribed
<1>1. CASE \E w \in Worlds : event = Snapshot(w)
  BY <1>1 DEF Snapshot, Present
<1>2. CASE \E old, new \in Worlds : event = Difference(old, new)
  BY <1>2 DEF Difference, Present
<1> QED
  BY <1>1, <1>2 DEF Frames

\* A report tells of every entity the frame names, and the copy keeps the others.
LEMMA ReportTells ==
    ASSUME NEW event \in Frames, NEW copy \in Worlds, NEW after \in Worlds,
           after = Merged(copy, event)
    PROVE  \E S \in SUBSET Subscribed :
             /\ DOMAIN event.a \subseteq S
             /\ Tells(Report(after, event), S, after)
             /\ \A e \in Subscribed \ S : copy[e] = after[e]
<1> DEFINE A == DOMAIN event.a \cap Subscribed
           C == DOMAIN event.c \cap Subscribed
           R == event.r \cap Subscribed
<1>1. Report(after, event) = Changes(A, after) \o Changes(C, after) \o ForEach(StateRemoved, R)
  BY DEF Report, Changes, ForEach
<1>2. Tells(Changes(A, after), A, after) /\ Tells(Changes(C, after), C, after)
  BY TellsChanges
<1>3. Tells(ForEach(StateRemoved, R), R, after)
  <2>1. \A e \in R : after[e] = Gone
    BY DEF Merged
  <2> QED
    BY <2>1, TellsRemovals
<1>4. \A e \in Subscribed \ (A \cup C \cup R) : copy[e] = after[e]
  BY DEF Merged
<1>5. DOMAIN event.a \subseteq A
  BY FrameParts
<1>6. A \cup C \cup R \in SUBSET Subscribed
  OBVIOUS
<1> HIDE DEF A, C, R
<1>7. Tells(Changes(A, after) \o Changes(C, after), A \cup C, after)
  BY <1>2, TellsBoth
<1>8. Tells(Report(after, event), A \cup C \cup R, after)
  BY <1>1, <1>3, <1>7, TellsBoth
<1> QED
  BY <1>4, <1>5, <1>6, <1>8

\* With what it lacks, a snapshot's report tells of every entity.
LEMMA SnapshotTells ==
    ASSUME NEW w \in Worlds
    PROVE  /\ Tells(Report(w, Snapshot(w)) \o MissingFromSnapshot(Snapshot(w)), Subscribed, w)
           /\ Report(w, Snapshot(w)) \in Seq(WholeEvents)
           /\ MissingFromSnapshot(Snapshot(w)) \in Seq(WholeEvents)
<1> DEFINE event == Snapshot(w)
           missing == Subscribed \ Present(w)
<1>1. event \in Frames /\ DOMAIN event.a = Present(w) /\ Present(w) \subseteq Subscribed
  <2>1. event \in Frames
    BY DEF Frames
  <2>2. DOMAIN event.a = Present(w)
    BY DEF Snapshot
  <2> QED
    BY <2>1, <2>2 DEF Present
<1>2. Nothing \in Worlds /\ w = Merged(Nothing, event)
  BY SnapshotMerges DEF Worlds, Nothing
<1>3. PICK S \in SUBSET Subscribed :
        DOMAIN event.a \subseteq S /\ Tells(Report(w, event), S, w)
  <2> HIDE DEF event
  <2> QED
    BY <1>1, <1>2, ReportTells
<1>4. MissingFromSnapshot(event) = ForEach(StateRemoved, missing)
  BY <1>1 DEF MissingFromSnapshot
<1>5. Tells(ForEach(StateRemoved, missing), missing, w)
  <2>1. \A e \in missing : w[e] = Gone
    BY DEF Present
  <2> QED
    BY <2>1, TellsRemovals
<1>6. S \cup missing = Subscribed
  BY <1>1, <1>3
<1> HIDE DEF event, missing
<1>7. Tells(Report(w, event) \o ForEach(StateRemoved, missing), S \cup missing, w)
  BY <1>3, <1>5, TellsBoth
<1>8. Tells(Report(w, event) \o MissingFromSnapshot(event), Subscribed, w)
  BY <1>4, <1>6, <1>7
<1>9. Report(w, event) \in Seq(WholeEvents) /\ MissingFromSnapshot(event) \in Seq(WholeEvents)
  BY <1>3, <1>4, <1>5 DEF Tells
<1> QED
  BY <1>8, <1>9 DEF event

-----------------------------------------------------------------------------
\* Every copy is a state of the world.
CopiesFit ==
    /\ world \in Worlds /\ entities \in Worlds /\ view \in Worlds
    /\ frames \in Seq(Frames) /\ events \in Seq(WholeEvents)

\* A subscription lives on a connection, and its frames with it.
LinkFits ==
    /\ up \in BOOLEAN /\ streaming \in BOOLEAN /\ snapshotPending \in BOOLEAN
    /\ streaming => up
    /\ ~streaming => frames = <<>>
    /\ up /\ ~streaming => snapshotPending

\* A session starts from nothing, and what it is sent first is the snapshot.
SnapshotFirst ==
    snapshotPending =>
        /\ entities = Nothing
        /\ streaming => frames # <<>> /\ \E w \in Worlds : Head(frames) = Snapshot(w)

\* The frames in flight take the session's copy to the world, state by state.
SessionCatchesUp == streaming => Plays("session", entities, frames, world)

\* The queued events take the UI's map from one state of the world to another,
\* from the snapshot on to the session's copy.
ViewCatchesUp ==
    \E v \in Worlds : /\ Plays("ui", view, events, v)
                      /\ ~snapshotPending => v = entities

MirrorInv == CopiesFit /\ LinkFits /\ SnapshotFirst /\ SessionCatchesUp /\ ViewCatchesUp

\* A fresh session's copy is a state of the world, an empty one.
LEMMA NothingIsAWorld == Nothing \in Worlds
BY DEF Nothing, Worlds

\* Initially nothing is in flight.
LEMMA MirrorInit == Init => MirrorInv
<1> SUFFICES ASSUME Init PROVE MirrorInv
  OBVIOUS
<1>1. CopiesFit
  BY NothingIsAWorld, EmptySeq DEF Init, CopiesFit
<1>2. LinkFits /\ SnapshotFirst /\ SessionCatchesUp
  BY DEF Init, LinkFits, SnapshotFirst, SessionCatchesUp
<1>3. ViewCatchesUp
  BY NothingIsAWorld, PlaysNothing DEF Init, ViewCatchesUp
<1> QED
  BY <1>1, <1>2, <1>3 DEF MirrorInv

\* A new connection starts from nothing; the UI's map and its queue outlive it.
LEMMA ConnectKeeps == MirrorInv /\ Connect => MirrorInv'
<1> SUFFICES ASSUME MirrorInv, Connect PROVE MirrorInv'
  OBVIOUS
<1>1. CopiesFit'
  BY NothingIsAWorld DEF MirrorInv, CopiesFit, Connect
<1>2. LinkFits' /\ SnapshotFirst' /\ SessionCatchesUp'
  BY DEF MirrorInv, LinkFits, SnapshotFirst, SessionCatchesUp, Connect
<1>3. ViewCatchesUp'
  BY DEF MirrorInv, ViewCatchesUp, Connect
<1> QED
  BY <1>1, <1>2, <1>3 DEF MirrorInv

\* A link that ends takes the frames in flight with it.
LEMMA DropKeeps == MirrorInv /\ Drop => MirrorInv'
<1> SUFFICES ASSUME MirrorInv, Drop PROVE MirrorInv'
  OBVIOUS
<1>1. CopiesFit'
  BY EmptySeq DEF MirrorInv, CopiesFit, Drop, task
<1>2. LinkFits' /\ SnapshotFirst' /\ SessionCatchesUp'
  BY DEF MirrorInv, LinkFits, SnapshotFirst, SessionCatchesUp, Drop, task
<1>3. ViewCatchesUp'
  BY DEF MirrorInv, ViewCatchesUp, Drop, task
<1> QED
  BY <1>1, <1>2, <1>3 DEF MirrorInv

\* on_event: what is reported takes the UI's map to the merged copy, from any
\* earlier one if it is the snapshot, else from the copy before.
LEMMA OnEventKeeps == MirrorInv /\ OnEvent => MirrorInv'
<1> SUFFICES ASSUME MirrorInv, OnEvent PROVE MirrorInv'
  OBVIOUS
<1> DEFINE event == Head(frames)
           after == Merged(entities, event)
           isSnapshot == snapshotPending /\ event.full
           told == Report(after, event)
                     \o (IF isSnapshot THEN MissingFromSnapshot(event) ELSE <<>>)
<1>1. /\ frames # <<>> /\ frames' = Tail(frames)
      /\ entities' = after
      /\ snapshotPending' = (snapshotPending /\ ~isSnapshot)
      /\ UNCHANGED <<world, up, streaming, view>>
  BY DEF OnEvent
<1>2. events' = (events \o Report(after, event))
                  \o (IF isSnapshot THEN MissingFromSnapshot(event) ELSE <<>>)
  BY DEF OnEvent
<1>3. /\ frames \in Seq(Frames) /\ events \in Seq(WholeEvents)
      /\ entities \in Worlds /\ view \in Worlds /\ world \in Worlds
  BY DEF MirrorInv, CopiesFit
<1>4. streaming /\ up
  BY <1>1 DEF MirrorInv, LinkFits
<1>5. event \in Frames /\ Tail(frames) \in Seq(Frames)
  BY <1>1, <1>3, HeadTailProperties
<1>6. Plays("session", after, Tail(frames), world) /\ after \in Worlds
  <2>1. Plays("session", entities, frames, world)
    BY <1>4 DEF MirrorInv, SessionCatchesUp
  <2> QED
    BY <1>1, <1>3, <2>1, PlaysOneLess DEF Takes
<1>7. PICK v \in Worlds : Plays("ui", view, events, v) /\ (~snapshotPending => v = entities)
  BY DEF MirrorInv, ViewCatchesUp
<1>8. /\ told \in Seq(WholeEvents) /\ Plays("ui", v, told, after)
      /\ events' = events \o told /\ ~snapshotPending'
  <2>1. CASE snapshotPending
    <3>1. PICK w \in Worlds : event = Snapshot(w)
      BY <1>4, <2>1 DEF MirrorInv, SnapshotFirst
    <3>2. event.full = TRUE
      BY <3>1 DEF Snapshot
    <3>3. after = w
      BY <2>1, <3>1, SnapshotMerges DEF MirrorInv, SnapshotFirst
    <3>4. told = Report(w, Snapshot(w)) \o MissingFromSnapshot(Snapshot(w))
      BY <2>1, <3>1, <3>2, <3>3
    <3>5. Tells(told, Subscribed, after)
      <4> HIDE DEF told, after
      <4> QED
        BY <3>3, <3>4, SnapshotTells
    <3>6. Plays("ui", v, told, after) /\ told \in Seq(WholeEvents)
      <4> HIDE DEF told, after
      <4> QED
        BY <1>6, <3>5, TellingPlays DEF Tells
    <3>7. Report(after, event) \in Seq(WholeEvents) /\ MissingFromSnapshot(event) \in Seq(WholeEvents)
      <4> HIDE DEF after
      <4> QED
        BY <3>1, <3>3, SnapshotTells
    <3>8. events' = (events \o Report(after, event)) \o MissingFromSnapshot(event)
          /\ told = Report(after, event) \o MissingFromSnapshot(event)
      BY <1>2, <2>1, <3>2
    <3>9. events' = events \o told
      <4> HIDE DEF told, after, event
      <4> QED
        BY <1>3, <3>7, <3>8, ConcatAssociative
    <3>10. ~snapshotPending'
      BY <1>1, <2>1, <3>2
    <3> QED
      BY <3>6, <3>9, <3>10
  <2>2. CASE ~snapshotPending
    <3>1. PICK S \in SUBSET Subscribed :
            /\ Tells(Report(after, event), S, after)
            /\ \A e \in Subscribed \ S : entities[e] = after[e]
      <4> HIDE DEF event
      <4> QED
        BY <1>3, <1>5, <1>6, ReportTells
    <3>2. Report(after, event) \in Seq(WholeEvents)
      BY <3>1 DEF Tells
    <3>3. told = Report(after, event)
      BY <2>2, <3>2, ConcatEmptySeq
    <3>4. Plays("ui", v, told, after)
      <4> HIDE DEF told, after
      <4> QED
        BY <1>6, <1>7, <2>2, <3>1, <3>3, TellingPlays
    <3>5. events' = events \o told
      <4>1. events' = (events \o Report(after, event)) \o <<>>
        BY <1>2, <2>2
      <4>2. events \o Report(after, event) \in Seq(WholeEvents)
        <5> HIDE DEF after, event
        <5> QED
          BY <1>3, <3>2, ConcatProperties
      <4> HIDE DEF told, after, event
      <4> QED
        BY <3>3, <4>1, <4>2, ConcatEmptySeq
    <3>6. told \in Seq(WholeEvents) /\ ~snapshotPending'
      BY <1>1, <2>2, <3>2, <3>3
    <3> QED
      BY <3>4, <3>5, <3>6
  <2> QED
    BY <2>1, <2>2
<1> HIDE DEF told, after, isSnapshot, event
<1>9. events' \in Seq(WholeEvents)
  BY <1>3, <1>8, ConcatProperties
<1>10. Plays("ui", view, events', after)
  BY <1>3, <1>7, <1>8, PlaysOn
<1>11. CopiesFit'
  BY <1>1, <1>3, <1>5, <1>6, <1>9 DEF CopiesFit
<1>12. LinkFits' /\ SnapshotFirst'
  BY <1>1, <1>4, <1>8 DEF LinkFits, SnapshotFirst, MirrorInv
<1>13. SessionCatchesUp'
  BY <1>1, <1>6 DEF SessionCatchesUp
<1>14. ViewCatchesUp'
  BY <1>1, <1>6, <1>10 DEF ViewCatchesUp
<1> QED
  BY <1>11, <1>12, <1>13, <1>14 DEF MirrorInv

\* The UI takes an event, and gets one state further.
LEMMA UiTakesKeeps == MirrorInv /\ UiTakes => MirrorInv'
<1> SUFFICES ASSUME MirrorInv, UiTakes PROVE MirrorInv'
  OBVIOUS
<1>1. /\ events # <<>> /\ events' = Tail(events)
      /\ view' = Takes("ui", view, Head(events))
      /\ UNCHANGED <<world, up, streaming, frames, entities, snapshotPending>>
  BY DEF UiTakes, Takes, link, task
<1>2. PICK v \in Worlds : Plays("ui", view, events, v) /\ (~snapshotPending => v = entities)
  BY DEF MirrorInv, ViewCatchesUp
<1>3. events \in Seq(WholeEvents) /\ Tail(events) \in Seq(WholeEvents)
  BY <1>1, HeadTailProperties DEF MirrorInv, CopiesFit
<1>4. Plays("ui", view', events', v) /\ view' \in Worlds
  BY <1>1, <1>2, <1>3, PlaysOneLess
<1>5. CopiesFit'
  BY <1>1, <1>3, <1>4 DEF MirrorInv, CopiesFit
<1>6. LinkFits' /\ SnapshotFirst' /\ SessionCatchesUp'
  BY <1>1 DEF MirrorInv, LinkFits, SnapshotFirst, SessionCatchesUp
<1>7. ViewCatchesUp'
  BY <1>1, <1>2, <1>4 DEF ViewCatchesUp
<1> QED
  BY <1>5, <1>6, <1>7 DEF MirrorInv

\* A restarted process has empty copies and empty queues.
LEMMA CrashKeeps == MirrorInv /\ Crash => MirrorInv'
<1> SUFFICES ASSUME MirrorInv, Crash PROVE MirrorInv'
  OBVIOUS
<1>1. CopiesFit'
  BY NothingIsAWorld, EmptySeq DEF MirrorInv, CopiesFit, Crash
<1>2. LinkFits' /\ SnapshotFirst' /\ SessionCatchesUp'
  BY DEF LinkFits, SnapshotFirst, SessionCatchesUp, Crash
<1>3. ViewCatchesUp'
  BY NothingIsAWorld, PlaysNothing DEF Crash, ViewCatchesUp
<1> QED
  BY <1>1, <1>2, <1>3 DEF MirrorInv

\* The first frame of a subscription leads from nothing to the world.
LEMMA HaSubscribesKeeps == MirrorInv /\ HaSubscribes => MirrorInv'
<1> SUFFICES ASSUME MirrorInv, HaSubscribes PROVE MirrorInv'
  OBVIOUS
<1>1. /\ up /\ ~streaming /\ streaming' = TRUE
      /\ frames' = <<Snapshot(world)>>
      /\ UNCHANGED <<world, up, entities, snapshotPending, events, view>>
  BY DEF HaSubscribes, task
<1>2. world \in Worlds /\ snapshotPending /\ entities = Nothing
  BY <1>1 DEF MirrorInv, CopiesFit, LinkFits, SnapshotFirst
<1> DEFINE frame == Snapshot(world)
<1>3. frame \in Frames
  BY <1>2 DEF Frames
<1>4. frame = Snapshot(world)
  OBVIOUS
<1> HIDE DEF frame
<1>5. /\ frames' = Append(<<>>, frame) /\ frames' \in Seq(Frames)
      /\ frames' # <<>> /\ Head(frames') = frame
  BY <1>1, <1>3, <1>4
<1>6. Plays("session", entities, frames', world)
  <2>1. <<>> \in Seq(Frames) /\ Plays("session", entities, <<>>, entities)
    BY <1>2, NothingIsAWorld, PlaysNothing, EmptySeq
  <2>2. world = Takes("session", entities, frame)
    BY <1>2, <1>4, SnapshotMerges DEF Takes
  <2> QED
    BY <1>2, <1>3, <1>5, <2>1, <2>2, PlaysOneMore
<1>7. CopiesFit'
  BY <1>1, <1>5 DEF MirrorInv, CopiesFit
<1>8. LinkFits'
  BY <1>1 DEF MirrorInv, LinkFits
<1>9. SnapshotFirst'
  BY <1>1, <1>2, <1>4, <1>5 DEF SnapshotFirst
<1>10. SessionCatchesUp'
  BY <1>1, <1>6 DEF SessionCatchesUp
<1>11. ViewCatchesUp'
  BY <1>1 DEF MirrorInv, ViewCatchesUp
<1> QED
  BY <1>7, <1>8, <1>9, <1>10, <1>11 DEF MirrorInv

\* A change of the world is sent to whoever listens.
LEMMA HaChangesKeeps == MirrorInv /\ HaChanges => MirrorInv'
<1> SUFFICES ASSUME MirrorInv, HaChanges PROVE MirrorInv'
  OBVIOUS
<1> DEFINE frame == Difference(world, world')
<1>1. /\ world' \in Worlds
      /\ frames' = IF streaming THEN Append(frames, frame) ELSE frames
      /\ UNCHANGED <<up, streaming, entities, snapshotPending, events, view>>
  BY DEF HaChanges, task
<1>2. world \in Worlds /\ frames \in Seq(Frames)
  BY DEF MirrorInv, CopiesFit
<1>3. frame \in Frames
  BY <1>1, <1>2 DEF Frames
<1>4. world' = Takes("session", world, frame)
  BY <1>1, <1>2, DifferenceMerges DEF Takes
<1> HIDE DEF frame
<1>5. frames' \in Seq(Frames)
  BY <1>1, <1>2, <1>3, AppendProperties
<1>6. SessionCatchesUp'
  <2> SUFFICES ASSUME streaming PROVE Plays("session", entities, frames', world')
    BY <1>1 DEF SessionCatchesUp
  <2>1. Plays("session", entities, frames, world)
    BY DEF MirrorInv, SessionCatchesUp
  <2>2. frames' = Append(frames, frame)
    BY <1>1
  <2> QED
    BY <1>1, <1>2, <1>3, <1>4, <2>1, <2>2, PlaysOneMore
<1>7. frames # <<>> => frames' # <<>> /\ Head(frames') = Head(frames)
  BY <1>1, <1>2, <1>3, AppendProperties
<1>8. CopiesFit'
  BY <1>1, <1>5 DEF MirrorInv, CopiesFit
<1>9. LinkFits'
  BY <1>1 DEF MirrorInv, LinkFits
<1>10. SnapshotFirst'
  BY <1>1, <1>7 DEF MirrorInv, SnapshotFirst
<1>11. ViewCatchesUp'
  BY <1>1 DEF MirrorInv, ViewCatchesUp
<1> QED
  BY <1>6, <1>8, <1>9, <1>10, <1>11 DEF MirrorInv

\* Every step preserves the invariant.
LEMMA MirrorStep == MirrorInv /\ [Next]_vars => MirrorInv'
<1> SUFFICES ASSUME MirrorInv, [Next]_vars PROVE MirrorInv'
  OBVIOUS
<1>1. CASE UNCHANGED vars
  BY <1>1 DEF vars, link, task, MirrorInv, CopiesFit, LinkFits, SnapshotFirst,
              SessionCatchesUp, ViewCatchesUp
<1> QED
  BY <1>1, ConnectKeeps, DropKeeps, OnEventKeeps, UiTakesKeeps, CrashKeeps,
     HaSubscribesKeeps, HaChangesKeeps DEF Next

\* In every reachable state the frames in flight and the queued events lead,
\* through states of the world only, to what Home Assistant holds.
THEOREM MirrorInvariant == Spec => []MirrorInv
BY MirrorInit, MirrorStep, PTL DEF Spec

\* The mirror is well typed.
THEOREM TypeCorrect == Spec => []TypeOK
<1>1. MirrorInv => TypeOK
  <2> SUFFICES ASSUME MirrorInv PROVE TypeOK
    OBVIOUS
  <2>1. \A w \in Worlds : w \in [Subscribed -> Shapes \cup {Gone}]
    BY BodyAssumption DEF Worlds
  <2>2. events \in Seq(UiEvents)
    <3>1. events \in Seq(WholeEvents) /\ WholeEvents \subseteq UiEvents
      BY DEF MirrorInv, CopiesFit, WholeEvents
    <3> QED
      BY <3>1, LenProperties, ElementOfSeq, SeqDef
  <2> QED
    BY <2>1, <2>2 DEF MirrorInv, CopiesFit, LinkFits, TypeOK
<1> QED
  BY <1>1, MirrorInvariant, PTL

\* on_event, missing_from_snapshot and the UI's map miss nothing, whatever the
\* order of changes, reconnects and deliveries, and however many are in flight.
THEOREM NothingIsMissed == Spec => []NothingMissed
<1>1. MirrorInv => NothingMissed
  <2> SUFFICES ASSUME MirrorInv PROVE NothingMissed
    OBVIOUS
  <2>1. frames \in Seq(Frames) /\ events \in Seq(WholeEvents)
    BY DEF MirrorInv, CopiesFit
  <2>2. streaming => FoldLeft(Merged, entities, frames) = world
    <3>1. streaming => Plays("session", entities, frames, world)
      BY DEF MirrorInv, SessionCatchesUp
    <3> QED
      BY <2>1, <3>1, FoldLeftIsPlayed
  <2>3. ~snapshotPending => FoldLeft(Taken, view, events) = entities
    <3>1. ~snapshotPending => Plays("ui", view, events, entities)
      BY DEF MirrorInv, ViewCatchesUp
    <3> QED
      BY <2>1, <3>1, FoldLeftIsPlayed
  <2> QED
    BY <2>2, <2>3 DEF NothingMissed
<1> QED
  BY <1>1, MirrorInvariant, PTL

\* No widget is ever drawn from an entity half merged.
THEOREM OnlyWholeShown == Spec => []ShownIsWhole
<1>1. MirrorInv => ShownIsWhole
  BY DEF MirrorInv, CopiesFit, Worlds, ShownIsWhole
<1> QED
  BY <1>1, MirrorInvariant, PTL
=============================================================================
