------------------------ MODULE TrustReadModelProofs ------------------------
(***************************************************************************)
(* Proofs about TrustReadModel, for any events in any order of times, any  *)
(* page size, any number of replays, polls and restarts, and failures of   *)
(* any query, however calls overlap.                                       *)
(***************************************************************************)
EXTENDS TrustReadModel, HashChainProofs, FiniteSetTheorems

-----------------------------------------------------------------------------
(***************************************************************************)
(* The invariants.                                                         *)
(***************************************************************************)
TimeOf(p) == events[p].occurredAt

Ascending(s) == \A j, k \in DOMAIN s : j < k => s[j] < s[k]

\* What a call holds is of the store: a page in insertion order, an offset that
\* was read, and a latest event if there is to be one.
Holding(t) ==
  /\ t.step = "idle" => t.call = "poll"
  /\ t.call = "poll" => t.offset = 0 /\ t.step \notin {"readingLatest", "latestRead"}
  /\ t.step = "querying" =>
       /\ t.call # "poll" => t.from = Never
       /\ t.offset <= Len(events)
  /\ t.step = "answered" =>
       /\ Ascending(t.page)
       /\ \A n \in DOMAIN t.page : t.page[n] \in DOMAIN events
       /\ t.offset + Len(t.page) <= Len(events)
  /\ t.step = "readingLatest" => events # <<>>
  /\ t.step = "latestRead" => \E j \in DOMAIN events : t.latest = TimeOf(j)

TaskInv == \A k \in Task : Holding(task[k])

\* A handle is that of a live interval.
Bounds == Len(events) <= MaxEvents /\ (pollTimer => intervals > 0)

CursorOfEvent ==
  lastProcessedTime = Never \/ \E j \in DOMAIN events : lastProcessedTime = TimeOf(j)

ProjectedStored == \A n \in DOMAIN projected : projected[n] \in DOMAIN events

\* The places whose events say one of the facts.
Saying(history, facts) == {n \in DOMAIN history : events[history[n]].fact \in facts}

FactsOf(a) == {f \in Fact : f.agentId = a}
SignedFacts == {f \in Fact : f.signed}
ScoresOf(a) == {f \in FactsOf(a) : CarriesScore(f)}
DenialsOf(a) == {f \in FactsOf(a) : IsDenial(f)}
FallsOf(a) == {f \in FactsOf(a) : Falls(f)}
RisesOf(a) == {f \in FactsOf(a) : Rises(f)}

\* AgentSummary, with a witness for the last score.
AgentTally(acc, history, a) ==
  /\ acc \in Accumulator
  /\ acc.totalActions = Cardinality(Saying(history, FactsOf(a)))
  /\ acc.totalDenials = Cardinality(Saying(history, DenialsOf(a)))
  /\ \/ Saying(history, ScoresOf(a)) = {} /\ acc.currentScore = 0
     \/ \E n \in Saying(history, ScoresOf(a)) :
          /\ \A j \in Saying(history, ScoresOf(a)) : j <= n
          /\ acc.currentScore = events[history[n]].fact.score
  /\ Saying(history, RisesOf(a)) = {} =>
       acc.integrityScore =
         Full - SmallerOf(Full, 10 * Cardinality(Saying(history, FallsOf(a))))

Tally(m, history) ==
  /\ DOMAIN m = {"agents", "totalProofs", "anchoredCount", "pendingCount"}
  /\ m.totalProofs = Len(history)
  /\ m.anchoredCount = Cardinality(Saying(history, SignedFacts))
  /\ m.pendingCount \in Nat
  /\ m.anchoredCount + m.pendingCount = m.totalProofs
  /\ DOMAIN m.agents = {a \in Agent : Saying(history, FactsOf(a)) # {}}
  /\ \A a \in DOMAIN m.agents : AgentTally(m.agents[a], history, a)

TypeInv ==
  TypeOK /\ Bounds /\ TaskInv /\ CursorOfEvent /\ ProjectedStored /\ Tally(model, projected)

\* As long as no two calls have overlapped, one is under way.
OneTask == \A j, k \in Task : At(j, "idle") \/ At(k, "idle") \/ j = k

\* Nothing that is projected is later than the cursor, but for what is stored before
\* an event with an earlier time.
Parted(history, cursor) ==
  \A n \in DOMAIN history : history[n] \in Overtaking \/ TimeOf(history[n]) <= cursor

\* A replay has projected all positions in order, up to its offset.
UpTo(history, offset) == Len(history) = offset /\ \A n \in 1..offset : history[n] = n

ReplayHolds(t, history) ==
  /\ t.step = "querying" => UpTo(history, t.offset)
  /\ t.step = "answered" =>
       /\ UpTo(history, t.offset)
       /\ \A n \in DOMAIN t.page : t.page[n] = t.offset + n
  /\ t.step = "latestRead" => Parted(history, t.latest)

ReplayInv == \A k \in Task : task[k].call # "poll" => ReplayHolds(task[k], projected)

\* A poll looks at what is later than the cursor.
PollHolds(t, cursor) ==
  /\ t.step = "querying" => t.from = IF cursor = Never THEN Never ELSE cursor + 1
  /\ t.step = "answered" => \A n \in DOMAIN t.page : TimeOf(t.page[n]) > cursor

PollInv == \A k \in Task : task[k].call = "poll" => PollHolds(task[k], lastProcessedTime)

\* Between replays the cursor is past what is projected.
Settles(t) == t.call = "poll" \/ t.step = "persisting"

CursorInv ==
  ~ broken /\ (\A k \in Task : Settles(task[k])) => Parted(projected, lastProcessedTime)

OrderInv == TypeInv /\ OneTask /\ ReplayInv /\ PollInv /\ CursorInv /\ ProjectedOnce

OnceInv == TypeInv /\ (~ overlapped => OrderInv)

-----------------------------------------------------------------------------
(***************************************************************************)
(* What store.query finds.                                                 *)
(***************************************************************************)
IsSearch(f, e, from, N) ==
  f = [n \in 0..N |->
         IF n = 0 THEN <<>>
         ELSE IF e[n].occurredAt >= from THEN Append(f[n - 1], n) ELSE f[n - 1]]

LEMMA MatchingExists ==
  ASSUME NEW e, NEW from, NEW N \in Nat
  PROVE  \E f : IsSearch(f, e, from, N)
<1> DEFINE Is(f, m) == IsSearch(f, e, from, m)
           T == {m \in Nat : \E f : Is(f, m)}
<1>1. 0 \in T
  <2> DEFINE f == [n \in 0..0 |-> <<>>]
  <2>1. \A n \in 0..0 : n = 0
    OBVIOUS
  <2>2. Is(f, 0)
    BY <2>1 DEF IsSearch
  <2> HIDE DEF Is, f
  <2>3. QED BY <2>2
<1>2. ASSUME NEW m \in Nat, m \in T PROVE m + 1 \in T
  <2>1. PICK f : Is(f, m)
    <3> HIDE DEF Is
    <3> QED BY <1>2
  <2> DEFINE g == [n \in 0..(m + 1) |->
               IF n = m + 1
               THEN IF e[n].occurredAt >= from THEN Append(f[m], n) ELSE f[m]
               ELSE f[n]]
  <2>2. ASSUME NEW n \in 0..(m + 1)
        PROVE  g[n] = IF n = 0 THEN <<>>
                      ELSE IF e[n].occurredAt >= from THEN Append(g[n - 1], n) ELSE g[n - 1]
    <3>1. CASE n = m + 1
      <4>1. m \in 0..(m + 1) /\ m # m + 1 /\ n - 1 = m /\ n # 0
        BY <3>1
      <4>2. g[m] = f[m]
        BY <4>1
      <4>3. g[n] = IF e[n].occurredAt >= from THEN Append(f[m], n) ELSE f[m]
        BY <3>1
      <4> HIDE DEF g
      <4>4. QED BY <4>1, <4>2, <4>3
    <3>2. CASE n # m + 1
      <4>1. n \in 0..m /\ (n # 0 => n - 1 \in 0..m /\ n - 1 \in 0..(m + 1) /\ n - 1 # m + 1)
        BY <3>2
      <4>2. f[n] = IF n = 0 THEN <<>>
                   ELSE IF e[n].occurredAt >= from THEN Append(f[n - 1], n) ELSE f[n - 1]
        BY <2>1, <4>1 DEF IsSearch
      <4>3. g[n] = f[n] /\ (n # 0 => g[n - 1] = f[n - 1])
        BY <3>2, <4>1
      <4> HIDE DEF g
      <4>4. QED BY <4>2, <4>3
    <3>3. QED BY <3>1, <3>2
  <2>3. Is(g, m + 1)
    BY <2>2 DEF IsSearch
  <2> HIDE DEF Is, g
  <2>4. QED BY <2>3
<1>3. Nat \subseteq T
  <2> HIDE DEF T
  <2> QED BY <1>1, <1>2, NatSetInduction
<1>4. QED BY <1>3

\* The recursion of MatchingAmong.
LEMMA MatchingStep ==
  ASSUME NEW from, Len(events) \in Nat
  PROVE  /\ MatchingAmong(from)[0] = <<>>
         /\ \A n \in 1..Len(events) :
              MatchingAmong(from)[n] =
                IF TimeOf(n) >= from THEN Append(MatchingAmong(from)[n - 1], n)
                ELSE MatchingAmong(from)[n - 1]
<1> DEFINE N == Len(events)
           F == CHOOSE f : f = [n \in 0..N |->
                  IF n = 0 THEN <<>>
                  ELSE IF events[n].occurredAt >= from THEN Append(f[n - 1], n) ELSE f[n - 1]]
<1>1. F = [n \in 0..N |->
             IF n = 0 THEN <<>>
             ELSE IF events[n].occurredAt >= from THEN Append(F[n - 1], n) ELSE F[n - 1]]
  <2>1. N \in Nat
    OBVIOUS
  <2> HIDE DEF N
  <2>2. \E f : IsSearch(f, events, from, N)
    BY <2>1, MatchingExists
  <2>3. QED BY <2>2 DEF IsSearch
<1>2. MatchingAmong(from) = F
  BY DEF MatchingAmong
<1> HIDE DEF F
<1>3. \A n \in 1..N : n \in 0..N /\ n # 0
  OBVIOUS
<1>4. 0 \in 0..N
  OBVIOUS
<1>5. QED BY <1>1, <1>2, <1>3, <1>4 DEF TimeOf

\* All positions from a time on, in insertion order and none twice.
LEMMA MatchingFacts ==
  ASSUME NEW from, Len(events) \in Nat
  PROVE  LET all == Matching(from) IN
           /\ all \in Seq(1..Len(events)) /\ Len(all) <= Len(events)
           /\ Ascending(all)
           /\ \A j \in 1..Len(all) : TimeOf(all[j]) >= from
           /\ \A p \in 1..Len(events) : TimeOf(p) >= from => \E j \in 1..Len(all) : all[j] = p
           /\ (\A p \in 1..Len(events) : TimeOf(p) >= from) =>
                Len(all) = Len(events) /\ \A j \in 1..Len(events) : all[j] = j
<1> DEFINE N == Len(events)
           F == MatchingAmong(from)
           Good(n) ==
             /\ F[n] \in Seq(1..n) /\ Len(F[n]) <= n
             /\ \A j, k \in 1..Len(F[n]) : j < k => F[n][j] < F[n][k]
             /\ \A j \in 1..Len(F[n]) : TimeOf(F[n][j]) >= from
             /\ \A p \in 1..n : TimeOf(p) >= from => \E j \in 1..Len(F[n]) : F[n][j] = p
             /\ (\A p \in 1..N : TimeOf(p) >= from) =>
                  Len(F[n]) = n /\ \A j \in 1..n : F[n][j] = j
           T == {n \in Nat : n <= N => Good(n)}
<1>1. F[0] = <<>> /\ \A n \in 1..N :
        F[n] = IF TimeOf(n) >= from THEN Append(F[n - 1], n) ELSE F[n - 1]
  BY MatchingStep
<1> HIDE DEF F
<1>2. 0 \in T
  <2>1. F[0] \in Seq(1..0) /\ Len(F[0]) = 0 /\ 1..0 = {} /\ 1..Len(F[0]) = {}
    BY <1>1
  <2>2. Good(0)
    BY <2>1
  <2> HIDE DEF Good
  <2>3. QED BY <2>2
<1>3. ASSUME NEW n \in Nat, n \in T PROVE n + 1 \in T
  <2>1. CASE ~ (n + 1 <= N)
    <3> HIDE DEF Good
    <3> QED BY <2>1
  <2>2. CASE n + 1 <= N
    <3>1. n <= N /\ n + 1 \in 1..N /\ (n + 1) - 1 = n
      BY <2>2
    <3>2. Good(n)
      <4> HIDE DEF Good
      <4> QED BY <1>3, <3>1
    <3> DEFINE s == F[n]
               t == F[n + 1]
    <3>3. /\ s \in Seq(1..n) /\ Len(s) <= n
          /\ \A j, k \in 1..Len(s) : j < k => s[j] < s[k]
          /\ \A j \in 1..Len(s) : TimeOf(s[j]) >= from
          /\ \A p \in 1..n : TimeOf(p) >= from => \E j \in 1..Len(s) : s[j] = p
          /\ (\A p \in 1..N : TimeOf(p) >= from) => Len(s) = n /\ \A j \in 1..n : s[j] = j
      BY <3>2
    <3>4. t = IF TimeOf(n + 1) >= from THEN Append(s, n + 1) ELSE s
      BY <1>1, <3>1
    <3> HIDE DEF s, t, N
    <3>5. s \in Seq(1..(n + 1)) /\ Len(s) \in Nat /\ \A j \in 1..Len(s) : s[j] \in 1..n
      BY <3>3
    <3>6. CASE TimeOf(n + 1) >= from
      <4>1. /\ t = Append(s, n + 1) /\ t \in Seq(1..(n + 1)) /\ Len(t) = Len(s) + 1
            /\ t[Len(s) + 1] = n + 1 /\ \A j \in 1..Len(s) : t[j] = s[j]
        BY <3>4, <3>5, <3>6
      <4>2. \A j \in 1..Len(t) : j \in 1..Len(s) \/ j = Len(s) + 1
        BY <3>5, <4>1
      <4>3. \A j, k \in 1..Len(t) : j < k => t[j] < t[k]
        BY <3>3, <3>5, <4>1, <4>2
      <4>4. \A j \in 1..Len(t) : TimeOf(t[j]) >= from
        BY <3>3, <3>6, <4>1, <4>2
      <4>5. \A p \in 1..(n + 1) : TimeOf(p) >= from => \E j \in 1..Len(t) : t[j] = p
        <5>1. \A p \in 1..(n + 1) : p \in 1..n \/ p = n + 1
          OBVIOUS
        <5>2. Len(s) + 1 \in 1..Len(t) /\ \A j \in 1..Len(s) : j \in 1..Len(t)
          BY <3>5, <4>1
        <5>3. QED BY <3>3, <4>1, <5>1, <5>2
      <4>6. (\A p \in 1..N : TimeOf(p) >= from) => Len(t) = n + 1 /\ \A j \in 1..(n + 1) : t[j] = j
        BY <3>3, <3>5, <4>1, <4>2
      <4>7. Len(t) <= n + 1
        BY <3>3, <3>5, <4>1
      <4>8. Good(n + 1)
        BY <4>1, <4>3, <4>4, <4>5, <4>6, <4>7 DEF t, N
      <4> HIDE DEF Good
      <4>9. QED BY <4>8
    <3>7. CASE ~ (TimeOf(n + 1) >= from)
      <4>1. t = s
        BY <3>4, <3>7
      <4>2. \A p \in 1..(n + 1) : p \in 1..n \/ p = n + 1
        OBVIOUS
      <4>3. \A p \in 1..(n + 1) : TimeOf(p) >= from => \E j \in 1..Len(t) : t[j] = p
        BY <3>3, <3>7, <4>1, <4>2
      <4>4. ~ \A p \in 1..N : TimeOf(p) >= from
        BY <3>1, <3>7
      <4>5. Len(t) <= n + 1
        BY <3>3, <3>5, <4>1
      <4>6. Good(n + 1)
        BY <3>3, <3>5, <4>1, <4>3, <4>4, <4>5 DEF t, N
      <4> HIDE DEF Good
      <4>7. QED BY <4>6
    <3>8. QED BY <3>6, <3>7
  <2>3. QED BY <2>1, <2>2
<1>4. Nat \subseteq T
  <2> HIDE DEF T
  <2> QED BY <1>2, <1>3, NatSetInduction
<1>5. Good(N)
  <2> HIDE DEF Good
  <2> QED BY <1>4
<1>6. DOMAIN F[N] = 1..Len(F[N])
  BY <1>5
<1>7. QED BY <1>5, <1>6 DEF Matching, F, Ascending

-----------------------------------------------------------------------------
(***************************************************************************)
(* What projecting does to the models.                                     *)
(***************************************************************************)
IsProjection(f, e, m, s, N) ==
  f = [n \in 0..N |-> IF n = 0 THEN m ELSE ProjectEvent(f[n - 1], e[s[n]])]

LEMMA ProjectionExists ==
  ASSUME NEW e, NEW m, NEW s, NEW N \in Nat
  PROVE  \E f : IsProjection(f, e, m, s, N)
<1> DEFINE Is(f, n) == IsProjection(f, e, m, s, n)
           T == {n \in Nat : \E f : Is(f, n)}
<1>1. 0 \in T
  <2> DEFINE f == [n \in 0..0 |-> m]
  <2>1. \A n \in 0..0 : n = 0
    OBVIOUS
  <2>2. Is(f, 0)
    BY <2>1 DEF IsProjection
  <2> HIDE DEF Is, f
  <2>3. QED BY <2>2
<1>2. ASSUME NEW k \in Nat, k \in T PROVE k + 1 \in T
  <2>1. PICK f : Is(f, k)
    <3> HIDE DEF Is
    <3> QED BY <1>2
  <2> DEFINE g == [n \in 0..(k + 1) |->
                     IF n = k + 1 THEN ProjectEvent(f[k], e[s[n]]) ELSE f[n]]
  <2>2. ASSUME NEW n \in 0..(k + 1)
        PROVE  g[n] = IF n = 0 THEN m ELSE ProjectEvent(g[n - 1], e[s[n]])
    <3>1. CASE n = k + 1
      <4>1. k \in 0..(k + 1) /\ k # k + 1 /\ n - 1 = k /\ n # 0
        BY <3>1
      <4>2. g[k] = f[k]
        BY <4>1
      <4>3. g[n] = ProjectEvent(f[k], e[s[n]])
        BY <3>1
      <4> HIDE DEF g
      <4>4. QED BY <4>1, <4>2, <4>3
    <3>2. CASE n # k + 1
      <4>1. n \in 0..k /\ (n # 0 => n - 1 \in 0..k /\ n - 1 \in 0..(k + 1) /\ n - 1 # k + 1)
        BY <3>2
      <4>2. f[n] = IF n = 0 THEN m ELSE ProjectEvent(f[n - 1], e[s[n]])
        BY <2>1, <4>1 DEF IsProjection
      <4>3. g[n] = f[n] /\ (n # 0 => g[n - 1] = f[n - 1])
        BY <3>2, <4>1
      <4> HIDE DEF g
      <4>4. QED BY <4>2, <4>3
    <3>3. QED BY <3>1, <3>2
  <2>3. Is(g, k + 1)
    BY <2>2 DEF IsProjection
  <2> HIDE DEF Is, g
  <2>4. QED BY <2>3
<1>3. Nat \subseteq T
  <2> HIDE DEF T
  <2> QED BY <1>1, <1>2, NatSetInduction
<1>4. QED BY <1>3

\* The recursion of Projecting.
LEMMA ProjectingStep ==
  ASSUME NEW m, NEW page, Len(page) \in Nat
  PROVE  /\ Projecting(m, page)[0] = m
         /\ \A n \in 1..Len(page) :
              Projecting(m, page)[n] = ProjectEvent(Projecting(m, page)[n - 1], events[page[n]])
<1> DEFINE N == Len(page)
           F == CHOOSE f : f = [n \in 0..N |->
                  IF n = 0 THEN m ELSE ProjectEvent(f[n - 1], events[page[n]])]
<1>1. F = [n \in 0..N |-> IF n = 0 THEN m ELSE ProjectEvent(F[n - 1], events[page[n]])]
  <2>1. N \in Nat
    OBVIOUS
  <2> HIDE DEF N
  <2>2. \E f : IsProjection(f, events, m, page, N)
    BY <2>1, ProjectionExists
  <2>3. QED BY <2>2 DEF IsProjection
<1>2. Projecting(m, page) = F
  BY DEF Projecting
<1> HIDE DEF F
<1>3. \A n \in 1..N : n \in 0..N /\ n # 0
  OBVIOUS
<1>4. 0 \in 0..N
  OBVIOUS
<1>5. QED BY <1>1, <1>2, <1>3, <1>4

LEMMA SayingFinite ==
  ASSUME NEW s, Len(s) \in Nat, DOMAIN s = 1..Len(s), NEW facts
  PROVE  IsFiniteSet(Saying(s, facts)) /\ Cardinality(Saying(s, facts)) \in Nat
<1>1. Saying(s, facts) \subseteq 1..Len(s)
  BY DEF Saying
<1>2. IsFiniteSet(1..Len(s))
  BY FS_Interval
<1>3. QED BY <1>1, <1>2, FS_Subset, FS_CardinalityType

LEMMA SayingAppend ==
  ASSUME NEW S, NEW s \in Seq(S), NEW p \in S, NEW facts
  PROVE  /\ events[p].fact \in facts =>
              /\ Saying(Append(s, p), facts) = Saying(s, facts) \cup {Len(s) + 1}
              /\ Cardinality(Saying(Append(s, p), facts)) = Cardinality(Saying(s, facts)) + 1
         /\ events[p].fact \notin facts => Saying(Append(s, p), facts) = Saying(s, facts)
         /\ \A n \in Saying(s, facts) : n \in 1..Len(s) /\ Append(s, p)[n] = s[n]
         /\ Append(s, p)[Len(s) + 1] = p
<1> DEFINE n == Len(s)
           t == Append(s, p)
<1>1. /\ n \in Nat /\ DOMAIN s = 1..n /\ DOMAIN t = 1..(n + 1)
      /\ t[n + 1] = p /\ \A j \in 1..n : t[j] = s[j]
  OBVIOUS
<1>2. IsFiniteSet(Saying(s, facts)) /\ Saying(s, facts) \subseteq 1..n
  BY <1>1, SayingFinite DEF Saying
<1> HIDE DEF n, t
<1>3. n + 1 \notin Saying(s, facts) /\ \A j \in 1..(n + 1) : j \in 1..n \/ j = n + 1
  BY <1>1, <1>2
<1>4. \A j \in 1..n : j \in 1..(n + 1) /\ j # n + 1
  BY <1>1
<1>5. n + 1 \in 1..(n + 1)
  BY <1>1
<1>6. ASSUME events[p].fact \in facts
      PROVE  /\ Saying(t, facts) = Saying(s, facts) \cup {n + 1}
             /\ Cardinality(Saying(t, facts)) = Cardinality(Saying(s, facts)) + 1
  <2>1. Saying(t, facts) = Saying(s, facts) \cup {n + 1}
    BY <1>1, <1>3, <1>4, <1>5, <1>6 DEF Saying
  <2>2. QED BY <1>2, <1>3, <2>1, FS_AddElement
<1>7. ASSUME events[p].fact \notin facts PROVE Saying(t, facts) = Saying(s, facts)
  BY <1>1, <1>3, <1>4, <1>7 DEF Saying
<1>8. QED BY <1>1, <1>2, <1>6, <1>7 DEF n, t

LEMMA NewTally ==
  ASSUME NEW s, NEW e \in ProofEvent, NEW a, Saying(s, FactsOf(a)) = {}
  PROVE  AgentTally(NewAccumulator(e), s, a)
<1>1. /\ Saying(s, ScoresOf(a)) = {} /\ Saying(s, DenialsOf(a)) = {}
      /\ Saying(s, FallsOf(a)) = {} /\ Saying(s, RisesOf(a)) = {}
  BY DEF Saying, ScoresOf, DenialsOf, FallsOf, RisesOf
<1>2. Cardinality({}) = 0
  BY FS_EmptySet
<1>3. e.occurredAt \in Time /\ 0 \in Nat /\ 100 \in 0..100
  BY DEF ProofEvent
<1>4. NewAccumulator(e) \in Accumulator
  BY <1>3 DEF NewAccumulator, Accumulator, Full
<1>5. Full = Full - SmallerOf(Full, 10 * 0)
  BY DEF Full, SmallerOf
<1>6. QED BY <1>1, <1>2, <1>4, <1>5 DEF NewAccumulator, AgentTally

LEMMA AccumulateType ==
  ASSUME NEW e \in ProofEvent, NEW acc \in Accumulator
  PROVE  /\ Accumulate(acc, e) \in Accumulator
         /\ Accumulate(acc, e).totalActions = acc.totalActions + 1
         /\ Accumulate(acc, e).totalDenials =
              IF IsDenial(e.fact) THEN acc.totalDenials + 1 ELSE acc.totalDenials
         /\ Accumulate(acc, e).currentScore =
              IF CarriesScore(e.fact) THEN e.fact.score ELSE acc.currentScore
         /\ Accumulate(acc, e).integrityScore = Integrity(acc.integrityScore, e.fact)
<1>1. e.fact \in Fact /\ e.occurredAt \in Time
  BY DEF ProofEvent
<1>2. acc.integrityScore \in 0..100
  BY DEF Accumulator, Full
<1>3. Integrity(acc.integrityScore, e.fact) \in 0..Full
  BY <1>2 DEF Integrity, Full
<1> DEFINE new == Accumulate(acc, e)
           score == IF CarriesScore(e.fact) THEN e.fact.score ELSE acc.currentScore
           denials == IF IsDenial(e.fact) THEN acc.totalDenials + 1 ELSE acc.totalDenials
           integrity == Integrity(acc.integrityScore, e.fact)
<1>4. new = [acc EXCEPT !.totalActions = @ + 1, !.lastActionTime = e.occurredAt,
                        !.currentScore = score, !.totalDenials = denials,
                        !.integrityScore = integrity]
  BY DEF Accumulate
<1>5. /\ acc.currentScore \in {f.score : f \in Fact} \cup {0}
      /\ acc.totalActions \in Nat /\ acc.totalDenials \in Nat
  BY DEF Accumulator
<1>6. score \in {f.score : f \in Fact} \cup {0}
  BY <1>1, <1>5
<1>7. denials \in Nat /\ acc.totalActions + 1 \in Nat
  BY <1>5
<1> HIDE DEF new, score, denials, integrity
<1>8. /\ new.totalActions = acc.totalActions + 1 /\ new.totalDenials = denials
      /\ new.currentScore = score /\ new.integrityScore = integrity
      /\ new \in Accumulator
  BY <1>1, <1>3, <1>4, <1>6, <1>7 DEF Accumulator, integrity
<1>9. QED BY <1>8 DEF new, score, denials, integrity

LEMMA AccumulateTally ==
  ASSUME NEW S, NEW s \in Seq(S), NEW p \in S, events[p] \in ProofEvent,
         NEW acc, NEW a, AgentTally(acc, s, a), events[p].fact.agentId = a
  PROVE  AgentTally(Accumulate(acc, events[p]), Append(s, p), a)
<1> DEFINE e == events[p]
           f == e.fact
           t == Append(s, p)
           new == Accumulate(acc, e)
<1>1. f \in FactsOf(a)
  BY DEF ProofEvent, FactsOf
<1>2. /\ f \in ScoresOf(a) <=> CarriesScore(f)
      /\ f \in DenialsOf(a) <=> IsDenial(f)
      /\ f \in FallsOf(a) <=> Falls(f)
      /\ f \in RisesOf(a) <=> Rises(f)
  BY <1>1 DEF ScoresOf, DenialsOf, FallsOf, RisesOf
<1>3. /\ new \in Accumulator
      /\ new.totalActions = acc.totalActions + 1
      /\ new.totalDenials = IF IsDenial(f) THEN acc.totalDenials + 1 ELSE acc.totalDenials
      /\ new.currentScore = IF CarriesScore(f) THEN f.score ELSE acc.currentScore
      /\ new.integrityScore = Integrity(acc.integrityScore, f)
  BY AccumulateType DEF AgentTally
<1>4. Len(s) \in Nat /\ DOMAIN s = 1..Len(s)
  OBVIOUS
<1> HIDE DEF f, t, new
<1>5. new.totalActions = Cardinality(Saying(t, FactsOf(a)))
  BY <1>1, <1>3, SayingAppend DEF AgentTally, t, f
<1>6. new.totalDenials = Cardinality(Saying(t, DenialsOf(a)))
  BY <1>2, <1>3, SayingAppend DEF AgentTally, t, f
<1>7. \/ Saying(t, ScoresOf(a)) = {} /\ new.currentScore = 0
      \/ \E n \in Saying(t, ScoresOf(a)) :
           /\ \A j \in Saying(t, ScoresOf(a)) : j <= n
           /\ new.currentScore = events[t[n]].fact.score
  <2>1. CASE CarriesScore(f)
    <3>1. Saying(t, ScoresOf(a)) = Saying(s, ScoresOf(a)) \cup {Len(s) + 1}
      BY <1>2, <2>1, SayingAppend DEF t, f
    <3>2. \A j \in Saying(s, ScoresOf(a)) : j \in 1..Len(s)
      BY SayingAppend
    <3>3. \A j \in Saying(t, ScoresOf(a)) : j <= Len(s) + 1
      BY <1>4, <3>1, <3>2
    <3>4. t[Len(s) + 1] = p
      BY SayingAppend DEF t
    <3>5. QED BY <1>3, <2>1, <3>1, <3>3, <3>4 DEF f
  <2>2. CASE ~ CarriesScore(f)
    <3>1. Saying(t, ScoresOf(a)) = Saying(s, ScoresOf(a))
      BY <1>2, <2>2, SayingAppend DEF t, f
    <3>2. \A n \in Saying(s, ScoresOf(a)) : t[n] = s[n]
      BY SayingAppend DEF t
    <3>3. QED BY <1>3, <2>2, <3>1, <3>2 DEF AgentTally
  <2>3. QED BY <2>1, <2>2
<1>8. ASSUME Saying(t, RisesOf(a)) = {}
      PROVE  new.integrityScore =
               Full - SmallerOf(Full, 10 * Cardinality(Saying(t, FallsOf(a))))
  <2>1. ~ Rises(f) /\ Saying(s, RisesOf(a)) = {}
    BY <1>2, <1>8, SayingAppend DEF t, f
  <2> DEFINE c == Cardinality(Saying(s, FallsOf(a)))
             d == Cardinality(Saying(t, FallsOf(a)))
  <2>2. c \in Nat
    BY <1>4, SayingFinite
  <2>3. acc.integrityScore = Full - SmallerOf(Full, 10 * c)
    BY <2>1 DEF AgentTally
  <2>4. d = IF Falls(f) THEN c + 1 ELSE c
    BY <1>2, SayingAppend DEF t, f
  <2>5. new.integrityScore =
          IF Falls(f) THEN IF acc.integrityScore < 10 THEN 0 ELSE acc.integrityScore - 10
          ELSE acc.integrityScore
    BY <1>3, <2>1 DEF Integrity, Falls, Rises
  <2> HIDE DEF c, d
  <2>6. new.integrityScore = Full - SmallerOf(Full, 10 * d)
    BY <2>2, <2>3, <2>4, <2>5 DEF Full, SmallerOf
  <2>7. QED BY <2>6 DEF d
<1>9. QED BY <1>3, <1>5, <1>6, <1>7, <1>8 DEF AgentTally, t, new

LEMMA KeptTally ==
  ASSUME NEW S, NEW s \in Seq(S), NEW p \in S, NEW acc, NEW a, AgentTally(acc, s, a),
         events[p].fact \notin FactsOf(a)
  PROVE  AgentTally(acc, Append(s, p), a)
<1> DEFINE f == events[p].fact
           t == Append(s, p)
<1>1. f \notin ScoresOf(a) /\ f \notin DenialsOf(a) /\ f \notin FallsOf(a) /\ f \notin RisesOf(a)
  BY DEF ScoresOf, DenialsOf, FallsOf, RisesOf
<1> HIDE DEF t
<1>2. /\ Saying(t, FactsOf(a)) = Saying(s, FactsOf(a))
      /\ Saying(t, ScoresOf(a)) = Saying(s, ScoresOf(a))
      /\ Saying(t, DenialsOf(a)) = Saying(s, DenialsOf(a))
      /\ Saying(t, FallsOf(a)) = Saying(s, FallsOf(a))
      /\ Saying(t, RisesOf(a)) = Saying(s, RisesOf(a))
  BY <1>1, SayingAppend DEF t
<1>3. \A n \in Saying(s, ScoresOf(a)) : t[n] = s[n]
  BY SayingAppend DEF t
<1>4. QED BY <1>2, <1>3 DEF AgentTally, t

LEMMA TallyStart == Tally(NoModel, <<>>)
<1>1. \A facts : Saying(<<>>, facts) = {}
  BY DEF Saying
<1>2. Cardinality({}) = 0
  BY FS_EmptySet
<1>3. DOMAIN NoModel.agents = {}
  BY DEF NoModel
<1>4. QED BY <1>1, <1>2, <1>3 DEF Tally, NoModel

\* One more event.
LEMMA TallyStep ==
  ASSUME NEW S, NEW s \in Seq(S), NEW p \in S, events[p] \in ProofEvent, NEW m, Tally(m, s)
  PROVE  Tally(ProjectEvent(m, events[p]), Append(s, p))
<1> DEFINE e == events[p]
           f == e.fact
           t == Append(s, p)
           agents == m.agents
           agents2 == IF f.agentId = NoAgent THEN agents ELSE ProjectAgentEvent(agents, e)
           new == ProjectEvent(m, e)
           anchored == IF f.signed THEN m.anchoredCount + 1 ELSE m.anchoredCount
           pending == IF f.signed THEN m.pendingCount ELSE m.pendingCount + 1
<1>1. f \in Fact /\ f.agentId \in Agent \cup {NoAgent} /\ NoAgent \notin Agent
  BY ParameterTypes DEF ProofEvent
<1>2. new = [m EXCEPT !.totalProofs = @ + 1, !.anchoredCount = anchored,
                      !.pendingCount = pending, !.agents = agents2]
  BY DEF ProjectEvent
<1>3. Len(s) \in Nat /\ DOMAIN s = 1..Len(s) /\ Len(t) = Len(s) + 1
  OBVIOUS
<1>4. /\ DOMAIN m = {"agents", "totalProofs", "anchoredCount", "pendingCount"}
      /\ m.totalProofs = Len(s) /\ m.pendingCount \in Nat
      /\ m.anchoredCount = Cardinality(Saying(s, SignedFacts))
      /\ m.anchoredCount + m.pendingCount = m.totalProofs
      /\ DOMAIN agents = {a \in Agent : Saying(s, FactsOf(a)) # {}}
      /\ \A a \in DOMAIN agents : AgentTally(agents[a], s, a)
  BY DEF Tally
<1>5. m.anchoredCount \in Nat
  BY <1>3, <1>4, SayingFinite
<1>6. anchored = Cardinality(Saying(t, SignedFacts))
  <2>1. f \in SignedFacts <=> f.signed
    BY <1>1 DEF SignedFacts
  <2>2. QED BY <1>4, <2>1, SayingAppend
<1>7. \A a \in Agent : f \in FactsOf(a) <=> a = f.agentId
  BY <1>1 DEF FactsOf
<1> HIDE DEF f, t, agents, agents2, new, anchored, pending
<1>8. \A a \in Agent : Saying(t, FactsOf(a)) # {} <=>
        a = f.agentId \/ Saying(s, FactsOf(a)) # {}
  BY <1>7, SayingAppend DEF t, f
<1>9. /\ new.totalProofs = Len(t) /\ new.anchoredCount = anchored
      /\ new.pendingCount = pending /\ new.agents = agents2
      /\ DOMAIN new = {"agents", "totalProofs", "anchoredCount", "pendingCount"}
  BY <1>2, <1>3, <1>4
<1>10. pending \in Nat /\ anchored + pending = Len(t)
  BY <1>3, <1>4, <1>5 DEF anchored, pending
<1>11. CASE f.agentId = NoAgent
  <2>1. agents2 = agents
    BY <1>11 DEF agents2
  <2>2. \A a \in Agent : f \notin FactsOf(a)
    BY <1>1, <1>7, <1>11
  <2>3. \A a \in DOMAIN agents : AgentTally(agents[a], t, a)
    BY <1>4, <2>2, KeptTally DEF f, t
  <2>4. DOMAIN agents = {a \in Agent : Saying(t, FactsOf(a)) # {}}
    BY <1>1, <1>4, <1>8, <1>11
  <2>5. QED BY <1>6, <1>9, <1>10, <2>1, <2>3, <2>4 DEF Tally, new, t, f
<1>12. CASE f.agentId # NoAgent
  <2> DEFINE b == f.agentId
             acc == IF b \in DOMAIN agents THEN agents[b] ELSE NewAccumulator(e)
  <2>1. b \in Agent
    BY <1>1, <1>12
  <2>2. agents2 = [a \in DOMAIN agents \cup {b} |->
                     IF a = b THEN Accumulate(acc, e) ELSE agents[a]]
    BY <1>12 DEF agents2, ProjectAgentEvent, f
  <2>3. DOMAIN agents2 = {a \in Agent : Saying(t, FactsOf(a)) # {}}
    BY <1>4, <1>8, <2>1, <2>2
  <2>4. AgentTally(acc, s, b)
    <3>1. CASE b \in DOMAIN agents
      BY <1>4, <3>1
    <3>2. CASE b \notin DOMAIN agents
      <4>1. Saying(s, FactsOf(b)) = {}
        BY <1>4, <2>1, <3>2
      <4>2. QED BY <3>2, <4>1, NewTally
    <3>3. QED BY <3>1, <3>2
  <2>5. AgentTally(Accumulate(acc, e), t, b)
    <3> HIDE DEF acc
    <3> QED BY <2>4, AccumulateTally DEF t, f
  <2> HIDE DEF acc
  <2>6. ASSUME NEW a \in DOMAIN agents2 PROVE AgentTally(agents2[a], t, a)
    <3>1. CASE a = b
      BY <2>2, <2>5, <3>1
    <3>2. CASE a # b
      <4>1. a \in DOMAIN agents /\ a \in Agent /\ agents2[a] = agents[a]
        BY <1>4, <2>2, <2>6, <3>2
      <4>2. f \notin FactsOf(a)
        BY <1>7, <3>2, <4>1
      <4>3. AgentTally(agents[a], s, a)
        BY <1>4, <4>1
      <4>4. AgentTally(agents[a], t, a)
        BY <4>2, <4>3, KeptTally DEF t, f
      <4>5. QED BY <4>1, <4>4
    <3>3. QED BY <3>1, <3>2
  <2>7. QED BY <1>6, <1>9, <1>10, <2>3, <2>6 DEF Tally, new, t, f
<1>13. QED BY <1>11, <1>12

LEMMA PageByEvents ==
  ASSUME NEW S, NEW s \in Seq(S), NEW t \in Seq(S)
  PROVE  /\ s \o SubSeq(t, 1, 0) = s
         /\ s \o SubSeq(t, 1, Len(t)) = s \o t
         /\ \A n \in Nat : n + 1 <= Len(t) =>
              /\ s \o SubSeq(t, 1, n) \in Seq(S)
              /\ s \o SubSeq(t, 1, n + 1) = Append(s \o SubSeq(t, 1, n), t[n + 1])
<1>1. SubSeq(t, 1, 0) = <<>> /\ SubSeq(t, 1, Len(t)) = t
  OBVIOUS
<1>2. s \o <<>> = s
  BY ConcatEmptySeq
<1>3. ASSUME NEW n \in Nat, n + 1 <= Len(t)
      PROVE  /\ s \o SubSeq(t, 1, n) \in Seq(S)
             /\ s \o SubSeq(t, 1, n + 1) = Append(s \o SubSeq(t, 1, n), t[n + 1])
  <2> DEFINE u == SubSeq(t, 1, n)
  <2>1. u \in Seq(S) /\ t[n + 1] \in S
    BY <1>3
  <2>2. SubSeq(t, 1, n + 1) = Append(u, t[n + 1])
    BY <1>3
  <2> HIDE DEF u
  <2>3. s \o Append(u, t[n + 1]) = Append(s \o u, t[n + 1])
    BY <2>1
  <2>4. s \o u \in Seq(S)
    BY <2>1
  <2>5. QED BY <2>2, <2>3, <2>4 DEF u
<1>4. QED BY <1>1, <1>2, <1>3

\* A page, event by event.
LEMMA TallyPage ==
  ASSUME NEW S, \A p \in S : events[p] \in ProofEvent,
         NEW s \in Seq(S), NEW page \in Seq(S), NEW m, Tally(m, s)
  PROVE  Tally(Projecting(m, page)[Len(page)], s \o page)
<1> DEFINE N == Len(page)
           F == Projecting(m, page)
           h(n) == s \o SubSeq(page, 1, n)
           T == {n \in Nat : n <= N => Tally(F[n], h(n))}
<1>1. N \in Nat /\ \A n \in 1..N : page[n] \in S
  OBVIOUS
<1>2. F[0] = m /\ \A n \in 1..N : F[n] = ProjectEvent(F[n - 1], events[page[n]])
  BY ProjectingStep
<1>3. /\ h(0) = s /\ h(N) = s \o page
      /\ \A n \in Nat : n + 1 <= N => h(n) \in Seq(S) /\ h(n + 1) = Append(h(n), page[n + 1])
  <2>1. /\ s \o SubSeq(page, 1, 0) = s
        /\ s \o SubSeq(page, 1, Len(page)) = s \o page
        /\ \A n \in Nat : n + 1 <= Len(page) =>
             /\ s \o SubSeq(page, 1, n) \in Seq(S)
             /\ s \o SubSeq(page, 1, n + 1) = Append(s \o SubSeq(page, 1, n), page[n + 1])
    BY PageByEvents
  <2>2. QED BY <2>1
<1> HIDE DEF N, F, h
<1>4. 0 \in T
  BY <1>2, <1>3
<1>5. ASSUME NEW n \in Nat, n \in T PROVE n + 1 \in T
  <2> SUFFICES ASSUME n + 1 <= N PROVE Tally(F[n + 1], h(n + 1))
    OBVIOUS
  <2>1. n <= N /\ n + 1 \in 1..N /\ (n + 1) - 1 = n
    BY <1>1
  <2>2. Tally(F[n], h(n)) /\ F[n + 1] = ProjectEvent(F[n], events[page[n + 1]])
    BY <1>2, <1>5, <2>1
  <2>3. h(n) \in Seq(S) /\ h(n + 1) = Append(h(n), page[n + 1]) /\ page[n + 1] \in S
    BY <1>1, <1>3, <2>1
  <2>4. events[page[n + 1]] \in ProofEvent
    BY <2>3
  <2>5. QED BY <2>2, <2>3, <2>4, TallyStep
<1>6. Nat \subseteq T
  <2> HIDE DEF T
  <2> QED BY <1>4, <1>5, NatSetInduction
<1>7. Tally(F[N], h(N))
  BY <1>1, <1>6
<1>8. QED BY <1>3, <1>7 DEF F, N
\* The page of a query.
LEMMA PageFacts ==
  ASSUME NEW from, NEW offset \in Nat, Len(events) \in Nat, offset <= Len(events),
         offset = 0 \/ \A p \in 1..Len(events) : TimeOf(p) >= from
  PROVE  LET all == Matching(from)
             last == offset + ReplayBatchSize
             page == SubSeq(all, offset + 1, SmallerOf(last, Len(all))) IN
           /\ page \in Seq(1..Len(events)) /\ Ascending(page)
           /\ offset + Len(page) <= Len(events)
           /\ \A n \in DOMAIN page : TimeOf(page[n]) >= from
           /\ \A p \in 1..Len(events), n \in DOMAIN page :
                offset = 0 /\ TimeOf(p) >= from /\ p <= page[n] => p \in Range(page)
           /\ (\A p \in 1..Len(events) : TimeOf(p) >= from) =>
                /\ \A n \in DOMAIN page : page[n] = offset + n
                /\ last < Len(all) \/ offset + Len(page) = Len(events)
<1> DEFINE N == Len(events)
           all == Matching(from)
           L == Len(all)
           last == offset + ReplayBatchSize
           upper == SmallerOf(last, L)
           page == SubSeq(all, offset + 1, upper)
           M == Len(page)
           everything == \A p \in 1..N : TimeOf(p) >= from
<1>1. /\ all \in Seq(1..N) /\ L <= N /\ Ascending(all)
      /\ \A j \in 1..L : TimeOf(all[j]) >= from
      /\ \A p \in 1..N : TimeOf(p) >= from => \E j \in 1..L : all[j] = p
      /\ everything => L = N /\ \A j \in 1..N : all[j] = j
  BY MatchingFacts
<1>2. L \in Nat /\ DOMAIN all = 1..L /\ \A j \in 1..L : all[j] \in 1..N
  BY <1>1
<1>3. N \in Nat
  OBVIOUS
<1>4. ReplayBatchSize \in Nat \ {0}
  BY ParameterTypes
<1> HIDE DEF all, L, N, everything
<1>5. offset <= L
  BY <1>1, <1>2 DEF everything, N
<1>6. upper \in Nat /\ offset <= upper /\ upper <= L /\ (last < L \/ upper = L)
  BY <1>2, <1>4, <1>5 DEF SmallerOf
<1> HIDE DEF upper
<1>7. \A j \in (offset + 1)..upper : j \in 1..L
  BY <1>2, <1>6
<1>8. offset + 1 \in Int /\ upper \in Int /\ \A j \in (offset + 1)..upper : all[j] \in 1..N
  BY <1>2, <1>6, <1>7
<1>9. /\ page \in Seq(1..N)
      /\ M = IF offset + 1 <= upper THEN upper - (offset + 1) + 1 ELSE 0
      /\ \A n \in 1..(upper - (offset + 1) + 1) : page[n] = all[(offset + 1) + n - 1]
  BY <1>8, SubSeqProperties
<1> HIDE DEF page
<1>10. M = upper - offset /\ M \in Nat /\ DOMAIN page = 1..M
  BY <1>6, <1>9
<1> HIDE DEF M
<1>11. \A n \in 1..M : n + offset \in 1..L /\ page[n] = all[n + offset]
  <2>1. ASSUME NEW n \in 1..M PROVE n + offset \in 1..L /\ page[n] = all[n + offset]
    <3>1. /\ n + offset \in 1..L /\ n \in 1..(upper - (offset + 1) + 1)
          /\ (offset + 1) + n - 1 = n + offset
      BY <1>2, <1>6, <1>10
    <3>2. QED BY <1>9, <3>1
  <2>2. QED BY <2>1
<1>12. Ascending(page)
  <2> SUFFICES ASSUME NEW j \in 1..M, NEW k \in 1..M, j < k PROVE page[j] < page[k]
    BY <1>10 DEF Ascending
  <2>1. j + offset < k + offset
    BY <1>10
  <2>2. QED BY <1>1, <1>2, <1>11, <2>1 DEF Ascending
<1>13. offset + M <= N
  BY <1>1, <1>2, <1>3, <1>6, <1>10
<1>14. \A n \in 1..M : TimeOf(page[n]) >= from
  BY <1>1, <1>11
<1>15. ASSUME NEW p \in 1..N, NEW n \in 1..M, offset = 0, TimeOf(p) >= from, p <= page[n]
       PROVE  p \in Range(page)
  <2>1. PICK j \in 1..L : all[j] = p
    BY <1>1, <1>15
  <2>2. page[n] = all[n] /\ n \in 1..L
    BY <1>10, <1>11, <1>15
  <2>3. ~ (n < j)
    <3>1. n < j => all[n] < all[j]
      BY <1>1, <1>2, <2>2 DEF Ascending
    <3>2. all[n] \in 1..N /\ all[j] \in 1..N
      BY <1>2, <2>2
    <3>3. QED BY <1>3, <1>15, <2>1, <2>2, <3>1, <3>2
  <2>4. j \in 1..M
    BY <1>2, <1>10, <2>3
  <2>5. page[j] = p
    BY <1>11, <1>15, <2>1, <2>4
  <2>6. QED BY <1>10, <2>4, <2>5 DEF Range
<1>16. ASSUME everything
       PROVE  /\ \A n \in 1..M : page[n] = offset + n
              /\ last < L \/ offset + M = N
  <2>1. L = N /\ \A j \in 1..N : all[j] = j
    BY <1>1, <1>16
  <2>2. \A n \in 1..M : page[n] = n + offset
    BY <1>11, <2>1
  <2>3. \A n \in 1..M : n + offset = offset + n
    BY <1>10
  <2>4. last < L \/ offset + M = N
    BY <1>2, <1>6, <1>10, <2>1
  <2>5. QED BY <2>2, <2>3, <2>4
<1>17. QED
  BY <1>9, <1>10, <1>12, <1>13, <1>14, <1>15, <1>16
  DEF page, all, L, M, N, everything, upper
-----------------------------------------------------------------------------
(***************************************************************************)
(* Type correctness, and the tally.                                        *)
(***************************************************************************)
LEMMA TallyType ==
  ASSUME NEW m, NEW S, NEW s \in Seq(S), Tally(m, s)
  PROVE  /\ DOMAIN m = {"agents", "totalProofs", "anchoredCount", "pendingCount"}
         /\ DOMAIN m.agents \subseteq Agent
         /\ \A a \in DOMAIN m.agents : m.agents[a] \in Accumulator
         /\ {m.totalProofs, m.anchoredCount, m.pendingCount} \subseteq Nat
<1>1. Len(s) \in Nat /\ DOMAIN s = 1..Len(s)
  OBVIOUS
<1>2. Cardinality(Saying(s, SignedFacts)) \in Nat
  BY <1>1, SayingFinite
<1>3. QED BY <1>1, <1>2 DEF Tally, AgentTally

\* The models and the events they were made of are left alone.
LEMMA TallyKept ==
  ASSUME UNCHANGED modelVars, Tally(model, projected),
         \A n \in DOMAIN projected : events'[projected[n]] = events[projected[n]]
  PROVE  Tally(model, projected)'
<1>2. model' = model /\ projected' = projected
  BY DEF modelVars
<1>3. \A n \in DOMAIN projected : events'[projected[n]] = events[projected[n]]
  OBVIOUS
<1>4. \A facts : Saying(projected, facts)' = Saying(projected, facts)
  BY <1>2, <1>3 DEF Saying
<1>5. \A facts : \A n \in Saying(projected, facts) : events'[projected'[n]] = events[projected[n]]
  BY <1>2, <1>3 DEF Saying
<1>6. \A acc, a : AgentTally(acc, projected, a) <=> AgentTally(acc, projected, a)'
  <2> SUFFICES ASSUME NEW acc, NEW a
               PROVE  AgentTally(acc, projected, a) <=> AgentTally(acc, projected, a)'
    OBVIOUS
  <2>1. /\ Saying(projected, FactsOf(a))' = Saying(projected, FactsOf(a))
        /\ Saying(projected, ScoresOf(a))' = Saying(projected, ScoresOf(a))
        /\ Saying(projected, DenialsOf(a))' = Saying(projected, DenialsOf(a))
        /\ Saying(projected, FallsOf(a))' = Saying(projected, FallsOf(a))
        /\ Saying(projected, RisesOf(a))' = Saying(projected, RisesOf(a))
    BY <1>4
  <2>2. \A n \in Saying(projected, ScoresOf(a)) :
          events'[projected'[n]].fact.score = events[projected[n]].fact.score
    BY <1>5
  <2>3. QED BY <2>1, <2>2 DEF AgentTally
<1>7. Saying(projected, SignedFacts)' = Saying(projected, SignedFacts)
  BY <1>4
<1>8. \A a : Saying(projected, FactsOf(a))' = Saying(projected, FactsOf(a))
  BY <1>4
<1>9. QED BY <1>2, <1>6, <1>7, <1>8 DEF Tally

\* One call moves on.
LEMMA TaskMoves ==
  ASSUME task \in [Task -> TaskState], TaskInv, events' = events,
         NEW k \in Task, NEW t \in TaskState, Holding(t), task' = [task EXCEPT ![k] = t]
  PROVE  task' \in [Task -> TaskState] /\ TaskInv'
<1>1. \A j \in Task : task'[j] = IF j = k THEN t ELSE task[j]
  OBVIOUS
<1>2. \A u : Holding(u) => Holding(u)'
  BY DEF Holding, TimeOf
<1>3. QED BY <1>1, <1>2 DEF TaskInv, Holding, TimeOf

LEMMA TypeInit == Init => TypeInv
<1> SUFFICES ASSUME Init PROVE TypeInv
  OBVIOUS
<1> USE ParameterTypes DEF Init
<1>1. <<>> \in Seq(Position) /\ <<>> \in Seq(ProofEvent) /\ Len(events) = 0
  OBVIOUS
<1>2. Tally(model, projected)
  BY TallyStart
<1>3. NoTask \in TaskState
  BY <1>1 DEF NoTask, TaskState, Call, Step, Never
<1>4. TypeOK
  <2>1. projected \in Seq(Position)
    BY <1>1
  <2>2. /\ DOMAIN model = {"agents", "totalProofs", "anchoredCount", "pendingCount"}
        /\ DOMAIN model.agents \subseteq Agent
        /\ \A a \in DOMAIN model.agents : model.agents[a] \in Accumulator
        /\ {model.totalProofs, model.anchoredCount, model.pendingCount} \subseteq Nat
    BY <1>2, <2>1, TallyType
  <2>3. task \in [Task -> TaskState]
    BY <1>3
  <2>4. replays \in 0..MaxReplays /\ intervals \in 0..MaxIntervals
    OBVIOUS
  <2>5. /\ events \in Seq(ProofEvent) /\ running \in BOOLEAN /\ pollTimer \in BOOLEAN
        /\ broken \in BOOLEAN /\ overlapped \in BOOLEAN
        /\ lastProcessedTime \in Time \cup {Never} /\ blind \subseteq Position
    BY <1>1
  <2>6. QED BY <2>1, <2>2, <2>3, <2>4, <2>5 DEF TypeOK
<1>5. TaskInv
  BY DEF TaskInv, Holding, NoTask
<1>6. QED BY <1>1, <1>2, <1>4, <1>5 DEF TypeInv, Bounds, CursorOfEvent, ProjectedStored
\* A page is projected.
LEMMA TypeProjected ==
  ASSUME TypeInv, events' = events, NEW page \in Seq(Position),
         \A n \in DOMAIN page : page[n] \in DOMAIN events, ProjectPage(page)
  PROVE  /\ Tally(model, projected)' /\ ProjectedStored' /\ projected' \in Seq(Position)
         /\ model'.totalProofs = Len(projected) + Len(page)
<1> DEFINE S == DOMAIN events
<1>1. projected \in Seq(Position) /\ events \in Seq(ProofEvent)
  BY DEF TypeInv, TypeOK
<1>2. page \in Seq(S) /\ projected \in Seq(S)
  BY <1>1 DEF TypeInv, ProjectedStored
<1>3. \A p \in S : events[p] \in ProofEvent
  BY <1>1
<1>4. model' = Projecting(model, page)[Len(page)] /\ projected' = projected \o page
  BY DEF ProjectPage
<1>5. Tally(model', projected')
  <2> HIDE DEF S
  <2>1. Tally(model, projected)
    BY DEF TypeInv
  <2>2. Tally(Projecting(model, page)[Len(page)], projected \o page)
    BY <1>2, <1>3, <2>1, TallyPage
  <2>3. QED BY <1>4, <2>2
<1>6. Tally(model, projected)'
  <2>1. \A facts : Saying(projected', facts) = Saying(projected, facts)'
    BY DEF Saying
  <2>2. ASSUME NEW acc, NEW a, AgentTally(acc, projected', a)
        PROVE  AgentTally(acc, projected, a)'
    <3>1. /\ Saying(projected', FactsOf(a)) = Saying(projected, FactsOf(a))'
          /\ Saying(projected', ScoresOf(a)) = Saying(projected, ScoresOf(a))'
          /\ Saying(projected', DenialsOf(a)) = Saying(projected, DenialsOf(a))'
          /\ Saying(projected', FallsOf(a)) = Saying(projected, FallsOf(a))'
          /\ Saying(projected', RisesOf(a)) = Saying(projected, RisesOf(a))'
      BY <2>1
    <3>2. QED BY <2>2, <3>1 DEF AgentTally
  <2>3. /\ Saying(projected', SignedFacts) = Saying(projected, SignedFacts)'
        /\ \A a : Saying(projected', FactsOf(a)) = Saying(projected, FactsOf(a))'
    BY <2>1
  <2>4. QED BY <1>5, <2>2, <2>3 DEF Tally
<1> HIDE DEF S
<1>7. projected \o page \in Seq(S) /\ projected \o page \in Seq(Position)
  BY <1>1, <1>2
<1>8. \A n \in DOMAIN (projected \o page) : (projected \o page)[n] \in S
  BY <1>7
<1>9. ProjectedStored'
  BY <1>4, <1>8 DEF ProjectedStored, S
<1>10. Len(projected') = Len(projected) + Len(page)
  BY <1>2, <1>4
<1>11. model'.totalProofs = Len(projected')
  BY <1>5 DEF Tally
<1>12. QED BY <1>4, <1>6, <1>7, <1>9, <1>10, <1>11

\* What is left to show of an action that leaves the store alone.
LEMMA TypeParts ==
  ASSUME TypeInv, events' = events,
         running' \in BOOLEAN, pollTimer' \in BOOLEAN, intervals' \in 0..MaxIntervals,
         pollTimer' => intervals' > 0,
         replays' \in 0..MaxReplays, broken' \in BOOLEAN, overlapped' \in BOOLEAN, blind' = blind,
         task' \in [Task -> TaskState], TaskInv',
         lastProcessedTime' = Never \/ \E j \in DOMAIN events : lastProcessedTime' = TimeOf(j),
         projected' \in Seq(Position), ProjectedStored', Tally(model, projected)'
  PROVE  TypeInv'
<1>1. events' \in Seq(ProofEvent) /\ Len(events') <= MaxEvents /\ blind' \subseteq Position
  BY DEF TypeInv, TypeOK, Bounds
<1>2. /\ DOMAIN model' = {"agents", "totalProofs", "anchoredCount", "pendingCount"}
      /\ DOMAIN model'.agents \subseteq Agent
      /\ \A a \in DOMAIN model'.agents : model'.agents[a] \in Accumulator
      /\ {model'.totalProofs, model'.anchoredCount, model'.pendingCount} \subseteq Nat
  <2>1. /\ DOMAIN model = {"agents", "totalProofs", "anchoredCount", "pendingCount"}
        /\ DOMAIN model.agents \subseteq Agent
        /\ \A a \in DOMAIN model.agents : model.agents[a] \in Accumulator
        /\ {model.totalProofs, model.anchoredCount, model.pendingCount} \subseteq Nat
    BY DEF TypeInv, TypeOK
  <2> DEFINE N == Cardinality(Saying(projected, SignedFacts)')
  <2>2. Len(projected') \in Nat /\ DOMAIN projected' = 1..Len(projected')
    OBVIOUS
  <2>3. IsFiniteSet(Saying(projected, SignedFacts)') /\ N \in Nat
    <3>1. Saying(projected, SignedFacts)' \subseteq 1..Len(projected')
      BY <2>2 DEF Saying
    <3>2. IsFiniteSet(1..Len(projected'))
      BY <2>2, FS_Interval
    <3>3. QED BY <3>1, <3>2, FS_Subset, FS_CardinalityType
  <2>4. QED BY <2>2, <2>3 DEF Tally, AgentTally
<1>3. lastProcessedTime' \in Time \cup {Never} /\ CursorOfEvent'
  <2>1. \A j \in DOMAIN events : events[j] \in ProofEvent
    BY DEF TypeInv, TypeOK
  <2>2. \A j \in DOMAIN events : TimeOf(j) \in Time
    BY <2>1 DEF TimeOf, ProofEvent
  <2>3. QED BY <2>2 DEF CursorOfEvent, TimeOf
<1>4. TypeOK'
  BY <1>1, <1>2, <1>3 DEF TypeOK
<1>5. QED BY <1>1, <1>3, <1>4 DEF TypeInv, Bounds
\* Nothing is projected.
LEMMA TypeUnprojected ==
  ASSUME TypeInv, events' = events, UNCHANGED modelVars
  PROVE  projected' \in Seq(Position) /\ ProjectedStored' /\ Tally(model, projected)'
<1>1. model' = model /\ projected' = projected
  BY DEF modelVars
<1>2. Tally(model, projected)'
  BY TallyKept DEF TypeInv
<1>3. QED
  BY <1>1, <1>2 DEF TypeInv, TypeOK, ProjectedStored

LEMMA TypeStored ==
  ASSUME TypeInv, NEW e \in ProofEvent, StoreEvent(e)
  PROVE  TypeInv'
<1> USE DEF TypeInv, StoreEvent, timerVars
<1>1. /\ events \in Seq(ProofEvent) /\ Len(events) \in Nat
      /\ events' = Append(events, e) /\ events' \in Seq(ProofEvent)
      /\ Len(events') = Len(events) + 1 /\ Len(events') <= MaxEvents
      /\ \A p \in DOMAIN events : p \in DOMAIN events' /\ events'[p] = events[p]
  BY ParameterTypes DEF TypeOK
<1>2. Len(events) + 1 \in Position
  BY <1>1, ParameterTypes DEF Position
<1>3. blind' \subseteq Position
  BY <1>2 DEF TypeOK
<1>4. UNCHANGED <<model, projected, task, replays, broken, overlapped, lastProcessedTime,
                  running, pollTimer, intervals>>
  BY DEF modelVars
<1>5. TypeOK'
  BY <1>1, <1>3, <1>4 DEF TypeOK
<1>6. TaskInv'
  <2>1. ASSUME NEW k \in Task PROVE Holding(task[k])'
    <3> DEFINE t == task[k]
    <3>1. Holding(t) /\ t \in TaskState
      BY DEF TaskInv, TypeOK
    <3>2. t.offset \in Nat /\ Len(t.page) \in Nat
      BY <3>1 DEF TaskState
    <3> HIDE DEF t
    <3>3. Holding(t)'
      BY <1>1, <1>4, <3>1, <3>2 DEF Holding, Ascending, TimeOf, t
    <3>4. QED BY <3>3 DEF t
  <2>2. QED BY <1>4, <2>1 DEF TaskInv
<1>7. CursorOfEvent'
  BY <1>1, <1>4 DEF CursorOfEvent, TimeOf
<1>8. ProjectedStored'
  BY <1>1, <1>4 DEF ProjectedStored
<1>9. Tally(model, projected)'
  BY <1>1, TallyKept DEF ProjectedStored
<1>10. QED BY <1>1, <1>4, <1>5, <1>6, <1>7, <1>8, <1>9 DEF Bounds

LEMMA TypeReplayBegun ==
  ASSUME TypeInv, NEW k \in Task, Start(k) \/ Replay(k)
  PROVE  TypeInv'
<1>1. PICK call \in {"start", "replay"} : BeginReplay(k, call)
  BY DEF Start, Replay
<1>2. /\ UNCHANGED <<events, pollTimer, intervals, lastProcessedTime, blind>>
      /\ running' \in BOOLEAN
  BY DEF Start, Replay, timerVars, TypeInv, TypeOK
<1>3. model' = NoModel /\ projected' = <<>>
  BY <1>1 DEF BeginReplay
<1>4. projected' \in Seq(Position) /\ ProjectedStored'
  BY <1>3 DEF ProjectedStored
<1>5. Tally(model, projected)'
  <2>1. \A facts : Saying(<<>>, facts)' = {}
    BY DEF Saying
  <2>2. Cardinality({}) = 0
    BY FS_EmptySet
  <2>3. DOMAIN NoModel.agents = {}
    BY DEF NoModel
  <2>4. Len(<<>>) = 0
    OBVIOUS
  <2>5. Saying(projected, SignedFacts)' = {} /\ \A a : Saying(projected, FactsOf(a))' = {}
    BY <1>3 DEF Saying
  <2>6. {a \in Agent : Saying(projected, FactsOf(a))' # {}} = {}
    BY <2>5
  <2>7. /\ DOMAIN model' = {"agents", "totalProofs", "anchoredCount", "pendingCount"}
        /\ model'.totalProofs = 0 /\ model'.anchoredCount = 0 /\ model'.pendingCount = 0
        /\ DOMAIN model'.agents = {}
    BY <1>3, <2>3 DEF NoModel
  <2>8. Len(projected') = 0 /\ Cardinality(Saying(projected, SignedFacts)') = 0
    BY <1>3, <2>2, <2>4, <2>5
  <2>9. QED BY <2>6, <2>7, <2>8 DEF Tally
<1>6. task' \in [Task -> TaskState] /\ TaskInv'
  <2> DEFINE t == [call |-> call, step |-> "querying", from |-> Never,
                   offset |-> 0, page |-> <<>>, hasMore |-> FALSE, latest |-> Never]
  <2>1. t \in TaskState
    BY ParameterTypes DEF TaskState, Call, Step, Never
  <2>2. Holding(t)
    <3>1. Len(events) >= 0
      BY DEF TypeInv, TypeOK
    <3>2. QED BY <3>1 DEF Holding
  <2>3. task' = [task EXCEPT ![k] = t]
    BY <1>1 DEF BeginReplay, Ask
  <2> HIDE DEF t
  <2>4. QED BY <1>2, <2>1, <2>2, <2>3, TaskMoves DEF TypeInv, TypeOK
<1>7. replays' \in 0..MaxReplays /\ broken' \in BOOLEAN /\ overlapped' \in BOOLEAN
  <2>1. replays \in 0..MaxReplays /\ MaxReplays \in Nat
    BY ParameterTypes DEF TypeInv, TypeOK
  <2>2. replays < MaxReplays /\ replays' = replays + 1 /\ broken' = FALSE
    BY <1>1 DEF BeginReplay
  <2>3. replays' \in 0..MaxReplays
    BY <2>1, <2>2
  <2>4. overlapped' \in BOOLEAN
    BY <1>1 DEF BeginReplay, OthersBusy
  <2>5. QED BY <2>2, <2>3, <2>4
<1>8. /\ intervals' \in 0..MaxIntervals /\ pollTimer' \in BOOLEAN
      /\ pollTimer' => intervals' > 0
      /\ lastProcessedTime' = Never \/ \E j \in DOMAIN events : lastProcessedTime' = TimeOf(j)
  BY <1>2 DEF TypeInv, TypeOK, Bounds, CursorOfEvent
<1>9. QED BY <1>2, <1>4, <1>5, <1>6, <1>7, <1>8, TypeParts

LEMMA TypeStop ==
  ASSUME TypeInv, Stop
  PROVE  TypeInv'
<1>1. /\ UNCHANGED <<events, lastProcessedTime, modelVars, task, replays, broken, overlapped, blind>>
      /\ running' = FALSE /\ pollTimer' = FALSE
      /\ intervals' = IF pollTimer THEN intervals - 1 ELSE intervals
  BY DEF Stop, replayVars
<1>2. intervals' \in 0..MaxIntervals
  <2>1. intervals \in 0..MaxIntervals /\ MaxIntervals \in Nat /\ (pollTimer => intervals > 0)
    BY ParameterTypes DEF TypeInv, TypeOK, Bounds
  <2>2. QED BY <1>1, <2>1
<1>3. projected' \in Seq(Position) /\ ProjectedStored' /\ Tally(model, projected)'
  BY <1>1, TypeUnprojected
<1>4. TaskInv' /\ task' \in [Task -> TaskState]
  BY <1>1 DEF TypeInv, TypeOK, TaskInv, Holding, TimeOf
<1>5. QED BY <1>1, <1>2, <1>3, <1>4, TypeParts DEF TypeInv, TypeOK, CursorOfEvent

\* A call moves on and neither projects nor moves the cursor.
LEMMA TypeMoved ==
  ASSUME TypeInv, NEW k \in Task, NEW t \in TaskState, Holding(t),
         task' = [task EXCEPT ![k] = t],
         UNCHANGED <<events, lastProcessedTime, modelVars, replays, blind>>,
         running' = running, broken' \in BOOLEAN, overlapped' \in BOOLEAN,
         pollTimer' \in BOOLEAN, intervals' \in 0..MaxIntervals, pollTimer' => intervals' > 0
  PROVE  TypeInv'
<1>1. task' \in [Task -> TaskState] /\ TaskInv'
  BY TaskMoves DEF TypeInv, TypeOK
<1>2. projected' \in Seq(Position) /\ ProjectedStored' /\ Tally(model, projected)'
  BY TypeUnprojected
<1>3. QED BY <1>1, <1>2, TypeParts DEF TypeInv, TypeOK, CursorOfEvent
LEMMA TypeTicked ==
  ASSUME TypeInv, NEW k \in Task, Tick(k)
  PROVE  TypeInv'
<1> DEFINE from == IF lastProcessedTime = Never THEN Never ELSE lastProcessedTime + 1
           t == [call |-> "poll", step |-> "querying", from |-> from,
                 offset |-> 0, page |-> <<>>, hasMore |-> FALSE, latest |-> Never]
<1>1. /\ task' = [task EXCEPT ![k] = t]
      /\ UNCHANGED <<events, timerVars, lastProcessedTime, modelVars, replays, broken, blind>>
  BY DEF Tick, Ask
<1>2. from \in 0..(MaxTime + 1)
  BY ParameterTypes DEF TypeInv, TypeOK, Time, Never
<1> HIDE DEF from
<1>3. t \in TaskState
  BY <1>2, ParameterTypes DEF TaskState, Call, Step
<1>4. Holding(t)
  <2>1. Len(events) >= 0
    BY DEF TypeInv, TypeOK
  <2>2. QED BY <2>1 DEF Holding
<1> HIDE DEF t
<1>5. overlapped' \in BOOLEAN
  BY DEF Tick, OthersBusy, TypeInv, TypeOK
<1>6. QED
  BY <1>1, <1>3, <1>4, <1>5, TypeMoved DEF timerVars, replayVars, TypeInv, TypeOK, Bounds

\* The page a query answers with; the times are all after Never.
LEMMA PageOfTask ==
  ASSUME TypeInv, NEW k \in Task, At(k, "querying"), NEW page,
         page = SubSeq(Matching(task[k].from), task[k].offset + 1,
                       SmallerOf(task[k].offset + ReplayBatchSize, Len(Matching(task[k].from))))
  PROVE  /\ page \in Seq(DOMAIN events) /\ page \in Seq(Position) /\ Ascending(page)
         /\ task[k].offset + Len(page) <= Len(events)
         /\ \A n \in DOMAIN page : TimeOf(page[n]) >= task[k].from
         /\ task[k].call = "poll" =>
              \A p \in DOMAIN events, n \in DOMAIN page :
                TimeOf(p) >= task[k].from /\ p <= page[n] => p \in Range(page)
         /\ task[k].call # "poll" =>
              /\ \A n \in DOMAIN page : page[n] = task[k].offset + n
              /\ \/ task[k].offset + ReplayBatchSize < Len(Matching(task[k].from))
                 \/ task[k].offset + Len(page) = Len(events)
<1> DEFINE t == task[k]
           more == t.offset + ReplayBatchSize < Len(Matching(t.from))
<1>1. t \in TaskState /\ Holding(t) /\ t.step = "querying"
  BY DEF TypeInv, TypeOK, TaskInv, At
<1>2. t.offset \in Nat /\ t.offset <= Len(events)
  BY <1>1 DEF TaskState, Holding
<1>3. /\ t.call = "poll" => t.offset = 0
      /\ t.call # "poll" => t.from = Never
  BY <1>1 DEF Holding
<1>4. Len(events) \in Nat /\ DOMAIN events = 1..Len(events) /\ Len(events) <= MaxEvents
  BY DEF TypeInv, TypeOK, Bounds
<1>5. \A p \in 1..Len(events) : TimeOf(p) \in Time
  <2>1. \A p \in 1..Len(events) : events[p] \in ProofEvent
    BY DEF TypeInv, TypeOK
  <2>2. QED BY <2>1 DEF TimeOf, ProofEvent
<1>6. t.call # "poll" => \A p \in 1..Len(events) : TimeOf(p) >= t.from
  BY <1>3, <1>5 DEF Never, Time
<1>7. t.call \in Call
  BY <1>1 DEF TaskState
<1>8. t.offset = 0 \/ \A p \in 1..Len(events) : TimeOf(p) >= t.from
  BY <1>3, <1>6
<1> HIDE DEF t
<1>9. page = SubSeq(Matching(t.from), t.offset + 1,
                    SmallerOf(t.offset + ReplayBatchSize, Len(Matching(t.from))))
  BY DEF t
<1>10. /\ page \in Seq(1..Len(events)) /\ Ascending(page)
       /\ t.offset + Len(page) <= Len(events)
       /\ \A n \in DOMAIN page : TimeOf(page[n]) >= t.from
       /\ \A p \in 1..Len(events), n \in DOMAIN page :
            t.offset = 0 /\ TimeOf(p) >= t.from /\ p <= page[n] => p \in Range(page)
       /\ (\A p \in 1..Len(events) : TimeOf(p) >= t.from) =>
            /\ \A n \in DOMAIN page : page[n] = t.offset + n
            /\ more \/ t.offset + Len(page) = Len(events)
  <2> DEFINE q == SubSeq(Matching(t.from), t.offset + 1,
                         SmallerOf(t.offset + ReplayBatchSize, Len(Matching(t.from))))
  <2>1. /\ q \in Seq(1..Len(events)) /\ Ascending(q)
        /\ t.offset + Len(q) <= Len(events)
        /\ \A n \in DOMAIN q : TimeOf(q[n]) >= t.from
        /\ \A p \in 1..Len(events), n \in DOMAIN q :
             t.offset = 0 /\ TimeOf(p) >= t.from /\ p <= q[n] => p \in Range(q)
        /\ (\A p \in 1..Len(events) : TimeOf(p) >= t.from) =>
             /\ \A n \in DOMAIN q : q[n] = t.offset + n
             /\ more \/ t.offset + Len(q) = Len(events)
    BY <1>2, <1>4, <1>8, PageFacts
  <2>2. q = page
    BY <1>9
  <2> HIDE DEF q, more
  <2>3. QED BY <2>1, <2>2
<1>11. page \in Seq(Position)
  <2>1. \A p \in 1..Len(events) : p \in Position
    BY <1>4, ParameterTypes DEF Position
  <2>2. QED BY <1>10, <2>1
<1> HIDE DEF more
<1>12. QED BY <1>3, <1>4, <1>6, <1>10, <1>11 DEF t, more

LEMMA TypeAnswered ==
  ASSUME TypeInv, NEW k \in Task, Answer(k)
  PROVE  TypeInv'
<1> DEFINE all == Matching(task[k].from)
           page == SubSeq(all, task[k].offset + 1,
                          SmallerOf(task[k].offset + ReplayBatchSize, Len(all)))
           hasMore == task[k].offset + ReplayBatchSize < Len(all)
           t == [task[k] EXCEPT !.step = "answered", !.page = page, !.hasMore = hasMore]
<1>1. At(k, "querying") /\ task[k] \in TaskState /\ Holding(task[k])
  BY DEF Answer, TypeInv, TypeOK, TaskInv
<1>2. task' = [task EXCEPT ![k] = t]
  BY DEF Answer
<1>3. /\ page \in Seq(DOMAIN events) /\ page \in Seq(Position) /\ Ascending(page)
      /\ task[k].offset + Len(page) <= Len(events)
  BY <1>1, PageOfTask
<1>4. hasMore \in BOOLEAN
  OBVIOUS
<1> HIDE DEF page, hasMore
<1>5. t \in TaskState
  BY <1>1, <1>3, <1>4 DEF TaskState, Step
<1>6. Holding(t)
  <2>1. t.call = task[k].call /\ t.offset = task[k].offset /\ t.step = "answered" /\ t.page = page
    BY <1>1 DEF TaskState
  <2>2. \A n \in DOMAIN page : page[n] \in DOMAIN events
    BY <1>3
  <2> HIDE DEF t
  <2>3. QED BY <1>1, <1>3, <2>1, <2>2 DEF Holding
<1> HIDE DEF t
<1>7. UNCHANGED <<events, timerVars, lastProcessedTime, modelVars, replayVars>>
  BY DEF Answer
<1>8. QED
  BY <1>2, <1>5, <1>6, <1>7, TypeMoved DEF timerVars, replayVars, TypeInv, TypeOK, Bounds

LEMMA TypeEnded ==
  ASSUME TypeInv, NEW k \in Task, QueryFails(k) \/ Persisted(k)
  PROVE  TypeInv'
<1>1. NoTask \in TaskState /\ Holding(NoTask)
  <2>1. <<>> \in Seq(Position)
    OBVIOUS
  <2>2. NoTask \in TaskState
    BY <2>1, ParameterTypes DEF NoTask, TaskState, Call, Step, Never
  <2>3. QED BY <2>2 DEF Holding, NoTask
<1>2. /\ task' = [task EXCEPT ![k] = NoTask]
      /\ UNCHANGED <<events, lastProcessedTime, modelVars, replays, blind>>
      /\ running' = running
  BY DEF QueryFails, Persisted, End, timerVars, replayVars
<1>3. broken' \in BOOLEAN /\ overlapped' \in BOOLEAN
  BY DEF QueryFails, Persisted, replayVars, TypeInv, TypeOK
<1>4. intervals' \in 0..MaxIntervals /\ pollTimer' \in BOOLEAN /\ (pollTimer' => intervals' > 0)
  <2>1. /\ intervals \in 0..MaxIntervals /\ MaxIntervals \in Nat
        /\ pollTimer \in BOOLEAN /\ (pollTimer => intervals > 0)
    BY ParameterTypes DEF TypeInv, TypeOK, Bounds
  <2>2. \/ intervals' = intervals /\ pollTimer' = pollTimer
        \/ intervals < MaxIntervals /\ intervals' = intervals + 1 /\ pollTimer' = TRUE
    BY DEF QueryFails, Persisted, timerVars
  <2>3. CASE intervals' = intervals /\ pollTimer' = pollTimer
    BY <2>1, <2>3
  <2>4. CASE intervals < MaxIntervals /\ intervals' = intervals + 1 /\ pollTimer' = TRUE
    <3>1. intervals' \in 0..MaxIntervals /\ intervals' > 0
      BY <2>1, <2>4
    <3>2. QED BY <2>4, <3>1
  <2>5. QED BY <2>2, <2>3, <2>4
<1>5. QED BY <1>1, <1>2, <1>3, <1>4, TypeMoved
LEMMA TypeReplayed ==
  ASSUME TypeInv, NEW k \in Task, ReplayPage(k)
  PROVE  TypeInv'
<1> DEFINE page == task[k].page
           next == [call |-> task[k].call, step |-> "querying", from |-> Never,
                    offset |-> task[k].offset + Len(page), page |-> <<>>, hasMore |-> FALSE, latest |-> Never]
           latest == [task[k] EXCEPT !.step = "readingLatest"]
           persisting == [task[k] EXCEPT !.step = "persisting"]
<1>1. /\ task[k] \in TaskState /\ Holding(task[k])
      /\ task[k].step = "answered" /\ task[k].call # "poll"
  BY DEF ReplayPage, At, TypeInv, TypeOK, TaskInv
<1>2. /\ page \in Seq(Position) /\ \A n \in DOMAIN page : page[n] \in DOMAIN events
      /\ task[k].offset + Len(page) <= Len(events) /\ task[k].offset \in Nat
      /\ Len(page) \in Nat
  BY <1>1 DEF TaskState, Holding
<1>3. /\ ProjectPage(page) /\ UNCHANGED <<events, timerVars, replayVars>>
      /\ IF task[k].hasMore
         THEN task' = [task EXCEPT ![k] = next] /\ UNCHANGED lastProcessedTime
         ELSE IF model'.totalProofs > 0
         THEN task' = [task EXCEPT ![k] = latest] /\ UNCHANGED lastProcessedTime
         ELSE task' = [task EXCEPT ![k] = persisting] /\ lastProcessedTime' = Never
  BY DEF ReplayPage, Ask, Goto
<1>4. /\ Tally(model, projected)' /\ ProjectedStored' /\ projected' \in Seq(Position)
      /\ model'.totalProofs = Len(projected) + Len(page)
  BY <1>2, <1>3, TypeProjected
<1>5. Len(events) \in Nat /\ Len(events) <= MaxEvents /\ MaxEvents \in Nat
  BY ParameterTypes DEF TypeInv, TypeOK, Bounds
<1>6. next \in TaskState /\ Holding(next)
  <2>1. task[k].offset + Len(page) \in 0..MaxEvents
    BY <1>2, <1>5
  <2>2. <<>> \in Seq(Position) /\ Never \in 0..(MaxTime + 1)
    BY ParameterTypes DEF Never
  <2>3. next \in TaskState
    BY <1>1, <2>1, <2>2 DEF TaskState, Step
  <2>4. QED BY <1>1, <1>2, <2>3 DEF Holding
<1>7. model'.totalProofs > 0 => latest \in TaskState /\ Holding(latest)
  <2>1. latest \in TaskState
    BY <1>1 DEF TaskState, Step
  <2>2. ASSUME model'.totalProofs > 0 PROVE events # <<>>
    <3>1. Len(projected') > 0
      BY <1>4, <2>2 DEF Tally
    <3>2. 1 \in DOMAIN projected'
      BY <1>4, <3>1
    <3>3. projected'[1] \in DOMAIN events
      BY <1>3, <1>4, <3>2 DEF ProjectedStored
    <3>4. QED BY <3>3
  <2>3. latest.step = "readingLatest" /\ latest.call # "poll"
    BY <1>1 DEF TaskState
  <2> HIDE DEF latest
  <2>4. QED BY <2>1, <2>2, <2>3 DEF Holding
<1>8. persisting \in TaskState /\ Holding(persisting)
  <2>1. persisting \in TaskState /\ persisting.step = "persisting" /\ persisting.call # "poll"
    BY <1>1 DEF TaskState, Step
  <2> HIDE DEF persisting
  <2>2. QED BY <2>1 DEF Holding
<1> HIDE DEF next, latest, persisting
<1>9. PICK t \in TaskState : Holding(t) /\ task' = [task EXCEPT ![k] = t]
  BY <1>3, <1>6, <1>7, <1>8
<1>10. task' \in [Task -> TaskState] /\ TaskInv'
  BY <1>3, <1>9, TaskMoves DEF TypeInv, TypeOK
<1>11. lastProcessedTime' = Never \/ \E j \in DOMAIN events : lastProcessedTime' = TimeOf(j)
  BY <1>3 DEF TypeInv, CursorOfEvent
<1>12. QED
  BY <1>3, <1>4, <1>10, <1>11, TypeParts DEF timerVars, replayVars, TypeInv, TypeOK, Bounds

LEMMA TypeLatestRead ==
  ASSUME TypeInv, NEW k \in Task, ReadLatest(k)
  PROVE  /\ TypeInv'
         /\ Len(events) \in DOMAIN events
         /\ events[Len(events)].occurredAt = TimeOf(Len(events)) /\ TimeOf(Len(events)) \in Time
<1> DEFINE L == Len(events)
           t == [task[k] EXCEPT !.step = "latestRead", !.latest = events[L].occurredAt]
<1>1. /\ task[k] \in TaskState /\ Holding(task[k]) /\ task[k].step = "readingLatest"
  BY DEF ReadLatest, At, TypeInv, TypeOK, TaskInv
<1>2. L \in DOMAIN events /\ events[L].occurredAt = TimeOf(L) /\ TimeOf(L) \in Time
  <2>1. events # <<>> /\ events \in Seq(ProofEvent)
    BY <1>1 DEF Holding, TypeInv, TypeOK
  <2>2. L \in DOMAIN events /\ events[L] \in ProofEvent
    BY <2>1
  <2>3. QED BY <2>2 DEF TimeOf, ProofEvent
<1>3. /\ task' = [task EXCEPT ![k] = t]
      /\ UNCHANGED <<events, timerVars, lastProcessedTime, modelVars, replayVars>>
  BY DEF ReadLatest
<1> HIDE DEF L
<1>4. t \in TaskState /\ Holding(t)
  <2>1. /\ t \in TaskState /\ t.step = "latestRead" /\ t.call = task[k].call
        /\ t.latest = TimeOf(L)
    BY <1>1, <1>2 DEF TaskState, Step
  <2>2. t.call # "poll"
    BY <1>1, <2>1 DEF Holding
  <2> HIDE DEF t
  <2>3. QED BY <1>2, <2>1, <2>2 DEF Holding
<1> HIDE DEF t
<1>5. TypeInv'
  BY <1>3, <1>4, TypeMoved DEF timerVars, replayVars, TypeInv, TypeOK, Bounds
<1>6. QED BY <1>2, <1>5 DEF L

LEMMA TypeCursorMoved ==
  ASSUME TypeInv, NEW k \in Task, MoveCursor(k)
  PROVE  TypeInv'
<1> DEFINE t == [task[k] EXCEPT !.step = "persisting"]
<1>1. /\ task[k] \in TaskState /\ Holding(task[k]) /\ task[k].step = "latestRead"
  BY DEF MoveCursor, At, TypeInv, TypeOK, TaskInv
<1>2. t \in TaskState /\ Holding(t)
  <2>1. t \in TaskState /\ t.step = "persisting" /\ t.call = task[k].call
    BY <1>1 DEF TaskState, Step
  <2>2. t.call # "poll"
    BY <1>1, <2>1 DEF Holding
  <2> HIDE DEF t
  <2>3. QED BY <2>1, <2>2 DEF Holding
<1>3. task' = [task EXCEPT ![k] = t] /\ UNCHANGED <<events, timerVars, modelVars, replayVars>>
  BY DEF MoveCursor, Goto
<1> HIDE DEF t
<1>4. task' \in [Task -> TaskState] /\ TaskInv'
  BY <1>2, <1>3, TaskMoves DEF TypeInv, TypeOK
<1>5. projected' \in Seq(Position) /\ ProjectedStored' /\ Tally(model, projected)'
  BY <1>3, TypeUnprojected
<1>6. \E j \in DOMAIN events : lastProcessedTime' = TimeOf(j)
  BY <1>1 DEF MoveCursor, Holding
<1>7. QED
  BY <1>3, <1>4, <1>5, <1>6, TypeParts DEF timerVars, replayVars, TypeInv, TypeOK, Bounds

LEMMA TypePolled ==
  ASSUME TypeInv, NEW k \in Task, PollPage(k)
  PROVE  TypeInv'
<1> DEFINE page == task[k].page
           t == IF page = <<>> THEN NoTask ELSE [task[k] EXCEPT !.step = "persisting"]
<1>1. /\ task[k] \in TaskState /\ Holding(task[k])
      /\ task[k].step = "answered" /\ task[k].call = "poll"
  BY DEF PollPage, At, TypeInv, TypeOK, TaskInv
<1>2. page \in Seq(Position) /\ \A n \in DOMAIN page : page[n] \in DOMAIN events
  BY <1>1 DEF TaskState, Holding
<1>3. t \in TaskState /\ Holding(t)
  <2>1. CASE page = <<>>
    <3>1. <<>> \in Seq(Position)
      OBVIOUS
    <3>2. NoTask \in TaskState
      BY <3>1, ParameterTypes DEF NoTask, TaskState, Call, Step, Never
    <3>3. QED BY <2>1, <3>2 DEF Holding, NoTask
  <2>2. CASE page # <<>>
    <3>1. /\ t \in TaskState /\ t.step = "persisting"
          /\ t.call = task[k].call /\ t.offset = task[k].offset
      BY <1>1, <2>2 DEF TaskState, Step
    <3> HIDE DEF t
    <3>2. QED BY <1>1, <3>1 DEF Holding
  <2>3. QED BY <2>1, <2>2
<1>4. /\ task' = [task EXCEPT ![k] = t] /\ UNCHANGED <<events, timerVars, replayVars>>
      /\ page = <<>> => UNCHANGED <<lastProcessedTime, modelVars>>
      /\ page # <<>> => ProjectPage(page) /\ lastProcessedTime' = events[Last(page)].occurredAt
  BY DEF PollPage, End, Goto
<1> HIDE DEF t
<1>5. task' \in [Task -> TaskState] /\ TaskInv'
  BY <1>3, <1>4, TaskMoves DEF TypeInv, TypeOK
<1>6. projected' \in Seq(Position) /\ ProjectedStored' /\ Tally(model, projected)'
  BY <1>2, <1>4, TypeUnprojected, TypeProjected
<1>7. page # <<>> => Last(page) \in DOMAIN events
  BY <1>2 DEF Last
<1>8. lastProcessedTime' = Never \/ \E j \in DOMAIN events : lastProcessedTime' = TimeOf(j)
  BY <1>4, <1>7 DEF TypeInv, CursorOfEvent, TimeOf
<1>9. QED
  BY <1>4, <1>5, <1>6, <1>8, TypeParts DEF timerVars, replayVars, TypeInv, TypeOK, Bounds

LEMMA TypeNext == TypeInv /\ [Next]_vars => TypeInv'
<1> SUFFICES ASSUME TypeInv, [Next]_vars PROVE TypeInv'
  OBVIOUS
<1>1. ASSUME NEW e \in ProofEvent, StoreEvent(e) PROVE TypeInv'
  BY <1>1, TypeStored
<1>2. ASSUME NEW k \in Task, Start(k) \/ Replay(k) PROVE TypeInv'
  BY <1>2, TypeReplayBegun
<1>3. ASSUME NEW k \in Task, Tick(k) PROVE TypeInv'
  BY <1>3, TypeTicked
<1>4. ASSUME NEW k \in Task, Proceed(k) PROVE TypeInv'
  BY <1>4, TypeAnswered, TypeEnded, TypeReplayed, TypeLatestRead, TypeCursorMoved,
     TypePolled DEF Proceed
<1>5. CASE Stop
  BY <1>5, TypeStop
<1>6. CASE UNCHANGED vars
  <2>1. /\ UNCHANGED <<events, running, pollTimer, intervals, lastProcessedTime, modelVars,
                       task, replays, broken, overlapped, blind>>
    BY <1>6 DEF vars, timerVars, replayVars
  <2>2. projected' \in Seq(Position) /\ ProjectedStored' /\ Tally(model, projected)'
    BY <2>1, TypeUnprojected
  <2>3. TaskInv' /\ task' \in [Task -> TaskState]
    BY <2>1 DEF TypeInv, TypeOK, TaskInv, Holding, TimeOf
  <2>4. QED BY <2>1, <2>2, <2>3, TypeParts DEF TypeInv, TypeOK, CursorOfEvent, Bounds
<1>7. QED BY <1>1, <1>2, <1>3, <1>4, <1>5, <1>6 DEF Next

LEMMA TypeInvariant == Spec => []TypeInv
<1>1. QED BY TypeInit, TypeNext, PTL DEF Spec

\* The variables keep their types: every page and every projected position is of
\* the store's, and a summary's integrity stays between 0 and 1.
THEOREM ReadModelTypeCorrect == Spec => []TypeOK
<1>1. TypeInv => TypeOK
  BY DEF TypeInv
<1>2. QED BY <1>1, TypeInvariant, PTL

\* The summaries of an agent, as the tally has them.
LEMMA TallySummary ==
  ASSUME NEW history, NEW a, NEW acc, AgentTally(acc, history, a),
         \A n \in DOMAIN history : n \in Nat /\ events[history[n]].fact \in Fact
  PROVE  AgentSummary(acc, history, a)
<1>1. /\ Of(history, a, Anything) = Saying(history, FactsOf(a))
      /\ Of(history, a, IsDenial) = Saying(history, DenialsOf(a))
      /\ Of(history, a, CarriesScore) = Saying(history, ScoresOf(a))
      /\ Of(history, a, Falls) = Saying(history, FallsOf(a))
      /\ Of(history, a, Rises) = Saying(history, RisesOf(a))
  BY DEF Of, Saying, FactsOf, DenialsOf, ScoresOf, FallsOf, RisesOf, Anything
<1> DEFINE scored == Saying(history, ScoresOf(a))
<1>2. acc.currentScore =
        IF scored = {} THEN 0
        ELSE events[history[CHOOSE n \in scored : \A j \in scored : j <= n]].fact.score
  <2>1. \A n \in scored : n \in Nat
    BY DEF Saying
  <2>2. CASE scored = {}
    BY <2>2 DEF AgentTally
  <2>3. CASE scored # {}
    <3>1. PICK n \in scored : /\ \A j \in scored : j <= n
                              /\ acc.currentScore = events[history[n]].fact.score
      BY <2>3 DEF AgentTally
    <3> HIDE DEF scored
    <3>2. \A i \in scored : (\A j \in scored : j <= i) => i = n
      BY <2>1, <3>1
    <3>3. (CHOOSE i \in scored : \A j \in scored : j <= i) = n
      BY <3>1, <3>2
    <3>4. QED BY <2>3, <3>1, <3>3
  <2>4. QED BY <2>2, <2>3
<1>3. QED BY <1>1, <1>2 DEF AgentTally, AgentSummary

\* However calls overlap, fail and repeat pages, the summaries are those of the
\* events that were projected.
THEOREM SummariesCountProjected == Spec => []SummariesCount
<1>1. TypeInv => SummariesCount
  <2> SUFFICES ASSUME TypeInv PROVE SummariesCount
    OBVIOUS
  <2>1. \A n \in DOMAIN projected : n \in Nat /\ events[projected[n]].fact \in Fact
    <3>1. \A n \in DOMAIN projected : events[projected[n]] \in ProofEvent /\ n \in Nat
      BY DEF TypeInv, TypeOK, ProjectedStored
    <3>2. QED BY <3>1 DEF ProofEvent
  <2>2. Tally(model, projected)
    BY DEF TypeInv
  <2>3. Signed(projected) = Saying(projected, SignedFacts)
    BY <2>1 DEF Signed, Saying, SignedFacts
  <2>4. ASSUME NEW a \in DOMAIN model.agents
        PROVE  AgentSummary(model.agents[a], projected, a)
    BY <2>1, <2>2, TallySummary DEF Tally
  <2>5. QED BY <2>2, <2>3, <2>4 DEF SummariesCount, Tally
<1>2. QED BY <1>1, TypeInvariant, PTL
-----------------------------------------------------------------------------
(***************************************************************************)
(* One call at a time.                                                     *)
(***************************************************************************)
\* Nothing is under way in the other slots.
Alone(k) == \A j \in Task : j # k => task[j].step = "idle" /\ task[j].call = "poll"

LEMMA AloneIfBusy ==
  ASSUME TypeInv, OneTask, NEW k \in Task, ~ At(k, "idle")
  PROVE  Alone(k)
<1>1. ASSUME NEW j \in Task, j # k PROVE task[j].step = "idle" /\ task[j].call = "poll"
  <2>1. At(j, "idle")
    BY <1>1 DEF OneTask
  <2>2. Holding(task[j])
    BY DEF TypeInv, TaskInv
  <2>3. QED BY <2>1, <2>2 DEF At, Holding
<1>2. QED BY <1>1 DEF Alone

LEMMA AloneIfFree ==
  ASSUME TypeInv, NEW k \in Task, At(k, "idle"), ~ OthersBusy(k)
  PROVE  Alone(k) /\ task[k].call = "poll" /\ task[k].step = "idle"
<1>1. \A j \in Task : At(j, "idle") /\ Holding(task[j])
  BY DEF OthersBusy, TypeInv, TaskInv
<1>2. QED BY <1>1 DEF Alone, At, Holding

\* The one call moves on: what is left to show of it.
LEMMA LoneCall ==
  ASSUME TypeInv, NEW k \in Task, Alone(k), NEW t \in TaskState,
         events' = events, task' = [task EXCEPT ![k] = t],
         t.call # "poll" => ReplayHolds(t, projected'),
         t.call = "poll" => PollHolds(t, lastProcessedTime'),
         ~ broken' /\ Settles(t) => Parted(projected', lastProcessedTime')
  PROVE  OneTask' /\ ReplayInv' /\ PollInv' /\ CursorInv'
<1>1. \A j \in Task : task'[j] = IF j = k THEN t ELSE task[j]
  BY DEF TypeInv, TypeOK
<1>2. OneTask'
  BY <1>1 DEF OneTask, Alone, At
<1>3. ReplayHolds(t, projected') => ReplayHolds(t, projected)'
  BY DEF ReplayHolds, UpTo, Parted, TimeOf, Overtaking
<1>4. PollHolds(t, lastProcessedTime') => PollHolds(t, lastProcessedTime)'
  BY DEF PollHolds, TimeOf, Range
<1>5. ASSUME NEW j \in Task, j # k
      PROVE  /\ task'[j].call = "poll" /\ PollHolds(task[j], lastProcessedTime)'
  <2>1. task'[j].step = "idle" /\ task'[j].call = "poll"
    BY <1>1, <1>5 DEF Alone
  <2>2. QED BY <2>1 DEF PollHolds
<1>6. ReplayInv'
  <2>1. ASSUME NEW j \in Task, task'[j].call # "poll"
        PROVE  ReplayHolds(task[j], projected)'
    <3>1. j = k /\ task'[j] = t
      BY <1>1, <1>5, <2>1
    <3>2. ReplayHolds(t, projected)'
      BY <1>3, <2>1, <3>1
    <3>3. QED BY <3>1, <3>2 DEF ReplayHolds
  <2>2. QED BY <2>1 DEF ReplayInv
<1>7. PollInv'
  <2>1. ASSUME NEW j \in Task, task'[j].call = "poll"
        PROVE  PollHolds(task[j], lastProcessedTime)'
    <3>1. CASE j # k
      BY <1>5, <3>1
    <3>2. CASE j = k
      <4>1. task'[j] = t
        BY <1>1, <3>2
      <4>2. PollHolds(t, lastProcessedTime)'
        BY <1>4, <2>1, <4>1
      <4>3. QED BY <4>1, <4>2 DEF PollHolds
    <3>3. QED BY <3>1, <3>2
  <2>2. QED BY <2>1 DEF PollInv
<1>8. CursorInv'
  <2> SUFFICES ASSUME ~ broken', (\A j \in Task : Settles(task[j]))'
               PROVE  Parted(projected, lastProcessedTime)'
    BY DEF CursorInv
  <2>1. task'[k] = t
    BY <1>1
  <2>2. Settles(t)
    BY <2>1 DEF Settles
  <2>3. Parted(projected', lastProcessedTime')
    BY <2>2
  <2>4. Overtaken' = Overtaken /\ Overtaking' = Overtaking
    BY DEF Overtaken, Overtaking
  <2>5. QED BY <2>3, <2>4 DEF Parted, TimeOf
<1>9. QED BY <1>2, <1>6, <1>7, <1>8

\* What ProjectedOnce says of a history.
Once(history) ==
  \A j, k \in DOMAIN history : history[j] = history[k] => j = k \/ history[j] \in Overtaking

LEMMA OnceKept ==
  ASSUME events' = events, ~ broken' => Once(projected')
  PROVE  ProjectedOnce'
<1>1. Overtaking' = Overtaking
  BY DEF Overtaking
<1>2. QED BY <1>1 DEF Once, ProjectedOnce
\* A replay begins: the models are empty, and the cursor does not count.
LEMMA BegunInOrder ==
  ASSUME TypeInv, ~ overlapped', NEW k \in Task, Start(k) \/ Replay(k)
  PROVE  OneTask' /\ ReplayInv' /\ PollInv' /\ CursorInv' /\ ProjectedOnce'
<1>1. PICK call \in {"start", "replay"} : BeginReplay(k, call)
  BY DEF Start, Replay
<1>2. events' = events
  BY DEF Start, Replay
<1> DEFINE t == [call |-> call, step |-> "querying", from |-> Never,
                 offset |-> 0, page |-> <<>>, hasMore |-> FALSE, latest |-> Never]
<1>3. t \in TaskState
  BY ParameterTypes DEF TaskState, Call, Step, Never
<1>4. task' = [task EXCEPT ![k] = t] /\ projected' = <<>> /\ Alone(k)
  BY <1>1, AloneIfFree DEF BeginReplay, Ask
<1>5. t.call # "poll" /\ t.step = "querying" /\ t.offset = 0
  OBVIOUS
<1> HIDE DEF t
<1>6. ReplayHolds(t, projected')
  BY <1>4, <1>5 DEF ReplayHolds, UpTo
<1>7. ~ Settles(t)
  BY <1>5 DEF Settles
<1>8. OneTask' /\ ReplayInv' /\ PollInv' /\ CursorInv'
  BY <1>2, <1>3, <1>4, <1>5, <1>6, <1>7, LoneCall
<1>9. ProjectedOnce'
  BY <1>4 DEF ProjectedOnce
<1>10. QED BY <1>8, <1>9

\* Nothing is projected and the cursor stays.
LEMMA StillParted ==
  ASSUME OrderInv, ~ overlapped, NEW k \in Task, Alone(k), Settles(task[k]),
         ~ broken' => ~ broken, UNCHANGED <<events, lastProcessedTime, modelVars>>
  PROVE  /\ ~ broken' => Parted(projected', lastProcessedTime')
         /\ ProjectedOnce'
<1>1. \A j \in Task : Settles(task[j])
  BY DEF Alone, Settles
<1>2. projected' = projected
  BY DEF modelVars
<1>3. Once(projected) \/ broken
  BY DEF OrderInv, ProjectedOnce, Once
<1>4. QED BY <1>1, <1>2, <1>3, OnceKept DEF OrderInv, CursorInv

LEMMA TickedInOrder ==
  ASSUME OrderInv, ~ overlapped', NEW k \in Task, Tick(k)
  PROVE  OneTask' /\ ReplayInv' /\ PollInv' /\ CursorInv' /\ ProjectedOnce'
<1> DEFINE from == IF lastProcessedTime = Never THEN Never ELSE lastProcessedTime + 1
           t == [call |-> "poll", step |-> "querying", from |-> from,
                 offset |-> 0, page |-> <<>>, hasMore |-> FALSE, latest |-> Never]
<1>1. /\ task' = [task EXCEPT ![k] = t]
      /\ UNCHANGED <<events, lastProcessedTime, modelVars, broken>>
      /\ ~ overlapped /\ ~ OthersBusy(k)
  BY DEF Tick, Ask
<1>2. Alone(k) /\ Settles(task[k])
  BY <1>1, AloneIfFree DEF Tick, OrderInv, Settles
<1>3. from \in 0..(MaxTime + 1)
  BY ParameterTypes DEF OrderInv, TypeInv, TypeOK, Time, Never
<1>4. PollHolds(t, lastProcessedTime')
  BY <1>1 DEF PollHolds
<1> HIDE DEF from
<1>5. t \in TaskState /\ t.call = "poll"
  BY <1>3, ParameterTypes DEF TaskState, Call, Step
<1> HIDE DEF t
<1>6. QED BY <1>1, <1>2, <1>4, <1>5, StillParted, LoneCall DEF OrderInv

LEMMA AnsweredInOrder ==
  ASSUME OrderInv, ~ overlapped, NEW k \in Task, Answer(k)
  PROVE  OneTask' /\ ReplayInv' /\ PollInv' /\ CursorInv' /\ ProjectedOnce'
<1> DEFINE all == Matching(task[k].from)
           page == SubSeq(all, task[k].offset + 1,
                          SmallerOf(task[k].offset + ReplayBatchSize, Len(all)))
           hasMore == task[k].offset + ReplayBatchSize < Len(all)
           t == [task[k] EXCEPT !.step = "answered", !.page = page, !.hasMore = hasMore]
<1>1. At(k, "querying") /\ task[k] \in TaskState /\ task[k].step = "querying"
  BY DEF Answer, At, OrderInv, TypeInv, TypeOK
<1>2. /\ task' = [task EXCEPT ![k] = t]
      /\ UNCHANGED <<events, lastProcessedTime, modelVars, broken>>
  BY DEF Answer, replayVars
<1>3. Alone(k)
  BY <1>1, AloneIfBusy DEF At, OrderInv
<1>4. /\ page \in Seq(DOMAIN events) /\ page \in Seq(Position)
      /\ \A n \in DOMAIN page : TimeOf(page[n]) >= task[k].from
      /\ task[k].call # "poll" => \A n \in DOMAIN page : page[n] = task[k].offset + n
  <2>1. TypeInv
    BY DEF OrderInv
  <2>2. /\ page \in Seq(DOMAIN events) /\ page \in Seq(Position)
        /\ \A n \in DOMAIN page : TimeOf(page[n]) >= task[k].from
    BY <1>1, <2>1, PageOfTask
  <2>3. task[k].call # "poll" => \A n \in DOMAIN page : page[n] = task[k].offset + n
    BY <1>1, <2>1, PageOfTask
  <2> HIDE DEF page, hasMore
  <2>4. QED BY <2>2, <2>3
<1>5. hasMore \in BOOLEAN
  OBVIOUS
<1> HIDE DEF page, hasMore
<1>6. /\ t \in TaskState /\ t.call = task[k].call /\ t.step = "answered"
      /\ t.page = page /\ t.hasMore = hasMore /\ t.offset = task[k].offset
  BY <1>1, <1>4, <1>5 DEF TaskState, Step
<1> HIDE DEF t
<1>7. ASSUME t.call # "poll" PROVE ReplayHolds(t, projected')
  <2>1. UpTo(projected, task[k].offset)
    BY <1>1, <1>6, <1>7 DEF OrderInv, ReplayInv, ReplayHolds
  <2>2. projected' = projected
    BY <1>2 DEF modelVars
  <2>3. QED BY <1>4, <1>6, <1>7, <2>1, <2>2 DEF ReplayHolds
<1>8. ASSUME t.call = "poll" PROVE PollHolds(t, lastProcessedTime')
  <2> DEFINE c == lastProcessedTime
  <2>1. task[k].from = IF c = Never THEN Never ELSE c + 1
    BY <1>1, <1>6, <1>8 DEF OrderInv, PollInv, PollHolds
  <2>2. \A p \in DOMAIN events : TimeOf(p) \in Time
    <3>1. \A p \in DOMAIN events : events[p] \in ProofEvent
      BY DEF OrderInv, TypeInv, TypeOK
    <3>2. QED BY <3>1 DEF TimeOf, ProofEvent
  <2>3. c \in Time \cup {Never}
    BY DEF OrderInv, TypeInv, TypeOK
  <2> HIDE DEF c
  <2>4. \A p \in DOMAIN events : TimeOf(p) >= task[k].from <=> TimeOf(p) > c
    BY <2>1, <2>2, <2>3 DEF Time, Never
  <2>5. \A n \in DOMAIN page : page[n] \in DOMAIN events
    BY <1>4
  <2>6. lastProcessedTime' = c
    BY <1>2 DEF c
  <2>7. QED BY <1>4, <1>6, <1>8, <2>4, <2>5, <2>6 DEF PollHolds
<1>9. Settles(t) => Settles(task[k])
  BY <1>6 DEF Settles
<1>10. ~ broken' => ~ broken
  BY <1>2
<1>11. Settles(t) /\ ~ broken' => Parted(projected', lastProcessedTime')
  BY <1>2, <1>3, <1>9, <1>10, StillParted
<1>12. ProjectedOnce'
  BY <1>2, OnceKept DEF OrderInv, ProjectedOnce, Once, modelVars
<1>13. QED BY <1>2, <1>3, <1>6, <1>7, <1>8, <1>11, <1>12, LoneCall DEF OrderInv

LEMMA EndedInOrder ==
  ASSUME OrderInv, ~ overlapped, NEW k \in Task, QueryFails(k) \/ Persisted(k)
  PROVE  OneTask' /\ ReplayInv' /\ PollInv' /\ CursorInv' /\ ProjectedOnce'
<1>1. NoTask \in TaskState /\ NoTask.call = "poll" /\ PollHolds(NoTask, lastProcessedTime')
  <2>1. <<>> \in Seq(Position)
    OBVIOUS
  <2>2. NoTask \in TaskState
    BY <2>1, ParameterTypes DEF NoTask, TaskState, Call, Step, Never
  <2>3. QED BY <2>2 DEF PollHolds, NoTask
<1>2. /\ task' = [task EXCEPT ![k] = NoTask]
      /\ UNCHANGED <<events, lastProcessedTime, modelVars>>
  BY DEF QueryFails, Persisted, End, replayVars
<1>3. Alone(k)
  BY AloneIfBusy DEF QueryFails, Persisted, At, OrderInv
<1>4. ~ broken' => ~ broken /\ Settles(task[k])
  BY DEF QueryFails, Persisted, replayVars, Settles, At
<1>5. ~ broken' => Parted(projected', lastProcessedTime')
  BY <1>2, <1>3, <1>4, StillParted
<1>6. ProjectedOnce'
  BY <1>2, <1>4, OnceKept DEF OrderInv, ProjectedOnce, Once, modelVars
<1>7. QED BY <1>1, <1>2, <1>3, <1>5, <1>6, LoneCall DEF OrderInv
\* A replay's page continues the positions.
LEMMA UpToPage ==
  ASSUME NEW S, NEW s \in Seq(S), NEW page \in Seq(S), NEW offset \in Nat, UpTo(s, offset),
         \A n \in DOMAIN page : page[n] = offset + n
  PROVE  UpTo(s \o page, offset + Len(page))
<1> DEFINE M == Len(page)
           t == s \o page
<1>1. M \in Nat /\ Len(s) = offset /\ \A n \in 1..offset : s[n] = n
  BY DEF UpTo
<1>2. /\ Len(t) = offset + M
      /\ \A n \in 1..offset : t[n] = s[n]
      /\ \A n \in 1..M : t[offset + n] = page[n]
  BY <1>1
<1>3. \A n \in 1..M : page[n] = offset + n
  OBVIOUS
<1> HIDE DEF M, t
<1>4. ASSUME NEW n \in 1..(offset + M) PROVE t[n] = n
  <2>1. CASE n \in 1..offset
    BY <1>1, <1>2, <2>1
  <2>2. CASE n \notin 1..offset
    <3>1. n - offset \in 1..M /\ offset + (n - offset) = n
      BY <1>1, <2>2
    <3>2. t[offset + (n - offset)] = page[n - offset]
      BY <1>2, <3>1
    <3>3. QED BY <1>3, <3>1, <3>2
  <2>3. QED BY <2>1, <2>2
<1>5. QED BY <1>2, <1>4 DEF UpTo, M, t

LEMMA ReplayedInOrder ==
  ASSUME OrderInv, ~ overlapped, NEW k \in Task, ReplayPage(k)
  PROVE  OneTask' /\ ReplayInv' /\ PollInv' /\ CursorInv' /\ ProjectedOnce'
<1> DEFINE page == task[k].page
           offset == task[k].offset
           next == [call |-> task[k].call, step |-> "querying", from |-> Never,
                    offset |-> offset + Len(page), page |-> <<>>, hasMore |-> FALSE, latest |-> Never]
           latest == [task[k] EXCEPT !.step = "readingLatest"]
           persisting == [task[k] EXCEPT !.step = "persisting"]
<1>1. /\ task[k] \in TaskState /\ Holding(task[k])
      /\ task[k].step = "answered" /\ task[k].call # "poll"
  BY DEF ReplayPage, At, OrderInv, TypeInv, TypeOK, TaskInv
<1>2. /\ page \in Seq(Position) /\ Len(page) \in Nat /\ offset \in Nat
      /\ offset + Len(page) <= Len(events)
      /\ \A n \in DOMAIN page : page[n] \in DOMAIN events
  BY <1>1 DEF TaskState, Holding
<1>3. UpTo(projected, offset) /\ \A n \in DOMAIN page : page[n] = offset + n
  BY <1>1 DEF OrderInv, ReplayInv, ReplayHolds
<1>4. /\ ProjectPage(page) /\ UNCHANGED <<events, broken>>
      /\ IF task[k].hasMore
         THEN task' = [task EXCEPT ![k] = next] /\ UNCHANGED lastProcessedTime
         ELSE IF model'.totalProofs > 0
         THEN task' = [task EXCEPT ![k] = latest] /\ UNCHANGED lastProcessedTime
         ELSE task' = [task EXCEPT ![k] = persisting] /\ lastProcessedTime' = Never
  BY DEF ReplayPage, Ask, Goto, replayVars
<1>5. Alone(k)
  BY <1>1, AloneIfBusy DEF At, OrderInv
<1>6. projected \in Seq(Position) /\ projected' = projected \o page
  BY <1>4 DEF OrderInv, TypeInv, TypeOK, ProjectPage
<1>7. UpTo(projected', offset + Len(page))
  BY <1>2, <1>3, <1>6, UpToPage
<1>8. model'.totalProofs = Len(projected')
  <2>1. TypeInv
    BY DEF OrderInv
  <2>2. model'.totalProofs = Len(projected) + Len(page)
    BY <1>2, <1>4, <2>1, TypeProjected
  <2>3. QED BY <1>2, <1>6, <2>2
<1> DEFINE M == offset + Len(page)
<1>9. M \in Nat /\ M <= Len(events)
  BY <1>2
<1>10. Len(projected') = M /\ \A n \in 1..M : projected'[n] = n
  BY <1>7 DEF UpTo
<1> HIDE DEF M
<1>11. projected' \in Seq(Position)
  BY <1>2, <1>6
<1>12. DOMAIN projected' = 1..M
  BY <1>10, <1>11
<1>13. /\ Len(events) \in Nat /\ DOMAIN events = 1..Len(events)
       /\ Len(events) <= MaxEvents /\ MaxEvents \in Nat
  BY ParameterTypes DEF OrderInv, TypeInv, TypeOK, Bounds
<1>14. ProjectedOnce'
  <2>1. Once(projected')
    BY <1>10, <1>12 DEF Once
  <2>2. QED BY <1>4, <2>1, OnceKept
<1>15. CASE task[k].hasMore
  <2>1. task' = [task EXCEPT ![k] = next]
    BY <1>4, <1>15
  <2>2. next \in TaskState
    <3>1. M \in 0..MaxEvents
      BY <1>9, <1>13
    <3>2. <<>> \in Seq(Position) /\ Never \in 0..(MaxTime + 1)
      BY ParameterTypes DEF Never
    <3>3. QED BY <1>1, <3>1, <3>2 DEF TaskState, Step, M
  <2>3. next.call # "poll" /\ next.step = "querying" /\ next.offset = M
    BY <1>1 DEF M
  <2> HIDE DEF next
  <2>4. ReplayHolds(next, projected')
    BY <1>10, <2>3 DEF ReplayHolds, UpTo
  <2>5. ~ Settles(next)
    BY <2>3 DEF Settles
  <2>6. OneTask' /\ ReplayInv' /\ PollInv' /\ CursorInv'
    BY <1>4, <1>5, <2>1, <2>2, <2>3, <2>4, <2>5, LoneCall DEF OrderInv
  <2>7. QED BY <1>14, <2>6
<1>16. CASE ~ task[k].hasMore /\ model'.totalProofs > 0
  <2>1. task' = [task EXCEPT ![k] = latest]
    BY <1>4, <1>16
  <2>2. latest \in TaskState /\ latest.call # "poll" /\ latest.step = "readingLatest"
    BY <1>1 DEF TaskState, Step
  <2> HIDE DEF latest
  <2>3. ReplayHolds(latest, projected')
    BY <2>2 DEF ReplayHolds
  <2>4. ~ Settles(latest)
    BY <2>2 DEF Settles
  <2>5. OneTask' /\ ReplayInv' /\ PollInv' /\ CursorInv'
    BY <1>4, <1>5, <2>1, <2>2, <2>3, <2>4, LoneCall DEF OrderInv
  <2>6. QED BY <1>14, <2>5
<1>17. CASE ~ task[k].hasMore /\ ~ (model'.totalProofs > 0)
  <2>1. task' = [task EXCEPT ![k] = persisting] /\ lastProcessedTime' = Never
    BY <1>4, <1>17
  <2>2. /\ persisting \in TaskState /\ persisting.call # "poll"
        /\ persisting.step = "persisting"
    BY <1>1 DEF TaskState, Step
  <2> HIDE DEF persisting
  <2>3. ReplayHolds(persisting, projected')
    BY <2>2 DEF ReplayHolds
  <2>4. DOMAIN projected' = {}
    BY <1>8, <1>9, <1>10, <1>12, <1>17
  <2>5. Parted(projected', lastProcessedTime')
    BY <2>4 DEF Parted
  <2>6. OneTask' /\ ReplayInv' /\ PollInv' /\ CursorInv'
    BY <1>4, <1>5, <2>1, <2>2, <2>3, <2>5, LoneCall DEF OrderInv
  <2>7. QED BY <1>14, <2>6
<1>18. QED BY <1>15, <1>16, <1>17

\* The cursor is the last event's time: whatever is later than that overtakes it.
LEMMA LatestInOrder ==
  ASSUME OrderInv, ~ overlapped, NEW k \in Task, ReadLatest(k)
  PROVE  OneTask' /\ ReplayInv' /\ PollInv' /\ CursorInv' /\ ProjectedOnce'
<1> DEFINE L == Len(events)
           t == [task[k] EXCEPT !.step = "latestRead", !.latest = events[L].occurredAt]
<1>1. /\ task[k] \in TaskState /\ Holding(task[k]) /\ task[k].step = "readingLatest"
  BY DEF ReadLatest, At, OrderInv, TypeInv, TypeOK, TaskInv
<1>2. task[k].call # "poll"
  BY <1>1 DEF Holding
<1>3. /\ L \in DOMAIN events
      /\ events[L].occurredAt = TimeOf(L) /\ TimeOf(L) \in Time
  BY TypeLatestRead DEF OrderInv
<1>4. /\ task' = [task EXCEPT ![k] = t]
      /\ UNCHANGED <<events, broken, modelVars>>
  BY DEF ReadLatest, replayVars
<1>5. t \in TaskState /\ t.step = "latestRead" /\ t.call # "poll" /\ t.latest = TimeOf(L)
  BY <1>1, <1>2, <1>3 DEF TaskState, Step
<1> HIDE DEF t
<1>6. Alone(k)
  BY <1>1, AloneIfBusy DEF At, OrderInv
<1>7. ~ Settles(t)
  BY <1>5 DEF Settles
<1>8. /\ L \in Nat /\ DOMAIN events = 1..L
      /\ \A p \in DOMAIN events : events[p] \in ProofEvent
  BY DEF OrderInv, TypeInv, TypeOK
<1>9. \A p \in DOMAIN events : TimeOf(p) \in Nat
  BY <1>8 DEF TimeOf, ProofEvent, Time
<1> HIDE DEF L
<1>10. ASSUME NEW p \in DOMAIN events PROVE p \in Overtaking \/ TimeOf(p) <= TimeOf(L)
  <2>1. CASE TimeOf(p) <= TimeOf(L)
    BY <2>1
  <2>2. CASE ~ (TimeOf(p) <= TimeOf(L))
    <3>1. TimeOf(L) < TimeOf(p) /\ L # p
      BY <1>3, <1>9, <2>2
    <3>2. L \in (p + 1)..L
      BY <1>8, <3>1
    <3>3. QED BY <3>1, <3>2 DEF Overtaking, TimeOf, L
  <2>3. QED BY <2>1, <2>2
<1>11. projected' = projected /\ \A n \in DOMAIN projected : projected[n] \in DOMAIN events
  BY <1>4 DEF modelVars, OrderInv, TypeInv, ProjectedStored
<1>12. ReplayHolds(t, projected')
  BY <1>5, <1>10, <1>11 DEF ReplayHolds, Parted
<1>13. ProjectedOnce'
  BY <1>4, <1>11, OnceKept DEF OrderInv, ProjectedOnce, Once
<1>14. QED BY <1>4, <1>5, <1>6, <1>7, <1>12, <1>13, LoneCall DEF OrderInv

LEMMA CursorInOrder ==
  ASSUME OrderInv, ~ overlapped, NEW k \in Task, MoveCursor(k)
  PROVE  OneTask' /\ ReplayInv' /\ PollInv' /\ CursorInv' /\ ProjectedOnce'
<1> DEFINE t == [task[k] EXCEPT !.step = "persisting"]
<1>1. /\ task[k] \in TaskState /\ Holding(task[k]) /\ task[k].step = "latestRead"
  BY DEF MoveCursor, At, OrderInv, TypeInv, TypeOK, TaskInv
<1>2. task[k].call # "poll"
  BY <1>1 DEF Holding
<1>3. /\ task' = [task EXCEPT ![k] = t] /\ lastProcessedTime' = task[k].latest
      /\ UNCHANGED <<events, broken, projected>>
  BY DEF MoveCursor, Goto, replayVars, modelVars
<1>4. t \in TaskState /\ t.step = "persisting" /\ t.call # "poll"
  BY <1>1, <1>2 DEF TaskState, Step
<1> HIDE DEF t
<1>5. Alone(k)
  BY <1>1, AloneIfBusy DEF At, OrderInv
<1>6. ReplayHolds(t, projected')
  BY <1>4 DEF ReplayHolds
<1>7. Parted(projected', lastProcessedTime')
  BY <1>1, <1>2, <1>3 DEF OrderInv, ReplayInv, ReplayHolds
<1>8. ProjectedOnce'
  BY <1>3, OnceKept DEF OrderInv, ProjectedOnce, Once
<1>9. QED BY <1>3, <1>4, <1>5, <1>6, <1>7, <1>8, LoneCall DEF OrderInv

\* The cursor moves to a page's last event: what of the page is later than that is
\* stored before it.
LEMMA PolledParts ==
  ASSUME OrderInv, ~ overlapped, ~ broken, Parted(projected, lastProcessedTime),
         NEW page \in Seq(Position), page # <<>>, Ascending(page),
         \A n \in DOMAIN page : page[n] \in DOMAIN events,
         \A n \in DOMAIN page : TimeOf(page[n]) > lastProcessedTime
  PROVE  /\ Parted(projected \o page, TimeOf(Last(page)))
         /\ Once(projected \o page)
<1> DEFINE c == lastProcessedTime
           q == Last(page)
           M == Len(page)
           O == Len(projected)
           t == projected \o page
<1>1. /\ M \in Nat /\ M > 0 /\ DOMAIN page = 1..M /\ q = page[M] /\ M \in 1..M
      /\ \A n \in 1..M : page[n] \in Nat /\ page[n] <= q
  <2>1. M \in Nat /\ M > 0 /\ DOMAIN page = 1..M /\ q = page[M] /\ M \in 1..M
    BY DEF Last
  <2>2. \A n \in 1..M : page[n] \in Nat
    <3>1. \A p \in Position : p \in Nat
      BY ParameterTypes DEF Position
    <3>2. \A n \in 1..M : page[n] \in Position
      OBVIOUS
    <3>3. QED BY <3>1, <3>2
  <2> HIDE DEF M, q
  <2>3. \A n \in 1..M : n = M \/ n < M
    BY <2>1
  <2>4. \A n \in 1..M : n = M \/ page[n] < page[M]
    BY <2>1, <2>3 DEF Ascending
  <2>5. QED BY <2>1, <2>2, <2>4
<1>2. projected \in Seq(Position) /\ \A n \in DOMAIN projected : projected[n] \in DOMAIN events
  BY DEF OrderInv, TypeInv, TypeOK, ProjectedStored
<1>3. /\ O \in Nat /\ DOMAIN projected = 1..O /\ DOMAIN t = 1..(O + M)
      /\ \A n \in 1..O : t[n] = projected[n]
      /\ \A n \in 1..M : t[O + n] = page[n]
  BY <1>2
<1>4. /\ DOMAIN events = 1..Len(events) /\ Len(events) \in Nat
      /\ \A p \in DOMAIN events : TimeOf(p) \in Nat
  <2>1. \A p \in DOMAIN events : events[p] \in ProofEvent
    BY DEF OrderInv, TypeInv, TypeOK
  <2>2. DOMAIN events = 1..Len(events) /\ Len(events) \in Nat
    BY DEF OrderInv, TypeInv, TypeOK
  <2>3. QED BY <2>1, <2>2 DEF TimeOf, ProofEvent, Time
<1>5. c \in Nat
  BY DEF OrderInv, TypeInv, TypeOK, Time, Never
<1>6. q \in DOMAIN events /\ TimeOf(q) > c
  BY <1>1
<1>7. \A n \in 1..O : projected[n] \in Overtaking \/ TimeOf(projected[n]) <= c
  BY <1>3 DEF Parted
<1> HIDE DEF c, q, M, O, t
<1>8. \A n \in 1..M : /\ page[n] \in DOMAIN events /\ TimeOf(page[n]) > c
                      /\ page[n] \in Overtaking \/ TimeOf(page[n]) <= TimeOf(q)
  <2> SUFFICES ASSUME NEW n \in 1..M, ~ (TimeOf(page[n]) <= TimeOf(q))
               PROVE  page[n] \in Overtaking
    BY <1>1 DEF c
  <2>1. page[n] \in DOMAIN events /\ page[n] <= q /\ page[n] \in Nat
    BY <1>1
  <2>2. TimeOf(q) < TimeOf(page[n]) /\ page[n] # q
    BY <1>4, <1>6, <2>1
  <2>3. q \in (page[n] + 1)..Len(events)
    BY <1>4, <1>6, <2>1, <2>2
  <2>4. QED BY <2>1, <2>2, <2>3 DEF Overtaking, TimeOf
<1>9. \A n \in 1..(O + M) : \/ n \in 1..O /\ t[n] = projected[n]
                            \/ n - O \in 1..M /\ t[n] = page[n - O]
  <2> SUFFICES ASSUME NEW n \in 1..(O + M), n \notin 1..O
               PROVE  n - O \in 1..M /\ t[n] = page[n - O]
    BY <1>3
  <2>1. n - O \in 1..M /\ O + (n - O) = n
    BY <1>1, <1>3
  <2>2. QED BY <1>3, <2>1
<1>10. \A n \in 1..(O + M) : t[n] \in Overtaking \/ TimeOf(t[n]) <= TimeOf(q)
  <2>1. \A n \in 1..O : projected[n] \in Overtaking \/ TimeOf(projected[n]) <= TimeOf(q)
    <3> SUFFICES ASSUME NEW n \in 1..O, projected[n] \notin Overtaking
                 PROVE  TimeOf(projected[n]) <= TimeOf(q)
      OBVIOUS
    <3> DEFINE x == TimeOf(projected[n])
               y == TimeOf(q)
    <3>1. x \in Nat /\ x <= c
      BY <1>2, <1>3, <1>4, <1>7
    <3>2. y \in Nat /\ y > c
      BY <1>4, <1>6
    <3> HIDE DEF x, y
    <3>3. x <= y
      BY <1>5, <3>1, <3>2
    <3>4. QED BY <3>3 DEF x, y
  <2>2. QED BY <1>8, <1>9, <2>1
<1>11. Once(t)
  <2> SUFFICES ASSUME NEW i \in 1..(O + M), NEW j \in 1..(O + M), t[i] = t[j],
                      t[i] \notin Overtaking
               PROVE  i = j
    BY <1>3 DEF Once
  <2>1. CASE i \in 1..O /\ j \in 1..O
    <3>1. t[i] = projected[i] /\ t[j] = projected[j]
      BY <1>3, <2>1
    <3>2. QED BY <1>3, <2>1, <3>1 DEF OrderInv, ProjectedOnce
  <2>2. CASE i - O \in 1..M /\ t[i] = page[i - O] /\ j - O \in 1..M /\ t[j] = page[j - O]
    <3>1. ~ (i - O < j - O) /\ ~ (j - O < i - O)
      <4>1. /\ i - O < j - O => page[i - O] < page[j - O]
            /\ j - O < i - O => page[j - O] < page[i - O]
        BY <1>1, <2>2 DEF Ascending
      <4>2. page[i - O] \in Nat /\ page[i - O] = page[j - O]
        BY <1>1, <2>2
      <4> DEFINE x == page[i - O]
                 y == page[j - O]
      <4> HIDE DEF x, y
      <4>3. x \in Nat /\ x = y /\ (i - O < j - O => x < y) /\ (j - O < i - O => y < x)
        BY <4>1, <4>2 DEF x, y
      <4>4. QED BY <4>3
    <3>2. QED BY <1>1, <1>3, <3>1
  <2>3. ASSUME NEW m \in 1..O, NEW n \in 1..M, projected[m] = page[n],
               page[n] \notin Overtaking
        PROVE  FALSE
    <3>1. TimeOf(projected[m]) <= c /\ TimeOf(page[n]) > c /\ TimeOf(page[n]) \in Nat
      BY <1>4, <1>7, <1>8, <2>3
    <3> DEFINE x == TimeOf(page[n])
    <3>2. x <= c /\ x > c /\ x \in Nat
      BY <2>3, <3>1
    <3> HIDE DEF x
    <3>3. QED BY <1>5, <3>2
  <2>4. /\ \/ i \in 1..O /\ t[i] = projected[i]
           \/ i - O \in 1..M /\ t[i] = page[i - O]
        /\ \/ j \in 1..O /\ t[j] = projected[j]
           \/ j - O \in 1..M /\ t[j] = page[j - O]
    BY <1>9
  <2>5. CASE i \in 1..O /\ t[i] = projected[i] /\ j - O \in 1..M /\ t[j] = page[j - O]
    BY <2>3, <2>5
  <2>6. CASE j \in 1..O /\ t[j] = projected[j] /\ i - O \in 1..M /\ t[i] = page[i - O]
    BY <2>3, <2>6
  <2>7. QED BY <2>1, <2>2, <2>4, <2>5, <2>6
<1>12. QED BY <1>3, <1>10, <1>11 DEF Parted, t, q

LEMMA PolledInOrder ==
  ASSUME OrderInv, ~ overlapped, NEW k \in Task, PollPage(k)
  PROVE  OneTask' /\ ReplayInv' /\ PollInv' /\ CursorInv' /\ ProjectedOnce'
<1> DEFINE page == task[k].page
           t == IF page = <<>> THEN NoTask ELSE [task[k] EXCEPT !.step = "persisting"]
<1>1. /\ task[k] \in TaskState /\ Holding(task[k])
      /\ task[k].step = "answered" /\ task[k].call = "poll"
  BY DEF PollPage, At, OrderInv, TypeInv, TypeOK, TaskInv
<1>2. /\ page \in Seq(Position) /\ Ascending(page)
      /\ \A n \in DOMAIN page : page[n] \in DOMAIN events
  BY <1>1 DEF TaskState, Holding
<1>3. t \in TaskState /\ t.call = "poll" /\ t.step \notin {"querying", "answered"}
  <2>1. <<>> \in Seq(Position)
    OBVIOUS
  <2>2. NoTask \in TaskState
    BY <2>1, ParameterTypes DEF NoTask, TaskState, Call, Step, Never
  <2>3. CASE page = <<>>
    BY <2>2, <2>3 DEF NoTask
  <2>4. CASE page # <<>>
    BY <1>1, <2>4 DEF TaskState, Step
  <2>5. QED BY <2>3, <2>4
<1>4. /\ task' = [task EXCEPT ![k] = t] /\ UNCHANGED <<events, broken>>
      /\ page = <<>> => UNCHANGED <<lastProcessedTime, modelVars>>
      /\ page # <<>> => ProjectPage(page) /\ lastProcessedTime' = TimeOf(Last(page))
  BY DEF PollPage, End, Goto, replayVars, TimeOf
<1>5. Alone(k)
  BY <1>1, AloneIfBusy DEF At, OrderInv
<1> HIDE DEF t
<1>6. PollHolds(t, lastProcessedTime')
  BY <1>3 DEF PollHolds
<1>7. (~ broken' => Parted(projected', lastProcessedTime')) /\ ProjectedOnce'
  <2>1. CASE page = <<>>
    BY <1>1, <1>4, <1>5, <2>1, StillParted DEF Settles
  <2>2. CASE page # <<>>
    <3>1. ASSUME ~ broken
          PROVE  /\ Parted(projected \o page, TimeOf(Last(page)))
                 /\ Once(projected \o page)
      <4>1. Parted(projected, lastProcessedTime)
        <5>1. \A j \in Task : Settles(task[j])
          BY <1>1, <1>5 DEF Alone, Settles
        <5>2. QED BY <3>1, <5>1 DEF OrderInv, CursorInv
      <4>2. \A n \in DOMAIN page : TimeOf(page[n]) > lastProcessedTime
        BY <1>1 DEF OrderInv, PollInv, PollHolds
      <4> HIDE DEF page
      <4>3. QED BY <1>2, <2>2, <3>1, <4>1, <4>2, PolledParts
    <3>2. projected' = projected \o page /\ lastProcessedTime' = TimeOf(Last(page))
      BY <1>4, <2>2 DEF ProjectPage
    <3>3. ~ broken' => Once(projected')
      BY <1>4, <3>1, <3>2
    <3>4. QED BY <1>4, <3>1, <3>2, <3>3, OnceKept
  <2>3. QED BY <2>1, <2>2
<1>8. QED BY <1>3, <1>4, <1>5, <1>6, <1>7, LoneCall DEF OrderInv
\* What storing an event leaves as it is.
LEMMA StoredAtTheEnd ==
  ASSUME TypeInv, NEW e \in ProofEvent, StoreEvent(e)
  PROVE  /\ Len(events) \in Nat /\ DOMAIN events = 1..Len(events)
         /\ DOMAIN events' = 1..(Len(events) + 1) /\ events'[Len(events) + 1] = e
         /\ \A p \in 1..Len(events) : events'[p] = events[p]
         /\ UNCHANGED <<task, projected, lastProcessedTime, broken>>
         /\ blind \subseteq blind'
         /\ (\E k \in Task : BehindLastPage(k)) => Len(events) + 1 \in blind'
         /\ Overtaken \subseteq Overtaken' /\ Overtaking \subseteq Overtaking'
<1> DEFINE L == Len(events)
<1>1. /\ L \in Nat /\ DOMAIN events = 1..L /\ DOMAIN events' = 1..(L + 1)
      /\ events'[L + 1] = e /\ Len(events') = L + 1
      /\ \A p \in 1..L : events'[p] = events[p]
  BY DEF TypeInv, TypeOK, StoreEvent
<1>2. /\ UNCHANGED <<task, projected, lastProcessedTime, broken>> /\ blind \subseteq blind'
      /\ (\E k \in Task : BehindLastPage(k)) => L + 1 \in blind'
  BY DEF StoreEvent, modelVars
<1>3. ASSUME NEW p \in Overtaken PROVE p \in Overtaken'
  <2>1. PICK j \in 1..(p - 1) : events[j].occurredAt >= events[p].occurredAt
    BY DEF Overtaken
  <2>2. p \in 1..L
    BY <1>1 DEF Overtaken
  <2> HIDE DEF L
  <2>3. j \in 1..L /\ p \in 1..(L + 1)
    BY <1>1, <2>2
  <2>4. QED BY <1>1, <2>1, <2>2, <2>3 DEF Overtaken
<1>4. ASSUME NEW p \in Overtaking PROVE p \in Overtaking'
  <2>1. PICK j \in (p + 1)..L : events[j].occurredAt < events[p].occurredAt
    BY DEF Overtaking
  <2>2. p \in 1..L
    BY <1>1 DEF Overtaking
  <2> HIDE DEF L
  <2>3. j \in 1..L /\ j \in (p + 1)..(L + 1) /\ p \in 1..(L + 1)
    BY <1>1, <2>2
  <2>4. QED BY <1>1, <2>1, <2>2, <2>3 DEF Overtaking
<1>5. QED BY <1>1, <1>2, <1>3, <1>4

\* A new event moves neither the cursor nor what is projected.
LEMMA StoredInOrder ==
  ASSUME OrderInv, ~ overlapped, NEW e \in ProofEvent, StoreEvent(e)
  PROVE  OneTask' /\ ReplayInv' /\ PollInv' /\ CursorInv' /\ ProjectedOnce'
<1> DEFINE L == Len(events)
<1>1. /\ L \in Nat /\ DOMAIN events = 1..L
      /\ DOMAIN events' = 1..(L + 1) /\ \A p \in 1..L : events'[p] = events[p]
      /\ UNCHANGED <<task, projected, lastProcessedTime, broken>>
  BY StoredAtTheEnd DEF OrderInv
<1> HIDE DEF L
<1>2. Overtaking \subseteq Overtaking'
  BY StoredAtTheEnd DEF OrderInv
<1>3. \A p \in 1..L : TimeOf(p)' = TimeOf(p)
  BY <1>1 DEF TimeOf
<1>4. \A n \in DOMAIN projected : projected[n] \in 1..L
  BY <1>1 DEF OrderInv, TypeInv, ProjectedStored
<1>5. OneTask'
  BY <1>1 DEF OrderInv, OneTask, At
<1>6. ProjectedOnce'
  BY <1>1, <1>2 DEF OrderInv, ProjectedOnce
<1>7. ASSUME NEW c, Parted(projected, c) PROVE Parted(projected, c)'
  <2>1. ASSUME NEW n \in DOMAIN projected, projected[n] \notin Overtaking'
        PROVE  TimeOf(projected[n])' <= c
    <3>1. TimeOf(projected[n]) <= c
      BY <1>2, <1>7, <2>1 DEF Parted
    <3>2. events'[projected[n]] = events[projected[n]]
      BY <1>1, <1>4
    <3>3. QED BY <1>1, <3>1, <3>2 DEF TimeOf
  <2>2. QED BY <1>1, <2>1 DEF Parted
<1>8. ReplayInv'
  <2>1. ASSUME NEW k \in Task, task[k].call # "poll"
        PROVE  ReplayHolds(task[k], projected)'
    <3>1. PICK t : t = task[k]
      OBVIOUS
    <3>2. PICK c : c = t.latest
      OBVIOUS
    <3>3. ReplayHolds(t, projected) /\ task'[k] = t
      BY <1>1, <2>1, <3>1 DEF OrderInv, ReplayInv
    <3>4. t.step = "latestRead" => Parted(projected, t.latest)'
      <4>1. t.step = "latestRead" => Parted(projected, c)
        BY <3>2, <3>3 DEF ReplayHolds
      <4>2. t.step = "latestRead" => Parted(projected, c)'
        BY <1>7, <4>1
      <4>3. QED BY <3>2, <4>2 DEF Parted
    <3>5. ReplayHolds(t, projected)'
      BY <1>1, <3>3, <3>4 DEF ReplayHolds, UpTo
    <3>6. QED BY <3>3, <3>5 DEF ReplayHolds, UpTo, Parted
  <2>2. QED BY <1>1, <2>1 DEF ReplayInv
<1>9. PollInv'
  <2>1. ASSUME NEW k \in Task, task[k].call = "poll"
        PROVE  PollHolds(task[k], lastProcessedTime)'
    <3> DEFINE t == task[k]
               c == lastProcessedTime
    <3>1. PollHolds(t, c) /\ Holding(t) /\ t' = t /\ c' = c
      BY <1>1, <2>1 DEF OrderInv, PollInv, TypeInv, TaskInv
    <3> HIDE DEF t, c
    <3>2. t.step = "answered" => \A n \in DOMAIN t.page : TimeOf(t.page[n])' > c
      <4> SUFFICES ASSUME t.step = "answered", NEW n \in DOMAIN t.page
                   PROVE  TimeOf(t.page[n])' > c
        OBVIOUS
      <4>1. t.page[n] \in 1..L
        BY <1>1, <3>1 DEF Holding
      <4>2. events'[t.page[n]] = events[t.page[n]] /\ TimeOf(t.page[n]) > c
        BY <1>1, <3>1, <4>1 DEF PollHolds
      <4>3. QED BY <3>1, <4>2 DEF TimeOf
    <3>3. PollHolds(t, c)'
      BY <3>1, <3>2 DEF PollHolds
    <3>4. QED BY <3>3 DEF t, c
  <2>2. QED BY <1>1, <2>1 DEF PollInv
<1>10. CursorInv'
  <2> SUFFICES ASSUME ~ broken, \A k \in Task : Settles(task[k])
               PROVE  Parted(projected, lastProcessedTime)'
    BY <1>1 DEF CursorInv, Settles
  <2>1. PICK c : c = lastProcessedTime
    OBVIOUS
  <2>2. Parted(projected, c)
    BY <2>1 DEF OrderInv, CursorInv
  <2>3. Parted(projected, c)'
    BY <1>7, <2>2
  <2>4. lastProcessedTime' = c
    BY <1>1, <2>1
  <2>5. QED BY <2>3, <2>4 DEF Parted
<1>11. QED BY <1>5, <1>6, <1>8, <1>9, <1>10

LEMMA OnceInit == Init => OnceInv
<1> SUFFICES ASSUME Init PROVE OnceInv
  OBVIOUS
<1>1. TypeInv
  BY TypeInit
<1>2. task = [k \in Task |-> NoTask] /\ projected = <<>>
  BY DEF Init
<1>3. \A k \in Task : task[k].call = "poll" /\ task[k].step = "idle"
  BY <1>2 DEF NoTask
<1>4. OneTask /\ ReplayInv /\ PollInv
  BY <1>3 DEF OneTask, At, ReplayInv, PollInv, PollHolds
<1>5. CursorInv /\ ProjectedOnce
  BY <1>2 DEF CursorInv, Parted, ProjectedOnce
<1>6. QED BY <1>1, <1>4, <1>5 DEF OnceInv, OrderInv

LEMMA OnceNext == OnceInv /\ [Next]_vars => OnceInv'
<1> SUFFICES ASSUME OnceInv, [Next]_vars PROVE OnceInv'
  OBVIOUS
<1>1. TypeInv /\ TypeInv'
  BY TypeNext DEF OnceInv
<1> DEFINE Rest == OneTask /\ ReplayInv /\ PollInv /\ CursorInv /\ ProjectedOnce
<1> SUFFICES ASSUME ~ overlapped' PROVE Rest'
  BY <1>1 DEF OnceInv, OrderInv
<1>2. ASSUME NEW k \in Task, Start(k) \/ Replay(k) PROVE Rest'
  BY <1>1, <1>2, BegunInOrder
<1>3. ASSUME NEW k \in Task, Tick(k) PROVE Rest'
  <2>1. OrderInv
    BY <1>3 DEF Tick, OnceInv
  <2>2. QED BY <1>3, <2>1, TickedInOrder
<1>4. ASSUME NEW e \in ProofEvent, StoreEvent(e) PROVE Rest'
  <2>1. ~ overlapped /\ OrderInv
    BY <1>4 DEF StoreEvent, OnceInv
  <2>2. QED BY <1>4, <2>1, StoredInOrder
<1>5. ASSUME NEW k \in Task, Proceed(k) PROVE Rest'
  <2>1. ~ overlapped
    BY <1>5 DEF Proceed, Answer, QueryFails, ReplayPage, ReadLatest, MoveCursor, PollPage,
       Persisted, replayVars
  <2>2. OrderInv
    BY <2>1 DEF OnceInv
  <2>3. QED
    BY <1>5, <2>1, <2>2, AnsweredInOrder, EndedInOrder, ReplayedInOrder, LatestInOrder,
       CursorInOrder, PolledInOrder DEF Proceed
<1>6. ASSUME UNCHANGED <<events, lastProcessedTime, projected, task, broken, overlapped>> PROVE Rest'
  <2>1. OrderInv
    BY <1>6 DEF OnceInv
  <2>2. OneTask'
    BY <1>6, <2>1 DEF OrderInv, OneTask, At
  <2>3. ReplayInv' /\ PollInv'
    BY <1>6, <2>1 DEF OrderInv, ReplayInv, ReplayHolds, UpTo, Parted, Overtaking, PollInv,
                      PollHolds, TimeOf
  <2>4. Overtaking' = Overtaking
    BY <1>6 DEF Overtaking
  <2>5. CursorInv' /\ ProjectedOnce'
    BY <1>6, <2>1, <2>4 DEF OrderInv, CursorInv, Settles, Parted, ProjectedOnce, TimeOf
  <2>6. QED BY <2>2, <2>3, <2>5
<1>7. ASSUME Stop PROVE Rest'
  BY <1>6, <1>7 DEF Stop, modelVars, replayVars
<1>8. ASSUME UNCHANGED vars PROVE Rest'
  BY <1>6, <1>8 DEF vars, modelVars, replayVars
<1> HIDE DEF Rest
<1>9. QED BY <1>2, <1>3, <1>4, <1>5, <1>7, <1>8 DEF Next

\* From a replay that begins alone until two calls overlap, no event is counted
\* twice: whatever polls, stops, restarts and failed polls follow each other, a poll
\* takes only what is later than the cursor, and what is projected is not.
THEOREM EventsProjectedOnce == Spec => []ProjectedOnce
<1>1. OnceInv => ProjectedOnce
  BY DEF OnceInv, OrderInv, ProjectedOnce
<1>2. QED BY <1>1, OnceInit, OnceNext, PTL DEF Spec
-----------------------------------------------------------------------------
(***************************************************************************)
(* However calls overlap.                                                  *)
(***************************************************************************)
\* What a call has of the store, whatever becomes of the models: a poll looks from
\* behind a stored event's time and at all from there up to its page's last event; a
\* replay looks at every position up to its page's last, and after its last page at
\* all that is not stored behind it.
Looks(t) ==
  /\ t.call = "poll" /\ t.step \in {"querying", "answered"} =>
       t.from = Never \/ \E j \in DOMAIN events : t.from = TimeOf(j) + 1
  /\ t.call = "poll" /\ t.step = "answered" =>
       \A p \in DOMAIN events, n \in DOMAIN t.page :
         TimeOf(p) >= t.from /\ p <= t.page[n] => p \in Range(t.page)
  /\ t.call # "poll" /\ t.step = "answered" =>
       /\ \A p \in DOMAIN events : p <= t.offset \/ p > t.offset + Len(t.page) \/ p \in Range(t.page)
       /\ t.hasMore \/ \A p \in DOMAIN events : p <= t.offset + Len(t.page) \/ p \in blind
  /\ t.step = "readingLatest" => ~ t.hasMore

LookInv == \A k \in Task : Looks(task[k])

\* A replay still has pages to take, and what it has taken is in the models.
Refills(t) ==
  /\ t.call # "poll" /\ t.step \in {"querying", "answered"}
  /\ \A p \in DOMAIN events : p <= t.offset => p \in Range(projected)

\* In the models or stored behind a replay's last page.
Taken(p) == p \in Range(projected) \cup blind

\* What is not later than the cursor is taken, or stored behind a later event.
Covers(cursor) == \A p \in DOMAIN events : TimeOf(p) > cursor \/ Taken(p) \/ p \in Overtaken

\* What a call leaves alone is taken, or stored behind a later event.
Leaves(t) ==
  /\ t.call # "poll" /\ t.step \in {"querying", "answered"} =>
       \A p \in DOMAIN events : p <= t.offset => Taken(p)
  /\ t.step = "readingLatest" => \A p \in DOMAIN events : Taken(p)
  /\ t.step = "latestRead" => Covers(t.latest)
  /\ t.call = "poll" /\ t.step \in {"querying", "answered"} =>
       \A p \in DOMAIN events : TimeOf(p) >= t.from \/ Taken(p) \/ p \in Overtaken

CaughtUp == (\A k \in Task : Leaves(task[k])) /\ Covers(lastProcessedTime)

\* The models are filled, or the last replay to begin is filling them.
CoverInv == ~ broken => (\E k \in Task : Refills(task[k])) \/ CaughtUp

MissInv == TypeInv /\ LookInv /\ CoverInv
-----------------------------------------------------------------------------
(***************************************************************************)
(* A step keeps LookInv and CoverInv.                                      *)
(***************************************************************************)
LEMMA TimesOfEvents ==
  ASSUME TypeInv
  PROVE  /\ Len(events) \in Nat /\ DOMAIN events = 1..Len(events)
         /\ \A p \in DOMAIN events : TimeOf(p) \in Nat /\ TimeOf(p) > 0
         /\ lastProcessedTime \in Nat
<1>1. \A p \in DOMAIN events : events[p] \in ProofEvent
  BY DEF TypeInv, TypeOK
<1>2. /\ Len(events) \in Nat /\ DOMAIN events = 1..Len(events)
      /\ lastProcessedTime \in Time \cup {Never}
  BY DEF TypeInv, TypeOK
<1>3. QED BY <1>1, <1>2 DEF TimeOf, ProofEvent, Time, Never

\* Where everything is taken, every call and every cursor leaves what is taken.
LEMMA AllTaken ==
  ASSUME \A p \in DOMAIN events : Taken(p)
  PROVE  CaughtUp
BY DEF CaughtUp, Leaves, Covers

\* One call moves on: what is left to show of it.
LEMMA LookMoves ==
  ASSUME TypeInv, LookInv, NEW k \in Task, NEW t \in TaskState, Looks(t),
         events' = events, blind' = blind, task' = [task EXCEPT ![k] = t]
  PROVE  LookInv'
<1>1. \A j \in Task : task'[j] = IF j = k THEN t ELSE task[j]
  BY DEF TypeInv, TypeOK
<1>2. ASSUME NEW u, Looks(u) PROVE Looks(u)'
  BY <1>2 DEF Looks, TimeOf, Range
<1>3. ASSUME NEW j \in Task PROVE Looks(task[j])'
  <2>1. PICK u : u = task'[j]
    OBVIOUS
  <2>2. Looks(u)
    BY <1>1, <2>1 DEF LookInv
  <2>3. Looks(u)'
    BY <1>2, <2>2
  <2>4. QED BY <2>1, <2>3 DEF Looks
<1>4. QED BY <1>3 DEF LookInv

LEMMA CoverMoves ==
  ASSUME TypeInv, CoverInv, NEW k \in Task, NEW t \in TaskState,
         events' = events, blind' = blind, task' = [task EXCEPT ![k] = t],
         Range(projected) \subseteq Range(projected'), ~ broken' => ~ broken,
         ~ broken' /\ Refills(task[k]) => Refills(t)' \/ \A p \in DOMAIN events' : Taken(p)',
         ~ broken' /\ CaughtUp => Leaves(t)' /\ Covers(lastProcessedTime)'
  PROVE  CoverInv'
<1> SUFFICES ASSUME ~ broken' PROVE (\E j \in Task : Refills(task[j]))' \/ CaughtUp'
  BY DEF CoverInv
<1>1. \A j \in Task : task'[j] = IF j = k THEN t ELSE task[j]
  BY DEF TypeInv, TypeOK
<1>2. /\ \A p : Taken(p) => Taken(p)'
      /\ Overtaken' = Overtaken
  BY DEF Taken, Overtaken
<1>3. ASSUME NEW j \in Task, Refills(task[j]) PROVE (\E i \in Task : Refills(task[i]))' \/ CaughtUp'
  <2>1. CASE j # k
    <3>1. Refills(task[j])'
      BY <1>1, <1>3, <2>1 DEF Refills
    <3>2. QED BY <3>1
  <2>2. CASE j = k /\ Refills(t)'
    <3>1. task'[k] = t
      BY <1>1
    <3>2. Refills(task[k])'
      BY <2>2, <3>1 DEF Refills
    <3>3. QED BY <3>2
  <2>3. CASE j = k /\ \A p \in DOMAIN events' : Taken(p)'
    <3>1. CaughtUp'
      BY <2>3 DEF CaughtUp, Leaves, Covers
    <3>2. QED BY <3>1
  <2>4. QED BY <1>3, <2>1, <2>2, <2>3
<1>4. ASSUME CaughtUp PROVE CaughtUp'
  <2>1. ASSUME NEW j \in Task PROVE Leaves(task[j])'
    <3>1. CASE j = k
      <4>1. task'[j] = t /\ Leaves(t)'
        BY <1>1, <1>4, <3>1
      <4>2. QED BY <4>1 DEF Leaves, Covers
    <3>2. CASE j # k
      <4>1. PICK u : u = task[j]
        OBVIOUS
      <4>2. Leaves(u) /\ task'[j] = u
        BY <1>1, <1>4, <3>2, <4>1 DEF CaughtUp
      <4>3. Leaves(u)'
        BY <1>2, <4>2 DEF Leaves, Covers, TimeOf
      <4>4. QED BY <4>2, <4>3 DEF Leaves, Covers
    <3>3. QED BY <3>1, <3>2
  <2>2. QED BY <1>4, <2>1 DEF CaughtUp
<1>5. QED BY <1>3, <1>4 DEF CoverInv

\* A replay begins and fills the models from the first position on.
LEMMA BegunCovers ==
  ASSUME TypeInv, LookInv, NEW k \in Task, Start(k) \/ Replay(k)
  PROVE  LookInv' /\ CoverInv'
<1>1. PICK call \in {"start", "replay"} : BeginReplay(k, call)
  BY DEF Start, Replay
<1>2. events' = events /\ blind' = blind
  BY DEF Start, Replay
<1>3. PICK t : t = [call |-> call, step |-> "querying", from |-> Never,
                    offset |-> 0, page |-> <<>>, hasMore |-> FALSE, latest |-> Never]
  OBVIOUS
<1>4. task' = [task EXCEPT ![k] = t]
  BY <1>1, <1>3 DEF BeginReplay, Ask
<1>5. /\ t \in TaskState /\ t.call # "poll" /\ t.step = "querying" /\ t.offset = 0
  BY <1>3, ParameterTypes DEF TaskState, Call, Step, Never
<1>6. LookInv'
  <2>1. Looks(t)
    BY <1>5 DEF Looks
  <2>2. QED BY <1>2, <1>4, <1>5, <2>1, LookMoves
<1>7. task'[k] = t
  BY <1>4 DEF TypeInv, TypeOK
<1>8. Refills(task[k])'
  <2>1. \A p \in DOMAIN events' : ~ (p <= 0)
    BY <1>2, TimesOfEvents
  <2>2. QED BY <1>5, <1>7, <2>1 DEF Refills
<1>9. QED BY <1>6, <1>8 DEF CoverInv

LEMMA TickedCovers ==
  ASSUME MissInv, NEW k \in Task, Tick(k)
  PROVE  LookInv' /\ CoverInv'
<1>1. PICK from : from = IF lastProcessedTime = Never THEN Never ELSE lastProcessedTime + 1
  OBVIOUS
<1>2. PICK t : t = [call |-> "poll", step |-> "querying", from |-> from,
                    offset |-> 0, page |-> <<>>, hasMore |-> FALSE, latest |-> Never]
  OBVIOUS
<1>3. /\ task' = [task EXCEPT ![k] = t]
      /\ UNCHANGED <<events, lastProcessedTime, projected, broken, blind>>
  BY <1>1, <1>2 DEF Tick, Ask, modelVars
<1>4. from \in 0..(MaxTime + 1)
  BY <1>1, ParameterTypes DEF MissInv, TypeInv, TypeOK, Time, Never
<1>5. t \in TaskState /\ t.call = "poll" /\ t.step = "querying" /\ t.from = from
  BY <1>2, <1>4, ParameterTypes DEF TaskState, Call, Step
<1>6. Looks(t)
  BY <1>1, <1>5 DEF Looks, MissInv, TypeInv, CursorOfEvent
<1>7. ~ Refills(task[k])
  BY DEF Refills, Tick, At
<1>8. ASSUME CaughtUp PROVE Leaves(t)' /\ Covers(lastProcessedTime)'
  <2>1. /\ \A p : Taken(p)' <=> Taken(p)
        /\ Overtaken' = Overtaken /\ \A p : TimeOf(p)' = TimeOf(p)
    BY <1>3 DEF Taken, Overtaken, TimeOf
  <2>2. \A p \in DOMAIN events : TimeOf(p) >= from \/ Taken(p) \/ p \in Overtaken
    <3> SUFFICES ASSUME NEW p \in DOMAIN events, ~ Taken(p), p \notin Overtaken
                 PROVE  TimeOf(p) >= from
      OBVIOUS
    <3>1. TimeOf(p) > lastProcessedTime
      BY <1>8 DEF CaughtUp, Covers
    <3>2. TimeOf(p) \in Nat /\ lastProcessedTime \in Nat
      BY TimesOfEvents DEF MissInv
    <3>3. QED BY <1>1, <3>1, <3>2 DEF Never
  <2>3. Leaves(t)'
    BY <1>3, <1>5, <2>1, <2>2 DEF Leaves
  <2>4. Covers(lastProcessedTime)'
    BY <1>3, <1>8, <2>1 DEF CaughtUp, Covers
  <2>5. QED BY <2>3, <2>4
<1>9. LookInv'
  BY <1>3, <1>5, <1>6, LookMoves DEF MissInv
<1>10. CoverInv'
  BY <1>3, <1>5, <1>7, <1>8, CoverMoves DEF MissInv
<1>11. QED BY <1>9, <1>10

LEMMA AnsweredCovers ==
  ASSUME MissInv, NEW k \in Task, Answer(k)
  PROVE  LookInv' /\ CoverInv'
<1> DEFINE all == Matching(task[k].from)
<1>1. PICK page : page = SubSeq(all, task[k].offset + 1,
                                SmallerOf(task[k].offset + ReplayBatchSize, Len(all)))
  OBVIOUS
<1>2. PICK hasMore \in BOOLEAN : hasMore = (task[k].offset + ReplayBatchSize < Len(all))
  <2>1. (task[k].offset + ReplayBatchSize < Len(all)) \in BOOLEAN
    OBVIOUS
  <2> HIDE DEF all
  <2>2. QED BY <2>1, Zenon
<1>3. PICK u : u = task[k]
  OBVIOUS
<1>4. PICK t : t = [u EXCEPT !.step = "answered", !.page = page, !.hasMore = hasMore]
  OBVIOUS
<1>5. At(k, "querying") /\ u \in TaskState /\ u.step = "querying"
  BY <1>3 DEF Answer, At, MissInv, TypeInv, TypeOK
<1>6. /\ task' = [task EXCEPT ![k] = t]
      /\ UNCHANGED <<events, lastProcessedTime, projected, broken, blind>>
  BY <1>1, <1>2, <1>3, <1>4 DEF Answer, replayVars, modelVars
<1>7. /\ page \in Seq(DOMAIN events) /\ page \in Seq(Position)
      /\ u.call = "poll" =>
           \A p \in DOMAIN events, n \in DOMAIN page :
             TimeOf(p) >= u.from /\ p <= page[n] => p \in Range(page)
      /\ u.call # "poll" =>
           /\ \A n \in DOMAIN page : page[n] = u.offset + n
           /\ hasMore \/ u.offset + Len(page) = Len(events)
  <2>1. /\ page \in Seq(DOMAIN events) /\ page \in Seq(Position)
        /\ task[k].call = "poll" =>
             \A p \in DOMAIN events, n \in DOMAIN page :
               TimeOf(p) >= task[k].from /\ p <= page[n] => p \in Range(page)
        /\ task[k].call # "poll" =>
             /\ \A n \in DOMAIN page : page[n] = task[k].offset + n
             /\ \/ task[k].offset + ReplayBatchSize < Len(all)
                \/ task[k].offset + Len(page) = Len(events)
    BY <1>1, <1>5, PageOfTask DEF MissInv
  <2> HIDE DEF all
  <2>2. QED BY <1>2, <1>3, <2>1
<1> HIDE DEF all
<1>8. /\ t \in TaskState /\ t.call = u.call /\ t.step = "answered" /\ t.from = u.from
      /\ t.page = page /\ t.hasMore = hasMore /\ t.offset = u.offset
  BY <1>4, <1>5, <1>7 DEF TaskState, Step
<1>9. Looks(t)
  <2>1. Looks(u)
    BY <1>3 DEF MissInv, LookInv
  <2>2. ASSUME u.call # "poll"
        PROVE  /\ \A p \in DOMAIN events :
                    p <= u.offset \/ p > u.offset + Len(page) \/ p \in Range(page)
               /\ hasMore \/ \A p \in DOMAIN events : p <= u.offset + Len(page)
    <3>1. u.offset \in Nat /\ Len(page) \in Nat /\ DOMAIN page = 1..Len(page)
      BY <1>5, <1>7 DEF TaskState
    <3>2. DOMAIN events = 1..Len(events) /\ Len(events) \in Nat
      BY TimesOfEvents DEF MissInv
    <3>3. ASSUME NEW p \in DOMAIN events, ~ (p <= u.offset), ~ (p > u.offset + Len(page))
          PROVE  p \in Range(page)
      <4>1. p - u.offset \in 1..Len(page) /\ u.offset + (p - u.offset) = p
        BY <3>1, <3>2, <3>3
      <4>2. page[p - u.offset] = p
        BY <1>7, <2>2, <3>1, <4>1
      <4>3. QED BY <3>1, <4>1, <4>2 DEF Range
    <3>4. QED BY <1>7, <2>2, <3>1, <3>2, <3>3
  <2>3. QED BY <1>5, <1>7, <1>8, <2>1, <2>2 DEF Looks
<1>10. /\ \A p : Taken(p)' <=> Taken(p)
       /\ Overtaken' = Overtaken /\ \A p : TimeOf(p)' = TimeOf(p)
  BY <1>6 DEF Taken, Overtaken, TimeOf
<1>11. ASSUME Refills(task[k]) PROVE Refills(t)'
  BY <1>3, <1>6, <1>8, <1>11 DEF Refills
<1>12. ASSUME CaughtUp PROVE Leaves(t)' /\ Covers(lastProcessedTime)'
  <2>1. Leaves(u)
    BY <1>3, <1>12 DEF CaughtUp
  <2>2. Leaves(t)'
    BY <1>5, <1>6, <1>8, <1>10, <2>1 DEF Leaves
  <2>3. Covers(lastProcessedTime)'
    BY <1>6, <1>10, <1>12 DEF CaughtUp, Covers
  <2>4. QED BY <2>2, <2>3
<1>13. LookInv'
  BY <1>6, <1>8, <1>9, LookMoves DEF MissInv
<1>14. CoverInv'
  BY <1>6, <1>8, <1>11, <1>12, CoverMoves DEF MissInv
<1>15. QED BY <1>13, <1>14

LEMMA EndedCovers ==
  ASSUME MissInv, NEW k \in Task, QueryFails(k) \/ Persisted(k)
  PROVE  LookInv' /\ CoverInv'
<1>1. PICK t : t = NoTask
  OBVIOUS
<1>2. t \in TaskState /\ t.call = "poll" /\ t.step = "idle"
  <2>1. <<>> \in Seq(Position)
    OBVIOUS
  <2>2. QED BY <1>1, <2>1, ParameterTypes DEF NoTask, TaskState, Call, Step, Never
<1>3. /\ task' = [task EXCEPT ![k] = t]
      /\ UNCHANGED <<events, lastProcessedTime, projected, blind>>
      /\ ~ broken' => ~ broken /\ ~ Refills(task[k])
  <2>1. /\ task' = [task EXCEPT ![k] = t]
        /\ UNCHANGED <<events, lastProcessedTime, projected, blind>>
    BY <1>1 DEF QueryFails, Persisted, End, replayVars, modelVars
  <2>2. ~ broken' => ~ broken
    BY DEF QueryFails, Persisted, replayVars
  <2>3. ASSUME ~ broken', Refills(task[k]) PROVE FALSE
    <3>1. task[k].call # "poll" /\ task[k].step \in {"querying", "answered"}
      BY <2>3 DEF Refills
    <3>2. ~ Persisted(k)
      BY <3>1 DEF Persisted, At
    <3>3. QED BY <2>3, <3>1, <3>2 DEF QueryFails
  <2>4. QED BY <2>1, <2>2, <2>3
<1>4. Looks(t) /\ Leaves(t)'
  BY <1>2 DEF Looks, Leaves
<1>5. CaughtUp => Covers(lastProcessedTime)'
  BY <1>3 DEF CaughtUp, Covers, Taken, Overtaken, TimeOf
<1>6. LookInv'
  BY <1>2, <1>3, <1>4, LookMoves DEF MissInv
<1>7. CoverInv'
  BY <1>2, <1>3, <1>4, <1>5, CoverMoves DEF MissInv
<1>8. QED BY <1>6, <1>7

\* What is projected stays, and the page is added to it.
LEMMA PageTaken ==
  ASSUME TypeInv, NEW page \in Seq(Position), ProjectPage(page)
  PROVE  Range(projected') = Range(projected) \cup Range(page)
<1> DEFINE M == Len(page)
           O == Len(projected)
           t == projected'
<1>1. projected \in Seq(Position) /\ t = projected \o page
  BY DEF TypeInv, TypeOK, ProjectPage
<1>2. /\ O \in Nat /\ M \in Nat /\ DOMAIN projected = 1..O /\ DOMAIN page = 1..M
      /\ DOMAIN t = 1..(O + M)
      /\ \A n \in 1..O : t[n] = projected[n]
      /\ \A n \in 1..M : t[O + n] = page[n]
  BY <1>1
<1> HIDE DEF M, O, t
<1>3. ASSUME NEW x \in Range(t) PROVE x \in Range(projected) \cup Range(page)
  <2>1. PICK n \in 1..(O + M) : t[n] = x
    BY <1>2 DEF Range
  <2>2. CASE n \in 1..O
    BY <1>2, <2>1, <2>2 DEF Range
  <2>3. CASE n \notin 1..O
    <3>1. n - O \in 1..M /\ O + (n - O) = n
      BY <1>2, <2>1, <2>3
    <3>2. t[n] = page[n - O]
      BY <1>2, <3>1
    <3>3. QED BY <1>2, <2>1, <3>1, <3>2 DEF Range
  <2>4. QED BY <2>2, <2>3
<1>4. ASSUME NEW x \in Range(projected) PROVE x \in Range(t)
  <2>1. PICK n \in 1..O : projected[n] = x
    BY <1>2 DEF Range
  <2>2. n \in 1..(O + M)
    BY <1>2
  <2>3. QED BY <1>2, <2>1, <2>2 DEF Range
<1>5. ASSUME NEW x \in Range(page) PROVE x \in Range(t)
  <2>1. PICK n \in 1..M : page[n] = x
    BY <1>2 DEF Range
  <2>2. O + n \in 1..(O + M)
    BY <1>2
  <2>3. QED BY <1>2, <2>1, <2>2 DEF Range
<1>6. QED BY <1>3, <1>4, <1>5 DEF t

\* A replay that fills the models goes on, or has taken everything.
LEMMA ReplayedCovers ==
  ASSUME MissInv, NEW k \in Task, ReplayPage(k)
  PROVE  LookInv' /\ CoverInv'
<1>1. PICK u : u = task[k]
  OBVIOUS
<1>2. PICK page : page = u.page
  OBVIOUS
<1>3. /\ u \in TaskState /\ Holding(u) /\ Looks(u)
      /\ u.step = "answered" /\ u.call # "poll"
  BY <1>1 DEF ReplayPage, At, MissInv, TypeInv, TypeOK, TaskInv, LookInv
<1>4. /\ page \in Seq(Position) /\ Len(page) \in Nat /\ u.offset \in Nat
      /\ u.offset + Len(page) <= Len(events)
  BY <1>2, <1>3 DEF TaskState, Holding
<1>5. /\ ProjectPage(page) /\ UNCHANGED <<events, blind, broken>>
      /\ Range(projected') = Range(projected) \cup Range(page)
  <2>1. ProjectPage(page) /\ UNCHANGED <<events, blind, broken>>
    BY <1>1, <1>2 DEF ReplayPage, replayVars
  <2>2. QED BY <1>4, <2>1, PageTaken DEF MissInv
<1>6. PICK t \in TaskState :
        /\ task' = [task EXCEPT ![k] = t] /\ t.call # "poll"
        /\ \/ u.hasMore /\ t.step = "querying" /\ t.offset = u.offset + Len(page)
           \/ ~ u.hasMore /\ ~ t.hasMore /\ t.step = "readingLatest"
           \/ ~ u.hasMore /\ t.step = "persisting" /\ lastProcessedTime' = Never
        /\ u.hasMore \/ t.step = "readingLatest" => UNCHANGED lastProcessedTime
  <2>1. CASE u.hasMore
    <3>1. PICK t : t = [call |-> u.call, step |-> "querying", from |-> Never,
                        offset |-> u.offset + Len(page), page |-> <<>>, hasMore |-> FALSE, latest |-> Never]
      OBVIOUS
    <3>2. u.offset + Len(page) \in 0..MaxEvents
      <4>1. Len(events) <= MaxEvents /\ MaxEvents \in Nat /\ Len(events) \in Nat
        BY ParameterTypes DEF MissInv, TypeInv, TypeOK, Bounds
      <4>2. QED BY <1>4, <4>1
    <3>3. <<>> \in Seq(Position) /\ Never \in 0..(MaxTime + 1)
      BY ParameterTypes DEF Never
    <3>4. t \in TaskState /\ t.call # "poll" /\ t.step = "querying"
          /\ t.offset = u.offset + Len(page)
      BY <1>3, <3>1, <3>2, <3>3 DEF TaskState, Step
    <3>5. task' = [task EXCEPT ![k] = t] /\ UNCHANGED lastProcessedTime
      BY <1>1, <1>2, <2>1, <3>1 DEF ReplayPage, Ask
    <3>6. QED BY <2>1, <3>4, <3>5
  <2>2. CASE ~ u.hasMore /\ model'.totalProofs > 0
    <3>1. PICK t : t = [u EXCEPT !.step = "readingLatest"]
      OBVIOUS
    <3>2. /\ t \in TaskState /\ t.call # "poll" /\ t.step = "readingLatest"
          /\ t.hasMore = u.hasMore
      BY <1>3, <3>1 DEF TaskState, Step
    <3>3. task' = [task EXCEPT ![k] = t] /\ UNCHANGED lastProcessedTime
      BY <1>1, <2>2, <3>1 DEF ReplayPage, Goto
    <3>4. QED BY <2>2, <3>2, <3>3
  <2>3. CASE ~ u.hasMore /\ ~ (model'.totalProofs > 0)
    <3>1. PICK t : t = [u EXCEPT !.step = "persisting"]
      OBVIOUS
    <3>2. t \in TaskState /\ t.call # "poll" /\ t.step = "persisting"
      BY <1>3, <3>1 DEF TaskState, Step
    <3>3. task' = [task EXCEPT ![k] = t] /\ lastProcessedTime' = Never
      BY <1>1, <2>3, <3>1 DEF ReplayPage, Goto
    <3>4. QED BY <2>3, <3>2, <3>3
  <2>4. QED BY <2>1, <2>2, <2>3
<1>7. Looks(t)
  BY <1>6 DEF Looks
<1>8. \A p \in DOMAIN events : /\ p <= u.offset \/ p > u.offset + Len(page) \/ p \in Range(page)
                               /\ u.hasMore \/ p <= u.offset + Len(page) \/ p \in blind
  BY <1>2, <1>3 DEF Looks
<1>9. /\ \A p : Taken(p) \/ p \in Range(page) => Taken(p)'
      /\ Overtaken' = Overtaken /\ \A p : TimeOf(p)' = TimeOf(p)
  BY <1>5 DEF Taken, Overtaken, TimeOf
<1>10. DOMAIN events = 1..Len(events) /\ Len(events) \in Nat
       /\ \A p \in DOMAIN events : TimeOf(p) \in Nat /\ TimeOf(p) > 0
  BY TimesOfEvents DEF MissInv
<1>11. ASSUME \A p \in DOMAIN events : p <= u.offset => Taken(p)
       PROVE  /\ \A p \in DOMAIN events : p <= u.offset + Len(page) => Taken(p)'
              /\ ~ u.hasMore => \A p \in DOMAIN events : Taken(p)'
  <2>1. \A p \in DOMAIN events : p <= u.offset + Len(page) => Taken(p)'
    <3> SUFFICES ASSUME NEW p \in DOMAIN events, p <= u.offset + Len(page) PROVE Taken(p)'
      OBVIOUS
    <3>1. p \in Nat
      BY <1>10
    <3>2. ~ (p > u.offset + Len(page))
      BY <1>4, <3>1
    <3>3. QED BY <1>8, <1>9, <1>11, <3>2
  <2>2. ~ u.hasMore => \A p \in DOMAIN events : Taken(p)'
    BY <1>5, <1>8, <2>1 DEF Taken
  <2>3. QED BY <2>1, <2>2
<1>12. ASSUME Refills(task[k])
       PROVE  Refills(t)' \/ \A p \in DOMAIN events' : Taken(p)'
  <2>1. \A p \in DOMAIN events : p <= u.offset => p \in Range(projected)
    BY <1>1, <1>12 DEF Refills
  <2>2. CASE ~ u.hasMore
    BY <1>5, <1>11, <2>1, <2>2 DEF Taken
  <2>3. CASE u.hasMore
    <3>1. \A p \in DOMAIN events : p <= u.offset + Len(page) => p \in Range(projected')
      <4> SUFFICES ASSUME NEW p \in DOMAIN events, p <= u.offset + Len(page)
                   PROVE  p \in Range(projected')
        OBVIOUS
      <4>1. p \in Nat
        BY <1>10
      <4>2. ~ (p > u.offset + Len(page))
        BY <1>4, <4>1
      <4>3. QED BY <1>5, <1>8, <2>1, <4>2
    <3>2. Refills(t)'
      BY <1>5, <1>6, <2>3, <3>1 DEF Refills
    <3>3. QED BY <3>2
  <2>4. QED BY <2>2, <2>3
<1>13. ASSUME CaughtUp PROVE Leaves(t)' /\ Covers(lastProcessedTime)'
  <2>1. Leaves(u) /\ Covers(lastProcessedTime)
    BY <1>1, <1>13 DEF CaughtUp
  <2>2. /\ \A p \in DOMAIN events : p <= u.offset + Len(page) => Taken(p)'
        /\ ~ u.hasMore => \A p \in DOMAIN events : Taken(p)'
    BY <1>3, <1>11, <2>1 DEF Leaves
  <2>3. Leaves(t)'
    BY <1>5, <1>6, <2>2 DEF Leaves
  <2>4. Covers(lastProcessedTime)'
    <3>1. CASE ~ u.hasMore
      BY <1>5, <2>2, <3>1 DEF Covers
    <3>2. CASE u.hasMore
      BY <1>5, <1>6, <1>9, <2>1, <3>2 DEF Covers
    <3>3. QED BY <3>1, <3>2
  <2>5. QED BY <2>3, <2>4
<1>14. LookInv'
  BY <1>5, <1>6, <1>7, LookMoves DEF MissInv
<1>15. CoverInv'
  BY <1>5, <1>6, <1>12, <1>13, CoverMoves DEF MissInv
<1>16. QED BY <1>14, <1>15

LEMMA LatestCovers ==
  ASSUME MissInv, NEW k \in Task, ReadLatest(k)
  PROVE  LookInv' /\ CoverInv'
<1>1. PICK u : u = task[k]
  OBVIOUS
<1>2. PICK t : t = [u EXCEPT !.step = "latestRead", !.latest = events[Len(events)].occurredAt]
  OBVIOUS
<1>3. u \in TaskState /\ Holding(u) /\ u.step = "readingLatest" /\ u.call # "poll"
  BY <1>1 DEF ReadLatest, At, MissInv, TypeInv, TypeOK, TaskInv, Holding
<1>4. t \in TaskState /\ t.step = "latestRead"
  <2>1. events[Len(events)].occurredAt \in Time
    BY TypeLatestRead DEF MissInv
  <2>2. QED BY <1>2, <1>3, <2>1 DEF TaskState, Step
<1>5. /\ task' = [task EXCEPT ![k] = t]
      /\ UNCHANGED <<events, blind, broken, projected, lastProcessedTime>>
  BY <1>1, <1>2 DEF ReadLatest, replayVars, modelVars
<1>6. Looks(t)
  BY <1>4 DEF Looks
<1>7. ~ Refills(task[k])
  BY <1>1, <1>3 DEF Refills
<1>8. ASSUME CaughtUp PROVE Leaves(t)' /\ Covers(lastProcessedTime)'
  <2>1. \A p \in DOMAIN events : Taken(p)
    BY <1>1, <1>3, <1>8 DEF CaughtUp, Leaves
  <2>2. \A p \in DOMAIN events' : Taken(p)'
    BY <1>5, <2>1 DEF Taken
  <2>3. QED BY <2>2 DEF Leaves, Covers
<1>9. LookInv'
  BY <1>4, <1>5, <1>6, LookMoves DEF MissInv
<1>10. CoverInv'
  BY <1>4, <1>5, <1>7, <1>8, CoverMoves DEF MissInv
<1>11. QED BY <1>9, <1>10

LEMMA CursorCovers ==
  ASSUME MissInv, NEW k \in Task, MoveCursor(k)
  PROVE  LookInv' /\ CoverInv'
<1>1. PICK u : u = task[k]
  OBVIOUS
<1>2. PICK t : t = [u EXCEPT !.step = "persisting"]
  OBVIOUS
<1>3. u \in TaskState /\ Holding(u) /\ u.step = "latestRead" /\ u.call # "poll"
  BY <1>1 DEF MoveCursor, At, MissInv, TypeInv, TypeOK, TaskInv, Holding
<1>4. t \in TaskState /\ t.step = "persisting"
  BY <1>2, <1>3 DEF TaskState, Step
<1>5. /\ task' = [task EXCEPT ![k] = t] /\ lastProcessedTime' = u.latest
      /\ UNCHANGED <<events, blind, broken, projected>>
  BY <1>1, <1>2 DEF MoveCursor, Goto, replayVars, modelVars
<1>6. Looks(t) /\ Leaves(t)'
  BY <1>3, <1>4 DEF Looks, Leaves
<1>7. ~ Refills(task[k])
  BY <1>1, <1>3 DEF Refills
<1>8. ASSUME CaughtUp PROVE Covers(lastProcessedTime)'
  <2>1. Covers(u.latest)
    BY <1>1, <1>3, <1>8 DEF CaughtUp, Leaves
  <2>2. QED BY <1>5, <2>1 DEF Covers, Taken, Overtaken, TimeOf
<1>9. LookInv'
  BY <1>4, <1>5, <1>6, LookMoves DEF MissInv
<1>10. CoverInv'
  BY <1>4, <1>5, <1>6, <1>7, <1>8, CoverMoves DEF MissInv
<1>11. QED BY <1>9, <1>10

\* What a page's last event leaves behind is of the page, or was left alone by the
\* poll before, or is stored behind that event.
LEMMA PolledCovers ==
  ASSUME MissInv, NEW k \in Task, PollPage(k)
  PROVE  LookInv' /\ CoverInv'
<1>1. PICK u : u = task[k]
  OBVIOUS
<1>2. PICK page : page = u.page
  OBVIOUS
<1>3. PICK t : t = IF page = <<>> THEN NoTask ELSE [u EXCEPT !.step = "persisting"]
  OBVIOUS
<1>4. /\ u \in TaskState /\ Holding(u) /\ Looks(u)
      /\ u.step = "answered" /\ u.call = "poll"
  BY <1>1 DEF PollPage, At, MissInv, TypeInv, TypeOK, TaskInv, LookInv
<1>5. page \in Seq(Position) /\ \A n \in DOMAIN page : page[n] \in DOMAIN events
  BY <1>2, <1>4 DEF TaskState, Holding
<1>6. t \in TaskState /\ t.call = "poll" /\ t.step \notin {"querying", "answered", "readingLatest", "latestRead"}
  <2>1. <<>> \in Seq(Position)
    OBVIOUS
  <2>2. CASE page = <<>>
    BY <1>3, <2>1, <2>2, ParameterTypes DEF NoTask, TaskState, Call, Step, Never
  <2>3. CASE page # <<>>
    BY <1>3, <1>4, <2>3 DEF TaskState, Step
  <2>4. QED BY <2>2, <2>3
<1>7. /\ task' = [task EXCEPT ![k] = t] /\ UNCHANGED <<events, blind, broken>>
      /\ page = <<>> => UNCHANGED <<lastProcessedTime, projected>>
      /\ page # <<>> => ProjectPage(page) /\ lastProcessedTime' = TimeOf(Last(page))
  BY <1>1, <1>2, <1>3 DEF PollPage, End, Goto, replayVars, modelVars, TimeOf
<1>8. Range(projected') = Range(projected) \cup Range(page)
  <2>1. CASE page = <<>>
    BY <1>7, <2>1 DEF Range
  <2>2. CASE page # <<>>
    BY <1>5, <1>7, <2>2, PageTaken DEF MissInv
  <2>3. QED BY <2>1, <2>2
<1>9. Looks(t) /\ Leaves(t)'
  BY <1>6 DEF Looks, Leaves
<1>10. ~ Refills(task[k])
  BY <1>1, <1>4 DEF Refills
<1>11. /\ \A p : Taken(p) \/ p \in Range(page) => Taken(p)'
       /\ Overtaken' = Overtaken /\ \A p : TimeOf(p)' = TimeOf(p)
  BY <1>7, <1>8 DEF Taken, Overtaken, TimeOf
<1>12. ASSUME CaughtUp PROVE Covers(lastProcessedTime)'
  <2>1. Leaves(u) /\ Covers(lastProcessedTime)
    BY <1>1, <1>12 DEF CaughtUp
  <2>2. CASE page = <<>>
    BY <1>7, <1>11, <2>1, <2>2 DEF Covers
  <2>3. CASE page # <<>>
    <3>1. PICK q : q = Last(page)
      OBVIOUS
    <3>2. Len(page) \in DOMAIN page /\ q = page[Len(page)] /\ q \in DOMAIN events
      BY <1>5, <2>3, <3>1 DEF Last
    <3>3. /\ DOMAIN events = 1..Len(events) /\ Len(events) \in Nat
          /\ \A p \in DOMAIN events : TimeOf(p) \in Nat
      BY TimesOfEvents DEF MissInv
    <3>4. lastProcessedTime' = TimeOf(q)
      BY <1>7, <2>3, <3>1
    <3>5. ASSUME NEW p \in DOMAIN events, ~ (TimeOf(p) > TimeOf(q)), p \notin Overtaken
          PROVE  Taken(p)'
      <4>1. p <= q
        <5> SUFFICES ASSUME ~ (p <= q) PROVE FALSE
          OBVIOUS
        <5>1. q \in 1..(p - 1) /\ TimeOf(q) >= TimeOf(p)
          BY <3>2, <3>3, <3>5
        <5>2. QED BY <3>5, <5>1 DEF Overtaken, TimeOf
      <4>2. CASE TimeOf(p) >= u.from
        <5>1. p \in Range(page)
          BY <1>2, <1>4, <3>2, <4>1, <4>2 DEF Looks
        <5>2. QED BY <1>11, <5>1
      <4>3. CASE ~ (TimeOf(p) >= u.from)
        <5>1. Taken(p)
          BY <1>4, <2>1, <3>5, <4>3 DEF Leaves
        <5>2. QED BY <1>11, <5>1
      <4>4. QED BY <4>2, <4>3
    <3>6. QED BY <1>7, <1>11, <3>4, <3>5 DEF Covers
  <2>4. QED BY <2>2, <2>3
<1>13. LookInv'
  BY <1>6, <1>7, <1>9, LookMoves DEF MissInv
<1>14. CoverInv'
  BY <1>6, <1>7, <1>8, <1>9, <1>10, <1>12, CoverMoves DEF MissInv
<1>15. QED BY <1>13, <1>14

\* A new event is behind what a replay still has to take, or is stored behind its
\* last page; to the cursor and to a poll it is later, or stored behind the event
\* whose time they have.
LEMMA StoredCovers ==
  ASSUME MissInv, NEW e \in ProofEvent, StoreEvent(e)
  PROVE  LookInv' /\ CoverInv'
<1>1. PICK L : L = Len(events)
  OBVIOUS
<1>2. /\ L \in Nat /\ DOMAIN events = 1..L
      /\ DOMAIN events' = 1..(L + 1) /\ events'[L + 1] = e
      /\ \A p \in 1..L : events'[p] = events[p]
      /\ UNCHANGED <<task, projected, lastProcessedTime, broken>>
      /\ blind \subseteq blind' /\ Overtaken \subseteq Overtaken'
      /\ (\E k \in Task : BehindLastPage(k)) => L + 1 \in blind'
  BY <1>1, StoredAtTheEnd DEF MissInv
<1>3. /\ \A p \in 1..L : p \in 1..(L + 1) /\ TimeOf(p)' = TimeOf(p)
      /\ \A p \in 1..(L + 1) : p \in 1..L \/ p = L + 1
      /\ L + 1 \in 1..(L + 1)
  BY <1>2 DEF TimeOf
<1>4. \A p : Taken(p) => Taken(p)'
  BY <1>2 DEF Taken
<1>5. e.occurredAt \in Nat /\ e.occurredAt > 0
  BY DEF ProofEvent, Time
<1>6. ASSUME NEW j \in 1..L, NEW c, c = TimeOf(j), ~ (e.occurredAt > c)
      PROVE  L + 1 \in Overtaken'
  <2>1. TimeOf(j) \in Nat
    BY <1>2, TimesOfEvents DEF MissInv
  <2>2. events'[j].occurredAt >= events'[L + 1].occurredAt
    BY <1>2, <1>5, <1>6, <2>1 DEF TimeOf
  <2>3. j \in 1..((L + 1) - 1)
    BY <1>2
  <2>4. QED BY <1>2, <1>3, <2>2, <2>3 DEF Overtaken
<1>7. ASSUME NEW c, Covers(c), c = Never \/ \E j \in 1..L : c = TimeOf(j)
       PROVE  Covers(c)'
  <2>1. TimeOf(L + 1)' = e.occurredAt
    BY <1>2 DEF TimeOf
  <2>2. e.occurredAt > c \/ L + 1 \in Overtaken'
    <3>1. CASE c = Never
      BY <1>5, <3>1 DEF Never
    <3>2. CASE c # Never
      <4>1. PICK j \in 1..L : c = TimeOf(j)
        BY <1>7, <3>2
      <4>2. QED BY <1>6, <4>1
    <3>3. QED BY <3>1, <3>2
  <2>3. \A p \in 1..L : TimeOf(p)' > c \/ Taken(p)' \/ p \in Overtaken'
    BY <1>2, <1>3, <1>4, <1>7 DEF Covers
  <2>4. QED BY <1>2, <1>3, <2>1, <2>2, <2>3 DEF Covers
<1>8. ASSUME NEW k \in Task PROVE Looks(task[k])'
  <2>1. PICK u : u = task[k]
    OBVIOUS
  <2>2. u \in TaskState /\ Holding(u) /\ Looks(u) /\ task'[k] = u
    BY <1>2, <2>1 DEF MissInv, TypeInv, TypeOK, TaskInv, LookInv
  <2>3. u.call = "poll" /\ u.step \in {"querying", "answered"} =>
          u.from = Never \/ \E j \in DOMAIN events' : u.from = TimeOf(j)' + 1
    BY <1>2, <1>3, <2>2 DEF Looks
  <2>4. ASSUME u.call = "poll", u.step = "answered",
               NEW p \in DOMAIN events', NEW n \in DOMAIN u.page,
               TimeOf(p)' >= u.from, p <= u.page[n]
        PROVE  p \in Range(u.page)
    <3>1. u.page[n] \in 1..L
      BY <1>2, <2>2, <2>4 DEF Holding
    <3>2. p \in 1..L
      BY <1>2, <2>4, <3>1
    <3>3. TimeOf(p) >= u.from
      BY <1>3, <2>4, <3>2
    <3>4. QED BY <1>2, <2>2, <2>4, <3>2, <3>3 DEF Looks
  <2>5. ASSUME u.call # "poll", u.step = "answered"
        PROVE  /\ \A p \in DOMAIN events' :
                    p <= u.offset \/ p > u.offset + Len(u.page) \/ p \in Range(u.page)
               /\ u.hasMore \/ \A p \in DOMAIN events' : p <= u.offset + Len(u.page) \/ p \in blind'
    <3>1. u.offset + Len(u.page) <= L /\ u.offset \in Nat /\ Len(u.page) \in Nat
      BY <1>1, <2>2, <2>5 DEF Holding, TaskState
    <3>2. L + 1 > u.offset + Len(u.page)
      BY <1>2, <3>1
    <3>3. u.hasMore \/ L + 1 \in blind'
      BY <1>2, <2>1, <2>5 DEF BehindLastPage
    <3>4. /\ \A p \in 1..L : p <= u.offset \/ p > u.offset + Len(u.page) \/ p \in Range(u.page)
          /\ u.hasMore \/ \A p \in 1..L : p <= u.offset + Len(u.page) \/ p \in blind
      BY <1>2, <2>2, <2>5 DEF Looks
    <3>5. \A p \in DOMAIN events' :
            p <= u.offset \/ p > u.offset + Len(u.page) \/ p \in Range(u.page)
      BY <1>2, <1>3, <3>2, <3>4
    <3>6. u.hasMore \/ \A p \in DOMAIN events' : p <= u.offset + Len(u.page) \/ p \in blind'
      BY <1>2, <1>3, <3>3, <3>4
    <3>7. QED BY <3>5, <3>6
  <2>6. u.step = "readingLatest" => ~ u.hasMore
    BY <2>2 DEF Looks
  <2>7. Looks(u)'
    BY <2>3, <2>4, <2>5, <2>6 DEF Looks
  <2>8. QED BY <2>2, <2>7 DEF Looks
<1>9. ASSUME NEW k \in Task, Refills(task[k]) PROVE Refills(task[k])'
  <2>1. PICK u : u = task[k]
    OBVIOUS
  <2>2. u.offset <= L /\ u.offset \in Nat
    <3>1. u \in TaskState /\ Holding(u)
      BY <2>1 DEF MissInv, TypeInv, TypeOK, TaskInv
    <3>2. u.offset \in Nat /\ Len(u.page) \in Nat
      BY <3>1 DEF TaskState
    <3>3. u.step \in {"querying", "answered"}
      BY <1>9, <2>1 DEF Refills
    <3>4. QED BY <1>1, <1>2, <3>1, <3>2, <3>3 DEF Holding
  <2>3. ~ (L + 1 <= u.offset)
    BY <1>2, <2>2
  <2>4. \A p \in DOMAIN events' : p <= u.offset => p \in Range(projected)
    BY <1>2, <1>3, <1>9, <2>1, <2>3 DEF Refills
  <2>5. QED BY <1>2, <1>9, <2>1, <2>4 DEF Refills
<1>10. ASSUME CaughtUp, NEW k \in Task PROVE Leaves(task[k])'
  <2>1. PICK u : u = task[k]
    OBVIOUS
  <2>2. u \in TaskState /\ Holding(u) /\ Looks(u) /\ Leaves(u) /\ task'[k] = u
    BY <1>2, <1>10, <2>1 DEF MissInv, TypeInv, TypeOK, TaskInv, LookInv, CaughtUp
  <2>3. ASSUME u.call # "poll", u.step \in {"querying", "answered"}
        PROVE  \A p \in DOMAIN events' : p <= u.offset => Taken(p)'
    <3>1. u.offset \in Nat /\ Len(u.page) \in Nat
      BY <2>2 DEF TaskState
    <3>2. ~ (L + 1 <= u.offset)
      BY <1>1, <1>2, <2>2, <2>3, <3>1 DEF Holding
    <3>3. QED BY <1>2, <1>3, <1>4, <2>2, <2>3, <3>2 DEF Leaves
  <2>4. ASSUME u.step = "readingLatest" PROVE \A p \in DOMAIN events' : Taken(p)'
    <3>1. BehindLastPage(k)
      BY <2>1, <2>2, <2>4 DEF BehindLastPage, Looks, Holding
    <3>2. Taken(L + 1)'
      BY <1>2, <3>1 DEF Taken
    <3>3. QED BY <1>2, <1>3, <1>4, <2>2, <2>4, <3>2 DEF Leaves
  <2>5. ASSUME u.call = "poll", u.step \in {"querying", "answered"}
        PROVE  \A p \in DOMAIN events' : TimeOf(p)' >= u.from \/ Taken(p)' \/ p \in Overtaken'
    <3>1. TimeOf(L + 1)' = e.occurredAt
      BY <1>2 DEF TimeOf
    <3>2. e.occurredAt >= u.from \/ L + 1 \in Overtaken'
      <4>1. CASE u.from = Never
        BY <1>5, <4>1 DEF Never
      <4>2. CASE u.from # Never
        <5>1. PICK j \in 1..L : u.from = TimeOf(j) + 1
          BY <1>2, <2>2, <2>5, <4>2 DEF Looks
        <5>2. PICK c : c = TimeOf(j)
          OBVIOUS
        <5>3. c \in Nat
          BY <1>2, <5>2, TimesOfEvents DEF MissInv
        <5>4. e.occurredAt > c \/ L + 1 \in Overtaken'
          BY <1>6, <5>2
        <5>5. QED BY <1>5, <5>1, <5>2, <5>3, <5>4
      <4>3. QED BY <4>1, <4>2
    <3>3. \A p \in 1..L : TimeOf(p) >= u.from \/ Taken(p) \/ p \in Overtaken
      BY <1>2, <2>2, <2>5 DEF Leaves
    <3>4. \A p \in 1..L : TimeOf(p)' >= u.from \/ Taken(p)' \/ p \in Overtaken'
      BY <1>2, <1>3, <1>4, <3>3
    <3>5. QED BY <1>2, <1>3, <3>1, <3>2, <3>4
  <2>6. u.step = "latestRead" => Covers(u.latest)'
    <3>1. PICK c : c = u.latest
      OBVIOUS
    <3>2. u.step = "latestRead" => Covers(c) /\ \E j \in 1..L : c = TimeOf(j)
      BY <1>2, <2>2, <3>1 DEF Leaves, Holding
    <3>3. u.step = "latestRead" => Covers(c)'
      BY <1>7, <3>2
    <3>4. QED BY <3>1, <3>3 DEF Covers
  <2>7. Leaves(u)'
    BY <2>3, <2>4, <2>5, <2>6 DEF Leaves
  <2>8. QED BY <2>2, <2>7 DEF Leaves, Covers
<1>11. ASSUME CaughtUp PROVE Covers(lastProcessedTime)'
  <2>1. PICK c : c = lastProcessedTime
    OBVIOUS
  <2>2. Covers(c) /\ lastProcessedTime' = c
    BY <1>2, <1>11, <2>1 DEF CaughtUp
  <2>3. c = Never \/ \E j \in 1..L : c = TimeOf(j)
    BY <1>2, <2>1 DEF MissInv, TypeInv, CursorOfEvent
  <2>4. Covers(c)'
    BY <1>7, <2>2, <2>3
  <2>5. QED BY <2>2, <2>4 DEF Covers
<1>12. CoverInv'
  BY <1>2, <1>9, <1>10, <1>11 DEF MissInv, CoverInv, CaughtUp
<1>13. QED BY <1>2, <1>8, <1>12 DEF LookInv

LEMMA MissInit == Init => MissInv
<1> SUFFICES ASSUME Init PROVE MissInv
  OBVIOUS
<1>1. TypeInv
  BY TypeInit
<1>2. task = [k \in Task |-> NoTask] /\ DOMAIN events = {}
  BY DEF Init
<1>3. \A k \in Task : task[k].call = "poll" /\ task[k].step = "idle"
  BY <1>2 DEF NoTask
<1>4. LookInv
  BY <1>3 DEF LookInv, Looks
<1>5. CaughtUp
  BY <1>2, AllTaken
<1>6. QED BY <1>1, <1>4, <1>5 DEF MissInv, CoverInv

LEMMA MissNext == MissInv /\ [Next]_vars => MissInv'
<1> SUFFICES ASSUME MissInv, [Next]_vars PROVE MissInv'
  OBVIOUS
<1>1. TypeInv'
  BY TypeNext DEF MissInv
<1> DEFINE Rest == LookInv' /\ CoverInv'
<1>2. ASSUME NEW e \in ProofEvent, StoreEvent(e) PROVE Rest
  BY <1>2, StoredCovers
<1>3. ASSUME NEW k \in Task, Start(k) \/ Replay(k) PROVE Rest
  BY <1>3, BegunCovers DEF MissInv
<1>4. ASSUME NEW k \in Task, Tick(k) PROVE Rest
  BY <1>4, TickedCovers
<1>5. ASSUME NEW k \in Task, Proceed(k) PROVE Rest
  BY <1>5, AnsweredCovers, EndedCovers, ReplayedCovers, LatestCovers, CursorCovers,
     PolledCovers DEF Proceed
<1>6. ASSUME UNCHANGED <<events, lastProcessedTime, projected, task, broken, blind>> PROVE Rest
  <2>1. LookInv'
    BY <1>6 DEF MissInv, LookInv, Looks, TimeOf, Range
  <2>2. /\ \A p : Taken(p)' <=> Taken(p)
        /\ Overtaken' = Overtaken /\ \A p : TimeOf(p)' = TimeOf(p)
    BY <1>6 DEF Taken, Overtaken, TimeOf
  <2>3. CoverInv'
    BY <1>6, <2>2 DEF MissInv, CoverInv, Refills, CaughtUp, Leaves, Covers
  <2>4. QED BY <2>1, <2>3
<1>7. ASSUME Stop PROVE Rest
  BY <1>6, <1>7 DEF Stop, modelVars, replayVars
<1>8. ASSUME UNCHANGED vars PROVE Rest
  BY <1>6, <1>8 DEF vars, modelVars, replayVars
<1> HIDE DEF Rest
<1>9. Rest
  BY <1>2, <1>3, <1>4, <1>5, <1>7, <1>8 DEF Next
<1>10. QED BY <1>1, <1>9 DEF MissInv, Rest

\* However calls overlap, what is not later than the cursor is in the models, but for
\* what was stored behind a replay's last page or behind a later event.
THEOREM EventsMissedOnlyBehindReplay == Spec => []MissedOnlyBehindReplay
<1>1. MissInv => MissedOnlyBehindReplay
  <2> SUFFICES ASSUME MissInv, ~ Replaying, ~ broken, NEW p \in Missed
               PROVE  p \in blind \cup Overtaken
    BY DEF MissedOnlyBehindReplay
  <2>1. Covers(lastProcessedTime)
    BY DEF MissInv, CoverInv, Refills, Replaying, CaughtUp
  <2>2. p \in DOMAIN events /\ TimeOf(p) <= lastProcessedTime /\ p \notin Range(projected)
    BY DEF Missed, TimeOf
  <2>3. TimeOf(p) \in Nat /\ lastProcessedTime \in Nat
    BY <2>2, TimesOfEvents DEF MissInv
  <2>4. ~ (TimeOf(p) > lastProcessedTime)
    BY <2>2, <2>3
  <2>5. QED BY <2>1, <2>2, <2>4 DEF Covers, Taken
<1>2. QED BY <1>1, MissInit, MissNext, PTL DEF Spec
=============================================================================
