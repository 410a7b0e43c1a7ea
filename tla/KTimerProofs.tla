---------------------------- MODULE KTimerProofs ----------------------------
(***************************************************************************)
(* The timeout queue and the timers for every set of timeouts, timers and  *)
(* threads and every bound on the ticks: the differences in the queue add  *)
(* up, timeouts are handled in their tick, in the order in which they were *)
(* started and once, periods are exact, and nobody waits for a timer that  *)
(* does not run.  All of it as long as nobody stops a timeout that the     *)
(* clock interrupt has already marked.                                     *)
(***************************************************************************)
EXTENDS KTimer, DataLemmas, FiniteSetTheorems

-----------------------------------------------------------------------------
(* The list of differences *)

\* The entries of s are in the order of their deadlines, and d leads from each
\* deadline to the next.
Exact(s, d, due) ==
  /\ Ascending(s, due)
  /\ \A k \in 1..Len(s) : d[s[k]] = due[s[k]] - (IF k = 1 THEN 0 ELSE due[s[k - 1]])

\* The ticks left of each timeout as a number; 0 for those not armed.
Due == [t \in Timers |-> IF rem[t] = None THEN 0 ELSE rem[t]]

\* The timeouts that the clock interrupt has marked and not handled yet.
Marked == {t \in Timers : delta[t] = EXPIRED}

(* The inductive invariant of the timeout queue *)

\* Types
DataInv ==
  /\ q \in Seq(Timers) /\ IsInjective(q)
  /\ expired \in Seq(Timers) /\ IsInjective(expired)
  /\ delta \in [Timers -> EXPIRED..MaxTicks]
  /\ rem \in [Timers -> (0..MaxTicks) \cup {None}]
  /\ earlier \in [Timers -> SUBSET Timers]
  /\ damage = "none"
  /\ fired \in Timers \cup {None}

\* Each timeout is inactive, queued or marked; its ticks left say so too.
StateInv ==
  /\ \A t \in Timers : Contains(q, t) <=> delta[t] >= 0
  /\ \A t \in Timers : rem[t] = None <=> delta[t] = INACTIVE
  /\ \A t \in Marked : rem[t] = 0
  /\ \A t \in Timers : phase # "collect" /\ Contains(q, t) => rem[t] # 0

\* The walk over the local list is at entry p: it has still to handle the
\* marked ones, which are the entry itself, unless it has just been handled,
\* and all behind it.
WalkAt(p) ==
  /\ Marked = {expired[k] : k \in (p + 1)..Len(expired)} \cup ({cur} \ {None})
  /\ nxt = IF p < Len(expired) THEN expired[p + 1] ELSE None
  /\ cur # None => p # 0 /\ cur = expired[p]

\* Where handle_timeouts() is.
WalkInv ==
  /\ phase \in {"idle", "collect", "handle"}
  /\ phase = "idle" => expired = << >>
  /\ phase # "handle" => cur = None /\ nxt = None
  /\ phase # "handle" => Marked = {expired[k] : k \in 1..Len(expired)}
  /\ phase = "handle" => \E p \in 0..Len(expired) : WalkAt(p)

\* What was started earlier for the same tick is behind in the queue, and in
\* front of it on the local list.
EarlierInv ==
  /\ \A t \in Timers : \A u \in earlier[t] :
       /\ u # t /\ rem[t] # None /\ rem[u] = rem[t]
       /\ Contains(q, t) => Contains(q, u)
  /\ \A j, k \in 1..Len(q) : j < k => q[j] \notin earlier[q[k]]
  /\ \A j, k \in 1..Len(expired) :
       j < k /\ expired[j] \in Marked /\ expired[k] \in Marked
         => expired[k] \notin earlier[expired[j]]

TimeoutInv == DataInv /\ Exact(q, delta, Due) /\ StateInv /\ WalkInv /\ EarlierInv

-----------------------------------------------------------------------------
(* What the walks over the list find *)

\* The differences add up to the deadlines.
LEMMA TicksToIs ==
  ASSUME NEW l, l.q \in Seq(Timers), NEW due \in [Timers -> Nat],
         Exact(l.q, l.delta, due), NEW i \in 0..Len(l.q)
  PROVE  TicksTo(l, i) = IF i = 0 THEN 0 ELSE due[l.q[i]]
<1> DEFINE s == l.q
           d == l.delta
           N == Len(s)
           Turns(w) == [k \in 0..N |-> IF k = 0 THEN 0 ELSE w[k - 1] + d[s[k]]]
           f == [k \in 0..N |-> IF k = 0 THEN 0 ELSE due[s[k]]]
           W == CHOOSE w : w = Turns(w)
<1>0. /\ N \in Nat /\ \A k \in 1..N : due[s[k]] \in Int
      /\ \A k \in 1..N : d[s[k]] = due[s[k]] - (IF k = 1 THEN 0 ELSE due[s[k - 1]])
  BY DEF Exact
<1>1. \A k \in 1..N : f[k - 1] + d[s[k]] = due[s[k]]
  <2> TAKE k \in 1..N
  <2>1. k - 1 \in 0..N /\ (k # 1 => k - 1 \in 1..N /\ k - 1 # 0)
    BY <1>0
  <2>2. f[k - 1] = IF k = 1 THEN 0 ELSE due[s[k - 1]]
    BY <2>1
  <2> HIDE DEF f, s, d, N
  <2> QED
    BY <1>0, <2>1, <2>2
<1>2. f = Turns(f)
  <2>1. \A k \in 0..N : k = 0 \/ k \in 1..N
    BY <1>0
  <2>2. \A k \in 0..N : (IF k = 0 THEN 0 ELSE due[s[k]]) = (IF k = 0 THEN 0 ELSE f[k - 1] + d[s[k]])
    BY <1>1, <2>1, Zenon
  <2> QED
    BY <2>2, Zenon
<1>3. W = Turns(W)
  BY <1>2, Zenon
<1>4. TicksTo(l, i) = W[i]
  BY Zenon DEF TicksTo
<1> HIDE DEF W
<1>5. \A k \in 0..N : W[k] = IF k = 0 THEN 0 ELSE W[k - 1] + d[s[k]]
  BY <1>3, Zenon
<1>6. \A k \in 0..N : W[k] = f[k]
  <2> DEFINE B == {k \in 0..N : W[k] # f[k]}
  <2> SUFFICES ASSUME B # {} PROVE FALSE
    OBVIOUS
  <2>1. B \in SUBSET Nat
    BY <1>0
  <2>2. PICK k \in B : \A j \in B : k <= j
    BY <2>1, LeastNatural
  <2>3. k \in 0..N /\ k # 0 /\ k \in 1..N /\ k - 1 \in 0..N
    <3>1. W[0] = 0 /\ f[0] = 0
      BY <1>0, <1>5
    <3> HIDE DEF f
    <3>2. k \in 0..N /\ k # 0
      BY <3>1
    <3> QED
      BY <1>0, <3>2
  <2>4. W[k - 1] = f[k - 1]
    <3>1. ~(k <= k - 1)
      BY <2>3, <1>0
    <3> HIDE DEF f
    <3> QED
      BY <2>2, <2>3, <3>1
  <2>5. f[k] = due[s[k]]
    BY <2>3
  <2> HIDE DEF f
  <2>6. W[k] = f[k]
    BY <1>1, <1>5, <2>3, <2>4, <2>5
  <2> QED
    BY <2>6
<1> QED
  BY <1>4, <1>6

\* Where _add_timeout() inserts: behind every earlier deadline and before the
\* others.
LEMMA InsertPointIs ==
  ASSUME NEW l, l.q \in Seq(Timers), NEW due \in [Timers -> Nat],
         Exact(l.q, l.delta, due), NEW n \in Nat
  PROVE  /\ InsertPoint(l, n) \in 1..(Len(l.q) + 1)
         /\ \A j \in 1..(InsertPoint(l, n) - 1) : j \in 1..Len(l.q) /\ due[l.q[j]] < n
         /\ InsertPoint(l, n) <= Len(l.q) => n <= due[l.q[InsertPoint(l, n)]]
<1> DEFINE s == l.q
           N == Len(s)
           Here(i) == /\ \A j \in 1..(i - 1) : TicksTo(l, j) < n
                      /\ i <= N => n <= TicksTo(l, i)
<1>0. N \in Nat /\ \A k \in 1..N : due[s[k]] \in Nat
  OBVIOUS
<1>1. \A k \in 1..N : TicksTo(l, k) = due[s[k]]
  <2> TAKE k \in 1..N
  <2>1. k \in 0..N /\ k # 0
    BY <1>0
  <2> QED
    BY <2>1, TicksToIs
<1>2. \E i \in 1..(N + 1) : Here(i)
  <2> DEFINE B == {k \in 1..N : n <= due[s[k]]}
  <2>1. CASE B = {}
    <3>1. \A k \in 1..N : due[s[k]] < n
      BY <1>0, <2>1, SMTT(40)
    <3>2. N + 1 \in 1..(N + 1) /\ (N + 1) - 1 = N /\ ~(N + 1 <= N)
      BY <1>0
    <3> HIDE DEF N
    <3> QED
      BY <1>1, <3>1, <3>2
  <2>2. CASE B # {}
    <3>1. B \in SUBSET Nat
      BY <1>0
    <3>2. PICK k \in B : \A j \in B : k <= j
      BY <2>2, <3>1, LeastNatural
    <3>3. k \in 1..N /\ k \in 1..(N + 1) /\ n <= due[s[k]]
      BY <1>0, <3>2
    <3>4. \A j \in 1..(k - 1) : j \in 1..N /\ ~(k <= j)
      BY <1>0, <3>3
    <3>5. \A j \in 1..(k - 1) : due[s[j]] < n
      BY <1>0, <3>2, <3>4
    <3> HIDE DEF N
    <3> QED
      BY <1>1, <3>3, <3>4, <3>5
  <2> QED
    BY <2>1, <2>2
<1> DEFINE p == InsertPoint(l, n)
<1>3. p \in 1..(N + 1) /\ Here(p)
  BY <1>2, Zenon DEF InsertPoint
<1> HIDE DEF p
<1>4. /\ \A j \in 1..(p - 1) : j \in 1..N
      /\ p <= N => p \in 1..N
  BY <1>0, <1>3
<1>5. /\ \A j \in 1..(p - 1) : j \in 1..N /\ due[s[j]] < n
      /\ p <= N => n <= due[s[p]]
  BY <1>1, <1>3, <1>4
<1> QED
  BY <1>3, <1>5 DEF p

\* What _add_timeout() makes of a list.
IsInserted(m, l, due, t, n) ==
  /\ m.q \in Seq(Timers) /\ IsInjective(m.q) /\ m.delta \in [Timers -> Int]
  /\ \A u \in Timers : Contains(m.q, u) <=> (u = t \/ Contains(l.q, u))
  /\ \A u \in Timers : u # t /\ ~Contains(l.q, u) => m.delta[u] = l.delta[u]
  /\ Exact(m.q, m.delta, [due EXCEPT ![t] = n])
  /\ \A R : /\ Ordered(l.q, R)
            /\ \A u \in Timers : Contains(l.q, u) /\ due[u] < n => t \in R[u]
            /\ \A u \in Timers : Contains(l.q, u) /\ n <= due[u] => u \in R[t]
            => Ordered(m.q, R)

LEMMA InsertedIs ==
  ASSUME NEW l, l.q \in Seq(Timers), IsInjective(l.q), l.delta \in [Timers -> Int],
         NEW due \in [Timers -> Nat], Exact(l.q, l.delta, due),
         NEW t \in Timers, ~Contains(l.q, t), NEW n \in Nat,
         NEW m, m = Inserted(l, t, n)
  PROVE  IsInserted(m, l, due, t, n)
<1> DEFINE i == InsertPoint(l, n)
           s == l.q
           N == Len(s)
           pre == IF i = 1 THEN 0 ELSE due[s[i - 1]]
           d0 == n - TicksTo(l, i - 1)
           r == InsertAt(s, i, t)
           dd == [u \in Timers |->
                    CASE u = t -> d0
                      [] i <= Len(l.q) /\ u = l.q[i] -> l.delta[u] - d0
                      [] OTHER -> l.delta[u]]
           E == [due EXCEPT ![t] = n]
<1>0. N \in Nat /\ \A k \in 1..N : s[k] \in Timers /\ due[s[k]] \in Nat /\ s[k] # t
  BY DEF Contains
<1>1. /\ i \in 1..(N + 1)
      /\ \A j \in 1..(i - 1) : j \in 1..N /\ due[s[j]] < n
      /\ i <= N => n <= due[s[i]]
  BY InsertPointIs, Zenon
<1>2. m.q = r /\ m.delta = dd
  BY DEF Inserted
<1> HIDE DEF i
<1>3. i \in Nat /\ i # 0 /\ i - 1 \in 0..N /\ (i # 1 => i - 1 \in 1..N /\ i - 1 # 0) /\ (i <= N => i \in 1..N)
  BY <1>0, <1>1
<1>4. d0 = n - pre /\ d0 \in Int /\ pre \in Nat
  <2>1. TicksTo(l, i - 1) = IF i - 1 = 0 THEN 0 ELSE due[s[i - 1]]
    BY <1>3, TicksToIs
  <2>2. (i = 1) <=> (i - 1 = 0)
    BY <1>3
  <2>3. TicksTo(l, i - 1) = pre
    BY <2>1, <2>2
  <2>4. pre \in Nat
    BY <1>0, <1>3
  <2> HIDE DEF pre
  <2> QED
    BY <2>3, <2>4
<1> HIDE DEF d0, pre
<1>5. /\ r \in Seq(Timers) /\ Len(r) = N + 1 /\ ShiftedUp(r, s, i, t)
      /\ IsInjective(r)
      /\ \A u \in Timers : Contains(r, u) <=> (u = t \/ Contains(s, u))
  <2> HIDE DEF s
  <2>1. s \in Seq(Timers) /\ IsInjective(s) /\ ~Contains(s, t) /\ i \in 1..(Len(s) + 1)
    BY <1>1 DEF s
  <2> QED
    BY ONLY t \in Timers, <2>1, InsertAtEntries, InsertAtMembers, Zenon
<1>6. dd \in [Timers -> Int]
  BY <1>4
<1>7. /\ dd[t] = d0
      /\ i <= N => dd[s[i]] = l.delta[s[i]] - d0
      /\ \A u \in Timers : u # t /\ (i <= N => u # s[i]) => dd[u] = l.delta[u]
  BY <1>0, <1>3
<1>8. \A u \in Timers : u # t /\ ~Contains(s, u) => dd[u] = l.delta[u]
  <2>1. i <= N => Contains(s, s[i])
    BY <1>3 DEF Contains
  <2> QED
    BY <1>7, <2>1
<1>9. /\ E \in [Timers -> Nat] /\ E[t] = n
      /\ \A k \in 1..N : E[s[k]] = due[s[k]]
  BY <1>0
<1> HIDE DEF dd, E, r
<1>10. /\ \A j, k \in 1..N : j < k => due[s[j]] <= due[s[k]]
       /\ \A k \in 1..N : l.delta[s[k]] = due[s[k]] - (IF k = 1 THEN 0 ELSE due[s[k - 1]])
       /\ \A j, k \in 1..N : s[j] = s[k] => j = k
  <2>1. \A j, k \in 1..N : s[j] = s[k] => j = k
    BY LenProperties, SMTT(40) DEF IsInjective
  <2> QED
    BY <2>1 DEF Exact, Ascending
<1>11. Ascending(r, E)
  <2>1. Ascending(s, E)
    BY <1>9, <1>10 DEF Ascending
  <2>2. \A j \in 1..(i - 1) : E[s[j]] <= E[t]
    BY <1>0, <1>1, <1>9, SMTT(40)
  <2>3. i <= Len(s) => E[t] <= E[s[i]]
    BY <1>0, <1>1, <1>3, <1>9
  <2>4. E \in [Timers -> Int] /\ s \in Seq(Timers)
    BY <1>9
  <2> HIDE DEF s
  <2> QED
    BY ONLY <2>1, <2>2, <2>3, <2>4, <1>1, t \in Timers, InsertAtAscending DEF r, N
<1>12. \A k \in 1..(N + 1) : r[k] = IF k < i THEN s[k] ELSE IF k = i THEN t ELSE s[k - 1]
  BY <1>5 DEF ShiftedUp
<1>13. ASSUME NEW k \in 1..(N + 1)
       PROVE  dd[r[k]] = E[r[k]] - (IF k = 1 THEN 0 ELSE E[r[k - 1]])
  <2>0. k \in Nat /\ k # 0 /\ (k # 1 => k - 1 \in 1..(N + 1))
    BY <1>0
  <2>1. CASE k < i
    <3>1. k \in 1..N /\ (k # 1 => k - 1 \in 1..N /\ k - 1 < i) /\ (i <= N => k # i)
      BY <1>0, <1>3, <2>0, <2>1
    <3>2. r[k] = s[k] /\ (k # 1 => r[k - 1] = s[k - 1])
      BY <1>12, <2>0, <2>1, <3>1
    <3>3. dd[s[k]] = l.delta[s[k]]
      BY <1>0, <1>3, <1>7, <1>10, <3>1
    <3> QED
      BY <1>9, <1>10, <3>1, <3>2, <3>3, ZenonT(40)
  <2>2. CASE k = i
    <3>1. r[k] = t /\ (k # 1 => r[k - 1] = s[k - 1] /\ k - 1 \in 1..N)
      BY <1>3, <1>12, <2>0, <2>2
    <3>2. pre = IF k = 1 THEN 0 ELSE E[r[k - 1]]
      BY <1>9, <2>2, <3>1 DEF pre
    <3> QED
      BY <1>4, <1>7, <1>9, <3>1, <3>2
  <2>3. CASE k = i + 1
    <3>1. i \in 1..N /\ i <= N /\ k - 1 = i /\ k # 1
      BY <1>0, <1>3, <2>3, SMTT(40)
    <3>2. r[k] = s[i] /\ r[k - 1] = t
      BY <1>3, <1>12, <2>0, <2>3, <3>1
    <3>3. l.delta[s[i]] = due[s[i]] - pre
      BY <1>10, <3>1 DEF pre
    <3>4. E[r[k]] = due[s[i]] /\ E[r[k - 1]] = n /\ due[s[i]] \in Nat
      BY <1>0, <1>9, <3>1, <3>2
    <3>5. dd[r[k]] = due[s[i]] - pre - d0
      BY <1>7, <3>1, <3>2, <3>3
    <3> HIDE DEF s, N
    <3>6. dd[r[k]] = due[s[i]] - n
      BY ONLY <3>4, <3>5, <1>4, n \in Nat
    <3> QED
      BY <3>1, <3>4, <3>6
  <2>4. CASE k > i + 1
    <3>1. /\ k - 1 \in 1..N /\ k - 2 \in 1..N /\ k - 1 # 1 /\ k # 1
          /\ ~(k < i) /\ k # i /\ ~(k - 1 < i) /\ k - 1 # i /\ (k - 1) - 1 = k - 2
      BY <1>0, <1>3, <2>0, <2>4
    <3>2. r[k] = s[k - 1] /\ r[k - 1] = s[k - 2]
      BY <1>12, <2>0, <3>1
    <3>3. dd[s[k - 1]] = l.delta[s[k - 1]]
      BY <1>0, <1>3, <1>7, <1>10, <3>1
    <3>4. l.delta[s[k - 1]] = due[s[k - 1]] - due[s[k - 2]]
      BY <1>10, <3>1
    <3> QED
      BY <1>9, <3>1, <3>2, <3>3, <3>4
  <2>5. k < i \/ k = i \/ k = i + 1 \/ k > i + 1
    BY <1>3, <2>0
  <2> QED
    BY <2>1, <2>2, <2>3, <2>4, <2>5
<1>14. Exact(r, dd, E)
  BY <1>5, <1>11, <1>13 DEF Exact
<1>15. ASSUME NEW R, Ordered(s, R),
              \A u \in Timers : Contains(s, u) /\ due[u] < n => t \in R[u],
              \A u \in Timers : Contains(s, u) /\ n <= due[u] => u \in R[t]
       PROVE  Ordered(r, R)
  <2>0. \A k \in 1..N : Contains(s, s[k])
    BY DEF Contains
  <2>1. \A j \in 1..(i - 1) : t \in R[s[j]]
    BY <1>0, <1>1, <1>15, <2>0
  <2>2. \A j \in 1..Len(s) : j >= i => s[j] \in R[t]
    <3> SUFFICES ASSUME NEW j \in 1..N, j >= i PROVE s[j] \in R[t]
      OBVIOUS
    <3>1. i \in 1..N /\ i <= N /\ (i < j \/ i = j)
      BY <1>0, <1>3
    <3>2. n <= due[s[i]] /\ due[s[i]] <= due[s[j]]
      BY <1>0, <1>1, <1>10, <3>1
    <3>3. n <= due[s[j]]
      BY <1>0, <3>1, <3>2
    <3> QED
      BY <1>0, <1>15, <2>0, <3>3
  <2>3. s \in Seq(Timers) /\ i \in 1..(Len(s) + 1)
    BY <1>1
  <2> HIDE DEF s
  <2> QED
    BY ONLY <1>15, <2>1, <2>2, <2>3, t \in Timers, InsertAtOrdered DEF r
<1> QED
  BY <1>2, <1>5, <1>6, <1>8, <1>14, <1>15 DEF E, IsInserted

\* What _abort_timeout() makes of a list.
IsUnlinked(m, l, due, t) ==
  /\ m.q \in Seq(Timers) /\ IsInjective(m.q) /\ m.delta \in [Timers -> Int]
  /\ \A u \in Timers : Contains(m.q, u) <=> (u # t /\ Contains(l.q, u))
  /\ m.delta[t] = INACTIVE
  /\ \A u \in Timers : u # t /\ ~Contains(l.q, u) => m.delta[u] = l.delta[u]
  /\ \A e \in [Timers -> Nat] :
       (\A u \in Timers : u # t => e[u] = due[u]) => Exact(m.q, m.delta, e)
  /\ \A R : Ordered(l.q, R) => Ordered(m.q, R)

LEMMA UnlinkedIs ==
  ASSUME NEW l, l.q \in Seq(Timers), IsInjective(l.q), l.delta \in [Timers -> Int],
         NEW due \in [Timers -> Nat], Exact(l.q, l.delta, due),
         NEW t \in Timers, Contains(l.q, t),
         NEW m, m = Unlinked(l, t)
  PROVE  IsUnlinked(m, l, due, t)
<1> DEFINE i == SelectInSeq(l.q, LAMBDA u : u = t)
           s == l.q
           N == Len(s)
           r == RemoveAt(s, i)
           dd == [u \in Timers |->
                    CASE u = t -> INACTIVE
                      [] i < Len(l.q) /\ u = l.q[i + 1] -> l.delta[u] + l.delta[t]
                      [] OTHER -> l.delta[u]]
<1>0. N \in Nat /\ \A k \in 1..N : s[k] \in Timers /\ due[s[k]] \in Nat
  OBVIOUS
<1>1. i \in 1..N /\ s[i] = t
  <2> DEFINE I == {k \in 1..N : s[k] = t}
  <2>1. I \in SUBSET Nat /\ I # {}
    BY DEF Contains
  <2>2. Min(I) \in I
    BY <2>1, LeastNatural DEF Min
  <2>3. i = Min(I)
    BY <2>1 DEF SelectInSeq
  <2> HIDE DEF i
  <2> QED
    BY <2>2, <2>3
<1>2. m.q = r /\ m.delta = dd
  BY DEF Unlinked
<1> HIDE DEF i
<1>3. i \in Nat /\ i # 0 /\ (i < N => i + 1 \in 1..N) /\ (i # 1 => i - 1 \in 1..N)
  BY <1>0, <1>1, SMTT(40)
<1>4. /\ \A j, k \in 1..N : s[j] = s[k] => j = k
      /\ \A j, k \in 1..N : j < k => due[s[j]] <= due[s[k]]
      /\ \A k \in 1..N : l.delta[s[k]] = due[s[k]] - (IF k = 1 THEN 0 ELSE due[s[k - 1]])
  <2>1. \A j, k \in 1..N : s[j] = s[k] => j = k
    BY LenProperties DEF IsInjective
  <2> QED
    BY <2>1 DEF Exact, Ascending
<1>5. dd \in [Timers -> Int]
  BY DEF INACTIVE
<1>6. /\ dd[t] = INACTIVE
      /\ i < N => s[i + 1] # t /\ dd[s[i + 1]] = l.delta[s[i + 1]] + l.delta[t]
      /\ \A u \in Timers : u # t /\ (i < N => u # s[i + 1]) => dd[u] = l.delta[u]
  <2>1. i < N => s[i + 1] \in Timers /\ s[i + 1] # s[i]
    BY <1>0, <1>1, <1>3, <1>4
  <2> QED
    BY <1>1, <2>1
<1>7. \A u \in Timers : u # t /\ ~Contains(s, u) => dd[u] = l.delta[u]
  <2>1. i < N => Contains(s, s[i + 1])
    BY <1>3 DEF Contains
  <2> QED
    BY <1>6, <2>1
<1>8. /\ r \in Seq(Timers) /\ Len(r) = N - 1 /\ ShiftedDown(r, s, i)
      /\ IsInjective(r)
      /\ \A u \in Timers : Contains(r, u) <=> (u # t /\ Contains(s, u))
      /\ \A R : Ordered(s, R) => Ordered(r, R)
  <2> HIDE DEF s
  <2>1. s \in Seq(Timers) /\ IsInjective(s) /\ i \in 1..Len(s)
    BY <1>1 DEF s
  <2>2. /\ IsInjective(r)
        /\ \A u \in Timers : Contains(r, u) <=> (u # s[i] /\ Contains(s, u))
    BY ONLY <2>1, RemoveAtMembers, Zenon
  <2>3. \A R : Ordered(s, R) => Ordered(r, R)
    BY ONLY <2>1, RemoveAtOrdered, Zenon
  <2>4. r \in Seq(Timers) /\ Len(r) = N - 1 /\ ShiftedDown(r, s, i)
    BY ONLY <2>1, RemoveAtEntries, Zenon
  <2> QED
    BY <1>1, <2>2, <2>3, <2>4, Zenon
<1> HIDE DEF dd, r
<1>9. ASSUME NEW e \in [Timers -> Nat], \A u \in Timers : u # t => e[u] = due[u]
      PROVE  Exact(r, dd, e)
  <2>1. \A k \in 1..(N - 1) : r[k] = IF k < i THEN s[k] ELSE s[k + 1]
    BY <1>8 DEF ShiftedDown
  <2>2. \A k \in 1..N : k # i => e[s[k]] = due[s[k]] /\ s[k] # t
    BY <1>0, <1>1, <1>4, <1>9
  <2>3. Ascending(r, e)
    <3> SUFFICES ASSUME NEW j \in 1..(N - 1), NEW k \in 1..(N - 1), j < k
                 PROVE  e[r[j]] <= e[r[k]]
      BY <1>8 DEF Ascending
    <3> DEFINE a == IF j < i THEN j ELSE j + 1
               b == IF k < i THEN k ELSE k + 1
    <3>0. N \in Nat /\ i \in Nat
      BY <1>0, <1>3
    <3> HIDE DEF N, s
    <3>1. a \in 1..N /\ b \in 1..N /\ a < b /\ a # i /\ b # i
      BY ONLY <3>0, j \in 1..(N - 1), k \in 1..(N - 1), j < k
    <3>2. r[j] = s[a] /\ r[k] = s[b]
      BY <2>1
    <3> HIDE DEF a, b
    <3> QED
      BY <1>4, <2>2, <3>1, <3>2
  <2>4. ASSUME NEW k \in 1..(N - 1)
        PROVE  dd[r[k]] = e[r[k]] - (IF k = 1 THEN 0 ELSE e[r[k - 1]])
    <3>0. /\ k \in Nat /\ k # 0 /\ k \in 1..N /\ k + 1 \in 1..N
          /\ (k # 1 => k - 1 \in 1..(N - 1) /\ k - 1 \in 1..N)
      BY <1>0, SMTT(40)
    <3>1. CASE k < i
      <4>1. k # i /\ (i < N => k # i + 1) /\ (k # 1 => k - 1 < i /\ k - 1 # i)
        BY <1>3, <3>0, <3>1
      <4>2. r[k] = s[k] /\ (k # 1 => r[k - 1] = s[k - 1])
        BY <2>1, <3>0, <3>1, <4>1
      <4>3. dd[s[k]] = l.delta[s[k]]
        <5>1. s[k] # t /\ s[k] \in Timers
          BY <1>0, <2>2, <3>0, <4>1
        <5>2. i < N => s[k] # s[i + 1]
          BY <1>3, <1>4, <3>0, <4>1
        <5> QED
          BY <1>6, <5>1, <5>2
      <4>4. e[s[k]] = due[s[k]] /\ (k # 1 => e[s[k - 1]] = due[s[k - 1]])
        BY <2>2, <3>0, <4>1
      <4>5. l.delta[s[k]] = due[s[k]] - (IF k = 1 THEN 0 ELSE due[s[k - 1]])
        BY <1>4, <3>0
      <4>6. CASE k = 1
        BY <4>2, <4>3, <4>4, <4>5, <4>6
      <4>7. CASE k # 1
        BY <4>2, <4>3, <4>4, <4>5, <4>7
      <4> QED
        BY <4>6, <4>7
    <3>2. CASE k = i
      <4>1. i < N /\ i + 1 # i /\ i + 1 # 1 /\ (i + 1) - 1 = i /\ (k # 1 => k - 1 < i /\ k - 1 # i)
        BY <1>0, <1>3, <3>0, <3>2
      <4>2. r[k] = s[i + 1] /\ (k # 1 => r[k - 1] = s[k - 1])
        BY <1>3, <2>1, <3>0, <3>2, <4>1
      <4>3. dd[s[i + 1]] = l.delta[s[i + 1]] + l.delta[s[i]]
        BY <1>1, <1>6, <4>1
      <4>4. l.delta[s[i + 1]] = due[s[i + 1]] - due[s[i]]
        BY <1>3, <1>4, <4>1
      <4>5. l.delta[s[i]] = due[s[i]] - (IF k = 1 THEN 0 ELSE due[s[k - 1]])
        BY <1>1, <1>4, <3>2
      <4>6. e[s[i + 1]] = due[s[i + 1]] /\ (k # 1 => e[s[k - 1]] = due[s[k - 1]])
        BY <1>3, <2>2, <3>0, <4>1
      <4>7. /\ due[s[i + 1]] \in Nat /\ due[s[i]] \in Nat /\ (k # 1 => due[s[k - 1]] \in Nat)
        BY <1>0, <1>1, <1>3, <3>0, <4>1
      <4> HIDE DEF s, N
      <4> QED
        BY ONLY <4>2, <4>3, <4>4, <4>5, <4>6, <4>7
    <3>3. CASE k > i
      <4>1. /\ k + 1 # i /\ k + 1 # i + 1 /\ k # i /\ k # 1 /\ ~(k < i) /\ ~(k - 1 < i)
            /\ (k - 1) + 1 = k /\ (k + 1) - 1 = k /\ k + 1 # 1
        <5>1. i \in Nat /\ i # 0 /\ k \in Nat
          BY <1>3, <3>0
        <5> QED
          BY ONLY <5>1, <3>3
      <4>2. r[k] = s[k + 1] /\ r[k - 1] = s[k]
        BY <2>1, <3>0, <4>1
      <4>3. dd[s[k + 1]] = l.delta[s[k + 1]]
        <5>1. s[k + 1] # t /\ s[k + 1] \in Timers
          BY <1>0, <2>2, <3>0, <4>1
        <5>2. i < N => s[k + 1] # s[i + 1]
          BY <1>3, <1>4, <3>0, <4>1
        <5> QED
          BY <1>6, <5>1, <5>2
      <4>4. e[s[k + 1]] = due[s[k + 1]] /\ e[s[k]] = due[s[k]]
        BY <2>2, <3>0, <4>1
      <4>5. l.delta[s[k + 1]] = due[s[k + 1]] - due[s[k]]
        BY <1>4, <3>0, <4>1
      <4> QED
        BY <4>1, <4>2, <4>3, <4>4, <4>5
    <3>4. k < i \/ k = i \/ k > i
      BY <1>3, <3>0
    <3> QED
      BY <3>1, <3>2, <3>3, <3>4
  <2> QED
    BY <1>8, <2>3, <2>4 DEF Exact
<1> QED
  BY <1>2, <1>5, <1>6, <1>7, <1>8, <1>9 DEF IsUnlinked


-----------------------------------------------------------------------------
(* Steps that change the queue *)

\* The difference of an entry is a number of ticks within the bound.
LEMMA ExactBounds ==
  ASSUME NEW s \in Seq(Timers), NEW d, NEW due \in [Timers -> 0..MaxTicks], Exact(s, d, due),
         NEW u \in Timers, Contains(s, u)
  PROVE  d[u] \in 0..MaxTicks
<1>0. MaxTicks \in Nat
  BY TimeoutAssumption
<1>1. PICK k \in 1..Len(s) : s[k] = u
  BY DEF Contains
<1>2. k \in Nat /\ k # 0 /\ Len(s) \in Nat
  BY <1>1
<1>3. d[u] = due[u] - (IF k = 1 THEN 0 ELSE due[s[k - 1]])
  BY <1>1 DEF Exact
<1>4. due[u] \in 0..MaxTicks
  OBVIOUS
<1>5. CASE k = 1
  BY <1>0, <1>3, <1>4, <1>5
<1>6. CASE k # 1
  <2>1. k - 1 \in 1..Len(s) /\ k - 1 < k
    BY <1>1, <1>2, <1>6
  <2>2. due[s[k - 1]] <= due[u]
    BY <1>1, <2>1 DEF Exact, Ascending
  <2>3. due[s[k - 1]] \in 0..MaxTicks
    BY <2>1
  <2> QED
    BY ONLY <1>0, <1>3, <1>4, <1>6, <2>2, <2>3
<1> QED
  BY <1>5, <1>6

\* What may come before what: x before y, unless x was started before y for
\* the same tick.
Before(e) == [x \in Timers |-> {y \in Timers : x \notin e[y]}]

LEMMA BeforeIs ==
  ASSUME NEW s \in Seq(Timers), NEW e
  PROVE  Ordered(s, Before(e)) <=> \A j, k \in 1..Len(s) : j < k => s[j] \notin e[s[k]]
<1>1. \A k \in 1..Len(s) : s[k] \in Timers
  OBVIOUS
<1> QED
  BY <1>1 DEF Ordered, Before

LEMMA DueIs ==
  ASSUME rem \in [Timers -> (0..MaxTicks) \cup {None}]
  PROVE  /\ Due \in [Timers -> 0..MaxTicks] /\ Due \in [Timers -> Nat]
         /\ \A t \in Timers : Due[t] = IF rem[t] = None THEN 0 ELSE rem[t]
<1>0. MaxTicks \in Nat
  BY TimeoutAssumption
<1>1. \A t \in Timers : (IF rem[t] = None THEN 0 ELSE rem[t]) \in 0..MaxTicks
  BY <1>0
<1>2. Due \in [Timers -> 0..MaxTicks] /\ \A t \in Timers : Due[t] = IF rem[t] = None THEN 0 ELSE rem[t]
  BY <1>1 DEF Due
<1>3. 0..MaxTicks \subseteq Nat
  BY <1>0
<1> QED
  BY <1>2, <1>3

\* A list that differs from the queue in t only.
Replaces(s, d, t) ==
  /\ s \in Seq(Timers) /\ IsInjective(s) /\ d \in [Timers -> Int]
  /\ \A u \in Timers : u # t => (Contains(s, u) <=> Contains(q, u))
  /\ \A u \in Timers : u # t /\ ~Contains(q, u) => d[u] = delta[u]

\* The queue after t was put in, taken out or moved, for r ticks or None.
LEMMA QueueStep ==
  ASSUME TimeoutInv, NEW t \in Timers, delta[t] # EXPIRED,
         NEW r \in (1..MaxTicks) \cup {None},
         Replaces(q', delta', t),
         Contains(q', t) <=> r # None,
         r = None => delta'[t] = INACTIVE,
         rem' = [rem EXCEPT ![t] = r],
         Exact(q', delta', Due'),
         earlier' \in [Timers -> SUBSET Timers],
         \A u \in Timers : u # t => earlier'[u] = earlier[u] \ {t},
         \A v \in earlier'[t] : v # t /\ r # None /\ rem[v] = r,
         Ordered(q', Before(earlier')),
         fired' \in Timers \cup {None},
         UNCHANGED <<expired, damage, phase, cur, nxt>>
  PROVE  TimeoutInv'
<1>0. MaxTicks \in Nat /\ None \notin Int /\ 0 \in Int
  BY TimeoutAssumption
<1>1. DataInv /\ Exact(q, delta, Due) /\ StateInv /\ WalkInv /\ EarlierInv
  BY DEF TimeoutInv
<1>2. q' \in Seq(Timers) /\ IsInjective(q') /\ delta' \in [Timers -> Int]
  BY DEF Replaces
<1>3. rem' \in [Timers -> (0..MaxTicks) \cup {None}] /\ rem'[t] = r /\ \A u \in Timers : u # t => rem'[u] = rem[u]
  <2>1. r \in (0..MaxTicks) \cup {None}
    BY <1>0
  <2> QED
    BY <1>1, <2>1, Zenon DEF DataInv
<1>4. r = None \/ (r \in Nat /\ r # 0 /\ r # None)
  BY <1>0
<1>5. /\ Due' \in [Timers -> 0..MaxTicks]
      /\ \A u \in Timers : Contains(q', u) => delta'[u] \in 0..MaxTicks
  <2>1. Due' \in [Timers -> 0..MaxTicks]
    <3>1. \A u \in Timers : (IF rem'[u] = None THEN 0 ELSE rem'[u]) \in 0..MaxTicks
      BY <1>0, <1>3
    <3> QED
      BY <3>1 DEF Due
  <2> QED
    BY <1>2, <2>1, ExactBounds
<1>6. \A u \in Timers : ~Contains(q', u) => delta'[u] \in {INACTIVE, EXPIRED} /\ (u # t => delta'[u] = delta[u])
  <2> TAKE u \in Timers
  <2> HAVE ~Contains(q', u)
  <2>1. CASE u = t
    BY <2>1
  <2>2. CASE u # t
    <3>1. ~Contains(q, u) /\ delta'[u] = delta[u]
      BY <2>2 DEF Replaces
    <3>2. ~(delta[u] >= 0) /\ delta[u] \in EXPIRED..MaxTicks
      BY <1>1, <3>1 DEF StateInv, DataInv
    <3>3. delta[u] \in {INACTIVE, EXPIRED}
      BY <1>0, <3>2 DEF INACTIVE, EXPIRED
    <3> QED
      BY <3>1, <3>3
  <2> QED
    BY <2>1, <2>2
<1>7. /\ \A x \in {INACTIVE, EXPIRED} : x \in EXPIRED..MaxTicks /\ ~(x >= 0)
      /\ \A x \in 0..MaxTicks : x \in EXPIRED..MaxTicks /\ x >= 0 /\ x # EXPIRED /\ x # INACTIVE
      /\ INACTIVE # EXPIRED
  BY <1>0 DEF INACTIVE, EXPIRED
<1>8. DataInv'
  <2>1. delta' \in [Timers -> EXPIRED..MaxTicks]
    <3>1. \A u \in Timers : delta'[u] \in EXPIRED..MaxTicks
      BY <1>5, <1>6, <1>7
    <3> QED
      BY <1>2, <3>1
  <2> QED
    BY <1>1, <1>2, <1>3, <2>1 DEF DataInv
<1>9. \A u \in Timers : delta'[u] = EXPIRED <=> delta[u] = EXPIRED
  <2> TAKE u \in Timers
  <2>1. CASE u = t
    <3>1. delta'[t] # EXPIRED
      BY <1>5, <1>7
    <3> QED
      BY <2>1, <3>1
  <2>2. CASE u # t /\ Contains(q, u)
    <3>1. Contains(q', u)
      BY <2>2 DEF Replaces
    <3>2. delta'[u] # EXPIRED
      BY <1>5, <1>7, <3>1
    <3>3. delta[u] # EXPIRED
      BY <1>1, <1>7, <2>2 DEF StateInv
    <3> QED
      BY <3>2, <3>3
  <2>3. CASE u # t /\ ~Contains(q, u)
    BY <2>3 DEF Replaces
  <2> QED
    BY <2>1, <2>2, <2>3
<1>10. Marked' = Marked
  BY <1>9 DEF Marked
<1>11. t \notin Marked
  BY DEF Marked
<1>12. StateInv'
  <2>1. \A u \in Timers : Contains(q', u) <=> delta'[u] >= 0
    BY <1>5, <1>6, <1>7
  <2>2. ASSUME NEW u \in Timers PROVE rem'[u] = None <=> delta'[u] = INACTIVE
    <3>1. CASE u = t
      BY <1>3, <1>5, <1>7, <3>1
    <3>2. CASE u # t /\ Contains(q, u)
      <4>1. delta[u] # INACTIVE
        BY <1>1, <1>7, <3>2 DEF StateInv
      <4>2. rem'[u] # None
        BY <1>1, <1>3, <3>2, <4>1 DEF StateInv
      <4>3. delta'[u] # INACTIVE
        BY <1>5, <1>7, <3>2 DEF Replaces
      <4> QED
        BY <4>2, <4>3
    <3>3. CASE u # t /\ ~Contains(q, u)
      <4>1. delta'[u] = delta[u] /\ rem'[u] = rem[u]
        BY <1>3, <3>3 DEF Replaces
      <4> QED
        BY <1>1, <4>1 DEF StateInv
    <3> QED
      BY <3>1, <3>2, <3>3
  <2>3. \A u \in Marked : rem'[u] = 0
    BY <1>1, <1>3, <1>11 DEF StateInv, Marked
  <2>4. ASSUME NEW u \in Timers, phase # "collect", Contains(q', u) PROVE rem'[u] # 0
    <3>1. CASE u = t
      BY <1>0, <1>3, <1>4, <2>4, <3>1
    <3>2. CASE u # t
      BY <1>1, <1>3, <2>4, <3>2 DEF StateInv, Replaces
    <3> QED
      BY <3>1, <3>2
  <2> QED
    BY <1>10, <2>1, <2>2, <2>3, <2>4 DEF StateInv
<1>13. WalkInv'
  <2>1. expired' = expired /\ phase' = phase /\ cur' = cur /\ nxt' = nxt
    OBVIOUS
  <2> QED
    BY <1>1, <1>10, <2>1 DEF WalkInv, WalkAt
<1>14. EarlierInv'
  <2>1. ASSUME NEW u \in Timers, NEW v \in earlier'[u]
        PROVE  v # u /\ rem'[u] # None /\ rem'[v] = rem'[u] /\ (Contains(q', u) => Contains(q', v))
    <3>0. v \in Timers
      OBVIOUS
    <3>1. CASE u = t
      <4>1. v # t /\ r # None /\ rem[v] = r
        BY <2>1, <3>1
      <4>2. rem'[u] # None /\ rem'[v] = rem'[u]
        BY <1>3, <3>0, <3>1, <4>1
      <4>3. v \notin Marked /\ delta[v] # INACTIVE
        <5>1. rem[v] # 0 /\ rem[v] # None
          BY <1>0, <1>4, <4>1
        <5> QED
          BY <1>1, <3>0, <5>1 DEF StateInv
      <4>4. Contains(q, v)
        <5>1. delta[v] # INACTIVE /\ delta[v] # EXPIRED /\ delta[v] \in EXPIRED..MaxTicks
          BY <1>1, <3>0, <4>3 DEF Marked, DataInv
        <5>2. delta[v] >= 0
          BY <1>0, <5>1 DEF INACTIVE, EXPIRED
        <5> QED
          BY <1>1, <3>0, <5>2 DEF StateInv
      <4> QED
        BY <3>0, <3>1, <4>1, <4>2, <4>4 DEF Replaces
    <3>2. CASE u # t
      <4>1. v \in earlier[u] /\ v # t
        BY <2>1, <3>2
      <4>2. v # u /\ rem[u] # None /\ rem[v] = rem[u] /\ (Contains(q, u) => Contains(q, v))
        BY <1>1, <4>1 DEF EarlierInv
      <4> QED
        BY <1>3, <3>0, <3>2, <4>1, <4>2 DEF Replaces
    <3> QED
      BY <3>1, <3>2
  <2>2. \A j, k \in 1..Len(q') : j < k => q'[j] \notin earlier'[q'[k]]
    BY <1>2, BeforeIs
  <2>3. ASSUME NEW j \in 1..Len(expired), NEW k \in 1..Len(expired),
               j < k, expired[j] \in Marked, expired[k] \in Marked
        PROVE  expired[k] \notin earlier'[expired[j]]
    <3>1. expired[k] \notin earlier[expired[j]]
      BY <1>1, <2>3 DEF EarlierInv
    <3>2. expired[j] \in Timers /\ expired[j] # t
      BY <1>11, <2>3 DEF Marked
    <3> QED
      BY <3>1, <3>2
  <2> QED
    BY <1>10, <2>1, <2>2, <2>3 DEF EarlierInv
<1> QED
  BY <1>8, <1>12, <1>13, <1>14 DEF TimeoutInv


\* The queue without t.
Without(l, t) ==
  /\ Replaces(l.q, l.delta, t)
  /\ ~Contains(l.q, t) /\ l.delta[t] = INACTIVE
  /\ \A e \in [Timers -> Nat] :
       (\A u \in Timers : u # t => e[u] = Due[u]) => Exact(l.q, l.delta, e)
  /\ \A R : Ordered(q, R) => Ordered(l.q, R)

\* A timeout that is not active is not there in the first place.
LEMMA WithoutInactive ==
  ASSUME TimeoutInv, NEW t \in Timers, delta[t] = INACTIVE
  PROVE  Without(List, t)
<1>0. MaxTicks \in Nat
  BY TimeoutAssumption
<1>1. DataInv /\ Exact(q, delta, Due) /\ StateInv
  BY DEF TimeoutInv
<1>2. List.q = q /\ List.delta = delta
  BY DEF List
<1>3. ~Contains(q, t)
  <2>1. ~(INACTIVE >= 0)
    BY DEF INACTIVE
  <2> QED
    BY <1>1, <2>1 DEF StateInv
<1>4. delta \in [Timers -> Int]
  <2>1. EXPIRED..MaxTicks \subseteq Int
    OBVIOUS
  <2> QED
    BY <1>1, <2>1 DEF DataInv
<1>5. ASSUME NEW e \in [Timers -> Nat], \A u \in Timers : u # t => e[u] = Due[u]
      PROVE  Exact(q, delta, e)
  <2>1. \A k \in 1..Len(q) : e[q[k]] = Due[q[k]]
    BY <1>1, <1>3, <1>5 DEF Contains, DataInv
  <2>2. \A k \in 1..Len(q) : k # 1 => k - 1 \in 1..Len(q)
    BY <1>1 DEF DataInv
  <2> QED
    BY <1>1, <2>1, <2>2 DEF Exact, Ascending
<1> QED
  BY <1>1, <1>2, <1>3, <1>4, <1>5 DEF Without, Replaces, DataInv

\* One that is queued is unlinked.
LEMMA WithoutUnlinked ==
  ASSUME TimeoutInv, NEW t \in Timers, Contains(q, t)
  PROVE  Without(Unlinked(List, t), t)
<1>0. MaxTicks \in Nat
  BY TimeoutAssumption
<1>1. DataInv /\ Exact(q, delta, Due)
  BY DEF TimeoutInv
<1>2. List.q = q /\ List.delta = delta
  BY DEF List
<1>3. delta \in [Timers -> Int]
  <2>1. EXPIRED..MaxTicks \subseteq Int
    OBVIOUS
  <2> QED
    BY <1>1, <2>1 DEF DataInv
<1>4. Due \in [Timers -> Nat]
  BY <1>1, DueIs DEF DataInv
<1> DEFINE m == Unlinked(List, t)
<1>m. m = Unlinked(List, t)
  OBVIOUS
<1> HIDE DEF m
<1>5. /\ m.q \in Seq(Timers) /\ IsInjective(m.q) /\ m.delta \in [Timers -> Int]
      /\ \A u \in Timers : Contains(m.q, u) <=> (u # t /\ Contains(q, u))
      /\ m.delta[t] = INACTIVE
      /\ \A u \in Timers : u # t /\ ~Contains(q, u) => m.delta[u] = delta[u]
      /\ \A e \in [Timers -> Nat] :
           (\A u \in Timers : u # t => e[u] = Due[u]) => Exact(m.q, m.delta, e)
      /\ \A R : Ordered(q, R) => Ordered(m.q, R)
  <2>1. List.q \in Seq(Timers) /\ IsInjective(List.q) /\ List.delta \in [Timers -> Int]
    BY <1>1, <1>2, <1>3 DEF DataInv
  <2>2. Exact(List.q, List.delta, Due) /\ Contains(List.q, t)
    BY <1>1, <1>2
  <2>3. IsUnlinked(m, List, Due, t)
    BY <1>4, <1>m, <2>1, <2>2, UnlinkedIs, Zenon
  <2> QED
    BY <1>2, <2>3 DEF IsUnlinked
<1>6. Without(m, t)
  BY <1>5, Zenon DEF Without, Replaces
<1> QED
  BY <1>6 DEF m

\* Due as a function of the changed timeout.
LEMMA DueChanges ==
  ASSUME DataInv, NEW t \in Timers, NEW r \in (0..MaxTicks) \cup {None}, rem' = [rem EXCEPT ![t] = r]
  PROVE  Due' = [Due EXCEPT ![t] = IF r = None THEN 0 ELSE r]
BY DEF Due, DataInv

\* A timeout is taken off the queue and its history ends.
LEMMA DisarmStep ==
  ASSUME TimeoutInv, NEW t \in Timers, delta[t] # EXPIRED, NEW l, Without(l, t),
         q' = l.q, delta' = l.delta, Disarmed(t), fired' = None,
         UNCHANGED <<expired, damage, phase, cur, nxt>>
  PROVE  TimeoutInv'
<1>1. DataInv /\ EarlierInv
  BY DEF TimeoutInv
<1>2. /\ Replaces(q', delta', t) /\ ~Contains(q', t) /\ delta'[t] = INACTIVE
      /\ \A R : Ordered(q, R) => Ordered(q', R)
  BY DEF Without
<1>3. rem' = [rem EXCEPT ![t] = None]
  BY DEF Disarmed
<1>4. Exact(q', delta', Due')
  <2>1. Due \in [Timers -> Nat]
    BY <1>1, DueIs DEF DataInv
  <2>2. Due' = [Due EXCEPT ![t] = 0]
    BY <1>1, <1>3, DueChanges
  <2>3. Due' \in [Timers -> Nat] /\ \A u \in Timers : u # t => Due'[u] = Due[u]
    BY <2>1, <2>2
  <2> QED
    BY <2>3 DEF Without
<1>5. /\ earlier' \in [Timers -> SUBSET Timers]
      /\ \A u \in Timers : u # t => earlier'[u] = earlier[u] \ {t}
      /\ earlier'[t] = {}
      /\ \A u \in Timers : earlier'[u] \subseteq earlier[u]
  BY <1>1 DEF Disarmed, DataInv
<1>6. Ordered(q', Before(earlier'))
  <2>1. q \in Seq(Timers)
    BY <1>1 DEF DataInv
  <2>2. Ordered(q, Before(earlier))
    BY <1>1, <2>1, BeforeIs DEF EarlierInv
  <2>3. q' \in Seq(Timers) /\ Ordered(q', Before(earlier))
    BY <1>2, <2>2 DEF Replaces
  <2>4. \A j, k \in 1..Len(q') : j < k => q'[j] \notin earlier[q'[k]]
    BY <2>3, BeforeIs
  <2>5. \A j, k \in 1..Len(q') : j < k => q'[j] \notin earlier'[q'[k]]
    BY <1>5, <2>3, <2>4
  <2> QED
    BY <2>3, <2>5, BeforeIs
<1>7. /\ None \in (1..MaxTicks) \cup {None}
      /\ Contains(q', t) <=> None # None
      /\ \A v \in earlier'[t] : v # t /\ None # None /\ rem[v] = None
  BY <1>2, <1>5
<1> QED
  BY <1>2, <1>3, <1>4, <1>5, <1>6, <1>7, QueueStep, Zenon

\* A timeout that is not on the list l is inserted, and its history begins.
LEMMA ArmStep ==
  ASSUME TimeoutInv, NEW t \in Timers, delta[t] # EXPIRED, NEW l, Without(l, t),
         NEW n \in 1..MaxTicks,
         q' = Inserted(l, t, n).q, delta' = Inserted(l, t, n).delta, Armed(t, n), fired' = None,
         UNCHANGED <<expired, damage, phase, cur, nxt>>
  PROVE  TimeoutInv'
<1>0. MaxTicks \in Nat /\ n \in Nat /\ n \in 0..MaxTicks /\ n # None /\ n \in Int
  BY TimeoutAssumption
<1>1. DataInv /\ EarlierInv /\ Due \in [Timers -> Nat]
  BY DueIs DEF TimeoutInv, DataInv
<1>2. /\ l.q \in Seq(Timers) /\ IsInjective(l.q) /\ l.delta \in [Timers -> Int]
      /\ ~Contains(l.q, t)
      /\ \A R : Ordered(q, R) => Ordered(l.q, R)
      /\ Exact(l.q, l.delta, Due)
  <2>1. Exact(l.q, l.delta, Due)
    BY <1>1 DEF Without
  <2> QED
    BY <2>1 DEF Without, Replaces
<1> DEFINE m == Inserted(l, t, n)
<1>m. m = Inserted(l, t, n)
  OBVIOUS
<1> HIDE DEF m
<1>3. /\ m.q \in Seq(Timers) /\ IsInjective(m.q) /\ m.delta \in [Timers -> Int]
      /\ \A u \in Timers : Contains(m.q, u) <=> (u = t \/ Contains(l.q, u))
      /\ \A u \in Timers : u # t /\ ~Contains(l.q, u) => m.delta[u] = l.delta[u]
      /\ Exact(m.q, m.delta, [Due EXCEPT ![t] = n])
      /\ \A R : /\ Ordered(l.q, R)
                /\ \A u \in Timers : Contains(l.q, u) /\ Due[u] < n => t \in R[u]
                /\ \A u \in Timers : Contains(l.q, u) /\ n <= Due[u] => u \in R[t]
                => Ordered(m.q, R)
  <2>1. IsInserted(m, l, Due, t, n)
    BY <1>0, <1>1, <1>2, <1>m, InsertedIs, Zenon
  <2> QED
    BY <2>1, Zenon DEF IsInserted
<1>4. q' = m.q /\ delta' = m.delta
  BY <1>m
<1>5. rem' = [rem EXCEPT ![t] = n]
  BY DEF Armed
<1>6. Exact(q', delta', Due')
  <2>1. Due' = [Due EXCEPT ![t] = n]
    BY <1>0, <1>1, <1>5, DueChanges
  <2> QED
    BY <1>3, <1>4, <2>1
<1>7. Replaces(q', delta', t) /\ Contains(q', t)
  <2>1. Replaces(l.q, l.delta, t)
    BY DEF Without
  <2> QED
    BY <1>3, <1>4, <2>1, Zenon DEF Replaces
<1>8. /\ earlier' \in [Timers -> SUBSET Timers]
      /\ \A u \in Timers : u # t => earlier'[u] = earlier[u] \ {t}
      /\ earlier'[t] = {v \in Timers \ {t} : rem[v] = n}
  BY <1>1 DEF Armed, DataInv
<1>9. Ordered(q', Before(earlier'))
  <2>1. q \in Seq(Timers)
    BY <1>1 DEF DataInv
  <2>2. Ordered(q, Before(earlier))
    BY <1>1, <2>1, BeforeIs DEF EarlierInv
  <2>3. \A j, k \in 1..Len(l.q) : j < k => (l.q)[j] \notin earlier[(l.q)[k]]
    BY <1>2, <2>2, BeforeIs
  <2>4. \A k \in 1..Len(l.q) : (l.q)[k] \in Timers /\ (l.q)[k] # t
    BY <1>2 DEF Contains
  <2>5. Ordered(l.q, Before(earlier'))
    <3>1. \A j, k \in 1..Len(l.q) : j < k => (l.q)[j] \notin earlier'[(l.q)[k]]
      BY <1>8, <2>3, <2>4
    <3> QED
      BY <1>2, <3>1, BeforeIs
  <2>6. \A u \in Timers : Contains(l.q, u) /\ Due[u] < n => t \in Before(earlier')[u]
    <3>1. \A u \in Timers : rem[u] = n => ~(Due[u] < n)
      BY <1>0, <1>1, DueIs DEF DataInv
    <3> QED
      BY <1>8, <3>1 DEF Before
  <2>7. \A u \in Timers : Contains(l.q, u) /\ n <= Due[u] => u \in Before(earlier')[t]
    <3>1. \A u \in Timers : Contains(l.q, u) => u # t
      BY <1>2
    <3> QED
      BY <1>8, <3>1 DEF Before
  <2> QED
    BY <1>3, <1>4, <2>5, <2>6, <2>7
<1>10. /\ n \in (1..MaxTicks) \cup {None} /\ (Contains(q', t) <=> n # None)
       /\ n = None => delta'[t] = INACTIVE
       /\ \A v \in earlier'[t] : v # t /\ n # None /\ rem[v] = n
       /\ fired' \in Timers \cup {None}
  BY <1>0, <1>7, <1>8
<1> QED
  BY <1>5, <1>6, <1>7, <1>8, <1>9, <1>10, QueueStep, Zenon

\* A step that only ends the visibility of fired.
LEMMA FiredEnds ==
  ASSUME TimeoutInv, fired' = None, UNCHANGED <<q, delta, expired, damage, phase, cur, nxt, rem, earlier>>
  PROVE  TimeoutInv'
<1>1. Due' = Due /\ Marked' = Marked
  BY DEF Due, Marked
<1>2. DataInv' /\ Exact(q, delta, Due)'
  BY <1>1 DEF TimeoutInv, DataInv
<1>3. StateInv'
  BY <1>1 DEF TimeoutInv, StateInv
<1>4. WalkInv'
  BY <1>1 DEF TimeoutInv, WalkInv, WalkAt
<1>5. EarlierInv'
  BY <1>1 DEF TimeoutInv, EarlierInv
<1> QED
  BY <1>2, <1>3, <1>4, <1>5 DEF TimeoutInv

\* _add_timeout() and _abort_timeout()
LEMMA AddStep ==
  ASSUME TimeoutInv, NEW t \in Timers, NEW n \in 0..MaxTicks, Add(t, n)
  PROVE  TimeoutInv'
<1>1. delta[t] = INACTIVE /\ delta[t] # EXPIRED /\ fired' = None /\ UNCHANGED <<expired, damage, phase, cur, nxt>>
  BY DEF Add, iterVars, INACTIVE, EXPIRED
<1>2. CASE n > 0
  <2>1. Without(List, t)
    BY <1>1, WithoutInactive
  <2>2. n \in 1..MaxTicks
    BY <1>2, TimeoutAssumption
  <2>3. q' = Inserted(List, t, n).q /\ delta' = Inserted(List, t, n).delta /\ Armed(t, n)
    BY <1>2 DEF Add
  <2> QED
    BY <1>1, <2>1, <2>2, <2>3, ArmStep, Zenon
<1>3. CASE ~(n > 0)
  <2>1. UNCHANGED <<q, delta, rem, earlier>>
    BY <1>3 DEF Add
  <2> QED
    BY <1>1, <2>1, FiredEnds
<1> QED
  BY <1>2, <1>3

LEMMA StopStep ==
  ASSUME TimeoutInv, ~StopsExpired, NEW t \in Timers, Stop(t)
  PROVE  TimeoutInv' /\ delta[t] # EXPIRED /\ Contains(q, t)
<1>1. /\ Contains(q, t) /\ q' = Unlinked(List, t).q /\ delta' = Unlinked(List, t).delta
      /\ Disarmed(t) /\ fired' = None /\ UNCHANGED <<expired, damage, phase, cur, nxt>>
  BY DEF Stop, AbortQueued, iterVars
<1>2. delta[t] # EXPIRED
  BY <1>1 DEF TimeoutInv, StateInv, EXPIRED
<1>3. Without(Unlinked(List, t), t)
  BY <1>1, WithoutUnlinked
<1> QED
  BY <1>1, <1>2, <1>3, DisarmStep, Zenon


-----------------------------------------------------------------------------
(* Steps of the clock interrupt *)

\* A timeout that is armed and not marked is on the queue.
LEMMA ArmedQueued ==
  ASSUME TimeoutInv, NEW t \in Timers, rem[t] # None, t \notin Marked
  PROVE  Contains(q, t)
<1>0. MaxTicks \in Nat
  BY TimeoutAssumption
<1>1. delta[t] # INACTIVE /\ delta[t] # EXPIRED /\ delta[t] \in EXPIRED..MaxTicks
  BY DEF TimeoutInv, StateInv, DataInv, Marked
<1>2. delta[t] >= 0
  BY <1>0, <1>1 DEF INACTIVE, EXPIRED
<1> QED
  BY <1>2 DEF TimeoutInv, StateInv

LEMMA QueuedIs ==
  ASSUME TimeoutInv, NEW t \in Timers, Contains(q, t)
  PROVE  /\ delta[t] >= 0 /\ t \notin Marked /\ rem[t] # None
         /\ rem[t] \in 0..MaxTicks /\ Due[t] = rem[t]
<1>1. delta[t] >= 0
  BY DEF TimeoutInv, StateInv
<1>2. t \notin Marked /\ delta[t] # INACTIVE
  BY <1>1 DEF Marked, EXPIRED, INACTIVE
<1>3. rem[t] # None
  BY <1>2 DEF TimeoutInv, StateInv
<1> QED
  BY <1>1, <1>2, <1>3 DEF TimeoutInv, DataInv, Due

\* No timeout is due when a tick begins.
LEMMA IdleNotDue ==
  ASSUME TimeoutInv, phase = "idle", NEW t \in Timers, rem[t] # None
  PROVE  Contains(q, t) /\ rem[t] \in 1..MaxTicks
<1>0. MaxTicks \in Nat
  BY TimeoutAssumption
<1>1. expired = << >> /\ Marked = {expired[k] : k \in 1..Len(expired)}
  BY DEF TimeoutInv, WalkInv
<1>2. Marked = {}
  BY <1>1
<1>3. Contains(q, t)
  BY <1>2, ArmedQueued
<1>4. rem[t] # 0
  BY <1>3 DEF TimeoutInv, StateInv
<1>5. rem[t] \in 0..MaxTicks
  BY <1>3, QueuedIs
<1> QED
  BY <1>0, <1>3, <1>4, <1>5

\* The history of a tick: nothing is overdue.
LEMMA AnnounceRem ==
  ASSUME TimeoutInv, Announce
  PROVE  \A t \in Timers : /\ rem'[t] = IF rem[t] = None THEN None ELSE rem[t] - 1
                           /\ rem[t] # None => rem[t] \in 1..MaxTicks /\ rem[t] - 1 \in 0..MaxTicks
<1>0. MaxTicks \in Nat /\ phase = "idle"
  BY TimeoutAssumption DEF Announce
<1> TAKE t \in Timers
<1>1. rem'[t] = IF rem[t] \in {None, -1} THEN rem[t] ELSE rem[t] - 1
  BY DEF Announce
<1>2. rem[t] # None => rem[t] \in 1..MaxTicks
  BY <1>0, IdleNotDue
<1>3. rem[t] # None => rem[t] # -1 /\ rem[t] - 1 \in 0..MaxTicks
  BY <1>0, <1>2
<1> QED
  BY <1>1, <1>2, <1>3

LEMMA AnnounceStep ==
  ASSUME TimeoutInv, Announce
  PROVE  TimeoutInv'
<1>0. MaxTicks \in Nat /\ None \notin Int
  BY TimeoutAssumption
<1>1. DataInv /\ Exact(q, delta, Due) /\ StateInv /\ WalkInv /\ EarlierInv
  BY DEF TimeoutInv
<1>2. phase = "idle" /\ fired' = None /\ UNCHANGED <<q, expired, damage, cur, nxt, earlier>>
  BY DEF Announce
<1>3. \A t \in Timers : /\ rem'[t] = IF rem[t] = None THEN None ELSE rem[t] - 1
                        /\ rem[t] # None => rem[t] \in 1..MaxTicks /\ rem[t] - 1 \in 0..MaxTicks
  BY AnnounceRem
<1>4. \A t \in Timers : rem'[t] = None <=> rem[t] = None
  BY <1>0, <1>3
<1>5. rem' \in [Timers -> (0..MaxTicks) \cup {None}]
  <2>1. rem' = [t \in Timers |-> IF rem[t] \in {None, -1} THEN rem[t] ELSE rem[t] - 1]
    BY DEF Announce
  <2>2. \A t \in Timers : rem'[t] \in (0..MaxTicks) \cup {None}
    BY <1>3
  <2> QED
    BY <2>1, <2>2
<1>6. expired = << >> /\ Marked = {}
  <2>1. expired = << >> /\ Marked = {expired[k] : k \in 1..Len(expired)}
    BY <1>1, <1>2 DEF WalkInv
  <2> QED
    BY <2>1
<1>7. EarlierInv'
  <2>1. ASSUME NEW t \in Timers, NEW u \in earlier[t]
        PROVE  u # t /\ rem'[t] # None /\ rem'[u] = rem'[t] /\ (Contains(q, t) => Contains(q, u))
    <3>1. u \in Timers
      BY <1>1 DEF DataInv
    <3>2. u # t /\ rem[t] # None /\ rem[u] = rem[t] /\ (Contains(q, t) => Contains(q, u))
      BY <1>1, <2>1 DEF EarlierInv
    <3> QED
      BY <1>3, <1>4, <3>1, <3>2
  <2>2. \A j, k \in 1..Len(q) : j < k => q[j] \notin earlier[q[k]]
    BY <1>1 DEF EarlierInv
  <2> QED
    BY <1>2, <1>6, <2>1, <2>2 DEF EarlierInv
<1>8. CASE q = << >>
  <2>1. UNCHANGED <<delta, phase>>
    BY <1>8 DEF Announce
  <2>2. \A t \in Timers : rem[t] = None
    <3>1. \A t \in Timers : ~Contains(q, t)
      BY <1>8 DEF Contains
    <3> QED
      BY <1>2, <3>1, IdleNotDue
  <2>3. rem' = rem
    <3>1. \A t \in Timers : rem'[t] = rem[t]
      BY <1>3, <2>2
    <3> QED
      BY <1>1, <1>5, <3>1 DEF DataInv
  <2> QED
    BY <1>2, <2>1, <2>3, FiredEnds
<1>9. CASE q # << >>
  <2> DEFINE N == Len(q)
             h == Head(q)
  <2>0. N \in Nat /\ 1 \in 1..N /\ h = q[1] /\ \A k \in 1..N : q[k] \in Timers /\ Contains(q, q[k])
    BY <1>1, <1>9 DEF DataInv, Contains
  <2>1. delta' = [delta EXCEPT ![h] = @ - 1] /\ phase' = "collect"
    BY <1>9 DEF Announce
  <2>2. /\ h \in Timers /\ delta'[h] = delta[h] - 1
        /\ \A u \in Timers : u # h => delta'[u] = delta[u]
    BY <1>1, <2>0, <2>1 DEF DataInv
  <2>3. \A u \in Timers : Contains(q, u) =>
             rem[u] \in 1..MaxTicks /\ Due[u] = rem[u] /\ rem'[u] = rem[u] - 1 /\ Due'[u] = rem[u] - 1
    <3>1. \A u \in Timers : Contains(q, u) => rem[u] # None /\ Due[u] = rem[u]
      BY QueuedIs
    <3>2. \A u \in Timers : Due'[u] = IF rem'[u] = None THEN 0 ELSE rem'[u]
      BY DEF Due
    <3> QED
      BY <1>3, <1>4, <3>1, <3>2
  <2>4. /\ \A j, k \in 1..N : j < k => Due[q[j]] <= Due[q[k]]
        /\ \A k \in 1..N : delta[q[k]] = Due[q[k]] - (IF k = 1 THEN 0 ELSE Due[q[k - 1]])
    BY <1>1 DEF Exact, Ascending
  <2>5. \A k \in 1..N : Due'[q[k]] = Due[q[k]] - 1 /\ Due[q[k]] \in 1..MaxTicks
    BY <2>0, <2>3
  <2>6. \A j, k \in 1..N : j < k => Due'[q[j]] <= Due'[q[k]]
    <3> SUFFICES ASSUME NEW j \in 1..N, NEW k \in 1..N, j < k PROVE Due'[q[j]] <= Due'[q[k]]
      OBVIOUS
    <3>1. Due[q[j]] <= Due[q[k]]
      BY <2>4
    <3> QED
      BY <1>0, <2>5, <3>1
  <2>7. ASSUME NEW k \in 1..N
        PROVE  delta'[q[k]] = Due'[q[k]] - (IF k = 1 THEN 0 ELSE Due'[q[k - 1]])
    <3>1. CASE k = 1
      <4>1. delta[h] = Due[h] /\ Due'[h] = Due[h] - 1 /\ Due[h] \in 1..MaxTicks
        BY <2>0, <2>4, <2>5
      <4>2. delta'[h] = Due'[h] - 0
        BY ONLY <1>0, <2>2, <4>1
      <4> QED
        BY <2>0, <3>1, <4>2
    <3>2. CASE k # 1
      <4>1. k - 1 \in 1..N
        BY <2>0, <3>2
      <4>2. q[k] # h /\ q[k] \in Timers
        BY <1>1, <2>0, <3>2 DEF DataInv, IsInjective
      <4>3. delta'[q[k]] = Due[q[k]] - Due[q[k - 1]]
        BY <2>2, <2>4, <3>2, <4>2
      <4>4. /\ Due'[q[k]] = Due[q[k]] - 1 /\ Due[q[k]] \in 1..MaxTicks
            /\ Due'[q[k - 1]] = Due[q[k - 1]] - 1 /\ Due[q[k - 1]] \in 1..MaxTicks
        BY <2>5, <4>1
      <4>5. delta'[q[k]] = Due'[q[k]] - Due'[q[k - 1]]
        BY ONLY <1>0, <4>3, <4>4
      <4> QED
        BY <3>2, <4>5
    <3> QED
      BY <3>1, <3>2
  <2>8. Exact(q, delta, Due)'
    BY <1>2, <2>6, <2>7 DEF Exact, Ascending
  <2>9. delta[h] \in 1..MaxTicks
    BY <2>0, <2>4, <2>5
  <2>10. delta'[h] \in EXPIRED..MaxTicks /\ delta'[h] >= 0 /\ delta[h] >= 0 /\ delta[h] # INACTIVE
         /\ delta'[h] # INACTIVE /\ delta'[h] # EXPIRED /\ delta[h] # EXPIRED
    BY <1>0, <2>2, <2>9 DEF EXPIRED, INACTIVE
  <2>11. DataInv'
    <3>1. delta' \in [Timers -> EXPIRED..MaxTicks]
      BY <1>1, <2>1, <2>2, <2>10 DEF DataInv
    <3> QED
      BY <1>1, <1>2, <1>5, <3>1 DEF DataInv
  <2>12. Marked' = {}
    <3>1. \A u \in Timers : delta[u] # EXPIRED
      BY <1>6 DEF Marked
    <3> QED
      BY <2>2, <2>10, <3>1 DEF Marked
  <2>13. StateInv'
    <3>1. ASSUME NEW t \in Timers
          PROVE  (Contains(q, t) <=> delta'[t] >= 0) /\ (rem'[t] = None <=> delta'[t] = INACTIVE)
      <4>1. (Contains(q, t) <=> delta[t] >= 0) /\ (rem[t] = None <=> delta[t] = INACTIVE)
        BY <1>1 DEF StateInv
      <4>2. CASE t = h
        BY <1>4, <2>10, <4>1, <4>2
      <4>3. CASE t # h
        BY <1>4, <2>2, <4>1, <4>3
      <4> QED
        BY <4>2, <4>3
    <3> QED
      BY <1>2, <2>1, <2>12, <3>1 DEF StateInv
  <2>14. WalkInv'
    BY <1>1, <1>2, <1>6, <2>1, <2>12 DEF WalkInv
  <2> QED
    BY <1>7, <2>8, <2>11, <2>13, <2>14 DEF TimeoutInv
<1> QED
  BY <1>8, <1>9


\* The head of the queue is the entry that is due first.
LEMMA HeadIs ==
  ASSUME TimeoutInv, q # << >>
  PROVE  /\ Head(q) = q[1] /\ q[1] \in Timers /\ Contains(q, q[1]) /\ 1 \in 1..Len(q)
         /\ delta[q[1]] = rem[q[1]] /\ rem[q[1]] \in 0..MaxTicks
         /\ \A u \in Timers : Contains(q, u) => rem[q[1]] <= rem[u] /\ rem[u] \in 0..MaxTicks
<1>0. MaxTicks \in Nat
  BY TimeoutAssumption
<1>1. q \in Seq(Timers) /\ Exact(q, delta, Due) /\ Len(q) \in Nat
  BY DEF TimeoutInv, DataInv
<1>2. Head(q) = q[1] /\ q[1] \in Timers /\ Contains(q, q[1]) /\ 1 \in 1..Len(q)
  BY <1>1 DEF Contains
<1>3. \A u \in Timers : Contains(q, u) => Due[u] = rem[u] /\ rem[u] \in 0..MaxTicks
  BY QueuedIs
<1>4. delta[q[1]] = Due[q[1]]
  <2>1. delta[q[1]] = Due[q[1]] - 0
    BY <1>1, <1>2 DEF Exact
  <2>2. Due[q[1]] \in 0..MaxTicks
    BY <1>2, <1>3
  <2> QED
    BY <2>1, <2>2
<1>5. ASSUME NEW u \in Timers, Contains(q, u) PROVE rem[q[1]] <= rem[u]
  <2>1. PICK k \in 1..Len(q) : q[k] = u
    BY <1>5 DEF Contains
  <2>2. k = 1 \/ 1 < k
    BY <1>1, <2>1
  <2>3. 1 < k => Due[q[1]] <= Due[q[k]]
    BY <1>1, <1>2, <2>1 DEF Exact, Ascending
  <2>4. 1 < k => rem[q[1]] <= rem[u]
    BY <1>2, <1>3, <1>5, <2>1, <2>3
  <2>5. k = 1 => rem[q[1]] <= rem[u]
    BY <1>2, <1>3, <2>1
  <2> QED
    BY <2>2, <2>4, <2>5
<1> QED
  BY <1>2, <1>3, <1>4, <1>5

\* The differences behind an entry that is due now.
LEMMA TailExact ==
  ASSUME NEW s \in Seq(Timers), s # << >>, IsInjective(s), NEW d, NEW e, NEW due \in [Timers -> Nat],
         Exact(s, d, due), due[Head(s)] = 0,
         \A u \in Timers : u # Head(s) => e[u] = d[u]
  PROVE  Exact(Tail(s), e, due)
<1> DEFINE r == Tail(s)
           N == Len(s)
<1>1. N \in Nat /\ N # 0 /\ Head(s) = s[1] /\ Len(r) = N - 1 /\ \A k \in 1..N : s[k] \in Timers
  OBVIOUS
<1>2. \A k \in 1..(N - 1) : r[k] = s[k + 1] /\ k + 1 \in 1..N /\ k \in 1..N
  <2>1. \A k \in 1..(N - 1) : k + 1 \in 1..N /\ k \in 1..N
    BY <1>1
  <2> QED
    BY <1>1, <2>1
<1>3. /\ \A j, k \in 1..N : j < k => due[s[j]] <= due[s[k]]
      /\ \A k \in 1..N : d[s[k]] = due[s[k]] - (IF k = 1 THEN 0 ELSE due[s[k - 1]])
  BY DEF Exact, Ascending
<1> HIDE DEF r, N
<1>4. Ascending(r, due)
  <2> SUFFICES ASSUME NEW j \in 1..(N - 1), NEW k \in 1..(N - 1), j < k
               PROVE  due[r[j]] <= due[r[k]]
    BY <1>1 DEF Ascending
  <2>1. j + 1 < k + 1
    BY <1>1
  <2> QED
    BY <1>2, <1>3, <2>1
<1>5. ASSUME NEW k \in 1..(N - 1)
      PROVE  e[r[k]] = due[r[k]] - (IF k = 1 THEN 0 ELSE due[r[k - 1]])
  <2>1. r[k] = s[k + 1] /\ k + 1 \in 1..N /\ k \in 1..N /\ s[k + 1] \in Timers /\ s[k] \in Timers
    BY <1>1, <1>2
  <2>2. k + 1 # 1 /\ (k + 1) - 1 = k /\ 1 \in 1..N
    BY <1>1
  <2>3. s[k + 1] # s[1]
    BY <2>1, <2>2 DEF IsInjective, N
  <2>4. e[r[k]] = due[s[k + 1]] - due[s[k]]
    <3>1. e[s[k + 1]] = d[s[k + 1]]
      BY <1>1, <2>1, <2>3
    <3>2. d[s[k + 1]] = due[s[k + 1]] - due[s[k]]
      BY <1>3, <2>1, <2>2
    <3> QED
      BY <2>1, <3>1, <3>2
  <2>5. CASE k = 1
    <3>1. due[s[k]] = 0
      BY <1>1, <2>5
    <3> QED
      BY <2>1, <2>4, <2>5, <3>1
  <2>6. CASE k # 1
    <3>1. k - 1 \in 1..(N - 1) /\ (k - 1) + 1 = k
      BY <1>1, <2>6
    <3>2. r[k - 1] = s[k]
      BY <1>2, <3>1
    <3> QED
      BY <2>1, <2>4, <2>6, <3>2
  <2> QED
    BY <2>5, <2>6
<1>6. Exact(r, e, due)
  BY <1>1, <1>4, <1>5 DEF Exact
<1> QED
  BY <1>6 DEF r

LEMMA CollectStep ==
  ASSUME TimeoutInv, Collect
  PROVE  TimeoutInv'
<1>0. MaxTicks \in Nat /\ None \notin Int /\ 0 # None
  BY TimeoutAssumption
<1>1. DataInv /\ Exact(q, delta, Due) /\ StateInv /\ WalkInv /\ EarlierInv
  BY DEF TimeoutInv
<1> DEFINE h == Head(q)
<1>2. /\ phase = "collect" /\ q # << >> /\ delta[h] = 0 /\ q' = Tail(q)
      /\ expired' = <<h>> \o expired /\ delta' = [delta EXCEPT ![h] = EXPIRED]
      /\ fired' = None /\ UNCHANGED <<damage, phase, cur, nxt, rem, earlier>>
  BY DEF Collect, iterVars
<1>3. h = q[1] /\ h \in Timers /\ Contains(q, h) /\ 1 \in 1..Len(q) /\ rem[h] = 0
  BY <1>2, HeadIs
<1> HIDE DEF h
<1>4. /\ delta'[h] = EXPIRED /\ \A u \in Timers : u # h => delta'[u] = delta[u]
      /\ delta' \in [Timers -> EXPIRED..MaxTicks]
  <2>1. EXPIRED \in EXPIRED..MaxTicks
    BY <1>0 DEF EXPIRED
  <2> QED
    BY <1>1, <1>2, <1>3, <2>1 DEF DataInv
<1>5. Due' = Due /\ Due \in [Timers -> Nat] /\ Due[h] = 0
  <2>1. Due' = Due
    BY <1>2 DEF Due
  <2> QED
    BY <1>0, <1>1, <1>3, <2>1, DueIs DEF DataInv
<1>6. /\ q' \in Seq(Timers) /\ IsInjective(q')
      /\ \A u \in Timers : Contains(q', u) <=> (u # h /\ Contains(q, u))
  BY <1>1, <1>2, TailMembers DEF DataInv, h
<1>7. Exact(q', delta', Due')
  BY <1>1, <1>2, <1>4, <1>5, TailExact DEF DataInv, h
<1>8. Marked = {expired[k] : k \in 1..Len(expired)}
  BY <1>1, <1>2 DEF WalkInv
<1>9. \A u \in Timers : Contains(expired, u) <=> u \in Marked
  <2>1. \A u : Contains(expired, u) <=> \E k \in 1..Len(expired) : expired[k] = u
    BY DEF Contains
  <2> QED
    BY <1>8, <2>1
<1>10. h \notin Marked /\ ~Contains(expired, h)
  <2>1. delta[h] # EXPIRED
    BY <1>2 DEF EXPIRED
  <2> QED
    BY <1>3, <1>9, <2>1 DEF Marked
<1>11. /\ expired' \in Seq(Timers) /\ IsInjective(expired')
       /\ \A u \in Timers : Contains(expired', u) <=> (u = h \/ Contains(expired, u))
  BY <1>1, <1>2, <1>3, <1>10, PrependMembers DEF DataInv
<1>12. Marked' = Marked \cup {h}
  BY <1>3, <1>4 DEF Marked
<1>13. DataInv'
  BY <1>1, <1>2, <1>4, <1>6, <1>11 DEF DataInv
<1>14. StateInv'
  <2>1. ASSUME NEW t \in Timers
        PROVE  (Contains(q', t) <=> delta'[t] >= 0) /\ (rem[t] = None <=> delta'[t] = INACTIVE)
    <3>1. (Contains(q, t) <=> delta[t] >= 0) /\ (rem[t] = None <=> delta[t] = INACTIVE)
      BY <1>1 DEF StateInv
    <3>2. CASE t = h
      <4>1. ~(EXPIRED >= 0) /\ EXPIRED # INACTIVE
        BY DEF EXPIRED, INACTIVE
      <4> QED
        BY <1>0, <1>3, <1>4, <1>6, <3>2, <4>1
    <3>3. CASE t # h
      BY <1>4, <1>6, <3>1, <3>3
    <3> QED
      BY <3>2, <3>3
  <2>2. \A t \in Marked' : rem[t] = 0
    BY <1>1, <1>3, <1>12 DEF StateInv
  <2> QED
    BY <1>2, <2>1, <2>2 DEF StateInv
<1>15. WalkInv'
  <2>1. Marked' = {expired'[k] : k \in 1..Len(expired')}
    <3>1. \A u : Contains(expired', u) <=> \E k \in 1..Len(expired') : expired'[k] = u
      BY DEF Contains
    <3>2. \A k \in 1..Len(expired') : expired'[k] \in Timers
      BY <1>11
    <3>3. \A u \in Timers : u \in Marked' <=> Contains(expired', u)
      BY <1>9, <1>11, <1>12
    <3>4. Marked' \subseteq Timers
      BY DEF Marked
    <3> QED
      BY <3>1, <3>2, <3>3, <3>4
  <2> QED
    BY <1>1, <1>2, <2>1 DEF WalkInv
<1>16. EarlierInv'
  <2>1. ASSUME NEW t \in Timers, NEW u \in earlier[t]
        PROVE  u # t /\ rem[t] # None /\ rem[u] = rem[t] /\ (Contains(q', t) => Contains(q', u))
    <3>0. u \in Timers
      BY <1>1 DEF DataInv
    <3>1. u # t /\ rem[t] # None /\ rem[u] = rem[t] /\ (Contains(q, t) => Contains(q, u))
      BY <1>1, <2>1 DEF EarlierInv
    <3>2. ASSUME Contains(q', t) PROVE u # h
      <4>1. t # h /\ Contains(q, t)
        BY <1>6, <3>2
      <4>2. PICK k \in 1..Len(q) : q[k] = t
        BY <4>1 DEF Contains
      <4>3. k # 1
        BY <1>3, <4>1, <4>2
      <4>4. 1 < k
        BY <4>2, <4>3
      <4>5. q[1] \notin earlier[q[k]]
        BY <1>1, <1>3, <4>4 DEF EarlierInv
      <4> QED
        BY <1>3, <2>1, <4>2, <4>5
    <3> QED
      BY <1>6, <3>0, <3>1, <3>2
  <2>2. \A j, k \in 1..Len(q') : j < k => q'[j] \notin earlier[q'[k]]
    <3>1. Len(q) \in Nat /\ Len(q') = Len(q) - 1 /\ \A k \in 1..Len(q') : q'[k] = q[k + 1]
      BY <1>1, <1>2 DEF DataInv
    <3>2. \A j, k \in 1..Len(q') : j + 1 \in 1..Len(q) /\ k + 1 \in 1..Len(q) /\ (j < k => j + 1 < k + 1)
      BY <3>1
    <3> QED
      BY <1>1, <3>1, <3>2 DEF EarlierInv
  <2>3. ASSUME NEW j \in 1..Len(expired'), NEW k \in 1..Len(expired'),
               j < k, expired'[j] \in Marked', expired'[k] \in Marked'
        PROVE  expired'[k] \notin earlier[expired'[j]]
    <3> DEFINE M == Len(expired)
    <3>1. /\ M \in Nat /\ Len(expired') = M + 1 /\ expired'[1] = h
          /\ \A i \in 1..M : expired'[i + 1] = expired[i]
      BY <1>1, <1>2 DEF DataInv
    <3>2. j \in Nat /\ k \in Nat /\ j # 0 /\ k # 1 /\ k - 1 \in 1..M /\ (k - 1) + 1 = k
          /\ (j # 1 => j - 1 \in 1..M /\ (j - 1) + 1 = j /\ j - 1 < k - 1)
      BY <3>1, <2>3
    <3>3. expired'[k] = expired[k - 1] /\ (j # 1 => expired'[j] = expired[j - 1])
      BY <3>1, <3>2
    <3>4. expired[k - 1] \in Marked
      BY <1>8, <3>2
    <3>5. CASE j = 1
      <4>1. ASSUME expired[k - 1] \in earlier[h] PROVE FALSE
        <5>1. Contains(q, expired[k - 1])
          BY <1>1, <1>3, <4>1 DEF EarlierInv
        <5>2. expired[k - 1] \in Timers
          BY <3>4 DEF Marked
        <5> QED
          BY <3>4, <5>1, <5>2, QueuedIs
      <4> QED
        BY <3>1, <3>3, <3>5, <4>1
    <3>6. CASE j # 1
      <4>1. expired[j - 1] \in Marked
        BY <1>8, <3>2, <3>6
      <4> QED
        BY <1>1, <3>2, <3>3, <3>4, <3>6, <4>1 DEF EarlierInv
    <3> QED
      BY <3>5, <3>6
  <2> QED
    BY <1>2, <2>1, <2>2, <2>3 DEF EarlierInv
<1> QED
  BY <1>7, <1>13, <1>14, <1>15, <1>16 DEF TimeoutInv


LEMMA CollectDoneStep ==
  ASSUME TimeoutInv, CollectDone
  PROVE  TimeoutInv'
<1>0. MaxTicks \in Nat /\ None \notin Timers
  BY TimeoutAssumption
<1>1. DataInv /\ Exact(q, delta, Due) /\ StateInv /\ WalkInv /\ EarlierInv
  BY DEF TimeoutInv
<1>2. /\ phase = "collect" /\ (q # << >> => delta[Head(q)] # 0) /\ phase' = "handle"
      /\ cur' = (IF expired = << >> THEN None ELSE Head(expired))
      /\ nxt' = (IF Len(expired) < 2 THEN None ELSE expired[2])
      /\ fired' = None /\ UNCHANGED <<q, delta, expired, damage, rem, earlier>>
  BY DEF CollectDone, qVars
<1>3. Due' = Due /\ Marked' = Marked
  BY <1>2 DEF Due, Marked
<1>4. DataInv' /\ Exact(q, delta, Due)'
  BY <1>1, <1>2, <1>3 DEF DataInv
<1>5. \A t \in Timers : Contains(q, t) => rem[t] # 0
  <2> SUFFICES ASSUME NEW t \in Timers, Contains(q, t) PROVE rem[t] # 0
    OBVIOUS
  <2>1. q # << >>
    BY DEF Contains
  <2>2. rem[q[1]] # 0 /\ rem[q[1]] \in 0..MaxTicks /\ rem[q[1]] <= rem[t] /\ rem[t] \in 0..MaxTicks
    BY <1>2, <2>1, HeadIs
  <2> QED
    BY <1>0, <2>2
<1>6. StateInv'
  BY <1>1, <1>2, <1>3, <1>5 DEF StateInv
<1>7. EarlierInv'
  BY <1>1, <1>2, <1>3 DEF EarlierInv
<1>8. WalkInv'
  <2> DEFINE M == Len(expired)
  <2>1. M \in Nat /\ \A k \in 1..M : expired[k] \in Timers
    BY <1>1 DEF DataInv
  <2>2. Marked = {expired[k] : k \in 1..M}
    BY <1>1, <1>2 DEF WalkInv
  <2>3. CASE expired = << >>
    <3>1. M = 0 /\ cur' = None /\ nxt' = None
      BY <1>2, <2>3
    <3>2. WalkAt(0)'
      <4>1. Marked = {} /\ {expired[k] : k \in (0 + 1)..M} = {}
        BY <2>2, <3>1
      <4> QED
        BY <1>2, <1>3, <3>1, <4>1 DEF WalkAt
    <3> QED
      BY <1>2, <2>1, <3>2 DEF WalkInv
  <2>4. CASE expired # << >>
    <3>1. M # 0 /\ 1 \in 1..M /\ 1 \in 0..M /\ cur' = expired[1] /\ cur' \in Timers /\ cur' # None
      BY <1>0, <1>1, <1>2, <2>1, <2>4 DEF DataInv
    <3>2. nxt' = IF 1 < M THEN expired[1 + 1] ELSE None
      BY <1>2, <2>1, <3>1
    <3>3. Marked = {expired[k] : k \in (1 + 1)..M} \cup ({cur'} \ {None})
      <4>1. \A k : k \in 1..M <=> (k \in (1 + 1)..M \/ k = 1)
        BY <2>1, <3>1
      <4>2. {cur'} \ {None} = {expired[1]}
        BY <3>1
      <4> HIDE DEF M
      <4> QED
        BY <2>2, <3>1, <4>1, <4>2
    <3>4. WalkAt(1)'
      BY <1>2, <1>3, <3>1, <3>2, <3>3 DEF WalkAt
    <3> QED
      BY <1>2, <3>1, <3>4 DEF WalkInv
  <2> QED
    BY <2>3, <2>4
<1> QED
  BY <1>4, <1>6, <1>7, <1>8 DEF TimeoutInv

\* The timeout being handled is marked, due, and the next one of the walk.
LEMMA CurIs ==
  ASSUME TimeoutInv, phase = "handle", cur # None
  PROVE  /\ cur \in Marked /\ cur \in Timers /\ rem[cur] = 0 /\ ~Contains(q, cur) /\ earlier[cur] = {}
         /\ \E p \in 1..Len(expired) : WalkAt(p) /\ cur = expired[p]
<1>0. MaxTicks \in Nat /\ None \notin Timers /\ 0 # None
  BY TimeoutAssumption
<1>1. DataInv /\ StateInv /\ WalkInv /\ EarlierInv
  BY DEF TimeoutInv
<1>2. PICK p \in 0..Len(expired) : WalkAt(p)
  BY <1>1 DEF WalkInv
<1>3. p \in 1..Len(expired) /\ cur = expired[p] /\ cur \in Marked
  <2>1. p # 0 /\ cur = expired[p] /\ cur \in Marked
    BY <1>2 DEF WalkAt
  <2> QED
    BY <1>2, <2>1
<1>4. cur \in Timers /\ rem[cur] = 0 /\ ~Contains(q, cur)
  BY <1>1, <1>3, QueuedIs DEF StateInv, Marked
<1>5. ASSUME NEW u \in earlier[cur] PROVE FALSE
  <2>1. u \in Timers /\ u # cur /\ rem[u] = 0
    BY <1>1, <1>4 DEF EarlierInv, DataInv
  <2>2. ~Contains(q, u)
    BY <1>1, <2>1 DEF StateInv
  <2>3. u \in Marked
    BY <1>0, <2>1, <2>2, ArmedQueued
  <2>4. PICK k \in (p + 1)..Len(expired) : u = expired[k]
    BY <1>2, <2>1, <2>3 DEF WalkAt
  <2>5. k \in 1..Len(expired) /\ p < k
    BY <1>2, <2>4
  <2> QED
    BY <1>1, <1>3, <1>5, <2>3, <2>4, <2>5 DEF EarlierInv
<1> QED
  BY <1>2, <1>3, <1>4, <1>5

LEMMA HandleStep ==
  ASSUME TimeoutInv, Handle
  PROVE  TimeoutInv'
<1>0. MaxTicks \in Nat /\ None \notin Int /\ 0 # None
  BY TimeoutAssumption
<1>1. DataInv /\ Exact(q, delta, Due) /\ StateInv /\ WalkInv /\ EarlierInv
  BY DEF TimeoutInv
<1>2. /\ phase = "handle" /\ cur # None /\ delta' = [delta EXCEPT ![cur] = INACTIVE]
      /\ fired' = cur /\ rem' = [rem EXCEPT ![cur] = None]
      /\ earlier' = [u \in Timers |-> IF u = cur THEN {} ELSE earlier[u] \ {cur}]
      /\ cur' = None /\ UNCHANGED <<q, expired, damage, phase, nxt>>
  BY DEF Handle, Disarmed
<1>3. /\ cur \in Marked /\ cur \in Timers /\ rem[cur] = 0 /\ ~Contains(q, cur)
      /\ \E p \in 1..Len(expired) : WalkAt(p) /\ cur = expired[p]
  BY <1>2, CurIs
<1>4. /\ delta'[cur] = INACTIVE /\ \A u \in Timers : u # cur => delta'[u] = delta[u]
      /\ rem'[cur] = None /\ \A u \in Timers : u # cur => rem'[u] = rem[u]
      /\ earlier'[cur] = {} /\ \A u \in Timers : u # cur => earlier'[u] = earlier[u] \ {cur}
  BY <1>1, <1>2, <1>3 DEF DataInv
<1>5. Due' = Due
  <2>1. \A u \in Timers : (IF rem'[u] = None THEN 0 ELSE rem'[u]) = (IF rem[u] = None THEN 0 ELSE rem[u])
    BY <1>0, <1>3, <1>4
  <2> QED
    BY <2>1 DEF Due
<1>6. \A k \in 1..Len(q) : q[k] # cur /\ q[k] \in Timers
  BY <1>1, <1>3 DEF Contains, DataInv
<1>7. Exact(q, delta, Due)'
  BY <1>1, <1>2, <1>4, <1>5, <1>6 DEF Exact
<1>8. DataInv'
  <2>1. INACTIVE \in EXPIRED..MaxTicks
    BY <1>0 DEF INACTIVE, EXPIRED
  <2> QED
    BY <1>1, <1>2, <1>3, <2>1 DEF DataInv
<1>9. Marked' = Marked \ {cur}
  <2>1. INACTIVE # EXPIRED
    BY DEF INACTIVE, EXPIRED
  <2> QED
    BY <1>3, <1>4, <2>1 DEF Marked
<1>10. StateInv'
  <2>1. ASSUME NEW t \in Timers
        PROVE  (Contains(q, t) <=> delta'[t] >= 0) /\ (rem'[t] = None <=> delta'[t] = INACTIVE)
    <3>1. (Contains(q, t) <=> delta[t] >= 0) /\ (rem[t] = None <=> delta[t] = INACTIVE)
      BY <1>1 DEF StateInv
    <3>2. CASE t = cur
      <4>1. ~(INACTIVE >= 0)
        BY DEF INACTIVE
      <4> QED
        BY <1>3, <1>4, <3>2, <4>1
    <3>3. CASE t # cur
      BY <1>4, <3>1, <3>3
    <3> QED
      BY <3>2, <3>3
  <2>2. \A t \in Marked' : rem'[t] = 0
    BY <1>1, <1>4, <1>9 DEF StateInv, Marked
  <2>3. \A t \in Timers : Contains(q, t) => rem'[t] # 0
    BY <1>1, <1>2, <1>3, <1>4 DEF StateInv
  <2> QED
    BY <1>2, <2>1, <2>2, <2>3 DEF StateInv
<1>11. WalkInv'
  <2>1. PICK p \in 1..Len(expired) : WalkAt(p) /\ cur = expired[p]
    BY <1>3
  <2>2. p \in 0..Len(expired) /\ \A k \in (p + 1)..Len(expired) : k \in 1..Len(expired) /\ k # p
    BY <2>1
  <2>3. \A k \in (p + 1)..Len(expired) : expired[k] # cur
    BY <1>1, <2>1, <2>2 DEF DataInv, IsInjective
  <2>4. Marked' = {expired[k] : k \in (p + 1)..Len(expired)} \cup ({None} \ {None})
    <3>1. Marked = {expired[k] : k \in (p + 1)..Len(expired)} \cup ({cur} \ {None})
      BY <2>1 DEF WalkAt
    <3> QED
      BY <1>2, <1>9, <2>3, <3>1
  <2>5. nxt = IF p < Len(expired) THEN expired[p + 1] ELSE None
    BY <2>1 DEF WalkAt
  <2>6. WalkAt(p)'
    BY <1>2, <2>4, <2>5 DEF WalkAt
  <2> QED
    BY <1>2, <2>2, <2>6 DEF WalkInv
<1>12. EarlierInv'
  <2>1. ASSUME NEW t \in Timers, NEW u \in earlier'[t]
        PROVE  u # t /\ rem'[t] # None /\ rem'[u] = rem'[t] /\ (Contains(q, t) => Contains(q, u))
    <3>1. t # cur /\ u \in earlier[t] /\ u # cur /\ u \in Timers
      BY <1>1, <1>4, <2>1 DEF DataInv
    <3> QED
      BY <1>1, <1>4, <3>1 DEF EarlierInv
  <2>2. \A t \in Timers : earlier'[t] \subseteq earlier[t]
    BY <1>4
  <2>3. \A j, k \in 1..Len(q) : j < k => q[j] \notin earlier'[q[k]]
    BY <1>1, <1>6, <2>2 DEF EarlierInv
  <2>4. \A j, k \in 1..Len(expired) :
           j < k /\ expired[j] \in Marked' /\ expired[k] \in Marked'
             => expired[k] \notin earlier'[expired[j]]
    BY <1>1, <1>9, <2>2 DEF EarlierInv, Marked
  <2> QED
    BY <1>2, <2>1, <2>3, <2>4 DEF EarlierInv
<1> QED
  BY <1>7, <1>8, <1>10, <1>11, <1>12 DEF TimeoutInv

LEMMA AdvanceStep ==
  ASSUME TimeoutInv, Advance
  PROVE  TimeoutInv'
<1>0. MaxTicks \in Nat /\ None \notin Timers
  BY TimeoutAssumption
<1>1. DataInv /\ Exact(q, delta, Due) /\ StateInv /\ WalkInv /\ EarlierInv
  BY DEF TimeoutInv
<1>2. /\ phase = "handle" /\ cur = None /\ nxt # None /\ cur' = nxt /\ nxt' = After(nxt)
      /\ fired' = None /\ UNCHANGED <<q, delta, expired, damage, phase, rem, earlier>>
  BY DEF Advance, qVars
<1>3. Due' = Due /\ Marked' = Marked
  BY <1>2 DEF Due, Marked
<1>4. DataInv' /\ Exact(q, delta, Due)' /\ StateInv' /\ EarlierInv'
  <2>1. DataInv' /\ Exact(q, delta, Due)'
    BY <1>1, <1>2, <1>3 DEF DataInv
  <2>2. StateInv'
    BY <1>1, <1>2, <1>3 DEF StateInv
  <2>3. EarlierInv'
    BY <1>1, <1>2, <1>3 DEF EarlierInv
  <2> QED
    BY <2>1, <2>2, <2>3
<1>5. WalkInv'
  <2> DEFINE M == Len(expired)
  <2>1. PICK p \in 0..M : WalkAt(p)
    BY <1>1, <1>2 DEF WalkInv
  <2>2. M \in Nat /\ \A k \in 1..M : expired[k] \in Timers
    BY <1>1 DEF DataInv
  <2>3. p < M /\ nxt = expired[p + 1] /\ Marked = {expired[k] : k \in (p + 1)..M} \cup ({cur} \ {None})
    BY <1>2, <2>1 DEF WalkAt
  <2>4. /\ p + 1 \in 1..M /\ p + 1 \in 0..M /\ p + 1 # 0
        /\ \A k : k \in (p + 1)..M <=> (k \in ((p + 1) + 1)..M \/ k = p + 1)
    BY <2>1, <2>2, <2>3
  <2>5. Marked = {expired[k] : k \in ((p + 1) + 1)..M} \cup ({nxt} \ {None})
    <3>1. {nxt} \ {None} = {expired[p + 1]}
      BY <1>2, <2>3
    <3>2. Marked = {expired[k] : k \in (p + 1)..M}
      BY <1>2, <2>3
    <3> HIDE DEF M
    <3> QED
      BY <2>4, <3>1, <3>2
  <2>6. After(nxt) = IF p + 1 < M THEN expired[(p + 1) + 1] ELSE None
    <3> DEFINE later == {i \in DOMAIN expired : i > 1 /\ expired[i - 1] = nxt}
    <3>1. \A i \in later : i = (p + 1) + 1 /\ p + 1 < M
      <4> TAKE i \in later
      <4>1. DOMAIN expired = 1..M /\ i \in 1..M /\ i > 1 /\ expired[i - 1] = nxt
        BY <1>1 DEF DataInv
      <4>2. i - 1 \in 1..M
        BY <2>2, <4>1
      <4>3. i - 1 = p + 1
        BY <1>1, <2>3, <2>4, <4>1, <4>2 DEF DataInv, IsInjective
      <4> HIDE DEF M, later
      <4> QED
        BY <2>1, <2>2, <4>1, <4>3
    <3>2. p + 1 < M => (p + 1) + 1 \in later
      <4>1. ASSUME p + 1 < M PROVE (p + 1) + 1 \in 1..M /\ (p + 1) + 1 > 1 /\ ((p + 1) + 1) - 1 = p + 1
        <5> HIDE DEF M
        <5> QED
          BY <2>1, <2>2, <4>1
      <4> QED
        BY <1>1, <2>3, <4>1 DEF DataInv
    <3>3. After(nxt) = IF later = {} THEN None ELSE expired[CHOOSE i \in later : TRUE]
      BY DEF After
    <3> HIDE DEF later, M
    <3>4. CASE p + 1 < M
      <4>1. (CHOOSE i \in later : TRUE) \in later
        BY <3>2, <3>4
      <4> QED
        BY <3>1, <3>2, <3>3, <3>4, <4>1
    <3>5. CASE ~(p + 1 < M)
      BY <3>1, <3>3, <3>5
    <3> QED
      BY <3>4, <3>5
  <2>7. WalkAt(p + 1)'
    BY <1>2, <1>3, <2>3, <2>4, <2>5, <2>6 DEF WalkAt
  <2> QED
    BY <1>2, <2>4, <2>7 DEF WalkInv
<1> QED
  BY <1>4, <1>5 DEF TimeoutInv

LEMMA HandleDoneStep ==
  ASSUME TimeoutInv, HandleDone
  PROVE  TimeoutInv'
<1>0. None \notin Timers
  BY TimeoutAssumption
<1>1. DataInv /\ Exact(q, delta, Due) /\ StateInv /\ WalkInv /\ EarlierInv
  BY DEF TimeoutInv
<1>2. /\ phase = "handle" /\ cur = None /\ nxt = None /\ phase' = "idle" /\ expired' = << >>
      /\ fired' = None /\ UNCHANGED <<q, delta, damage, cur, nxt, rem, earlier>>
  BY DEF HandleDone
<1>3. Due' = Due /\ Marked' = Marked
  BY <1>2 DEF Due, Marked
<1>4. Marked = {}
  <2> DEFINE M == Len(expired)
  <2>1. PICK p \in 0..M : WalkAt(p)
    BY <1>1, <1>2 DEF WalkInv
  <2>2. M \in Nat /\ \A k \in 1..M : expired[k] \in Timers
    BY <1>1 DEF DataInv
  <2>3. /\ nxt = (IF p < M THEN expired[p + 1] ELSE None)
        /\ Marked = {expired[k] : k \in (p + 1)..M} \cup ({cur} \ {None})
    BY <2>1 DEF WalkAt
  <2>4. ~(p < M)
    <3>1. p < M => p + 1 \in 1..M
      BY <2>1, <2>2
    <3> QED
      BY <1>0, <1>2, <2>2, <2>3, <3>1
  <2>5. (p + 1)..M = {}
    BY <2>1, <2>2, <2>4
  <2> QED
    BY <1>2, <2>3, <2>5
<1>5. DataInv' /\ Exact(q, delta, Due)'
  <2>1. << >> \in Seq(Timers) /\ IsInjective(<< >>)
    BY DEF IsInjective
  <2> QED
    BY <1>1, <1>2, <1>3, <2>1 DEF DataInv
<1>6. StateInv'
  BY <1>1, <1>2, <1>3 DEF StateInv
<1>7. WalkInv'
  BY <1>2, <1>3, <1>4 DEF WalkInv
<1>8. EarlierInv'
  BY <1>1, <1>2, <1>3 DEF EarlierInv
<1> QED
  BY <1>5, <1>6, <1>7, <1>8 DEF TimeoutInv


-----------------------------------------------------------------------------
(* The timers *)

\* The fields of the timers, and where their expiry handler is.
TimerFields ==
  /\ period \in [KTimers -> 0..MaxTicks]
  /\ status \in [KTimers -> 0..(StatusRange - 1)]
  /\ handler \in KTimers \cup {None}
  /\ step \in {"none", "rearm", "call"}
  /\ step = "none" <=> handler = None
  /\ step # "none" => phase = "handle" /\ cur = None

\* The ticks since the last expiry and the ticks left make up the period.
PeriodInv ==
  /\ since \in [KTimers -> (0..MaxTicks) \cup {None}]
  /\ \A k \in KTimers :
       since[k] # None => \/ handler = k /\ step = "rearm"
                          \/ rem[k] # None /\ since[k] + rem[k] = period[k]

\* The wait queues hold the threads that pend.
WaitInv ==
  /\ waitq \in [KTimers -> Seq(Threads)]
  /\ tpc \in [Threads -> {"run", "pend", "woken", "stop"}]
  /\ on \in [Threads -> KTimers \cup {None}]
  /\ \A w \in Threads : tpc[w] # "run" => on[w] \in KTimers
  /\ \A k \in KTimers :
       /\ IsInjective(waitq[k])
       /\ \A w \in Threads : Contains(waitq[k], w) <=> (tpc[w] = "pend" /\ on[w] = k)

\* k is about to release a waiter, or still runs and has not expired unread.
Serves(k) ==
  \/ handler = k
  \/ \E v \in Threads : tpc[v] = "stop" /\ on[v] = k
  \/ rem[k] # None /\ status[k] = 0

ServedInv ==
  \A k \in KTimers : \A w \in Threads :
    Contains(waitq[k], w) /\ w \notin overlooked => Serves(k)

TimerInv == TimeoutInv /\ TimerFields /\ PeriodInv /\ WaitInv /\ ServedInv

\* The turns of handle_timeouts() that leave the timers alone.
ClockTurn ==
  /\ \/ Collect
     \/ CollectDone
     \/ cur \notin KTimers /\ Handle
     \/ handler = None /\ (Advance \/ HandleDone)
  /\ UNCHANGED timerVars

LEMMA TimerCases ==
  ASSUME [TimerNext]_allVars
  PROVE  \/ OtherTimeouts
         \/ \E k \in KTimers, n, p \in 0..MaxDuration : Start(k, n, p)
         \/ \E k \in KTimers : StopNow(k)
         \/ \E k \in KTimers : StatusGet(k)
         \/ \E k \in KTimers, w \in Threads : StopStart(w, k)
         \/ \E k \in KTimers, w \in Threads : SyncStart(w, k)
         \/ \E w \in Threads : StopEnd(w)
         \/ \E w \in Threads : SyncReturn(w)
         \/ TimerAnnounce
         \/ ClockTurn
         \/ HandleTimer
         \/ Rearm
         \/ ExpiryReturns
         \/ UNCHANGED allVars
BY Zenon DEF TimerNext, TimerClockStep, ClockTurn

LEMMA TimeoutStutter ==
  ASSUME TimeoutInv, UNCHANGED vars
  PROVE  TimeoutInv'
<1>0. UNCHANGED <<q, delta, expired, damage, phase, cur, nxt, rem, earlier, fired>>
  BY DEF vars, qVars, iterVars
<1>1. Due' = Due /\ Marked' = Marked
  BY <1>0 DEF Due, Marked
<1>2. DataInv' /\ Exact(q, delta, Due)'
  BY <1>0, <1>1 DEF TimeoutInv, DataInv
<1>3. StateInv'
  BY <1>0, <1>1 DEF TimeoutInv, StateInv
<1>4. WalkInv'
  BY <1>0, <1>1 DEF TimeoutInv, WalkInv, WalkAt
<1>5. EarlierInv'
  BY <1>0, <1>1 DEF TimeoutInv, EarlierInv
<1> QED
  BY <1>2, <1>3, <1>4, <1>5 DEF TimeoutInv

\* k_timer_start() of a timer, queued or not
LEMMA StartStep ==
  ASSUME TimeoutInv, NEW k \in KTimers, NEW n \in 0..MaxDuration, NEW p \in 0..MaxDuration, Start(k, n, p)
  PROVE  TimeoutInv'
<1>1. k \in Timers /\ MaxTicks \in Nat /\ MaxDuration \in 1..MaxTicks
  BY TimeoutAssumption, TimerAssumption
<1> DEFINE l == IF delta[k] = INACTIVE THEN List ELSE Unlinked(List, k)
           first == IF n > 0 THEN n ELSE p
<1>2. /\ delta[k] # EXPIRED /\ (n > 0 \/ p > 0)
      /\ q' = Inserted(l, k, first).q /\ delta' = Inserted(l, k, first).delta
      /\ Armed(k, first) /\ fired' = None /\ UNCHANGED <<expired, damage, phase, cur, nxt>>
  BY DEF Start, iterVars
<1>3. first \in 1..MaxTicks
  BY <1>1, <1>2
<1>4. Without(l, k)
  <2>1. CASE delta[k] = INACTIVE
    BY <1>1, <2>1, WithoutInactive
  <2>2. CASE delta[k] # INACTIVE
    <3>1. rem[k] # None /\ k \notin Marked
      BY <1>1, <1>2, <2>2 DEF TimeoutInv, StateInv, Marked
    <3>2. Contains(q, k)
      BY <1>1, <3>1, ArmedQueued
    <3> QED
      BY <1>1, <2>2, <3>2, WithoutUnlinked
  <2> QED
    BY <2>1, <2>2
<1> HIDE DEF l, first
<1> QED
  BY <1>1, <1>2, <1>3, <1>4, ArmStep, Zenon

LEMMA TimeoutInvStep ==
  ASSUME TimeoutInv, TimerFields, ~StopsExpired, [TimerNext]_allVars
  PROVE  TimeoutInv'
<1>0. KTimers \subseteq Timers /\ MaxTicks \in Nat /\ None \notin Timers
  BY TimeoutAssumption, TimerAssumption
<1>1. ASSUME OtherTimeouts PROVE TimeoutInv'
  <2>1. PICK t \in Timers \ KTimers : Stop(t) \/ \E n \in 0..MaxTicks : Add(t, n)
    BY <1>1 DEF OtherTimeouts
  <2> QED
    BY <2>1, StopStep, AddStep
<1>2. ASSUME NEW k \in KTimers, NEW n \in 0..MaxDuration, NEW p \in 0..MaxDuration, Start(k, n, p)
      PROVE  TimeoutInv'
  BY <1>2, StartStep
<1>3. ASSUME NEW k \in KTimers, Stop(k) PROVE TimeoutInv'
  BY <1>0, <1>3, StopStep
<1>4. ASSUME TimerAnnounce PROVE TimeoutInv'
  BY <1>4, AnnounceStep DEF TimerAnnounce
<1>5. ASSUME ClockTurn PROVE TimeoutInv'
  BY <1>5, CollectStep, CollectDoneStep, HandleStep, AdvanceStep, HandleDoneStep DEF ClockTurn
<1>6. ASSUME HandleTimer PROVE TimeoutInv'
  BY <1>6, HandleStep DEF HandleTimer
<1>7. ASSUME Rearm PROVE TimeoutInv'
  <2>1. handler \in KTimers /\ handler \in Timers /\ period[handler] \in 0..MaxTicks
    BY <1>0, <1>7 DEF Rearm, TimerFields
  <2>2. Add(handler, period[handler]) \/ UNCHANGED vars
    BY <1>7 DEF Rearm, NextPeriod
  <2> QED
    BY <2>1, <2>2, AddStep, TimeoutStutter
<1>8. ASSUME UNCHANGED vars PROVE TimeoutInv'
  BY <1>8, TimeoutStutter
<1>9. ASSUME NEW k \in KTimers, StopNow(k) PROVE Stop(k)
  BY <1>9 DEF StopNow
<1>10. ASSUME NEW k \in KTimers, NEW w \in Threads, StopStart(w, k) PROVE Stop(k)
  BY <1>10 DEF StopStart
<1>11. ASSUME \/ \E k \in KTimers : StatusGet(k)
              \/ \E k \in KTimers, w \in Threads : SyncStart(w, k)
              \/ \E w \in Threads : StopEnd(w)
              \/ \E w \in Threads : SyncReturn(w)
              \/ ExpiryReturns
              \/ UNCHANGED allVars
       PROVE  UNCHANGED vars
  BY <1>11 DEF StatusGet, SyncStart, StopEnd, SyncReturn, ExpiryReturns, allVars
<1> QED
  BY <1>1, <1>2, <1>3, <1>4, <1>5, <1>6, <1>7, <1>8, <1>9, <1>10, <1>11, TimerCases, Zenon


LEMMA TimerFieldsStep ==
  ASSUME TimerFields, [TimerNext]_allVars
  PROVE  TimerFields'
<1>0. KTimers \subseteq Timers /\ None \notin Timers /\ StatusRange \in Nat \ {0, 1}
      /\ MaxTicks \in Nat /\ MaxDuration \in 1..MaxTicks
  BY TimeoutAssumption, TimerAssumption
<1>1. /\ 0 \in 0..(StatusRange - 1) /\ 1 \in 0..(StatusRange - 1)
      /\ \A p \in 0..MaxDuration : p \in 0..MaxTicks
      /\ \A s \in 0..(StatusRange - 1) : (s + 1) % StatusRange \in 0..(StatusRange - 1)
  BY <1>0
<1>2. ASSUME OtherTimeouts PROVE TimerFields'
  <2>1. UNCHANGED <<phase, cur>>
    BY <1>2 DEF OtherTimeouts, Stop, Add, iterVars
  <2>2. UNCHANGED <<period, status, handler, step>>
    BY <1>2 DEF OtherTimeouts, timerVars, fieldVars, handlerVars
  <2> QED
    BY <2>1, <2>2 DEF TimerFields
<1>3. ASSUME NEW k \in KTimers, NEW n \in 0..MaxDuration, NEW p \in 0..MaxDuration, Start(k, n, p)
      PROVE  TimerFields'
  <2>1. /\ period' = [period EXCEPT ![k] = p]
        /\ status' = [status EXCEPT ![k] = IF n > 0 THEN 0 ELSE 1]
        /\ UNCHANGED <<phase, cur, handler, step>>
    BY <1>3 DEF Start, iterVars, handlerVars
  <2>2. period' \in [KTimers -> 0..MaxTicks] /\ status' \in [KTimers -> 0..(StatusRange - 1)]
    BY <1>1, <2>1 DEF TimerFields
  <2> QED
    BY <2>1, <2>2 DEF TimerFields
<1>4. ASSUME NEW k \in KTimers, Stop(k), UNCHANGED <<fieldVars, handlerVars>>
      PROVE  TimerFields'
  <2>1. UNCHANGED <<phase, cur, period, status, handler, step>>
    BY <1>4 DEF Stop, iterVars, fieldVars, handlerVars
  <2> QED
    BY <2>1 DEF TimerFields
<1>5. ASSUME TimerAnnounce PROVE TimerFields'
  <2>1. phase = "idle" /\ UNCHANGED <<period, status, handler, step>>
    BY <1>5 DEF TimerAnnounce, Announce, fieldVars, handlerVars
  <2> QED
    BY <2>1 DEF TimerFields
<1>6. ASSUME ClockTurn PROVE TimerFields'
  <2>1. UNCHANGED <<period, status, handler, step>>
    BY <1>6 DEF ClockTurn, timerVars, fieldVars, handlerVars
  <2>2. step = "none"
    BY <1>6 DEF ClockTurn, Collect, CollectDone, Handle, TimerFields
  <2> QED
    BY <2>1, <2>2 DEF TimerFields
<1>7. ASSUME HandleTimer PROVE TimerFields'
  <2>1. /\ UNCHANGED <<period, status>> /\ cur \in KTimers /\ handler' = cur /\ step' = "rearm"
        /\ phase' = "handle" /\ cur' = None
    BY <1>7 DEF HandleTimer, Handle, fieldVars
  <2> QED
    BY <1>0, <2>1 DEF TimerFields
<1>8. ASSUME Rearm PROVE TimerFields'
  <2>1. UNCHANGED <<phase, cur>>
    BY <1>8 DEF Rearm, Add, vars, iterVars
  <2>2. /\ step = "rearm" /\ step' = "call" /\ UNCHANGED <<period, handler>>
        /\ status' = [status EXCEPT ![handler] = (@ + 1) % StatusRange]
    BY <1>8 DEF Rearm
  <2>3. handler \in KTimers /\ status \in [KTimers -> 0..(StatusRange - 1)]
    BY <2>2 DEF TimerFields
  <2>4. status' \in [KTimers -> 0..(StatusRange - 1)]
    BY <1>1, <2>2, <2>3
  <2> QED
    BY <2>1, <2>2, <2>4 DEF TimerFields
<1>9. ASSUME UNCHANGED vars, UNCHANGED <<period, handlerVars>>, status' \in [KTimers -> 0..(StatusRange - 1)]
      PROVE  TimerFields'
  <2>1. UNCHANGED <<phase, cur, period, handler, step>>
    BY <1>9 DEF vars, iterVars, handlerVars
  <2> QED
    BY <1>9, <2>1 DEF TimerFields
<1>10. ASSUME ExpiryReturns PROVE TimerFields'
  <2>1. UNCHANGED <<period, status>> /\ handler' = None /\ step' = "none"
    BY <1>10 DEF ExpiryReturns, fieldVars
  <2> QED
    BY <2>1 DEF TimerFields
<1>11. ASSUME NEW k \in KTimers, StopNow(k) PROVE Stop(k) /\ UNCHANGED <<fieldVars, handlerVars>>
  BY <1>11 DEF StopNow
<1>12. ASSUME NEW k \in KTimers, NEW w \in Threads, StopStart(w, k)
       PROVE  Stop(k) /\ UNCHANGED <<fieldVars, handlerVars>>
  BY <1>12 DEF StopStart
<1>13. ASSUME \/ \E k \in KTimers : StatusGet(k)
              \/ \E k \in KTimers, w \in Threads : SyncStart(w, k)
              \/ \E w \in Threads : StopEnd(w)
              \/ \E w \in Threads : SyncReturn(w)
              \/ UNCHANGED allVars
       PROVE  UNCHANGED vars /\ UNCHANGED <<period, handlerVars>> /\ status' \in [KTimers -> 0..(StatusRange - 1)]
  <2>1. status \in [KTimers -> 0..(StatusRange - 1)] /\ \A k : [status EXCEPT ![k] = 0] \in [KTimers -> 0..(StatusRange - 1)]
    BY <1>1 DEF TimerFields
  <2>2. UNCHANGED vars /\ UNCHANGED <<period, handlerVars>>
    BY <1>13 DEF StatusGet, SyncStart, StopEnd, SyncReturn, allVars, timerVars, fieldVars
  <2>3. status' = status \/ \E k : status' = [status EXCEPT ![k] = 0]
    BY <1>13, Zenon DEF StatusGet, SyncStart, StopEnd, SyncReturn, allVars, timerVars, fieldVars
  <2> QED
    BY <2>1, <2>2, <2>3
<1> QED
  BY <1>2, <1>3, <1>4, <1>5, <1>6, <1>7, <1>8, <1>9, <1>10, <1>11, <1>12, <1>13, TimerCases, Zenon

\* The timers are left alone.
TimersKept == \A k \in KTimers : rem'[k] = rem[k]

LEMMA OthersKeepTimers ==
  ASSUME TimeoutInv, OtherTimeouts
  PROVE  TimersKept
<1>0. KTimers \subseteq Timers /\ rem \in [Timers -> (0..MaxTicks) \cup {None}]
  BY TimerAssumption DEF TimeoutInv, DataInv
<1>1. PICK t \in Timers \ KTimers : Stop(t) \/ \E n \in 0..MaxTicks : Add(t, n)
  BY DEF OtherTimeouts
<1>2. rem' = rem \/ \E r : rem' = [rem EXCEPT ![t] = r]
  BY <1>1, Zenon DEF Stop, Add, Armed, Disarmed
<1> QED
  BY <1>0, <1>1, <1>2 DEF TimersKept

LEMMA TurnsKeepTimers ==
  ASSUME TimeoutInv, ClockTurn
  PROVE  TimersKept
<1>0. KTimers \subseteq Timers /\ rem \in [Timers -> (0..MaxTicks) \cup {None}]
  BY TimerAssumption DEF TimeoutInv, DataInv
<1>1. rem' = rem \/ (cur \notin KTimers /\ rem' = [rem EXCEPT ![cur] = None])
  BY DEF ClockTurn, Collect, CollectDone, Handle, Disarmed, Advance, HandleDone
<1> QED
  BY <1>0, <1>1 DEF TimersKept

\* A period goes on as long as the timer is left alone.
LEMMA PeriodKept ==
  ASSUME PeriodInv, TimersKept, UNCHANGED <<since, period>>,
         step = "rearm" => UNCHANGED <<handler, step>>
  PROVE  PeriodInv'
BY DEF PeriodInv, TimersKept

LEMMA PeriodInvStep ==
  ASSUME TimeoutInv, TimerFields, PeriodInv, ~StopsExpired, [TimerNext]_allVars
  PROVE  PeriodInv'
<1>0. KTimers \subseteq Timers /\ None \notin Timers /\ None \notin Int
      /\ MaxTicks \in Nat /\ 0 \in 0..MaxTicks /\ 0 # None /\ MaxDuration \in 1..MaxTicks
  BY TimeoutAssumption, TimerAssumption
<1>a. rem \in [Timers -> (0..MaxTicks) \cup {None}] /\ since \in [KTimers -> (0..MaxTicks) \cup {None}]
  BY DEF TimeoutInv, DataInv, PeriodInv
<1>1. ASSUME OtherTimeouts PROVE PeriodInv'
  <2>1. UNCHANGED <<since, period, handler, step>>
    BY <1>1 DEF OtherTimeouts, timerVars, fieldVars, handlerVars
  <2> QED
    BY <1>1, <2>1, OthersKeepTimers, PeriodKept
<1>2. ASSUME NEW k \in KTimers, NEW n \in 0..MaxDuration, NEW p \in 0..MaxDuration, Start(k, n, p)
      PROVE  PeriodInv'
  <2> DEFINE first == IF n > 0 THEN n ELSE p
  <2>1. /\ rem' = [rem EXCEPT ![k] = first]
        /\ period' = [period EXCEPT ![k] = p]
        /\ since' = [since EXCEPT ![k] = IF n > 0 THEN None ELSE 0]
        /\ UNCHANGED <<handler, step>> /\ (phase = "idle" \/ step = "call")
    BY <1>2 DEF Start, Armed, handlerVars, MayCall
  <2>2. step # "rearm"
    BY <2>1 DEF TimerFields
  <2>3. k \in Timers /\ rem'[k] = first /\ \A u \in KTimers : u # k => rem'[u] = rem[u]
    BY <1>0, <1>a, <2>1
  <2>4. period'[k] = p /\ \A u \in KTimers : u # k => period'[u] = period[u]
    BY <2>1 DEF TimerFields
  <2>5. /\ since'[k] = (IF n > 0 THEN None ELSE 0) /\ \A u \in KTimers : u # k => since'[u] = since[u]
        /\ since' \in [KTimers -> (0..MaxTicks) \cup {None}]
    BY <1>0, <1>a, <2>1
  <2>6. n > 0 \/ (first = p /\ 0 + first = p /\ first # None)
    BY <1>0
  <2>7. ASSUME NEW u \in KTimers, since'[u] # None
        PROVE  rem'[u] # None /\ since'[u] + rem'[u] = period'[u]
    <3> HIDE DEF first
    <3>1. CASE u = k
      BY <2>3, <2>4, <2>5, <2>6, <2>7, <3>1
    <3>2. CASE u # k
      BY <2>2, <2>3, <2>4, <2>5, <2>7, <3>2 DEF PeriodInv
    <3> QED
      BY <3>1, <3>2
  <2> QED
    BY <2>5, <2>7 DEF PeriodInv
<1>3. ASSUME NEW k \in KTimers, Stop(k), since' = [since EXCEPT ![k] = None],
             UNCHANGED <<fieldVars, handlerVars>>, phase = "idle" \/ step = "call"
      PROVE  PeriodInv'
  <2>1. rem' = [rem EXCEPT ![k] = None] /\ UNCHANGED <<period, handler, step>>
    BY <1>3 DEF Stop, Disarmed, fieldVars, handlerVars
  <2>2. \A u \in KTimers : u # k => rem'[u] = rem[u]
    BY <1>0, <1>a, <2>1
  <2>3. /\ since'[k] = None /\ \A u \in KTimers : u # k => since'[u] = since[u]
        /\ since' \in [KTimers -> (0..MaxTicks) \cup {None}]
    BY <1>3, <1>a
  <2> QED
    BY <2>1, <2>2, <2>3 DEF PeriodInv
<1>4. ASSUME TimerAnnounce PROVE PeriodInv'
  <2>1. /\ Announce /\ phase = "idle" /\ UNCHANGED <<period, handler, step>>
        /\ since' = [k \in KTimers |-> IF since[k] = None THEN None ELSE since[k] + 1]
    BY <1>4 DEF TimerAnnounce, Announce, fieldVars, handlerVars
  <2>2. step = "none"
    BY <2>1 DEF TimerFields
  <2>3. ASSUME NEW k \in KTimers, since[k] # None
        PROVE  /\ since[k] + 1 \in 0..MaxTicks /\ rem'[k] # None
               /\ (since[k] + 1) + rem'[k] = period[k]
    <3>1. rem[k] # None /\ since[k] + rem[k] = period[k] /\ since[k] \in 0..MaxTicks
      BY <2>2, <2>3 DEF PeriodInv
    <3>2. rem[k] \in 1..MaxTicks /\ rem'[k] = rem[k] - 1
      BY <1>0, <2>1, <3>1, AnnounceRem
    <3>3. period[k] \in 0..MaxTicks
      BY DEF TimerFields
    <3>4. rem'[k] \in Int /\ since[k] + 1 \in 0..MaxTicks /\ (since[k] + 1) + rem'[k] = period[k]
      BY ONLY <1>0, <3>1, <3>2, <3>3
    <3> QED
      BY <1>0, <3>4
  <2>4. since' \in [KTimers -> (0..MaxTicks) \cup {None}]
    BY <2>1, <2>3
  <2>5. \A k \in KTimers : since'[k] # None => rem'[k] # None /\ since'[k] + rem'[k] = period[k]
    BY <2>1, <2>3
  <2> QED
    BY <2>1, <2>4, <2>5 DEF PeriodInv
<1>5. ASSUME ClockTurn PROVE PeriodInv'
  <2>1. UNCHANGED <<since, period, handler, step>>
    BY <1>5 DEF ClockTurn, timerVars, fieldVars, handlerVars
  <2> QED
    BY <1>5, <2>1, TurnsKeepTimers, PeriodKept
<1>6. ASSUME HandleTimer PROVE PeriodInv'
  <2>1. /\ cur \in KTimers /\ phase = "handle" /\ cur # None /\ handler' = cur /\ step' = "rearm"
        /\ rem' = [rem EXCEPT ![cur] = None] /\ UNCHANGED <<period, since>>
    BY <1>6 DEF HandleTimer, Handle, Disarmed, fieldVars
  <2>2. step = "none"
    BY <2>1 DEF TimerFields
  <2>3. \A u \in KTimers : u # cur => rem'[u] = rem[u]
    BY <1>0, <1>a, <2>1
  <2> QED
    BY <2>1, <2>2, <2>3 DEF PeriodInv
<1>7. ASSUME Rearm PROVE PeriodInv'
  <2>1. step = "rearm" /\ step' = "call" /\ UNCHANGED <<period, handler>>
    BY <1>7 DEF Rearm
  <2>2. handler \in KTimers /\ handler \in Timers /\ period[handler] \in 0..MaxTicks
    BY <1>0, <2>1 DEF TimerFields
  <2>3. CASE period[handler] > 0
    <3>1. rem' = [rem EXCEPT ![handler] = period[handler]] /\ since' = [since EXCEPT ![handler] = 0]
      BY <1>7, <2>2, <2>3 DEF Rearm, Add, NextPeriod, Armed
    <3>2. /\ rem'[handler] = period[handler] /\ since'[handler] = 0
          /\ \A u \in KTimers : u # handler => rem'[u] = rem[u] /\ since'[u] = since[u]
          /\ since' \in [KTimers -> (0..MaxTicks) \cup {None}]
      BY <1>0, <1>a, <2>2, <3>1
    <3>3. period[handler] # None /\ 0 + period[handler] = period[handler]
      BY <1>0, <2>2
    <3>4. ASSUME NEW u \in KTimers, since'[u] # None
          PROVE  rem'[u] # None /\ since'[u] + rem'[u] = period[u]
      <4>1. CASE u = handler
        BY <3>2, <3>3, <4>1
      <4>2. CASE u # handler
        BY <3>2, <3>4, <4>2 DEF PeriodInv
      <4> QED
        BY <4>1, <4>2
    <3> QED
      BY <2>1, <3>2, <3>4 DEF PeriodInv
  <2>4. CASE ~(period[handler] > 0)
    <3>1. rem' = rem /\ since' = [since EXCEPT ![handler] = None]
      BY <1>7, <2>4 DEF Rearm, vars
    <3>2. /\ since'[handler] = None /\ \A u \in KTimers : u # handler => since'[u] = since[u]
          /\ since' \in [KTimers -> (0..MaxTicks) \cup {None}]
      BY <1>a, <2>2, <3>1
    <3> QED
      BY <2>1, <3>1, <3>2 DEF PeriodInv
  <2> QED
    BY <2>3, <2>4
<1>8. ASSUME UNCHANGED vars, UNCHANGED <<since, period>>, step = "rearm" => UNCHANGED <<handler, step>>
      PROVE  PeriodInv'
  <2>1. TimersKept
    BY <1>8 DEF vars, TimersKept
  <2> QED
    BY <1>8, <2>1, PeriodKept
<1>9. ASSUME NEW k \in KTimers, StopNow(k)
       PROVE  /\ Stop(k) /\ since' = [since EXCEPT ![k] = None]
              /\ UNCHANGED <<fieldVars, handlerVars>> /\ (phase = "idle" \/ step = "call")
  BY <1>9 DEF StopNow, MayCall
<1>10. ASSUME NEW k \in KTimers, NEW w \in Threads, StopStart(w, k)
       PROVE  /\ Stop(k) /\ since' = [since EXCEPT ![k] = None]
              /\ UNCHANGED <<fieldVars, handlerVars>> /\ (phase = "idle" \/ step = "call")
  BY <1>10 DEF StopStart
<1>11. ASSUME \/ \E k \in KTimers : StopNow(k)
              \/ \E k \in KTimers, w \in Threads : StopStart(w, k)
       PROVE  PeriodInv'
  BY <1>3, <1>9, <1>10, <1>11, Zenon
<1>12. ASSUME \/ \E k \in KTimers : StatusGet(k)
              \/ \E k \in KTimers, w \in Threads : SyncStart(w, k)
              \/ \E w \in Threads : StopEnd(w)
              \/ \E w \in Threads : SyncReturn(w)
              \/ ExpiryReturns
              \/ UNCHANGED allVars
       PROVE  PeriodInv'
  <2>1. UNCHANGED vars /\ UNCHANGED <<since, period>> /\ (step = "rearm" => UNCHANGED <<handler, step>>)
    BY <1>12 DEF StatusGet, SyncStart, StopEnd, SyncReturn, ExpiryReturns, allVars, timerVars, fieldVars,
                 handlerVars
  <2> QED
    BY <1>8, <2>1
<1> QED
  BY <1>1, <1>2, <1>4, <1>5, <1>6, <1>7, <1>11, <1>12, TimerCases, Zenon


-----------------------------------------------------------------------------
(* The threads that wait for a timer *)

ThreadStates == {"run", "pend", "woken", "stop"}

\* The first waiter of k is released and those behind it are overlooked: of k
\* nobody waits on who is not.
LEMMA WakeIs ==
  ASSUME WaitInv, NEW k \in KTimers, NEW th \in [Threads -> ThreadStates],
         \A w \in Threads : (th[w] = "pend" <=> tpc[w] = "pend") /\ (th[w] # "run" => tpc[w] # "run"),
         WakeFirst(k, th),
         on' \in [Threads -> KTimers \cup {None}], \A w \in Threads : th[w] # "run" => on'[w] = on[w]
  PROVE  /\ WaitInv'
         /\ \A v \in Threads : tpc'[v] = "stop" <=> th[v] = "stop"
         /\ \A j \in KTimers : \A w \in Threads :
              Contains(waitq'[j], w) /\ w \notin overlooked'
                => j # k /\ Contains(waitq[j], w) /\ w \notin overlooked
<1>1. CASE waitq[k] = << >>
  <2>1. tpc' = th /\ waitq' = waitq /\ overlooked' = overlooked
    BY <1>1 DEF WakeFirst, Woken
  <2>2. \A w : ~Contains(waitq[k], w)
    BY <1>1 DEF Contains
  <2>3. \A w \in Threads : tpc'[w] # "run" => on'[w] \in KTimers
    BY <2>1 DEF WaitInv
  <2>4. \A j \in KTimers : \A w \in Threads : Contains(waitq[j], w) <=> (th[w] = "pend" /\ on'[w] = j)
    BY DEF WaitInv
  <2>5. WaitInv'
    BY <2>1, <2>3, <2>4 DEF WaitInv, ThreadStates
  <2> QED
    BY <2>1, <2>2, <2>5
<1>2. CASE waitq[k] # << >>
  <2> DEFINE h == Head(waitq[k])
             r == Tail(waitq[k])
  <2>1. /\ tpc' = [th EXCEPT ![h] = "woken"] /\ waitq' = [waitq EXCEPT ![k] = r]
        /\ overlooked' = (overlooked \ {h}) \cup Range(r)
    BY <1>2 DEF WakeFirst, Woken
  <2>2. waitq \in [KTimers -> Seq(Threads)] /\ waitq[k] \in Seq(Threads) /\ IsInjective(waitq[k])
    BY DEF WaitInv
  <2>3. /\ h \in Threads /\ Contains(waitq[k], h) /\ r \in Seq(Threads) /\ IsInjective(r)
        /\ \A w \in Threads : Contains(r, w) <=> (w # h /\ Contains(waitq[k], w))
    BY <1>2, <2>2, TailMembers
  <2>4. \A w \in Threads : Contains(r, w) => w \in Range(r)
    BY <2>3 DEF Contains, Range
  <2> HIDE DEF h, r
  <2>5. tpc[h] = "pend" /\ on[h] = k /\ th[h] = "pend" /\ on'[h] = k
    BY <2>3 DEF WaitInv
  <2>6. waitq'[k] = r /\ \A j \in KTimers : j # k => waitq'[j] = waitq[j]
    BY <2>1, <2>2
  <2>7. tpc'[h] = "woken" /\ \A w \in Threads : w # h => tpc'[w] = th[w]
    BY <2>1, <2>3
  <2>8. ASSUME NEW j \in KTimers, NEW w \in Threads
        PROVE  Contains(waitq'[j], w) <=> (w # h /\ Contains(waitq[j], w))
    <3>1. CASE j = k
      BY <2>3, <2>6, <3>1
    <3>2. CASE j # k
      <4>1. ~Contains(waitq[j], h)
        BY <2>3, <2>5, <3>2 DEF WaitInv
      <4> QED
        BY <2>6, <3>2, <4>1
    <3> QED
      BY <3>1, <3>2
  <2>9. WaitInv'
    <3>1. waitq' \in [KTimers -> Seq(Threads)] /\ tpc' \in [Threads -> ThreadStates]
      BY <2>1, <2>2, <2>3 DEF ThreadStates
    <3>2. \A w \in Threads : tpc'[w] # "run" => on'[w] \in KTimers
      BY <2>5, <2>7 DEF WaitInv
    <3>3. \A j \in KTimers : IsInjective(waitq'[j])
      BY <2>3, <2>6 DEF WaitInv
    <3>4. ASSUME NEW j \in KTimers, NEW w \in Threads
          PROVE  Contains(waitq'[j], w) <=> (tpc'[w] = "pend" /\ on'[w] = j)
      <4>1. Contains(waitq[j], w) <=> (tpc[w] = "pend" /\ on[w] = j)
        BY DEF WaitInv
      <4>2. CASE w = h
        BY <2>7, <2>8, <4>2
      <4>3. CASE w # h
        BY <2>7, <2>8, <4>1, <4>3
      <4> QED
        BY <4>2, <4>3
    <3> QED
      BY <3>1, <3>2, <3>3, <3>4 DEF WaitInv, ThreadStates
  <2>10. ASSUME NEW j \in KTimers, NEW w \in Threads, Contains(waitq'[j], w), w \notin overlooked'
         PROVE  j # k /\ Contains(waitq[j], w) /\ w \notin overlooked
    <3>1. w # h /\ Contains(waitq[j], w)
      BY <2>8, <2>10
    <3>2. w \notin Range(r) /\ w \notin overlooked
      BY <2>1, <2>10, <3>1
    <3>3. j # k
      BY <2>4, <2>6, <2>10, <3>2
    <3> QED
      BY <3>1, <3>2, <3>3
  <2>11. \A v \in Threads : tpc'[v] = "stop" <=> th[v] = "stop"
    BY <2>5, <2>7
  <2> QED
    BY <2>9, <2>10, <2>11
<1> QED
  BY <1>1, <1>2

\* _pend_current_thread()
LEMMA PendedIs ==
  ASSUME WaitInv, NEW k \in KTimers, NEW w \in Threads, tpc[w] = "run"
  PROVE  /\ Pended(w, k) \in Seq(Threads) /\ IsInjective(Pended(w, k))
         /\ \A v \in Threads : Contains(Pended(w, k), v) <=> (v = w \/ Contains(waitq[k], v))
<1> DEFINE s == waitq[k]
           I == {i \in DOMAIN s : Prio[s[i]] <= Prio[w]}
           n == Cardinality(I)
<1>1. s \in Seq(Threads) /\ IsInjective(s) /\ ~Contains(s, w)
  BY DEF WaitInv
<1>2. Len(s) \in Nat /\ DOMAIN s = 1..Len(s)
  BY <1>1
<1>3. n \in Nat /\ n <= Len(s)
  <2>1. IsFiniteSet(1..Len(s)) /\ Cardinality(1..Len(s)) = Len(s)
    <3>1. IsFiniteSet(1..Len(s)) /\ Cardinality(1..Len(s)) = IF 1 > Len(s) THEN 0 ELSE Len(s) - 1 + 1
      BY <1>2, FS_Interval, SMTT(40)
    <3> QED
      BY <1>2, <3>1
  <2>2. I \in SUBSET (1..Len(s))
    BY <1>2
  <2>3. IsFiniteSet(I) /\ n <= Len(s)
    BY <2>1, <2>2, FS_Subset
  <2> QED
    BY <2>3, FS_CardinalityType
<1>4. n + 1 \in 1..(Len(s) + 1) /\ Pended(w, k) = InsertAt(s, n + 1, w)
  BY <1>2, <1>3 DEF Pended
<1> HIDE DEF s, n
<1>5. InsertAt(s, n + 1, w) \in Seq(Threads)
  BY <1>1, <1>4, InsertAtEntries
<1>6. /\ IsInjective(InsertAt(s, n + 1, w))
      /\ \A v \in Threads : Contains(InsertAt(s, n + 1, w), v) <=> (v = w \/ Contains(s, v))
  BY <1>1, <1>4, InsertAtMembers
<1> QED
  BY <1>4, <1>5, <1>6 DEF s

\* A step that moves no thread.
LEMMA WaitersKept ==
  ASSUME WaitInv, UNCHANGED <<waitq, tpc, on>>
  PROVE  WaitInv'
BY DEF WaitInv

\* A step that takes away nothing a waiter of k depends on.
KeepsServing(k) ==
  /\ handler = k => handler' = k
  /\ rem[k] # None => rem'[k] # None
  /\ status[k] = 0 => status'[k] = 0

LEMMA ServedKept ==
  ASSUME ServedInv, UNCHANGED <<waitq, tpc, on, overlooked>>,
         \A k \in KTimers : \/ handler' = k
                            \/ rem'[k] # None /\ status'[k] = 0
                            \/ KeepsServing(k)
  PROVE  ServedInv'
BY DEF ServedInv, Serves, KeepsServing


\* A step that releases the first waiter of k.
LEMMA ServedWake ==
  ASSUME WaitInv, ServedInv, NEW k \in KTimers, NEW th \in [Threads -> ThreadStates],
         \A w \in Threads : (th[w] = "pend" <=> tpc[w] = "pend") /\ (th[w] # "run" => tpc[w] # "run"),
         \A w \in Threads : tpc[w] = "stop" /\ th[w] # "stop" => on[w] = k,
         WakeFirst(k, th),
         on' \in [Threads -> KTimers \cup {None}], \A w \in Threads : th[w] # "run" => on'[w] = on[w],
         \A j \in KTimers : j # k => KeepsServing(j)
  PROVE  WaitInv' /\ ServedInv'
<1>1. /\ WaitInv'
      /\ \A v \in Threads : tpc'[v] = "stop" <=> th[v] = "stop"
      /\ \A j \in KTimers : \A w \in Threads :
           Contains(waitq'[j], w) /\ w \notin overlooked'
             => j # k /\ Contains(waitq[j], w) /\ w \notin overlooked
  BY WakeIs
<1>2. ASSUME NEW j \in KTimers, NEW w \in Threads, Contains(waitq'[j], w), w \notin overlooked'
      PROVE  Serves(j)'
  <2>1. j # k /\ Serves(j) /\ KeepsServing(j)
    BY <1>1, <1>2 DEF ServedInv
  <2>2. CASE handler = j
    BY <2>1, <2>2 DEF Serves, KeepsServing
  <2>3. CASE \E v \in Threads : tpc[v] = "stop" /\ on[v] = j
    <3>1. PICK v \in Threads : tpc[v] = "stop" /\ on[v] = j
      BY <2>3
    <3>2. th[v] = "stop"
      BY <2>1, <3>1
    <3>3. tpc'[v] = "stop" /\ on'[v] = j
      BY <1>1, <3>1, <3>2
    <3> QED
      BY <3>3 DEF Serves
  <2>4. CASE rem[j] # None /\ status[j] = 0
    BY <2>1, <2>4 DEF Serves, KeepsServing
  <2> QED
    BY <2>1, <2>2, <2>3, <2>4 DEF Serves
<1> QED
  BY <1>1, <1>2 DEF ServedInv

\* A step of a thread that does not pend, and does not serve anybody, to a
\* state in which it does not pend.
LEMMA ServedThread ==
  ASSUME WaitInv, ServedInv, NEW w \in Threads, tpc[w] \notin {"pend", "stop"},
         NEW s \in ThreadStates \ {"pend"}, NEW k \in KTimers \cup {None}, s # "run" => k \in KTimers,
         tpc' = [tpc EXCEPT ![w] = s], on' = [on EXCEPT ![w] = k], UNCHANGED <<waitq, overlooked>>,
         \A j \in KTimers : KeepsServing(j) \/ (s = "stop" /\ k = j)
  PROVE  WaitInv' /\ ServedInv'
<1>1. /\ tpc'[w] = s /\ on'[w] = k
      /\ \A v \in Threads : v # w => tpc'[v] = tpc[v] /\ on'[v] = on[v]
      /\ tpc' \in [Threads -> ThreadStates] /\ on' \in [Threads -> KTimers \cup {None}]
  BY DEF WaitInv, ThreadStates
<1>2. WaitInv'
  <2>1. \A v \in Threads : tpc'[v] # "run" => on'[v] \in KTimers
    BY <1>1 DEF WaitInv
  <2>2. \A j \in KTimers : \A v \in Threads : Contains(waitq[j], v) <=> (tpc'[v] = "pend" /\ on'[v] = j)
    BY <1>1 DEF WaitInv
  <2> QED
    BY <1>1, <2>1, <2>2 DEF WaitInv, ThreadStates
<1>3. ASSUME NEW j \in KTimers, Serves(j) PROVE Serves(j)'
  <2>1. CASE s = "stop" /\ k = j
    BY <1>1, <2>1 DEF Serves
  <2>2. CASE KeepsServing(j)
    <3>1. \A v \in Threads : tpc[v] = "stop" => v # w
      OBVIOUS
    <3>2. \A v \in Threads : tpc[v] = "stop" => tpc'[v] = "stop" /\ on'[v] = on[v]
      BY <1>1, <3>1
    <3> QED
      BY <1>3, <2>2, <3>2 DEF Serves, KeepsServing
  <2> QED
    BY <2>1, <2>2
<1> QED
  BY <1>2, <1>3 DEF ServedInv

\* _pend_current_thread() on a timer that runs and has not expired
LEMMA ServedPend ==
  ASSUME WaitInv, ServedInv, NEW w \in Threads, tpc[w] = "run", NEW k \in KTimers,
         waitq' = [waitq EXCEPT ![k] = Pended(w, k)], tpc' = [tpc EXCEPT ![w] = "pend"],
         on' = [on EXCEPT ![w] = k], UNCHANGED <<overlooked, rem, status, handler>>,
         rem[k] # None, status[k] = 0
  PROVE  WaitInv' /\ ServedInv'
<1>1. /\ Pended(w, k) \in Seq(Threads) /\ IsInjective(Pended(w, k))
      /\ \A v \in Threads : Contains(Pended(w, k), v) <=> (v = w \/ Contains(waitq[k], v))
  BY PendedIs
<1>2. /\ tpc'[w] = "pend" /\ on'[w] = k
      /\ \A v \in Threads : v # w => tpc'[v] = tpc[v] /\ on'[v] = on[v]
      /\ tpc' \in [Threads -> ThreadStates] /\ on' \in [Threads -> KTimers \cup {None}]
  BY DEF WaitInv, ThreadStates
<1>3. /\ waitq'[k] = Pended(w, k) /\ \A j \in KTimers : j # k => waitq'[j] = waitq[j]
      /\ waitq' \in [KTimers -> Seq(Threads)]
  BY <1>1 DEF WaitInv
<1>4. WaitInv'
  <2>1. \A v \in Threads : tpc'[v] # "run" => on'[v] \in KTimers
    BY <1>2 DEF WaitInv
  <2>2. \A j \in KTimers : IsInjective(waitq'[j])
    BY <1>1, <1>3 DEF WaitInv
  <2>3. ASSUME NEW j \in KTimers, NEW v \in Threads
        PROVE  Contains(waitq'[j], v) <=> (tpc'[v] = "pend" /\ on'[v] = j)
    <3>1. Contains(waitq[j], v) <=> (tpc[v] = "pend" /\ on[v] = j)
      BY DEF WaitInv
    <3>2. Contains(waitq'[j], v) <=> ((j = k /\ v = w) \/ Contains(waitq[j], v))
      BY <1>1, <1>3
    <3> QED
      BY <1>2, <3>1, <3>2
  <2> QED
    BY <1>2, <1>3, <2>1, <2>2, <2>3 DEF WaitInv, ThreadStates
<1>5. ASSUME NEW j \in KTimers, NEW v \in Threads, Contains(waitq'[j], v), v \notin overlooked'
      PROVE  Serves(j)'
  <2>1. CASE j = k
    BY <2>1 DEF Serves
  <2>2. CASE j # k
    <3>1. Serves(j)
      BY <1>3, <1>5, <2>2 DEF ServedInv
    <3>2. \A u \in Threads : tpc[u] = "stop" => tpc'[u] = "stop" /\ on'[u] = on[u]
      BY <1>2
    <3> QED
      BY <3>1, <3>2 DEF Serves
  <2> QED
    BY <2>1, <2>2
<1> QED
  BY <1>4, <1>5 DEF ServedInv


LEMMA ServedInvStep ==
  ASSUME TimerInv, ~StopsExpired, [TimerNext]_allVars
  PROVE  WaitInv' /\ ServedInv'
<1>0. KTimers \subseteq Timers /\ None \notin Timers /\ None \notin Int /\ MaxTicks \in Nat
      /\ MaxDuration \in 1..MaxTicks /\ StatusRange \in Nat \ {0, 1}
  BY TimeoutAssumption, TimerAssumption
<1>a. TimeoutInv /\ TimerFields /\ WaitInv /\ ServedInv
  BY DEF TimerInv
<1>b. /\ rem \in [Timers -> (0..MaxTicks) \cup {None}] /\ status \in [KTimers -> 0..(StatusRange - 1)]
      /\ tpc \in [Threads -> ThreadStates] /\ on \in [Threads -> KTimers \cup {None}]
  BY <1>a DEF TimeoutInv, DataInv, TimerFields, WaitInv, ThreadStates
<1>1. ASSUME OtherTimeouts PROVE WaitInv' /\ ServedInv'
  <2>1. UNCHANGED <<waitq, tpc, on, overlooked, handler, status>>
    BY <1>1 DEF OtherTimeouts, timerVars, fieldVars, handlerVars, threadVars
  <2>2. TimersKept
    BY <1>1, <1>a, OthersKeepTimers
  <2>3. \A k \in KTimers : KeepsServing(k)
    BY <2>1, <2>2 DEF KeepsServing, TimersKept
  <2> QED
    BY <1>a, <2>1, <2>3, WaitersKept, ServedKept
<1>2. ASSUME NEW k \in KTimers, NEW n \in 0..MaxDuration, NEW p \in 0..MaxDuration, Start(k, n, p)
      PROVE  WaitInv' /\ ServedInv'
  <2> DEFINE first == IF n > 0 THEN n ELSE p
  <2>1. /\ rem' = [rem EXCEPT ![k] = first]
        /\ status' = [status EXCEPT ![k] = IF n > 0 THEN 0 ELSE 1]
        /\ UNCHANGED <<handler, on>>
        /\ \/ n > 0 /\ UNCHANGED <<waitq, tpc, overlooked>>
           \/ n = 0 /\ WakeFirst(k, tpc)
    BY <1>2 DEF Start, Armed, handlerVars
  <2>2. \A j \in KTimers : j # k => KeepsServing(j)
    BY <1>0, <1>b, <2>1 DEF KeepsServing
  <2>3. CASE n > 0 /\ UNCHANGED <<waitq, tpc, overlooked>>
    <3>1. rem'[k] # None /\ status'[k] = 0
      BY <1>0, <1>b, <2>1, <2>3
    <3> QED
      BY <1>a, <2>1, <2>2, <2>3, <3>1, WaitersKept, ServedKept
  <2>4. CASE n = 0 /\ WakeFirst(k, tpc)
    BY <1>a, <1>b, <2>1, <2>2, <2>4, ServedWake
  <2> QED
    BY <2>1, <2>3, <2>4
<1>3. ASSUME NEW k \in KTimers, StopNow(k) PROVE WaitInv' /\ ServedInv'
  <2>1. /\ rem' = [rem EXCEPT ![k] = None] /\ UNCHANGED <<status, handler, on>>
        /\ WakeFirst(k, tpc)
    BY <1>3 DEF StopNow, Stop, Disarmed, fieldVars, handlerVars
  <2>2. \A j \in KTimers : j # k => KeepsServing(j)
    BY <1>0, <1>b, <2>1 DEF KeepsServing
  <2> QED
    BY <1>a, <1>b, <2>1, <2>2, ServedWake
<1>4. ASSUME NEW k \in KTimers, StatusGet(k) PROVE WaitInv' /\ ServedInv'
  <2>1. UNCHANGED <<waitq, tpc, on, overlooked, handler, rem>> /\ status' = [status EXCEPT ![k] = 0]
    BY <1>4 DEF StatusGet, vars, threadVars, handlerVars
  <2>2. \A j \in KTimers : KeepsServing(j)
    BY <1>b, <2>1 DEF KeepsServing
  <2> QED
    BY <1>a, <2>1, <2>2, WaitersKept, ServedKept
<1>5. ASSUME NEW k \in KTimers, NEW w \in Threads, StopStart(w, k) PROVE WaitInv' /\ ServedInv'
  <2>1. /\ tpc[w] = "run" /\ tpc' = [tpc EXCEPT ![w] = "stop"] /\ on' = [on EXCEPT ![w] = k]
        /\ rem' = [rem EXCEPT ![k] = None] /\ UNCHANGED <<status, handler, waitq, overlooked>>
    BY <1>5 DEF StopStart, Stop, Disarmed, fieldVars, handlerVars
  <2>2. \A j \in KTimers : KeepsServing(j) \/ ("stop" = "stop" /\ k = j)
    BY <1>0, <1>b, <2>1 DEF KeepsServing
  <2>3. tpc[w] \notin {"pend", "stop"} /\ "stop" \in ThreadStates \ {"pend"} /\ k \in KTimers \cup {None}
    BY <2>1 DEF ThreadStates
  <2> QED
    BY <1>a, <2>1, <2>2, <2>3, ServedThread
<1>6. ASSUME NEW k \in KTimers, NEW w \in Threads, SyncStart(w, k) PROVE WaitInv' /\ ServedInv'
  <2>1. tpc[w] = "run" /\ UNCHANGED <<rem, overlooked, handler>>
    BY <1>6 DEF SyncStart, vars, handlerVars
  <2>2. CASE /\ MustWait(k)
             /\ waitq' = [waitq EXCEPT ![k] = Pended(w, k)]
             /\ tpc' = [tpc EXCEPT ![w] = "pend"]
             /\ on' = [on EXCEPT ![w] = k]
             /\ UNCHANGED status
    <3>1. rem[k] # None /\ status[k] = 0
      BY <1>0, <1>a, <2>2 DEF MustWait, TimeoutInv, StateInv
    <3> QED
      BY <1>a, <2>1, <2>2, <3>1, ServedPend
  <2>3. CASE status' = [status EXCEPT ![k] = 0] /\ UNCHANGED <<waitq, tpc, on>>
    <3>1. \A j \in KTimers : KeepsServing(j)
      BY <1>b, <2>1, <2>3 DEF KeepsServing
    <3> QED
      BY <1>a, <2>1, <2>3, <3>1, WaitersKept, ServedKept
  <2> QED
    BY <1>6, <2>2, <2>3 DEF SyncStart
<1>7. ASSUME NEW w \in Threads, StopEnd(w) PROVE WaitInv' /\ ServedInv'
  <2> DEFINE th == [tpc EXCEPT ![w] = "run"]
             k == on[w]
  <2>1. /\ tpc[w] = "stop" /\ WakeFirst(k, th) /\ on' = [on EXCEPT ![w] = None]
        /\ UNCHANGED <<rem, status, handler>>
    BY <1>7 DEF StopEnd, vars, fieldVars, handlerVars
  <2>2. k \in KTimers
    BY <1>a, <2>1 DEF WaitInv
  <2>3. th \in [Threads -> ThreadStates] /\ th[w] = "run" /\ \A v \in Threads : v # w => th[v] = tpc[v]
    BY <1>b DEF ThreadStates
  <2>4. on' \in [Threads -> KTimers \cup {None}] /\ \A v \in Threads : v # w => on'[v] = on[v]
    BY <1>b, <2>1
  <2>5. \A j \in KTimers : j # k => KeepsServing(j)
    BY <2>1 DEF KeepsServing
  <2> HIDE DEF th
  <2>6. /\ \A v \in Threads : (th[v] = "pend" <=> tpc[v] = "pend") /\ (th[v] # "run" => tpc[v] # "run")
        /\ \A v \in Threads : tpc[v] = "stop" /\ th[v] # "stop" => on[v] = k
        /\ \A v \in Threads : th[v] # "run" => on'[v] = on[v]
    BY <2>1, <2>3, <2>4
  <2> QED
    BY <1>a, <2>1, <2>2, <2>3, <2>4, <2>5, <2>6, ServedWake
<1>8. ASSUME NEW w \in Threads, SyncReturn(w) PROVE WaitInv' /\ ServedInv'
  <2>1. /\ tpc[w] = "woken" /\ tpc' = [tpc EXCEPT ![w] = "run"] /\ on' = [on EXCEPT ![w] = None]
        /\ status' = [status EXCEPT ![on[w]] = 0] /\ UNCHANGED <<rem, handler, waitq, overlooked>>
    BY <1>8 DEF SyncReturn, vars, handlerVars
  <2>2. \A j \in KTimers : KeepsServing(j)
    BY <1>b, <2>1 DEF KeepsServing
  <2>3. tpc[w] \notin {"pend", "stop"} /\ "run" \in ThreadStates \ {"pend"} /\ None \in KTimers \cup {None}
    BY <2>1 DEF ThreadStates
  <2> QED
    BY <1>a, <2>1, <2>2, <2>3, ServedThread
<1>9. ASSUME TimerAnnounce PROVE WaitInv' /\ ServedInv'
  <2>1. Announce /\ UNCHANGED <<waitq, tpc, on, overlooked, handler, status>>
    BY <1>9 DEF TimerAnnounce, fieldVars, threadVars, handlerVars
  <2>2. \A k \in KTimers : rem[k] # None => rem'[k] # None
    BY <1>0, <1>a, <2>1, AnnounceRem
  <2>3. \A k \in KTimers : KeepsServing(k)
    BY <2>1, <2>2 DEF KeepsServing
  <2> QED
    BY <1>a, <2>1, <2>3, WaitersKept, ServedKept
<1>10. ASSUME ClockTurn PROVE WaitInv' /\ ServedInv'
  <2>1. UNCHANGED <<waitq, tpc, on, overlooked, handler, status>>
    BY <1>10 DEF ClockTurn, timerVars, fieldVars, handlerVars, threadVars
  <2>2. TimersKept
    BY <1>10, <1>a, TurnsKeepTimers
  <2>3. \A k \in KTimers : KeepsServing(k)
    BY <2>1, <2>2 DEF KeepsServing, TimersKept
  <2> QED
    BY <1>a, <2>1, <2>3, WaitersKept, ServedKept
<1>11. ASSUME HandleTimer PROVE WaitInv' /\ ServedInv'
  <2>1. /\ cur \in KTimers /\ cur # None /\ handler' = cur /\ rem' = [rem EXCEPT ![cur] = None]
        /\ UNCHANGED <<waitq, tpc, on, overlooked, status>>
    BY <1>11 DEF HandleTimer, Handle, Disarmed, fieldVars, threadVars
  <2>2. handler = None
    BY <1>a, <2>1 DEF TimerFields
  <2>3. \A k \in KTimers : handler' = k \/ KeepsServing(k)
    BY <1>0, <1>b, <2>1, <2>2 DEF KeepsServing
  <2> QED
    BY <1>a, <2>1, <2>3, WaitersKept, ServedKept
<1>12. ASSUME Rearm PROVE WaitInv' /\ ServedInv'
  <2>1. /\ step = "rearm" /\ UNCHANGED <<handler, waitq, tpc, on, overlooked>>
        /\ status' = [status EXCEPT ![handler] = (@ + 1) % StatusRange]
    BY <1>12 DEF Rearm, threadVars
  <2>2. handler \in KTimers
    BY <1>a, <2>1 DEF TimerFields
  <2>3. rem' = rem \/ \E r : rem' = [rem EXCEPT ![handler] = r]
    BY <1>12, Zenon DEF Rearm, Add, Armed, vars
  <2>4. \A k \in KTimers : handler' = k \/ KeepsServing(k)
    BY <1>0, <1>b, <2>1, <2>2, <2>3 DEF KeepsServing
  <2> QED
    BY <1>a, <2>1, <2>4, WaitersKept, ServedKept
<1>13. ASSUME ExpiryReturns PROVE WaitInv' /\ ServedInv'
  <2>1. step = "call" /\ WakeFirst(handler, tpc) /\ UNCHANGED <<rem, status, on>>
    BY <1>13 DEF ExpiryReturns, vars, fieldVars
  <2>2. handler \in KTimers
    BY <1>a, <2>1 DEF TimerFields
  <2>3. \A k \in KTimers : k # handler => KeepsServing(k)
    BY <2>1 DEF KeepsServing
  <2> QED
    BY <1>a, <1>b, <2>1, <2>2, <2>3, ServedWake
<1>14. ASSUME UNCHANGED allVars PROVE WaitInv' /\ ServedInv'
  <2>1. UNCHANGED <<waitq, tpc, on, overlooked, handler, status, rem>>
    BY <1>14 DEF allVars, vars, timerVars, fieldVars, handlerVars, threadVars
  <2>2. \A k \in KTimers : KeepsServing(k)
    BY <2>1 DEF KeepsServing
  <2> QED
    BY <1>a, <2>1, <2>2, WaitersKept, ServedKept
<1> QED
  BY <1>1, <1>2, <1>3, <1>4, <1>5, <1>6, <1>7, <1>8, <1>9, <1>10, <1>11, <1>12, <1>13, <1>14, TimerCases, Zenon


-----------------------------------------------------------------------------
(* The theorems *)

LEMMA TimerInitInv ==
  ASSUME TimerInit
  PROVE  TimerInv
<1>0. MaxTicks \in Nat /\ None \notin Int /\ StatusRange \in Nat \ {0, 1}
  BY TimeoutAssumption, TimerAssumption
<1>1. /\ q = << >> /\ expired = << >> /\ delta = [t \in Timers |-> INACTIVE]
      /\ phase = "idle" /\ cur = None /\ nxt = None /\ damage = "none" /\ fired = None
      /\ rem = [t \in Timers |-> None] /\ earlier = [t \in Timers |-> {}]
  BY DEF TimerInit, Init
<1>2. << >> \in Seq(Timers) /\ IsInjective(<< >>) /\ \A u : ~Contains(<< >>, u)
  BY DEF IsInjective, Contains
<1>3. INACTIVE \in EXPIRED..MaxTicks /\ INACTIVE # EXPIRED /\ ~(INACTIVE >= 0)
  BY <1>0 DEF INACTIVE, EXPIRED
<1>4. Marked = {}
  BY <1>1, <1>3 DEF Marked
<1>5. DataInv
  BY <1>1, <1>2, <1>3 DEF DataInv
<1>6. Exact(q, delta, Due)
  BY <1>1 DEF Exact, Ascending
<1>7. StateInv
  BY <1>1, <1>2, <1>3, <1>4 DEF StateInv
<1>8. WalkInv
  BY <1>1, <1>4 DEF WalkInv
<1>9. EarlierInv
  BY <1>1, <1>4 DEF EarlierInv
<1>10. TimerFields
  <2>1. 0 \in 0..MaxTicks /\ 0 \in 0..(StatusRange - 1)
    BY <1>0
  <2> QED
    BY <1>1, <2>1 DEF TimerInit, TimerFields
<1>11. PeriodInv
  BY DEF TimerInit, PeriodInv
<1>12. WaitInv
  <2>1. << >> \in Seq(Threads)
    OBVIOUS
  <2> QED
    BY <1>2, <2>1 DEF TimerInit, WaitInv
<1>13. ServedInv
  BY <1>2 DEF TimerInit, ServedInv
<1> QED
  BY <1>5, <1>6, <1>7, <1>8, <1>9, <1>10, <1>11, <1>12, <1>13 DEF TimerInv, TimeoutInv

LEMMA TimerInvStep ==
  ASSUME TimerInv, ~StopsExpired, [TimerNext]_allVars
  PROVE  TimerInv'
<1>1. TimeoutInv /\ TimerFields /\ PeriodInv
  BY DEF TimerInv
<1> QED
  BY <1>1, TimeoutInvStep, TimerFieldsStep, PeriodInvStep, ServedInvStep DEF TimerInv

LEMMA TimerSpecInv ==
  ASSUME ~StopsExpired
  PROVE  TimerInit /\ [][TimerNext]_allVars => []TimerInv
<1>1. TimerInit => TimerInv
  BY TimerInitInv
<1>2. TimerInv /\ [TimerNext]_allVars => TimerInv'
  BY TimerInvStep
<1> QED
  BY <1>1, <1>2, PTL

\* The walk of _timeout_remaining_get() finds t.
LEMMA RemainingIs ==
  ASSUME TimeoutInv, NEW t \in Timers, Contains(q, t)
  PROVE  RemainingGet(t) = rem[t]
<1> DEFINE i == SelectInSeq(q, LAMBDA u : u = t)
           I == {k \in 1..Len(q) : q[k] = t}
<1>0. q \in Seq(Timers) /\ Exact(q, delta, Due) /\ Due \in [Timers -> Nat] /\ Len(q) \in Nat
  BY DueIs DEF TimeoutInv, DataInv
<1>1. i \in 1..Len(q) /\ q[i] = t
  <2>1. I \in SUBSET Nat /\ I # {}
    BY DEF Contains
  <2>2. Min(I) \in I
    BY <2>1, LeastNatural DEF Min
  <2>3. i = Min(I)
    BY <2>1 DEF SelectInSeq
  <2> HIDE DEF i
  <2> QED
    BY <2>2, <2>3
<1>2. i \in 0..Len(q) /\ i # 0
  BY <1>0, <1>1
<1>3. q # << >> /\ delta[t] # INACTIVE /\ Due[t] = rem[t]
  BY QueuedIs DEF Contains, INACTIVE
<1>4. RemainingGet(t) = TicksTo(List, i)
  BY <1>3 DEF RemainingGet
<1>5. List.q = q /\ List.delta = delta
  BY DEF List
<1> HIDE DEF i
<1>6. TicksTo(List, i) = IF i = 0 THEN 0 ELSE Due[q[i]]
  BY <1>0, <1>2, <1>5, TicksToIs
<1> QED
  BY <1>1, <1>2, <1>3, <1>4, <1>6

\* Through any sequence of insertions, removals and ticks, by any number of
\* timeouts and over any number of ticks, the differences that _add_timeout(),
\* _abort_timeout() and handle_timeouts() keep add up to the ticks that really
\* are left, and no started timeout is missing from the queue between two
\* clock interrupts.
THEOREM TimerRemainingExact ==
  ASSUME ~StopsExpired
  PROVE  TimerSpec => []RemainingExact
<1>1. TimerInv => RemainingExact
  <2>1. TimeoutInv => RemainingExact
    BY RemainingIs, IdleNotDue DEF RemainingExact
  <2> QED
    BY <2>1 DEF TimerInv
<1> QED
  BY <1>1, TimerSpecInv, PTL DEF TimerSpec

\* Nobody waits in k_timer_status_sync() for a timer that does not run any
\* more or has expired unread, except behind another thread; and every field
\* of the timers and the timeout queue keeps its type.
THEOREM TimerSyncServed ==
  ASSUME ~StopsExpired
  PROVE  TimerSpec => []SyncServed
<1>1. TimerInv => SyncServed
  <2> SUFFICES ASSUME TimerInv PROVE SyncServed
    OBVIOUS
  <2>0. TimeoutInv /\ TimerFields /\ PeriodInv /\ WaitInv /\ ServedInv /\ None \notin Timers
    BY TimeoutAssumption DEF TimerInv
  <2>1. cur \in Timers \cup {None} /\ nxt \in Timers \cup {None}
    <3>1. CASE phase = "handle"
      <4>1. cur \in Timers \cup {None}
        BY <2>0, <3>1, CurIs
      <4>2. PICK p \in 0..Len(expired) : WalkAt(p)
        BY <2>0, <3>1 DEF TimeoutInv, WalkInv
      <4>3. expired \in Seq(Timers)
        BY <2>0 DEF TimeoutInv, DataInv
      <4>4. p < Len(expired) => p + 1 \in 1..Len(expired)
        BY <4>2, <4>3
      <4>5. nxt \in Timers \cup {None}
        BY <4>2, <4>3, <4>4 DEF WalkAt
      <4> QED
        BY <4>1, <4>5
    <3>2. CASE phase # "handle"
      BY <2>0, <3>2 DEF TimeoutInv, WalkInv
    <3> QED
      BY <3>1, <3>2
  <2>2. TypeOK
    BY <2>0, <2>1 DEF TypeOK, TimeoutInv, DataInv, WalkInv
  <2>3. \A k \in KTimers : \A w : w \in Range(waitq[k]) <=> (w \in Threads /\ Contains(waitq[k], w))
    <3> TAKE k \in KTimers
    <3>1. waitq[k] \in Seq(Threads) /\ DOMAIN waitq[k] = 1..Len(waitq[k])
      BY <2>0 DEF WaitInv
    <3> QED
      BY <3>1 DEF Range, Contains
  <2>4. \A k \in KTimers : Range(waitq[k]) = {w \in Threads : tpc[w] = "pend" /\ on[w] = k}
    BY <2>0, <2>3 DEF WaitInv
  <2>5. TimerTypeOK
    BY <2>0, <2>2, <2>4 DEF TimerTypeOK, TimerFields, PeriodInv, WaitInv
  <2>6. ASSUME NEW k \in KTimers, NEW w \in Range(waitq[k]) \ overlooked
        PROVE  \/ handler = k
               \/ \E v \in Threads : tpc[v] = "stop" /\ on[v] = k
               \/ delta[k] # INACTIVE /\ status[k] = 0
    <3>1. Serves(k)
      BY <2>0, <2>3, <2>6 DEF ServedInv
    <3>2. rem[k] # None => delta[k] # INACTIVE
      BY <2>0, TimerAssumption DEF TimeoutInv, StateInv
    <3> QED
      BY <3>1, <3>2 DEF Serves
  <2> QED
    BY <2>5, <2>6 DEF SyncServed
<1> QED
  BY <1>1, TimerSpecInv, PTL DEF TimerSpec

\* The only step that handles a timeout.
LEMMA FiredCases ==
  ASSUME [TimerNext]_allVars
  PROVE  UNCHANGED vars \/ fired' = None \/ Handle
<1>1. OtherTimeouts => fired' = None
  BY DEF OtherTimeouts, Stop, Add
<1>2. \A k \in KTimers, n, p \in 0..MaxDuration : Start(k, n, p) => fired' = None
  BY DEF Start
<1>3. \A k \in KTimers : StopNow(k) => fired' = None
  BY DEF StopNow, Stop
<1>4. \A k \in KTimers, w \in Threads : StopStart(w, k) => fired' = None
  BY DEF StopStart, Stop
<1>5. TimerAnnounce => fired' = None
  BY DEF TimerAnnounce, Announce
<1>6. ClockTurn => fired' = None \/ Handle
  BY DEF ClockTurn, Collect, CollectDone, Advance, HandleDone
<1>7. HandleTimer => Handle
  BY DEF HandleTimer
<1>8. Rearm => UNCHANGED vars \/ fired' = None
  BY DEF Rearm, Add
<1>9. \/ \E k \in KTimers : StatusGet(k)
      \/ \E k \in KTimers, w \in Threads : SyncStart(w, k)
      \/ \E w \in Threads : StopEnd(w)
      \/ \E w \in Threads : SyncReturn(w)
      \/ ExpiryReturns
      \/ UNCHANGED allVars
      => UNCHANGED vars
  BY DEF StatusGet, SyncStart, StopEnd, SyncReturn, ExpiryReturns, allVars
<1> QED
  BY <1>1, <1>2, <1>3, <1>4, <1>5, <1>6, <1>7, <1>8, <1>9, TimerCases, Zenon

\* Timeouts of the same tick are handled in the order in which they were
\* started, whatever was started, stopped and handled in between: the queue
\* has them in reverse and the local list turns them around.
THEOREM TimerSameTickInOrder ==
  ASSUME ~StopsExpired
  PROVE  TimerSpec => SameTickInOrder
<1>1. TimerInv /\ [TimerNext]_allVars => [\A t \in Timers : fired' = t => earlier[t] = {}]_vars
  <2> SUFFICES ASSUME TimerInv, [TimerNext]_allVars, ~UNCHANGED vars, NEW t \in Timers, fired' = t
               PROVE  earlier[t] = {}
    OBVIOUS
  <2>1. Handle /\ TimeoutInv
    BY FiredCases, TimeoutAssumption DEF TimerInv
  <2>2. phase = "handle" /\ cur # None /\ cur = t
    BY <2>1 DEF Handle
  <2> QED
    BY <2>1, <2>2, CurIs
<1> QED
  BY <1>1, TimerSpecInv, PTL DEF TimerSpec, SameTickInOrder

\* A periodic timer that nobody starts or stops expires every "period" ticks.
THEOREM TimerPeriodExact ==
  ASSUME ~StopsExpired
  PROVE  TimerSpec => PeriodExact
<1>1. TimerInv /\ [TimerNext]_allVars
        => [\A k \in KTimers : fired' = k /\ since[k] # None => since[k] = period[k]]_vars
  <2> SUFFICES ASSUME TimerInv, [TimerNext]_allVars, ~UNCHANGED vars,
                      NEW k \in KTimers, fired' = k, since[k] # None
               PROVE  since[k] = period[k]
    OBVIOUS
  <2>1. Handle /\ TimeoutInv /\ TimerFields /\ PeriodInv
    BY FiredCases, TimeoutAssumption, TimerAssumption DEF TimerInv
  <2>2. phase = "handle" /\ cur # None /\ cur = k
    BY <2>1 DEF Handle
  <2>3. rem[k] = 0 /\ step = "none"
    BY <2>1, <2>2, CurIs DEF TimerFields
  <2>4. since[k] + rem[k] = period[k] /\ since[k] \in 0..MaxTicks
    BY <2>1, <2>3 DEF PeriodInv
  <2> QED
    BY <2>3, <2>4
<1> QED
  BY <1>1, TimerSpecInv, PTL DEF TimerSpec, PeriodExact


\* One step of the abstract timers for each step of the detailed ones.
LEMMA AbsTimersStep ==
  ASSUME TimerInv, ~StopsExpired, [TimerNext]_allVars
  PROVE  Abs!AbsNext \/ UNCHANGED <<rem, fired>>
<1>0. KTimers \subseteq Timers /\ MaxTicks \in Nat /\ None \notin Int /\ MaxDuration \in 1..MaxTicks
  BY TimeoutAssumption, TimerAssumption
<1>a. TimeoutInv /\ TimerFields /\ rem \in [Timers -> (0..MaxTicks) \cup {None}]
  BY DEF TimerInv, TimeoutInv, DataInv
<1>1. ASSUME NEW t \in Timers, NEW n \in 0..MaxTicks, Add(t, n) PROVE Abs!AbsNext
  <2>1. CASE n > 0
    <3>1. n \in 1..MaxTicks
      BY <1>0, <2>1
    <3>2. Abs!AbsArm(t, n)
      BY <1>1, <2>1 DEF Add, Armed, Abs!AbsArm
    <3> QED
      BY <3>1, <3>2 DEF Abs!AbsNext
  <2>2. CASE ~(n > 0)
    <3>1. Abs!AbsIdle
      BY <1>1, <2>2 DEF Add, Abs!AbsIdle
    <3> QED
      BY <3>1 DEF Abs!AbsNext
  <2> QED
    BY <2>1, <2>2
<1>2. ASSUME NEW t \in Timers, Stop(t) PROVE Abs!AbsNext
  <2>1. rem[t] # None
    BY <1>2, <1>a DEF Stop, TimeoutInv, StateInv
  <2>2. Abs!AbsStop(t)
    BY <1>2, <2>1 DEF Stop, Disarmed, Abs!AbsStop, Abs!Armed
  <2> QED
    BY <2>2 DEF Abs!AbsNext
<1>3. ASSUME OtherTimeouts PROVE Abs!AbsNext
  BY <1>1, <1>2, <1>3 DEF OtherTimeouts
<1>4. ASSUME NEW k \in KTimers, NEW n \in 0..MaxDuration, NEW p \in 0..MaxDuration, Start(k, n, p)
      PROVE  Abs!AbsNext
  <2> DEFINE first == IF n > 0 THEN n ELSE p
  <2>1. rem' = [rem EXCEPT ![k] = first] /\ fired' = None /\ (n > 0 \/ p > 0)
    BY <1>4 DEF Start, Armed
  <2>2. first \in 1..MaxTicks /\ k \in Timers
    BY <1>0, <2>1
  <2>3. Abs!AbsArm(k, first)
    BY <2>1 DEF Abs!AbsArm
  <2> HIDE DEF first
  <2> QED
    BY <2>2, <2>3 DEF Abs!AbsNext
<1>5. ASSUME TimerAnnounce PROVE Abs!AbsNext
  <2>1. Announce /\ fired' = None
    BY <1>5 DEF TimerAnnounce, Announce
  <2>2. \A t \in Timers : /\ rem'[t] = IF rem[t] = None THEN None ELSE rem[t] - 1
                          /\ rem[t] # None => rem[t] \in 1..MaxTicks
    BY <1>a, <2>1, AnnounceRem
  <2>3. rem' = [t \in Timers |-> IF t \in Abs!Armed THEN rem[t] - 1 ELSE None]
    <3>1. rem' = [t \in Timers |-> IF rem[t] \in {None, -1} THEN rem[t] ELSE rem[t] - 1]
      BY <2>1 DEF Announce
    <3>2. \A t \in Timers : rem'[t] = IF t \in Abs!Armed THEN rem[t] - 1 ELSE None
      BY <2>2 DEF Abs!Armed
    <3> QED
      BY <3>1, <3>2
  <2>4. \A t \in Abs!Armed : rem[t] > 0
    BY <1>0, <2>2 DEF Abs!Armed
  <2>5. Abs!AbsAdvance
    BY <2>1, <2>3, <2>4 DEF Abs!AbsAdvance
  <2> QED
    BY <2>5 DEF Abs!AbsNext
<1>6. ASSUME Handle PROVE Abs!AbsNext
  <2>1. phase = "handle" /\ cur # None /\ fired' = cur /\ rem' = [rem EXCEPT ![cur] = None]
    BY <1>6 DEF Handle, Disarmed
  <2>2. cur \in Timers /\ rem[cur] = 0
    BY <1>a, <2>1, CurIs
  <2>3. Abs!AbsFire(cur)
    BY <2>1, <2>2 DEF Abs!AbsFire
  <2> QED
    BY <2>2, <2>3 DEF Abs!AbsNext
<1>7. ASSUME ClockTurn PROVE Abs!AbsNext
  <2>1. Handle \/ (fired' = None /\ rem' = rem)
    BY <1>7 DEF ClockTurn, Collect, CollectDone, Advance, HandleDone
  <2> QED
    BY <1>6, <2>1 DEF Abs!AbsNext, Abs!AbsIdle
<1>8. ASSUME Rearm PROVE Abs!AbsNext \/ UNCHANGED <<rem, fired>>
  <2>1. handler \in Timers /\ period[handler] \in 0..MaxTicks
    BY <1>0, <1>8, <1>a DEF Rearm, TimerFields
  <2>2. Add(handler, period[handler]) \/ UNCHANGED vars
    BY <1>8 DEF Rearm, NextPeriod
  <2> QED
    BY <1>1, <2>1, <2>2 DEF vars
<1>9. ASSUME \/ \E k \in KTimers : StopNow(k)
             \/ \E k \in KTimers, w \in Threads : StopStart(w, k)
      PROVE  Abs!AbsNext
  <2>1. \E k \in KTimers : Stop(k)
    BY <1>9 DEF StopNow, StopStart
  <2> QED
    BY <1>0, <1>2, <2>1
<1>10. ASSUME \/ \E k \in KTimers : StatusGet(k)
              \/ \E k \in KTimers, w \in Threads : SyncStart(w, k)
              \/ \E w \in Threads : StopEnd(w)
              \/ \E w \in Threads : SyncReturn(w)
              \/ ExpiryReturns
              \/ UNCHANGED allVars
       PROVE  UNCHANGED <<rem, fired>>
  <2>1. UNCHANGED vars
    BY <1>10 DEF StatusGet, SyncStart, StopEnd, SyncReturn, ExpiryReturns, allVars
  <2> QED
    BY <2>1 DEF vars
<1>11. ASSUME HandleTimer PROVE Abs!AbsNext
  BY <1>6, <1>11 DEF HandleTimer
<1> DEFINE Same == UNCHANGED <<rem, fired>>
           Done == Abs!AbsNext \/ Same
<1>12. ASSUME \/ \E k \in KTimers : StatusGet(k)
              \/ \E k \in KTimers, w \in Threads : SyncStart(w, k)
              \/ \E w \in Threads : StopEnd(w)
              \/ \E w \in Threads : SyncReturn(w)
              \/ ExpiryReturns
              \/ UNCHANGED allVars
       PROVE  Done
  BY <1>10, <1>12
<1>13. Rearm => Done
  BY <1>8
<1>14. Abs!AbsNext => Done
  OBVIOUS
<1>15. Done => Abs!AbsNext \/ UNCHANGED <<rem, fired>>
  OBVIOUS
<1> HIDE DEF Done
<1>16. Done
  BY <1>3, <1>4, <1>5, <1>7, <1>9, <1>11, <1>12, <1>13, <1>14, TimerCases, Zenon
<1> QED
  BY <1>15, <1>16

\* The list of differences, the two passes of the clock interrupt and the
\* timers that arm themselves again implement abstract timers: each is handled
\* in its tick, once, and never after it was stopped.
THEOREM TimersImplementAbsTimers ==
  ASSUME ~StopsExpired
  PROVE  TimerSpec => ImplementsAbsTimers
<1>1. TimerInit => Abs!AbsInit
  BY DEF TimerInit, Init, Abs!AbsInit
<1>2. TimerInv /\ [TimerNext]_allVars => [Abs!AbsNext]_(Abs!absVars)
  BY AbsTimersStep DEF Abs!absVars
<1> QED
  BY <1>1, <1>2, TimerSpecInv, PTL DEF TimerSpec, ImplementsAbsTimers, Abs!AbsSpec

=============================================================================
