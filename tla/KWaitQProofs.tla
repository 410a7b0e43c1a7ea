---------------------------- MODULE KWaitQProofs ----------------------------
(***************************************************************************)
(* The kernel objects that threads wait for, for every set of threads and  *)
(* every assignment of priorities: first what every operation on the wait  *)
(* queue and every step of the clock interrupt preserves (KThreads), then  *)
(* the semaphore, for every limit and every initial count; the message     *)
(* queue, for every size of the ring; then the queue, for every finite set *)
(* of items and every set of appenders, with what the links of its list    *)
(* mean to a walk along them, and as long as no append is preempted.       *)
(***************************************************************************)
EXTENDS KSem, KMsgq, KQueue, DataLemmas, FiniteSetTheorems

-----------------------------------------------------------------------------
(* KThreads: the wait queue and the clock interrupt *)

\* The part of every object's inductive invariant that is about threads.
ThreadInv == ThreadTypeOK /\ WaitqConsistent /\ WaitqSorted

\* Every thread starts ready and the queues start empty.
LEMMA ThreadInitInv == ThreadInit => ThreadInv
BY EmptySeq DEF ThreadInit, ThreadInv, ThreadTypeOK, WaitqConsistent, WaitqSorted,
                IsInjective, Contains

\* _pend_current_thread() keeps the queue sorted and in step with the states.
LEMMA PendInv ==
  ASSUME ThreadInv, NEW t \in Threads, Running(t), NEW timeout, Pend(t, timeout)
  PROVE  ThreadInv'
<1>0. /\ waitq \in Seq(Threads)
      /\ tstate \in [Threads -> {"ready", "pending", "dead"}]
      /\ tmo \in [Threads -> {"inactive", "armed", "expired"}]
      /\ expired \in Seq(Threads)
      /\ ahead \in [Threads -> SUBSET Threads]
      /\ DOMAIN waitq = 1..Len(waitq) /\ Len(waitq) \in Nat
      /\ tstate[t] = "ready" /\ clock = "idle"
      /\ WaitqConsistent /\ WaitqSorted
  BY LenProperties DEF ThreadInv, ThreadTypeOK, Running
<1>1. PICK i \in 1..(Len(waitq) + 1) :
        InsertPoint(waitq, t, i) /\ waitq' = InsertAt(waitq, i, t)
  BY DEF Pend
<1>2. /\ waitq' \in Seq(Threads)
      /\ Len(waitq') = Len(waitq) + 1
      /\ \A k \in 1..(Len(waitq) + 1) :
           waitq'[k] = IF k < i THEN waitq[k] ELSE IF k = i THEN t ELSE waitq[k - 1]
  <2> DEFINE r == InsertAt(waitq, i, t)
  <2>1. /\ r \in Seq(Threads)
        /\ Len(r) = Len(waitq) + 1
        /\ ShiftedUp(r, waitq, i, t)
    BY ONLY <1>0, t \in Threads, i \in 1..(Len(waitq) + 1), InsertAtEntries, Zenon
  <2> HIDE DEF r
  <2>2. waitq' = r
    BY <1>1 DEF r
  <2> QED
    BY ONLY <2>1, <2>2, Zenon DEF ShiftedUp
<1>3. DOMAIN waitq = 1..Len(waitq) /\ DOMAIN waitq' = 1..(Len(waitq) + 1)
  BY <1>0, <1>2, LenProperties
<1>4. \A k \in DOMAIN waitq : waitq[k] # t
  BY <1>0 DEF WaitqConsistent, Contains
<1>5. ThreadTypeOK'
  BY <1>0, <1>2, <1>3 DEF Pend, ThreadTypeOK, ThreadInv
<1>6. WaitqConsistent'
  <2>1. /\ IsInjective(waitq')
        /\ \A u \in Threads : Contains(waitq', u) <=> (u = t \/ Contains(waitq, u))
    <3>1. waitq \in Seq(Threads) /\ IsInjective(waitq) /\ ~Contains(waitq, t)
      BY <1>0 DEF WaitqConsistent
    <3>2. /\ IsInjective(InsertAt(waitq, i, t))
          /\ \A u \in Threads :
               Contains(InsertAt(waitq, i, t), u) <=> (u = t \/ Contains(waitq, u))
      BY ONLY <3>1, t \in Threads, i \in 1..(Len(waitq) + 1), InsertAtMembers
    <3> QED
      BY <3>2, <1>1
  <2>3. \A u \in Threads : tstate'[u] = IF u = t THEN "pending" ELSE tstate[u]
    BY <1>0 DEF Pend
  <2>4. \A u \in Threads : tstate'[u] = "pending" <=> Contains(waitq', u)
    BY <1>0, <2>1, <2>3 DEF WaitqConsistent
  <2>5. \A u \in Threads : tmo'[u] = "expired" <=> Contains(expired', u)
    BY <1>0 DEF WaitqConsistent, Pend
  <2>6. \A u \in Threads : tstate'[u] # "pending" => tmo'[u] = "inactive"
    BY <1>0, <2>3 DEF WaitqConsistent, Pend
  <2> QED
    BY <1>0, <2>1, <2>4, <2>5, <2>6 DEF WaitqConsistent, Pend
<1>7. WaitqSorted'
  <2> SUFFICES ASSUME NEW j \in DOMAIN waitq', NEW k \in DOMAIN waitq', j < k
               PROVE  /\ Prio[waitq'[j]] <= Prio[waitq'[k]]
                      /\ Prio[waitq'[j]] = Prio[waitq'[k]] =>
                           waitq'[k] \notin ahead'[waitq'[j]]
    BY DEF WaitqSorted
  <2>1. \A u \in Threads : ahead'[u] = IF u = t THEN {waitq[m] : m \in DOMAIN waitq}
                                               ELSE ahead[u] \ {t}
    BY DEF Pend
  <2>2. \A m \in DOMAIN waitq : waitq[m] \in Threads /\ Prio[waitq[m]] \in Int
    BY <1>0, PrioAssumption
  <2>3. Prio[t] \in Int
    BY PrioAssumption
  <2>4. CASE j # i /\ k # i
    <3> DEFINE jj == IF j < i THEN j ELSE j - 1
               kk == IF k < i THEN k ELSE k - 1
    <3>1. jj \in DOMAIN waitq /\ kk \in DOMAIN waitq /\ jj < kk
      BY <1>0, <2>4, <1>1, <1>3
    <3>2. waitq'[j] = waitq[jj] /\ waitq'[k] = waitq[kk]
      BY <2>4, <1>2, <1>3
    <3> HIDE DEF jj, kk
    <3>3. /\ Prio[waitq[jj]] <= Prio[waitq[kk]]
          /\ Prio[waitq[jj]] = Prio[waitq[kk]] => waitq[kk] \notin ahead[waitq[jj]]
      BY <1>0, <3>1 DEF WaitqSorted
    <3>4. ahead'[waitq[jj]] = ahead[waitq[jj]] \ {t}
      BY <3>1, <2>1, <2>2, <1>4
    <3> QED
      BY <3>2, <3>3, <3>4
  <2>5. CASE j = i
    <3>1. k - 1 \in DOMAIN waitq /\ i <= k - 1 /\ waitq'[k] = waitq[k - 1] /\ waitq'[j] = t
      BY <2>5, <1>1, <1>2, <1>3
    <3>2. Prio[t] < Prio[waitq[i]]
      BY <3>1, <1>1, <1>3 DEF InsertPoint
    <3>3. i \in DOMAIN waitq /\ Prio[waitq[i]] <= Prio[waitq[k - 1]]
      <4>1. i \in DOMAIN waitq
        BY <3>1, <1>3
      <4>2. CASE i = k - 1
        BY <4>2, <4>1, <2>2
      <4>3. CASE i < k - 1
        BY <1>0, <4>3, <4>1, <3>1 DEF WaitqSorted
      <4> QED
        BY <4>1, <4>2, <4>3, <3>1, <1>3
    <3> QED
      BY <3>1, <3>2, <3>3, <2>2, <2>3
  <2>6. CASE k = i
    <3>1. j \in DOMAIN waitq /\ waitq'[j] = waitq[j] /\ waitq'[k] = t
      BY <2>6, <1>1, <1>2, <1>3
    <3>2. Prio[waitq[j]] <= Prio[t]
      BY <2>6, <1>1, <1>3 DEF InsertPoint
    <3>3. t \notin ahead'[waitq[j]]
      BY <3>1, <2>1, <2>2, <1>4
    <3> QED
      BY <3>1, <3>2, <3>3
  <2> QED
    BY <2>4, <2>5, <2>6
<1> QED
  BY <1>5, <1>6, <1>7 DEF ThreadInv

\* What the removal of the waiter at position i does to the queue, however
\* the wait ended.
LEMMA UnpendMembers ==
  ASSUME ThreadInv, NEW i \in DOMAIN waitq, waitq' = RemoveAt(waitq, i),
         ahead' = ahead
  PROVE  /\ waitq' \in Seq(Threads)
         /\ waitq[i] \in Threads
         /\ IsInjective(waitq')
         /\ \A u \in Threads : Contains(waitq', u) <=> (u # waitq[i] /\ Contains(waitq, u))
         /\ WaitqSorted'
<1>0. /\ waitq \in Seq(Threads)
      /\ DOMAIN waitq = 1..Len(waitq) /\ Len(waitq) \in Nat
      /\ WaitqSorted
      /\ IsInjective(waitq)
  BY LenProperties DEF ThreadInv, ThreadTypeOK, WaitqConsistent
<1> DEFINE r == RemoveAt(waitq, i)
<1>1. /\ r \in Seq(Threads)
      /\ Len(r) = Len(waitq) - 1
      /\ \A k \in 1..(Len(waitq) - 1) : r[k] = IF k < i THEN waitq[k] ELSE waitq[k + 1]
  <2>1. i \in 1..Len(waitq) /\ waitq \in Seq(Threads)
    BY <1>0
  <2>2. /\ RemoveAt(waitq, i) \in Seq(Threads)
        /\ Len(RemoveAt(waitq, i)) = Len(waitq) - 1
        /\ ShiftedDown(RemoveAt(waitq, i), waitq, i)
    BY ONLY <2>1, RemoveAtEntries, Zenon
  <2> QED
    BY ONLY <2>2, Zenon DEF ShiftedDown
<1>2. /\ IsInjective(r)
      /\ \A u \in Threads : Contains(r, u) <=> (u # waitq[i] /\ Contains(waitq, u))
  <2>1. i \in 1..Len(waitq) /\ waitq \in Seq(Threads) /\ IsInjective(waitq)
    BY <1>0
  <2> QED
    BY ONLY <2>1, RemoveAtMembers
<1> HIDE DEF r
<1>3. waitq' = r
  BY DEF r
<1>4. DOMAIN waitq' = 1..(Len(waitq) - 1)
  BY <1>1, <1>3, LenProperties
<1>5. WaitqSorted'
  <2> SUFFICES ASSUME NEW j \in 1..(Len(waitq) - 1), NEW k \in 1..(Len(waitq) - 1), j < k
               PROVE  /\ Prio[r[j]] <= Prio[r[k]]
                      /\ Prio[r[j]] = Prio[r[k]] => r[k] \notin ahead[r[j]]
    BY <1>3, <1>4 DEF WaitqSorted
  <2> DEFINE jj == IF j < i THEN j ELSE j + 1
             kk == IF k < i THEN k ELSE k + 1
  <2>1. jj \in 1..Len(waitq) /\ kk \in 1..Len(waitq) /\ jj < kk
    BY <1>0
  <2>2. r[j] = waitq[jj] /\ r[k] = waitq[kk]
    BY <1>1
  <2> HIDE DEF jj, kk
  <2> QED
    BY <2>1, <2>2, <1>0 DEF WaitqSorted
<1>6. waitq[i] \in Threads
  BY <1>0
<1>7. waitq' \in Seq(Threads)
  BY <1>1, <1>3
<1>8. /\ IsInjective(waitq')
      /\ \A u \in Threads : Contains(waitq', u) <=> (u # waitq[i] /\ Contains(waitq, u))
  BY <1>2, <1>3
<1> QED
  BY <1>5, <1>6, <1>7, <1>8

\* Ending the wait of a live waiter, as every object does to serve it,
\* whatever it returns to whom.
LEMMA UnpendInv ==
  ASSUME ThreadInv, NEW i \in DOMAIN waitq, Live(i),
         waitq' = RemoveAt(waitq, i),
         tstate' = [tstate EXCEPT ![waitq[i]] = "ready"],
         tmo' = [tmo EXCEPT ![waitq[i]] = "inactive"],
         UNCHANGED <<clock, expired, ahead>>
  PROVE  ThreadInv'
<1>0. /\ tstate \in [Threads -> {"ready", "pending", "dead"}]
      /\ tmo \in [Threads -> {"inactive", "armed", "expired"}]
      /\ clock \in {"idle", "collect", "handle"}
      /\ expired \in Seq(Threads)
      /\ ahead \in [Threads -> SUBSET Threads]
      /\ WaitqConsistent
  BY DEF ThreadInv, ThreadTypeOK
<1>1. /\ waitq' \in Seq(Threads)
      /\ waitq[i] \in Threads
      /\ IsInjective(waitq')
      /\ \A u \in Threads : Contains(waitq', u) <=> (u # waitq[i] /\ Contains(waitq, u))
      /\ WaitqSorted'
  BY UnpendMembers
<1> DEFINE w == waitq[i]
<1>2. /\ \A u \in Threads : tstate'[u] = IF u = w THEN "ready" ELSE tstate[u]
      /\ \A u \in Threads : tmo'[u] = IF u = w THEN "inactive" ELSE tmo[u]
      /\ expired' = expired /\ clock' = clock
  BY <1>0
<1>3. tmo[w] # "expired"
  BY DEF Live
<1>4. ThreadTypeOK'
  BY <1>0, <1>1 DEF ThreadTypeOK
<1> HIDE DEF w
<1>5. WaitqConsistent'
  <2>1. \A u \in Threads : tstate'[u] = "pending" <=> Contains(waitq', u)
    BY <1>0, <1>1, <1>2 DEF WaitqConsistent, w
  <2>2. \A u \in Threads : tmo'[u] = "expired" <=> Contains(expired', u)
    BY <1>0, <1>2, <1>3 DEF WaitqConsistent
  <2>3. \A u \in Threads : tstate'[u] # "pending" => tmo'[u] = "inactive"
    BY <1>0, <1>2 DEF WaitqConsistent
  <2> QED
    BY <1>0, <1>1, <1>2, <2>1, <2>2, <2>3 DEF WaitqConsistent
<1> QED
  BY <1>1, <1>4, <1>5 DEF ThreadInv

\* The same for an operation that serves one waiter and nobody else.
LEMMA WakeInv ==
  ASSUME ThreadInv, NEW i \in DOMAIN waitq, Live(i), NEW r, Wake(i, r)
  PROVE  ThreadInv'
BY UnpendInv DEF Wake

\* Ending every wait, outside the clock interrupt.
LEMMA WakeAllInv ==
  ASSUME ThreadInv, clock = "idle", NEW r, WakeAll(r)
  PROVE  ThreadInv'
<1>0. /\ tstate \in [Threads -> {"ready", "pending", "dead"}]
      /\ tmo \in [Threads -> {"inactive", "armed", "expired"}]
      /\ expired = << >>
      /\ ahead \in [Threads -> SUBSET Threads]
      /\ WaitqConsistent
  BY DEF ThreadInv, ThreadTypeOK, WaitqConsistent
<1>1. /\ waitq' = << >> /\ expired' = << >> /\ clock' = "idle" /\ ahead' = ahead
      /\ tstate' = [t \in Threads |-> IF tstate[t] = "pending" THEN "ready" ELSE tstate[t]]
      /\ tmo' = [t \in Threads |-> IF tstate[t] = "pending" THEN "inactive" ELSE tmo[t]]
  BY <1>0 DEF WakeAll
<1>2. ThreadTypeOK'
  BY <1>0, <1>1, EmptySeq DEF ThreadTypeOK
<1>3. \A t \in Threads : tmo[t] # "expired"
  BY <1>0 DEF WaitqConsistent, Contains
<1>4. WaitqConsistent'
  BY <1>0, <1>1, <1>3, EmptySeq DEF WaitqConsistent, IsInjective, Contains
<1>5. WaitqSorted'
  BY <1>1 DEF WaitqSorted
<1> QED
  BY <1>2, <1>4, <1>5 DEF ThreadInv

\* k_thread_abort().
LEMMA AbortInv ==
  ASSUME ThreadInv, NEW t \in Threads, Abort(t)
  PROVE  ThreadInv'
<1>0. /\ waitq \in Seq(Threads)
      /\ tstate \in [Threads -> {"ready", "pending", "dead"}]
      /\ tmo \in [Threads -> {"inactive", "armed", "expired"}]
      /\ expired \in Seq(Threads)
      /\ ahead \in [Threads -> SUBSET Threads]
      /\ WaitqConsistent /\ WaitqSorted
  BY DEF ThreadInv, ThreadTypeOK
<1>1. /\ \A u \in Threads : tstate'[u] = IF u = t THEN "dead" ELSE tstate[u]
      /\ \A u \in Threads : tmo'[u] = IF u = t THEN "inactive" ELSE tmo[u]
      /\ expired' = expired /\ clock' = clock /\ ahead' = ahead /\ clock = "idle"
  BY <1>0 DEF Abort
<1>2. /\ waitq' \in Seq(Threads)
      /\ IsInjective(waitq')
      /\ \A u \in Threads : Contains(waitq', u) <=> (u # t /\ Contains(waitq, u))
      /\ WaitqSorted'
  <2>1. CASE tstate[t] = "ready"
    <3>1. waitq' = waitq /\ ~Contains(waitq, t)
      BY <2>1, <1>0 DEF Abort, WaitqConsistent
    <3> QED
      BY <3>1, <1>0, <1>1 DEF WaitqConsistent, WaitqSorted
  <2>2. CASE tstate[t] = "pending"
    <3>1. PICK i \in DOMAIN waitq : waitq[i] = t /\ waitq' = RemoveAt(waitq, i)
      BY <2>2 DEF Abort
    <3> QED
      BY <3>1, <1>1, UnpendMembers
  <2> QED
    BY <2>1, <2>2, <1>0 DEF Abort
<1>3. ThreadTypeOK'
  BY <1>0, <1>1, <1>2 DEF Abort, ThreadTypeOK
<1>4. WaitqConsistent'
  <2>1. \A u \in Threads : Contains(expired', u) <=> Contains(expired, u)
    BY <1>1
  <2>2. ~Contains(expired, t)
    BY <1>0, <1>1 DEF WaitqConsistent, Contains
  <2>3. \A u \in Threads : tmo'[u] = "expired" <=> Contains(expired', u)
    BY <1>0, <1>1, <2>1, <2>2 DEF WaitqConsistent
  <2> QED
    BY <1>0, <1>1, <1>2, <2>3 DEF WaitqConsistent
<1> QED
  BY <1>2, <1>3, <1>4 DEF ThreadInv

\* The clock interrupt.  A timeout it has marked belongs to a thread that is
\* still on the wait queue when the second pass reaches it.
LEMMA TickInv ==
  ASSUME ThreadInv, Tick
  PROVE  ThreadInv'
<1>0. /\ waitq \in Seq(Threads)
      /\ tstate \in [Threads -> {"ready", "pending", "dead"}]
      /\ tmo \in [Threads -> {"inactive", "armed", "expired"}]
      /\ clock \in {"idle", "collect", "handle"}
      /\ expired \in Seq(Threads)
      /\ ahead \in [Threads -> SUBSET Threads]
      /\ WaitqConsistent /\ WaitqSorted
  BY DEF ThreadInv, ThreadTypeOK
<1>1. ASSUME NEW t \in Threads, TickCollect(t) PROVE ThreadInv'
  <2>1. /\ \A u \in Threads : tmo'[u] = IF u = t THEN "expired" ELSE tmo[u]
        /\ waitq' = waitq /\ tstate' = tstate /\ ahead' = ahead /\ clock' = "collect"
        /\ tmo[t] = "armed"
    BY <1>0, <1>1 DEF TickCollect
  <2>2. ~Contains(expired, t)
    BY <1>0, <2>1 DEF WaitqConsistent
  <2>3. /\ IsInjective(expired')
        /\ \A u \in Threads : Contains(expired', u) <=> (u = t \/ Contains(expired, u))
        /\ expired' \in Seq(Threads)
    <3>1. expired \in Seq(Threads) /\ IsInjective(expired) /\ expired' = <<t>> \o expired
      BY <1>0, <1>1 DEF TickCollect, WaitqConsistent
    <3>2. /\ <<t>> \o expired \in Seq(Threads)
          /\ IsInjective(<<t>> \o expired)
          /\ \A u \in Threads : Contains(<<t>> \o expired, u) <=> (u = t \/ Contains(expired, u))
      BY ONLY <2>2, <3>1, t \in Threads, PrependMembers
    <3> QED
      BY <3>1, <3>2
  <2>4. ThreadTypeOK'
    BY <1>0, <1>1, <2>1, <2>3 DEF TickCollect, ThreadTypeOK
  <2>5. WaitqConsistent'
    BY <1>0, <2>1, <2>2, <2>3 DEF WaitqConsistent
  <2>6. WaitqSorted'
    BY <1>0, <2>1 DEF WaitqSorted
  <2> QED
    BY <2>4, <2>5, <2>6 DEF ThreadInv
<1>2. ASSUME TickHandle PROVE ThreadInv'
  <2> DEFINE h == Head(expired)
  <2>1. /\ h \in Threads
        /\ Tail(expired) \in Seq(Threads)
        /\ Len(Tail(expired)) = Len(expired) - 1
        /\ Len(expired) \in Nat \ {0}
        /\ \A k \in 1..(Len(expired) - 1) : Tail(expired)[k] = expired[k + 1]
        /\ h = expired[1]
    BY <1>0, <1>2 DEF TickHandle
  <2> HIDE DEF h
  <2>2. PICK i \in DOMAIN waitq : waitq[i] = h /\ waitq' = RemoveAt(waitq, i)
    BY <1>2 DEF TickHandle, h
  <2>3. /\ waitq' \in Seq(Threads)
        /\ IsInjective(waitq')
        /\ \A u \in Threads : Contains(waitq', u) <=> (u # h /\ Contains(waitq, u))
        /\ WaitqSorted'
    <3>1. ahead' = ahead
      BY <1>2 DEF TickHandle
    <3> QED
      BY <2>2, <3>1, UnpendMembers
  <2>4. /\ \A u \in Threads : tstate'[u] = IF u = h THEN "ready" ELSE tstate[u]
        /\ \A u \in Threads : tmo'[u] = IF u = h THEN "inactive" ELSE tmo[u]
        /\ expired' = Tail(expired) /\ clock' = "handle"
    BY <1>0, <1>2, <2>1 DEF TickHandle, h
  <2>5. IsInjective(Tail(expired))
        /\ \A u \in Threads : Contains(Tail(expired), u) <=> (u # h /\ Contains(expired, u))
    <3>1. expired \in Seq(Threads) /\ IsInjective(expired) /\ expired # << >>
      BY <1>0, <1>2 DEF TickHandle, WaitqConsistent
    <3>2. /\ IsInjective(Tail(expired))
          /\ \A u \in Threads : Contains(Tail(expired), u) <=> (u # Head(expired) /\ Contains(expired, u))
      BY ONLY <3>1, TailMembers
    <3> QED
      BY <3>2 DEF h
  <2>6. ThreadTypeOK'
    BY <1>0, <1>2, <2>1, <2>3 DEF TickHandle, ThreadTypeOK, h
  <2>7. WaitqConsistent'
    <3>1. \A u \in Threads : tstate'[u] = "pending" <=> Contains(waitq', u)
      BY <1>0, <2>3, <2>4 DEF WaitqConsistent
    <3>2. \A u \in Threads : tmo'[u] = "expired" <=> Contains(expired', u)
      BY <1>0, <2>4, <2>5 DEF WaitqConsistent
    <3>3. \A u \in Threads : tstate'[u] # "pending" => tmo'[u] = "inactive"
      BY <1>0, <2>4 DEF WaitqConsistent
    <3> QED
      BY <2>3, <2>4, <2>5, <3>1, <3>2, <3>3 DEF WaitqConsistent
  <2> QED
    BY <2>3, <2>6, <2>7 DEF ThreadInv
<1>3. ASSUME TickEnd PROVE ThreadInv'
  <2>1. /\ waitq' = waitq /\ tstate' = tstate /\ tmo' = tmo /\ expired' = expired
        /\ ahead' = ahead /\ clock' = "idle" /\ expired = << >>
    BY <1>3 DEF TickEnd
  <2>2. ThreadTypeOK'
    BY <1>0, <2>1 DEF ThreadTypeOK
  <2>3. WaitqConsistent'
    BY <1>0, <2>1 DEF WaitqConsistent
  <2>4. WaitqSorted'
    BY <1>0, <2>1 DEF WaitqSorted
  <2> QED
    BY <2>2, <2>3, <2>4 DEF ThreadInv
<1> QED
  BY <1>1, <1>2, <1>3 DEF Tick

\* A call that returns at once touches no queue.
LEMMA ReturnInv ==
  ASSUME ThreadInv,
         UNCHANGED <<waitq, tstate, tmo, clock, expired, ahead>>
  PROVE  ThreadInv'
BY DEF ThreadInv, ThreadTypeOK, WaitqConsistent, WaitqSorted

-----------------------------------------------------------------------------
\* The waits that can still be served, told from the threads' own state.
OpenWaits == {t \in Threads : tstate[t] = "pending" /\ tmo[t] # "expired"}

\* A waiter counts as live exactly as long as its wait can still be served.
LEMMA LiveWaitersAre == ThreadInv => LiveWaiters = OpenWaits
<1> SUFFICES ASSUME ThreadInv PROVE LiveWaiters = OpenWaits
  OBVIOUS
<1>1. waitq \in Seq(Threads) /\ DOMAIN waitq = 1..Len(waitq)
  BY LenProperties DEF ThreadInv, ThreadTypeOK
<1>2. \A t \in Threads : tstate[t] = "pending" <=> \E i \in DOMAIN waitq : waitq[i] = t
  BY <1>1 DEF ThreadInv, WaitqConsistent, Contains
<1> QED
  BY <1>1, <1>2 DEF LiveWaiters, Live, OpenWaits

\* The same of the state after a step.
LEMMA LiveWaitersNext == ThreadInv' => (LiveWaiters = OpenWaits)'
BY LiveWaitersAre, PTL

\* A step of the clock interrupt returns nothing to anybody, and at most ends
\* one wait: when it marks the timeout, not when it unpends the thread.
LEMMA TickWaits ==
  ASSUME ThreadInv, Tick
  PROVE  /\ ret' = ret
         /\ \A u \in Threads : tstate'[u] = "pending" => tstate[u] = "pending"
         /\ OpenWaits' = OpenWaits \/ \E t \in OpenWaits : OpenWaits' = OpenWaits \ {t}
<1>0. /\ tstate \in [Threads -> {"ready", "pending", "dead"}]
      /\ tmo \in [Threads -> {"inactive", "armed", "expired"}]
      /\ \A u \in Threads : tstate[u] # "pending" => tmo[u] = "inactive"
  BY DEF ThreadInv, ThreadTypeOK, WaitqConsistent
<1>1. ASSUME NEW t \in Threads, TickCollect(t)
      PROVE  t \in OpenWaits /\ OpenWaits' = OpenWaits \ {t}
  BY <1>0, <1>1 DEF TickCollect, OpenWaits
<1>2. ASSUME TickHandle
      PROVE  /\ OpenWaits' = OpenWaits
             /\ \A u \in Threads : tstate'[u] = "pending" => tstate[u] = "pending"
  <2> DEFINE h == Head(expired)
  <2>1. h \in Threads /\ tmo[h] = "expired"
    <3>1. expired \in Seq(Threads) /\ expired # << >>
      BY <1>2 DEF ThreadInv, ThreadTypeOK, TickHandle
    <3>2. h \in Threads /\ h = expired[1] /\ 1 \in 1..Len(expired)
      BY <3>1
    <3> QED
      BY <3>2 DEF ThreadInv, WaitqConsistent, Contains
  <2>2. /\ tstate' = [tstate EXCEPT ![h] = "ready"]
        /\ tmo' = [tmo EXCEPT ![h] = "inactive"]
    BY <1>2 DEF TickHandle
  <2> HIDE DEF h
  <2> QED
    BY <1>0, <2>1, <2>2 DEF OpenWaits
<1>3. TickEnd => OpenWaits' = OpenWaits /\ tstate' = tstate
  BY DEF TickEnd, OpenWaits
<1>4. ret' = ret
  BY DEF Tick, TickCollect, TickHandle, TickEnd
<1>5. \A u \in Threads : tstate'[u] = "pending" => tstate[u] = "pending"
  BY <1>2, <1>3 DEF Tick, TickCollect
<1> QED
  BY <1>1, <1>2, <1>3, <1>4, <1>5 DEF Tick

\* k_thread_abort() ends at most the wait of the thread it kills.
LEMMA AbortWaits ==
  ASSUME ThreadInv, NEW t \in Threads, Abort(t)
  PROVE  /\ ret' = ret
         /\ \A u \in Threads : tstate'[u] = "pending" => tstate[u] = "pending"
         /\ OpenWaits' = OpenWaits \ {t}
<1>0. /\ tstate \in [Threads -> {"ready", "pending", "dead"}]
      /\ tmo \in [Threads -> {"inactive", "armed", "expired"}]
  BY DEF ThreadInv, ThreadTypeOK
<1> QED
  BY <1>0 DEF Abort, OpenWaits

\* A call that blocks opens the wait of its thread.
LEMMA PendWaits ==
  ASSUME ThreadInv, NEW t \in Threads, Running(t), NEW timeout, Pend(t, timeout)
  PROVE  /\ OpenWaits' = OpenWaits \cup {t}
         /\ t \notin OpenWaits
         /\ tstate' = [tstate EXCEPT ![t] = "pending"]
<1>0. /\ tstate \in [Threads -> {"ready", "pending", "dead"}]
      /\ tmo \in [Threads -> {"inactive", "armed", "expired"}]
      /\ tmo[t] = "inactive"
  BY DEF ThreadInv, ThreadTypeOK, WaitqConsistent, Running
<1> QED
  BY <1>0 DEF Pend, Running, OpenWaits

\* _find_first_thread_to_unpend() returns a thread whose wait is open, and
\* taking it off the queue closes that wait only.
LEMMA UnpendWaits ==
  ASSUME ThreadInv, NEW i \in DOMAIN waitq, FirstToUnpend(i),
         tstate' = [tstate EXCEPT ![waitq[i]] = "ready"],
         tmo' = [tmo EXCEPT ![waitq[i]] = "inactive"]
  PROVE  /\ waitq[i] \in OpenWaits
         /\ OpenWaits' = OpenWaits \ {waitq[i]}
<1>0. /\ tstate \in [Threads -> {"ready", "pending", "dead"}]
      /\ tmo \in [Threads -> {"inactive", "armed", "expired"}]
      /\ waitq[i] \in Threads
  BY DEF ThreadInv, ThreadTypeOK
<1>1. waitq[i] \in OpenWaits
  BY LiveWaitersAre DEF LiveWaiters, FirstToUnpend
<1> QED
  BY <1>0, <1>1 DEF OpenWaits

-----------------------------------------------------------------------------
(* KSem: the semaphore *)

\* The return value of a blocked thread is the -EAGAIN that _Swap() stored.
PendingReturn == \A t \in Threads : tstate[t] = "pending" => ret[t] = "EAGAIN"

\* The inductive invariant.  NoneLeftWaiting is not inductive by itself: that a
\* give to a waiter leaves the count alone says nothing about the other
\* waiters unless the queue is known to hold exactly the pending threads, and
\* that a timed-out waiter may be passed over needs the clock interrupt's list
\* to hold exactly the marked ones.  PendingReturn is what tells a thread that
\* timed out from one that was served.
SemIInv == SemTypeOK /\ ThreadInv /\ NoneLeftWaiting /\ PendingReturn

\* k_sem_init() establishes the invariant.
LEMMA SemInitIInv == SemInit => SemIInv
<1> SUFFICES ASSUME SemInit PROVE SemIInv
  OBVIOUS
<1>1. ThreadInv
  BY ThreadInitInv DEF SemInit
<1>2. SemTypeOK
  BY <1>1, SemAssumption DEF SemInit, SemTypeOK, ThreadInit, ThreadInv, Returns
<1>3. NoneLeftWaiting
  BY DEF SemInit, ThreadInit, NoneLeftWaiting, LiveWaiters
<1>4. PendingReturn
  BY DEF SemInit, ThreadInit, PendingReturn
<1> QED
  BY <1>1, <1>2, <1>3, <1>4 DEF SemIInv

\* Every operation, and every step of the clock interrupt, preserves it.
LEMMA SemNextInv == SemIInv /\ [SemNext]_semVars => (SemTypeOK /\ ThreadInv /\ NoneLeftWaiting)'
<1> SUFFICES ASSUME SemIInv, [SemNext]_semVars PROVE (SemTypeOK /\ ThreadInv /\ NoneLeftWaiting)'
  OBVIOUS
<1>0. /\ ThreadInv /\ NoneLeftWaiting /\ SemTypeOK
      /\ ret \in [Threads -> Returns]
      /\ count \in 0..Limit /\ Limit \in Nat \ {0}
      /\ waitq \in Seq(Threads)
      /\ tstate \in [Threads -> {"ready", "pending", "dead"}]
      /\ tmo \in [Threads -> {"inactive", "armed", "expired"}]
  BY SemAssumption DEF SemIInv, SemTypeOK, ThreadTypeOK
<1>a. ThreadInv' => LiveWaiters' = {t \in Threads : tstate'[t] = "pending" /\ tmo'[t] # "expired"}
  BY LiveWaitersNext DEF OpenWaits
<1>b. LiveWaiters = {t \in Threads : tstate[t] = "pending" /\ tmo[t] # "expired"}
  BY <1>0, LiveWaitersAre DEF OpenWaits
<1>c. ThreadInv' => ThreadTypeOK'
  BY DEF ThreadInv
<1>1. CASE Give
  <2>1. ASSUME NEW i \in DOMAIN waitq, FirstToUnpend(i), Wake(i, "OK"), UNCHANGED count
        PROVE  (SemTypeOK /\ ThreadInv /\ NoneLeftWaiting)'
    <3>1. ThreadInv'
      BY <1>0, <2>1, WakeInv DEF FirstToUnpend
    <3>2. SemTypeOK'
      BY <1>0, <1>c, <2>1, <3>1 DEF Wake, SemTypeOK, Returns
    <3>3. count = 0
      BY <1>0, <2>1 DEF NoneLeftWaiting, LiveWaiters, FirstToUnpend
    <3> QED
      BY <1>0, <2>1, <3>1, <3>2, <3>3 DEF NoneLeftWaiting
  <2>2. ASSUME NoneToUnpend, count' = IncrementUpToLimit(count), UNCHANGED threadVars
        PROVE  (SemTypeOK /\ ThreadInv /\ NoneLeftWaiting)'
    <3>1. ThreadInv'
      BY <1>0, <2>2, ReturnInv DEF threadVars
    <3>2. SemTypeOK'
      BY <1>0, <1>c, <2>2, <3>1 DEF SemTypeOK, IncrementUpToLimit, threadVars
    <3>3. LiveWaiters = {}
      BY <2>2 DEF NoneToUnpend, LiveWaiters
    <3>4. LiveWaiters' = {}
      BY <1>a, <1>b, <2>2, <3>1, <3>3 DEF threadVars
    <3> QED
      BY <3>1, <3>2, <3>4 DEF NoneLeftWaiting
  <2> QED
    BY <1>1, <2>1, <2>2 DEF Give
<1>2. ASSUME NEW t \in Threads, NEW timeout \in Timeouts, Take(t, timeout)
      PROVE  (SemTypeOK /\ ThreadInv /\ NoneLeftWaiting)'
  <2>1. CASE count > 0 /\ count' = count - 1 /\ Return(t, "OK")
    <3>1. ThreadInv'
      BY <1>0, <2>1, ReturnInv DEF Return
    <3>2. SemTypeOK'
      BY <1>0, <1>c, <2>1, <3>1 DEF SemTypeOK, Return, Returns
    <3>3. LiveWaiters' = {}
      BY <1>0, <1>a, <1>b, <2>1, <3>1 DEF Return, NoneLeftWaiting
    <3> QED
      BY <3>1, <3>2, <3>3 DEF NoneLeftWaiting
  <2>2. CASE count = 0 /\ timeout = "nowait" /\ Return(t, "EBUSY") /\ UNCHANGED count
    <3>1. ThreadInv'
      BY <1>0, <2>2, ReturnInv DEF Return
    <3>2. SemTypeOK'
      BY <1>0, <1>c, <2>2, <3>1 DEF SemTypeOK, Return, Returns
    <3> QED
      BY <2>2, <3>1, <3>2, <1>0 DEF NoneLeftWaiting
  <2>3. CASE count = 0 /\ timeout # "nowait" /\ Pend(t, timeout) /\ UNCHANGED count
    <3>1. ThreadInv'
      BY <1>0, <1>2, <2>3, PendInv DEF Take
    <3>2. SemTypeOK'
      BY <1>0, <1>c, <2>3, <3>1 DEF SemTypeOK, Pend, Returns
    <3> QED
      BY <2>3, <3>1, <3>2, <1>0 DEF NoneLeftWaiting
  <2> QED
    BY <1>2, <2>1, <2>2, <2>3 DEF Take
<1>3. CASE IsrTake
  <2>1. ThreadInv'
    BY <1>0, <1>3, ReturnInv DEF IsrTake, threadVars
  <2>2. SemTypeOK'
    BY <1>0, <1>c, <1>3, <2>1 DEF SemTypeOK, IsrTake, threadVars
  <2>3. LiveWaiters' = {}
    BY <1>0, <1>a, <1>b, <1>3, <2>1 DEF IsrTake, threadVars, NoneLeftWaiting
  <2> QED
    BY <2>1, <2>2, <2>3 DEF NoneLeftWaiting
<1>4. CASE Reset
  <2>1. ThreadInv'
    BY <1>0, <1>4, ReturnInv DEF Reset, threadVars
  <2>2. SemTypeOK'
    BY <1>0, <1>c, <1>4, <2>1 DEF SemTypeOK, Reset, threadVars
  <2> QED
    BY <1>4, <2>1, <2>2 DEF NoneLeftWaiting, Reset
<1>5. ASSUME NEW t \in Threads, SemKill(t) PROVE (SemTypeOK /\ ThreadInv /\ NoneLeftWaiting)'
  <2>1. ThreadInv'
    BY <1>0, <1>5, AbortInv DEF SemKill
  <2>2. SemTypeOK'
    BY <1>0, <1>c, <1>5, <2>1 DEF SemTypeOK, SemKill, Abort
  <2>3. \A u \in Threads : tstate'[u] = "pending" /\ tmo'[u] # "expired" =>
                             tstate[u] = "pending" /\ tmo[u] # "expired"
    BY <1>0, <1>5 DEF SemKill, Abort
  <2>4. LiveWaiters = {} => LiveWaiters' = {}
    BY <1>a, <1>b, <2>1, <2>3
  <2> QED
    BY <1>0, <1>5, <2>1, <2>2, <2>4 DEF NoneLeftWaiting, SemKill
<1>6. CASE SemClock
  <2>1. ThreadInv'
    BY <1>0, <1>6, TickInv DEF SemClock
  <2>2. SemTypeOK'
    BY <1>0, <1>c, <1>6, <2>1
    DEF SemTypeOK, SemClock, Tick, TickCollect, TickHandle, TickEnd
  <2>3. \A u \in Threads : tstate'[u] = "pending" /\ tmo'[u] # "expired" =>
                             tstate[u] = "pending" /\ tmo[u] # "expired"
    <3>1. ASSUME NEW v \in Threads, TickCollect(v)
          PROVE  \A u \in Threads : tstate'[u] = "pending" /\ tmo'[u] # "expired" =>
                                      tstate[u] = "pending" /\ tmo[u] # "expired"
      BY <1>0, <3>1 DEF TickCollect
    <3>2. ASSUME TickHandle
          PROVE  \A u \in Threads : tstate'[u] = "pending" /\ tmo'[u] # "expired" =>
                                      tstate[u] = "pending" /\ tmo[u] # "expired"
      BY <1>0, <3>2 DEF TickHandle
    <3>3. ASSUME TickEnd
          PROVE  \A u \in Threads : tstate'[u] = "pending" /\ tmo'[u] # "expired" =>
                                      tstate[u] = "pending" /\ tmo[u] # "expired"
      BY <3>3 DEF TickEnd
    <3> QED
      BY <1>6, <3>1, <3>2, <3>3 DEF SemClock, Tick
  <2>4. LiveWaiters = {} => LiveWaiters' = {}
    BY <1>a, <1>b, <2>1, <2>3
  <2> QED
    BY <1>0, <1>6, <2>1, <2>2, <2>4 DEF NoneLeftWaiting, SemClock
<1>7. CASE UNCHANGED semVars
  <2>1. ThreadInv'
    BY <1>0, <1>7, ReturnInv DEF semVars, threadVars
  <2>2. SemTypeOK'
    BY <1>0, <1>c, <1>7, <2>1 DEF SemTypeOK, semVars, threadVars
  <2>3. LiveWaiters' = LiveWaiters
    BY <1>a, <1>b, <1>7, <2>1 DEF semVars, threadVars
  <2> QED
    BY <1>0, <1>7, <2>1, <2>2, <2>3 DEF NoneLeftWaiting, semVars
<1> QED
  BY <1>1, <1>2, <1>3, <1>4, <1>5, <1>6, <1>7 DEF SemNext

\* Only _Swap(), called by the thread itself before it blocks, and whoever
\* makes the thread ready write its return value.
LEMMA SemNextReturn == SemIInv /\ [SemNext]_semVars => PendingReturn'
<1> SUFFICES ASSUME SemIInv, [SemNext]_semVars, NEW t \in Threads, tstate'[t] = "pending"
             PROVE  ret'[t] = "EAGAIN"
  BY DEF PendingReturn
<1>0. /\ tstate \in [Threads -> {"ready", "pending", "dead"}]
      /\ ret \in [Threads -> Returns]
      /\ waitq \in Seq(Threads)
      /\ tstate[t] = "pending" => ret[t] = "EAGAIN"
  BY DEF SemIInv, SemTypeOK, ThreadTypeOK, PendingReturn
<1>1. CASE Give
  <2>1. ASSUME NEW i \in DOMAIN waitq, Wake(i, "OK") PROVE ret'[t] = "EAGAIN"
    <3>1. waitq[i] \in Threads
      BY <1>0
    <3> QED
      BY <1>0, <2>1, <3>1 DEF Wake
  <2> QED
    BY <1>0, <1>1, <2>1 DEF Give, threadVars
<1>2. ASSUME NEW u \in Threads, NEW timeout \in Timeouts, Take(u, timeout)
      PROVE  ret'[t] = "EAGAIN"
  BY <1>0, <1>2 DEF Take, Return, Pend, Running
<1>3. CASE IsrTake \/ Reset
  BY <1>0, <1>3 DEF IsrTake, Reset, threadVars
<1>4. ASSUME NEW u \in Threads, SemKill(u) PROVE ret'[t] = "EAGAIN"
  BY <1>0, <1>4 DEF SemKill, Abort
<1>5. CASE SemClock
  <2>1. ASSUME NEW u \in Threads, TickCollect(u) PROVE ret'[t] = "EAGAIN"
    BY <1>0, <2>1 DEF TickCollect
  <2>2. ASSUME TickHandle PROVE ret'[t] = "EAGAIN"
    BY <1>0, <2>2 DEF TickHandle
  <2>3. ASSUME TickEnd PROVE ret'[t] = "EAGAIN"
    BY <1>0, <2>3 DEF TickEnd
  <2> QED
    BY <1>5, <2>1, <2>2, <2>3 DEF SemClock, Tick
<1>6. CASE UNCHANGED semVars
  BY <1>0, <1>6 DEF semVars, threadVars
<1> QED
  BY <1>1, <1>2, <1>3, <1>4, <1>5, <1>6 DEF SemNext

\* The invariant holds in every state of the semaphore.
LEMMA SemSpecIInv == SemSpec => []SemIInv
<1>1. SemIInv /\ [SemNext]_semVars => SemIInv'
  BY SemNextInv, SemNextReturn DEF SemIInv
<1> QED
  BY <1>1, SemInitIInv, PTL DEF SemSpec

\* The count stays within 0..limit, and do_sem_give() and k_sem_take() never
\* leave a unit in it while a thread whose wait is not over is blocked.
THEOREM SemNoLostWakeup == SemSpec => []NoLostWakeup
<1>1. SemIInv => NoLostWakeup
  BY DEF SemIInv, NoLostWakeup
<1> QED
  BY <1>1, SemSpecIInv, PTL

\* The _THREAD_PENDING bits, the wait queue and the clock interrupt's list of
\* expired timeouts agree in every state.
THEOREM SemWaitqConsistent == SemSpec => []WaitqConsistent
<1>1. SemIInv => WaitqConsistent
  BY DEF SemIInv, ThreadInv
<1> QED
  BY <1>1, SemSpecIInv, PTL

-----------------------------------------------------------------------------
\* A unit goes to the live waiter of the highest priority that has waited
\* longest: _pend_thread() inserts behind waiters of equal priority and
\* do_sem_give() takes the first one that is not marked.
THEOREM SemGrantInOrder == SemSpec => GrantInOrder
<1> DEFINE A == \A b \in Threads :
                  tstate[b] = "pending" /\ tstate'[b] = "ready" /\ ret'[b] = "OK" =>
                    /\ b \in LiveWaiters
                    /\ \A a \in LiveWaiters \ {b} : ~Beats(a, b)
<1>1. SemIInv /\ [SemNext]_semVars => [A]_semVars
  <2> SUFFICES ASSUME SemIInv, SemNext, NEW b \in Threads,
                      tstate[b] = "pending", tstate'[b] = "ready", ret'[b] = "OK"
               PROVE  /\ b \in LiveWaiters
                      /\ \A a \in LiveWaiters \ {b} : ~Beats(a, b)
    OBVIOUS
  <2>0. /\ tstate \in [Threads -> {"ready", "pending", "dead"}]
        /\ ret \in [Threads -> Returns]
        /\ waitq \in Seq(Threads) /\ DOMAIN waitq = 1..Len(waitq)
        /\ ret[b] = "EAGAIN"
        /\ WaitqSorted /\ IsInjective(waitq)
    BY LenProperties DEF SemIInv, SemTypeOK, ThreadTypeOK, PendingReturn, ThreadInv, WaitqConsistent
  <2>1. ASSUME NEW t \in Threads, NEW timeout \in Timeouts, Take(t, timeout)
        PROVE  FALSE
    BY <2>0, <2>1 DEF Take, Return, Pend, Running
  <2>2. ASSUME IsrTake \/ Reset PROVE FALSE
    BY <2>0, <2>2 DEF IsrTake, Reset, threadVars
  <2>3. ASSUME NEW t \in Threads, SemKill(t) PROVE FALSE
    BY <2>0, <2>3 DEF SemKill, Abort
  <2>4. ASSUME SemClock PROVE FALSE
    BY <2>0, <2>4 DEF SemClock, Tick, TickCollect, TickHandle, TickEnd
  <2>5. CASE Give
    <3>1. PICK i \in DOMAIN waitq : FirstToUnpend(i) /\ Wake(i, "OK")
      BY <2>0, <2>5 DEF Give, threadVars
    <3>2. waitq[i] = b
      BY <2>0, <3>1 DEF Wake
    <3>3. b \in LiveWaiters
      BY <3>1, <3>2 DEF FirstToUnpend, LiveWaiters
    <3>4. ASSUME NEW k \in DOMAIN waitq, Live(k), waitq[k] # b
          PROVE  ~Beats(waitq[k], b)
      <4>1. i \in 1..Len(waitq) /\ k \in 1..Len(waitq) /\ k >= i
        BY <2>0, <3>1, <3>4 DEF FirstToUnpend
      <4>2. waitq[k] \in Threads /\ Prio[waitq[k]] \in Int /\ Prio[b] \in Int
        BY <2>0, PrioAssumption
      <4>4. CASE i < k
        BY <4>1, <4>2, <4>4, <3>2, <2>0 DEF WaitqSorted, Beats
      <4> QED
        BY <4>1, <4>4, <3>2, <3>4
    <3> QED
      BY <3>3, <3>4 DEF LiveWaiters
  <2> QED
    BY <2>1, <2>2, <2>3, <2>4, <2>5 DEF SemNext
<1> QED
  BY <1>1, SemSpecIInv, PTL DEF GrantInOrder, SemSpec

-----------------------------------------------------------------------------
\* A step that leaves the waits, their timeouts and the return values of all
\* threads but t alone changes the abstract result of t at most.
LEMMA SemResultOf ==
  ASSUME ThreadInv
  PROVE  /\ semResult = [t \in Threads |-> IF t \in LiveWaiters THEN "waiting" ELSE ret[t]]
         /\ LiveWaiters = {t \in Threads : tstate[t] = "pending" /\ tmo[t] # "expired"}
BY LiveWaitersAre DEF semResult, OpenWaits

\* sem.c implements AbsSem: every step of the semaphore is an abstract step or
\* invisible.  A wait is over, abstractly, when the clock interrupt marks its
\* timeout, not when it unpends the thread.
THEOREM SemImplementsAbsSem == SemSpec => ImplementsAbsSem
<1>1. SemInit => AbstractSem!AbsInit
  <2> SUFFICES ASSUME SemInit PROVE AbstractSem!AbsInit
    OBVIOUS
  <2>1. LiveWaiters = {}
    BY DEF SemInit, ThreadInit, LiveWaiters
  <2>2. semResult = [t \in Threads |-> "none"]
    BY <2>1 DEF SemInit, ThreadInit, semResult
  <2> QED
    BY <2>2 DEF SemInit, AbstractSem!AbsInit
<1>2. SemIInv /\ SemIInv' /\ [SemNext]_semVars => [AbstractSem!AbsNext]_(AbstractSem!absVars)
  <2> SUFFICES ASSUME SemIInv, SemIInv', [SemNext]_semVars
               PROVE  AbstractSem!AbsNext \/ UNCHANGED <<count, semResult>>
    BY DEF AbstractSem!absVars
  <2>0. /\ tstate \in [Threads -> {"ready", "pending", "dead"}]
        /\ tmo \in [Threads -> {"inactive", "armed", "expired"}]
        /\ ret \in [Threads -> Returns]
        /\ waitq \in Seq(Threads)
        /\ count \in 0..Limit /\ Limit \in Nat \ {0}
        /\ \A u \in Threads : tstate[u] = "pending" => ret[u] = "EAGAIN"
        /\ \A u \in Threads : tstate[u] # "pending" => tmo[u] = "inactive"
    BY SemAssumption DEF SemIInv, SemTypeOK, ThreadTypeOK, PendingReturn, ThreadInv, WaitqConsistent
  <2> DEFINE L == {u \in Threads : tstate[u] = "pending" /\ tmo[u] # "expired"}
             M == {u \in Threads : tstate'[u] = "pending" /\ tmo'[u] # "expired"}
  <2>1. /\ semResult = [u \in Threads |-> IF u \in L THEN "waiting" ELSE ret[u]]
        /\ LiveWaiters = L
    BY SemResultOf DEF SemIInv
  <2>2. semResult' = [u \in Threads |-> IF u \in M THEN "waiting" ELSE ret'[u]]
    <3>1. waitq' \in Seq(Threads) /\ DOMAIN waitq' = 1..Len(waitq')
      BY LenProperties DEF SemIInv, ThreadInv, ThreadTypeOK
    <3>2. \A u \in Threads : tstate'[u] = "pending" <=> \E i \in DOMAIN waitq' : waitq'[i] = u
      BY <3>1, SMTT(40) DEF SemIInv, ThreadInv, WaitqConsistent, Contains
    <3>3. LiveWaiters' = M
      BY <3>1, <3>2 DEF LiveWaiters, Live
    <3> QED
      BY <3>3 DEF semResult
  <2>3. AbstractSem!Waiting = L
    BY <2>0, <2>1 DEF AbstractSem!Waiting, Returns
  <2> HIDE DEF L, M
  <2>4. CASE Give
    <3>1. ASSUME NEW i \in DOMAIN waitq, FirstToUnpend(i), Wake(i, "OK"), UNCHANGED count
          PROVE  AbstractSem!AbsNext
      <4> DEFINE t == waitq[i]
      <4>1. t \in Threads /\ t \in L
        BY <2>0, <2>1, <3>1 DEF FirstToUnpend, LiveWaiters
      <4>2. /\ M = L \ {t}
            /\ \A u \in Threads : ret'[u] = IF u = t THEN "OK" ELSE ret[u]
        BY <2>0, <3>1, <4>1 DEF Wake, L, M
      <4> HIDE DEF t
      <4>3. semResult' = [semResult EXCEPT ![t] = "OK"]
        BY <2>1, <2>2, <4>1, <4>2
      <4>4. AbstractSem!AbsGrant(t)
        BY <2>3, <3>1, <4>1, <4>3 DEF AbstractSem!AbsGrant
      <4> QED
        BY <4>1, <4>4 DEF AbstractSem!AbsNext
    <3>2. ASSUME NoneToUnpend, count' = IncrementUpToLimit(count), UNCHANGED threadVars
          PROVE  AbstractSem!AbsNext
      <4>1. L = {}
        BY <2>1, <3>2 DEF NoneToUnpend, LiveWaiters
      <4>2. semResult' = semResult
        BY <2>1, <2>2, <3>2 DEF threadVars, L, M
      <4>3. count' = IF count < Limit THEN count + 1 ELSE Limit
        BY <2>0, <3>2 DEF IncrementUpToLimit
      <4>4. AbstractSem!AbsDeposit
        BY <2>3, <4>1, <4>2, <4>3 DEF AbstractSem!AbsDeposit
      <4> QED
        BY <4>4 DEF AbstractSem!AbsNext
    <3> QED
      BY <2>4, <3>1, <3>2 DEF Give
  <2>5. ASSUME NEW t \in Threads, NEW timeout \in Timeouts, Take(t, timeout)
        PROVE  AbstractSem!AbsNext
    <3>0. t \notin L /\ tstate[t] = "ready"
      BY <2>0, <2>5 DEF Take, Running, L
    <3>1. CASE count > 0 /\ count' = count - 1 /\ Return(t, "OK")
      <4>1. semResult' = [semResult EXCEPT ![t] = "OK"]
        BY <2>0, <2>1, <2>2, <3>0, <3>1 DEF Return, L, M
      <4>2. AbstractSem!AbsTake(t)
        BY <2>3, <3>0, <3>1, <4>1 DEF AbstractSem!AbsTake
      <4> QED
        BY <4>2 DEF AbstractSem!AbsNext
    <3>2. CASE count = 0 /\ timeout = "nowait" /\ Return(t, "EBUSY") /\ UNCHANGED count
      <4>1. semResult' = [semResult EXCEPT ![t] = "EBUSY"]
        BY <2>0, <2>1, <2>2, <3>0, <3>2 DEF Return, L, M
      <4>2. AbstractSem!AbsRefuse(t)
        BY <2>3, <3>0, <3>2, <4>1 DEF AbstractSem!AbsRefuse
      <4> QED
        BY <4>2 DEF AbstractSem!AbsNext
    <3>3. CASE count = 0 /\ timeout # "nowait" /\ Pend(t, timeout) /\ UNCHANGED count
      <4>1. /\ M = L \cup {t}
            /\ \A u \in Threads : u # t => ret'[u] = ret[u]
        BY <2>0, <3>0, <3>3 DEF Pend, L, M
      <4>2. semResult' = [semResult EXCEPT ![t] = "waiting"]
        BY <2>0, <2>1, <2>2, <4>1
      <4>3. AbstractSem!AbsBlock(t)
        BY <2>3, <3>0, <3>3, <4>2 DEF AbstractSem!AbsBlock
      <4> QED
        BY <4>3 DEF AbstractSem!AbsNext
    <3> QED
      BY <2>5, <3>1, <3>2, <3>3 DEF Take
  <2>6. CASE IsrTake
    <3>1. semResult' = semResult
      BY <2>1, <2>2, <2>6 DEF IsrTake, threadVars, L, M
    <3> QED
      BY <2>6, <3>1 DEF IsrTake, AbstractSem!AbsNext, AbstractSem!AbsIsrTake
  <2>7. CASE Reset
    <3>1. semResult' = semResult
      BY <2>1, <2>2, <2>7 DEF Reset, threadVars, L, M
    <3> QED
      BY <2>7, <3>1 DEF Reset, AbstractSem!AbsNext, AbstractSem!AbsReset
  <2>8. ASSUME NEW t \in Threads, count' = count, t \in L, M = L \ {t},
               \A u \in Threads : ret'[u] = ret[u]
        PROVE  AbstractSem!AbsNext
    <3>1. ret[t] = "EAGAIN"
      BY <2>0, <2>8 DEF L
    <3>2. semResult' = [semResult EXCEPT ![t] = "EAGAIN"]
      BY <2>1, <2>2, <2>8, <3>1
    <3>3. AbstractSem!AbsTimeout(t)
      BY <2>3, <2>8, <3>2 DEF AbstractSem!AbsTimeout
    <3> QED
      BY <3>3 DEF AbstractSem!AbsNext
  <2>9. ASSUME count' = count, M = L, \A u \in Threads : ret'[u] = ret[u]
        PROVE  UNCHANGED <<count, semResult>>
    BY <2>1, <2>2, <2>9
  <2>10. ASSUME NEW t \in Threads, SemKill(t)
         PROVE  AbstractSem!AbsNext \/ UNCHANGED <<count, semResult>>
    <3>1. /\ count' = count /\ \A u \in Threads : ret'[u] = ret[u]
          /\ M = L \ {t}
      BY <2>0, <2>10 DEF SemKill, Abort, L, M
    <3>2. CASE t \in L
      BY <2>8, <3>1, <3>2
    <3>3. CASE t \notin L
      <4>1. M = L
        BY <3>1, <3>3
      <4> QED
        BY <2>9, <3>1, <4>1
    <3> QED
      BY <3>2, <3>3
  <2>11. CASE SemClock
    <3>1. ASSUME NEW t \in Threads, TickCollect(t)
          PROVE  AbstractSem!AbsNext
      <4>1. /\ count' = count /\ \A u \in Threads : ret'[u] = ret[u]
            /\ M = L \ {t} /\ t \in L
        BY <2>0, <2>11, <3>1 DEF SemClock, TickCollect, L, M
      <4> QED
        BY <2>8, <4>1
    <3>2. ASSUME TickHandle
          PROVE  UNCHANGED <<count, semResult>>
      <4> DEFINE h == Head(expired)
      <4>1. h \in Threads /\ tmo[h] = "expired"
        <5>1. expired \in Seq(Threads) /\ expired # << >>
          BY <3>2 DEF SemIInv, SemTypeOK, ThreadTypeOK, TickHandle
        <5>2. h \in Threads /\ h = expired[1] /\ 1 \in 1..Len(expired)
          BY <5>1
        <5> QED
          BY <5>2 DEF SemIInv, ThreadInv, WaitqConsistent, Contains
      <4>2. /\ count' = count /\ \A u \in Threads : ret'[u] = ret[u]
            /\ tstate' = [tstate EXCEPT ![h] = "ready"]
            /\ tmo' = [tmo EXCEPT ![h] = "inactive"]
        BY <2>11, <3>2 DEF SemClock, TickHandle
      <4> HIDE DEF h
      <4>3. M = L
        BY <2>0, <4>1, <4>2 DEF L, M
      <4> QED
        BY <2>9, <4>2, <4>3
    <3>3. ASSUME TickEnd
          PROVE  UNCHANGED <<count, semResult>>
      <4>1. /\ count' = count /\ ret' = ret /\ tstate' = tstate /\ tmo' = tmo
        BY <2>11, <3>3 DEF SemClock, TickEnd
      <4> QED
        BY <2>1, <2>2, <4>1 DEF L, M
    <3> QED
      BY <2>11, <3>1, <3>2, <3>3 DEF SemClock, Tick
  <2>12. CASE UNCHANGED semVars
    <3>1. count' = count /\ ret' = ret /\ tstate' = tstate /\ tmo' = tmo
      BY <2>12 DEF semVars, threadVars
    <3> QED
      BY <2>1, <2>2, <3>1 DEF L, M
  <2> QED
    BY <2>4, <2>5, <2>6, <2>7, <2>10, <2>11, <2>12 DEF SemNext
<1> QED
  BY <1>1, <1>2, SemSpecIInv, PTL DEF SemSpec, ImplementsAbsSem, AbstractSem!AbsSpec

-----------------------------------------------------------------------------
(* KMsgq: the message queue.  The wait queue that readers and writers share is
   never misread, and msg_q.c implements AbsMsgq. *)

\* A blocked call has the -EAGAIN of _Swap() as its return value, and was a
\* put or a get.
Blocked ==
  \A t \in Threads : tstate[t] = "pending" =>
    ret[t] = "EAGAIN" /\ op[t] \in {"put", "get"}

\* The inductive invariant.  WaitersMatchBuffer speaks of LiveWaiters, which
\* only ThreadInv ties to the states of the threads that a step changes; and
\* without Blocked a wait that ends would not tell how.
MsgqIInv == ThreadInv /\ WaitersMatchBuffer /\ Blocked

-----------------------------------------------------------------------------
(* The ring *)

\* The remainder at most one turn around the ring.
LEMMA Modulo ==
  ASSUME NEW m \in Nat \ {0}, NEW x \in 0..(2 * m - 1)
  PROVE  x % m = IF x < m THEN x ELSE x - m
OBVIOUS

\* A pointer that moves on stays in the ring, and each of the two moves keeps
\* the distance that used counts.
LEMMA RingMoves ==
  ASSUME rd \in Slots, wr \in Slots, used \in 0..MaxMsgs, RingConsistent
  PROVE  /\ Wrapped(rd) \in Slots /\ Wrapped(wr) \in Slots
         /\ used < MaxMsgs => Wrapped(wr) = (rd + (used + 1)) % MaxMsgs
         /\ used > 0 => wr = (Wrapped(rd) + (used - 1)) % MaxMsgs
         /\ used > 0 => Wrapped(wr) = (Wrapped(rd) + used) % MaxMsgs
         /\ wr = (wr + 0) % MaxMsgs
<1>0. MaxMsgs \in Nat \ {0} /\ rd \in 0..(MaxMsgs - 1) /\ wr \in 0..(MaxMsgs - 1)
  BY MsgqAssumption DEF Slots
<1>1. \A x \in 0..(2 * MaxMsgs - 1) : x % MaxMsgs = IF x < MaxMsgs THEN x ELSE x - MaxMsgs
  BY <1>0, Modulo
<1>2. wr = IF rd + used < MaxMsgs THEN rd + used ELSE rd + used - MaxMsgs
  BY <1>0, <1>1, rd + used \in 0..(2 * MaxMsgs - 1) DEF RingConsistent
<1>3. Wrapped(rd) \in 0..(MaxMsgs - 1) /\ Wrapped(wr) \in 0..(MaxMsgs - 1)
  BY <1>0 DEF Wrapped
<1>4. used < MaxMsgs => Wrapped(wr) = (rd + (used + 1)) % MaxMsgs
  <2> SUFFICES ASSUME used < MaxMsgs PROVE Wrapped(wr) = (rd + (used + 1)) % MaxMsgs
    OBVIOUS
  <2>1. rd + (used + 1) \in 0..(2 * MaxMsgs - 1)
    BY <1>0
  <2> QED
    BY <1>0, <1>1, <1>2, <2>1 DEF Wrapped
<1>5. used > 0 => wr = (Wrapped(rd) + (used - 1)) % MaxMsgs
  <2> SUFFICES ASSUME used > 0 PROVE wr = (Wrapped(rd) + (used - 1)) % MaxMsgs
    OBVIOUS
  <2>1. Wrapped(rd) + (used - 1) \in 0..(2 * MaxMsgs - 1)
    BY <1>0, <1>3
  <2> QED
    BY <1>0, <1>1, <1>2, <2>1 DEF Wrapped
<1>6. used > 0 => Wrapped(wr) = (Wrapped(rd) + used) % MaxMsgs
  <2> SUFFICES ASSUME used > 0 PROVE Wrapped(wr) = (Wrapped(rd) + used) % MaxMsgs
    OBVIOUS
  <2>1. Wrapped(rd) + used \in 0..(2 * MaxMsgs - 1)
    BY <1>0, <1>3
  <2> QED
    BY <1>0, <1>1, <1>2, <2>1 DEF Wrapped
<1>7. wr = (wr + 0) % MaxMsgs
  BY <1>0, <1>1, wr + 0 \in 0..(2 * MaxMsgs - 1)
<1> QED
  BY <1>3, <1>4, <1>5, <1>6, <1>7 DEF Slots

-----------------------------------------------------------------------------
(* The invariant *)

\* k_msgq_init() establishes the invariant.
LEMMA MsgqInitIInv == MsgqInit => MsgqIInv
<1> SUFFICES ASSUME MsgqInit PROVE MsgqIInv
  OBVIOUS
<1>1. ThreadInv
  BY ThreadInitInv DEF MsgqInit
<1>2. MsgqTypeOK
  BY <1>1, MsgqAssumption DEF MsgqInit, MsgqTypeOK, ThreadInit, ThreadInv, Slots
<1>3. RingConsistent
  BY MsgqAssumption, Modulo, 0 + 0 \in 0..(2 * MaxMsgs - 1) DEF MsgqInit, RingConsistent
<1>4. LiveWaiters = {}
  BY DEF MsgqInit, ThreadInit, LiveWaiters
<1>5. Blocked
  BY DEF MsgqInit, ThreadInit, Blocked
<1> QED
  BY <1>1, <1>2, <1>3, <1>4, <1>5 DEF MsgqIInv, WaitersMatchBuffer

\* Who calls: an interrupt handler, or a thread that runs.
Caller(c) == c = NoMsg \/ (c \in Threads /\ Running(c))

\* A successful put.
LEMMA PutNowInv ==
  ASSUME MsgqIInv, NEW c, Caller(c), NEW m \in Msgs, PutNow(c, m)
  PROVE  MsgqIInv'
<1>0. /\ ThreadInv /\ MsgqTypeOK /\ RingConsistent /\ Blocked
      /\ ret \in [Threads -> {"none", "OK", "ENOMSG", "EAGAIN"}]
      /\ buffer \in [Slots -> Msgs \cup {NoMsg}]
      /\ rd \in Slots /\ wr \in Slots
      /\ used \in 0..MaxMsgs /\ MaxMsgs \in Nat \ {0}
      /\ op \in [Threads -> {"none", "put", "get"}]
      /\ data \in [Threads -> Msgs \cup {NoMsg}]
      /\ tstate \in [Threads -> {"ready", "pending", "dead"}]
      /\ \A t \in OpenWaits : \/ op[t] = "get" /\ used = 0
                              \/ op[t] = "put" /\ used = MaxMsgs
      /\ waitq \in Seq(Threads)
  BY LiveWaitersAre, MsgqAssumption DEF MsgqIInv, WaitersMatchBuffer, MsgqTypeOK, ThreadTypeOK
<1>1. /\ used < MaxMsgs /\ taken' = NoMsg
      /\ \A t \in Threads : op'[t] = IF t = c THEN "put" ELSE op[t]
      /\ op' \in [Threads -> {"none", "put", "get"}]
  BY <1>0 DEF PutNow, Served
<1>2. c \notin OpenWaits
  BY MsgqAssumption DEF Caller, Running, OpenWaits
<1>3. \A t \in Threads : tstate[t] = "pending" => t # c
  BY MsgqAssumption DEF Caller, Running
<1>4. ASSUME NEW i \in DOMAIN waitq, FirstToUnpend(i), WakeAndReturn(i, c),
             data' = Served(data, c, m, waitq[i], m), UNCHANGED ringVars
      PROVE  MsgqIInv'
  <2>1. ThreadInv'
    BY <1>0, <1>4, UnpendInv DEF WakeAndReturn, FirstToUnpend
  <2>2. OpenWaits' = OpenWaits \ {waitq[i]}
    BY <1>0, <1>4, UnpendWaits DEF WakeAndReturn
  <2>a. waitq[i] \in Threads
    BY <1>0
  <2>3. ret' \in [Threads -> {"none", "OK", "ENOMSG", "EAGAIN"}]
    BY <1>0, <1>4 DEF WakeAndReturn, Served
  <2>4. data' \in [Threads -> Msgs \cup {NoMsg}]
    BY <1>0, <1>4 DEF Served
  <2>5. MsgqTypeOK'
    BY <1>0, <1>1, <1>4, <2>1, <2>3, <2>4 DEF MsgqTypeOK, ThreadInv, ringVars
  <2>6. \A t \in OpenWaits' : (op'[t] = "get" /\ used' = 0) \/ (op'[t] = "put" /\ used' = MaxMsgs)
    BY <1>0, <1>1, <1>2, <1>4, <2>2 DEF OpenWaits, ringVars
  <2>7. Blocked'
    BY <1>0, <1>1, <1>3, <1>4, <2>a DEF Blocked, WakeAndReturn, Served
  <2>8. RingConsistent'
    BY <1>0, <1>4 DEF RingConsistent, ringVars
  <2> QED
    BY <2>1, <2>5, <2>6, <2>7, <2>8, LiveWaitersNext DEF MsgqIInv, WaitersMatchBuffer
<1>5. ASSUME NoneToUnpend,
             buffer' = [buffer EXCEPT ![wr] = m], wr' = Wrapped(wr), used' = used + 1,
             data' = Served(data, c, m, c, m), ret' = Served(ret, c, "OK", c, "OK"),
             UNCHANGED <<rd, waitq, tstate, tmo, clock, expired, ahead>>
      PROVE  MsgqIInv'
  <2>1. ThreadInv'
    BY <1>0, <1>5, ReturnInv
  <2>2. OpenWaits' = {}
    <3>1. OpenWaits = {}
      BY <1>0, <1>5, LiveWaitersAre DEF NoneToUnpend, LiveWaiters
    <3> QED
      BY <3>1, <1>5 DEF OpenWaits
  <2>3. /\ Wrapped(wr) \in Slots
        /\ Wrapped(wr) = (rd + (used + 1)) % MaxMsgs
    BY <1>0, <1>1, RingMoves
  <2>4. /\ ret' \in [Threads -> {"none", "OK", "ENOMSG", "EAGAIN"}]
        /\ data' \in [Threads -> Msgs \cup {NoMsg}]
    BY <1>0, <1>5 DEF Served
  <2>5. used' \in 0..MaxMsgs /\ buffer' \in [Slots -> Msgs \cup {NoMsg}]
    BY <1>0, <1>1, <1>5
  <2>6. MsgqTypeOK'
    BY <1>0, <1>1, <1>5, <2>1, <2>3, <2>4, <2>5 DEF MsgqTypeOK, ThreadInv
  <2>7. Blocked'
    BY <1>0, <1>1, <1>3, <1>5 DEF Blocked, Served
  <2>8. RingConsistent'
    BY <1>5, <2>3 DEF RingConsistent
  <2> QED
    BY <2>1, <2>2, <2>6, <2>7, <2>8, LiveWaitersNext DEF MsgqIInv, WaitersMatchBuffer
<1> QED
  BY <1>4, <1>5 DEF PutNow

\* A successful get.  A waiter it serves waits to write and the ring is full,
\* so that the slot read is the slot written.
LEMMA GetNowInv ==
  ASSUME MsgqIInv, NEW c, Caller(c), GetNow(c)
  PROVE  MsgqIInv'
<1>0. /\ ThreadInv /\ MsgqTypeOK /\ RingConsistent /\ Blocked
      /\ ret \in [Threads -> {"none", "OK", "ENOMSG", "EAGAIN"}]
      /\ buffer \in [Slots -> Msgs \cup {NoMsg}]
      /\ rd \in Slots /\ wr \in Slots
      /\ used \in 0..MaxMsgs /\ MaxMsgs \in Nat \ {0}
      /\ op \in [Threads -> {"none", "put", "get"}]
      /\ data \in [Threads -> Msgs \cup {NoMsg}]
      /\ tstate \in [Threads -> {"ready", "pending", "dead"}]
      /\ \A t \in OpenWaits : \/ op[t] = "get" /\ used = 0
                              \/ op[t] = "put" /\ used = MaxMsgs
      /\ waitq \in Seq(Threads)
  BY LiveWaitersAre, MsgqAssumption DEF MsgqIInv, WaitersMatchBuffer, MsgqTypeOK, ThreadTypeOK
<1>1. /\ used > 0
      /\ rd' = Wrapped(rd)
      /\ \A t \in Threads : op'[t] = IF t = c THEN "get" ELSE op[t]
      /\ op' \in [Threads -> {"none", "put", "get"}]
      /\ data' \in [Threads -> Msgs \cup {NoMsg}]
      /\ taken' \in Msgs \cup {NoMsg}
  BY <1>0 DEF GetNow, Served
<1>2. c \notin OpenWaits /\ \A t \in Threads : tstate[t] = "pending" => t # c
  BY MsgqAssumption DEF Caller, Running, OpenWaits
<1>3. /\ Wrapped(rd) \in Slots /\ Wrapped(wr) \in Slots
      /\ wr = (Wrapped(rd) + (used - 1)) % MaxMsgs
      /\ Wrapped(wr) = (Wrapped(rd) + used) % MaxMsgs
  BY <1>0, <1>1, RingMoves
<1>4. ASSUME NEW i \in DOMAIN waitq, FirstToUnpend(i), WakeAndReturn(i, c),
             buffer' = [buffer EXCEPT ![wr] = data[waitq[i]]], wr' = Wrapped(wr),
             UNCHANGED used
      PROVE  MsgqIInv'
  <2>1. ThreadInv'
    BY <1>0, <1>4, UnpendInv DEF WakeAndReturn, FirstToUnpend
  <2>2. OpenWaits' = OpenWaits \ {waitq[i]}
    BY <1>0, <1>4, UnpendWaits DEF WakeAndReturn
  <2>3. waitq[i] \in Threads
    BY <1>0
  <2>4. /\ ret' \in [Threads -> {"none", "OK", "ENOMSG", "EAGAIN"}]
        /\ buffer' \in [Slots -> Msgs \cup {NoMsg}]
    BY <1>0, <1>4, <2>3 DEF WakeAndReturn, Served
  <2>5. MsgqTypeOK'
    BY <1>0, <1>1, <1>3, <1>4, <2>1, <2>4 DEF MsgqTypeOK, ThreadInv
  <2>6. \A t \in OpenWaits' : (op'[t] = "get" /\ used' = 0) \/ (op'[t] = "put" /\ used' = MaxMsgs)
    BY <1>0, <1>1, <1>2, <1>4, <2>2 DEF OpenWaits
  <2>7. Blocked'
    BY <1>0, <1>1, <1>2, <1>4, <2>3 DEF Blocked, WakeAndReturn, Served
  <2>8. RingConsistent'
    BY <1>1, <1>3, <1>4 DEF RingConsistent
  <2> QED
    BY <2>1, <2>5, <2>6, <2>7, <2>8, LiveWaitersNext DEF MsgqIInv, WaitersMatchBuffer
<1>5. ASSUME NoneToUnpend, used' = used - 1, ret' = Served(ret, c, "OK", c, "OK"),
             UNCHANGED <<buffer, wr, waitq, tstate, tmo, clock, expired, ahead>>
      PROVE  MsgqIInv'
  <2>1. ThreadInv'
    BY <1>0, <1>5, ReturnInv
  <2>2. OpenWaits' = {}
    <3>1. OpenWaits = {}
      BY <1>0, <1>5, LiveWaitersAre DEF NoneToUnpend, LiveWaiters
    <3> QED
      BY <3>1, <1>5 DEF OpenWaits
  <2>3. /\ ret' \in [Threads -> {"none", "OK", "ENOMSG", "EAGAIN"}]
        /\ used' \in 0..MaxMsgs
    BY <1>0, <1>1, <1>5 DEF Served
  <2>4. MsgqTypeOK'
    BY <1>0, <1>1, <1>3, <1>5, <2>1, <2>3 DEF MsgqTypeOK, ThreadInv
  <2>5. Blocked'
    BY <1>0, <1>1, <1>2, <1>5 DEF Blocked, Served
  <2>6. RingConsistent'
    BY <1>1, <1>3, <1>5 DEF RingConsistent
  <2> QED
    BY <2>1, <2>2, <2>4, <2>5, <2>6, LiveWaitersNext DEF MsgqIInv, WaitersMatchBuffer
<1> QED
  BY <1>4, <1>5 DEF GetNow

\* A call that finds the ring full, or empty, and fails or blocks.
LEMMA RefuseOrPendInv ==
  ASSUME MsgqIInv, NEW t \in Threads, Running(t), NEW timeout,
         NEW name \in {"put", "get"}, NEW m \in Msgs \cup {NoMsg},
         (name = "put" /\ used = MaxMsgs) \/ (name = "get" /\ used = 0),
         RefuseOrPend(t, name, m, timeout)
  PROVE  MsgqIInv'
<1>0. /\ ThreadInv /\ MsgqTypeOK /\ RingConsistent /\ Blocked
      /\ ret \in [Threads -> {"none", "OK", "ENOMSG", "EAGAIN"}]
      /\ op \in [Threads -> {"none", "put", "get"}]
      /\ data \in [Threads -> Msgs \cup {NoMsg}]
      /\ tstate \in [Threads -> {"ready", "pending", "dead"}]
      /\ \A u \in OpenWaits : (op[u] = "get" /\ used = 0) \/ (op[u] = "put" /\ used = MaxMsgs)
      /\ tstate[t] = "ready"
  BY LiveWaitersAre DEF MsgqIInv, WaitersMatchBuffer, MsgqTypeOK, ThreadTypeOK, Running
<1>1. /\ op' \in [Threads -> {"none", "put", "get"}]
      /\ data' \in [Threads -> Msgs \cup {NoMsg}]
      /\ taken' = NoMsg /\ UNCHANGED ringVars
      /\ op' = [op EXCEPT ![t] = name]
  BY <1>0 DEF RefuseOrPend
<1>2. RingConsistent'
  BY <1>0, <1>1 DEF RingConsistent, ringVars
<1>3. CASE Return(t, "ENOMSG")
  <2>1. ThreadInv'
    BY <1>0, <1>3, ReturnInv DEF Return
  <2>2. OpenWaits' = OpenWaits
    BY <1>3 DEF Return, OpenWaits
  <2>3. ret' \in [Threads -> {"none", "OK", "ENOMSG", "EAGAIN"}]
    BY <1>0, <1>3 DEF Return
  <2>4. MsgqTypeOK'
    BY <1>0, <1>1, <2>1, <2>3 DEF MsgqTypeOK, ThreadInv, ringVars
  <2>5. Blocked'
    BY <1>0, <1>1, <1>3 DEF Blocked, Return
  <2>6. \A u \in OpenWaits' : (op'[u] = "get" /\ used' = 0) \/ (op'[u] = "put" /\ used' = MaxMsgs)
    BY <1>0, <1>1, <2>2 DEF ringVars, OpenWaits
  <2> QED
    BY <1>2, <2>1, <2>4, <2>5, <2>6, LiveWaitersNext DEF MsgqIInv, WaitersMatchBuffer
<1>4. CASE Pend(t, timeout)
  <2>1. ThreadInv'
    BY <1>0, <1>4, PendInv
  <2>2. OpenWaits' = OpenWaits \cup {t}
    BY <1>0, <1>4, PendWaits
  <2>3. ret' \in [Threads -> {"none", "OK", "ENOMSG", "EAGAIN"}]
    BY <1>0, <1>4 DEF Pend
  <2>4. MsgqTypeOK'
    BY <1>0, <1>1, <2>1, <2>3 DEF MsgqTypeOK, ThreadInv, ringVars
  <2>5. Blocked'
    BY <1>0, <1>1, <1>4 DEF Blocked, Pend
  <2>6. \A u \in OpenWaits' : (op'[u] = "get" /\ used' = 0) \/ (op'[u] = "put" /\ used' = MaxMsgs)
    BY <1>0, <1>1, <2>2 DEF ringVars, OpenWaits
  <2> QED
    BY <1>2, <2>1, <2>4, <2>5, <2>6, LiveWaitersNext DEF MsgqIInv, WaitersMatchBuffer
<1> QED
  BY <1>3, <1>4 DEF RefuseOrPend

\* k_msgq_purge(): nobody waits afterwards.
LEMMA PurgeInv ==
  ASSUME MsgqIInv, Purge
  PROVE  MsgqIInv'
<1>0. /\ ThreadInv /\ MsgqTypeOK
      /\ ret \in [Threads -> {"none", "OK", "ENOMSG", "EAGAIN"}]
      /\ rd \in Slots /\ wr \in Slots /\ used \in 0..MaxMsgs /\ RingConsistent
  BY DEF MsgqIInv, WaitersMatchBuffer, MsgqTypeOK
<1>1. ThreadInv'
  BY <1>0, WakeAllInv DEF Purge
<1>2. \A t \in Threads : tstate'[t] # "pending"
  BY DEF Purge, WakeAll
<1>3. ret' \in [Threads -> {"none", "OK", "ENOMSG", "EAGAIN"}]
  BY <1>0 DEF Purge, WakeAll
<1>4. used' \in 0..MaxMsgs /\ used' = 0
  BY MsgqAssumption DEF Purge
<1>5. MsgqTypeOK'
  BY <1>0, <1>1, <1>3, <1>4 DEF MsgqTypeOK, ThreadInv, Purge
<1>6. RingConsistent'
  BY <1>0, <1>4, RingMoves DEF RingConsistent, Purge
<1>7. LiveWaiters' = {}
  BY <1>1, <1>2, LiveWaitersNext DEF OpenWaits
<1> QED
  BY <1>1, <1>2, <1>5, <1>6, <1>7 DEF MsgqIInv, WaitersMatchBuffer, Blocked

\* A step that only ends waits: the clock interrupt's, or an abort.
LEMMA EndOfWaitInv ==
  ASSUME MsgqIInv, ThreadInv', ret' = ret, taken' = NoMsg, UNCHANGED <<ringVars, op, data>>,
         \A u \in Threads : tstate'[u] = "pending" => tstate[u] = "pending",
         OpenWaits' \subseteq OpenWaits
  PROVE  MsgqIInv'
<1>0. /\ ThreadInv /\ MsgqTypeOK /\ RingConsistent /\ Blocked
      /\ \A t \in OpenWaits : (op[t] = "get" /\ used = 0) \/ (op[t] = "put" /\ used = MaxMsgs)
  BY LiveWaitersAre DEF MsgqIInv, WaitersMatchBuffer
<1>1. MsgqTypeOK'
  BY <1>0 DEF MsgqTypeOK, ThreadInv, ringVars
<1>2. RingConsistent'
  BY <1>0 DEF RingConsistent, ringVars
<1>3. Blocked'
  BY <1>0 DEF Blocked
<1>4. \A t \in OpenWaits' : (op'[t] = "get" /\ used' = 0) \/ (op'[t] = "put" /\ used' = MaxMsgs)
  BY <1>0 DEF ringVars
<1> QED
  BY <1>1, <1>2, <1>3, <1>4, LiveWaitersNext DEF MsgqIInv, WaitersMatchBuffer

\* The invariant holds in every state of the message queue.
LEMMA MsgqSpecIInv == MsgqSpec => []MsgqIInv
<1>1. MsgqIInv /\ [MsgqNext]_msgqVars => MsgqIInv'
  <2> SUFFICES ASSUME MsgqIInv, [MsgqNext]_msgqVars PROVE MsgqIInv'
    OBVIOUS
  <2>0. ThreadInv
    BY DEF MsgqIInv
  <2>1. ASSUME NEW t \in Threads, NEW m \in Msgs, NEW timeout \in Timeouts, Put(t, m, timeout)
        PROVE  MsgqIInv'
    BY <2>1, PutNowInv, RefuseOrPendInv DEF Put, Caller
  <2>2. ASSUME NEW t \in Threads, NEW timeout \in Timeouts, Get(t, timeout)
        PROVE  MsgqIInv'
    BY <2>2, GetNowInv, RefuseOrPendInv DEF Get, Caller
  <2>3. ASSUME NEW m \in Msgs, IsrPut(m) PROVE MsgqIInv'
    BY <2>3, PutNowInv DEF IsrPut, Caller
  <2>4. CASE IsrGet
    BY <2>4, GetNowInv DEF IsrGet, Caller
  <2>5. CASE Purge
    BY <2>5, PurgeInv
  <2>6. ASSUME NEW t \in Threads, MsgqKill(t) PROVE MsgqIInv'
    BY <2>0, <2>6, AbortInv, AbortWaits, EndOfWaitInv DEF MsgqKill
  <2>7. CASE MsgqClock
    <3>1. ThreadInv'
      BY <2>0, <2>7, TickInv DEF MsgqClock
    <3>2. /\ ret' = ret
          /\ \A u \in Threads : tstate'[u] = "pending" => tstate[u] = "pending"
          /\ OpenWaits' \subseteq OpenWaits
      BY <2>0, <2>7, TickWaits DEF MsgqClock
    <3> QED
      BY <2>7, <3>1, <3>2, EndOfWaitInv DEF MsgqClock
  <2>8. CASE UNCHANGED msgqVars
    BY <2>8 DEF msgqVars, threadVars, ringVars, MsgqIInv, ThreadInv, ThreadTypeOK, WaitqConsistent,
       WaitqSorted, WaitersMatchBuffer, MsgqTypeOK, RingConsistent, LiveWaiters, Live, Blocked
  <2> QED
    BY <2>1, <2>2, <2>3, <2>4, <2>5, <2>6, <2>7, <2>8 DEF MsgqNext
<1> QED
  BY <1>1, MsgqInitIInv, PTL DEF MsgqSpec

\* k_msgq_put() never takes a writer for a reader nor k_msgq_get() a reader for
\* a writer: whoever waits and can still be served waits for what the ring
\* does not have.
THEOREM MsgqWaitersMatchBuffer == MsgqSpec => []WaitersMatchBuffer
<1>1. MsgqIInv => WaitersMatchBuffer
  BY DEF MsgqIInv
<1> QED
  BY <1>1, MsgqSpecIInv, PTL

-----------------------------------------------------------------------------
(* The refinement *)

\* The channel of AbsMsgq: the slots from read_ptr on.
Chan == [i \in 1..used |-> buffer[(rd + i - 1) % MaxMsgs]]

\* The slot that is i places from pointer p, for at most one turn.
LEMMA SlotAt ==
  ASSUME NEW p \in Slots, NEW i \in 0..MaxMsgs
  PROVE  /\ (p + i) % MaxMsgs = IF p + i < MaxMsgs THEN p + i ELSE p + i - MaxMsgs
         /\ (p + i) % MaxMsgs \in Slots
<1>1. MaxMsgs \in Nat \ {0} /\ p \in 0..(MaxMsgs - 1) /\ p + i \in 0..(2 * MaxMsgs - 1)
  BY MsgqAssumption DEF Slots
<1>2. \A x \in 0..(2 * MaxMsgs - 1) : x % MaxMsgs = IF x < MaxMsgs THEN x ELSE x - MaxMsgs
  BY <1>1, Modulo
<1>3. (p + i) % MaxMsgs = IF p + i < MaxMsgs THEN p + i ELSE p + i - MaxMsgs
  BY <1>1, <1>2
<1> QED
  BY <1>1, <1>3 DEF Slots

\* What the ring is, seen as a channel.
LEMMA ChanIs ==
  ASSUME rd \in Slots, used \in 0..MaxMsgs, buffer \in [Slots -> Msgs \cup {NoMsg}]
  PROVE  /\ Chan \in Seq(Msgs \cup {NoMsg}) /\ Len(Chan) = used
         /\ \A i \in 1..used : Chan[i] = buffer[(rd + i - 1) % MaxMsgs]
         /\ used > 0 => Chan # << >> /\ Head(Chan) = buffer[rd]
<1>0. MaxMsgs \in Nat \ {0} /\ used \in Nat
  BY MsgqAssumption
<1>1. \A i \in 1..used : (rd + i - 1) % MaxMsgs \in Slots
  <2> SUFFICES ASSUME NEW i \in 1..used PROVE (rd + i - 1) % MaxMsgs \in Slots
    OBVIOUS
  <2>1. i - 1 \in 0..MaxMsgs /\ rd + i - 1 = rd + (i - 1)
    BY <1>0 DEF Slots
  <2> QED
    BY <2>1, SlotAt
<1>2. /\ Chan \in Seq(Msgs \cup {NoMsg}) /\ Len(Chan) = used
      /\ \A i \in 1..used : Chan[i] = buffer[(rd + i - 1) % MaxMsgs]
  BY <1>0, <1>1 DEF Chan
<1>3. (rd + 1 - 1) % MaxMsgs = rd
  <2>1. rd + 1 - 1 = rd + 0 /\ 0 \in 0..MaxMsgs /\ rd + 0 < MaxMsgs /\ rd + 0 = rd
    BY <1>0 DEF Slots
  <2>2. (rd + 0) % MaxMsgs = IF rd + 0 < MaxMsgs THEN rd + 0 ELSE rd + 0 - MaxMsgs
    BY ONLY <2>1, rd \in Slots, SlotAt
  <2> QED
    BY <2>1, <2>2
<1> QED
  BY <1>0, <1>2, <1>3

\* A sequence with one more element, entry by entry.
LEMMA AppendIs ==
  ASSUME NEW S, NEW s \in Seq(S), NEW e \in S
  PROVE  Append(s, e) = [i \in 1..(Len(s) + 1) |-> IF i <= Len(s) THEN s[i] ELSE e]
<1> DEFINE a == Append(s, e)
<1>1. /\ a \in Seq(S) /\ Len(a) = Len(s) + 1
      /\ \A i \in 1..(Len(s) + 1) : a[i] = IF i <= Len(s) THEN s[i] ELSE e
  OBVIOUS
<1> HIDE DEF a
<1>2. a = [i \in 1..Len(a) |-> a[i]]
  BY <1>1
<1>3. a = [i \in 1..Len(a) |-> IF i <= Len(s) THEN s[i] ELSE e]
  BY <1>1, <1>2
<1> QED
  BY <1>1, <1>3 DEF a

\* The same for the rest of a sequence.
LEMMA TailIs ==
  ASSUME NEW S, NEW s \in Seq(S), s # << >>
  PROVE  Tail(s) = [i \in 1..(Len(s) - 1) |-> s[i + 1]]
<1> DEFINE a == Tail(s)
<1>1. /\ a \in Seq(S) /\ Len(a) = Len(s) - 1
      /\ \A i \in 1..(Len(s) - 1) : a[i] = s[i + 1]
  OBVIOUS
<1> HIDE DEF a
<1>2. a = [i \in 1..Len(a) |-> a[i]]
  BY <1>1
<1>3. a = [i \in 1..Len(a) |-> s[i + 1]]
  BY <1>1, <1>2
<1> QED
  BY <1>1, <1>3 DEF a

\* Storing a message at write_ptr appends it to the channel.
LEMMA ChanPut ==
  ASSUME MsgqTypeOK, RingConsistent, used < MaxMsgs, NEW m \in Msgs,
         buffer' = [buffer EXCEPT ![wr] = m], used' = used + 1, rd' = rd
  PROVE  Chan' = Append(Chan, m)
<1>0. /\ MaxMsgs \in Nat \ {0} /\ used \in 0..MaxMsgs /\ rd \in Slots /\ wr \in Slots
      /\ buffer \in [Slots -> Msgs \cup {NoMsg}]
      /\ rd \in 0..(MaxMsgs - 1)
  BY MsgqAssumption DEF MsgqTypeOK, Slots
<1>1. /\ Chan \in Seq(Msgs \cup {NoMsg}) /\ Len(Chan) = used
      /\ \A i \in 1..used : Chan[i] = buffer[(rd + i - 1) % MaxMsgs]
  BY <1>0, ChanIs
<1>2. Chan' = [i \in 1..(used + 1) |-> buffer'[(rd + i - 1) % MaxMsgs]]
  BY DEF Chan
<1>3. ASSUME NEW i \in 1..(used + 1)
      PROVE  buffer'[(rd + i - 1) % MaxMsgs] = IF i <= used THEN Chan[i] ELSE m
  <2>1. i - 1 \in 0..MaxMsgs /\ used \in 0..MaxMsgs /\ rd + i - 1 = rd + (i - 1)
    BY <1>0
  <2>2. /\ (rd + i - 1) % MaxMsgs = IF rd + (i - 1) < MaxMsgs THEN rd + (i - 1) ELSE rd + (i - 1) - MaxMsgs
        /\ (rd + i - 1) % MaxMsgs \in Slots
    BY <1>0, <2>1, SlotAt
  <2>3. wr = IF rd + used < MaxMsgs THEN rd + used ELSE rd + used - MaxMsgs
    BY <1>0, SlotAt DEF RingConsistent
  <2>4. i <= used => (rd + i - 1) % MaxMsgs # wr
    BY <1>0, <2>2, <2>3
  <2>5. i = used + 1 => (rd + i - 1) % MaxMsgs = wr
    BY <1>0, <2>2, <2>3
  <2> QED
    BY <1>0, <1>1, <2>2, <2>4, <2>5
<1> HIDE DEF Chan
<1>4. Chan' = [i \in 1..(used + 1) |-> IF i <= used THEN Chan[i] ELSE m]
  BY <1>2, <1>3, Zenon
<1>5. Append(Chan, m) = [i \in 1..(Len(Chan) + 1) |-> IF i <= Len(Chan) THEN Chan[i] ELSE m]
  BY ONLY <1>1, m \in Msgs \cup {NoMsg}, AppendIs
<1> QED
  BY <1>1, <1>4, <1>5

\* Moving read_ptr on takes the head off the channel.
LEMMA ChanGet ==
  ASSUME MsgqTypeOK, used > 0,
         buffer' = buffer, used' = used - 1, rd' = Wrapped(rd)
  PROVE  Chan' = Tail(Chan)
<1>0. /\ MaxMsgs \in Nat \ {0} /\ used \in 0..MaxMsgs /\ rd \in Slots
      /\ buffer \in [Slots -> Msgs \cup {NoMsg}]
      /\ rd \in 0..(MaxMsgs - 1) /\ Wrapped(rd) \in Slots
  BY MsgqAssumption DEF MsgqTypeOK, Slots, Wrapped
<1>1. /\ Chan \in Seq(Msgs \cup {NoMsg}) /\ Len(Chan) = used
      /\ \A i \in 1..used : Chan[i] = buffer[(rd + i - 1) % MaxMsgs]
  BY <1>0, ChanIs
<1>2. Chan' = [i \in 1..(used - 1) |-> buffer[(Wrapped(rd) + i - 1) % MaxMsgs]]
  BY DEF Chan
<1>3. ASSUME NEW i \in 1..(used - 1)
      PROVE  buffer[(Wrapped(rd) + i - 1) % MaxMsgs] = Chan[i + 1]
  <2>1. /\ i - 1 \in 0..MaxMsgs /\ i \in 0..MaxMsgs
        /\ Wrapped(rd) + i - 1 = Wrapped(rd) + (i - 1)
        /\ rd + (i + 1) - 1 = rd + i /\ i + 1 \in 1..used
    BY <1>0 DEF Slots
  <2>2. (Wrapped(rd) + i - 1) % MaxMsgs =
          IF Wrapped(rd) + (i - 1) < MaxMsgs THEN Wrapped(rd) + (i - 1)
                                             ELSE Wrapped(rd) + (i - 1) - MaxMsgs
    BY <1>0, <2>1, SlotAt
  <2>3. (rd + (i + 1) - 1) % MaxMsgs = IF rd + i < MaxMsgs THEN rd + i ELSE rd + i - MaxMsgs
    BY <1>0, <2>1, SlotAt
  <2>4. (Wrapped(rd) + i - 1) % MaxMsgs = (rd + (i + 1) - 1) % MaxMsgs
    BY <1>0, <2>2, <2>3 DEF Wrapped
  <2> QED
    BY <1>1, <2>1, <2>4
<1> HIDE DEF Chan
<1>4. Chan' = [i \in 1..(used - 1) |-> Chan[i + 1]]
  BY <1>2, <1>3, Zenon
<1>5. Chan # << >>
  BY <1>0, ChanIs
<1>6. Tail(Chan) = [i \in 1..(Len(Chan) - 1) |-> Chan[i + 1]]
  BY ONLY <1>1, <1>5, TailIs
<1> QED
  BY <1>1, <1>4, <1>6

\* In a full ring the slot that is read is the one at write_ptr: the message
\* stored there comes last.
LEMMA ChanSwap ==
  ASSUME MsgqTypeOK, RingConsistent, used = MaxMsgs, NEW m \in Msgs \cup {NoMsg},
         buffer' = [buffer EXCEPT ![wr] = m], used' = used, rd' = Wrapped(rd)
  PROVE  Chan' = Append(Tail(Chan), m)
<1>0. /\ MaxMsgs \in Nat \ {0} /\ used \in 0..MaxMsgs /\ rd \in Slots /\ wr \in Slots
      /\ buffer \in [Slots -> Msgs \cup {NoMsg}]
      /\ rd \in 0..(MaxMsgs - 1) /\ Wrapped(rd) \in Slots
  BY MsgqAssumption DEF MsgqTypeOK, Slots, Wrapped
<1>1. /\ Chan \in Seq(Msgs \cup {NoMsg}) /\ Len(Chan) = used
      /\ \A i \in 1..used : Chan[i] = buffer[(rd + i - 1) % MaxMsgs]
  BY <1>0, ChanIs
<1>2. Chan' = [i \in 1..used |-> buffer'[(Wrapped(rd) + i - 1) % MaxMsgs]]
  BY DEF Chan
<1>a. wr = rd
  BY <1>0, SlotAt, MaxMsgs \in 0..MaxMsgs DEF RingConsistent
<1>3. ASSUME NEW i \in 1..used
      PROVE  buffer'[(Wrapped(rd) + i - 1) % MaxMsgs] = IF i < used THEN Chan[i + 1] ELSE m
  <2>1. /\ i - 1 \in 0..MaxMsgs /\ i \in 0..MaxMsgs
        /\ Wrapped(rd) + i - 1 = Wrapped(rd) + (i - 1)
        /\ rd + (i + 1) - 1 = rd + i
    BY <1>0 DEF Slots
  <2>2. (Wrapped(rd) + i - 1) % MaxMsgs =
          IF Wrapped(rd) + (i - 1) < MaxMsgs THEN Wrapped(rd) + (i - 1)
                                             ELSE Wrapped(rd) + (i - 1) - MaxMsgs
    BY <1>0, <2>1, SlotAt
  <2>3. (rd + (i + 1) - 1) % MaxMsgs = IF rd + i < MaxMsgs THEN rd + i ELSE rd + i - MaxMsgs
    BY <1>0, <2>1, SlotAt
  <2>4. (Wrapped(rd) + i - 1) % MaxMsgs = (rd + (i + 1) - 1) % MaxMsgs
    BY <1>0, <2>2, <2>3 DEF Wrapped
  <2>5. (rd + (i + 1) - 1) % MaxMsgs \in Slots
    BY <1>0, <2>1, SlotAt
  <2>6. i < used => (rd + (i + 1) - 1) % MaxMsgs # wr /\ i + 1 \in 1..used
    BY <1>0, <1>a, <2>3
  <2>7. i = used => (rd + (i + 1) - 1) % MaxMsgs = wr
    BY <1>0, <1>a, <2>3
  <2>8. CASE i < used
    BY <1>0, <1>1, <2>4, <2>5, <2>6, <2>8
  <2>9. CASE i = used
    BY <1>0, <2>4, <2>5, <2>7, <2>9
  <2> QED
    BY <1>0, <2>8, <2>9
<1> HIDE DEF Chan
<1>4. Chan' = [i \in 1..used |-> IF i < used THEN Chan[i + 1] ELSE m]
  BY <1>2, <1>3, Zenon
<1>5. /\ Tail(Chan) \in Seq(Msgs \cup {NoMsg}) /\ Len(Tail(Chan)) = used - 1
      /\ \A i \in 1..(used - 1) : Tail(Chan)[i] = Chan[i + 1]
  BY <1>0, <1>1
<1> DEFINE T == Tail(Chan)
<1> HIDE DEF T
<1>6. Chan' = [i \in 1..used |-> IF i <= used - 1 THEN T[i] ELSE m]
  BY <1>0, <1>4, <1>5 DEF T
<1>7. T \in Seq(Msgs \cup {NoMsg}) /\ Len(T) = used - 1
  BY <1>5 DEF T
<1>8. Append(T, m) = [i \in 1..(Len(T) + 1) |-> IF i <= Len(T) THEN T[i] ELSE m]
  BY ONLY <1>7, m \in Msgs \cup {NoMsg}, AppendIs
<1>9. (used - 1) + 1 = used
  BY <1>0
<1> QED
  BY <1>6, <1>7, <1>8, <1>9 DEF T

-----------------------------------------------------------------------------
\* msgqResult told from the states of the threads.
Result == [t \in Threads |->
             IF t \in OpenWaits THEN IF op[t] = "put" THEN "putting" ELSE "getting"
                                ELSE ret[t]]

\* The two agree wherever the invariant holds ...
LEMMA ResultIs == MsgqIInv => msgqResult = Result
<1> SUFFICES ASSUME MsgqIInv PROVE msgqResult = Result
  OBVIOUS
<1>1. LiveWaiters = OpenWaits /\ OpenWaits \subseteq Threads
  BY LiveWaitersAre DEF MsgqIInv, OpenWaits
<1>2. \A t \in OpenWaits : op[t] = "put" \/ op[t] = "get"
  BY DEF MsgqIInv, Blocked, OpenWaits
<1> QED
  BY <1>1, <1>2 DEF msgqResult, Result

\* ... and so they do after a step.
LEMMA ResultNext == MsgqIInv' => (msgqResult = Result)'
BY ResultIs, PTL

\* The threads that AbsMsgq takes to be blocked.
LEMMA AbsWaiting ==
  ASSUME MsgqIInv
  PROVE  /\ AbstractMsgq!Putting = {t \in OpenWaits : op[t] = "put"}
         /\ AbstractMsgq!Getting = {t \in OpenWaits : op[t] = "get"}
<1>1. /\ ret \in [Threads -> {"none", "OK", "ENOMSG", "EAGAIN"}]
      /\ OpenWaits \subseteq Threads
      /\ \A t \in OpenWaits : op[t] = "put" \/ op[t] = "get"
  BY DEF MsgqIInv, WaitersMatchBuffer, MsgqTypeOK, Blocked, OpenWaits
<1>2. msgqResult = Result
  BY ResultIs
<1>3. \A t \in Threads : /\ Result[t] = "putting" <=> t \in OpenWaits /\ op[t] = "put"
                         /\ Result[t] = "getting" <=> t \in OpenWaits /\ op[t] = "get"
  BY <1>1 DEF Result
<1> QED
  BY <1>1, <1>2, <1>3 DEF AbstractMsgq!Putting, AbstractMsgq!Getting

\* A successful put is an AbsPut, by the same caller.
LEMMA PutNowAbs ==
  ASSUME MsgqIInv, MsgqIInv', NEW c, Caller(c), NEW m \in Msgs, PutNow(c, m)
  PROVE  AbstractMsgq!AbsPut(c, m)
<1>0. /\ ThreadInv /\ MsgqTypeOK /\ RingConsistent
      /\ ret \in [Threads -> {"none", "OK", "ENOMSG", "EAGAIN"}]
      /\ rd \in Slots /\ used \in 0..MaxMsgs /\ MaxMsgs \in Nat \ {0}
      /\ buffer \in [Slots -> Msgs \cup {NoMsg}]
      /\ data \in [Threads -> Msgs \cup {NoMsg}]
      /\ \A t \in OpenWaits : \/ op[t] = "get" /\ used = 0
                              \/ op[t] = "put" /\ used = MaxMsgs
      /\ waitq \in Seq(Threads) /\ OpenWaits \subseteq Threads
  BY LiveWaitersAre, MsgqAssumption
  DEF MsgqIInv, WaitersMatchBuffer, MsgqTypeOK, ThreadTypeOK, OpenWaits
<1>1. /\ used < MaxMsgs /\ taken' = NoMsg
      /\ \A t \in Threads : op'[t] = IF t = c THEN "put" ELSE op[t]
  BY DEF PutNow, Served
<1>2. c \notin OpenWaits /\ c \notin AbstractMsgq!Putting \cup AbstractMsgq!Getting
  BY MsgqAssumption, AbsWaiting DEF Caller, Running, OpenWaits
<1>3. msgqResult = Result /\ msgqResult' = Result'
  BY ResultIs, ResultNext
<1>4. ASSUME NEW i \in DOMAIN waitq, FirstToUnpend(i), WakeAndReturn(i, c),
             data' = Served(data, c, m, waitq[i], m), UNCHANGED ringVars
      PROVE  AbstractMsgq!AbsPut(c, m)
  <2> DEFINE w == waitq[i]
  <2>1. w \in OpenWaits /\ OpenWaits' = OpenWaits \ {w}
    BY <1>0, <1>4, UnpendWaits DEF WakeAndReturn
  <2>2. w \in AbstractMsgq!Getting /\ w \in Threads /\ w # c
    BY <1>0, <1>1, <1>2, <2>1, AbsWaiting
  <2>3. \A t \in Threads : /\ ret'[t] = IF t = w \/ t = c THEN "OK" ELSE ret[t]
                           /\ data'[t] = IF t = w \/ t = c THEN m ELSE data[t]
    BY <1>4 DEF WakeAndReturn, Served
  <2>4. data' = [t \in Threads |-> IF t = w \/ t = c THEN m ELSE data[t]]
    BY <1>4, <2>3 DEF Served
  <2> HIDE DEF w
  <2>5. Result' = [t \in Threads |-> IF t = w \/ t = c THEN "OK" ELSE Result[t]]
    BY <1>1, <1>2, <2>1, <2>2, <2>3 DEF Result
  <2>6. Chan' = Chan
    BY <1>4 DEF Chan, ringVars
  <2>7. CASE c \in Threads
    <3>1. Result' = [[Result EXCEPT ![c] = "OK"] EXCEPT ![w] = "OK"]
      BY <2>2, <2>5, <2>7 DEF Result
    <3>2. data' = [[data EXCEPT ![c] = m] EXCEPT ![w] = m]
      BY <1>0, <2>2, <2>4, <2>7
    <3> QED
      BY <1>1, <1>2, <1>3, <2>2, <2>6, <2>7, <3>1, <3>2 DEF AbstractMsgq!AbsPut, Chan
  <2>8. CASE c \notin Threads
    <3>1. Result' = [Result EXCEPT ![w] = "OK"]
      BY <2>2, <2>5, <2>8 DEF Result
    <3>2. data' = [data EXCEPT ![w] = m]
      BY <1>0, <2>2, <2>4, <2>8
    <3> QED
      BY <1>1, <1>2, <1>3, <2>2, <2>6, <2>8, <3>1, <3>2 DEF AbstractMsgq!AbsPut, Chan
  <2> QED
    BY <2>7, <2>8
<1>5. ASSUME NoneToUnpend,
             buffer' = [buffer EXCEPT ![wr] = m], wr' = Wrapped(wr), used' = used + 1,
             data' = Served(data, c, m, c, m), ret' = Served(ret, c, "OK", c, "OK"),
             UNCHANGED <<rd, waitq, tstate, tmo, clock, expired, ahead>>
      PROVE  AbstractMsgq!AbsPut(c, m)
  <2>1. OpenWaits = {} /\ OpenWaits' = {}
    <3>1. OpenWaits = {}
      BY <1>0, <1>5, LiveWaitersAre DEF NoneToUnpend, LiveWaiters
    <3> QED
      BY <3>1, <1>5 DEF OpenWaits
  <2>2. AbstractMsgq!Getting = {}
    BY <2>1, AbsWaiting
  <2>3. /\ data' = [t \in Threads |-> IF t = c THEN m ELSE data[t]]
        /\ Result' = [t \in Threads |-> IF t = c THEN "OK" ELSE Result[t]]
    BY <1>5, <2>1 DEF Served, Result
  <2>4. Chan' = Append(Chan, m) /\ Len(Chan) < MaxMsgs
    BY <1>0, <1>1, <1>5, ChanPut, ChanIs
  <2>5. CASE c \in Threads
    <3>1. Result' = [Result EXCEPT ![c] = "OK"] /\ data' = [data EXCEPT ![c] = m]
      BY <1>0, <2>3, <2>5 DEF Result
    <3> QED
      BY <1>1, <1>2, <1>3, <2>2, <2>4, <2>5, <3>1 DEF AbstractMsgq!AbsPut, Chan
  <2>6. CASE c \notin Threads
    <3>1. Result' = Result /\ data' = data
      BY <1>0, <2>3, <2>6 DEF Result
    <3> QED
      BY <1>1, <1>2, <1>3, <2>2, <2>4, <2>6, <3>1 DEF AbstractMsgq!AbsPut, Chan
  <2> QED
    BY <2>5, <2>6
<1> QED
  BY <1>4, <1>5 DEF PutNow

\* A successful get is an AbsGet, by the same caller.
LEMMA GetNowAbs ==
  ASSUME MsgqIInv, MsgqIInv', NEW c, Caller(c), GetNow(c)
  PROVE  AbstractMsgq!AbsGet(c)
<1>0. /\ ThreadInv /\ MsgqTypeOK /\ RingConsistent
      /\ ret \in [Threads -> {"none", "OK", "ENOMSG", "EAGAIN"}]
      /\ rd \in Slots /\ used \in 0..MaxMsgs /\ MaxMsgs \in Nat \ {0}
      /\ buffer \in [Slots -> Msgs \cup {NoMsg}]
      /\ data \in [Threads -> Msgs \cup {NoMsg}]
      /\ \A t \in OpenWaits : \/ op[t] = "get" /\ used = 0
                              \/ op[t] = "put" /\ used = MaxMsgs
      /\ waitq \in Seq(Threads) /\ OpenWaits \subseteq Threads
  BY LiveWaitersAre, MsgqAssumption
  DEF MsgqIInv, WaitersMatchBuffer, MsgqTypeOK, ThreadTypeOK, OpenWaits
<1>1. /\ used > 0 /\ rd' = Wrapped(rd)
      /\ taken' = IF c = NoMsg THEN buffer[rd] ELSE NoMsg
      /\ \A t \in Threads : op'[t] = IF t = c THEN "get" ELSE op[t]
      /\ data' = [t \in Threads |-> IF t = c THEN buffer[rd] ELSE data[t]]
  BY DEF GetNow, Served
<1>2. c \notin OpenWaits /\ c \notin AbstractMsgq!Putting \cup AbstractMsgq!Getting
  BY MsgqAssumption, AbsWaiting DEF Caller, Running, OpenWaits
<1>3. msgqResult = Result /\ msgqResult' = Result'
  BY ResultIs, ResultNext
<1>4. Chan # << >> /\ Head(Chan) = buffer[rd]
  BY <1>0, <1>1, ChanIs
<1>5. taken' = IF c \in Threads THEN NoMsg ELSE Head(Chan)
  BY <1>1, <1>4, MsgqAssumption DEF Caller
<1>6. data' = IF c \in Threads THEN [data EXCEPT ![c] = Head(Chan)] ELSE data
  <2>1. CASE c \in Threads
    BY <1>0, <1>1, <1>4, <2>1
  <2>2. CASE c \notin Threads
    BY <1>0, <1>1, <2>2
  <2> QED
    BY <2>1, <2>2
<1>7. ASSUME NEW i \in DOMAIN waitq, FirstToUnpend(i), WakeAndReturn(i, c),
             buffer' = [buffer EXCEPT ![wr] = data[waitq[i]]], wr' = Wrapped(wr),
             UNCHANGED used
      PROVE  AbstractMsgq!AbsGet(c)
  <2> DEFINE w == waitq[i]
  <2>1. w \in OpenWaits /\ OpenWaits' = OpenWaits \ {w}
    BY <1>0, <1>7, UnpendWaits DEF WakeAndReturn
  <2>2. w \in AbstractMsgq!Putting /\ w \in Threads /\ w # c /\ used = MaxMsgs
    BY <1>0, <1>1, <1>2, <2>1, AbsWaiting
  <2>3. \A t \in Threads : ret'[t] = IF t = w \/ t = c THEN "OK" ELSE ret[t]
    BY <1>7 DEF WakeAndReturn, Served
  <2>4. Chan' = Append(Tail(Chan), data[w])
    BY <1>0, <1>1, <1>7, <2>2, ChanSwap
  <2> HIDE DEF w
  <2>5. Result' = [t \in Threads |-> IF t = w \/ t = c THEN "OK" ELSE Result[t]]
    BY <1>1, <1>2, <2>1, <2>2, <2>3 DEF Result
  <2>6. CASE c \in Threads
    <3>1. Result' = [[Result EXCEPT ![c] = "OK"] EXCEPT ![w] = "OK"]
      BY <2>2, <2>5, <2>6 DEF Result
    <3> QED
      BY <1>2, <1>3, <1>4, <1>5, <1>6, <2>2, <2>4, <2>6, <3>1 DEF AbstractMsgq!AbsGet, Chan
  <2>7. CASE c \notin Threads
    <3>1. Result' = [Result EXCEPT ![w] = "OK"]
      BY <2>2, <2>5, <2>7 DEF Result
    <3> QED
      BY <1>2, <1>3, <1>4, <1>5, <1>6, <2>2, <2>4, <2>7, <3>1 DEF AbstractMsgq!AbsGet, Chan
  <2> QED
    BY <2>6, <2>7
<1>8. ASSUME NoneToUnpend, used' = used - 1, ret' = Served(ret, c, "OK", c, "OK"),
             UNCHANGED <<buffer, wr, waitq, tstate, tmo, clock, expired, ahead>>
      PROVE  AbstractMsgq!AbsGet(c)
  <2>1. OpenWaits = {} /\ OpenWaits' = {}
    <3>1. OpenWaits = {}
      BY <1>0, <1>8, LiveWaitersAre DEF NoneToUnpend, LiveWaiters
    <3> QED
      BY <3>1, <1>8 DEF OpenWaits
  <2>2. AbstractMsgq!Putting = {}
    BY <2>1, AbsWaiting
  <2>3. Result' = [t \in Threads |-> IF t = c THEN "OK" ELSE Result[t]]
    BY <1>8, <2>1 DEF Served, Result
  <2>4. Chan' = Tail(Chan)
    BY <1>0, <1>1, <1>8, ChanGet
  <2>5. Result' = IF c \in Threads THEN [Result EXCEPT ![c] = "OK"] ELSE Result
    <3>1. CASE c \in Threads
      BY <2>3, <3>1 DEF Result
    <3>2. CASE c \notin Threads
      BY <2>3, <3>2 DEF Result
    <3> QED
      BY <3>1, <3>2
  <2> QED
    BY <1>2, <1>3, <1>4, <1>5, <1>6, <2>2, <2>4, <2>5 DEF AbstractMsgq!AbsGet, Chan
<1> QED
  BY <1>7, <1>8 DEF GetNow

\* A call that is refused or blocks is an AbsRefuse.
LEMMA RefuseOrPendAbs ==
  ASSUME MsgqIInv, MsgqIInv', NEW t \in Threads, Running(t), NEW timeout,
         NEW name \in {"put", "get"}, NEW m \in Msgs \cup {NoMsg},
         (name = "put" /\ m # NoMsg /\ used = MaxMsgs) \/ (name = "get" /\ m = NoMsg /\ used = 0),
         RefuseOrPend(t, name, m, timeout)
  PROVE  AbstractMsgq!AbsRefuse(t, m)
<1>0. /\ ThreadInv
      /\ ret \in [Threads -> {"none", "OK", "ENOMSG", "EAGAIN"}]
      /\ op \in [Threads -> {"none", "put", "get"}]
      /\ rd \in Slots /\ used \in 0..MaxMsgs
      /\ buffer \in [Slots -> Msgs \cup {NoMsg}]
      /\ OpenWaits \subseteq Threads /\ t \notin OpenWaits
  BY DEF MsgqIInv, WaitersMatchBuffer, MsgqTypeOK, OpenWaits, Running
<1>1. /\ op' = [op EXCEPT ![t] = name] /\ data' = [data EXCEPT ![t] = m]
      /\ taken' = NoMsg /\ Chan' = Chan
  BY DEF RefuseOrPend, ringVars, Chan
<1>2. msgqResult = Result /\ msgqResult' = Result'
  BY ResultIs, ResultNext
<1>3. t \notin AbstractMsgq!Putting \cup AbstractMsgq!Getting
  BY <1>0, AbsWaiting
<1>4. Len(Chan) = used /\ (used = 0 => Chan = << >>)
  BY <1>0, ChanIs, EmptySeq
<1>5. \E r \in {"ENOMSG", IF name = "put" THEN "putting" ELSE "getting"} :
        Result' = [Result EXCEPT ![t] = r]
  <2>1. CASE Return(t, "ENOMSG")
    <3>1. OpenWaits' = OpenWaits
      BY <2>1 DEF Return, OpenWaits
    <3>2. Result' = [Result EXCEPT ![t] = "ENOMSG"]
      BY <1>0, <1>1, <2>1, <3>1 DEF Return, Result
    <3> QED
      BY <3>2
  <2>2. CASE Pend(t, timeout)
    <3>1. OpenWaits' = OpenWaits \cup {t}
      BY <1>0, <2>2, PendWaits
    <3>2. \A u \in Threads : u # t => ret'[u] = ret[u]
      BY <1>0, <2>2 DEF Pend
    <3>3. Result' = [Result EXCEPT ![t] = IF name = "put" THEN "putting" ELSE "getting"]
      BY <1>0, <1>1, <3>1, <3>2 DEF Result
    <3> QED
      BY <3>3
  <2> QED
    BY <2>1, <2>2 DEF RefuseOrPend
<1>6. CASE name = "put"
  BY <1>1, <1>2, <1>3, <1>4, <1>5, <1>6 DEF AbstractMsgq!AbsRefuse, AbstractMsgq!Ends, Chan
<1>7. CASE name = "get"
  BY <1>1, <1>2, <1>3, <1>4, <1>5, <1>7 DEF AbstractMsgq!AbsRefuse, AbstractMsgq!Ends, Chan
<1> QED
  BY <1>6, <1>7

\* k_msgq_purge() is an AbsPurge.
LEMMA PurgeAbs ==
  ASSUME MsgqIInv, MsgqIInv', Purge
  PROVE  AbstractMsgq!AbsPurge
<1>0. /\ ThreadInv /\ clock = "idle"
      /\ \A t \in Threads : tstate[t] = "pending" <=> t \in OpenWaits
      /\ \A t \in OpenWaits : op[t] = "put" \/ op[t] = "get"
  <2>1. ThreadInv /\ clock = "idle"
    BY DEF MsgqIInv, Purge
  <2>2. \A t \in Threads : tmo[t] # "expired"
    BY <2>1 DEF ThreadInv, WaitqConsistent, Contains
  <2> QED
    BY <2>1, <2>2 DEF OpenWaits, MsgqIInv, Blocked
<1>1. /\ \A t \in Threads : ret'[t] = IF t \in OpenWaits THEN "ENOMSG" ELSE ret[t]
      /\ \A t \in Threads : tstate'[t] # "pending"
      /\ data' = data /\ taken' = NoMsg /\ used' = 0
  BY <1>0 DEF Purge, WakeAll
<1>2. msgqResult = Result /\ msgqResult' = Result'
  BY ResultIs, ResultNext
<1>3. AbstractMsgq!Putting \cup AbstractMsgq!Getting = OpenWaits
  BY <1>0, AbsWaiting
<1>4. OpenWaits' = {}
  BY <1>1 DEF OpenWaits
<1>5. Result' = [t \in Threads |-> IF t \in OpenWaits THEN "ENOMSG" ELSE Result[t]]
  BY <1>1, <1>4 DEF Result
<1>6. Chan' = << >>
  BY <1>1 DEF Chan
<1> QED
  BY <1>1, <1>2, <1>3, <1>5, <1>6 DEF AbstractMsgq!AbsPurge, Chan

\* A step that ends one wait without serving it is an AbsTimeout; one that
\* ends none is an AbsIdle.
LEMMA EndOfWaitAbs ==
  ASSUME MsgqIInv, MsgqIInv', ret' = ret, taken' = NoMsg, UNCHANGED <<ringVars, op, data>>,
         OpenWaits' = OpenWaits \/ \E t \in OpenWaits : OpenWaits' = OpenWaits \ {t}
  PROVE  AbstractMsgq!AbsNext
<1>0. /\ OpenWaits \subseteq Threads
      /\ \A t \in OpenWaits : ret[t] = "EAGAIN" /\ (op[t] = "put" \/ op[t] = "get")
      /\ data \in [Threads -> Msgs \cup {NoMsg}]
  BY DEF MsgqIInv, OpenWaits, Blocked, WaitersMatchBuffer, MsgqTypeOK
<1>1. msgqResult = Result /\ msgqResult' = Result'
  BY ResultIs, ResultNext
<1>2. Chan' = Chan /\ op' = op /\ data' = data
  BY DEF Chan, ringVars
<1>3. CASE OpenWaits' = OpenWaits
  <2>1. Result' = Result
    BY <1>2, <1>3 DEF Result
  <2> QED
    BY <1>1, <1>2, <2>1 DEF AbstractMsgq!AbsNext, AbstractMsgq!AbsIdle, Chan
<1>4. ASSUME NEW t \in OpenWaits, OpenWaits' = OpenWaits \ {t}
      PROVE  AbstractMsgq!AbsNext
  <2>1. Result' = [Result EXCEPT ![t] = "EAGAIN"]
    BY <1>0, <1>2, <1>4 DEF Result
  <2>2. data' = [data EXCEPT ![t] = data[t]]
    BY <1>0, <1>2
  <2>3. t \in AbstractMsgq!Putting \cup AbstractMsgq!Getting
    BY <1>0, AbsWaiting
  <2>4. AbstractMsgq!AbsTimeout(t)
    BY <1>1, <1>2, <2>1, <2>2, <2>3 DEF AbstractMsgq!AbsTimeout, AbstractMsgq!Ends, Chan
  <2> QED
    BY <1>0, <2>4 DEF AbstractMsgq!AbsNext
<1> QED
  BY <1>3, <1>4

\* msg_q.c implements AbsMsgq: a message is received once and in the order in
\* which the puts succeeded, a blocked writer's message enters the channel when
\* the get that serves it makes room, and a wait that the clock interrupt has
\* marked sends and receives nothing any more.
THEOREM MsgqImplementsAbsMsgq == MsgqSpec => ImplementsAbsMsgq
<1>1. MsgqInit => AbstractMsgq!AbsInit
  <2> SUFFICES ASSUME MsgqInit PROVE AbstractMsgq!AbsInit
    OBVIOUS
  <2>1. msgqResult = [t \in Threads |-> "none"]
    BY DEF MsgqInit, ThreadInit, LiveWaiters, msgqResult
  <2>2. Chan = << >>
    BY DEF MsgqInit, Chan
  <2> QED
    BY <2>1, <2>2 DEF MsgqInit, AbstractMsgq!AbsInit, Chan
<1>2. MsgqIInv /\ MsgqIInv' /\ [MsgqNext]_msgqVars => [AbstractMsgq!AbsNext]_(AbstractMsgq!absVars)
  <2> SUFFICES ASSUME MsgqIInv, MsgqIInv', [MsgqNext]_msgqVars
               PROVE  AbstractMsgq!AbsNext \/ UNCHANGED <<Chan, msgqResult, data, taken>>
    BY DEF AbstractMsgq!absVars, Chan
  <2>0. ThreadInv
    BY DEF MsgqIInv
  <2>1. ASSUME NEW t \in Threads, NEW m \in Msgs, NEW timeout \in Timeouts, Put(t, m, timeout)
        PROVE  AbstractMsgq!AbsNext
    <3>1. CASE PutNow(t, m)
      BY <2>1, <3>1, PutNowAbs DEF Put, Caller, AbstractMsgq!AbsNext
    <3>2. CASE used = MaxMsgs /\ RefuseOrPend(t, "put", m, timeout)
      <4>1. Running(t) /\ m \in Msgs \cup {NoMsg} /\ m # NoMsg
        BY <2>1, MsgqAssumption DEF Put
      <4>2. AbstractMsgq!AbsRefuse(t, m)
        BY <3>2, <4>1, RefuseOrPendAbs
      <4> QED
        BY <4>2 DEF AbstractMsgq!AbsNext
    <3> QED
      BY <2>1, <3>1, <3>2 DEF Put
  <2>2. ASSUME NEW t \in Threads, NEW timeout \in Timeouts, Get(t, timeout)
        PROVE  AbstractMsgq!AbsNext
    <3>1. CASE GetNow(t)
      BY <2>2, <3>1, GetNowAbs DEF Get, Caller, AbstractMsgq!AbsNext
    <3>2. CASE used = 0 /\ RefuseOrPend(t, "get", NoMsg, timeout)
      <4>1. AbstractMsgq!AbsRefuse(t, NoMsg)
        BY <2>2, <3>2, RefuseOrPendAbs DEF Get
      <4> QED
        BY <4>1 DEF AbstractMsgq!AbsNext
    <3> QED
      BY <2>2, <3>1, <3>2 DEF Get
  <2>3. ASSUME NEW m \in Msgs, IsrPut(m) PROVE AbstractMsgq!AbsNext
    BY <2>3, PutNowAbs DEF IsrPut, Caller, AbstractMsgq!AbsNext
  <2>4. CASE IsrGet
    BY <2>4, GetNowAbs DEF IsrGet, Caller, AbstractMsgq!AbsNext
  <2>5. CASE Purge
    BY <2>5, PurgeAbs DEF AbstractMsgq!AbsNext
  <2>6. ASSUME NEW t \in Threads, MsgqKill(t) PROVE AbstractMsgq!AbsNext
    <3>1. /\ ret' = ret /\ taken' = NoMsg /\ UNCHANGED <<ringVars, op, data>>
          /\ OpenWaits' = OpenWaits \ {t}
      BY <2>0, <2>6, AbortWaits DEF MsgqKill
    <3>2. OpenWaits' = OpenWaits \/ t \in OpenWaits
      BY <3>1
    <3> QED
      BY <3>1, <3>2, EndOfWaitAbs
  <2>7. CASE MsgqClock
    <3>1. /\ ret' = ret /\ taken' = NoMsg /\ UNCHANGED <<ringVars, op, data>>
          /\ OpenWaits' = OpenWaits \/ \E t \in OpenWaits : OpenWaits' = OpenWaits \ {t}
      BY <2>0, <2>7, TickWaits DEF MsgqClock
    <3> QED
      BY <3>1, EndOfWaitAbs
  <2>8. CASE UNCHANGED msgqVars
    <3>1. msgqResult = Result /\ msgqResult' = Result'
      BY ResultIs, ResultNext
    <3>2. Result' = Result
      BY <2>8 DEF Result, OpenWaits, msgqVars, threadVars
    <3> QED
      BY <2>8, <3>1, <3>2 DEF msgqVars, threadVars, ringVars, Chan
  <2> QED
    BY <2>1, <2>2, <2>3, <2>4, <2>5, <2>6, <2>7, <2>8 DEF MsgqNext
<1> QED
  BY <1>1, <1>2, MsgqSpecIInv, PTL DEF MsgqSpec, ImplementsAbsMsgq, AbstractMsgq!AbsSpec

-----------------------------------------------------------------------------
(* KQueue: the queue of items *)

\* c is the list of items that starts at h, ends at t and is linked by nx.
LinkedList(c, h, t, nx) ==
  /\ c \in Seq(Items) /\ IsInjective(c)
  /\ c = << >> => h = Null /\ t = Null
  /\ c # << >> => h = c[1] /\ t = c[Len(c)] /\ nx[c[Len(c)]] = Null
  /\ \A k \in 1..(Len(c) - 1) : nx[c[k]] = c[k + 1]

\* A sequence without duplicates is no longer than the set it is taken from.
LEMMA NoLongerThanSet ==
  ASSUME NEW S, IsFiniteSet(S), NEW c \in Seq(S), IsInjective(c)
  PROVE  Len(c) \in Nat /\ Cardinality(S) \in Nat /\ Len(c) <= Cardinality(S)
<1> DEFINE m == Len(c)
<1>1. m \in Nat /\ c \in [1..m -> S]
  OBVIOUS
<1>2. c \in Injection(1..m, S)
  BY <1>1 DEF Injection, IsInjective
<1>3. Cardinality(1..m) <= Cardinality(S) /\ Cardinality(S) \in Nat
  BY <1>2, FS_Injection, FS_CardinalityType
<1>4. Cardinality(1..m) = m
  <2> HIDE DEF m
  <2>1. Cardinality(1..m) = IF 1 > m THEN 0 ELSE m - 1 + 1
    BY <1>1, FS_Interval
  <2> QED
    BY <1>1, <2>1
<1> QED
  BY <1>1, <1>3, <1>4

\* The first n items of c
Leading(c, n) == IF n < Len(c) THEN SubSeq(c, 1, n) ELSE c

\* What Walk appends in one turn to the items w it has found before
Found(w, n, h, nx) ==
  LET i == IF w = << >> THEN h ELSE nx[Last(w)]
  IN  IF i = Null \/ Len(w) < n - 1 THEN w ELSE Append(w, i)

\* A turn of the walk finds the next item of a linked list, if there is one.
LEMMA WalkTurn ==
  ASSUME NEW c, NEW h, NEW t, NEW nx, LinkedList(c, h, t, nx), NEW n \in Nat \ {0}
  PROVE  Found(Leading(c, n - 1), n, h, nx) = Leading(c, n)
<1> DEFINE m == Len(c)
           w == Leading(c, n - 1)
<1>0. c \in Seq(Items) /\ m \in Nat
  BY DEF LinkedList
<1>1. CASE n - 1 < m
  <2>1. /\ w \in Seq(Items) /\ Len(w) = n - 1
        /\ \A k \in 1..(n - 1) : w[k] = c[k]
    BY <1>0, <1>1, SubSeqProperties DEF Leading
  <2>2. n \in 1..m /\ c[n] \in Items /\ c[n] # Null
    BY <1>0, <1>1, QueueAssumption
  <2> DEFINE v == Leading(c, n)
  <2>3. /\ v \in Seq(Items) /\ Len(v) = n
        /\ \A k \in 1..n : v[k] = c[k]
    BY <1>0, <1>1, SubSeqProperties DEF Leading
  <2> HIDE DEF w, v
  <2>4. (IF w = << >> THEN h ELSE nx[Last(w)]) = c[n]
    <3>1. CASE n = 1
      <4>1. w = << >> /\ c # << >>
        BY <2>1, <3>1, <1>1, <1>0, EmptySeq
      <4> QED
        BY <3>1, <4>1 DEF LinkedList
    <3>2. CASE n # 1
      <4>1. w # << >> /\ n - 1 \in 1..(m - 1)
        BY <2>1, <2>2, <3>2
      <4>2. Last(w) = c[n - 1]
        BY <2>1, <4>1 DEF Last
      <4>3. nx[c[n - 1]] = c[(n - 1) + 1]
        BY <4>1 DEF LinkedList
      <4>4. (n - 1) + 1 = n
        OBVIOUS
      <4> QED
        BY <4>1, <4>2, <4>3, <4>4
    <3> QED
      BY <3>1, <3>2
  <2>5. Found(w, n, h, nx) = Append(w, c[n])
    BY <2>1, <2>2, <2>4 DEF Found
  <2>6. Append(w, c[n]) = v
    <3> DEFINE x == c[n]
    <3>1. x \in Items /\ n - 1 \in Nat /\ v[n] = x
      BY <2>2, <2>3
    <3>2. \A k \in 1..(n - 1) : v[k] = w[k]
      BY <2>1, <2>3
    <3> HIDE DEF x
    <3>3. /\ Append(w, x) \in Seq(Items) /\ Len(Append(w, x)) = n
          /\ Append(w, x)[n] = x /\ \A k \in 1..(n - 1) : Append(w, x)[k] = w[k]
      BY <2>1, <3>1
    <3>4. \A k \in 1..n : k = n \/ k \in 1..(n - 1)
      OBVIOUS
    <3> HIDE DEF m
    <3>5. \A k \in 1..n : Append(w, x)[k] = v[k]
      BY <3>1, <3>2, <3>3, <3>4
    <3>6. Append(w, x) = v
      BY <2>3, <3>3, <3>5, SeqEqual
    <3> QED
      BY <3>6 DEF x
  <2> QED
    BY <2>5, <2>6 DEF w, v
<1>2. CASE n - 1 >= m
  <2>1. w = c /\ Leading(c, n) = c
    BY <1>0, <1>2 DEF Leading
  <2>2. CASE n - 1 > m
    BY <2>1, <2>2 DEF Found
  <2>3. CASE n - 1 = m
    <3>1. c = << >> => h = Null
      BY DEF LinkedList
    <3>2. c # << >> => nx[Last(c)] = Null
      BY DEF LinkedList, Last
    <3> QED
      BY <2>1, <3>1, <3>2 DEF Found
  <2> QED
    BY <1>0, <1>2, <2>2, <2>3
<1> QED
  BY <1>0, <1>1, <1>2

\* What the walk over the links of a linked list finds is that list.
LEMMA ChainIs == \A c : LinkedList(c, head, tail, next) => Chain = c
<1> SUFFICES ASSUME NEW c, LinkedList(c, head, tail, next) PROVE Chain = c
  OBVIOUS
<1> DEFINE N == Cardinality(Items)
           Turns(w) == [n \in 0..N |-> IF n = 0 THEN << >> ELSE Found(w[n - 1], n, head, next)]
           f == [n \in 0..N |-> Leading(c, n)]
<1>1. N \in Nat /\ Len(c) \in Nat /\ Len(c) <= N
  BY QueueAssumption, NoLongerThanSet DEF LinkedList
<1>2. Leading(c, 0) = << >>
  <2>1. c \in Seq(Items)
    BY DEF LinkedList
  <2> QED
    BY <2>1, <1>1 DEF Leading
<1>3. \A n \in 1..N : Found(Leading(c, n - 1), n, head, next) = Leading(c, n)
  <2> TAKE n \in 1..N
  <2>1. n \in Nat \ {0}
    BY <1>1
  <2> QED
    BY <2>1, WalkTurn
<1>4. f = Turns(f)
  <2>1. \A n \in 0..N : n = 0 \/ (n \in 1..N /\ n - 1 \in 0..N)
    BY <1>1, SMTT(40)
  <2> QED
    BY <1>2, <1>3, <2>1
<1>5. Walk = Turns(Walk)
  BY <1>4, Zenon DEF Walk, Found
<1>6. \A n \in 0..N : Walk[n] = IF n = 0 THEN << >> ELSE Found(Walk[n - 1], n, head, next)
  BY <1>5
<1>7. \A n \in 0..N : Walk[n] = Leading(c, n)
  <2> DEFINE B == {n \in 0..N : Walk[n] # Leading(c, n)}
  <2> SUFFICES ASSUME B # {} PROVE FALSE
    OBVIOUS
  <2>1. B \in SUBSET Nat
    OBVIOUS
  <2>2. PICK n \in B : \A j \in B : n <= j
    BY <2>1, LeastNatural
  <2>3. n \in 0..N /\ n # 0
    BY <1>2, <1>6
  <2>4. n \in 1..N /\ n - 1 \in 0..N /\ ~(n <= n - 1)
    BY <1>1, <2>3
  <2>5. Walk[n - 1] = Leading(c, n - 1)
    BY <2>2, <2>4
  <2> QED
    BY <1>3, <1>6, <2>3, <2>4, <2>5
<1>8. Walk[N] = c
  <2>1. N \in 0..N /\ Leading(c, N) = c
    BY <1>1 DEF Leading
  <2> QED
    BY <1>7, <2>1
<1> QED
  BY <1>8 DEF Chain

\* The same of the state after a step.
LEMMA ChainNext == \A c : LinkedList(c, head', tail', next') => Chain' = c
<1>1. (\A c : LinkedList(c, head, tail, next) => Chain = c)'
  BY ChainIs, PTL
<1> QED
  BY <1>1 DEF LinkedList

\* The ends of a list tell whether it is empty, and its items are items.
LEMMA LinkedEnds ==
  ASSUME NEW c, NEW h, NEW t, NEW nx, LinkedList(c, h, t, nx)
  PROVE  /\ c \in Seq(Items) /\ Len(c) \in Nat /\ DOMAIN c = 1..Len(c)
         /\ \A k \in 1..Len(c) : c[k] \in Items /\ c[k] # Null
         /\ \A j, k \in 1..Len(c) : c[j] = c[k] => j = k
         /\ t = Null <=> c = << >>
         /\ h = Null <=> c = << >>
         /\ c = << >> <=> Len(c) = 0
<1>1. c \in Seq(Items) /\ Len(c) \in Nat /\ DOMAIN c = 1..Len(c)
  BY LenProperties DEF LinkedList
<1>2. \A k \in 1..Len(c) : c[k] \in Items /\ c[k] # Null
  BY <1>1, QueueAssumption
<1>3. c = << >> <=> Len(c) = 0
  BY <1>1, EmptySeq
<1>4. c # << >> => 1 \in 1..Len(c) /\ Len(c) \in 1..Len(c)
  BY <1>1, <1>3
<1>5. \A j, k \in 1..Len(c) : c[j] = c[k] => j = k
  BY <1>1 DEF LinkedList, IsInjective
<1> QED
  BY <1>1, <1>2, <1>3, <1>4, <1>5 DEF LinkedList

\* Only the links in the items of a list matter to it.
LEMMA LinkedFrame ==
  ASSUME NEW c, NEW h, NEW t, NEW nx, LinkedList(c, h, t, nx),
         NEW ny, \A u \in Items : Contains(c, u) => ny[u] = nx[u]
  PROVE  LinkedList(c, h, t, ny)
<1>1. /\ c \in Seq(Items) /\ Len(c) \in Nat
      /\ \A k \in 1..Len(c) : c[k] \in Items
      /\ c = << >> <=> Len(c) = 0
  BY LinkedEnds
<1>2. \A k \in 1..Len(c) : ny[c[k]] = nx[c[k]]
  BY <1>1 DEF Contains
<1>3. \A k \in 1..(Len(c) - 1) : k \in 1..Len(c)
  BY <1>1
<1>4. c # << >> => Len(c) \in 1..Len(c)
  BY <1>1
<1> QED
  BY <1>2, <1>3, <1>4 DEF LinkedList

\* sys_slist_prepend() puts an item in front.
LEMMA LinkedPrepend ==
  ASSUME NEW c, NEW h, NEW t, NEW nx \in [Items -> Items \cup {Null}],
         LinkedList(c, h, t, nx), NEW i \in Items, ~Contains(c, i)
  PROVE  LinkedList(<<i>> \o c, i, IF t = Null THEN i ELSE t, [nx EXCEPT ![i] = h])
<1> DEFINE e == <<i>> \o c
           m == Len(c)
           ny == [nx EXCEPT ![i] = h]
<1>0. /\ c \in Seq(Items) /\ m \in Nat
      /\ \A k \in 1..m : c[k] \in Items
      /\ t = Null <=> c = << >>
      /\ h = Null <=> c = << >>
      /\ c = << >> <=> m = 0
  BY LinkedEnds
<1>1. e \in Seq(Items) /\ IsInjective(e)
  BY <1>0, PrependMembers DEF LinkedList
<1>2. /\ Len(e) = m + 1 /\ e # << >> /\ e[1] = i
      /\ \A k \in 1..m : e[k + 1] = c[k]
  BY <1>0
<1>3. ny[i] = h /\ \A k \in 1..m : ny[c[k]] = nx[c[k]]
  BY <1>0 DEF Contains
<1> HIDE DEF e, ny
<1>4. \A k \in 1..m : ny[e[k]] = e[k + 1]
  <2> TAKE k \in 1..m
  <2>1. CASE k = 1
    <3>1. c # << >> /\ 1 \in 1..m
      BY <1>0, <2>1
    <3>2. h = c[1]
      BY <3>1 DEF LinkedList
    <3>3. e[1 + 1] = c[1]
      BY <1>2, <3>1
    <3> QED
      BY <1>2, <1>3, <2>1, <3>2, <3>3
  <2>2. CASE k # 1
    <3>1. k - 1 \in 1..m /\ k - 1 \in 1..(m - 1) /\ (k - 1) + 1 = k
      BY <1>0, <2>2
    <3>2. e[(k - 1) + 1] = c[k - 1]
      BY <1>2, <3>1
    <3>3. nx[c[k - 1]] = c[(k - 1) + 1]
      BY <3>1 DEF LinkedList
    <3> QED
      BY <1>2, <1>3, <3>1, <3>2, <3>3
  <2> QED
    BY <2>1, <2>2
<1>5. e[m + 1] = (IF t = Null THEN i ELSE t) /\ ny[e[m + 1]] = Null
  <2>1. CASE m = 0
    BY <1>0, <1>2, <1>3, <2>1
  <2>2. CASE m # 0
    <3>1. m \in 1..m /\ c # << >>
      BY <1>0, <2>2
    <3>2. e[m + 1] = c[m] /\ ny[c[m]] = nx[c[m]]
      BY <1>2, <1>3, <3>1
    <3> QED
      BY <1>0, <3>1, <3>2 DEF LinkedList
  <2> QED
    BY <2>1, <2>2
<1>6. (m + 1) - 1 = m
  BY <1>0
<1> QED
  BY <1>1, <1>2, <1>4, <1>5, <1>6 DEF LinkedList, e, ny

\* sys_slist_append_list() joins the items of l, which are linked already, to
\* the list c.
LEMMA LinkedJoin ==
  ASSUME NEW c, NEW h, NEW t, NEW nx \in [Items -> Items \cup {Null}],
         LinkedList(c, h, t, nx),
         NEW l, NEW i, NEW j, LinkedList(l, i, j, nx), l # << >>,
         \A u \in Items : Contains(c, u) => ~Contains(l, u)
  PROVE  LinkedList(c \o l, IF t = Null THEN i ELSE h, j,
                    IF t = Null THEN nx ELSE [nx EXCEPT ![t] = i])
<1> DEFINE e == c \o l
           m == Len(c)
           n == Len(l)
           ny == IF t = Null THEN nx ELSE [nx EXCEPT ![t] = i]
<1>0. /\ c \in Seq(Items) /\ m \in Nat
      /\ \A k \in 1..m : c[k] \in Items
      /\ \A k1, k2 \in 1..m : c[k1] = c[k2] => k1 = k2
      /\ t = Null <=> c = << >>
      /\ c = << >> <=> m = 0
  BY LinkedEnds
<1>1. /\ l \in Seq(Items) /\ n \in Nat /\ n # 0
      /\ \A k \in 1..n : l[k] \in Items
      /\ \A k1, k2 \in 1..n : l[k1] = l[k2] => k1 = k2
  BY LinkedEnds
<1>2. /\ e \in Seq(Items) /\ Len(e) = m + n
      /\ \A k \in 1..(m + n) : e[k] = IF k <= m THEN c[k] ELSE l[k - m]
  BY <1>0, <1>1, ConcatProperties
<1>3. \A k \in 1..m, k2 \in 1..n : c[k] # l[k2]
  BY <1>0 DEF Contains
<1>4. /\ i = l[1] /\ j = l[n] /\ nx[l[n]] = Null
      /\ \A k \in 1..(n - 1) : nx[l[k]] = l[k + 1]
  BY DEF LinkedList
<1>5. /\ m # 0 => h = c[1] /\ t = c[m]
      /\ \A k \in 1..(m - 1) : nx[c[k]] = c[k + 1]
  BY <1>0 DEF LinkedList
<1>6. \A k \in 1..n : ny[l[k]] = nx[l[k]]
  <2>1. CASE m = 0
    BY <1>0, <2>1
  <2>2. CASE m # 0
    <3>1. m \in 1..m
      BY <1>0, <2>2
    <3>2. \A k \in 1..n : l[k] # t
      BY <1>3, <1>5, <2>2, <3>1
    <3> QED
      BY <1>1, <3>2
  <2> QED
    BY <2>1, <2>2
<1>7. m # 0 => ny[c[m]] = i
  <2> SUFFICES ASSUME m # 0 PROVE ny[c[m]] = i
    OBVIOUS
  <2>1. m \in 1..m
    BY <1>0
  <2> QED
    BY <1>0, <1>5, <2>1
<1>8. \A k \in 1..(m - 1) : ny[c[k]] = nx[c[k]]
  <2> TAKE k \in 1..(m - 1)
  <2>1. k \in 1..m /\ m \in 1..m /\ k # m /\ m # 0
    BY <1>0
  <2>2. c[k] # t
    BY <1>0, <1>5, <2>1
  <2> QED
    BY <1>0, <2>1, <2>2
<1> HIDE DEF e, ny, m, n
<1>9. IsInjective(e)
  <2>1. DOMAIN e = 1..(m + n)
    BY <1>2, LenProperties
  <2> SUFFICES ASSUME NEW k1 \in 1..(m + n), NEW k2 \in 1..(m + n), e[k1] = e[k2]
               PROVE  k1 = k2
    BY <2>1 DEF IsInjective
  <2>2. \A k \in 1..(m + n) : IF k <= m THEN k \in 1..m ELSE k - m \in 1..n
    BY <1>0, <1>1
  <2>3. CASE k1 <= m /\ k2 <= m
    BY <1>0, <1>2, <2>2, <2>3
  <2>4. CASE k1 <= m /\ ~(k2 <= m)
    BY <1>2, <1>3, <2>2, <2>4
  <2>5. CASE ~(k1 <= m) /\ k2 <= m
    BY <1>2, <1>3, <2>2, <2>5
  <2>6. CASE ~(k1 <= m) /\ ~(k2 <= m)
    <3>1. k1 - m = k2 - m
      BY <1>1, <1>2, <2>2, <2>6
    <3> QED
      BY <1>0, <1>1, <3>1
  <2> QED
    BY <2>3, <2>4, <2>5, <2>6
<1>10. \A k \in 1..(m + n - 1) : ny[e[k]] = e[k + 1]
  <2> TAKE k \in 1..(m + n - 1)
  <2>0. k \in 1..(m + n) /\ k + 1 \in 1..(m + n)
    BY <1>0, <1>1
  <2>1. CASE k < m
    <3>1. k \in 1..(m - 1) /\ k <= m /\ k + 1 <= m
      BY <1>0, <2>1
    <3>2. e[k] = c[k] /\ e[k + 1] = c[k + 1]
      BY <1>2, <2>0, <3>1
    <3> QED
      BY <1>5, <1>8, <3>1, <3>2
  <2>2. CASE k = m
    <3>1. k <= m /\ ~(k + 1 <= m) /\ (k + 1) - m = 1 /\ m # 0
      BY <1>0, <2>2
    <3>2. e[k] = c[m] /\ e[k + 1] = l[1]
      BY <1>2, <2>0, <2>2, <3>1
    <3> QED
      BY <1>4, <1>7, <3>1, <3>2
  <2>3. CASE k > m
    <3>1. /\ ~(k <= m) /\ ~(k + 1 <= m) /\ (k + 1) - m = (k - m) + 1
          /\ k - m \in 1..(n - 1) /\ k - m \in 1..n
      BY <1>0, <1>1, <2>3
    <3>2. e[k] = l[k - m] /\ e[k + 1] = l[(k - m) + 1]
      BY <1>2, <2>0, <3>1
    <3> QED
      BY <1>4, <1>6, <3>1, <3>2
  <2> QED
    BY <1>0, <2>1, <2>2, <2>3
<1>11. e # << >> /\ e[1] = (IF t = Null THEN i ELSE h)
  <2>1. 1 \in 1..(m + n) /\ m + n # 0
    BY <1>0, <1>1
  <2>2. e # << >>
    BY <1>2, <2>1, EmptySeq
  <2>3. CASE m = 0
    BY <1>0, <1>2, <1>4, <2>1, <2>2, <2>3
  <2>4. CASE m # 0
    <3>1. 1 <= m
      BY <1>0, <2>4
    <3> QED
      BY <1>0, <1>2, <1>5, <2>1, <2>2, <2>4, <3>1
  <2> QED
    BY <2>3, <2>4
<1>12. e[m + n] = j /\ ny[e[m + n]] = Null
  <2>1. /\ m + n \in 1..(m + n) /\ ~(m + n <= m) /\ (m + n) - m = n /\ n \in 1..n
    BY <1>0, <1>1
  <2>2. e[m + n] = l[n]
    BY <1>2, <2>1
  <2> QED
    BY <1>4, <1>6, <2>1, <2>2
<1>13. LinkedList(e, IF t = Null THEN i ELSE h, j, ny)
  <2>1. Len(e) = m + n /\ Len(e) - 1 = m + n - 1
    BY <1>0, <1>1, <1>2
  <2> QED
    BY <1>2, <1>9, <1>10, <1>11, <1>12, <2>1 DEF LinkedList
<1> QED
  BY <1>13 DEF e, ny

\* sys_slist_get_not_empty() takes the first item.
LEMMA LinkedGet ==
  ASSUME NEW c, NEW h, NEW t, NEW nx, LinkedList(c, h, t, nx), h # Null
  PROVE  /\ c # << >> /\ h = Head(c)
         /\ LinkedList(Tail(c), nx[h], IF t = h THEN nx[h] ELSE t, nx)
<1> DEFINE e == Tail(c)
           m == Len(c)
<1>0. /\ c \in Seq(Items) /\ m \in Nat /\ m # 0 /\ c # << >>
      /\ \A k \in 1..m : c[k] \in Items /\ c[k] # Null
      /\ \A k1, k2 \in 1..m : c[k1] = c[k2] => k1 = k2
  BY LinkedEnds
<1>1. /\ h = c[1] /\ t = c[m] /\ nx[c[m]] = Null
      /\ \A k \in 1..(m - 1) : nx[c[k]] = c[k + 1]
  BY <1>0 DEF LinkedList
<1>2. h = Head(c)
  BY <1>0, <1>1
<1>3. /\ e \in Seq(Items) /\ Len(e) = m - 1
      /\ \A k \in 1..(m - 1) : e[k] = c[k + 1]
  BY <1>0
<1>4. IsInjective(e)
  BY <1>0, TailMembers DEF LinkedList
<1> HIDE DEF e, m
<1>5. CASE m = 1
  <2>1. e = << >> /\ t = h /\ nx[h] = Null
    BY <1>0, <1>1, <1>3, <1>5, EmptySeq
  <2>2. LinkedList(e, nx[h], nx[h], nx)
    BY <2>1, <1>3, <1>4, <1>5 DEF LinkedList
  <2> QED
    BY <1>0, <1>2, <2>1, <2>2 DEF e
<1>6. CASE m # 1
  <2>1. /\ m - 1 \in Nat /\ m - 1 # 0 /\ 1 \in 1..(m - 1) /\ m - 1 \in 1..(m - 1)
        /\ 1 \in 1..m /\ m \in 1..m /\ (m - 1) + 1 = m
    BY <1>0, <1>6
  <2>2. e # << >> /\ t # h
    BY <1>0, <1>1, <1>3, <1>6, <2>1, EmptySeq
  <2>3. nx[h] = e[1] /\ e[m - 1] = t
    BY <1>1, <1>3, <2>1
  <2>4. \A k \in 1..((m - 1) - 1) : nx[e[k]] = e[k + 1]
    <3> TAKE k \in 1..((m - 1) - 1)
    <3>1. k \in 1..(m - 1) /\ k + 1 \in 1..(m - 1)
      BY <1>0
    <3> QED
      BY <1>1, <1>3, <3>1
  <2>5. LinkedList(e, nx[h], t, nx)
    BY <1>1, <1>3, <1>4, <2>2, <2>3, <2>4 DEF LinkedList
  <2> QED
    BY <1>0, <1>2, <2>2, <2>5 DEF e
<1> QED
  BY <1>5, <1>6

\* sys_slist_find_and_remove() takes out an item that is found after prev, or
\* at the head.
LEMMA LinkedRemove ==
  ASSUME NEW c, NEW h, NEW t, NEW nx \in [Items -> Items \cup {Null}],
         LinkedList(c, h, t, nx), NEW k \in 1..Len(c)
  PROVE  /\ k = 1 => LinkedList(RemoveAt(c, k), nx[c[k]],
                                IF t = c[k] THEN nx[c[k]] ELSE t,
                                [nx EXCEPT ![c[k]] = Null])
         /\ k # 1 => LinkedList(RemoveAt(c, k), h,
                                IF t = c[k] THEN c[k - 1] ELSE t,
                                [nx EXCEPT ![c[k - 1]] = nx[c[k]], ![c[k]] = Null])
<1> DEFINE e == RemoveAt(c, k)
           m == Len(c)
           i == c[k]
<1>0. /\ c \in Seq(Items) /\ m \in Nat /\ m # 0 /\ c # << >> /\ IsInjective(c)
      /\ \A n \in 1..m : c[n] \in Items /\ c[n] # Null
      /\ \A k1, k2 \in 1..m : c[k1] = c[k2] => k1 = k2
  <2>1. IsInjective(c)
    BY DEF LinkedList
  <2>2. /\ c \in Seq(Items) /\ m \in Nat
        /\ \A n \in 1..m : c[n] \in Items /\ c[n] # Null
        /\ \A k1, k2 \in 1..m : c[k1] = c[k2] => k1 = k2
        /\ c = << >> <=> m = 0
    BY LinkedEnds
  <2>3. m # 0
    BY <2>2
  <2> QED
    BY <2>1, <2>2, <2>3
<1>1. /\ h = c[1] /\ t = c[m] /\ nx[c[m]] = Null
      /\ \A n \in 1..(m - 1) : nx[c[n]] = c[n + 1]
  BY <1>0 DEF LinkedList
<1>2. /\ e \in Seq(Items) /\ Len(e) = m - 1 /\ ShiftedDown(e, c, k)
  BY ONLY <1>0, k \in 1..Len(c), RemoveAtEntries
<1>3. \A n \in 1..(m - 1) : e[n] = IF n < k THEN c[n] ELSE c[n + 1]
  BY <1>2 DEF ShiftedDown
<1>4. IsInjective(e)
  BY ONLY <1>0, k \in 1..Len(c), RemoveAtMembers
<1>5. i \in Items /\ k \in 1..m
  BY <1>0
<1> HIDE DEF e, m, i
<1>6. \A n \in 1..m : n # k => c[n] # i
  BY <1>0, <1>5 DEF i
<1>7. ASSUME k = 1
      PROVE  LinkedList(e, nx[i], IF t = i THEN nx[i] ELSE t, [nx EXCEPT ![i] = Null])
  <2> DEFINE ny == [nx EXCEPT ![i] = Null]
  <2>1. \A n \in 1..m : n # 1 => ny[c[n]] = nx[c[n]]
    BY <1>0, <1>6, <1>7
  <2> HIDE DEF ny
  <2>2. \A n \in 1..(m - 1) : e[n] = c[n + 1]
    BY <1>3, <1>7
  <2>3. CASE m = 1
    <3>1. e = << >>
      BY <1>2, <2>3, EmptySeq
    <3>2. t = i /\ nx[i] = Null
      BY <1>1, <1>7, <2>3 DEF i
    <3> QED
      BY <3>1, <3>2, <1>2, <1>4, <2>3 DEF LinkedList, ny
  <2>4. CASE m # 1
    <3>1. /\ m - 1 \in Nat /\ m - 1 # 0 /\ 1 \in 1..(m - 1) /\ m - 1 \in 1..(m - 1)
          /\ m \in 1..m /\ (m - 1) + 1 = m
      BY <1>0, <2>4
    <3>2. e # << >>
      BY <1>2, <3>1, EmptySeq
    <3>3. t # i /\ ny[c[m]] = Null
      BY <1>1, <1>6, <1>7, <2>1, <2>4, <3>1
    <3>4. nx[i] = e[1] /\ e[m - 1] = t
      BY <1>1, <1>7, <2>2, <3>1 DEF i
    <3>5. \A n \in 1..((m - 1) - 1) : ny[e[n]] = e[n + 1]
      <4> TAKE n \in 1..((m - 1) - 1)
      <4>1. n \in 1..(m - 1) /\ n + 1 \in 1..(m - 1) /\ n + 1 \in 1..m /\ n + 1 # 1
        BY <1>0
      <4> QED
        BY <1>1, <2>1, <2>2, <4>1
    <3>6. LinkedList(e, nx[i], t, ny)
      BY <1>1, <1>2, <1>4, <3>2, <3>3, <3>4, <3>5 DEF LinkedList
    <3> QED
      BY <3>3, <3>6 DEF ny
  <2> QED
    BY <2>3, <2>4
<1>8. ASSUME k # 1
      PROVE  LinkedList(e, h, IF t = i THEN c[k - 1] ELSE t,
                        [nx EXCEPT ![c[k - 1]] = nx[i], ![i] = Null])
  <2> DEFINE p == c[k - 1]
             ny == [nx EXCEPT ![p] = nx[i], ![i] = Null]
  <2>0. /\ k - 1 \in 1..m /\ k - 1 \in 1..(m - 1) /\ (k - 1) + 1 = k /\ k - 1 # k /\ k - 1 < k
        /\ m - 1 \in Nat /\ m - 1 # 0 /\ 1 \in 1..(m - 1) /\ 1 < k
        /\ m - 1 \in 1..(m - 1) /\ m \in 1..m /\ (m - 1) + 1 = m
    BY <1>0, <1>5, <1>8
  <2>1. p \in Items /\ p # i
    BY <1>0, <1>6, <2>0
  <2>2. ny[p] = nx[i]
    BY <1>5, <2>1
  <2>3. \A n \in 1..m : n # k /\ n # k - 1 => ny[c[n]] = nx[c[n]]
    <3> TAKE n \in 1..m
    <3> HAVE n # k /\ n # k - 1
    <3>1. c[n] # i /\ c[n] # p /\ c[n] \in Items
      BY <1>0, <1>6, <2>0
    <3> HIDE DEF p
    <3> QED
      BY <1>5, <2>1, <3>1
  <2> HIDE DEF ny, p
  <2>4. e # << >> /\ e[1] = h
    <3>1. e # << >>
      BY <1>2, <2>0, EmptySeq
    <3> QED
      BY <1>1, <1>3, <2>0, <3>1
  <2>5. e[k - 1] = p
    BY <1>3, <2>0 DEF p
  <2>6. \A n \in 1..((m - 1) - 1) : ny[e[n]] = e[n + 1]
    <3> TAKE n \in 1..((m - 1) - 1)
    <3>0. n \in 1..(m - 1) /\ n + 1 \in 1..(m - 1) /\ n \in 1..m /\ n + 1 \in 1..m /\ k \in Nat
      BY <1>0, <1>5
    <3>1. CASE n < k - 1
      <4>1. n # k /\ n # k - 1 /\ n < k /\ n + 1 < k
        BY <1>5, <3>0, <3>1
      <4>2. e[n] = c[n] /\ e[n + 1] = c[n + 1]
        BY <1>3, <3>0, <4>1
      <4> QED
        BY <1>1, <2>3, <3>0, <4>1, <4>2
    <3>2. CASE n = k - 1
      <4>1. n + 1 = k /\ ~(k < k) /\ k \in 1..(m - 1)
        BY <2>0, <3>0, <3>2
      <4>2. e[k] = c[k + 1] /\ nx[i] = c[k + 1]
        BY <1>1, <1>3, <4>1 DEF i
      <4> QED
        BY <2>2, <2>5, <3>2, <4>1, <4>2
    <3>3. CASE n > k - 1
      <4>1. ~(n < k) /\ ~(n + 1 < k) /\ n + 1 # k /\ n + 1 # k - 1
        BY <1>5, <3>0, <3>3
      <4>2. e[n] = c[n + 1] /\ e[n + 1] = c[(n + 1) + 1]
        BY <1>3, <3>0, <4>1
      <4>3. ny[c[n + 1]] = nx[c[n + 1]] /\ nx[c[n + 1]] = c[(n + 1) + 1]
        BY <1>1, <2>3, <3>0, <4>1
      <4> QED
        BY <4>2, <4>3
    <3> QED
      BY <3>0, <3>1, <3>2, <3>3
  <2>7. e[m - 1] = (IF t = i THEN p ELSE t) /\ ny[e[m - 1]] = Null
    <3>1. CASE k = m
      <4>1. m - 1 < k /\ t = i
        BY <1>1, <2>0, <3>1 DEF i
      <4>2. nx[i] = Null
        BY <1>1, <3>1 DEF i
      <4> QED
        BY <2>2, <2>5, <3>1, <4>1, <4>2
    <3>2. CASE k # m
      <4>1. ~(m - 1 < k) /\ m # k /\ m # k - 1
        BY <1>5, <1>0, <3>2
      <4>2. e[m - 1] = c[m]
        BY <1>3, <2>0, <4>1
      <4>3. c[m] # i /\ ny[c[m]] = nx[c[m]]
        BY <1>6, <2>0, <2>3, <4>1
      <4> QED
        BY <1>1, <4>2, <4>3
    <3> QED
      BY <3>1, <3>2
  <2>8. LinkedList(e, h, IF t = i THEN p ELSE t, ny)
    BY <1>2, <1>4, <2>4, <2>6, <2>7 DEF LinkedList
  <2> QED
    BY <2>8 DEF ny, p
<1> QED
  BY <1>7, <1>8 DEF e, i

\* sys_slist_insert() in the middle, behind the k-th item
LEMMA LinkedInsert ==
  ASSUME NEW c, NEW h, NEW t, NEW nx \in [Items -> Items \cup {Null}],
         LinkedList(c, h, t, nx), NEW i \in Items, ~Contains(c, i),
         NEW k \in 1..(Len(c) - 1)
  PROVE  LinkedList(InsertAt(c, k + 1, i), h, t, [nx EXCEPT ![i] = nx[c[k]], ![c[k]] = i])
<1> DEFINE e == InsertAt(c, k + 1, i)
           m == Len(c)
           p == c[k]
           ny == [nx EXCEPT ![i] = nx[p], ![p] = i]
<1>0. /\ c \in Seq(Items) /\ m \in Nat /\ IsInjective(c)
      /\ \A n \in 1..m : c[n] \in Items /\ c[n] # Null
      /\ \A k1, k2 \in 1..m : c[k1] = c[k2] => k1 = k2
      /\ c = << >> <=> m = 0
  <2>1. IsInjective(c)
    BY DEF LinkedList
  <2> QED
    BY <2>1, LinkedEnds
<1>1. /\ k \in 1..m /\ k + 1 \in 1..m /\ k + 1 \in 1..(m + 1) /\ k \in Nat /\ m # 0
      /\ 1 \in 1..m /\ m \in 1..m /\ m + 1 \in 1..(m + 1) /\ (m + 1) - 1 = m
  BY <1>0
<1>2. /\ h = c[1] /\ t = c[m] /\ nx[c[m]] = Null
      /\ \A n \in 1..(m - 1) : nx[c[n]] = c[n + 1]
  BY <1>0, <1>1 DEF LinkedList
<1>3. /\ e \in Seq(Items) /\ Len(e) = m + 1 /\ ShiftedUp(e, c, k + 1, i)
  BY ONLY <1>0, <1>1, i \in Items, InsertAtEntries
<1>4. \A n \in 1..(m + 1) :
        e[n] = IF n < k + 1 THEN c[n] ELSE IF n = k + 1 THEN i ELSE c[n - 1]
  BY <1>3 DEF ShiftedUp
<1>5. IsInjective(e)
  BY ONLY <1>0, <1>1, i \in Items, ~Contains(c, i), InsertAtMembers
<1>6. p \in Items /\ p # i /\ \A n \in 1..m : c[n] # i
  BY <1>0, <1>1 DEF Contains
<1>7. \A n \in 1..m : n # k => c[n] # p
  BY <1>0, <1>1
<1>7a. nx[p] = c[k + 1]
  BY <1>2
<1> HIDE DEF e, m, p
<1>8. ny[i] = nx[p] /\ ny[p] = i
  BY <1>6
<1>9. \A n \in 1..m : n # k => ny[c[n]] = nx[c[n]]
  BY <1>0, <1>6, <1>7
<1> HIDE DEF ny
<1>10. \A n \in 1..m : ny[e[n]] = e[n + 1]
  <2> TAKE n \in 1..m
  <2>0. n \in 1..(m + 1) /\ n + 1 \in 1..(m + 1) /\ (n + 1) - 1 = n
    BY <1>0
  <2>1. CASE n < k
    <3>1. n < k + 1 /\ n + 1 < k + 1 /\ n # k /\ n \in 1..(m - 1)
      BY <1>0, <1>1, <2>1
    <3>2. e[n] = c[n] /\ e[n + 1] = c[n + 1]
      BY <1>4, <2>0, <3>1
    <3> QED
      BY <1>2, <1>9, <3>1, <3>2
  <2>2. CASE n = k
    <3>1. n < k + 1 /\ ~(n + 1 < k + 1) /\ n + 1 = k + 1
      BY <1>1, <2>2
    <3>2. e[n] = p /\ e[n + 1] = i
      BY <1>4, <2>0, <2>2, <3>1 DEF p
    <3> QED
      BY <1>8, <3>2
  <2>3. CASE n = k + 1
    <3>1. ~(n < k + 1) /\ ~(n + 1 < k + 1) /\ n + 1 # k + 1
      BY <1>1, <2>3
    <3>2. e[n] = i /\ e[n + 1] = c[n]
      BY <1>4, <2>0, <2>3, <3>1
    <3> QED
      BY <1>7a, <1>8, <2>3, <3>2
  <2>4. CASE n > k + 1
    <3>1. /\ ~(n < k + 1) /\ n # k + 1 /\ ~(n + 1 < k + 1) /\ n + 1 # k + 1
          /\ n - 1 \in 1..m /\ n - 1 \in 1..(m - 1) /\ n - 1 # k /\ (n - 1) + 1 = n
      BY <1>0, <1>1, <2>4
    <3>2. e[n] = c[n - 1] /\ e[n + 1] = c[n]
      BY <1>4, <2>0, <3>1
    <3>3. nx[c[n - 1]] = c[n]
      BY <1>2, <3>1
    <3> QED
      BY <1>9, <3>1, <3>2, <3>3
  <2> QED
    BY <1>1, <2>1, <2>2, <2>3, <2>4
<1>11. e # << >> /\ e[1] = h
  <2>1. 1 \in 1..(m + 1) /\ 1 < k + 1 /\ m + 1 # 0
    BY <1>0, <1>1
  <2>2. e # << >>
    BY <1>3, <2>1, EmptySeq
  <2> QED
    BY <1>2, <1>4, <2>1, <2>2
<1>12. e[m + 1] = t /\ ny[e[m + 1]] = Null
  <2>1. ~(m + 1 < k + 1) /\ m + 1 # k + 1 /\ m # k
    BY <1>0 DEF m
  <2>2. e[m + 1] = c[m]
    BY <1>1, <1>4, <2>1
  <2> QED
    BY <1>1, <1>2, <1>9, <2>1, <2>2, SMTT(40)
<1>13. LinkedList(e, h, t, ny)
  BY <1>1, <1>3, <1>5, <1>10, <1>11, <1>12 DEF LinkedList
<1> QED
  BY <1>13 DEF e, ny, p

\* Behind the last item is at the end.
LEMMA InsertAtEnd ==
  ASSUME NEW S, NEW c \in Seq(S), NEW i \in S
  PROVE  InsertAt(c, Len(c) + 1, i) = Append(c, i)
<1> DEFINE m == Len(c)
           e == InsertAt(c, m + 1, i)
<1>0. m \in Nat /\ m + 1 \in 1..(m + 1)
  OBVIOUS
<1>1. e \in Seq(S) /\ Len(e) = m + 1 /\ ShiftedUp(e, c, m + 1, i)
  BY ONLY <1>0, c \in Seq(S), i \in S, InsertAtEntries
<1>2. /\ Append(c, i) \in Seq(S) /\ Len(Append(c, i)) = m + 1
      /\ Append(c, i)[m + 1] = i /\ \A n \in 1..m : Append(c, i)[n] = c[n]
  OBVIOUS
<1>3. \A n \in 1..(m + 1) :
        e[n] = IF n < m + 1 THEN c[n] ELSE IF n = m + 1 THEN i ELSE c[n - 1]
  BY <1>1 DEF ShiftedUp
<1> HIDE DEF e, m
<1>4. \A n \in 1..(m + 1) : e[n] = Append(c, i)[n]
  <2> TAKE n \in 1..(m + 1)
  <2>1. n = m + 1 \/ (n \in 1..m /\ n < m + 1)
    BY <1>0
  <2>2. ~(m + 1 < m + 1)
    BY <1>0
  <2> QED
    BY <1>2, <1>3, <2>1, <2>2
<1>5. e = Append(c, i)
  BY <1>1, <1>2, <1>4, SeqEqual
<1> QED
  BY <1>5 DEF e, m

\* f[k] is what is left of the first k members of s when those of S are taken.
Takes(f, s, S) ==
  /\ f[0] = << >>
  /\ \A k \in 1..Len(s) : f[k] = IF s[k] \in S THEN f[k - 1] ELSE Append(f[k - 1], s[k])

\* The recursion in Without(s, S) has a solution.
LEMMA WithoutRecursion ==
  ASSUME NEW T, NEW s \in Seq(T), NEW S
  PROVE  \E f \in [0..Len(s) -> Seq(T)] : Without(s, S) = f[Len(s)] /\ Takes(f, s, S)
<1> DEFINE m == Len(s)
           Q == Seq(T)
           g == [n \in Nat |-> [x \in Q |->
                   IF n + 1 \notin 1..m THEN x
                   ELSE IF s[n + 1] \in S THEN x ELSE Append(x, s[n + 1])]]
           Turns(r) == [k \in 0..m |-> IF k = 0 THEN << >>
                          ELSE IF s[k] \in S THEN r[k - 1] ELSE Append(r[k - 1], s[k])]
           W == CHOOSE r : r = Turns(r)
<1>0. m \in Nat /\ \A k \in 1..m : s[k] \in T
  OBVIOUS
<1>1. g \in [Nat -> [Q -> Q]]
  <2> SUFFICES ASSUME NEW n \in Nat, NEW x \in Q
               PROVE  (IF n + 1 \notin 1..m THEN x
                       ELSE IF s[n + 1] \in S THEN x ELSE Append(x, s[n + 1])) \in Q
    OBVIOUS
  <2>1. n + 1 \in 1..m => Append(x, s[n + 1]) \in Q
    BY <1>0
  <2> QED
    BY <2>1
<1>2. PICK h : Recursion(h, Q, << >>, g)
  <2> DEFINE a == << >>
  <2>1. a \in Q
    OBVIOUS
  <2> HIDE DEF Q, g, a
  <2>2. \E h : Recursion(h, Q, a, g)
    BY <1>1, <2>1, RecursionExists, Zenon
  <2> QED
    BY <2>2 DEF a
<1>3. h \in [Nat -> Q] /\ h[0] = << >> /\ \A n \in Nat : h[n + 1] = g[n][h[n]]
  BY <1>2 DEF Recursion
<1>4. ASSUME NEW k \in 1..m
      PROVE  h[k] = IF s[k] \in S THEN h[k - 1] ELSE Append(h[k - 1], s[k])
  <2>1. k - 1 \in Nat /\ (k - 1) + 1 = k /\ k \in Nat
    BY <1>0
  <2>2. h[(k - 1) + 1] = g[k - 1][h[k - 1]] /\ h[k - 1] \in Q
    BY <1>3, <2>1
  <2>3. g[k - 1][h[k - 1]] = IF s[k] \in S THEN h[k - 1] ELSE Append(h[k - 1], s[k])
    BY <2>1, <2>2
  <2> HIDE DEF g
  <2> QED
    BY <2>1, <2>2, <2>3
<1> HIDE DEF g, Q
<1> DEFINE f == [k \in 0..m |-> h[k]]
<1>5. f \in [0..m -> Q] /\ f[0] = << >> /\ \A k \in 0..m : f[k] = h[k]
  BY <1>0, <1>3
<1>6. \A k \in 1..m : f[k] = IF s[k] \in S THEN f[k - 1] ELSE Append(f[k - 1], s[k])
  <2> HIDE DEF f
  <2>1. \A k \in 1..m : k \in 0..m /\ k - 1 \in 0..m
    BY <1>0
  <2> QED
    BY <1>4, <1>5, <2>1
<1>7. f = Turns(f)
  <2>1. \A k \in 0..m : k = 0 \/ k \in 1..m
    BY <1>0
  <2> QED
    BY <1>5, <1>6, <2>1, Zenon
<1>8. W = Turns(W)
  BY <1>7, Zenon
<1>9. Without(s, S) = W[m]
  BY DEF Without
<1> HIDE DEF f, W
<1>10. \A k \in 0..m : W[k] = IF k = 0 THEN << >>
                          ELSE IF s[k] \in S THEN W[k - 1] ELSE Append(W[k - 1], s[k])
  BY <1>8
<1>11. \A k \in 0..m : W[k] = f[k]
  <2> DEFINE B == {k \in 0..m : W[k] # f[k]}
  <2> SUFFICES ASSUME B # {} PROVE FALSE
    OBVIOUS
  <2>1. B \in SUBSET Nat
    OBVIOUS
  <2>2. PICK k \in B : \A j \in B : k <= j
    BY <2>1, LeastNatural
  <2>3. k \in 0..m /\ k # 0
    BY <1>0, <1>5, <1>10
  <2>4. k \in 1..m /\ k - 1 \in 0..m /\ ~(k <= k - 1)
    BY <1>0, <2>3
  <2>5. W[k - 1] = f[k - 1]
    BY <2>2, <2>4
  <2> QED
    BY <1>6, <1>10, <2>3, <2>4, <2>5
<1>12. Without(s, S) = f[m]
  BY <1>0, <1>9, <1>11
<1>13. Takes(f, s, S)
  BY ONLY <1>5, <1>6 DEF Takes
<1>14. f \in [0..Len(s) -> Seq(T)]
  BY ONLY <1>5 DEF Q
<1> QED
  BY ONLY <1>12, <1>13, <1>14

\* Without(s, S) holds, once, what s holds outside S, in the order of s.
LEMMA WithoutMembers ==
  ASSUME NEW T, NEW s \in Seq(T), NEW S, IsInjective(s)
  PROVE  /\ Without(s, S) \in Seq(T)
         /\ IsInjective(Without(s, S))
         /\ \A u \in T : Contains(Without(s, S), u) <=> (u \notin S /\ Contains(s, u))
         /\ \A R : Ordered(s, R) => Ordered(Without(s, S), R)
<1> DEFINE m == Len(s)
<1>0. m \in Nat /\ \A k \in 1..m : s[k] \in T
  OBVIOUS
<1>1a. PICK f \in [0..Len(s) -> Seq(T)] : Without(s, S) = f[Len(s)] /\ Takes(f, s, S)
  BY ONLY s \in Seq(T), WithoutRecursion
<1>1. /\ f \in [0..m -> Seq(T)] /\ Without(s, S) = f[m]
      /\ f[0] = << >>
      /\ \A k \in 1..m : f[k] = IF s[k] \in S THEN f[k - 1] ELSE Append(f[k - 1], s[k])
  BY ONLY f \in [0..Len(s) -> Seq(T)], <1>1a DEF Takes
<1> DEFINE Good(k) ==
      /\ IsInjective(f[k])
      /\ \A u \in T : Contains(f[k], u) <=> (u \notin S /\ \E j \in 1..k : s[j] = u)
      /\ \A R : Ordered(s, R) => Ordered(f[k], R)
<1>2. Good(0)
  <2>1. f[0] = << >>
    BY <1>1
  <2> QED
    BY <2>1, EmptySeq DEF IsInjective, Contains, Ordered
<1>3. ASSUME NEW k \in 1..m, Good(k - 1) PROVE Good(k)
  <2> DEFINE q == f[k - 1]
             t == s[k]
  <2>0. k - 1 \in 0..m /\ q \in Seq(T) /\ t \in T
    <3>1. k - 1 \in 0..m
      BY <1>0
    <3>2. t \in T
      BY <1>0
    <3>3. f[k - 1] \in Seq(T)
      BY <3>1
    <3> QED
      BY <3>1, <3>2, <3>3
  <2>1. /\ IsInjective(q)
        /\ \A u \in T : Contains(q, u) <=> (u \notin S /\ \E j \in 1..(k - 1) : s[j] = u)
        /\ \A R : Ordered(s, R) => Ordered(q, R)
    BY <1>3
  <2>2. \A j \in 1..k : j = k \/ j \in 1..(k - 1)
    OBVIOUS
  <2>3. \A j \in 1..(k - 1) : j \in 1..k
    OBVIOUS
  <2>4. k \in 1..k
    OBVIOUS
  <2>5. f[k] = IF t \in S THEN q ELSE Append(q, t)
    BY <1>1
  <2>6. \A j \in 1..(k - 1) : s[j] # t
    <3>1. \A j \in 1..(k - 1) : j \in 1..m /\ j # k
      BY <1>0
    <3> QED
      BY <1>0, <3>1, LenProperties DEF IsInjective
  <2>7. \A u \in T : (\E j \in 1..k : s[j] = u) <=> (u = t \/ \E j \in 1..(k - 1) : s[j] = u)
    BY <2>2, <2>3, <2>4
  <2>8. CASE t \in S
    BY <2>1, <2>5, <2>7, <2>8
  <2>9. CASE t \notin S
    <3> HIDE DEF q, t
    <3>1. ~Contains(q, t)
      BY <2>0, <2>1, <2>6
    <3>2. /\ IsInjective(Append(q, t))
          /\ \A u \in T : Contains(Append(q, t), u) <=> (u = t \/ Contains(q, u))
      BY <2>0, <2>1, <3>1, AppendMembers
    <3>3. ASSUME NEW R, Ordered(s, R) PROVE Ordered(Append(q, t), R)
      <4> DEFINE e == Append(q, t)
                 n == Len(q)
      <4>1. /\ e \in Seq(T) /\ Len(e) = n + 1 /\ n \in Nat
            /\ e[n + 1] = t
            /\ \A i \in 1..n : e[i] = q[i]
        BY <2>0
      <4>2. Ordered(q, R)
        BY <2>1, <3>3
      <4>3. \A i \in 1..n : q[i] \in T
        BY <2>0
      <4> HIDE DEF e, n
      <4>4. \A i \in 1..n : t \in R[q[i]]
        <5> TAKE i \in 1..n
        <5>1. Contains(q, q[i])
          BY DEF Contains, n
        <5>2. PICK j \in 1..(k - 1) : s[j] = q[i]
          BY <2>1, <4>3, <5>1
        <5>3. j \in 1..m /\ k \in 1..m /\ j < k
          BY <1>0
        <5> QED
          BY <3>3, <5>2, <5>3 DEF Ordered, t
      <4>5. \A i, j \in 1..(n + 1) : i < j => (i \in 1..n /\ (j = n + 1 \/ j \in 1..n))
        BY <4>1
      <4>6. ASSUME NEW i \in 1..(n + 1), NEW j \in 1..(n + 1), i < j PROVE e[j] \in R[e[i]]
        BY <4>1, <4>2, <4>4, <4>5, <4>6 DEF Ordered, n
      <4> QED
        BY <4>1, <4>6 DEF Ordered, e
    <3> QED
      BY <2>1, <2>5, <2>7, <2>9, <3>2, <3>3 DEF q, t
  <2> QED
    BY <2>8, <2>9
<1> HIDE DEF Good
<1>4. \A k \in 0..m : Good(k)
  <2> DEFINE B == {k \in 0..m : ~Good(k)}
  <2> SUFFICES ASSUME B # {} PROVE FALSE
    OBVIOUS
  <2>1. B \in SUBSET Nat
    OBVIOUS
  <2>2. PICK k \in B : \A j \in B : k <= j
    BY <2>1, LeastNatural
  <2>3. k \in 0..m /\ k # 0
    BY <1>0, <1>2
  <2>4. k \in 1..m /\ k - 1 \in 0..m /\ ~(k <= k - 1)
    BY <1>0, <2>3
  <2>5. Good(k - 1)
    BY <2>2, <2>4
  <2> QED
    BY <1>3, <2>4, <2>5
<1>5. Good(m) /\ m \in 0..m
  BY <1>0, <1>4
<1> QED
  BY <1>1, <1>5 DEF Good, Contains

\* Ending the waits of several live waiters at once, as the loop of
\* k_queue_append_list() does.
LEMMA ServeInv ==
  ASSUME ThreadInv, NEW served \in SUBSET OpenWaits,
         waitq' = Without(waitq, served),
         tstate' = [t \in Threads |-> IF t \in served THEN "ready" ELSE tstate[t]],
         tmo' = [t \in Threads |-> IF t \in served THEN "inactive" ELSE tmo[t]],
         UNCHANGED <<clock, expired, ahead>>
  PROVE  ThreadInv' /\ OpenWaits' = OpenWaits \ served
<1>0. /\ tstate \in [Threads -> {"ready", "pending", "dead"}]
      /\ tmo \in [Threads -> {"inactive", "armed", "expired"}]
      /\ waitq \in Seq(Threads) /\ IsInjective(waitq)
      /\ WaitqConsistent /\ WaitqSorted
  BY DEF ThreadInv, ThreadTypeOK, WaitqConsistent
<1> DEFINE R == [x \in Threads |-> {y \in Threads :
                   /\ Prio[x] <= Prio[y]
                   /\ Prio[x] = Prio[y] => y \notin ahead[x]}]
           r == Without(waitq, served)
<1>1. /\ r \in Seq(Threads)
      /\ IsInjective(r)
      /\ \A u \in Threads : Contains(r, u) <=> (u \notin served /\ Contains(waitq, u))
      /\ Ordered(waitq, R) => Ordered(r, R)
  BY ONLY <1>0, WithoutMembers
<1>2. Ordered(waitq, R)
  <2>1. DOMAIN waitq = 1..Len(waitq) /\ \A k \in 1..Len(waitq) : waitq[k] \in Threads
    BY <1>0, LenProperties
  <2> QED
    BY <1>0, <2>1 DEF Ordered, WaitqSorted
<1> HIDE DEF r
<1>3. waitq' = r /\ ahead' = ahead /\ clock' = clock /\ expired' = expired
  BY DEF r
<1>4. WaitqSorted'
  <2>1. DOMAIN r = 1..Len(r) /\ \A k \in 1..Len(r) : r[k] \in Threads
    BY <1>1, LenProperties
  <2> SUFFICES ASSUME NEW j \in 1..Len(r), NEW k \in 1..Len(r), j < k
               PROVE  /\ Prio[r[j]] <= Prio[r[k]]
                      /\ Prio[r[j]] = Prio[r[k]] => r[k] \notin ahead[r[j]]
    BY <1>3, <2>1 DEF WaitqSorted
  <2> QED
    BY <1>1, <1>2, <2>1 DEF Ordered
<1>5. ThreadTypeOK'
  BY <1>0, <1>1, <1>3 DEF ThreadTypeOK, ThreadInv
<1>6. /\ \A u \in Threads : tstate'[u] = IF u \in served THEN "ready" ELSE tstate[u]
      /\ \A u \in Threads : tmo'[u] = IF u \in served THEN "inactive" ELSE tmo[u]
      /\ \A u \in served : u \in Threads /\ tstate[u] = "pending" /\ tmo[u] # "expired"
  BY DEF OpenWaits
<1>7. WaitqConsistent'
  <2>1. \A u \in Threads : tstate'[u] = "pending" <=> Contains(waitq', u)
    BY <1>0, <1>1, <1>3, <1>6 DEF WaitqConsistent
  <2>2. \A u \in Threads : tmo'[u] = "expired" <=> Contains(expired', u)
    BY <1>0, <1>3, <1>6 DEF WaitqConsistent
  <2>3. \A u \in Threads : tstate'[u] # "pending" => tmo'[u] = "inactive"
    BY <1>0, <1>6 DEF WaitqConsistent
  <2> QED
    BY <1>0, <1>1, <1>3, <2>1, <2>2, <2>3 DEF WaitqConsistent
<1>8. OpenWaits' = OpenWaits \ served
  BY <1>6 DEF OpenWaits
<1> QED
  BY <1>4, <1>5, <1>7, <1>8 DEF ThreadInv

\* prepare_thread_to_run() ends the wait of one thread, which gets i.
LEMMA ServeFirstInv ==
  ASSUME ThreadInv, NEW i, ServeFirst(i)
  PROVE  /\ ThreadInv'
         /\ \E t \in OpenWaits :
              /\ OpenWaits' = OpenWaits \ {t}
              /\ ret' = [ret EXCEPT ![t] = "OK"]
              /\ got' = [got EXCEPT ![t] = i]
              /\ tstate' = [tstate EXCEPT ![t] = "ready"]
<1>1. PICK k \in DOMAIN waitq :
        FirstToUnpend(k) /\ Wake(k, "OK") /\ got' = [got EXCEPT ![waitq[k]] = i]
  BY DEF ServeFirst
<1>2. ThreadInv'
  BY <1>1, WakeInv DEF FirstToUnpend
<1>3. waitq[k] \in OpenWaits /\ OpenWaits' = OpenWaits \ {waitq[k]}
  BY <1>1, UnpendWaits DEF Wake
<1>4. ret' = [ret EXCEPT ![waitq[k]] = "OK"] /\ tstate' = [tstate EXCEPT ![waitq[k]] = "ready"]
  BY <1>1 DEF Wake
<1> QED
  BY <1>1, <1>2, <1>3, <1>4

\* If nobody can be served no wait is open.
LEMMA NoneOpen == ThreadInv /\ NoneToUnpend => OpenWaits = {}
<1>1. NoneToUnpend => LiveWaiters = {}
  BY DEF NoneToUnpend, LiveWaiters
<1> QED
  BY <1>1, LiveWaitersAre

\* The types of the list's variables
ListTypeOK ==
  /\ head \in Items \cup {Null} /\ tail \in Items \cup {Null}
  /\ next \in [Items -> Items \cup {Null}]

\* The links lead from head through the inserted items to tail, and while
\* there are any nobody can be waiting.
ListInv ==
  /\ ListTypeOK
  /\ LinkedList(Chain, head, tail, next)
  /\ \A i \in Items : Contains(Chain, i) <=> where[i] = "queued"
  /\ Chain # << >> => OpenWaits = {}

\* d is what the insertion of i behind prev makes of the list c.
Placed(c, prev, i, d) ==
  \/ prev = Null /\ d = <<i>> \o c
  \/ \E k \in 1..Len(c) : c[k] = prev /\ d = InsertAt(c, k + 1, i)
  \/ prev # Null /\ ~Contains(c, prev) /\ (d = Append(c, i) \/ d = c)

\* sys_slist_insert() behind any item, on the list or not, leaves a list.
LEMMA ListInsertIs ==
  ASSUME ListInv, NEW i \in Items, where[i] # "queued",
         NEW prev \in Items \cup {Null}, prev # i, ListInsert(prev, i)
  PROVE  /\ ListTypeOK'
         /\ \E d : /\ LinkedList(d, head', tail', next')
                   /\ Placed(Chain, prev, i, d)
                   /\ \A u \in Items : Contains(d, u) <=>
                        (Contains(Chain, u) \/ (u = i /\ ~Astray(prev)))
<1> DEFINE c == Chain
<1>0. /\ LinkedList(c, head, tail, next) /\ ListTypeOK /\ ~Contains(c, i)
      /\ \A u \in Items : Contains(c, u) <=> where[u] = "queued"
  BY DEF ListInv
<1>0a. /\ next \in [Items -> Items \cup {Null}]
       /\ head \in Items \cup {Null} /\ tail \in Items \cup {Null}
  BY <1>0 DEF ListTypeOK
<1> HIDE DEF c
<1>0b. /\ c \in Seq(Items) /\ IsInjective(c) /\ Len(c) \in Nat
       /\ \A k \in 1..Len(c) : c[k] \in Items /\ c[k] # Null
       /\ c = << >> <=> Len(c) = 0
  <2>1. IsInjective(c)
    BY <1>0 DEF LinkedList
  <2> QED
    BY <1>0, <2>1, LinkedEnds
<1> DEFINE Done == /\ ListTypeOK'
                   /\ \E d : /\ LinkedList(d, head', tail', next')
                             /\ Placed(c, prev, i, d)
                             /\ \A u \in Items : Contains(d, u) <=>
                                  (Contains(c, u) \/ (u = i /\ ~Astray(prev)))
<1>1. ASSUME prev = Null PROVE Done
  <2>1. /\ next' = [next EXCEPT ![i] = head] /\ head' = i
        /\ tail' = IF tail = Null THEN i ELSE tail
    BY <1>1 DEF ListInsert, ListPrepend
  <2> DEFINE d == <<i>> \o c
  <2>2. LinkedList(d, head', tail', next')
    BY <1>0, <1>0a, <2>1, LinkedPrepend
  <2>3. ListTypeOK'
    BY <1>0a, <2>1 DEF ListTypeOK
  <2>4. \A u \in Items : Contains(d, u) <=> (u = i \/ Contains(c, u))
    BY <1>0, <1>0b, PrependMembers
  <2>5. ~Astray(prev) /\ Placed(c, prev, i, d)
    BY <1>1 DEF Astray, Placed
  <2> HIDE DEF d
  <2> QED
    BY <2>2, <2>3, <2>4, <2>5
<1>2. ASSUME prev # Null, next[prev] = Null PROVE Done
  <2> DEFINE nx == [next EXCEPT ![i] = Null]
             d == c \o <<i>>
  <2>0. ListAppend(i, i, nx)
    BY <1>2 DEF ListInsert
  <2>2. /\ next' = IF tail = Null THEN nx ELSE [nx EXCEPT ![tail] = i]
        /\ head' = IF tail = Null THEN i ELSE head
        /\ tail' = i
    BY <2>0 DEF ListAppend
  <2>3. nx \in [Items -> Items \cup {Null}] /\ nx[i] = Null /\ \A u \in Items \ {i} : nx[u] = next[u]
    BY <1>0a
  <2> HIDE DEF nx
  <2>4. LinkedList(c, head, tail, nx)
    BY <1>0, <2>3, LinkedFrame
  <2>5. LinkedList(<<i>>, i, i, nx)
    <3> DEFINE l == <<i>>
    <3>1. l \in Seq(Items) /\ Len(l) = 1 /\ l[1] = i /\ l # << >> /\ DOMAIN l = {1}
      OBVIOUS
    <3> HIDE DEF l
    <3>2. IsInjective(l)
      BY <3>1 DEF IsInjective
    <3>3. LinkedList(l, i, i, nx)
      BY <2>3, <3>1, <3>2 DEF LinkedList
    <3> QED
      BY <3>3 DEF l
  <2>6. \A u \in Items : Contains(c, u) => ~Contains(<<i>>, u)
    BY <1>0 DEF Contains
  <2>7. LinkedList(d, IF tail = Null THEN i ELSE head, i,
                   IF tail = Null THEN nx ELSE [nx EXCEPT ![tail] = i])
    <3>1. <<i>> # << >>
      OBVIOUS
    <3> QED
      BY <2>3, <2>4, <2>5, <2>6, <3>1, LinkedJoin
  <2>8. ListTypeOK'
    BY <1>0a, <2>2, <2>3 DEF ListTypeOK
  <2>9. d = Append(c, i)
    BY <1>0b
  <2>10. \A u \in Items : Contains(d, u) <=> (u = i \/ Contains(c, u))
    <3>1. \A u \in Items : Contains(Append(c, i), u) <=> (u = i \/ Contains(c, u))
      BY <1>0, <1>0b, AppendMembers
    <3> HIDE DEF d
    <3> QED
      BY <2>9, <3>1
  <2>11. Placed(c, prev, i, d)
    <3>1. CASE Contains(c, prev)
      <4>1. PICK k \in 1..Len(c) : c[k] = prev
        BY <3>1 DEF Contains
      <4>2. k = Len(c)
        <5> SUFFICES ASSUME k # Len(c) PROVE FALSE
          OBVIOUS
        <5>1. k \in 1..(Len(c) - 1) /\ k + 1 \in 1..Len(c)
          BY <1>0b
        <5>2. next[c[k]] = c[k + 1]
          BY <1>0, <5>1 DEF LinkedList
        <5> QED
          BY <1>0b, <1>2, <4>1, <5>1, <5>2
      <4>3. InsertAt(c, k + 1, i) = Append(c, i)
        BY <1>0b, <4>2, InsertAtEnd
      <4> QED
        BY <2>9, <4>1, <4>3 DEF Placed
    <3>2. CASE ~Contains(c, prev)
      BY <1>2, <2>9, <3>2 DEF Placed
    <3> QED
      BY <3>1, <3>2
  <2>12. ~Astray(prev)
    BY <1>2 DEF Astray
  <2>13. LinkedList(d, head', tail', next')
    <3> HIDE DEF d
    <3> QED
      BY <2>2, <2>7
  <2> HIDE DEF d
  <2> QED
    BY <2>8, <2>10, <2>11, <2>12, <2>13
<1>3. ASSUME prev # Null, next[prev] # Null PROVE Done
  <2>1. /\ next' = [next EXCEPT ![i] = next[prev], ![prev] = i]
        /\ head' = head /\ tail' = tail
    BY <1>3 DEF ListInsert
  <2>2. ListTypeOK'
    BY <1>0a, <1>3, <2>1 DEF ListTypeOK
  <2>3. CASE Contains(c, prev)
    <3>1. PICK k \in 1..Len(c) : c[k] = prev
      BY <2>3 DEF Contains
    <3>2. k # Len(c)
      <4>1. c # << >>
        BY <1>0b, <3>1
      <4>2. next[c[Len(c)]] = Null
        BY <1>0, <4>1 DEF LinkedList
      <4> QED
        BY <1>3, <3>1, <4>2
    <3>3. k \in 1..(Len(c) - 1) /\ k + 1 \in 1..(Len(c) + 1)
      BY <1>0b, <3>2
    <3> DEFINE d == InsertAt(c, k + 1, i)
    <3>4. LinkedList(d, head, tail, [next EXCEPT ![i] = next[c[k]], ![c[k]] = i])
      BY <1>0, <1>0a, <3>3, LinkedInsert
    <3>5. \A u \in Items : Contains(d, u) <=> (u = i \/ Contains(c, u))
      BY ONLY <1>0, <1>0b, <3>3, i \in Items, InsertAtMembers
    <3>6. Placed(c, prev, i, d)
      BY <3>1 DEF Placed
    <3>7. ~Astray(prev)
      BY <1>0, <1>3, <2>3 DEF Astray
    <3>8. LinkedList(d, head', tail', next')
      <4> HIDE DEF d
      <4> QED
        BY <2>1, <3>1, <3>4
    <3> HIDE DEF d
    <3> QED
      BY <2>2, <3>5, <3>6, <3>7, <3>8
  <2>4. CASE ~Contains(c, prev)
    <3>1. prev \in Items
      BY <1>3
    <3>2. \A u \in Items : Contains(c, u) => u # i /\ u # prev
      BY <1>0, <2>4
    <3>3. \A u \in Items : Contains(c, u) => next'[u] = next[u]
      BY <1>0a, <2>1, <3>1, <3>2
    <3>4. LinkedList(c, head', tail', next')
      <4>1. LinkedList(c, head, tail, next')
        BY <1>0, <3>3, LinkedFrame
      <4> QED
        BY <2>1, <4>1
    <3>5. Astray(prev)
      BY <1>0, <1>3, <2>4, <3>1 DEF Astray
    <3>6. Placed(c, prev, i, c)
      BY <1>3, <2>4 DEF Placed
    <3> QED
      BY <2>2, <3>4, <3>5, <3>6
  <2> QED
    BY <2>3, <2>4
<1>4. Done
  BY <1>1, <1>2, <1>3
<1> QED
  BY <1>4 DEF c

\* Each append that is under way has an item of its own in its hands, and the
\* item it took for the last one is another.
AppendInv ==
  \A a \in Appenders : append[a] # Idle =>
    /\ append[a].item \in Items
    /\ append[a].prev # append[a].item
    /\ \A b \in Appenders : append[b].item = append[a].item => b = a

\* The inductive invariant.  ListWhole speaks of what a walk over the links
\* finds; ListInv says of every link where it leads, which is what the
\* operations change.
QueueIInv == QueueTypeOK /\ ThreadInv /\ ListInv /\ AppendInv /\ PendingReturn

\* A step that leaves a linked list c with the inserted items re-establishes
\* ListInv, and c is the chain then.
LEMMA NewList ==
  ASSUME ListTypeOK', NEW c, LinkedList(c, head', tail', next'),
         \A i \in Items : Contains(c, i) <=> where'[i] = "queued",
         c # << >> => OpenWaits' = {}
  PROVE  ListInv' /\ Chain' = c
<1>1. Chain' = c
  BY ChainNext
<1> QED
  BY <1>1 DEF ListInv, LinkedList

\* The tail is on the list.
LEMMA TailQueued == ListInv /\ tail # Null => where[tail] = "queued"
<1> SUFFICES ASSUME ListInv, tail # Null PROVE where[tail] = "queued"
  OBVIOUS
<1> DEFINE c == Chain
<1>1. /\ LinkedList(c, head, tail, next) /\ ListTypeOK
      /\ \A i \in Items : Contains(c, i) <=> where[i] = "queued"
  BY DEF ListInv
<1> HIDE DEF c
<1>2. c \in Seq(Items) /\ c # << >> /\ Len(c) \in 1..Len(c)
  BY <1>1, LinkedEnds
<1>3. Contains(c, tail)
  BY <1>1, <1>2 DEF Contains, LinkedList
<1> QED
  BY <1>1, <1>3 DEF ListTypeOK

\* A step that leaves the links alone
LEMMA SameList ==
  ASSUME ListInv, UNCHANGED listVars,
         \A i \in Items : where'[i] = "queued" <=> where[i] = "queued",
         Chain # << >> => OpenWaits' = {}
  PROVE  ListInv' /\ Chain' = Chain
<1> DEFINE c == Chain
<1>1. LinkedList(c, head', tail', next') /\ ListTypeOK'
  BY DEF ListInv, ListTypeOK, LinkedList, listVars
<1>2. \A i \in Items : Contains(c, i) <=> where'[i] = "queued"
  BY DEF ListInv
<1>3. c # << >> => OpenWaits' = {}
  OBVIOUS
<1> HIDE DEF c
<1>4. ListInv' /\ Chain' = c
  BY <1>1, <1>2, <1>3, NewList
<1> QED
  BY <1>4 DEF c

\* k_queue_init() establishes the invariant.
LEMMA QueueInitIInv == QueueInit => QueueIInv
<1> SUFFICES ASSUME QueueInit PROVE QueueIInv
  OBVIOUS
<1>1. ThreadInv /\ ret = [t \in Threads |-> "none"] /\ \A t \in Threads : tstate[t] = "ready"
  BY ThreadInitInv DEF QueueInit, ThreadInit
<1>2. LinkedList(<< >>, head, tail, next)
  <2> DEFINE c == << >>
  <2>1. c \in Seq(Items) /\ Len(c) = 0 /\ IsInjective(c) /\ c = << >>
    BY EmptySeq DEF IsInjective
  <2> HIDE DEF c
  <2>2. LinkedList(c, head, tail, next)
    BY <2>1 DEF LinkedList, QueueInit
  <2> QED
    BY <2>2 DEF c
<1>3. Chain = << >>
  BY <1>2, ChainIs
<1>4. ListTypeOK
  BY DEF QueueInit, ListTypeOK
<1>5. ListInv
  <2>1. \A i \in Items : ~Contains(<< >>, i) /\ where[i] # "queued"
    BY DEF Contains, QueueInit
  <2> QED
    BY <1>2, <1>3, <1>4, <2>1 DEF ListInv
<1>6. QueueTypeOK
  <2>1. append \in [Appenders -> [item : Items \cup {Null}, prev : Items \cup {Null}]]
    BY DEF QueueInit, Idle
  <2>2. \A i \in Items : where[i] # "append" /\ \A a \in Appenders : append[a].item # i
    BY QueueAssumption DEF QueueInit, Idle
  <2> QED
    BY <1>1, <1>4, <2>1, <2>2 DEF QueueTypeOK, ThreadInv, ListTypeOK, QueueInit
<1>7. AppendInv
  BY DEF QueueInit, AppendInv
<1>8. PendingReturn
  BY <1>1 DEF PendingReturn
<1> QED
  BY <1>1, <1>5, <1>6, <1>7, <1>8 DEF QueueIInv

\* What k_queue_insert() does: the item goes to a waiter, or nobody is waiting
\* and it joins the list, or, if prev has left the list, is lost.
LEMMA InsertIs ==
  ASSUME QueueIInv, NEW i \in Items, where[i] # "queued",
         NEW prev \in Items \cup {Null}, prev # i, Insert(prev, i)
  PROVE  /\ ThreadInv' /\ ListInv' /\ PendingReturn'
         /\ ret' \in [Threads -> {"none", "OK", "EMPTY", "EAGAIN"}]
         /\ got' \in [Threads -> Items \cup {Null}]
         /\ \E r \in {"free", "queued", "lost"} : where' = [where EXCEPT ![i] = r]
         /\ \/ \E t \in OpenWaits :
                 /\ OpenWaits' = OpenWaits \ {t}
                 /\ ret' = [ret EXCEPT ![t] = "OK"]
                 /\ got' = [got EXCEPT ![t] = i]
                 /\ Chain' = Chain
            \/ /\ OpenWaits = {} /\ OpenWaits' = {} /\ ret' = ret /\ got' = got
               /\ Placed(Chain, prev, i, Chain')
<1>0. /\ ThreadInv /\ ListInv /\ PendingReturn
      /\ ret \in [Threads -> {"none", "OK", "EMPTY", "EAGAIN"}]
      /\ got \in [Threads -> Items \cup {Null}]
      /\ where \in [Items -> {"free", "append", "queued", "lost"}]
      /\ tstate \in [Threads -> {"ready", "pending", "dead"}]
  BY DEF QueueIInv, QueueTypeOK, ThreadInv, ThreadTypeOK
<1>1. CASE /\ ServeFirst(i)
           /\ where' = [where EXCEPT ![i] = "free"]
           /\ UNCHANGED listVars
  <2>1. ThreadInv'
    BY <1>0, <1>1, ServeFirstInv
  <2>2. PICK t \in OpenWaits :
              /\ OpenWaits' = OpenWaits \ {t}
              /\ ret' = [ret EXCEPT ![t] = "OK"]
              /\ got' = [got EXCEPT ![t] = i]
              /\ tstate' = [tstate EXCEPT ![t] = "ready"]
    BY <1>0, <1>1, ServeFirstInv
  <2>3. t \in Threads
    BY DEF OpenWaits
  <2>4. ListInv' /\ Chain' = Chain
    <3>1. \A u \in Items : where'[u] = "queued" <=> where[u] = "queued"
      BY <1>0, <1>1
    <3>2. Chain # << >> => OpenWaits' = {}
      BY <1>0, <2>2 DEF ListInv
    <3> QED
      BY <1>0, <1>1, <3>1, <3>2, SameList
  <2>5. PendingReturn'
    BY <1>0, <2>2, <2>3 DEF PendingReturn
  <2>6. /\ ret' \in [Threads -> {"none", "OK", "EMPTY", "EAGAIN"}]
        /\ got' \in [Threads -> Items \cup {Null}]
    BY <1>0, <2>2, <2>3
  <2>7. \E r \in {"free", "queued", "lost"} : where' = [where EXCEPT ![i] = r]
    BY <1>1
  <2> QED
    BY <2>1, <2>2, <2>4, <2>5, <2>6, <2>7
<1>2. CASE /\ NoneToUnpend
           /\ ListInsert(prev, i)
           /\ where' = [where EXCEPT ![i] = IF Astray(prev) THEN "lost" ELSE "queued"]
           /\ UNCHANGED <<threadVars, got>>
  <2>0. ret' = ret /\ tstate' = tstate /\ got' = got /\ UNCHANGED <<waitq, tstate, tmo, clock, expired, ahead>>
    BY <1>2 DEF threadVars
  <2>1. ThreadInv' /\ PendingReturn'
    BY <1>0, <2>0, ReturnInv DEF PendingReturn
  <2>2. OpenWaits = {} /\ OpenWaits' = {}
    <3>1. OpenWaits = {}
      BY <1>0, <1>2, NoneOpen
    <3>2. OpenWaits' = OpenWaits
      BY <2>0 DEF OpenWaits
    <3> QED
      BY <3>1, <3>2
  <2> DEFINE c == Chain
  <2>3. /\ ListTypeOK'
        /\ \E d : /\ LinkedList(d, head', tail', next')
                  /\ Placed(c, prev, i, d)
                  /\ \A u \in Items : Contains(d, u) <=>
                       (Contains(c, u) \/ (u = i /\ ~Astray(prev)))
    BY <1>0, <1>2, ListInsertIs
  <2>4. PICK d : /\ LinkedList(d, head', tail', next')
                 /\ Placed(c, prev, i, d)
                 /\ \A u \in Items : Contains(d, u) <=>
                      (Contains(c, u) \/ (u = i /\ ~Astray(prev)))
    BY <2>3
  <2>5. \A u \in Items : Contains(d, u) <=> where'[u] = "queued"
    <3>1. \A u \in Items : Contains(c, u) <=> where[u] = "queued"
      BY <1>0 DEF ListInv
    <3>2. \A u \in Items : where'[u] = IF u = i THEN IF Astray(prev) THEN "lost" ELSE "queued" ELSE where[u]
      BY <1>0, <1>2
    <3> HIDE DEF c
    <3> QED
      BY <2>4, <3>1, <3>2
  <2>6. ListInv' /\ Chain' = d
    BY <2>2, <2>3, <2>4, <2>5, NewList
  <2>7. \E r \in {"free", "queued", "lost"} : where' = [where EXCEPT ![i] = r]
    BY <1>2
  <2>8. Placed(Chain, prev, i, Chain')
    BY <2>4, <2>6
  <2> QED
    BY <1>0, <2>0, <2>1, <2>2, <2>6, <2>7, <2>8
<1> QED
  BY <1>1, <1>2 DEF Insert

\* The number of members of a sequence without duplicates
LEMMA MembersCount ==
  ASSUME NEW S, NEW c \in Seq(S), IsInjective(c), NEW n \in 0..Len(c)
  PROVE  /\ IsFiniteSet({c[k] : k \in 1..n})
         /\ Cardinality({c[k] : k \in 1..n}) = n
<1> DEFINE V == {c[k] : k \in 1..n}
           f == [k \in 1..n |-> c[k]]
<1>0. n \in Nat /\ \A k \in 1..n : k \in 1..Len(c)
  OBVIOUS
<1>1. \A j, k \in 1..n : c[j] = c[k] => j = k
  BY <1>0, LenProperties DEF IsInjective
<1>2. f \in Bijection(1..n, V)
  <2>1. f \in [1..n -> V] /\ \A k \in 1..n : f[k] = c[k]
    OBVIOUS
  <2>2. \A y \in V : \E k \in 1..n : f[k] = y
    OBVIOUS
  <2>3. \A j, k \in 1..n : f[j] = f[k] => j = k
    BY <1>1, <2>1
  <2> HIDE DEF f, V
  <2>4. f \in Surjection(1..n, V)
    BY <2>1, <2>2 DEF Surjection
  <2>5. f \in Injection(1..n, V)
    BY <2>1, <2>3 DEF Injection, IsInjective
  <2> QED
    BY <2>4, <2>5 DEF Bijection
<1>3. ExistsBijection(1..n, V)
  BY <1>2 DEF ExistsBijection
<1>4. IsFiniteSet(1..n) /\ Cardinality(1..n) = n
  <2>1. IsFiniteSet(1..n) /\ Cardinality(1..n) = IF 1 > n THEN 0 ELSE n - 1 + 1
    BY <1>0, FS_Interval
  <2> QED
    BY <1>0, <2>1
<1> HIDE DEF V
<1>5. IsFiniteSet(V) /\ Cardinality(V) = n
  BY <1>3, <1>4, FS_Bijection
<1> QED
  BY <1>5 DEF V

\* The items of list from position n + 1 on are linked as AppendList links
\* them.
LEMMA LinkedRest ==
  ASSUME NEW list \in Seq(Items), IsInjective(list), NEW n \in 0..(Len(list) - 1),
         NEW nx, \A k \in 1..Len(list) :
                   nx[list[k]] = IF k = Len(list) THEN Null ELSE list[k + 1]
  PROVE  /\ SubSeq(list, n + 1, Len(list)) # << >>
         /\ LinkedList(SubSeq(list, n + 1, Len(list)), list[n + 1], list[Len(list)], nx)
<1> DEFINE l == SubSeq(list, n + 1, Len(list))
           m == Len(list)
<1>0. m \in Nat /\ n \in Nat /\ n < m
  OBVIOUS
<1>1. /\ l \in Seq(Items) /\ Len(l) = m - n
      /\ \A k \in 1..(m - n) : l[k] = list[n + k]
  <2>1. n + 1 \in 1..m /\ m \in 1..m /\ n + 1 <= m + 1
    OBVIOUS
  <2>2. /\ l \in Seq(Items) /\ Len(l) = m - n
    BY <1>0, <2>1, SubSeqProperties
  <2>3. \A k \in 1..(m - n) : l[k] = list[n + k]
    BY <1>0, <2>1, SubSeqProperties
  <2> QED
    BY <2>2, <2>3
<1>2. \A j, k \in 1..m : list[j] = list[k] => j = k
  BY LenProperties DEF IsInjective
<1>3. \A k \in 1..(m - n) : n + k \in 1..m
  BY <1>0
<1> HIDE DEF l, m
<1>4. IsInjective(l)
  <2>1. DOMAIN l = 1..(m - n)
    BY <1>1, LenProperties
  <2>2. \A j, k \in 1..(m - n) : l[j] = l[k] => n + j = n + k
    BY <1>1, <1>2, <1>3
  <2>3. \A j, k \in 1..(m - n) : n + j = n + k => j = k
    BY <1>0
  <2> QED
    BY <2>1, <2>2, <2>3 DEF IsInjective
<1>5. m - n \in 1..(m - n) /\ 1 \in 1..(m - n) /\ n + (m - n) = m /\ m \in 1..m
  BY <1>0
<1>6. l # << >>
  BY <1>0, <1>1, EmptySeq
<1>7. l[1] = list[n + 1] /\ l[m - n] = list[m] /\ nx[list[m]] = Null
  BY <1>1, <1>5 DEF m
<1>8. \A k \in 1..((m - n) - 1) : nx[l[k]] = l[k + 1]
  <2> TAKE k \in 1..((m - n) - 1)
  <2>1. /\ k \in 1..(m - n) /\ k + 1 \in 1..(m - n) /\ n + (k + 1) = (n + k) + 1
        /\ n + k \in 1..m /\ n + k # m
    BY <1>0
  <2>2. l[k] = list[n + k] /\ l[k + 1] = list[(n + k) + 1]
    BY <1>1, <2>1
  <2> QED
    BY <2>1, <2>2 DEF m
<1>9. LinkedList(l, list[n + 1], list[m], nx)
  <2>1. Len(l) = m - n /\ Len(l) - 1 = (m - n) - 1
    BY <1>0, <1>1
  <2> QED
    BY <1>1, <1>4, <1>6, <1>7, <1>8, <2>1 DEF LinkedList
<1> QED
  BY <1>6, <1>9 DEF l, m

\* Two lists one after the other hold what each of them holds.
LEMMA ConcatMembers ==
  ASSUME NEW S, NEW c \in Seq(S), NEW l \in Seq(S)
  PROVE  \A u \in S : Contains(c \o l, u) <=> (Contains(c, u) \/ Contains(l, u))
<1> DEFINE e == c \o l
           m == Len(c)
           n == Len(l)
<1>1. /\ e \in Seq(S) /\ Len(e) = m + n /\ m \in Nat /\ n \in Nat
      /\ \A k \in 1..(m + n) : e[k] = IF k <= m THEN c[k] ELSE l[k - m]
  BY ConcatProperties
<1> HIDE DEF e, m, n
<1>2. \A k \in 1..(m + n) : IF k <= m THEN k \in 1..m ELSE k - m \in 1..n
  BY <1>1
<1>3. \A k \in 1..m : k \in 1..(m + n) /\ e[k] = c[k]
  BY <1>1
<1>4. \A k \in 1..n : m + k \in 1..(m + n) /\ e[m + k] = l[k]
  <2> TAKE k \in 1..n
  <2>1. m + k \in 1..(m + n) /\ ~(m + k <= m) /\ (m + k) - m = k
    BY <1>1
  <2> QED
    BY <1>1, <2>1
<1>5. \A u \in S : Contains(e, u) <=> (Contains(c, u) \/ Contains(l, u))
  <2>1. \A u \in S : Contains(e, u) => (Contains(c, u) \/ Contains(l, u))
    BY <1>1, <1>2 DEF Contains, m, n
  <2>2. \A u \in S : Contains(c, u) => Contains(e, u)
    BY <1>1, <1>3 DEF Contains, m
  <2>3. \A u \in S : Contains(l, u) => Contains(e, u)
    BY <1>1, <1>4 DEF Contains, n
  <2> QED
    BY <2>1, <2>2, <2>3
<1> QED
  BY <1>5 DEF e

\* The waiters that k_queue_append_list() can serve, in their order: those
\* whose wait is open.
LEMMA LiveIs ==
  ASSUME ThreadInv, NEW live, live = Without(waitq, {t \in Threads : tmo[t] = "expired"})
  PROVE  /\ live \in Seq(Threads) /\ IsInjective(live)
         /\ OpenWaits = {live[k] : k \in 1..Len(live)}
         /\ IsFiniteSet(OpenWaits) /\ Cardinality(OpenWaits) = Len(live)
<1> DEFINE X == {t \in Threads : tmo[t] = "expired"}
<1>0. waitq \in Seq(Threads) /\ IsInjective(waitq)
  BY DEF ThreadInv, ThreadTypeOK, WaitqConsistent
<1>1. /\ live \in Seq(Threads) /\ IsInjective(live)
      /\ \A u \in Threads : Contains(live, u) <=> (u \notin X /\ Contains(waitq, u))
  <2>1. live = Without(waitq, X)
    OBVIOUS
  <2> HIDE DEF X
  <2>2. /\ Without(waitq, X) \in Seq(Threads) /\ IsInjective(Without(waitq, X))
        /\ \A u \in Threads : Contains(Without(waitq, X), u) <=> (u \notin X /\ Contains(waitq, u))
    BY ONLY <1>0, WithoutMembers
  <2> QED
    BY ONLY <2>1, <2>2
<1>2. \A u \in Threads : Contains(live, u) <=> u \in OpenWaits
  BY <1>1 DEF ThreadInv, WaitqConsistent, OpenWaits
<1> HIDE DEF X
<1>3. OpenWaits = {live[k] : k \in 1..Len(live)}
  <2>1. OpenWaits \subseteq Threads
    BY DEF OpenWaits
  <2>2. \A k \in 1..Len(live) : live[k] \in Threads
    BY <1>1
  <2> QED
    BY <1>2, <2>1, <2>2 DEF Contains
<1>4. Len(live) \in 0..Len(live)
  BY <1>1, SMTT(40)
<1>5. IsFiniteSet(OpenWaits) /\ Cardinality(OpenWaits) = Len(live)
  <2> DEFINE n == Len(live)
  <2>1. IsFiniteSet({live[k] : k \in 1..n}) /\ Cardinality({live[k] : k \in 1..n}) = n
    BY ONLY <1>1, <1>4, MembersCount
  <2> QED
    BY ONLY <1>3, <2>1, Zenon
<1> QED
  BY <1>1, <1>3, <1>5

\* What k_queue_append_list() does with any list of items that are free.
LEMMA AppendListIs ==
  ASSUME QueueIInv, NEW list \in Seq(Items), list # << >>, AppendList(list)
  PROVE  /\ ThreadInv' /\ ListInv' /\ PendingReturn'
         /\ ret' \in [Threads -> {"none", "OK", "EMPTY", "EAGAIN"}]
         /\ got' \in [Threads -> Items \cup {Null}]
         /\ where' \in [Items -> {"free", "append", "queued", "lost"}]
         /\ \A i \in Items : where'[i] = "append" <=> where[i] = "append"
         /\ \E served \in SUBSET OpenWaits : \E f \in [served -> 1..Cardinality(served)] :
              /\ Cardinality(served) = Min({Cardinality(OpenWaits), Len(list)})
              /\ IsInjective(f)
              /\ got' = [t \in Threads |-> IF t \in served THEN list[f[t]] ELSE got[t]]
              /\ ret' = [t \in Threads |-> IF t \in served THEN "OK" ELSE ret[t]]
              /\ OpenWaits' = OpenWaits \ served
              /\ Chain' = Chain \o SubSeq(list, Cardinality(served) + 1, Len(list))
<1> DEFINE live == Without(waitq, {t \in Threads : tmo[t] = "expired"})
           m == Len(list)
           n == Min({Len(live), m})
           served == {live[k] : k \in 1..n}
           linked == [i \in Items |->
                   IF Contains(list, i)
                   THEN LET k == CHOOSE k \in DOMAIN list : list[k] = i
                        IN  IF k = Len(list) THEN Null ELSE list[k + 1]
                   ELSE next[i]]
           f == [t \in served |-> CHOOSE k \in 1..n : live[k] = t]
           rest == SubSeq(list, n + 1, m)
           c == Chain
<1>0. /\ ThreadInv /\ ListInv /\ PendingReturn
      /\ ret \in [Threads -> {"none", "OK", "EMPTY", "EAGAIN"}]
      /\ got \in [Threads -> Items \cup {Null}]
      /\ where \in [Items -> {"free", "append", "queued", "lost"}]
      /\ tstate \in [Threads -> {"ready", "pending", "dead"}]
      /\ next \in [Items -> Items \cup {Null}]
  BY DEF QueueIInv, QueueTypeOK, ThreadInv, ThreadTypeOK
<1>1. /\ IsInjective(list)
      /\ \A k \in DOMAIN list : where[list[k]] = "free"
      /\ waitq' = Without(waitq, served)
      /\ tstate' = [t \in Threads |-> IF t \in served THEN "ready" ELSE tstate[t]]
      /\ tmo' = [t \in Threads |-> IF t \in served THEN "inactive" ELSE tmo[t]]
      /\ ret' = [t \in Threads |-> IF t \in served THEN "OK" ELSE ret[t]]
      /\ got' = [t \in Threads |->
           IF t \in served THEN list[CHOOSE k \in 1..n : live[k] = t] ELSE got[t]]
      /\ IF n = Len(list)
         THEN next' = linked /\ UNCHANGED <<head, tail>>
         ELSE ListAppend(list[n + 1], list[Len(list)], linked)
      /\ where' = [i \in Items |->
           IF \E k \in (n + 1)..Len(list) : list[k] = i THEN "queued" ELSE where[i]]
      /\ UNCHANGED <<clock, expired, ahead>>
  BY DEF AppendList
<1>2. /\ live \in Seq(Threads) /\ IsInjective(live)
      /\ OpenWaits = {live[k] : k \in 1..Len(live)}
      /\ Cardinality(OpenWaits) = Len(live)
  BY <1>0, LiveIs, ZenonT(60)
<1>3. DOMAIN list = 1..m /\ \A k \in 1..m : list[k] \in Items
  BY LenProperties
<1>3a. m \in Nat /\ m # 0
  BY EmptySeq, LenProperties
<1> HIDE DEF live
<1>4. /\ n \in 0..Len(live) /\ n \in 0..m
      /\ n = m \/ n = Len(live)
      /\ n \in Nat /\ Len(live) \in Nat
  <2>0. live \in Seq(Threads)
    BY <1>2, Zenon
  <2>1. Len(live) \in Int /\ Len(live) >= 0
    BY ONLY <2>0
  <2>2. n = IF Len(live) <= m THEN Len(live) ELSE m
    BY <1>3a, <2>1, TwoNumbers, SMTT(40)
  <2> HIDE DEF n
  <2> QED
    BY <1>3a, <2>1, <2>2
<1> HIDE DEF n
<1>5. Cardinality(served) = n /\ served \subseteq OpenWaits
  <2>1. Cardinality(served) = n
    BY <1>2, <1>4, MembersCount, Zenon
  <2>2. \A k \in 1..n : k \in 1..Len(live)
    BY <1>4
  <2> QED
    BY <1>2, <2>1, <2>2, ZenonT(60)
<1>6. /\ f \in [served -> 1..n] /\ IsInjective(f)
      /\ \A t \in served : f[t] \in 1..n /\ live[f[t]] = t
  <2>1. \A t \in served : f[t] \in 1..n /\ live[f[t]] = t
    OBVIOUS
  <2>2. f \in [served -> 1..n]
    BY <2>1
  <2> HIDE DEF f
  <2> QED
    BY <2>1, <2>2 DEF IsInjective
<1>7. ThreadInv' /\ OpenWaits' = OpenWaits \ served
  <2> HIDE DEF served
  <2> QED
    BY <1>0, <1>1, <1>5, ServeInv
<1>8. got' = [t \in Threads |-> IF t \in served THEN list[f[t]] ELSE got[t]]
  BY <1>1
<1> HIDE DEF f
<1>9. got' \in [Threads -> Items \cup {Null}]
  <2>0. \A k \in 1..n : k \in 1..m
    BY <1>3a, <1>4
  <2>1. \A t \in served : f[t] \in 1..m
    BY <1>6, <2>0
  <2>2. \A t \in served : list[f[t]] \in Items
    BY <1>3, <2>1
  <2> HIDE DEF served
  <2> QED
    BY <1>0, <1>8, <2>2
<1>10. PendingReturn' /\ ret' \in [Threads -> {"none", "OK", "EMPTY", "EAGAIN"}]
  <2> HIDE DEF served
  <2> QED
    BY <1>0, <1>1 DEF PendingReturn
<1>11. /\ where' \in [Items -> {"free", "append", "queued", "lost"}]
       /\ \A i \in Items : where'[i] = "append" <=> where[i] = "append"
  <2>1. \A k \in (n + 1)..m : k \in 1..m
    BY <1>3a, <1>4
  <2>2. \A k \in (n + 1)..m : where[list[k]] = "free"
    BY <1>1, <1>3, <2>1
  <2>3. \A i \in Items : where'[i] = IF \E k \in (n + 1)..m : list[k] = i THEN "queued" ELSE where[i]
    BY <1>1
  <2>4. where' \in [Items -> {"free", "append", "queued", "lost"}]
    BY <1>0, <1>1
  <2> QED
    BY <2>2, <2>3, <2>4
<1>12. /\ linked \in [Items -> Items \cup {Null}]
       /\ \A k \in 1..m : linked[list[k]] = IF k = m THEN Null ELSE list[k + 1]
       /\ \A i \in Items : ~Contains(list, i) => linked[i] = next[i]
  <2>1. \A i \in Items : ~Contains(list, i) => linked[i] = next[i]
    OBVIOUS
  <2>2. ASSUME NEW k \in 1..m PROVE linked[list[k]] = IF k = m THEN Null ELSE list[k + 1]
    <3> DEFINE j == CHOOSE j \in DOMAIN list : list[j] = list[k]
    <3>1. j = k
      BY <1>1, <1>3 DEF IsInjective
    <3>2. Contains(list, list[k]) /\ list[k] \in Items
      BY <1>3 DEF Contains
    <3>3. linked[list[k]] = IF j = m THEN Null ELSE list[j + 1]
      BY <3>2, SMTT(40)
    <3> HIDE DEF j
    <3> QED
      BY <3>1, <3>3
  <2>3. ASSUME NEW i \in Items PROVE linked[i] \in Items \cup {Null}
    <3>1. CASE Contains(list, i)
      <4>1. PICK k \in 1..m : list[k] = i
        BY <3>1 DEF Contains
      <4>2. k # m => k + 1 \in 1..m
        BY <1>3a
      <4> HIDE DEF linked
      <4> QED
        BY <1>3, <2>2, <4>1, <4>2, Zenon
    <3>2. CASE ~Contains(list, i)
      BY <1>0, <2>1, <3>2
    <3> QED
      BY <3>1, <3>2
  <2> QED
    BY <2>1, <2>2, <2>3
<1> HIDE DEF linked
<1>13. LinkedList(c, head, tail, linked) /\ \A u \in Items : Contains(c, u) => ~Contains(list, u)
  <2>1. LinkedList(c, head, tail, next) /\ \A u \in Items : Contains(c, u) <=> where[u] = "queued"
    BY <1>0 DEF ListInv
  <2>2. \A u \in Items : Contains(list, u) => where[u] = "free"
    BY <1>1, <1>3 DEF Contains
  <2>3. \A u \in Items : Contains(c, u) => ~Contains(list, u)
    BY <2>1, <2>2
  <2> HIDE DEF c
  <2> QED
    BY <1>12, <2>1, <2>3, LinkedFrame
<1>14. c # << >> => OpenWaits = {}
  BY <1>0 DEF ListInv
<1>15. c \in Seq(Items) /\ \A u \in Items : Contains(c, u) <=> where[u] = "queued"
  BY <1>0 DEF ListInv, LinkedList
<1>16. ListInv' /\ Chain' = c \o rest
  <2>1. CASE n = m
    <3>1. next' = linked /\ head' = head /\ tail' = tail
      BY <1>1, <2>1
    <3>2. LinkedList(c, head', tail', next')
      BY <1>13, <3>1
    <3>3. ListTypeOK'
      BY <1>0, <1>12, <3>1 DEF ListInv, ListTypeOK
    <3>4. where' = where
      <4>1. ~\E k \in (n + 1)..m : TRUE
        BY <1>4, <2>1
      <4> QED
        BY <1>0, <1>1, <4>1
    <3>5. ListInv' /\ Chain' = c
      <4>1. c # << >> => OpenWaits' = {}
        BY <1>7, <1>14
      <4> HIDE DEF c
      <4> QED
        BY <1>15, <3>2, <3>3, <3>4, <4>1, NewList
    <3>6. rest = << >>
      BY <1>4, <2>1
    <3>7. c \o << >> = c
      <4> HIDE DEF c
      <4> QED
        BY <1>15
    <3> QED
      BY <3>5, <3>6, <3>7
  <2>2. CASE n # m
    <3>1. n = Len(live) /\ n \in 0..(m - 1)
      BY <1>3a, <1>4, <2>2
    <3>2. OpenWaits' = {}
      BY <1>2, <1>7, <3>1, Zenon
    <3>3. rest # << >> /\ LinkedList(rest, list[n + 1], list[m], linked)
      BY <1>1, <1>12, <3>1, LinkedRest
    <3>4. /\ rest \in Seq(Items) /\ Len(rest) = m - n
          /\ \A k \in 1..(m - n) : rest[k] = list[n + k]
      <4>1. n + 1 \in 1..m /\ m \in 1..m /\ n + 1 <= m + 1
        BY <1>3a, <3>1
      <4> QED
        BY <1>3a, <1>4, <4>1, SubSeqProperties
    <3>5. \A u \in Items : Contains(rest, u) <=> \E k \in (n + 1)..m : list[k] = u
      <4>1. \A k \in (n + 1)..m : k - n \in 1..(m - n) /\ n + (k - n) = k
        BY <1>3a, <1>4
      <4>2. \A k \in 1..(m - n) : n + k \in (n + 1)..m
        BY <1>3a, <1>4
      <4> HIDE DEF rest
      <4>3. \A k \in (n + 1)..m : rest[k - n] = list[k]
        BY <3>4, <4>1
      <4> QED
        BY <3>4, <4>1, <4>2, <4>3 DEF Contains
    <3>6. \A u \in Items : Contains(c, u) => ~Contains(rest, u)
      <4>1. \A k \in (n + 1)..m : k \in 1..m
        BY <1>4
      <4>2. \A u \in Items : Contains(rest, u) => Contains(list, u)
        BY <3>5, <4>1 DEF Contains
      <4> QED
        BY <1>13, <4>2
    <3> DEFINE h == IF tail = Null THEN list[n + 1] ELSE head
               nx == IF tail = Null THEN linked ELSE [linked EXCEPT ![tail] = list[n + 1]]
    <3>7. head' = h /\ tail' = list[m] /\ next' = nx
      BY <1>1, <2>2 DEF ListAppend
    <3>8. LinkedList(c \o rest, h, list[m], nx)
      <4> HIDE DEF c, rest
      <4> QED
        BY <1>12, <1>13, <3>3, <3>6, LinkedJoin
    <3>9. ListTypeOK'
      <4>1. list[n + 1] \in Items /\ list[m] \in Items
        <5>1. n + 1 \in 1..m /\ m \in 1..m
          BY <1>3a, <3>1
        <5> QED
          BY <1>3, <5>1
      <4>2. head \in Items \cup {Null} /\ tail \in Items \cup {Null}
        BY <1>0 DEF ListInv, ListTypeOK
      <4> QED
        BY <1>12, <3>7, <4>1, <4>2 DEF ListTypeOK
    <3>10. \A u \in Items : Contains(c \o rest, u) <=> where'[u] = "queued"
      <4>1. \A u \in Items : Contains(c \o rest, u) <=> (Contains(c, u) \/ Contains(rest, u))
        <5> HIDE DEF c, rest
        <5> QED
          BY <1>15, <3>4, ConcatMembers
      <4>2. \A u \in Items : where'[u] = IF \E k \in (n + 1)..m : list[k] = u THEN "queued" ELSE where[u]
        BY <1>1
      <4> HIDE DEF c, rest
      <4> QED
        BY <1>15, <3>5, <4>1, <4>2
    <3>11. LinkedList(c \o rest, head', tail', next')
      BY <3>7, <3>8, SMTT(40)
    <3> HIDE DEF c, rest
    <3> QED
      BY <3>2, <3>9, <3>10, <3>11, NewList, Zenon
  <2> QED
    BY <2>1, <2>2
<1>17. n = Min({Cardinality(OpenWaits), Len(list)})
  BY <1>2, Zenon DEF n
<1>18. /\ served \in SUBSET OpenWaits /\ f \in [served -> 1..Cardinality(served)]
       /\ Cardinality(served) = Min({Cardinality(OpenWaits), Len(list)})
       /\ IsInjective(f)
       /\ got' = [t \in Threads |-> IF t \in served THEN list[f[t]] ELSE got[t]]
       /\ ret' = [t \in Threads |-> IF t \in served THEN "OK" ELSE ret[t]]
       /\ OpenWaits' = OpenWaits \ served
       /\ Chain' = Chain \o SubSeq(list, Cardinality(served) + 1, Len(list))
  <2> HIDE DEF served
  <2> QED
    BY <1>1, <1>5, <1>6, <1>7, <1>8, <1>16, <1>17
<1> HIDE DEF served, rest, c
<1> QED
  BY <1>7, <1>9, <1>10, <1>11, <1>16, <1>18

\* What k_queue_get() does to a list that is not empty.
LEMMA ListGetIs ==
  ASSUME ListInv, where \in [Items -> {"free", "append", "queued", "lost"}],
         ListGet, where' = [where EXCEPT ![head] = "free"],
         OpenWaits' = OpenWaits
  PROVE  /\ head \in Items /\ where[head] = "queued"
         /\ Chain # << >> /\ head = Head(Chain)
         /\ ListInv' /\ Chain' = Tail(Chain)
<1> DEFINE c == Chain
<1>0. /\ LinkedList(c, head, tail, next) /\ ListTypeOK
      /\ \A i \in Items : Contains(c, i) <=> where[i] = "queued"
      /\ c # << >> => OpenWaits = {}
  BY DEF ListInv
<1>1. /\ head # Null /\ head' = next[head] /\ next' = next
      /\ tail' = IF tail = head THEN next[head] ELSE tail
  BY DEF ListGet
<1>2. head \in Items /\ ListTypeOK'
  BY <1>0, <1>1 DEF ListTypeOK
<1> HIDE DEF c
<1>3. c # << >> /\ head = Head(c) /\ LinkedList(Tail(c), head', tail', next')
  BY <1>0, <1>1, LinkedGet
<1>4. c \in Seq(Items) /\ IsInjective(c)
  BY <1>0 DEF LinkedList
<1>5. \A u \in Items : Contains(Tail(c), u) <=> (u # Head(c) /\ Contains(c, u))
  BY <1>3, <1>4, TailMembers
<1>6. Contains(c, head)
  <2>1. 1 \in 1..Len(c) /\ c[1] = Head(c)
    BY <1>3, <1>4
  <2> QED
    BY <1>3, <2>1 DEF Contains
<1>7. \A u \in Items : Contains(Tail(c), u) <=> where'[u] = "queued"
  BY <1>0, <1>2, <1>3, <1>5
<1> DEFINE d == Tail(c)
<1>8. ListInv' /\ Chain' = d
  <2>1. /\ LinkedList(d, head', tail', next')
        /\ \A u \in Items : Contains(d, u) <=> where'[u] = "queued"
        /\ OpenWaits' = {}
    BY <1>0, <1>3, <1>7
  <2> HIDE DEF d
  <2> QED
    BY <1>2, <2>1, NewList
<1> QED
  BY <1>0, <1>2, <1>3, <1>6, <1>8 DEF c

\* Of two items in a row on a list, and of the first one
LEMMA FoundAfter ==
  ASSUME NEW c, NEW h, NEW t, NEW nx, LinkedList(c, h, t, nx),
         NEW i \in Items, Contains(c, i),
         NEW prev \in Items \cup {Null},
         IF prev = Null THEN h = i ELSE Contains(c, prev) /\ nx[prev] = i
  PROVE  \E k \in 1..Len(c) :
           /\ c[k] = i
           /\ k = 1 <=> prev = Null
           /\ k # 1 => c[k - 1] = prev
<1>0. /\ c \in Seq(Items) /\ Len(c) \in Nat
      /\ \A k \in 1..Len(c) : c[k] \in Items /\ c[k] # Null
      /\ \A j, k \in 1..Len(c) : c[j] = c[k] => j = k
      /\ c = << >> <=> Len(c) = 0
  BY LinkedEnds
<1>1. CASE prev = Null
  <2>1. PICK k \in 1..Len(c) : c[k] = i
    BY DEF Contains
  <2>2. 1 \in 1..Len(c) /\ c # << >>
    BY <1>0
  <2>3. c[1] = i
    BY <1>1, <2>2 DEF LinkedList
  <2>4. 1 = 1 <=> prev = Null
    BY <1>1
  <2> QED
    BY <2>2, <2>3, <2>4
<1>2. CASE prev # Null
  <2>1. PICK j \in 1..Len(c) : c[j] = prev
    BY <1>2 DEF Contains
  <2>2. c # << >>
    BY <1>0
  <2>3. j # Len(c)
    <3>1. nx[c[Len(c)]] = Null
      BY <2>2 DEF LinkedList
    <3>2. nx[prev] = i /\ i # Null
      BY <1>2, QueueAssumption
    <3> QED
      BY <2>1, <3>1, <3>2
  <2>4. j \in 1..(Len(c) - 1) /\ j + 1 \in 1..Len(c) /\ j + 1 # 1 /\ (j + 1) - 1 = j
    BY <1>0, <2>3
  <2>5. c[j + 1] = i
    BY <1>2, <2>1, <2>4 DEF LinkedList
  <2> QED
    BY <1>2, <2>1, <2>4, <2>5
<1> QED
  BY <1>1, <1>2

\* For a list without duplicates, taking off the first occurrence of an item
\* is taking off the item at its position.
LEMMA RemoveFirstAt ==
  ASSUME NEW S, NEW c \in Seq(S), IsInjective(c), NEW k \in 1..Len(c)
  PROVE  RemoveFirst(c, c[k]) = RemoveAt(c, k)
<1> DEFINE I == {i \in 1..Len(c) : c[i] = c[k]}
<1>1. I = {k}
  BY LenProperties DEF IsInjective
<1>2. Min(I) = k
  BY <1>1 DEF Min
<1>3. \E i \in 1..Len(c) : c[i] = c[k]
  OBVIOUS
<1> QED
  BY <1>1, <1>2, <1>3 DEF RemoveFirst, SelectInSeq

\* What k_queue_remove() does.
LEMMA ListRemoveIs ==
  ASSUME ListInv, where \in [Items -> {"free", "append", "queued", "lost"}],
         NEW prev \in Items \cup {Null}, NEW i \in Items,
         \A j \in {prev, i} \ {Null} : where[j] = "queued",
         ListRemove(prev, i), where' = [where EXCEPT ![i] = "free"],
         OpenWaits' = OpenWaits
  PROVE  /\ Contains(Chain, i)
         /\ ListInv' /\ Chain' = RemoveFirst(Chain, i)
<1> DEFINE c == Chain
<1>0. /\ LinkedList(c, head, tail, next) /\ ListTypeOK
      /\ \A u \in Items : Contains(c, u) <=> where[u] = "queued"
      /\ c # << >> => OpenWaits = {}
  BY DEF ListInv
<1> HIDE DEF c
<1>1. Contains(c, i) /\ (prev # Null => Contains(c, prev))
  BY <1>0, QueueAssumption
<1>2. IF prev = Null THEN head = i ELSE Contains(c, prev) /\ next[prev] = i
  BY <1>1 DEF ListRemove
<1>3. PICK k \in 1..Len(c) : c[k] = i /\ (k = 1 <=> prev = Null) /\ (k # 1 => c[k - 1] = prev)
  BY <1>0, <1>1, <1>2, FoundAfter
<1>4. c \in Seq(Items) /\ IsInjective(c) /\ Len(c) \in Nat /\ c # << >>
  <2>1. c \in Seq(Items) /\ IsInjective(c)
    BY <1>0 DEF LinkedList
  <2>2. c # << >>
    BY <1>3
  <2> QED
    BY <2>1, <2>2
<1> DEFINE d == RemoveAt(c, k)
<1>5. \A u \in Items : Contains(d, u) <=> (u # i /\ Contains(c, u))
  BY <1>3, <1>4, RemoveAtMembers
<1>6. \A u \in Items : Contains(d, u) <=> where'[u] = "queued"
  <2> HIDE DEF d
  <2> QED
    BY <1>0, <1>5
<1>7. LinkedList(d, head', tail', next') /\ ListTypeOK'
  <2>0. next \in [Items -> Items \cup {Null}] /\ head \in Items \cup {Null} /\ tail \in Items \cup {Null}
    BY <1>0 DEF ListTypeOK
  <2>1. CASE prev = Null
    <3>1. k = 1
      BY <1>3, <2>1
    <3>2. /\ head' = next[i]
          /\ tail' = IF tail = i THEN next[i] ELSE tail
          /\ next' = [next EXCEPT ![i] = Null]
      BY <2>1 DEF ListRemove
    <3>3. k = 1 => LinkedList(d, next[c[k]], IF tail = c[k] THEN next[c[k]] ELSE tail,
                              [next EXCEPT ![c[k]] = Null])
      BY <1>0, <2>0, LinkedRemove
    <3>4. ListTypeOK'
      BY <2>0, <3>2 DEF ListTypeOK
    <3> HIDE DEF d
    <3> QED
      BY <1>3, <3>1, <3>2, <3>3, <3>4
  <2>2. CASE prev # Null
    <3>1. k # 1 /\ c[k - 1] = prev /\ prev \in Items
      BY <1>3, <2>2
    <3>2. /\ next' = [next EXCEPT ![prev] = next[i], ![i] = Null]
          /\ tail' = IF tail = i THEN prev ELSE tail
          /\ head' = head
      BY <2>2 DEF ListRemove
    <3>3. LinkedList(d, head, IF tail = c[k] THEN c[k - 1] ELSE tail,
                     [next EXCEPT ![c[k - 1]] = next[c[k]], ![c[k]] = Null])
      BY <1>0, <2>0, <3>1, LinkedRemove
    <3>4. ListTypeOK'
      BY <2>0, <3>1, <3>2 DEF ListTypeOK
    <3> HIDE DEF d
    <3> QED
      BY <1>3, <3>1, <3>2, <3>3, <3>4
  <2> QED
    BY <2>1, <2>2
<1>8. d = RemoveFirst(c, i)
  BY <1>3, <1>4, RemoveFirstAt
<1>9. OpenWaits' = {}
  BY <1>0, <1>4
<1> HIDE DEF d
<1>10. ListInv' /\ Chain' = d
  BY <1>6, <1>7, <1>9, NewList
<1> QED
  BY <1>1, <1>8, <1>10 DEF c

\* Every operation of queue.c preserves the invariant, whatever comes between the
\* two steps of an append.
LEMMA QueueNextIInv == QueueIInv /\ [QueueNext]_queueVars => QueueIInv'
<1> SUFFICES ASSUME QueueIInv, [QueueNext]_queueVars PROVE QueueIInv'
  OBVIOUS
<1> DEFINE Recs == [item : Items \cup {Null}, prev : Items \cup {Null}]
           Rets == {"none", "OK", "EMPTY", "EAGAIN"}
<1>0. /\ QueueTypeOK /\ ThreadInv /\ ListInv /\ AppendInv /\ PendingReturn
      /\ ret \in [Threads -> Rets]
      /\ append \in [Appenders -> Recs]
      /\ where \in [Items -> {"free", "append", "queued", "lost"}]
      /\ \A i \in Items : where[i] = "append" <=> \E a \in Appenders : append[a].item = i
      /\ got \in [Threads -> Items \cup {Null}]
      /\ tstate \in [Threads -> {"ready", "pending", "dead"}]
      /\ tail \in Items \cup {Null}
  BY DEF QueueIInv, QueueTypeOK, ThreadInv, ThreadTypeOK
<1> DEFINE Appending == /\ append' \in [Appenders -> Recs]
                        /\ \A i \in Items : where'[i] = "append" <=>
                             \E a \in Appenders : append'[a].item = i
           Rest == /\ ret' \in [Threads -> Rets]
                   /\ where' \in [Items -> {"free", "append", "queued", "lost"}]
                   /\ got' \in [Threads -> Items \cup {Null}]
<1>1. ASSUME ThreadInv', ListInv', AppendInv', PendingReturn', Appending, Rest PROVE QueueIInv'
  BY <1>1 DEF QueueIInv, QueueTypeOK, ThreadInv, ListInv, ListTypeOK
\* The appends under way are left alone, and so are their items.
<1>2. ASSUME append' = append, \A i \in Items : where'[i] = "append" <=> where[i] = "append"
      PROVE  Appending /\ AppendInv'
  <2>1. Appending
    BY <1>0, <1>2
  <2>2. AppendInv'
    BY <1>0, <1>2 DEF AppendInv
  <2> QED
    BY <2>1, <2>2
<1>3. ASSUME NEW a \in Appenders, NEW i \in Items, AppendStart(a, i) PROVE QueueIInv'
  <2>0. /\ where[i] = "free" /\ append[a] = Idle
        /\ append' = [append EXCEPT ![a] = [item |-> i, prev |-> tail]]
        /\ where' = [where EXCEPT ![i] = "append"]
        /\ UNCHANGED <<waitq, tstate, tmo, clock, expired, ahead>> /\ ret' = ret /\ tstate' = tstate
        /\ UNCHANGED listVars /\ tail' = tail /\ got' = got
    BY <1>3 DEF AppendStart, threadVars, listVars
  <2>1. append[a].item = Null /\ \A b \in Appenders : append[b].item # i
    BY <1>0, <2>0 DEF Idle
  <2>2. ThreadInv' /\ PendingReturn'
    BY <1>0, <2>0, ReturnInv DEF PendingReturn
  <2>3. ListInv'
    <3>1. OpenWaits' = OpenWaits
      BY <2>0 DEF OpenWaits
    <3>2. \A j \in Items : where'[j] = "queued" <=> where[j] = "queued"
      BY <1>0, <2>0
    <3>3. Chain # << >> => OpenWaits' = {}
      BY <1>0, <3>1 DEF ListInv
    <3> QED
      BY <1>0, <2>0, <3>2, <3>3, SameList
  <2>4. /\ append'[a] = [item |-> i, prev |-> tail]
        /\ append'[a].item = i /\ append'[a].prev = tail
        /\ \A b \in Appenders \ {a} : append'[b] = append[b]
    BY <1>0, <2>0
  <2>5. AppendInv'
    <3>1. tail # i
      BY <1>0, <2>0, TailQueued, QueueAssumption
    <3>2. \A b \in Appenders \ {a} : append'[b].item # i
      BY <2>1, <2>4
    <3> QED
      BY <1>0, <2>4, <3>1, <3>2 DEF AppendInv
  <2>6. Appending
    <3>1. append' \in [Appenders -> Recs]
      BY <1>0, <2>0
    <3>2. \A j \in Items : where'[j] = "append" <=> (j = i \/ where[j] = "append")
      BY <1>0, <2>0
    <3>3. \A j \in Items : (\E b \in Appenders : append'[b].item = j) <=>
                           (j = i \/ \E b \in Appenders : append[b].item = j)
      BY <2>1, <2>4, QueueAssumption
    <3> QED
      BY <1>0, <3>1, <3>2, <3>3
  <2>7. Rest
    BY <1>0, <2>0
  <2> QED
    BY <1>1, <2>2, <2>3, <2>5, <2>6, <2>7
<1>4. ASSUME NEW a \in Appenders, AppendEnd(a) PROVE QueueIInv'
  <2> DEFINE i == append[a].item
             p == append[a].prev
  <2>0. /\ append[a] # Idle /\ Insert(p, i)
        /\ append' = [append EXCEPT ![a] = Idle]
    BY <1>4 DEF AppendEnd
  <2>1. /\ i \in Items /\ p \in Items \cup {Null} /\ p # i
        /\ \A b \in Appenders : append[b].item = i => b = a
    BY <1>0, <2>0 DEF AppendInv
  <2>2. where[i] = "append"
    BY <1>0, <2>1
  <2> HIDE DEF i, p
  <2>3. /\ ThreadInv' /\ ListInv' /\ PendingReturn'
        /\ ret' \in [Threads -> Rets]
        /\ got' \in [Threads -> Items \cup {Null}]
        /\ \E r \in {"free", "queued", "lost"} : where' = [where EXCEPT ![i] = r]
    <3>1. where[i] # "queued"
      BY <2>2
    <3> QED
      BY <2>0, <2>1, <3>1, InsertIs
  <2>4. append'[a] = Idle /\ append'[a].item = Null /\ \A b \in Appenders \ {a} : append'[b] = append[b]
    BY <1>0, <2>0 DEF Idle
  <2>5. AppendInv'
    <3>1. ASSUME NEW b \in Appenders, append'[b] # Idle
          PROVE  /\ append'[b].item \in Items
                 /\ append'[b].prev # append'[b].item
                 /\ \A e \in Appenders : append'[e].item = append'[b].item => e = b
      <4>1. b # a /\ append'[b] = append[b] /\ append[b].item \in Items
        BY <1>0, <2>4, <3>1 DEF AppendInv
      <4>2. \A e \in Appenders : append'[e].item = append[b].item => e = b
        BY <1>0, <2>4, <3>1, <4>1, QueueAssumption DEF AppendInv
      <4> QED
        BY <1>0, <3>1, <4>1, <4>2 DEF AppendInv
    <3> QED
      BY <3>1 DEF AppendInv
  <2>6. Appending
    <3>1. append' \in [Appenders -> Recs]
      BY <1>0, <2>0 DEF Idle
    <3>2. \A j \in Items : where'[j] = "append" <=> (j # i /\ where[j] = "append")
      BY <1>0, <2>1, <2>3
    <3>3. \A j \in Items : (\E b \in Appenders : append'[b].item = j) <=>
                           (j # i /\ \E b \in Appenders : append[b].item = j)
      <4>1. append[a].item = i
        BY DEF i
      <4> QED
        BY <2>1, <2>4, <4>1, QueueAssumption
    <3> QED
      BY <1>0, <3>1, <3>2, <3>3
  <2>7. Rest
    <3>1. PICK r \in {"free", "queued", "lost"} : where' = [where EXCEPT ![i] = r]
      BY <2>3
    <3> QED
      BY <1>0, <2>1, <2>3, <3>1
  <2> QED
    BY <1>1, <2>3, <2>5, <2>6, <2>7
<1>5. ASSUME NEW i \in Items, Prepend(i) PROVE QueueIInv'
  <2>0. where[i] = "free" /\ Insert(Null, i) /\ append' = append
    BY <1>5 DEF Prepend
  <2>1. /\ ThreadInv' /\ ListInv' /\ PendingReturn'
        /\ ret' \in [Threads -> Rets]
        /\ got' \in [Threads -> Items \cup {Null}]
        /\ \E r \in {"free", "queued", "lost"} : where' = [where EXCEPT ![i] = r]
    <3>1. where[i] # "queued" /\ Null # i
      BY <2>0, QueueAssumption
    <3> QED
      BY <2>0, <3>1, InsertIs
  <2>2. PICK r \in {"free", "queued", "lost"} : where' = [where EXCEPT ![i] = r]
    BY <2>1
  <2>3. Rest /\ \A j \in Items : where'[j] = "append" <=> where[j] = "append"
    BY <1>0, <2>0, <2>1, <2>2
  <2> QED
    BY <1>1, <1>2, <2>0, <2>1, <2>3
<1>6. ASSUME NEW i \in Items, NEW j \in Items, AppendList(<<i, j>>) PROVE QueueIInv'
  <2>0. <<i, j>> \in Seq(Items) /\ <<i, j>> # << >>
    OBVIOUS
  <2>1. append' = append
    BY <1>6 DEF AppendList
  <2>2. /\ ThreadInv' /\ ListInv' /\ PendingReturn'
        /\ Rest
        /\ \A u \in Items : where'[u] = "append" <=> where[u] = "append"
    BY <1>6, <2>0, AppendListIs
  <2> QED
    BY <1>1, <1>2, <2>1, <2>2
<1>7. ASSUME NEW t \in Threads, NEW timeout \in Timeouts, QueueGet(t, timeout) PROVE QueueIInv'
  <2>0. Running(t) /\ append' = append
    BY <1>7 DEF QueueGet
  <2>1. CASE /\ ListGet
             /\ Return(t, "OK")
             /\ got' = [got EXCEPT ![t] = head]
             /\ where' = [where EXCEPT ![head] = "free"]
    <3>1. UNCHANGED <<waitq, tstate, tmo, clock, expired, ahead>> /\ ret' = [ret EXCEPT ![t] = "OK"]
      BY <2>1 DEF Return
    <3>2. OpenWaits' = OpenWaits
      BY <3>1 DEF OpenWaits
    <3>3. head \in Items /\ where[head] = "queued" /\ ListInv'
      BY <1>0, <2>1, <3>2, ListGetIs
    <3>4. ThreadInv'
      BY <1>0, <3>1, ReturnInv
    <3>5. PendingReturn'
      BY <1>0, <2>0, <3>1 DEF PendingReturn, Running
    <3>6. Rest /\ \A u \in Items : where'[u] = "append" <=> where[u] = "append"
      BY <1>0, <2>1, <3>1, <3>3
    <3> QED
      BY <1>1, <1>2, <2>0, <3>3, <3>4, <3>5, <3>6
  <2>2. CASE /\ head = Null
             /\ \/ timeout = "nowait" /\ Return(t, "EMPTY")
                \/ timeout # "nowait" /\ Pend(t, timeout)
             /\ got' = [got EXCEPT ![t] = Null]
             /\ UNCHANGED <<listVars, where>>
    <3>1. Chain = << >>
      BY <1>0, <2>2, LinkedEnds DEF ListInv
    <3>2. ListInv'
      BY <1>0, <2>2, <3>1, SameList
    <3>3. ThreadInv'
      BY <1>0, <2>0, <2>2, ReturnInv, PendInv DEF Return
    <3>4. PendingReturn' /\ ret' \in [Threads -> Rets]
      BY <1>0, <2>0, <2>2 DEF PendingReturn, Running, Return, Pend
    <3>5. Rest /\ \A u \in Items : where'[u] = "append" <=> where[u] = "append"
      BY <1>0, <2>2, <3>4
    <3> QED
      BY <1>1, <1>2, <2>0, <3>2, <3>3, <3>4, <3>5
  <2> QED
    BY <1>7, <2>1, <2>2 DEF QueueGet
<1>8. ASSUME QueueIsrGet PROVE QueueIInv'
  <2>0. /\ append' = append /\ ListGet /\ where' = [where EXCEPT ![head] = "free"]
        /\ UNCHANGED <<waitq, tstate, tmo, clock, expired, ahead>> /\ ret' = ret
        /\ tstate' = tstate /\ got' = got
    BY <1>8 DEF QueueIsrGet, threadVars
  <2>1. OpenWaits' = OpenWaits
    BY <2>0 DEF OpenWaits
  <2>2. head \in Items /\ where[head] = "queued" /\ ListInv'
    BY <1>0, <2>0, <2>1, ListGetIs
  <2>3. ThreadInv' /\ PendingReturn'
    BY <1>0, <2>0, ReturnInv DEF PendingReturn
  <2>4. Rest /\ \A u \in Items : where'[u] = "append" <=> where[u] = "append"
    BY <1>0, <2>0, <2>2
  <2> QED
    BY <1>1, <1>2, <2>0, <2>2, <2>3, <2>4
<1>9. ASSUME NEW prev \in Items \cup {Null}, NEW i \in Items, RemoveItem(prev, i) PROVE QueueIInv'
  <2>0. /\ append' = append /\ ListRemove(prev, i) /\ where' = [where EXCEPT ![i] = "free"]
        /\ \A j \in {prev, i} \ {Null} : where[j] = "queued"
        /\ UNCHANGED <<waitq, tstate, tmo, clock, expired, ahead>> /\ ret' = ret
        /\ tstate' = tstate /\ got' = got
    BY <1>9 DEF RemoveItem, threadVars
  <2>1. OpenWaits' = OpenWaits
    BY <2>0 DEF OpenWaits
  <2>2. ListInv'
    BY <1>0, <2>0, <2>1, ListRemoveIs
  <2>3. ThreadInv' /\ PendingReturn'
    BY <1>0, <2>0, ReturnInv DEF PendingReturn
  <2>4. Rest /\ \A u \in Items : where'[u] = "append" <=> where[u] = "append"
    <3>1. where[i] = "queued"
      BY <2>0, QueueAssumption
    <3> QED
      BY <1>0, <2>0, <3>1
  <2> QED
    BY <1>1, <1>2, <2>0, <2>2, <2>3, <2>4
\* Nothing but threads changes, and no wait is opened.
<1>10. ASSUME UNCHANGED <<listVars, append, where>>, OpenWaits' \subseteq OpenWaits,
              ThreadInv', PendingReturn', ret' \in [Threads -> Rets],
              got' \in [Threads -> Items \cup {Null}]
       PROVE  QueueIInv'
  <2>1. ListInv'
    <3>1. Chain # << >> => OpenWaits' = {}
      BY <1>0, <1>10 DEF ListInv
    <3> QED
      BY <1>0, <1>10, <3>1, SameList
  <2>2. Rest /\ \A u \in Items : where'[u] = "append" <=> where[u] = "append"
    BY <1>0, <1>10
  <2> QED
    BY <1>1, <1>2, <1>10, <2>1, <2>2
<1>11. ASSUME CancelWait PROVE QueueIInv'
  <2>0. ServeFirst(Null) /\ UNCHANGED <<listVars, append, where>>
    BY <1>11 DEF CancelWait
  <2>1. ThreadInv'
    BY <1>0, <2>0, ServeFirstInv
  <2>2. PICK t \in OpenWaits :
              /\ OpenWaits' = OpenWaits \ {t}
              /\ ret' = [ret EXCEPT ![t] = "OK"]
              /\ got' = [got EXCEPT ![t] = Null]
              /\ tstate' = [tstate EXCEPT ![t] = "ready"]
    BY <1>0, <2>0, ServeFirstInv
  <2>3. PendingReturn'
    BY <1>0, <2>2 DEF PendingReturn, OpenWaits
  <2>4. ret' \in [Threads -> Rets] /\ got' \in [Threads -> Items \cup {Null}]
    BY <1>0, <2>2
  <2>5. OpenWaits' \subseteq OpenWaits
    BY <2>2
  <2> QED
    BY <1>10, <2>0, <2>1, <2>3, <2>4, <2>5
<1>12. ASSUME NEW t \in Threads, QueueKill(t) PROVE QueueIInv'
  <2>0. Abort(t) /\ UNCHANGED <<listVars, append, where>> /\ got' = got
    BY <1>12 DEF QueueKill
  <2>1. ThreadInv'
    BY <1>0, <2>0, AbortInv
  <2>2. /\ ret' = ret
        /\ \A u \in Threads : tstate'[u] = "pending" => tstate[u] = "pending"
        /\ OpenWaits' = OpenWaits \ {t}
    BY <1>0, <2>0, AbortWaits
  <2>3. PendingReturn' /\ OpenWaits' \subseteq OpenWaits
    BY <1>0, <2>2 DEF PendingReturn
  <2> QED
    BY <1>0, <1>10, <2>0, <2>1, <2>2, <2>3
<1>13. ASSUME QueueClock PROVE QueueIInv'
  <2>0. Tick /\ UNCHANGED <<listVars, append, where>> /\ got' = got
    BY <1>13 DEF QueueClock
  <2>1. ThreadInv'
    BY <1>0, <2>0, TickInv
  <2>2. /\ ret' = ret
        /\ \A u \in Threads : tstate'[u] = "pending" => tstate[u] = "pending"
        /\ OpenWaits' = OpenWaits \/ \E t \in OpenWaits : OpenWaits' = OpenWaits \ {t}
    BY <1>0, <2>0, TickWaits
  <2>3. PendingReturn' /\ OpenWaits' \subseteq OpenWaits
    BY <1>0, <2>2 DEF PendingReturn
  <2> QED
    BY <1>0, <1>10, <2>0, <2>1, <2>2, <2>3
<1>14. ASSUME UNCHANGED queueVars PROVE QueueIInv'
  <2>0. /\ UNCHANGED <<waitq, tstate, tmo, clock, expired, ahead>> /\ ret' = ret
        /\ UNCHANGED listVars /\ tail' = tail /\ append' = append /\ where' = where /\ got' = got
        /\ tstate' = tstate
    BY <1>14 DEF queueVars, threadVars, listVars
  <2>1. ThreadInv' /\ PendingReturn'
    BY <1>0, <2>0, ReturnInv DEF PendingReturn
  <2>2. ListInv'
    <3>1. OpenWaits' = OpenWaits
      BY <2>0 DEF OpenWaits
    <3>2. Chain # << >> => OpenWaits' = {}
      BY <1>0, <3>1 DEF ListInv
    <3> QED
      BY <1>0, <2>0, <3>2, SameList
  <2>3. AppendInv'
    BY <1>0, <2>0 DEF AppendInv
  <2>4. Appending /\ Rest
    BY <1>0, <2>0
  <2> QED
    BY <1>1, <2>1, <2>2, <2>3, <2>4
<1> QED
  BY <1>3, <1>4, <1>5, <1>6, <1>7, <1>8, <1>9, <1>11, <1>12, <1>13, <1>14 DEF QueueNext

\* The queue's invariant holds at all times.
LEMMA QueueSpecIInv == QueueSpec => []QueueIInv
<1>1. QueueInit => QueueIInv
  BY QueueInitIInv
<1>2. QueueIInv /\ [QueueNext]_queueVars => QueueIInv'
  BY QueueNextIInv
<1> QED
  BY <1>1, <1>2, PTL DEF QueueSpec

\* k_queue_append(), k_queue_prepend(), k_queue_append_list() and
\* k_queue_remove() keep the list whole, it ends at tail, and nobody who could
\* be served waits beside it, for any number of items, threads and appenders
\* and whatever comes between the two steps of an append.
THEOREM QueueListWhole == QueueSpec => []ListWhole
<1>1. QueueIInv => ListWhole
  <2> SUFFICES ASSUME QueueIInv PROVE ListWhole
    OBVIOUS
  <2> DEFINE c == Chain
  <2>0. /\ QueueTypeOK /\ LinkedList(c, head, tail, next) /\ ThreadInv
        /\ \A i \in Items : Contains(c, i) <=> where[i] = "queued"
        /\ c # << >> => OpenWaits = {}
    BY DEF QueueIInv, ListInv
  <2>1. c \in Seq(Items) /\ DOMAIN c = 1..Len(c) /\ (tail = Null <=> c = << >>)
    BY <2>0, LinkedEnds
  <2>2. ToSet(c) = {i \in Items : where[i] = "queued"}
    <3>1. \A k \in DOMAIN c : c[k] \in Items
      BY <2>1
    <3> HIDE DEF c
    <3> QED
      BY <2>0, <2>1, <3>1 DEF ToSet, Contains
  <2>3. /\ IsInjective(c)
        /\ tail = IF c = << >> THEN Null ELSE Last(c)
        /\ tail # Null => next[tail] = Null
    BY <2>0, <2>1 DEF LinkedList, Last
  <2>4. c # << >> => LiveWaiters = {}
    BY <2>0, LiveWaitersAre
  <2> QED
    BY <2>0, <2>2, <2>3, <2>4 DEF ListWhole
<1> QED
  BY <1>1, QueueSpecIInv, PTL

-----------------------------------------------------------------------------
\* queueResult told from the states of the threads.
QueueOutcome == [t \in Threads |-> IF t \in OpenWaits THEN "waiting" ELSE ret[t]]

\* The two agree wherever the invariant holds ...
LEMMA QueueOutcomeIs == QueueIInv => queueResult = QueueOutcome
BY LiveWaitersAre DEF QueueIInv, queueResult, QueueOutcome

\* ... and so they do after a step.
LEMMA QueueOutcomeNext == QueueIInv' => (queueResult = QueueOutcome)'
BY QueueOutcomeIs, PTL

\* The threads that AbsFifo takes to be blocked.
LEMMA AbsFifoWaiting ==
  ASSUME QueueIInv
  PROVE  AbstractFifo!Waiting = OpenWaits
<1>1. ret \in [Threads -> {"none", "OK", "EMPTY", "EAGAIN"}] /\ OpenWaits \subseteq Threads
  BY DEF QueueIInv, QueueTypeOK, OpenWaits
<1>2. queueResult = QueueOutcome
  BY QueueOutcomeIs
<1>3. \A t \in Threads : QueueOutcome[t] = "waiting" <=> t \in OpenWaits
  BY <1>1 DEF QueueOutcome
<1> QED
  BY <1>1, <1>2, <1>3 DEF AbstractFifo!Waiting

\* Items that are free are fresh.
LEMMA AbsFresh ==
  ASSUME QueueIInv, NEW list \in Seq(Items), IsInjective(list),
         \A k \in DOMAIN list : where[list[k]] = "free"
  PROVE  AbstractFifo!Fresh(list)
<1>1. \A i \in Items : Contains(Chain, i) <=> where[i] = "queued"
  BY DEF QueueIInv, ListInv
<1>2. \A k \in DOMAIN list : list[k] \in Items
  OBVIOUS
<1>3. \A k \in DOMAIN list : ~Contains(Chain, list[k])
  BY <1>1, <1>2
<1>4. \A k \in DOMAIN list, a \in Appenders : append[a].item # list[k]
  BY <1>2 DEF QueueIInv, QueueTypeOK
<1> QED
  BY <1>3, <1>4 DEF AbstractFifo!Fresh, AbstractFifo!IsInjective, AbstractFifo!Contains,
              IsInjective, Contains, Chain

\* The operators that AbsFifo takes from the libraries are the ones used here.
LEMMA SameOperators ==
  /\ \A S : AbstractFifo!Cardinality(S) = Cardinality(S)
  /\ \A S : AbstractFifo!Min(S) = Min(S)
  /\ \A f : AbstractFifo!IsInjective(f) <=> IsInjective(f)
  /\ \A c, i : AbstractFifo!Contains(c, i) <=> Contains(c, i)
  /\ \A c, i : AbstractFifo!RemoveFirst(c, i) = RemoveFirst(c, i)
  /\ \A c, k, i : AbstractFifo!InsertAt(c, k, i) = InsertAt(c, k, i)
  /\ \A c : AbstractFifo!Last(c) = Last(c)
<1>1. \A S : AbstractFifo!Cardinality(S) = Cardinality(S)
  BY DEF AbstractFifo!Cardinality, Cardinality
<1>2. \A S : AbstractFifo!Min(S) = Min(S)
  BY DEF AbstractFifo!Min, Min
<1>3. \A f : AbstractFifo!IsInjective(f) <=> IsInjective(f)
  BY DEF AbstractFifo!IsInjective, IsInjective
<1>4. \A c, i : AbstractFifo!Contains(c, i) <=> Contains(c, i)
  BY DEF AbstractFifo!Contains, Contains
<1>5. \A c, i : AbstractFifo!RemoveFirst(c, i) = RemoveFirst(c, i)
  BY <1>2 DEF AbstractFifo!RemoveFirst, AbstractFifo!SelectInSeq, AbstractFifo!RemoveAt,
              RemoveFirst, SelectInSeq, RemoveAt
<1>6. \A c, k, i : AbstractFifo!InsertAt(c, k, i) = InsertAt(c, k, i)
  BY DEF AbstractFifo!InsertAt, InsertAt
<1>7. \A c : AbstractFifo!Last(c) = Last(c)
  BY DEF AbstractFifo!Last, Last
<1> QED
  BY <1>1, <1>2, <1>3, <1>4, <1>5, <1>6, <1>7

\* New items that go to waiters, one each, while the rest joins the list, at
\* its end or at its front.
LEMMA PutAbs ==
  ASSUME QueueIInv, QueueIInv', NEW list \in Seq(Items), IsInjective(list),
         \A k \in DOMAIN list : where[list[k]] = "free",
         append' = append, NEW rear \in BOOLEAN,
         NEW served \in SUBSET OpenWaits, NEW f \in [served -> 1..Cardinality(served)],
         Cardinality(served) = Min({Cardinality(OpenWaits), Len(list)}),
         IsInjective(f),
         got' = [t \in Threads |-> IF t \in served THEN list[f[t]] ELSE got[t]],
         ret' = [t \in Threads |-> IF t \in served THEN "OK" ELSE ret[t]],
         OpenWaits' = OpenWaits \ served,
         Chain' = IF rear THEN Chain \o SubSeq(list, Cardinality(served) + 1, Len(list))
                          ELSE SubSeq(list, Cardinality(served) + 1, Len(list)) \o Chain
  PROVE  AbstractFifo!AbsPut(list, rear)
<1>1. queueResult = QueueOutcome /\ queueResult' = QueueOutcome'
  BY QueueOutcomeIs, QueueOutcomeNext
<1>2. AbstractFifo!Waiting = OpenWaits
  BY AbsFifoWaiting
<1>3. AbstractFifo!Fresh(list)
  BY AbsFresh
<1>4. OpenWaits \subseteq Threads
  BY DEF OpenWaits
<1>5. queueResult' = [t \in Threads |-> IF t \in served THEN "OK" ELSE queueResult[t]]
  BY <1>1, <1>4 DEF QueueOutcome
<1> QED
  BY <1>2, <1>3, <1>5, SameOperators DEF AbstractFifo!AbsPut, Chain

\* One item that goes to a waiter or, if there is none, to the list.
LEMMA InsertAbs ==
  ASSUME QueueIInv, QueueIInv', NEW i \in Items, where[i] = "free",
         append' = append, NEW rear \in BOOLEAN,
         \/ \E t \in OpenWaits :
                 /\ OpenWaits' = OpenWaits \ {t}
                 /\ ret' = [ret EXCEPT ![t] = "OK"]
                 /\ got' = [got EXCEPT ![t] = i]
                 /\ Chain' = Chain
         \/ /\ OpenWaits = {} /\ OpenWaits' = {} /\ ret' = ret /\ got' = got
            /\ Chain' = IF rear THEN Chain \o <<i>> ELSE <<i>> \o Chain
  PROVE  AbstractFifo!AbsPut(<<i>>, rear)
<1> DEFINE list == <<i>>
<1>0. /\ ret \in [Threads -> {"none", "OK", "EMPTY", "EAGAIN"}]
      /\ got \in [Threads -> Items \cup {Null}]
      /\ OpenWaits \subseteq Threads /\ Chain \in Seq(Items) /\ ThreadInv
  BY DEF QueueIInv, QueueTypeOK, OpenWaits, ListInv, LinkedList
<1>1. list \in Seq(Items) /\ Len(list) = 1 /\ list[1] = i /\ DOMAIN list = {1}
  OBVIOUS
<1>2. IsInjective(list)
  BY <1>1 DEF IsInjective
<1>3. \A k \in DOMAIN list : where[list[k]] = "free"
  BY <1>1
<1>4. IsFiniteSet(OpenWaits) /\ Cardinality(OpenWaits) \in Nat
  <2>1. IsFiniteSet(OpenWaits)
    BY <1>0, LiveIs
  <2> QED
    BY <2>1, FS_CardinalityType
<1>5. SubSeq(list, 1 + 1, Len(list)) = << >>
  OBVIOUS
<1>6. SubSeq(list, 0 + 1, Len(list)) = list
  <2> DEFINE s == SubSeq(list, 0 + 1, Len(list))
  <2> HIDE DEF list
  <2>1. \A k \in 1..1 : list[k] \in Items
    BY <1>1
  <2>2. s \in Seq(Items) /\ Len(s) = 1 /\ s[1] = list[1]
    <3>1. SubSeq(list, 1, 1) \in Seq(Items) /\ Len(SubSeq(list, 1, 1)) = 1 /\ SubSeq(list, 1, 1)[1] = list[1]
      BY <2>1, SubSeqProperties
    <3> QED
      BY <1>1, <3>1
  <2> HIDE DEF s
  <2>3. s = list
    BY <1>1, <2>2, SeqEqual
  <2> QED
    BY <2>3 DEF s
<1> HIDE DEF list
<1>7. ASSUME NEW t \in OpenWaits, OpenWaits' = OpenWaits \ {t},
             ret' = [ret EXCEPT ![t] = "OK"], got' = [got EXCEPT ![t] = i],
             Chain' = Chain
      PROVE  AbstractFifo!AbsPut(list, rear)
  <2> DEFINE served == {t}
  <2>1. Cardinality(served) = 1 /\ Cardinality(OpenWaits) >= 1
    <3>1. Cardinality(served) = 1 /\ IsFiniteSet(served)
      BY FS_Singleton
    <3>2. Cardinality(served) <= Cardinality(OpenWaits)
      BY <1>4, FS_Subset
    <3> QED
      BY <1>4, <3>1, <3>2
  <2>2. Cardinality(served) = Min({Cardinality(OpenWaits), Len(list)})
    <3> DEFINE n == Cardinality(OpenWaits)
    <3>1. n \in Int /\ 1 \in Int /\ n >= 1
      BY <1>4, <2>1
    <3> HIDE DEF n
    <3>2. Min({n, 1}) = 1
      BY ONLY <3>1, TwoNumbers
    <3> QED
      BY <1>1, <2>1, <3>2 DEF n
  <2> DEFINE f == [u \in served |-> 1]
  <2>3. f \in [served -> 1..Cardinality(served)] /\ IsInjective(f) /\ f[t] = 1
    BY <2>1 DEF IsInjective
  <2>4. got' = [u \in Threads |-> IF u \in served THEN list[f[u]] ELSE got[u]]
    BY <1>0, <1>1, <1>7
  <2>5. ret' = [u \in Threads |-> IF u \in served THEN "OK" ELSE ret[u]]
    BY <1>0, <1>7
  <2>6. Chain' = IF rear THEN Chain \o SubSeq(list, Cardinality(served) + 1, Len(list))
                         ELSE SubSeq(list, Cardinality(served) + 1, Len(list)) \o Chain
    <3>1. Chain \o << >> = Chain /\ << >> \o Chain = Chain
      BY <1>0
    <3> QED
      BY <1>5, <1>7, <2>1, <3>1
  <2>7. served \in SUBSET OpenWaits /\ OpenWaits' = OpenWaits \ served
    BY <1>7
  <2> HIDE DEF f, served
  <2> QED
    BY ONLY QueueIInv, QueueIInv', append' = append, rear \in BOOLEAN, <1>1, <1>2, <1>3,
            <2>2, <2>3, <2>4, <2>5, <2>6, <2>7, PutAbs
<1>8. ASSUME OpenWaits = {}, OpenWaits' = {}, ret' = ret, got' = got,
             Chain' = IF rear THEN Chain \o list ELSE list \o Chain
      PROVE  AbstractFifo!AbsPut(list, rear)
  <2> DEFINE served == {}
             f == [u \in {} |-> 1]
  <2>1. Cardinality(served) = 0
    BY FS_EmptySet
  <2>2. Cardinality(served) = Min({Cardinality(OpenWaits), Len(list)})
    BY <1>1, <1>8, <2>1, TwoNumbers
  <2>3. f \in [served -> 1..Cardinality(served)] /\ IsInjective(f)
    BY DEF IsInjective
  <2>4. got' = [u \in Threads |-> IF u \in served THEN list[f[u]] ELSE got[u]]
    BY <1>0, <1>8
  <2>5. ret' = [u \in Threads |-> IF u \in served THEN "OK" ELSE ret[u]]
    BY <1>0, <1>8
  <2>6. Chain' = IF rear THEN Chain \o SubSeq(list, Cardinality(served) + 1, Len(list))
                         ELSE SubSeq(list, Cardinality(served) + 1, Len(list)) \o Chain
    BY <1>6, <1>8, <2>1
  <2>7. served \in SUBSET OpenWaits /\ OpenWaits' = OpenWaits \ served
    BY <1>8
  <2> HIDE DEF f, served
  <2> QED
    BY <1>1, <1>2, <1>3, <2>2, <2>3, <2>4, <2>5, <2>6, <2>7, PutAbs
<1>9. AbstractFifo!AbsPut(list, rear)
  BY <1>7, <1>8 DEF list
<1> QED
  BY <1>9 DEF list

\* A step that leaves the links alone leaves the chain alone.
LEMMA ChainSame ==
  ASSUME ListInv, UNCHANGED listVars
  PROVE  Chain' = Chain
<1>1. LinkedList(Chain, head, tail, next) /\ head' = head /\ tail' = tail /\ next' = next
  BY DEF ListInv, listVars
<1>2. LinkedList(Chain, head', tail', next')
  BY <1>1
<1> QED
  BY <1>2, ChainNext

\* A thread that is still waiting holds no item: k_queue_get() returns
\* base.swap_data, which only the thread that serves it sets.
EmptyHanded == \A t \in OpenWaits : got[t] = Null

\* What a step is for AbsFifo
AbsStep == AbstractFifo!AbsNext \/ UNCHANGED <<Chain, queueResult, got, append>>

\* The end of a wait without an item: by a timeout, by the end of the thread
\* or by k_queue_cancel_wait().
LEMMA GiveUpAbs ==
  ASSUME QueueIInv, QueueIInv', EmptyHanded, Chain' = Chain, append' = append,
         \/ OpenWaits' = OpenWaits /\ ret' = ret /\ got' = got
         \/ \E t \in OpenWaits :
              /\ OpenWaits' = OpenWaits \ {t}
              /\ got' = [got EXCEPT ![t] = Null]
              /\ ret' = ret \/ ret' = [ret EXCEPT ![t] = "OK"]
  PROVE  AbsStep /\ EmptyHanded'
<1>0. /\ ret \in [Threads -> {"none", "OK", "EMPTY", "EAGAIN"}]
      /\ got \in [Threads -> Items \cup {Null}]
      /\ OpenWaits \subseteq Threads
      /\ \A t \in OpenWaits : ret[t] = "EAGAIN"
  BY DEF QueueIInv, QueueTypeOK, OpenWaits, PendingReturn
<1>1. queueResult = QueueOutcome /\ queueResult' = QueueOutcome'
  BY QueueOutcomeIs, QueueOutcomeNext
<1>2. CASE OpenWaits' = OpenWaits /\ ret' = ret /\ got' = got
  <2>1. QueueOutcome' = QueueOutcome
    BY <1>2 DEF QueueOutcome
  <2> QED
    BY <1>1, <1>2, <2>1 DEF AbsStep, EmptyHanded
<1>3. ASSUME NEW t \in OpenWaits,
             OpenWaits' = OpenWaits \ {t},
             got' = [got EXCEPT ![t] = Null],
             ret' = ret \/ ret' = [ret EXCEPT ![t] = "OK"]
      PROVE  AbsStep /\ EmptyHanded'
  <2>1. t \in Threads /\ t \in AbstractFifo!Waiting
    BY <1>0, AbsFifoWaiting
  <2>2. PICK r \in {"EAGAIN", "OK"} : ret'[t] = r /\ ret' = [ret EXCEPT ![t] = r]
    BY <1>0, <1>3
  <2>3. queueResult' = [queueResult EXCEPT ![t] = r]
    BY <1>0, <1>1, <1>3, <2>2 DEF QueueOutcome
  <2>4. AbstractFifo!AbsGiveUp(t)
    BY <1>3, <2>1, <2>3 DEF AbstractFifo!AbsGiveUp, AbstractFifo!Ends, Chain
  <2>5. EmptyHanded'
    BY <1>0, <1>3 DEF EmptyHanded
  <2> QED
    BY <2>1, <2>4, <2>5 DEF AbsStep, AbstractFifo!AbsNext
<1> QED
  BY <1>2, <1>3

\* A prepend
LEMMA PrependStep ==
  ASSUME QueueIInv, QueueIInv', EmptyHanded, NEW i \in Items, Prepend(i)
  PROVE  AbstractFifo!AbsPut(<<i>>, FALSE) /\ EmptyHanded'
<1>0. where[i] = "free" /\ Insert(Null, i) /\ append' = append /\ Null # i
  BY QueueAssumption DEF Prepend
<1>1. Placed(Chain, Null, i, Chain') => Chain' = <<i>> \o Chain
  <2>1. \A k \in 1..Len(Chain) : Chain[k] # Null
    BY LinkedEnds DEF QueueIInv, ListInv
  <2> QED
    BY <2>1 DEF Placed
<1>2. \/ \E t \in OpenWaits :
           /\ OpenWaits' = OpenWaits \ {t}
           /\ ret' = [ret EXCEPT ![t] = "OK"]
           /\ got' = [got EXCEPT ![t] = i]
           /\ Chain' = Chain
      \/ /\ OpenWaits = {} /\ OpenWaits' = {} /\ ret' = ret /\ got' = got
         /\ Chain' = <<i>> \o Chain
  <2>1. where[i] # "queued"
    BY <1>0
  <2> QED
    BY <1>0, <1>1, <2>1, InsertIs
<1>3. EmptyHanded'
  <2>1. got \in [Threads -> Items \cup {Null}] /\ OpenWaits \subseteq Threads
    BY DEF QueueIInv, QueueTypeOK, OpenWaits
  <2> QED
    BY <1>2, <2>1 DEF EmptyHanded
<1> QED
  BY <1>0, <1>2, <1>3, InsertAbs

\* The first step of an append: it sees the last item of the list.
LEMMA AppendStartStep ==
  ASSUME QueueIInv, QueueIInv', EmptyHanded, NEW a \in Appenders, NEW i \in Items,
         AppendStart(a, i)
  PROVE  AbstractFifo!AbsCall(a, i) /\ EmptyHanded'
<1> DEFINE list == <<i>>
<1>0. /\ where[i] = "free" /\ append[a] = Idle
      /\ append' = [append EXCEPT ![a] = [item |-> i, prev |-> tail]]
      /\ UNCHANGED listVars /\ got' = got /\ ret' = ret /\ OpenWaits' = OpenWaits
  BY DEF AppendStart, threadVars, OpenWaits
<1>1. list \in Seq(Items) /\ list[1] = i /\ DOMAIN list = {1}
  OBVIOUS
<1> HIDE DEF list
<1>2. AbstractFifo!Fresh(list)
  <2>1. IsInjective(list) /\ \A k \in DOMAIN list : where[list[k]] = "free"
    BY <1>0, <1>1 DEF IsInjective
  <2> QED
    BY <1>1, <2>1, AbsFresh
<1>3. Chain' = Chain
  BY <1>0, ChainSame DEF QueueIInv
<1>4. tail = IF Chain = << >> THEN Null ELSE Last(Chain)
  BY DEF QueueIInv, ListInv, LinkedList, Last
<1>5. queueResult' = queueResult
  <2>1. QueueOutcome' = QueueOutcome
    BY <1>0 DEF QueueOutcome
  <2> QED
    BY <2>1, QueueOutcomeIs, QueueOutcomeNext
<1>6. EmptyHanded'
  BY <1>0 DEF EmptyHanded
<1> QED
  BY <1>0, <1>2, <1>3, <1>4, <1>5, <1>6, SameOperators
  DEF AbstractFifo!AbsCall, AbstractFifo!None, Idle, list, Chain

\* The second step: the item goes to a waiter or to one of the places AbsFifo
\* allows.
LEMMA AppendEndStep ==
  ASSUME QueueIInv, QueueIInv', EmptyHanded, NEW a \in Appenders, AppendEnd(a)
  PROVE  AbstractFifo!AbsEnd(a) /\ EmptyHanded'
<1> DEFINE i == append[a].item
           p == append[a].prev
<1>0. /\ append[a] # Idle /\ Insert(p, i) /\ append' = [append EXCEPT ![a] = Idle]
  BY DEF AppendEnd
<1>1. /\ i \in Items /\ p \in Items \cup {Null} /\ p # i /\ where[i] # "queued"
  BY <1>0 DEF QueueIInv, QueueTypeOK, AppendInv
<1>2. /\ ret \in [Threads -> {"none", "OK", "EMPTY", "EAGAIN"}]
      /\ got \in [Threads -> Items \cup {Null}]
      /\ OpenWaits \subseteq Threads /\ Chain \in Seq(Items)
  BY DEF QueueIInv, QueueTypeOK, OpenWaits, ListInv, LinkedList
<1>3. queueResult = QueueOutcome /\ queueResult' = QueueOutcome'
  BY QueueOutcomeIs, QueueOutcomeNext
<1>4. AbstractFifo!Waiting = OpenWaits
  BY AbsFifoWaiting
<1>5. \/ \E t \in OpenWaits :
           /\ OpenWaits' = OpenWaits \ {t}
           /\ ret' = [ret EXCEPT ![t] = "OK"]
           /\ got' = [got EXCEPT ![t] = i]
           /\ Chain' = Chain
      \/ /\ OpenWaits = {} /\ OpenWaits' = {} /\ ret' = ret /\ got' = got
         /\ Placed(Chain, p, i, Chain')
  <2> HIDE DEF i, p
  <2> QED
    BY <1>0, <1>1, InsertIs
<1>6. AbstractFifo!None = Idle
  BY DEF AbstractFifo!None, Idle
<1>7. ASSUME NEW t \in OpenWaits, OpenWaits' = OpenWaits \ {t},
             ret' = [ret EXCEPT ![t] = "OK"], got' = [got EXCEPT ![t] = i], Chain' = Chain
      PROVE  AbstractFifo!AbsEnd(a) /\ EmptyHanded'
  <2>1. queueResult' = [queueResult EXCEPT ![t] = "OK"]
    BY <1>2, <1>3, <1>7 DEF QueueOutcome
  <2>2. EmptyHanded'
    BY <1>2, <1>7 DEF EmptyHanded
  <2>3. AbstractFifo!Ends(t, "OK", append[a].item)
    BY <1>7, <2>1 DEF AbstractFifo!Ends
  <2> QED
    BY <1>0, <1>4, <1>6, <1>7, <2>2, <2>3 DEF AbstractFifo!AbsEnd, Chain
<1>8. ASSUME OpenWaits = {}, OpenWaits' = {}, ret' = ret, got' = got,
             Placed(Chain, p, i, Chain')
      PROVE  AbstractFifo!AbsEnd(a) /\ EmptyHanded'
  <2>1. queueResult' = queueResult
    BY <1>3, <1>8 DEF QueueOutcome
  <2>2. EmptyHanded'
    BY <1>8 DEF EmptyHanded
  <2>3. DOMAIN Chain = 1..Len(Chain)
    BY <1>2, LenProperties
  <2>4. Chain' \in AbstractFifo!Places(append[a].prev, append[a].item)
    BY <1>8, <2>3, SameOperators DEF Placed, AbstractFifo!Places, Chain
  <2> QED
    BY <1>0, <1>4, <1>6, <1>8, <2>1, <2>2, <2>4 DEF AbstractFifo!AbsEnd
<1> QED
  BY <1>5, <1>7, <1>8

\* k_queue_append_list() of two items
LEMMA AppendListStep ==
  ASSUME QueueIInv, QueueIInv', EmptyHanded, NEW i \in Items, NEW j \in Items,
         AppendList(<<i, j>>)
  PROVE  AbstractFifo!AbsPut(<<i, j>>, TRUE) /\ EmptyHanded'
<1> DEFINE list == <<i, j>>
<1>1. list \in Seq(Items) /\ list # << >>
  OBVIOUS
<1>2. AppendList(list) /\ append' = append
  BY DEF AppendList
<1> HIDE DEF list
<1>3. IsInjective(list) /\ \A k \in DOMAIN list : where[list[k]] = "free"
  BY <1>2 DEF AppendList
<1>4. PICK served \in SUBSET OpenWaits : \E f \in [served -> 1..Cardinality(served)] :
              /\ Cardinality(served) = Min({Cardinality(OpenWaits), Len(list)})
              /\ IsInjective(f)
              /\ got' = [t \in Threads |-> IF t \in served THEN list[f[t]] ELSE got[t]]
              /\ ret' = [t \in Threads |-> IF t \in served THEN "OK" ELSE ret[t]]
              /\ OpenWaits' = OpenWaits \ served
              /\ Chain' = Chain \o SubSeq(list, Cardinality(served) + 1, Len(list))
  BY <1>1, <1>2, AppendListIs
<1>5. AbstractFifo!AbsPut(list, TRUE)
  BY <1>1, <1>2, <1>3, <1>4, PutAbs
<1>6. EmptyHanded'
  BY <1>4 DEF EmptyHanded, OpenWaits
<1> QED
  BY <1>5, <1>6 DEF list

\* k_queue_get()
LEMMA GetStep ==
  ASSUME QueueIInv, QueueIInv', EmptyHanded, NEW t \in Threads, NEW timeout \in Timeouts,
         QueueGet(t, timeout)
  PROVE  (AbstractFifo!AbsGet(t) \/ AbstractFifo!AbsNothing(t)) /\ EmptyHanded'
<1>0. /\ ret \in [Threads -> {"none", "OK", "EMPTY", "EAGAIN"}]
      /\ got \in [Threads -> Items \cup {Null}]
      /\ where \in [Items -> {"free", "append", "queued", "lost"}]
      /\ ThreadInv /\ ListInv /\ Running(t) /\ append' = append
  BY DEF QueueIInv, QueueTypeOK, QueueGet
<1>1. queueResult = QueueOutcome /\ queueResult' = QueueOutcome'
  BY QueueOutcomeIs, QueueOutcomeNext
<1>2. t \notin OpenWaits /\ t \notin AbstractFifo!Waiting
  BY <1>0, AbsFifoWaiting DEF OpenWaits, Running
<1>3. CASE /\ ListGet
           /\ Return(t, "OK")
           /\ got' = [got EXCEPT ![t] = head]
           /\ where' = [where EXCEPT ![head] = "free"]
  <2>1. OpenWaits' = OpenWaits /\ ret' = [ret EXCEPT ![t] = "OK"]
    BY <1>3 DEF Return, OpenWaits
  <2>2. Chain # << >> /\ head = Head(Chain) /\ Chain' = Tail(Chain)
    BY <1>0, <1>3, <2>1, ListGetIs
  <2>3. queueResult' = [queueResult EXCEPT ![t] = "OK"]
    BY <1>0, <1>1, <1>2, <2>1 DEF QueueOutcome
  <2>4. AbstractFifo!AbsGet(t)
    BY <1>0, <1>2, <1>3, <2>2, <2>3 DEF AbstractFifo!AbsGet, AbstractFifo!Ends, Chain
  <2>5. EmptyHanded'
    BY <1>0, <1>2, <1>3, <2>1 DEF EmptyHanded, OpenWaits
  <2> QED
    BY <2>4, <2>5
<1>4. CASE /\ head = Null
           /\ \/ timeout = "nowait" /\ Return(t, "EMPTY")
              \/ timeout # "nowait" /\ Pend(t, timeout)
           /\ got' = [got EXCEPT ![t] = Null]
           /\ UNCHANGED <<listVars, where>>
  <2>1. Chain = << >> /\ Chain' = Chain
    BY <1>0, <1>4, LinkedEnds, ChainSame DEF ListInv
  <2>2. \/ OpenWaits' = OpenWaits /\ ret' = [ret EXCEPT ![t] = "EMPTY"]
        \/ OpenWaits' = OpenWaits \cup {t} /\ ret' = [ret EXCEPT ![t] = "EAGAIN"]
    <3>1. CASE Return(t, "EMPTY")
      BY <3>1 DEF Return, OpenWaits
    <3>2. CASE Pend(t, timeout)
      BY <1>0, <3>2, PendWaits DEF Pend
    <3> QED
      BY <1>4, <3>1, <3>2
  <2>3. \E r \in {"EMPTY", "waiting"} : queueResult' = [queueResult EXCEPT ![t] = r]
    BY <1>0, <1>1, <1>2, <2>2, ZenonT(60) DEF QueueOutcome
  <2>4. AbstractFifo!AbsNothing(t)
    BY <1>0, <1>2, <1>4, <2>1, <2>3 DEF AbstractFifo!AbsNothing, AbstractFifo!Ends, Chain
  <2>5. EmptyHanded'
    BY <1>0, <1>4, <2>2 DEF EmptyHanded, OpenWaits
  <2> QED
    BY <2>4, <2>5
<1> QED
  BY <1>3, <1>4 DEF QueueGet

\* Every step of the queue is a step of AbsFifo or leaves what it sees alone,
\* and a waiting thread stays empty-handed.
LEMMA QueueNextAbs ==
  ASSUME QueueIInv, QueueIInv', EmptyHanded, [QueueNext]_queueVars
  PROVE  AbsStep /\ EmptyHanded'
<1>0. /\ ret \in [Threads -> {"none", "OK", "EMPTY", "EAGAIN"}]
      /\ got \in [Threads -> Items \cup {Null}]
      /\ where \in [Items -> {"free", "append", "queued", "lost"}]
      /\ ThreadInv /\ ListInv /\ AppendInv /\ OpenWaits \subseteq Threads
      /\ \A i \in Items : where[i] = "append" <=> \E a \in Appenders : append[a].item = i
  BY DEF QueueIInv, QueueTypeOK, OpenWaits
<1>1. queueResult = QueueOutcome /\ queueResult' = QueueOutcome'
  BY QueueOutcomeIs, QueueOutcomeNext
\* The threads do not move.
<1>2. ASSUME UNCHANGED <<threadVars, got>>
      PROVE  /\ OpenWaits' = OpenWaits /\ ret' = ret /\ got' = got
             /\ queueResult' = queueResult /\ EmptyHanded'
  <2>1. OpenWaits' = OpenWaits /\ ret' = ret /\ got' = got
    BY <1>2 DEF threadVars, OpenWaits
  <2>2. QueueOutcome' = QueueOutcome
    BY <2>1 DEF QueueOutcome
  <2> QED
    BY <1>1, <2>1, <2>2 DEF EmptyHanded
<1>3. ASSUME NEW a \in Appenders, NEW i \in Items, AppendStart(a, i) PROVE AbsStep /\ EmptyHanded'
  BY <1>3, AppendStartStep DEF AbsStep, AbstractFifo!AbsNext
<1>4. ASSUME NEW a \in Appenders, AppendEnd(a) PROVE AbsStep /\ EmptyHanded'
  BY <1>4, AppendEndStep DEF AbsStep, AbstractFifo!AbsNext
<1>5. ASSUME NEW i \in Items, Prepend(i) PROVE AbsStep /\ EmptyHanded'
  BY <1>5, PrependStep DEF AbsStep, AbstractFifo!AbsNext
<1>6. ASSUME NEW i \in Items, NEW j \in Items, AppendList(<<i, j>>) PROVE AbsStep /\ EmptyHanded'
  BY <1>6, AppendListStep DEF AbsStep, AbstractFifo!AbsNext
<1>7. ASSUME NEW t \in Threads, NEW timeout \in Timeouts, QueueGet(t, timeout)
      PROVE  AbsStep /\ EmptyHanded'
  BY <1>7, GetStep DEF AbsStep, AbstractFifo!AbsNext
<1>8. ASSUME QueueIsrGet PROVE AbsStep /\ EmptyHanded'
  <2>1. ListGet /\ where' = [where EXCEPT ![head] = "free"] /\ UNCHANGED <<threadVars, append, got>>
    BY <1>8 DEF QueueIsrGet
  <2>2. Chain # << >> /\ Chain' = Tail(Chain)
    BY <1>0, <1>2, <2>1, ListGetIs
  <2>3. AbstractFifo!AbsIsrGet
    BY <1>2, <2>1, <2>2 DEF AbstractFifo!AbsIsrGet, Chain
  <2> QED
    BY <1>2, <2>1, <2>3 DEF AbsStep, AbstractFifo!AbsNext
<1>9. ASSUME NEW prev \in Items \cup {Null}, NEW i \in Items, RemoveItem(prev, i)
      PROVE  AbsStep /\ EmptyHanded'
  <2>1. /\ ListRemove(prev, i) /\ where' = [where EXCEPT ![i] = "free"]
        /\ \A j \in {prev, i} \ {Null} : where[j] = "queued"
        /\ UNCHANGED <<threadVars, append, got>>
    BY <1>9 DEF RemoveItem
  <2>2. Contains(Chain, i) /\ Chain' = RemoveFirst(Chain, i)
    BY <1>0, <1>2, <2>1, ListRemoveIs
  <2>3. AbstractFifo!AbsRemove(i)
    BY <1>2, <2>1, <2>2, SameOperators DEF AbstractFifo!AbsRemove, Chain
  <2> QED
    BY <1>2, <2>1, <2>3 DEF AbsStep, AbstractFifo!AbsNext
<1>10. ASSUME CancelWait PROVE AbsStep /\ EmptyHanded'
  <2>1. Chain' = Chain /\ append' = append
    BY <1>0, <1>10, ChainSame DEF CancelWait
  <2>2. \E t \in OpenWaits :
              /\ OpenWaits' = OpenWaits \ {t}
              /\ ret' = [ret EXCEPT ![t] = "OK"]
              /\ got' = [got EXCEPT ![t] = Null]
    BY <1>0, <1>10, ServeFirstInv DEF CancelWait
  <2> QED
    BY <2>1, <2>2, GiveUpAbs
\* A waiter has no item, so that its wait ends without one.
<1>11. ASSUME NEW t \in OpenWaits, got' = got PROVE got' = [got EXCEPT ![t] = Null]
  BY <1>0, <1>11 DEF EmptyHanded
<1>12. ASSUME NEW t \in Threads, QueueKill(t) PROVE AbsStep /\ EmptyHanded'
  <2>1. Chain' = Chain /\ got' = got /\ append' = append
    BY <1>0, <1>12, ChainSame DEF QueueKill
  <2>2. ret' = ret /\ OpenWaits' = OpenWaits \ {t}
    BY <1>0, <1>12, AbortWaits DEF QueueKill
  <2>3. OpenWaits' = OpenWaits \/ t \in OpenWaits
    BY <2>2
  <2> QED
    BY <1>11, <2>1, <2>2, <2>3, GiveUpAbs
<1>13. ASSUME QueueClock PROVE AbsStep /\ EmptyHanded'
  <2>1. Chain' = Chain /\ got' = got /\ append' = append
    BY <1>0, <1>13, ChainSame DEF QueueClock
  <2>2. /\ ret' = ret
        /\ OpenWaits' = OpenWaits \/ \E t \in OpenWaits : OpenWaits' = OpenWaits \ {t}
    BY <1>0, <1>13, TickWaits DEF QueueClock
  <2> QED
    BY <1>11, <2>1, <2>2, GiveUpAbs
<1>14. ASSUME UNCHANGED queueVars PROVE AbsStep /\ EmptyHanded'
  BY <1>0, <1>2, <1>14, ChainSame DEF queueVars, AbsStep
<1> QED
  BY <1>3, <1>4, <1>5, <1>6, <1>7, <1>8, <1>9, <1>10, <1>12, <1>13, <1>14 DEF QueueNext

\* queue.c implements AbsFifo, for any number of items, threads and appenders
\* and whatever comes between the two steps of an append: appended items come
\* out in order and prepended ones next, each item goes to one getter, nobody
\* waits while there is an item, and an overtaken append puts its item behind
\* the one it found last or, only if that one has left meanwhile, at the end or
\* nowhere.
THEOREM QueueImplementsAbsFifo == QueueSpec => ImplementsAbsFifo
<1>1. QueueInit => AbstractFifo!AbsInit /\ EmptyHanded
  <2> SUFFICES ASSUME QueueInit PROVE AbstractFifo!AbsInit /\ EmptyHanded
    OBVIOUS
  <2>1. QueueIInv
    BY QueueInitIInv
  <2>2. ret = [t \in Threads |-> "none"] /\ OpenWaits = {} /\ got = [t \in Threads |-> Null]
    BY DEF QueueInit, ThreadInit, OpenWaits
  <2>3. queueResult = [t \in Threads |-> "none"]
    BY <2>1, <2>2, QueueOutcomeIs DEF QueueOutcome
  <2>4. Chain = << >>
    <3>1. LinkedList(Chain, head, tail, next) /\ head = Null
      BY <2>1 DEF QueueIInv, ListInv, QueueInit
    <3> QED
      BY <3>1, LinkedEnds
  <2> QED
    BY <2>2, <2>3, <2>4 DEF AbstractFifo!AbsInit, AbstractFifo!None, Idle, EmptyHanded, Chain, QueueInit
<1>2. QueueIInv /\ QueueIInv' /\ EmptyHanded /\ [QueueNext]_queueVars
        => EmptyHanded' /\ [AbstractFifo!AbsNext]_(AbstractFifo!absVars)
  BY QueueNextAbs DEF AbsStep, AbstractFifo!absVars, Chain
<1> QED
  BY <1>1, <1>2, QueueSpecIInv, PTL DEF QueueSpec, ImplementsAbsFifo, AbstractFifo!AbsSpec

=============================================================================
