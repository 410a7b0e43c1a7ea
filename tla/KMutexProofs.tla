---------------------------- MODULE KMutexProofs ----------------------------
(***************************************************************************)
(* The mutex for every set of threads, every assignment of priorities and  *)
(* every ceiling: mutual exclusion, no waiter without an owner, priorities *)
(* that are raised only for a reason and revert, and no inversion.  Then   *)
(* the property cache, each of whose operations holds a mutex throughout,  *)
(* for every set of keys and values and every number of cache entries.     *)
(***************************************************************************)
EXTENDS KMutex, KProperty, DataLemmas

-----------------------------------------------------------------------------
(* KMutex *)

(* The inductive invariant has four parts. *)

\* The lists, the states of the threads and their timeouts agree, and the wait
\* queue is in priority order.
QueuesInv ==
  /\ waitq \in Seq(Threads) /\ IsInjective(waitq) /\ Ascending(waitq, Base)
  /\ expired \in Seq(Threads) /\ IsInjective(expired)
  /\ tstate \in [Threads -> {"ready", "pending", "away"}]
  /\ tmo \in [Threads -> {"inactive", "armed", "expired"}]
  /\ clock \in {"idle", "collect", "handle"}
  /\ \A t \in Threads : tstate[t] = "pending" <=> Contains(waitq, t)
  /\ \A t \in Threads : tmo[t] = "expired" <=> Contains(expired, t)
  /\ \A t \in Threads : tstate[t] # "pending" => tmo[t] = "inactive"
  /\ clock = "idle" => expired = << >>

\* Where each thread is in its call, and what it has: the owner has returned
\* from k_mutex_lock() as often as lock_count says, or has been handed the
\* mutex and not yet run; a thread about to adjust the owner is running.
CallInv ==
  /\ owner \in Threads \cup {Null} /\ cur \in Threads \cup {Null}
  /\ lockCount \in 0..MaxDepth
  /\ pc \in [Threads -> {"out", "swap", "adjust"}]
  /\ ret \in [Threads -> {"OK", "EAGAIN"}]
  /\ depth \in [Threads -> 0..MaxDepth]
  /\ fault \in BOOLEAN
  /\ owner = Null => lockCount = 0 /\ waitq = << >>
  /\ cur # Null => tstate[cur] = "ready"
  /\ \A t \in Threads :
       /\ tstate[t] = "pending" => pc[t] = "swap" /\ ret[t] = "EAGAIN"
       /\ pc[t] = "swap" /\ ret[t] = "OK" => owner = t
       /\ pc[t] = "adjust" => cur = t
       /\ owner # t => depth[t] = 0
       /\ owner = t => (pc[t] = "out" /\ depth[t] = lockCount /\ lockCount > 0)
                       \/ (pc[t] = "swap" /\ ret[t] = "OK" /\ lockCount = 1 /\ depth[t] = 0)

\* w waits for the mutex, or has given up and not yet adjusted the owner.
Asks(w) == pc[w] # "out" /\ ret[w] = "EAGAIN"

\* The priority up to which w raises the owner.
Limit(w) == IF Base[w] >= Ceiling THEN Base[w] ELSE Ceiling

\* The owner's priority: no lower than what each waiter asks for, no higher
\* than somebody asks for; and the same of the priority a thread that timed out
\* has worked out for the owner and not yet set.
PrioInv ==
  /\ prio \in [Threads -> Int] /\ newPrio \in [Threads -> Int] /\ origPrio \in Int
  /\ PrioReverts
  /\ owner # Null => origPrio = Base[owner]
  /\ \A t \in Threads : prio[t] < Base[t] =>
       \E w \in Threads \ {t} : Asks(w) /\ Base[w] <= prio[t]
  /\ \A w \in Threads : tstate[w] = "pending" => prio[owner] <= Limit(w)
  /\ \A t \in Threads : pc[t] = "adjust" =>
       /\ \A w \in Threads : tstate[w] = "pending" => newPrio[t] <= Limit(w)
       /\ owner # Null /\ newPrio[t] < Base[owner] =>
            \E w \in Threads \ {owner, t} : Asks(w) /\ Base[w] <= newPrio[t]

\* A preemptible thread that runs has the highest priority of the ready ones.
SchedInv ==
  clock = "idle" /\ cur # Null /\ pc[cur] = "out" /\ prio[cur] >= 0 =>
    \A u \in Threads : tstate[u] = "ready" => prio[cur] <= prio[u]

IInv == QueuesInv /\ CallInv /\ PrioInv

-----------------------------------------------------------------------------
(* The queues *)

\* Taking the waiter at position i off the queue.
LEMMA UnpendQueue ==
  ASSUME QueuesInv, NEW i \in DOMAIN waitq, waitq' = RemoveAt(waitq, i)
  PROVE  /\ waitq' \in Seq(Threads) /\ IsInjective(waitq') /\ Ascending(waitq', Base)
         /\ \A u \in Threads : Contains(waitq', u) <=> (u # waitq[i] /\ Contains(waitq, u))
<1>1. waitq \in Seq(Threads) /\ IsInjective(waitq) /\ Ascending(waitq, Base)
      /\ i \in 1..Len(waitq) /\ Base \in [Threads -> Int]
  BY MutexAssumption, LenProperties DEF QueuesInv
<1>2. RemoveAt(waitq, i) \in Seq(Threads)
  BY ONLY <1>1, RemoveAtEntries
<1>3. /\ IsInjective(RemoveAt(waitq, i))
      /\ \A u \in Threads : Contains(RemoveAt(waitq, i), u) <=> (u # waitq[i] /\ Contains(waitq, u))
  BY ONLY <1>1, RemoveAtMembers
<1>4. Ascending(RemoveAt(waitq, i), Base)
  BY ONLY <1>1, RemoveAtAscending
<1> QED
  BY <1>2, <1>3, <1>4

\* Every step keeps the queues in order.
LEMMA NextQueues ==
  ASSUME IInv, Next
  PROVE  QueuesInv'
<1>0. /\ waitq \in Seq(Threads) /\ IsInjective(waitq) /\ Ascending(waitq, Base)
      /\ expired \in Seq(Threads) /\ IsInjective(expired)
      /\ tstate \in [Threads -> {"ready", "pending", "away"}]
      /\ tmo \in [Threads -> {"inactive", "armed", "expired"}]
      /\ clock \in {"idle", "collect", "handle"}
      /\ \A t \in Threads : tstate[t] = "pending" <=> Contains(waitq, t)
      /\ \A t \in Threads : tmo[t] = "expired" <=> Contains(expired, t)
      /\ \A t \in Threads : tstate[t] # "pending" => tmo[t] = "inactive"
      /\ clock = "idle" => expired = << >>
      /\ QueuesInv /\ Base \in [Threads -> Int]
  BY MutexAssumption DEF IInv, QueuesInv
<1>1. ASSUME UNCHANGED <<waitq, tstate, tmo, clock, expired>>
      PROVE  QueuesInv'
  BY <1>0, <1>1 DEF QueuesInv
<1>2. ASSUME NEW t \in Threads, Sleep(t) \/ WakeUp(t)
      PROVE  QueuesInv'
  <2>1. /\ waitq' = waitq /\ tmo' = tmo /\ clock' = clock /\ expired' = expired
        /\ \E s \in {"ready", "away"} : tstate' = [tstate EXCEPT ![t] = s]
    BY <1>2 DEF Sleep, WakeUp
  <2>2. tstate[t] # "pending"
    BY <1>2 DEF IInv, CallInv, Sleep, WakeUp, Runs
  <2>3. /\ tstate' \in [Threads -> {"ready", "pending", "away"}]
        /\ \A u \in Threads : tstate'[u] = "pending" <=> tstate[u] = "pending"
    BY <1>0, <2>1, <2>2
  <2> QED
    BY <1>0, <2>1, <2>3 DEF QueuesInv
<1>3. ASSUME NEW t \in Threads, NEW timed \in BOOLEAN, LockWait(t, timed)
      PROVE  QueuesInv'
  <2>1. /\ \A u \in Threads : tstate'[u] = IF u = t THEN "pending" ELSE tstate[u]
        /\ \A u \in Threads : tmo'[u] = IF u = t /\ timed THEN "armed" ELSE tmo[u]
        /\ tstate' \in [Threads -> {"ready", "pending", "away"}]
        /\ tmo' \in [Threads -> {"inactive", "armed", "expired"}]
        /\ expired' = expired /\ clock' = clock /\ pc[t] = "out" /\ owner \in Threads
    BY <1>0, <1>3, MutexAssumption DEF LockWait, Runs, IInv, CallInv
  <2>2. tstate[t] # "pending" /\ ~Contains(waitq, t) /\ tmo[t] = "inactive"
    BY <1>0, <2>1 DEF IInv, CallInv
  <2>3. PICK i \in 1..(Len(waitq) + 1) :
          /\ \A j \in 1..(i - 1) : prio[waitq[j]] <= prio[t]
          /\ i <= Len(waitq) => prio[t] < prio[waitq[i]]
          /\ waitq' = InsertAt(waitq, i, t)
    BY <1>3 DEF LockWait
  <2>4. /\ \A j \in 1..Len(waitq) : prio[waitq[j]] = Base[waitq[j]]
        /\ prio[t] = Base[t]
    <3>1. \A j \in 1..Len(waitq) : waitq[j] \in Threads /\ Contains(waitq, waitq[j])
      BY <1>0 DEF Contains
    <3>2. \A u \in Threads : tstate[u] = "pending" => u # owner
      BY DEF IInv, CallInv
    <3>3. t # owner
      BY <1>3 DEF LockWait
    <3> QED
      BY <1>0, <3>1, <3>2, <3>3 DEF IInv, PrioInv, PrioReverts
  <2>5. /\ \A j \in 1..(i - 1) : Base[waitq[j]] <= Base[t]
        /\ i <= Len(waitq) => Base[t] <= Base[waitq[i]]
    <3>1. \A j \in 1..(i - 1) : j \in 1..Len(waitq)
      BY <1>0
    <3>2. i <= Len(waitq) => i \in 1..Len(waitq) /\ waitq[i] \in Threads
      BY <1>0
    <3>3. \A j \in 1..(i - 1) : Base[waitq[j]] <= Base[t]
      BY <2>3, <2>4, <3>1
    <3>4. ASSUME i <= Len(waitq) PROVE Base[t] <= Base[waitq[i]]
      <4>1. Base[t] < Base[waitq[i]] /\ Base[t] \in Int /\ Base[waitq[i]] \in Int
        BY <1>0, <2>3, <2>4, <3>2, <3>4
      <4> QED
        BY <4>1
    <3> QED
      BY <3>3, <3>4
  <2>6. /\ InsertAt(waitq, i, t) \in Seq(Threads)
        /\ IsInjective(InsertAt(waitq, i, t))
        /\ \A u \in Threads : Contains(InsertAt(waitq, i, t), u) <=> (u = t \/ Contains(waitq, u))
    BY ONLY <1>0, <2>2, t \in Threads, i \in 1..(Len(waitq) + 1), InsertAtMembers, InsertAtEntries, Zenon
  <2>7. Ascending(InsertAt(waitq, i, t), Base)
    BY ONLY <1>0, <2>5, t \in Threads, i \in 1..(Len(waitq) + 1), InsertAtAscending
  <2>8. clock' = "idle" => expired' = << >>
    BY <1>0, <2>1
  <2>9. \A u \in Threads : tmo'[u] = "expired" <=> Contains(expired', u)
    BY <1>0, <2>1, <2>2
  <2> QED
    BY <1>0, <2>1, <2>2, <2>3, <2>6, <2>7, <2>8, <2>9 DEF QueuesInv
<1>4. ASSUME NEW t \in Threads, Unlock(t)
      PROVE  QueuesInv'
  <2>1. CASE Release
    BY <1>1, <1>4, <2>1 DEF Unlock, Release
  <2>2. CASE HandOver
    <3> DEFINE h == Head(waitq)
    <3>1. /\ h \in Threads /\ Contains(waitq, h)
          /\ Tail(waitq) \in Seq(Threads) /\ IsInjective(Tail(waitq))
          /\ \A u \in Threads : Contains(Tail(waitq), u) <=> (u # h /\ Contains(waitq, u))
      BY ONLY <1>0, <2>2, TailMembers DEF HandOver
    <3>2. Ascending(Tail(waitq), Base)
      BY ONLY <1>0, <2>2, TailAscending DEF HandOver
    <3>3. /\ waitq' = Tail(waitq) /\ expired' = expired /\ clock' = clock /\ clock = "idle"
          /\ tstate' = [tstate EXCEPT ![h] = "ready"]
          /\ tmo' = [tmo EXCEPT ![h] = "inactive"]
      BY <1>4, <2>2 DEF Unlock, HandOver, Runs
    <3> HIDE DEF h
    <3>4. ~Contains(expired, h)
      BY <1>0, <3>3 DEF Contains
    <3>5. /\ tstate' \in [Threads -> {"ready", "pending", "away"}]
          /\ tmo' \in [Threads -> {"inactive", "armed", "expired"}]
          /\ \A u \in Threads : tstate'[u] = IF u = h THEN "ready" ELSE tstate[u]
          /\ \A u \in Threads : tmo'[u] = IF u = h THEN "inactive" ELSE tmo[u]
      BY <1>0, <3>1, <3>3
    <3> QED
      BY <1>0, <3>1, <3>2, <3>3, <3>4, <3>5 DEF QueuesInv
  <2> QED
    BY <1>4, <2>1, <2>2 DEF Unlock
<1>5. ASSUME NEW t \in Threads, TickCollect(t)
      PROVE  QueuesInv'
  <2>1. /\ \A u \in Threads : tmo'[u] = IF u = t THEN "expired" ELSE tmo[u]
        /\ tmo' \in [Threads -> {"inactive", "armed", "expired"}]
        /\ waitq' = waitq /\ tstate' = tstate /\ clock' = "collect" /\ tmo[t] = "armed"
        /\ expired' = <<t>> \o expired
    BY <1>0, <1>5 DEF TickCollect
  <2>2. ~Contains(expired, t)
    BY <1>0, <2>1
  <2>3. /\ <<t>> \o expired \in Seq(Threads)
        /\ IsInjective(<<t>> \o expired)
        /\ \A u \in Threads : Contains(<<t>> \o expired, u) <=> (u = t \/ Contains(expired, u))
    BY ONLY <1>0, <2>2, t \in Threads, PrependMembers
  <2> QED
    BY <1>0, <2>1, <2>3 DEF QueuesInv
<1>6. ASSUME TickHandle
      PROVE  QueuesInv'
  <2> DEFINE h == Head(expired)
  <2>1. /\ h \in Threads /\ Contains(expired, h)
        /\ Tail(expired) \in Seq(Threads) /\ IsInjective(Tail(expired))
        /\ \A u \in Threads : Contains(Tail(expired), u) <=> (u # h /\ Contains(expired, u))
    BY ONLY <1>0, <1>6, TailMembers DEF TickHandle
  <2>2. /\ expired' = Tail(expired) /\ clock' = "handle"
        /\ tstate' = [tstate EXCEPT ![h] = "ready"]
        /\ tmo' = [tmo EXCEPT ![h] = "inactive"]
        /\ \E i \in DOMAIN waitq : waitq[i] = h /\ waitq' = RemoveAt(waitq, i)
    BY <1>6 DEF TickHandle
  <2> HIDE DEF h
  <2>3. PICK i \in DOMAIN waitq : waitq[i] = h /\ waitq' = RemoveAt(waitq, i)
    BY <2>2
  <2>4. /\ waitq' \in Seq(Threads) /\ IsInjective(waitq') /\ Ascending(waitq', Base)
        /\ \A u \in Threads : Contains(waitq', u) <=> (u # h /\ Contains(waitq, u))
    BY <1>0, <2>3, UnpendQueue
  <2>5. /\ tstate' \in [Threads -> {"ready", "pending", "away"}]
        /\ tmo' \in [Threads -> {"inactive", "armed", "expired"}]
        /\ \A u \in Threads : tstate'[u] = IF u = h THEN "ready" ELSE tstate[u]
        /\ \A u \in Threads : tmo'[u] = IF u = h THEN "inactive" ELSE tmo[u]
    BY <1>0, <2>1, <2>2
  <2> QED
    BY <1>0, <2>1, <2>2, <2>4, <2>5 DEF QueuesInv
<1>7. ASSUME TickEnd
      PROVE  QueuesInv'
  BY <1>0, <1>7 DEF TickEnd, QueuesInv
<1>8. ASSUME NEW t \in Threads,
             Yield(t) \/ LockNow(t) \/ LockGot(t) \/ LockTimedOut(t) \/ LockAdjust(t) \/ UnlockNested(t)
      PROVE  QueuesInv'
  BY <1>1, <1>8 DEF Yield, LockNow, LockGot, LockTimedOut, LockAdjust, UnlockNested
<1> QED
  BY <1>2, <1>3, <1>4, <1>5, <1>6, <1>7, <1>8 DEF Next

-----------------------------------------------------------------------------
(* The calls *)

\* Whoever is dispatched is ready.
LEMMA DispatchReady ==
  ASSUME Dispatch
  PROVE  cur' \in Threads \cup {Null} /\ (cur' # Null => tstate'[cur'] = "ready")
BY DEF Dispatch, Top

\* Rescheduling leaves a ready thread running, and the same one if it holds
\* the scheduler lock.
LEMMA RescheduleReady ==
  ASSUME Reschedule, cur \in Threads \cup {Null}, cur # Null => tstate'[cur] = "ready"
  PROVE  /\ cur' \in Threads \cup {Null}
         /\ cur' # Null => tstate'[cur'] = "ready"
         /\ cur # Null /\ pc'[cur] # "out" => cur' = cur
BY DispatchReady DEF Reschedule, MustSwitch

\* Every step keeps track of who is where in its call.
LEMMA NextCalls ==
  ASSUME IInv, Next
  PROVE  CallInv'
<1>0. /\ owner \in Threads \cup {Null} /\ cur \in Threads \cup {Null}
      /\ lockCount \in 0..MaxDepth
      /\ pc \in [Threads -> {"out", "swap", "adjust"}]
      /\ ret \in [Threads -> {"OK", "EAGAIN"}]
      /\ depth \in [Threads -> 0..MaxDepth]
      /\ fault \in BOOLEAN
      /\ tstate \in [Threads -> {"ready", "pending", "away"}]
      /\ MaxDepth \in Nat \ {0} /\ Null \notin Threads
      /\ CallInv
  BY MutexAssumption DEF IInv, CallInv, QueuesInv
<1>1. ASSUME UNCHANGED <<mutexVars, callVars, waitq>>,
             tstate' \in [Threads -> {"ready", "pending", "away"}],
             \A u \in Threads : tstate'[u] = "pending" => tstate[u] = "pending",
             cur' \in Threads \cup {Null}, cur' # Null => tstate'[cur'] = "ready",
             \A u \in Threads : pc[u] = "adjust" => cur' = u
      PROVE  CallInv'
  BY <1>0, <1>1 DEF CallInv, mutexVars, callVars
<1>2. ASSUME NEW t \in Threads, Sleep(t) \/ Yield(t) \/ WakeUp(t)
      PROVE  CallInv'
  <2>1. UNCHANGED <<mutexVars, callVars, waitq>>
    BY <1>2 DEF Sleep, Yield, WakeUp
  <2>2. /\ tstate' \in [Threads -> {"ready", "pending", "away"}]
        /\ \A u \in Threads : tstate'[u] = "pending" => tstate[u] = "pending"
    BY <1>0, <1>2 DEF Sleep, Yield, WakeUp
  <2>3. CASE Sleep(t)
    <3>1. \A u \in Threads : pc[u] # "adjust"
      BY <1>0, <2>3 DEF CallInv, Sleep, Runs
    <3>2. Dispatch
      BY <2>3 DEF Sleep
    <3> QED
      BY <1>1, <2>1, <2>2, <3>1, <3>2, DispatchReady
  <2>4. CASE Yield(t)
    <3>1. \A u \in Threads : pc[u] # "adjust"
      BY <1>0, <2>4 DEF CallInv, Yield, Runs
    <3>2. cur' \in Threads /\ tstate'[cur'] = "ready"
      BY <2>4 DEF Yield, Top
    <3> QED
      BY <1>1, <2>1, <2>2, <3>1, <3>2
  <2>5. CASE WakeUp(t)
    <3>1. tstate' = [tstate EXCEPT ![t] = "ready"] /\ pc' = pc
      BY <2>5 DEF WakeUp, callVars
    <3>2. cur # Null => tstate'[cur] = "ready"
      BY <1>0, <3>1 DEF CallInv
    <3>3. /\ cur' \in Threads \cup {Null}
          /\ cur' # Null => tstate'[cur'] = "ready"
          /\ cur # Null /\ pc'[cur] # "out" => cur' = cur
      <4>1. CASE clock = "idle"
        BY <1>0, <2>5, <3>2, <4>1, RescheduleReady DEF WakeUp
      <4>2. CASE clock # "idle"
        BY <1>0, <2>5, <3>2, <4>2 DEF WakeUp
      <4> QED
        BY <4>1, <4>2
    <3>4. \A u \in Threads : pc[u] = "adjust" => cur' = u
      BY <1>0, <3>1, <3>3 DEF CallInv
    <3> QED
      BY <1>1, <2>1, <2>2, <3>3, <3>4
  <2> QED
    BY <1>2, <2>3, <2>4, <2>5
<1>3. ASSUME NEW t \in Threads, cur = t, pc[t] # "adjust",
             Dispatch \/ (Reschedule /\ tstate'[t] = "ready")
      PROVE  /\ cur' \in Threads \cup {Null}
             /\ cur' # Null => tstate'[cur'] = "ready"
             /\ \A u \in Threads : pc[u] # "adjust"
  <2>1. \A u \in Threads : pc[u] # "adjust"
    BY <1>0, <1>3 DEF CallInv
  <2> QED
    BY <1>0, <1>3, <2>1, DispatchReady, RescheduleReady
<1>4. ASSUME NEW t \in Threads, LockNow(t)
      PROVE  CallInv'
  <2>1. /\ cur = t /\ pc[t] = "out" /\ lockCount < MaxDepth
        /\ lockCount' = lockCount + 1 /\ owner' = t
        /\ \A u \in Threads : depth'[u] = IF u = t THEN depth[t] + 1 ELSE depth[u]
        /\ UNCHANGED <<waitq, tstate, pc, ret, fault>> /\ Reschedule
        /\ lockCount = 0 \/ owner = t
        /\ DOMAIN depth' = Threads /\ depth' = [u \in Threads |-> depth'[u]]
    BY <1>0, <1>4 DEF LockNow, Runs
  <2>2. owner \in {t, Null} /\ depth[t] = lockCount
    BY <1>0, <2>1 DEF CallInv
  <2>3. /\ cur' \in Threads \cup {Null}
        /\ cur' # Null => tstate'[cur'] = "ready"
        /\ \A u \in Threads : pc[u] # "adjust"
    BY <1>0, <1>3, <2>1 DEF CallInv
  <2>4. \A u \in Threads : depth'[u] \in 0..MaxDepth
    BY <1>0, <2>1, <2>2
  <2>5. depth' \in [Threads -> 0..MaxDepth] /\ lockCount' \in 0..MaxDepth /\ lockCount' > 0
    BY <1>0, <2>1, <2>4
  <2> QED
    BY <1>0, <2>1, <2>2, <2>3, <2>5 DEF CallInv
<1>5. ASSUME NEW t \in Threads, NEW timed \in BOOLEAN, LockWait(t, timed)
      PROVE  CallInv'
  <2>1. /\ cur = t /\ pc[t] = "out" /\ lockCount > 0 /\ owner # t
        /\ \A u \in Threads : pc'[u] = IF u = t THEN "swap" ELSE pc[u]
        /\ \A u \in Threads : ret'[u] = IF u = t THEN "EAGAIN" ELSE ret[u]
        /\ \A u \in Threads : tstate'[u] = IF u = t THEN "pending" ELSE tstate[u]
        /\ pc' \in [Threads -> {"out", "swap", "adjust"}]
        /\ ret' \in [Threads -> {"OK", "EAGAIN"}]
        /\ UNCHANGED <<mutexVars, depth, fault>> /\ Dispatch
    BY <1>0, <1>5 DEF LockWait, Runs
  <2>2. owner # Null
    BY <1>0, <2>1 DEF CallInv
  <2>3. /\ cur' \in Threads \cup {Null}
        /\ cur' # Null => tstate'[cur'] = "ready"
        /\ \A u \in Threads : pc[u] # "adjust"
    BY <1>3, <2>1
  <2> QED
    BY <1>0, <2>1, <2>2, <2>3 DEF CallInv, mutexVars
<1>6. ASSUME NEW t \in Threads, LockGot(t)
      PROVE  CallInv'
  <2>1. /\ cur = t /\ pc[t] = "swap" /\ ret[t] = "OK"
        /\ \A u \in Threads : pc'[u] = IF u = t THEN "out" ELSE pc[u]
        /\ \A u \in Threads : depth'[u] = IF u = t THEN depth[t] + 1 ELSE depth[u]
        /\ pc' \in [Threads -> {"out", "swap", "adjust"}]
        /\ depth' = [u \in Threads |-> depth'[u]]
        /\ UNCHANGED <<mutexVars, waitq, tstate, ret, fault>> /\ Reschedule
    BY <1>0, <1>6 DEF LockGot, Runs
  <2>2. owner = t /\ depth[t] = 0 /\ lockCount = 1
    BY <1>0, <2>1 DEF CallInv
  <2>3. /\ cur' \in Threads \cup {Null}
        /\ cur' # Null => tstate'[cur'] = "ready"
        /\ \A u \in Threads : pc[u] # "adjust"
    BY <1>0, <1>3, <2>1 DEF CallInv
  <2>4. \A u \in Threads : depth'[u] \in 0..MaxDepth
    BY <1>0, <2>1, <2>2
  <2>5. depth' \in [Threads -> 0..MaxDepth] /\ depth'[t] = 1
    BY <1>0, <2>1, <2>2, <2>4
  <2>6. tstate[t] # "pending"
    BY <1>0, <2>1 DEF CallInv
  <2> QED
    BY <1>0, <2>1, <2>2, <2>3, <2>5, <2>6 DEF CallInv, mutexVars
<1>7. ASSUME NEW t \in Threads, LockTimedOut(t)
      PROVE  CallInv'
  <2>1. /\ cur = t /\ pc[t] = "swap" /\ ret[t] = "EAGAIN"
        /\ \A u \in Threads : pc'[u] = IF u = t THEN "adjust" ELSE pc[u]
        /\ pc' \in [Threads -> {"out", "swap", "adjust"}]
        /\ UNCHANGED <<mutexVars, waitq, tstate, cur, ret, depth, fault>>
    BY <1>0, <1>7 DEF LockTimedOut, Runs
  <2>2. tstate[t] # "pending" /\ owner # t
    BY <1>0, <2>1 DEF CallInv
  <2> QED
    BY <1>0, <2>1, <2>2 DEF CallInv, mutexVars
<1>8. ASSUME NEW t \in Threads, LockAdjust(t)
      PROVE  CallInv'
  <2>1. /\ cur = t /\ pc[t] = "adjust"
        /\ \A u \in Threads : pc'[u] = IF u = t THEN "out" ELSE pc[u]
        /\ pc' \in [Threads -> {"out", "swap", "adjust"}]
        /\ fault' \in BOOLEAN
        /\ UNCHANGED <<mutexVars, waitq, tstate, ret, depth>> /\ Reschedule
    BY <1>0, <1>8 DEF LockAdjust, Runs
  <2>2. tstate[t] = "ready" /\ owner # t /\ \A u \in Threads : pc'[u] # "adjust"
    BY <1>0, <2>1 DEF CallInv
  <2>3. /\ cur' \in Threads \cup {Null}
        /\ cur' # Null => tstate'[cur'] = "ready"
    BY <1>0, <2>1, <2>2, RescheduleReady
  <2> QED
    BY <1>0, <2>1, <2>2, <2>3 DEF CallInv, mutexVars
<1>9. ASSUME NEW t \in Threads, UnlockNested(t)
      PROVE  CallInv'
  <2>1. /\ cur = t /\ pc[t] = "out" /\ owner = t /\ lockCount > 1
        /\ lockCount' = lockCount - 1
        /\ \A u \in Threads : depth'[u] = IF u = t THEN depth[t] - 1 ELSE depth[u]
        /\ depth' = [u \in Threads |-> depth'[u]]
        /\ UNCHANGED <<owner, waitq, tstate, pc, ret, fault>> /\ Reschedule
    BY <1>0, <1>9 DEF UnlockNested, Runs
  <2>2. depth[t] = lockCount
    BY <1>0, <2>1 DEF CallInv
  <2>3. /\ cur' \in Threads \cup {Null}
        /\ cur' # Null => tstate'[cur'] = "ready"
        /\ \A u \in Threads : pc[u] # "adjust"
    BY <1>0, <1>3, <2>1 DEF CallInv
  <2>4. \A u \in Threads : depth'[u] \in 0..MaxDepth
    BY <1>0, <2>1, <2>2
  <2>5. depth' \in [Threads -> 0..MaxDepth] /\ lockCount' \in 0..MaxDepth /\ lockCount' > 0
    BY <1>0, <2>1, <2>4
  <2> QED
    BY <1>0, <2>1, <2>2, <2>3, <2>5 DEF CallInv
<1>10. ASSUME NEW t \in Threads, Unlock(t)
       PROVE  CallInv'
  <2>1. /\ cur = t /\ pc[t] = "out" /\ owner = t /\ lockCount = 1
        /\ \A u \in Threads : depth'[u] = IF u = t THEN depth[t] - 1 ELSE depth[u]
        /\ depth' = [u \in Threads |-> depth'[u]]
        /\ UNCHANGED <<pc, fault>> /\ Reschedule
    BY <1>0, <1>10 DEF Unlock, Runs
  <2>2. depth[t] = 1 /\ tstate[t] = "ready"
    BY <1>0, <2>1 DEF CallInv
  <2>3. \A u \in Threads : depth'[u] = 0
    BY <1>0, <2>1, <2>2 DEF CallInv
  <2>4. depth' \in [Threads -> 0..MaxDepth]
    BY <1>0, <2>1, <2>3
  <2>5. CASE Release
    <3>1. /\ waitq' = << >> /\ owner' = Null /\ lockCount' = 0 /\ tstate' = tstate /\ ret' = ret
      BY <2>5 DEF Release
    <3>2. /\ cur' \in Threads \cup {Null}
          /\ cur' # Null => tstate'[cur'] = "ready"
          /\ \A u \in Threads : pc[u] # "adjust"
      BY <1>3, <2>1, <2>2, <3>1
    <3> QED
      BY <1>0, <2>1, <2>3, <2>4, <3>1, <3>2 DEF CallInv
  <2>6. CASE HandOver
    <3> DEFINE h == Head(waitq)
    <3>1. h \in Threads /\ Contains(waitq, h)
      <4>1. waitq \in Seq(Threads) /\ IsInjective(waitq) /\ waitq # << >>
        BY <2>6 DEF IInv, QueuesInv, HandOver
      <4> QED
        BY ONLY <4>1, TailMembers
    <3>2. /\ owner' = h /\ lockCount' = 1
          /\ tstate' = [tstate EXCEPT ![h] = "ready"] /\ ret' = [ret EXCEPT ![h] = "OK"]
      BY <2>6 DEF HandOver
    <3> HIDE DEF h
    <3>3. tstate[h] = "pending"
      BY <3>1 DEF IInv, QueuesInv
    <3>4. pc[h] = "swap" /\ h # t
      BY <1>0, <2>1, <3>1, <3>3 DEF CallInv
    <3>5. /\ \A u \in Threads : ret'[u] = IF u = h THEN "OK" ELSE ret[u]
          /\ \A u \in Threads : tstate'[u] = IF u = h THEN "ready" ELSE tstate[u]
          /\ ret' \in [Threads -> {"OK", "EAGAIN"}]
      BY <1>0, <3>1, <3>2
    <3>6. /\ cur' \in Threads \cup {Null}
          /\ cur' # Null => tstate'[cur'] = "ready"
          /\ \A u \in Threads : pc[u] # "adjust"
      BY <1>3, <2>1, <2>2, <3>5
    <3> QED
      BY <1>0, <2>1, <2>3, <2>4, <3>1, <3>2, <3>3, <3>4, <3>5, <3>6 DEF CallInv
  <2> QED
    BY <1>10, <2>5, <2>6 DEF Unlock
<1>11. ASSUME NEW t \in Threads, TickCollect(t)
       PROVE  CallInv'
  BY <1>0, <1>11 DEF CallInv, TickCollect, mutexVars, callVars
<1>12. ASSUME TickHandle
       PROVE  CallInv'
  <2> DEFINE h == Head(expired)
  <2>1. h \in Threads /\ Contains(expired, h)
    <3>1. expired \in Seq(Threads) /\ IsInjective(expired) /\ expired # << >>
      BY <1>12 DEF IInv, QueuesInv, TickHandle
    <3> QED
      BY ONLY <3>1, TailMembers
  <2>2. /\ UNCHANGED <<mutexVars, callVars, cur>>
        /\ tstate' = [tstate EXCEPT ![h] = "ready"]
        /\ waitq # << >>
    BY <1>12 DEF TickHandle
  <2> HIDE DEF h
  <2>3. \A u \in Threads : tstate'[u] = IF u = h THEN "ready" ELSE tstate[u]
    BY <1>0, <2>1, <2>2
  <2> QED
    BY <1>0, <2>1, <2>2, <2>3 DEF CallInv, mutexVars, callVars
<1>13. ASSUME TickEnd
       PROVE  CallInv'
  <2>1. UNCHANGED <<mutexVars, callVars, waitq, tstate>> /\ Reschedule
    BY <1>13 DEF TickEnd
  <2>2. /\ cur' \in Threads \cup {Null}
        /\ cur' # Null => tstate'[cur'] = "ready"
        /\ cur # Null /\ pc'[cur] # "out" => cur' = cur
    BY <1>0, <2>1, RescheduleReady DEF CallInv
  <2>3. \A u \in Threads : pc[u] = "adjust" => cur' = u
    BY <1>0, <2>1, <2>2 DEF CallInv, callVars
  <2> QED
    BY <1>0, <1>1, <2>1, <2>2, <2>3
<1> QED
  BY <1>2, <1>4, <1>5, <1>6, <1>7, <1>8, <1>9, <1>10, <1>11, <1>12, <1>13 DEF Next

-----------------------------------------------------------------------------
(* The priorities *)

\* new_prio_for_inheritance(): a raised priority is one the waiter asks for, and
\* never higher than the waiter's own.
LEMMA InheritanceIs ==
  ASSUME NEW a \in Int, NEW b \in Int
  PROVE  /\ NewPrioForInheritance(a, b) \in Int
         /\ NewPrioForInheritance(a, b) < b => a <= NewPrioForInheritance(a, b)
         /\ NewPrioForInheritance(a, b) <= IF a >= Ceiling THEN a ELSE Ceiling
<1> DEFINE m == Min({a, b})
<1>1. m = (IF a <= b THEN a ELSE b) /\ m \in Int
  BY TwoNumbers
<1> HIDE DEF m
<1>2. Ceiling \in Int
  BY MutexAssumption
<1>3. Max({m, Ceiling}) = IF m >= Ceiling THEN m ELSE Ceiling
  BY <1>1, <1>2, TwoNumbers
<1>4. NewPrioForInheritance(a, b) = Max({m, Ceiling})
  BY DEF NewPrioForInheritance, m
<1> QED
  BY <1>1, <1>2, <1>3, <1>4

\* Every step keeps the priorities justified.
LEMMA NextPrio ==
  ASSUME IInv, Next
  PROVE  PrioInv'
<1>0. /\ prio \in [Threads -> Int] /\ newPrio \in [Threads -> Int] /\ origPrio \in Int
      /\ \A u \in Threads : owner # u => prio[u] = Base[u]
      /\ owner \in Threads \cup {Null}
      /\ pc \in [Threads -> {"out", "swap", "adjust"}]
      /\ ret \in [Threads -> {"OK", "EAGAIN"}]
      /\ tstate \in [Threads -> {"ready", "pending", "away"}]
      /\ Base \in [Threads -> Int] /\ Ceiling \in Int /\ Null \notin Threads
      /\ \A u \in Threads : Limit(u) \in Int
      /\ PrioInv
  BY MutexAssumption DEF IInv, PrioInv, PrioReverts, CallInv, QueuesInv, Limit
<1>1. ASSUME UNCHANGED <<owner, origPrio, prio, newPrio, pc, ret>>,
             \A u \in Threads : tstate'[u] = "pending" => tstate[u] = "pending"
      PROVE  PrioInv'
  BY <1>0, <1>1 DEF PrioInv, PrioReverts, Asks, Limit
<1>2. ASSUME NEW t \in Threads, Sleep(t) \/ Yield(t) \/ WakeUp(t) \/ UnlockNested(t) \/ TickCollect(t)
      PROVE  PrioInv'
  <2>1. UNCHANGED <<owner, origPrio, prio, newPrio, pc, ret>>
    BY <1>2 DEF Sleep, Yield, WakeUp, UnlockNested, TickCollect, mutexVars, callVars
  <2>2. \A u \in Threads : tstate'[u] = "pending" => tstate[u] = "pending"
    BY <1>0, <1>2 DEF Sleep, Yield, WakeUp, UnlockNested, TickCollect
  <2> QED
    BY <1>1, <2>1, <2>2
<1>3. ASSUME TickHandle \/ TickEnd
      PROVE  PrioInv'
  <2>1. UNCHANGED <<owner, origPrio, prio, newPrio, pc, ret>>
    BY <1>3 DEF TickHandle, TickEnd, mutexVars, callVars
  <2>2. \A u \in Threads : tstate'[u] = "pending" => tstate[u] = "pending"
    BY <1>0, <1>3 DEF TickHandle, TickEnd
  <2> QED
    BY <1>1, <2>1, <2>2
<1>4. ASSUME NEW t \in Threads, LockNow(t)
      PROVE  PrioInv'
  <2>1. /\ cur = t /\ pc[t] = "out" /\ owner' = t /\ (lockCount = 0 \/ owner = t)
        /\ origPrio' = IF lockCount = 0 THEN prio[t] ELSE origPrio
        /\ UNCHANGED <<prio, newPrio, pc, ret, tstate, waitq>>
    BY <1>4 DEF LockNow, Runs
  <2>2. \A u \in Threads : pc[u] # "adjust"
    BY <2>1 DEF IInv, CallInv
  <2>3. CASE owner = t
    <3>1. origPrio' = origPrio /\ owner' = owner
      BY <1>4, <2>1, <2>3 DEF IInv, CallInv, LockNow
    <3> QED
      BY <1>1, <2>1, <3>1
  <2>4. CASE owner # t
    <3>1. owner = Null /\ origPrio' = prio[t]
      <4>1. lockCount = 0
        BY <1>4, <2>4 DEF LockNow
      <4>2. \A u \in Threads : owner = u => lockCount > 0
        BY DEF IInv, CallInv
      <4> QED
        BY <1>0, <2>1, <4>1, <4>2
    <3>2. \A u \in Threads : prio[u] = Base[u] /\ tstate[u] # "pending"
      <4>1. waitq = << >>
        BY <3>1 DEF IInv, CallInv
      <4> QED
        BY <1>0, <3>1, <4>1 DEF IInv, QueuesInv, Contains
    <3> QED
      BY <1>0, <2>1, <2>2, <3>1, <3>2 DEF PrioInv, PrioReverts
  <2> QED
    BY <2>3, <2>4
<1>5. ASSUME NEW t \in Threads, NEW timed \in BOOLEAN, LockWait(t, timed)
      PROVE  PrioInv'
  <2> DEFINE p == NewPrioForInheritance(prio[t], prio[owner])
  <2>1. /\ cur = t /\ pc[t] = "out" /\ owner # t /\ owner \in Threads
    BY <1>0, <1>5 DEF LockWait, Runs, IInv, CallInv
  <2>2. /\ prio' = IF p < prio[owner] THEN [prio EXCEPT ![owner] = p] ELSE prio
        /\ pc' = [pc EXCEPT ![t] = "swap"]
        /\ ret' = [ret EXCEPT ![t] = "EAGAIN"]
        /\ tstate' = [tstate EXCEPT ![t] = "pending"]
        /\ UNCHANGED <<owner, origPrio, newPrio>>
    BY <1>5 DEF LockWait, mutexVars
  <2>3. prio[t] = Base[t] /\ prio[owner] \in Int /\ Base[t] \in Int
    BY <1>0, <2>1
  <2>4. p \in Int /\ (p < prio[owner] => Base[t] <= p) /\ p <= Limit(t)
    BY <2>3, InheritanceIs DEF Limit
  <2> HIDE DEF p
  <2>5. /\ \A u \in Threads : pc[u] # "adjust"
        /\ \A u \in Threads : pc'[u] = IF u = t THEN "swap" ELSE pc[u]
        /\ \A u \in Threads : ret'[u] = IF u = t THEN "EAGAIN" ELSE ret[u]
        /\ \A u \in Threads : tstate'[u] = IF u = t THEN "pending" ELSE tstate[u]
    BY <1>0, <2>1, <2>2 DEF IInv, CallInv
  <2>6. /\ prio' \in [Threads -> Int]
        /\ \A u \in Threads : u # owner => prio'[u] = prio[u]
        /\ prio'[owner] = IF p < prio[owner] THEN p ELSE prio[owner]
    BY <1>0, <2>1, <2>2, <2>4
  <2>7. PrioReverts'
    BY <1>0, <2>2, <2>6 DEF PrioReverts
  <2>8. ASSUME NEW u \in Threads, prio'[u] < Base[u]
        PROVE  \E w \in Threads \ {u} : Asks(w)' /\ Base[w] <= prio'[u]
    <3>1. u = owner
      BY <1>0, <2>6, <2>8
    <3>2. CASE p < prio[owner]
      BY <2>1, <2>4, <2>5, <2>6, <3>1, <3>2 DEF Asks
    <3>3. CASE ~(p < prio[owner])
      <4>1. PICK w \in Threads \ {u} : Asks(w) /\ Base[w] <= prio[u]
        BY <1>0, <2>6, <2>8, <3>1, <3>3 DEF PrioInv
      <4>2. Asks(w)'
        BY <2>1, <2>5, <4>1 DEF Asks
      <4> QED
        BY <2>6, <3>1, <3>3, <4>1, <4>2
    <3> QED
      BY <3>2, <3>3
  <2>9. \A w \in Threads : tstate'[w] = "pending" => prio'[owner] <= Limit(w)
    <3> SUFFICES ASSUME NEW w \in Threads, tstate'[w] = "pending" PROVE prio'[owner] <= Limit(w)
      OBVIOUS
    <3>1. CASE w = t
      BY <1>0, <2>3, <2>4, <2>6, <3>1
    <3>2. CASE w # t
      <4>1. prio[owner] <= Limit(w)
        BY <1>0, <2>5, <3>2 DEF PrioInv
      <4> QED
        BY <1>0, <2>3, <2>4, <2>6, <4>1
    <3> QED
      BY <3>1, <3>2
  <2>10. \A u \in Threads : pc'[u] # "adjust"
    BY <2>5
  <2> QED
    BY <1>0, <2>2, <2>6, <2>7, <2>8, <2>9, <2>10 DEF PrioInv, Limit
<1>6. ASSUME NEW t \in Threads, LockGot(t)
      PROVE  PrioInv'
  <2>1. /\ cur = t /\ pc[t] = "swap" /\ ret[t] = "OK"
        /\ \A u \in Threads : pc'[u] = IF u = t THEN "out" ELSE pc[u]
        /\ UNCHANGED <<owner, origPrio, prio, newPrio, ret, tstate>>
    BY <1>0, <1>6 DEF LockGot, Runs, mutexVars
  <2>2. \A u \in Threads : Asks(u)' <=> Asks(u)
    BY <1>0, <2>1 DEF Asks
  <2>3. \A u \in Threads : pc'[u] # "adjust"
    BY <2>1 DEF IInv, CallInv
  <2> QED
    BY <1>0, <2>1, <2>2, <2>3 DEF PrioInv, PrioReverts, Limit
<1>7. ASSUME NEW t \in Threads, LockTimedOut(t)
      PROVE  PrioInv'
  <2>1. /\ cur = t /\ pc[t] = "swap" /\ ret[t] = "EAGAIN"
        /\ \A u \in Threads : pc'[u] = IF u = t THEN "adjust" ELSE pc[u]
        /\ UNCHANGED <<owner, origPrio, prio, ret, tstate, waitq>>
        /\ newPrio' = [newPrio EXCEPT ![t] =
             IF waitq = << >> THEN origPrio
                              ELSE NewPrioForInheritance(prio[Head(waitq)], origPrio)]
    BY <1>0, <1>7 DEF LockTimedOut, Runs, mutexVars
  <2>2. \A u \in Threads : Asks(u)' <=> Asks(u)
    BY <1>0, <2>1 DEF Asks
  <2>3. \A u \in Threads : pc'[u] = "adjust" => u = t
    BY <2>1 DEF IInv, CallInv
  <2>4. tstate[t] = "ready" /\ owner # t
    BY <1>0, <2>1 DEF IInv, CallInv
  <2>5. CASE waitq = << >>
    <3>1. newPrio'[t] = origPrio /\ newPrio' \in [Threads -> Int]
      BY <1>0, <2>1, <2>5
    <3>2. \A u \in Threads : tstate[u] # "pending"
      BY <2>5 DEF IInv, QueuesInv, Contains
    <3>3. owner # Null => newPrio'[t] = Base[owner]
      BY <1>0, <3>1 DEF PrioInv
    <3>4. ~(owner # Null /\ newPrio'[t] < Base[owner])
      BY <1>0, <3>3
    <3> QED
      BY <1>0, <2>1, <2>2, <2>3, <3>1, <3>2, <3>4 DEF PrioInv, PrioReverts, Limit
  <2>6. CASE waitq # << >>
    <3> DEFINE h == Head(waitq)
               p == NewPrioForInheritance(prio[h], origPrio)
    <3>1. waitq \in Seq(Threads) /\ IsInjective(waitq) /\ Ascending(waitq, Base)
      BY DEF IInv, QueuesInv
    <3>2. h \in Threads /\ Contains(waitq, h)
      BY ONLY <2>6, <3>1, TailMembers
    <3>3. \A u \in Threads : Contains(waitq, u) => Base[h] <= Base[u]
      BY ONLY <1>0, <2>6, <3>1, TailAscending
    <3> HIDE DEF h
    <3>4. /\ tstate[h] = "pending" /\ h # owner /\ h # t /\ Asks(h)
          /\ prio[h] = Base[h] /\ owner # Null /\ origPrio = Base[owner]
      <4>1. tstate[h] = "pending"
        BY <3>2 DEF IInv, QueuesInv
      <4>2. pc[h] = "swap" /\ ret[h] = "EAGAIN" /\ h # owner /\ owner # Null
        BY <2>6, <3>2, <4>1 DEF IInv, CallInv
      <4> QED
        BY <1>0, <2>4, <3>2, <4>1, <4>2 DEF PrioInv, Asks
    <3>5. /\ p \in Int
          /\ p < Base[owner] => Base[h] <= p
          /\ p <= Limit(h)
      <4>1. prio[h] = Base[h] /\ prio[h] \in Int /\ origPrio \in Int /\ origPrio = Base[owner]
        BY <1>0, <3>2, <3>4
      <4> QED
        BY ONLY <4>1, InheritanceIs DEF Limit
    <3>6. newPrio'[t] = p /\ newPrio' \in [Threads -> Int]
      BY <1>0, <2>1, <2>6, <3>5 DEF h
    <3> HIDE DEF p
    <3>7. \A w \in Threads : tstate[w] = "pending" => p <= Limit(w)
      <4> SUFFICES ASSUME NEW w \in Threads, tstate[w] = "pending" PROVE p <= Limit(w)
        OBVIOUS
      <4>1. Base[h] <= Base[w]
        BY <3>3 DEF IInv, QueuesInv
      <4> QED
        BY <1>0, <3>2, <3>5, <4>1 DEF Limit
    <3>8. p < Base[owner] => \E w \in Threads \ {owner, t} : Asks(w)' /\ Base[w] <= p
      BY <2>2, <3>2, <3>4, <3>5
    <3> QED
      BY <1>0, <2>1, <2>2, <2>3, <3>6, <3>7, <3>8 DEF PrioInv, PrioReverts, Limit
  <2> QED
    BY <2>5, <2>6
<1>8. ASSUME NEW t \in Threads, LockAdjust(t)
      PROVE  PrioInv'
  <2>1. /\ cur = t /\ pc[t] = "adjust"
        /\ \A u \in Threads : pc'[u] = IF u = t THEN "out" ELSE pc[u]
        /\ prio' = IF owner = Null THEN prio ELSE [prio EXCEPT ![owner] = newPrio[t]]
        /\ UNCHANGED <<owner, origPrio, newPrio, ret, tstate>>
    BY <1>0, <1>8 DEF LockAdjust, Runs, mutexVars
  <2>2. \A u \in Threads \ {t} : Asks(u)' <=> Asks(u)
    BY <1>0, <2>1 DEF Asks
  <2>3. \A u \in Threads : pc'[u] # "adjust"
    BY <2>1 DEF IInv, CallInv
  <2>4. CASE owner = Null
    <3>1. \A u \in Threads : prio'[u] = Base[u] /\ tstate[u] # "pending"
      <4>1. waitq = << >>
        BY <2>4 DEF IInv, CallInv
      <4> QED
        BY <1>0, <2>1, <2>4, <4>1 DEF IInv, QueuesInv, Contains
    <3> QED
      BY <1>0, <2>1, <2>3, <2>4, <3>1 DEF PrioInv, PrioReverts
  <2>5. CASE owner # Null
    <3>1. /\ owner \in Threads /\ prio' \in [Threads -> Int]
          /\ \A u \in Threads : prio'[u] = IF u = owner THEN newPrio[t] ELSE prio[u]
      BY <1>0, <2>1, <2>5
    <3>2. PrioReverts'
      BY <1>0, <2>1, <3>1 DEF PrioReverts
    <3>3. ASSUME NEW u \in Threads, prio'[u] < Base[u]
          PROVE  \E w \in Threads \ {u} : Asks(w)' /\ Base[w] <= prio'[u]
      <4>1. u = owner /\ prio'[u] = newPrio[t]
        BY <1>0, <3>1, <3>3
      <4>2. PICK w \in Threads \ {owner, t} : Asks(w) /\ Base[w] <= newPrio[t]
        BY <1>0, <2>1, <2>5, <3>3, <4>1 DEF PrioInv
      <4> QED
        BY <2>2, <4>1, <4>2
    <3>4. \A w \in Threads : tstate'[w] = "pending" => prio'[owner] <= Limit(w)
      BY <1>0, <2>1, <3>1 DEF PrioInv
    <3> QED
      BY <1>0, <2>1, <2>3, <3>1, <3>2, <3>3, <3>4 DEF PrioInv, Limit
  <2> QED
    BY <2>4, <2>5
<1>9. ASSUME NEW t \in Threads, Unlock(t)
      PROVE  PrioInv'
  <2>1. /\ cur = t /\ pc[t] = "out" /\ owner = t
        /\ prio' = [prio EXCEPT ![t] = origPrio]
        /\ UNCHANGED <<newPrio, pc>>
    BY <1>9 DEF Unlock, Runs, RestoredPrio
  <2>2. /\ prio' \in [Threads -> Int]
        /\ \A u \in Threads : prio'[u] = Base[u]
    <3>1. origPrio = Base[t]
      BY <1>0, <2>1 DEF PrioInv
    <3> QED
      BY <1>0, <2>1, <3>1
  <2>3. \A u \in Threads : pc'[u] # "adjust"
    BY <2>1 DEF IInv, CallInv
  <2>4. \A u \in Threads : ~(prio'[u] < Base[u])
    BY <1>0, <2>2
  <2>5. CASE Release
    <3>1. \A u \in Threads : tstate'[u] # "pending"
      BY <2>5 DEF Release, IInv, QueuesInv, Contains
    <3>2. owner' = Null /\ origPrio' = origPrio
      BY <2>5 DEF Release
    <3> QED
      BY <1>0, <2>1, <2>2, <2>3, <2>4, <3>1, <3>2 DEF PrioInv, PrioReverts
  <2>6. CASE HandOver
    <3> DEFINE h == Head(waitq)
    <3>1. waitq \in Seq(Threads) /\ IsInjective(waitq) /\ Ascending(waitq, Base) /\ waitq # << >>
      BY <2>6 DEF IInv, QueuesInv, HandOver
    <3>2. h \in Threads /\ Contains(waitq, h)
      BY ONLY <3>1, TailMembers
    <3>3. \A u \in Threads : Contains(waitq, u) => Base[h] <= Base[u]
      BY ONLY <1>0, <3>1, TailAscending
    <3>4. /\ owner' = h /\ origPrio' = prio[h]
          /\ tstate' = [tstate EXCEPT ![h] = "ready"]
      BY <2>6 DEF HandOver
    <3> HIDE DEF h
    <3>5. tstate[h] = "pending"
      BY <3>2 DEF IInv, QueuesInv
    <3>6. prio[h] = Base[h] /\ origPrio' = Base[h] /\ Base[h] \in Int
      BY <1>0, <2>1, <3>2, <3>4, <3>5 DEF IInv, CallInv
    <3>7. \A w \in Threads : tstate'[w] = "pending" => prio'[h] <= Limit(w)
      <4> SUFFICES ASSUME NEW w \in Threads, tstate'[w] = "pending" PROVE prio'[h] <= Limit(w)
        OBVIOUS
      <4>1. tstate[w] = "pending"
        BY <1>0, <3>2, <3>4
      <4>2. Base[h] <= Base[w]
        BY <3>3, <4>1 DEF IInv, QueuesInv
      <4> QED
        BY <1>0, <2>2, <3>2, <4>2 DEF Limit
    <3> QED
      BY <1>0, <2>1, <2>2, <2>3, <2>4, <3>2, <3>4, <3>6, <3>7 DEF PrioInv, PrioReverts, Limit
  <2> QED
    BY <1>9, <2>5, <2>6 DEF Unlock
<1> QED
  BY <1>2, <1>3, <1>4, <1>5, <1>6, <1>7, <1>8, <1>9 DEF Next

-----------------------------------------------------------------------------
(* The scheduler.  That there is a highest priority among the ready threads *)
(* rests on the range of priorities being bounded: b is                     *)
(* K_HIGHEST_THREAD_PRIO.                                                   *)

\* No priority, raised or not, is above the range.
LEMMA PrioBounded ==
  ASSUME NEW b \in Int, \A t \in Threads : b <= Base[t]
  PROVE  PrioInv => \A t \in Threads : b <= prio[t]
<1> SUFFICES ASSUME PrioInv, NEW t \in Threads PROVE b <= prio[t]
  OBVIOUS
<1>1. Base \in [Threads -> Int] /\ prio \in [Threads -> Int]
  BY MutexAssumption DEF PrioInv
<1>2. CASE prio[t] < Base[t]
  <2>1. PICK w \in Threads \ {t} : Base[w] <= prio[t]
    BY <1>2 DEF PrioInv
  <2> QED
    BY <1>1, <2>1
<1>3. CASE ~(prio[t] < Base[t])
  BY <1>1, <1>3
<1> QED
  BY <1>2, <1>3

\* The same of the state after a step.
LEMMA PrioBoundedNext ==
  ASSUME NEW b \in Int, \A t \in Threads : b <= Base[t], PrioInv'
  PROVE  \A t \in Threads : b <= prio'[t]
<1>1. (PrioInv => \A t \in Threads : b <= prio[t])'
  BY PrioBounded, PTL
<1> QED
  BY <1>1

\* Some thread of the highest priority is ready, if any thread is.
LEMMA TopExists ==
  ASSUME NEW b \in Int, \A t \in Threads : b <= prio'[t],
         prio' \in [Threads -> Int], NEW u \in Threads, tstate'[u] = "ready"
  PROVE  \E m \in Top : prio'[m] <= prio'[u]
<1> DEFINE S == {x \in Int : \E t \in Threads : tstate'[t] = "ready" /\ prio'[t] = x}
<1>1. S \in SUBSET Int /\ prio'[u] \in S /\ \A x \in S : b <= x
  OBVIOUS
<1>2. \A t \in Threads : tstate'[t] = "ready" => prio'[t] \in S
  OBVIOUS
<1>3. \A x \in S : \E t \in Threads : tstate'[t] = "ready" /\ prio'[t] = x
  OBVIOUS
<1> HIDE DEF S
<1>4. PICK x \in S : \A y \in S : x <= y
  BY <1>1, LeastInteger
<1>5. PICK m \in Threads : tstate'[m] = "ready" /\ prio'[m] = x
  BY <1>3
<1>6. m \in Top
  BY <1>2, <1>4, <1>5 DEF Top
<1> QED
  BY <1>1, <1>4, <1>5, <1>6

\* Every step that leaves the processor to a preemptible thread leaves it to
\* one of the highest priority.
LEMMA NextSched ==
  ASSUME NEW b \in Int, \A t \in Threads : b <= Base[t], IInv, IInv', Next
  PROVE  SchedInv'
<1>0. /\ prio' \in [Threads -> Int] /\ \A t \in Threads : b <= prio'[t]
      /\ cur \in Threads \cup {Null} /\ Null \notin Threads
  BY PrioBoundedNext, MutexAssumption DEF IInv, PrioInv, CallInv
<1>1. Dispatch => SchedInv'
  BY <1>0 DEF Dispatch, Top, SchedInv
<1>2. ASSUME Reschedule PROVE SchedInv'
  <2>1. CASE MustSwitch
    BY <1>1, <1>2, <2>1 DEF Reschedule
  <2>2. CASE ~MustSwitch
    <3> SUFFICES ASSUME pc'[cur] = "out", prio'[cur] >= 0, NEW u \in Threads, tstate'[u] = "ready"
                 PROVE  prio'[cur] <= prio'[u]
      BY <1>2, <2>2 DEF Reschedule, SchedInv
    <3>1. cur \in Threads /\ \A m \in Top : ~(prio'[m] < prio'[cur])
      BY <1>0, <2>2 DEF MustSwitch
    <3>2. PICK m \in Top : prio'[m] <= prio'[u]
      BY <1>0, TopExists
    <3>3. m \in Threads
      BY <3>2 DEF Top
    <3> QED
      BY <1>0, <3>1, <3>2, <3>3
  <2> QED
    BY <2>1, <2>2
<1>3. ASSUME clock' # "idle" PROVE SchedInv'
  BY <1>3 DEF SchedInv
<1>4. ASSUME NEW t \in Threads, Sleep(t) \/ LockWait(t, TRUE) \/ LockWait(t, FALSE)
      PROVE  SchedInv'
  BY <1>1, <1>4 DEF Sleep, LockWait
<1>5. ASSUME NEW t \in Threads, Yield(t)
      PROVE  SchedInv'
  BY <1>0, <1>5 DEF Yield, Top, SchedInv
<1>6. ASSUME NEW t \in Threads, WakeUp(t)
      PROVE  SchedInv'
  BY <1>2, <1>3, <1>6 DEF WakeUp
<1>7. ASSUME NEW t \in Threads,
             LockNow(t) \/ LockGot(t) \/ LockAdjust(t) \/ UnlockNested(t) \/ Unlock(t)
      PROVE  SchedInv'
  BY <1>2, <1>7 DEF LockNow, LockGot, LockAdjust, UnlockNested, Unlock
<1>8. ASSUME NEW t \in Threads, LockTimedOut(t)
      PROVE  SchedInv'
  <2>1. cur' = t /\ pc'[t] = "adjust"
    BY <1>8 DEF LockTimedOut, Runs, IInv, CallInv
  <2> QED
    BY <2>1 DEF SchedInv
<1>9. ASSUME NEW t \in Threads, TickCollect(t)
      PROVE  SchedInv'
  BY <1>3, <1>9 DEF TickCollect
<1>10. TickHandle => SchedInv'
  BY <1>3 DEF TickHandle
<1>11. TickEnd => SchedInv'
  BY <1>2 DEF TickEnd
<1> QED
  BY <1>4, <1>5, <1>6, <1>7, <1>8, <1>9, <1>10, <1>11 DEF Next

-----------------------------------------------------------------------------
\* k_mutex_init() establishes the invariant.
LEMMA InitIInv == Init => IInv /\ SchedInv
<1> SUFFICES ASSUME Init PROVE IInv /\ SchedInv
  OBVIOUS
<1>1. QueuesInv
  BY EmptySeq DEF Init, QueuesInv, IsInjective, Contains, Ascending
<1>2. CallInv
  <2>1. /\ owner = Null /\ cur = Null /\ lockCount = 0 /\ waitq = << >> /\ fault = FALSE
        /\ \A t \in Threads : owner # t /\ tstate[t] = "away" /\ pc[t] = "out" /\ depth[t] = 0
    BY MutexAssumption DEF Init
  <2>2. /\ pc \in [Threads -> {"out", "swap", "adjust"}]
        /\ ret \in [Threads -> {"OK", "EAGAIN"}]
    BY DEF Init
  <2>3. 0 \in 0..MaxDepth
    BY MutexAssumption
  <2>4. depth \in [Threads -> 0..MaxDepth]
    BY <2>3 DEF Init
  <2> QED
    BY <2>1, <2>2, <2>3, <2>4 DEF CallInv
<1>3. PrioInv
  BY MutexAssumption DEF Init, PrioInv, PrioReverts
<1>4. SchedInv
  BY DEF Init, SchedInv
<1> QED
  BY <1>1, <1>2, <1>3, <1>4 DEF IInv

\* Every step preserves it.
LEMMA NextIInv == IInv /\ [Next]_vars => IInv'
<1> SUFFICES ASSUME IInv, [Next]_vars PROVE IInv'
  OBVIOUS
<1>1. CASE Next
  BY <1>1, NextQueues, NextCalls, NextPrio DEF IInv
<1>2. CASE UNCHANGED vars
  BY <1>2 DEF IInv, QueuesInv, CallInv, PrioInv, PrioReverts, Asks, Limit, vars, mutexVars, callVars
<1> QED
  BY <1>1, <1>2

\* The inductive invariant holds of every behaviour.
LEMMA SpecIInv == Spec => []IInv
BY InitIInv, NextIInv, PTL DEF Spec

\* By what the calls returned, at most one thread has the mutex, as often as
\* lock_count says, for any number of threads and any depth.
THEOREM MutexMutualExclusion == Spec => []MutualExclusion
<1>1. IInv => MutualExclusion
  <2> SUFFICES ASSUME IInv PROVE MutualExclusion
    OBVIOUS
  <2>1. TypeOK
    <3>1. /\ owner \in Threads \cup {Null} /\ lockCount \in 0..MaxDepth
          /\ pc \in [Threads -> {"out", "swap", "adjust"}]
          /\ ret \in [Threads -> {"OK", "EAGAIN"}]
          /\ cur \in Threads \cup {Null}
          /\ depth \in [Threads -> 0..MaxDepth]
          /\ fault \in BOOLEAN
      BY DEF IInv, CallInv
    <3>2. /\ waitq \in Seq(Threads) /\ IsInjective(waitq) /\ expired \in Seq(Threads)
          /\ tstate \in [Threads -> {"ready", "pending", "away"}]
          /\ tmo \in [Threads -> {"inactive", "armed", "expired"}]
          /\ clock \in {"idle", "collect", "handle"}
          /\ \A t \in Threads : tstate[t] = "pending" <=> Contains(waitq, t)
      BY DEF IInv, QueuesInv
    <3>3. prio \in [Threads -> Int]
      BY DEF IInv, PrioInv
    <3> QED
      BY ONLY <3>1, <3>2, <3>3, Zenon DEF TypeOK
  <2>2. \A t \in Threads : depth[t] > 0 => owner = t /\ lockCount = depth[t]
    BY DEF IInv, CallInv
  <2> QED
    BY <2>1, <2>2 DEF MutualExclusion
<1> QED
  BY <1>1, SpecIInv, PTL

\* Nobody waits for a mutex that is free or its own.
THEOREM MutexWaitersHaveOwner == Spec => []WaitersHaveOwner
<1>1. ASSUME IInv PROVE WaitersHaveOwner
  <2> SUFFICES ASSUME NEW t \in LiveWaiters PROVE lockCount > 0 /\ owner \in Threads \ LiveWaiters
    BY DEF WaitersHaveOwner
  <2>1. t \in Threads /\ tstate[t] = "pending"
    BY DEF LiveWaiters
  <2>2. waitq # << >>
    BY <1>1, <2>1 DEF IInv, QueuesInv, Contains
  <2>3. owner \in Threads
    BY <1>1, <2>2 DEF IInv, CallInv
  <2>4. tstate[owner] # "pending" /\ lockCount > 0
    BY <1>1, <2>3 DEF IInv, CallInv
  <2> QED
    BY <2>3, <2>4 DEF LiveWaiters
<1>2. IInv => WaitersHaveOwner
  BY <1>1
<1> QED
  BY <1>2, SpecIInv, PTL

\* A thread without the mutex has its own priority, and the owner a higher one
\* only while somebody of at least that priority asks for the mutex, for any
\* priorities and any ceiling.
THEOREM MutexBoostJustified == Spec => []BoostJustified
<1>1. IInv => BoostJustified
  BY DEF IInv, PrioInv, BoostJustified, Asks
<1> QED
  BY <1>1, SpecIInv, PTL

\* While a thread waits and the owner is ready, no preemptible thread of lower
\* priority than the waiter, or than the ceiling, runs in place of the owner,
\* provided that priorities have an upper end.
THEOREM MutexNoInversion ==
  ASSUME NEW b \in Int, \A t \in Threads : b <= Base[t]
  PROVE  Spec => []NoInversion
<1>1. IInv /\ SchedInv /\ [Next]_vars /\ IInv' => SchedInv'
  <2> SUFFICES ASSUME IInv, SchedInv, [Next]_vars, IInv' PROVE SchedInv'
    OBVIOUS
  <2>1. CASE Next
    BY <2>1, NextSched
  <2>2. CASE UNCHANGED vars
    BY <2>2 DEF SchedInv, vars, callVars
  <2> QED
    BY <2>1, <2>2
<1>2. ASSUME IInv, SchedInv PROVE NoInversion
  <2> SUFFICES ASSUME NEW w \in LiveWaiters, clock = "idle", cur \in Threads \ {owner},
                      tstate[owner] = "ready", pc[cur] = "out", prio[cur] >= 0
               PROVE  prio[cur] <= Max({prio[w], Ceiling})
    BY DEF NoInversion
  <2>1. w \in Threads /\ tstate[w] = "pending"
    BY DEF LiveWaiters
  <2>2. owner \in Threads /\ owner # w
    <3>1. waitq # << >>
      BY <1>2, <2>1 DEF IInv, QueuesInv, Contains
    <3> QED
      BY <1>2, <2>1, <3>1 DEF IInv, CallInv
  <2>3. prio[cur] <= prio[owner]
    BY <1>2, <2>2, MutexAssumption DEF SchedInv
  <2>4. prio[owner] <= Limit(w) /\ prio[w] = Base[w]
    BY <1>2, <2>1, <2>2 DEF IInv, PrioInv, PrioReverts
  <2>5. /\ Ceiling \in Int /\ prio[w] \in Int /\ prio[cur] \in Int /\ prio[owner] \in Int
        /\ Base[w] \in Int
    BY <1>2, <2>1, <2>2, MutexAssumption DEF IInv, PrioInv
  <2>6. Max({prio[w], Ceiling}) = Limit(w)
    BY <2>4, <2>5, TwoNumbers DEF Limit
  <2>7. Limit(w) \in Int
    BY <2>5 DEF Limit
  <2> QED
    BY <2>3, <2>4, <2>5, <2>6, <2>7
<1>3. IInv /\ SchedInv => NoInversion
  BY <1>2
<1> QED
  BY <1>1, <1>3, InitIInv, SpecIInv, PTL DEF Spec

-----------------------------------------------------------------------------
(* KProperty: the property cache.  find_property_cache() compares over the *)
(* length of the key it looks for, so the results are about the keys that  *)
(* are not the beginning of another key and do not begin with one; the     *)
(* other keys may share entries.                                           *)

\* Where the last value of n is: in its only entry, else in the store.
NameInv(n) ==
  /\ \A i, j \in Entries : cache[i].name = n /\ cache[j].name = n => i = j
  /\ \A i \in Entries : cache[i].name = n => cache[i].val = latest[n]
  /\ (\A i \in Entries : cache[i].name # n) => nvram[n] = latest[n]

\* What the store holds for n; and a flush of n leaves behind it only values
\* that the store refuses.
SinceInv(n) ==
  /\ latest[n] \in since[n]
  /\ nvram[n] \in since[n]
  /\ flush.kind = "key" /\ flush.key \in {n, None} =>
       \A i \in Entries : i < flush.next /\ cache[i].name = n => cache[i].val \in TooBig

\* What the flush in property_clear_user_info() left for n, until the store
\* is erased.
ClearInv(n) ==
  /\ clear = "flush" => flush.kind = "key" /\ flush.key = None
  /\ clear = "erase" => \A i \in Entries : cache[i].name = n => n \in fresh \/ cache[i].val \in TooBig

\* The inductive invariant.  ReadYourWrites does not survive a flush unless the
\* key has one entry only, FlushedSurvives needs to know how far the flush in
\* progress has come, and ClearForgets what it has passed.
PropertyIInv == PropertyTypeOK /\ \A n \in Names : Separate(n) => NameInv(n) /\ SinceInv(n) /\ ClearInv(n)

\* The searches of the cache return an entry of the set they look in, 0 only
\* if there is none.
LEMMA FirstIs ==
  ASSUME NEW S \in SUBSET Entries
  PROVE  /\ S = {} => First(S) = 0
         /\ S # {} => First(S) \in S /\ First(S) # 0
<1>1. S \subseteq Nat /\ 0 \notin S
  BY PropertyAssumption DEF Entries
<1>2. S # {} => \E i \in S : \A j \in S : i <= j
  BY <1>1, LeastNatural
<1>3. S # {} => First(S) \in S
  BY <1>2 DEF First
<1> QED
  BY <1>1, <1>3 DEF First

\* An entry is in use exactly if it has a name.
LEMMA EntryIs ==
  ASSUME PropertyTypeOK, NEW i \in Entries
  PROVE  /\ Used(i) <=> cache[i].name \in Names
         /\ Used(i) => cache[i] \in [name : Names, val : Value, req : BOOLEAN]
         /\ ~Used(i) => cache[i].name = None
         /\ None \notin Names
BY PropertyAssumption DEF PropertyTypeOK, Used, Unused

\* find_property_cache() returns an entry that matches, if there is one.
LEMMA FindIs ==
  ASSUME PropertyTypeOK, NEW n \in Names
  PROVE  /\ FindCache(n) = 0 => \A i \in Entries : cache[i].name \notin Matches[n]
         /\ FindCache(n) # 0 => FindCache(n) \in Entries /\ cache[FindCache(n)].name \in Matches[n]
<1> DEFINE S == {i \in Entries : Used(i) /\ cache[i].name \in Matches[n]}
<1>1. S \in SUBSET Entries
  OBVIOUS
<1>2. FindCache(n) = First(S)
  BY DEF FindCache
<1>3. \A i \in Entries : cache[i].name \in Matches[n] => i \in S
  <2> SUFFICES ASSUME NEW i \in Entries, cache[i].name \in Matches[n] PROVE Used(i)
    OBVIOUS
  <2>1. cache[i].name \in Names
    BY PropertyAssumption
  <2> QED
    BY <2>1, EntryIs
<1>4. \A i \in S : cache[i].name \in Matches[n]
  OBVIOUS
<1> HIDE DEF S
<1>5. /\ S = {} => First(S) = 0
      /\ S # {} => First(S) \in S /\ First(S) # 0
  BY ONLY <1>1, FirstIs
<1> QED
  BY <1>1, <1>2, <1>3, <1>4, <1>5

\* The entry given to a new name is unused.
LEMMA FreeIs ==
  ASSUME FreeEntry # 0
  PROVE  FreeEntry \in Entries /\ cache[FreeEntry] = Unused
<1> DEFINE S == {i \in Entries : ~Used(i)}
<1>1. S \in SUBSET Entries
  OBVIOUS
<1>2. FreeEntry = First(S)
  BY DEF FreeEntry
<1>3. \A i \in S : i \in Entries /\ cache[i] = Unused
  BY DEF Used
<1> HIDE DEF S
<1>4. /\ S = {} => First(S) = 0
      /\ S # {} => First(S) \in S /\ First(S) # 0
  BY ONLY <1>1, FirstIs
<1> QED
  BY <1>2, <1>3, <1>4

\* For a key that is Separate, property_cache_get() reads its own entry.
LEMMA SeparateGet ==
  ASSUME PropertyTypeOK, NEW n \in Names, Separate(n)
  PROVE  /\ FindCache(n) = 0 => \A i \in Entries : cache[i].name # n
         /\ FindCache(n) # 0 => FindCache(n) \in Entries /\ cache[FindCache(n)].name = n
<1>1. n \in Matches[n] /\ \A m \in Matches[n] : m = n
  BY PropertyAssumption DEF Separate
<1> QED
  BY <1>1, FindIs

-----------------------------------------------------------------------------
\* property_cache_init() establishes the invariant.
LEMMA PropertyInitIInv == PropertyInit => PropertyIInv
<1> SUFFICES ASSUME PropertyInit PROVE PropertyIInv
  OBVIOUS
<1>1. PropertyTypeOK
  BY PropertyAssumption DEF PropertyInit, PropertyTypeOK, NoFlush, Value, Entries
<1>2. ASSUME NEW n \in Names
      PROVE  NameInv(n) /\ SinceInv(n) /\ ClearInv(n)
  <2>1. \A i \in Entries : cache[i].name # n
    BY PropertyAssumption DEF PropertyInit, Unused
  <2>2. latest[n] = None /\ since[n] = {None} /\ nvram[n] = None
    BY DEF PropertyInit
  <2>3. flush.kind = "none" /\ clear = "idle"
    BY DEF PropertyInit, NoFlush
  <2> QED
    BY <2>1, <2>2, <2>3 DEF NameInv, SinceInv, ClearInv
<1> QED
  BY <1>1, <1>2 DEF PropertyIInv

\* The types survive every step; the store never holds a value it refuses.
LEMMA NextType == PropertyTypeOK /\ [PropertyNext]_propertyVars => PropertyTypeOK'
<1> SUFFICES ASSUME PropertyTypeOK, [PropertyNext]_propertyVars PROVE PropertyTypeOK'
  OBVIOUS
<1> DEFINE Rec == [name : Names, val : Value, req : BOOLEAN]
<1>0. /\ cache \in [Entries -> Rec \cup {Unused}]
      /\ nvram \in [Names -> Value \ TooBig]
      /\ flush \in [kind : {"none", "key", "deal"}, key : Names \cup {None}, next : 1..(Slots + 1)]
      /\ clear \in {"idle", "flush", "erase"}
      /\ latest \in [Names -> Value]
      /\ since \in [Names -> SUBSET Value]
      /\ fresh \subseteq Names
      /\ None \in Value \ TooBig /\ Vals \subseteq Value
      /\ Slots \in Nat /\ TooBig \subseteq Vals
  BY PropertyAssumption DEF PropertyTypeOK, Value
<1>1. ASSUME NEW n \in Names, NEW v \in Value, Set(n, v) PROVE PropertyTypeOK'
  <2>1. /\ latest' \in [Names -> Value] /\ since' \in [Names -> SUBSET Value] /\ fresh' \subseteq Names
    BY <1>0, <1>1 DEF Set, Stored
  <2>2. flush' = flush /\ clear' = clear
    BY <1>1 DEF Set
  <2>3. CASE FindCache(n) # 0 /\ cache' = [cache EXCEPT ![FindCache(n)].val = v] /\ UNCHANGED nvram
    <3>1. FindCache(n) \in Entries /\ cache[FindCache(n)].name \in Names
      BY <2>3, FindIs, PropertyAssumption
    <3>2. cache[FindCache(n)] \in Rec
      BY <3>1, EntryIs
    <3>3. cache' \in [Entries -> Rec \cup {Unused}]
      BY <1>0, <2>3, <3>1, <3>2
    <3> QED
      BY <1>0, <2>1, <2>2, <2>3, <3>3 DEF PropertyTypeOK
  <2>4. CASE FreeEntry # 0 /\ cache' = [cache EXCEPT ![FreeEntry] = [name |-> n, val |-> v, req |-> FALSE]]
             /\ UNCHANGED nvram
    <3>1. cache' \in [Entries -> Rec \cup {Unused}]
      BY <1>0, <2>4, FreeIs
    <3> QED
      BY <1>0, <2>1, <2>2, <2>4, <3>1 DEF PropertyTypeOK
  <2>5. CASE v \notin TooBig /\ nvram' = [nvram EXCEPT ![n] = v] /\ UNCHANGED cache
    BY <1>0, <2>1, <2>2, <2>5 DEF PropertyTypeOK
  <2> QED
    BY <1>1, <2>3, <2>4, <2>5 DEF Set
<1>2. ASSUME NEW key \in Names \cup {None}, FlushStart(key) \/ DealStart \/ ClearStart PROVE PropertyTypeOK'
  BY <1>0, <1>2 DEF FlushStart, DealStart, ClearStart, PropertyTypeOK, history
<1>3. ASSUME NEW key \in Names \cup {None}, FlushReq(key) PROVE PropertyTypeOK'
  <2>1. cache' \in [Entries -> Rec \cup {Unused}]
    <3>1. \A i \in Entries : Hit(key, i) => cache[i] \in Rec
      BY EntryIs DEF Hit
    <3> QED
      BY <1>0, <1>3, <3>1 DEF FlushReq
  <2> QED
    BY <1>0, <1>3, <2>1 DEF FlushReq, PropertyTypeOK, history
<1>4. CASE FlushEntry
  <2> DEFINE k == flush.next
  <2>1. k \in Entries /\ flush' = [flush EXCEPT !.next = k + 1] /\ UNCHANGED <<clear, history>>
    BY <1>0, <1>4 DEF FlushEntry, Entries
  <2>2. flush' \in [kind : {"none", "key", "deal"}, key : Names \cup {None}, next : 1..(Slots + 1)]
    BY <1>0, <2>1 DEF Entries
  <2> HIDE DEF k
  <2>3. ToFlush(k) => cache[k] \in Rec
    BY <2>1, EntryIs DEF ToFlush, Hit
  <2>4. CASE ToFlush(k) /\ cache[k].val \notin TooBig /\ nvram' = [nvram EXCEPT ![cache[k].name] = cache[k].val]
             /\ cache' = [cache EXCEPT ![k] = Unused]
    BY <1>0, <2>1, <2>2, <2>3, <2>4 DEF PropertyTypeOK, history
  <2>5. CASE ToFlush(k) /\ cache' = [cache EXCEPT ![k].req = IF flush.kind = "deal" THEN FALSE ELSE @]
             /\ UNCHANGED nvram
    BY <1>0, <2>1, <2>2, <2>3, <2>5 DEF PropertyTypeOK, history
  <2>6. CASE UNCHANGED <<cache, nvram>>
    BY <1>0, <2>1, <2>2, <2>6 DEF PropertyTypeOK, history
  <2> QED
    BY <1>4, <2>4, <2>5, <2>6 DEF FlushEntry, k
<1>5. CASE FlushEnd
  <2>1. flush' \in [kind : {"none", "key", "deal"}, key : Names \cup {None}, next : 1..(Slots + 1)]
    BY <1>0, <1>5 DEF FlushEnd, NoFlush
  <2>2. since' \in [Names -> SUBSET Value] /\ clear' \in {"idle", "flush", "erase"}
    BY <1>0, <1>5 DEF FlushEnd
  <2> QED
    BY <1>0, <1>5, <2>1, <2>2 DEF FlushEnd, PropertyTypeOK
<1>6. CASE ClearErase
  <2>1. since' \in [Names -> SUBSET Value] /\ latest' \in [Names -> Value]
    BY <1>0, <1>6 DEF ClearErase
  <2> QED
    BY <1>0, <1>6, <2>1 DEF ClearErase, PropertyTypeOK
<1>7. CASE Reset
  <2>1. flush' \in [kind : {"none", "key", "deal"}, key : Names \cup {None}, next : 1..(Slots + 1)]
    BY <1>0, <1>7 DEF Reset, NoFlush
  <2>2. since' \in [Names -> SUBSET Value] /\ latest' \in [Names -> Value]
    BY <1>0, <1>7 DEF Reset
  <2> QED
    BY <1>0, <1>7, <2>1, <2>2 DEF Reset, PropertyTypeOK
<1>8. CASE UNCHANGED propertyVars
  BY <1>8 DEF propertyVars, PropertyTypeOK
<1> QED
  BY <1>1, <1>2, <1>3, <1>4, <1>5, <1>6, <1>7, <1>8 DEF PropertyNext

\* What a set leaves in the entries of a key that is not the one set:
\* find_property_cache() has not touched them.
LEMMA SetOther ==
  ASSUME PropertyTypeOK, NEW n \in Names, Separate(n), NEW m \in Names \ {n}, NEW v \in Value, Set(m, v)
  PROVE  /\ \A i \in Entries : cache'[i].name = n <=> cache[i].name = n
         /\ \A i \in Entries : cache[i].name = n => cache'[i] = cache[i]
         /\ nvram'[n] = nvram[n] /\ latest'[n] = latest[n] /\ since'[n] = since[n]
<1>0. /\ cache \in [Entries -> [name : Names, val : Value, req : BOOLEAN] \cup {Unused}]
      /\ nvram \in [Names -> Value \ TooBig]
      /\ latest \in [Names -> Value] /\ since \in [Names -> SUBSET Value]
  BY DEF PropertyTypeOK
<1>1. latest'[n] = latest[n] /\ since'[n] = since[n]
  BY <1>0 DEF Set, Stored
<1>2. CASE FindCache(m) # 0 /\ cache' = [cache EXCEPT ![FindCache(m)].val = v] /\ UNCHANGED nvram
  <2>1. FindCache(m) \in Entries /\ cache[FindCache(m)].name # n
    BY <1>2, FindIs DEF Separate
  <2>2. \A i \in Entries : i # FindCache(m) => cache'[i] = cache[i]
    BY <1>0, <1>2
  <2>3. cache'[FindCache(m)] = [cache[FindCache(m)] EXCEPT !.val = v]
    BY <1>0, <1>2, <2>1
  <2>4. cache'[FindCache(m)].name = cache[FindCache(m)].name
    <3>1. cache[FindCache(m)] \in [name : Names, val : Value, req : BOOLEAN]
      BY <1>2, <2>1, FindIs, EntryIs, PropertyAssumption
    <3> QED
      BY <2>3, <3>1
  <2> QED
    BY <1>1, <1>2, <2>1, <2>2, <2>4
<1>3. CASE FreeEntry # 0 /\ cache' = [cache EXCEPT ![FreeEntry] = [name |-> m, val |-> v, req |-> FALSE]]
           /\ UNCHANGED nvram
  <2>1. FreeEntry \in Entries /\ cache[FreeEntry].name # n
    BY <1>3, FreeIs, PropertyAssumption DEF Unused
  <2> QED
    BY <1>0, <1>1, <1>3, <2>1
<1>4. CASE nvram' = [nvram EXCEPT ![m] = v] /\ UNCHANGED cache
  BY <1>0, <1>1, <1>4
<1> QED
  BY <1>2, <1>3, <1>4 DEF Set

\* A set of the key itself leaves its value in the one entry it has, or in the
\* store if it has none.
LEMMA SetSame ==
  ASSUME PropertyTypeOK, NEW n \in Names, Separate(n), NameInv(n), NEW v \in Value, Set(n, v)
  PROVE  NameInv(n)' /\ latest'[n] = v /\ (nvram'[n] = nvram[n] \/ nvram'[n] = v)
<1>0. /\ cache \in [Entries -> [name : Names, val : Value, req : BOOLEAN] \cup {Unused}]
      /\ nvram \in [Names -> Value \ TooBig]
      /\ latest \in [Names -> Value]
  BY DEF PropertyTypeOK
<1>1. latest'[n] = v
  BY <1>0 DEF Set, Stored
<1>2. CASE FindCache(n) # 0 /\ cache' = [cache EXCEPT ![FindCache(n)].val = v] /\ UNCHANGED nvram
  <2> DEFINE k == FindCache(n)
  <2>1. k \in Entries /\ cache[k].name = n
    BY <1>2, SeparateGet
  <2>2. cache[k] \in [name : Names, val : Value, req : BOOLEAN]
    BY <2>1, EntryIs
  <2>3. cache' = [cache EXCEPT ![k].val = v]
    BY <1>2
  <2> HIDE DEF k
  <2>4. /\ \A i \in Entries \ {k} : cache'[i] = cache[i]
        /\ cache'[k].name = n /\ cache'[k].val = v
    BY <1>0, <2>1, <2>2, <2>3
  <2>5. \A i \in Entries : cache[i].name = n => i = k
    BY <2>1 DEF NameInv
  <2> QED
    BY <1>1, <1>2, <2>1, <2>4, <2>5 DEF NameInv
<1>3. CASE FindCache(n) = 0 /\ FreeEntry # 0 /\ UNCHANGED nvram
           /\ cache' = [cache EXCEPT ![FreeEntry] = [name |-> n, val |-> v, req |-> FALSE]]
  <2>1. FreeEntry \in Entries /\ \A i \in Entries : cache[i].name # n
    BY <1>3, FreeIs, SeparateGet
  <2>2. /\ \A i \in Entries \ {FreeEntry} : cache'[i] = cache[i]
        /\ cache'[FreeEntry].name = n /\ cache'[FreeEntry].val = v
    BY <1>0, <1>3, <2>1
  <2> QED
    BY <1>1, <1>3, <2>1, <2>2 DEF NameInv
<1>4. CASE FindCache(n) = 0 /\ nvram' = [nvram EXCEPT ![n] = v] /\ UNCHANGED cache
  <2>1. \A i \in Entries : cache[i].name # n
    BY <1>4, SeparateGet
  <2>2. nvram'[n] = v
    BY <1>0, <1>4
  <2> QED
    BY <1>1, <1>4, <2>1, <2>2 DEF NameInv
<1> QED
  BY <1>2, <1>3, <1>4 DEF Set

\* One turn of the flush loop, for the entries of n.
LEMMA FlushEntryEffect ==
  ASSUME PropertyTypeOK, NEW n \in Names, NameInv(n), FlushEntry
  PROVE  /\ flush.next \in Entries
         /\ flush' = [flush EXCEPT !.next = flush.next + 1]
         /\ UNCHANGED <<clear, history>>
         /\ \A i \in Entries : cache'[i].name = n => cache[i].name = n /\ cache'[i].val = cache[i].val
         /\ \/ \A i \in Entries : cache[i].name = n => cache'[i].name = n
            \/ nvram'[n] = latest[n]
         /\ nvram'[n] = nvram[n] \/ nvram'[n] = latest[n]
         /\ cache'[flush.next].name = n /\ flush.kind = "key" /\ flush.key = None =>
              cache'[flush.next].val \in TooBig
         /\ cache'[flush.next].name = n /\ flush.kind = "key" /\ flush.key = n =>
              cache'[flush.next].val \in TooBig
<1> DEFINE k == flush.next
           Rec == [name : Names, val : Value, req : BOOLEAN]
<1>0. /\ cache \in [Entries -> Rec \cup {Unused}]
      /\ nvram \in [Names -> Value \ TooBig]
      /\ k \in Entries
      /\ flush' = [flush EXCEPT !.next = k + 1] /\ UNCHANGED <<clear, history>>
      /\ None \notin Names
  BY PropertyAssumption DEF PropertyTypeOK, FlushEntry, Entries
<1>1. ToFlush(k) => cache[k] \in Rec
  BY <1>0, EntryIs DEF ToFlush, Hit
<1>2. cache[k].name = n /\ flush.kind = "key" /\ (flush.key = None \/ flush.key = n) => ToFlush(k)
  BY <1>0, EntryIs, PropertyAssumption DEF ToFlush, Hit
<1>3. /\ \/ /\ ToFlush(k) /\ cache[k].val \notin TooBig
            /\ nvram' = [nvram EXCEPT ![cache[k].name] = cache[k].val]
            /\ cache' = [cache EXCEPT ![k] = Unused]
         \/ /\ ToFlush(k) /\ cache[k].val \in TooBig
            /\ cache' = [cache EXCEPT ![k].req = IF flush.kind = "deal" THEN FALSE ELSE @]
            /\ UNCHANGED nvram
         \/ ~ToFlush(k) /\ UNCHANGED <<cache, nvram>>
  BY DEF FlushEntry
<1> HIDE DEF k
<1>4. CASE ToFlush(k) /\ nvram' = [nvram EXCEPT ![cache[k].name] = cache[k].val]
           /\ cache' = [cache EXCEPT ![k] = Unused]
  <2>1. /\ \A i \in Entries \ {k} : cache'[i] = cache[i]
        /\ cache'[k].name = None
    BY <1>0, <1>4 DEF Unused
  <2>2. nvram'[n] = IF cache[k].name = n THEN cache[k].val ELSE nvram[n]
    BY <1>0, <1>1, <1>4
  <2>3. cache[k].name = n => cache[k].val = latest[n]
    BY <1>0 DEF NameInv
  <2> QED
    BY <1>0, <2>1, <2>2, <2>3 DEF k
<1>5. CASE ToFlush(k) /\ cache[k].val \in TooBig /\ UNCHANGED nvram
           /\ cache' = [cache EXCEPT ![k].req = IF flush.kind = "deal" THEN FALSE ELSE @]
  <2>1. /\ \A i \in Entries \ {k} : cache'[i] = cache[i]
        /\ cache'[k].name = cache[k].name /\ cache'[k].val = cache[k].val
    BY <1>0, <1>1, <1>5
  <2> QED
    BY <1>0, <1>5, <2>1 DEF k
<1>6. CASE ~ToFlush(k) /\ UNCHANGED <<cache, nvram>>
  BY <1>0, <1>2, <1>6 DEF k
<1> QED
  BY <1>3, <1>4, <1>5, <1>6

\* Every operation preserves what the invariant says of a Separate key.
LEMMA NextName ==
  ASSUME PropertyTypeOK, NEW n \in Names, Separate(n), NameInv(n), SinceInv(n), ClearInv(n), [PropertyNext]_propertyVars
  PROVE  NameInv(n)' /\ SinceInv(n)' /\ ClearInv(n)'
<1>0. /\ cache \in [Entries -> [name : Names, val : Value, req : BOOLEAN] \cup {Unused}]
      /\ flush \in [kind : {"none", "key", "deal"}, key : Names \cup {None}, next : 1..(Slots + 1)]
      /\ clear \in {"idle", "flush", "erase"}
      /\ since \in [Names -> SUBSET Value]
      /\ None \notin Names /\ Slots \in Nat /\ Entries = 1..Slots
  BY PropertyAssumption DEF PropertyTypeOK, Entries
<1>1. ASSUME NEW m \in Names, NEW v \in Value, Set(m, v)
      PROVE  NameInv(n)' /\ SinceInv(n)' /\ ClearInv(n)'
  <2>0. flush.kind = "none" /\ flush' = flush /\ clear' = clear /\ clear # "flush"
    BY <1>1 DEF Set, Unlocked, ClearInv
  <2>1. CASE m = n
    <3>1. NameInv(n)' /\ latest'[n] = v /\ (nvram'[n] = nvram[n] \/ nvram'[n] = v)
      BY <1>1, <2>1, SetSame
    <3>2. since'[n] = since[n] \cup {v} /\ (clear # "idle" => n \in fresh')
      BY <1>0, <1>1, <2>1 DEF Set, Stored
    <3> QED
      BY <2>0, <3>1, <3>2 DEF SinceInv, ClearInv
  <2>2. CASE m # n
    <3>1. /\ \A i \in Entries : cache'[i].name = n <=> cache[i].name = n
          /\ \A i \in Entries : cache[i].name = n => cache'[i] = cache[i]
          /\ nvram'[n] = nvram[n] /\ latest'[n] = latest[n] /\ since'[n] = since[n]
      BY <1>1, <2>2, SetOther
    <3>2. fresh \subseteq fresh'
      BY <1>1 DEF Set, Stored
    <3>3. NameInv(n)'
      BY <3>1 DEF NameInv
    <3> QED
      BY <2>0, <3>1, <3>2, <3>3 DEF SinceInv, ClearInv
  <2> QED
    BY <2>1, <2>2
<1>2. ASSUME NEW key \in Names \cup {None}, FlushStart(key) \/ DealStart
      PROVE  NameInv(n)' /\ SinceInv(n)' /\ ClearInv(n)'
  <2>1. /\ UNCHANGED <<cache, nvram, clear, history>>
        /\ flush'.next = 1 /\ clear # "flush"
    BY <1>0, <1>2 DEF FlushStart, DealStart, Unlocked, ClearInv
  <2> QED
    BY <1>0, <2>1 DEF NameInv, SinceInv, ClearInv, history
<1>3. ASSUME NEW key \in Names \cup {None}, FlushReq(key)
      PROVE  NameInv(n)' /\ SinceInv(n)' /\ ClearInv(n)'
  <2>1. UNCHANGED <<nvram, flush, clear, history>>
    BY <1>3 DEF FlushReq
  <2>2. \A i \in Entries : cache'[i].name = cache[i].name /\ cache'[i].val = cache[i].val
    <3>1. \A i \in Entries : cache'[i] = IF Hit(key, i) THEN [cache[i] EXCEPT !.req = TRUE] ELSE cache[i]
      BY <1>3 DEF FlushReq
    <3>2. ASSUME NEW i \in Entries
          PROVE  cache'[i].name = cache[i].name /\ cache'[i].val = cache[i].val
      <4>1. cache[i] \in [name : Names, val : Value, req : BOOLEAN] \/ cache[i] = Unused
        BY <1>0
      <4>2. cache'[i] = [cache[i] EXCEPT !.req = TRUE] \/ cache'[i] = cache[i]
        BY <3>1
      <4>3. CASE cache[i] \in [name : Names, val : Value, req : BOOLEAN]
        BY <4>2, <4>3
      <4>4. CASE cache[i] = Unused
        BY <4>2, <4>4 DEF Unused
      <4> QED
        BY <4>1, <4>3, <4>4
    <3> QED
      BY <3>2
  <2> QED
    BY <2>1, <2>2 DEF NameInv, SinceInv, ClearInv, history
<1>4. CASE FlushEntry
  <2>1. /\ flush.next \in Entries
        /\ flush' = [flush EXCEPT !.next = flush.next + 1]
        /\ UNCHANGED <<clear, history>>
        /\ \A i \in Entries : cache'[i].name = n => cache[i].name = n /\ cache'[i].val = cache[i].val
        /\ \/ \A i \in Entries : cache[i].name = n => cache'[i].name = n
           \/ nvram'[n] = latest[n]
        /\ nvram'[n] = nvram[n] \/ nvram'[n] = latest[n]
        /\ cache'[flush.next].name = n /\ flush.kind = "key" /\ flush.key = None =>
             cache'[flush.next].val \in TooBig
        /\ cache'[flush.next].name = n /\ flush.kind = "key" /\ flush.key = n =>
             cache'[flush.next].val \in TooBig
    BY <1>4, FlushEntryEffect
  <2>2. /\ flush'.kind = flush.kind /\ flush'.key = flush.key /\ flush'.next = flush.next + 1
        /\ latest'[n] = latest[n] /\ since'[n] = since[n] /\ fresh' = fresh /\ clear' = clear
    BY <1>0, <2>1 DEF history
  <2>3. \A i \in Entries : i < flush.next + 1 => i < flush.next \/ i = flush.next
    BY <1>0, <2>1
  <2>4. NameInv(n)'
    BY <2>1, <2>2 DEF NameInv
  <2>5. SinceInv(n)'
    <3>1. latest'[n] \in since'[n] /\ nvram'[n] \in since'[n]
      BY <2>1, <2>2 DEF SinceInv
    <3>2. ASSUME flush.kind = "key", flush.key \in {n, None}, NEW i \in Entries,
                 i < flush.next + 1, cache'[i].name = n
          PROVE  cache'[i].val \in TooBig
      <4>1. CASE i = flush.next
        BY <2>1, <3>2, <4>1
      <4>2. CASE i < flush.next
        BY <2>1, <3>2, <4>2 DEF SinceInv
      <4> QED
        BY <2>3, <3>2, <4>1, <4>2
    <3> QED
      BY <2>2, <3>1, <3>2 DEF SinceInv
  <2>6. ClearInv(n)'
    BY <2>1, <2>2 DEF ClearInv
  <2> QED
    BY <2>4, <2>5, <2>6
<1>5. CASE FlushEnd
  <2>1. /\ UNCHANGED <<cache, nvram, latest, fresh>> /\ flush'.kind = "none"
        /\ flush.next = Slots + 1
        /\ since'[n] = IF flush.kind = "key" /\ flush.key \in {n, None} /\ latest[n] \notin TooBig
                        THEN {latest[n]} ELSE since[n]
        /\ clear' = IF clear = "flush" /\ flush.key = None THEN "erase" ELSE clear
    BY <1>5 DEF FlushEnd, NoFlush
  <2>2. \A i \in Entries : i < flush.next
    BY <1>0, <2>1
  <2>3. NameInv(n)'
    BY <2>1 DEF NameInv
  <2>4. SinceInv(n)'
    <3>1. CASE flush.kind = "key" /\ flush.key \in {n, None} /\ latest[n] \notin TooBig
      <4>1. \A i \in Entries : cache[i].name # n
        BY <2>2, <3>1 DEF SinceInv, NameInv
      <4>2. nvram[n] = latest[n]
        BY <4>1 DEF NameInv
      <4> QED
        BY <2>1, <3>1, <4>2 DEF SinceInv
    <3>2. CASE ~(flush.kind = "key" /\ flush.key \in {n, None} /\ latest[n] \notin TooBig)
      BY <2>1, <3>2 DEF SinceInv
    <3> QED
      BY <3>1, <3>2
  <2>5. ClearInv(n)'
    <3>1. clear' # "flush"
      BY <1>0, <2>1 DEF ClearInv
    <3>2. CASE clear = "flush"
      BY <2>1, <2>2, <3>1, <3>2 DEF ClearInv, SinceInv
    <3>3. CASE clear # "flush"
      BY <2>1, <3>1, <3>3 DEF ClearInv
    <3> QED
      BY <3>2, <3>3
  <2> QED
    BY <2>3, <2>4, <2>5
<1>6. CASE ClearStart
  <2>1. /\ UNCHANGED <<cache, nvram, latest, since>> /\ clear' = "flush"
        /\ flush'.kind = "key" /\ flush'.key = None /\ flush'.next = 1
    BY <1>6 DEF ClearStart
  <2> QED
    BY <1>0, <2>1 DEF NameInv, SinceInv, ClearInv
<1>7. CASE ClearErase
  <2>1. /\ UNCHANGED <<cache, flush, fresh>> /\ clear' = "idle" /\ nvram'[n] = None
        /\ latest'[n] = IF FindCache(n) = 0 THEN None ELSE latest[n]
        /\ since'[n] = IF FindCache(n) = 0 THEN {None} ELSE since[n] \cup {None}
    BY <1>7 DEF ClearErase
  <2>2. /\ FindCache(n) = 0 => \A i \in Entries : cache[i].name # n
        /\ FindCache(n) # 0 => FindCache(n) \in Entries /\ cache[FindCache(n)].name = n
    BY SeparateGet
  <2> QED
    BY <2>1, <2>2 DEF NameInv, SinceInv, ClearInv
<1>8. CASE Reset
  <2>1. /\ nvram' = nvram /\ latest'[n] = nvram[n] /\ since'[n] = {nvram[n]}
        /\ clear' = "idle" /\ flush'.kind = "none"
        /\ \A i \in Entries : cache'[i].name # n
    BY <1>0, <1>8 DEF Reset, NoFlush, Unused
  <2> QED
    BY <2>1 DEF NameInv, SinceInv, ClearInv
<1>9. CASE UNCHANGED propertyVars
  BY <1>9 DEF propertyVars, NameInv, SinceInv, ClearInv
<1> QED
  BY <1>1, <1>2, <1>3, <1>4, <1>5, <1>6, <1>7, <1>8, <1>9 DEF PropertyNext

\* The invariant holds in every state of the cache and the store.
LEMMA PropertySpecIInv == PropertySpec => []PropertyIInv
<1>1. PropertyIInv /\ [PropertyNext]_propertyVars => PropertyIInv'
  <2> SUFFICES ASSUME PropertyIInv, [PropertyNext]_propertyVars PROVE PropertyIInv'
    OBVIOUS
  <2>1. PropertyTypeOK'
    BY NextType DEF PropertyIInv
  <2>2. \A n \in Names : Separate(n) => NameInv(n)' /\ SinceInv(n)' /\ ClearInv(n)'
    BY NextName DEF PropertyIInv
  <2> QED
    BY <2>1, <2>2 DEF PropertyIInv, Separate
<1> QED
  BY <1>1, PropertyInitIInv, PTL DEF PropertySpec

\* property_get() returns what the last successful property_set() left, for
\* every key that is not the beginning of another and begins with none, whatever
\* the other keys are.
THEOREM PropertyReadYourWrites == PropertySpec => []ReadYourWrites
<1>1. PropertyIInv => ReadYourWrites
  BY SeparateGet DEF PropertyIInv, NameInv, Get, ReadYourWrites
<1> QED
  BY <1>1, PropertySpecIInv, PTL

\* Whenever power is lost, every such key comes back with a value no older than
\* the last completed flush of it.
THEOREM PropertyFlushedSurvives == PropertySpec => []FlushedSurvives
<1>1. PropertyIInv => FlushedSurvives
  BY DEF PropertyIInv, SinceInv, FlushedSurvives
<1> QED
  BY <1>1, PropertySpecIInv, PTL

\* property_clear_user_info() leaves nothing of such a key that was set before
\* it began, although other threads set keys between its flush and its erasure.
THEOREM PropertyClearForgets == PropertySpec => ClearForgets
<1> DEFINE A == ClearErase =>
                  \A n \in Names : Separate(n) /\ Get(n)' # None
                                     => n \in fresh \/ Get(n)' \in TooBig
<1>1. PropertyIInv /\ [PropertyNext]_propertyVars => [A]_propertyVars
  <2> SUFFICES ASSUME PropertyIInv, ClearErase, NEW n \in Names, Separate(n), Get(n)' # None
               PROVE  n \in fresh \/ Get(n)' \in TooBig
    OBVIOUS
  <2>1. /\ clear = "erase" /\ cache' = cache /\ nvram'[n] = None
    BY DEF ClearErase
  <2>2. FindCache(n)' = FindCache(n)
    BY <2>1 DEF FindCache, Used
  <2>3. FindCache(n) # 0 /\ Get(n)' = cache[FindCache(n)].val
    BY <2>1, <2>2 DEF Get
  <2>4. FindCache(n) \in Entries /\ cache[FindCache(n)].name = n
    BY <2>3, SeparateGet DEF PropertyIInv
  <2> QED
    BY <2>1, <2>3, <2>4 DEF PropertyIInv, ClearInv
<1> QED
  BY <1>1, PropertySpecIInv, PTL DEF ClearForgets, PropertySpec

=============================================================================
