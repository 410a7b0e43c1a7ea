--------------------------- MODULE MailboxProofs ----------------------------
(***************************************************************************)
(* The mailbox, and the message manager above it, for any threads,         *)
(* priorities, descriptors, semaphores and kinds of messages.              *)
(***************************************************************************)
EXTENDS MsgManager, DataLemmas, FiniteSetTheorems

(* The inductive invariant of the mailbox. *)

\* The queues are lists without duplicates.
ListsInv ==
  /\ txq \in Seq(Senders) /\ IsInjective(txq)
  /\ rxq \in Seq(Threads) /\ IsInjective(rxq)
  /\ free \in Seq(Asyncs) /\ IsInjective(free)
  /\ poolq \in Seq(Threads) /\ IsInjective(poolq)

MsgSet == [target : Threads \cup {K_ANY, Null}, source : Threads \cup {Null},
           kind : Kinds \cup {Null}, sem : Sems \cup {Null}]
RxSet == [source : Threads \cup {K_ANY, Null}, keep : BOOLEAN,
          from : Senders \cup {Null}, kind : Kinds \cup {Null}]

\* The other variables have their types.
TypesInv ==
  /\ prio \in [Senders -> Int]
  /\ tstate \in [Threads -> {"ready", "pending"}]
  /\ timed \subseteq Threads
  /\ tx \in [Senders -> MsgSet]
  /\ rx \in [Threads -> RxSet]
  /\ pc \in [Threads -> {"out", "put", "get", "give", "clear", "clearGive"}]
  /\ hand \in [Threads -> Asyncs \cup Sems \cup {Null}]
  /\ next \in [Threads -> Senders \cup {Null}]
  /\ sem \in [Sems -> 0..1]
  /\ irqLocked \in Threads \cup {Null}
  /\ out \subseteq Senders
  /\ fault \in BOOLEAN

\* Where a thread is: a pending one in exactly one place, which its program
\* counter tells apart, and a timeout runs only while it is on a queue.
Waiting(t) ==
  Contains(txq, t) \/ Contains(rxq, t) \/ Contains(poolq, t) \/ \E r \in Threads : rx[r].from = t

ThreadInv ==
  \A t \in Threads :
    /\ tstate[t] = "pending" <=> Waiting(t)
    /\ Contains(txq, t) => pc[t] = "out"
    /\ Contains(rxq, t) => pc[t] = "get" /\ rx[t].from = Null
    /\ Contains(poolq, t) => pc[t] = "put" /\ hand[t] = Null
    /\ (\E r \in Threads : rx[r].from = t) => pc[t] = "out"
    /\ pc[t] = "get" => rx[t].from # Null \/ Contains(rxq, t)
    /\ t \in timed => Contains(txq, t) \/ Contains(rxq, t)

\* What a call has in its hands: a descriptor to send with, once it has got
\* one; a semaphore to give; or nothing.
HandInv ==
  \A t \in Threads :
    /\ pc[t] = "put" => hand[t] \in Asyncs \/ Contains(poolq, t)
    /\ pc[t] \in {"give", "clearGive"} => hand[t] \in Sems
    /\ hand[t] \in Asyncs => pc[t] = "put"
    /\ hand[t] \in Sems => pc[t] \in {"give", "clearGive"}

\* A message is with one receiver, and then no longer on the queue.
HeldInv ==
  \A r \in Threads : rx[r].from # Null =>
    /\ ~Contains(txq, rx[r].from)
    /\ \A u \in Threads : rx[u].from = rx[r].from => u = r

\* A descriptor is in one place.
AsyncInv ==
  \A a \in Asyncs :
    /\ Contains(free, a) \/ Contains(txq, a) \/ (\E t \in Threads : hand[t] = a)
         \/ \E r \in Threads : rx[r].from = a
    /\ Contains(free, a) => /\ ~Contains(txq, a)
                            /\ \A t \in Threads : hand[t] # a /\ rx[t].from # a
    /\ \A t \in Threads : hand[t] = a =>
         /\ ~Contains(txq, a)
         /\ \A u \in Threads : rx[u].from # a /\ (hand[u] = a => u = t)

\* Nobody waits for a descriptor while one is free.
PoolInv == poolq # << >> => free = << >>

Acc == ThreadInv /\ HandInv /\ HeldInv /\ AsyncInv /\ PoolInv

IInv == ListsInv /\ TypesInv /\ Acc

-----------------------------------------------------------------------------
(* The operators of the lists *)

\* The assumptions, in the form the proofs use them.
LEMMA Distinct ==
  /\ Threads \subseteq Senders /\ Asyncs \subseteq Senders
  /\ Null \notin Senders /\ Null \notin Sems
  /\ \A a \in Asyncs : a \notin Threads /\ a \notin Sems
BY MailboxAssumption DEF Senders

\* _pend_thread() inserts behind the threads whose priority is not lower.
LEMMA QueuedPlace ==
  ASSUME NEW S, S \subseteq Senders, NEW q \in Seq(S), NEW s \in S, NEW p \in Int,
         prio \in [Senders -> Int]
  PROVE  \E i \in 1..(Len(q) + 1) :
           /\ Queued(q, s, p) = InsertAt(q, i, s)
           /\ \A j \in 1..(i - 1) : prio[q[j]] <= p
           /\ i <= Len(q) => p < prio[q[i]]
<1> DEFINE I == {j \in 1..(Len(q) + 1) : j <= Len(q) => p < prio[q[j]]}
<1>0. Len(q) \in Nat /\ \A j \in 1..Len(q) : q[j] \in S /\ prio[q[j]] \in Int
  OBVIOUS
<1>1. I \in SUBSET Nat /\ Len(q) + 1 \in I
  BY <1>0
<1>2. PICK i \in I : \A j \in I : i <= j
  BY ONLY <1>1, LeastNatural
<1>3. Min(I) \in I /\ \A j \in I : Min(I) <= j
  BY ONLY <1>2 DEF Min
<1>4. Min(I) = i /\ i \in 1..(Len(q) + 1)
  BY <1>0, <1>1, <1>2, <1>3
<1>5. \A j \in 1..(i - 1) : prio[q[j]] <= p
  BY <1>0, <1>2, <1>4
<1>6. i <= Len(q) => p < prio[q[i]]
  BY <1>2
<1> QED
  BY <1>4, <1>5, <1>6 DEF Queued

\* The list it makes.
LEMMA QueuedMembers ==
  ASSUME NEW S, S \subseteq Senders, NEW q \in Seq(S), NEW s \in S, NEW p \in Int,
         prio \in [Senders -> Int], IsInjective(q), ~Contains(q, s)
  PROVE  /\ Queued(q, s, p) \in Seq(S)
         /\ IsInjective(Queued(q, s, p))
         /\ \A u \in S : Contains(Queued(q, s, p), u) <=> (u = s \/ Contains(q, u))
<1>1. PICK i \in 1..(Len(q) + 1) : Queued(q, s, p) = InsertAt(q, i, s)
  BY QueuedPlace
<1>2. /\ InsertAt(q, i, s) \in Seq(S)
      /\ IsInjective(InsertAt(q, i, s))
      /\ \A u \in S : Contains(InsertAt(q, i, s), u) <=> (u = s \/ Contains(q, u))
  BY InsertAtEntries, InsertAtMembers, Zenon
<1> QED
  BY <1>1, <1>2

\* The list without s.
LEMMA WithoutMembers ==
  ASSUME NEW S, NEW q \in Seq(S), NEW s, IsInjective(q)
  PROVE  /\ Without(q, s) \in Seq(S)
         /\ IsInjective(Without(q, s))
         /\ \A u \in S : Contains(Without(q, s), u) <=> (u # s /\ Contains(q, u))
BY RemoveFirstMembers, Zenon DEF Without

\* A member of a filtered set of positions, the least of it.
LEMMA LeastPosition ==
  ASSUME NEW n \in Nat, NEW I \in SUBSET (1..n), I # {}
  PROVE  Min(I) \in I /\ \A j \in I : Min(I) <= j
<1>1. I \in SUBSET Nat
  OBVIOUS
<1>2. \E i \in I : \A j \in I : i <= j
  BY ONLY <1>1, I # {}, LeastNatural
<1> QED
  BY ONLY <1>2 DEF Min

\* Popping the last entry of a list, as k_stack_pop() does.
LEMMA FrontMembers ==
  ASSUME NEW S, NEW q \in Seq(S), q # << >>, IsInjective(q)
  PROVE  /\ Last(q) \in S /\ Contains(q, Last(q))
         /\ Front(q) \in Seq(S) /\ IsInjective(Front(q))
         /\ \A u \in S : Contains(Front(q), u) <=> (u # Last(q) /\ Contains(q, u))
<1>0. Len(q) \in Nat /\ Len(q) > 0
  BY EmptySeq
<1>1. /\ SubSeq(q, 1, Len(q) - 1) \in Seq(S) /\ Len(SubSeq(q, 1, Len(q) - 1)) = Len(q) - 1
      /\ \A i \in 1..(Len(q) - 1) : SubSeq(q, 1, Len(q) - 1)[i] = q[i]
  <2> DEFINE e == SubSeq(q, 1, Len(q) - 1)
  <2>1. Len(q) - 1 \in Int /\ \A i \in 1..(Len(q) - 1) : q[i] \in S
    BY <1>0
  <2>2. /\ e \in Seq(S)
        /\ Len(e) = IF 1 <= Len(q) - 1 THEN (Len(q) - 1) - 1 + 1 ELSE 0
        /\ \A i \in 1..((Len(q) - 1) - 1 + 1) : e[i] = q[1 + i - 1]
    BY <2>1, SubSeqProperties
  <2> HIDE DEF e
  <2>3. e \in Seq(S) /\ Len(e) = Len(q) - 1
    <3>1. PICK n \in Nat : n = Len(q) /\ n > 0
      BY <1>0
    <3>2. e \in Seq(S) /\ Len(e) = IF 1 <= n - 1 THEN (n - 1) - 1 + 1 ELSE 0
      BY ONLY <2>2, <3>1
    <3>3. (IF 1 <= n - 1 THEN (n - 1) - 1 + 1 ELSE 0) = n - 1
      BY ONLY <3>1
    <3> QED
      BY ONLY <3>1, <3>2, <3>3
  <2>4. ASSUME NEW i \in 1..(Len(q) - 1) PROVE e[i] = q[i]
    <3>1. i \in 1..((Len(q) - 1) - 1 + 1) /\ 1 + i - 1 = i
      BY <1>0
    <3>2. e[i] = q[1 + i - 1]
      BY ONLY <2>2, <3>1
    <3> QED
      BY ONLY <3>1, <3>2
  <2> QED
    BY <2>3, <2>4 DEF e
<1>2. /\ Front(q) \in Seq(S) /\ Len(Front(q)) = Len(q) - 1
      /\ \A i \in 1..(Len(q) - 1) : Front(q)[i] = q[i]
  BY <1>1 DEF Front
<1>3. Last(q) = q[Len(q)] /\ Last(q) \in S /\ Contains(q, Last(q))
  BY <1>0 DEF Last, Contains
<1>4. \A i, j \in 1..Len(q) : q[i] = q[j] => i = j
  BY DEF IsInjective
<1>5. IsInjective(Front(q))
  BY <1>0, <1>2, <1>4 DEF IsInjective
<1>6. ASSUME NEW u \in S
      PROVE  Contains(Front(q), u) <=> (u # Last(q) /\ Contains(q, u))
  <2>1. Contains(Front(q), u) <=> \E i \in 1..(Len(q) - 1) : q[i] = u
    BY <1>0, <1>2 DEF Contains
  <2>2. Contains(q, u) <=> \E i \in 1..Len(q) : q[i] = u
    BY DEF Contains
  <2>3. ASSUME NEW i \in 1..(Len(q) - 1) PROVE i \in 1..Len(q) /\ q[i] # q[Len(q)]
    BY <1>0, <1>4
  <2>4. ASSUME NEW i \in 1..Len(q), q[i] # q[Len(q)] PROVE i \in 1..(Len(q) - 1)
    BY <1>0, <2>4
  <2> QED
    BY <1>3, <2>1, <2>2, <2>3, <2>4
<1> QED
  BY <1>2, <1>3, <1>5, <1>6

-----------------------------------------------------------------------------
(* Sending *)

\* _mbox_message_put() finds receiver r: what it changes.
Matched(s, m, r) ==
  /\ Contains(rxq, r)
  /\ rxq' \in Seq(Threads) /\ IsInjective(rxq')
  /\ \A u \in Threads : Contains(rxq', u) <=> (u # r /\ Contains(rxq, u))
  /\ timed' = timed \ {r}
  /\ tstate' \in [Threads -> {"ready", "pending"}]
  /\ \A u \in Threads : tstate'[u] = IF u = r THEN "ready" ELSE IF u = s THEN "pending" ELSE tstate[u]
  /\ rx' \in [Threads -> RxSet]
  /\ rx'[r].from = s /\ rx'[r].kind = m.kind
  /\ \A u \in Threads \ {r} : rx'[u] = rx[u]
  /\ txq' = txq /\ ahead' = ahead

\* It does not: the sender joins tx_msg_queue.
Joined(s, timeout) ==
  /\ txq' \in Seq(Senders) /\ IsInjective(txq')
  /\ \A u \in Senders : Contains(txq', u) <=> (u = s \/ Contains(txq, u))
  /\ timed' = IF timeout = "timed" THEN timed \cup {s} ELSE timed
  /\ tstate' \in [Threads -> {"ready", "pending"}]
  /\ \A u \in Threads : tstate'[u] = IF u = s THEN "pending" ELSE tstate[u]
  /\ rxq' = rxq /\ rx' = rx

\* The position of the receiver that is chosen.
LEMMA SuitsLeast ==
  ASSUME ListsInv, NEW m, Suits(m) # {}
  PROVE  /\ Min(Suits(m)) \in 1..Len(rxq) /\ Min(Suits(m)) \in Suits(m)
         /\ rxq[Min(Suits(m))] \in Threads
         /\ Contains(rxq, rxq[Min(Suits(m))])
<1>1. Len(rxq) \in Nat /\ DOMAIN rxq = 1..Len(rxq) /\ \A i \in 1..Len(rxq) : rxq[i] \in Threads
  BY DEF ListsInv
<1>2. Suits(m) \in SUBSET (1..Len(rxq))
  BY <1>1 DEF Suits
<1>3. Min(Suits(m)) \in Suits(m)
  BY ONLY <1>1, <1>2, Suits(m) # {}, LeastPosition
<1> QED
  BY <1>1, <1>2, <1>3 DEF Contains

\* The match, by what it changes.
LEMMA PutToReceiverIs ==
  ASSUME ListsInv, TypesInv, NEW s \in Senders, NEW m \in MsgSet, PutToReceiver(s, m)
  PROVE  \E r \in Threads : Matched(s, m, r)
<1>0. /\ rxq \in Seq(Threads) /\ IsInjective(rxq)
      /\ rx \in [Threads -> RxSet] /\ tstate \in [Threads -> {"ready", "pending"}]
  BY DEF ListsInv, TypesInv
<1>1. Suits(m) # {}
  BY DEF PutToReceiver
<1>2. PICK r \in Threads : r = rxq[Min(Suits(m))] /\ Contains(rxq, r)
  BY <1>1, SuitsLeast
<1>3. /\ rxq' = Without(rxq, r)
      /\ timed' = timed \ {r}
      /\ tstate' = [u \in Threads |-> IF u = r THEN "ready" ELSE IF u = s THEN "pending" ELSE tstate[u]]
      /\ rx' = [rx EXCEPT ![r] = MatchedRx(s, m, rx[r].keep)]
      /\ txq' = txq /\ ahead' = ahead
  BY <1>2 DEF PutToReceiver
<1>4. /\ Without(rxq, r) \in Seq(Threads) /\ IsInjective(Without(rxq, r))
      /\ \A u \in Threads : Contains(Without(rxq, r), u) <=> (u # r /\ Contains(rxq, u))
  BY ONLY <1>0, WithoutMembers
<1>5. rx[r].keep \in BOOLEAN
  BY <1>0 DEF RxSet
<1>6. MatchedRx(s, m, rx[r].keep) \in RxSet
  BY <1>5 DEF MatchedRx, RxSet, MsgSet
<1>7. /\ rx' \in [Threads -> RxSet] /\ \A u \in Threads \ {r} : rx'[u] = rx[u]
      /\ rx'[r] = MatchedRx(s, m, rx[r].keep)
  BY <1>0, <1>3, <1>6
<1>8. rx'[r].from = s /\ rx'[r].kind = m.kind
  BY <1>7 DEF MatchedRx
<1>9. /\ tstate' \in [Threads -> {"ready", "pending"}]
      /\ \A u \in Threads : tstate'[u] = IF u = r THEN "ready" ELSE IF u = s THEN "pending" ELSE tstate[u]
  BY <1>0, <1>3
<1> QED
  BY <1>2, <1>3, <1>4, <1>7, <1>8, <1>9 DEF Matched

\* The wait of a sender, by what it changes.
LEMMA PutOnQueueIs ==
  ASSUME ListsInv, TypesInv, NEW s \in Senders, NEW m, NEW p \in Int, NEW timeout,
         PutOnQueue(s, m, p, timeout), ~Contains(txq, s)
  PROVE  Joined(s, timeout)
<1>0. /\ txq \in Seq(Senders) /\ IsInjective(txq) /\ prio \in [Senders -> Int]
      /\ tstate \in [Threads -> {"ready", "pending"}] /\ Senders \subseteq Senders
  BY DEF ListsInv, TypesInv
<1>1. /\ Queued(txq, s, p) \in Seq(Senders) /\ IsInjective(Queued(txq, s, p))
      /\ \A u \in Senders : Contains(Queued(txq, s, p), u) <=> (u = s \/ Contains(txq, u))
  BY ONLY <1>0, s \in Senders, p \in Int, ~Contains(txq, s), QueuedMembers
<1> QED
  BY <1>0, <1>1 DEF PutOnQueue, Joined

\* A ready thread is on no queue and no receiver holds its message.
LEMMA ReadyNotWaiting ==
  ASSUME Acc, NEW t \in Threads, tstate[t] = "ready"
  PROVE  /\ ~Contains(txq, t) /\ ~Contains(rxq, t) /\ ~Contains(poolq, t)
         /\ \A r \in Threads : rx[r].from # t
         /\ t \notin timed
BY DEF Acc, ThreadInv, Waiting

\* What happens to anything but descriptors does not matter to theirs.
LEMMA AsyncStay ==
  ASSUME AsyncInv,
         \A a \in Asyncs :
           /\ Contains(txq', a) <=> Contains(txq, a)
           /\ Contains(free', a) <=> Contains(free, a)
           /\ \A u \in Threads : (rx'[u].from = a <=> rx[u].from = a) /\ (hand'[u] = a <=> hand[u] = a)
  PROVE  AsyncInv'
BY DEF AsyncInv

\* A match keeps the accounts: sender s was in nobody's hands but those of t,
\* who runs: t is s itself, or has s in its hand and is about to let it go.
LEMMA MatchedAcc ==
  ASSUME Acc, TypesInv, NEW t \in Threads, NEW s \in Senders, NEW m, NEW r \in Threads,
         tstate[t] = "ready", Matched(s, m, r), UNCHANGED <<free, poolq>>,
         \/ s = t /\ pc[t] = "out" /\ UNCHANGED <<pc, hand>>
         \/ /\ s \in Asyncs /\ hand[t] = s
            /\ pc' = [pc EXCEPT ![t] = "out"] /\ hand' = [hand EXCEPT ![t] = Null]
  PROVE  Acc'
<1>0. /\ Threads \subseteq Senders /\ Null \notin Senders /\ Null \notin Sems /\ Null \notin Asyncs
      /\ \A a \in Asyncs : a \notin Threads /\ a \notin Sems
      /\ tstate \in [Threads -> {"ready", "pending"}]
      /\ pc \in [Threads -> {"out", "put", "get", "give", "clear", "clearGive"}]
      /\ hand \in [Threads -> Asyncs \cup Sems \cup {Null}]
      /\ rx \in [Threads -> RxSet]
  BY Distinct DEF TypesInv, Senders
<1>1. /\ ~Contains(txq, t) /\ ~Contains(rxq, t) /\ ~Contains(poolq, t)
      /\ \A u \in Threads : rx[u].from # t
      /\ t \notin timed /\ r # t
  BY ReadyNotWaiting DEF Matched
<1>2. /\ rx[r].from = Null /\ pc[r] = "get" /\ hand[r] \notin Asyncs /\ ~Contains(txq, r) /\ ~Contains(poolq, r)
      /\ Contains(rxq, r) /\ \A u \in Threads : rx[u].from # r
  BY DEF Matched, Acc, ThreadInv, HandInv
<1>3. ~Contains(txq, s) /\ (\A u \in Threads : rx[u].from # s) /\ (s \in Asyncs => ~Contains(free, s))
  BY <1>0, <1>1 DEF Acc, AsyncInv
<1>4. /\ \A u \in Threads : pc'[u] = (IF u = t THEN "out" ELSE pc[u])
      /\ \A u \in Threads : hand'[u] = (IF u = t /\ s # t THEN Null ELSE hand[u])
  BY <1>0
<1>5. /\ \A u \in Threads : rx'[u].from = IF u = r THEN s ELSE rx[u].from
      /\ \A u \in Threads : Contains(rxq', u) <=> (u # r /\ Contains(rxq, u))
      /\ \A u \in Threads : tstate'[u] = IF u = r THEN "ready" ELSE IF u = s THEN "pending" ELSE tstate[u]
      /\ txq' = txq /\ free' = free /\ poolq' = poolq /\ timed' = timed \ {r}
  BY DEF Matched
<1>6. ThreadInv'
  <2> SUFFICES ASSUME NEW v \in Threads
        PROVE /\ tstate'[v] = "pending" <=> (Contains(txq, v) \/ Contains(rxq', v) \/ Contains(poolq, v) \/ \E u \in Threads : rx'[u].from = v)
              /\ Contains(txq, v) => pc'[v] = "out"
              /\ Contains(rxq', v) => pc'[v] = "get" /\ rx'[v].from = Null
              /\ Contains(poolq, v) => pc'[v] = "put" /\ hand'[v] = Null
              /\ (\E u \in Threads : rx'[u].from = v) => pc'[v] = "out"
              /\ pc'[v] = "get" => rx'[v].from # Null \/ Contains(rxq', v)
              /\ v \in timed' => Contains(txq, v) \/ Contains(rxq', v)
    BY <1>5 DEF ThreadInv, Waiting
  <2>1. /\ tstate[v] = "pending" <=> (Contains(txq, v) \/ Contains(rxq, v) \/ Contains(poolq, v) \/ \E u \in Threads : rx[u].from = v)
        /\ Contains(txq, v) => pc[v] = "out"
        /\ Contains(rxq, v) => pc[v] = "get" /\ rx[v].from = Null
        /\ Contains(poolq, v) => pc[v] = "put" /\ hand[v] = Null
        /\ (\E u \in Threads : rx[u].from = v) => pc[v] = "out"
        /\ pc[v] = "get" => rx[v].from # Null \/ Contains(rxq, v)
        /\ v \in timed => Contains(txq, v) \/ Contains(rxq, v)
    BY DEF Acc, ThreadInv, Waiting
  <2>2. (\E u \in Threads : rx'[u].from = v) <=> (v = s \/ \E u \in Threads : rx[u].from = v)
    BY <1>0, <1>2, <1>5
  <2> QED
    BY <1>0, <1>1, <1>2, <1>3, <1>4, <1>5, <2>1, <2>2
<1>7. HandInv'
  BY <1>0, <1>1, <1>2, <1>4, <1>5 DEF Acc, HandInv
<1>8. HeldInv'
  BY <1>0, <1>2, <1>3, <1>5 DEF Acc, HeldInv
<1>9. AsyncInv'
  <2> SUFFICES ASSUME NEW a \in Asyncs
      PROVE /\ Contains(free, a) \/ Contains(txq, a) \/ (\E v \in Threads : hand'[v] = a)
                 \/ \E u \in Threads : rx'[u].from = a
            /\ Contains(free, a) => /\ ~Contains(txq, a)
                                    /\ \A v \in Threads : hand'[v] # a /\ rx'[v].from # a
            /\ \A v \in Threads : hand'[v] = a =>
                 /\ ~Contains(txq, a)
                 /\ \A u \in Threads : rx'[u].from # a /\ (hand'[u] = a => u = v)
    BY <1>5 DEF AsyncInv
  <2>1. /\ Contains(free, a) \/ Contains(txq, a) \/ (\E v \in Threads : hand[v] = a)
             \/ \E u \in Threads : rx[u].from = a
        /\ Contains(free, a) => /\ ~Contains(txq, a)
                                /\ \A v \in Threads : hand[v] # a /\ rx[v].from # a
        /\ \A v \in Threads : hand[v] = a =>
             /\ ~Contains(txq, a)
             /\ \A u \in Threads : rx[u].from # a /\ (hand[u] = a => u = v)
    BY DEF Acc, AsyncInv
  <2> QED
    BY <1>0, <1>1, <1>2, <1>3, <1>4, <1>5, <2>1
<1> QED
  BY <1>5, <1>6, <1>7, <1>8, <1>9 DEF Acc, PoolInv

\* A wait on tx_msg_queue keeps them too.
LEMMA JoinedAcc ==
  ASSUME Acc, TypesInv, NEW t \in Threads, NEW s \in Senders, NEW timeout,
         tstate[t] = "ready", Joined(s, timeout), UNCHANGED <<free, poolq>>,
         \/ s = t /\ pc[t] = "out" /\ UNCHANGED <<pc, hand>>
         \/ /\ s \in Asyncs /\ hand[t] = s /\ timeout = "forever"
            /\ pc' = [pc EXCEPT ![t] = "out"] /\ hand' = [hand EXCEPT ![t] = Null]
  PROVE  Acc'
<1>0. /\ Threads \subseteq Senders /\ Null \notin Senders /\ Null \notin Sems /\ Null \notin Asyncs
      /\ \A a \in Asyncs : a \notin Threads /\ a \notin Sems /\ a \in Senders
      /\ tstate \in [Threads -> {"ready", "pending"}]
      /\ pc \in [Threads -> {"out", "put", "get", "give", "clear", "clearGive"}]
      /\ hand \in [Threads -> Asyncs \cup Sems \cup {Null}]
      /\ rx \in [Threads -> RxSet]
  BY Distinct DEF TypesInv, Senders
<1>1. /\ ~Contains(txq, t) /\ ~Contains(rxq, t) /\ ~Contains(poolq, t)
      /\ \A u \in Threads : rx[u].from # t
      /\ t \notin timed
  BY ReadyNotWaiting
<1>2. ~Contains(txq, s) /\ (\A u \in Threads : rx[u].from # s) /\ (s \in Asyncs => ~Contains(free, s))
  BY <1>0, <1>1 DEF Acc, AsyncInv
<1>3. /\ \A u \in Threads : pc'[u] = (IF u = t THEN "out" ELSE pc[u])
      /\ \A u \in Threads : hand'[u] = (IF u = t /\ s # t THEN Null ELSE hand[u])
  BY <1>0
<1>4. /\ \A u \in Senders : Contains(txq', u) <=> (u = s \/ Contains(txq, u))
      /\ \A u \in Threads : tstate'[u] = IF u = s THEN "pending" ELSE tstate[u]
      /\ rxq' = rxq /\ rx' = rx /\ free' = free /\ poolq' = poolq
      /\ timed' \subseteq timed \cup {s} /\ (s \in Asyncs => timed' = timed)
  BY <1>0 DEF Joined
<1>5. ThreadInv'
  BY <1>0, <1>1, <1>2, <1>3, <1>4 DEF Acc, ThreadInv, Waiting
<1>6. HandInv'
  BY <1>0, <1>1, <1>3, <1>4 DEF Acc, HandInv
<1>7. HeldInv'
  <2>1. \A r \in Threads : rx[r].from \in Senders \cup {Null}
    BY <1>0 DEF RxSet
  <2> QED
    BY <1>0, <1>2, <1>4, <2>1 DEF Acc, HeldInv
<1>8. AsyncInv'
  BY <1>0, <1>1, <1>2, <1>3, <1>4 DEF Acc, AsyncInv
<1> QED
  BY <1>4, <1>5, <1>6, <1>7, <1>8 DEF Acc, PoolInv

\* k_mbox_put() keeps the invariant.
LEMMA PutOrWaitInv ==
  ASSUME IInv, NEW t \in Threads, Runs(t, "out"), NEW target \in Peers(t), NEW kind \in Kinds,
         NEW p \in Int, NEW timeout, PutOrWait(t, target, kind, p, timeout),
         prio' \in [Senders -> Int]
  PROVE  IInv'
<1> DEFINE m == Msg(target, t, kind, Null)
<1>0. ListsInv /\ TypesInv /\ Acc
  BY DEF IInv
<1>1. m \in MsgSet /\ t \in Senders
  BY Distinct DEF Msg, MsgSet, Peers
<1>2. /\ PutToReceiver(t, m) \/ PutOnQueue(t, m, p, timeout)
      /\ tx' = [tx EXCEPT ![t] = m]
      /\ BlockSent(t, kind)
      /\ UNCHANGED <<free, poolq, callVars, sem, irqLocked, fault>>
  BY DEF PutOrWait
<1> HIDE DEF m
<1>3. /\ tx' \in [Senders -> MsgSet] /\ out' \subseteq Senders
  BY <1>0, <1>1, <1>2 DEF TypesInv, BlockSent
<1>4. tstate[t] = "ready" /\ pc[t] = "out" /\ pc' = pc /\ hand' = hand
  BY <1>2 DEF Runs, callVars
<1>5. CASE PutToReceiver(t, m)
  <2>1. PICK r \in Threads : Matched(t, m, r)
    BY <1>0, <1>1, <1>5, PutToReceiverIs
  <2>2. Acc'
    BY <1>0, <1>1, <1>2, <1>4, <2>1, MatchedAcc
  <2>3. ListsInv'
    BY <1>0, <1>2, <2>1 DEF ListsInv, Matched
  <2>4. TypesInv'
    BY <1>0, <1>2, <1>3, <2>1 DEF TypesInv, Matched, callVars
  <2> QED
    BY <2>2, <2>3, <2>4 DEF IInv
<1>6. CASE PutOnQueue(t, m, p, timeout)
  <2>1. ~Contains(txq, t)
    BY <1>0, <1>4, ReadyNotWaiting
  <2>2. Joined(t, timeout)
    BY <1>0, <1>1, <1>6, <2>1, PutOnQueueIs
  <2>3. Acc'
    BY <1>0, <1>1, <1>2, <1>4, <2>2, JoinedAcc
  <2>4. ListsInv'
    BY <1>0, <1>2, <2>2 DEF ListsInv, Joined
  <2>5. TypesInv'
    BY <1>0, <1>2, <1>3, <2>2 DEF TypesInv, Joined, callVars
  <2> QED
    BY <2>3, <2>4, <2>5 DEF IInv
<1> QED
  BY <1>2, <1>5, <1>6

\* The second half of k_mbox_async_put() keeps it.
LEMMA AsyncPutInv ==
  ASSUME IInv, NEW t \in Threads, AsyncPut(t)
  PROVE  IInv'
<1>0. ListsInv /\ TypesInv /\ Acc
  BY DEF IInv
<1>1. tstate[t] = "ready" /\ pc[t] = "put"
  BY DEF AsyncPut, Runs
<1>2. PICK a \in Asyncs : a = hand[t]
  BY <1>0, <1>1, ReadyNotWaiting DEF Acc, HandInv
<1>3. PICK m \in MsgSet : m = tx[t]
  BY <1>0, Distinct DEF TypesInv
<1>4. /\ prio' = [prio EXCEPT ![a] = AsyncPrio(t, a)]
      /\ PutToReceiver(a, m) \/ PutOnQueue(a, m, AsyncPrio(t, a), "forever")
      /\ tx' = [tx EXCEPT ![a] = m, ![t] = NoMsg]
      /\ BlockSent(a, m.kind)
      /\ pc' = [pc EXCEPT ![t] = "out"]
      /\ hand' = [hand EXCEPT ![t] = Null]
      /\ UNCHANGED <<free, poolq, next, sem, irqLocked, fault>>
  BY <1>2, <1>3 DEF AsyncPut
<1>5. AsyncPrio(t, a) \in Int /\ a \in Senders /\ t \in Senders /\ NoMsg \in MsgSet
  BY <1>0, Distinct DEF TypesInv, AsyncPrio, NoMsg, MsgSet
<1>6. /\ prio' \in [Senders -> Int] /\ tx' \in [Senders -> MsgSet] /\ out' \subseteq Senders
      /\ pc' \in [Threads -> {"out", "put", "get", "give", "clear", "clearGive"}]
      /\ hand' \in [Threads -> Asyncs \cup Sems \cup {Null}]
  BY <1>0, <1>3, <1>4, <1>5 DEF TypesInv, BlockSent
<1>7. CASE PutToReceiver(a, m)
  <2>1. PICK r \in Threads : Matched(a, m, r)
    BY <1>0, <1>5, <1>7, PutToReceiverIs
  <2>2. Acc'
    BY <1>0, <1>1, <1>2, <1>4, <1>5, <2>1, MatchedAcc
  <2>3. ListsInv'
    BY <1>0, <1>4, <2>1 DEF ListsInv, Matched
  <2>4. TypesInv'
    BY <1>0, <1>4, <1>6, <2>1 DEF TypesInv, Matched
  <2> QED
    BY <2>2, <2>3, <2>4 DEF IInv
<1>8. CASE PutOnQueue(a, m, AsyncPrio(t, a), "forever")
  <2>1. ~Contains(txq, a)
    BY <1>0, <1>2 DEF Acc, AsyncInv
  <2>2. Joined(a, "forever")
    BY <1>0, <1>5, <1>8, <2>1, PutOnQueueIs
  <2>3. Acc'
    BY <1>0, <1>1, <1>2, <1>4, <1>5, <2>2, JoinedAcc
  <2>4. ListsInv'
    BY <1>0, <1>4, <2>2 DEF ListsInv, Joined
  <2>5. TypesInv'
    BY <1>0, <1>4, <1>6, <2>2 DEF TypesInv, Joined
  <2> QED
    BY <2>3, <2>4, <2>5 DEF IInv
<1> QED
  BY <1>4, <1>7, <1>8

-----------------------------------------------------------------------------
(* Disposing of a message *)

\* Thread t lets go of the message of s, which it held or has just taken off
\* tx_msg_queue.
Finishes(t, s) ==
  /\ Contains(txq, s) \/ \E r \in Threads : rx[r].from = s
  /\ \A u \in Senders : Contains(txq', u) <=> (u # s /\ Contains(txq, u))
  /\ \A r \in Threads : rx'[r].from = IF rx[r].from = s THEN Null ELSE rx[r].from
  /\ \A r \in Threads : rx[r].from = s => r = t
  /\ rxq' = rxq
  /\ timed' \subseteq timed /\ s \notin timed'

\* _mbox_message_dispose() keeps the accounts.
LEMMA NotifyInv ==
  ASSUME ListsInv, TypesInv, Acc, NEW t \in Threads, NEW s \in Senders, NEW done \in {"out", "clear"},
         tstate[t] = "ready", pc[t] \in {"out", "get", "clear"},
         Notify(t, s, done), Finishes(t, s)
  PROVE  /\ Acc'
         /\ free' \in Seq(Asyncs) /\ IsInjective(free')
         /\ poolq' \in Seq(Threads) /\ IsInjective(poolq')
         /\ tstate' \in [Threads -> {"ready", "pending"}]
         /\ tx' \in [Senders -> MsgSet]
         /\ pc' \in [Threads -> {"out", "put", "get", "give", "clear", "clearGive"}]
         /\ hand' \in [Threads -> Asyncs \cup Sems \cup {Null}]
<1>0. /\ Threads \subseteq Senders /\ Null \notin Senders /\ Null \notin Sems /\ Null \notin Asyncs
      /\ \A a \in Asyncs : a \notin Threads /\ a \notin Sems /\ a \in Senders
      /\ tstate \in [Threads -> {"ready", "pending"}]
      /\ pc \in [Threads -> {"out", "put", "get", "give", "clear", "clearGive"}]
      /\ hand \in [Threads -> Asyncs \cup Sems \cup {Null}]
      /\ tx \in [Senders -> MsgSet] /\ tx[s].sem \in Sems \cup {Null} /\ NoMsg \in MsgSet
      /\ free \in Seq(Asyncs) /\ IsInjective(free) /\ poolq \in Seq(Threads) /\ IsInjective(poolq)
  BY Distinct DEF TypesInv, ListsInv, Senders, MsgSet, NoMsg
<1>1. /\ ~Contains(txq, t) /\ ~Contains(rxq, t) /\ ~Contains(poolq, t)
      /\ \A u \in Threads : rx[u].from # t
      /\ t \notin timed /\ hand[t] = Null /\ s # t
  BY <1>0, ReadyNotWaiting DEF Acc, HandInv, Finishes
<1>2. /\ Contains(txq, s) \/ \E r \in Threads : rx[r].from = s
      /\ \A u \in Senders : Contains(txq', u) <=> (u # s /\ Contains(txq, u))
      /\ \A r \in Threads : rx'[r].from = IF rx[r].from = s THEN Null ELSE rx[r].from
      /\ \A r \in Threads : rx[r].from = s => r = t
      /\ rxq' = rxq /\ timed' \subseteq timed /\ s \notin timed'
  BY DEF Finishes
<1>3. /\ ~Contains(txq', s) /\ \A r \in Threads : rx'[r].from # s
      /\ \A u \in Threads \ {s} : (\E r \in Threads : rx'[r].from = u) <=> (\E r \in Threads : rx[r].from = u)
  BY <1>0, <1>2
<1>a. \A a \in Asyncs \ {s} : /\ Contains(txq', a) <=> Contains(txq, a)
                             /\ \A r \in Threads : rx'[r].from = a <=> rx[r].from = a
  BY <1>0, <1>2
<1>4. tx' \in [Senders -> MsgSet]
  BY <1>0 DEF Notify
<1>5. HeldInv'
  <2>1. \A r \in Threads : rx[r].from \in Senders \cup {Null}
    BY DEF TypesInv, RxSet
  <2> QED
    BY <1>0, <1>2, <1>3, <2>1 DEF Acc, HeldInv
<1>6. CASE s \in Threads
  <2>1. /\ tstate' = [tstate EXCEPT ![s] = "ready"] /\ pc' = [pc EXCEPT ![t] = done]
        /\ free' = free /\ poolq' = poolq /\ hand' = hand
    BY <1>0, <1>6 DEF Notify
  <2>2. /\ \A u \in Threads : tstate'[u] = IF u = s THEN "ready" ELSE tstate[u]
        /\ \A u \in Threads : pc'[u] = IF u = t THEN done ELSE pc[u]
    BY <1>0, <2>1
  <2>3. pc[s] = "out" /\ ~Contains(rxq, s) /\ ~Contains(poolq, s)
    BY <1>2, <1>6 DEF Acc, ThreadInv
  <2>4. ThreadInv'
    BY <1>0, <1>1, <1>2, <1>3, <1>6, <2>1, <2>2, <2>3 DEF Acc, ThreadInv, Waiting
  <2>5. HandInv'
    BY <1>0, <1>1, <2>1, <2>2 DEF Acc, HandInv
  <2>6. AsyncInv'
    <3>1. \A a \in Asyncs : a # s
      BY <1>0, <1>6
    <3>2. ASSUME NEW a \in Asyncs
          PROVE  /\ Contains(txq', a) <=> Contains(txq, a)
                 /\ Contains(free', a) <=> Contains(free, a)
                 /\ \A u \in Threads : (rx'[u].from = a <=> rx[u].from = a) /\ (hand'[u] = a <=> hand[u] = a)
      BY <1>a, <2>1, <3>1
    <3> QED
      BY <3>2, AsyncStay DEF Acc
  <2> QED
    BY <1>0, <1>4, <1>5, <2>1, <2>4, <2>5, <2>6 DEF Acc, PoolInv
<1>7. ASSUME s \in Asyncs
      PROVE  /\ ~Contains(free, s) /\ \A u \in Threads : hand[u] # s
             /\ pc' \in [Threads -> {"out", "put", "get", "give", "clear", "clearGive"}]
             /\ pc'[t] \in {"out", "clear", "give", "clearGive"}
             /\ tx[s].sem = Null => pc'[t] \in {"out", "clear"}
             /\ tx[s].sem # Null => pc'[t] \in {"give", "clearGive"}
             /\ \A u \in Threads \ {t} : pc'[u] = pc[u]
  <2>1. ~Contains(free, s) /\ \A u \in Threads : hand[u] # s
    BY <1>2, <1>7 DEF Acc, AsyncInv
  <2>2. pc' = [pc EXCEPT ![t] = IF tx[s].sem = Null THEN done
                                ELSE IF done = "clear" THEN "clearGive" ELSE "give"]
    BY <1>7 DEF Notify
  <2> QED
    BY <1>0, <2>1, <2>2
<1>8. CASE s \in Asyncs /\ poolq = << >>
  <2>1. /\ free' = Append(free, s) /\ poolq' = poolq /\ tstate' = tstate
        /\ hand' = [u \in Threads |-> IF u = t THEN tx[s].sem ELSE hand[u]]
    BY <1>8 DEF Notify, Push
  <2>2. /\ Append(free, s) \in Seq(Asyncs) /\ IsInjective(Append(free, s))
        /\ \A a \in Asyncs : Contains(Append(free, s), a) <=> (a = s \/ Contains(free, a))
    BY ONLY <1>0, <1>7, <1>8, AppendMembers
  <2>3. /\ hand' \in [Threads -> Asyncs \cup Sems \cup {Null}]
        /\ \A u \in Threads : hand'[u] = IF u = t THEN tx[s].sem ELSE hand[u]
    BY <1>0, <2>1
  <2>4. ThreadInv'
    BY <1>0, <1>1, <1>2, <1>3, <1>7, <1>8, <2>1, <2>3 DEF Acc, ThreadInv, Waiting
  <2>5. HandInv'
    BY <1>0, <1>1, <1>7, <1>8, <2>1, <2>3 DEF Acc, HandInv
  <2>6. AsyncInv'
    <3>1. ASSUME NEW a \in Asyncs, NEW u \in Threads
          PROVE  hand'[u] = a <=> a # s /\ hand[u] = a
      BY <1>0, <1>1, <1>7, <1>8, <2>3
    <3> QED
      BY <1>3, <1>8, <1>a, <2>1, <2>2, <3>1 DEF Acc, AsyncInv
  <2> QED
    BY <1>0, <1>4, <1>5, <1>7, <1>8, <2>1, <2>2, <2>3, <2>4, <2>5, <2>6 DEF Acc, PoolInv
<1>9. CASE s \in Asyncs /\ poolq # << >>
  <2>1. /\ Head(poolq) \in Threads /\ Contains(poolq, Head(poolq))
        /\ Tail(poolq) \in Seq(Threads) /\ IsInjective(Tail(poolq))
        /\ \A u \in Threads : Contains(Tail(poolq), u) <=> (u # Head(poolq) /\ Contains(poolq, u))
    BY ONLY <1>0, <1>9, TailMembers
  <2>2. PICK h \in Threads : h = Head(poolq)
    BY <2>1
  <2>3. /\ free' = free /\ poolq' = Tail(poolq) /\ tstate' = [tstate EXCEPT ![h] = "ready"]
        /\ hand' = [u \in Threads |-> IF u = t THEN tx[s].sem ELSE IF u = h THEN s ELSE hand[u]]
    BY <1>9, <2>2 DEF Notify, Push
  <2>4. /\ hand' \in [Threads -> Asyncs \cup Sems \cup {Null}]
        /\ \A u \in Threads : hand'[u] = IF u = t THEN tx[s].sem ELSE IF u = h THEN s ELSE hand[u]
        /\ tstate' \in [Threads -> {"ready", "pending"}]
        /\ \A u \in Threads : tstate'[u] = IF u = h THEN "ready" ELSE tstate[u]
    BY <1>0, <1>9, <2>3
  <2>5. /\ \A u \in Threads : Contains(poolq', u) <=> (u # h /\ Contains(poolq, u))
        /\ Contains(poolq, h) /\ h # t
    BY <1>1, <2>1, <2>2, <2>3
  <2>6. /\ pc[h] = "put" /\ hand[h] = Null /\ ~Contains(txq, h) /\ ~Contains(rxq, h)
        /\ \A r \in Threads : rx[r].from # h
    BY <2>5 DEF Acc, ThreadInv
  <2>7. ThreadInv'
    BY <1>0, <1>1, <1>2, <1>3, <1>7, <1>9, <2>3, <2>4, <2>5, <2>6 DEF Acc, ThreadInv, Waiting
  <2>8. HandInv'
    BY <1>0, <1>1, <1>7, <1>9, <2>3, <2>4, <2>5, <2>6 DEF Acc, HandInv
  <2>9. AsyncInv'
    <3>1. ASSUME NEW a \in Asyncs, NEW u \in Threads
          PROVE  hand'[u] = a <=> (a = s /\ u = h) \/ (a # s /\ hand[u] = a)
      BY <1>0, <1>1, <1>7, <1>9, <2>4, <2>5, <2>6
    <3> QED
      BY <1>3, <1>7, <1>9, <1>a, <2>3, <3>1 DEF Acc, AsyncInv
  <2> QED
    BY <1>0, <1>4, <1>5, <1>7, <1>9, <2>1, <2>3, <2>4, <2>7, <2>8, <2>9 DEF Acc, PoolInv
<1> QED
  BY <1>6, <1>8, <1>9 DEF Senders

\* A receiver disposes of the message it holds.
LEMMA DisposeInv ==
  ASSUME IInv, NEW t \in Threads, Dispose(t), tstate[t] = "ready", pc[t] \in {"out", "get"},
         rx[t].from # Null
  PROVE  IInv'
<1>0. ListsInv /\ TypesInv /\ Acc
  BY DEF IInv
<1>1. PICK s \in Senders : s = rx[t].from
  BY <1>0 DEF TypesInv, RxSet
<1>2. /\ Notify(t, s, "out") /\ rx' = [rx EXCEPT ![t] = NoRx] /\ out' = Released(t)
      /\ UNCHANGED <<txq, rxq, prio, timed, next, sem, irqLocked, ahead, fault>>
  BY <1>1 DEF Dispose
<1>3. /\ rx' \in [Threads -> RxSet] /\ \A r \in Threads : rx'[r].from = IF r = t THEN Null ELSE rx[r].from
  BY <1>0, <1>2 DEF TypesInv, NoRx, RxSet
<1>4. Finishes(t, s)
  <2>1. \A r \in Threads : rx[r].from = s => r = t
    BY <1>0, <1>1 DEF Acc, HeldInv
  <2>2. ~Contains(txq, s)
    BY <1>0, <1>1 DEF Acc, HeldInv
  <2>3. s \notin timed
    <3>1. timed \subseteq Threads
      BY <1>0 DEF TypesInv
    <3> QED
      BY <1>0, <1>1, <2>2, <3>1 DEF Acc, ThreadInv
  <2> QED
    BY <1>1, <1>2, <1>3, <2>1, <2>2, <2>3 DEF Finishes
<1>5. out' \subseteq Senders
  BY <1>0, <1>2 DEF Released, TypesInv
<1>6. /\ Acc'
      /\ free' \in Seq(Asyncs) /\ IsInjective(free')
      /\ poolq' \in Seq(Threads) /\ IsInjective(poolq')
      /\ tstate' \in [Threads -> {"ready", "pending"}]
      /\ tx' \in [Senders -> MsgSet]
      /\ pc' \in [Threads -> {"out", "put", "get", "give", "clear", "clearGive"}]
      /\ hand' \in [Threads -> Asyncs \cup Sems \cup {Null}]
  BY <1>0, <1>2, <1>4, NotifyInv
<1> QED
  BY <1>0, <1>2, <1>3, <1>5, <1>6 DEF IInv, ListsInv, TypesInv

\* A thread that goes on and touches no queue: only its program counter, what
\* it holds in its hand, and what the accounts do not depend on.
LEMMA StepInv ==
  ASSUME IInv, NEW t \in Threads, NEW there \in {"out", "clear"},
         tstate[t] = "ready", pc[t] # "put", pc' = [pc EXCEPT ![t] = there],
         hand' = [hand EXCEPT ![t] = Null],
         next' \in [Threads -> Senders \cup {Null}], sem' \in [Sems -> 0..1],
         irqLocked' \in Threads \cup {Null},
         UNCHANGED <<queueVars, tstate, timed, tx, rx, out, fault>>
  PROVE  IInv'
<1>0. ListsInv /\ TypesInv /\ Acc
  BY DEF IInv
<1>1. /\ txq' = txq /\ rxq' = rxq /\ free' = free /\ poolq' = poolq /\ prio' = prio
      /\ tstate' = tstate /\ timed' = timed /\ tx' = tx /\ rx' = rx /\ out' = out /\ fault' = fault
  BY DEF queueVars
<1>2. /\ pc' \in [Threads -> {"out", "put", "get", "give", "clear", "clearGive"}]
      /\ hand' \in [Threads -> Asyncs \cup Sems \cup {Null}]
      /\ \A u \in Threads : pc'[u] = IF u = t THEN there ELSE pc[u]
      /\ \A u \in Threads : hand'[u] = IF u = t THEN Null ELSE hand[u]
  BY <1>0 DEF TypesInv
<1>3. /\ Null \notin Asyncs /\ Null \notin Sems /\ (hand[t] \notin Asyncs)
      /\ ~Contains(txq, t) /\ ~Contains(rxq, t) /\ ~Contains(poolq, t)
      /\ \A u \in Threads : rx[u].from # t
  BY <1>0, Distinct, ReadyNotWaiting DEF Senders, Acc, HandInv
<1>4. ThreadInv'
  BY <1>0, <1>1, <1>2, <1>3 DEF Acc, ThreadInv, Waiting
<1>5. HandInv'
  BY <1>0, <1>1, <1>2, <1>3 DEF Acc, HandInv
<1>6. AsyncInv'
  <2>1. \A a \in Asyncs, u \in Threads : hand'[u] = a <=> hand[u] = a
    BY <1>2, <1>3
  <2> QED
    BY <1>0, <1>1, <2>1 DEF Acc, AsyncInv
<1>7. HeldInv' /\ PoolInv'
  BY <1>0, <1>1 DEF Acc, HeldInv, PoolInv
<1> QED
  BY <1>0, <1>1, <1>2, <1>4, <1>5, <1>6, <1>7 DEF IInv, ListsInv, TypesInv, Acc

\* The steps of a receiver keep the invariant, and so do those of a thread that
\* gives a semaphore and of one that starts or ends a walk over the queue.
LEMMA SmallStepsInv ==
  ASSUME IInv, NEW t \in Threads,
         DataCheck(t) \/ DataGet(t) \/ Give(t) \/ ClearStart(t) \/ ClearEnd(t)
  PROVE  IInv'
<1>0. /\ ListsInv /\ TypesInv /\ Acc
      /\ hand \in [Threads -> Asyncs \cup Sems \cup {Null}] /\ sem \in [Sems -> 0..1]
      /\ next \in [Threads -> Senders \cup {Null}] /\ irqLocked \in Threads \cup {Null}
      /\ txq \in Seq(Senders)
  BY DEF IInv, TypesInv, ListsInv
<1>1. ASSUME pc[t] \in {"out", "get", "clear"}, UNCHANGED hand
      PROVE  hand' = [hand EXCEPT ![t] = Null]
  <2>1. hand[t] = Null
    BY <1>0, <1>1 DEF Acc, HandInv
  <2> QED
    BY <1>0, <1>1, <2>1
<1>2. CASE DataCheck(t)
  <2>1. tstate[t] = "ready" /\ pc[t] = "get"
    BY <1>2 DEF DataCheck, Runs
  <2>2. rx[t].from # Null
    BY <1>0, <2>1, ReadyNotWaiting DEF Acc, ThreadInv
  <2>3. CASE ~rx[t].keep
    BY <1>2, <2>1, <2>2, <2>3, DisposeInv DEF DataCheck
  <2>4. CASE rx[t].keep
    <3>1. /\ pc' = [pc EXCEPT ![t] = "out"]
          /\ UNCHANGED <<queueVars, tstate, timed, tx, rx, hand, next, sem, irqLocked, out, fault>>
      BY <1>2, <2>4 DEF DataCheck
    <3> QED
      BY <1>0, <1>1, <2>1, <3>1, StepInv
  <2> QED
    BY <2>3, <2>4
<1>3. CASE DataGet(t)
  BY <1>3, DisposeInv DEF DataGet, Runs
<1>4. CASE Give(t)
  <2>1. tstate[t] = "ready" /\ pc[t] \in {"give", "clearGive"}
    BY <1>4 DEF Give, Runs
  <2>2. PICK there \in {"out", "clear"} : pc' = [pc EXCEPT ![t] = there]
    BY <1>4 DEF Give
  <2>3. irqLocked' \in Threads \cup {Null}
    BY <1>0, <1>4 DEF Give
  <2>4. sem' \in [Sems -> 0..1]
    <3>1. hand[t] \in Sems
      BY <1>0, <2>1 DEF Acc, HandInv
    <3> QED
      BY <1>0, <1>4, <3>1 DEF Give
  <2>5. /\ hand' = [hand EXCEPT ![t] = Null]
        /\ UNCHANGED <<queueVars, tstate, timed, tx, rx, next, out, fault>>
    BY <1>4 DEF Give
  <2> QED
    BY <1>0, <2>1, <2>2, <2>3, <2>4, <2>5, StepInv
<1>5. CASE ClearStart(t)
  <2>1. tstate[t] = "ready" /\ pc[t] = "out"
    BY <1>5 DEF ClearStart, Runs
  <2>2. next' \in [Threads -> Senders \cup {Null}]
    <3>1. (IF txq = << >> THEN Null ELSE Head(txq)) \in Senders \cup {Null}
      BY <1>0
    <3> QED
      BY <1>0, <1>5, <3>1 DEF ClearStart
  <2>3. /\ pc' = [pc EXCEPT ![t] = "clear"] /\ irqLocked' = t
        /\ UNCHANGED <<queueVars, tstate, timed, tx, rx, hand, sem, out, fault>>
    BY <1>5 DEF ClearStart
  <2> QED
    BY <1>0, <1>1, <2>1, <2>2, <2>3, StepInv
<1>6. CASE ClearEnd(t)
  <2>1. tstate[t] = "ready" /\ pc[t] = "clear"
    BY <1>6 DEF ClearEnd, Runs
  <2>2. /\ pc' = [pc EXCEPT ![t] = "out"] /\ irqLocked' = Null
        /\ UNCHANGED <<queueVars, tstate, timed, tx, rx, hand, next, sem, out, fault>>
    BY <1>6 DEF ClearEnd
  <2> QED
    BY <1>0, <1>1, <2>1, <2>2, StepInv
<1> QED
  BY <1>2, <1>3, <1>4, <1>5, <1>6

-----------------------------------------------------------------------------
(* The other steps *)

\* k_stack_pop(&async_msg_free) takes a descriptor or waits for one.
LEMMA AsyncAllocInv ==
  ASSUME IInv, NEW t \in Threads, NEW target \in Peers(t), NEW kind \in Kinds,
         NEW s \in Sems \cup {Null}, AsyncAlloc(t, target, kind, s)
  PROVE  IInv'
<1>0. /\ ListsInv /\ TypesInv /\ Acc
      /\ pc \in [Threads -> {"out", "put", "get", "give", "clear", "clearGive"}]
      /\ hand \in [Threads -> Asyncs \cup Sems \cup {Null}]
      /\ tstate \in [Threads -> {"ready", "pending"}]
      /\ tx \in [Senders -> MsgSet] /\ prio \in [Senders -> Int]
      /\ free \in Seq(Asyncs) /\ IsInjective(free) /\ poolq \in Seq(Threads) /\ IsInjective(poolq)
      /\ Threads \subseteq Senders /\ Null \notin Asyncs /\ Null \notin Sems
      /\ \A a \in Asyncs : a \notin Threads /\ a \notin Sems
  BY Distinct DEF IInv, TypesInv, ListsInv, Senders
<1>1. tstate[t] = "ready" /\ pc[t] = "out"
  BY DEF AsyncAlloc, Runs
<1>2. /\ ~Contains(txq, t) /\ ~Contains(rxq, t) /\ ~Contains(poolq, t)
      /\ \A u \in Threads : rx[u].from # t
      /\ t \notin timed /\ hand[t] = Null
  BY <1>0, <1>1, ReadyNotWaiting DEF Acc, HandInv
<1>3. tx' \in [Senders -> MsgSet]
  <2>1. Msg(target, t, kind, s) \in MsgSet
    BY DEF Msg, MsgSet, Peers
  <2>2. tx' = [tx EXCEPT ![t] = Msg(target, t, kind, s)]
    BY DEF AsyncAlloc
  <2> QED
    BY <1>0, <2>1, <2>2
<1>4. /\ pc' \in [Threads -> {"out", "put", "get", "give", "clear", "clearGive"}]
      /\ \A u \in Threads : pc'[u] = IF u = t THEN "put" ELSE pc[u]
      /\ UNCHANGED <<txq, rxq, prio, timed, rx, next, sem, irqLocked, out, fault>>
  BY <1>0 DEF AsyncAlloc
<1>5. HeldInv'
  BY <1>0, <1>4 DEF Acc, HeldInv
<1>6. CASE free # << >>
  <2>1. /\ Last(free) \in Asyncs /\ Contains(free, Last(free))
        /\ Front(free) \in Seq(Asyncs) /\ IsInjective(Front(free))
        /\ \A u \in Asyncs : Contains(Front(free), u) <=> (u # Last(free) /\ Contains(free, u))
    BY ONLY <1>0, <1>6, FrontMembers
  <2>2. PICK a \in Asyncs : a = Last(free)
    BY <2>1
  <2>3. /\ hand' = [hand EXCEPT ![t] = a] /\ free' = Front(free) /\ poolq' = poolq /\ tstate' = tstate
    BY <1>6, <2>2 DEF AsyncAlloc
  <2>4. /\ hand' \in [Threads -> Asyncs \cup Sems \cup {Null}]
        /\ \A u \in Threads : hand'[u] = IF u = t THEN a ELSE hand[u]
        /\ \A b \in Asyncs : Contains(free', b) <=> (b # a /\ Contains(free, b))
        /\ poolq = << >>
    BY <1>0, <1>6, <2>1, <2>2, <2>3 DEF Acc, PoolInv
  <2>5. ThreadInv'
    BY <1>0, <1>1, <1>2, <1>4, <2>3, <2>4 DEF Acc, ThreadInv, Waiting
  <2>6. HandInv'
    BY <1>0, <1>2, <1>4, <2>3, <2>4 DEF Acc, HandInv
  <2>7. AsyncInv'
    <3>1. Contains(free, a)
      BY <2>1, <2>2
    <3>2. ~Contains(txq, a) /\ \A u \in Threads : hand[u] # a /\ rx[u].from # a
      BY <1>0, <3>1 DEF Acc, AsyncInv
    <3>3. \A b \in Asyncs, u \in Threads : hand'[u] = b <=> (u = t /\ b = a) \/ (b # a /\ hand[u] = b)
      BY <1>0, <1>2, <2>4, <3>2
    <3> QED
      BY <1>0, <1>4, <2>4, <3>2, <3>3 DEF Acc, AsyncInv
  <2> QED
    BY <1>0, <1>3, <1>4, <1>5, <2>1, <2>3, <2>4, <2>5, <2>6, <2>7
       DEF IInv, Acc, ListsInv, TypesInv, PoolInv
<1>7. CASE free = << >>
  <2>1. prio[t] \in Int /\ ~Contains(poolq, t)
    BY <1>0, <1>2
  <2>2. /\ Queued(poolq, t, prio[t]) \in Seq(Threads) /\ IsInjective(Queued(poolq, t, prio[t]))
        /\ \A u \in Threads : Contains(Queued(poolq, t, prio[t]), u) <=> (u = t \/ Contains(poolq, u))
    BY ONLY <1>0, <2>1, t \in Threads, QueuedMembers
  <2>3. /\ poolq' = Queued(poolq, t, prio[t]) /\ tstate' = [tstate EXCEPT ![t] = "pending"]
        /\ free' = free /\ hand' = hand
    BY <1>7 DEF AsyncAlloc
  <2>4. /\ tstate' \in [Threads -> {"ready", "pending"}]
        /\ \A u \in Threads : tstate'[u] = IF u = t THEN "pending" ELSE tstate[u]
        /\ \A u \in Threads : Contains(poolq', u) <=> (u = t \/ Contains(poolq, u))
    BY <1>0, <2>2, <2>3
  <2>5. ThreadInv'
    BY <1>0, <1>1, <1>2, <1>4, <2>3, <2>4 DEF Acc, ThreadInv, Waiting
  <2>6. HandInv'
    BY <1>0, <1>2, <1>4, <2>3, <2>4 DEF Acc, HandInv
  <2>7. AsyncInv'
    BY <1>0, <1>4, <2>3, AsyncStay DEF Acc
  <2> QED
    BY <1>0, <1>3, <1>4, <1>5, <1>7, <2>2, <2>3, <2>4, <2>5, <2>6, <2>7
       DEF IInv, Acc, ListsInv, TypesInv, PoolInv
<1> QED
  BY <1>6, <1>7

\* The position of the sender a receiver chooses.
LEMMA OffersLeast ==
  ASSUME ListsInv, NEW t, NEW wish, Offers(t, wish) # {}
  PROVE  /\ Min(Offers(t, wish)) \in 1..Len(txq) /\ Min(Offers(t, wish)) \in Offers(t, wish)
         /\ txq[Min(Offers(t, wish))] \in Senders
         /\ Contains(txq, txq[Min(Offers(t, wish))])
<1>1. Len(txq) \in Nat /\ DOMAIN txq = 1..Len(txq) /\ \A i \in 1..Len(txq) : txq[i] \in Senders
  BY DEF ListsInv
<1>2. Offers(t, wish) \in SUBSET (1..Len(txq))
  BY <1>1 DEF Offers
<1>3. Min(Offers(t, wish)) \in Offers(t, wish)
  BY ONLY <1>1, <1>2, Offers(t, wish) # {}, LeastPosition
<1> QED
  BY <1>1, <1>2, <1>3 DEF Contains

\* A sender that leaves tx_msg_queue.
LEMMA LeaveTxqIs ==
  ASSUME ListsInv, NEW s, LeaveTxq(s)
  PROVE  /\ txq' \in Seq(Senders) /\ IsInjective(txq')
         /\ \A u \in Senders : Contains(txq', u) <=> (u # s /\ Contains(txq, u))
<1>1. txq \in Seq(Senders) /\ IsInjective(txq)
  BY DEF ListsInv
<1>2. /\ Without(txq, s) \in Seq(Senders) /\ IsInjective(Without(txq, s))
      /\ \A u \in Senders : Contains(Without(txq, s), u) <=> (u # s /\ Contains(txq, u))
  BY ONLY <1>1, WithoutMembers
<1> QED
  BY <1>2 DEF LeaveTxq

\* k_mbox_get() takes a message or waits for one.
LEMMA GetInv ==
  ASSUME IInv, NEW t \in Threads, NEW wish \in Peers(t), NEW keep \in BOOLEAN, NEW timeout,
         Get(t, wish, keep, timeout)
  PROVE  IInv'
<1>0. /\ ListsInv /\ TypesInv /\ Acc
      /\ pc \in [Threads -> {"out", "put", "get", "give", "clear", "clearGive"}]
      /\ tstate \in [Threads -> {"ready", "pending"}]
      /\ tx \in [Senders -> MsgSet] /\ rx \in [Threads -> RxSet] /\ prio \in [Senders -> Int]
      /\ rxq \in Seq(Threads) /\ IsInjective(rxq)
      /\ Threads \subseteq Senders /\ Null \notin Asyncs /\ Null \notin Sems /\ Null \notin Senders
      /\ \A a \in Asyncs : a \notin Threads /\ a \notin Sems /\ a \in Senders
  BY Distinct DEF IInv, TypesInv, ListsInv, Senders
<1>1. tstate[t] = "ready" /\ pc[t] = "out" /\ rx[t].from = Null
  BY DEF Get, Runs
<1>2. /\ ~Contains(txq, t) /\ ~Contains(rxq, t) /\ ~Contains(poolq, t)
      /\ \A u \in Threads : rx[u].from # t
      /\ t \notin timed /\ hand[t] \notin Asyncs /\ hand[t] \notin Sems
  BY <1>0, <1>1, ReadyNotWaiting DEF Acc, HandInv
<1>3. /\ pc' \in [Threads -> {"out", "put", "get", "give", "clear", "clearGive"}]
      /\ \A u \in Threads : pc'[u] = IF u = t THEN "get" ELSE pc[u]
      /\ UNCHANGED <<free, poolq, prio, tx, hand, next, sem, irqLocked, out, fault>>
  BY <1>0 DEF Get
<1>4. HandInv' /\ PoolInv'
  BY <1>0, <1>1, <1>2, <1>3 DEF Acc, HandInv, PoolInv
<1>5. CASE Offers(t, wish) # {}
  <2>1. PICK s \in Senders : s = txq[Min(Offers(t, wish))] /\ Contains(txq, s)
    BY <1>0, <1>5, OffersLeast
  <2>2. /\ LeaveTxq(s) /\ timed' = timed \ {s} /\ rx' = [rx EXCEPT ![t] = MatchedRx(s, tx[s], keep)]
        /\ rxq' = rxq /\ tstate' = tstate
    BY <1>5, <2>1 DEF Get, Taken
  <2>3. /\ txq' \in Seq(Senders) /\ IsInjective(txq')
        /\ \A u \in Senders : Contains(txq', u) <=> (u # s /\ Contains(txq, u))
    BY <1>0, <2>2, LeaveTxqIs
  <2>4. MatchedRx(s, tx[s], keep) \in RxSet /\ MatchedRx(s, tx[s], keep).from = s
    <3>1. tx[s] \in MsgSet
      BY <1>0
    <3> QED
      BY <3>1 DEF MatchedRx, RxSet, MsgSet
  <2>5. rx' \in [Threads -> RxSet] /\ \A u \in Threads : rx'[u].from = IF u = t THEN s ELSE rx[u].from
    BY <1>0, <2>2, <2>4
  <2>6. (\A u \in Threads : rx[u].from # s) /\ s # t
    BY <1>0, <1>2, <2>1 DEF Acc, HeldInv
  <2>7. \A v \in Threads : (\E u \in Threads : rx'[u].from = v) <=> (v = s \/ \E u \in Threads : rx[u].from = v)
    BY <1>0, <1>1, <2>5
  <2>8. ThreadInv'
    BY <1>0, <1>1, <1>2, <1>3, <2>1, <2>2, <2>3, <2>5, <2>6, <2>7 DEF Acc, ThreadInv, Waiting
  <2>9. HeldInv'
    <3>1. \A r \in Threads : rx[r].from \in Senders \cup {Null}
      BY <1>0 DEF RxSet
    <3> QED
      BY <1>0, <1>1, <2>3, <2>5, <2>6, <3>1, ZenonT(40) DEF Acc, HeldInv
  <2>10. AsyncInv'
    <3>1. \A a \in Asyncs, u \in Threads : rx'[u].from = a <=> (u = t /\ a = s) \/ rx[u].from = a
      BY <1>0, <1>1, <2>5
    <3> QED
      <4>1. ASSUME NEW a \in Asyncs, a = s
            PROVE  /\ ~Contains(txq', a) /\ ~Contains(free', a) /\ rx'[t].from = a
                   /\ \A u \in Threads : hand'[u] # a
        BY <1>0, <1>3, <2>1, <2>3, <3>1, <4>1 DEF Acc, AsyncInv
      <4>2. ASSUME NEW a \in Asyncs, a # s
            PROVE  /\ Contains(txq', a) <=> Contains(txq, a)
                   /\ Contains(free', a) <=> Contains(free, a)
                   /\ \A u \in Threads : (rx'[u].from = a <=> rx[u].from = a) /\ (hand'[u] = a <=> hand[u] = a)
        BY <1>0, <1>3, <2>3, <3>1, <4>2
      <4>3. AsyncInv
        BY <1>0 DEF Acc
      <4> QED
        BY ONLY <4>1, <4>2, <4>3, t \in Threads DEF AsyncInv
  <2> QED
    BY <1>0, <1>3, <1>4, <2>2, <2>3, <2>5, <2>8, <2>9, <2>10 DEF IInv, Acc, ListsInv, TypesInv
<1>6. CASE Offers(t, wish) = {}
  <2>1. prio[t] \in Int /\ ~Contains(rxq, t)
    BY <1>0, <1>2
  <2>2. /\ Queued(rxq, t, prio[t]) \in Seq(Threads) /\ IsInjective(Queued(rxq, t, prio[t]))
        /\ \A u \in Threads : Contains(Queued(rxq, t, prio[t]), u) <=> (u = t \/ Contains(rxq, u))
    BY ONLY <1>0, <2>1, t \in Threads, QueuedMembers
  <2>3. /\ rxq' = Queued(rxq, t, prio[t]) /\ tstate' = [tstate EXCEPT ![t] = "pending"]
        /\ timed' = IF timeout = "timed" THEN timed \cup {t} ELSE timed
        /\ rx' = [rx EXCEPT ![t] = [NoRx EXCEPT !.source = wish, !.keep = keep]]
        /\ txq' = txq
    BY <1>6 DEF Get
  <2>4. /\ [NoRx EXCEPT !.source = wish, !.keep = keep] \in RxSet
        /\ [NoRx EXCEPT !.source = wish, !.keep = keep].from = Null
    BY DEF NoRx, RxSet, Peers
  <2>5. /\ rx' \in [Threads -> RxSet] /\ \A u \in Threads : rx'[u].from = rx[u].from
        /\ tstate' \in [Threads -> {"ready", "pending"}]
        /\ \A u \in Threads : tstate'[u] = IF u = t THEN "pending" ELSE tstate[u]
        /\ \A u \in Threads : Contains(rxq', u) <=> (u = t \/ Contains(rxq, u))
    BY <1>0, <1>1, <2>2, <2>3, <2>4
  <2>6. ThreadInv'
    BY <1>0, <1>1, <1>2, <1>3, <2>3, <2>5 DEF Acc, ThreadInv, Waiting
  <2>7. HeldInv' /\ AsyncInv'
    BY <1>0, <1>3, <2>3, <2>5, AsyncStay DEF Acc, HeldInv
  <2> QED
    BY <1>0, <1>3, <1>4, <2>2, <2>3, <2>5, <2>6, <2>7 DEF IInv, Acc, ListsInv, TypesInv
<1> QED
  BY <1>5, <1>6

\* A wait that ends with -EAGAIN.
LEMMA TimeoutInv ==
  ASSUME IInv, NEW t \in Threads, Timeout(t)
  PROVE  IInv'
<1>0. /\ ListsInv /\ TypesInv /\ Acc
      /\ pc \in [Threads -> {"out", "put", "get", "give", "clear", "clearGive"}]
      /\ tstate \in [Threads -> {"ready", "pending"}]
      /\ tx \in [Senders -> MsgSet] /\ rx \in [Threads -> RxSet]
      /\ rxq \in Seq(Threads) /\ IsInjective(rxq)
      /\ Threads \subseteq Senders /\ Null \notin Asyncs /\ Null \notin Sems /\ Null \notin Senders
      /\ \A a \in Asyncs : a \notin Threads /\ a \notin Sems /\ a \in Senders
  BY Distinct DEF IInv, TypesInv, ListsInv, Senders
<1>1. /\ t \in timed /\ timed' = timed \ {t} /\ LeaveTxq(t) /\ rxq' = Without(rxq, t)
      /\ tstate' = [tstate EXCEPT ![t] = "ready"] /\ tx' = [tx EXCEPT ![t] = NoMsg]
      /\ rx' = IF Contains(rxq, t) THEN [rx EXCEPT ![t] = NoRx] ELSE rx
      /\ pc' = [pc EXCEPT ![t] = "out"] /\ out' = out \ {t}
      /\ UNCHANGED <<free, poolq, prio, hand, next, sem, irqLocked, fault>>
  BY DEF Timeout
<1>2. /\ Contains(txq, t) \/ Contains(rxq, t)
      /\ pc[t] \in {"out", "get"} /\ ~Contains(poolq, t) /\ hand[t] \notin Asyncs /\ hand[t] \notin Sems
      /\ Contains(rxq, t) => rx[t].from = Null
      /\ \A r \in Threads : rx[r].from # t
  <2>1. Contains(txq, t) \/ Contains(rxq, t)
    BY <1>0, <1>1 DEF Acc, ThreadInv
  <2>2. /\ pc[t] \in {"out", "get"} /\ ~Contains(poolq, t)
        /\ Contains(rxq, t) => pc[t] = "get" /\ rx[t].from = Null
    BY <1>0, <2>1 DEF Acc, ThreadInv
  <2>3. hand[t] \notin Asyncs /\ hand[t] \notin Sems
    BY <1>0, <2>2 DEF Acc, HandInv
  <2>4. \A r \in Threads : rx[r].from # t
    BY <1>0, <2>1, <2>2 DEF Acc, HeldInv, ThreadInv
  <2> QED
    BY <2>1, <2>2, <2>3, <2>4
<1>3. /\ txq' \in Seq(Senders) /\ IsInjective(txq')
      /\ \A u \in Senders : Contains(txq', u) <=> (u # t /\ Contains(txq, u))
  BY <1>0, <1>1, LeaveTxqIs
<1>4. /\ Without(rxq, t) \in Seq(Threads) /\ IsInjective(Without(rxq, t))
      /\ \A u \in Threads : Contains(Without(rxq, t), u) <=> (u # t /\ Contains(rxq, u))
  BY ONLY <1>0, WithoutMembers
<1>5. /\ NoRx \in RxSet /\ NoRx.from = Null /\ NoMsg \in MsgSet
  BY DEF NoRx, RxSet, NoMsg, MsgSet
<1>6. /\ rx' \in [Threads -> RxSet] /\ \A u \in Threads : rx'[u].from = rx[u].from
      /\ tx' \in [Senders -> MsgSet] /\ out' \subseteq Senders
      /\ tstate' \in [Threads -> {"ready", "pending"}]
      /\ \A u \in Threads : tstate'[u] = IF u = t THEN "ready" ELSE tstate[u]
      /\ pc' \in [Threads -> {"out", "put", "get", "give", "clear", "clearGive"}]
      /\ \A u \in Threads : pc'[u] = IF u = t THEN "out" ELSE pc[u]
      /\ \A u \in Threads : Contains(rxq', u) <=> (u # t /\ Contains(rxq, u))
  <2>1. out \subseteq Senders
    BY <1>0 DEF TypesInv
  <2> QED
    BY <1>0, <1>1, <1>2, <1>4, <1>5, <2>1
<1>7. ThreadInv'
  BY <1>0, <1>1, <1>2, <1>3, <1>6 DEF Acc, ThreadInv, Waiting
<1>8. HandInv'
  BY <1>0, <1>1, <1>2, <1>6 DEF Acc, HandInv
<1>9. HeldInv'
  <2>1. \A r \in Threads : rx[r].from \in Senders \cup {Null}
    BY <1>0 DEF RxSet
  <2> QED
    BY <1>0, <1>3, <1>6, <2>1 DEF Acc, HeldInv
<1>10. AsyncInv'
  BY <1>0, <1>1, <1>3, <1>6, AsyncStay DEF Acc
<1>11. ListsInv' /\ PoolInv'
  BY <1>0, <1>1, <1>3, <1>4 DEF ListsInv, Acc, PoolInv
<1>12. TypesInv'
  BY <1>0, <1>1, <1>6 DEF TypesInv
<1> QED
  BY <1>7, <1>8, <1>9, <1>10, <1>11, <1>12 DEF IInv, Acc

\* One round of the walk of k_mbox_clear_msg().
LEMMA ClearOneInv ==
  ASSUME IInv, NEW t \in Threads, ClearOne(t)
  PROVE  IInv'
<1>0. /\ ListsInv /\ TypesInv /\ Acc
      /\ next \in [Threads -> Senders \cup {Null}] /\ timed \subseteq Threads
      /\ Threads \subseteq Senders /\ Null \notin Senders
  BY Distinct DEF IInv, TypesInv
<1>1. tstate[t] = "ready" /\ pc[t] = "clear"
  BY DEF ClearOne, Runs
<1>2. PICK s \in Senders : s = next[t]
  BY <1>0 DEF ClearOne
<1>3. CASE ~Contains(txq, s)
  <2>1. /\ fault' = TRUE
        /\ UNCHANGED <<queueVars, tstate, timed, tx, rx, callVars, sem, irqLocked, out>>
    BY <1>2, <1>3 DEF ClearOne
  <2>2. ListsInv'
    BY <1>0, <2>1 DEF ListsInv, queueVars
  <2>3. TypesInv'
    BY <1>0, <2>1 DEF TypesInv, queueVars, callVars
  <2>4. Acc'
    BY <1>0, <2>1 DEF queueVars, callVars, Acc, ThreadInv, Waiting, HandInv, HeldInv, AsyncInv, PoolInv
  <2> QED
    BY <2>2, <2>3, <2>4 DEF IInv
<1>4. CASE Contains(txq, s)
  <2>1. /\ next' = [next EXCEPT ![t] = Successor(s)] /\ LeaveTxq(s) /\ timed' = timed \ {s}
        /\ out' = out \ {s} /\ Notify(t, s, "clear")
        /\ irqLocked' = IF \E u \in Woken(s) : SwapsTo(t, u) THEN Null ELSE t
        /\ UNCHANGED <<rxq, prio, rx, sem, fault>>
    BY <1>2, <1>4 DEF ClearOne, Taken
  <2>2. /\ txq' \in Seq(Senders) /\ IsInjective(txq')
        /\ \A u \in Senders : Contains(txq', u) <=> (u # s /\ Contains(txq, u))
    BY <1>0, <2>1, LeaveTxqIs
  <2>3. \A r \in Threads : rx[r].from # s
    BY <1>0, <1>4 DEF Acc, HeldInv
  <2>4. Finishes(t, s)
    BY <1>4, <2>1, <2>2, <2>3 DEF Finishes
  <2>5. Successor(s) \in Senders \cup {Null}
    <3> DEFINE I == {i \in DOMAIN txq : i > 1 /\ txq[i - 1] = s}
    <3>1. Len(txq) \in Nat /\ DOMAIN txq = 1..Len(txq) /\ \A i \in 1..Len(txq) : txq[i] \in Senders
      BY <1>0 DEF ListsInv
    <3>2. I \in SUBSET (1..Len(txq))
      BY <3>1
    <3>3. CASE I # {}
      <4>1. Min(I) \in I
        BY ONLY <3>1, <3>2, <3>3, LeastPosition
      <4>2. txq[Min(I)] \in Senders
        BY <3>1, <3>2, <4>1
      <4> QED
        BY <3>3, <4>2 DEF Successor
    <3>4. CASE I = {}
      BY <3>4 DEF Successor
    <3> QED
      BY <3>3, <3>4
  <2>6. /\ Acc'
        /\ free' \in Seq(Asyncs) /\ IsInjective(free')
        /\ poolq' \in Seq(Threads) /\ IsInjective(poolq')
        /\ tstate' \in [Threads -> {"ready", "pending"}]
        /\ tx' \in [Senders -> MsgSet]
        /\ pc' \in [Threads -> {"out", "put", "get", "give", "clear", "clearGive"}]
        /\ hand' \in [Threads -> Asyncs \cup Sems \cup {Null}]
    BY <1>0, <1>1, <2>1, <2>4, NotifyInv
  <2>7. next' \in [Threads -> Senders \cup {Null}] /\ irqLocked' \in Threads \cup {Null}
    BY <1>0, <2>1, <2>5
  <2>8. ListsInv'
    BY <1>0, <2>1, <2>2, <2>6 DEF ListsInv
  <2>9. TypesInv'
    BY <1>0, <2>1, <2>6, <2>7 DEF TypesInv
  <2> QED
    BY <2>6, <2>8, <2>9 DEF IInv
<1> QED
  BY <1>3, <1>4

-----------------------------------------------------------------------------
(* The specification of the mailbox *)

\* SetToSeq() lists every element of a finite set once.
LEMMA SetToSeqMembers ==
  ASSUME NEW S, IsFiniteSet(S)
  PROVE  /\ SetToSeq(S) \in Seq(S) /\ IsInjective(SetToSeq(S))
         /\ \A x \in S : Contains(SetToSeq(S), x)
<1> DEFINE n == Cardinality(S)
           f == SetToSeq(S)
<1>1. n \in Nat /\ ExistsBijection(1..n, S)
  BY FS_CardinalityType
<1>2. PICK g \in [1..n -> S] : IsInjective(g)
  BY <1>1 DEF ExistsBijection, Bijection, Injection
<1>3. f \in [1..n -> S] /\ IsInjective(f)
  BY <1>2 DEF SetToSeq
<1> HIDE DEF f
<1>4. f \in Seq(S) /\ Len(f) = n
  BY <1>1, <1>3
<1>5. f \in Injection(1..n, S)
  BY <1>3 DEF Injection
<1>6. Cardinality(1..n) = n
  BY <1>1, FS_Interval
<1>7. f \in Surjection(1..n, S)
  BY <1>5, <1>6, FS_Injection
<1>8. \A x \in S : \E i \in 1..n : f[i] = x
  BY <1>7 DEF Surjection
<1>9. \A x \in S : Contains(f, x)
  BY <1>4, <1>8 DEF Contains
<1> QED
  BY <1>3, <1>4, <1>9 DEF f

\* The accounts are right at the start.
LEMMA MboxInitInv ==
  ASSUME NEW count \in 0..1, MboxInit(count)
  PROVE  IInv
<1>1. /\ SetToSeq(Asyncs) \in Seq(Asyncs) /\ IsInjective(SetToSeq(Asyncs))
      /\ \A a \in Asyncs : Contains(SetToSeq(Asyncs), a)
  BY SetToSeqMembers, MailboxAssumption
<1>2. /\ txq = << >> /\ rxq = << >> /\ poolq = << >> /\ free = SetToSeq(Asyncs)
      /\ \A u \in Threads : rx[u].from = Null /\ pc[u] = "out" /\ hand[u] = Null /\ tstate[u] = "ready"
      /\ timed = {}
  BY DEF MboxInit, NoRx
<1>3. \A u : ~Contains(<< >>, u)
  BY DEF Contains
<1>4. ListsInv
  <2>1. IsInjective(<< >>)
    BY DEF IsInjective
  <2> QED
    BY <1>1, <1>2, <2>1 DEF ListsInv
<1>5. TypesInv
  <2>1. NoRx \in RxSet /\ NoMsg \in MsgSet
    BY DEF NoRx, RxSet, NoMsg, MsgSet
  <2>2. prio \in [Senders -> Int]
    BY MailboxAssumption DEF MboxInit, Senders
  <2> QED
    BY <2>1, <2>2 DEF MboxInit, TypesInv
<1>6. ThreadInv
  BY <1>2, <1>3, Distinct DEF ThreadInv, Waiting
<1>7. HandInv /\ HeldInv /\ PoolInv
  BY <1>2, <1>3, Distinct DEF HandInv, HeldInv, PoolInv, Senders
<1>8. AsyncInv
  <2>1. Null \notin Asyncs
    BY Distinct DEF Senders
  <2> QED
    BY <1>1, <1>2, <1>3, <2>1 DEF AsyncInv
<1> QED
  BY <1>4, <1>5, <1>6, <1>7, <1>8 DEF IInv, Acc

\* Every step of the mailbox keeps them right.
LEMMA MboxNextInv ==
  ASSUME IInv, [MboxNext]_mboxVars
  PROVE  IInv'
<1>0. prio \in [Senders -> Int]
  BY DEF IInv, TypesInv
<1>1. CASE MboxNext
  <2>1. ASSUME NEW t \in Threads, NEW target \in Peers(t), NEW kind \in Kinds, NEW timeout \in Waits,
               Put(t, target, kind, timeout)
        PROVE  IInv'
    <3>1. /\ Runs(t, "out") /\ PutOrWait(t, target, kind, prio[t], timeout) /\ prio' = prio
          /\ prio[t] \in Int
      BY <1>0, <2>1, Distinct DEF Put
    <3> QED
      BY <1>0, <3>1, PutOrWaitInv
  <2>2. ASSUME NEW t \in Threads, NEW target \in Peers(t), NEW kind \in Kinds,
               NEW s \in Sems \cup {Null}, AsyncAlloc(t, target, kind, s)
        PROVE  IInv'
    BY <2>2, AsyncAllocInv
  <2>3. ASSUME NEW t \in Threads, NEW wish \in Peers(t), NEW keep \in BOOLEAN, NEW timeout \in Waits,
               Get(t, wish, keep, timeout)
        PROVE  IInv'
    BY <2>3, GetInv
  <2>4. ASSUME NEW t \in Threads, MboxStep(t)
        PROVE  IInv'
    BY <2>4, AsyncPutInv, TimeoutInv, SmallStepsInv, ClearOneInv DEF MboxStep
  <2> QED
    BY <1>1, <2>1, <2>2, <2>3, <2>4 DEF MboxNext
<1>2. CASE UNCHANGED mboxVars
  <2>1. UNCHANGED <<queueVars, tstate, timed, tx, rx, callVars, sem, irqLocked, out, fault>>
    BY <1>2 DEF mboxVars
  <2>2. ListsInv'
    BY <2>1 DEF IInv, ListsInv, queueVars
  <2>3. TypesInv'
    BY <2>1 DEF IInv, TypesInv, queueVars, callVars
  <2>4. Acc'
    BY <2>1 DEF IInv, queueVars, callVars, Acc, ThreadInv, Waiting, HandInv, HeldInv, AsyncInv, PoolInv
  <2> QED
    BY <2>2, <2>3, <2>4 DEF IInv
<1> QED
  BY <1>1, <1>2

\* So they are right throughout.
LEMMA MboxSpecInv == MboxSpec => []IInv
<1>1. MboxInit(0) => IInv
  BY MboxInitInv
<1>2. IInv /\ [MboxNext]_mboxVars => IInv'
  BY MboxNextInv
<1> QED
  BY <1>1, <1>2, PTL DEF MboxSpec

\* The invariant gives every variable its type.
LEMMA InvTypes == ASSUME IInv PROVE MboxTypeOK
<1>0. ListsInv /\ TypesInv /\ Acc
  BY DEF IInv
<1>1. timed \subseteq {t \in Threads : tstate[t] = "pending"}
  BY <1>0 DEF TypesInv, Acc, ThreadInv, Waiting
<1>2. /\ \A s \in Senders : tx[s] \in MsgSet
      /\ \A t \in Threads : rx[t] \in RxSet
  BY <1>0 DEF TypesInv
<1> QED
  BY <1>0, <1>1, <1>2 DEF MboxTypeOK, ListsInv, TypesInv, MsgSet, RxSet

\* The size of a set with at most one element.
LEMMA CardinalityAtMostOne ==
  ASSUME NEW S, \A x, y \in S : x = y
  PROVE  Cardinality(S) = IF S = {} THEN 0 ELSE 1
<1>1. CASE S = {}
  BY <1>1, FS_EmptySet
<1>2. CASE S # {}
  <2>1. PICK x \in S : S = {x}
    BY <1>2
  <2> QED
    BY <1>2, <2>1, FS_Singleton
<1> QED
  BY <1>1, <1>2

\* Nobody is forgotten and nobody is served twice, for any number of threads,
\* descriptors and semaphores and whatever the priorities: every pending thread
\* has one place where it waits, every descriptor is in one place.
THEOREM MailboxSendersAccounted == MboxSpec => []SendersAccounted
<1>1. ASSUME IInv PROVE SendersAccounted
  <2>0. ListsInv /\ TypesInv /\ Acc
    BY <1>1 DEF IInv
  <2>1. MboxTypeOK
    BY <1>1, InvTypes
  <2>2. \A t \in Threads : tstate[t] = "pending" <=>
          Contains(txq, t) \/ Contains(rxq, t) \/ Contains(poolq, t) \/ Holders(t) # {}
    BY <2>0 DEF Acc, ThreadInv, Waiting, Holders
  <2>3. \A s \in Senders : Cardinality(Holders(s)) = IF Holders(s) = {} THEN 0 ELSE 1
    <3> TAKE s \in Senders
    <3>1. s # Null
      BY Distinct
    <3>2. \A x, y \in Holders(s) : x = y
      BY <2>0, <3>1 DEF Acc, HeldInv, Holders
    <3> QED
      BY <3>2, CardinalityAtMostOne
  <2>4. \A s \in Senders : Contains(txq, s) => Holders(s) = {}
    BY <2>0, Distinct DEF Acc, HeldInv, Holders
  <2>5. \A s \in Senders : Cardinality(Holders(s)) + (IF Contains(txq, s) THEN 1 ELSE 0) <= 1
    BY <2>3, <2>4
  <2>6. ASSUME NEW a \in Asyncs
        PROVE  Cardinality({i \in DOMAIN free : free[i] = a}) + Cardinality({t \in Threads : hand[t] = a})
                 + (IF Contains(txq, a) THEN 1 ELSE 0) + Cardinality(Holders(a)) = 1
    <3> DEFINE F == {i \in DOMAIN free : free[i] = a}
               H == {t \in Threads : hand[t] = a}
    <3>1. Cardinality(F) = IF F = {} THEN 0 ELSE 1
      <4>1. \A x, y \in F : x = y
        BY <2>0 DEF ListsInv, IsInjective
      <4> QED
        BY <4>1, CardinalityAtMostOne
    <3>2. Cardinality(H) = IF H = {} THEN 0 ELSE 1
      <4>1. \A x, y \in H : x = y
        BY <2>0 DEF Acc, AsyncInv
      <4> QED
        BY <4>1, CardinalityAtMostOne
    <3>3. Cardinality(Holders(a)) = IF Holders(a) = {} THEN 0 ELSE 1
      BY <2>3, Distinct
    <3>4. (F # {}) <=> Contains(free, a)
      BY <2>0 DEF ListsInv, Contains
    <3>5. (H # {}) <=> \E t \in Threads : hand[t] = a
      OBVIOUS
    <3>6. (Holders(a) # {}) <=> \E r \in Threads : rx[r].from = a
      BY DEF Holders
    <3>7. /\ F # {} \/ H # {} \/ Contains(txq, a) \/ Holders(a) # {}
          /\ F # {} => H = {} /\ ~Contains(txq, a) /\ Holders(a) = {}
          /\ H # {} => ~Contains(txq, a) /\ Holders(a) = {}
          /\ Contains(txq, a) => Holders(a) = {}
      BY <2>0, <2>4, <3>4, <3>5, <3>6, Distinct DEF Acc, AsyncInv
    <3> HIDE DEF F, H
    <3>8. Cardinality(F) + Cardinality(H) + (IF Contains(txq, a) THEN 1 ELSE 0) + Cardinality(Holders(a)) = 1
      BY <3>1, <3>2, <3>3, <3>7
    <3> QED
      BY <3>8 DEF F, H
  <2> QED
    BY <2>1, <2>2, <2>5, <2>6 DEF SendersAccounted
<1>2. IInv => SendersAccounted
  BY <1>1
<1> QED
  BY <1>2, MboxSpecInv, PTL

-----------------------------------------------------------------------------
(* Memory blocks, and senders and receivers that suit each other *)

\* The message of s is on its way: queued, or with a receiver.
Sent(s) == Contains(txq, s) \/ \E r \in Threads : rx[r].from = s

\* A block is out while its message is on its way, and the receiver knows of it.
BlocksInv ==
  /\ \A s \in Senders : s \in out <=> tx[s].kind = "block" /\ Sent(s)
  /\ \A r \in Threads, s \in Senders : rx[r].from = s => rx[r].kind = tx[s].kind

\* NoMissedMatch, by the threads instead of their positions.
MatchInv ==
  \A r \in Threads, s \in Senders :
    Contains(rxq, r) /\ Contains(txq, s) => ~Compatible(tx[s], r, rx[r].source)

\* What keeps MatchInv: whoever waits now either waited before, unchanged, or
\* does not suit.
LEMMA MatchKept ==
  ASSUME MatchInv,
         \A r \in Threads, s \in Senders :
           Contains(rxq', r) /\ Contains(txq', s) =>
             \/ /\ Contains(rxq, r) /\ Contains(txq, s)
                /\ tx'[s] = tx[s] /\ rx'[r].source = rx[r].source
             \/ ~Compatible(tx'[s], r, rx'[r].source)
  PROVE  MatchInv'
BY DEF MatchInv, Compatible

\* What keeps BlocksInv when the message of s is sent, ...
LEMMA BlocksArrive ==
  ASSUME BlocksInv, NEW s \in Senders, ~Sent(s),
         \A u \in Senders : Sent(u)' <=> (u = s \/ Sent(u)),
         \A u \in Senders : Sent(u) => tx'[u] = tx[u],
         out' = IF tx'[s].kind = "block" THEN out \cup {s} ELSE out,
         \A r \in Threads : rx'[r] = rx[r] \/ (rx'[r].from = s /\ rx'[r].kind = tx'[s].kind)
  PROVE  BlocksInv'
BY DEF BlocksInv, Sent

\* ... when it changes hands, ...
LEMMA BlocksStay ==
  ASSUME BlocksInv,
         \A u \in Senders : Sent(u)' <=> Sent(u),
         \A u \in Senders : Sent(u) => tx'[u] = tx[u],
         out' = out,
         \A r \in Threads, s \in Senders :
           rx'[r].from = s => (rx'[r] = rx[r] \/ (Sent(s) /\ rx'[r].kind = tx[s].kind))
  PROVE  BlocksInv'
BY DEF BlocksInv, Sent

\* ... and when it has been processed.
LEMMA BlocksLeave ==
  ASSUME BlocksInv, NEW s \in Senders,
         \A u \in Senders : Sent(u)' <=> (u # s /\ Sent(u)),
         \A u \in Senders : u # s /\ Sent(u) => tx'[u] = tx[u],
         out' = out \ {s},
         \A r \in Threads, u \in Senders : rx'[r].from = u => rx'[r] = rx[r] /\ u # s
  PROVE  BlocksInv'
BY DEF BlocksInv, Sent

\* A message is put.
LEMMA SendKeeps ==
  ASSUME ListsInv, TypesInv, Acc, BlocksInv, MatchInv,
         NEW s \in Senders, NEW m \in MsgSet, NEW p \in Int, NEW timeout, ~Sent(s),
         PutToReceiver(s, m) \/ PutOnQueue(s, m, p, timeout),
         tx'[s] = m, \A u \in Senders : Sent(u) => tx'[u] = tx[u],
         BlockSent(s, m.kind)
  PROVE  BlocksInv' /\ MatchInv'
<1>0. out' = IF tx'[s].kind = "block" THEN out \cup {s} ELSE out
  BY DEF BlockSent
<1>1. CASE PutToReceiver(s, m)
  <2>1. PICK r \in Threads : Matched(s, m, r)
    BY <1>1, PutToReceiverIs
  <2>2. rx[r].from = Null /\ Null \notin Senders
    BY <2>1, Distinct DEF Matched, Acc, ThreadInv
  <2>3. /\ \A u \in Threads : rx'[u] = rx[u] \/ (rx'[u].from = s /\ rx'[u].kind = tx'[s].kind)
        /\ rx'[r].from = s /\ txq' = txq /\ \A u \in Threads \ {r} : rx'[u] = rx[u]
    BY <2>1 DEF Matched
  <2>4. \A u \in Senders : Sent(u)' <=> (u = s \/ Sent(u))
    BY <2>2, <2>3 DEF Sent
  <2>5. BlocksInv'
    BY <1>0, <2>3, <2>4, BlocksArrive
  <2>6. MatchInv'
    <3>1. \A u \in Threads : Contains(rxq', u) => Contains(rxq, u) /\ rx'[u] = rx[u]
      BY <2>1 DEF Matched
    <3>2. \A u \in Senders : Contains(txq', u) => Contains(txq, u) /\ tx'[u] = tx[u]
      BY <2>3 DEF Sent
    <3> QED
      BY <3>1, <3>2, MatchKept
  <2> QED
    BY <2>5, <2>6
<1>2. CASE PutOnQueue(s, m, p, timeout)
  <2>1. Joined(s, timeout)
    BY <1>2, PutOnQueueIs DEF Sent
  <2>2. /\ \A u \in Senders : Contains(txq', u) <=> (u = s \/ Contains(txq, u))
        /\ rxq' = rxq /\ rx' = rx
    BY <2>1 DEF Joined
  <2>3. \A u \in Senders : Sent(u)' <=> (u = s \/ Sent(u))
    BY <2>2 DEF Sent
  <2>4. BlocksInv'
    BY <1>0, <2>2, <2>3, BlocksArrive
  <2>5. \A u \in Threads : Contains(rxq, u) => ~Compatible(m, u, rx[u].source)
    BY <1>2 DEF PutOnQueue, Suits, Contains, ListsInv
  <2>6. MatchInv'
    BY <2>2, <2>5, MatchKept DEF Sent
  <2> QED
    BY <2>4, <2>6
<1> QED
  BY <1>1, <1>2

\* k_mbox_put() and k_mbox_async_put() keep both.
LEMMA PutsKeep ==
  ASSUME IInv, BlocksInv, MatchInv, NEW t \in Threads,
         \/ \E target \in Peers(t), kind \in Kinds, timeout \in Waits : Put(t, target, kind, timeout)
         \/ AsyncPut(t)
  PROVE  BlocksInv' /\ MatchInv'
<1>0. /\ ListsInv /\ TypesInv /\ Acc
      /\ Threads \subseteq Senders /\ Asyncs \subseteq Senders
      /\ prio \in [Senders -> Int] /\ tx \in [Senders -> MsgSet]
  BY Distinct DEF IInv, TypesInv
<1>1. tstate[t] = "ready"
  BY DEF Put, AsyncPut, Runs
<1>2. ~Sent(t)
  BY <1>0, <1>1, ReadyNotWaiting DEF Sent
<1>3. ASSUME NEW target \in Peers(t), NEW kind \in Kinds, NEW timeout \in Waits,
             Put(t, target, kind, timeout)
      PROVE  BlocksInv' /\ MatchInv'
  <2>1. PICK m \in MsgSet : m = Msg(target, t, kind, Null)
    BY DEF Msg, MsgSet, Peers
  <2>2. /\ PutToReceiver(t, m) \/ PutOnQueue(t, m, prio[t], timeout)
        /\ tx' = [tx EXCEPT ![t] = m] /\ BlockSent(t, kind) /\ m.kind = kind
    BY <1>3, <2>1 DEF Put, PutOrWait, Msg
  <2>3. tx'[t] = m /\ prio[t] \in Int /\ \A u \in Senders : Sent(u) => tx'[u] = tx[u]
    BY <1>0, <1>2, <2>2
  <2> QED
    BY <1>0, <1>2, <2>2, <2>3, SendKeeps
<1>4. ASSUME AsyncPut(t)
      PROVE  BlocksInv' /\ MatchInv'
  <2>1. PICK a \in Asyncs : a = hand[t]
    BY <1>0, <1>1, <1>4, ReadyNotWaiting DEF Acc, HandInv, AsyncPut, Runs
  <2>2. PICK m \in MsgSet : m = tx[t]
    BY <1>0
  <2>3. /\ PutToReceiver(a, m) \/ PutOnQueue(a, m, AsyncPrio(t, a), "forever")
        /\ tx' = [tx EXCEPT ![a] = m, ![t] = NoMsg] /\ BlockSent(a, m.kind)
    BY <1>4, <2>1, <2>2 DEF AsyncPut
  <2>4. ~Sent(a) /\ a # t
    BY <1>0, <2>1, Distinct DEF Acc, AsyncInv, Sent
  <2>5. tx'[a] = m /\ \A u \in Senders : Sent(u) => tx'[u] = tx[u]
    BY <1>0, <1>2, <2>3, <2>4
  <2>6. AsyncPrio(t, a) \in Int
    BY <1>0 DEF AsyncPrio
  <2> QED
    BY <1>0, <2>3, <2>4, <2>5, <2>6, SendKeeps
<1> QED
  BY <1>3, <1>4

\* k_stack_pop() and k_mbox_get() keep both.
LEMMA AllocGetKeep ==
  ASSUME IInv, BlocksInv, MatchInv, NEW t \in Threads,
         \/ \E target \in Peers(t), kind \in Kinds, s \in Sems \cup {Null} : AsyncAlloc(t, target, kind, s)
         \/ \E wish \in Peers(t), keep \in BOOLEAN, timeout \in Waits : Get(t, wish, keep, timeout)
  PROVE  BlocksInv' /\ MatchInv'
<1>0. /\ ListsInv /\ TypesInv /\ Acc
      /\ Threads \subseteq Senders /\ Null \notin Senders /\ tx \in [Senders -> MsgSet] /\ rx \in [Threads -> RxSet]
      /\ rxq \in Seq(Threads) /\ IsInjective(rxq) /\ prio \in [Senders -> Int]
  BY Distinct DEF IInv, TypesInv, ListsInv
<1>1. tstate[t] = "ready"
  BY DEF AsyncAlloc, Get, Runs
<1>2. ~Sent(t) /\ ~Contains(rxq, t)
  BY <1>0, <1>1, ReadyNotWaiting DEF Sent
<1>3. ASSUME NEW target \in Peers(t), NEW kind \in Kinds, NEW s \in Sems \cup {Null},
             AsyncAlloc(t, target, kind, s)
      PROVE  BlocksInv' /\ MatchInv'
  <2>1. /\ tx' = [tx EXCEPT ![t] = Msg(target, t, kind, s)]
        /\ UNCHANGED <<txq, rxq, rx, out>>
    BY <1>3 DEF AsyncAlloc
  <2>2. \A u \in Senders : (Sent(u)' <=> Sent(u)) /\ (Sent(u) => tx'[u] = tx[u])
    BY <1>0, <1>2, <2>1 DEF Sent
  <2>3. BlocksInv'
    BY <2>1, <2>2, BlocksStay
  <2>4. MatchInv'
    BY <2>1, <2>2, MatchKept DEF Sent
  <2> QED
    BY <2>3, <2>4
<1>4. ASSUME NEW wish \in Peers(t), NEW keep \in BOOLEAN, NEW timeout \in Waits,
             Get(t, wish, keep, timeout), Offers(t, wish) # {}
      PROVE  BlocksInv' /\ MatchInv'
  <2>1. PICK s \in Senders : s = txq[Min(Offers(t, wish))] /\ Contains(txq, s)
    BY <1>0, <1>4, OffersLeast
  <2>2. /\ LeaveTxq(s) /\ rx' = [rx EXCEPT ![t] = MatchedRx(s, tx[s], keep)]
        /\ rxq' = rxq /\ tx' = tx /\ out' = out /\ rx[t].from = Null
    BY <1>4, <2>1 DEF Get
  <2>3. \A u \in Senders : Contains(txq', u) <=> (u # s /\ Contains(txq, u))
    BY <1>0, <2>2, LeaveTxqIs
  <2>4. rx'[t].from = s /\ rx'[t].kind = tx[s].kind /\ \A u \in Threads \ {t} : rx'[u] = rx[u]
    BY <1>0, <2>2 DEF MatchedRx
  <2>5. \A u \in Senders : Sent(u)' <=> Sent(u)
    BY <1>0, <2>1, <2>2, <2>3, <2>4 DEF Sent
  <2>6. BlocksInv'
    BY <2>1, <2>2, <2>4, <2>5, BlocksStay DEF Sent
  <2>7. MatchInv'
    BY <1>2, <2>2, <2>3, <2>4, MatchKept
  <2> QED
    BY <2>6, <2>7
<1>5. ASSUME NEW wish \in Peers(t), NEW keep \in BOOLEAN, NEW timeout \in Waits,
             Get(t, wish, keep, timeout), Offers(t, wish) = {}
      PROVE  BlocksInv' /\ MatchInv'
  <2>1. /\ rxq' = Queued(rxq, t, prio[t]) /\ txq' = txq /\ tx' = tx /\ out' = out /\ rx[t].from = Null
        /\ rx' = [rx EXCEPT ![t] = [NoRx EXCEPT !.source = wish, !.keep = keep]]
    BY <1>5 DEF Get
  <2>2. \A u \in Threads : Contains(Queued(rxq, t, prio[t]), u) <=> (u = t \/ Contains(rxq, u))
    <3>1. prio[t] \in Int
      BY <1>0
    <3> QED
      BY ONLY <1>0, <1>2, <3>1, t \in Threads, QueuedMembers
  <2>3. rx'[t].from = Null /\ rx'[t].source = wish /\ \A u \in Threads \ {t} : rx'[u] = rx[u]
    BY <1>0, <2>1 DEF NoRx
  <2>4. \A u \in Senders : Sent(u)' <=> Sent(u)
    BY <1>0, <2>1, <2>3 DEF Sent
  <2>5. BlocksInv'
    BY <1>0, <2>1, <2>3, <2>4, BlocksStay
  <2>6. \A u \in Senders : Contains(txq, u) => ~Compatible(tx[u], t, wish)
    BY <1>0, <1>5 DEF Offers, Contains, ListsInv
  <2>7. MatchInv'
    BY <2>1, <2>2, <2>3, <2>6, MatchKept
  <2> QED
    BY <2>5, <2>7
<1> QED
  BY <1>3, <1>4, <1>5

\* A message that has been processed, cleared or given up.
LEMMA LeaveKeeps ==
  ASSUME IInv, BlocksInv, MatchInv, NEW t \in Threads,
         \/ Timeout(t)
         \/ ClearOne(t)
         \/ Dispose(t) /\ tstate[t] = "ready" /\ rx[t].from # Null
  PROVE  BlocksInv' /\ MatchInv'
<1>0. /\ ListsInv /\ TypesInv /\ Acc
      /\ Threads \subseteq Senders /\ Null \notin Senders /\ tx \in [Senders -> MsgSet] /\ rx \in [Threads -> RxSet]
      /\ rxq \in Seq(Threads) /\ IsInjective(rxq) /\ out \subseteq Senders
  BY Distinct DEF IInv, TypesInv, ListsInv
<1>1. CASE Timeout(t)
  <2>1. /\ t \in timed /\ LeaveTxq(t) /\ rxq' = Without(rxq, t)
        /\ tx' = [tx EXCEPT ![t] = NoMsg] /\ out' = out \ {t}
        /\ rx' = IF Contains(rxq, t) THEN [rx EXCEPT ![t] = NoRx] ELSE rx
    BY <1>1 DEF Timeout
  <2>2. \A u \in Senders : Contains(txq', u) <=> (u # t /\ Contains(txq, u))
    BY <1>0, <2>1, LeaveTxqIs
  <2>3. \A u \in Threads : Contains(Without(rxq, t), u) <=> (u # t /\ Contains(rxq, u))
    BY ONLY <1>0, WithoutMembers
  <2>4. Contains(txq, t) \/ Contains(rxq, t)
    BY <1>0, <2>1 DEF Acc, ThreadInv
  <2>5. \A r \in Threads : rx[r].from # t
    BY <1>0, <2>4 DEF Acc, ThreadInv, HeldInv
  <2>6. (\A u \in Threads \ {t} : rx'[u] = rx[u]) /\ (rx'[t] = rx[t] \/ (rx'[t].from = Null /\ rx[t].from = Null))
    BY <1>0, <2>1 DEF NoRx, Acc, ThreadInv
  <2>7. \A u \in Senders : Sent(u)' <=> (u # t /\ Sent(u))
    BY <1>0, <2>2, <2>5, <2>6 DEF Sent
  <2>8. \A u \in Senders : u # t => tx'[u] = tx[u]
    BY <1>0, <2>1
  <2>9. BlocksInv'
    BY <1>0, <2>1, <2>5, <2>6, <2>7, <2>8, BlocksLeave
  <2>10. MatchInv'
    BY <2>1, <2>2, <2>3, <2>6, <2>8, MatchKept
  <2> QED
    BY <2>9, <2>10
<1>2. CASE ClearOne(t)
  <2>1. PICK s \in Senders : s = next[t]
    BY <1>0, <1>2 DEF ClearOne, TypesInv
  <2>2. CASE ~Contains(txq, s)
    <3>1. txq' = txq /\ rxq' = rxq /\ tx' = tx /\ rx' = rx /\ out' = out
      BY <1>2, <2>1, <2>2 DEF ClearOne, queueVars
    <3>2. \A u \in Senders : Sent(u)' <=> Sent(u)
      BY <3>1 DEF Sent
    <3>3. BlocksInv'
      BY <3>1, <3>2, BlocksStay
    <3> QED
      BY <3>1, <3>3, MatchKept
  <2>3. CASE Contains(txq, s)
    <3>1. /\ LeaveTxq(s) /\ out' = out \ {s} /\ tx' = [tx EXCEPT ![s] = NoMsg]
          /\ rxq' = rxq /\ rx' = rx
      BY <1>2, <2>1, <2>3 DEF ClearOne, Notify
    <3>2. \A u \in Senders : Contains(txq', u) <=> (u # s /\ Contains(txq, u))
      BY <1>0, <3>1, LeaveTxqIs
    <3>3. \A r \in Threads : rx[r].from # s
      BY <1>0, <2>3 DEF Acc, HeldInv
    <3>4. \A u \in Senders : Sent(u)' <=> (u # s /\ Sent(u))
      BY <3>1, <3>2, <3>3 DEF Sent
    <3>5. \A u \in Senders : u # s => tx'[u] = tx[u]
      BY <1>0, <3>1
    <3>6. BlocksInv'
      BY <3>1, <3>3, <3>4, <3>5, BlocksLeave
    <3>7. MatchInv'
      BY <3>1, <3>2, <3>5, MatchKept
    <3> QED
      BY <3>6, <3>7
  <2> QED
    BY <2>2, <2>3
<1>3. CASE Dispose(t) /\ tstate[t] = "ready" /\ rx[t].from # Null
  <2>1. PICK s \in Senders : s = rx[t].from
    BY <1>0, <1>3 DEF RxSet
  <2>2. /\ out' = IF rx[t].kind = "block" THEN out \ {s} ELSE out
        /\ rx' = [rx EXCEPT ![t] = NoRx] /\ tx' = [tx EXCEPT ![s] = NoMsg]
        /\ txq' = txq /\ rxq' = rxq
    BY <1>3, <2>1 DEF Dispose, Released, Notify
  <2>3. ~Contains(txq, s) /\ \A r \in Threads : rx[r].from = s => r = t
    BY <1>0, <2>1 DEF Acc, HeldInv
  <2>4. rx'[t].from = Null /\ \A u \in Threads \ {t} : rx'[u] = rx[u]
    BY <1>0, <2>2 DEF NoRx
  <2>5. out' = out \ {s}
    <3>1. rx[t].kind = tx[s].kind
      BY <2>1 DEF BlocksInv
    <3>2. rx[t].kind # "block" => s \notin out
      BY <3>1 DEF BlocksInv
    <3> QED
      BY <2>2, <3>2
  <2>6. \A u \in Senders : u # s => tx'[u] = tx[u]
    BY <1>0, <2>2
  <2>7. \A u \in Senders : Sent(u)' <=> (u # s /\ Sent(u))
    BY <1>0, <2>1, <2>2, <2>3, <2>4 DEF Sent
  <2>8. BlocksInv'
    BY <1>0, <2>3, <2>4, <2>5, <2>6, <2>7, BlocksLeave
  <2>9. ~Contains(rxq, t)
    BY <1>0, <1>3, ReadyNotWaiting
  <2>10. MatchInv'
    BY <2>2, <2>3, <2>4, <2>6, <2>9, MatchKept
  <2> QED
    BY <2>8, <2>10
<1> QED
  BY <1>1, <1>2, <1>3

\* Every step of the mailbox keeps both.
LEMMA MboxNextKeeps ==
  ASSUME IInv, BlocksInv, MatchInv, [MboxNext]_mboxVars
  PROVE  BlocksInv' /\ MatchInv'
<1>0. ListsInv /\ TypesInv /\ Acc
  BY DEF IInv
<1>1. ASSUME UNCHANGED <<txq, rxq, tx, rx, out>>
      PROVE  BlocksInv' /\ MatchInv'
  <2>1. \A u \in Senders : Sent(u)' <=> Sent(u)
    BY <1>1 DEF Sent
  <2>2. BlocksInv'
    BY <1>1, <2>1, BlocksStay
  <2> QED
    BY <1>1, <2>2, MatchKept
<1>2. ASSUME NEW t \in Threads, MboxStep(t)
      PROVE  BlocksInv' /\ MatchInv'
  <2>1. CASE AsyncPut(t)
    BY <2>1, PutsKeep
  <2>2. CASE Timeout(t) \/ ClearOne(t)
    BY <2>2, LeaveKeeps
  <2>3. CASE DataGet(t)
    BY <2>3, LeaveKeeps DEF DataGet, Runs
  <2>4. CASE DataCheck(t)
    <3>1. tstate[t] = "ready" /\ pc[t] = "get"
      BY <2>4 DEF DataCheck, Runs
    <3>2. rx[t].from # Null
      BY <1>0, <3>1, ReadyNotWaiting DEF Acc, ThreadInv
    <3>3. CASE ~rx[t].keep
      BY <2>4, <3>1, <3>2, <3>3, LeaveKeeps DEF DataCheck
    <3>4. CASE rx[t].keep
      BY <1>1, <2>4, <3>4 DEF DataCheck, queueVars
    <3> QED
      BY <3>3, <3>4
  <2>5. CASE Give(t) \/ ClearStart(t) \/ ClearEnd(t)
    BY <1>1, <2>5 DEF Give, ClearStart, ClearEnd, queueVars
  <2> QED
    BY <1>2, <2>1, <2>2, <2>3, <2>4, <2>5 DEF MboxStep
<1>3. CASE UNCHANGED mboxVars
  BY <1>1, <1>3 DEF mboxVars, queueVars
<1>4. ASSUME NEW t \in Threads,
             \/ \E target \in Peers(t), kind \in Kinds, timeout \in Waits : Put(t, target, kind, timeout)
             \/ \E target \in Peers(t), kind \in Kinds, s \in Sems \cup {Null} : AsyncAlloc(t, target, kind, s)
             \/ \E wish \in Peers(t), keep \in BOOLEAN, timeout \in Waits : Get(t, wish, keep, timeout)
      PROVE  BlocksInv' /\ MatchInv'
  BY <1>4, PutsKeep, AllocGetKeep
<1> QED
  BY <1>2, <1>3, <1>4 DEF MboxNext

\* Both hold throughout.
LEMMA MboxSpecKeeps == MboxSpec => [](IInv /\ BlocksInv /\ MatchInv)
<1>1. MboxInit(0) => BlocksInv /\ MatchInv
  <2> SUFFICES ASSUME MboxInit(0) PROVE BlocksInv /\ MatchInv
    OBVIOUS
  <2>1. txq = << >> /\ out = {} /\ \A r \in Threads : rx[r].from = Null
    BY DEF MboxInit, NoRx
  <2>2. \A s \in Senders : ~Sent(s) /\ ~Contains(txq, s)
    BY <2>1, Distinct DEF Sent, Contains
  <2> QED
    BY <2>1, <2>2 DEF BlocksInv, MatchInv, Sent
<1>2. IInv /\ BlocksInv /\ MatchInv /\ [MboxNext]_mboxVars => BlocksInv' /\ MatchInv'
  BY MboxNextKeeps
<1> QED
  BY <1>1, <1>2, MboxSpecInv, PTL DEF MboxSpec

\* A memory block sent with a message is released when the message has been
\* processed, and not before, for any number of threads and messages.
THEOREM MailboxBlocksSettled == MboxSpec => []BlocksSettled
<1>1. ASSUME IInv, BlocksInv PROVE BlocksSettled
  <2>1. out \subseteq Senders
    BY <1>1 DEF IInv, TypesInv
  <2>2. \A s \in Senders : Holders(s) # {} <=> \E r \in Threads : rx[r].from = s
    BY DEF Holders
  <2> QED
    BY <1>1, <2>1, <2>2 DEF BlocksSettled, BlocksInv, Sent
<1>2. IInv /\ BlocksInv => BlocksSettled
  BY <1>1
<1> QED
  BY <1>2, MboxSpecKeeps, PTL

\* No sender and receiver that suit each other wait side by side, and nobody
\* waits for a descriptor while one is free, for any number of them.
THEOREM MailboxNoMissedMatch == MboxSpec => []NoMissedMatch
<1>1. ASSUME IInv, MatchInv PROVE NoMissedMatch
  <2>1. /\ DOMAIN rxq = 1..Len(rxq) /\ \A i \in 1..Len(rxq) : rxq[i] \in Threads
        /\ DOMAIN txq = 1..Len(txq) /\ \A i \in 1..Len(txq) : txq[i] \in Senders
    BY <1>1 DEF IInv, ListsInv
  <2>2. \A i \in DOMAIN rxq : Offers(rxq[i], rx[rxq[i]].source) = {}
    BY <1>1, <2>1 DEF MatchInv, Offers, Contains
  <2>3. poolq # << >> => free = << >>
    BY <1>1 DEF IInv, Acc, PoolInv
  <2> QED
    BY <2>2, <2>3 DEF NoMissedMatch
<1>2. IInv /\ MatchInv => NoMissedMatch
  BY <1>1
<1> QED
  BY <1>2, MboxSpecKeeps, PTL

-----------------------------------------------------------------------------
(* The order in which messages are offered *)

\* The senders y that may stand behind x on tx_msg_queue.
Follow(P, A) == [x \in Senders |-> {y \in Senders : P[x] < P[y] \/ (P[x] = P[y] /\ y \notin A[x])}]

\* The queue is in that order, those a sender found there are still there, a
\* dummy thread has the priority of the thread that sent its message, and what
\* a thread is about to send is its own.
OrderInv ==
  /\ ahead \in [Senders -> SUBSET Senders]
  /\ \A s, u \in Senders : u \in ahead[s] => Contains(txq, u)
  /\ Ordered(txq, Follow(prio, ahead))
  /\ \A s \in Senders : Contains(txq, s) => tx[s].source \in Threads /\ prio[s] = prio[tx[s].source]
  /\ \A t \in Threads : pc[t] = "put" => tx[t].source = t

\* Who may stand behind whom, by its definition.
LEMMA FollowIs ==
  ASSUME NEW P, NEW A, NEW x \in Senders, NEW y \in Senders
  PROVE  y \in Follow(P, A)[x] <=> (P[x] < P[y] \/ (P[x] = P[y] /\ y \notin A[x]))
BY DEF Follow

\* The order is about those on the queue only.
LEMMA FollowKept ==
  ASSUME ListsInv, NEW P, NEW A, Ordered(txq, Follow(P, A)), NEW Q, NEW B,
         \A u \in Senders : Contains(txq, u) => Q[u] = P[u] /\ B[u] \subseteq A[u]
  PROVE  Ordered(txq, Follow(Q, B))
<1>1. \A i \in 1..Len(txq) : txq[i] \in Senders /\ Contains(txq, txq[i])
  BY DEF ListsInv, Contains
<1>2. ASSUME NEW i \in 1..Len(txq), NEW j \in 1..Len(txq), i < j
      PROVE  txq[j] \in Follow(Q, B)[txq[i]]
  <2>1. PICK x \in Senders, y \in Senders : x = txq[i] /\ y = txq[j]
    BY <1>1
  <2>2. y \in Follow(P, A)[x]
    BY <1>2, <2>1 DEF Ordered
  <2>3. P[x] < P[y] \/ (P[x] = P[y] /\ y \notin A[x])
    BY ONLY <2>2, FollowIs
  <2>4. Q[x] = P[x] /\ Q[y] = P[y] /\ B[x] \subseteq A[x]
    BY <1>1, <2>1
  <2>5. Q[x] < Q[y] \/ (Q[x] = Q[y] /\ y \notin B[x])
    BY <2>3, <2>4
  <2>6. y \in Follow(Q, B)[x]
    BY ONLY <2>5, FollowIs
  <2> QED
    BY <2>1, <2>6
<1> QED
  BY <1>2 DEF Ordered

\* A sender joins the queue.
LEMMA JoinOrder ==
  ASSUME ListsInv, TypesInv, OrderInv, NEW s \in Senders, NEW m, NEW p \in Int, NEW timeout,
         PutOnQueue(s, m, p, timeout), ~Contains(txq, s),
         prio' \in [Senders -> Int], prio'[s] = p, \A u \in Senders \ {s} : prio'[u] = prio[u]
  PROVE  /\ ahead' \in [Senders -> SUBSET Senders]
         /\ \A x, u \in Senders : u \in ahead'[x] => Contains(txq', u)
         /\ Ordered(txq', Follow(prio', ahead'))
<1>0. /\ txq \in Seq(Senders) /\ IsInjective(txq) /\ prio \in [Senders -> Int] /\ Len(txq) \in Nat
      /\ \A i \in 1..Len(txq) : txq[i] \in Senders /\ Contains(txq, txq[i]) /\ prio[txq[i]] \in Int
      /\ ahead \in [Senders -> SUBSET Senders] /\ Senders \subseteq Senders
  BY DEF ListsInv, TypesInv, OrderInv, Contains
<1>1. /\ txq' = Queued(txq, s, p) /\ ahead' = [ahead EXCEPT ![s] = ToSet(txq)]
  BY DEF PutOnQueue
<1>2. \A u \in Senders : Contains(txq', u) <=> (u = s \/ Contains(txq, u))
  <2>1. Joined(s, timeout)
    BY PutOnQueueIs
  <2> QED
    BY <2>1 DEF Joined
<1>3. ToSet(txq) \subseteq Senders /\ \A u \in ToSet(txq) : Contains(txq, u)
  <2>1. \A u \in ToSet(txq) : \E i \in DOMAIN txq : u = txq[i]
    BY DEF ToSet
  <2>2. DOMAIN txq = 1..Len(txq)
    BY <1>0
  <2> QED
    BY <1>0, <2>1, <2>2
<1>4. /\ ahead' \in [Senders -> SUBSET Senders] /\ ahead'[s] = ToSet(txq)
      /\ \A u \in Senders \ {s} : ahead'[u] = ahead[u]
  BY <1>0, <1>1, <1>3
<1>5. \A x, u \in Senders : u \in ahead'[x] => Contains(txq', u)
  BY <1>2, <1>3, <1>4 DEF OrderInv
<1>6. PICK i \in 1..(Len(txq) + 1) :
        /\ Queued(txq, s, p) = InsertAt(txq, i, s)
        /\ \A j \in 1..(i - 1) : prio[txq[j]] <= p
        /\ i <= Len(txq) => p < prio[txq[i]]
  BY ONLY <1>0, s \in Senders, p \in Int, QueuedPlace
<1> DEFINE R == Follow(prio', ahead')
<1>7. Ordered(txq, R)
  <2>1. \A u \in Senders : Contains(txq, u) => prio'[u] = prio[u] /\ ahead'[u] \subseteq ahead[u]
    BY <1>4
  <2>2. Ordered(txq, Follow(prio, ahead))
    BY DEF OrderInv
  <2> QED
    BY <1>0, <2>1, <2>2, FollowKept
<1>8. \A j \in 1..(i - 1) : s \in R[txq[j]]
  <2> TAKE j \in 1..(i - 1)
  <2>1. j \in 1..Len(txq)
    BY <1>0
  <2>2. txq[j] \in Senders \ {s} /\ prio'[txq[j]] <= prio'[s] /\ prio'[txq[j]] \in Int
    BY <1>0, <1>6, <2>1
  <2>3. s \notin ahead'[txq[j]]
    BY <1>4, <2>2 DEF OrderInv
  <2> QED
    BY <2>2, <2>3 DEF Follow
<1>9. \A j \in 1..Len(txq) : j >= i => txq[j] \in R[s]
  <2> SUFFICES ASSUME NEW j \in 1..Len(txq), j >= i PROVE txq[j] \in R[s]
    OBVIOUS
  <2>1. i \in 1..Len(txq) /\ p < prio[txq[i]]
    BY <1>0, <1>6
  <2>2. prio[txq[i]] <= prio[txq[j]]
    <3>1. CASE i = j
      BY <1>0, <2>1, <3>1
    <3>2. CASE i < j
      <4>1. txq[j] \in Follow(prio, ahead)[txq[i]]
        BY <2>1, <3>2 DEF OrderInv, Ordered
      <4>2. prio[txq[i]] < prio[txq[j]] \/ prio[txq[i]] = prio[txq[j]]
        <5>1. txq[i] \in Senders /\ txq[j] \in Senders
          BY <1>0, <2>1
        <5> QED
          BY ONLY <4>1, <5>1, FollowIs
      <4> QED
        BY <1>0, <2>1, <4>2, SMTT(40)
    <3> QED
      BY <2>1, <3>1, <3>2
  <2>3. txq[j] # s /\ txq[j] \in Senders /\ prio'[txq[j]] = prio[txq[j]] /\ p < prio[txq[j]]
    BY <1>0, <2>1, <2>2, SMTT(40)
  <2> QED
    BY <2>3 DEF Follow
<1>10. Ordered(InsertAt(txq, i, s), R)
  <2> HIDE DEF R
  <2> QED
    BY ONLY <1>0, s \in Senders, i \in 1..(Len(txq) + 1), <1>7, <1>8, <1>9, InsertAtOrdered
<1> QED
  BY <1>1, <1>4, <1>5, <1>6, <1>10

\* A sender leaves it.
LEMMA LeaveOrder ==
  ASSUME ListsInv, TypesInv, OrderInv, NEW s, LeaveTxq(s), prio' = prio
  PROVE  /\ ahead' \in [Senders -> SUBSET Senders]
         /\ \A x, u \in Senders : u \in ahead'[x] => Contains(txq', u)
         /\ Ordered(txq', Follow(prio', ahead'))
<1>0. /\ txq \in Seq(Senders) /\ prio \in [Senders -> Int] /\ ahead \in [Senders -> SUBSET Senders]
      /\ Ordered(txq, Follow(prio, ahead))
  BY DEF ListsInv, TypesInv, OrderInv
<1>1. \A u \in Senders : Contains(txq', u) <=> (u # s /\ Contains(txq, u))
  BY LeaveTxqIs
<1>2. /\ ahead' = [u \in Senders |-> IF u = s THEN {} ELSE ahead[u] \ {s}]
      /\ txq' = RemoveFirst(txq, s)
  BY DEF LeaveTxq, Without
<1>3. /\ ahead' \in [Senders -> SUBSET Senders]
      /\ \A u \in Senders : ahead'[u] \subseteq ahead[u] /\ s \notin ahead'[u]
  BY <1>0, <1>2
<1>4. Ordered(txq, Follow(prio, ahead'))
  BY <1>0, <1>3, FollowKept
<1>5. Ordered(RemoveFirst(txq, s), Follow(prio, ahead'))
  BY ONLY <1>0, <1>4, RemoveFirstOrdered
<1>6. \A x, u \in Senders : u \in ahead'[x] => Contains(txq', u)
  BY <1>1, <1>3 DEF OrderInv
<1> QED
  BY <1>2, <1>3, <1>5, <1>6

\* Nobody joins or leaves the queue.
LEMMA OrderStay ==
  ASSUME ListsInv, OrderInv, txq' = txq, ahead' = ahead,
         \A u \in Threads : prio'[u] = prio[u],
         \A u \in Senders : Contains(txq, u) => tx'[u] = tx[u] /\ prio'[u] = prio[u],
         \A u \in Threads : pc'[u] = "put" => tx'[u].source = u
  PROVE  OrderInv'
<1>1. Ordered(txq, Follow(prio', ahead))
  BY FollowKept DEF OrderInv
<1>2. \A s \in Senders : Contains(txq, s) => tx'[s].source \in Threads /\ prio'[s] = prio'[tx'[s].source]
  BY DEF OrderInv
<1> QED
  BY <1>1, <1>2 DEF OrderInv

\* Thread t sends m with s, itself or the descriptor in its hand.
Sends(t, s, m, p, timeout) ==
  /\ PutToReceiver(s, m) \/ PutOnQueue(s, m, p, timeout)
  /\ tstate[t] = "ready" /\ (s = t \/ s \in Asyncs) /\ ~Contains(txq, s)
  /\ m.source = t /\ p = prio[t] /\ prio' = [prio EXCEPT ![s] = p] /\ tx'[s] = m
  /\ \A u \in Senders : u # s /\ u # t => tx'[u] = tx[u]
  /\ \A u \in Threads : pc'[u] = IF u = t THEN "out" ELSE pc[u]

\* The order is kept.
LEMMA SendOrder ==
  ASSUME ListsInv, TypesInv, Acc, OrderInv, NEW t \in Threads, NEW s \in Senders, NEW m \in MsgSet,
         NEW p \in Int, NEW timeout, Sends(t, s, m, p, timeout)
  PROVE  OrderInv'
<1> USE DEF Sends
<1>0. /\ Threads \subseteq Senders /\ prio \in [Senders -> Int] /\ \A a \in Asyncs : a \notin Threads
      /\ ~Contains(txq, t)
  BY Distinct, ReadyNotWaiting DEF TypesInv
<1>1. /\ prio' \in [Senders -> Int] /\ prio'[s] = p /\ prio'[t] = p
      /\ \A u \in Senders \ {s} : prio'[u] = prio[u]
      /\ \A u \in Threads : prio'[u] = prio[u]
  BY <1>0
<1>2. \A u \in Senders : Contains(txq, u) => u # s /\ tx'[u] = tx[u] /\ prio'[u] = prio[u]
  BY <1>0, <1>1
<1>3. \A u \in Threads : pc'[u] = "put" => tx'[u].source = u
  BY <1>0 DEF OrderInv
<1>4. CASE PutToReceiver(s, m)
  <2>1. txq' = txq /\ ahead' = ahead
    BY <1>4 DEF PutToReceiver
  <2> QED
    BY <1>1, <1>2, <1>3, <2>1, OrderStay
<1>5. CASE PutOnQueue(s, m, p, timeout)
  <2>1. /\ ahead' \in [Senders -> SUBSET Senders]
        /\ \A x, u \in Senders : u \in ahead'[x] => Contains(txq', u)
        /\ Ordered(txq', Follow(prio', ahead'))
    BY <1>1, <1>5, JoinOrder
  <2>2. \A u \in Senders : Contains(txq', u) <=> (u = s \/ Contains(txq, u))
    <3>1. Joined(s, timeout)
      BY <1>5, PutOnQueueIs
    <3> QED
      BY <3>1 DEF Joined
  <2>3. \A u \in Senders : Contains(txq', u) => tx'[u].source \in Threads /\ prio'[u] = prio'[tx'[u].source]
    BY <1>0, <1>1, <1>2, <2>2 DEF OrderInv
  <2> QED
    BY <1>3, <2>1, <2>3 DEF OrderInv
<1> QED
  BY <1>4, <1>5

\* k_mbox_put() and both halves of k_mbox_async_put() keep the order.
LEMMA PutsOrder ==
  ASSUME IInv, OrderInv, NEW t \in Threads,
         \/ \E target \in Peers(t), kind \in Kinds, timeout \in Waits : Put(t, target, kind, timeout)
         \/ \E target \in Peers(t), kind \in Kinds, s \in Sems \cup {Null} : AsyncAlloc(t, target, kind, s)
         \/ AsyncPut(t)
  PROVE  OrderInv'
<1>0. /\ ListsInv /\ TypesInv /\ Acc
      /\ Threads \subseteq Senders /\ \A a \in Asyncs : a \notin Threads /\ a \in Senders
      /\ prio \in [Senders -> Int] /\ tx \in [Senders -> MsgSet]
      /\ pc \in [Threads -> {"out", "put", "get", "give", "clear", "clearGive"}]
  BY Distinct DEF IInv, TypesInv, Senders
<1>1. ASSUME NEW target \in Peers(t), NEW kind \in Kinds, NEW timeout \in Waits, Put(t, target, kind, timeout)
      PROVE  OrderInv'
  <2>0. Msg(target, t, kind, Null) \in MsgSet /\ Msg(target, t, kind, Null).source = t
    BY DEF Msg, MsgSet, Peers
  <2>1. PICK m \in MsgSet : m = Msg(target, t, kind, Null) /\ m.source = t
    BY <2>0, Zenon
  <2>2. /\ PutToReceiver(t, m) \/ PutOnQueue(t, m, prio[t], timeout)
        /\ tx' = [tx EXCEPT ![t] = m] /\ prio' = prio /\ pc' = pc
        /\ tstate[t] = "ready" /\ pc[t] = "out"
    BY <1>1, <2>1 DEF Put, PutOrWait, Runs, callVars
  <2>3. prio' = [prio EXCEPT ![t] = prio[t]] /\ prio[t] \in Int /\ ~Contains(txq, t)
    BY <1>0, <2>2, ReadyNotWaiting
  <2>4. /\ tx'[t] = m /\ t \in Senders /\ \A u \in Senders : u # t /\ u # t => tx'[u] = tx[u]
        /\ \A u \in Threads : pc'[u] = IF u = t THEN "out" ELSE pc[u]
    BY <1>0, <2>2
  <2>5. Sends(t, t, m, prio[t], timeout)
    BY <2>1, <2>2, <2>3, <2>4 DEF Sends
  <2> QED
    BY ONLY <1>0, OrderInv, t \in Threads, m \in MsgSet, <2>3, <2>4, <2>5, SendOrder
<1>2. ASSUME NEW target \in Peers(t), NEW kind \in Kinds, NEW s \in Sems \cup {Null},
             AsyncAlloc(t, target, kind, s)
      PROVE  OrderInv'
  <2>1. /\ tx' = [tx EXCEPT ![t] = Msg(target, t, kind, s)] /\ pc' = [pc EXCEPT ![t] = "put"]
        /\ prio' = prio /\ txq' = txq /\ ahead' = ahead /\ tstate[t] = "ready"
    BY <1>2 DEF AsyncAlloc, Runs
  <2>2. ~Contains(txq, t)
    BY <1>0, <2>1, ReadyNotWaiting
  <2>3. tx'[t].source = t /\ \A u \in Senders \ {t} : tx'[u] = tx[u]
    BY <1>0, <2>1 DEF Msg
  <2>4. \A u \in Threads : pc'[u] = "put" => tx'[u].source = u
    BY <1>0, <2>1, <2>3 DEF OrderInv
  <2> QED
    BY <1>0, <2>1, <2>2, <2>3, <2>4, OrderStay
<1>3. CASE AsyncPut(t)
  <2>1. tstate[t] = "ready" /\ pc[t] = "put"
    BY <1>3 DEF AsyncPut, Runs
  <2>2. PICK a \in Asyncs : a = hand[t]
    BY <1>0, <2>1, ReadyNotWaiting DEF Acc, HandInv
  <2>3. PICK m \in MsgSet : m = tx[t] /\ m.source = t
    BY <1>0, <2>1 DEF OrderInv
  <2>4. /\ prio' = [prio EXCEPT ![a] = prio[t]] /\ tx' = [tx EXCEPT ![a] = m, ![t] = NoMsg]
        /\ PutToReceiver(a, m) \/ PutOnQueue(a, m, prio[t], "forever")
        /\ pc' = [pc EXCEPT ![t] = "out"]
    BY <1>3, <2>2, <2>3 DEF AsyncPut, AsyncPrio
  <2>5. /\ ~Contains(txq, a) /\ prio[t] \in Int /\ a \in Senders
        /\ tx'[a] = m /\ \A u \in Senders : u # a /\ u # t => tx'[u] = tx[u]
        /\ \A u \in Threads : pc'[u] = IF u = t THEN "out" ELSE pc[u]
    BY <1>0, <2>2, <2>4 DEF Acc, AsyncInv
  <2>6. Sends(t, a, m, prio[t], "forever")
    BY <2>1, <2>3, <2>4, <2>5 DEF Sends
  <2> QED
    BY ONLY <1>0, OrderInv, t \in Threads, m \in MsgSet, <2>5, <2>6, SendOrder
<1> QED
  BY <1>1, <1>2, <1>3


\* Thread t lets go of the message of s, or receives it: the order is kept.
LEMMA LeavesOrder ==
  ASSUME IInv, OrderInv, NEW t \in Threads,
         \/ \E wish \in Peers(t), keep \in BOOLEAN, timeout \in Waits : Get(t, wish, keep, timeout)
         \/ Timeout(t)
         \/ ClearOne(t)
         \/ Dispose(t) /\ rx[t].from # Null
  PROVE  OrderInv'
<1>0. /\ ListsInv /\ TypesInv /\ Acc
      /\ Threads \subseteq Senders /\ Null \notin Senders /\ tx \in [Senders -> MsgSet] /\ rx \in [Threads -> RxSet]
      /\ pc \in [Threads -> {"out", "put", "get", "give", "clear", "clearGive"}]
  BY Distinct DEF IInv, TypesInv
<1>1. ASSUME NEW s \in Senders, LeaveTxq(s) \/ (txq' = txq /\ ahead' = ahead /\ ~Contains(txq, s)),
             prio' = prio, \A u \in Senders \ {s} : tx'[u] = tx[u],
             \A u \in Threads : pc'[u] = "put" => pc[u] = "put" /\ u # s
      PROVE  OrderInv'
  <2>1. \A u \in Threads : pc'[u] = "put" => tx'[u].source = u
    BY <1>0, <1>1 DEF OrderInv
  <2>2. CASE LeaveTxq(s)
    <3>1. /\ ahead' \in [Senders -> SUBSET Senders]
          /\ \A x, u \in Senders : u \in ahead'[x] => Contains(txq', u)
          /\ Ordered(txq', Follow(prio', ahead'))
      BY <1>0, <1>1, <2>2, LeaveOrder
    <3>2. \A u \in Senders : Contains(txq', u) <=> (u # s /\ Contains(txq, u))
      BY <1>0, <2>2, LeaveTxqIs
    <3>3. \A u \in Senders : Contains(txq', u) => tx'[u].source \in Threads /\ prio'[u] = prio'[tx'[u].source]
      BY <1>1, <3>2 DEF OrderInv
    <3> QED
      BY <2>1, <3>1, <3>3 DEF OrderInv
  <2>3. CASE txq' = txq /\ ahead' = ahead /\ ~Contains(txq, s)
    BY <1>0, <1>1, <2>1, <2>3, OrderStay
  <2> QED
    BY <1>1, <2>2, <2>3
<1>2. ASSUME NEW wish \in Peers(t), NEW keep \in BOOLEAN, NEW timeout \in Waits, Get(t, wish, keep, timeout)
      PROVE  OrderInv'
  <2>1. prio' = prio /\ tx' = tx /\ pc' = [pc EXCEPT ![t] = "get"]
    BY <1>2 DEF Get
  <2>2. CASE Offers(t, wish) # {}
    <3>1. PICK s \in Senders : s = txq[Min(Offers(t, wish))] /\ Contains(txq, s)
      BY <1>0, <2>2, OffersLeast
    <3>2. LeaveTxq(s)
      BY <1>2, <2>2, <3>1 DEF Get
    <3>3. \A u \in Threads : pc'[u] = "put" => pc[u] = "put" /\ u # s
      BY <1>0, <2>1, <3>1 DEF Acc, ThreadInv
    <3> QED
      BY <1>1, <2>1, <3>2, <3>3
  <2>3. CASE Offers(t, wish) = {}
    <3>1. txq' = txq /\ ahead' = ahead
      BY <1>2, <2>3 DEF Get
    <3>2. \A u \in Threads : pc'[u] = "put" => tx'[u].source = u
      BY <1>0, <2>1 DEF OrderInv
    <3> QED
      BY <1>0, <2>1, <3>1, <3>2, OrderStay
  <2> QED
    BY <2>2, <2>3
<1>3. CASE Timeout(t)
  <2>1. LeaveTxq(t) /\ prio' = prio /\ tx' = [tx EXCEPT ![t] = NoMsg] /\ pc' = [pc EXCEPT ![t] = "out"]
    BY <1>3 DEF Timeout
  <2>2. t \in Senders /\ \A u \in Senders \ {t} : tx'[u] = tx[u]
    BY <1>0, <2>1
  <2>3. \A u \in Threads : pc'[u] = "put" => pc[u] = "put" /\ u # t
    BY <1>0, <2>1
  <2> QED
    BY <1>1, <2>1, <2>2, <2>3
<1>4. ASSUME NEW s \in Senders, NEW done \in {"out", "clear"}, Notify(t, s, done),
             Contains(txq, s) \/ \E r \in Threads : rx[r].from = s
      PROVE  /\ \A u \in Senders \ {s} : tx'[u] = tx[u]
             /\ \A u \in Threads : pc'[u] = "put" => pc[u] = "put" /\ u # s
  <2>1. tx' = [tx EXCEPT ![s] = NoMsg]
    BY <1>4 DEF Notify
  <2>2. /\ \A u \in Threads \ {t} : pc'[u] = pc[u]
        /\ pc'[t] \in {"out", "clear", "give", "clearGive"}
    BY <1>0, <1>4 DEF Notify
  <2>3. s \in Threads => pc[s] = "out"
    BY <1>0, <1>4 DEF Acc, ThreadInv
  <2> QED
    BY <1>0, <2>1, <2>2, <2>3
<1>5. CASE ClearOne(t)
  <2>1. PICK s \in Senders : s = next[t]
    BY <1>0, <1>5 DEF ClearOne, TypesInv
  <2>2. CASE Contains(txq, s)
    <3>1. LeaveTxq(s) /\ prio' = prio /\ Notify(t, s, "clear")
      BY <1>5, <2>1, <2>2 DEF ClearOne
    <3> QED
      BY <1>1, <1>4, <2>2, <3>1
  <2>3. CASE ~Contains(txq, s)
    <3>1. txq' = txq /\ ahead' = ahead /\ prio' = prio /\ tx' = tx /\ pc' = pc
      BY <1>5, <2>1, <2>3 DEF ClearOne, queueVars, callVars
    <3> QED
      BY <1>0, <3>1, OrderStay DEF OrderInv
  <2> QED
    BY <2>2, <2>3
<1>6. CASE Dispose(t) /\ rx[t].from # Null
  <2>1. PICK s \in Senders : s = rx[t].from
    BY <1>0, <1>6 DEF RxSet
  <2>2. Notify(t, s, "out") /\ txq' = txq /\ ahead' = ahead /\ prio' = prio
    BY <1>6, <2>1 DEF Dispose
  <2>3. ~Contains(txq, s)
    BY <1>0, <2>1 DEF Acc, HeldInv
  <2> QED
    BY <1>1, <1>4, <2>1, <2>2, <2>3
<1> QED
  BY <1>2, <1>3, <1>5, <1>6

\* Every step of the mailbox keeps the order.
LEMMA MboxNextOrder ==
  ASSUME IInv, OrderInv, [MboxNext]_mboxVars
  PROVE  OrderInv'
<1>0. /\ ListsInv /\ TypesInv /\ Acc
      /\ pc \in [Threads -> {"out", "put", "get", "give", "clear", "clearGive"}]
  BY DEF IInv, TypesInv
<1>1. ASSUME UNCHANGED <<txq, prio, tx, ahead>>, \A u \in Threads : pc'[u] = "put" => pc[u] = "put"
      PROVE  OrderInv'
  BY <1>0, <1>1, OrderStay DEF OrderInv
<1>2. ASSUME NEW t \in Threads, MboxStep(t)
      PROVE  OrderInv'
  <2>1. CASE AsyncPut(t)
    BY <2>1, PutsOrder
  <2>2. CASE Timeout(t) \/ ClearOne(t)
    BY <2>2, LeavesOrder
  <2>3. CASE DataGet(t)
    BY <2>3, LeavesOrder DEF DataGet
  <2>4. CASE DataCheck(t)
    <3>1. tstate[t] = "ready" /\ pc[t] = "get"
      BY <2>4 DEF DataCheck, Runs
    <3>2. rx[t].from # Null
      BY <1>0, <3>1, ReadyNotWaiting DEF Acc, ThreadInv
    <3>3. CASE ~rx[t].keep
      BY <2>4, <3>2, <3>3, LeavesOrder DEF DataCheck
    <3>4. CASE rx[t].keep
      BY <1>0, <1>1, <2>4, <3>4 DEF DataCheck, queueVars
    <3> QED
      BY <3>3, <3>4
  <2>5. CASE Give(t) \/ ClearStart(t) \/ ClearEnd(t)
    <3>1. UNCHANGED <<txq, prio, tx, ahead>>
      BY <2>5 DEF Give, ClearStart, ClearEnd, queueVars
    <3>2. \A u \in Threads : pc'[u] = "put" => pc[u] = "put"
      BY <1>0, <2>5 DEF Give, ClearStart, ClearEnd
    <3> QED
      BY <1>1, <3>1, <3>2
  <2> QED
    BY <1>2, <2>1, <2>2, <2>3, <2>4, <2>5 DEF MboxStep
<1>3. CASE UNCHANGED mboxVars
  BY <1>1, <1>3 DEF mboxVars, queueVars, callVars
<1>4. ASSUME NEW t \in Threads,
             \/ \E target \in Peers(t), kind \in Kinds, timeout \in Waits : Put(t, target, kind, timeout)
             \/ \E target \in Peers(t), kind \in Kinds, s \in Sems \cup {Null} : AsyncAlloc(t, target, kind, s)
             \/ \E wish \in Peers(t), keep \in BOOLEAN, timeout \in Waits : Get(t, wish, keep, timeout)
      PROVE  OrderInv'
  BY <1>4, PutsOrder, LeavesOrder
<1> QED
  BY <1>2, <1>3, <1>4 DEF MboxNext

\* Messages are offered in the order of the priorities of the threads that sent
\* them and, within a priority, of their coming, for any number of senders.
THEOREM MailboxOfferedInOrder == MboxSpec => []OfferedInOrder
<1>1. MboxInit(0) => OrderInv
  <2> SUFFICES ASSUME MboxInit(0) PROVE OrderInv
    OBVIOUS
  <2>1. /\ txq = << >> /\ ahead = [s \in Senders |-> {}] /\ pc = [t \in Threads |-> "out"]
    BY DEF MboxInit
  <2>2. \A s \in Senders : ~Contains(txq, s)
    BY <2>1 DEF Contains
  <2>3. Ordered(txq, Follow(prio, ahead))
    BY <2>1 DEF Ordered
  <2> QED
    BY <2>1, <2>2, <2>3 DEF OrderInv
<1>2. IInv /\ OrderInv /\ [MboxNext]_mboxVars => OrderInv'
  BY MboxNextOrder
<1>3. ASSUME IInv, OrderInv PROVE OfferedInOrder
  <2>1. /\ DOMAIN txq = 1..Len(txq) /\ prio \in [Senders -> Int]
        /\ \A i \in 1..Len(txq) : txq[i] \in Senders /\ Contains(txq, txq[i])
    BY <1>3 DEF IInv, ListsInv, TypesInv, Contains
  <2>2. ASSUME NEW i \in DOMAIN txq, NEW j \in DOMAIN txq, i < j
        PROVE  /\ prio[tx[txq[i]].source] <= prio[tx[txq[j]].source]
               /\ prio[tx[txq[i]].source] = prio[tx[txq[j]].source] => txq[j] \notin ahead[txq[i]]
    <3>1. PICK x \in Senders, y \in Senders : x = txq[i] /\ y = txq[j] /\ Contains(txq, x) /\ Contains(txq, y)
      BY <2>1, <2>2
    <3>2. y \in Follow(prio, ahead)[x]
      BY <1>3, <2>1, <2>2, <3>1 DEF OrderInv, Ordered
    <3>3. prio[x] < prio[y] \/ (prio[x] = prio[y] /\ y \notin ahead[x])
      BY ONLY <3>2, FollowIs
    <3>4. prio[x] \in Int /\ prio[y] \in Int
      BY <2>1
    <3>5. prio[tx[x].source] = prio[x] /\ prio[tx[y].source] = prio[y]
      BY <1>3, <3>1 DEF OrderInv
    <3> QED
      BY <3>1, <3>3, <3>4, <3>5
  <2> QED
    BY <2>2 DEF OfferedInOrder
<1>4. IInv /\ OrderInv => OfferedInOrder
  BY <1>3
<1> QED
  BY <1>1, <1>2, <1>4, MboxSpecInv, PTL DEF MboxSpec


-----------------------------------------------------------------------------
(* The message manager *)

MsgTypesInv ==
  /\ buf \in [Threads -> Sems \cup {Null}]
  /\ syncing \subseteq Threads /\ syncSem \subseteq syncing
  /\ got \in [Threads -> Threads \cup {NoCallback, Null}]

\* Buffer b is in one place: free, filled by a sender, with a message, or in the
\* hands of a receiver that is about to free it.
BufAt(b) ==
  /\ sem[b] = 1 \/ (\E t \in Threads : buf[t] = b) \/ (\E s \in Senders : tx[s].sem = b)
       \/ \E t \in Threads : hand[t] = b
  /\ sem[b] = 1 => /\ \A t \in Threads : buf[t] # b /\ hand[t] # b
                   /\ \A s \in Senders : tx[s].sem # b
  /\ \A t \in Threads : buf[t] = b =>
       /\ \A u \in Threads : hand[u] # b /\ (buf[u] = b => u = t)
       /\ \A s \in Senders : tx[s].sem # b
  /\ \A t \in Threads : hand[t] = b =>
       /\ \A u \in Threads : hand[u] = b => u = t
       /\ \A s \in Senders : tx[s].sem # b
  /\ \A s, u \in Senders : tx[s].sem = b /\ tx[u].sem = b => s = u

BufInv == \A b \in Sems : BufAt(b)

\* The messages with a buffer are those of the descriptors on their way, and of
\* the threads about to send them.
SemInv ==
  \A s \in Senders :
    tx[s].sem # Null <=> (s \in Asyncs /\ Sent(s)) \/ (s \in Threads /\ pc[s] = "put")

\* A synchronous message is on its way or received, by one thread, until it is
\* answered; it is sent without a timeout, and received with a buffer to copy it
\* to by a thread that has nothing else to handle.
SyncInv ==
  /\ \A t \in syncing : Sent(t) \/ (\E r \in Threads : got[r] = t) \/ t \in syncSem \/ t \in dropped
  /\ \A t \in Threads : Sent(t) => t \in syncing /\ t \notin syncSem
  /\ \A t, r \in Threads : got[r] = t =>
       /\ t \in syncing /\ t \notin syncSem /\ ~Sent(t)
       /\ \A u \in Threads : got[u] = t => u = r
  /\ \A t \in Threads : pc[t] = "get" => got[t] = Null
  /\ \A t \in Threads : t \in timed => ~Contains(txq, t)
  /\ \A t \in Threads : ~rx[t].keep

MsgInv == IInv /\ MsgTypesInv /\ BufInv /\ SemInv /\ SyncInv /\ poolq = << >>

\* The mailbox keeps its accounts under the message manager.
LEMMA MsgNextInv ==
  ASSUME IInv, MsgTypesInv, [MsgNext]_allVars
  PROVE  IInv'
<1>0. /\ ListsInv /\ TypesInv /\ Acc /\ Prio \in [Threads -> Int] /\ "data" \in Kinds
      /\ prio \in [Senders -> Int] /\ sem \in [Sems -> 0..1] /\ Threads \subseteq Senders
  BY Distinct, MailboxAssumption, MsgAssumption DEF IInv, TypesInv
<1>1. ASSUME UNCHANGED <<txq, rxq, free, poolq, tstate, timed, tx, rx, callVars, irqLocked, out, fault>>,
             prio' \in [Senders -> Int], sem' \in [Sems -> 0..1]
      PROVE  IInv'
  <2>1. ListsInv' /\ TypesInv'
    BY <1>0, <1>1 DEF ListsInv, TypesInv, callVars
  <2>2. Acc'
    BY <1>0, <1>1 DEF Acc, ThreadInv, Waiting, HandInv, HeldInv, AsyncInv, PoolInv, callVars
  <2> QED
    BY <2>1, <2>2 DEF IInv
<1>2. ASSUME NEW t \in Threads, NEW b \in Sems, FillBuffer(t, b)
      PROVE  IInv'
  BY <1>0, <1>1, <1>2 DEF FillBuffer, queueVars
<1>3. ASSUME NEW t \in Threads, NEW target \in Peers(t), SendAsync(t, target)
      PROVE  IInv'
  <2>1. PICK s \in Sems \cup {Null} : AsyncAlloc(t, target, "data", s)
    <3>1. AsyncAlloc(t, target, "data", buf[t]) /\ buf[t] # Null
      BY <1>3 DEF SendAsync
    <3> QED
      BY <3>1 DEF MsgTypesInv
  <2> QED
    BY <1>0, <2>1, AsyncAllocInv
<1>4. ASSUME NEW t \in Threads, NEW target \in Peers(t), SendSync(t, target)
      PROVE  IInv'
  <2>1. /\ Runs(t, "out") /\ PutOrWait(t, target, "data", -1, "forever")
        /\ prio' = [prio EXCEPT ![t] = -1]
    BY <1>4 DEF SendSync, SyncPrio, Idle
  <2>2. prio' \in [Senders -> Int]
    BY <1>0, <2>1
  <2> QED
    BY <1>0, <2>1, <2>2, PutOrWaitInv
<1>5. ASSUME NEW t \in Threads, GoOn(t)
      PROVE  IInv'
  <2>1. CASE SyncReturn(t)
    BY <1>0, <1>1, <2>1 DEF SyncReturn
  <2>2. CASE Copy(t)
    BY <2>2, SmallStepsInv DEF Copy
  <2>3. CASE Handle(t)
    BY <1>0, <1>1, <2>3 DEF Handle, mboxVars, queueVars
  <2>4. CASE Mailbox(t)
    BY <2>4, SmallStepsInv, AsyncPutInv DEF Mailbox
  <2>5. CASE Drop(t)
    BY <2>5, ClearOneInv DEF Drop
  <2> QED
    BY <1>5, <2>1, <2>2, <2>3, <2>4, <2>5 DEF GoOn
<1>6. ASSUME NEW t \in Threads, NEW timeout \in Waits, Receive(t, timeout)
      PROVE  IInv'
  <2>1. Get(t, K_ANY, FALSE, timeout) /\ K_ANY \in Peers(t)
    BY <1>6 DEF Receive, Peers
  <2> QED
    BY <2>1, GetInv
<1>7. ASSUME NEW t \in Threads, Timeout(t) \/ ClearStart(t)
      PROVE  IInv'
  BY <1>7, TimeoutInv, SmallStepsInv
<1>8. CASE UNCHANGED allVars
  BY <1>0, <1>1, <1>8 DEF allVars, mboxVars, queueVars
<1> QED
  BY <1>2, <1>3, <1>4, <1>5, <1>6, <1>7, <1>8 DEF MsgNext


\* A buffer none of whose places changes.
LEMMA BufStay ==
  ASSUME NEW b \in Sems, BufAt(b), sem'[b] = sem[b],
         \A u \in Threads : (buf'[u] = b <=> buf[u] = b) /\ (hand'[u] = b <=> hand[u] = b),
         \A u \in Senders : tx'[u].sem = b <=> tx[u].sem = b
  PROVE  BufAt(b)'
BY DEF BufAt

\* Sender s sends m, with no limit to its wait.
LEMMA SendIs ==
  ASSUME ListsInv, TypesInv, Acc, NEW s \in Senders, NEW m \in MsgSet, NEW p \in Int, ~Contains(txq, s),
         PutToReceiver(s, m) \/ PutOnQueue(s, m, p, "forever")
  PROVE  /\ \A u \in Senders : Sent(u)' <=> (u = s \/ Sent(u))
         /\ \A u \in Senders : Contains(txq', u) => u = s \/ Contains(txq, u)
         /\ \A u \in Threads : rx'[u].keep = rx[u].keep
         /\ timed' \subseteq timed
<1>0. Null \notin Senders
  BY Distinct
<1>1. CASE PutToReceiver(s, m)
  <2>1. PICK r \in Threads : Matched(s, m, r)
    BY <1>1, PutToReceiverIs
  <2>2. rx[r].from = Null
    BY <2>1 DEF Matched, Acc, ThreadInv
  <2>3. /\ rx'[r].from = s /\ txq' = txq /\ \A u \in Threads \ {r} : rx'[u] = rx[u]
    BY <2>1 DEF Matched
  <2>4. \A u \in Senders : Sent(u)' <=> (u = s \/ Sent(u))
    BY <1>0, <2>2, <2>3 DEF Sent
  <2>5. timed' \subseteq timed /\ \A u \in Threads : rx'[u].keep = rx[u].keep
    BY <1>1 DEF PutToReceiver, MatchedRx, TypesInv
  <2> QED
    BY <2>3, <2>4, <2>5
<1>2. CASE PutOnQueue(s, m, p, "forever")
  <2>1. Joined(s, "forever")
    BY <1>2, PutOnQueueIs
  <2> QED
    BY <2>1 DEF Joined, Sent
<1> QED
  BY <1>1, <1>2

\* A sender fills a buffer.
LEMMA FillBufferMsg ==
  ASSUME MsgInv, NEW t \in Threads, NEW b \in Sems, FillBuffer(t, b)
  PROVE  MsgTypesInv' /\ BufInv' /\ SemInv' /\ SyncInv'
<1>0. /\ sem \in [Sems -> 0..1] /\ buf \in [Threads -> Sems \cup {Null}] /\ Null \notin Sems
  BY Distinct DEF MsgInv, IInv, TypesInv, MsgTypesInv
<1>1. /\ buf[t] = Null /\ sem[b] = 1 /\ sem' = [sem EXCEPT ![b] = 0] /\ buf' = [buf EXCEPT ![t] = b]
      /\ txq' = txq /\ rx' = rx /\ tx' = tx /\ pc' = pc /\ hand' = hand /\ timed' = timed
      /\ syncing' = syncing /\ syncSem' = syncSem /\ got' = got /\ dropped' = dropped
  BY DEF FillBuffer, Idle, callVars, queueVars
<1>2. MsgTypesInv'
  BY <1>0, <1>1 DEF MsgInv, MsgTypesInv
<1>3. SemInv' /\ SyncInv'
  BY <1>1 DEF MsgInv, SemInv, SyncInv, Sent
<1>4. ASSUME NEW c \in Sems PROVE BufAt(c)'
  <2>1. BufAt(c)
    BY DEF MsgInv, BufInv
  <2>2. CASE c = b
    BY <1>0, <1>1, <2>1, <2>2 DEF BufAt
  <2>3. CASE c # b
    BY <1>0, <1>1, <2>1, <2>3, BufStay
  <2> QED
    BY <2>2, <2>3
<1> QED
  BY <1>2, <1>3, <1>4 DEF BufInv

\* A synchronous message is sent.
LEMMA SendSyncMsg ==
  ASSUME MsgInv, NEW t \in Threads, NEW target \in Peers(t), SendSync(t, target)
  PROVE  MsgTypesInv' /\ BufInv' /\ SemInv' /\ SyncInv' /\ poolq' = poolq
<1>0. /\ ListsInv /\ TypesInv /\ Acc /\ tx \in [Senders -> MsgSet] /\ "data" \in Kinds
      /\ Threads \subseteq Senders /\ \A a \in Asyncs : a \notin Threads
  BY Distinct, MsgAssumption DEF MsgInv, IInv, TypesInv
<1>1. /\ tstate[t] = "ready" /\ pc[t] = "out" /\ t \notin syncing /\ got[t] = Null
      /\ PutOrWait(t, target, "data", -1, "forever")
      /\ syncing' = syncing \cup {t}
      /\ buf' = buf /\ syncSem' = syncSem /\ got' = got /\ dropped' = dropped
  BY DEF SendSync, Idle, SyncPrio, Runs
<1>2. Msg(target, t, "data", Null) \in MsgSet /\ Msg(target, t, "data", Null).sem = Null
  BY <1>0 DEF Msg, MsgSet, Peers
<1>3. PICK m \in MsgSet : m = Msg(target, t, "data", Null) /\ m.sem = Null
  BY <1>2, Zenon
<1>4. /\ PutToReceiver(t, m) \/ PutOnQueue(t, m, -1, "forever")
      /\ tx' = [tx EXCEPT ![t] = m] /\ pc' = pc /\ hand' = hand /\ sem' = sem /\ poolq' = poolq
  BY <1>1, <1>3 DEF PutOrWait, callVars
<1>5. ~Contains(txq, t) /\ ~Sent(t) /\ t \notin timed
  BY <1>0, <1>1, ReadyNotWaiting DEF Sent
<1>6. /\ \A u \in Senders : Sent(u)' <=> (u = t \/ Sent(u))
      /\ \A u \in Senders : Contains(txq', u) => u = t \/ Contains(txq, u)
      /\ \A u \in Threads : rx'[u].keep = rx[u].keep
      /\ timed' \subseteq timed
  <2>1. -1 \in Int /\ t \in Senders
    BY <1>0
  <2> QED
    BY ONLY <1>0, <1>4, <1>5, <2>1, m \in MsgSet, SendIs
<1>7. tx[t].sem = Null /\ tx'[t].sem = Null /\ \A u \in Senders \ {t} : tx'[u] = tx[u]
  BY <1>0, <1>1, <1>3, <1>4 DEF MsgInv, SemInv
<1>8. MsgTypesInv'
  BY <1>1 DEF MsgInv, MsgTypesInv
<1>9. SemInv'
  BY <1>0, <1>1, <1>4, <1>6, <1>7 DEF MsgInv, SemInv
<1>10. SyncInv'
  BY <1>0, <1>1, <1>4, <1>5, <1>6 DEF MsgInv, SyncInv, MsgTypesInv
<1>11. ASSUME NEW c \in Sems PROVE BufAt(c)'
  <2>1. \A u \in Senders : tx'[u].sem = tx[u].sem
    BY <1>7
  <2> QED
    BY <1>1, <1>4, <2>1, BufStay DEF MsgInv, BufInv
<1> QED
  BY <1>4, <1>8, <1>9, <1>10, <1>11 DEF BufInv


\* The steps of the message manager that leave the mailbox alone, and those of a
\* thread that gives the semaphore of a buffer, or starts or ends a walk.
LEMMA SmallStepsMsg ==
  ASSUME MsgInv, NEW t \in Threads,
         \/ SyncReturn(t)
         \/ Handle(t)
         \/ (Give(t) \/ ClearStart(t) \/ ClearEnd(t)) /\ UNCHANGED msgVars
  PROVE  MsgTypesInv' /\ BufInv' /\ SemInv' /\ SyncInv' /\ poolq' = poolq
<1>0. /\ pc \in [Threads -> {"out", "put", "get", "give", "clear", "clearGive"}]
      /\ hand \in [Threads -> Asyncs \cup Sems \cup {Null}] /\ sem \in [Sems -> 0..1] /\ Null \notin Sems
      /\ got \in [Threads -> Threads \cup {NoCallback, Null}] /\ MsgTypesInv /\ BufInv /\ SemInv /\ SyncInv
      /\ Null \notin Threads /\ NoCallback \notin Threads
  BY Distinct, MailboxAssumption, MsgAssumption DEF MsgInv, IInv, TypesInv, MsgTypesInv
<1>1. ASSUME tx' = tx, hand' = hand, sem' = sem, buf' = buf
      PROVE  BufInv'
  BY <1>0, <1>1, BufStay DEF BufInv
<1>2. CASE SyncReturn(t)
  <2>1. /\ t \in syncSem /\ syncing' = syncing \ {t} /\ syncSem' = syncSem \ {t} /\ dropped' = dropped \ {t}
        /\ txq' = txq /\ poolq' = poolq /\ timed' = timed /\ tx' = tx /\ rx' = rx /\ pc' = pc /\ hand' = hand
        /\ sem' = sem /\ buf' = buf /\ got' = got
    BY <1>2 DEF SyncReturn, callVars
  <2>2. MsgTypesInv' /\ SemInv'
    BY <1>0, <2>1 DEF MsgTypesInv, SemInv, Sent
  <2>3. SyncInv'
    BY <1>0, <2>1 DEF SyncInv, Sent
  <2> QED
    BY <1>1, <2>1, <2>2, <2>3
<1>3. CASE Handle(t)
  <2>1. /\ pc[t] = "out" /\ got[t] # Null /\ got' = [got EXCEPT ![t] = Null]
        /\ syncSem' = IF got[t] = NoCallback THEN syncSem ELSE syncSem \cup {got[t]}
        /\ txq' = txq /\ poolq' = poolq /\ timed' = timed /\ tx' = tx /\ rx' = rx /\ pc' = pc /\ hand' = hand
        /\ sem' = sem /\ buf' = buf /\ syncing' = syncing /\ dropped' = dropped
    BY <1>3 DEF Handle, Runs, mboxVars, queueVars, callVars
  <2>2. \A u \in Threads : got'[u] = IF u = t THEN Null ELSE got[u]
    BY <1>0, <2>1
  <2>3. MsgTypesInv' /\ SemInv'
    BY <1>0, <2>1, <2>2 DEF MsgTypesInv, SemInv, Sent, SyncInv
  <2>4. SyncInv'
    <3>1. CASE got[t] = NoCallback
      BY <1>0, <2>1, <2>2, <3>1 DEF SyncInv, Sent, MsgTypesInv
    <3>2. ASSUME NEW w \in Threads, w = got[t]
          PROVE  SyncInv'
      <4>1. w \in syncing /\ w \notin syncSem /\ ~Sent(w) /\ \A u \in Threads : got[u] = w => u = t
        BY <1>0, <3>2 DEF SyncInv
      <4>2. syncSem' = syncSem \cup {w} /\ \A u \in Threads : got'[u] # w
        BY <1>0, <2>1, <2>2, <3>2, <4>1
      <4> QED
        BY <1>0, <2>1, <2>2, <3>2, <4>1, <4>2 DEF SyncInv, Sent, MsgTypesInv
    <3> QED
      BY <1>0, <2>1, <3>1, <3>2
  <2> QED
    BY <1>1, <2>1, <2>3, <2>4
<1>4. CASE (Give(t) \/ ClearStart(t) \/ ClearEnd(t)) /\ UNCHANGED msgVars
  <2>1. /\ txq' = txq /\ poolq' = poolq /\ timed' = timed /\ tx' = tx /\ rx' = rx
        /\ buf' = buf /\ syncing' = syncing /\ syncSem' = syncSem /\ got' = got /\ dropped' = dropped
    BY <1>4 DEF Give, ClearStart, ClearEnd, queueVars, msgVars
  <2>2. pc[t] # "put" /\ pc'[t] \in {"out", "clear"} /\ \A u \in Threads \ {t} : pc'[u] = pc[u]
    BY <1>0, <1>4 DEF Give, ClearStart, ClearEnd, Runs
  <2>3. MsgTypesInv' /\ SemInv' /\ SyncInv'
    BY <1>0, <2>1, <2>2 DEF MsgTypesInv, SemInv, SyncInv, Sent
  <2>4. CASE ClearStart(t) \/ ClearEnd(t)
    BY <1>1, <2>1, <2>3, <2>4 DEF ClearStart, ClearEnd
  <2>5. CASE Give(t)
    <3>1. PICK b \in Sems : b = hand[t]
      BY <2>5 DEF Give, Runs, MsgInv, IInv, Acc, HandInv
    <3>2. sem' = [sem EXCEPT ![b] = 1] /\ hand' = [hand EXCEPT ![t] = Null]
      BY <2>5, <3>1 DEF Give
    <3>3. \A u \in Threads : hand'[u] = IF u = t THEN Null ELSE hand[u]
      BY <1>0, <3>2
    <3>4. ASSUME NEW c \in Sems PROVE BufAt(c)'
      <4>1. BufAt(c)
        BY <1>0 DEF BufInv
      <4>2. CASE c = b
        BY <1>0, <2>1, <3>1, <3>2, <3>3, <4>1, <4>2 DEF BufAt
      <4>3. CASE c # b
        BY <1>0, <2>1, <3>1, <3>2, <3>3, <4>1, <4>3, BufStay
      <4> QED
        BY <4>2, <4>3
    <3> QED
      BY <2>1, <2>3, <3>4 DEF BufInv
  <2> QED
    BY <1>4, <2>4, <2>5
<1> QED
  BY <1>2, <1>3, <1>4

\* The second half of an asynchronous send: the buffer goes from the message of
\* the thread to that of the descriptor.
LEMMA AsyncPutMsg ==
  ASSUME MsgInv, NEW t \in Threads, AsyncPut(t), UNCHANGED msgVars
  PROVE  MsgTypesInv' /\ BufInv' /\ SemInv' /\ SyncInv' /\ poolq' = poolq
<1>0. /\ ListsInv /\ TypesInv /\ Acc /\ tx \in [Senders -> MsgSet]
      /\ pc \in [Threads -> {"out", "put", "get", "give", "clear", "clearGive"}]
      /\ hand \in [Threads -> Asyncs \cup Sems \cup {Null}]
      /\ Threads \subseteq Senders /\ \A a \in Asyncs : a \notin Threads /\ a \notin Sems /\ a \in Senders
      /\ Null \notin Sems /\ MsgTypesInv /\ BufInv /\ SemInv /\ SyncInv
  BY Distinct DEF MsgInv, IInv, TypesInv, Senders
<1>1. /\ tstate[t] = "ready" /\ pc[t] = "put"
      /\ buf' = buf /\ syncing' = syncing /\ syncSem' = syncSem /\ got' = got /\ dropped' = dropped
  BY DEF AsyncPut, Runs, msgVars
<1>2. PICK a \in Asyncs : a = hand[t]
  BY <1>0, <1>1, ReadyNotWaiting DEF Acc, HandInv
<1>3. PICK m \in MsgSet : m = tx[t]
  BY <1>0
<1>4. /\ PutToReceiver(a, m) \/ PutOnQueue(a, m, prio[t], "forever")
      /\ tx' = [tx EXCEPT ![a] = m, ![t] = NoMsg]
      /\ pc' = [pc EXCEPT ![t] = "out"] /\ hand' = [hand EXCEPT ![t] = Null]
      /\ sem' = sem /\ poolq' = poolq
  BY <1>2, <1>3 DEF AsyncPut, AsyncPrio
<1>5. /\ ~Contains(txq, a) /\ ~Sent(a) /\ ~Sent(t) /\ t \notin timed
  BY <1>0, <1>1, <1>2, ReadyNotWaiting DEF Acc, AsyncInv, Sent
<1>6. /\ \A u \in Senders : Sent(u)' <=> (u = a \/ Sent(u))
      /\ \A u \in Senders : Contains(txq', u) => u = a \/ Contains(txq, u)
      /\ \A u \in Threads : rx'[u].keep = rx[u].keep
      /\ timed' \subseteq timed
  <2>1. prio[t] \in Int /\ a \in Senders
    BY <1>0 DEF TypesInv
  <2> QED
    BY ONLY <1>0, <1>4, <1>5, <2>1, m \in MsgSet, SendIs
<1>7. tx[a].sem = Null /\ tx[t].sem # Null
  BY <1>0, <1>1, <1>5 DEF SemInv
<1>8. /\ tx'[a].sem = tx[t].sem /\ tx'[t].sem = Null /\ a # t
      /\ \A u \in Senders : u # a /\ u # t => tx'[u].sem = tx[u].sem
      /\ \A u \in Threads : pc'[u] = IF u = t THEN "out" ELSE pc[u]
      /\ \A u \in Threads, b \in Sems : hand'[u] = b <=> hand[u] = b
  BY <1>0, <1>2, <1>3, <1>4 DEF NoMsg
<1>9. MsgTypesInv' /\ SemInv'
  BY <1>0, <1>1, <1>5, <1>6, <1>7, <1>8 DEF MsgTypesInv, SemInv
<1>10. SyncInv'
  BY <1>0, <1>1, <1>5, <1>6, <1>8 DEF SyncInv, MsgTypesInv
<1>11. ASSUME NEW c \in Sems PROVE BufAt(c)'
  <2>1. BufAt(c)
    BY <1>0 DEF BufInv
  <2>2. CASE tx[t].sem = c
    BY <1>0, <1>1, <1>4, <1>7, <1>8, <2>1, <2>2 DEF BufAt
  <2>3. CASE tx[t].sem # c
    <3>1. \A u \in Senders : tx'[u].sem = c <=> tx[u].sem = c
      BY <1>0, <1>7, <1>8, <2>3
    <3>2. /\ sem'[c] = sem[c]
          /\ \A u \in Threads : (buf'[u] = c <=> buf[u] = c) /\ (hand'[u] = c <=> hand[u] = c)
      BY <1>1, <1>4, <1>8
    <3> QED
      BY ONLY c \in Sems, <2>1, <3>1, <3>2, BufStay
  <2> QED
    BY <2>2, <2>3
<1> QED
  BY <1>4, <1>9, <1>10, <1>11 DEF BufInv


\* A thread asks for a message, or gives up waiting for one.
LEMMA ReceiveMsg ==
  ASSUME MsgInv, NEW t \in Threads,
         \/ \E timeout \in Waits : Receive(t, timeout)
         \/ Timeout(t) /\ UNCHANGED msgVars
  PROVE  MsgTypesInv' /\ BufInv' /\ SemInv' /\ SyncInv' /\ poolq' = poolq
<1>0. /\ ListsInv /\ TypesInv /\ Acc /\ tx \in [Senders -> MsgSet] /\ rx \in [Threads -> RxSet]
      /\ pc \in [Threads -> {"out", "put", "get", "give", "clear", "clearGive"}]
      /\ Threads \subseteq Senders /\ Null \notin Senders /\ Null \notin Sems
      /\ MsgTypesInv /\ BufInv /\ SemInv /\ SyncInv
  BY Distinct DEF MsgInv, IInv, TypesInv, Senders
<1>1. ASSUME \A u \in Senders : (Sent(u)' <=> Sent(u)) /\ tx'[u].sem = tx[u].sem,
             \A u \in Senders : Contains(txq', u) => Contains(txq, u),
             \A u \in Threads : ~rx'[u].keep,
             \A u \in Threads : (pc'[u] = "put" <=> pc[u] = "put") /\ (pc'[u] = "get" => got[u] = Null),
             \A u \in Threads : u \in timed' => u \in timed \/ ~Contains(txq', u),
             UNCHANGED <<hand, sem, poolq, msgVars>>
      PROVE  MsgTypesInv' /\ BufInv' /\ SemInv' /\ SyncInv' /\ poolq' = poolq
  <2>1. /\ hand' = hand /\ sem' = sem /\ poolq' = poolq /\ buf' = buf /\ syncing' = syncing
        /\ syncSem' = syncSem /\ got' = got /\ dropped' = dropped
    BY <1>1 DEF msgVars
  <2>2. MsgTypesInv' /\ SemInv'
    BY <1>0, <1>1, <2>1 DEF MsgTypesInv, SemInv
  <2>3. SyncInv'
    BY <1>0, <1>1, <2>1 DEF SyncInv, MsgTypesInv
  <2>4. BufInv'
    BY <1>0, <1>1, <2>1, BufStay DEF BufInv
  <2> QED
    BY <2>1, <2>2, <2>3, <2>4
<1>2. ASSUME NEW timeout \in Waits, Receive(t, timeout)
      PROVE  MsgTypesInv' /\ BufInv' /\ SemInv' /\ SyncInv' /\ poolq' = poolq
  <2>1. /\ Get(t, K_ANY, FALSE, timeout) /\ UNCHANGED msgVars
        /\ tstate[t] = "ready" /\ pc[t] = "out" /\ got[t] = Null /\ rx[t].from = Null
    BY <1>2 DEF Receive, Idle, Runs, Get
  <2>2. /\ tx' = tx /\ pc' = [pc EXCEPT ![t] = "get"] /\ hand' = hand /\ sem' = sem /\ poolq' = poolq
    BY <2>1 DEF Get
  <2>3. \A u \in Threads : (pc'[u] = "put" <=> pc[u] = "put") /\ (pc'[u] = "get" => got[u] = Null)
    BY <1>0, <2>1, <2>2 DEF SyncInv
  <2>4. CASE Offers(t, K_ANY) # {}
    <3>1. PICK s \in Senders : s = txq[Min(Offers(t, K_ANY))] /\ Contains(txq, s)
      BY <1>0, <2>4, OffersLeast
    <3>2. LeaveTxq(s) /\ timed' = timed \ {s} /\ rx' = [rx EXCEPT ![t] = MatchedRx(s, tx[s], FALSE)]
      BY <2>1, <2>4, <3>1 DEF Get, Taken
    <3>3. \A u \in Senders : Contains(txq', u) <=> (u # s /\ Contains(txq, u))
      BY <1>0, <3>2, LeaveTxqIs
    <3>4. rx'[t].from = s /\ ~rx'[t].keep /\ \A u \in Threads \ {t} : rx'[u] = rx[u]
      BY <1>0, <3>2 DEF MatchedRx
    <3>5. \A u \in Senders : (Sent(u)' <=> Sent(u)) /\ tx'[u].sem = tx[u].sem
      BY <1>0, <2>1, <2>2, <3>1, <3>3, <3>4 DEF Sent
    <3>6. \A u \in Threads : ~rx'[u].keep
      BY <1>0, <3>4 DEF SyncInv
    <3> QED
      BY <1>1, <2>1, <2>2, <2>3, <3>2, <3>3, <3>5, <3>6
  <2>5. CASE Offers(t, K_ANY) = {}
    <3>1. /\ txq' = txq /\ timed' \subseteq timed \cup {t}
          /\ rx' = [rx EXCEPT ![t] = [NoRx EXCEPT !.source = K_ANY, !.keep = FALSE]]
      BY <2>1, <2>5 DEF Get
    <3>2. rx'[t].from = Null /\ ~rx'[t].keep /\ \A u \in Threads \ {t} : rx'[u] = rx[u]
      BY <1>0, <3>1 DEF NoRx
    <3>3. \A u \in Senders : (Sent(u)' <=> Sent(u)) /\ tx'[u].sem = tx[u].sem
      BY <1>0, <2>1, <2>2, <3>1, <3>2 DEF Sent
    <3>4. \A u \in Threads : ~rx'[u].keep
      BY <1>0, <3>2 DEF SyncInv
    <3>5. ~Contains(txq, t)
      BY <1>0, <2>1, ReadyNotWaiting
    <3> QED
      BY <1>1, <2>1, <2>2, <2>3, <3>1, <3>3, <3>4, <3>5
  <2> QED
    BY <2>4, <2>5
<1>3. CASE Timeout(t) /\ UNCHANGED msgVars
  <2>1. /\ t \in timed /\ timed' = timed \ {t} /\ LeaveTxq(t)
        /\ tx' = [tx EXCEPT ![t] = NoMsg] /\ pc' = [pc EXCEPT ![t] = "out"]
        /\ rx' = IF Contains(rxq, t) THEN [rx EXCEPT ![t] = NoRx] ELSE rx
        /\ hand' = hand /\ sem' = sem /\ poolq' = poolq
    BY <1>3 DEF Timeout
  <2>2. /\ ~Contains(txq, t) /\ pc[t] = "get" /\ rx[t].from = Null
    BY <1>0, <2>1 DEF SyncInv, Acc, ThreadInv
  <2>3. \A u \in Senders : Contains(txq', u) <=> Contains(txq, u)
    <3>1. \A u \in Senders : Contains(txq', u) <=> (u # t /\ Contains(txq, u))
      BY <1>0, <2>1, LeaveTxqIs
    <3> QED
      BY <2>2, <3>1
  <2>4. \A u \in Threads : rx'[u].from = rx[u].from /\ ~rx'[u].keep
    BY <1>0, <2>1, <2>2 DEF NoRx, SyncInv
  <2>5. \A u \in Senders : (Sent(u)' <=> Sent(u)) /\ tx'[u].sem = tx[u].sem
    <3>1. tx[t].sem = Null
      BY <1>0, <2>2, Distinct DEF SemInv
    <3>2. \A u \in Senders : tx'[u].sem = tx[u].sem
      BY <1>0, <2>1, <3>1 DEF NoMsg
    <3> QED
      BY <2>3, <2>4, <3>2 DEF Sent
  <2>6. \A u \in Threads : (pc'[u] = "put" <=> pc[u] = "put") /\ (pc'[u] = "get" => got[u] = Null)
    BY <1>0, <2>1, <2>2 DEF SyncInv
  <2> QED
    BY <1>1, <1>3, <2>1, <2>3, <2>4, <2>5, <2>6
<1> QED
  BY <1>2, <1>3


\* Thread t lets go of the message of s: its buffer, if it has one, goes to the
\* hands of t.
LEMMA FinishMsg ==
  ASSUME MsgInv, NEW t \in Threads, NEW s \in Senders, NEW done \in {"out", "clear"},
         tstate[t] = "ready", pc[t] \in {"get", "clear"}, Notify(t, s, done), Finishes(t, s),
         sem' = sem, buf' = buf
  PROVE  /\ \A u \in Senders : Sent(u)' <=> (u # s /\ Sent(u))
         /\ \A u \in Threads : pc'[u] = "get" => pc[u] = "get" /\ u # t
         /\ BufInv' /\ SemInv' /\ poolq' = poolq
<1>0. /\ ListsInv /\ TypesInv /\ Acc /\ tx \in [Senders -> MsgSet]
      /\ pc \in [Threads -> {"out", "put", "get", "give", "clear", "clearGive"}]
      /\ hand \in [Threads -> Asyncs \cup Sems \cup {Null}] /\ poolq = << >>
      /\ Threads \subseteq Senders /\ \A a \in Asyncs : a \notin Threads /\ a \notin Sems /\ a \in Senders
      /\ Null \notin Sems /\ Null \notin Senders /\ BufInv /\ SemInv
  BY Distinct DEF MsgInv, IInv, TypesInv, Senders
<1>1. /\ Sent(s) /\ \A u \in Senders : Sent(u)' <=> (u # s /\ Sent(u))
  BY <1>0 DEF Finishes, Sent
<1>2. /\ tx'[s].sem = Null /\ \A u \in Senders \ {s} : tx'[u] = tx[u]
  BY <1>0 DEF Notify, NoMsg
<1>3. /\ hand[t] = Null /\ s # t /\ tx[s].sem \in Sems \cup {Null}
  BY <1>0, <1>1, ReadyNotWaiting DEF Acc, HandInv, MsgSet, Sent
<1>4. CASE s \in Threads
  <2>1. hand' = hand /\ poolq' = poolq /\ pc' = [pc EXCEPT ![t] = done]
    BY <1>0, <1>4 DEF Notify
  <2>2. pc[s] = "out" /\ tx[s].sem = Null
    BY <1>0, <1>1, <1>4 DEF Acc, ThreadInv, SemInv, Sent
  <2>3. \A u \in Threads : pc'[u] = IF u = t THEN done ELSE pc[u]
    BY <1>0, <2>1
  <2>4. SemInv'
    BY <1>0, <1>1, <1>2, <1>4, <2>2, <2>3 DEF SemInv
  <2>5. BufInv'
    <3>1. \A u \in Senders : tx'[u].sem = tx[u].sem
      BY <1>2, <2>2
    <3> QED
      BY <1>0, <2>1, <3>1, BufStay DEF BufInv
  <2> QED
    BY <1>1, <2>1, <2>3, <2>4, <2>5
<1>5. CASE s \in Asyncs
  <2>1. /\ hand' = [u \in Threads |-> IF u = t THEN tx[s].sem ELSE hand[u]] /\ poolq' = poolq
        /\ pc' = [pc EXCEPT ![t] = IF tx[s].sem = Null THEN done
                                   ELSE IF done = "clear" THEN "clearGive" ELSE "give"]
    BY <1>0, <1>5 DEF Notify, Push
  <2>2. /\ \A u \in Threads : hand'[u] = IF u = t THEN tx[s].sem ELSE hand[u]
        /\ \A u \in Threads \ {t} : pc'[u] = pc[u]
        /\ pc'[t] # "put" /\ pc'[t] # "get"
    BY <1>0, <2>1
  <2>3. SemInv'
    BY <1>0, <1>1, <1>2, <1>5, <2>2 DEF SemInv
  <2>4. ASSUME NEW c \in Sems PROVE BufAt(c)'
    <3>1. BufAt(c)
      BY <1>0 DEF BufInv
    <3>2. CASE tx[s].sem = c
      BY <1>0, <1>2, <1>3, <2>2, <3>1, <3>2 DEF BufAt
    <3>3. CASE tx[s].sem # c
      <4>1. /\ sem'[c] = sem[c]
            /\ \A u \in Threads : (buf'[u] = c <=> buf[u] = c) /\ (hand'[u] = c <=> hand[u] = c)
            /\ \A u \in Senders : tx'[u].sem = c <=> tx[u].sem = c
        BY <1>0, <1>2, <1>3, <2>2, <3>3
      <4> QED
        BY ONLY c \in Sems, <3>1, <4>1, BufStay
    <3> QED
      BY <3>2, <3>3
  <2> QED
    BY <1>1, <2>1, <2>2, <2>3, <2>4 DEF BufInv
<1> QED
  BY <1>4, <1>5 DEF Senders

\* A receiver copies its message, and a thread that drops all messages comes to
\* the next one.
LEMMA CopyDropMsg ==
  ASSUME MsgInv, NEW t \in Threads, Copy(t) \/ Drop(t)
  PROVE  MsgTypesInv' /\ BufInv' /\ SemInv' /\ SyncInv' /\ poolq' = poolq
<1>0. /\ ListsInv /\ TypesInv /\ Acc /\ rx \in [Threads -> RxSet] /\ got \in [Threads -> Threads \cup {NoCallback, Null}]
      /\ Threads \subseteq Senders /\ Null \notin Senders /\ NoCallback \notin Threads /\ timed \subseteq Threads
      /\ \A a \in Asyncs : a \notin Threads
      /\ next \in [Threads -> Senders \cup {Null}]
      /\ MsgTypesInv /\ BufInv /\ SemInv /\ SyncInv
  BY Distinct, MsgAssumption DEF MsgInv, IInv, TypesInv, MsgTypesInv
<1>1. CASE Copy(t)
  <2>1. /\ DataCheck(t) /\ buf' = buf /\ syncing' = syncing /\ syncSem' = syncSem /\ dropped' = dropped
        /\ got' = [got EXCEPT ![t] = IF rx[t].from \in Asyncs THEN NoCallback ELSE rx[t].from]
        /\ tstate[t] = "ready" /\ pc[t] = "get" /\ got[t] = Null /\ ~rx[t].keep
    BY <1>0, <1>1 DEF Copy, DataCheck, Runs, SyncInv
  <2>2. PICK s \in Senders : s = rx[t].from
    BY <1>0, <2>1, ReadyNotWaiting DEF Acc, ThreadInv, RxSet
  <2>3. /\ rx' = [rx EXCEPT ![t] = NoRx] /\ Notify(t, s, "out")
        /\ txq' = txq /\ rxq' = rxq /\ timed' = timed /\ sem' = sem
    BY <2>1, <2>2 DEF DataCheck, Dispose
  <2>4. rx'[t].from = Null /\ ~rx'[t].keep /\ \A u \in Threads \ {t} : rx'[u] = rx[u]
    BY <1>0, <2>3 DEF NoRx
  <2>5. ~Contains(txq, s) /\ \A r \in Threads : rx[r].from = s => r = t
    BY <1>0, <2>2 DEF Acc, HeldInv
  <2>6. s \notin timed
    BY <1>0, <2>2, <2>5 DEF Acc, ThreadInv
  <2>7. Finishes(t, s)
    BY <1>0, <2>2, <2>3, <2>4, <2>5, <2>6 DEF Finishes
  <2>8. /\ \A u \in Senders : Sent(u)' <=> (u # s /\ Sent(u))
        /\ \A u \in Threads : pc'[u] = "get" => pc[u] = "get" /\ u # t
        /\ BufInv' /\ SemInv' /\ poolq' = poolq
    BY <2>1, <2>3, <2>7, FinishMsg
  <2>9. Sent(s)
    BY <2>2 DEF Sent
  <2>10. \A u \in Threads \ {t} : got'[u] = got[u]
    BY <1>0, <2>1
  <2>11. CASE s \in Asyncs
    <3>1. got'[t] = NoCallback
      BY <1>0, <2>1, <2>2, <2>11
    <3>2. MsgTypesInv'
      BY <1>0, <2>1, <2>2, <2>11 DEF MsgTypesInv
    <3>3. SyncInv'
      BY <1>0, <2>1, <2>3, <2>4, <2>8, <2>10, <2>11, <3>1 DEF SyncInv, MsgTypesInv
    <3> QED
      BY <2>8, <3>2, <3>3
  <2>12. CASE s \in Threads
    <3>1. got'[t] = s
      BY <1>0, <2>1, <2>2, <2>12
    <3>2. MsgTypesInv'
      BY <1>0, <2>1, <2>2, <2>12 DEF MsgTypesInv
    <3>3. SyncInv'
      BY <1>0, <2>1, <2>3, <2>4, <2>8, <2>9, <2>10, <2>12, <3>1 DEF SyncInv, MsgTypesInv
    <3> QED
      BY <2>8, <3>2, <3>3
  <2> QED
    BY <2>11, <2>12 DEF Senders
<1>2. CASE Drop(t)
  <2>1. /\ ClearOne(t) /\ buf' = buf /\ syncing' = syncing /\ syncSem' = syncSem /\ got' = got
        /\ tstate[t] = "ready" /\ pc[t] = "clear" /\ next[t] # Null
        /\ dropped' = IF next[t] \in Threads THEN dropped \cup {next[t]} ELSE dropped
    BY <1>2 DEF Drop, ClearOne, Runs
  <2>2. PICK s \in Senders : s = next[t]
    BY <1>0, <2>1
  <2>3. MsgTypesInv'
    BY <1>0, <2>1 DEF MsgTypesInv
  <2>4. CASE Contains(txq, s)
    <3>1. /\ LeaveTxq(s) /\ timed' = timed \ {s} /\ rxq' = rxq /\ rx' = rx /\ sem' = sem /\ Notify(t, s, "clear")
      BY <2>1, <2>2, <2>4 DEF ClearOne, Taken
    <3>2. \A u \in Senders : Contains(txq', u) <=> (u # s /\ Contains(txq, u))
      BY <1>0, <3>1, LeaveTxqIs
    <3>3. Finishes(t, s)
      BY <1>0, <2>4, <3>1, <3>2 DEF Finishes, Acc, HeldInv
    <3>4. /\ \A u \in Senders : Sent(u)' <=> (u # s /\ Sent(u))
          /\ \A u \in Threads : pc'[u] = "get" => pc[u] = "get" /\ u # t
          /\ BufInv' /\ SemInv' /\ poolq' = poolq
      BY <2>1, <3>1, <3>3, FinishMsg
    <3>5. SyncInv'
      BY <1>0, <2>1, <2>2, <3>1, <3>2, <3>4 DEF SyncInv, MsgTypesInv
    <3> QED
      BY <2>3, <3>4, <3>5
  <2>5. CASE ~Contains(txq, s)
    <3>1. /\ txq' = txq /\ poolq' = poolq /\ timed' = timed /\ tx' = tx /\ rx' = rx /\ pc' = pc
          /\ hand' = hand /\ sem' = sem
      BY <2>1, <2>2, <2>5 DEF ClearOne, queueVars, callVars
    <3>2. SemInv' /\ SyncInv'
      BY <1>0, <2>1, <3>1 DEF SemInv, SyncInv, Sent
    <3>3. BufInv'
      BY <1>0, <2>1, <3>1, BufStay DEF BufInv
    <3> QED
      BY <2>3, <3>1, <3>2, <3>3
  <2> QED
    BY <2>4, <2>5
<1> QED
  BY <1>1, <1>2


\* Whoever has a buffer finds a descriptor: each descriptor in use belongs to
\* another buffer, and there are no fewer descriptors than buffers.
LEMMA PoolEnough ==
  ASSUME MsgInv, NEW t \in Threads, buf[t] # Null
  PROVE  free # << >>
<1>0. /\ Acc /\ BufInv /\ SemInv /\ buf[t] \in Sems /\ tx \in [Senders -> MsgSet]
      /\ Threads \subseteq Senders /\ \A a \in Asyncs : a \notin Threads /\ a \in Senders
  BY Distinct DEF MsgInv, IInv, TypesInv, MsgTypesInv, Senders
<1> SUFFICES ASSUME free = << >> PROVE FALSE
  OBVIOUS
<1> DEFINE Src(a, s) == (s = a /\ Sent(a)) \/ (s \in Threads /\ hand[s] = a)
           g == [a \in Asyncs |-> CHOOSE s \in Senders : Src(a, s)]
           f == [a \in Asyncs |-> tx[g[a]].sem]
<1>1. \A a \in Asyncs : \E s \in Senders : Src(a, s)
  <2>1. \A a \in Asyncs : ~Contains(free, a)
    BY DEF Contains
  <2> QED
    BY <1>0, <2>1 DEF Acc, AsyncInv, Sent
<1>2. \A a \in Asyncs : g[a] \in Senders /\ Src(a, g[a])
  <2> HIDE DEF Src
  <2> QED
    BY <1>1
<1>3. \A a \in Asyncs, s \in Senders : Src(a, s) => tx[s].sem \in Sems \ {buf[t]}
  <2> SUFFICES ASSUME NEW a \in Asyncs, NEW s \in Senders, Src(a, s)
               PROVE  tx[s].sem \in Sems \ {buf[t]}
    OBVIOUS
  <2>1. tx[s].sem # Null
    BY <1>0 DEF SemInv, Acc, HandInv
  <2>2. tx[s].sem # buf[t]
    BY <1>0 DEF BufInv, BufAt
  <2>3. tx[s].sem \in Sems \cup {Null}
    BY <1>0 DEF MsgSet
  <2> QED
    BY <2>1, <2>2, <2>3
<1>4. \A a, b \in Asyncs, s \in Senders : Src(a, s) /\ Src(b, s) => a = b
  BY <1>0
<1> HIDE DEF Src, g
<1>5. f \in [Asyncs -> Sems \ {buf[t]}]
  BY <1>2, <1>3
<1>6. \A a, b \in Asyncs : f[a] = f[b] => a = b
  <2> SUFFICES ASSUME NEW a \in Asyncs, NEW b \in Asyncs, f[a] = f[b] PROVE a = b
    OBVIOUS
  <2>1. PICK c \in Sems : c = f[a]
    BY <1>5
  <2>2. g[a] \in Senders /\ g[b] \in Senders /\ tx[g[a]].sem = c /\ tx[g[b]].sem = c
    BY <1>2, <2>1
  <2>3. g[a] = g[b]
    BY <1>0, <2>2 DEF BufInv, BufAt
  <2> QED
    BY <1>2, <1>4, <2>3
<1> HIDE DEF f
<1>7. /\ IsFiniteSet(Asyncs) /\ IsFiniteSet(Sems) /\ Cardinality(Sems) <= Cardinality(Asyncs)
      /\ Cardinality(Sems) \in Nat /\ Cardinality(Asyncs) \in Nat
  BY MailboxAssumption, MsgAssumption, FS_CardinalityType
<1>8. IsFiniteSet(Sems \ {buf[t]}) /\ Cardinality(Sems \ {buf[t]}) = Cardinality(Sems) - 1
  BY <1>0, <1>7, FS_RemoveElement
<1>9. Cardinality(Sems \ {buf[t]}) < Cardinality(Asyncs)
  BY <1>7, <1>8
<1>10. \E x, y \in Asyncs : x # y /\ f[x] = f[y]
  BY ONLY <1>5, <1>7, <1>8, <1>9, FS_PigeonHole, Zenon
<1> QED
  BY <1>6, <1>10

\* The first half of an asynchronous send.
LEMMA SendAsyncMsg ==
  ASSUME MsgInv, NEW t \in Threads, NEW target \in Peers(t), SendAsync(t, target)
  PROVE  MsgTypesInv' /\ BufInv' /\ SemInv' /\ SyncInv' /\ poolq' = poolq
<1>0. /\ ListsInv /\ TypesInv /\ Acc /\ tx \in [Senders -> MsgSet] /\ free \in Seq(Asyncs)
      /\ pc \in [Threads -> {"out", "put", "get", "give", "clear", "clearGive"}]
      /\ hand \in [Threads -> Asyncs \cup Sems \cup {Null}] /\ buf \in [Threads -> Sems \cup {Null}]
      /\ Threads \subseteq Senders /\ \A a \in Asyncs : a \notin Threads /\ a \notin Sems
      /\ Null \notin Sems /\ MsgTypesInv /\ BufInv /\ SemInv /\ SyncInv
  BY Distinct DEF MsgInv, IInv, TypesInv, ListsInv, MsgTypesInv, Senders
<1>1. /\ buf[t] # Null /\ AsyncAlloc(t, target, "data", buf[t]) /\ buf' = [buf EXCEPT ![t] = Null]
      /\ syncing' = syncing /\ syncSem' = syncSem /\ got' = got /\ dropped' = dropped
  BY DEF SendAsync
<1>2. free # << >>
  BY <1>1, PoolEnough
<1>3. /\ tstate[t] = "ready" /\ pc[t] = "out"
      /\ tx' = [tx EXCEPT ![t] = Msg(target, t, "data", buf[t])] /\ pc' = [pc EXCEPT ![t] = "put"]
      /\ hand' = [hand EXCEPT ![t] = Last(free)] /\ poolq' = poolq
      /\ txq' = txq /\ rx' = rx /\ timed' = timed /\ sem' = sem
  BY <1>1, <1>2 DEF AsyncAlloc, Runs
<1>4. Last(free) \in Asyncs
  BY <1>0, <1>2 DEF Last
<1>5. PICK b \in Sems : b = buf[t]
  BY <1>0, <1>1
<1>6. /\ tx'[t].sem = b /\ tx[t].sem = Null /\ hand[t] \notin Sems
      /\ \A u \in Senders \ {t} : tx'[u] = tx[u]
      /\ \A u \in Threads : pc'[u] = IF u = t THEN "put" ELSE pc[u]
      /\ \A u \in Threads : buf'[u] = IF u = t THEN Null ELSE buf[u]
  BY <1>0, <1>3, <1>1, <1>5 DEF Msg, SemInv, Acc, HandInv
<1>7. \A u \in Threads, c \in Sems : hand'[u] = c <=> hand[u] = c
  BY <1>0, <1>3, <1>4, <1>6
<1>8. MsgTypesInv'
  BY <1>0, <1>1 DEF MsgTypesInv
<1>9. SemInv'
  BY <1>0, <1>3, <1>6 DEF SemInv, Sent
<1>10. SyncInv'
  BY <1>0, <1>1, <1>3, <1>6 DEF SyncInv, Sent
<1>11. ASSUME NEW c \in Sems PROVE BufAt(c)'
  <2>1. BufAt(c)
    BY <1>0 DEF BufInv
  <2>2. CASE c = b
    BY <1>0, <1>3, <1>5, <1>6, <1>7, <2>1, <2>2 DEF BufAt
  <2>3. CASE c # b
    <3>1. /\ sem'[c] = sem[c]
          /\ \A u \in Threads : (buf'[u] = c <=> buf[u] = c) /\ (hand'[u] = c <=> hand[u] = c)
          /\ \A u \in Senders : tx'[u].sem = c <=> tx[u].sem = c
      BY <1>0, <1>3, <1>5, <1>6, <1>7, <2>3
    <3> QED
      BY ONLY c \in Sems, <2>1, <3>1, BufStay
  <2> QED
    BY <2>2, <2>3
<1> QED
  BY <1>3, <1>8, <1>9, <1>10, <1>11 DEF BufInv

\* The invariant of the message manager holds throughout.
LEMMA MsgSpecInv == MsgSpec => []MsgInv
<1>1. MsgInit => MsgInv
  <2> SUFFICES ASSUME MsgInit PROVE MsgInv
    OBVIOUS
  <2>1. IInv
    BY MboxInitInv DEF MsgInit
  <2>2. /\ txq = << >> /\ poolq = << >> /\ timed = {} /\ pc = [t \in Threads |-> "out"]
        /\ hand = [t \in Threads |-> Null] /\ sem = [s \in Sems |-> 1]
        /\ \A s \in Senders : tx[s].sem = Null
        /\ \A t \in Threads : rx[t].from = Null /\ ~rx[t].keep
        /\ buf = [t \in Threads |-> Null] /\ got = [t \in Threads |-> Null] /\ syncing = {} /\ syncSem = {}
    BY DEF MsgInit, MboxInit, NoMsg, NoRx
  <2>3. Null \notin Sems /\ Null \notin Threads /\ \A s \in Senders : ~Sent(s)
    BY <2>2, Distinct, MailboxAssumption DEF Sent, Contains
  <2>4. MsgTypesInv /\ SemInv
    BY <2>2, <2>3 DEF MsgTypesInv, SemInv
  <2>5. SyncInv
    BY <2>2, <2>3, Distinct DEF SyncInv
  <2>6. BufInv
    BY <2>2, <2>3 DEF BufInv, BufAt
  <2> QED
    BY <2>1, <2>2, <2>4, <2>5, <2>6 DEF MsgInv
<1>2. MsgInv /\ [MsgNext]_allVars => MsgInv'
  <2> SUFFICES ASSUME MsgInv, [MsgNext]_allVars PROVE MsgInv'
    OBVIOUS
  <2>1. IInv'
    BY MsgNextInv DEF MsgInv
  <2>2. MsgTypesInv' /\ BufInv' /\ SemInv' /\ SyncInv' /\ poolq' = poolq
    <3>1. CASE UNCHANGED allVars
      <4>1. MsgTypesInv' /\ SemInv' /\ SyncInv' /\ poolq' = poolq
        BY <3>1 DEF allVars, mboxVars, msgVars, queueVars, callVars, MsgInv, MsgTypesInv, SemInv, SyncInv, Sent
      <4>2. BufInv'
        BY <3>1 DEF allVars, mboxVars, msgVars, queueVars, callVars, MsgInv, BufInv, BufAt
      <4> QED
        BY <4>1, <4>2
    <3>2. ASSUME NEW t \in Threads, NEW b \in Sems, FillBuffer(t, b)
          PROVE  MsgTypesInv' /\ BufInv' /\ SemInv' /\ SyncInv' /\ poolq' = poolq
      BY <3>2, FillBufferMsg DEF FillBuffer, queueVars
    <3>3. ASSUME NEW t \in Threads, NEW target \in Peers(t), SendAsync(t, target) \/ SendSync(t, target)
          PROVE  MsgTypesInv' /\ BufInv' /\ SemInv' /\ SyncInv' /\ poolq' = poolq
      BY <3>3, SendAsyncMsg, SendSyncMsg
    <3>4. ASSUME NEW t \in Threads,
                 (\E timeout \in Waits : Receive(t, timeout)) \/ (Timeout(t) /\ UNCHANGED msgVars)
          PROVE  MsgTypesInv' /\ BufInv' /\ SemInv' /\ SyncInv' /\ poolq' = poolq
      BY <3>4, ReceiveMsg
    <3>5. ASSUME NEW t \in Threads, GoOn(t) \/ (ClearStart(t) /\ UNCHANGED msgVars)
          PROVE  MsgTypesInv' /\ BufInv' /\ SemInv' /\ SyncInv' /\ poolq' = poolq
      BY <3>5, SmallStepsMsg, AsyncPutMsg, CopyDropMsg DEF GoOn, Mailbox
    <3> QED
      BY <3>1, <3>2, <3>3, <3>4, <3>5 DEF MsgNext
  <2> QED
    BY <2>1, <2>2 DEF MsgInv
<1> QED
  BY <1>1, <1>2, PTL DEF MsgSpec

\* A thread that has got a buffer never waits for a descriptor, for any number of
\* threads and as long as there are no fewer descriptors than buffers.
THEOREM MsgPoolNeverWaits == MsgSpec => []PoolNeverWaits
<1>1. MsgInv => PoolNeverWaits
  BY DEF MsgInv, PoolNeverWaits
<1> QED
  BY <1>1, MsgSpecInv, PTL

\* A buffer is free, or in the hands of one sender, one message or one receiver,
\* for any number of buffers: none is lost and none is used twice.
THEOREM MsgBuffersAccounted == MsgSpec => []BuffersAccounted
<1>1. ASSUME MsgInv PROVE BuffersAccounted
  <2>1. MsgTypeOK
    BY <1>1, InvTypes DEF MsgInv, MsgTypesInv, MsgTypeOK
  <2>2. ASSUME NEW b \in Sems
        PROVE  sem[b] + Cardinality({t \in Threads : buf[t] = b}) + Cardinality({s \in Senders : tx[s].sem = b})
                      + Cardinality({t \in Threads : hand[t] = b}) = 1
    <3> DEFINE B == {t \in Threads : buf[t] = b}
               M == {s \in Senders : tx[s].sem = b}
               H == {t \in Threads : hand[t] = b}
    <3>1. BufAt(b) /\ sem[b] \in 0..1
      BY <1>1 DEF MsgInv, BufInv, IInv, TypesInv
    <3>2. (\A x, y \in B : x = y) /\ (\A x, y \in M : x = y) /\ (\A x, y \in H : x = y)
      BY <3>1 DEF BufAt
    <3>3. /\ sem[b] = 1 \/ B # {} \/ M # {} \/ H # {}
          /\ sem[b] = 1 => B = {} /\ M = {} /\ H = {}
          /\ B # {} => M = {} /\ H = {}
          /\ H # {} => M = {}
      BY <3>1 DEF BufAt
    <3> HIDE DEF B, M, H
    <3>4. /\ Cardinality(B) = (IF B = {} THEN 0 ELSE 1) /\ Cardinality(M) = (IF M = {} THEN 0 ELSE 1)
          /\ Cardinality(H) = (IF H = {} THEN 0 ELSE 1)
      BY <3>2, CardinalityAtMostOne
    <3>5. sem[b] + Cardinality(B) + Cardinality(M) + Cardinality(H) = 1
      BY <3>1, <3>3, <3>4
    <3> QED
      BY <3>5 DEF B, M, H
  <2> QED
    BY <2>1, <2>2 DEF BuffersAccounted
<1>2. MsgInv => BuffersAccounted
  BY <1>1
<1> QED
  BY <1>2, MsgSpecInv, PTL

\* A synchronous sender's message is queued, with a receiver, answered or
\* dropped, and every callback still to come has a call that waits for it, for any
\* number of threads.
THEOREM MsgSyncAnswered == MsgSpec => []SyncAnswered
<1>1. ASSUME MsgInv PROVE SyncAnswered
  <2>1. SyncInv /\ syncing \subseteq Threads
    BY <1>1 DEF MsgInv, MsgTypesInv
  <2>2. \A t \in Threads : Sent(t) <=> Contains(txq, t) \/ Holders(t) # {}
    BY DEF Sent, Holders
  <2> QED
    BY <2>1, <2>2 DEF SyncInv, SyncAnswered
<1>2. MsgInv => SyncAnswered
  BY <1>1
<1> QED
  BY <1>2, MsgSpecInv, PTL


=============================================================================
