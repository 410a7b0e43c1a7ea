------------------------------ MODULE KMailbox ------------------------------
(***************************************************************************)
(* The mailbox of src/sdk014_ZS285A/kernel/mailbox.c: a message goes from  *)
(* a sender to one receiver, both may name the other, and both may wait    *)
(* for each other.  A synchronous sender pends until its message has been  *)
(* processed; an asynchronous one leaves a descriptor with a dummy thread  *)
(* behind, taken from a pool that is a k_stack (kernel/stack.c).           *)
(*                                                                         *)
(* A section under irq_lock() is one action and any ready thread may take  *)
(* the next one.  k_mbox_clear_msg() walks the senders under one irq_lock, *)
(* but a wake-up inside swaps to a thread of higher priority all the same; *)
(* irqLocked says whose lock is in force.  Only threads use the mailbox:   *)
(* os_wrapper.c asserts it before each send.  So a timeout is one action,  *)
(* and the branches of _mbox_message_put() for _is_in_isr() are left out.  *)
(***************************************************************************)
EXTENDS Integers, Sequences, SequencesExt, FiniteSetsExt

CONSTANTS
  Threads,    \* the threads that use the mailbox
  Prio,       \* their own priorities; smaller is higher, negative is cooperative
  Clearers,   \* the threads that call k_mbox_clear_msg()
  Asyncs,     \* the descriptors async_msg[]
  Sems,       \* semaphores an asynchronous sender may pass
  Kinds,      \* what messages carry: data, or "block" for a memory block
  K_ANY,
  Null

ASSUME MailboxAssumption ==
  /\ Prio \in [Threads -> Int]
  /\ Clearers \subseteq Threads
  /\ Null \notin Threads \cup Asyncs \cup Sems /\ K_ANY \notin Threads
  /\ Threads \cap Asyncs = {} /\ Sems \cap Asyncs = {}
  /\ IsFiniteSet(Asyncs)

VARIABLES
  txq, rxq,     \* tx_msg_queue and rx_msg_queue, head first
  free, poolq,  \* async_msg_free: its entries, and the threads waiting for one
  prio,         \* base.prio of each sender, thread or dummy thread
  tstate,       \* "ready" or "pending"
  timed,        \* the threads whose timeout is armed
  tx,           \* the message of each sender, real or dummy
  rx,           \* rx_msg of each thread
  pc,           \* "out": in no call or nothing left of it but to return;
                \* "put": in k_mbox_async_put(), about to send; "get": in
                \* k_mbox_get(), about to check the data; "give": disposing,
                \* about to give the semaphore; "clear", "clearGive": in
                \* k_mbox_clear_msg()
  hand,         \* the descriptor or the semaphore a call has in its hands
  next,         \* next of k_mbox_clear_msg()
  sem,          \* the counts of Sems, whose limit is 1
  irqLocked,    \* the thread that keeps the interrupts locked, or Null
  out,          \* history: the senders whose message has a memory block to release
  ahead,        \* history: for a sender on txq, who was there before it
  fault         \* k_mbox_clear_msg() followed a thread that is not on txq

queueVars == <<txq, rxq, free, poolq, prio>>
callVars == <<pc, hand, next>>
mboxVars == <<queueVars, tstate, timed, tx, rx, callVars, sem, irqLocked,
              out, ahead, fault>>

Senders == Threads \cup Asyncs

NoMsg == [target |-> Null, source |-> Null, kind |-> Null, sem |-> Null]
NoRx == [source |-> Null, keep |-> FALSE, from |-> Null, kind |-> Null]

Msg(target, source, kind, s) == [target |-> target, source |-> source, kind |-> kind, sem |-> s]

MboxTypeOK ==
  /\ txq \in Seq(Senders) /\ IsInjective(txq)
  /\ rxq \in Seq(Threads) /\ IsInjective(rxq)
  /\ free \in Seq(Asyncs) /\ poolq \in Seq(Threads)
  /\ prio \in [Senders -> Int]
  /\ tstate \in [Threads -> {"ready", "pending"}]
  /\ timed \subseteq {t \in Threads : tstate[t] = "pending"}
  /\ \A s \in Senders : tx[s] \in [target : Threads \cup {K_ANY, Null}, source : Threads \cup {Null},
                                   kind : Kinds \cup {Null}, sem : Sems \cup {Null}]
  /\ \A t \in Threads : rx[t] \in [source : Threads \cup {K_ANY, Null}, keep : BOOLEAN,
                                   from : Senders \cup {Null}, kind : Kinds \cup {Null}]
  /\ pc \in [Threads -> {"out", "put", "get", "give", "clear", "clearGive"}]
  /\ hand \in [Threads -> Asyncs \cup Sems \cup {Null}]
  /\ next \in [Threads -> Senders \cup {Null}]
  /\ sem \in [Sems -> 0..1]
  /\ irqLocked \in Threads \cup {Null}
  /\ out \subseteq Senders
  /\ fault \in BOOLEAN

\* k_mbox_init(), and init_mbox_module(): every descriptor is pushed.  The
\* application has initialized its semaphores to count.
MboxInit(count) ==
  /\ txq = << >> /\ rxq = << >> /\ poolq = << >>
  /\ free = SetToSeq(Asyncs)
  /\ prio = [s \in Senders |-> IF s \in Asyncs THEN 0 ELSE Prio[s]]
  /\ tstate = [t \in Threads |-> "ready"]
  /\ timed = {}
  /\ tx = [s \in Senders |-> NoMsg]
  /\ rx = [t \in Threads |-> NoRx]
  /\ pc = [t \in Threads |-> "out"]
  /\ hand = [t \in Threads |-> Null]
  /\ next = [t \in Threads |-> Null]
  /\ sem = [s \in Sems |-> count]
  /\ irqLocked = Null
  /\ out = {}
  /\ ahead = [s \in Senders |-> {}]
  /\ fault = FALSE

Runs(t, where) ==
  tstate[t] = "ready" /\ pc[t] = where /\ irqLocked \in {Null, t} /\ ~fault

\* _pend_thread() on a queue: before the first thread of priority lower than p
Queued(q, s, p) ==
  InsertAt(q, Min({j \in 1..(Len(q) + 1) : j <= Len(q) => p < prio[q[j]]}), s)

Without(q, s) == RemoveFirst(q, s)

\* s leaves tx_msg_queue, if it is on it.
LeaveTxq(s) ==
  /\ txq' = Without(txq, s)
  /\ ahead' = [u \in Senders |-> IF u = s THEN {} ELSE ahead[u] \ {s}]

-----------------------------------------------------------------------------
(* Sending *)

\* The test of _mbox_message_match() for a message and a receiver that wishes
\* to hear from wish
Compatible(m, r, wish) == m.target \in {K_ANY, r} /\ wish \in {K_ANY, m.source}

\* What _mbox_message_match() leaves in the descriptor of a receiver.  keep: the
\* receiver passed no buffer and the smaller of the two sizes is not 0, so that
\* the data will be fetched later.
MatchedRx(s, m, keep) ==
  [source |-> m.source, keep |-> keep, from |-> s, kind |-> m.kind]

\* Mutant: only the receiver at the head of the queue is tried.
SuitsHead(m) == {i \in DOMAIN rxq : i = 1 /\ Compatible(m, rxq[1], rx[rxq[1]].source)}

\* The receivers on rxq that message m suits.
Suits(m) == {i \in DOMAIN rxq : Compatible(m, rxq[i], rx[rxq[i]].source)}

\* _mbox_message_put() finds a receiver: it gets the message and runs, while
\* the sender, dummy or not, sits unqueued.  The sender is a thread, so it
\* reschedules or swaps here and does not return at once as in an interrupt.
PutToReceiver(s, m) ==
  /\ Suits(m) # {}
  /\ LET r == rxq[Min(Suits(m))]
     IN  /\ rxq' = Without(rxq, r)
         /\ timed' = timed \ {r}
         /\ tstate' = [u \in Threads |-> IF u = r THEN "ready"
                                         ELSE IF u = s THEN "pending" ELSE tstate[u]]
         /\ rx' = [rx EXCEPT ![r] = MatchedRx(s, m, rx[r].keep)]
  /\ UNCHANGED <<txq, ahead>>

\* It does not: the sender, of priority p, waits on tx_msg_queue.
PutOnQueue(s, m, p, timeout) ==
  /\ Suits(m) = {}
  /\ txq' = Queued(txq, s, p)
  /\ ahead' = [ahead EXCEPT ![s] = ToSet(txq)]
  /\ tstate' = [u \in Threads |-> IF u = s THEN "pending" ELSE tstate[u]]
  /\ timed' = IF timeout = "timed" THEN timed \cup {s} ELSE timed
  /\ UNCHANGED <<rxq, rx>>

BlockSent(s, kind) == out' = IF kind = "block" THEN out \cup {s} ELSE out

\* k_mbox_put() by t at priority p, with a timeout that lets it wait
PutOrWait(t, target, kind, p, timeout) ==
  LET m == Msg(target, t, kind, Null)
  IN  /\ PutToReceiver(t, m) \/ PutOnQueue(t, m, p, timeout)
      /\ tx' = [tx EXCEPT ![t] = m]
      /\ BlockSent(t, kind)
      /\ UNCHANGED <<free, poolq, callVars, sem, irqLocked, fault>>

\* k_mbox_put(); with K_NO_WAIT and no receiver it returns -ENOMSG and changes
\* nothing
Put(t, target, kind, timeout) ==
  /\ Runs(t, "out")
  /\ timeout = "nowait" => Suits(Msg(target, t, kind, Null)) # {}
  /\ PutOrWait(t, target, kind, prio[t], timeout)
  /\ UNCHANGED prio

\* k_mbox_async_put() begins with k_stack_pop(&async_msg_free, K_FOREVER); what
\* is to be sent waits in tx[t].
AsyncAlloc(t, target, kind, s) ==
  /\ Runs(t, "out")
  /\ tx' = [tx EXCEPT ![t] = Msg(target, t, kind, s)]
  /\ pc' = [pc EXCEPT ![t] = "put"]
  /\ \/ /\ free # << >>
        /\ hand' = [hand EXCEPT ![t] = Last(free)]
        /\ free' = Front(free)
        /\ UNCHANGED <<poolq, tstate>>
     \/ /\ free = << >>
        /\ poolq' = Queued(poolq, t, prio[t])
        /\ tstate' = [tstate EXCEPT ![t] = "pending"]
        /\ UNCHANGED <<free, hand>>
  /\ UNCHANGED <<txq, rxq, prio, timed, rx, next, sem, irqLocked, out, ahead, fault>>

\* Mutant: the dummy thread keeps the priority of its last message.
AsyncPrioKept(t, a) == prio[a]

\* async->thread.prio = _current->base.prio
AsyncPrio(t, a) == prio[t]

\* The rest of k_mbox_async_put()
AsyncPut(t) ==
  LET a == hand[t]
      m == tx[t]
  IN  /\ Runs(t, "put")
      /\ prio' = [prio EXCEPT ![a] = AsyncPrio(t, a)]
      /\ PutToReceiver(a, m) \/ PutOnQueue(a, m, AsyncPrio(t, a), "forever")
      /\ tx' = [tx EXCEPT ![a] = m, ![t] = NoMsg]
      /\ BlockSent(a, m.kind)
      /\ pc' = [pc EXCEPT ![t] = "out"]
      /\ hand' = [hand EXCEPT ![t] = Null]
      /\ UNCHANGED <<free, poolq, next, sem, irqLocked, fault>>

-----------------------------------------------------------------------------
(* Receiving *)

\* Mutant: the sender is taken off the queue and its timeout goes on.
TakenKeepsTimeout(s) == timed

\* The timeouts after _abort_thread_timeout() of a sender that is taken.
Taken(s) == timed \ {s}

\* The messages on txq that suit receiver t, who wishes to hear from wish.
Offers(t, wish) == {i \in DOMAIN txq : Compatible(tx[txq[i]], t, wish)}

\* k_mbox_get(), which with K_NO_WAIT and no sender returns -ENOMSG and changes
\* nothing.  A thread has one descriptor, and finishes with one message before
\* it asks for the next.
Get(t, wish, keep, timeout) ==
  /\ Runs(t, "out")
  /\ rx[t].from = Null
  /\ \/ /\ Offers(t, wish) # {}
        /\ LET s == txq[Min(Offers(t, wish))]
           IN  /\ LeaveTxq(s)
               /\ timed' = Taken(s)
               /\ rx' = [rx EXCEPT ![t] = MatchedRx(s, tx[s], keep)]
        /\ pc' = [pc EXCEPT ![t] = "get"]
        /\ UNCHANGED <<rxq, tstate>>
     \/ /\ Offers(t, wish) = {} /\ timeout # "nowait"
        /\ rxq' = Queued(rxq, t, prio[t])
        /\ tstate' = [tstate EXCEPT ![t] = "pending"]
        /\ timed' = IF timeout = "timed" THEN timed \cup {t} ELSE timed
        /\ rx' = [rx EXCEPT ![t] = [NoRx EXCEPT !.source = wish, !.keep = keep]]
        /\ pc' = [pc EXCEPT ![t] = "get"]
        /\ UNCHANGED <<txq, ahead>>
  /\ UNCHANGED <<free, poolq, prio, tx, hand, next, sem, irqLocked, out, fault>>

\* A wait ends: k_mbox_put() or k_mbox_get() returns -EAGAIN.
Timeout(t) ==
  /\ t \in timed /\ irqLocked = Null /\ ~fault
  /\ timed' = timed \ {t}
  /\ LeaveTxq(t) /\ rxq' = Without(rxq, t)
  /\ tstate' = [tstate EXCEPT ![t] = "ready"]
  /\ tx' = [tx EXCEPT ![t] = NoMsg]
  /\ rx' = IF Contains(rxq, t) THEN [rx EXCEPT ![t] = NoRx] ELSE rx
  /\ pc' = [pc EXCEPT ![t] = "out"]
  /\ out' = out \ {t}
  /\ UNCHANGED <<free, poolq, prio, hand, next, sem, irqLocked, fault>>

\* k_stack_push() of descriptor a
Push(a) ==
  IF poolq = << >>
  THEN free' = Append(free, a) /\ UNCHANGED <<poolq, tstate>>
  ELSE /\ poolq' = Tail(poolq)
       /\ tstate' = [tstate EXCEPT ![Head(poolq)] = "ready"]
       /\ UNCHANGED free

\* The rest of _mbox_message_dispose() of s's message by t, whose block has
\* been seen to: an asynchronous sender's descriptor is freed, a synchronous
\* sender wakes.  t goes on at done, after it has given the semaphore if there
\* is one.
Notify(t, s, done) ==
  /\ tx' = [tx EXCEPT ![s] = NoMsg]
  /\ IF s \in Asyncs
     THEN /\ Push(s)
          /\ hand' = [u \in Threads |-> IF u = t THEN tx[s].sem
                                        ELSE IF poolq # << >> /\ u = Head(poolq) THEN s
                                        ELSE hand[u]]
          /\ pc' = [pc EXCEPT ![t] = IF tx[s].sem = Null THEN done
                                     ELSE IF done = "clear" THEN "clearGive" ELSE "give"]
     ELSE /\ tstate' = [tstate EXCEPT ![s] = "ready"]
          /\ pc' = [pc EXCEPT ![t] = done]
          /\ UNCHANGED <<free, poolq, hand>>

\* Mutant: the block goes back to the pool only if the data is left for later.
ReleasedIfKept(t) == IF rx[t].kind = "block" /\ rx[t].keep THEN out \ {rx[t].from} ELSE out

\* _mbox_message_dispose() frees the block, unless k_mbox_data_block_get() has
\* made it the receiver's.
Released(t) == IF rx[t].kind = "block" THEN out \ {rx[t].from} ELSE out

\* What lies between freeing the block and notifying the sender is local to
\* the receiver, so the two are one step.
Dispose(t) ==
  /\ out' = Released(t)
  /\ rx' = [rx EXCEPT ![t] = NoRx]
  /\ Notify(t, rx[t].from, "out")
  /\ UNCHANGED <<txq, rxq, prio, timed, next, sem, irqLocked, ahead, fault>>

\* _mbox_message_data_check(): k_mbox_get() goes on after the match
DataCheck(t) ==
  /\ Runs(t, "get")
  /\ IF ~rx[t].keep THEN Dispose(t)
     ELSE /\ pc' = [pc EXCEPT ![t] = "out"]
          /\ UNCHANGED <<queueVars, tstate, timed, tx, rx, hand, next, sem, irqLocked,
                         out, ahead, fault>>

\* k_mbox_data_get() or k_mbox_data_block_get() of a message kept for later;
\* when the latter finds no block to copy the data to it fails and changes
\* nothing.
DataGet(t) == Runs(t, "out") /\ rx[t].from # Null /\ Dispose(t)

\* k_sem_give() at the end of _mbox_message_dispose()
Give(t) ==
  /\ \/ Runs(t, "give") /\ pc' = [pc EXCEPT ![t] = "out"] /\ UNCHANGED irqLocked
     \/ Runs(t, "clearGive") /\ pc' = [pc EXCEPT ![t] = "clear"] /\ irqLocked' = t
  /\ sem' = [sem EXCEPT ![hand[t]] = 1]
  /\ hand' = [hand EXCEPT ![t] = Null]
  /\ UNCHANGED <<queueVars, tstate, timed, tx, rx, next, out, ahead, fault>>

-----------------------------------------------------------------------------
(* k_mbox_clear_msg() *)

Successor(s) ==
  LET after == {i \in DOMAIN txq : i > 1 /\ txq[i - 1] = s}
  IN  IF after = {} THEN Null ELSE txq[Min(after)]

ClearStart(t) ==
  /\ Runs(t, "out") /\ t \in Clearers
  /\ pc' = [pc EXCEPT ![t] = "clear"]
  /\ next' = [next EXCEPT ![t] = IF txq = << >> THEN Null ELSE Head(txq)]
  /\ irqLocked' = t
  /\ UNCHANGED <<queueVars, tstate, timed, tx, rx, hand, sem, out, ahead, fault>>

\* A wake-up in the walk swaps to a thread of higher priority, and the lock
\* with it.
Woken(s) == IF s \in Threads THEN {s} ELSE IF poolq = << >> THEN {} ELSE {Head(poolq)}

SwapsTo(t, u) == prio[t] >= 0 /\ prio[u] < prio[t]

\* One round of the walk.  The message is discarded: its block, if any, is
\* freed by _mbox_message_dispose().
ClearOne(t) ==
  LET s == next[t] IN
  /\ Runs(t, "clear") /\ s # Null
  /\ IF Contains(txq, s)
     THEN /\ next' = [next EXCEPT ![t] = Successor(s)]
          /\ LeaveTxq(s)
          /\ timed' = Taken(s)
          /\ out' = out \ {s}
          /\ irqLocked' = IF \E u \in Woken(s) : SwapsTo(t, u) THEN Null ELSE t
          /\ Notify(t, s, "clear")
          /\ UNCHANGED <<rxq, prio, rx, sem, fault>>
     ELSE /\ fault' = TRUE
          /\ UNCHANGED <<queueVars, tstate, timed, tx, rx, callVars, sem, irqLocked,
                         out, ahead>>

ClearEnd(t) ==
  /\ Runs(t, "clear") /\ next[t] = Null
  /\ pc' = [pc EXCEPT ![t] = "out"]
  /\ irqLocked' = Null
  /\ UNCHANGED <<queueVars, tstate, timed, tx, rx, hand, next, sem, out, ahead, fault>>

MboxStep(t) ==
  AsyncPut(t) \/ Timeout(t) \/ DataCheck(t) \/ DataGet(t) \/ Give(t)
  \/ ClearStart(t) \/ ClearOne(t) \/ ClearEnd(t)

Waits == {"nowait", "timed", "forever"}
Peers(t) == (Threads \ {t}) \cup {K_ANY}

MboxNext ==
  \E t \in Threads :
    \/ \E target \in Peers(t), kind \in Kinds :
         \/ \E timeout \in Waits : Put(t, target, kind, timeout)
         \/ \E s \in Sems \cup {Null} : AsyncAlloc(t, target, kind, s)
    \/ \E wish \in Peers(t), keep \in BOOLEAN, timeout \in Waits : Get(t, wish, keep, timeout)
    \/ MboxStep(t)

MboxSpec == MboxInit(0) /\ [][MboxNext]_mboxVars

-----------------------------------------------------------------------------
\* The receiver descriptors that hold a message of s.
Holders(s) == {t \in Threads : rx[t].from = s}

\* Nobody is forgotten and nobody is served twice: a pending thread waits on
\* one queue, or its message is in the hands of one receiver, who will wake
\* it; a descriptor is free, in a sender's hand, queued or with one receiver,
\* and in one of these places only, once.  A timeout, a match and a dispose
\* that race leave it so.
SendersAccounted ==
  /\ MboxTypeOK
  /\ \A t \in Threads : tstate[t] = "pending" <=>
       Contains(txq, t) \/ Contains(rxq, t) \/ Contains(poolq, t) \/ Holders(t) # {}
  /\ \A s \in Senders : Cardinality(Holders(s)) + (IF Contains(txq, s) THEN 1 ELSE 0) <= 1
  /\ \A a \in Asyncs :
       Cardinality({i \in DOMAIN free : free[i] = a}) + Cardinality({t \in Threads : hand[t] = a})
       + (IF Contains(txq, a) THEN 1 ELSE 0) + Cardinality(Holders(a)) = 1

\* No sender and receiver that suit each other wait side by side, and nobody
\* waits for a descriptor while one is free: a wake-up is never missed.
NoMissedMatch ==
  /\ \A i \in DOMAIN rxq : Offers(rxq[i], rx[rxq[i]].source) = {}
  /\ poolq # << >> => free = << >>

\* Messages are offered in the order of the priorities of the threads that
\* sent them, whether they wait themselves or a dummy thread waits for them,
\* and in the order of their coming within a priority.
OfferedInOrder ==
  \A i, j \in DOMAIN txq : i < j =>
    LET p == prio[tx[txq[i]].source]
        q == prio[tx[txq[j]].source]
    IN  p <= q /\ (p = q => txq[j] \notin ahead[txq[i]])

\* A memory block sent with a message is released, or handed over, when the
\* message has been processed and not before, however it is processed.
BlocksSettled ==
  out = {s \in Senders : tx[s].kind = "block" /\ (Contains(txq, s) \/ Holders(s) # {})}

\* Not guaranteed if a thread that clears can be preempted (Clearers of lower
\* priority than the senders): k_mbox_clear_msg() visits only threads that wait to send.
ClearStaysOnQueue == ~fault

=============================================================================
