----------------------------- MODULE KWorkProofs ----------------------------
(***************************************************************************)
(* Delayed work for every set of items, work queues and cancelling         *)
(* threads: the flag PENDING, the lists and the countdown agree, no item   *)
(* is appended to the queue at address NULL unless somebody changed it     *)
(* under the call of its timeout, and k_delayed_work_cancel_sync() means   *)
(* what it returns.                                                        *)
(***************************************************************************)
EXTENDS KWork, DataLemmas

\* w is on the list of q; the thread of q has taken w and not called it yet.
On(q, w) == Contains(fifo[q], w)
Took(q, w) == cur[q] = w /\ pc[q] \in {"got", "flagged"}

\* An item that nobody changed under the call of its timeout: a pending one has
\* a place, or was dropped for want of a handler, and does not count down; what
\* counts down or is being called has a queue.
Sound(w) ==
  /\ pending[w] => /\ workq[w] \in Queues
                   /\ On(workq[w], w) \/ Took(workq[w], w) \/ (w \in NoHandler /\ running[w])
                   /\ tmo[w] = "inactive"
  /\ tmo[w] = "armed" => workq[w] # Null
  /\ calling = w => workq[w] # Null /\ tmo[w] = "inactive"

\* Where an item is, place by place.
Held(w) ==
  /\ \A q \in Queues : On(q, w) \/ Took(q, w) => pending[w] /\ workq[w] = q
  /\ \A q \in Queues : ~(On(q, w) /\ Took(q, w))
  /\ w \notin raced => Sound(w)

\* The types of everything but the calls of k_delayed_work_cancel_sync();
\* work_q_main() holds an item except while it waits for one, and one without a
\* handler gets no further than the flag RUNNING; and no memory is written for
\* an item that nobody changed under the call of its timeout.
StateOK ==
  /\ pending \in [Works -> BOOLEAN]
  /\ running \in [Works -> BOOLEAN]
  /\ workq \in [Works -> Queues \cup {Null}]
  /\ tmo \in [Works -> {"inactive", "armed"}]
  /\ calling \in Works \cup {Null}
  /\ fifo \in [Queues -> Seq(Works)] /\ \A q \in Queues : IsInjective(fifo[q])
  /\ pc \in [Queues -> {"get", "got", "flagged", "handler", "done"}]
  /\ cur \in [Queues -> Works \cup {Null}]
  /\ \A q \in Queues : pc[q] = "get" <=> cur[q] = Null
  /\ \A q \in Queues : cur[q] \in NoHandler =>
       pc[q] = "got" \/ (pc[q] = "flagged" /\ running[cur[q]])
  /\ raced \subseteq Works /\ wild \subseteq raced

SyncType ==
  sync \in [Cancellers -> [at : {"idle", "cancel", "check"},
                           work : Works \cup {Null},
                           err : {"none", "OK", "EINVAL", "EBUSY"},
                           by : {"nobody", "handler", "others"}]]

\* The inductive invariant.  PendingIsHeld is not inductive without knowing
\* which queue the place of a pending item belongs to.
IInv == StateOK /\ SyncType /\ \A w \in Works : Held(w)

-----------------------------------------------------------------------------
\* An item whose flag, queue, countdown and places a step leaves alone.
LEMMA HeldKept ==
  ASSUME NEW w \in Works, Held(w),
         pending'[w] = pending[w], workq'[w] = workq[w], tmo'[w] = tmo[w],
         raced \subseteq raced', calling' = w => calling = w,
         w \in NoHandler /\ running[w] => running'[w],
         \A q \in Queues : On(q, w)' <=> On(q, w),
         \A q \in Queues : Took(q, w)' <=> Took(q, w)
  PROVE  Held(w)'
BY DEF Held, Sound

\* The lists after a cancellation: w is on none.
LEMMA RemovedIs ==
  ASSUME StateOK, NEW w \in Works, Held(w)
  PROVE  /\ Removed(w) \in [Queues -> Seq(Works)]
         /\ \A q \in Queues : IsInjective(Removed(w)[q])
         /\ \A q \in Queues, u \in Works :
              Contains(Removed(w)[q], u) <=> (u # w /\ Contains(fifo[q], u))
<1>0. /\ fifo \in [Queues -> Seq(Works)] /\ \A q \in Queues : IsInjective(fifo[q])
      /\ workq[w] \in Queues \cup {Null} /\ pending[w] \in BOOLEAN /\ Null \notin Queues
  BY WorkAssumption DEF StateOK
<1>1. CASE workq[w] # Null /\ pending[w]
  <2> DEFINE p == workq[w]
  <2>1. p \in Queues /\ Removed(w) = [fifo EXCEPT ![p] = RemoveFirst(fifo[p], w)]
    BY <1>0, <1>1 DEF Removed
  <2> HIDE DEF p
  <2>2. fifo[p] \in Seq(Works) /\ IsInjective(fifo[p])
    BY <1>0, <2>1
  <2>3. /\ RemoveFirst(fifo[p], w) \in Seq(Works)
        /\ IsInjective(RemoveFirst(fifo[p], w))
        /\ \A u \in Works : Contains(RemoveFirst(fifo[p], w), u) <=> (u # w /\ Contains(fifo[p], u))
    BY ONLY <2>2, RemoveFirstMembers
  <2>4. \A q \in Queues : Removed(w)[q] = IF q = p THEN RemoveFirst(fifo[p], w) ELSE fifo[q]
    BY <1>0, <2>1
  <2>5. \A q \in Queues \ {p} : ~Contains(fifo[q], w)
    BY DEF Held, On, p
  <2>6. Removed(w) \in [Queues -> Seq(Works)]
    BY <1>0, <2>1, <2>3
  <2> QED
    BY <1>0, <2>3, <2>4, <2>5, <2>6
<1>2. CASE ~(workq[w] # Null /\ pending[w])
  <2>1. Removed(w) = fifo
    BY <1>2 DEF Removed
  <2>3. \A q \in Queues : ~Contains(fifo[q], w)
    BY <1>0, <1>2 DEF Held, On
  <2> QED
    BY <1>0, <2>1, <2>3
<1> QED
  BY <1>1, <1>2

\* The lists once w, on none of them, is appended to that of p.
LEMMA AppendedIs ==
  ASSUME NEW f \in [Queues -> Seq(Works)], \A q \in Queues : IsInjective(f[q]),
         NEW w \in Works, NEW p \in Queues, ~Contains(f[p], w)
  PROVE  /\ [f EXCEPT ![p] = Append(f[p], w)] \in [Queues -> Seq(Works)]
         /\ \A q \in Queues : IsInjective([f EXCEPT ![p] = Append(f[p], w)][q])
         /\ \A q \in Queues, u \in Works :
              Contains([f EXCEPT ![p] = Append(f[p], w)][q], u)
                <=> ((q = p /\ u = w) \/ Contains(f[q], u))
<1>1. f[p] \in Seq(Works) /\ IsInjective(f[p])
  OBVIOUS
<1>2. /\ Append(f[p], w) \in Seq(Works)
      /\ IsInjective(Append(f[p], w))
      /\ \A u \in Works : Contains(Append(f[p], w), u) <=> (u = w \/ Contains(f[p], u))
  BY ONLY <1>1, w \in Works, ~Contains(f[p], w), AppendMembers
<1>3. \A q \in Queues : [f EXCEPT ![p] = Append(f[p], w)][q] = IF q = p THEN Append(f[p], w) ELSE f[q]
  OBVIOUS
<1>4. [f EXCEPT ![p] = Append(f[p], w)] \in [Queues -> Seq(Works)]
  BY <1>2
<1> QED
  BY <1>2, <1>3, <1>4

\* What k_delayed_work_cancel() returns: not 0 for an item that the thread of
\* its queue has taken, and 0 for a pending one only if it was on the list.
LEMMA CancelErrIs ==
  ASSUME StateOK, NEW w \in Works, Held(w)
  PROVE  /\ CancelErr(w) \in {"OK", "EINVAL", "EBUSY"}
         /\ CancelErr(w) = "EINVAL" <=> workq[w] = Null
         /\ CancelErr(w) = "EBUSY" => pending[w]
         /\ CancelErr(w) # "EBUSY" => \A q \in Queues : ~Took(q, w)
         /\ CancelErr(w) = "OK" /\ pending[w] => On(workq[w], w)
<1>0. pending[w] \in BOOLEAN
  BY DEF StateOK
<1>1. CASE workq[w] = Null
  <2>1. CancelErr(w) = "EINVAL"
    BY <1>1 DEF CancelErr
  <2>2. \A q \in Queues : ~Took(q, w)
    BY <1>1, WorkAssumption DEF Held
  <2> QED
    BY <1>1, <2>1, <2>2
<1>2. CASE workq[w] # Null /\ pending[w] /\ ~Contains(fifo[workq[w]], w)
  <2>1. CancelErr(w) = "EBUSY"
    BY <1>2 DEF CancelErr
  <2> QED
    BY <1>2, <2>1
<1>3. CASE workq[w] # Null /\ ~(pending[w] /\ ~Contains(fifo[workq[w]], w))
  <2>1. CancelErr(w) = "OK"
    BY <1>3 DEF CancelErr
  <2>2. \A q \in Queues : ~Took(q, w)
    BY <1>0, <1>3 DEF Held, On
  <2> QED
    BY <1>0, <1>3, <2>1, <2>2 DEF On
<1> QED
  BY <1>0, <1>1, <1>2, <1>3

\* The timeout after a cancellation.
LEMMA AbortedIs ==
  ASSUME StateOK, NEW w \in Works
  PROVE  /\ Aborted(w) \in [Works -> {"inactive", "armed"}]
         /\ \A u \in Works \ {w} : Aborted(w)[u] = tmo[u]
         /\ Aborted(w)[w] \in {tmo[w], "inactive"}
         /\ workq[w] # Null /\ ~pending[w] => Aborted(w)[w] = "inactive"
BY DEF StateOK, Aborted

\* A cancelled or newly submitted item that nobody changed under the call of
\* its timeout no longer counts down.
LEMMA SoundAborted ==
  ASSUME StateOK, NEW w \in Works, Held(w), w \notin raced
  PROVE  /\ Aborted(w)[w] = "inactive"
         /\ workq[w] = Null => ~pending[w]
<1>0. /\ Sound(w) /\ pending[w] \in BOOLEAN /\ tmo[w] \in {"inactive", "armed"}
      /\ Null \notin Queues
  BY WorkAssumption DEF Held, StateOK
<1>1. workq[w] = Null => ~pending[w]
  BY <1>0 DEF Sound
<1>2. CASE workq[w] # Null /\ ~pending[w]
  BY <1>1, <1>2, AbortedIs
<1>3. CASE workq[w] = Null \/ pending[w]
  <2>1. tmo[w] = "inactive"
    BY <1>0, <1>3 DEF Sound
  <2> QED
    BY <1>1, <2>1, AbortedIs
<1> QED
  BY <1>0, <1>2, <1>3

\* k_delayed_work_cancel() keeps the places of every item.
LEMMA CancelledHeld ==
  ASSUME IInv, NEW w \in Works, Cancelled(w), UNCHANGED <<running, calling, pc, cur, wild>>,
         raced \subseteq raced', raced' \subseteq Works, calling = w => w \in raced'
  PROVE  StateOK' /\ \A u \in Works : Held(u)'
<1>0. /\ StateOK /\ \A u \in Works : Held(u)
      /\ pending \in [Works -> BOOLEAN] /\ workq \in [Works -> Queues \cup {Null}]
      /\ pc' = pc /\ cur' = cur /\ running' = running /\ calling' = calling
      /\ wild' \subseteq raced'
  BY DEF IInv, StateOK
<1>1. CASE CancelErr(w) = "OK"
  <2>1. /\ fifo' = Removed(w) /\ tmo' = Aborted(w)
        /\ workq' = [workq EXCEPT ![w] = Null]
        /\ pending' = [pending EXCEPT ![w] = FALSE]
    BY <1>1 DEF Cancelled
  <2>2. /\ fifo' \in [Queues -> Seq(Works)]
        /\ \A q \in Queues : IsInjective(fifo'[q])
        /\ \A q \in Queues, u \in Works : On(q, u)' <=> (u # w /\ On(q, u))
    BY <1>0, <2>1, RemovedIs DEF On
  <2>3. \A q \in Queues, u \in Works : Took(q, u)' <=> Took(q, u)
    BY <1>0 DEF Took
  <2>4. /\ tmo' \in [Works -> {"inactive", "armed"}]
        /\ \A u \in Works \ {w} : tmo'[u] = tmo[u]
        /\ w \notin raced => tmo'[w] = "inactive"
    BY <1>0, <2>1, AbortedIs, SoundAborted
  <2>5. \A q \in Queues : ~Took(q, w)
    BY <1>0, <1>1, CancelErrIs
  <2>6. /\ \A u \in Works : workq'[u] = IF u = w THEN Null ELSE workq[u]
        /\ \A u \in Works : pending'[u] = IF u = w THEN FALSE ELSE pending[u]
        /\ workq' \in [Works -> Queues \cup {Null}]
        /\ pending' \in [Works -> BOOLEAN]
    BY <1>0, <2>1
  <2>7. StateOK'
    BY <1>0, <2>2, <2>4, <2>6 DEF StateOK
  <2>8. ASSUME NEW u \in Works, u # w PROVE Held(u)'
    BY <1>0, <2>2, <2>3, <2>4, <2>6, <2>8, HeldKept
  <2>9. Held(w)'
    <3>1. w \notin raced' => Sound(w)'
      BY <1>0, <2>4, <2>6 DEF Sound
    <3> QED
      BY <2>2, <2>3, <2>5, <3>1 DEF Held
  <2> QED
    BY <2>7, <2>8, <2>9
<1>2. CASE CancelErr(w) # "OK"
  <2>1. UNCHANGED <<pending, workq, tmo, fifo>>
    BY <1>2 DEF Cancelled
  <2>2. StateOK'
    BY <1>0, <2>1 DEF StateOK
  <2>3. \A u \in Works : Held(u)'
    BY <1>0, <2>1, HeldKept DEF On, Took
  <2> QED
    BY <2>2, <2>3
<1> QED
  BY <1>1, <1>2

\* k_delayed_work_submit_to_queue() keeps the places of every item.
LEMMA SubmittedHeld ==
  ASSUME IInv, NEW w \in Works, NEW q \in Queues, NEW delay, Submitted(w, q, delay),
         UNCHANGED <<running, calling, pc, cur>>,
         raced \subseteq raced', raced' \subseteq Works,
         delay # 0 /\ calling = w => w \in raced'
  PROVE  StateOK' /\ \A u \in Works : Held(u)'
<1>0. /\ StateOK /\ \A u \in Works : Held(u)
      /\ pending \in [Works -> BOOLEAN] /\ workq \in [Works -> Queues \cup {Null}]
      /\ tmo \in [Works -> {"inactive", "armed"}]
      /\ fifo \in [Queues -> Seq(Works)] /\ \A p \in Queues : IsInjective(fifo[p])
      /\ pc' = pc /\ cur' = cur /\ running' = running /\ calling' = calling
      /\ wild \subseteq raced /\ Null \notin Queues
  BY WorkAssumption DEF IInv, StateOK
<1>1. /\ workq[w] \in {Null, q}
      /\ CancelErr(w) # "EBUSY"
      /\ workq' = [workq EXCEPT ![w] = q]
  BY DEF Submitted
<1>2. \A p \in Queues : ~Took(p, w)
  BY <1>0, <1>1, CancelErrIs
<1>3. /\ Removed(w) \in [Queues -> Seq(Works)]
      /\ \A p \in Queues : IsInjective(Removed(w)[p])
      /\ \A p \in Queues, u \in Works : Contains(Removed(w)[p], u) <=> (u # w /\ On(p, u))
  BY <1>0, RemovedIs DEF On
<1>4. \A p \in Queues, u \in Works : Took(p, u)' <=> Took(p, u)
  BY <1>0 DEF Took
<1>5. /\ \A u \in Works : workq'[u] = IF u = w THEN q ELSE workq[u]
      /\ workq' \in [Works -> Queues \cup {Null}]
  BY <1>0, <1>1
<1>6. w \notin raced => Aborted(w)[w] = "inactive" /\ (workq[w] = Null => ~pending[w])
  BY <1>0, SoundAborted
<1>7. CASE delay = 0
  <2>1. /\ fifo' = IF workq[w] = Null /\ pending[w] THEN fifo
                   ELSE [Removed(w) EXCEPT ![q] = Append(Removed(w)[q], w)]
        /\ pending' = [pending EXCEPT ![w] = TRUE]
        /\ tmo' = Aborted(w) /\ wild' = wild
    BY <1>7 DEF Submitted
  <2>2. /\ fifo' \in [Queues -> Seq(Works)]
        /\ \A p \in Queues : IsInjective(fifo'[p])
        /\ \A p \in Queues, u \in Works \ {w} : On(p, u)' <=> On(p, u)
        /\ \A p \in Queues : On(p, w)' => p = q
        /\ ~(workq[w] = Null /\ pending[w]) => On(q, w)'
    <3>1. CASE workq[w] = Null /\ pending[w]
      <4>1. \A p \in Queues : ~On(p, w)
        BY <1>0, <3>1 DEF Held
      <4> QED
        BY <1>0, <2>1, <3>1, <4>1 DEF On
    <3>2. CASE ~(workq[w] = Null /\ pending[w])
      <4> DEFINE f == Removed(w)
      <4> HIDE DEF f
      <4>1. /\ f \in [Queues -> Seq(Works)]
            /\ \A p \in Queues : IsInjective(f[p])
            /\ \A p \in Queues, u \in Works : Contains(f[p], u) <=> (u # w /\ On(p, u))
        BY <1>3 DEF f
      <4>2. ~Contains(f[q], w)
        BY <4>1
      <4>3. fifo' = [f EXCEPT ![q] = Append(f[q], w)]
        BY <2>1, <3>2 DEF f
      <4>4. /\ fifo' \in [Queues -> Seq(Works)]
            /\ \A p \in Queues : IsInjective(fifo'[p])
            /\ \A p \in Queues, u \in Works :
                 Contains(fifo'[p], u) <=> ((p = q /\ u = w) \/ Contains(f[p], u))
        BY <4>1, <4>2, <4>3, AppendedIs
      <4> QED
        BY <4>1, <4>4 DEF On
    <3> QED
      BY <3>1, <3>2
  <2>3. /\ tmo' \in [Works -> {"inactive", "armed"}]
        /\ \A u \in Works \ {w} : tmo'[u] = tmo[u]
    BY <1>0, <2>1, AbortedIs
  <2>4. /\ \A u \in Works : pending'[u] = IF u = w THEN TRUE ELSE pending[u]
        /\ pending' \in [Works -> BOOLEAN]
    BY <1>0, <2>1
  <2>5. StateOK'
    BY <1>0, <1>5, <2>1, <2>2, <2>3, <2>4 DEF StateOK
  <2>6. ASSUME NEW u \in Works, u # w PROVE Held(u)'
    BY <1>0, <1>4, <1>5, <2>2, <2>3, <2>4, <2>6, HeldKept
  <2>7. Held(w)'
    <3>1. w \notin raced' => Sound(w)'
      BY <1>0, <1>5, <1>6, <2>1, <2>2, <2>4 DEF Sound
    <3> QED
      BY <1>2, <1>4, <1>5, <2>2, <2>4, <3>1 DEF Held
  <2> QED
    BY <2>5, <2>6, <2>7
<1>8. CASE delay # 0
  <2>1. /\ fifo' = Removed(w)
        /\ pending' = [pending EXCEPT ![w] = (workq[w] = Null /\ pending[w])]
        /\ tmo' = [tmo EXCEPT ![w] = "armed"]
        /\ wild' = IF Aborted(w)[w] = "armed" THEN wild \cup {w} ELSE wild
    BY <1>8 DEF Submitted
  <2>2. /\ fifo' \in [Queues -> Seq(Works)]
        /\ \A p \in Queues : IsInjective(fifo'[p])
        /\ \A p \in Queues, u \in Works : On(p, u)' <=> (u # w /\ On(p, u))
    BY <1>3, <2>1 DEF On
  <2>3. /\ tmo' \in [Works -> {"inactive", "armed"}]
        /\ \A u \in Works : tmo'[u] = IF u = w THEN "armed" ELSE tmo[u]
    BY <1>0, <2>1
  <2>4. /\ \A u \in Works : pending'[u] = IF u = w THEN workq[w] = Null /\ pending[w] ELSE pending[u]
        /\ pending' \in [Works -> BOOLEAN]
    <3>1. (workq[w] = Null /\ pending[w]) \in BOOLEAN
      OBVIOUS
    <3> QED
      BY <1>0, <2>1, <3>1
  <2>5. wild' \subseteq raced'
    BY <1>0, <1>6, <2>1
  <2>6. StateOK'
    BY <1>0, <1>5, <2>2, <2>3, <2>4, <2>5 DEF StateOK
  <2>7. ASSUME NEW u \in Works, u # w PROVE Held(u)'
    BY <1>0, <1>4, <1>5, <2>2, <2>3, <2>4, <2>7, HeldKept
  <2>8. Held(w)'
    <3>1. w \notin raced' => Sound(w)'
      <4>1. SUFFICES ASSUME w \notin raced' PROVE Sound(w)'
        OBVIOUS
      <4>2. ~pending'[w]
        BY <1>6, <2>4, <4>1
      <4>3. workq'[w] # Null /\ calling' # w
        BY <1>0, <1>5, <1>8, <4>1
      <4> QED
        BY <4>2, <4>3 DEF Sound
    <3> QED
      BY <1>2, <1>4, <2>2, <3>1 DEF Held
  <2> QED
    BY <2>6, <2>7, <2>8
<1> QED
  BY <1>7, <1>8

\* The clock interrupt keeps the places of every item.
LEMMA ClockHeld ==
  ASSUME IInv, NEW w \in Works, Expire(w) \/ Timeout(w)
  PROVE  StateOK' /\ \A u \in Works : Held(u)'
<1>0. /\ StateOK /\ \A u \in Works : Held(u)
      /\ pending \in [Works -> BOOLEAN] /\ workq \in [Works -> Queues \cup {Null}]
      /\ tmo \in [Works -> {"inactive", "armed"}]
      /\ fifo \in [Queues -> Seq(Works)] /\ \A q \in Queues : IsInjective(fifo[q])
      /\ wild \subseteq raced /\ Null \notin Queues \cup Works
  BY WorkAssumption DEF IInv, StateOK
<1>1. \A p \in Queues, u \in Works : Took(p, u)' <=> Took(p, u)
  BY DEF Expire, Timeout, Took
<1>2. workq' = workq /\ raced' = raced /\ running' = running /\ pc' = pc /\ cur' = cur
  BY DEF Expire, Timeout
<1>3. CASE Expire(w)
  <2>1. /\ UNCHANGED <<pending, fifo, wild>> /\ calling = Null /\ calling' = w
        /\ tmo[w] = "armed" /\ tmo' = [tmo EXCEPT ![w] = "inactive"]
    BY <1>3 DEF Expire, InThread
  <2>2. /\ tmo' \in [Works -> {"inactive", "armed"}]
        /\ \A u \in Works : tmo'[u] = IF u = w THEN "inactive" ELSE tmo[u]
    BY <1>0, <2>1
  <2>3. \A p \in Queues, u \in Works : On(p, u)' <=> On(p, u)
    BY <2>1 DEF On
  <2>4. StateOK'
    BY <1>0, <1>2, <2>1, <2>2 DEF StateOK
  <2>5. ASSUME NEW u \in Works, u # w PROVE Held(u)'
    BY <1>0, <1>1, <1>2, <2>1, <2>2, <2>3, <2>5, HeldKept
  <2>6. Held(w)'
    <3>1. w \notin raced' => Sound(w)'
      <4>1. SUFFICES ASSUME w \notin raced' PROVE Sound(w)'
        OBVIOUS
      <4>2. Sound(w)
        BY <1>0, <1>2, <4>1 DEF Held
      <4>3. ~pending[w] /\ workq[w] # Null
        BY <2>1, <4>2 DEF Sound
      <4> QED
        BY <1>2, <2>1, <2>2, <4>3 DEF Sound
    <3> QED
      BY <1>0, <1>1, <1>2, <2>1, <2>3, <3>1 DEF Held
  <2> QED
    BY <2>4, <2>5, <2>6
<1>4. CASE Timeout(w)
  <2>1. /\ calling = w /\ calling' = Null /\ tmo' = tmo
        /\ pending' = [pending EXCEPT ![w] = TRUE]
        /\ fifo' = IF pending[w] \/ workq[w] = Null THEN fifo
                   ELSE [fifo EXCEPT ![workq[w]] = Append(fifo[workq[w]], w)]
        /\ wild' = IF ~pending[w] /\ workq[w] = Null THEN wild \cup {w} ELSE wild
    BY <1>4 DEF Timeout
  <2>2. /\ fifo' \in [Queues -> Seq(Works)]
        /\ \A q \in Queues : IsInjective(fifo'[q])
        /\ \A q \in Queues, u \in Works :
             On(q, u)' <=> ((u = w /\ ~pending[w] /\ workq[w] = q) \/ On(q, u))
    <3>1. CASE pending[w] \/ workq[w] = Null
      BY <1>0, <2>1, <3>1 DEF On
    <3>2. CASE ~(pending[w] \/ workq[w] = Null)
      <4> DEFINE p == workq[w]
      <4>1. p \in Queues /\ fifo' = [fifo EXCEPT ![p] = Append(fifo[p], w)]
        BY <1>0, <2>1, <3>2
      <4>2. ~Contains(fifo[p], w)
        BY <1>0, <3>2, <4>1 DEF Held, On
      <4>3. \A q \in Queues : (~pending[w] /\ workq[w] = q) <=> q = p
        BY <3>2
      <4> HIDE DEF p
      <4> QED
        BY <1>0, <4>1, <4>2, <4>3, AppendedIs DEF On
    <3> QED
      BY <3>1, <3>2
  <2>3. /\ pending' \in [Works -> BOOLEAN]
        /\ \A u \in Works : pending'[u] = IF u = w THEN TRUE ELSE pending[u]
    BY <1>0, <2>1
  <2>4. w \notin raced => Sound(w) /\ workq[w] # Null /\ tmo[w] = "inactive"
    BY <1>0, <2>1 DEF Held, Sound
  <2>5. StateOK'
    BY <1>0, <1>2, <2>1, <2>2, <2>3, <2>4 DEF StateOK
  <2>6. ASSUME NEW u \in Works, u # w PROVE Held(u)'
    BY <1>0, <1>1, <1>2, <2>1, <2>2, <2>3, <2>6, HeldKept
  <2>7. Held(w)'
    <3>1. w \notin raced' => Sound(w)'
      <4>1. SUFFICES ASSUME w \notin raced' PROVE Sound(w)'
        OBVIOUS
      <4>2. workq'[w] \in Queues /\ tmo'[w] = "inactive" /\ calling' # w
        BY <1>0, <1>2, <2>1, <2>4, <4>1
      <4>3. On(workq[w], w)' \/ Took(workq[w], w)' \/ (w \in NoHandler /\ running'[w])
        BY <1>0, <1>1, <1>2, <2>2, <2>4, <4>1, <4>2 DEF Sound
      <4> QED
        BY <1>2, <4>2, <4>3 DEF Sound
    <3> QED
      BY <1>0, <1>1, <1>2, <2>2, <2>3, <3>1 DEF Held
  <2> QED
    BY <2>5, <2>6, <2>7
<1> QED
  BY <1>3, <1>4

\* A step of work_q_main() keeps the places of every item.
LEMMA WorkerHeld ==
  ASSUME IInv, NEW q \in Queues, Worker(q)
  PROVE  StateOK' /\ (\A u \in Works : Held(u)') /\ UNCHANGED <<sync, raced, wild, tmo, calling, workq>>
<1>0. /\ StateOK /\ \A u \in Works : Held(u)
      /\ pending \in [Works -> BOOLEAN] /\ running \in [Works -> BOOLEAN]
      /\ fifo \in [Queues -> Seq(Works)] /\ \A p \in Queues : IsInjective(fifo[p])
      /\ pc \in [Queues -> {"get", "got", "flagged", "handler", "done"}]
      /\ cur \in [Queues -> Works \cup {Null}]
      /\ \A p \in Queues : pc[p] = "get" <=> cur[p] = Null
      /\ \A p \in Queues : cur[p] \in NoHandler =>
           pc[p] = "got" \/ (pc[p] = "flagged" /\ running[cur[p]])
      /\ Null \notin Works /\ NoHandler \subseteq Works
  BY WorkAssumption DEF IInv, StateOK
<1>1. UNCHANGED <<sync, raced, wild, tmo, calling, workq>>
  BY DEF Worker, WorkerGet, WorkerFlag, WorkerNoHandler, WorkerCall, HandlerReturn, WorkerDone, workVars
<1>2. CASE WorkerGet(q)
  <2>0. PICK w \in Works : w = Head(fifo[q])
    BY <1>0, <1>2 DEF WorkerGet
  <2>1. /\ pc[q] = "get" /\ pc' = [pc EXCEPT ![q] = "got"]
        /\ fifo[q] # << >> /\ cur' = [cur EXCEPT ![q] = w]
        /\ fifo' = [fifo EXCEPT ![q] = Tail(fifo[q])]
        /\ pending' = pending /\ running' = running
    BY <1>2, <2>0 DEF WorkerGet, At
  <2>2. /\ w \in Works /\ Contains(fifo[q], w)
        /\ Tail(fifo[q]) \in Seq(Works) /\ IsInjective(Tail(fifo[q]))
        /\ \A u \in Works : Contains(Tail(fifo[q]), u) <=> (u # w /\ Contains(fifo[q], u))
    <3>1. fifo[q] \in Seq(Works) /\ IsInjective(fifo[q]) /\ fifo[q] # << >>
      BY <1>0, <2>1
    <3> QED
      BY ONLY <2>0, <3>1, TailMembers
  <2>3. /\ \A p \in Queues : fifo'[p] = IF p = q THEN Tail(fifo[q]) ELSE fifo[p]
        /\ \A p \in Queues : pc'[p] = IF p = q THEN "got" ELSE pc[p]
        /\ \A p \in Queues : cur'[p] = IF p = q THEN w ELSE cur[p]
    BY <1>0, <2>1
  <2>4. \A p \in Queues, u \in Works : On(p, u)' <=> (On(p, u) /\ ~(p = q /\ u = w))
    BY <2>2, <2>3 DEF On
  <2>5. \A p \in Queues, u \in Works : Took(p, u)' <=> (Took(p, u) \/ (p = q /\ u = w))
    BY <1>0, <2>1, <2>2, <2>3 DEF Took
  <2>6. StateOK'
    <3>1. fifo' \in [Queues -> Seq(Works)] /\ \A p \in Queues : IsInjective(fifo'[p])
      BY <1>0, <2>1, <2>2, <2>3
    <3>2. /\ pc' \in [Queues -> {"get", "got", "flagged", "handler", "done"}]
          /\ cur' \in [Queues -> Works \cup {Null}]
          /\ \A p \in Queues : pc'[p] = "get" <=> cur'[p] = Null
      BY <1>0, <2>1, <2>2, <2>3
    <3>3. \A p \in Queues : cur'[p] \in NoHandler =>
            pc'[p] = "got" \/ (pc'[p] = "flagged" /\ running'[cur'[p]])
      BY <1>0, <2>1, <2>3
    <3> QED
      BY <1>0, <1>1, <2>1, <3>1, <3>2, <3>3 DEF StateOK
  <2>7. ASSUME NEW u \in Works, u # w PROVE Held(u)'
    BY <1>0, <1>1, <2>1, <2>4, <2>5, <2>7, HeldKept
  <2>8. Held(w)'
    <3>1. On(q, w) /\ Held(w)
      BY <1>0, <2>2 DEF On
    <3>2. pending[w] /\ workq[w] = q /\ \A p \in Queues : ~Took(p, w)
      BY <3>1 DEF Held
    <3>3. \A p \in Queues : ~On(p, w)'
      BY <2>2, <2>4, <3>1, <3>2 DEF Held
    <3>4. w \notin raced' => Sound(w)'
      BY <1>1, <2>1, <2>2, <2>5, <3>1, <3>2 DEF Held, Sound
    <3> QED
      BY <1>1, <2>1, <2>2, <2>5, <3>2, <3>3, <3>4 DEF Held
  <2> QED
    BY <1>1, <2>6, <2>7, <2>8
<1>4. CASE WorkerFlag(q) \/ HandlerReturn(q) \/ WorkerDone(q)
  <2>0. /\ \A p \in Queues \ {q} : pc'[p] = pc[p]
        /\ pc' \in [Queues -> {"get", "got", "flagged", "handler", "done"}]
        /\ \/ pc[q] = "got" /\ pc'[q] = "flagged" /\ cur' = cur
           \/ pc[q] = "handler" /\ pc'[q] = "done" /\ cur' = cur
           \/ pc[q] = "done" /\ pc'[q] = "get" /\ cur' = [cur EXCEPT ![q] = Null]
    <3>1. CASE WorkerFlag(q)
      BY <1>0, <3>1 DEF WorkerFlag, At
    <3>2. CASE HandlerReturn(q)
      BY <1>0, <3>2 DEF HandlerReturn, At
    <3>3. CASE WorkerDone(q)
      BY <1>0, <3>3 DEF WorkerDone, At
    <3> QED
      BY <1>4, <3>1, <3>2, <3>3
  <2>1. /\ UNCHANGED <<pending, fifo>>
        /\ running' = running \/ \E b \in BOOLEAN : running' = [running EXCEPT ![cur[q]] = b]
    BY <1>4 DEF WorkerFlag, HandlerReturn, WorkerDone, workVars
  <2>2. /\ \A p \in Queues \ {q} : cur'[p] = cur[p]
        /\ cur'[q] = IF pc[q] = "done" THEN Null ELSE cur[q]
        /\ cur' \in [Queues -> Works \cup {Null}]
    BY <1>0, <2>0, SMTT(40)
  <2>3. running' \in [Works -> BOOLEAN]
    <3>1. cur[q] \in Works
      BY <1>0, <2>0
    <3> QED
      BY <1>0, <2>1, <3>1
  <2>a. \A u \in NoHandler : running[u] => running'[u]
    <3>1. CASE WorkerFlag(q)
      BY <1>0, <2>0, <3>1 DEF WorkerFlag
    <3>2. CASE HandlerReturn(q)
      BY <3>2 DEF HandlerReturn, workVars
    <3>3. CASE WorkerDone(q)
      <4>1. pc[q] = "done" /\ cur[q] \notin NoHandler
        BY <1>0, <3>3 DEF WorkerDone, At
      <4> QED
        BY <1>0, <3>3, <4>1 DEF WorkerDone
    <3> QED
      BY <1>4, <3>1, <3>2, <3>3
  <2>4. \A p \in Queues, u \in Works : Took(p, u)' <=> Took(p, u)
    BY <1>0, <2>0, <2>2 DEF Took
  <2>5. \A p \in Queues, u \in Works : On(p, u)' <=> On(p, u)
    BY <2>1 DEF On
  <2>6. StateOK'
    <3>1. \A p \in Queues : pc'[p] = "get" <=> cur'[p] = Null
      BY <1>0, <2>0, <2>2
    <3>2. ASSUME NEW p \in Queues, cur'[p] \in NoHandler
          PROVE  pc'[p] = "got" \/ (pc'[p] = "flagged" /\ running'[cur'[p]])
      <4>1. CASE p # q
        BY <1>0, <2>0, <2>2, <2>a, <3>2, <4>1
      <4>2. CASE p = q
        <5>1. cur[q] \in NoHandler /\ pc[q] = "got" /\ pc'[q] = "flagged" /\ cur'[q] = cur[q]
          BY <1>0, <2>0, <2>2, <3>2, <4>2
        <5>2. WorkerFlag(q)
          BY <1>4, <5>1 DEF HandlerReturn, WorkerDone, At
        <5> QED
          BY <1>0, <4>2, <5>1, <5>2 DEF WorkerFlag
      <4> QED
        BY <4>1, <4>2
    <3> QED
      BY <1>0, <1>1, <2>0, <2>1, <2>2, <2>3, <3>1, <3>2 DEF StateOK
  <2>7. \A u \in Works : Held(u)'
    BY <1>0, <1>1, <2>1, <2>4, <2>5, <2>a, HeldKept
  <2> QED
    BY <1>1, <2>6, <2>7
<1>5. CASE WorkerCall(q)
  <2>0. PICK w \in Works : w = cur[q]
    BY <1>0, <1>5 DEF WorkerCall, At
  <2>1. /\ w \notin NoHandler /\ pc[q] = "flagged" /\ pc' = [pc EXCEPT ![q] = IF pending[w] THEN "handler" ELSE "done"]
        /\ pending' = [pending EXCEPT ![w] = FALSE]
        /\ UNCHANGED <<running, fifo, cur>>
    BY <1>5, <2>0 DEF WorkerCall, At
  <2>2. Took(q, w)
    BY <2>0, <2>1 DEF Took
  <2>3. /\ \A p \in Queues : pc'[p] = IF p = q THEN (IF pending[w] THEN "handler" ELSE "done") ELSE pc[p]
        /\ \A u \in Works : pending'[u] = IF u = w THEN FALSE ELSE pending[u]
        /\ pc' \in [Queues -> {"get", "got", "flagged", "handler", "done"}]
        /\ pending' \in [Works -> BOOLEAN]
    BY <1>0, <2>1, <2>2
  <2>4. \A p \in Queues, u \in Works : Took(p, u)' <=> (Took(p, u) /\ p # q)
    BY <2>1, <2>3 DEF Took
  <2>5. \A p \in Queues, u \in Works : On(p, u)' <=> On(p, u)
    BY <2>1 DEF On
  <2>6. \A u \in Works \ {w} : ~Took(q, u)
    BY <2>0 DEF Took
  <2>7. StateOK'
    <3>1. \A p \in Queues : pc'[p] = "get" <=> cur'[p] = Null
      BY <1>0, <2>1, <2>3
    <3>2. \A p \in Queues : cur'[p] \in NoHandler =>
            pc'[p] = "got" \/ (pc'[p] = "flagged" /\ running'[cur'[p]])
      BY <1>0, <2>0, <2>1, <2>3
    <3> QED
      BY <1>0, <1>1, <2>1, <2>3, <3>1, <3>2 DEF StateOK
  <2>8. ASSUME NEW u \in Works, u # w PROVE Held(u)'
    <3>1. Held(u) /\ pending'[u] = pending[u] /\ running' = running
      BY <1>0, <2>1, <2>3, <2>8
    <3>2. \A p \in Queues : (On(p, u)' <=> On(p, u)) /\ (Took(p, u)' <=> Took(p, u))
      BY <2>4, <2>5, <2>6, <2>8
    <3> QED
      BY <1>1, <3>1, <3>2, HeldKept
  <2>9. Held(w)'
    <3>1. Held(w) /\ workq[w] = q /\ pending[w]
      BY <1>0, <2>2 DEF Held
    <3>2. \A p \in Queues : ~On(p, w)' /\ ~Took(p, w)'
      BY <2>2, <2>4, <2>5, <3>1 DEF Held
    <3>3. w \notin raced' => Sound(w)'
      BY <1>1, <2>3, <3>1 DEF Held, Sound
    <3> QED
      BY <3>2, <3>3 DEF Held
  <2> QED
    BY <1>1, <2>7, <2>8, <2>9
<1>6. CASE WorkerNoHandler(q)
  <2>0. PICK w \in Works : w = cur[q]
    BY <1>0, <1>6 DEF WorkerNoHandler
  <2>1. /\ w \in NoHandler /\ pc[q] = "flagged" /\ pc' = [pc EXCEPT ![q] = "get"]
        /\ cur' = [cur EXCEPT ![q] = Null] /\ running[w]
        /\ UNCHANGED <<pending, running, fifo>>
    BY <1>0, <1>6, <2>0 DEF WorkerNoHandler, At, workVars
  <2>2. /\ \A p \in Queues : pc'[p] = IF p = q THEN "get" ELSE pc[p]
        /\ \A p \in Queues : cur'[p] = IF p = q THEN Null ELSE cur[p]
        /\ pc' \in [Queues -> {"get", "got", "flagged", "handler", "done"}]
        /\ cur' \in [Queues -> Works \cup {Null}]
    BY <1>0, <2>1
  <2>3. \A p \in Queues, u \in Works : Took(p, u)' <=> (Took(p, u) /\ p # q)
    BY <2>2 DEF Took
  <2>4. \A p \in Queues, u \in Works : On(p, u)' <=> On(p, u)
    BY <2>1 DEF On
  <2>5. StateOK'
    <3>1. \A p \in Queues : cur'[p] \in NoHandler =>
            pc'[p] = "got" \/ (pc'[p] = "flagged" /\ running'[cur'[p]])
      BY <1>0, <2>1, <2>2
    <3> QED
      BY <1>0, <1>1, <2>1, <2>2, <3>1 DEF StateOK
  <2>6. \A u \in Works \ {w} : ~Took(q, u)
    BY <2>0 DEF Took
  <2>7. ASSUME NEW u \in Works, u # w PROVE Held(u)'
    BY <1>0, <1>1, <2>1, <2>3, <2>4, <2>6, <2>7, HeldKept
  <2>8. Held(w)'
    <3>1. w \notin raced' => Sound(w)'
      BY <1>0, <1>1, <2>1 DEF Held, Sound
    <3> QED
      BY <1>0, <1>1, <2>1, <2>3, <2>4, <3>1 DEF Held
  <2> QED
    BY <1>1, <2>5, <2>7, <2>8
<1> QED
  BY <1>2, <1>4, <1>5, <1>6 DEF Worker

-----------------------------------------------------------------------------
\* Every step keeps the records of the calls of k_delayed_work_cancel_sync()
\* well-formed.
LEMMA NextSyncType ==
  ASSUME IInv, Next
  PROVE  SyncType'
<1> DEFINE Call == [at : {"idle", "cancel", "check"}, work : Works \cup {Null},
                    err : {"none", "OK", "EINVAL", "EBUSY"}, by : {"nobody", "handler", "others"}]
<1>0. sync \in [Cancellers -> Call] /\ NoSync \in Call
  BY DEF IInv, SyncType, NoSync
<1>1. ASSUME NEW c \in Cancellers, NEW r \in Call, sync' = [sync EXCEPT ![c] = r]
      PROVE  SyncType'
  BY <1>0, <1>1 DEF SyncType
<1>2. ASSUME NEW who \in {"handler", "others"}, NEW w \in Works, SubmittedBy(who, w)
      PROVE  SyncType'
  <2>1. \A c \in Cancellers : [sync[c] EXCEPT !.by = who] \in Call
    <3>1. ASSUME NEW c \in Cancellers PROVE [sync[c] EXCEPT !.by = who] \in Call
      <4>1. sync[c] \in Call
        BY <1>0
      <4> QED
        BY <4>1
    <3> QED
      BY <3>1
  <2> HIDE DEF Call
  <2>2. sync' \in [Cancellers -> Call]
    BY <1>0, <1>2, <2>1 DEF SubmittedBy
  <2> QED
    BY <2>2 DEF SyncType, Call
<1>3. ASSUME NEW w \in Works, NEW q \in Queues, NEW delay \in {0, 1}, Submit(w, q, delay)
      PROVE  SyncType'
  BY <1>2, <1>3 DEF Submit
<1>4. ASSUME NEW w \in Works, Cancel(w) \/ Expire(w) \/ Timeout(w)
      PROVE  SyncType'
  BY <1>0, <1>4 DEF Cancel, Expire, Timeout, SyncType
<1>5. ASSUME NEW q \in Queues, Worker(q)
      PROVE  SyncType'
  BY <1>0, <1>5, WorkerHeld DEF SyncType
<1>6. ASSUME NEW q \in Queues, NEW delay \in {0, 1}, HandlerSubmit(q, delay)
      PROVE  SyncType'
  <2>1. cur[q] \in Works
    BY <1>6 DEF IInv, StateOK, HandlerSubmit
  <2> QED
    BY <1>2, <1>6, <2>1 DEF HandlerSubmit
<1>7. ASSUME NEW c \in Cancellers, NEW w \in Works, SyncStart(c, w)
      PROVE  SyncType'
  <2>1. [NoSync EXCEPT !.at = "cancel", !.work = w] \in Call
    BY DEF NoSync
  <2> HIDE DEF Call
  <2> QED
    BY <1>1, <1>7, <2>1 DEF SyncStart
<1>8. ASSUME NEW c \in Cancellers, SyncCancel(c)
      PROVE  SyncType'
  <2>1. CancelErr(sync[c].work) \in {"OK", "EINVAL", "EBUSY"}
    BY DEF CancelErr
  <2>2. sync[c] \in Call /\ sync' = [sync EXCEPT ![c].at = "check", ![c].err = CancelErr(sync[c].work)]
    BY <1>0, <1>8 DEF SyncCancel
  <2>3. [[sync[c] EXCEPT !.at = "check"] EXCEPT !.err = CancelErr(sync[c].work)] \in Call
    BY <2>1, <2>2
  <2>4. sync' = [sync EXCEPT ![c] = [[sync[c] EXCEPT !.at = "check"] EXCEPT !.err = CancelErr(sync[c].work)]]
    BY <1>0, <2>2
  <2> HIDE DEF Call
  <2> QED
    BY <1>1, <2>3, <2>4
<1>9. ASSUME NEW c \in Cancellers, SyncReturn(c) \/ SyncRetry(c)
      PROVE  SyncType'
  <2>1. sync[c] \in Call
    BY <1>0
  <2>2. [sync[c] EXCEPT !.at = "cancel"] \in Call
    BY <2>1
  <2> HIDE DEF Call
  <2> QED
    BY <1>0, <1>1, <1>9, <2>2 DEF SyncReturn, SyncRetry
<1> QED
  BY <1>3, <1>4, <1>5, <1>6, <1>7, <1>8, <1>9 DEF Next

\* A call of k_delayed_work_cancel_sync() that is under way has an item.
CallsHaveItem == \A c \in Cancellers : sync[c].at # "idle" => sync[c].work \in Works

\* Every step keeps it so.
LEMMA NextCallsHaveItem ==
  ASSUME IInv, CallsHaveItem, Next
  PROVE  CallsHaveItem'
<1>0. SyncType
  BY DEF IInv
<1>1. ASSUME NEW who, NEW w, SubmittedBy(who, w)
      PROVE  CallsHaveItem'
  BY <1>0, <1>1 DEF SubmittedBy, SyncType, CallsHaveItem
<1>2. ASSUME NEW w \in Works, NEW q \in Queues, NEW delay \in {0, 1}, Submit(w, q, delay)
      PROVE  CallsHaveItem'
  BY <1>1, <1>2 DEF Submit
<1>3. ASSUME NEW w \in Works, Cancel(w) \/ Expire(w) \/ Timeout(w)
      PROVE  CallsHaveItem'
  BY <1>3 DEF Cancel, Expire, Timeout, CallsHaveItem
<1>4. ASSUME NEW q \in Queues, Worker(q)
      PROVE  CallsHaveItem'
  BY <1>4, WorkerHeld DEF CallsHaveItem
<1>5. ASSUME NEW q \in Queues, NEW delay \in {0, 1}, HandlerSubmit(q, delay)
      PROVE  CallsHaveItem'
  BY <1>1, <1>5 DEF HandlerSubmit
<1>6. ASSUME NEW c \in Cancellers, NEW w \in Works, SyncStart(c, w)
      PROVE  CallsHaveItem'
  BY <1>0, <1>6 DEF SyncStart, SyncType, CallsHaveItem, NoSync
<1>7. ASSUME NEW c \in Cancellers, SyncCancel(c)
      PROVE  CallsHaveItem'
  BY <1>0, <1>7 DEF SyncCancel, SyncType, CallsHaveItem
<1>8. ASSUME NEW c \in Cancellers, SyncReturn(c) \/ SyncRetry(c)
      PROVE  CallsHaveItem'
  BY <1>0, <1>8 DEF SyncReturn, SyncRetry, SyncType, CallsHaveItem, NoSync
<1> QED
  BY <1>2, <1>3, <1>4, <1>5, <1>6, <1>7, <1>8 DEF Next

\* Every step keeps the places of every item.
LEMMA NextHeld ==
  ASSUME IInv, CallsHaveItem, Next
  PROVE  StateOK' /\ \A u \in Works : Held(u)'
<1>0. StateOK /\ (\A u \in Works : Held(u)) /\ raced \subseteq Works /\ Null \notin Works
  BY WorkAssumption DEF IInv, StateOK
<1>1. ASSUME NEW w \in Works, NEW q \in Queues, NEW delay \in {0, 1}, Submit(w, q, delay)
      PROVE  StateOK' /\ \A u \in Works : Held(u)'
  <2>1. raced' = raced \/ (raced' = raced \cup {w})
    BY <1>1 DEF Submit, Races
  <2>2. delay # 0 /\ calling = w => w \in raced'
    BY <1>1 DEF Submit, Races
  <2> QED
    BY <1>0, <1>1, <2>1, <2>2, SubmittedHeld DEF Submit
<1>2. ASSUME NEW w \in Works, Cancel(w)
      PROVE  StateOK' /\ \A u \in Works : Held(u)'
  <2>1. (raced' = raced \/ raced' = raced \cup {w}) /\ (calling = w => w \in raced')
    BY <1>2 DEF Cancel, Races
  <2> QED
    BY <1>0, <1>2, <2>1, CancelledHeld DEF Cancel
<1>3. ASSUME NEW q \in Queues, NEW delay \in {0, 1}, HandlerSubmit(q, delay)
      PROVE  StateOK' /\ \A u \in Works : Held(u)'
  <2>1. cur[q] \in Works
    BY <1>3 DEF IInv, StateOK, HandlerSubmit
  <2> QED
    BY <1>0, <1>3, <2>1, SubmittedHeld DEF HandlerSubmit, InThread
<1>4. ASSUME NEW c \in Cancellers, SyncCancel(c)
      PROVE  StateOK' /\ \A u \in Works : Held(u)'
  <2>1. sync[c].work \in Works
    BY <1>4 DEF SyncCancel, CallsHaveItem
  <2> QED
    BY <1>0, <1>4, <2>1, CancelledHeld DEF SyncCancel, InThread
<1>5. ASSUME UNCHANGED <<workVars, pc, cur, raced, wild>>
      PROVE  StateOK' /\ \A u \in Works : Held(u)'
  BY <1>0, <1>5 DEF workVars, StateOK, Held, Sound, On, Took
<1>6. ASSUME NEW c \in Cancellers,
             SyncReturn(c) \/ SyncRetry(c) \/ \E w \in Works : SyncStart(c, w)
      PROVE  StateOK' /\ \A u \in Works : Held(u)'
  BY <1>5, <1>6 DEF SyncReturn, SyncRetry, SyncStart
<1> QED
  BY <1>1, <1>2, <1>3, <1>4, <1>6, ClockHeld, WorkerHeld DEF Next

\* k_delayed_work_init() and k_work_q_start() establish the invariant.
LEMMA InitIInv == Init => IInv /\ CallsHaveItem
<1> SUFFICES ASSUME Init PROVE IInv /\ CallsHaveItem
  OBVIOUS
<1>1. StateOK
  <2>1. \A q \in Queues : fifo[q] = << >>
    BY DEF Init
  <2>2. fifo \in [Queues -> Seq(Works)] /\ \A q \in Queues : IsInjective(fifo[q])
    BY <2>1, EmptySeq DEF Init, IsInjective
  <2> QED
    BY <2>2, WorkAssumption DEF Init, StateOK
<1>2. SyncType /\ CallsHaveItem
  BY DEF Init, SyncType, CallsHaveItem, NoSync
<1>3. \A w \in Works : Held(w)
  BY WorkAssumption DEF Init, Held, Sound, On, Took, Contains
<1> QED
  BY <1>1, <1>2, <1>3 DEF IInv, Init

\* Every step preserves it.
LEMMA NextIInv == IInv /\ CallsHaveItem /\ [Next]_vars => IInv' /\ CallsHaveItem'
<1> SUFFICES ASSUME IInv, CallsHaveItem, [Next]_vars PROVE IInv' /\ CallsHaveItem'
  OBVIOUS
<1>1. CASE Next
  BY <1>1, NextHeld, NextSyncType, NextCallsHaveItem DEF IInv
<1>2. CASE UNCHANGED vars
  BY <1>2 DEF IInv, CallsHaveItem, vars, workVars, StateOK, SyncType, Held, Sound, On, Took
<1> QED
  BY <1>1, <1>2

\* The inductive invariant holds of every behaviour.
LEMMA SpecIInv == Spec => [](IInv /\ CallsHaveItem)
BY InitIInv, NextIInv, PTL DEF Spec

\* The flag PENDING, the lists and the countdown agree, for any number of items
\* and queues, with interrupts that nest in the clock's and with items that have
\* no handler.
THEOREM WorkPendingIsHeld == Spec => []PendingIsHeld
<1>1. ASSUME IInv PROVE PendingIsHeld
  <2>0. StateOK /\ SyncType /\ \A w \in Works : Held(w)
    BY <1>1 DEF IInv
  <2>1. TypeOK
    <3>1. wild \subseteq Works
      BY <2>0 DEF StateOK
    <3> QED
      BY ONLY <2>0, <3>1, Zenon DEF TypeOK, StateOK, SyncType
  <2>2. ASSUME NEW w \in Works
        PROVE  /\ Listed(w) \cup Taken(w) \subseteq IF pending[w] THEN {workq[w]} ELSE {}
               /\ Listed(w) \cap Taken(w) = {}
               /\ w \notin raced =>
                    /\ pending[w] => /\ \/ Listed(w) \cup Taken(w) # {}
                                        \/ w \in NoHandler /\ running[w]
                                     /\ tmo[w] = "inactive"
                    /\ pending[w] \/ tmo[w] = "armed" \/ calling = w => workq[w] # Null
    <3>1. Held(w) /\ pending[w] \in BOOLEAN /\ Null \notin Queues
      BY <2>0, WorkAssumption DEF StateOK
    <3>2. \A q \in Queues : q \in Listed(w) \cup Taken(w) <=> On(q, w) \/ Took(q, w)
      BY DEF Listed, Taken, Holders, On, Took
    <3>3. Listed(w) \subseteq Queues /\ Taken(w) \subseteq Queues
      BY DEF Listed, Taken, Holders
    <3>4. Listed(w) \cup Taken(w) \subseteq IF pending[w] THEN {workq[w]} ELSE {}
      BY <3>1, <3>2, <3>3 DEF Held
    <3>5. Listed(w) \cap Taken(w) = {}
      BY <3>1 DEF Held, Listed, Taken, Holders, On, Took
    <3>6. ASSUME w \notin raced, pending[w]
          PROVE  /\ Listed(w) \cup Taken(w) # {} \/ (w \in NoHandler /\ running[w])
                 /\ tmo[w] = "inactive"
      BY <3>1, <3>2, <3>6 DEF Held, Sound
    <3>7. w \notin raced /\ (pending[w] \/ tmo[w] = "armed" \/ calling = w) => workq[w] # Null
      BY <3>1 DEF Held, Sound
    <3> QED
      BY <3>4, <3>5, <3>6, <3>7
  <2> QED
    BY <2>1, <2>2 DEF PendingIsHeld
<1>2. IInv => PendingIsHeld
  BY <1>1
<1> QED
  BY <1>2, SpecIInv, PTL

\* work_timeout() finds the queue of its item and no timeout is linked twice,
\* except for an item that an interrupt cancelled or started again while its
\* timeout was being called; interrupts may nest in the clock's at any time.
THEOREM WorkNeverNullQueue == Spec => []NeverNullQueue
<1>1. IInv => NeverNullQueue
  BY DEF IInv, StateOK, NeverNullQueue
<1> QED
  BY <1>1, SpecIInv, PTL

-----------------------------------------------------------------------------
(* k_delayed_work_cancel_sync() *)

\* Nothing is left of w but a handler that may still run.
Settled(w) == ~pending[w] /\ tmo[w] = "inactive" /\ calling # w /\ workq[w] = Null

\* A cancellation that succeeded, or found nothing to cancel, holds until
\* somebody submits the item, if nobody changed it under the call of its timeout.
Cleared(s, w) == s.at = "check" /\ s.err # "EBUSY" /\ s.by = "nobody" /\ s.work = w
SyncInv == \A c \in Cancellers, w \in Works : Cleared(sync[c], w) /\ w \notin raced => Settled(w)

\* The flag RUNNING is set while a thread is between setting and clearing it.
RunInv == \A q \in Queues : pc[q] \in {"flagged", "handler", "done"} => running[cur[q]]

\* A cancellation settles the item unless it returns -EBUSY, and leaves the
\* others alone.
LEMMA CancelledSettles ==
  ASSUME IInv, NEW w \in Works, Cancelled(w), calling' = calling
  PROVE  /\ \A u \in Works : Settled(u) => Settled(u)'
         /\ CancelErr(w) # "EBUSY" /\ calling # w /\ w \notin raced => Settled(w)'
<1>0. /\ StateOK /\ Held(w)
      /\ pending \in [Works -> BOOLEAN] /\ workq \in [Works -> Queues \cup {Null}]
      /\ tmo \in [Works -> {"inactive", "armed"}]
  BY DEF IInv, StateOK
<1>1. CASE CancelErr(w) = "OK"
  <2>1. /\ tmo' = Aborted(w)
        /\ workq' = [workq EXCEPT ![w] = Null]
        /\ pending' = [pending EXCEPT ![w] = FALSE]
    BY <1>1 DEF Cancelled
  <2>2. /\ \A u \in Works \ {w} : tmo'[u] = tmo[u]
        /\ w \notin raced => tmo'[w] = "inactive"
    BY <1>0, <2>1, AbortedIs, SoundAborted
  <2>3. workq[w] # Null
    BY <1>0, <1>1, CancelErrIs
  <2>4. ~pending'[w] /\ workq'[w] = Null
    BY <1>0, <2>1
  <2>5. \A u \in Works \ {w} : pending'[u] = pending[u] /\ workq'[u] = workq[u]
    BY <1>0, <2>1
  <2> QED
    BY <2>2, <2>3, <2>4, <2>5 DEF Settled
<1>2. CASE CancelErr(w) # "OK"
  <2>1. UNCHANGED <<pending, workq, tmo, fifo>>
    BY <1>2 DEF Cancelled
  <2>2. CancelErr(w) # "EBUSY" => workq[w] = Null
    BY <1>0, <1>2, CancelErrIs
  <2>3. workq[w] = Null /\ w \notin raced => ~pending[w] /\ tmo[w] = "inactive"
    BY <1>0, WorkAssumption DEF Held, Sound
  <2> QED
    BY <2>1, <2>2, <2>3 DEF Settled
<1> QED
  BY <1>1, <1>2

\* A submission leaves the other items alone.
LEMMA SubmittedOthers ==
  ASSUME IInv, NEW w \in Works, NEW q, NEW delay, Submitted(w, q, delay),
         calling' = calling, NEW u \in Works, u # w, Settled(u)
  PROVE  Settled(u)'
<1>0. /\ StateOK
      /\ pending \in [Works -> BOOLEAN] /\ workq \in [Works -> Queues \cup {Null}]
      /\ tmo \in [Works -> {"inactive", "armed"}]
  BY DEF IInv, StateOK
<1>1. workq'[u] = workq[u] /\ pending'[u] = pending[u]
  BY <1>0 DEF Submitted
<1>2. Aborted(w)[u] = tmo[u]
  BY <1>0, AbortedIs
<1>3. tmo'[u] = tmo[u]
  BY <1>0, <1>2 DEF Submitted
<1> QED
  BY <1>1, <1>3 DEF Settled

\* Every step keeps what the calls of k_delayed_work_cancel_sync() rely on.
LEMMA NextSyncInv ==
  ASSUME IInv, CallsHaveItem, SyncInv, Next
  PROVE  SyncInv'
<1>0. /\ SyncType /\ StateOK
      /\ \A c \in Cancellers :
           sync[c] \in [at : {"idle", "cancel", "check"}, work : Works \cup {Null},
                        err : {"none", "OK", "EINVAL", "EBUSY"}, by : {"nobody", "handler", "others"}]
  BY DEF IInv, SyncType
<1>b. raced \subseteq raced'
  BY DEF Next, Submit, Cancel, Races, Expire, Timeout, Worker, WorkerGet, WorkerFlag,
         WorkerNoHandler, WorkerCall, HandlerReturn, WorkerDone, HandlerSubmit, SyncStart,
         SyncCancel, SyncReturn, SyncRetry
<1>a. ASSUME \A u \in Works : Settled(u) => Settled(u)',
             \A c \in Cancellers, u \in Works :
               Cleared(sync'[c], u) => Cleared(sync[c], u) \/ u \in raced \/ Settled(u)'
      PROVE  SyncInv'
  BY <1>a, <1>b DEF SyncInv
<1>1. ASSUME sync' = sync, \A u \in Works : Settled(u) => Settled(u)'
      PROVE  SyncInv'
  BY <1>1, <1>a
<1>2. ASSUME NEW who \in {"handler", "others"}, NEW w \in Works, SubmittedBy(who, w),
             \A u \in Works \ {w} : Settled(u) => Settled(u)'
      PROVE  SyncInv'
  <2>1. ASSUME NEW c \in Cancellers, NEW u \in Works, Cleared(sync'[c], u)
        PROVE  Cleared(sync[c], u) /\ u # w
    <3>1. sync'[c] = IF sync[c].work = w /\ sync[c].by # "others" THEN [sync[c] EXCEPT !.by = who]
                                                                  ELSE sync[c]
      BY <1>2 DEF SubmittedBy
    <3> QED
      BY <1>0, <1>2, <2>1, <3>1 DEF Cleared
  <2> QED
    BY <1>2, <1>b, <2>1 DEF SyncInv
<1>3. ASSUME NEW w \in Works, NEW q \in Queues, NEW delay \in {0, 1}, Submit(w, q, delay)
      PROVE  SyncInv'
  BY <1>2, <1>3, SubmittedOthers DEF Submit
<1>4. ASSUME NEW w \in Works, Cancel(w)
      PROVE  SyncInv'
  BY <1>1, <1>4, CancelledSettles DEF Cancel
<1>5. ASSUME NEW w \in Works, Expire(w) \/ Timeout(w)
      PROVE  SyncInv'
  <2>1. sync' = sync /\ workq' = workq
    BY <1>5 DEF Expire, Timeout
  <2>2. ASSUME NEW u \in Works, Settled(u) PROVE Settled(u)'
    <3>1. u # w
      BY <1>5, <2>2 DEF Expire, Timeout, Settled
    <3>2. tmo'[u] = tmo[u] /\ pending'[u] = pending[u] /\ calling' # u
      BY <1>0, <1>5, <3>1, WorkAssumption DEF Expire, Timeout, StateOK
    <3> QED
      BY <2>1, <2>2, <3>2 DEF Settled
  <2> QED
    BY <1>1, <2>1, <2>2
<1>6. ASSUME NEW q \in Queues, Worker(q)
      PROVE  SyncInv'
  <2>1. UNCHANGED <<sync, tmo, calling, workq>>
    BY <1>6, WorkerHeld
  <2>2. pending' = pending \/ pending' = [pending EXCEPT ![cur[q]] = FALSE]
    BY <1>6 DEF Worker, WorkerGet, WorkerFlag, WorkerNoHandler, WorkerCall, HandlerReturn,
                WorkerDone, workVars
  <2>3. \A u \in Works : pending'[u] => pending[u]
    BY <1>0, <2>2 DEF StateOK
  <2> QED
    BY <1>1, <2>1, <2>3 DEF Settled
<1>7. ASSUME NEW q \in Queues, NEW delay \in {0, 1}, HandlerSubmit(q, delay)
      PROVE  SyncInv'
  <2>1. PICK w \in Works : w = cur[q]
    BY <1>7 DEF IInv, StateOK, HandlerSubmit
  <2>2. Submitted(w, q, delay) /\ SubmittedBy("handler", w) /\ calling' = calling
    BY <1>7, <2>1 DEF HandlerSubmit
  <2> QED
    BY <1>2, <2>2, SubmittedOthers
<1>8. ASSUME NEW c \in Cancellers, SyncCancel(c)
      PROVE  SyncInv'
  <2>1. PICK w \in Works : w = sync[c].work
    BY <1>8 DEF SyncCancel, CallsHaveItem
  <2>2. /\ Cancelled(w) /\ calling # w /\ calling' = calling
        /\ sync' = [sync EXCEPT ![c].at = "check", ![c].err = CancelErr(w)]
    BY <1>8, <2>1, WorkAssumption DEF SyncCancel, InThread
  <2>3. /\ \A u \in Works : Settled(u) => Settled(u)'
        /\ CancelErr(w) # "EBUSY" => w \in raced \/ Settled(w)'
    BY <2>2, CancelledSettles
  <2>4. /\ \A d \in Cancellers \ {c} : sync'[d] = sync[d]
        /\ sync'[c].work = w /\ sync'[c].err = CancelErr(w)
    BY <1>0, <2>1, <2>2 DEF SyncType
  <2>5. ASSUME NEW d \in Cancellers, NEW u \in Works, Cleared(sync'[d], u)
        PROVE  Cleared(sync[d], u) \/ u \in raced \/ Settled(u)'
    <3>1. CASE d = c
      BY <2>3, <2>4, <2>5, <3>1 DEF Cleared
    <3>2. CASE d # c
      BY <2>4, <2>5, <3>2
    <3> QED
      BY <3>1, <3>2
  <2> QED
    BY <1>a, <2>3, <2>5
<1>9. ASSUME NEW c \in Cancellers, SyncReturn(c) \/ SyncRetry(c) \/ \E w \in Works : SyncStart(c, w)
      PROVE  SyncInv'
  <2>1. /\ \A d \in Cancellers \ {c} : sync'[d] = sync[d]
        /\ sync'[c].at # "check"
    <3>1. CASE SyncReturn(c)
      BY <1>0, <3>1 DEF SyncReturn, NoSync, SyncType
    <3>2. CASE SyncRetry(c)
      <4>1. PICK then \in {[sync[c] EXCEPT !.at = "cancel"], NoSync} : sync' = [sync EXCEPT ![c] = then]
        BY <3>2 DEF SyncRetry
      <4>2. then.at # "check"
        BY <1>0, <4>1 DEF NoSync
      <4> QED
        BY <1>0, <4>1, <4>2 DEF SyncType
    <3>3. ASSUME NEW w \in Works, SyncStart(c, w)
          PROVE  /\ \A d \in Cancellers \ {c} : sync'[d] = sync[d]
                 /\ sync'[c].at # "check"
      BY <1>0, <3>3 DEF SyncStart, NoSync, SyncType
    <3> QED
      BY <1>9, <3>1, <3>2, <3>3
  <2>2. \A u \in Works : Settled(u) => Settled(u)'
    BY <1>9 DEF SyncReturn, SyncRetry, SyncStart, workVars, Settled
  <2>3. \A d \in Cancellers, u \in Works : Cleared(sync'[d], u) => Cleared(sync[d], u)
    BY <2>1 DEF Cleared
  <2> QED
    BY <1>a, <2>2, <2>3
<1> QED
  BY <1>3, <1>4, <1>5, <1>6, <1>7, <1>8, <1>9 DEF Next

\* With one queue, the flag RUNNING is not cleared by anybody else.
LEMMA NextRunInv ==
  ASSUME \A p, q \in Queues : p = q, IInv, RunInv, Next
  PROVE  RunInv'
<1>0. /\ running \in [Works -> BOOLEAN]
      /\ pc \in [Queues -> {"get", "got", "flagged", "handler", "done"}]
      /\ cur \in [Queues -> Works \cup {Null}]
      /\ \A q \in Queues : pc[q] = "get" <=> cur[q] = Null
      /\ Null \notin Works
  BY WorkAssumption DEF IInv, StateOK
<1>1. ASSUME UNCHANGED <<running, pc, cur>> PROVE RunInv'
  BY <1>1 DEF RunInv
<1>2. ASSUME NEW q \in Queues, Worker(q) PROVE RunInv'
  <2> SUFFICES ASSUME pc'[q] \in {"flagged", "handler", "done"} PROVE running'[cur'[q]]
    BY DEF RunInv
  <2>1. CASE WorkerGet(q)
    BY <1>0, <2>1 DEF WorkerGet, At
  <2>2. CASE WorkerFlag(q)
    <3>1. cur[q] \in Works /\ cur' = cur /\ running' = [running EXCEPT ![cur[q]] = TRUE]
      BY <1>0, <2>2 DEF WorkerFlag, At
    <3> QED
      BY <1>0, <3>1
  <2>5. CASE WorkerNoHandler(q)
    BY <1>0, <2>5 DEF WorkerNoHandler, At
  <2>3. CASE WorkerCall(q) \/ HandlerReturn(q)
    BY <1>0, <2>3 DEF WorkerCall, HandlerReturn, At, RunInv, workVars
  <2>4. CASE WorkerDone(q)
    BY <1>0, <2>4 DEF WorkerDone, At
  <2> QED
    BY <1>2, <2>1, <2>2, <2>3, <2>4, <2>5 DEF Worker
<1>3. ASSUME NEW w \in Works,
             Cancel(w) \/ Expire(w) \/ Timeout(w)
               \/ \E q \in Queues, delay \in {0, 1} : Submit(w, q, delay)
      PROVE  RunInv'
  BY <1>1, <1>3 DEF Cancel, Expire, Timeout, Submit
<1>4. ASSUME NEW q \in Queues, NEW delay, HandlerSubmit(q, delay) PROVE RunInv'
  BY <1>1, <1>4 DEF HandlerSubmit
<1>5. ASSUME NEW c \in Cancellers,
             SyncCancel(c) \/ SyncReturn(c) \/ SyncRetry(c) \/ \E w \in Works : SyncStart(c, w)
      PROVE  RunInv'
  BY <1>1, <1>5 DEF SyncCancel, SyncReturn, SyncRetry, SyncStart, workVars
<1> QED
  BY <1>2, <1>3, <1>4, <1>5 DEF Next

\* When k_delayed_work_cancel_sync() returns 0 the item is at rest, unless
\* somebody submitted it during the call, or changed it under the call of its
\* timeout: for any number of items and of callers, on one work queue.  (With
\* several queues two threads may run the same item, and share the one flag
\* RUNNING.)
THEOREM WorkSyncMeansFinished ==
  ASSUME \A p, q \in Queues : p = q
  PROVE  Spec => SyncMeansFinished
<1>1. Init => SyncInv /\ RunInv
  BY DEF Init, SyncInv, RunInv, NoSync, Cleared
<1>2. IInv /\ CallsHaveItem /\ SyncInv /\ RunInv /\ [Next]_vars => SyncInv' /\ RunInv'
  <2> SUFFICES ASSUME IInv, CallsHaveItem, SyncInv, RunInv, [Next]_vars
               PROVE  SyncInv' /\ RunInv'
    OBVIOUS
  <2>1. CASE Next
    BY <2>1, NextSyncInv, NextRunInv
  <2>2. CASE UNCHANGED vars
    BY <2>2 DEF vars, workVars, SyncInv, RunInv, Settled
  <2> QED
    BY <2>1, <2>2
<1>3. ASSUME IInv, CallsHaveItem, SyncInv, RunInv,
             NEW c \in Cancellers, sync[c].at = "check", Finished(c), sync[c].by = "nobody",
             sync[c].work \notin raced
      PROVE  ~Active(sync[c].work)
  <2>1. PICK w \in Works : w = sync[c].work
    BY <1>3 DEF CallsHaveItem
  <2>2. Settled(w) /\ ~running[w]
    BY <1>3, <2>1 DEF Finished, SyncInv, Cleared
  <2>3. ASSUME NEW q \in Queues, cur[q] = w PROVE pc[q] = "done"
    <3>1. pc[q] \in {"got", "flagged", "handler", "done"}
      BY <1>3, <2>1, <2>3, WorkAssumption DEF IInv, StateOK
    <3>2. ~Took(q, w)
      BY <1>3, <2>1, <2>2 DEF IInv, Held, Settled
    <3>3. pc[q] # "handler"
      BY <1>3, <2>2, <2>3 DEF RunInv
    <3> QED
      BY <2>3, <3>1, <3>2, <3>3 DEF Took
  <2> QED
    BY <2>1, <2>2, <2>3 DEF Active, Settled, Holders
<1>4. IInv /\ CallsHaveItem /\ SyncInv /\ RunInv =>
        [\A c \in Cancellers :
           Returning(c) /\ sync[c].by = "nobody" /\ sync[c].work \notin raced
             => ~Active(sync[c].work)]_vars
  BY <1>3 DEF Returning
<1> QED
  BY <1>1, <1>2, <1>4, SpecIInv, PTL DEF Spec, SyncMeansFinished

=============================================================================
