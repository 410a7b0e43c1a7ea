------------------------------ MODULE KThreads ------------------------------
(***************************************************************************)
(* What every blocking kernel object of the Zephyr kernel in               *)
(* src/sdk014_ZS285A/kernel shares: the threads, the priority-ordered wait *)
(* queue of the object (kernel/sched.c, kernel/include/ksched.h), the      *)
(* timeout of a waiting thread (kernel/include/timeout_q.h) and the two    *)
(* passes in which the clock interrupt expires timeouts                    *)
(* (handle_timeouts in kernel/sys_clock.c).                                *)
(*                                                                         *)
(* Interleaving.  A section under irq_lock() is one action.  The clock     *)
(* interrupt gives up the lock after every timeout it collects and after   *)
(* every one it handles, so an interrupt of higher priority may run        *)
(* between any two of its steps (enable_irq_nest in                        *)
(* arch/mips/core/irq_manage.c); a thread may not, because the processor   *)
(* is inside the clock interrupt until clock = "idle" again.               *)
(*                                                                         *)
(* Which timeouts expire together is left open here; KTimeoutQ.tla models  *)
(* the delta list that decides it.                                         *)
(***************************************************************************)
EXTENDS Integers, Sequences, SequencesExt

CONSTANTS
  Threads,   \* the threads that use the object
  Prio       \* k_thread.base.prio; a smaller number is a higher priority

ASSUME PrioAssumption == Prio \in [Threads -> Int]

VARIABLES
  waitq,     \* the object's wait_q, head first
  tstate,    \* "pending": _THREAD_PENDING is set; "ready": on the ready queue;
             \* "dead": _THREAD_DEAD
  tmo,       \* the thread's timeout: delta_ticks_from_prev is _INACTIVE
             \* ("inactive"), on _timeout_q ("armed"), or _EXPIRED ("expired")
  clock,     \* "idle", or the pass handle_timeouts() is in: "collect", "handle"
  expired,   \* the local list expired of handle_timeouts()
  ret,       \* what the thread's last call returned, or will return
  ahead      \* history: the threads t found waiting when it pended and that
             \* have not begun another wait since

threadVars == <<waitq, tstate, tmo, clock, expired, ret, ahead>>

\* Timeouts an application passes: K_NO_WAIT, a number of ms, K_FOREVER.
Waits == {"timed", "forever"}
Timeouts == Waits \cup {"nowait"}

ThreadTypeOK ==
  /\ waitq \in Seq(Threads)
  /\ tstate \in [Threads -> {"ready", "pending", "dead"}]
  /\ tmo \in [Threads -> {"inactive", "armed", "expired"}]
  /\ clock \in {"idle", "collect", "handle"}
  /\ expired \in Seq(Threads)
  /\ ahead \in [Threads -> SUBSET Threads]

ThreadInit ==
  /\ waitq = << >>
  /\ tstate = [t \in Threads |-> "ready"]
  /\ tmo = [t \in Threads |-> "inactive"]
  /\ clock = "idle"
  /\ expired = << >>
  /\ ret = [t \in Threads |-> "none"]
  /\ ahead = [t \in Threads |-> {}]

-----------------------------------------------------------------------------
\* A thread executes only outside the clock interrupt.
Running(t) == tstate[t] = "ready" /\ clock = "idle"

\* _is_thread_timeout_expired() is consulted by _find_first_thread_to_unpend();
\* outside the clock interrupt no timeout is marked, so the test of
\* _handling_timeouts there only saves the walk.
Live(i) == tmo[waitq[i]] # "expired"

LiveWaiters == {waitq[i] : i \in {j \in DOMAIN waitq : Live(j)}}

\* Mutant: the head of the queue, as _peek_first_pending_thread() returns it.
HeadToUnpend(i) == i \in DOMAIN waitq /\ i = 1

\* _find_first_thread_to_unpend() returns the thread at position i ...
FirstToUnpend(i) ==
  /\ i \in DOMAIN waitq
  /\ Live(i)
  /\ \A j \in 1..(i - 1) : ~Live(j)

\* Mutant: the waiters are not looked at.
WaitersIgnored == TRUE

\* ... or NULL
NoneToUnpend == \A i \in DOMAIN waitq : ~Live(i)

\* Mutant: the walk stops at a waiter of equal priority too.
InsertPointLifo(q, t, i) ==
  /\ i \in 1..(Len(q) + 1)
  /\ \A j \in 1..(i - 1) : Prio[q[j]] < Prio[t]
  /\ i <= Len(q) => Prio[t] <= Prio[q[i]]

\* _pend_thread() stops its walk at the first waiter of lower priority
InsertPoint(q, t, i) ==
  /\ i \in 1..(Len(q) + 1)
  /\ \A j \in 1..(i - 1) : Prio[q[j]] <= Prio[t]
  /\ i <= Len(q) => Prio[t] < Prio[q[i]]

\* _pend_current_thread() followed by _Swap(), which leaves -EAGAIN as the
\* return value until somebody overwrites it
Pend(t, timeout) ==
  /\ \E i \in 1..(Len(waitq) + 1) :
        InsertPoint(waitq, t, i) /\ waitq' = InsertAt(waitq, i, t)
  /\ tstate' = [tstate EXCEPT ![t] = "pending"]
  /\ tmo' = IF timeout = "forever" THEN tmo ELSE [tmo EXCEPT ![t] = "armed"]
  /\ ret' = [ret EXCEPT ![t] = "EAGAIN"]
  /\ ahead' = [u \in Threads |-> IF u = t THEN {waitq[i] : i \in DOMAIN waitq}
                                          ELSE ahead[u] \ {t}]
  /\ UNCHANGED <<clock, expired>>

\* _unpend_thread(), _abort_thread_timeout(), _ready_thread() and
\* _set_thread_return_value() on the waiter at position i
Wake(i, r) ==
  /\ waitq' = RemoveAt(waitq, i)
  /\ tstate' = [tstate EXCEPT ![waitq[i]] = "ready"]
  /\ tmo' = [tmo EXCEPT ![waitq[i]] = "inactive"]
  /\ ret' = [ret EXCEPT ![waitq[i]] = r]
  /\ UNCHANGED <<clock, expired, ahead>>

\* The loop of k_msgq_purge() and others over _unpend_first_thread(), run by a
\* thread, that is with no timeout marked: every waiter is woken.
WakeAll(r) ==
  LET all == {t \in Threads : tstate[t] = "pending"}
  IN  /\ waitq' = << >>
      /\ tstate' = [t \in Threads |-> IF t \in all THEN "ready" ELSE tstate[t]]
      /\ tmo' = [t \in Threads |-> IF t \in all THEN "inactive" ELSE tmo[t]]
      /\ ret' = [t \in Threads |-> IF t \in all THEN r ELSE ret[t]]
      /\ UNCHANGED <<clock, expired, ahead>>

\* A call that returns r to t without blocking.
Return(t, r) ==
  /\ ret' = [ret EXCEPT ![t] = r]
  /\ UNCHANGED <<waitq, tstate, tmo, clock, expired, ahead>>

\* k_thread_abort() of t by another thread, or by itself:
\* _k_thread_single_abort() takes it off whatever queue it is on.
Abort(t) ==
  /\ clock = "idle"
  /\ tstate[t] # "dead"
  /\ \/ tstate[t] = "ready" /\ UNCHANGED waitq
     \/ /\ tstate[t] = "pending"
        /\ \E i \in DOMAIN waitq : waitq[i] = t /\ waitq' = RemoveAt(waitq, i)
  /\ tstate' = [tstate EXCEPT ![t] = "dead"]
  /\ tmo' = [tmo EXCEPT ![t] = "inactive"]
  /\ UNCHANGED <<clock, expired, ret, ahead>>

-----------------------------------------------------------------------------
(* The clock interrupt: handle_timeouts().                                 *)

\* First pass: one timeout whose delta is 0 leaves _timeout_q for the front
\* of the local list and is marked _EXPIRED; _handling_timeouts is set.
TickCollect(t) ==
  /\ clock \in {"idle", "collect"}
  /\ tmo[t] = "armed"
  /\ clock' = "collect"
  /\ expired' = <<t>> \o expired
  /\ tmo' = [tmo EXCEPT ![t] = "expired"]
  /\ UNCHANGED <<waitq, tstate, ret, ahead>>

\* Mutant: the timed-out thread is unpended and not made ready.
TickHandleNotReady ==
  /\ clock \in {"collect", "handle"}
  /\ expired # << >>
  /\ clock' = "handle"
  /\ expired' = Tail(expired)
  /\ tmo' = [tmo EXCEPT ![Head(expired)] = "inactive"]
  /\ waitq' = SelectSeq(waitq, LAMBDA t : t # Head(expired))
  /\ UNCHANGED <<tstate, ret, ahead>>

\* Second pass: _handle_one_expired_timeout().  The return value stays as
\* _Swap() set it.
TickHandle ==
  /\ clock \in {"collect", "handle"}
  /\ expired # << >>
  /\ clock' = "handle"
  /\ expired' = Tail(expired)
  /\ tmo' = [tmo EXCEPT ![Head(expired)] = "inactive"]
  /\ \E i \in DOMAIN waitq :
       /\ waitq[i] = Head(expired)
       /\ waitq' = RemoveAt(waitq, i)
  /\ tstate' = [tstate EXCEPT ![Head(expired)] = "ready"]
  /\ UNCHANGED <<ret, ahead>>

\* _handling_timeouts = 0 and return from the interrupt.
TickEnd ==
  /\ clock = "handle"
  /\ expired = << >>
  /\ clock' = "idle"
  /\ UNCHANGED <<waitq, tstate, tmo, expired, ret, ahead>>

Tick == (\E t \in Threads : TickCollect(t)) \/ TickHandle \/ TickEnd

-----------------------------------------------------------------------------
(* What the object modules state about this part.                          *)

\* The state bits, the wait queue and the clock interrupt's local list agree:
\* a thread is pending exactly when it is on the queue, once, and the local
\* list holds, once, exactly the waiters whose timeout is marked _EXPIRED.
WaitqConsistent ==
  /\ IsInjective(waitq)
  /\ IsInjective(expired)
  /\ \A t \in Threads : tstate[t] = "pending" <=> Contains(waitq, t)
  /\ \A t \in Threads : tmo[t] = "expired" <=> Contains(expired, t)
  /\ \A t \in Threads : tstate[t] # "pending" => tmo[t] = "inactive"
  /\ clock = "idle" => expired = << >>

\* The queue is in priority order, and in order of arrival within a priority.
WaitqSorted ==
  \A i, j \in DOMAIN waitq : i < j =>
    /\ Prio[waitq[i]] <= Prio[waitq[j]]
    /\ Prio[waitq[i]] = Prio[waitq[j]] => waitq[j] \notin ahead[waitq[i]]

\* a beats b: higher priority, or equal and a was waiting when b came.
Beats(a, b) == Prio[a] < Prio[b] \/ (Prio[a] = Prio[b] /\ a \in ahead[b])

=============================================================================
