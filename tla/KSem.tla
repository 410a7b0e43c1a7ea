-------------------------------- MODULE KSem --------------------------------
(***************************************************************************)
(* The counting semaphore of src/sdk014_ZS285A/kernel/sem.c, used by       *)
(* threads and interrupt handlers while waits time out.                    *)
(***************************************************************************)
EXTENDS KThreads

CONSTANTS
  Limit,       \* sem->limit
  InitCount    \* the initial_count given to k_sem_init()

ASSUME SemAssumption == Limit \in Nat \ {0} /\ InitCount \in 0..Limit

VARIABLE
  count        \* sem->count

semVars == <<threadVars, count>>

Returns == {"none", "OK", "EBUSY", "EAGAIN"}

SemTypeOK ==
  /\ ThreadTypeOK
  /\ ret \in [Threads -> Returns]
  /\ count \in 0..Limit

\* k_sem_init()
SemInit == ThreadInit /\ count = InitCount

-----------------------------------------------------------------------------
\* increment_count_up_to_limit()
IncrementUpToLimit(c) == IF c # Limit THEN c + 1 ELSE c

\* k_sem_give() from a thread or an interrupt handler, and
\* _sem_give_non_preemptible(): do_sem_give() hands the unit to the first live
\* waiter, or counts it.  Whether the giver then swaps out is a matter of the
\* scheduler; the state of the semaphore does not depend on it.
Give ==
  \/ /\ \E i \in DOMAIN waitq : FirstToUnpend(i) /\ Wake(i, "OK")
     /\ UNCHANGED count
  \/ /\ NoneToUnpend
     /\ count' = IncrementUpToLimit(count)
     /\ UNCHANGED threadVars

\* k_sem_take() by a thread
Take(t, timeout) ==
  /\ Running(t)
  /\ \/ /\ count > 0
        /\ count' = count - 1
        /\ Return(t, "OK")
     \/ /\ count = 0
        /\ timeout = "nowait"
        /\ Return(t, "EBUSY")
        /\ UNCHANGED count
     \/ /\ count = 0
        /\ timeout # "nowait"
        /\ Pend(t, timeout)
        /\ UNCHANGED count

\* k_sem_take(sem, K_NO_WAIT) by an interrupt handler; -EBUSY changes nothing
IsrTake ==
  /\ count > 0
  /\ count' = count - 1
  /\ UNCHANGED threadVars

\* k_sem_reset(): the count is overwritten without the lock, in one store
Reset ==
  /\ count' = 0
  /\ UNCHANGED threadVars

SemKill(t) == Abort(t) /\ UNCHANGED count

SemClock == Tick /\ UNCHANGED count

SemNext ==
  \/ Give
  \/ \E t \in Threads, timeout \in Timeouts : Take(t, timeout)
  \/ IsrTake
  \/ Reset
  \/ \E t \in Threads : SemKill(t)
  \/ SemClock

SemSpec == SemInit /\ [][SemNext]_semVars

SemFairness ==
  /\ \A t \in Threads : SF_semVars(TickCollect(t) /\ UNCHANGED count)
  /\ WF_semVars(TickHandle /\ UNCHANGED count)
  /\ WF_semVars(TickEnd /\ UNCHANGED count)

SemFairSpec == SemSpec /\ SemFairness

-----------------------------------------------------------------------------
NoneLeftWaiting == count > 0 => LiveWaiters = {}

\* No lost wake-up: the count stays within its limit, and while the semaphore
\* has units (do_sem_give() counted one), nobody is waiting for one, except a
\* thread whose wait the clock interrupt has already marked as over.
NoLostWakeup == SemTypeOK /\ NoneLeftWaiting

\* do_sem_give() serves the waiters by priority and, within a priority, in
\* order of arrival: no live waiter is overtaken.  A thread whose timeout has
\* already been marked is not served.
GrantInOrder ==
  [][\A b \in Threads :
        tstate[b] = "pending" /\ tstate'[b] = "ready" /\ ret'[b] = "OK" =>
          /\ b \in LiveWaiters
          /\ \A a \in LiveWaiters \ {b} : ~Beats(a, b)]_semVars

\* The semaphore implements AbsSem: a waiter whose timeout has been marked
\* _EXPIRED has already timed out, although it is still on the wait queue and
\* has not run.
semResult == [t \in Threads |-> IF t \in LiveWaiters THEN "waiting" ELSE ret[t]]

AbstractSem == INSTANCE AbsSem WITH avail <- count, result <- semResult

\* Every step of sem.c, and of the clock interrupt, is a step of AbsSem or
\* changes nothing a caller can see: no unit is lost, duplicated or given to
\* a caller that was told -EAGAIN.
ImplementsAbsSem == AbstractSem!AbsSpec

\* A timed k_sem_take() returns, whatever the givers do: the clock interrupt
\* (or a giver) ends the wait.
TimedTakeReturns ==
  \A t \in Threads :
    (tstate[t] = "pending" /\ tmo[t] = "armed") ~> (tstate[t] # "pending")

=============================================================================
