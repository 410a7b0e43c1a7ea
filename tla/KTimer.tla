------------------------------- MODULE KTimer -------------------------------
(***************************************************************************)
(* Timers, src/sdk014_ZS285A/kernel/timer.c, composed with the timeout     *)
(* queue they live in (KTimeoutQ): some of the timeouts are those of       *)
(* k_timers, which the expiry handler puts back for their period, the      *)
(* others belong to threads and delayed work and are started and stopped   *)
(* at any moment.                                                          *)
(*                                                                         *)
(* k_timers are operated on by threads, by interrupt handlers and by the   *)
(* expiry function of a k_timer, but not by an interrupt that nests in the *)
(* clock interrupt: _timer_expiration_handler() leaves the timer inactive  *)
(* for a moment before it arms it again, and updates status and wait queue *)
(* with the interrupts open.                                               *)
(***************************************************************************)
EXTENDS KTimeoutQ

CONSTANTS
  KTimers,       \* the timeouts that belong to a struct k_timer
  Threads,       \* threads that stop timers and wait for them
  Prio,          \* their priorities, 0 the highest
  MaxDuration,   \* bound on the duration and period of k_timer_start()
  StatusRange    \* 2^32 for the u32_t status

ASSUME TimerAssumption ==
  /\ KTimers \subseteq Timers
  /\ None \notin Threads
  /\ Prio \in [Threads -> Int]
  /\ MaxDuration \in 1..MaxTicks
  /\ StatusRange \in Nat \ {0, 1}

VARIABLES
  period, status,   \* the fields of each k_timer
  waitq,            \* its wait queue
  tpc,              \* thread: "run", "pend" in k_timer_status_sync(), "woken"
                    \* from it, "stop" between the two halves of k_timer_stop()
  on,               \* the timer it waits for or stops
  handler,          \* the k_timer whose handler the clock interrupt runs
  step,             \* where that is: "rearm", "call"; else "none"
  overlooked,       \* history: threads left waiting when one was woken
  since             \* history: ticks since the last expiry of a periodic
                    \* timer, None if it was started or stopped since

fieldVars == <<period, status>>
threadVars == <<waitq, tpc, on, overlooked>>
handlerVars == <<handler, step>>
timerVars == <<fieldVars, threadVars, handlerVars, since>>
allVars == <<vars, timerVars>>

TimerTypeOK ==
  /\ TypeOK
  /\ period \in [KTimers -> 0..MaxTicks]
  /\ status \in [KTimers -> 0..(StatusRange - 1)]
  /\ \A k \in KTimers :
       /\ waitq[k] \in Seq(Threads) /\ IsInjective(waitq[k])
       /\ Range(waitq[k]) = {w \in Threads : tpc[w] = "pend" /\ on[w] = k}
       /\ since[k] \in (0..MaxTicks) \cup {None}
  /\ tpc \in [Threads -> {"run", "pend", "woken", "stop"}]
  /\ on \in [Threads -> KTimers \cup {None}]
  /\ handler \in KTimers \cup {None}
  /\ step \in {"none", "rearm", "call"}
  /\ step = "none" <=> handler = None
  /\ step # "none" => phase = "handle"

\* k_timer_init()
TimerInit ==
  /\ Init
  /\ period = [k \in KTimers |-> 0] /\ status = [k \in KTimers |-> 0]
  /\ waitq = [k \in KTimers |-> << >>]
  /\ tpc = [w \in Threads |-> "run"] /\ on = [w \in Threads |-> None]
  /\ handler = None /\ step = "none"
  /\ overlooked = {} /\ since = [k \in KTimers |-> None]

-----------------------------------------------------------------------------
\* Threads and interrupt handlers outside the clock interrupt, and within it
\* the expiry function.
MayCall == phase = "idle" \/ step = "call"

\* Threads when the first waiter of k is unpended and readied: "th" before.
Woken(k, th) ==
  IF waitq[k] = << >> THEN th ELSE [th EXCEPT ![Head(waitq[k])] = "woken"]

\* _unpend_first_thread() and _ready_thread(), or the same spelled out in the
\* expiry handler: only the first waiter is released.
WakeFirst(k, th) ==
  /\ tpc' = Woken(k, th)
  /\ IF waitq[k] = << >>
     THEN UNCHANGED <<waitq, overlooked>>
     ELSE /\ waitq' = [waitq EXCEPT ![k] = Tail(@)]
          /\ overlooked' = (overlooked \ {Head(waitq[k])})
                             \cup Range(Tail(waitq[k]))

\* k_timer_start() of a timer that is not marked _EXPIRED.  For a duration of
\* 0 _add_timeout() calls the expiry handler at once, which arms the period,
\* counts and wakes; an expiry function called that way does nothing here.
Start(k, n, p) ==
  LET l == IF delta[k] = INACTIVE THEN List ELSE Unlinked(List, k)
      first == IF n > 0 THEN n ELSE p
  IN  /\ MayCall
      /\ delta[k] # EXPIRED
      /\ n > 0 \/ p > 0
      /\ q' = Inserted(l, k, first).q
      /\ delta' = Inserted(l, k, first).delta
      /\ Armed(k, first)
      /\ period' = [period EXCEPT ![k] = p]
      /\ status' = [status EXCEPT ![k] = IF n > 0 THEN 0 ELSE 1]
      /\ since' = [since EXCEPT ![k] = IF n > 0 THEN None ELSE 0]
      /\ \/ n > 0 /\ UNCHANGED <<waitq, tpc, overlooked>>
         \/ n = 0 /\ WakeFirst(k, tpc)
      /\ fired' = None
      /\ UNCHANGED <<expired, damage, iterVars, on, handlerVars>>

\* k_timer_stop() by an interrupt handler or an expiry function; it does
\* nothing to a timer that is inactive.
StopNow(k) ==
  /\ MayCall
  /\ Stop(k)
  /\ WakeFirst(k, tpc)
  /\ since' = [since EXCEPT ![k] = None]
  /\ UNCHANGED <<fieldVars, on, handlerVars>>

\* k_timer_stop() by a thread, up to the first irq_unlock(): the timeout is
\* aborted, and the stop function runs.
StopStart(w, k) ==
  /\ phase = "idle"
  /\ tpc[w] = "run"
  /\ Stop(k)
  /\ tpc' = [tpc EXCEPT ![w] = "stop"]
  /\ on' = [on EXCEPT ![w] = k]
  /\ since' = [since EXCEPT ![k] = None]
  /\ UNCHANGED <<fieldVars, waitq, overlooked, handlerVars>>

\* The second half: the first waiter is released.
StopEnd(w) ==
  /\ phase = "idle"
  /\ tpc[w] = "stop"
  /\ WakeFirst(on[w], [tpc EXCEPT ![w] = "run"])
  /\ on' = [on EXCEPT ![w] = None]
  /\ UNCHANGED <<vars, fieldVars, handlerVars, since>>

\* k_timer_status_get(): the read clears.
StatusGet(k) ==
  /\ MayCall
  /\ status[k] # 0
  /\ status' = [status EXCEPT ![k] = 0]
  /\ UNCHANGED <<vars, period, threadVars, handlerVars, since>>

\* _pend_current_thread(): behind the waiters of the same or a higher priority
Pended(w, k) ==
  LET n == Cardinality({i \in DOMAIN waitq[k] : Prio[waitq[k][i]] <= Prio[w]})
  IN  InsertAt(waitq[k], n + 1, w)

\* Mutant: a thread waits for a timer that does not run.
MustWaitAlways(k) == status[k] = 0

\* The tests of k_timer_status_sync(): not expired yet, and running
MustWait(k) == status[k] = 0 /\ delta[k] # INACTIVE

\* k_timer_status_sync() up to _Swap(), or to its end if it need not wait
SyncStart(w, k) ==
  /\ phase = "idle"
  /\ tpc[w] = "run"
  /\ \/ /\ MustWait(k)
        /\ waitq' = [waitq EXCEPT ![k] = Pended(w, k)]
        /\ tpc' = [tpc EXCEPT ![w] = "pend"]
        /\ on' = [on EXCEPT ![w] = k]
        /\ UNCHANGED status
     \/ /\ status[k] # 0
        /\ status' = [status EXCEPT ![k] = 0]
        /\ UNCHANGED <<waitq, tpc, on>>
  /\ UNCHANGED <<vars, period, overlooked, handlerVars, since>>

\* Its end in a thread that was woken: the status, whatever it is by now, is
\* returned and cleared.
SyncReturn(w) ==
  /\ phase = "idle"
  /\ tpc[w] = "woken"
  /\ status' = [status EXCEPT ![on[w]] = 0]
  /\ tpc' = [tpc EXCEPT ![w] = "run"]
  /\ on' = [on EXCEPT ![w] = None]
  /\ UNCHANGED <<vars, period, waitq, overlooked, handlerVars, since>>

-----------------------------------------------------------------------------
\* The clock interrupt comes to the timeout of a k_timer: it is inactive from
\* here on, and _timer_expiration_handler() is called.
HandleTimer ==
  /\ cur \in KTimers
  /\ Handle
  /\ handler' = cur
  /\ step' = "rearm"
  /\ UNCHANGED <<fieldVars, threadVars, since>>

\* Mutant: one tick is added, as for a wait that starts within a tick.
NextPeriodAligned(k) == period[k] + 1

\* The ticks for which a periodic timer is armed again: it is aligned to a
\* tick already, and no _TICK_ALIGN is added.
NextPeriod(k) == period[k]

\* A periodic timer is armed again, and the expiry counted.
Rearm ==
  /\ step = "rearm"
  /\ IF period[handler] > 0
     THEN Add(handler, NextPeriod(handler)) /\ since' = [since EXCEPT ![handler] = 0]
     ELSE since' = [since EXCEPT ![handler] = None] /\ UNCHANGED vars
  /\ status' = [status EXCEPT ![handler] = (@ + 1) % StatusRange]
  /\ step' = "call"
  /\ UNCHANGED <<period, threadVars, handler>>

\* The expiry function has returned; the first waiter is released.
ExpiryReturns ==
  /\ step = "call"
  /\ WakeFirst(handler, tpc)
  /\ handler' = None
  /\ step' = "none"
  /\ UNCHANGED <<vars, fieldVars, on, since>>

\* A tick, and the turns of handle_timeouts(); it goes on when the expiry
\* handler has returned.
TimerAnnounce ==
  /\ Announce
  /\ since' = [k \in KTimers |-> IF since[k] = None THEN None ELSE since[k] + 1]
  /\ UNCHANGED <<fieldVars, threadVars, handlerVars>>

TimerClockStep ==
  \/ /\ \/ Collect
        \/ CollectDone
        \/ cur \notin KTimers /\ Handle
        \/ handler = None /\ (Advance \/ HandleDone)
     /\ UNCHANGED timerVars
  \/ HandleTimer
  \/ Rearm
  \/ ExpiryReturns

\* The timeouts of threads and delayed work
OtherTimeouts ==
  /\ \E t \in Timers \ KTimers : Stop(t) \/ \E n \in 0..MaxTicks : Add(t, n)
  /\ UNCHANGED timerVars

\* After an abort of a marked timeout the model follows the interrupt to its
\* end and no further; once the stack is overwritten, not even that.
TimerNext ==
  \/ /\ damage = "none"
     /\ \/ OtherTimeouts
        \/ \E k \in KTimers :
             \/ \E n, p \in 0..MaxDuration : Start(k, n, p)
             \/ StopNow(k)
             \/ StatusGet(k)
             \/ \E w \in Threads : StopStart(w, k) \/ SyncStart(w, k)
        \/ \E w \in Threads : StopEnd(w) \/ SyncReturn(w)
        \/ TimerAnnounce
  \/ damage # "stack" /\ TimerClockStep

\* The hardware timer keeps interrupting, and its handler goes on.
TimerSpec ==
  /\ TimerInit /\ [][TimerNext]_allVars
  /\ WF_allVars(TimerClockStep) /\ WF_allVars(TimerAnnounce)

-----------------------------------------------------------------------------
\* k_timer_status_sync() blocks until the timer has expired or is stopped: a
\* waiter that is not released is waiting for a timer that runs and has not
\* expired unread, or whose expiry or stop is under way.  The exception is a
\* thread behind another one: each expiry and each stop releases only the
\* first, and after the last one nobody releases the rest.
SyncServed ==
  TimerTypeOK /\ \A k \in KTimers : \A w \in Range(waitq[k]) \ overlooked :
    \/ handler = k
    \/ \E v \in Threads : tpc[v] = "stop" /\ on[v] = k
    \/ delta[k] # INACTIVE /\ status[k] = 0

\* A periodic timer that nobody starts or stops expires every "period" ticks:
\* nothing is lost or added when the handler puts it back into the timeout
\* queue in the middle of the clock interrupt, however late in it, and
\* whatever other timeouts come and go.
PeriodExact ==
  [][\A k \in KTimers : fired' = k /\ since[k] # None => since[k] = period[k]]_vars

=============================================================================
