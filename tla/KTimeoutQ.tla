----------------------------- MODULE KTimeoutQ ------------------------------
(***************************************************************************)
(* The kernel's timeout queue: _timeout_q, a list ordered by deadline in   *)
(* which each entry holds the ticks from its predecessor                   *)
(* (src/sdk014_ZS285A/kernel/include/timeout_q.h), and handle_timeouts()   *)
(* in src/sdk014_ZS285A/kernel/sys_clock.c, which moves the expired        *)
(* entries to a local list with the interrupts open in between and then    *)
(* handles that list.                                                      *)
(*                                                                         *)
(* The module has no specification of its own: KTimer adds the timers.     *)
(*                                                                         *)
(* An Add or Stop while the clock interrupt is under way is made by an     *)
(* interrupt that nests in it or by the expiry function of a timeout just  *)
(* handled; while it is idle, also by a thread.                            *)
(***************************************************************************)
EXTENDS Integers, Sequences, SequencesExt, FiniteSetsExt

CONSTANTS
  Timers,         \* timeouts: those of k_timers, delayed work and threads
  MaxTicks,       \* bound on timeout_in_ticks
  StopsExpired,   \* TRUE if somebody stops a timeout that is marked _EXPIRED;
                  \* _find_first_thread_to_unpend() never does, k_timer_stop(),
                  \* k_timer_start() and k_delayed_work_cancel() may
  None

ASSUME TimeoutAssumption ==
  /\ MaxTicks \in Nat \ {0}
  /\ StopsExpired \in BOOLEAN
  /\ None \notin Timers \cup Int

INACTIVE == -1
EXPIRED == -2

VARIABLES
  q,         \* _timeout_q
  delta,     \* delta_ticks_from_prev of each timeout
  phase,     \* where handle_timeouts() is: "idle", "collect", "handle"
  expired,   \* its local list
  cur,       \* timeout of _handle_expired_timeouts(); None once it is handled
  nxt,       \* its next, read together with cur
  damage,    \* what aborting a marked timeout overwrote: "none", the "delta"
             \* of an entry of the local list, a word of the "stack"
  fired,     \* the timeout that the last step handled, or None
  rem,       \* history: ticks left of the timeouts that were started and
             \* neither handled nor stopped since (-1 would be overdue), else
             \* None
  earlier    \* history: the timeouts that were due in the tick of t when it
             \* was started, and still are

qVars == <<q, delta, expired, damage>>
iterVars == <<phase, cur, nxt>>
vars == <<qVars, iterVars, fired, rem, earlier>>

TypeOK ==
  /\ q \in Seq(Timers) /\ expired \in Seq(Timers)
  /\ IsInjective(q) /\ IsInjective(expired)
  /\ delta \in [Timers -> EXPIRED..MaxTicks]
  /\ phase \in {"idle", "collect", "handle"}
  /\ cur \in Timers \cup {None} /\ nxt \in Timers \cup {None}
  /\ damage = "none"
  /\ fired \in Timers \cup {None}
  /\ rem \in [Timers -> (0..MaxTicks) \cup {None}]
  /\ earlier \in [Timers -> SUBSET Timers]

\* _init_timeout() for every timeout
Init ==
  /\ q = << >> /\ expired = << >>
  /\ delta = [t \in Timers |-> INACTIVE]
  /\ phase = "idle" /\ cur = None /\ nxt = None
  /\ damage = "none"
  /\ fired = None
  /\ rem = [t \in Timers |-> None]
  /\ earlier = [t \in Timers |-> {}]

-----------------------------------------------------------------------------
List == [q |-> q, delta |-> delta]

\* The ticks from now to the i-th entry of a list, which the walks add up.
TicksTo(l, i) ==
  LET sum[k \in 0..Len(l.q)] == IF k = 0 THEN 0 ELSE sum[k - 1] + l.delta[l.q[k]]
  IN  sum[i]

\* The walk of _add_timeout() stops at the first entry whose deadline is not
\* earlier than the new one: at equal deadlines, before it.
InsertPoint(l, n) ==
  CHOOSE i \in 1..(Len(l.q) + 1) :
    /\ \A j \in 1..(i - 1) : TicksTo(l, j) < n
    /\ i <= Len(l.q) => n <= TicksTo(l, i)

\* The list after _add_timeout() for n > 0 ticks: the new entry takes over a
\* part of its successor's delta.
Inserted(l, t, n) ==
  LET i == InsertPoint(l, n)
      d == n - TicksTo(l, i - 1)
  IN  [q |-> InsertAt(l.q, i, t),
       delta |-> [u \in Timers |->
         CASE u = t -> d
           [] i <= Len(l.q) /\ u = l.q[i] -> l.delta[u] - d
           [] OTHER -> l.delta[u]]]

\* Mutant: the successor keeps its delta, and so is due too early.
UnlinkedForgets(l, t) ==
  [q |-> Remove(l.q, t), delta |-> [l.delta EXCEPT ![t] = INACTIVE]]

\* The list after _abort_timeout() of an entry of _timeout_q: the successor
\* inherits the delta.
Unlinked(l, t) ==
  LET i == SelectInSeq(l.q, LAMBDA u : u = t)
  IN  [q |-> RemoveAt(l.q, i),
       delta |-> [u \in Timers |->
         CASE u = t -> INACTIVE
           [] i < Len(l.q) /\ u = l.q[i + 1] -> l.delta[u] + l.delta[t]
           [] OTHER -> l.delta[u]]]

\* History of a timeout armed for n ticks, from whatever it was before.
Armed(t, n) ==
  /\ rem' = [rem EXCEPT ![t] = n]
  /\ earlier' = [u \in Timers |->
       IF u = t THEN {v \in Timers \ {t} : rem[v] = n} ELSE earlier[u] \ {t}]

\* History of a timeout that is handled or stopped.
Disarmed(t) ==
  /\ rem' = [rem EXCEPT ![t] = None]
  /\ earlier' = [u \in Timers |-> IF u = t THEN {} ELSE earlier[u] \ {t}]

\* _add_timeout() of a timeout that is not active (every caller sees to that).
\* With 0 ticks it is handled on the spot, in the caller's context, and the
\* queue is not touched.
Add(t, n) ==
  /\ delta[t] = INACTIVE
  /\ \/ n = 0 /\ UNCHANGED <<q, delta, rem, earlier>>
     \/ /\ n > 0
        /\ q' = Inserted(List, t, n).q
        /\ delta' = Inserted(List, t, n).delta
        /\ Armed(t, n)
  /\ fired' = None
  /\ UNCHANGED <<expired, damage, iterVars>>

AbortQueued(t) ==
  /\ Contains(q, t)
  /\ q' = Unlinked(List, t).q
  /\ delta' = Unlinked(List, t).delta
  /\ UNCHANGED <<expired, damage>>

\* _abort_timeout() of an entry that handle_timeouts() has already moved: it
\* is not the tail of _timeout_q, so _EXPIRED is added to the delta of
\* whatever follows it on the local list, which for the last entry is the
\* list head on the interrupt's stack.  Unlinked, it keeps its own next
\* pointer, which is what the walk follows if it has already read the entry.
AbortExpired(t) ==
  /\ delta[t] = EXPIRED
  /\ \E i \in DOMAIN expired :
       /\ expired[i] = t
       /\ expired' = IF t = nxt THEN expired ELSE RemoveAt(expired, i)
       /\ damage' = IF i < Len(expired) THEN "delta" ELSE "stack"
       /\ delta' = [u \in Timers |->
            CASE u = t -> INACTIVE
              [] i < Len(expired) /\ u = expired[i + 1] -> delta[u] + EXPIRED
              [] OTHER -> delta[u]]
  /\ UNCHANGED q

\* _abort_timeout() by k_timer_stop(), k_timer_start(), k_delayed_work_cancel()
\* or whoever ends the wait of a thread
Stop(t) ==
  /\ delta[t] # INACTIVE
  /\ \/ AbortQueued(t)
     \/ StopsExpired /\ AbortExpired(t)
  /\ Disarmed(t)
  /\ fired' = None
  /\ UNCHANGED iterVars

-----------------------------------------------------------------------------
\* acts_timer0_isr() announces one tick: _nano_sys_clock_tick_announce() up to
\* the first unlock in handle_timeouts().
Announce ==
  /\ phase = "idle"
  /\ IF q = << >>
     THEN UNCHANGED <<delta, phase>>
     ELSE /\ delta' = [delta EXCEPT ![Head(q)] = @ - 1]
          /\ phase' = "collect"
  /\ rem' = [t \in Timers |-> IF rem[t] \in {None, -1} THEN rem[t] ELSE rem[t] - 1]
  /\ fired' = None
  /\ UNCHANGED <<q, expired, damage, cur, nxt, earlier>>

\* Mutant: the local list is built in the order of the queue.
CollectAppends ==
  /\ phase = "collect"
  /\ q # << >>
  /\ delta[Head(q)] = 0
  /\ q' = Tail(q)
  /\ expired' = Append(expired, Head(q))
  /\ delta' = [delta EXCEPT ![Head(q)] = EXPIRED]
  /\ fired' = None
  /\ UNCHANGED <<damage, iterVars, rem, earlier>>

\* One turn of the first loop: the head, at delta 0, goes to the front of the
\* local list, which reverses the order within the tick once more.
Collect ==
  /\ phase = "collect"
  /\ q # << >>
  /\ delta[Head(q)] = 0
  /\ q' = Tail(q)
  /\ expired' = <<Head(q)>> \o expired
  /\ delta' = [delta EXCEPT ![Head(q)] = EXPIRED]
  /\ fired' = None
  /\ UNCHANGED <<damage, iterVars, rem, earlier>>

\* Mutant: the first loop gives up after one entry.
CollectDoneEarly ==
  /\ phase = "collect"
  /\ expired # << >> \/ (q # << >> => delta[Head(q)] # 0)
  /\ phase' = "handle"
  /\ cur' = IF expired = << >> THEN None ELSE Head(expired)
  /\ nxt' = IF Len(expired) < 2 THEN None ELSE expired[2]
  /\ fired' = None
  /\ UNCHANGED <<qVars, rem, earlier>>

\* The first loop ends; SYS_DLIST_FOR_EACH_CONTAINER_SAFE reads the first
\* entry and the one after it.
CollectDone ==
  /\ phase = "collect"
  /\ q # << >> => delta[Head(q)] # 0
  /\ phase' = "handle"
  /\ cur' = IF expired = << >> THEN None ELSE Head(expired)
  /\ nxt' = IF Len(expired) < 2 THEN None ELSE expired[2]
  /\ fired' = None
  /\ UNCHANGED <<qVars, rem, earlier>>

\* _handle_one_expired_timeout(): the timeout is inactive from here on, and its
\* function is called (or its thread made ready) with the interrupts open.
\* The entry is not unlinked, the sys_dlist_remove() being commented out: the
\* list ends with the interrupt's stack frame.
Handle ==
  /\ phase = "handle"
  /\ cur # None
  /\ delta' = [delta EXCEPT ![cur] = INACTIVE]
  /\ fired' = cur
  /\ Disarmed(cur)
  /\ cur' = None
  /\ UNCHANGED <<q, expired, damage, phase, nxt>>

\* The timeout after t on the local list.
After(t) ==
  LET later == {i \in DOMAIN expired : i > 1 /\ expired[i - 1] = t}
  IN  IF later = {} THEN None ELSE expired[CHOOSE i \in later : TRUE]

\* Mutant: the second loop ends one entry early.
AdvanceOnce ==
  /\ phase = "handle"
  /\ cur = None
  /\ nxt # None
  /\ cur' = nxt
  /\ nxt' = None
  /\ fired' = None
  /\ UNCHANGED <<qVars, phase, rem, earlier>>

\* The second loop goes on to the entry it had read before the call.
Advance ==
  /\ phase = "handle"
  /\ cur = None
  /\ nxt # None
  /\ cur' = nxt
  /\ nxt' = After(nxt)
  /\ fired' = None
  /\ UNCHANGED <<qVars, phase, rem, earlier>>

\* _handling_timeouts = 0 and return.
HandleDone ==
  /\ phase = "handle"
  /\ cur = None
  /\ nxt = None
  /\ phase' = "idle"
  /\ expired' = << >>
  /\ fired' = None
  /\ UNCHANGED <<q, delta, damage, cur, nxt, rem, earlier>>

-----------------------------------------------------------------------------
Undefined == -3

\* _timeout_remaining_get() in ticks, which k_timer_remaining_get() and
\* k_delayed_work_remaining_get() return: the walk sums the deltas up to t; if
\* t is not there it runs off the tail and reads through a null pointer.
RemainingGet(t) ==
  IF delta[t] = INACTIVE \/ q = << >> THEN 0
  ELSE IF Contains(q, t)
       THEN TicksTo(List, SelectInSeq(q, LAMBDA u : u = t))
       ELSE Undefined

\* The differences that _add_timeout(), _abort_timeout() and handle_timeouts()
\* keep add up: for every timeout on the queue _timeout_remaining_get() finds
\* the ticks that really are left, through any sequence of insertions and
\* removals and in the middle of the clock interrupt too; and outside the
\* interrupt every started timeout is on the queue.
RemainingExact ==
  \A t \in Timers :
    /\ Contains(q, t) => RemainingGet(t) = rem[t]
    /\ phase = "idle" /\ rem[t] # None => Contains(q, t)

\* Timeouts started for the same tick are handled in the order in which they
\* were started, as sys_clock.c says of its second reversal, whatever was
\* started and stopped in between.
SameTickInOrder ==
  [][\A t \in Timers : fired' = t => earlier[t] = {}]_vars

\* Not guaranteed if StopsExpired: handle_timeouts() calls no timeout that has
\* been stopped.
StoppedNotHandled == [][fired' # None => rem[fired'] = 0]_vars

\* Not guaranteed: _timeout_remaining_get() is defined for every timeout at every moment at
\* which an expiry function or an interrupt handler may ask.
RemainingDefined == \A t \in Timers : RemainingGet(t) # Undefined

Abs == INSTANCE AbsTimers WITH left <- rem

\* The delta list and the two passes of the clock interrupt implement timers
\* that are handled in their tick, once, and not after they were stopped.
ImplementsAbsTimers == Abs!AbsSpec

\* Every started timeout is handled or stopped: none is passed over by the
\* clock interrupt or left behind in the queue.  One that is started anew
\* before it expires, again and again, never does.
TimeoutHandled ==
  \A t \in Timers :
    \/ rem[t] # None ~> rem[t] = None
    \/ []<><<rem[t] # None /\ rem'[t] # None /\ rem'[t] > rem[t]>>_vars

=============================================================================
