------------------------------- MODULE KMutex -------------------------------
(***************************************************************************)
(* The reentrant mutex with priority inheritance of                        *)
(* src/sdk014_ZS285A/kernel/mutex.c, and as much of the scheduler as       *)
(* inheritance is about: the highest-priority ready thread runs.           *)
(*                                                                         *)
(* A call holds the scheduler lock, so no other thread runs in it, but the *)
(* clock interrupt may come between any two of its steps; a call that      *)
(* blocks and times out goes on, when its thread runs again, to lower the  *)
(* owner's priority.  Among ready threads of equal priority any may be     *)
(* next: k_yield() and the time slice move a thread behind its peers.      *)
(* Threads do not change their priorities themselves.                      *)
(***************************************************************************)
EXTENDS Integers, Sequences, SequencesExt, FiniteSetsExt

CONSTANTS
  Threads,    \* the threads that use the mutex
  Base,       \* the priority each is created with; smaller is higher
  Ceiling,    \* CONFIG_PRIORITY_CEILING
  MaxDepth,   \* bound on nested locks by one thread
  Null

ASSUME MutexAssumption ==
  /\ Base \in [Threads -> Int]
  /\ Ceiling \in Int
  /\ MaxDepth \in Nat \ {0}
  /\ Null \notin Threads

VARIABLES
  owner, lockCount, origPrio,   \* the mutex
  waitq,      \* its wait queue
  prio,       \* base.prio of each thread
  tstate,     \* "ready", "pending" on the mutex, or "away": asleep or waiting
              \* for something else
  tmo,        \* its timeout: "inactive", "armed" or "expired"
  pc,         \* "out" of the mutex's code; "swap": in k_mutex_lock(), at the
              \* _Swap() or after it; "adjust": timed out and about to adjust
              \* the owner
  ret,        \* the value _Swap() returns: "OK" or "EAGAIN"
  newPrio,    \* new_prio of a timed-out call
  cur,        \* _current, or Null for the idle thread
  clock, expired,   \* handle_timeouts(), as in KThreads.tla
  depth,      \* history: the locks a thread holds, by what its calls returned
  fault       \* mutex->owner was followed while it was NULL

mutexVars == <<owner, lockCount, origPrio>>
callVars == <<pc, ret, newPrio, depth, fault>>
vars == <<mutexVars, waitq, prio, tstate, tmo, cur, clock, expired, callVars>>

TypeOK ==
  /\ owner \in Threads \cup {Null}
  /\ lockCount \in 0..MaxDepth
  /\ waitq \in Seq(Threads) /\ IsInjective(waitq)
  /\ prio \in [Threads -> Int]
  /\ tstate \in [Threads -> {"ready", "pending", "away"}]
  /\ \A t \in Threads : tstate[t] = "pending" <=> Contains(waitq, t)
  /\ tmo \in [Threads -> {"inactive", "armed", "expired"}]
  /\ pc \in [Threads -> {"out", "swap", "adjust"}]
  /\ ret \in [Threads -> {"OK", "EAGAIN"}]
  /\ cur \in Threads \cup {Null}
  /\ clock \in {"idle", "collect", "handle"}
  /\ expired \in Seq(Threads)
  /\ depth \in [Threads -> 0..MaxDepth]
  /\ fault \in BOOLEAN

-----------------------------------------------------------------------------
(* The scheduler *)

\* The ready threads of the highest priority, after the step.
Top == {t \in Threads : /\ tstate'[t] = "ready"
                        /\ \A u \in Threads : tstate'[u] = "ready" => prio'[t] <= prio'[u]}

\* Whoever is at the head of the ready queue runs.
Dispatch == cur' \in IF Top = {} THEN {Null} ELSE Top

\* _must_switch_threads(): not while _current is cooperative or holds the
\* scheduler lock, and only for a thread of higher priority
MustSwitch ==
  \/ cur = Null
  \/ cur # Null /\ prio'[cur] >= 0 /\ pc'[cur] = "out"
     /\ \E t \in Top : prio'[t] < prio'[cur]

\* _reschedule_threads(), k_sched_unlock() and the exit of an interrupt
Reschedule == IF MustSwitch THEN Dispatch ELSE cur' = cur

\* k_mutex_init(); the threads have started and none has run
Init ==
  /\ owner = Null /\ lockCount = 0 /\ origPrio = 0
  /\ waitq = << >> /\ expired = << >> /\ clock = "idle"
  /\ prio = Base
  /\ tstate = [t \in Threads |-> "away"]
  /\ tmo = [t \in Threads |-> "inactive"]
  /\ pc = [t \in Threads |-> "out"]
  /\ ret = [t \in Threads |-> "OK"]
  /\ newPrio = [t \in Threads |-> 0]
  /\ cur = Null
  /\ depth = [t \in Threads |-> 0]
  /\ fault = FALSE

Runs(t, where) == cur = t /\ clock = "idle" /\ pc[t] = where /\ ~fault

\* _current blocks elsewhere, holding the mutex or not
Sleep(t) ==
  /\ Runs(t, "out")
  /\ tstate' = [tstate EXCEPT ![t] = "away"]
  /\ UNCHANGED <<mutexVars, waitq, prio, tmo, clock, expired, callVars>>
  /\ Dispatch

\* k_yield(), or the end of the time slice
Yield(t) ==
  /\ Runs(t, "out")
  /\ UNCHANGED <<mutexVars, waitq, prio, tstate, tmo, clock, expired, callVars>>
  /\ cur' \in {u \in Top : prio[u] <= prio[t]}

\* An interrupt, which may nest in the clock's, ends a wait
WakeUp(t) ==
  /\ ~fault
  /\ tstate[t] = "away"
  /\ tstate' = [tstate EXCEPT ![t] = "ready"]
  /\ UNCHANGED <<mutexVars, waitq, prio, tmo, clock, expired, callVars>>
  /\ IF clock = "idle" THEN Reschedule ELSE UNCHANGED cur

-----------------------------------------------------------------------------
(* k_mutex_lock() *)

\* Mutant: the waiter's priority is not looked at.
InheritLimit(target, limit) == IF limit >= Ceiling THEN limit ELSE Ceiling

\* new_prio_for_inheritance()
NewPrioForInheritance(target, limit) == Max({Min({target, limit}), Ceiling})

\* The mutex is free, or t's already.
LockNow(t) ==
  /\ Runs(t, "out")
  /\ lockCount = 0 \/ owner = t
  /\ lockCount < MaxDepth
  /\ origPrio' = IF lockCount = 0 THEN prio[t] ELSE origPrio
  /\ lockCount' = lockCount + 1
  /\ owner' = t
  /\ depth' = [depth EXCEPT ![t] = @ + 1]
  /\ UNCHANGED <<waitq, prio, tstate, tmo, clock, expired, pc, ret, newPrio, fault>>
  /\ Reschedule

\* It is not: the owner inherits, and t pends.  (With K_NO_WAIT the call
\* returns -EBUSY and changes nothing.)
LockWait(t, timed) ==
  /\ Runs(t, "out")
  /\ lockCount > 0 /\ owner # t
  /\ LET p == NewPrioForInheritance(prio[t], prio[owner])
     IN  prio' = IF p < prio[owner] THEN [prio EXCEPT ![owner] = p] ELSE prio
  /\ \E i \in 1..(Len(waitq) + 1) :
       /\ \A j \in 1..(i - 1) : prio[waitq[j]] <= prio[t]
       /\ i <= Len(waitq) => prio[t] < prio[waitq[i]]
       /\ waitq' = InsertAt(waitq, i, t)
  /\ tstate' = [tstate EXCEPT ![t] = "pending"]
  /\ tmo' = IF timed THEN [tmo EXCEPT ![t] = "armed"] ELSE tmo
  /\ pc' = [pc EXCEPT ![t] = "swap"]
  /\ ret' = [ret EXCEPT ![t] = "EAGAIN"]
  /\ UNCHANGED <<mutexVars, clock, expired, newPrio, depth, fault>>
  /\ Dispatch

\* _Swap() returns 0: the previous owner has handed the mutex over.
LockGot(t) ==
  /\ Runs(t, "swap")
  /\ ret[t] = "OK"
  /\ pc' = [pc EXCEPT ![t] = "out"]
  /\ depth' = [depth EXCEPT ![t] = @ + 1]
  /\ UNCHANGED <<mutexVars, waitq, prio, tstate, tmo, clock, expired, ret, newPrio, fault>>
  /\ Reschedule

\* _Swap() returns -EAGAIN: what the owner's priority should be is worked out
\* with the interrupts open ...
LockTimedOut(t) ==
  /\ Runs(t, "swap")
  /\ ret[t] = "EAGAIN"
  /\ pc' = [pc EXCEPT ![t] = "adjust"]
  /\ newPrio' = [newPrio EXCEPT ![t] =
       IF waitq = << >> THEN origPrio
                        ELSE NewPrioForInheritance(prio[Head(waitq)], origPrio)]
  /\ UNCHANGED <<mutexVars, waitq, prio, tstate, tmo, cur, clock, expired, ret, depth, fault>>

\* Mutant: a timed-out waiter leaves the owner as it is.
NoAdjust(t) ==
  /\ Runs(t, "adjust")
  /\ pc' = [pc EXCEPT ![t] = "out"]
  /\ UNCHANGED <<mutexVars, waitq, prio, tstate, tmo, clock, expired, ret, newPrio, depth, fault>>
  /\ Reschedule

\* ... and set, if there is an owner to set it for
LockAdjust(t) ==
  /\ Runs(t, "adjust")
  /\ pc' = [pc EXCEPT ![t] = "out"]
  /\ fault' = (owner = Null)
  /\ prio' = IF owner = Null THEN prio ELSE [prio EXCEPT ![owner] = newPrio[t]]
  /\ UNCHANGED <<mutexVars, waitq, tstate, tmo, clock, expired, ret, newPrio, depth>>
  /\ Reschedule

-----------------------------------------------------------------------------
(* k_mutex_unlock(), by the owner *)

\* A nested lock is given back.
UnlockNested(t) ==
  /\ Runs(t, "out")
  /\ owner = t /\ lockCount > 1
  /\ lockCount' = lockCount - 1
  /\ depth' = [depth EXCEPT ![t] = @ - 1]
  /\ UNCHANGED <<owner, origPrio, waitq, prio, tstate, tmo, clock, expired, pc, ret, newPrio, fault>>
  /\ Reschedule

\* The priorities once t has its own back
RestoredPrio(t) == [prio EXCEPT ![t] = origPrio]

\* Mutant: the next owner is recorded and not counted.
HandOverUncounted ==
  /\ waitq # << >>
  /\ owner' = Head(waitq) /\ lockCount' = 0 /\ origPrio' = prio[Head(waitq)]
  /\ waitq' = Tail(waitq)
  /\ tstate' = [tstate EXCEPT ![Head(waitq)] = "ready"]
  /\ tmo' = [tmo EXCEPT ![Head(waitq)] = "inactive"]
  /\ ret' = [ret EXCEPT ![Head(waitq)] = "OK"]

\* The first waiter becomes the owner.  Outside the clock interrupt no waiter
\* is marked _EXPIRED.
HandOver ==
  /\ waitq # << >>
  /\ owner' = Head(waitq) /\ lockCount' = 1 /\ origPrio' = prio[Head(waitq)]
  /\ waitq' = Tail(waitq)
  /\ tstate' = [tstate EXCEPT ![Head(waitq)] = "ready"]
  /\ tmo' = [tmo EXCEPT ![Head(waitq)] = "inactive"]
  /\ ret' = [ret EXCEPT ![Head(waitq)] = "OK"]

\* Mutant: the mutex is set free whoever waits.
ReleaseAlways ==
  /\ owner' = Null /\ lockCount' = 0
  /\ UNCHANGED <<origPrio, waitq, tstate, tmo, ret>>

\* Nobody waits.
Release ==
  /\ waitq = << >>
  /\ owner' = Null /\ lockCount' = 0
  /\ UNCHANGED <<origPrio, waitq, tstate, tmo, ret>>

Unlock(t) ==
  /\ Runs(t, "out")
  /\ owner = t /\ lockCount = 1
  /\ HandOver \/ Release
  /\ prio' = RestoredPrio(t)
  /\ depth' = [depth EXCEPT ![t] = @ - 1]
  /\ UNCHANGED <<clock, expired, pc, newPrio, fault>>
  /\ Reschedule

-----------------------------------------------------------------------------
(* The clock interrupt, as in KThreads.tla *)

TickCollect(t) ==
  /\ ~fault
  /\ clock \in {"idle", "collect"}
  /\ tmo[t] = "armed"
  /\ clock' = "collect"
  /\ expired' = <<t>> \o expired
  /\ tmo' = [tmo EXCEPT ![t] = "expired"]
  /\ UNCHANGED <<mutexVars, waitq, prio, tstate, cur, callVars>>

TickHandle ==
  /\ clock \in {"collect", "handle"}
  /\ expired # << >>
  /\ clock' = "handle"
  /\ expired' = Tail(expired)
  /\ tmo' = [tmo EXCEPT ![Head(expired)] = "inactive"]
  /\ \E i \in DOMAIN waitq : waitq[i] = Head(expired) /\ waitq' = RemoveAt(waitq, i)
  /\ tstate' = [tstate EXCEPT ![Head(expired)] = "ready"]
  /\ UNCHANGED <<mutexVars, prio, cur, callVars>>

TickEnd ==
  /\ clock = "handle"
  /\ expired = << >>
  /\ clock' = "idle"
  /\ UNCHANGED <<mutexVars, waitq, prio, tstate, tmo, expired, callVars>>
  /\ Reschedule

Next ==
  \/ \E t \in Threads :
       \/ Sleep(t) \/ Yield(t) \/ WakeUp(t)
       \/ LockNow(t) \/ LockWait(t, TRUE) \/ LockWait(t, FALSE)
       \/ LockGot(t) \/ LockTimedOut(t) \/ LockAdjust(t)
       \/ UnlockNested(t) \/ Unlock(t)
       \/ TickCollect(t)
  \/ TickHandle \/ TickEnd

Spec == Init /\ [][Next]_vars

-----------------------------------------------------------------------------
\* The threads that wait and whose wait the clock interrupt has not ended.
LiveWaiters == {t \in Threads : tstate[t] = "pending" /\ tmo[t] # "expired"}

\* By what k_mutex_lock() and k_mutex_unlock() returned, at most one thread
\* has the mutex, as many times as lock_count says: a hand-over, a timeout and
\* a nested lock never leave two threads inside.
MutualExclusion ==
  TypeOK /\ \A t \in Threads : depth[t] > 0 => owner = t /\ lockCount = depth[t]

\* Nobody waits for a mutex that is free, or that is its own: an unlock that
\* races the end of waits passes nobody over.
WaitersHaveOwner ==
  LiveWaiters # {} => lockCount > 0 /\ owner \in Threads \ LiveWaiters

\* What inheritance is for: while a thread waits for the mutex and the owner
\* could run, no third thread of lower priority than the waiter (or the
\* ceiling) runs.  Two kinds of thread are excepted, because nothing preempts
\* them: one at its return from k_mutex_lock(), which holds the scheduler
\* lock, and a cooperative one, whose priority is negative.
NoInversion ==
  \A w \in LiveWaiters :
    /\ clock = "idle" /\ cur \in Threads \ {owner} /\ tstate[owner] = "ready"
    /\ pc[cur] = "out" /\ prio[cur] >= 0
    => prio[cur] <= Max({prio[w], Ceiling})

\* The priority reverts: a thread without the mutex has the one it came with.
PrioReverts == \A t \in Threads : owner # t => prio[t] = Base[t]

\* A raised priority has a reason: only the owner has one, and only while a
\* thread of at least that priority waits, or has given up and not yet
\* adjusted the owner.  Every waiter that leaves takes its boost along, and an
\* unlock ends it, however often the owner was raised.
BoostJustified ==
  /\ PrioReverts
  /\ \A t \in Threads : prio[t] < Base[t] =>
       \E w \in Threads \ {t} : /\ pc[w] # "out" /\ ret[w] = "EAGAIN"
                                /\ Base[w] <= prio[t]

\* Not guaranteed: a lock that timed out returns -EAGAIN, it finds an owner
\* whose priority to adjust.
OwnerToAdjust == ~fault

=============================================================================
