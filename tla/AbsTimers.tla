----------------------------- MODULE AbsTimers ------------------------------
(***************************************************************************)
(* What the kernel's timeouts promise: a timeout armed for n ticks is      *)
(* handled in the interrupt of the n-th tick from then, not before, not    *)
(* later and once, unless it is stopped first; and a stopped timeout is    *)
(* not handled.  KTimeoutQ.tla implements it with a list of differences.   *)
(***************************************************************************)
EXTENDS Integers

CONSTANTS Timers, MaxTicks, None

VARIABLES
  left,     \* ticks left per timer, or None if it is not armed
  fired     \* the timer that the clock handled in the last step, or None

absVars == <<left, fired>>

AbsInit == left = [t \in Timers |-> None] /\ fired = None

Armed == {t \in Timers : left[t] # None}

\* Arming a timer that is armed starts it anew.
AbsArm(t, n) ==
  /\ left' = [left EXCEPT ![t] = n]
  /\ fired' = None

AbsStop(t) ==
  /\ t \in Armed
  /\ left' = [left EXCEPT ![t] = None]
  /\ fired' = None

\* A tick passes, and not before the timers due in the last one are handled.
AbsAdvance ==
  /\ \A t \in Armed : left[t] > 0
  /\ left' = [t \in Timers |-> IF t \in Armed THEN left[t] - 1 ELSE None]
  /\ fired' = None

AbsFire(t) ==
  /\ left[t] = 0
  /\ left' = [left EXCEPT ![t] = None]
  /\ fired' = t

\* Any other step of the clock interrupt only ends the visibility of fired.
AbsIdle == fired' = None /\ UNCHANGED left

AbsNext ==
  \/ \E t \in Timers, n \in 1..MaxTicks : AbsArm(t, n)
  \/ \E t \in Timers : AbsStop(t) \/ AbsFire(t)
  \/ AbsAdvance
  \/ AbsIdle

AbsSpec == AbsInit /\ [][AbsNext]_absVars

=============================================================================
