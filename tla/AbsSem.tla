------------------------------- MODULE AbsSem -------------------------------
(***************************************************************************)
(* What a semaphore promises (k_sem_give, k_sem_take and k_sem_reset in    *)
(* src/sdk014_ZS285A/include/kernel.h): units are created by a give up to  *)
(* the limit, each is consumed by exactly one successful take, a blocked   *)
(* take ends in exactly one of two ways, and a give never creates a spare  *)
(* unit while somebody waits.  KSem.tla implements it.                     *)
(***************************************************************************)
EXTENDS Integers

CONSTANTS Threads, Limit, InitCount

VARIABLES
  avail,     \* units nobody holds
  result     \* per thread: "waiting", or how its last take ended

absVars == <<avail, result>>

AbsInit ==
  /\ avail = InitCount
  /\ result = [t \in Threads |-> "none"]

\* The threads blocked in a take.
Waiting == {t \in Threads : result[t] = "waiting"}

\* A give to one of the waiting threads.
AbsGrant(t) ==
  /\ t \in Waiting
  /\ result' = [result EXCEPT ![t] = "OK"]
  /\ UNCHANGED avail

\* A give with nobody waiting.
AbsDeposit ==
  /\ Waiting = {}
  /\ avail' = IF avail < Limit THEN avail + 1 ELSE Limit
  /\ UNCHANGED result

AbsTake(t) ==
  /\ t \notin Waiting
  /\ avail > 0
  /\ avail' = avail - 1
  /\ result' = [result EXCEPT ![t] = "OK"]

\* A take that finds no unit returns at once, or blocks.
AbsRefuse(t) ==
  /\ t \notin Waiting
  /\ avail = 0
  /\ result' = [result EXCEPT ![t] = "EBUSY"]
  /\ UNCHANGED avail

AbsBlock(t) ==
  /\ t \notin Waiting
  /\ avail = 0
  /\ result' = [result EXCEPT ![t] = "waiting"]
  /\ UNCHANGED avail

\* A wait ends without a unit; from here on no give is spent on t.
AbsTimeout(t) ==
  /\ t \in Waiting
  /\ result' = [result EXCEPT ![t] = "EAGAIN"]
  /\ UNCHANGED avail

\* A take by an interrupt handler.
AbsIsrTake == avail > 0 /\ avail' = avail - 1 /\ UNCHANGED result

AbsReset == avail' = 0 /\ UNCHANGED result

AbsNext ==
  \/ \E t \in Threads :
       AbsGrant(t) \/ AbsTake(t) \/ AbsRefuse(t) \/ AbsBlock(t) \/ AbsTimeout(t)
  \/ AbsDeposit
  \/ AbsIsrTake
  \/ AbsReset

AbsSpec == AbsInit /\ [][AbsNext]_absVars

=============================================================================
