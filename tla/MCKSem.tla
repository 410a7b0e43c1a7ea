------------------------------- MODULE MCKSem -------------------------------
(***************************************************************************)
(* A semaphore with limit 2 and three threads, two of them of equal        *)
(* priority: the smallest instance in which the limit is reached, a queue  *)
(* has an equal-priority pair and a thread of another priority, and two    *)
(* timeouts can expire in one clock interrupt while a third thread waits.  *)
(***************************************************************************)
EXTENDS KSem

CONSTANTS t1, t2, t3

MCThreads == {t1, t2, t3}
MCPrio == (t1 :> 1) @@ (t2 :> 2) @@ (t3 :> 2)
=============================================================================
