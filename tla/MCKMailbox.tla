----------------------------- MODULE MCKMailbox -----------------------------
(***************************************************************************)
(* Three threads, one above the others: a sender, a receiver and one that  *)
(* overtakes, times out or clears.  One descriptor, so that asynchronous   *)
(* senders wait for it, and one semaphore passed with a message.  The thread*)
(* that clears has the highest priority: nobody preempts its walk.         *)
(***************************************************************************)
EXTENDS KMailbox, TLC

CONSTANTS t1, t2, t3, a1, a2, s1

MCPrio == t1 :> 1 @@ t2 :> 2 @@ t3 :> 2

=============================================================================
