------------------------------ MODULE MCKMutex ------------------------------
(***************************************************************************)
(* Three threads of different priorities, one of them above the ceiling:   *)
(* the owner can be raised, by waiters that leave in either order, and a   *)
(* thread between owner and waiter is there to be kept from running.       *)
(***************************************************************************)
EXTENDS KMutex

CONSTANTS t1, t2, t3

MCThreads == {t1, t2, t3}
MCBase == (t1 :> 0) @@ (t2 :> 2) @@ (t3 :> 3)
=============================================================================
