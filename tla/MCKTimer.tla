------------------------------ MODULE MCKTimer ------------------------------
(***************************************************************************)
(* One k_timer, x, among two other timeouts, which can share a tick with   *)
(* it or be due before and after it, so that its delta is split and merged *)
(* while it runs; two threads of different priorities that wait for it and *)
(* stop it.                                                                *)
(***************************************************************************)
EXTENDS KTimer

CONSTANTS x, y, z, t1, t2

MCTimers == {x, y, z}
MCPrio == (t1 :> 1) @@ (t2 :> 2)
=============================================================================
