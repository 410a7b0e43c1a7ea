---------------------------- MODULE MCMsgManager ----------------------------
(***************************************************************************)
(* A cooperative server and two preemptible clients of different priorities,*)
(* which send to the server and to each other; two buffers and as many     *)
(* descriptors, so that both pools run empty.                              *)
(***************************************************************************)
EXTENDS MsgManager, TLC

CONSTANTS t1, t2, t3, a1, a2, b1, b2

MCPrio == t1 :> -1 @@ t2 :> 1 @@ t3 :> 2

=============================================================================
