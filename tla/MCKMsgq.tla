------------------------------ MODULE MCKMsgq -------------------------------
(***************************************************************************)
(* Two threads, interrupt handlers and a buffer of two messages: the ring  *)
(* wraps, both threads can wait to write, one's timeout can be marked      *)
(* while the other still waits, and a handler that nests in the clock      *)
(* interrupt can empty or fill the buffer in between.  Two message values  *)
(* tell a wrong order from a right one.                                    *)
(***************************************************************************)
EXTENDS KMsgq

CONSTANTS t1, t2, m1, m2

MCThreads == {t1, t2}
MCPrio == (t1 :> 1) @@ (t2 :> 2)
MCMsgs == {m1, m2}
=============================================================================
