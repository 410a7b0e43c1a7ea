------------------------------- MODULE MCKWork ------------------------------
(***************************************************************************)
(* Two delayed work items that share a work queue, one of them without a   *)
(* handler, and a thread that cancels them and waits.                      *)
(***************************************************************************)
EXTENDS KWork

CONSTANTS w1, w2, q1, c1

MCWorks == {w1, w2}
Unhandled == {w2}
OneQueue == {q1}
MCCancellers == {c1}
=============================================================================
