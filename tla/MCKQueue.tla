------------------------------ MODULE MCKQueue ------------------------------
(***************************************************************************)
(* Three items, two threads that get them and two appenders, each of which *)
(* may be overtaken between its two steps, by the other or by any other    *)
(* operation.  The list can be empty, hold one item (head = tail) or more, *)
(* a list of two can meet no, one or two waiters, and a waiter can be      *)
(* marked by the clock interrupt while an interrupt handler puts an item.  *)
(* Items and appenders are interchangeable.                                *)
(***************************************************************************)
EXTENDS KQueue

CONSTANTS t1, t2, i1, i2, i3, a1, a2

MCThreads == {t1, t2}
MCPrio == (t1 :> 1) @@ (t2 :> 2)
MCItems == {i1, i2, i3}
MCAppenders == {a1, a2}
Interchangeable == Permutations(MCItems) \cup Permutations(MCAppenders)
=============================================================================
