----------------------------- MODULE MCKMemPool -----------------------------
(***************************************************************************)
(* Two threads and one block of the largest size, which breaks into four and*)
(* again into four: a thread holds or waits for a block of each level while*)
(* the other one breaks up or frees the memory around it.                  *)
(***************************************************************************)
EXTENDS KMemPool, TLC

CONSTANTS t1, t2

Symmetric == Permutations(Threads)

=============================================================================
