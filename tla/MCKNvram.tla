------------------------------ MODULE MCKNvram ------------------------------
(***************************************************************************)
(* Two names and two values: an item is overwritten beside one that is     *)
(* not.  Three segments: the oldest is neither copied from nor to.  Two    *)
(* losses of power: the second may hit the recovery from the first.        *)
(***************************************************************************)
EXTENDS KNvram, TLC

\* Names and values are only compared.
Symmetric == Permutations(Names) \cup Permutations(Vals)

=============================================================================
