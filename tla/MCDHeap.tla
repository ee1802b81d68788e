------------------------------ MODULE MCDHeap ------------------------------
(***************************************************************************)
(* Six timers fill two levels under the first entry of a binary heap: the  *)
(* smallest one where the entry that takes the place of a stopped timer    *)
(* may have to go up.                                                      *)
(***************************************************************************)
EXTENDS DHeap, TLC

MCTimes    == 0 .. 2
MCSymmetry == Permutations(Watchers)
=============================================================================
