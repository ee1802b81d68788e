----------------------------- MODULE MCEvStat ------------------------------
(***************************************************************************)
(* Two watchers of one path, of which the file and its directory change    *)
(* three times; one is stopped and started again, or both are started.     *)
(***************************************************************************)
EXTENDS StatWatchers, TLC

CONSTANTS w1, w2

Symmetry == Permutations(Stats)
=============================================================================
