----------------------------- MODULE MCEvTimer -----------------------------
(***************************************************************************)
(* Two watchers of any two of these kinds. A jump of 3 is seen as one, a   *)
(* jump of 1 is not; the real-time clock is read every other tick.         *)
(***************************************************************************)
EXTENDS EvTimer, TLC

MCKinds == {[kind |-> "timer", after |-> 1, repeat |-> 0],
            [kind |-> "timer", after |-> 2, repeat |-> 2],
            [kind |-> "periodic", offset |-> 1, interval |-> 2],
            [kind |-> "periodic", offset |-> 2, interval |-> 0],
            [kind |-> "manual"]}
MCJumps == {-3, -1, 3}
MCSymmetry == Permutations(Watchers)
=============================================================================
