---------------------------- MODULE MCMpmcQueue ----------------------------
(***************************************************************************)
(* Instances of MpmcQueue.                                                 *)
(*   Sound: one thread on each side and a ring that goes round; two on each*)
(*     side and fewer values than slots; two producers, one consumer and as*)
(*     many values as slots.                                               *)
(*   Lapping: two on each side and more values than slots, as in bench.cpp *)
(*     (four on each side, 100000 values, 65536 slots).                    *)
(***************************************************************************)
EXTENDS Integers, MpmcRing

CONSTANTS p1, p2, c1, c2

Shares(a, b) == [p \in Producers |-> IF p = p1 THEN a ELSE b]

Sound ==
    {[capacity |-> 2, items |-> Shares(5, 0), consumers |-> {c1}],
     [capacity |-> 4, items |-> Shares(2, 1), consumers |-> {c1, c2}],
     [capacity |-> 4, items |-> Shares(2, 2), consumers |-> {c1}]}

\* No thread of these is lapped: what is proved of the ring is proved of them.
ASSUME SoundUnlapped == \A u \in Sound : Ring!Unlapped(u)

Lapping == {[capacity |-> 2, items |-> Shares(2, 1), consumers |-> {c1, c2}]}
=============================================================================
