---------------------------- MODULE MCEvBackend ----------------------------
(***************************************************************************)
(* Two descriptors, so that poll has one to move into the place of the     *)
(* other, and two watchers on the first.                                   *)
(***************************************************************************)
EXTENDS Integers, OtherBackends, TLC

CONSTANTS w1, w2, w3

MCFdOf     == w1 :> 0 @@ w2 :> 0 @@ w3 :> 1
MCEventsOf == w1 :> {"r"} @@ w2 :> {"w"} @@ w3 :> {"r", "w"}
=============================================================================
