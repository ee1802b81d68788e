----------------------------- MODULE MCMsQueue -----------------------------
(* Two producers with three values between them, and two consumers.        *)
EXTENDS MsQueue

CONSTANTS p1, p2, c1, c2

MCItems == [p \in Producers |-> IF p = p1 THEN 2 ELSE 1]
=============================================================================
