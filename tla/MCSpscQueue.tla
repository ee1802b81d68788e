---------------------------- MODULE MCSpscQueue ----------------------------
(* A ring of two slots that goes round more than twice.                    *)
EXTENDS SpscQueue
=============================================================================
