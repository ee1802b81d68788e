------------------------------ MODULE MpmcRing ------------------------------
(***************************************************************************)
(* The ring of MpmcQueue and what is checked and proved of it, under names *)
(* of their own beside those of the linked queue.                          *)
(***************************************************************************)
EXTENDS QueueThreads

CONSTANTS Uses, raw
VARIABLES use, stamp, pos, seen, item, claims

Ring == INSTANCE MpmcQueue

ASSUME UsesAssumption == Ring!UsesRight

RingSpec == Ring!Spec

\* No two threads are at one slot, and its stamp tells whether it has an element
\* (lockfree_mpmc_queue.hpp:167-178, 272-279).
RingKept == Ring!SlotsKept

\* What is enqueued comes out once and in order, and dequeue returns false only when
\* there was nothing, whatever the two sides do at the same time.
RingIsFifo == Ring!FifoRefined

\* Every value that is enqueued is dequeued in the end.
RingEmpties == Ring!EveryValueArrives
=============================================================================
