---------------------------- MODULE QueueThreads ----------------------------
(***************************************************************************)
(* What the linked queue and the ring of examples/lock_free have in common:*)
(* their threads, their two ends and their elements.                       *)
(***************************************************************************)
CONSTANTS
    Producers, Consumers,
    none,       \* no value
    empty       \* dequeue returned false

VARIABLES
    head_, tail_,   \* a pointer to a node of the list, a position of the ring
    data,       \* of each node, of each slot
    pc,         \* where each thread is
    out,        \* a consumer's: what its last dequeue returned
    sent,       \* how many enqueues of each producer have been done
    got         \* history: how often each value was dequeued
=============================================================================
