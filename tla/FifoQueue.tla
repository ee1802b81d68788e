----------------------------- MODULE FifoQueue -----------------------------
(***************************************************************************)
(* What a queue of examples/lock_free promises to the threads that use it: *)
(* every enqueue and every dequeue takes effect at one instant between its *)
(* call and its return, values leave in the order they came, none is lost  *)
(* and none is delivered twice, and a dequeue that returns false met an    *)
(* empty queue.                                                            *)
(*                                                                         *)
(* A dequeue may find the queue empty and then look again (Recheck): the   *)
(* Michael and Scott queue does so when its head has moved meanwhile.      *)
(***************************************************************************)
EXTENDS Sequences

CONSTANTS Consumers, Values, none, empty

VARIABLES
    queue,  \* the values enqueued and not yet taken
    taken,  \* what each dequeue in progress has found, none before it did
    out     \* what the last dequeue of each consumer returned

vars == <<queue, taken, out>>

Init ==
    /\ queue = <<>>
    /\ taken = [c \in Consumers |-> none]
    /\ out = [c \in Consumers |-> none]

Enqueue(v) ==
    /\ queue' = Append(queue, v)
    /\ UNCHANGED <<taken, out>>

Take(c) ==
    /\ taken[c] = none
    /\ queue # <<>>
    /\ taken' = [taken EXCEPT ![c] = Head(queue)]
    /\ queue' = Tail(queue)
    /\ UNCHANGED out

FindEmpty(c) ==
    /\ taken[c] = none
    /\ queue = <<>>
    /\ taken' = [taken EXCEPT ![c] = empty]
    /\ UNCHANGED <<queue, out>>

Recheck(c) ==
    /\ taken[c] = empty
    /\ taken' = [taken EXCEPT ![c] = none]
    /\ UNCHANGED <<queue, out>>

Return(c) ==
    /\ taken[c] # none
    /\ out' = [out EXCEPT ![c] = taken[c]]
    /\ taken' = [taken EXCEPT ![c] = none]
    /\ UNCHANGED queue

Next ==
    \/ \E v \in Values : Enqueue(v)
    \/ \E c \in Consumers : Take(c) \/ FindEmpty(c) \/ Recheck(c) \/ Return(c)

Spec == Init /\ [][Next]_vars
=============================================================================
