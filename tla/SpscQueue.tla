----------------------------- MODULE SpscQueue -----------------------------
(***************************************************************************)
(* The single-producer single-consumer ring of                             *)
(* examples/lock_free/lockfree_spsc_queue.hpp, used as spsc_bench.cpp uses *)
(* it: one thread enqueues Items values and tries again when the ring is   *)
(* full, another dequeues until it has them all, and the ring is destroyed *)
(* when both have been joined.                                             *)
(*                                                                         *)
(* Every load, store, construction and destruction is a step. A release    *)
(* store of x86-64 is a plain store: it waits in the store buffer of its   *)
(* processor, behind the stores that came before it. The raw memory of a   *)
(* slot holds raw until an element is constructed in it.                   *)
(***************************************************************************)
EXTENDS Integers, Sequences

CONSTANTS
    capacity_,  \* what the constructor was given
    Items,      \* how many values the producer has
    raw,        \* memory without an element in it
    broken,     \* an element constructed over another, or destroyed twice
    none,       \* no value
    empty       \* dequeue returned false

Values == 1 .. Items
Slots  == 0 .. capacity_ - 1

\* The constructor takes powers of two, zero included; a ring without slots is
\* left out.
ASSUME CapacityAssumption ==
    /\ capacity_ \in Nat \ {0}
    /\ Items \in Nat
    /\ {raw, broken, none, empty} \cap Values = {}
    /\ raw # broken /\ none # empty

Slot(pos)  == <<"data", pos % capacity_>>
write_     == <<"write_", 0>>
read_      == <<"read_", 0>>
Locs       == {write_, read_} \cup ({"data"} \X Slots)
Threads    == {"producer", "consumer"}

VARIABLES
    mem,     \* what has reached memory
    buffer,  \* the stores that have not, of each thread
    ppc,     \* the producer in enqueue
    sent,    \* how many values it has enqueued
    cpc,     \* the consumer in dequeue
    item,    \* the value dequeue has moved out of its slot
    out,     \* what the last dequeue returned
    done,    \* how many values the consumer has
    alive    \* the ring has not been destroyed

vars == <<mem, buffer, ppc, sent, cpc, item, out, done, alive>>
producerVars == <<ppc, sent>>
consumerVars == <<cpc, item, out, done>>
-----------------------------------------------------------------------------
(* The processors.                                                         *)

\* A load sees the thread's own latest store, or what is in memory.
Load(t, loc) ==
    LET own == {i \in 1 .. Len(buffer[t]) : buffer[t][i].loc = loc}
    IN  IF own = {} THEN mem[loc]
        ELSE buffer[t][CHOOSE i \in own : \A j \in own : j <= i].val

Store(t, loc, val) ==
    buffer' = [buffer EXCEPT ![t] = Append(@, [loc |-> loc, val |-> val])]

\* An element is constructed in raw memory only, and destroyed only once.
Overwrite(loc, val) ==
    IF loc[1] = "data" /\ (val = raw) = (mem[loc] = raw) THEN broken ELSE val

Drain(t) ==
    /\ buffer[t] # <<>>
    /\ LET e == Head(buffer[t])
       IN  mem' = [mem EXCEPT ![e.loc] = Overwrite(e.loc, e.val)]
    /\ buffer' = [buffer EXCEPT ![t] = Tail(@)]
    /\ UNCHANGED <<producerVars, consumerVars, alive>>
-----------------------------------------------------------------------------
(* enqueue, called again with the same value while it returns false.       *)

TestFullOffByOne ==
    /\ ppc = "idle" /\ sent < Items
    /\ Load("producer", write_) - Load("producer", read_) <= capacity_
    /\ ppc' = "construct"
    /\ UNCHANGED <<mem, buffer, sent, consumerVars, alive>>

\* A call that finds the ring full changes nothing.
TestFull ==
    /\ ppc = "idle" /\ sent < Items
    /\ Load("producer", write_) - Load("producer", read_) < capacity_
    /\ ppc' = "construct"
    /\ UNCHANGED <<mem, buffer, sent, consumerVars, alive>>

ConstructAfterPublish ==
    /\ ppc = "construct"
    /\ LET w == Load("producer", write_) IN
       buffer' = [buffer EXCEPT !["producer"] =
           @ \o <<[loc |-> write_, val |-> w + 1], [loc |-> Slot(w), val |-> sent + 1]>>]
    /\ ppc' = "idle"
    /\ sent' = sent + 1
    /\ UNCHANGED <<mem, consumerVars, alive>>

Construct ==
    /\ ppc = "construct"
    /\ Store("producer", Slot(Load("producer", write_)), sent + 1)
    /\ ppc' = "publish"
    /\ UNCHANGED <<mem, sent, consumerVars, alive>>

Publish ==
    /\ ppc = "publish"
    /\ Store("producer", write_, Load("producer", write_) + 1)
    /\ ppc' = "idle"
    /\ sent' = sent + 1
    /\ UNCHANGED <<mem, consumerVars, alive>>

Producer == TestFull \/ Construct \/ Publish
-----------------------------------------------------------------------------
(* dequeue, called until the consumer has every value.                     *)

TestEmptyOffByOne ==
    /\ cpc = "idle" /\ done < Items
    /\ cpc' = IF Load("consumer", write_) - Load("consumer", read_) <= 1
              THEN "false" ELSE "move"
    /\ UNCHANGED <<mem, buffer, producerVars, item, out, done, alive>>

TestEmpty ==
    /\ cpc = "idle" /\ done < Items
    /\ cpc' = IF Load("consumer", read_) = Load("consumer", write_)
              THEN "false" ELSE "move"
    /\ UNCHANGED <<mem, buffer, producerVars, item, out, done, alive>>

ReturnFalse ==
    /\ cpc = "false"
    /\ cpc' = "idle"
    /\ out' = empty
    /\ UNCHANGED <<mem, buffer, producerVars, item, done, alive>>

MoveOut ==
    /\ cpc = "move"
    /\ item' = Load("consumer", Slot(Load("consumer", read_)))
    /\ cpc' = "destroy"
    /\ UNCHANGED <<mem, buffer, producerVars, out, done, alive>>

DestroyAfterRelease ==
    /\ cpc = "destroy"
    /\ LET r == Load("consumer", read_) IN
       buffer' = [buffer EXCEPT !["consumer"] =
           @ \o <<[loc |-> read_, val |-> r + 1], [loc |-> Slot(r), val |-> raw]>>]
    /\ cpc' = "idle"
    /\ out' = item
    /\ done' = done + 1
    /\ UNCHANGED <<mem, producerVars, item, alive>>

Destroy ==
    /\ cpc = "destroy"
    /\ Store("consumer", Slot(Load("consumer", read_)), raw)
    /\ cpc' = "release"
    /\ UNCHANGED <<mem, producerVars, item, out, done, alive>>

Release ==
    /\ cpc = "release"
    /\ Store("consumer", read_, Load("consumer", read_) + 1)
    /\ cpc' = "idle"
    /\ out' = item
    /\ done' = done + 1
    /\ UNCHANGED <<mem, producerVars, item, alive>>

Consumer == TestEmpty \/ ReturnFalse \/ MoveOut \/ Destroy \/ Release
-----------------------------------------------------------------------------
\* Both threads are outside the ring and joined, which drains their buffers.
Joined == ppc = "idle" /\ cpc = "idle" /\ \A t \in Threads : buffer[t] = <<>>

\* ~LockFreeSPSCQueue destroys the elements that were not consumed. A program
\* may stop its threads before all values have gone through.
Destruct ==
    /\ alive /\ Joined
    /\ mem' = [l \in Locs |->
                IF \E i \in mem[read_] .. mem[write_] - 1 : l = Slot(i)
                THEN Overwrite(l, raw) ELSE mem[l]]
    /\ alive' = FALSE
    /\ UNCHANGED <<buffer, producerVars, consumerVars>>

Init ==
    /\ mem = [l \in Locs |-> IF l \in {write_, read_} THEN 0 ELSE raw]
    /\ buffer = [t \in Threads |-> <<>>]
    /\ ppc = "idle" /\ sent = 0
    /\ cpc = "idle" /\ item = none /\ out = none /\ done = 0
    /\ alive = TRUE

Next ==
    \/ alive /\ (Producer \/ Consumer)
    \/ \E t \in Threads : Drain(t)
    \/ Destruct

\* Threads that are not stopped run on, and processors drain their buffers.
Fairness ==
    /\ WF_vars(alive /\ Producer)
    /\ WF_vars(alive /\ Consumer)
    /\ \A t \in Threads : WF_vars(Drain(t))

Spec == Init /\ [][Next]_vars /\ Fairness
-----------------------------------------------------------------------------
(* Properties.                                                             *)

\* What dequeue moves out of a slot is an element the producer constructed
\* there (lockfree_spsc_queue.hpp:115), and both positions stay in range.
TypeOK ==
    /\ mem \in [Locs -> Values \cup {raw, broken, 0}]
    /\ mem[read_] \in 0 .. Items /\ mem[write_] \in 0 .. Items
    /\ ppc \in {"idle", "construct", "publish"}
    /\ sent \in 0 .. Items
    /\ cpc \in {"idle", "false", "move", "destroy", "release"}
    /\ item \in Values \cup {none}
    /\ out \in Values \cup {none, empty}
    /\ done \in 0 .. Items
    /\ alive \in BOOLEAN

\* No element is constructed over a live one and none is destroyed twice, by
\* the threads (lockfree_spsc_queue.hpp:83 and 116) or by the destructor.
SlotsSound == \A i \in Slots : mem[<<"data", i>>] # broken

\* The destructor leaves no element behind (lockfree_spsc_queue.hpp:55-63).
NothingLeaks == ~alive => \A i \in Slots : mem[<<"data", i>>] = raw

\* All that holds of the memory of the ring.
RingSound == TypeOK /\ SlotsSound /\ NothingLeaks

\* The values between the consumer's position and what it can see of the
\* producer's, without the one it has moved out already.
Queue ==
    LET first == Load("consumer", read_) + (IF cpc \in {"destroy", "release"} THEN 1 ELSE 0)
    IN  [k \in 1 .. mem[write_] - first |-> mem[Slot(first + k - 1)]]

Fifo == INSTANCE FifoQueue WITH
    Consumers <- {"consumer"},
    queue <- IF alive THEN Queue ELSE <<>>,
    taken <- [c \in {"consumer"} |->
               IF cpc \in {"destroy", "release"} THEN item
               ELSE IF cpc = "false" THEN empty ELSE none],
    out <- [c \in {"consumer"} |-> out]

\* While it lives the ring is a first-in first-out queue: a value enters when
\* its write_ reaches memory and leaves when dequeue moves it out, and a
\* dequeue that returns false met an empty queue.
FifoRefined == Fifo!Init /\ [][alive' => Fifo!Next]_(Fifo!vars)

\* A program that keeps its ring gets every value through it: neither thread
\* waits for ever (spsc_bench.cpp, test_1p1c).
EveryValueArrives == (<>~alive) \/ <>(done = Items)
=============================================================================
