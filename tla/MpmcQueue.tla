----------------------------- MODULE MpmcQueue -----------------------------
(***************************************************************************)
(* The multi-producer multi-consumer ring of                               *)
(* examples/lock_free/lockfree_mpmc_queue.hpp, used as bench.cpp uses it:  *)
(* producers call enqueue again while it returns false, consumers go on    *)
(* dequeuing until all values have come out.                               *)
(*                                                                         *)
(* A slot belongs to the producers while its stamp has the parity of the   *)
(* position that is about to use it, and to the consumers otherwise. Each  *)
(* atomic access is a step; so are moving an element out of its slot and   *)
(* destroying it, which the stamp is supposed to keep apart from what      *)
(* other threads do. Steps of different threads interleave: x86-64 could   *)
(* delay a store of a stamp, which the model shows as a thread that is slow*)
(* to take that step.                                                      *)
(*                                                                         *)
(* The ring works for some programs and not for others. A behavior begins  *)
(* with the choice of one of Uses: the capacity, how many values each      *)
(* producer has and which consumers there are.                             *)
(***************************************************************************)
EXTENDS Integers, FiniteSets, Functions, QueueThreads

CONSTANTS
    Uses,       \* records [capacity, items, consumers]
    raw         \* memory without an element

UsesRight ==
    /\ Producers \cap Consumers = {}
    /\ {raw, none, empty} \cap (Producers \X Nat) = {} /\ none # empty
    /\ \A u \in Uses : /\ u.capacity \in Nat \ {0}
                       /\ u.items \in [Producers -> Nat]
                       /\ u.consumers \subseteq Consumers

VARIABLES
    use,        \* what the program does with the ring
    stamp,      \* of each slot
    pos,        \* the position of each thread
    seen,       \* the stamp it loaded
    item,       \* a consumer's: the element it moved out
    claims      \* history: <<position, value>> of each enqueue that took a slot

\* head_ is the next position to enqueue at, tail_ the next to dequeue from, and data
\* of a slot without an element is raw.
vars == <<use, stamp, data, head_, tail_, pc, pos, seen, item, out, sent, claims, got>>

Slot(p)    == p % use.capacity
Slots      == 0 .. use.capacity - 1
SameParity(a, b) == a % 2 = b % 2

Value(p)    == <<p, sent[p] + 1>>
ValuesOf(u) == UNION {{p} \X (1 .. u.items[p]) : p \in Producers}
Values      == ValuesOf(use)
Goto(t, where) == pc' = [pc EXCEPT ![t] = where]

\* A thread is lapped when others go round the ring while it holds a slot. None is
\* when one thread works on a side alone, or when there are not values enough to go
\* round. The constructor asks for a power of two; 1 is one and does not work.
Unlapped(u) ==
    /\ u.capacity % 2 = 0
    /\ \/ \A p, q \in Producers : u.items[p] > 0 /\ u.items[q] > 0 => p = q
       \/ IsFiniteSet(ValuesOf(u)) /\ Cardinality(ValuesOf(u)) <= u.capacity
    /\ \/ \A c, d \in u.consumers : c = d
       \/ IsFiniteSet(ValuesOf(u)) /\ Cardinality(ValuesOf(u)) < u.capacity
-----------------------------------------------------------------------------
(* do_enqueue                                                              *)

LoadHead(p) ==
    /\ pc[p] = "head" /\ sent[p] < use.items[p]
    /\ pos' = [pos EXCEPT ![p] = head_]
    /\ Goto(p, "stamp")
    /\ UNCHANGED <<use, stamp, data, head_, tail_, seen, item, out, sent, claims, got>>

\* A slot that holds an element: the ring looks full, and it tries again.
LoadStamp(p) ==
    /\ pc[p] = "stamp"
    /\ seen' = [seen EXCEPT ![p] = stamp[Slot(pos[p])]]
    /\ Goto(p, IF SameParity(pos[p], seen'[p]) THEN "cas" ELSE "head")
    /\ UNCHANGED <<use, stamp, data, head_, tail_, pos, item, out, sent, claims, got>>

ClaimHeadBlindly(p) ==
    /\ pc[p] = "cas"
    /\ head_' = pos[p] + 1
    /\ claims' = claims \cup {<<pos[p], Value(p)>>}
    /\ Goto(p, "construct")
    /\ UNCHANGED <<use, stamp, data, tail_, pos, seen, item, out, sent, got>>

\* Having moved head_, a producer that finds another lap's stamp returns
\* false. Its caller calls enqueue again, with the same value.
ClaimHead(p) ==
    /\ pc[p] = "cas"
    /\ IF head_ # pos[p]
       THEN Goto(p, "head") /\ UNCHANGED <<head_, claims>>
       ELSE /\ head_' = head_ + 1
            /\ IF seen[p] = pos[p]
               THEN /\ Goto(p, "construct")
                    /\ claims' = claims \cup {<<pos[p], Value(p)>>}
               ELSE Goto(p, "head") /\ UNCHANGED claims
    /\ UNCHANGED <<use, stamp, data, tail_, pos, seen, item, out, sent, got>>

Construct(p) ==
    /\ pc[p] = "construct"
    /\ data' = [data EXCEPT ![Slot(pos[p])] = Value(p)]
    /\ Goto(p, "publish")
    /\ UNCHANGED <<use, stamp, head_, tail_, pos, seen, item, out, sent, claims, got>>

Publish(p) ==
    /\ pc[p] = "publish"
    /\ stamp' = [stamp EXCEPT ![Slot(pos[p])] = pos[p] + 1]
    /\ sent' = [sent EXCEPT ![p] = @ + 1]
    /\ Goto(p, "head")
    /\ UNCHANGED <<use, data, head_, tail_, pos, seen, item, out, claims, got>>

Producer(p) == LoadHead(p) \/ LoadStamp(p) \/ ClaimHead(p) \/ Construct(p) \/ Publish(p)
-----------------------------------------------------------------------------
(* dequeue                                                                 *)

\* A consumer of the bench stops when all values have come out.
LoadTail(c) ==
    /\ c \in use.consumers
    /\ pc[c] = "tail" /\ SumFunction(got) < Cardinality(Values)
    /\ pos' = [pos EXCEPT ![c] = tail_]
    /\ Goto(c, "stamp")
    /\ UNCHANGED <<use, stamp, data, head_, tail_, seen, item, out, sent, claims, got>>

LoadStampOfData(c) ==
    /\ pc[c] = "stamp"
    /\ seen' = [seen EXCEPT ![c] = stamp[Slot(pos[c])]]
    /\ Goto(c, IF SameParity(pos[c], seen'[c]) THEN "empty" ELSE "cas")
    /\ UNCHANGED <<use, stamp, data, head_, tail_, pos, item, out, sent, claims, got>>

TestEmptyOffByOne(c) ==
    /\ pc[c] = "empty"
    /\ Goto(c, IF head_ <= pos[c] + 1 THEN "false" ELSE "tail")
    /\ UNCHANGED <<use, stamp, data, head_, tail_, pos, seen, item, out, sent, claims, got>>

\* No element in the slot: either the ring is empty, or a producer has claimed
\* the position and dequeue waits for it.
TestEmpty(c) ==
    /\ pc[c] = "empty"
    /\ Goto(c, IF head_ <= pos[c] THEN "false" ELSE "tail")
    /\ UNCHANGED <<use, stamp, data, head_, tail_, pos, seen, item, out, sent, claims, got>>

ReturnFalse(c) ==
    /\ pc[c] = "false"
    /\ out' = [out EXCEPT ![c] = empty]
    /\ Goto(c, "tail")
    /\ UNCHANGED <<use, stamp, data, head_, tail_, pos, seen, item, sent, claims, got>>

ClaimTailBlindly(c) ==
    /\ pc[c] = "cas"
    /\ tail_' = pos[c] + 1
    /\ Goto(c, "move")
    /\ UNCHANGED <<use, stamp, data, head_, pos, seen, item, out, sent, claims, got>>

\* The parities differ, so the stamp cannot be the position: dequeue never
\* reaches its final return false.
ClaimTail(c) ==
    /\ pc[c] = "cas"
    /\ IF tail_ # pos[c]
       THEN Goto(c, "tail") /\ UNCHANGED tail_
       ELSE Goto(c, "move") /\ tail_' = tail_ + 1
    /\ UNCHANGED <<use, stamp, data, head_, pos, seen, item, out, sent, claims, got>>

MoveOut(c) ==
    /\ pc[c] = "move"
    /\ item' = [item EXCEPT ![c] = data[Slot(pos[c])]]
    /\ Goto(c, "destroy")
    /\ UNCHANGED <<use, stamp, data, head_, tail_, pos, seen, out, sent, claims, got>>

Destroy(c) ==
    /\ pc[c] = "destroy"
    /\ data' = [data EXCEPT ![Slot(pos[c])] = raw]
    /\ Goto(c, "release")
    /\ UNCHANGED <<use, stamp, head_, tail_, pos, seen, item, out, sent, claims, got>>

Release(c) ==
    /\ pc[c] = "release"
    /\ stamp' = [stamp EXCEPT ![Slot(pos[c])] = pos[c] + use.capacity]
    /\ out' = [out EXCEPT ![c] = item[c]]
    /\ got' = [v \in DOMAIN got |-> got[v] + (IF v = item[c] THEN 1 ELSE 0)]
    /\ Goto(c, "tail")
    /\ UNCHANGED <<use, data, head_, tail_, pos, seen, item, sent, claims>>

Consumer(c) ==
    \/ LoadTail(c) \/ LoadStampOfData(c) \/ TestEmpty(c) \/ ReturnFalse(c)
    \/ ClaimTail(c) \/ MoveOut(c) \/ Destroy(c) \/ Release(c)
-----------------------------------------------------------------------------
Threads == Producers \cup Consumers

\* The constructor gives slot i the stamp i.
Init ==
    /\ use \in Uses
    /\ stamp = [i \in Slots |-> i]
    /\ data = [i \in Slots |-> raw]
    /\ head_ = 0 /\ tail_ = 0
    /\ pc = [t \in Threads |-> IF t \in Producers THEN "head" ELSE "tail"]
    /\ pos = [t \in Threads |-> 0]
    /\ seen = [t \in Threads |-> 0]
    /\ item = [c \in Consumers |-> none]
    /\ out = [c \in Consumers |-> none]
    /\ sent = [p \in Producers |-> 0]
    /\ claims = {}
    /\ got = [v \in Values |-> 0]

Next ==
    \/ \E p \in Producers : Producer(p)
    \/ \E c \in Consumers : Consumer(c)

\* The threads run.
Fairness ==
    /\ \A p \in Producers : WF_vars(Producer(p))
    /\ \A c \in Consumers : WF_vars(Consumer(c))

Spec == Init /\ [][Next]_vars /\ Fairness
-----------------------------------------------------------------------------
(* Properties.                                                             *)

\* Stamps and positions grow, and what dequeue moves out is an element.
TypeOK ==
    /\ use \in Uses
    /\ stamp \in [Slots -> Nat]
    /\ data \in [Slots -> Values \cup {raw}]
    /\ {head_, tail_} \subseteq Nat
    /\ pc \in [Threads -> {"head", "stamp", "cas", "construct", "publish",
                          "tail", "empty", "false", "move", "destroy", "release"}]
    /\ pos \in [Threads -> Nat] /\ seen \in [Threads -> Nat]
    /\ item \in [Consumers -> Values \cup {none}]
    /\ out \in [Consumers -> Values \cup {none, empty}]
    /\ sent \in [Producers -> Nat] /\ \A p \in Producers : sent[p] <= use.items[p]
    /\ claims \subseteq Nat \X Values
    /\ got \in [Values -> Nat]

\* Between its claim and the stamp it stores, a thread has the slot for itself:
\* the plain accesses of two threads to one element never race
\* (lockfree_mpmc_queue.hpp:167-178 and 272-279).
Holds(t, i) == pc[t] \in {"construct", "publish", "move", "destroy", "release"} /\ Slot(pos[t]) = i
SlotsExclusive == \A t, u \in Threads : \A i \in Slots : Holds(t, i) /\ Holds(u, i) => t = u

\* A slot has an element exactly when its stamp says so or its holder does:
\* none is constructed over a live one and none is destroyed twice.
StampTells ==
    \A i \in Slots :
        (data[i] # raw) <=>
            \/ ~SameParity(stamp[i], i) /\ ~\E c \in Consumers : Holds(c, i) /\ pc[c] = "release"
            \/ \E p \in Producers : Holds(p, i) /\ pc[p] = "publish"

\* All that holds of the slots, in the uses in which no thread is lapped.
SlotsKept == TypeOK /\ SlotsExclusive /\ StampTells

\* The test of the bench: "all values are consumed and each value exactly once"
\* (ms_bench.cpp:287).
ExactlyOnce == \A v \in Values : got[v] <= 1

\* "A producer always writes immediately after its claim", which is why dequeue
\* may wait for it (lockfree_mpmc_queue.hpp:153-154): a position that was
\* claimed has an element, or will, or had.
ClaimIsKept == \A n \in 0 .. head_ - 1 : \E v \in Values : <<n, v>> \in claims

Queue == [k \in 1 .. head_ - tail_ |-> CHOOSE v \in Values : <<tail_ + k - 1, v>> \in claims]

Fifo == INSTANCE FifoQueue WITH
    Values <- UNION {ValuesOf(u) : u \in Uses},
    queue <- Queue,
    taken <- [c \in Consumers |->
               IF pc[c] = "move" THEN data[Slot(pos[c])]
               ELSE IF pc[c] \in {"destroy", "release"} THEN item[c]
               ELSE IF pc[c] = "false" THEN empty ELSE none]

\* In the uses it works for, the ring is a first-in first-out queue: an enqueue
\* takes effect when it moves head_, a dequeue when it moves tail_ or finds
\* head_ not beyond its position.
FifoRefined == Fifo!Spec

\* ... and everything that is enqueued comes out, exactly once, although both
\* sides wait for each other without blocking (bench.cpp, test_mpmc).
EveryValueArrives == <>[](\A v \in Values : got[v] = 1)
=============================================================================
