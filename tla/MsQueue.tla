------------------------------ MODULE MsQueue ------------------------------
(***************************************************************************)
(* The linked queue of Michael and Scott in                                *)
(* examples/lock_free/lockfree_ms_queue.hpp, used as ms_bench.cpp uses it. *)
(*                                                                         *)
(* head_ points to a dummy node and the values follow it; tail_ points to  *)
(* the last node or lags behind it, and whoever notices moves it on. Nodes *)
(* are never freed or used twice, so a node is named by the value it was   *)
(* allocated for, and dummy is the node of the constructor. Every shared   *)
(* location is only written by a compare-and-exchange, which no processor  *)
(* reorders: each atomic access is a step.                                 *)
(***************************************************************************)
EXTENDS Integers, Sequences, FiniteSets, Functions, QueueThreads

CONSTANTS
    Items,      \* how many values each producer has
    dummy, nullptr

Threads == Producers \cup Consumers
Values  == UNION {{p} \X (1 .. Items[p]) : p \in Producers}
Nodes   == {dummy} \cup Values

ASSUME ItemsAssumption ==
    /\ Producers \cap Consumers = {}
    /\ Items \in [Producers -> Nat]
    /\ {dummy, nullptr, none, empty} \cap Values = {}
    /\ nullptr # dummy /\ none # empty

VARIABLES
    nxt,        \* the next pointer of each node
    first,      \* a consumer's: head_ as it was loaded
    last,       \* tail_ as it was loaded
    next,       \* the next pointer as it was loaded
    linked      \* history: the nodes that were linked, in this order

\* The data of the first dummy is none.
vars == <<head_, tail_, data, nxt, pc, first, last, next, out, sent, got, linked>>
sharedVars == <<head_, tail_, data, nxt, linked>>
localVars  == <<first, last, next>>
doneVars   == <<out, sent, got>>

Goto(t, where) == pc' = [pc EXCEPT ![t] = where]

\* tail_.compare_exchange(last, n): moves tail_ on if nobody else has.
MoveTail(t, n) == tail_' = IF tail_ = last[t] THEN n ELSE tail_
\* The node a producer allocates in its current call.
Node(p) == <<p, sent[p] + 1>>

\* The pointers loaded in one turn of the loop are gone in the next one.
Again(t, where) ==
    /\ Goto(t, where)
    /\ first' = [c \in Consumers |-> IF c = t THEN nullptr ELSE first[c]]
    /\ last' = [last EXCEPT ![t] = nullptr]
    /\ next' = [next EXCEPT ![t] = nullptr]
-----------------------------------------------------------------------------
(* do_enqueue                                                              *)

ConstructLater(p) ==
    /\ pc[p] = "idle" /\ sent[p] < Items[p]
    /\ Goto(p, "tail")
    /\ UNCHANGED <<sharedVars, localVars, doneVars>>

\* The node is allocated and its value constructed before it is linked.
Construct(p) ==
    /\ pc[p] = "idle" /\ sent[p] < Items[p]
    /\ data' = [data EXCEPT ![Node(p)] = <<p, sent[p] + 1>>]
    /\ Goto(p, "tail")
    /\ UNCHANGED <<head_, tail_, nxt, linked, localVars, doneVars>>

LoadTail(p) ==
    /\ pc[p] = "tail"
    /\ last' = [last EXCEPT ![p] = tail_]
    /\ Goto(p, "next")
    /\ UNCHANGED <<sharedVars, first, next, doneVars>>

LoadNext(p) ==
    /\ pc[p] = "next"
    /\ next' = [next EXCEPT ![p] = nxt[last[p]]]
    /\ Goto(p, "recheck")
    /\ UNCHANGED <<sharedVars, first, last, doneVars>>

RecheckTail(p) ==
    /\ pc[p] = "recheck"
    /\ IF tail_ # last[p]
       THEN Again(p, "tail")
       ELSE Goto(p, IF next[p] = nullptr THEN "link" ELSE "help") /\ UNCHANGED localVars
    /\ UNCHANGED <<sharedVars, doneVars>>

Link(p) ==
    /\ pc[p] = "link"
    /\ IF nxt[last[p]] = nullptr
       THEN /\ nxt' = [nxt EXCEPT ![last[p]] = Node(p)]
            /\ linked' = Append(linked, Node(p))
            /\ Goto(p, "advance") /\ UNCHANGED localVars
       ELSE Again(p, "tail") /\ UNCHANGED <<nxt, linked>>
    /\ UNCHANGED <<head_, tail_, data, doneVars>>

HelpTailBlindly(t) ==
    /\ pc[t] = "help"
    /\ tail_' = next[t]
    /\ Again(t, IF t \in Producers THEN "tail" ELSE "head")
    /\ UNCHANGED <<head_, data, nxt, linked, doneVars>>

\* A thread that finds tail_ behind moves it on, then tries again.
HelpTail(t) ==
    /\ pc[t] = "help"
    /\ MoveTail(t, next[t])
    /\ Again(t, IF t \in Producers THEN "tail" ELSE "head")
    /\ UNCHANGED <<head_, data, nxt, linked, doneVars>>

AdvanceTail(p) ==
    /\ pc[p] = "advance"
    /\ MoveTail(p, Node(p))
    /\ sent' = [sent EXCEPT ![p] = @ + 1]
    /\ Again(p, "idle")
    /\ UNCHANGED <<head_, data, nxt, linked, out, got>>

Enqueue(p) ==
    \/ Construct(p) \/ LoadTail(p) \/ LoadNext(p) \/ RecheckTail(p)
    \/ Link(p) \/ HelpTail(p) \/ AdvanceTail(p)
-----------------------------------------------------------------------------
(* dequeue. A consumer stops when all values have come out.                *)

LoadHead(c) ==
    /\ \/ pc[c] = "idle" /\ SumFunction(got) < Cardinality(Values)
       \/ pc[c] = "head"
    /\ first' = [first EXCEPT ![c] = head_]
    /\ Goto(c, "tail")
    /\ UNCHANGED <<sharedVars, last, next, doneVars>>

LoadTailOfDequeue(c) ==
    /\ pc[c] = "tail"
    /\ last' = [last EXCEPT ![c] = tail_]
    /\ Goto(c, "next")
    /\ UNCHANGED <<sharedVars, first, next, doneVars>>

LoadFirstNext(c) ==
    /\ pc[c] = "next"
    /\ next' = [next EXCEPT ![c] = nxt[first[c]]]
    /\ Goto(c, "recheck")
    /\ UNCHANGED <<sharedVars, first, last, doneVars>>

RecheckHeadOnly(c) ==
    /\ pc[c] = "recheck"
    /\ IF head_ # first[c]
       THEN Again(c, "head")
       ELSE /\ Goto(c, IF next[c] = nullptr THEN "false" ELSE "take")
            /\ UNCHANGED localVars
    /\ UNCHANGED <<sharedVars, doneVars>>

RecheckHead(c) ==
    /\ pc[c] = "recheck"
    /\ IF head_ # first[c]
       THEN Again(c, "head")
       ELSE /\ Goto(c, IF first[c] # last[c] THEN "take"
                       ELSE IF next[c] = nullptr THEN "false" ELSE "help")
            /\ UNCHANGED localVars
    /\ UNCHANGED <<sharedVars, doneVars>>

ReturnFalse(c) ==
    /\ pc[c] = "false"
    /\ out' = [out EXCEPT ![c] = empty]
    /\ Again(c, "idle")
    /\ UNCHANGED <<sharedVars, sent, got>>

TakeHeadBlindly(c) ==
    /\ pc[c] = "take"
    /\ head_' = next[c]
    /\ Goto(c, "move")
    /\ UNCHANGED <<tail_, data, nxt, linked, localVars, doneVars>>

\* head_.compare_exchange(first, next): the consumer that moves head_ on owns
\* the value of the new dummy.
TakeHead(c) ==
    /\ pc[c] = "take"
    /\ IF head_ = first[c]
       THEN head_' = next[c] /\ Goto(c, "move") /\ UNCHANGED localVars
       ELSE UNCHANGED head_ /\ Again(c, "head")
    /\ UNCHANGED <<tail_, data, nxt, linked, doneVars>>

MoveOut(c) ==
    /\ pc[c] = "move"
    /\ out' = [out EXCEPT ![c] = data[next[c]]]
    /\ got' = [v \in Values |-> got[v] + (IF v = data[next[c]] THEN 1 ELSE 0)]
    /\ Again(c, "idle")
    /\ UNCHANGED <<sharedVars, sent>>

Dequeue(c) ==
    \/ LoadHead(c) \/ LoadTailOfDequeue(c) \/ LoadFirstNext(c) \/ RecheckHead(c)
    \/ ReturnFalse(c) \/ HelpTail(c) \/ TakeHead(c) \/ MoveOut(c)
-----------------------------------------------------------------------------
\* The constructor allocates the first dummy.
Init ==
    /\ head_ = dummy /\ tail_ = dummy
    /\ data = [n \in Nodes |-> none]
    /\ nxt = [n \in Nodes |-> nullptr]
    /\ pc = [t \in Threads |-> "idle"]
    /\ first = [c \in Consumers |-> nullptr]
    /\ last = [t \in Threads |-> nullptr]
    /\ next = [t \in Threads |-> nullptr]
    /\ out = [c \in Consumers |-> none]
    /\ sent = [p \in Producers |-> 0]
    /\ got = [v \in Values |-> 0]
    /\ linked = <<dummy>>

Next ==
    \/ \E p \in Producers : Enqueue(p)
    \/ \E c \in Consumers : Dequeue(c)

\* The threads run.
Fairness ==
    /\ \A p \in Producers : WF_vars(Enqueue(p))
    /\ \A c \in Consumers : WF_vars(Dequeue(c))

Spec == Init /\ [][Next]_vars /\ Fairness
-----------------------------------------------------------------------------
(* Properties.                                                             *)

TypeOK ==
    /\ head_ \in Nodes /\ tail_ \in Nodes
    /\ data \in [Nodes -> Values \cup {none}] /\ data[dummy] = none
    /\ nxt \in [Nodes -> Nodes \cup {nullptr}]
    /\ pc \in [Threads -> {"idle", "tail", "next", "recheck", "link", "help", "advance",
                          "head", "false", "take", "move"}]
    /\ first \in [Consumers -> Nodes \cup {nullptr}]
    /\ last \in [Threads -> Nodes \cup {nullptr}]
    /\ next \in [Threads -> Nodes \cup {nullptr}]
    /\ out \in [Consumers -> Values \cup {none, empty}]
    /\ sent \in [Producers -> Nat]
    /\ got \in [Values -> Nat]
    /\ linked \in Seq(Nodes)

Position(n) == CHOOSE k \in DOMAIN linked : linked[k] = n

\* Whoever follows the next pointers from the first dummy finds the nodes in the
\* order in which they were linked, each once, whoever helped whom; and nothing
\* follows a node that is not linked.
LinksInOrder ==
    /\ IsInjective(linked) /\ linked[1] = dummy
    /\ \A n \in Nodes : n \notin Range(linked) => nxt[n] = nullptr
    /\ \A k \in DOMAIN linked : nxt[linked[k]] = IF k = Len(linked) THEN nullptr ELSE linked[k + 1]

\* tail_ lags behind the last node by one node at most, and never falls behind
\* head_: a consumer that finds head_ and tail_ different may use the next
\* pointer without a test (lockfree_ms_queue.hpp:135-143).
TailLagsByOne ==
    /\ {head_, tail_} \subseteq Range(linked)
    /\ Position(head_) <= Position(tail_) /\ Position(tail_) >= Len(linked) - 1

\* All that holds of the links.
LinksSound == TypeOK /\ LinksInOrder /\ TailLagsByOne

\* The values of the nodes after the dummy, and what a dequeue in progress has found.
Contents == [k \in 1 .. Len(linked) - Position(head_) |-> data[linked[Position(head_) + k]]]
TakenBy(c) ==
    CASE pc[c] = "move" -> data[next[c]]
      [] pc[c] = "false" \/ (pc[c] = "recheck" /\ next[c] = nullptr) -> empty
      [] OTHER -> none
Taken == [c \in Consumers |-> TakenBy(c)]

Fifo == INSTANCE FifoQueue WITH queue <- Contents, taken <- Taken

\* The queue is a first-in first-out queue of any number of producers and
\* consumers: an enqueue takes effect when it links its node, a dequeue when
\* it moves head_ or when it loads a null next pointer.
FifoRefined == Fifo!Spec

\* Every value comes out, exactly once (ms_bench.cpp:287), though a thread that
\* is overtaken has to try again.
EveryValueArrives == <>[](\A v \in Values : got[v] = 1)
=============================================================================
