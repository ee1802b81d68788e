------------------------------- MODULE DHeap -------------------------------
(***************************************************************************)
(* The heap of ev.c that holds the timers, and another one the periodics:  *)
(* a 4-heap, or a binary heap when EV_USE_4HEAP is 0, in an array whose    *)
(* first entry has the index HEAP0. ev_active of a watcher is its index.   *)
(*                                                                         *)
(* Each step is one turn of the loop in upheap or downheap, and each       *)
(* operation is the code that changes the heap and calls them. upheap and  *)
(* downheap hold their element in a local (he) and leave in the array what *)
(* was there, so in the middle of them an entry is there twice.            *)
(***************************************************************************)
EXTENDS Integers

CONSTANTS
    Watchers,   \* the timers
    Times,      \* the times at which they can expire
    DHEAP       \* the branching factor

ASSUME DHeapAssumption ==
    /\ DHEAP \in {2, 4}
    /\ Times \subseteq Int

VARIABLES
    heap,       \* the array: a watcher and its cached time at each index
    cnt,        \* timercnt
    at,         \* ev_at of each watcher
    active,     \* ev_active of each watcher: its index, or 0
    pc,         \* "idle", or the loop that runs: "up" or "down"
    k,          \* where that loop is
    he,         \* the element it holds
    top         \* how much of the array it sees: reheap hands upheap its prefixes

vars == <<heap, cnt, at, active, pc, k, he, top>>

HEAP0      == DHEAP - 1
HPARENT(i) == ((i - HEAP0 - 1) \div DHEAP) + HEAP0
Slots      == HEAP0 .. cnt + HEAP0 - 1
Entry      == [w : Watchers, at : Times]
Of(w)      == [w |-> w, at |-> at[w]]       \* ANHE_at_cache

\* The entries downheap compares at i, all within the heap.
Children(i) == (DHEAP * (i - HEAP0) + HEAP0 + 1 .. DHEAP * (i - HEAP0) + HEAP0 + DHEAP) \cap Slots
-----------------------------------------------------------------------------
(* upheap and downheap.                                                    *)

\* A call of upheap or downheap for the entry at i, with the array h.
Go(loop, h, i, n) ==
    /\ heap' = h
    /\ pc' = loop
    /\ k' = i
    /\ he' = h[i]
    /\ top' = n

AdjustHeapDownOnly(h, i) == Go("down", h, i, cnt' + HEAP0)

AdjustHeap(h, i) ==
    Go(IF i > HEAP0 /\ h[i].at <= h[HPARENT(i)].at THEN "up" ELSE "down", h, i, cnt' + HEAP0)

\* The element at i moves to where the held one was, and the loop goes on there.
Move(i) ==
    /\ heap' = [heap EXCEPT ![k] = heap[i]]
    /\ active' = [active EXCEPT ![heap[i].w] = k]
    /\ k' = i
    /\ UNCHANGED <<cnt, at, pc, he, top>>

UpGoesOn   == pc = "up" /\ k # HEAP0 /\ heap[HPARENT(k)].at > he.at
DownGoesOn == pc = "down" /\ \E i \in Children(k) : heap[i].at < he.at

UpMove ==
    /\ UpGoesOn
    /\ Move(HPARENT(k))

DownMove ==
    /\ DownGoesOn
    /\ \E i \in Children(k) :
         /\ heap[i].at < he.at
         /\ \A j \in Children(k) : heap[i].at < heap[j].at \/ (heap[i].at = heap[j].at /\ i <= j)
         /\ Move(i)

\* The held element is put down. reheap goes on with the next index.
Place ==
    /\ pc # "idle" /\ ~UpGoesOn /\ ~DownGoesOn
    /\ LET h == [heap EXCEPT ![k] = he] IN
       IF top < cnt + HEAP0
       THEN Go("up", h, top, top + 1)
       ELSE heap' = h /\ pc' = "idle" /\ UNCHANGED <<k, he, top>>
    /\ active' = [active EXCEPT ![he.w] = k]
    /\ UNCHANGED <<cnt, at>>
-----------------------------------------------------------------------------
(* The operations.                                                         *)

\* ev_timer_start and ev_periodic_start, at any time.
Start(w) ==
    /\ pc = "idle"
    /\ active[w] = 0
    /\ \E t \in Times : at' = [at EXCEPT ![w] = t]
    /\ cnt' = cnt + 1
    /\ LET i == cnt' + HEAP0 - 1 IN
       /\ active' = [active EXCEPT ![w] = i]
       /\ Go("up", [j \in Slots \cup {i} |-> IF j = i THEN Of(w)' ELSE heap[j]], i, cnt' + HEAP0)

\* ev_timer_stop and ev_periodic_stop: the last entry takes the free place.
Stop(w) ==
    /\ pc = "idle"
    /\ active[w] # 0
    /\ cnt' = cnt - 1
    /\ active' = [active EXCEPT ![w] = 0]
    /\ LET i == active[w]
           last == cnt' + HEAP0
           h == [j \in Slots \ {last} |-> IF j = i THEN heap[last] ELSE heap[j]]
       IN  IF i < last THEN AdjustHeap(h, i)
           ELSE heap' = h /\ UNCHANGED <<pc, k, he, top>>
    /\ UNCHANGED at

\* timers_reify and periodics_reify: the first entry is given a later time.
Postpone(w) ==
    /\ pc = "idle"
    /\ active[w] = HEAP0
    /\ \E t \in Times : t > at[w] /\ at' = [at EXCEPT ![w] = t]
    /\ Go("down", [heap EXCEPT ![HEAP0] = Of(w)'], HEAP0, cnt + HEAP0)
    /\ UNCHANGED <<cnt, active>>

\* ev_timer_again of an active timer: any entry is given any time.
Again(w) ==
    /\ pc = "idle"
    /\ active[w] # 0
    /\ \E t \in Times : at' = [at EXCEPT ![w] = t]
    /\ UNCHANGED <<cnt, active>>
    /\ AdjustHeap([heap EXCEPT ![active[w]] = Of(w)'], active[w])

\* periodics_reschedule: all are given new times and the heap is built again,
\* by upheap for every index from HEAP0 on.
Reschedule ==
    /\ pc = "idle"
    /\ cnt > 0
    /\ at' \in [Watchers -> Times]
    /\ \A w \in Watchers : active[w] = 0 => at'[w] = at[w]
    /\ Go("up", [i \in Slots |-> [w |-> heap[i].w, at |-> at'[heap[i].w]]], HEAP0, HEAP0 + 1)
    /\ UNCHANGED <<cnt, active>>

Init ==
    /\ heap = [i \in {} |-> i]
    /\ cnt = 0
    /\ at \in [Watchers -> Times]
    /\ active = [w \in Watchers |-> 0]
    /\ pc = "idle"
    /\ k = HEAP0
    /\ he \in Entry
    /\ top = HEAP0

Next ==
    \/ UpMove \/ DownMove \/ Place \/ Reschedule
    \/ \E w \in Watchers : Start(w) \/ Stop(w) \/ Postpone(w) \/ Again(w)

Spec == Init /\ [][Next]_vars
-----------------------------------------------------------------------------
(* Properties.                                                             *)

Held        == IF pc = "idle" THEN heap ELSE [heap EXCEPT ![k] = he]
Limit       == IF pc = "idle" THEN cnt + HEAP0 ELSE top
IndexOf(w)  == IF pc # "idle" /\ w = he.w THEN k ELSE active[w]

TypeOK ==
    /\ cnt \in Nat
    /\ heap \in [Slots -> Entry]
    /\ at \in [Watchers -> Times]
    /\ active \in [Watchers -> Nat]
    /\ pc \in {"idle", "up", "down"}
    /\ he \in Entry
    /\ pc # "idle" => k \in HEAP0 .. top - 1 /\ top \in HEAP0 + 1 .. cnt + HEAP0
    /\ pc = "down" => top = cnt + HEAP0

\* The started watchers and the entries name each other, also while an entry is
\* held, so that a stop always takes its own entry out (ev.c:4115).
Indexed ==
    /\ \A i \in Slots : IndexOf(Held[i].w) = i /\ active[Held[i].w] # 0
    /\ \A w \in Watchers : active[w] # 0 => IndexOf(w) \in Slots /\ Held[IndexOf(w)].w = w
    /\ pc # "idle" => active[he.w] # 0

\* The time cached in an entry is its watcher's (ev.c:3266).
Cached == \A i \in Slots : Held[i].at = at[Held[i].w]

\* The part of the array that has been ordered, but for the held element, which
\* may be earlier than its parent on the way up, and later than its children
\* on the way down.
Ordered ==
    /\ \A i \in HEAP0 + 1 .. Limit - 1 :
         \/ pc = "up" /\ i = k
         \/ pc = "down" /\ HPARENT(i) = k
         \/ Held[HPARENT(i)].at <= Held[i].at
    /\ pc # "idle" /\ k # HEAP0 =>
         \A i \in HEAP0 + 1 .. Limit - 1 : HPARENT(i) = k => Held[HPARENT(k)].at <= Held[i].at

HeapInv == TypeOK /\ Indexed /\ Cached /\ Ordered

\* What verify_heap asserts (ev.c:3262-3266), after every operation.
HeapVerified ==
    pc = "idle" => \A i \in Slots :
        /\ active[heap[i].w] = i
        /\ i = HEAP0 \/ heap[HPARENT(i)].at <= heap[i].at
        /\ heap[i].at = at[heap[i].w]
=============================================================================
