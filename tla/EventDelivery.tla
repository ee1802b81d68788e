---------------------------- MODULE EventDelivery ----------------------------
(***************************************************************************)
(* What the pending queues of libev promise to the owner of a watcher.     *)
(*                                                                         *)
(* An event fed for a watcher becomes due. It stays due until the watcher  *)
(* is stopped or cleared, or until the watcher's callback is called with   *)
(* every event that became due since the last time, at a moment when no    *)
(* watcher of a higher priority is due. Calls nest: a callback may run the *)
(* loop again, so the calls in progress form a stack.                      *)
(***************************************************************************)
EXTENDS Integers, Sequences

CONSTANTS
    Watchers,   \* the watchers of the program
    Events,     \* the bits of a revents mask
    Pri         \* the priority of each watcher

VARIABLES
    due,        \* the events each watcher is owed
    running     \* the callbacks in progress, the innermost last

vars == <<due, running>>

Init ==
    /\ due = [w \in Watchers |-> {}]
    /\ running = <<>>

\* An event source, or the program itself, reports events for a watcher: what
\* is due to it grows, and nothing else changes.
Feed(w) ==
    /\ due'[w] \subseteq Events
    /\ due[w] \subseteq due'[w]
    /\ due' = [due EXCEPT ![w] = due'[w]]
    /\ UNCHANGED running

\* The program stops the watcher or clears what it is owed.
Clear(w) ==
    /\ due' = [due EXCEPT ![w] = {}]
    /\ UNCHANGED running

\* The callback of a due watcher of the highest priority is called.
Invoke(w) ==
    /\ due[w] # {}
    /\ \A v \in Watchers : due[v] # {} => Pri[v] <= Pri[w]
    /\ due' = [due EXCEPT ![w] = {}]
    /\ running' = Append(running, [w |-> w, events |-> due[w]])

Return ==
    /\ running # <<>>
    /\ running' = SubSeq(running, 1, Len(running) - 1)
    /\ UNCHANGED due

Next ==
    \/ \E w \in Watchers : Feed(w) \/ Clear(w) \/ Invoke(w)
    \/ Return

Spec == Init /\ [][Next]_vars
=============================================================================
