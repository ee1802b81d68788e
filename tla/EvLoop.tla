------------------------------- MODULE EvLoop -------------------------------
(***************************************************************************)
(* The watcher core of libev (libev-master/ev.c): how a watcher is started *)
(* and stopped, how its events wait in the pending queue of its priority,  *)
(* how ev_invoke_pending empties the queues, and the phases of ev_run.     *)
(*                                                                         *)
(* The program is single-threaded, but its callbacks are not: a callback   *)
(* starts, stops, feeds and clears watchers whose entries ev_invoke_pending*)
(* is working through, and may call ev_run again. A state holds the stack  *)
(* of ev_run calls; each has its own program counter, and the program owns *)
(* the processor when there is no call or the innermost one is inside a    *)
(* callback.                                                               *)
(*                                                                         *)
(* What backend_poll finds is left to EvFd, and what the clocks say to the *)
(* modules about timers: here an active io watcher may have an event       *)
(* whenever the loop polls.                                                *)
(***************************************************************************)
EXTENDS Integers, Sequences, FiniteSets

CONSTANTS
    Watchers,   \* the watchers of the program
    pending_w,  \* the dummy watcher that replaces a cleared entry
    Kind,       \* what each watcher is: see Kinds
    Pri,        \* ABSPRI of each watcher's priority
    NUMPRI,     \* EV_MAXPRI - EV_MINPRI + 1
    RunFlags,   \* the flags the program passes to ev_run
    MaxCalls,   \* bound: calls of the API by the program in one behaviour
    MaxDepth    \* bound: nesting of ev_run

Pris  == 0 .. NUMPRI - 1
Kinds == {"io", "idle", "prepare", "check", "fork", "cleanup"}

ASSUME ConstantsAssumption ==
    /\ pending_w \notin Watchers
    /\ IsFiniteSet(Watchers)
    /\ NUMPRI \in Nat \ {0}
    /\ Kind \in [Watchers -> Kinds]
    /\ Pri \in [Watchers -> Pris]
    /\ RunFlags \subseteq {"DEFAULT", "ONCE", "NOWAIT"}
    /\ MaxCalls \in Nat
    /\ MaxDepth \in Nat

\* EV_CUSTOM is what the program itself feeds.
Events == {"READ", "IDLE", "PREPARE", "CHECK", "FORK", "CLEANUP", "CUSTOM"}

\* The arrays of started watchers. There is one per priority of idle watchers.
Keys == ((Kinds \ {"io", "idle"}) \X {0}) \cup ({"idle"} \X Pris)
KeyOf(w) == <<Kind[w], IF Kind[w] = "idle" THEN Pri[w] ELSE 0>>
TypeOf == [idle |-> "IDLE", prepare |-> "PREPARE", check |-> "CHECK",
           fork |-> "FORK", cleanup |-> "CLEANUP"]

VARIABLES
    active,     \* W.active: 0, or 1 + the watcher's place in its array
    pending,    \* W.pending: 0, or the watcher's place in its pending queue
    pendings,   \* the pending queue of each priority; its length is pendingcnt
    pendingpri, \* the priority ev_invoke_pending has come down to
    arrays,     \* idles, prepares, checks, forks and cleanups
    activecnt,  \* what keeps ev_run going
    loop_done,  \* the EVBREAK_* state
    postfork,   \* ev_loop_fork was called and loop_fork has not run yet
    stack,      \* the ev_run calls in progress, the innermost last
    running,    \* the callbacks in progress, the innermost last
    alive,      \* ev_loop_destroy has not run
    refs,       \* history: ev_ref calls less ev_unref calls of the program
    forkowed,   \* history: fork watchers are owed a call since ev_loop_fork
    calls       \* API calls so far, for the bound MaxCalls

queueVars == <<pending, pendings, pendingpri>>
watchVars == <<active, arrays, activecnt>>
ctlVars   == <<loop_done, postfork, alive, refs, forkowed, calls>>
vars      == <<queueVars, watchVars, ctlVars, stack, running>>

Frames == [pc : {"invoke", "cb", "iter", "queue", "prepare", "test", "poll",
                 "idle", "check", "while", "destroyed"},
           flags : {"DEFAULT", "ONCE", "NOWAIT"},
           key : Keys, i : Nat,
           next : {"iter", "prepare", "test", "while", "destroyed"}]
Entries == [w : Watchers \cup {pending_w}, events : SUBSET Events]
Calls   == [w : Watchers, events : SUBSET Events]

Top == stack[Len(stack)]
At(pc) == stack # <<>> /\ Top.pc = pc
Goto(pc) == stack' = [stack EXCEPT ![Len(stack)].pc = pc]
Front(s) == SubSeq(s, 1, Len(s) - 1)

\* The program runs: outside ev_run, or in a callback.
Program == stack # <<>> => Top.pc = "cb"
-----------------------------------------------------------------------------
(* The pending queues.                                                     *)

FeedEventKeepsPri(w, e) ==
    LET p == Pri[w] IN
    /\ IF pending[w] # 0
       THEN /\ pendings' = [pendings EXCEPT ![p][pending[w]].events = @ \cup e]
            /\ UNCHANGED pending
       ELSE /\ pendings' = [pendings EXCEPT ![p] = Append(@, [w |-> w, events |-> e])]
            /\ pending' = [pending EXCEPT ![w] = Len(pendings[p]) + 1]
    /\ UNCHANGED pendingpri

\* ev_feed_event: an entry in the queue collects the new events, and
\* ev_invoke_pending starts again from the highest priority.
FeedEvent(w, e) ==
    LET p == Pri[w] IN
    /\ IF pending[w] # 0
       THEN /\ pendings' = [pendings EXCEPT ![p][pending[w]].events = @ \cup e]
            /\ UNCHANGED pending
       ELSE /\ pendings' = [pendings EXCEPT ![p] = Append(@, [w |-> w, events |-> e])]
            /\ pending' = [pending EXCEPT ![w] = Len(pendings[p]) + 1]
    /\ pendingpri' = NUMPRI - 1

ClearPendingForgetsSlot(w) ==
    /\ pending' = [pending EXCEPT ![w] = 0]
    /\ UNCHANGED <<pendings, pendingpri>>

\* clear_pending and ev_clear_pending: the entry stays and names nobody.
ClearPending(w) ==
    /\ pending' = [pending EXCEPT ![w] = 0]
    /\ pendings' = IF pending[w] = 0 THEN pendings
                   ELSE [pendings EXCEPT ![Pri[w]][pending[w]].w = pending_w]
    /\ UNCHANGED pendingpri

\* One step of ev_invoke_pending: take the last entry of the highest queue at
\* or below pendingpri that has any. A callback of pending_w does nothing.
InvokePending ==
    /\ At("invoke")
    /\ \E p \in Pris :
         /\ p <= pendingpri
         /\ pendings[p] # <<>>
         /\ \A q \in Pris : q > p /\ q <= pendingpri => pendings[q] = <<>>
         /\ LET entry == pendings[p][Len(pendings[p])] IN
            /\ pendings' = [pendings EXCEPT ![p] = Front(@)]
            /\ pendingpri' = p
            /\ IF entry.w = pending_w
               THEN UNCHANGED <<pending, running, stack>>
               ELSE /\ pending' = [pending EXCEPT ![entry.w] = 0]
                    /\ running' = Append(running, entry)
                    /\ Goto("cb")
    /\ UNCHANGED <<watchVars, ctlVars>>

\* The queues it looks at are empty: ev_invoke_pending returns to its caller.
InvokeDone ==
    /\ At("invoke")
    /\ \A p \in Pris : p <= pendingpri => pendings[p] = <<>>
    /\ pendingpri' = 0
    /\ Goto(Top.next)
    /\ UNCHANGED <<pending, pendings, watchVars, ctlVars, running>>
-----------------------------------------------------------------------------
(* Starting and stopping watchers.                                         *)

\* ev_io_start, ev_idle_start, ev_prepare_start, ev_check_start,
\* ev_fork_start and ev_cleanup_start. A cleanup watcher gives its reference
\* back at once.
StartWatcher(w) ==
    /\ active[w] = 0
    /\ IF Kind[w] = "io"
       THEN /\ active' = [active EXCEPT ![w] = 1]
            /\ UNCHANGED arrays
       ELSE /\ arrays' = [arrays EXCEPT ![KeyOf(w)] = Append(@, w)]
            /\ active' = [active EXCEPT ![w] = Len(arrays[KeyOf(w)]) + 1]
    /\ activecnt' = IF Kind[w] = "cleanup" THEN activecnt ELSE activecnt + 1
    /\ UNCHANGED queueVars

StopWithoutReindex(w) ==
    /\ ClearPending(w)
    /\ IF active[w] = 0
       THEN UNCHANGED watchVars
       ELSE /\ active' = [active EXCEPT ![w] = 0]
            /\ activecnt' = IF Kind[w] = "cleanup" THEN activecnt ELSE activecnt - 1
            /\ IF Kind[w] = "io" THEN UNCHANGED arrays
               ELSE LET a == arrays[KeyOf(w)] IN
                    arrays' = [arrays EXCEPT ![KeyOf(w)] =
                                 Front([a EXCEPT ![active[w]] = a[Len(a)]])]

StopUnrefsTwice(w) ==
    /\ ClearPending(w)
    /\ activecnt' = IF Kind[w] = "cleanup" THEN activecnt ELSE activecnt - 1
    /\ IF active[w] = 0 \/ Kind[w] = "io"
       THEN active' = [active EXCEPT ![w] = 0] /\ UNCHANGED arrays
       ELSE LET a    == arrays[KeyOf(w)]
                last == a[Len(a)]
            IN  /\ arrays' = [arrays EXCEPT ![KeyOf(w)] = Front([a EXCEPT ![active[w]] = last])]
                /\ active' = [active EXCEPT ![last] = active[w], ![w] = 0]

\* The ev_*_stop functions: the entry in the pending queue goes even when the
\* watcher is inactive; the last watcher of the array takes the free place and
\* gets its index before the stopped one loses its own, which matters when
\* they are the same.
StopWatcher(w) ==
    /\ ClearPending(w)
    /\ IF active[w] = 0
       THEN UNCHANGED watchVars
       ELSE /\ activecnt' = IF Kind[w] = "cleanup" THEN activecnt ELSE activecnt - 1
            /\ IF Kind[w] = "io"
               THEN /\ active' = [active EXCEPT ![w] = 0]
                    /\ UNCHANGED arrays
               ELSE LET a    == arrays[KeyOf(w)]
                        last == a[Len(a)]
                    IN  /\ arrays' = [arrays EXCEPT ![KeyOf(w)] =
                                        Front([a EXCEPT ![active[w]] = last])]
                        /\ active' = [active EXCEPT ![last] = active[w], ![w] = 0]
-----------------------------------------------------------------------------
(* ev_run.                                                                 *)

Frame(pc, flags, key, next) ==
    [pc |-> pc, flags |-> flags, key |-> key, i |-> 0, next |-> next]

\* queue_events on an array, then ev_invoke_pending; or neither if it is empty.
QueueOrSkip(key, next) ==
    stack' = [stack EXCEPT ![Len(stack)] =
                IF arrays[key] = <<>> THEN [@ EXCEPT !.pc = next]
                ELSE [@ EXCEPT !.pc = "queue", !.key = key, !.i = 1, !.next = next]]

\* One round of the loop in queue_events. Idle watchers are followed by the
\* check watchers, the others by ev_invoke_pending.
QueueEvents ==
    /\ At("queue")
    /\ LET a == arrays[Top.key] IN
       /\ FeedEvent(a[Top.i], {TypeOf[Top.key[1]]})
       /\ stack' = [stack EXCEPT ![Len(stack)] =
                      IF Top.i < Len(a) THEN [Top EXCEPT !.i = Top.i + 1]
                      ELSE [Top EXCEPT !.pc = IF Top.key[1] = "idle" THEN "check" ELSE "invoke"]]
    /\ UNCHANGED <<watchVars, ctlVars, running>>

\* The top of the loop: fork watchers, when ev_loop_fork has been called.
Iterate ==
    /\ At("iter")
    /\ IF postfork THEN QueueOrSkip(<<"fork", 0>>, "prepare") ELSE Goto("prepare")
    /\ forkowed' = (forkowed /\ ~postfork)
    /\ UNCHANGED <<queueVars, watchVars, loop_done, postfork, alive, refs, calls, running>>

Prepare ==
    /\ At("prepare")
    /\ QueueOrSkip(<<"prepare", 0>>, "test")
    /\ UNCHANGED <<queueVars, watchVars, ctlVars, running>>

\* A break leaves the loop before it blocks; otherwise loop_fork renews the
\* kernel state if it has to, and backend_poll begins. Nobody sees the
\* EVBREAK_RECURSE that loop_done holds during the poll of a debug build.
BreakOrPoll ==
    /\ At("test")
    /\ IF loop_done # "CANCEL"
       THEN Goto("while") /\ UNCHANGED <<postfork, forkowed>>
       ELSE /\ Goto("poll")
            /\ postfork' = FALSE
            /\ forkowed' = (forkowed /\ ~(postfork /\ arrays[<<"fork", 0>>] = <<>>))
    /\ UNCHANGED <<queueVars, watchVars, loop_done, alive, refs, calls, running>>

\* backend_poll reports an event for an active io watcher.
PollEvent(w) ==
    /\ At("poll")
    /\ Kind[w] = "io"
    /\ active[w] # 0
    /\ FeedEvent(w, {"READ"})
    /\ UNCHANGED <<watchVars, ctlVars, stack, running>>

PollReturn ==
    /\ At("poll")
    /\ Goto("idle")
    /\ UNCHANGED <<queueVars, watchVars, ctlVars, running>>

\* idle_reify: the idle watchers of the highest priority that has any, unless
\* something of that priority or a higher one is pending.
IdleReify ==
    /\ At("idle")
    /\ \/ \E p \in Pris :
            /\ arrays[<<"idle", p>>] # <<>>
            /\ \A q \in Pris : q > p => arrays[<<"idle", q>>] = <<>>
            /\ \A q \in Pris : q >= p => pendings[q] = <<>>
            /\ QueueOrSkip(<<"idle", p>>, "while")
       \/ /\ \A p \in Pris :
               \/ arrays[<<"idle", p>>] = <<>>
               \/ \E q \in Pris : q >= p /\ pendings[q] # <<>>
          /\ Goto("check")
    /\ UNCHANGED <<queueVars, watchVars, ctlVars, running>>

\* The check watchers are queued last, so that they are called first. Every
\* call of ev_invoke_pending sets pendingpri to NUMPRI; after queue_events it
\* is NUMPRI - 1 already, where the first round of the loop takes it.
Check ==
    /\ At("check")
    /\ pendingpri' = NUMPRI
    /\ stack' = [stack EXCEPT ![Len(stack)] =
                   IF arrays[<<"check", 0>>] = <<>>
                   THEN [@ EXCEPT !.pc = "invoke", !.next = "while"]
                   ELSE [@ EXCEPT !.pc = "queue", !.key = <<"check", 0>>,
                                  !.i = 1, !.next = "while"]]
    /\ UNCHANGED <<pending, pendings, watchVars, ctlVars, running>>

\* What ev_run does with the break state when it returns.
Leave == loop_done' = IF loop_done = "ONE" THEN "CANCEL" ELSE loop_done

WhileIgnoresBreak ==
    /\ At("while")
    /\ IF activecnt # 0 /\ Top.flags = "DEFAULT"
       THEN Goto("iter") /\ UNCHANGED loop_done
       ELSE stack' = Front(stack) /\ Leave
    /\ UNCHANGED <<queueVars, watchVars, postfork, alive, refs, forkowed, calls, running>>

While ==
    /\ At("while")
    /\ IF activecnt # 0 /\ loop_done = "CANCEL" /\ Top.flags = "DEFAULT"
       THEN Goto("iter") /\ UNCHANGED loop_done
       ELSE stack' = Front(stack) /\ Leave
    /\ UNCHANGED <<queueVars, watchVars, postfork, alive, refs, forkowed, calls, running>>

\* ev_loop_destroy has called the cleanup watchers; the loop is freed.
Destroyed ==
    /\ At("destroyed")
    /\ stack' = <<>>
    /\ alive' = FALSE
    /\ UNCHANGED <<queueVars, watchVars, loop_done, postfork, refs, forkowed, calls, running>>

LoopStep ==
    \/ InvokePending \/ InvokeDone \/ QueueEvents \/ Iterate \/ Prepare \/ BreakOrPoll
    \/ IdleReify \/ Check \/ While \/ Destroyed
-----------------------------------------------------------------------------
(* The program.                                                            *)

\* Every call counts against the bound.
Call == /\ alive /\ Program
        /\ calls < MaxCalls
        /\ calls' = calls + 1

Start(w) ==
    /\ Call
    /\ StartWatcher(w)
    /\ UNCHANGED <<loop_done, postfork, alive, refs, forkowed, stack, running>>

Stop(w) ==
    /\ Call
    /\ StopWatcher(w)
    /\ UNCHANGED <<loop_done, postfork, alive, refs, forkowed, stack, running>>

Feed(w) ==
    /\ Call
    /\ FeedEvent(w, {"CUSTOM"})
    /\ UNCHANGED <<watchVars, loop_done, postfork, alive, refs, forkowed, stack, running>>

Clear(w) ==
    /\ Call
    /\ ClearPending(w)
    /\ UNCHANGED <<watchVars, loop_done, postfork, alive, refs, forkowed, stack, running>>

Break(how) ==
    /\ Call
    /\ loop_done' = how
    /\ UNCHANGED <<queueVars, watchVars, postfork, alive, refs, forkowed, stack, running>>

Ref ==
    /\ Call
    /\ activecnt' = activecnt + 1
    /\ refs' = refs + 1
    /\ UNCHANGED <<queueVars, active, arrays, loop_done, postfork, alive, forkowed, stack, running>>

\* A program gives back only references it has, its watchers' included.
Unref ==
    /\ Call
    /\ activecnt > 0
    /\ activecnt' = activecnt - 1
    /\ refs' = refs - 1
    /\ UNCHANGED <<queueVars, active, arrays, loop_done, postfork, alive, forkowed, stack, running>>

\* ev_loop_fork may be called anywhere but in the callback of a prepare
\* watcher (ev.pod:688-690). A call by a fork watcher, which knows of the fork,
\* does not count as one that is owed to the fork watchers.
Caller == IF running = <<>> THEN "main" ELSE Kind[running[Len(running)].w]
LoopFork ==
    /\ Call
    /\ Caller # "prepare"
    /\ postfork' = TRUE
    /\ forkowed' = (forkowed \/ Caller # "fork")
    /\ UNCHANGED <<queueVars, watchVars, loop_done, alive, refs, stack, running>>

\* ev_run begins: the break state is cleared and pending callbacks are called.
Run(flags) ==
    /\ Call
    /\ Len(stack) < MaxDepth
    /\ flags \in RunFlags
    /\ loop_done' = "CANCEL"
    /\ pendingpri' = NUMPRI
    /\ stack' = Append(stack, Frame("invoke", flags, <<"prepare", 0>>, "iter"))
    /\ UNCHANGED <<pending, pendings, watchVars, postfork, alive, refs, forkowed, running>>

\* The callback returns to ev_invoke_pending.
Return ==
    /\ At("cb")
    /\ running' = Front(running)
    /\ Goto("invoke")
    /\ UNCHANGED <<queueVars, watchVars, ctlVars>>

\* ev_loop_destroy, from outside ev_run: cleanup watchers are queued and called.
Destroy ==
    /\ alive
    /\ stack = <<>>
    /\ stack' = IF arrays[<<"cleanup", 0>>] = <<>>
                THEN <<Frame("destroyed", "ONCE", <<"cleanup", 0>>, "destroyed")>>
                ELSE <<[Frame("queue", "ONCE", <<"cleanup", 0>>, "destroyed") EXCEPT !.i = 1]>>
    /\ UNCHANGED <<queueVars, watchVars, ctlVars, running>>

ProgramStep ==
    \/ \E w \in Watchers : Start(w) \/ Stop(w) \/ Feed(w) \/ Clear(w)
    \/ \E how \in {"CANCEL", "ONE", "ALL"} : Break(how)
    \/ Ref \/ Unref \/ LoopFork
    \/ \E flags \in RunFlags : Run(flags)
    \/ Return
    \/ Destroy

Init ==
    /\ active = [w \in Watchers |-> 0]
    /\ pending = [w \in Watchers |-> 0]
    /\ pendings = [p \in Pris |-> <<>>]
    /\ pendingpri = 0
    /\ arrays = [k \in Keys |-> <<>>]
    /\ activecnt = 0
    /\ loop_done = "CANCEL"
    /\ postfork = FALSE
    /\ stack = <<>>
    /\ running = <<>>
    /\ alive = TRUE
    /\ refs = 0
    /\ forkowed = FALSE
    /\ calls = 0

Next ==
    \/ LoopStep
    \/ \E w \in Watchers : PollEvent(w)
    \/ PollReturn
    \/ ProgramStep

Spec == Init /\ [][Next]_vars

\* The loop runs on and callbacks return. Nothing says that a poll ends.
Fairness == WF_vars(LoopStep) /\ WF_vars(Return)
FairSpec == Spec /\ Fairness
-----------------------------------------------------------------------------
(* Properties.                                                             *)

TypeOK ==
    /\ active \in [Watchers -> Nat]
    /\ pending \in [Watchers -> Nat]
    /\ pendings \in [Pris -> Seq(Entries)]
    /\ pendingpri \in 0 .. NUMPRI
    /\ arrays \in [Keys -> Seq(Watchers)]
    /\ activecnt \in Int
    /\ loop_done \in {"CANCEL", "ONE", "ALL"}
    /\ postfork \in BOOLEAN
    /\ stack \in Seq(Frames)
    /\ running \in Seq(Calls)
    /\ alive \in BOOLEAN
    /\ refs \in Int
    /\ forkowed \in BOOLEAN
    /\ calls \in 0 .. MaxCalls

\* A watcher has at most one entry in the pending queues, in the queue of its
\* own priority, at the place its pending field names, and the entry carries at
\* least one event (the assertion of verify_watcher, ev.c:3255, and more: what
\* an entry names is really pending, so no callback is called twice for one
\* feed).
PendingIndexed ==
    /\ \A w \in Watchers : pending[w] # 0 =>
         /\ pending[w] <= Len(pendings[Pri[w]])
         /\ pendings[Pri[w]][pending[w]].w = w
    /\ \A p \in Pris : \A i \in 1 .. Len(pendings[p]) :
         LET e == pendings[p][i] IN
         /\ e.events # {}
         /\ e.w # pending_w => Pri[e.w] = p /\ pending[e.w] = i

\* The arrays hold exactly the started watchers, each once, at the index its
\* active field names (array_verify, ev.c:3281-3287), so that a stop removes
\* the watcher it is given and no other.
ActiveIndexed ==
    /\ \A k \in Keys : \A i \in 1 .. Len(arrays[k]) :
         LET w == arrays[k][i] IN KeyOf(w) = k /\ Kind[w] # "io" /\ active[w] = i
    /\ \A w \in Watchers : active[w] # 0 =>
         IF Kind[w] = "io" THEN active[w] = 1
         ELSE active[w] <= Len(arrays[KeyOf(w)]) /\ arrays[KeyOf(w)][active[w]] = w

\* While ev_invoke_pending works at priority pendingpri, or is in a callback it
\* called, nothing waits at a higher priority; when it has returned, nothing
\* waits at all, until the loop polls again. An ev_run that is not the innermost
\* is inside a callback, and queue_events stays inside its array.
HighestFirst ==
    /\ \A k \in 1 .. Len(stack) - 1 : stack[k].pc = "cb"
    /\ stack = <<>> => running = <<>>
    /\ stack # <<>> =>
         /\ Len(running) = IF Top.pc = "cb" THEN Len(stack) ELSE Len(stack) - 1
         /\ Top.pc \in {"invoke", "cb"} => \A p \in Pris : p > pendingpri => pendings[p] = <<>>
         /\ Top.pc \in {"iter", "prepare", "test", "while"} => \A p \in Pris : pendings[p] = <<>>
         /\ Top.pc = "queue" => Top.i \in 1 .. Len(arrays[Top.key])

\* activecnt, which decides whether ev_run goes on, counts the started watchers
\* (cleanup watchers excepted) and the references the program holds: starting a
\* started watcher or stopping a stopped one changes nothing.
RefCountExact ==
    activecnt = Cardinality({w \in Watchers : active[w] # 0 /\ Kind[w] # "cleanup"}) + refs

\* The pending queues deliver what EventDelivery promises: no event is lost,
\* made up or delivered twice, and callbacks go by priority, however callbacks
\* feed, stop and clear watchers and run the loop again.
Due == [w \in Watchers |-> IF pending[w] = 0 THEN {} ELSE pendings[Pri[w]][pending[w]].events]
Delivery == INSTANCE EventDelivery WITH due <- Due
DeliveryRefined == Delivery!Spec

\* A watcher that has been stopped has no entry left: its callback is not
\* called for an event from before the stop.
StopSilences ==
    [][\A w \in Watchers : active[w] # 0 /\ active'[w] = 0 =>
         \A p \in Pris : \A i \in 1 .. Len(pendings'[p]) : pendings'[p][i].w # w]_vars

\* ev_run returns only when no callback is outstanding, also after ev_break
\* (ev.pod:900-901).
EvRunDrains ==
    [][Len(stack') < Len(stack) /\ alive' => \A p \in Pris : pendings'[p] = <<>>]_vars

\* EVBREAK_ALL makes every nested ev_run return, without a poll on the way,
\* unless the program changes the break state itself (ev.pod:902-905).
BreakAllUnwinds ==
    (stack # <<>> /\ loop_done = "ALL") ~> (stack = <<>> \/ loop_done # "ALL")

\* No step of the loop takes an EVBREAK_ALL back: the outer ev_run sees it.
BreakAllKept == [][loop_done = "ALL" /\ loop_done' # "ALL" => Program]_vars

\* After ev_loop_fork, fork watchers are called before the loop blocks next
\* (ev.pod:3264-3268).
ForkBeforePoll == At("poll") => ~forkowed
=============================================================================
