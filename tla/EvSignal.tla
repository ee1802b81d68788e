----------------------------- MODULE EvSignal ------------------------------
(***************************************************************************)
(* Signals, child processes and async watchers of ev.c: the signals table  *)
(* and its handler, the pipe that wakes the loop, waitpid, and a fork of   *)
(* the process that runs the loop. After the fork it is the new process    *)
(* that is followed; it shares the pipe with the old one until loop_fork.  *)
(*                                                                         *)
(* A signal handler or another thread interrupts the loop between any two  *)
(* steps. Within evpipe_write it is not interrupted: see EvAsync for that. *)
(***************************************************************************)
EXTENDS Integers, Sequences, FiniteSets, SequencesExt

CONSTANTS
    SigWatchers, SignalOf,  \* the program's signal watchers and their signals
    Childs, PidOf, Traced,  \* its child watchers, their pids (0: any), those with flags & 1
    Asyncs,                 \* its async watchers
    Pids, HashSize,         \* its child processes, and EV_PID_HASHSIZE
    pipe_w, childev,        \* the loop's own watchers
    Programs                \* sets of watchers of which a program uses one

Signal == {"CHLD", "USR"}

\* The watchers are structures of their own.
WatchersRight ==
    /\ SigWatchers \cap Childs = {} /\ SigWatchers \cap Asyncs = {} /\ Childs \cap Asyncs = {}
    /\ {pipe_w, childev} \cap (SigWatchers \cup Childs \cup Asyncs) = {} /\ pipe_w # childev
    /\ SignalOf \in [SigWatchers -> Signal]
    /\ HashSize \in Nat \ {0}
    /\ Pids \subseteq Nat \ {0}
    /\ PidOf \in [Childs -> Pids \cup {0}]
    /\ Traced \subseteq Childs
    /\ \A uses \in Programs : uses \subseteq SigWatchers \cup Childs \cup Asyncs

VARIABLES
    default,        \* whether this is the default loop
    uses,           \* the watchers the program uses
    action,         \* of the signals: "dfl" or "ev_sighandler"
    raised,         \* signals the kernel has still to deliver
    attached,       \* those with signals[].loop set
    flag,           \* those with signals[].pending set
    head,           \* signals[].head
    childs,         \* the hash table
    asyncs, sent,   \* the array, and those with their sent flag set
    wake,           \* which of sig_pending and async_pending are set
    wanted, skipped,    \* pipe_write_wanted, pipe_write_skipped
    pipe,           \* the eventfd: "none", "empty" or "full"
    postfork,
    queue,          \* the pending watchers: at EV_MAXPRI and below
    pri,            \* the queue a child watcher goes to
    phase,          \* "run": callbacks or the program, "poll", "back" from it
    alive,          \* the child processes: "yes", "stopped", "no"
    report,         \* what waitpid can say of them: "none", "stop", "exit"
    owed            \* history: signals caught for watchers that have not been fed yet

loopvars == <<wake, wanted, skipped, pipe, postfork, phase>>
sigvars  == <<action, attached, flag, head, owed>>
procs    == <<alive, report>>
vars     == <<default, uses, raised, sigvars, childs, asyncs, sent, loopvars, queue, pri, procs>>

Pending(q)    == Range(q.max) \cup Range(q.low)
Started       == (UNION {Range(head[s]) : s \in Signal}) \cup (UNION {Range(childs[b]) : b \in DOMAIN childs})
                   \cup Range(asyncs)
High          == {pipe_w, childev} \cup {w \in Childs : pri[w] = "max"}
Bucket(pid)   == pid % HashSize

\* The elements of s at the places in I, in their order, and those that are in S.
Nth(I, k)    == CHOOSE i \in I : Cardinality({j \in I : j <= i}) = k
Picked(s, I) == [k \in 1 .. Cardinality(I) |-> s[Nth(I, k)]]
Chosen(s, S) == Picked(s, {i \in DOMAIN s : s[i] \in S})

\* ev_feed_event for each of ws in turn; those in high go to the queue of EV_MAXPRI.
FeedEvents(q, ws, high) ==
    LET new == {i \in DOMAIN ws : ws[i] \notin Pending(q) /\ \A j \in 1 .. i - 1 : ws[j] # ws[i]}
    IN  [max |-> q.max \o Picked(ws, {i \in new : ws[i] \in high}),
         low |-> q.low \o Picked(ws, {i \in new : ws[i] \notin high})]

Dropped(s, w) == Picked(s, {i \in DOMAIN s : s[i] # w})
Without(q, w) == [max |-> Dropped(q.max, w), low |-> Dropped(q.low, w)]
-----------------------------------------------------------------------------
(* Waking the loop.                                                        *)

EvpipeWrite(which) ==
    /\ wake' = wake \cup {which}
    /\ IF which \in wake THEN UNCHANGED <<pipe, skipped>>
       ELSE IF wanted THEN pipe' = "full" /\ skipped' = FALSE
       ELSE skipped' = TRUE /\ UNCHANGED pipe

\* evpipe_init
EvpipeInit == pipe' = IF pipe = "none" THEN "empty" ELSE pipe

\* The kernel runs ev_sighandler: ev_feed_signal.
Deliver(s) ==
    /\ s \in raised
    /\ raised' = raised \ {s}
    /\ IF action[s] = "ev_sighandler" /\ s \in attached
       THEN flag' = flag \cup {s} /\ owed' = owed \cup {s} /\ EvpipeWrite("sig")
       ELSE UNCHANGED <<flag, owed, wake, pipe, skipped>>
    /\ UNCHANGED <<default, uses, action, attached, head, childs, asyncs, sent, wanted,
                   postfork, phase, queue, pri, procs>>

\* ev_async_send, by another thread, to a watcher that has been started once.
AsyncSend(w) ==
    /\ pipe # "none"
    /\ sent' = sent \cup {w}
    /\ EvpipeWrite("async")
    /\ UNCHANGED <<default, uses, raised, sigvars, childs, asyncs, wanted, postfork, phase,
                   queue, pri, procs>>
-----------------------------------------------------------------------------
(* The loop.                                                               *)

\* loop_fork: a new pipe, and pipe_w is fed since the old one may have been full.
LoopForkForgets ==
    /\ pipe' = IF pipe = "none" \/ ~postfork THEN pipe ELSE "empty"
    /\ queue' = queue

LoopFork ==
    IF postfork /\ pipe # "none"
    THEN pipe' = "empty" /\ queue' = FeedEvents(queue, <<pipe_w>>, High)
    ELSE UNCHANGED <<pipe, queue>>

\* ev_run goes to sleep, or only looks when a write has been skipped.
Block ==
    /\ phase = "run" /\ Pending(queue) = {}
    /\ LoopFork
    /\ postfork' = FALSE
    /\ wanted' = TRUE
    /\ phase' = "poll"
    /\ UNCHANGED <<default, uses, raised, sigvars, childs, asyncs, sent, wake, skipped, pri,
                   procs>>

\* The kernel finds the pipe full or not, at the latest after MAX_BLOCKTIME.
Poll ==
    /\ phase = "poll"
    /\ phase' = "back"
    /\ queue' = IF pipe = "full" THEN FeedEvents(queue, <<pipe_w>>, High) ELSE queue
    /\ UNCHANGED <<default, uses, raised, sigvars, childs, asyncs, sent, wake, wanted, skipped,
                   pipe, postfork, pri, procs>>

\* Until wanted is reset the pipe may still be written.
PollReturns ==
    /\ phase = "back"
    /\ wanted' = FALSE
    /\ phase' = "run"
    /\ queue' = IF skipped THEN FeedEvents(queue, <<pipe_w>>, High) ELSE queue
    /\ UNCHANGED <<default, uses, raised, sigvars, childs, asyncs, sent, wake, skipped, pipe,
                   postfork, pri, procs>>

\* ev_invoke_pending calls the last watcher of the higher priority.
Called(w) ==
    /\ phase = "run"
    /\ IF queue.max # <<>> THEN w = Last(queue.max) ELSE queue.low # <<>> /\ w = Last(queue.low)

Callback(w) ==
    /\ Called(w) /\ w \notin {pipe_w, childev}
    /\ queue' = Without(queue, w)
    /\ UNCHANGED <<default, uses, raised, sigvars, childs, asyncs, sent, loopvars, pri, procs>>

\* pipecb, ev_feed_signal_event, from the highest signal down. The pipe is not read when
\* pipe_w was fed otherwise.
Pipecb ==
    /\ Called(pipe_w)
    /\ pipe' \in {"empty", pipe}
    /\ skipped' = FALSE
    /\ wake' = {}
    /\ LET ss == IF "sig" \in wake THEN flag \cap attached ELSE {}
           Listed(s) == IF s \in ss THEN head[s] ELSE <<>>
           as == IF "async" \in wake THEN Chosen(Reverse(asyncs), sent) ELSE <<>>
       IN  /\ flag' = flag \ ss
           /\ owed' = owed \ ss
           /\ sent' = sent \ Range(as)
           /\ queue' = FeedEvents(Without(queue, pipe_w), Listed("CHLD") \o Listed("USR") \o as, High)
    /\ UNCHANGED <<default, uses, raised, action, attached, head, childs, asyncs, wanted,
                   postfork, phase, pri, procs>>

\* The child watchers that child_reap finds in a bucket.
Matching(b, p, status) ==
    Chosen(childs[b], {w \in Childs : PidOf[w] \in {p, 0} /\ (status = "stop" => w \in Traced)})

AfterReapOnce(ws) == FeedEvents(Without(queue, childev), ws, Childs \cup {childev})
AfterReapLast(ws) == FeedEvents(Without(queue, childev), ws \o <<childev>>, Childs \cup {childev})

\* childev is fed again first, so that it is called after the watchers ws of this child.
AfterReap(ws) == FeedEvents(Without(queue, childev), <<childev>> \o ws, Childs \cup {childev})

\* childcb: one child, and its watchers in two buckets, which may be the same.
Childcb ==
    /\ Called(childev)
    /\ IF \A p \in Pids : report[p] = "none"
       THEN queue' = Without(queue, childev) /\ UNCHANGED <<pri, report>>
       ELSE \E p \in Pids :
              /\ report[p] # "none"
              /\ report' = [report EXCEPT ![p] = "none"]
              /\ LET ws == Matching(Bucket(p), p, report[p]) \o Matching(0, p, report[p]) IN
                 /\ pri' = [w \in Childs |-> IF w \in Range(ws) THEN "max" ELSE pri[w]]
                 /\ queue' = AfterReap(ws)
    /\ UNCHANGED <<default, uses, raised, sigvars, childs, asyncs, sent, loopvars, alive>>
-----------------------------------------------------------------------------
(* What the program calls.                                                 *)

SignalStart(w) ==
    LET s == SignalOf[w] IN
    /\ phase = "run" /\ w \notin Started
    /\ attached' = attached \cup {s}
    /\ head' = [head EXCEPT ![s] = <<w>> \o @]
    /\ IF head[s] = <<>>
       THEN EvpipeInit /\ action' = [action EXCEPT ![s] = "ev_sighandler"]
       ELSE UNCHANGED <<pipe, action>>
    /\ UNCHANGED <<default, uses, raised, flag, childs, asyncs, sent, wake, wanted, skipped,
                   postfork, phase, queue, pri, procs, owed>>

\* When the last one stops, a signal that comes between the two steps of the end is
\* dropped by the handler.
SignalStop(w) ==
    LET s == SignalOf[w] IN
    /\ phase = "run"
    /\ queue' = Without(queue, w)
    /\ head' = [head EXCEPT ![s] = Dropped(@, w)]
    /\ IF w \in Started /\ head'[s] = <<>>
       THEN /\ attached' = attached \ {s}
            /\ action' = [action EXCEPT ![s] = "dfl"]
            /\ raised' = raised \ {s}
            /\ owed' = owed \ {s}
       ELSE UNCHANGED <<attached, action, raised, owed>>
    /\ UNCHANGED <<default, uses, flag, childs, asyncs, sent, loopvars, pri, procs>>

ChildStart(w) ==
    /\ phase = "run" /\ default /\ w \notin Started
    /\ childs' = [childs EXCEPT ![Bucket(PidOf[w])] = <<w>> \o @]
    /\ UNCHANGED <<default, uses, raised, sigvars, asyncs, sent, loopvars, queue, pri, procs>>

ChildStop(w) ==
    /\ phase = "run" /\ default
    /\ queue' = Without(queue, w)
    /\ childs' = [b \in DOMAIN childs |-> Dropped(childs[b], w)]
    /\ UNCHANGED <<default, uses, raised, sigvars, asyncs, sent, loopvars, pri, procs>>

AsyncStart(w) ==
    /\ phase = "run" /\ w \notin Started
    /\ sent' = sent \ {w}
    /\ EvpipeInit
    /\ asyncs' = Append(asyncs, w)
    /\ UNCHANGED <<default, uses, raised, sigvars, childs, wake, wanted, skipped, postfork,
                   phase, queue, pri, procs>>

\* The last one takes the place of the stopped one.
AsyncStop(w) ==
    /\ phase = "run" /\ w \in Range(asyncs)
    /\ queue' = Without(queue, w)
    /\ asyncs' = Front([i \in DOMAIN asyncs |-> IF asyncs[i] = w THEN Last(asyncs) ELSE asyncs[i]])
    /\ UNCHANGED <<default, uses, raised, sigvars, childs, sent, loopvars, pri, procs>>

\* fork, and ev_loop_fork in the new process, which has no children and no signals.
Fork ==
    /\ phase = "run" /\ ~postfork
    /\ postfork' = TRUE
    /\ raised' = {}
    /\ alive' = [p \in Pids |-> "no"]
    /\ report' = [p \in Pids |-> "none"]
    /\ UNCHANGED <<default, uses, sigvars, childs, asyncs, sent, wake, wanted, skipped, pipe,
                   phase, queue, pri>>

\* The old process reads and writes the pipe that is still its own, too.
ParentUsesPipe ==
    /\ postfork /\ pipe # "none"
    /\ pipe' \in {"empty", "full"}
    /\ UNCHANGED <<default, uses, raised, sigvars, childs, asyncs, sent, wake, wanted, skipped,
                   postfork, phase, queue, pri, procs>>
-----------------------------------------------------------------------------
(* Other processes.                                                        *)

Raise ==
    /\ action["USR"] # "dfl"
    /\ raised' = raised \cup {"USR"}
    /\ UNCHANGED <<default, uses, sigvars, childs, asyncs, sent, loopvars, queue, pri, procs>>

\* A child stops or exits: SIGCHLD. The kernel keeps the latest status.
ChildChanges(p) ==
    /\ default
    /\ \/ /\ alive[p] = "yes"
          /\ alive' = [alive EXCEPT ![p] = "stopped"] /\ report' = [report EXCEPT ![p] = "stop"]
       \/ /\ alive[p] # "no"
          /\ alive' = [alive EXCEPT ![p] = "no"] /\ report' = [report EXCEPT ![p] = "exit"]
    /\ raised' = raised \cup {"CHLD"}
    /\ UNCHANGED <<default, uses, sigvars, childs, asyncs, sent, loopvars, queue, pri>>

\* loop_init, and ev_default_loop, which starts childev.
Init ==
    /\ default \in BOOLEAN /\ uses \in Programs
    /\ action = [s \in Signal |-> IF default /\ s = "CHLD" THEN "ev_sighandler" ELSE "dfl"]
    /\ attached = IF default THEN {"CHLD"} ELSE {}
    /\ head = [s \in Signal |-> IF default /\ s = "CHLD" THEN <<childev>> ELSE <<>>]
    /\ pipe = IF default THEN "empty" ELSE "none"
    /\ raised = {} /\ flag = {} /\ owed = {} /\ asyncs = <<>> /\ sent = {} /\ wake = {}
    /\ childs = [b \in 0 .. HashSize - 1 |-> <<>>]
    /\ wanted = FALSE /\ skipped = FALSE /\ postfork = FALSE /\ phase = "run"
    /\ queue = [max |-> <<>>, low |-> <<>>]
    /\ pri = [w \in Childs |-> "low"]
    /\ alive = [p \in Pids |-> IF default THEN "yes" ELSE "no"]
    /\ report = [p \in Pids |-> "none"]

Invoke == Pipecb \/ Childcb \/ \E w \in SigWatchers \cup Childs \cup Asyncs : Callback(w)

Next ==
    \/ Block \/ Poll \/ PollReturns \/ Invoke \/ Fork \/ ParentUsesPipe \/ Raise
    \/ \E s \in Signal : Deliver(s)
    \/ \E w \in SigWatchers \cap uses : SignalStart(w) \/ SignalStop(w)
    \/ \E w \in Childs \cap uses : ChildStart(w) \/ ChildStop(w)
    \/ \E w \in Asyncs \cap uses : AsyncStart(w) \/ AsyncStop(w) \/ AsyncSend(w)
    \/ \E p \in Pids : ChildChanges(p)

\* The loop runs, poll ends after MAX_BLOCKTIME, and the kernel delivers signals.
Spec ==
    /\ Init /\ [][Next]_vars
    /\ WF_vars(Block) /\ WF_vars(Poll) /\ WF_vars(PollReturns) /\ WF_vars(Invoke)
    /\ WF_vars(Deliver("CHLD"))
-----------------------------------------------------------------------------
(* Properties.                                                             *)

TypeOK ==
    /\ attached \cup flag \cup owed \cup raised \subseteq Signal
    /\ pipe \in {"none", "empty", "full"}
    /\ pri \in [Childs -> {"max", "low"}]
    /\ IsInjective(queue.max \o queue.low) /\ IsInjective(asyncs)

\* The table, the handlers and the kernel agree, and only started watchers are
\* pending (ev.c:4334).
Attached ==
    /\ \A s \in Signal : /\ (s \in attached) = (head[s] # <<>>)
                         /\ (s \in attached) = (action[s] = "ev_sighandler")
    /\ attached # {} \/ asyncs # <<>> => pipe # "none"
    /\ Pending(queue) \subseteq Started \cup {pipe_w}

\* A caught signal has its flag set and the loop has been told, by a write that it
\* will see, by one it has been spared, or by pipe_w being pending: also when the
\* write went to a pipe that loop_fork replaces (ev.c:3218).
SignalsNoticed ==
    /\ \A s \in owed : s \in flag /\ "sig" \in wake
    /\ wake # {} => skipped \/ pipe = "full" \/ postfork \/ pipe_w \in Pending(queue)

\* While waitpid has something to say, SIGCHLD is on its way or childcb will run:
\* signals are not counted, so one of them may stand for many children.
ZombiesSeen ==
    (\E p \in Pids : report[p] # "none") =>
        "CHLD" \in raised \cup owed \/ childev \in Pending(queue)

SigInv == TypeOK /\ Attached /\ SignalsNoticed /\ ZombiesSeen

\* A child watcher has one rpid and rstatus: childcb, which writes them, does not
\* find a child for a watcher whose callback has not seen the last one (ev.c:2769).
StatusKept ==
    [][\A p \in Pids : Called(childev) /\ report[p] # report'[p] =>
         \A b \in {0, Bucket(p)} : Range(Matching(b, p, report[p])) \cap Pending(queue) = {}]_vars

\* All children are reaped, watched or not (ev.pod: "Libev always reaps all
\* children, even ones not watched").
EveryChildReaped == []<>(\A p \in Pids : report[p] = "none")
=============================================================================
