----------------------------- MODULE EvBackend -----------------------------
(***************************************************************************)
(* The backends of libev that are not epoll: poll and select, which hand   *)
(* the kernel their whole table each time, kqueue, which queues changes,   *)
(* and event ports, whose associations end with each event. Which one is   *)
(* chosen at the start. All must tell the kernel what the io watchers ask  *)
(* for by the time the loop sleeps, and see to descriptors that have been  *)
(* closed under them.                                                      *)
(*                                                                         *)
(* What becomes of an event that is reported is the subject of EvFd and    *)
(* EvLoop; here only what the report does to the backend counts. EINTR and *)
(* a poll that reports nothing do nothing.                                 *)
(***************************************************************************)
EXTENDS Integers, Sequences, SequencesExt, FiniteSetsExt, Anfds

CONSTANTS
    FdOf, EventsOf, \* of each watcher
    MaxTroubles     \* bound on the forks, closes and shortages of memory

Events   == {"r", "w"}      \* EV_READ, EV_WRITE
Backends == {"poll", "select", "kqueue", "port"}

\* The descriptors are those below anfdmax.
WatchersRight ==
    /\ Fds \subseteq Nat /\ \E m \in Fds : Fds = 0 .. m
    /\ FdOf \in [Watchers -> Fds]
    /\ EventsOf \in [Watchers -> (SUBSET Events) \ {{}}]
    /\ MaxTroubles \in Nat

VARIABLES
    backend,
    fresh,          \* the watchers with EV__IOFDSET in their events
    polls,          \* poll: a sequence of records fd, events, with indices from 0
    pollidxs,       \* poll: the index of a descriptor in polls, or -1
    vec,            \* select: the descriptors in vec_ri and vec_wi
    changes,        \* kqueue: kqueue_changes
    leftover,       \* kqueue: the descriptors with changes queued at a fork
    kernel,         \* kqueue, port: what the kernel watches of each descriptor
    troubles

\* open is the set of descriptors that name a file; pc is "run", "reify" in fd_reify,
\* or "poll".
tables == <<polls, pollidxs, vec, changes, leftover>>
anfds  == <<events, reify, fdchanges>>
vars   == <<backend, active, fresh, anfds, pc, tables, open, kernel, troubles>>

Asked(ws, fd) == UNION {EventsOf[w] : w \in {v \in ws : FdOf[v] = fd}}
-----------------------------------------------------------------------------
(* anfds.                                                                  *)

\* fd_change for each of fds.
FdChange(fds, flags) ==
    /\ reify' = [fd \in Fds |-> IF fd \in fds THEN reify[fd] \cup flags ELSE reify[fd]]
    /\ \E s \in SetToSeqs({fd \in fds : reify[fd] = {}}) : fdchanges' = fdchanges \o s

\* fd_kill for each of fds: their watchers are stopped.
FdKill(fds) ==
    LET killed == {w \in active : FdOf[w] \in fds} IN
    /\ active' = active \ killed
    /\ FdChange({FdOf[w] : w \in killed}, {"reify"})

IoStart(w) ==
    /\ pc = "run" /\ w \notin active
    /\ active' = active \cup {w}
    /\ fresh' = fresh \ {w}
    /\ FdChange({FdOf[w]}, {"reify"} \cup IF w \in fresh THEN {"fdset"} ELSE {})
    /\ UNCHANGED <<backend, events, pc, tables, open, kernel, troubles>>

IoStop(w) ==
    /\ pc = "run" /\ w \in active
    /\ active' = active \ {w}
    /\ FdChange({FdOf[w]}, {"reify"})
    /\ UNCHANGED <<backend, fresh, events, pc, tables, open, kernel, troubles>>

Armed == {fd \in Fds : events[fd] # {}}

\* fd_ebadf, fd_enomem.
FdEbadf  == FdKill(Armed \ open)
FdEnomem == FdKill({Max(Armed)})

FdRearmAll == events' = [fd \in Fds |-> {}] /\ FdChange(Armed, {"reify", "fdset"})

\* Both get a new queue from the kernel, which watches nothing.
KqueueFork ==
    /\ FdRearmAll
    /\ kernel' = [fd \in Fds |-> {}]
    /\ leftover' = leftover \cup {changes[i].fd : i \in DOMAIN changes}

PortFork ==
    /\ FdRearmAll
    /\ kernel' = [fd \in Fds |-> {}]
    /\ UNCHANGED leftover

\* ev_loop_fork and then loop_fork.
LoopFork ==
    /\ pc = "run" /\ troubles < MaxTroubles
    /\ \/ backend = "kqueue" /\ KqueueFork
       \/ backend = "port" /\ PortFork
    /\ troubles' = troubles + 1
    /\ UNCHANGED <<backend, active, fresh, pc, polls, pollidxs, vec, changes, open>>
-----------------------------------------------------------------------------
(* backend_modify.                                                         *)

\* poll_modify: a removed pollfd is replaced by the last one.
PollModifyLeavesIndex(fd, oev, nev) ==
    LET idx == IF pollidxs[fd] < 0 THEN Len(polls) ELSE pollidxs[fd]
        ps  == IF pollidxs[fd] < 0 THEN Append(polls, [fd |-> fd, events |-> {}]) ELSE polls
        last == Len(ps) - 1
    IN  IF oev = nev THEN UNCHANGED <<polls, pollidxs>>
        ELSE IF nev # {}
        THEN /\ polls' = [ps EXCEPT ![idx + 1].events = nev]
             /\ pollidxs' = [pollidxs EXCEPT ![fd] = idx]
        ELSE /\ polls' = Front([ps EXCEPT ![idx + 1] = ps[last + 1]])
             /\ pollidxs' = [pollidxs EXCEPT ![fd] = -1]

PollModify(fd, oev, nev) ==
    LET idx == IF pollidxs[fd] < 0 THEN Len(polls) ELSE pollidxs[fd]
        ps  == IF pollidxs[fd] < 0 THEN Append(polls, [fd |-> fd, events |-> {}]) ELSE polls
        last == Len(ps) - 1
    IN  IF oev = nev THEN UNCHANGED <<polls, pollidxs>>
        ELSE IF nev # {}
        THEN /\ polls' = [ps EXCEPT ![idx + 1].events = nev]
             /\ pollidxs' = [pollidxs EXCEPT ![fd] = idx]
        ELSE /\ polls' = Front([ps EXCEPT ![idx + 1] = ps[last + 1]])
             /\ pollidxs' = [f \in Fds |-> IF f = fd THEN -1
                                           ELSE IF f = ps[last + 1].fd THEN idx ELSE pollidxs[f]]

SelectModify(fd, oev, nev) ==
    vec' = IF oev = nev THEN vec
           ELSE [e \in Events |-> IF e \in nev THEN vec[e] \cup {fd} ELSE vec[e] \ {fd}]

Changes(op, fd, evs) == [i \in DOMAIN SetToSeq(evs) |-> [op |-> op, fd |-> fd, filter |-> SetToSeq(evs)[i]]]

KqueueModifiedIfOther(queue, fd, oev, nev) ==
    queue \o IF oev # nev THEN Changes("delete", fd, oev) \o Changes("add", fd, nev) ELSE <<>>

\* kqueue_modify: requests are added again even when oev = nev, for a descriptor
\* that has been closed and opened.
KqueueModified(queue, fd, oev, nev) ==
    queue \o (IF oev # nev THEN Changes("delete", fd, oev) ELSE <<>>) \o Changes("add", fd, nev)

\* port_modify: port_associate fails with EBADFD, and the descriptor is killed.
PortModify(fd, oev, nev) ==
    kernel' = IF fd \in open /\ (nev # {} \/ oev # {}) THEN [kernel EXCEPT ![fd] = nev] ELSE kernel
-----------------------------------------------------------------------------
(* The loop.                                                               *)

BeginReify ==
    /\ pc = "run"
    /\ pc' = "reify"
    /\ UNCHANGED <<backend, active, fresh, anfds, tables, open, kernel, troubles>>

\* One turn of the loop of fd_reify. A descriptor that is killed in it is appended
\* to fdchanges, and met again.
FdReify ==
    LET fd  == Head(fdchanges)
        nev == Asked(active, fd)
        bad == backend = "port" /\ nev # {} /\ fd \notin open
    IN
    /\ pc = "reify" /\ fdchanges # <<>>
    /\ events' = [events EXCEPT ![fd] = nev]
    /\ IF "fdset" \in reify[fd] \/ nev # events[fd]
       THEN /\ CASE backend = "poll"   -> /\ PollModify(fd, events[fd], nev)
                                          /\ UNCHANGED <<vec, changes, leftover, kernel>>
                 [] backend = "select" -> /\ SelectModify(fd, events[fd], nev)
                                          /\ UNCHANGED <<polls, pollidxs, changes, leftover, kernel>>
                 [] backend = "kqueue" -> /\ changes' = KqueueModified(changes, fd, events[fd], nev)
                                          /\ UNCHANGED <<polls, pollidxs, vec, leftover, kernel>>
                 [] backend = "port"   -> PortModify(fd, events[fd], nev) /\ UNCHANGED tables
            /\ active' = IF bad THEN {w \in active : FdOf[w] # fd} ELSE active
            /\ fdchanges' = Tail(fdchanges) \o IF bad THEN <<fd>> ELSE <<>>
            /\ reify' = [reify EXCEPT ![fd] = IF bad THEN {"reify"} ELSE {}]
       ELSE /\ fdchanges' = Tail(fdchanges)
            /\ reify' = [reify EXCEPT ![fd] = {}]
            /\ UNCHANGED <<active, tables, kernel>>
    /\ UNCHANGED <<backend, fresh, pc, open, troubles>>

FdReifyDone ==
    /\ pc = "reify" /\ fdchanges = <<>>
    /\ pc' = "poll"
    /\ UNCHANGED <<backend, active, fresh, anfds, tables, open, kernel, troubles>>

\* poll_poll: a descriptor that is not open has POLLNVAL and is killed.
PollPoll ==
    /\ pc = "poll" /\ backend = "poll"
    /\ pc' = "run"
    /\ FdKill({polls[i].fd : i \in DOMAIN polls} \ open)
    /\ UNCHANGED <<backend, fresh, events, tables, open, kernel, troubles>>

SelectPollAsBefore ==
    /\ pc = "poll" /\ backend = "select"
    /\ pc' = "run"
    /\ UNCHANGED <<backend, active, fresh, anfds, tables, open, kernel, troubles>>

\* select_poll: with such a descriptor select fails, and fd_ebadf looks for it.
SelectPoll ==
    /\ pc = "poll" /\ backend = "select"
    /\ pc' = "run"
    /\ IF vec["r"] \cup vec["w"] \subseteq open
       THEN UNCHANGED <<active, reify, fdchanges>>
       ELSE FdEbadf
    /\ UNCHANGED <<backend, fresh, events, tables, open, kernel, troubles>>

\* fd_enomem: the last descriptor is given up.
Enomem ==
    /\ pc = "poll" /\ backend \in {"poll", "select"} /\ Armed # {} /\ troubles < MaxTroubles
    /\ pc' = "run"
    /\ FdEnomem
    /\ troubles' = troubles + 1
    /\ UNCHANGED <<backend, fresh, events, tables, open, kernel>>

\* What kevent makes of the changes, and those it refuses: a delete of what it does
\* not watch (ENOENT) and whatever names no file (EBADF).
Kevent(k, cs) ==
    FoldLeft(LAMBDA acc, c :
               IF c.fd \in open /\ (c.op = "add" \/ c.filter \in acc.kernel[c.fd])
               THEN [acc EXCEPT !.kernel[c.fd] = IF c.op = "add" THEN @ \cup {c.filter} ELSE @ \ {c.filter}]
               ELSE [acc EXCEPT !.refused = Append(@, c.fd)],
             [kernel |-> k, refused |-> <<>>], cs)

\* kqueue_poll: for a descriptor that is open the change is made again, another one
\* is killed; both only if someone watches it.
KqueuePoll ==
    /\ pc = "poll" /\ backend = "kqueue"
    /\ pc' = "run"
    /\ LET res == Kevent(kernel, changes)
           ours == SelectSeq(res.refused, LAMBDA fd : events[fd] # {})
       IN  /\ kernel' = res.kernel
           /\ changes' = FoldLeft(LAMBDA acc, fd : KqueueModified(acc, fd, {}, events[fd]), <<>>,
                                  SelectSeq(ours, LAMBDA fd : fd \in open))
           /\ FdKill(Range(ours) \ open)
    /\ UNCHANGED <<backend, fresh, events, polls, pollidxs, vec, leftover, open, troubles>>

\* port_poll: an event ends the association, which fd_change has renewed.
PortPoll ==
    /\ pc = "poll" /\ backend = "port"
    /\ pc' = "run"
    /\ \E ready \in SUBSET {fd \in open : kernel[fd] # {}} :
         /\ kernel' = [fd \in Fds |-> IF fd \in ready THEN {} ELSE kernel[fd]]
         /\ FdChange(ready, {"fdset"})
    /\ UNCHANGED <<backend, active, fresh, events, tables, open, troubles>>
-----------------------------------------------------------------------------
(* The program's files.                                                    *)

\* A closed file leaves kqueues and ports without a word.
Close(fd) ==
    /\ pc = "run" /\ fd \in open /\ troubles < MaxTroubles
    /\ open' = open \ {fd}
    /\ kernel' = [kernel EXCEPT ![fd] = {}]
    /\ troubles' = troubles + 1
    /\ UNCHANGED <<backend, active, fresh, anfds, pc, tables>>

\* The number is given to another file, for which ev_io_set is called.
Open(fd) ==
    /\ pc = "run" /\ fd \notin open /\ Asked(active, fd) = {}
    /\ open' = open \cup {fd}
    /\ fresh' = fresh \cup {w \in Watchers : FdOf[w] = fd}
    /\ UNCHANGED <<backend, active, anfds, pc, tables, kernel, troubles>>

PollInit   == polls = <<>> /\ pollidxs = [fd \in Fds |-> -1]
SelectInit == vec = [e \in Events |-> {}]
KqueueInit == changes = <<>> /\ leftover = {}

Init ==
    /\ backend \in Backends
    /\ active = {} /\ fresh = Watchers
    /\ events = [fd \in Fds |-> {}] /\ reify = [fd \in Fds |-> {}] /\ fdchanges = <<>>
    /\ pc = "run"
    /\ PollInit /\ SelectInit /\ KqueueInit
    /\ open = Fds
    /\ kernel = [fd \in Fds |-> {}]
    /\ troubles = 0

BackendPoll == PollPoll \/ SelectPoll \/ KqueuePoll \/ PortPoll

Next ==
    \/ BeginReify \/ FdReify \/ FdReifyDone \/ BackendPoll \/ Enomem \/ LoopFork
    \/ \E w \in Watchers : IoStart(w) \/ IoStop(w)
    \/ \E fd \in Fds : Close(fd) \/ Open(fd)

Spec ==
    /\ Init /\ [][Next]_vars
    /\ WF_vars(BeginReify) /\ WF_vars(FdReify) /\ WF_vars(FdReifyDone) /\ WF_vars(BackendPoll)
-----------------------------------------------------------------------------
(* Properties.                                                             *)

TypeOK ==
    /\ events \in [Fds -> SUBSET Events]
    /\ pollidxs \in [Fds -> -1 .. Max(Fds)]
    /\ IsInjective(fdchanges)
    /\ \A fd \in Fds : (reify[fd] # {}) = (fd \in Range(fdchanges))

\* polls and pollidxs name each other, so that no assertion of poll_modify fails
\* and the kernel sees each descriptor once (ev_poll.c:73).
PollsIndexed ==
    /\ \A i \in DOMAIN polls : pollidxs[polls[i].fd] = i - 1 /\ polls[i].events # {}
    /\ \A fd \in Fds : pollidxs[fd] >= 0 => pollidxs[fd] < Len(polls) /\ polls[pollidxs[fd] + 1].fd = fd

\* What the kernel is asked to watch when the loop goes to sleep is what the watchers
\* ask for.
Watched(fd) ==
    CASE backend = "poll"   -> UNION {polls[i].events : i \in {j \in DOMAIN polls : polls[j].fd = fd}}
      [] backend = "select" -> {e \in Events : fd \in vec[e]}
      [] backend = "port"   -> kernel[fd]

KernelAsked ==
    pc = "poll" /\ backend # "kqueue" => \A fd \in open : Watched(fd) = Asked(active, fd)

BackendInv == TypeOK /\ PollsIndexed /\ KernelAsked

\* kqueue may need another turn, in which changes that were refused are made again;
\* and as kqueue_fork keeps the changes of the old queue (ev_kqueue.c:187), it may
\* watch what was asked for before a fork.
KqueueAsked ==
    pc = "poll" /\ backend = "kqueue" => \A fd \in open :
        LET done == Kevent(kernel, changes) IN
        \/ done.kernel[fd] = Asked(active, fd)
        \/ fd \in Range(done.refused)
        \/ fd \in leftover /\ Asked(active, fd) \subseteq done.kernel[fd]

\* poll and select find out about watchers of a descriptor that is not open, and
\* stop them; the other backends cannot.
BadFdKilled ==
    \A w \in Watchers : backend \in {"poll", "select"} /\ w \in active /\ FdOf[w] \notin open
                          ~> w \notin active \/ FdOf[w] \in open
=============================================================================
