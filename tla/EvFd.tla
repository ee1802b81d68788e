-------------------------------- MODULE EvFd --------------------------------
(***************************************************************************)
(* File descriptors: anfds and fdchanges of ev.c, and the epoll backend of *)
(* ev_epoll.c with the kernel it talks to.                                 *)
(*                                                                         *)
(* ev_io_start and ev_io_stop only note that a descriptor has changed; the *)
(* kernel hears of it from fd_reify, before the loop polls. epoll does not *)
(* hear of it at all when a watcher is stopped, and it keeps its interest  *)
(* not in a descriptor but in the open file it named: closing the          *)
(* descriptor ends that interest only if nobody else holds the file. So    *)
(* events may come for what the descriptor named before. libev numbers its *)
(* calls of epoll_ctl for a descriptor (egen), ignores events of another   *)
(* number, and then builds a new epoll set.                                *)
(*                                                                         *)
(* The kernel reports what it likes of what it was told to watch. The order*)
(* of watchers on a descriptor is left out, and so is everything of ev_run *)
(* between a callback and the next poll that does not touch descriptors.   *)
(***************************************************************************)
EXTENDS Integers, Sequences, FiniteSets, SequencesExt, Anfds

CONSTANTS
    Fd,         \* the descriptor of each watcher
    Wants,      \* the events each watcher asks for
    Files,      \* open files; what they are is
    Regular,    \* those of them that epoll does not take, as regular files
    Restoring,  \* the program may give a descriptor back the file it named
                \* before, by dup2 from a copy
    closed,     \* what a descriptor names that is not open
    MaxCalls    \* bound: calls of the program

Evs == {"READ", "WRITE"}

ASSUME FdAssumption ==
    /\ IsFiniteSet(Fds)
    /\ Fd \in [Watchers -> Fds]
    /\ Wants \in [Watchers -> (SUBSET Evs) \ {{}}]
    /\ Regular \subseteq Files
    /\ closed \notin Files
    /\ Restoring \in BOOLEAN
    /\ MaxCalls \in Nat

VARIABLES
    held,       \* the files that other descriptors or processes hold
    interest,   \* the epoll set
    fdset,      \* the watchers with EV__IOFDSET: ev_io_set since their start
    pending,    \* the events each watcher will be called with
    emask,      \* anfds[fd].emask: the epoll backend's idea of the kernel's mask
    egen,       \* anfds[fd].egen: the number of its last epoll_ctl
    eperms,     \* how often each descriptor is in epoll_eperms: those epoll does not
                \* take
    postfork,   \* why the epoll set must be renewed: 1 a fork, 2 a stray event
    i,          \* how many of fdchanges have been reified
    reports,    \* what epoll_wait returned and epoll_poll has yet to look at
    strayed,    \* history: some interest has outlived its descriptor
    calls       \* calls of the program, for the bound

\* open is the file each descriptor names; pc is "program" in callbacks of ev_run and
\* outside it.
kernelVars  == <<open, held, interest>>
watcherVars == <<active, fdset, pending>>
anfdVars    == <<events, reify, emask, egen>>
loopVars    == <<fdchanges, eperms, postfork, pc, i, reports>>
vars        == <<kernelVars, watcherVars, anfdVars, loopVars, strayed, calls>>

On(fd)     == {w \in active : Fd[w] = fd}
WantOf(fd) == UNION {Wants[w] : w \in On(fd)}
-----------------------------------------------------------------------------
(* The kernel.                                                             *)

Entry(fd, file, evs, gen) == [fd |-> fd, file |-> file, events |-> evs, egen |-> gen]
Mine(fd) == {e \in interest : e.fd = fd /\ e.file = open[fd]}

\* What epoll_ctl answers.
Errno(op, fd) ==
    IF open[fd] = closed THEN "EBADF"
    ELSE IF open[fd] \in Regular THEN "EPERM"
    ELSE IF op = "ADD" /\ Mine(fd) # {} THEN "EEXIST"
    ELSE IF op # "ADD" /\ Mine(fd) = {} THEN "ENOENT"
    ELSE "0"

\* What it does when it succeeds.
Ctl(op, fd, evs, gen) ==
    interest' = (interest \ Mine(fd)) \cup
                (IF op = "DEL" THEN {} ELSE {Entry(fd, open[fd], evs, gen)})

\* A file nobody holds leaves the epoll set.
Living(set, names, holders) ==
    {e \in set : e.file \in holders \/ \E fd \in Fds : names[fd] = e.file}
-----------------------------------------------------------------------------
(* anfds.                                                                  *)

\* fd_change on every descriptor of a set, each with the flags given for it.
FdChange(fds, flags) ==
    /\ reify' = [fd \in Fds |-> IF fd \in fds THEN reify[fd] \cup flags[fd] ELSE reify[fd]]
    /\ fdchanges' = fdchanges \o SetToSeq({fd \in fds : reify[fd] = {}})

IoStart(w) ==
    /\ w \notin active
    /\ active' = active \cup {w}
    /\ fdset' = fdset \ {w}
    /\ FdChange({Fd[w]}, [fd \in {Fd[w]} |->
                  {"REIFY"} \cup (IF w \in fdset THEN {"IOFDSET"} ELSE {})])
    /\ UNCHANGED pending

IoStop(w) ==
    /\ pending' = [pending EXCEPT ![w] = {}]
    /\ active' = active \ {w}
    /\ IF w \in active
       THEN FdChange({Fd[w]}, [fd \in {Fd[w]} |-> {"REIFY"}])
       ELSE UNCHANGED <<reify, fdchanges>>
    /\ UNCHANGED fdset

\* fd_event: nothing is fed for a descriptor whose change the kernel has not
\* been told yet.
FdEvent(fd, got) ==
    pending' = [w \in Watchers |-> IF w \in On(fd) /\ reify[fd] = {}
                                   THEN pending[w] \cup (Wants[w] \cap got) ELSE pending[w]]
-----------------------------------------------------------------------------
(* fd_reify and epoll_modify.                                              *)

\* fd_reify at descriptor fd: nothing more to do than to note the events.
Told(fd, evs) ==
    /\ events' = [events EXCEPT ![fd] = evs]
    /\ reify' = [reify EXCEPT ![fd] = {}]
    /\ UNCHANGED <<fdchanges, active, pending>>

\* epoll_ctl succeeded with a new number.
Accepted(fd, op, evs) ==
    /\ Ctl(op, fd, evs, egen[fd] + 1)
    /\ emask' = [emask EXCEPT ![fd] = evs]
    /\ egen' = [egen EXCEPT ![fd] = @ + 1]
    /\ Told(fd, evs)
    /\ UNCHANGED eperms

\* The kernel knows the file already, and the mask is thought to be the same:
\* the number is taken back.
AssumedAs(fd, evs) ==
    /\ emask' = [emask EXCEPT ![fd] = evs]
    /\ Told(fd, evs)
    /\ UNCHANGED <<interest, egen, eperms>>

\* epoll does not take the file: epoll_poll will say that it is ready.
AlwaysReady(fd, evs) ==
    /\ emask' = [emask EXCEPT ![fd] = {"EPERM"}]
    /\ egen' = [egen EXCEPT ![fd] = @ + 1]
    /\ eperms' = IF "EPERM" \in emask[fd] THEN eperms ELSE [eperms EXCEPT ![fd] = @ + 1]
    /\ Told(fd, evs)
    /\ UNCHANGED interest

KilledUnnoted(fd, evs) ==
    /\ emask' = [emask EXCEPT ![fd] = evs]
    /\ events' = [events EXCEPT ![fd] = evs]
    /\ active' = active \ On(fd)
    /\ pending' = [w \in Watchers |-> IF w \in On(fd) THEN Evs \cup {"ERROR"} ELSE pending[w]]
    /\ reify' = [reify EXCEPT ![fd] = {}]
    /\ UNCHANGED <<fdchanges, interest, egen, eperms>>

\* fd_kill: the watchers are stopped and called with an error. The descriptor
\* joins fdchanges again, behind those fd_reify has still to do.
Killed(fd, evs) ==
    /\ emask' = [emask EXCEPT ![fd] = evs]
    /\ events' = [events EXCEPT ![fd] = evs]
    /\ active' = active \ On(fd)
    /\ pending' = [w \in Watchers |-> IF w \in On(fd) THEN Evs \cup {"ERROR"} ELSE pending[w]]
    /\ reify' = [reify EXCEPT ![fd] = {"REIFY"}]
    /\ fdchanges' = Append(fdchanges, fd)
    /\ UNCHANGED <<interest, egen, eperms>>

FirstOp(fd, evs) == IF events[fd] # {} /\ emask[fd] # evs THEN "MOD" ELSE "ADD"

\* epoll_modify, with events[fd] still what it was told before.
EpollModify(fd, evs) ==
    LET op  == FirstOp(fd, evs)
        err == Errno(op, fd)
    IN  CASE err = "0"      -> Accepted(fd, op, evs)
          [] err = "ENOENT" -> Accepted(fd, "ADD", evs)
          [] err = "EEXIST" -> IF emask[fd] = evs THEN AssumedAs(fd, evs)
                               ELSE Accepted(fd, "MOD", evs)
          [] err = "EPERM"  -> AlwaysReady(fd, evs)
          [] err = "EBADF"  -> Killed(fd, evs)

FdReify ==
    /\ pc = "reify" /\ i < Len(fdchanges)
    /\ LET fd == fdchanges[i + 1] IN
       IF WantOf(fd) # {} /\ (WantOf(fd) # events[fd] \/ "IOFDSET" \in reify[fd])
       THEN EpollModify(fd, WantOf(fd))
       ELSE Told(fd, WantOf(fd)) /\ UNCHANGED <<interest, emask, egen, eperms>>
    /\ i' = i + 1
    /\ UNCHANGED <<open, held, fdset, postfork, pc, reports, strayed, calls>>

FdReifyDone ==
    /\ pc = "reify" /\ i = Len(fdchanges)
    /\ fdchanges' = <<>>
    /\ i' = 0
    /\ pc' = "poll"
    /\ UNCHANGED <<kernelVars, watcherVars, anfdVars, eperms, postfork, reports, strayed, calls>>
-----------------------------------------------------------------------------
(* loop_fork and epoll_poll.                                               *)

FdRearmAll ==
    LET fds == {fd \in Fds : events[fd] # {}} IN
    /\ events' = [fd \in Fds |-> {}]
    /\ emask' = [fd \in Fds |-> IF fd \in fds THEN {} ELSE emask[fd]]
    /\ FdChange(fds, [fd \in fds |-> {"IOFDSET", "REIFY"}])

\* A new epoll set, and everything is asked for again.
EpollFork == interest' = {} /\ FdRearmAll

\* Every callback has been called; ev_run comes to its test of postfork. If it
\* must, epoll_fork makes a new epoll set and fd_rearm_all has all descriptors
\* told again.
Iterate ==
    /\ pc = "program"
    /\ \A w \in Watchers : pending[w] = {}
    /\ IF postfork = {} THEN UNCHANGED <<interest, events, reify, emask, fdchanges>>
       ELSE EpollFork
    /\ postfork' = {}
    /\ pc' = "reify"
    /\ UNCHANGED <<open, held, watcherVars, egen, eperms, i, reports, strayed, calls>>

\* What the kernel may say of an entry: events it watches, or an error, which
\* epoll_poll takes for both.
Report(e, got) == [fd |-> e.fd, file |-> e.file, egen |-> e.egen, got |-> got]
Sayable(e) == {Report(e, got) : got \in (SUBSET e.events) \ {{}}} \cup {Report(e, Evs)}

EpollWait ==
    /\ pc = "poll"
    /\ \E said \in SUBSET UNION {Sayable(e) : e \in interest} :
         /\ \A r, s \in said : r.fd = s.fd /\ r.file = s.file => r = s
         /\ reports' = said
    /\ pc' = "events"
    /\ UNCHANGED <<kernelVars, watcherVars, anfdVars, fdchanges, eperms, postfork, i, strayed, calls>>

Unwanted(r) == r.got \ events[r.fd] # {}

AskRenewal == postfork' = postfork \cup {2} /\ UNCHANGED pending

EventAnyGeneration(r) ==
    /\ FdEvent(r.fd, r.got)
    /\ UNCHANGED <<interest, emask, postfork>>

EventUnanswered(r) ==
    IF egen[r.fd] # r.egen THEN AskRenewal /\ UNCHANGED <<interest, emask>>
    ELSE FdEvent(r.fd, r.got) /\ UNCHANGED <<interest, emask, postfork>>

\* One event of epoll_wait.
Event(r) ==
    LET want == events[r.fd]
        op   == IF want = {} THEN "DEL" ELSE "MOD"
    IN  IF egen[r.fd] # r.egen
        THEN AskRenewal /\ UNCHANGED <<interest, emask>>
        ELSE IF ~Unwanted(r)
        THEN FdEvent(r.fd, r.got) /\ UNCHANGED <<interest, emask, postfork>>
        ELSE /\ emask' = [emask EXCEPT ![r.fd] = want]
             /\ IF Errno(op, r.fd) = "0"
                THEN Ctl(op, r.fd, want, r.egen) /\ FdEvent(r.fd, r.got) /\ UNCHANGED postfork
                ELSE AskRenewal /\ UNCHANGED interest

EpollEvent ==
    /\ pc = "events"
    /\ \E r \in reports : Event(r) /\ reports' = reports \ {r}
    /\ UNCHANGED <<open, held, active, fdset, events, reify, egen, fdchanges, eperms, pc, i, strayed,
                   calls>>

Refused(fd) == "EPERM" \in emask[fd] /\ events[fd] # {}

\* The end of epoll_poll: the descriptors epoll does not take are ready, the
\* ones that are not watched any more, or are taken now, leave epoll_eperms.
EpollEperms ==
    /\ pc = "events" /\ reports = {}
    /\ pending' = [w \in Watchers |->
                     IF w \in active /\ eperms[Fd[w]] > 0 /\ Refused(Fd[w]) /\ reify[Fd[w]] = {}
                     THEN pending[w] \cup Wants[w] ELSE pending[w]]
    /\ emask' = [fd \in Fds |-> IF eperms[fd] > 0 /\ ~Refused(fd) THEN {} ELSE emask[fd]]
    /\ eperms' = [fd \in Fds |-> IF Refused(fd) THEN eperms[fd] ELSE 0]
    /\ pc' = "program"
    /\ UNCHANGED <<kernelVars, active, fdset, events, reify, egen, fdchanges, postfork, i, reports,
                   strayed, calls>>

LoopStep == FdReify \/ FdReifyDone \/ Iterate \/ EpollWait \/ EpollEvent \/ EpollEperms
-----------------------------------------------------------------------------
(* The program, in a callback or outside ev_run.                           *)

Call == /\ pc = "program"
        /\ calls < MaxCalls
        /\ calls' = calls + 1
LoopStays == UNCHANGED <<eperms, pc, i, reports>>

Callback(w) ==
    /\ pc = "program"
    /\ pending[w] # {}
    /\ pending' = [pending EXCEPT ![w] = {}]
    /\ UNCHANGED <<kernelVars, active, fdset, anfdVars, loopVars, strayed, calls>>

Start(w) ==
    /\ Call
    /\ IoStart(w)
    /\ UNCHANGED <<kernelVars, events, emask, egen, postfork, strayed>> /\ LoopStays

Stop(w) ==
    /\ Call
    /\ IoStop(w)
    /\ UNCHANGED <<kernelVars, events, emask, egen, postfork, strayed>> /\ LoopStays

\* ev_io_set, which a program may call on any stopped watcher, and has to call
\* when its descriptor has been closed (ev.pod:1623-1627).
Set(w) ==
    /\ Call
    /\ w \notin active
    /\ fdset' = fdset \cup {w}
    /\ UNCHANGED <<kernelVars, active, pending, anfdVars, fdchanges, postfork, strayed>> /\ LoopStays

\* The program stops what watches a descriptor before it closes it, and calls
\* ev_io_set before it starts those watchers again. Others may hold the file.
Close(fd) ==
    /\ Call
    /\ open[fd] # closed /\ On(fd) = {}
    /\ open' = [open EXCEPT ![fd] = closed]
    /\ interest' = Living(interest, open', held)
    /\ strayed' = (strayed \/ \E e \in interest' : e.fd = fd /\ e.file = open[fd])
    /\ fdset' = fdset \cup {w \in Watchers : Fd[w] = fd}
    /\ UNCHANGED <<held, active, pending, anfdVars, fdchanges, postfork>> /\ LoopStays

\* open, accept or dup2, with no watcher of the descriptor started in between;
\* again ev_io_set is called before the next start.
Open(fd, file) ==
    /\ Call
    /\ open[fd] = closed /\ On(fd) = {}
    /\ Restoring \/ ~\E e \in interest : e.fd = fd /\ e.file = file
    /\ open' = [open EXCEPT ![fd] = file]
    /\ fdset' = fdset \cup {w \in Watchers : Fd[w] = fd}
    /\ UNCHANGED <<held, interest, active, pending, anfdVars, fdchanges, postfork,
                   strayed>> /\ LoopStays

\* A file is duplicated or inherited by another process ...
Hold(file) ==
    /\ Call
    /\ \E fd \in Fds : open[fd] = file
    /\ held' = held \cup {file}
    /\ UNCHANGED <<open, interest, watcherVars, anfdVars, fdchanges, postfork, strayed>> /\ LoopStays

\* ... which closes it whenever it likes.
Release(file) ==
    /\ file \in held
    /\ held' = held \ {file}
    /\ interest' = Living(interest, open, held')
    /\ UNCHANGED <<open, watcherVars, anfdVars, loopVars, strayed, calls>>

LoopFork ==
    /\ Call
    /\ postfork' = {1}
    /\ UNCHANGED <<kernelVars, watcherVars, anfdVars, fdchanges, strayed>> /\ LoopStays

Program ==
    \/ \E w \in Watchers : Callback(w) \/ Start(w) \/ Stop(w) \/ Set(w)
    \/ \E fd \in Fds : Close(fd) \/ \E file \in Files : Open(fd, file)
    \/ \E file \in Files : Hold(file) \/ Release(file)
    \/ LoopFork

EpollInit == interest = {} /\ eperms = [fd \in Fds |-> 0]

Init ==
    /\ EpollInit
    /\ open \in [Fds -> Files]
    /\ held = {}
    /\ active = {}
    /\ fdset = Watchers
    /\ pending = [w \in Watchers |-> {}]
    /\ events = [fd \in Fds |-> {}]
    /\ reify = [fd \in Fds |-> {}]
    /\ emask = [fd \in Fds |-> {}]
    /\ egen = [fd \in Fds |-> 0]
    /\ fdchanges = <<>>
    /\ postfork = {}
    /\ pc = "program"
    /\ i = 0
    /\ reports = {}
    /\ strayed = FALSE
    /\ calls = 0

Next == LoopStep \/ Program

Spec == Init /\ [][Next]_vars
-----------------------------------------------------------------------------
(* Properties.                                                             *)

TypeOK ==
    /\ open \in [Fds -> Files \cup {closed}]
    /\ held \subseteq Files
    /\ \A e \in interest : e.fd \in Fds /\ e.file \in Files \ Regular /\ e.events \in SUBSET Evs
    /\ active \subseteq Watchers /\ fdset \subseteq Watchers
    /\ pending \in [Watchers -> SUBSET (Evs \cup {"ERROR"})]
    /\ events \in [Fds -> SUBSET Evs]
    /\ reify \in [Fds -> SUBSET {"REIFY", "IOFDSET"}]
    /\ emask \in [Fds -> SUBSET (Evs \cup {"EPERM"})]
    /\ egen \in [Fds -> Nat]
    /\ fdchanges \in Seq(Fds) /\ eperms \in [Fds -> Nat]
    /\ postfork \subseteq {1, 2}
    /\ pc \in {"program", "reify", "poll", "events"}
    /\ i \in 0 .. Len(fdchanges)
    /\ \A r \in reports : r.fd \in Fds /\ r.got \in (SUBSET Evs) \ {{}}
    /\ strayed \in BOOLEAN
    /\ calls \in 0 .. MaxCalls

\* When the loop polls, fd_reify has come to the end of all changes, its own
\* included, and the kernel watches for every started watcher what it asks for,
\* under a number epoll_poll will accept, or epoll_poll itself knows that the
\* descriptor is always ready: whatever was closed, opened, copied and
\* restarted since the last poll, no watcher is deaf (ev.pod:1623-1627).
KernelWatches ==
    pc = "poll" =>
        /\ \A fd \in Fds : events[fd] = WantOf(fd) /\ reify[fd] = {}
        /\ \A w \in active :
             \/ \E e \in Mine(Fd[w]) : Wants[w] \subseteq e.events /\ e.egen = egen[Fd[w]]
             \/ Refused(Fd[w]) /\ eperms[Fd[w]] > 0

\* A watcher is never fed an event of a file its descriptor does not name any
\* more (the check for spurious notifications, ev_epoll.c:173-209).
NoStaleEvent ==
    [][\A r \in reports : reports' = reports \ {r} /\ pending' # pending => r.file = open[r.fd]]_vars

\* An event nobody asked for does not come back for ever: the kernel is told to
\* leave it, or the epoll set will be renewed.
SpuriousIsAnswered ==
    [][\A r \in reports : r \notin reports' /\ (Unwanted(r) \/ egen[r.fd] # r.egen) =>
         postfork' # {} \/ \A e \in interest' :
            e.fd = r.fd /\ e.file = r.file => e.events \subseteq events[r.fd]]_vars

\* The epoll set is renewed for a stray event only when some interest really
\* outlived its descriptor: libev keeps its numbers and the kernel's the same.
RenewedForStraysOnly == 2 \in postfork => strayed

\* All that holds of what libev believes about the kernel.
KernelAgrees == TypeOK /\ KernelWatches /\ RenewedForStraysOnly

\* "Add fd to epoll_eperms, if not already inside" (ev_epoll.c:124).
EpermsOnce == \A fd \in Fds : eperms[fd] <= 1
=============================================================================
