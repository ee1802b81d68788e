------------------------------- MODULE EvStat -------------------------------
(***************************************************************************)
(* Stat watchers and inotify in ev.c. The watchers look at one path, of    *)
(* which other processes create, change, replace, move and delete the file *)
(* and its directory at any time: a system call of the loop is a step, and *)
(* the files may change between two of them. The kernel's inotify instance *)
(* is external and modelled by what inotify(7) says of it.                 *)
(*                                                                         *)
(* An inode is named by the number of the change that made it. What else   *)
(* lstat says of a file has two values, so that a change can be undone.    *)
(* Not modelled: a directory above the file's that is renamed, of which    *)
(* inotify says nothing; watch descriptors that the kernel uses again.     *)
(***************************************************************************)
EXTENDS Integers, Sequences, FiniteSets, SequencesExt

CONSTANTS
    Stats,          \* the stat watchers
    FileSystems,    \* those the path may be on: "local", "remote" or "old" (a kernel before 2.6.25)
    QueueMax,       \* max_queued_events
    MaxChanges, MaxStarts, MaxForks,        \* bounds
    none

StatsRight ==
    /\ IsFiniteSet(Stats) /\ none \notin Int
    /\ FileSystems \subseteq {"local", "remote", "old"}
    /\ QueueMax \in Nat \ {0} /\ MaxChanges \in Nat /\ MaxStarts \in Nat /\ MaxForks \in Nat

VARIABLES
    fs,         \* the file system the path is on
    dir,        \* the inode of the directory, or none
    file,       \* the inode and the attributes of the file, or none
    changes,    \* how often they changed
    target,     \* the kernel's watches: their descriptors and inodes
    events,     \* its queue: descriptors, and whether their watch is gone
    fs_fd,      \* "new" (-2), "none" (-1) or "open"
    batch,      \* the events that infy_cb has read
    visit,      \* the watchers it has still to look at for the first of them
    agenda,     \* the calls the loop is about to make
    started, timers,    \* the watchers that are started, those whose timer runs
    wd, attr,   \* of the watchers
    fed,        \* the watchers that are pending
    refs,       \* what the watchers and their timers count in activecnt
    starts, forks,
    told,       \* history: attr in the last callback of each watcher, or when it was started
    late,       \* history: watchers that watch another file than lstat saw
    overflowed  \* history: whether infy_cb has read an overflow event

world == <<fs, dir, file, changes>>
loop  == <<batch, visit, agenda>>
history == <<told, late, overflowed>>
state == <<started, timers, wd, attr, fed, refs>>
vars  == <<world, target, events, fs_fd, loop, state, starts, forks, history>>

\* w->wd: there is no watch; infy_del has removed it.
NoWd   == -1
GoneWd == -2
Wds    == Nat \ {0}

Idle     == agenda = <<>> /\ batch = <<>>
Bit(b)   == IF b THEN 1 ELSE 0
Hashed   == {w \in Stats : wd[w] > 0}        \* the watchers in fs_hash

\* lstat: what it fills in, over what was there.
Lstat(w) == IF file = none THEN [attr[w] EXCEPT !.st_nlink = 0]
            ELSE [ino |-> file.ino, ver |-> file.ver, st_nlink |-> 1]
Current(w) == attr[w] = Lstat(w)

\* The inode to watch, and whether a watcher watches another one.
PathInode == IF file # none THEN file.ino ELSE dir
Strays(w) == wd[w] \in DOMAIN target /\ target[wd[w]] # PathInode
\* History: a look at the path that does not go with the watch.
Looked(w) == late' = IF Strays(w) THEN late \cup {w} ELSE late \ {w}
-----------------------------------------------------------------------------
(* The kernel: watches and events.                                         *)

\* There is at most one for an inode.
WdsOf(inode) == {d \in DOMAIN target : target[d] = inode}
WdOf(inode)  == CHOOSE d \in WdsOf(inode) : TRUE

\* An event for descriptor d, unless it is the same as the last one. When the
\* queue is full, an overflow event ends it.
Overflow == [wd |-> NoWd, gone |-> FALSE]
Queued(q, d, gone) ==
    LET e == [wd |-> d, gone |-> gone]
    IN  IF q # <<>> /\ Last(q) \in {e, Overflow} THEN q
        ELSE Append(q, IF Len(q) < QueueMax THEN e ELSE Overflow)

\* Events about an inode. A watch that is gone says so in its last event.
Noticed(q, inode, gone) == IF WdsOf(inode) = {} THEN q ELSE Queued(q, WdOf(inode), gone)
Unwatched(inode) == [d \in DOMAIN target \ WdsOf(inode) |-> target[d]]

\* A descriptor that nothing knows yet.
Known == DOMAIN target \cup Range(wd) \cup {e.wd : e \in Range(events) \cup Range(batch)}
NewWd == CHOOSE d \in 1 .. Cardinality(Known) + 1 : d \notin Known
-----------------------------------------------------------------------------
(* The other processes.                                                    *)

Changed(newDir, newFile) ==
    /\ changes < MaxChanges /\ changes' = changes + 1
    /\ dir' = newDir /\ file' = newFile
    /\ UNCHANGED <<fs, fs_fd, loop, state, starts, forks, history>>

\* On a remote file system it is another machine that makes them.
Unseen == fs = "remote" /\ UNCHANGED <<target, events>>
Seen   == fs # "remote"

Now == changes + 1

Modify ==
    /\ file # none
    /\ Changed(dir, [file EXCEPT !.ver = 1 - @])
    /\ \/ Unseen
       \/ Seen /\ events' = Noticed(events, file.ino, FALSE) /\ UNCHANGED target

Create ==
    /\ dir # none /\ file = none
    /\ Changed(dir, [ino |-> Now, ver |-> 0])
    /\ \/ Unseen
       \/ Seen /\ events' = Noticed(events, dir, FALSE) /\ UNCHANGED target

\* The last link of an inode goes: IN_ATTRIB, IN_DELETE_SELF and IN_IGNORED.
Unlinked(q, inode) == Noticed(Noticed(q, inode, FALSE), inode, TRUE)

Delete ==
    /\ file # none
    /\ Changed(dir, none)
    /\ \/ Unseen
       \/ Seen /\ events' = Unlinked(events, file.ino) /\ target' = Unwatched(file.ino)

\* Another file is renamed to the path.
Replace ==
    /\ file # none
    /\ Changed(dir, [ino |-> Now, ver |-> 0])
    /\ \/ Unseen
       \/ /\ Seen
          /\ events' = Noticed(Unlinked(events, file.ino), dir, FALSE)
          /\ target' = Unwatched(file.ino)

\* The file goes elsewhere and takes its watch along.
MoveAway ==
    /\ file # none
    /\ Changed(dir, none)
    /\ \/ Unseen
       \/ Seen /\ events' = Noticed(events, file.ino, FALSE) /\ UNCHANGED target

Mkdir ==
    /\ dir = none
    /\ Changed(Now, none)
    /\ UNCHANGED <<target, events>>

Rmdir ==
    /\ dir # none /\ file = none
    /\ Changed(none, none)
    /\ \/ Unseen
       \/ Seen /\ events' = Noticed(events, dir, TRUE) /\ target' = Unwatched(dir)

World == Modify \/ Create \/ Delete \/ Replace \/ MoveAway \/ Mkdir \/ Rmdir
-----------------------------------------------------------------------------
(* infy_add and infy_del.                                                  *)

RearmedUncounted(w, repeats) ==
    /\ timers' = IF repeats THEN timers \cup {w} ELSE timers \ {w}
    /\ refs' = refs + (Bit(repeats) - Bit(w \in timers)) - Bit(repeats)

\* ev_timer_again with ev_ref and ev_unref around it: the timer does not
\* count. Whether it runs is up to repeat.
Rearmed(w, repeats) ==
    /\ timers' = IF repeats THEN timers \cup {w} ELSE timers \ {w}
    /\ refs' = refs + Bit(w \in timers) + (Bit(repeats) - Bit(w \in timers)) - Bit(repeats)

\* inotify_add_watch of the path, or of the nearest directory above it that
\* is there; the inode's watch may exist already. The timer is only stopped
\* when the file itself is watched and its file system is known to be local.
InfyAdd(w) ==
    LET d == IF PathInode = none THEN NoWd
             ELSE IF WdsOf(PathInode) # {} THEN WdOf(PathInode) ELSE NewWd
    IN  /\ wd' = [wd EXCEPT ![w] = d]
        /\ target' = [x \in (DOMAIN target \cup {d}) \ {NoWd} |-> IF x = d THEN PathInode ELSE target[x]]
        /\ Rearmed(w, file = none \/ fs # "local")

\* The watch is removed though others may share it: IN_IGNORED tells them.
InfyDel(w) ==
    IF wd[w] < 0 THEN UNCHANGED <<wd, target, events>>
    ELSE /\ wd' = [wd EXCEPT ![w] = GoneWd]
         /\ target' = [d \in DOMAIN target \ {wd[w]} |-> target[d]]
         /\ events' = IF wd[w] \in DOMAIN target THEN Queued(events, wd[w], TRUE) ELSE events

\* The next call of the loop.
Call(op, w) == agenda # <<>> /\ Head(agenda) = <<op, w>>

Add(w) ==
    /\ Call("add", w)
    /\ InfyAdd(w)
    /\ agenda' = Tail(agenda)
    /\ late' = late \ {w}
    /\ UNCHANGED <<world, events, fs_fd, batch, visit, started, attr, fed, starts, forks, told,
                   overflowed>>

\* Where nothing looks at the file again after infy_add.
AddLast(w) ==
    /\ Call("addLast", w)
    /\ InfyAdd(w)
    /\ agenda' = Tail(agenda)
    /\ late' = IF Current(w) THEN late \ {w} ELSE late \cup {w}
    /\ UNCHANGED <<world, events, fs_fd, batch, visit, started, attr, fed, starts, forks, told,
                   overflowed>>

Del(w) ==
    /\ Call("del", w)
    /\ InfyDel(w)
    /\ agenda' = Tail(agenda)
    /\ UNCHANGED <<world, fs_fd, batch, visit, started, timers, attr, fed, refs, starts, forks,
                   history>>
-----------------------------------------------------------------------------
(* stat_timer_cb: called for the timer, or for an event.                   *)

CheckWithoutRestat(w) ==
    /\ Call("check", w)
    /\ attr' = [attr EXCEPT ![w] = Lstat(w)]
    /\ Looked(w)
    /\ IF Current(w)
       THEN agenda' = Tail(agenda) /\ UNCHANGED fed
       ELSE /\ fed' = fed \cup {w}
            /\ agenda' = (IF fs_fd = "open" THEN <<<<"del", w>>, <<"add", w>>>> ELSE <<>>)
                           \o Tail(agenda)
    /\ UNCHANGED <<world, target, events, fs_fd, batch, visit, started, timers, wd, refs, starts,
                   forks, told, overflowed>>

\* A change is fed; before that the path is watched anew, as its inode may be
\* another one, and looked at once more.
Check(w) ==
    /\ Call("check", w)
    /\ attr' = [attr EXCEPT ![w] = Lstat(w)]
    /\ Looked(w)
    /\ IF Current(w)
       THEN agenda' = Tail(agenda) /\ UNCHANGED fed
       ELSE IF fs_fd = "open"
            THEN /\ agenda' = <<<<"del", w>>, <<"add", w>>, <<"stat", w>>>> \o Tail(agenda)
                 /\ UNCHANGED fed
            ELSE agenda' = Tail(agenda) /\ fed' = fed \cup {w}
    /\ UNCHANGED <<world, target, events, fs_fd, batch, visit, started, timers, wd, refs, starts,
                   forks, told, overflowed>>

Stat(w) ==
    /\ Call("stat", w)
    /\ attr' = [attr EXCEPT ![w] = Lstat(w)]
    /\ fed' = fed \cup {w}
    /\ agenda' = Tail(agenda)
    /\ Looked(w)
    /\ UNCHANGED <<world, target, events, fs_fd, batch, visit, started, timers, wd, refs,
                   starts, forks, told, overflowed>>

\* The inner timer expires.
TimerExpires(w) ==
    /\ Idle /\ w \in timers
    /\ agenda' = <<<<"check", w>>>>
    /\ UNCHANGED <<world, target, events, fs_fd, batch, visit, state, starts, forks, history>>
-----------------------------------------------------------------------------
(* infy_cb and infy_wd.                                                    *)

\* A read returns as many events as the buffer holds.
InfyCb ==
    /\ Idle /\ fs_fd = "open" /\ events # <<>>
    /\ \E n \in {1, Len(events)} :
         /\ batch' = SubSeq(events, 1, n)
         /\ events' = SubSeq(events, n + 1, Len(events))
    /\ visit' = Hashed
    /\ UNCHANGED <<world, target, fs_fd, agenda, state, starts, forks, history>>

Meant(w) == Head(batch).wd \in {wd[w], Overflow.wd}

\* The watchers of a descriptor are looked at in the order of their list, and
\* those whose watch is gone added again. An overflow concerns all.
InfyWd(w) ==
    /\ agenda = <<>> /\ batch # <<>> /\ w \in visit /\ Meant(w)
    /\ visit' = visit \ {w}
    /\ IF Head(batch).gone
       THEN wd' = [wd EXCEPT ![w] = NoWd] /\ agenda' = <<<<"add", w>>, <<"check", w>>>>
       ELSE agenda' = <<<<"check", w>>>> /\ UNCHANGED wd
    /\ UNCHANGED <<world, target, events, fs_fd, batch, started, timers, attr, fed, refs,
                   starts, forks, history>>

NextEvent ==
    /\ agenda = <<>> /\ batch # <<>> /\ \A w \in visit : ~Meant(w)
    /\ batch' = Tail(batch)
    /\ visit' = IF Tail(batch) = <<>> THEN {} ELSE Hashed
    /\ overflowed' = (overflowed \/ Head(batch) = Overflow)
    /\ UNCHANGED <<world, target, events, fs_fd, agenda, state, starts, forks, told, late>>
-----------------------------------------------------------------------------
(* The loop and the program.                                               *)

\* infy_init makes the inotify instance when the first watcher starts.
InfyInit == IF fs_fd = "new" THEN fs_fd' \in {"open", "none"} ELSE UNCHANGED fs_fd

\* lstat comes first; infy_add follows, or the timer that stands in for it.
StatStart(w) ==
    /\ Idle /\ w \notin started
    /\ starts < MaxStarts /\ starts' = starts + 1
    /\ InfyInit
    /\ started' = started \cup {w}
    /\ attr' = [attr EXCEPT ![w] = Lstat(w)]
    /\ told' = [told EXCEPT ![w] = Lstat(w)]
    /\ IF fs_fd' = "open"
       THEN /\ agenda' = <<<<"addLast", w>>>> /\ refs' = refs + 1
            /\ UNCHANGED timers
       ELSE /\ timers' = timers \cup {w} /\ refs' = refs + 1 - 1 + 1
            /\ UNCHANGED agenda
    /\ UNCHANGED <<world, target, events, batch, visit, wd, fed, forks, late, overflowed>>

StatStop(w) ==
    /\ Idle /\ w \in started
    /\ InfyDel(w)
    /\ started' = started \ {w} /\ timers' = timers \ {w} /\ fed' = fed \ {w}
    /\ refs' = refs + Bit(w \in timers) - Bit(w \in timers) - 1
    /\ late' = late \ {w}
    /\ UNCHANGED <<world, fs_fd, loop, attr, starts, forks, told, overflowed>>

\* The callback of a watcher looks at attr.
Invoke(w) ==
    /\ Idle /\ w \in fed
    /\ fed' = fed \ {w}
    /\ told' = [told EXCEPT ![w] = attr[w]]
    /\ UNCHANGED <<world, target, events, fs_fd, loop, started, timers, wd, attr, refs, starts,
                   forks, late, overflowed>>

\* In a new process: another inotify instance for all watchers of the old one,
\* whose events are lost, or their timers where there is none.
InfyFork ==
    /\ Idle /\ fs_fd = "open"
    /\ forks < MaxForks /\ forks' = forks + 1
    /\ fs_fd' \in {"open", "none"}
    /\ target' = << >> /\ events' = <<>>
    /\ wd' = [w \in Stats |-> IF w \in Hashed THEN NoWd ELSE wd[w]]
    /\ IF fs_fd' = "open"
       THEN /\ \E s \in SetToSeqs(Hashed) : agenda' = [k \in DOMAIN s |-> <<"addLast", s[k]>>]
            /\ UNCHANGED timers
       ELSE timers' = timers \cup Hashed /\ UNCHANGED agenda
    /\ UNCHANGED <<world, batch, visit, started, attr, fed, refs, starts, history>>
-----------------------------------------------------------------------------
Init ==
    /\ fs \in FileSystems
    /\ dir \in {none, NoWd} /\ file \in {none, [ino |-> 0, ver |-> 0]}
    /\ file # none => dir # none
    /\ changes = 0
    /\ target = << >> /\ events = <<>> /\ fs_fd = "new"
    /\ batch = <<>> /\ visit = {} /\ agenda = <<>>
    /\ started = {} /\ timers = {} /\ fed = {} /\ refs = 0
    /\ wd = [w \in Stats |-> NoWd]
    /\ attr = [w \in Stats |-> [ino |-> 0, ver |-> 0, st_nlink |-> 0]]
    /\ told = attr
    /\ starts = 0 /\ forks = 0 /\ late = {} /\ overflowed = FALSE

Loop(w) ==
    \/ Add(w) \/ AddLast(w) \/ Del(w) \/ Check(w) \/ Stat(w)
    \/ InfyWd(w) \/ TimerExpires(w) \/ Invoke(w)

Next ==
    \/ World \/ InfyCb \/ NextEvent \/ InfyFork
    \/ \E w \in Stats : Loop(w) \/ StatStart(w) \/ StatStop(w)

Spec == Init /\ [][Next]_vars
-----------------------------------------------------------------------------
(* Properties.                                                             *)

Attrs == [ino : 0 .. MaxChanges, ver : {0, 1}, st_nlink : {0, 1}]

TypeOK ==
    /\ file = none \/ file \in [ino : 0 .. MaxChanges, ver : {0, 1}]
    /\ fs_fd \in {"new", "none", "open"}
    /\ DOMAIN target \subseteq Wds
    /\ \A e \in Range(events) \cup Range(batch) : e \in [wd : Wds \cup {NoWd}, gone : BOOLEAN]
    /\ wd \in [Stats -> Wds \cup {NoWd, GoneWd}]
    /\ attr \in [Stats -> Attrs] /\ told \in [Stats -> Attrs]
    /\ fed \subseteq started /\ visit \subseteq Stats

\* Between two callbacks of the loop a watcher that runs has a watch or a
\* timer to look at its path, one that does not run has neither, and the
\* inner timers keep no loop alive: activecnt counts the watchers alone
\* (ev.c:4500-4507, 4751, 4785).
StatInv ==
    /\ TypeOK
    /\ refs = Cardinality(started)
    /\ agenda = <<>> => \A w \in started : w \in timers \/ w \in Hashed
    /\ timers \cup Hashed \subseteq started
    /\ fs_fd # "open" => Hashed = {} /\ DOMAIN target = {}

\* The last event of its watch was dropped: nothing adds the watcher again.
Deaf(w) == w \in Hashed /\ wd[w] \notin DOMAIN target

\* When the loop has nothing left to do, each watcher that runs has seen the
\* file as it is, or has a timer that will look at it, and its callback was
\* told, whatever events, timers and changes of the files raced with each
\* other (ev.c:4549-4554, 4714-4721). Three races are lost: a change between
\* the lstat of ev_stat_start, or the last one before a fork, and infy_add; one
\* between infy_add and the lstat that is to "avoid race..." (ev.c:4721), if the
\* file takes its watch along; and the last event of a watch that is dropped
\* because the queue overflows.
ChangesReported ==
    Idle /\ events = <<>> => \A w \in started :
        /\ \/ Current(w) \/ w \in timers
           \/ w \in late \/ (overflowed /\ Deaf(w))
        /\ told[w] = attr[w] \/ w \in fed
=============================================================================
