------------------------------ MODULE EvTimer ------------------------------
(***************************************************************************)
(* Timers and periodics of ev.c and the two clocks they follow. A timer    *)
(* expires by mn_now, which the monotonic clock drives or, where there is  *)
(* none, the real-time clock with its jumps taken out; a periodic expires  *)
(* by ev_rt_now. The loop reads the clocks before and after it sleeps and  *)
(* at no other time.                                                       *)
(*                                                                         *)
(* The heaps of DHeap are abstracted to the sets of their elements, of     *)
(* which the earliest comes first. Time passes in ticks, at any moment.    *)
(***************************************************************************)
EXTENDS Integers, Sequences, FiniteSets, SequencesExt, FiniteSetsExt

CONSTANTS
    Watchers,           \* timers and periodics
    Kinds,              \* what a watcher can be, chosen at the start
    MinTimejump,        \* MIN_TIMEJUMP, in ticks
    MaxBlocktime,       \* MAX_BLOCKTIME
    BackendMintime,     \* backend_mintime
    TimeoutBlocktime,   \* timeout_blocktime, from ev_set_timeout_collect_interval
    Jumps,              \* by how much the real-time clock can be set
    MaxClock,           \* bound on the ticks
    MaxJumps            \* bound on the jumps

VARIABLES
    clock,              \* the time that has passed
    shift,              \* the real-time clock is ahead by this much
    jumps,              \* how often it has been set
    kind,               \* of each watcher
    have_monotonic,
    mn_now, ev_rt_now, now_floor, rtmn_diff,
    at,                 \* ev_at of each watcher
    active,             \* those in the heaps
    pending,            \* those with an event, called from the end
    pc,                 \* "run": callbacks or the program run, "poll": asleep
    wait,               \* for how long it means to sleep
    suspended,          \* between ev_suspend and ev_resume
    seen,               \* history: when the clocks were read last
    left,               \* history: how long a timer has still to run, by a stop-watch
    since               \* history: ev_rt_now when a watcher's time was set last

clocks == <<mn_now, ev_rt_now, now_floor, rtmn_diff>>
vars   == <<clock, shift, jumps, kind, have_monotonic, clocks, at, active, pending, pc,
            wait, suspended, seen, left, since>>

Timer    == [kind : {"timer"}, after : Int, repeat : Nat]
Periodic == [kind : {"periodic"}, offset : Int, interval : Nat]
Manual   == [kind : {"manual"}]         \* with a reschedule_cb

ASSUME EvTimerAssumption ==
    /\ Kinds \subseteq Timer \cup Periodic \cup Manual
    /\ {MinTimejump, MaxBlocktime, BackendMintime, TimeoutBlocktime, MaxClock, MaxJumps} \subseteq Nat
    /\ Jumps \subseteq Int
    /\ IsFiniteSet(Watchers)

IsTimer(w) == kind[w].kind = "timer"
Repeat(w)  == kind[w].repeat
Single(w)  == kind[w].kind = "periodic" /\ kind[w].interval = 0
ev_time    == clock + shift
Abs(n)     == IF n < 0 THEN -n ELSE n
-----------------------------------------------------------------------------
(* Expiry times.                                                           *)

\* periodic_recalc: the next offset + k * interval.
PeriodicRecalcOnNow(w, now) ==
    LET p == kind[w] IN p.offset + p.interval * ((now - p.offset + p.interval - 1) \div p.interval)

PeriodicRecalc(w, now) ==
    LET p == kind[w] IN p.offset + p.interval * ((now - p.offset) \div p.interval + 1)

\* What a periodic that is started, has expired or is rescheduled may expire at.
NextAts(w, now) ==
    IF kind[w].kind = "manual" THEN {now + 1, now + 2}
    ELSE IF kind[w].interval > 0 THEN {PeriodicRecalc(w, now)}
    ELSE {at[w]}

\* All expiry times that result when each of the periodics ws is given its next one.
Recalculated(ws, ats, now) ==
    LET Next1(w) == IF w \in ws THEN NextAts(w, now) ELSE {ats[w]}
    IN  {a \in [Watchers -> UNION {Next1(w) : w \in Watchers}] : \A w \in Watchers : a[w] \in Next1(w)}

Periodics == {w \in active : ~IsTimer(w)}
Timers    == {w \in active : IsTimer(w)}

\* timers_reschedule
Adjusted(ats, adjust) ==
    [w \in Watchers |-> IF w \in Timers THEN ats[w] + adjust ELSE ats[w]]
-----------------------------------------------------------------------------
(* time_update: what it can leave in the clocks and in the expiry times.   *)

\* With a monotonic clock. The real-time clock is read once in MinTimejump / 2; the
\* loop that tells a jump from a preemption is abstracted: its readings agree.
UpdateMonotonic ==
    IF 2 * (clock - now_floor) < MinTimejump
    THEN {[mn |-> clock, rt |-> rtmn_diff + clock, floor |-> now_floor, diff |-> rtmn_diff, at |-> at]}
    ELSE {[mn |-> clock, rt |-> ev_time, floor |-> clock, diff |-> shift, at |-> a] :
            a \in IF Abs(rtmn_diff - shift) < MinTimejump THEN {at}
                  ELSE Recalculated(Periodics, at, ev_time)}

\* Without one the real-time clock must have gone on, and by no more than the loop
\* slept; else the jump is taken out of the timers.
UpdateRealtime(max_block) ==
    {[mn |-> ev_time, rt |-> ev_time, floor |-> now_floor, diff |-> rtmn_diff, at |-> a] :
        a \in IF mn_now > ev_time \/ ev_time > mn_now + max_block + MinTimejump
              THEN Recalculated(Periodics, Adjusted(at, ev_time - mn_now), ev_time)
              ELSE {at}}

TimeUpdate(max_block) ==
    IF have_monotonic THEN UpdateMonotonic ELSE UpdateRealtime(max_block)

Forever == 9 * MaxClock         \* 1e100

SetClocks(u) ==
    /\ mn_now' = u.mn
    /\ ev_rt_now' = u.rt
    /\ now_floor' = u.floor
    /\ rtmn_diff' = u.diff
    /\ seen' = clock

\* Of the periodics whose time a step of the loop has set.
Since == since' = [w \in Watchers |-> IF w \in Periodics /\ at'[w] # at[w] THEN ev_rt_now' ELSE since[w]]
-----------------------------------------------------------------------------
(* The loop.                                                               *)

world == <<clock, shift, jumps, kind, have_monotonic>>

\* How long the backend may sleep.
WaitTimeByOldClock(u) ==
    LET to == {u.at[w] - mn_now : w \in Timers} \cup {u.at[w] - ev_rt_now : w \in Periodics}
    IN  Max({Min(to \cup {MaxBlocktime}), TimeoutBlocktime, BackendMintime})

WaitTime(u) ==
    LET to == {u.at[w] - u.mn : w \in Timers} \cup {u.at[w] - u.rt : w \in Periodics}
    IN  Max({Min(to \cup {MaxBlocktime}), TimeoutBlocktime, BackendMintime})

\* nowait: EVRUN_NOWAIT, an idle watcher or an event on the pipe.
Block ==
    /\ pc = "run" /\ ~suspended /\ pending = <<>>
    /\ \E u \in TimeUpdate(Forever) :
         /\ SetClocks(u)
         /\ at' = u.at
         /\ \E nowait \in BOOLEAN : wait' = IF nowait \/ active = {} THEN 0 ELSE WaitTime(u)
    /\ pc' = "poll"
    /\ UNCHANGED <<world, active, pending, suspended, left>>
    /\ Since

\* feed_reverse, feed_reverse_done: the order in which the heads of a heap come
\* off, turned round. Equal ones may come in any order.
FeedForward(due, ats) ==
    {s \in SetToSeqs(due) : \A i, j \in 1 .. Len(s) : i < j => ats[s[i]] <= ats[s[j]]}

FeedReverse(due, ats) ==
    {s \in SetToSeqs(due) : \A i, j \in 1 .. Len(s) : i < j => ats[s[i]] >= ats[s[j]]}

\* timers_reify moves a repeating timer on from when it was due, but not into the
\* past; it stops another one, which makes its time relative.
Reified(w, a, now) ==
    IF Repeat(w) = 0 THEN a - now ELSE Max({a + Repeat(w), now})

\* The kernel returns, for an event or because the time is over: time_update,
\* timers_reify, periodics_reify.
PollReturns ==
    /\ pc = "poll"
    /\ \E u \in TimeUpdate(wait) :
         LET ts == {w \in Timers : u.at[w] < u.mn}
             ps == {w \in Periodics : u.at[w] < u.rt}
         IN  /\ SetClocks(u)
             /\ LET reified == [w \in Watchers |->
                                   IF w \in ts THEN Reified(w, u.at[w], u.mn) ELSE u.at[w]]
                IN at' \in Recalculated(ps, reified, u.rt)
             /\ \E t \in FeedReverse(ts, u.at), p \in FeedReverse(ps, u.at) : pending' = t \o p
             /\ active' = {w \in active : w \in ts => Repeat(w) > 0} \ {w \in ps : Single(w)}
             /\ left' = [w \in Watchers |-> IF w \in ts THEN Reified(w, left[w], 0) ELSE left[w]]
    /\ pc' = "run"
    /\ wait' = 0
    /\ UNCHANGED <<world, suspended>>
    /\ Since

\* ev_invoke_pending calls the last one.
Invoke ==
    /\ pc = "run" /\ ~suspended /\ pending # <<>>
    /\ pending' = Front(pending)
    /\ UNCHANGED <<world, clocks, at, active, pc, wait, suspended, seen, left, since>>
-----------------------------------------------------------------------------
(* What callbacks and the program call.                                    *)

InProgram == pc = "run" /\ ~suspended

\* An event that is pending is there once.
ClearPending(w) ==
    \/ w \notin Range(pending) /\ UNCHANGED pending
    \/ \E i \in DOMAIN pending : pending[i] = w /\ pending' = RemoveAt(pending, i)

\* ev_timer_set
TimerSet(w) ==
    /\ InProgram /\ IsTimer(w) /\ w \notin active
    /\ at' = [at EXCEPT ![w] = kind[w].after]
    /\ left' = [left EXCEPT ![w] = kind[w].after]
    /\ UNCHANGED <<world, clocks, active, pending, pc, wait, suspended, seen, since>>

TimerStart(w) ==
    /\ InProgram /\ IsTimer(w) /\ w \notin active
    /\ at' = [at EXCEPT ![w] = @ + mn_now]
    /\ active' = active \cup {w}
    /\ left' = [left EXCEPT ![w] = @ - (clock - seen)]
    /\ UNCHANGED <<world, clocks, pending, pc, wait, suspended, seen, since>>

TimerStopKeepsAt(w) ==
    /\ InProgram /\ IsTimer(w)
    /\ ClearPending(w)
    /\ active' = active \ {w}
    /\ at' = at
    /\ left' = IF w \in active THEN [left EXCEPT ![w] = @ + (clock - seen)] ELSE left
    /\ UNCHANGED <<world, clocks, pc, wait, suspended, seen, since>>

TimerStop(w) ==
    /\ InProgram /\ IsTimer(w)
    /\ ClearPending(w)
    /\ active' = active \ {w}
    /\ at' = IF w \in active THEN [at EXCEPT ![w] = @ - mn_now] ELSE at
    /\ left' = IF w \in active THEN [left EXCEPT ![w] = @ + (clock - seen)] ELSE left
    /\ UNCHANGED <<world, clocks, pc, wait, suspended, seen, since>>

TimerAgain(w) ==
    /\ InProgram /\ IsTimer(w)
    /\ IF Repeat(w) = 0 THEN TimerStop(w)
       ELSE /\ ClearPending(w)
            /\ active' = active \cup {w}
            /\ at' = [at EXCEPT ![w] = mn_now + Repeat(w)]
            /\ left' = [left EXCEPT ![w] = Repeat(w) - (clock - seen)]
            /\ UNCHANGED <<world, clocks, pc, wait, suspended, seen, since>>

PeriodicStart(w) ==
    /\ InProgram /\ ~IsTimer(w) /\ w \notin active
    /\ \E a \in NextAts(w, ev_rt_now) : at' = [at EXCEPT ![w] = a]
    /\ active' = active \cup {w}
    /\ UNCHANGED <<world, clocks, pending, pc, wait, suspended, seen, left>>
    /\ since' = [since EXCEPT ![w] = ev_rt_now]

PeriodicStop(w) ==
    /\ InProgram /\ ~IsTimer(w)
    /\ ClearPending(w)
    /\ active' = active \ {w}
    /\ UNCHANGED <<world, clocks, at, pc, wait, suspended, seen, left, since>>

PeriodicAgain(w) ==
    /\ InProgram /\ ~IsTimer(w)
    /\ ClearPending(w)
    /\ \E a \in NextAts(w, ev_rt_now) : at' = [at EXCEPT ![w] = a]
    /\ active' = active \cup {w}
    /\ UNCHANGED <<world, clocks, pc, wait, suspended, seen, left>>
    /\ since' = [since EXCEPT ![w] = ev_rt_now]

NowUpdate ==
    /\ InProgram
    /\ \E u \in TimeUpdate(Forever) : SetClocks(u) /\ at' = u.at
    /\ UNCHANGED <<world, active, pending, pc, wait, suspended, left>>
    /\ Since

Suspend ==
    /\ InProgram
    /\ \E u \in TimeUpdate(Forever) : SetClocks(u) /\ at' = u.at
    /\ suspended' = TRUE
    /\ UNCHANGED <<world, active, pending, pc, wait, left>>
    /\ Since

ResumeLate ==
    /\ suspended
    /\ \E u \in TimeUpdate(Forever) :
         /\ SetClocks(u)
         /\ at' \in Recalculated(Periodics, u.at, u.rt)
    /\ suspended' = FALSE
    /\ UNCHANGED <<world, active, pending, pc, wait, left>>
    /\ Since

\* The timers are moved by the time that was spent, the periodics are recalculated.
Resume ==
    /\ suspended
    /\ \E u \in TimeUpdate(Forever) :
         /\ SetClocks(u)
         /\ at' \in Recalculated(Periodics, Adjusted(u.at, u.mn - mn_now), u.rt)
    /\ suspended' = FALSE
    /\ UNCHANGED <<world, active, pending, pc, wait, left>>
    /\ Since

-----------------------------------------------------------------------------
(* The world.                                                              *)

Tick ==
    /\ clock < MaxClock
    /\ clock' = clock + 1
    /\ left' = [w \in Watchers |-> IF w \in Timers /\ ~suspended THEN left[w] - 1 ELSE left[w]]
    /\ UNCHANGED <<shift, jumps, kind, have_monotonic, clocks, at, active, pending, pc, wait,
                   suspended, seen, since>>

\* Someone sets the real-time clock. Without a monotonic clock only a jump back is
\* considered, and none while the program is suspended.
Jump ==
    /\ jumps < MaxJumps
    /\ \E d \in Jumps :
         /\ ~have_monotonic => d < 0 /\ ~suspended
         /\ shift' = shift + d
    /\ jumps' = jumps + 1
    /\ UNCHANGED <<clock, kind, have_monotonic, clocks, at, active, pending, pc, wait, suspended,
                   seen, left, since>>

Init ==
    /\ clock = 0 /\ shift = 0 /\ jumps = 0
    /\ kind \in [Watchers -> Kinds]
    /\ have_monotonic \in BOOLEAN
    /\ mn_now = 0 /\ ev_rt_now = 0 /\ now_floor = 0 /\ rtmn_diff = 0
    /\ at = [w \in Watchers |-> IF IsTimer(w) THEN kind[w].after
                                ELSE IF kind[w].kind = "manual" THEN 0 ELSE kind[w].offset]
    /\ left = at
    /\ active = {} /\ pending = <<>> /\ pc = "run" /\ wait = 0 /\ suspended = FALSE
    /\ seen = 0 /\ since = [w \in Watchers |-> 0]

Next ==
    \/ Block \/ PollReturns \/ Invoke \/ NowUpdate \/ Suspend \/ Resume \/ Tick \/ Jump
    \/ \E w \in Watchers : TimerSet(w) \/ TimerStart(w) \/ TimerStop(w) \/ TimerAgain(w)
                           \/ PeriodicStart(w) \/ PeriodicStop(w) \/ PeriodicAgain(w)

Spec == Init /\ [][Next]_vars
-----------------------------------------------------------------------------
(* Properties.                                                             *)

TypeOK ==
    /\ {mn_now, ev_rt_now, now_floor, rtmn_diff, shift, wait} \subseteq Int
    /\ at \in [Watchers -> Int] /\ left \in [Watchers -> Int]
    /\ active \subseteq Watchers
    /\ pending \in Seq(Watchers) /\ IsInjective(pending)
    /\ pc \in {"run", "poll"} /\ suspended \in BOOLEAN

\* By a monotonic clock, the expiry time of a timer is when its stop-watch, which
\* runs while it is started and the program is not suspended, has run down: in a
\* heap at holds a time of that clock, out of it the time that remains.
TimerInv ==
    /\ TypeOK
    /\ have_monotonic =>
        /\ mn_now = seen
        /\ \A w \in Watchers : IsTimer(w) =>
             at[w] = left[w] + (IF w \notin active THEN 0 ELSE IF suspended THEN mn_now ELSE clock)

\* The watchers that this step finds expired.
Expires(w) == pc = "poll" /\ pc' = "run" /\ w \in Range(pending')

\* A timer is never called before it has run its full time, however it was stopped,
\* started, repeated and suspended (ev.pod:1791, "guaranteed to be invoked only after its
\* timeout has passed"): with a monotonic clock whatever the real-time clock is set to,
\* without one when that is set back only (Jump). A periodic is not called before the
\* real-time clock, as the loop has just read it, has passed the time it was set to.
NeverEarly ==
    [][\A w \in Watchers : Expires(w) =>
           IF IsTimer(w) THEN left[w] < 0 ELSE at[w] < ev_rt_now']_vars

\* Periodics are called before timers, and of two timers that expire together, by
\* a monotonic clock, the one that was due first (ev.pod:1794-1796).
CalledInOrder ==
    [][pc = "poll" /\ pc' = "run" =>
        \A i, j \in DOMAIN pending' : i < j /\ IsTimer(pending'[j]) =>
            /\ IsTimer(pending'[i])
            /\ have_monotonic => left[pending'[i]] >= left[pending'[j]]]_vars

\* A periodic with an interval is called only when one of its points in time has
\* passed since the last time it was called, started or rescheduled: never twice
\* for the same one, unless the clock was set back over it.
OncePerPoint ==
    [][\A w \in Watchers : Expires(w) /\ kind[w].kind = "periodic" /\ ~Single(w) =>
        \E t \in since[w] + 1 .. ev_rt_now' - 1 : (t - kind[w].offset) % kind[w].interval = 0]_vars

\* By a monotonic clock the loop never means to sleep past the expiry of a timer or, as
\* far as it knows the real-time clock, a periodic; but it may round up to what the program lets
\* it collect timeouts for, and to the backend's resolution.
NeverOversleeps ==
    pc = "poll" /\ have_monotonic /\ wait > Max({TimeoutBlocktime, BackendMintime}) =>
        \A w \in active : seen + wait <= IF IsTimer(w) THEN clock + left[w] ELSE at[w] - rtmn_diff
=============================================================================
