--------------------------- MODULE EvTimerProofs ---------------------------
(***************************************************************************)
(* Timers and periodics, for every set of watchers, all periods, and any   *)
(* settings of the real-time clock: what they expire at, that none expires *)
(* early, twice for one point in time or out of order, and that the loop   *)
(* does not sleep past the next. Then stat watchers, whatever other        *)
(* processes do to their files: that each looks at its path or will hear   *)
(* of the next change, and when a change goes unreported. Then signal and  *)
(* child watchers, whatever is raised, exits or forks: that no signal that *)
(* was caught and no child is missed, and whose status a watcher is given. *)
(***************************************************************************)
EXTENDS EvTimer, StatWatchers, SignalWatchers, FiniteSetTheorems, WellFoundedInduction, TLAPS
-----------------------------------------------------------------------------
(* Smallest and largest elements, and multiples of an interval.            *)

\* A finite set of numbers has a smallest one: a smallest subset without one
\* would have another when an element is taken out.
LEMMA MinExists ==
    ASSUME NEW S \in SUBSET Int, IsFiniteSet(S), S # {}
    PROVE  Min(S) \in S /\ \A y \in S : Min(S) <= y
<1> DEFINE Bad == {T \in SUBSET S : T # {} /\ ~ \E x \in T : \A y \in T : x <= y}
<1>1. Bad = {}
  <2> SUFFICES ASSUME Bad # {} PROVE FALSE
    OBVIOUS
  <2>1. IsWellFoundedOn(StrictSubsetOrdering(S), SUBSET S)
    BY FS_StrictSubsetOrderingWellFounded, FS_FiniteSubsetsOfFinite
  <2>2. PICK T \in Bad : \A U \in Bad : <<U, T>> \notin StrictSubsetOrdering(S)
    <3>1. Bad \subseteq SUBSET S
      OBVIOUS
    <3> HIDE DEF Bad
    <3> QED BY <2>1, <3>1, WFMin
  <2>3. PICK x \in T : TRUE
    BY <2>2
  <2>4. T \ {x} # {}
    OBVIOUS
  <2>5. T \ {x} \notin Bad
    BY <2>2, <2>3 DEF StrictSubsetOrdering
  <2>6. PICK m \in T \ {x} : \A y \in T \ {x} : m <= y
    BY <2>4, <2>5
  <2>7. CASE x <= m
    BY <2>6, <2>7
  <2>8. CASE m < x
    BY <2>6, <2>8
  <2> QED BY <2>7, <2>8
<1>2. \E x \in S : \A y \in S : x <= y
  BY <1>1
<1> QED BY <1>2 DEF Min

LEMMA MaxOfTwo ==
    ASSUME NEW a \in Int, NEW b \in Int
    PROVE  Max({a, b}) = IF a >= b THEN a ELSE b
<1>1. \E x \in {a, b} : \A y \in {a, b} : x >= y
  <2>1. CASE a >= b
    BY <2>1
  <2>2. CASE b >= a
    BY <2>2
  <2> QED BY <2>1, <2>2
<1>2. Max({a, b}) \in {a, b} /\ \A y \in {a, b} : Max({a, b}) >= y
  BY <1>1 DEF Max
<1> QED BY <1>2

\* Where the largest of three is larger than two of them, it is the third.
LEMMA MaxOfThree ==
    ASSUME NEW a \in Int, NEW b \in Int, NEW c \in Int
    PROVE  /\ Max({a, b, c}) \in Int
           /\ Max({a, b, c}) > Max({b, c}) => Max({a, b, c}) = a
<1>1. \E x \in {a, b, c} : \A y \in {a, b, c} : x >= y
  <2>1. CASE a >= b /\ a >= c
    BY <2>1
  <2>2. CASE b >= a /\ b >= c
    BY <2>2
  <2>3. CASE c >= a /\ c >= b
    BY <2>3
  <2> QED BY <2>1, <2>2, <2>3
<1>2. Max({a, b, c}) \in {a, b, c} /\ \A y \in {a, b, c} : Max({a, b, c}) >= y
  BY <1>1 DEF Max
<1>3. Max({b, c}) = IF b >= c THEN b ELSE c
  BY MaxOfTwo
<1> QED BY <1>2, <1>3

LEMMA NextMultiple ==
    ASSUME NEW a \in Int, NEW n \in Nat, n > 0
    PROVE  /\ a \div n \in Int
           /\ n * (a \div n + 1) \in Int
           /\ n * (a \div n + 1) > a
           /\ (n * (a \div n + 1)) % n = 0
<1> DEFINE q == a \div n
<1>0. \A k \in Int : (n * k) % n = 0
  OBVIOUS
<1>1. q \in Int /\ n * q <= a /\ a < n * q + n
  OBVIOUS
<1>2. n * (q + 1) = n * q + n /\ n * (q + 1) \in Int
  BY <1>1
<1>3. (n * (q + 1)) % n = 0
  <2>1. q + 1 \in Int
    BY <1>1
  <2> QED BY <2>1, <1>0
<1> QED BY <1>1, <1>2, <1>3
-----------------------------------------------------------------------------
(* The inductive invariant.                                                *)

Typed ==
    /\ TypeOK
    /\ clock \in Int /\ seen \in Int /\ seen <= clock
    /\ kind \in [Watchers -> Kinds]
    /\ have_monotonic \in BOOLEAN
    /\ since \in [Watchers -> Int]
    /\ pc = "poll" => ~suspended

\* The second part of TimerInv.
TimersRight ==
    have_monotonic =>
        /\ mn_now = seen
        /\ \A w \in Watchers : IsTimer(w) =>
             at[w] = left[w] + (IF w \notin active THEN 0 ELSE IF suspended THEN mn_now ELSE clock)

\* Without a monotonic clock, set back only, timers are due when their stop-watch
\* has run down, or later.
TimersLate ==
    ~have_monotonic =>
        /\ seen + shift <= mn_now
        /\ suspended => mn_now = seen + shift
        /\ \A w \in Watchers : IsTimer(w) =>
             at[w] >= left[w] + (IF w \notin active THEN 0
                                 ELSE IF suspended THEN mn_now ELSE mn_now + (clock - seen))

Repeats(w) == kind[w].kind = "periodic" /\ ~Single(w)

\* A periodic is due at one of its points in time, after the last one it was given.
PointsRight ==
    \A w \in active : Repeats(w) =>
        at[w] > since[w] /\ (at[w] - kind[w].offset) % kind[w].interval = 0

Inv == Typed /\ TimersRight /\ TimersLate /\ PointsRight /\ NeverOversleeps

LEMMA Kinded ==
    ASSUME Typed, NEW w \in Watchers
    PROVE  /\ IsTimer(w) => kind[w].after \in Int /\ kind[w].repeat \in Nat
           /\ ~IsTimer(w) /\ kind[w].kind # "manual" =>
                kind[w].kind = "periodic" /\ kind[w].offset \in Int /\ kind[w].interval \in Nat
           /\ at[w] \in Int /\ left[w] \in Int /\ since[w] \in Int
<1>1. kind[w] \in Timer \cup Periodic \cup Manual
  BY EvTimerAssumption DEF Typed
<1>2. at[w] \in Int /\ left[w] \in Int /\ since[w] \in Int
  BY DEF Typed, TypeOK
<1> QED BY <1>1, <1>2 DEF Timer, Periodic, Manual, IsTimer
-----------------------------------------------------------------------------
(* What periodic_recalc and time_update leave.                             *)

LEMMA NextAtsRight ==
    ASSUME Typed, NEW w \in Watchers, ~IsTimer(w), NEW now \in Int, NEW a \in NextAts(w, now)
    PROVE  /\ a \in Int
           /\ Repeats(w) => a > now /\ (a - kind[w].offset) % kind[w].interval = 0
           /\ a > now \/ a = at[w]
<1>1. CASE kind[w].kind = "manual"
  BY <1>1 DEF NextAts, Repeats
<1>2. CASE kind[w].kind # "manual" /\ kind[w].interval = 0
  BY <1>2, Kinded DEF NextAts, Repeats, Single
<1>3. CASE kind[w].kind # "manual" /\ kind[w].interval # 0
  <2> DEFINE o == kind[w].offset
             n == kind[w].interval
  <2>1. o \in Int /\ n \in Nat /\ n > 0 /\ now - o \in Int
    BY <1>3, Kinded
  <2>2. a = o + n * ((now - o) \div n + 1)
    BY <1>3, <2>1 DEF NextAts, PeriodicRecalc
  <2> HIDE DEF o, n
  <2>3. a \in Int /\ a > now /\ (a - o) % n = 0
    <3> DEFINE m == n * ((now - o) \div n + 1)
    <3>1. m \in Int /\ m > now - o /\ m % n = 0
      BY <2>1, NextMultiple
    <3> HIDE DEF m
    <3>2. a = o + m
      BY <2>2 DEF m
    <3>3. a - o = m
      BY <3>1, <3>2, <2>1
    <3> QED BY <3>1, <3>2, <3>3, <2>1
  <2> QED BY <2>3 DEF o, n
<1> QED BY <1>1, <1>2, <1>3

LEMMA RecalculatedRight ==
    ASSUME Typed, NEW ws, ws \subseteq Periodics, NEW ats \in [Watchers -> Int], NEW now \in Int,
           NEW a \in Recalculated(ws, ats, now)
    PROVE  /\ a \in [Watchers -> Int]
           /\ \A w \in ws : a[w] \in NextAts(w, now)
           /\ \A w \in Watchers \ ws : a[w] = ats[w]
<1>1. ws \subseteq Watchers /\ \A w \in ws : ~IsTimer(w)
  BY DEF Typed, TypeOK, Periodics
<1>2. DOMAIN a = Watchers /\ \A w \in Watchers : a[w] \in IF w \in ws THEN NextAts(w, now) ELSE {ats[w]}
  BY DEF Recalculated
<1>3. \A w \in Watchers : a[w] \in Int
  BY <1>1, <1>2, NextAtsRight
<1>4. a = [w \in Watchers |-> a[w]]
  BY DEF Recalculated
<1> QED BY <1>1, <1>2, <1>3, <1>4

LEMMA AdjustedRight ==
    ASSUME Typed, NEW ats \in [Watchers -> Int], NEW d \in Int
    PROVE  /\ Adjusted(ats, d) \in [Watchers -> Int]
           /\ \A w \in Watchers : Adjusted(ats, d)[w] = IF w \in Timers THEN ats[w] + d ELSE ats[w]
BY DEF Adjusted

\* The clocks agree with the system's, the timers have gone on with mn_now or
\* stayed, and a periodic stayed or has its next point in time.
UpdateRight(u) ==
    /\ {u.mn, u.rt, u.floor, u.diff} \subseteq Int
    /\ u.at \in [Watchers -> Int]
    /\ have_monotonic =>
        /\ u.mn = clock /\ u.rt = clock + u.diff
        /\ \A w \in Watchers : IsTimer(w) => u.at[w] = at[w]
    /\ ~have_monotonic =>
        /\ u.mn = clock + shift
        /\ \A w \in Watchers : IsTimer(w) =>
            \/ u.at[w] = at[w]
            \/ w \in active /\ u.at[w] = at[w] + (u.mn - mn_now)
    /\ \A w \in Watchers : ~IsTimer(w) =>
        u.at[w] = at[w] \/ (w \in active /\ u.at[w] \in NextAts(w, u.rt))

LEMMA TimeUpdateRight ==
    ASSUME Typed, NEW b \in Int, NEW u \in TimeUpdate(b)
    PROVE  UpdateRight(u) /\ (~have_monotonic /\ mn_now <= clock + shift =>
               \A w \in Watchers : IsTimer(w) => u.at[w] >= at[w])
<1>1. {mn_now, ev_rt_now, now_floor, rtmn_diff, shift, clock, ev_time} \subseteq Int /\ at \in [Watchers -> Int]
  BY DEF Typed, TypeOK, ev_time
<1>2. \A w \in Periodics : w \in active /\ ~IsTimer(w)
  BY DEF Periodics
<1>3. \A w \in Watchers : at[w] \in Int
  BY <1>1
<1>4. CASE have_monotonic
  <2>1. u \in UpdateMonotonic
    BY <1>4 DEF TimeUpdate
  <2>2. CASE u = [mn |-> clock, rt |-> rtmn_diff + clock, floor |-> now_floor, diff |-> rtmn_diff, at |-> at]
    BY <1>1, <1>4, <2>2 DEF UpdateRight
  <2>3. CASE u.mn = clock /\ u.rt = ev_time /\ u.floor = clock /\ u.diff = shift
             /\ u.at \in (IF Abs(rtmn_diff - shift) < MinTimejump THEN {at}
                          ELSE Recalculated(Periodics, at, ev_time))
    <3>1. CASE u.at = at
      BY <1>1, <1>4, <2>3, <3>1 DEF UpdateRight, ev_time
    <3>2. CASE u.at \in Recalculated(Periodics, at, ev_time)
      <4>1. /\ u.at \in [Watchers -> Int]
            /\ \A w \in Periodics : u.at[w] \in NextAts(w, ev_time)
            /\ \A w \in Watchers \ Periodics : u.at[w] = at[w]
        <5>1. ev_time \in Int /\ at \in [Watchers -> Int] /\ Periodics \subseteq Periodics
          BY <1>1
        <5>2. ASSUME NEW a \in Recalculated(Periodics, at, ev_time)
              PROVE  /\ a \in [Watchers -> Int]
                     /\ \A w \in Periodics : a[w] \in NextAts(w, ev_time)
                     /\ \A w \in Watchers \ Periodics : a[w] = at[w]
          BY ZenonT(30), <5>1, RecalculatedRight
        <5> QED BY <5>2, <3>2
      <4> QED BY <1>1, <1>2, <1>4, <2>3, <4>1 DEF UpdateRight, ev_time
    <3> QED BY <2>3, <3>1, <3>2
  <2> QED BY <2>1, <2>2, <2>3 DEF UpdateMonotonic
<1>5. CASE ~have_monotonic
  <2>1. u \in UpdateRealtime(b)
    BY <1>5 DEF TimeUpdate
  <2>2. /\ u.mn = ev_time /\ u.rt = ev_time /\ u.floor = now_floor /\ u.diff = rtmn_diff
        /\ \/ u.at = at
           \/ u.at \in Recalculated(Periodics, Adjusted(at, ev_time - mn_now), ev_time)
    BY <2>1 DEF UpdateRealtime
  <2>3. CASE u.at = at
    BY <1>1, <1>3, <1>5, <2>2, <2>3 DEF UpdateRight, ev_time
  <2>4. CASE u.at \in Recalculated(Periodics, Adjusted(at, ev_time - mn_now), ev_time)
    <3> DEFINE moved == Adjusted(at, ev_time - mn_now)
    <3>1. ev_time - mn_now \in Int
      BY <1>1
    <3>2. /\ moved \in [Watchers -> Int]
          /\ \A w \in Watchers : moved[w] =
                                   IF w \in Timers THEN at[w] + (ev_time - mn_now) ELSE at[w]
      BY <1>1, <3>1, AdjustedRight
    <3> HIDE DEF moved
    <3>3. /\ u.at \in [Watchers -> Int]
          /\ \A w \in Periodics : u.at[w] \in NextAts(w, ev_time)
          /\ \A w \in Watchers \ Periodics : u.at[w] = moved[w]
      <4>1. ev_time \in Int /\ moved \in [Watchers -> Int] /\ Periodics \subseteq Periodics
        BY <1>1, <3>2
      <4>2. ASSUME NEW a \in Recalculated(Periodics, moved, ev_time)
            PROVE  /\ a \in [Watchers -> Int]
                   /\ \A w \in Periodics : a[w] \in NextAts(w, ev_time)
                   /\ \A w \in Watchers \ Periodics : a[w] = moved[w]
        BY ZenonT(30), <4>1, RecalculatedRight
      <4> QED BY <4>2, <2>4 DEF moved
    <3>4. \A w \in Watchers : IsTimer(w) =>
            w \notin Periodics /\ (w \in Timers <=> w \in active)
      BY DEF Periodics, Timers
    <3>5. \A w \in Watchers : ~IsTimer(w) => w \notin Timers
      BY DEF Timers
    <3>6. \A w \in Watchers : IsTimer(w) =>
            u.at[w] = at[w] \/ (w \in active /\ u.at[w] = at[w] + (ev_time - mn_now))
      BY <3>2, <3>3, <3>4
    <3>7. \A w \in Watchers : ~IsTimer(w) =>
            u.at[w] = at[w] \/ (w \in active /\ u.at[w] \in NextAts(w, ev_time))
      BY <1>2, <3>2, <3>3, <3>5
    <3>8. UpdateRight(u)
      BY <1>1, <1>5, <2>2, <3>3, <3>6, <3>7 DEF UpdateRight, ev_time
    <3> QED BY <1>1, <1>3, <3>6, <3>8 DEF ev_time
  <2> QED BY <2>2, <2>3, <2>4
<1> QED BY <1>4, <1>5 DEF Typed
-----------------------------------------------------------------------------
(* A step that reads the clocks.                                           *)

LEMMA SinceRight ==
    ASSUME Typed, Since, ev_rt_now' \in Int
    PROVE  /\ since' \in [Watchers -> Int]
           /\ \A w \in Watchers : since'[w] = since[w] \/ (w \in Periodics /\ at'[w] # at[w] /\ since'[w] = ev_rt_now')
           /\ \A w \in Periodics : at'[w] # at[w] => since'[w] = ev_rt_now'
<1>1. since \in [Watchers -> Int] /\ Periodics \subseteq Watchers
  BY DEF Typed, TypeOK, Periodics
<1>2. since' = [w \in Watchers |-> IF w \in Periodics /\ at'[w] # at[w] THEN ev_rt_now' ELSE since[w]]
  BY DEF Since
<1> QED BY <1>1, <1>2

\* The watchers that stay keep their points in time, when each stays as it was or is
\* given the next.
LEMMA PointsKept ==
    ASSUME Typed, PointsRight, NEW now \in Int, ev_rt_now' = now, Since, kind' = kind,
           active' \subseteq active, at' \in [Watchers -> Int],
           \A w \in active' : ~IsTimer(w) => at'[w] = at[w] \/ at'[w] \in NextAts(w, now)
    PROVE  PointsRight'
<1> SUFFICES ASSUME NEW w \in active', Repeats(w)
             PROVE  at'[w] > since'[w] /\ (at'[w] - kind[w].offset) % kind[w].interval = 0
  BY DEF PointsRight, Repeats, Single
<1>1. w \in Watchers /\ w \in Periodics /\ ~IsTimer(w) /\ w \in active
  BY DEF Typed, TypeOK, Repeats, IsTimer, Periodics
<1>2. since'[w] = since[w] \/ since'[w] = now
  BY <1>1, SinceRight
<1>3. at[w] > since[w] /\ (at[w] - kind[w].offset) % kind[w].interval = 0
  BY <1>1 DEF PointsRight
<1>4. CASE at'[w] = at[w]
  <2>1. since'[w] = since[w]
    BY <1>1, <1>4, SinceRight
  <2> QED BY <1>3, <1>4, <2>1
<1>5. CASE at'[w] # at[w]
  <2>1. since'[w] = now
    BY <1>1, <1>5, SinceRight
  <2>2. at'[w] > now /\ (at'[w] - kind[w].offset) % kind[w].interval = 0
    BY <1>1, <1>5, NextAtsRight
  <2> QED BY <2>1, <2>2
<1> QED BY <1>4, <1>5

\* NowUpdate, Suspend and the way into the poll.
LEMMA UpdateKeeps ==
    ASSUME Typed, TimersRight, TimersLate, PointsRight, ~suspended, suspended' \in BOOLEAN,
           NEW b \in Int, NEW u \in TimeUpdate(b), SetClocks(u), at' = u.at,
           UNCHANGED <<world, active, left>>, Since
    PROVE  TimersRight' /\ TimersLate' /\ PointsRight'
<1>1. UpdateRight(u)
  BY TimeUpdateRight
<1>2. mn_now' = u.mn /\ ev_rt_now' = u.rt /\ seen' = clock /\ UNCHANGED <<clock, shift, jumps, kind, have_monotonic, active, left>>
  BY DEF SetClocks, world
<1>3. {clock, shift, seen, mn_now} \subseteq Int /\ seen <= clock
  BY DEF Typed, TypeOK
<1>4. TimersRight'
  <2> SUFFICES ASSUME have_monotonic
               PROVE  /\ mn_now' = seen'
                      /\ \A w \in Watchers : IsTimer(w) =>
                           at'[w] = left[w] + (IF w \notin active THEN 0 ELSE IF suspended' THEN mn_now' ELSE clock)
    BY <1>2 DEF TimersRight, IsTimer
  <2> QED BY <1>1, <1>2 DEF UpdateRight, TimersRight
<1>5. TimersLate'
  <2> SUFFICES ASSUME ~have_monotonic
               PROVE  /\ seen' + shift <= mn_now'
                      /\ suspended' => mn_now' = seen' + shift
                      /\ \A w \in Watchers : IsTimer(w) =>
                           at'[w] >= left[w] + (IF w \notin active THEN 0 ELSE IF suspended' THEN mn_now'
                                                ELSE mn_now' + (clock - seen'))
    BY <1>2 DEF TimersLate, IsTimer
  <2>1. mn_now' = clock + shift /\ seen' = clock
    BY <1>1, <1>2 DEF UpdateRight
  <2>2. ASSUME NEW w \in Watchers, IsTimer(w)
        PROVE at'[w] >= left[w] + (IF w \notin active THEN 0 ELSE mn_now')
    <3>1. at[w] \in Int /\ left[w] \in Int
      BY Kinded
    <3>2. at[w] >= left[w] + (IF w \notin active THEN 0 ELSE mn_now + (clock - seen)) /\ seen + shift <= mn_now
      BY <2>2 DEF TimersLate
    <3>3. at'[w] = at[w] \/ (w \in active /\ at'[w] = at[w] + (mn_now' - mn_now))
      BY <1>1, <1>2, <2>2 DEF UpdateRight
    <3> QED BY <1>3, <2>1, <3>1, <3>2, <3>3
  <2> QED BY <1>3, <2>1, <2>2
<1>6. PointsRight'
  <2>1. u.rt \in Int /\ u.at \in [Watchers -> Int] /\ active \subseteq Watchers
    BY <1>1 DEF UpdateRight, Typed, TypeOK
  <2>2. \A w \in active' : ~IsTimer(w) => at'[w] = at[w] \/ at'[w] \in NextAts(w, u.rt)
    BY <1>1, <1>2, <2>1 DEF UpdateRight
  <2> QED BY <1>2, <2>1, <2>2, PointsKept
<1> QED BY <1>4, <1>5, <1>6

LEMMA UpdateTyped ==
    ASSUME Typed, NEW b \in Int, NEW u \in TimeUpdate(b), SetClocks(u), UNCHANGED world, Since
    PROVE  /\ {mn_now', ev_rt_now', now_floor', rtmn_diff', shift'} \subseteq Int
           /\ clock' \in Int /\ seen' \in Int /\ seen' <= clock'
           /\ kind' \in [Watchers -> Kinds] /\ have_monotonic' \in BOOLEAN
           /\ since' \in [Watchers -> Int]
<1>1. UpdateRight(u)
  BY TimeUpdateRight
<1>2. /\ mn_now' = u.mn /\ ev_rt_now' = u.rt /\ now_floor' = u.floor /\ rtmn_diff' = u.diff /\ seen' = clock
      /\ UNCHANGED <<clock, shift, kind, have_monotonic>>
  BY DEF SetClocks, world
<1>3. clock \in Int /\ shift \in Int
  BY DEF Typed, TypeOK
<1>4. {mn_now', ev_rt_now', now_floor', rtmn_diff', shift'} \subseteq Int
  BY <1>1, <1>2, <1>3 DEF UpdateRight
<1>5. since' \in [Watchers -> Int]
  BY <1>4, SinceRight
<1> QED BY <1>2, <1>3, <1>4, <1>5 DEF Typed

\* The times that the loop waits for, in a finite set.
LEMMA WaitTimeRight ==
    ASSUME Typed, NEW u, u.mn \in Int, u.rt \in Int, u.at \in [Watchers -> Int]
    PROVE  /\ WaitTime(u) \in Int
           /\ WaitTime(u) > Max({TimeoutBlocktime, BackendMintime}) =>
                \A w \in active : WaitTime(u) <= u.at[w] - (IF IsTimer(w) THEN u.mn ELSE u.rt)
<1> DEFINE ts == {u.at[w] - u.mn : w \in Timers}
           ps == {u.at[w] - u.rt : w \in Periodics}
           to == (ts \cup ps) \cup {MaxBlocktime}
<1>1. Timers \subseteq Watchers /\ Periodics \subseteq Watchers
  BY DEF Typed, TypeOK, Timers, Periodics
<1>2. to \subseteq Int /\ to # {}
  BY <1>1, EvTimerAssumption
<1>3. IsFiniteSet(to)
  <2>1. IsFiniteSet(Timers) /\ IsFiniteSet(Periodics)
    BY <1>1, EvTimerAssumption, FS_Subset
  <2>2. IsFiniteSet(ts)
    <3> DEFINE f == [w \in Timers |-> u.at[w] - u.mn]
    <3>1. f \in Surjection(Timers, ts)
      BY DEF Surjection
    <3> QED BY <2>1, <3>1, FS_Surjection
  <2>3. IsFiniteSet(ps)
    <3> DEFINE f == [w \in Periodics |-> u.at[w] - u.rt]
    <3>1. f \in Surjection(Periodics, ps)
      BY DEF Surjection
    <3> QED BY <2>1, <3>1, FS_Surjection
  <2>4. IsFiniteSet({MaxBlocktime})
    BY FS_Singleton
  <2> HIDE DEF ts, ps
  <2> QED BY <2>2, <2>3, <2>4, FS_Union
<1>4. Min(to) \in to /\ \A y \in to : Min(to) <= y
  <2> HIDE DEF to
  <2> QED BY <1>2, <1>3, MinExists
<1>5. Min(to) \in Int
  BY <1>2, <1>4
<1>6. WaitTime(u) = Max({Min(to), TimeoutBlocktime, BackendMintime})
  BY DEF WaitTime
<1>7. /\ WaitTime(u) \in Int
      /\ WaitTime(u) > Max({TimeoutBlocktime, BackendMintime}) => WaitTime(u) = Min(to)
  <2> HIDE DEF to
  <2>1. TimeoutBlocktime \in Int /\ BackendMintime \in Int
    BY EvTimerAssumption
  <2> QED BY <1>5, <1>6, <2>1, MaxOfThree
<1>8. \A w \in active : u.at[w] - (IF IsTimer(w) THEN u.mn ELSE u.rt) \in to
  BY DEF Timers, Periodics
<1> HIDE DEF to
<1> QED BY <1>4, <1>7, <1>8
-----------------------------------------------------------------------------
(* One lemma for each action.                                              *)

LEMMA AwakeSleepsNot == (pc # "poll" => NeverOversleeps) /\ (pc' # "poll" => NeverOversleeps')
BY DEF NeverOversleeps

LEMMA BlockKeeps ==
    ASSUME Inv, Block
    PROVE  Inv'
<1>1. PICK u \in TimeUpdate(Forever) :
        /\ SetClocks(u) /\ at' = u.at
        /\ \E nowait \in BOOLEAN : wait' = IF nowait \/ active = {} THEN 0 ELSE WaitTime(u)
  BY DEF Block
<1>2. /\ pc = "run" /\ ~suspended /\ pc' = "poll" /\ Since
      /\ UNCHANGED <<world, active, pending, suspended, left>>
  BY DEF Block
<1>3. Forever \in Int
  BY EvTimerAssumption DEF Forever
<1>4. Typed /\ TimersRight /\ TimersLate /\ PointsRight /\ suspended' \in BOOLEAN
  BY <1>2 DEF Inv, Typed, TypeOK
<1>5. UpdateRight(u)
  BY <1>3, <1>4, TimeUpdateRight
<1>6. u.mn \in Int /\ u.rt \in Int /\ u.at \in [Watchers -> Int]
  BY <1>5 DEF UpdateRight
<1>7. WaitTime(u) \in Int /\ wait' \in {0, WaitTime(u)}
  BY <1>1, <1>4, <1>6, WaitTimeRight
<1>8. TimersRight' /\ TimersLate' /\ PointsRight'
  BY <1>1, <1>2, <1>3, <1>4, UpdateKeeps
<1>9. Typed'
  <2>1. /\ {mn_now', ev_rt_now', now_floor', rtmn_diff', shift'} \subseteq Int
        /\ clock' \in Int /\ seen' \in Int /\ seen' <= clock'
        /\ kind' \in [Watchers -> Kinds] /\ have_monotonic' \in BOOLEAN
        /\ since' \in [Watchers -> Int]
    BY <1>1, <1>2, <1>3, <1>4, UpdateTyped
  <2> QED BY SMTT(30), <1>1, <1>2, <1>4, <1>6, <1>7, <2>1 DEF Typed, TypeOK
<1>10. NeverOversleeps'
  <2> SUFFICES ASSUME have_monotonic', wait' > Max({TimeoutBlocktime, BackendMintime}), NEW w \in active
               PROVE  seen' + wait' <= IF IsTimer(w)' THEN clock' + left'[w] ELSE at'[w] - rtmn_diff'
    BY <1>2 DEF NeverOversleeps
  <2>1. /\ have_monotonic /\ clock' = clock /\ seen' = clock /\ left' = left /\ IsTimer(w)' = IsTimer(w)
        /\ rtmn_diff' = u.diff /\ w \in Watchers
    BY <1>1, <1>2, <1>4 DEF SetClocks, world, IsTimer, Typed, TypeOK
  <2>2. wait' = WaitTime(u)
    <3>1. CASE wait' = 0
      <4>1. Max({TimeoutBlocktime, BackendMintime}) >= 0
        BY EvTimerAssumption, MaxOfTwo
      <4>2. Max({TimeoutBlocktime, BackendMintime}) \in Int
        BY EvTimerAssumption, MaxOfTwo
      <4> QED BY <3>1, <4>1, <4>2
    <3> QED BY <3>1, <1>7
  <2>3. wait' <= u.at[w] - (IF IsTimer(w) THEN u.mn ELSE u.rt)
    BY <1>4, <1>6, <2>2, WaitTimeRight
  <2>4. u.mn = clock /\ u.rt = clock + u.diff /\ u.diff \in Int /\ clock \in Int /\ u.at[w] \in Int
    BY <1>4, <1>5, <2>1 DEF UpdateRight, Typed
  <2>5. CASE IsTimer(w)
    <3>1. u.at[w] = left[w] + clock /\ left[w] \in Int
      BY <1>2, <1>4, <1>5, <2>1, <2>5, Kinded DEF UpdateRight, TimersRight
    <3> QED BY <1>7, <2>1, <2>3, <2>4, <2>5, <3>1
  <2>6. CASE ~IsTimer(w)
    BY <1>1, <1>7, <2>1, <2>3, <2>4, <2>6
  <2> QED BY <2>5, <2>6
<1> QED BY <1>8, <1>9, <1>10 DEF Inv

LEMMA NowUpdateKeeps ==
    ASSUME Inv, NowUpdate \/ Suspend
    PROVE  Inv'
<1>1. PICK u \in TimeUpdate(Forever) : SetClocks(u) /\ at' = u.at
  BY DEF NowUpdate, Suspend
<1>2. /\ pc = "run" /\ ~suspended /\ suspended' \in BOOLEAN /\ Since
      /\ UNCHANGED <<world, active, pending, pc, wait, left>>
  BY DEF NowUpdate, Suspend, InProgram, Inv, Typed, TypeOK
<1>3. Forever \in Int
  BY EvTimerAssumption DEF Forever
<1>4. Typed /\ TimersRight /\ TimersLate /\ PointsRight
  BY DEF Inv
<1>5. u.at \in [Watchers -> Int]
  BY <1>3, <1>4, TimeUpdateRight DEF UpdateRight
<1>6. TimersRight' /\ TimersLate' /\ PointsRight'
  BY <1>1, <1>2, <1>3, <1>4, UpdateKeeps
<1>7. Typed'
  <2>1. /\ {mn_now', ev_rt_now', now_floor', rtmn_diff', shift'} \subseteq Int
        /\ clock' \in Int /\ seen' \in Int /\ seen' <= clock'
        /\ kind' \in [Watchers -> Kinds] /\ have_monotonic' \in BOOLEAN
        /\ since' \in [Watchers -> Int]
    BY <1>1, <1>2, <1>3, <1>4, UpdateTyped
  <2> QED BY <1>1, <1>2, <1>4, <1>5, <2>1 DEF Typed, TypeOK
<1> QED BY <1>2, <1>6, <1>7, AwakeSleepsNot DEF Inv

LEMMA ResumeKeeps ==
    ASSUME Inv, Resume
    PROVE  Inv'
<1>1. PICK u \in TimeUpdate(Forever) :
        SetClocks(u) /\ at' \in Recalculated(Periodics, Adjusted(u.at, u.mn - mn_now), u.rt)
  BY DEF Resume
<1>2. /\ suspended /\ suspended' = FALSE /\ Since /\ UNCHANGED <<world, active, pending, pc, wait, left>>
  BY DEF Resume
<1>3. Forever \in Int
  BY EvTimerAssumption DEF Forever
<1>4. Typed /\ TimersRight /\ TimersLate /\ PointsRight
  BY DEF Inv
<1>5. pc # "poll"
  BY <1>2, <1>4 DEF Typed
<1>6. UpdateRight(u)
  BY <1>3, <1>4, TimeUpdateRight
<1>7. /\ mn_now' = u.mn /\ ev_rt_now' = u.rt /\ seen' = clock
      /\ UNCHANGED <<clock, shift, jumps, kind, have_monotonic, active, left>>
  BY <1>1, <1>2 DEF SetClocks, world
<1>8. /\ {u.mn, u.rt, clock, shift, seen, mn_now, u.mn - mn_now} \subseteq Int /\ seen <= clock
      /\ u.at \in [Watchers -> Int]
  BY <1>4, <1>6 DEF UpdateRight, Typed, TypeOK
<1> DEFINE moved == Adjusted(u.at, u.mn - mn_now)
<1>9. /\ moved \in [Watchers -> Int]
      /\ \A w \in Watchers : moved[w] = IF w \in Timers THEN u.at[w] + (u.mn - mn_now) ELSE u.at[w]
  BY <1>4, <1>8, AdjustedRight
<1> HIDE DEF moved
<1>10. /\ at' \in [Watchers -> Int]
       /\ \A w \in Periodics : at'[w] \in NextAts(w, u.rt)
       /\ \A w \in Watchers \ Periodics : at'[w] = moved[w]
  <2>1. ASSUME NEW a \in Recalculated(Periodics, moved, u.rt)
        PROVE  /\ a \in [Watchers -> Int]
               /\ \A w \in Periodics : a[w] \in NextAts(w, u.rt)
               /\ \A w \in Watchers \ Periodics : a[w] = moved[w]
    <3>1. u.rt \in Int /\ moved \in [Watchers -> Int] /\ Periodics \subseteq Periodics
      BY <1>8, <1>9
    <3> QED BY <1>4, <3>1, RecalculatedRight
  <2> QED BY <1>1, <2>1 DEF moved
<1>11. ASSUME NEW w \in Watchers, IsTimer(w)
       PROVE  at'[w] = IF w \in active THEN u.at[w] + (u.mn - mn_now) ELSE u.at[w]
  <2>1. w \in Watchers \ Periodics /\ (w \in Timers <=> w \in active)
    BY <1>11 DEF Periodics, Timers
  <2> QED BY <1>9, <1>10, <2>1
<1>12. TimersRight'
  <2> SUFFICES ASSUME have_monotonic
               PROVE  /\ mn_now' = seen'
                      /\ \A w \in Watchers : IsTimer(w) => at'[w] = left[w] + (IF w \notin active THEN 0 ELSE clock)
    BY <1>2, <1>7 DEF TimersRight, IsTimer
  <2>1. mn_now' = clock
    BY <1>6, <1>7 DEF UpdateRight
  <2>2. ASSUME NEW w \in Watchers, IsTimer(w)
        PROVE  at'[w] = left[w] + (IF w \notin active THEN 0 ELSE clock)
    <3>1. u.at[w] = at[w] /\ at[w] = left[w] + (IF w \notin active THEN 0 ELSE mn_now)
      BY <1>2, <1>4, <1>6, <2>2 DEF UpdateRight, TimersRight
    <3>2. at[w] \in Int /\ left[w] \in Int
      BY <1>4, Kinded
    <3> QED BY <1>7, <1>8, <1>11, <2>1, <2>2, <3>1, <3>2
  <2> QED BY <1>7, <2>1, <2>2
<1>13. TimersLate'
  <2> SUFFICES ASSUME ~have_monotonic
               PROVE  /\ seen' + shift <= mn_now'
                      /\ \A w \in Watchers : IsTimer(w) =>
                           at'[w] >= left[w] + (IF w \notin active THEN 0 ELSE mn_now' + (clock - seen'))
    BY <1>2, <1>7 DEF TimersLate, IsTimer
  <2>1. mn_now' = clock + shift /\ seen' = clock /\ u.mn = clock + shift
    BY <1>6, <1>7 DEF UpdateRight
  <2>2. mn_now = seen + shift
    BY <1>2, <1>4 DEF TimersLate
  <2>3. ASSUME NEW w \in Watchers, IsTimer(w)
        PROVE  at'[w] >= left[w] + (IF w \notin active THEN 0 ELSE mn_now')
    <3>1. at[w] \in Int /\ left[w] \in Int /\ u.at[w] \in Int
      BY <1>4, <1>8, Kinded
    <3>2. at[w] >= left[w] + (IF w \notin active THEN 0 ELSE mn_now)
      BY <1>2, <1>4, <2>3 DEF TimersLate
    <3>3. u.at[w] >= at[w]
      <4>1. mn_now <= clock + shift
        BY <1>8, <2>2
      <4> QED BY <1>3, <1>4, <2>3, <4>1, TimeUpdateRight
    <3> QED BY <1>8, <1>11, <2>1, <2>3, <3>1, <3>2, <3>3
  <2> QED BY <1>8, <2>1, <2>3
<1>14. PointsRight'
  <2>1. \A w \in active' : ~IsTimer(w) => at'[w] = at[w] \/ at'[w] \in NextAts(w, u.rt)
    BY <1>7, <1>10 DEF Periodics
  <2> QED BY <1>2, <1>4, <1>7, <1>8, <1>10, <2>1, PointsKept
<1>15. Typed'
  <2>1. /\ {mn_now', ev_rt_now', now_floor', rtmn_diff', shift'} \subseteq Int
        /\ clock' \in Int /\ seen' \in Int /\ seen' <= clock'
        /\ kind' \in [Watchers -> Kinds] /\ have_monotonic' \in BOOLEAN
        /\ since' \in [Watchers -> Int]
    BY <1>1, <1>2, <1>3, <1>4, UpdateTyped
  <2> QED BY <1>2, <1>4, <1>10, <2>1 DEF Typed, TypeOK
<1> QED BY <1>2, <1>5, <1>12, <1>13, <1>14, <1>15, AwakeSleepsNot DEF Inv

-----------------------------------------------------------------------------
(* Coming back from the poll.                                              *)

LEMMA ReifiedRight ==
    ASSUME NEW w, Repeat(w) \in Nat, NEW a \in Int, NEW now \in Int
    PROVE  /\ Reified(w, a, now) \in Int
           /\ Reified(w, a, now) = IF Repeat(w) = 0 THEN a - now
                                   ELSE IF a + Repeat(w) >= now THEN a + Repeat(w) ELSE now
<1>1. CASE Repeat(w) = 0
  BY <1>1 DEF Reified
<1>2. CASE Repeat(w) # 0
  <2>1. Max({a + Repeat(w), now}) = IF a + Repeat(w) >= now THEN a + Repeat(w) ELSE now
    BY MaxOfTwo
  <2> QED BY <1>2, <2>1 DEF Reified
<1> QED BY <1>1, <1>2

\* What is expired comes off a heap in some order, each watcher once.
LEMMA FeedRight ==
    ASSUME NEW due, IsFiniteSet(due), NEW ats, NEW s \in FeedReverse(due, ats)
    PROVE  /\ s \in Seq(due)
           /\ \A i, j \in 1 .. Len(s) : s[i] = s[j] => i = j
           /\ \A i, j \in 1 .. Len(s) : i < j => ats[s[i]] >= ats[s[j]]
<1>1. Cardinality(due) \in Nat
  BY FS_CardinalityType
<1>2. s \in [1 .. Cardinality(due) -> due] /\ \A i, j \in 1 .. Cardinality(due) : i # j => s[i] # s[j]
  BY DEF FeedReverse, SetToSeqs
<1>3. s \in Seq(due) /\ Len(s) = Cardinality(due)
  BY <1>1, <1>2
<1> QED BY <1>2, <1>3 DEF FeedReverse

LEMMA UpdatedTimers ==
    ASSUME Typed, TimersRight, TimersLate, ~suspended, NEW b \in Int, NEW u \in TimeUpdate(b),
           NEW w \in Timers
    PROVE  /\ u.at[w] >= left[w] + u.mn
           /\ have_monotonic => u.at[w] = left[w] + u.mn
           /\ {u.at[w], left[w], u.mn} \subseteq Int
<1>1. UpdateRight(u)
  BY TimeUpdateRight
<1>2. w \in Watchers /\ w \in active /\ IsTimer(w)
  BY DEF Timers, Typed, TypeOK
<1>3. {at[w], left[w], u.at[w], u.mn, clock, shift, seen, mn_now} \subseteq Int /\ seen <= clock
  BY <1>1, <1>2, Kinded DEF UpdateRight, Typed, TypeOK
<1>4. CASE have_monotonic
  BY <1>1, <1>2, <1>3, <1>4 DEF UpdateRight, TimersRight
<1>5. CASE ~have_monotonic
  <2>1. at[w] >= left[w] + mn_now + (clock - seen) /\ seen + shift <= mn_now
    BY <1>2, <1>3, <1>5 DEF TimersLate
  <2>2. u.mn = clock + shift /\ (u.at[w] = at[w] \/ u.at[w] = at[w] + (u.mn - mn_now))
    BY <1>1, <1>2, <1>5 DEF UpdateRight
  <2> QED BY <1>3, <1>5, <2>1, <2>2
<1> QED BY <1>3, <1>4, <1>5

LEMMA PollReturnsKeeps ==
    ASSUME Inv, PollReturns
    PROVE  Inv'
<1>1. Typed /\ TimersRight /\ TimersLate /\ PointsRight /\ wait \in Int /\ pc = "poll" /\ ~suspended
  BY DEF Inv, Typed, TypeOK, PollReturns
<1>2. PICK u \in TimeUpdate(wait) :
        LET ts == {w \in Timers : u.at[w] < u.mn}
            ps == {w \in Periodics : u.at[w] < u.rt}
        IN  /\ SetClocks(u)
            /\ LET reified == [w \in Watchers |->
                                  IF w \in ts THEN Reified(w, u.at[w], u.mn) ELSE u.at[w]]
               IN at' \in Recalculated(ps, reified, u.rt)
            /\ \E t \in FeedReverse(ts, u.at), p \in FeedReverse(ps, u.at) : pending' = t \o p
            /\ active' = {w \in active : w \in ts => Repeat(w) > 0} \ {w \in ps : Single(w)}
            /\ left' = [w \in Watchers |-> IF w \in ts THEN Reified(w, left[w], 0) ELSE left[w]]
  BY DEF PollReturns
<1> DEFINE ts == {w \in Timers : u.at[w] < u.mn}
           ps == {w \in Periodics : u.at[w] < u.rt}
           reified == [w \in Watchers |-> IF w \in ts THEN Reified(w, u.at[w], u.mn) ELSE u.at[w]]
<1>3. /\ SetClocks(u) /\ at' \in Recalculated(ps, reified, u.rt)
      /\ \E t \in FeedReverse(ts, u.at), p \in FeedReverse(ps, u.at) : pending' = t \o p
      /\ active' = {w \in active : w \in ts => Repeat(w) > 0} \ {w \in ps : Single(w)}
      /\ left' = [w \in Watchers |-> IF w \in ts THEN Reified(w, left[w], 0) ELSE left[w]]
  BY <1>2
<1>4. /\ pc' = "run" /\ wait' = 0 /\ UNCHANGED <<world, suspended>> /\ Since
  BY DEF PollReturns
<1>5. UpdateRight(u)
  BY <1>1, TimeUpdateRight
<1>6. /\ mn_now' = u.mn /\ ev_rt_now' = u.rt /\ seen' = clock
      /\ UNCHANGED <<clock, shift, jumps, kind, have_monotonic, suspended>>
  BY <1>3, <1>4 DEF SetClocks, world
<1>7. /\ {u.mn, u.rt, clock, shift, seen, mn_now} \subseteq Int /\ seen <= clock
      /\ u.at \in [Watchers -> Int] /\ left \in [Watchers -> Int]
  BY <1>1, <1>5 DEF UpdateRight, Typed, TypeOK
<1>8. /\ ts \subseteq Timers /\ ps \subseteq Periodics /\ ts \cap ps = {}
      /\ Timers \subseteq Watchers /\ Periodics \subseteq Watchers /\ active \subseteq Watchers
  BY <1>1 DEF Timers, Periodics, Typed, TypeOK
<1>9. ASSUME NEW w \in ts
      PROVE  /\ Repeat(w) \in Nat /\ u.at[w] \in Int /\ left[w] \in Int
             /\ IsTimer(w) /\ w \in active /\ w \in Watchers
             /\ Reified(w, u.at[w], u.mn) \in Int /\ Reified(w, left[w], 0) \in Int
  <2>1. Repeat(w) \in Nat /\ u.at[w] \in Int /\ left[w] \in Int /\ IsTimer(w) /\ w \in active /\ w \in Watchers
    BY <1>1, <1>7, <1>8, Kinded DEF Timers, Repeat
  <2> QED BY <1>7, <2>1, ReifiedRight
<1>10. reified \in [Watchers -> Int] /\ left' \in [Watchers -> Int]
  BY <1>3, <1>7, <1>9
<1>11. /\ at' \in [Watchers -> Int]
       /\ \A w \in ps : at'[w] \in NextAts(w, u.rt)
       /\ \A w \in Watchers \ ps : at'[w] = reified[w]
  <2> HIDE DEF ps, reified
  <2>1. ASSUME NEW a \in Recalculated(ps, reified, u.rt)
        PROVE  /\ a \in [Watchers -> Int]
               /\ \A w \in ps : a[w] \in NextAts(w, u.rt)
               /\ \A w \in Watchers \ ps : a[w] = reified[w]
    <3>1. u.rt \in Int /\ reified \in [Watchers -> Int] /\ ps \subseteq Periodics
      BY <1>7, <1>8, <1>10
    <3> QED BY ZenonT(30), <1>1, <3>1, RecalculatedRight
  <2> QED BY <1>3, <2>1
<1>12. /\ IsFiniteSet(ts) /\ IsFiniteSet(ps)
  <2>1. ts \in SUBSET Watchers /\ ps \in SUBSET Watchers
    BY <1>8
  <2> HIDE DEF ts, ps
  <2> QED BY <2>1, EvTimerAssumption, FS_Subset
<1>13. pending' \in Seq(Watchers) /\ IsInjective(pending')
  <2>1. PICK t \in FeedReverse(ts, u.at), p \in FeedReverse(ps, u.at) : pending' = t \o p
    BY <1>3
  <2> HIDE DEF ts, ps
  <2>2. t \in Seq(ts) /\ \A i, j \in 1 .. Len(t) : t[i] = t[j] => i = j
    BY <1>12, FeedRight
  <2>3. p \in Seq(ps) /\ \A i, j \in 1 .. Len(p) : p[i] = p[j] => i = j
    BY <1>12, FeedRight
  <2>4. ts \subseteq Watchers /\ ps \subseteq Watchers
    BY <1>8
  <2>5. t \o p \in Seq(Watchers)
    <3>1. t \in Seq(Watchers) /\ p \in Seq(Watchers)
      BY <2>2, <2>3, <2>4
    <3> QED BY <3>1
  <2>6. \A i, j \in DOMAIN (t \o p) : (t \o p)[i] = (t \o p)[j] => i = j
    <3> SUFFICES ASSUME NEW i \in 1 .. Len(t) + Len(p), NEW j \in 1 .. Len(t) + Len(p),
                        (t \o p)[i] = (t \o p)[j]
                 PROVE  i = j
      BY <2>2, <2>3
    <3>1. \A k \in 1 .. Len(t) + Len(p) : (t \o p)[k] = IF k <= Len(t) THEN t[k] ELSE p[k - Len(t)]
      BY <2>2, <2>3
    <3>2. \A k \in 1 .. Len(t) : t[k] \in ts
      BY <2>2
    <3>3. \A k \in 1 .. Len(p) : p[k] \in ps
      BY <2>3
    <3>4. Len(t) \in Nat /\ Len(p) \in Nat
      BY <2>2, <2>3
    <3>5. CASE i <= Len(t) /\ j <= Len(t)
      BY <2>2, <3>1, <3>5
    <3>6. CASE i > Len(t) /\ j > Len(t)
      <4>1. p[i - Len(t)] = p[j - Len(t)] /\ i - Len(t) \in 1 .. Len(p) /\ j - Len(t) \in 1 .. Len(p)
        BY <3>1, <3>4, <3>6
      <4> QED BY <2>3, <3>4, <4>1
    <3>7. CASE i <= Len(t) /\ j > Len(t)
      <4>1. t[i] = p[j - Len(t)] /\ i \in 1 .. Len(t) /\ j - Len(t) \in 1 .. Len(p)
        BY <3>1, <3>4, <3>7
      <4> QED BY <1>8, <3>2, <3>3, <4>1
    <3>8. CASE i > Len(t) /\ j <= Len(t)
      <4>1. t[j] = p[i - Len(t)] /\ j \in 1 .. Len(t) /\ i - Len(t) \in 1 .. Len(p)
        BY <3>1, <3>4, <3>8
      <4> QED BY <1>8, <3>2, <3>3, <4>1
    <3> QED BY <3>4, <3>5, <3>6, <3>7, <3>8
  <2> QED BY <2>1, <2>5, <2>6 DEF IsInjective
<1>14. ASSUME NEW w \in Watchers, IsTimer(w)
       PROVE  /\ at'[w] = IF w \in ts THEN Reified(w, u.at[w], u.mn) ELSE u.at[w]
              /\ left'[w] = IF w \in ts THEN Reified(w, left[w], 0) ELSE left[w]
              /\ w \in active' <=> w \in active /\ (w \in ts => Repeat(w) > 0)
              /\ w \in ts => w \in active
              /\ w \in active => w \in Timers
              /\ {at'[w], left'[w], left[w], u.at[w], at[w]} \subseteq Int
  <2>1. w \notin ps /\ w \in Watchers \ ps
    BY <1>14 DEF Periodics
  <2>2. at'[w] = reified[w] /\ left[w] \in Int /\ u.at[w] \in Int
    BY <1>7, <1>11, <2>1
  <2>3. w \in ts => w \in active
    BY <1>9
  <2>4. {at'[w], left'[w], at[w]} \subseteq Int
    BY <1>1, <1>10, <1>11, Kinded
  <2>5. w \in active => w \in Timers
    BY <1>14 DEF Timers
  <2> QED BY <1>3, <2>1, <2>2, <2>3, <2>4, <2>5
<1>15. ASSUME NEW w \in Watchers, IsTimer(w), w \in ts
       PROVE  /\ Repeat(w) = 0 => at'[w] = u.at[w] - u.mn /\ left'[w] = left[w]
              /\ Repeat(w) > 0 =>
                   /\ at'[w] = IF u.at[w] + Repeat(w) >= u.mn THEN u.at[w] + Repeat(w) ELSE u.mn
                   /\ left'[w] = IF left[w] + Repeat(w) >= 0 THEN left[w] + Repeat(w) ELSE 0
              /\ Repeat(w) \in Nat
  <2>1. Repeat(w) \in Nat /\ {u.at[w], left[w], u.mn, 0} \subseteq Int
    BY <1>7, <1>9, <1>15
  <2> HIDE DEF ts
  <2> QED BY <1>14, <1>15, <2>1, ReifiedRight
<1>16. ASSUME NEW w \in Watchers, IsTimer(w), w \in active
       PROVE  /\ u.at[w] >= left[w] + u.mn
              /\ have_monotonic => u.at[w] = left[w] + u.mn
  BY <1>1, <1>14, <1>16, UpdatedTimers
<1> HIDE DEF ts, ps, reified
<1>17. TimersRight'
  <2> SUFFICES ASSUME have_monotonic
               PROVE  /\ mn_now' = seen'
                      /\ \A w \in Watchers : IsTimer(w) => at'[w] = left'[w] + (IF w \notin active' THEN 0 ELSE clock)
    BY <1>1, <1>6 DEF TimersRight, IsTimer
  <2>1. u.mn = clock
    BY <1>5 DEF UpdateRight
  <2>2. ASSUME NEW w \in Watchers, IsTimer(w)
        PROVE  at'[w] = left'[w] + (IF w \notin active' THEN 0 ELSE clock)
    <3>1. CASE w \in ts
      BY <1>7, <1>14, <1>15, <1>16, <2>1, <2>2, <3>1
    <3>2. CASE w \notin ts /\ w \in active
      BY <1>7, <1>14, <1>16, <2>1, <2>2, <3>2
    <3>3. CASE w \notin ts /\ w \notin active
      <4>1. u.at[w] = at[w] /\ at[w] = left[w]
        BY <1>1, <1>5, <1>14, <2>2, <3>3 DEF UpdateRight, TimersRight
      <4> QED BY <1>14, <2>2, <3>3, <4>1
    <3> QED BY <3>1, <3>2, <3>3
  <2> QED BY <1>6, <2>1, <2>2
<1>18. TimersLate'
  <2> SUFFICES ASSUME ~have_monotonic
               PROVE  /\ seen' + shift <= mn_now'
                      /\ \A w \in Watchers : IsTimer(w) =>
                           at'[w] >= left'[w] + (IF w \notin active' THEN 0 ELSE mn_now' + (clock - seen'))
    BY <1>1, <1>6 DEF TimersLate, IsTimer
  <2>1. u.mn = clock + shift /\ mn_now' = u.mn /\ seen' = clock
    BY <1>5, <1>6 DEF UpdateRight
  <2>2. ASSUME NEW w \in Watchers, IsTimer(w)
        PROVE  at'[w] >= left'[w] + (IF w \notin active' THEN 0 ELSE u.mn)
    <3>1. CASE w \in ts
      BY <1>7, <1>14, <1>15, <1>16, <2>1, <2>2, <3>1
    <3>2. CASE w \notin ts /\ w \in active
      BY <1>7, <1>14, <1>16, <2>1, <2>2, <3>2
    <3>3. CASE w \notin ts /\ w \notin active
      <4>1. u.at[w] = at[w] /\ at[w] >= left[w]
        BY <1>1, <1>5, <1>14, <2>2, <3>3 DEF UpdateRight, TimersLate
      <4> QED BY <1>14, <2>2, <3>3, <4>1
    <3> QED BY <3>1, <3>2, <3>3
  <2> QED BY <1>7, <2>1, <2>2
<1>19. PointsRight'
  <2>1. active' \subseteq active
    BY <1>3
  <2>2. ASSUME NEW w \in active', ~IsTimer(w)
        PROVE  at'[w] = at[w] \/ at'[w] \in NextAts(w, u.rt)
    <3>1. w \in Watchers /\ w \notin ts
      BY <1>8, <1>9, <2>1, <2>2
    <3>2. CASE w \in ps
      BY <1>11, <3>2
    <3>3. CASE w \notin ps
      <4>1. at'[w] = u.at[w]
        BY <1>11, <3>1, <3>3 DEF reified
      <4> QED BY <1>5, <2>2, <3>1, <4>1 DEF UpdateRight
    <3> QED BY <3>2, <3>3
  <2> QED BY <1>1, <1>4, <1>6, <1>7, <1>11, <2>1, <2>2, PointsKept
<1>20. Typed'
  <2>1. /\ {mn_now', ev_rt_now', now_floor', rtmn_diff', shift'} \subseteq Int
        /\ clock' \in Int /\ seen' \in Int /\ seen' <= clock'
        /\ kind' \in [Watchers -> Kinds] /\ have_monotonic' \in BOOLEAN
        /\ since' \in [Watchers -> Int]
    BY <1>1, <1>3, <1>4, UpdateTyped
  <2>2. active' \subseteq Watchers
    BY <1>3, <1>8
  <2> QED BY <1>1, <1>4, <1>10, <1>11, <1>13, <2>1, <2>2 DEF Typed, TypeOK
<1> QED BY <1>4, <1>17, <1>18, <1>19, <1>20, AwakeSleepsNot DEF Inv
-----------------------------------------------------------------------------
(* What callbacks and the program call.                                    *)

LEMMA ClearPendingRight ==
    ASSUME Typed, NEW w, ClearPending(w)
    PROVE  pending' \in Seq(Watchers) /\ IsInjective(pending')
<1>1. pending \in Seq(Watchers) /\ \A i, j \in 1 .. Len(pending) : pending[i] = pending[j] => i = j
  <2>1. pending \in Seq(Watchers) /\ IsInjective(pending)
    BY DEF Typed, TypeOK
  <2>2. DOMAIN pending = 1 .. Len(pending)
    BY <2>1
  <2> QED BY ONLY <2>1, <2>2 DEF IsInjective
<1>2. CASE UNCHANGED pending
  BY <1>1, <1>2 DEF IsInjective
<1>3. ASSUME NEW i \in 1 .. Len(pending), pending' = RemoveAt(pending, i)
      PROVE  pending' \in Seq(Watchers) /\ IsInjective(pending')
  <2> DEFINE a == SubSeq(pending, 1, i - 1)
             b == SubSeq(pending, i + 1, Len(pending))
             n == Len(pending) - 1
  <2>0. Len(pending) \in Nat /\ i \in Nat /\ i <= Len(pending) /\ i >= 1 /\ n \in Nat
    BY <1>1
  <2>1. a \in Seq(Watchers) /\ Len(a) = i - 1 /\ \A k \in 1 .. i - 1 : a[k] = pending[k]
    BY <1>1
  <2>2. b \in Seq(Watchers) /\ Len(b) = Len(pending) - i /\ \A k \in 1 .. Len(pending) - i : b[k] = pending[i + k]
    BY <1>1
  <2>3. pending' = a \o b
    BY <1>3 DEF RemoveAt
  <2> HIDE DEF a, b
  <2>4. pending' \in Seq(Watchers) /\ Len(pending') = n
    <3>1. a \o b \in Seq(Watchers) /\ Len(a \o b) = Len(a) + Len(b)
      <4>1. a \in Seq(Watchers) /\ b \in Seq(Watchers)
        BY <2>1, <2>2
      <4> QED BY <4>1
    <3>2. Len(a) + Len(b) = n
      BY <2>0, <2>1, <2>2
    <3> QED BY <2>3, <3>1, <3>2
  <2>5. \A k \in 1 .. n : pending'[k] = IF k < i THEN pending[k] ELSE pending[k + 1]
    <3> SUFFICES ASSUME NEW k \in 1 .. n PROVE pending'[k] = IF k < i THEN pending[k] ELSE pending[k + 1]
      OBVIOUS
    <3>1. CASE k < i
      BY <2>0, <2>1, <2>2, <2>3, <3>1
    <3>2. CASE k >= i
      <4>1. (a \o b)[k] = b[k - (i - 1)]
        BY <2>0, <2>1, <2>2, <3>2
      <4>2. k - (i - 1) \in 1 .. Len(pending) - i /\ i + (k - (i - 1)) = k + 1
        BY <2>0, <3>2
      <4> QED BY <2>0, <2>2, <2>3, <3>2, <4>1, <4>2
    <3> QED BY <2>0, <3>1, <3>2
  <2>6. \A j, k \in 1 .. n : pending'[j] = pending'[k] => j = k
    <3> SUFFICES ASSUME NEW j \in 1 .. n, NEW k \in 1 .. n, pending'[j] = pending'[k]
                 PROVE  j = k
      OBVIOUS
    <3> DEFINE from(m) == IF m < i THEN m ELSE m + 1
    <3>1. pending[from(j)] = pending[from(k)]
      BY <2>5
    <3>2. from(j) \in 1 .. Len(pending) /\ from(k) \in 1 .. Len(pending)
      BY <2>0
    <3>3. from(j) = from(k)
      <4> HIDE DEF from
      <4> QED BY <1>1, <3>1, <3>2
    <3> QED BY <2>0, <3>3
  <2> QED BY <2>4, <2>6 DEF IsInjective
<1>4. DOMAIN pending = 1 .. Len(pending)
  BY <1>1
<1> QED BY <1>2, <1>3, <1>4 DEF ClearPending

\* A call changes one watcher: what is right of that one is right of all.
CallRight(w) ==
    /\ pending' \in Seq(Watchers) /\ IsInjective(pending')
    /\ active' \subseteq Watchers
    /\ at' \in [Watchers -> Int] /\ left' \in [Watchers -> Int] /\ since' \in [Watchers -> Int]
    /\ \A v \in Watchers \ {w} : /\ at'[v] = at[v] /\ left'[v] = left[v] /\ since'[v] = since[v]
                                 /\ v \in active' <=> v \in active
    /\ IsTimer(w) /\ have_monotonic =>
         at'[w] = left'[w] + (IF w \notin active' THEN 0 ELSE clock)
    /\ IsTimer(w) /\ ~have_monotonic =>
         at'[w] >= left'[w] + (IF w \notin active' THEN 0 ELSE mn_now + (clock - seen))
    /\ Repeats(w) /\ w \in active' =>
         at'[w] > since'[w] /\ (at'[w] - kind[w].offset) % kind[w].interval = 0

LEMMA CallKeeps ==
    ASSUME Inv, InProgram, NEW w \in Watchers, UNCHANGED <<world, clocks, pc, wait, suspended, seen>>,
           CallRight(w)
    PROVE  Inv'
<1>1. /\ UNCHANGED <<clock, shift, jumps, kind, have_monotonic, mn_now, ev_rt_now, now_floor, rtmn_diff>>
      /\ pc = "run" /\ ~suspended
      /\ Typed /\ TimersRight /\ TimersLate /\ PointsRight
  BY DEF Inv, InProgram, world, clocks
<1>2. Typed'
  BY <1>1 DEF Typed, TypeOK, CallRight
<1>3. TimersRight'
  BY <1>1 DEF TimersRight, IsTimer, CallRight
<1>4. TimersLate'
  <2> SUFFICES ASSUME ~have_monotonic
               PROVE  \A v \in Watchers : IsTimer(v) =>
                           at'[v] >= left'[v] + (IF v \notin active' THEN 0 ELSE mn_now + (clock - seen))
    BY <1>1 DEF TimersLate, IsTimer
  <2> QED BY <1>1 DEF TimersLate, CallRight
<1>5. PointsRight'
  <2> SUFFICES ASSUME NEW v \in active', Repeats(v)
               PROVE  at'[v] > since'[v] /\ (at'[v] - kind[v].offset) % kind[v].interval = 0
    BY <1>1 DEF PointsRight, Repeats, Single
  <2>1. CASE v = w
    BY <2>1 DEF CallRight
  <2>2. CASE v # w
    BY <1>1, <2>2 DEF PointsRight, CallRight
  <2> QED BY <2>1, <2>2
<1> QED BY <1>1, <1>2, <1>3, <1>4, <1>5, AwakeSleepsNot DEF Inv

\* What all calls leave alone.
LEMMA InvFacts ==
    ASSUME Inv, NEW w \in Watchers
    PROVE  /\ Typed /\ at \in [Watchers -> Int] /\ left \in [Watchers -> Int] /\ since \in [Watchers -> Int]
           /\ {at[w], left[w], clock, seen, mn_now, ev_rt_now} \subseteq Int
           /\ pending \in Seq(Watchers) /\ IsInjective(pending)
           /\ active \subseteq Watchers
           /\ IsTimer(w) => kind[w].after \in Int /\ Repeat(w) \in Nat
           /\ IsTimer(w) => ~Repeats(w)
           /\ IsTimer(w) /\ ~suspended /\ have_monotonic =>
                /\ mn_now = seen
                /\ at[w] = left[w] + (IF w \notin active THEN 0 ELSE clock)
           /\ IsTimer(w) /\ ~suspended /\ ~have_monotonic =>
                at[w] >= left[w] + (IF w \notin active THEN 0 ELSE mn_now + (clock - seen))
<1>1. Typed
  BY DEF Inv
<1>2. IsTimer(w) => kind[w].after \in Int /\ Repeat(w) \in Nat
  BY <1>1, Kinded DEF Repeat
<1>3. IsTimer(w) => ~Repeats(w)
  BY DEF IsTimer, Repeats
<1>4. {at[w], left[w], clock, seen, mn_now, ev_rt_now} \subseteq Int
  BY <1>1, Kinded DEF Typed, TypeOK
<1>5. /\ at \in [Watchers -> Int] /\ left \in [Watchers -> Int] /\ since \in [Watchers -> Int]
      /\ pending \in Seq(Watchers) /\ IsInjective(pending) /\ active \subseteq Watchers
  BY <1>1 DEF Typed, TypeOK
<1>6. IsTimer(w) /\ ~suspended /\ have_monotonic =>
        mn_now = seen /\ at[w] = left[w] + (IF w \notin active THEN 0 ELSE clock)
  BY DEF Inv, TimersRight
<1>7. IsTimer(w) /\ ~suspended /\ ~have_monotonic =>
        at[w] >= left[w] + (IF w \notin active THEN 0 ELSE mn_now + (clock - seen))
  BY DEF Inv, TimersLate
<1> QED BY <1>1, <1>2, <1>3, <1>4, <1>5, <1>6, <1>7

LEMMA TimerSetKeeps ==
    ASSUME Inv, NEW w \in Watchers, TimerSet(w)
    PROVE  Inv'
<1>1. /\ InProgram /\ ~suspended /\ IsTimer(w) /\ w \notin active
      /\ at' = [at EXCEPT ![w] = kind[w].after] /\ left' = [left EXCEPT ![w] = kind[w].after]
      /\ UNCHANGED <<world, clocks, active, pending, pc, wait, suspended, seen, since>>
  BY DEF TimerSet, InProgram
<1>2. CallRight(w)
  BY <1>1, InvFacts DEF CallRight
<1> QED BY <1>1, <1>2, CallKeeps

LEMMA TimerStartKeeps ==
    ASSUME Inv, NEW w \in Watchers, TimerStart(w)
    PROVE  Inv'
<1>1. /\ InProgram /\ ~suspended /\ IsTimer(w) /\ w \notin active
      /\ at' = [at EXCEPT ![w] = at[w] + mn_now]
      /\ active' = active \cup {w}
      /\ left' = [left EXCEPT ![w] = left[w] - (clock - seen)]
      /\ UNCHANGED <<world, clocks, pending, pc, wait, suspended, seen, since>>
  BY DEF TimerStart, InProgram
<1>2. CallRight(w)
  BY SMTT(30), <1>1, InvFacts DEF CallRight
<1> QED BY <1>1, <1>2, CallKeeps

LEMMA TimerStopKeeps ==
    ASSUME Inv, NEW w \in Watchers, TimerStop(w)
    PROVE  Inv'
<1>1. /\ InProgram /\ ~suspended /\ IsTimer(w) /\ ClearPending(w)
      /\ active' = active \ {w}
      /\ at' = IF w \in active THEN [at EXCEPT ![w] = at[w] - mn_now] ELSE at
      /\ left' = IF w \in active THEN [left EXCEPT ![w] = left[w] + (clock - seen)] ELSE left
      /\ UNCHANGED <<world, clocks, pc, wait, suspended, seen, since>>
  BY DEF TimerStop, InProgram
<1>2. pending' \in Seq(Watchers) /\ IsInjective(pending')
  BY <1>1, InvFacts, ClearPendingRight
<1>3. CASE w \in active
  <2>1. CallRight(w)
    <3>1. /\ at' = [at EXCEPT ![w] = at[w] - mn_now] /\ left' = [left EXCEPT ![w] = left[w] + (clock - seen)]
          /\ active' = active \ {w} /\ since' = since /\ ~Repeats(w) /\ ~suspended /\ IsTimer(w)
      BY <1>1, <1>3, InvFacts
    <3>2. /\ at \in [Watchers -> Int] /\ left \in [Watchers -> Int] /\ since \in [Watchers -> Int]
          /\ {at[w], left[w], clock, seen, mn_now} \subseteq Int /\ active \subseteq Watchers
      BY InvFacts
    <3>3. /\ at' \in [Watchers -> Int] /\ left' \in [Watchers -> Int]
          /\ at'[w] = at[w] - mn_now /\ left'[w] = left[w] + (clock - seen)
      BY <3>1, <3>2
    <3>4. have_monotonic => at'[w] = left'[w]
      BY <1>3, <3>1, <3>2, <3>3, InvFacts
    <3>5. ~have_monotonic => at'[w] >= left'[w]
      BY <1>3, <3>1, <3>2, <3>3, InvFacts
    <3> QED BY <1>2, <3>1, <3>2, <3>3, <3>4, <3>5 DEF CallRight
  <2> QED BY <1>1, <2>1, CallKeeps
<1>4. CASE w \notin active
  <2>1. CallRight(w)
    BY <1>1, <1>2, <1>4, InvFacts DEF CallRight
  <2> QED BY <1>1, <2>1, CallKeeps
<1> QED BY <1>3, <1>4

LEMMA TimerAgainKeeps ==
    ASSUME Inv, NEW w \in Watchers, TimerAgain(w)
    PROVE  Inv'
<1>1. CASE Repeat(w) = 0
  BY <1>1, TimerStopKeeps DEF TimerAgain
<1>2. CASE Repeat(w) # 0
  <2>1. /\ InProgram /\ ~suspended /\ IsTimer(w) /\ ClearPending(w)
        /\ active' = active \cup {w}
        /\ at' = [at EXCEPT ![w] = mn_now + Repeat(w)]
        /\ left' = [left EXCEPT ![w] = Repeat(w) - (clock - seen)]
        /\ UNCHANGED <<world, clocks, pc, wait, suspended, seen, since>>
    BY <1>2 DEF TimerAgain, InProgram
  <2>2. pending' \in Seq(Watchers) /\ IsInjective(pending')
    BY <2>1, InvFacts, ClearPendingRight
  <2>3. CallRight(w)
    BY SMTT(30), <2>1, <2>2, InvFacts DEF CallRight
  <2> QED BY <2>1, <2>3, CallKeeps
<1> QED BY <1>1, <1>2

LEMMA PeriodicCallsKeep ==
    ASSUME Inv, NEW w \in Watchers, PeriodicStart(w) \/ PeriodicAgain(w)
    PROVE  Inv'
<1>1. PICK a \in NextAts(w, ev_rt_now) : at' = [at EXCEPT ![w] = a]
  BY DEF PeriodicStart, PeriodicAgain
<1>2. /\ InProgram /\ ~IsTimer(w) /\ active' = active \cup {w}
      /\ since' = [since EXCEPT ![w] = ev_rt_now]
      /\ UNCHANGED <<world, clocks, pc, wait, suspended, seen, left>>
      /\ UNCHANGED pending \/ ClearPending(w)
  BY DEF PeriodicStart, PeriodicAgain
<1>3. pending' \in Seq(Watchers) /\ IsInjective(pending')
  BY <1>2, InvFacts, ClearPendingRight
<1>4. a \in Int /\ (Repeats(w) => a > ev_rt_now /\ (a - kind[w].offset) % kind[w].interval = 0)
  <2>1. Typed /\ ev_rt_now \in Int
    BY InvFacts
  <2> QED BY <1>1, <1>2, <2>1, NextAtsRight
<1>5. CallRight(w)
  BY <1>1, <1>2, <1>3, <1>4, InvFacts DEF CallRight
<1> QED BY <1>2, <1>5, CallKeeps

LEMMA PeriodicStopKeeps ==
    ASSUME Inv, NEW w \in Watchers, PeriodicStop(w)
    PROVE  Inv'
<1>1. /\ InProgram /\ ~IsTimer(w) /\ active' = active \ {w} /\ ClearPending(w)
      /\ UNCHANGED <<world, clocks, at, pc, wait, suspended, seen, left, since>>
  BY DEF PeriodicStop
<1>2. pending' \in Seq(Watchers) /\ IsInjective(pending')
  BY <1>1, InvFacts, ClearPendingRight
<1>3. CallRight(w)
  <2>1. Repeats(w) /\ w \in active' => at[w] > since[w] /\ (at[w] - kind[w].offset) % kind[w].interval = 0
    BY <1>1
  <2> QED BY <1>1, <1>2, <2>1, InvFacts DEF CallRight
<1> QED BY <1>1, <1>3, CallKeeps
-----------------------------------------------------------------------------
(* The other steps.                                                        *)

LEMMA InvokeKeeps ==
    ASSUME Inv, Invoke
    PROVE  Inv'
<1>1. /\ pc = "run" /\ pending # <<>> /\ pending' = SubSeq(pending, 1, Len(pending) - 1)
      /\ UNCHANGED <<clock, shift, jumps, kind, have_monotonic, mn_now, ev_rt_now, now_floor, rtmn_diff,
                     at, active, pc, wait, suspended, seen, left, since>>
  BY DEF Invoke, Front, world, clocks
<1>2. pending \in Seq(Watchers) /\ IsInjective(pending)
  BY DEF Inv, Typed, TypeOK
<1>3. pending' \in Seq(Watchers) /\ IsInjective(pending')
  <2>1. Len(pending) \in Nat /\ Len(pending) > 0
    BY <1>1, <1>2
  <2>2. /\ pending' \in Seq(Watchers) /\ Len(pending') = Len(pending) - 1
        /\ \A i \in 1 .. Len(pending) - 1 : pending'[i] = pending[i]
    <3> DEFINE m == Len(pending) - 1
    <3>1. m \in Nat /\ m <= Len(pending) /\ pending' = SubSeq(pending, 1, m)
      BY <1>1, <2>1
    <3> HIDE DEF m
    <3>2. pending' \in Seq(Watchers) /\ Len(pending') = m /\ \A i \in 1 .. m : pending'[i] = pending[i]
      BY <1>2, <3>1
    <3> QED BY <3>2 DEF m
  <2> QED BY <1>2, <2>1, <2>2 DEF IsInjective
<1>4. Typed'
  BY <1>1, <1>3 DEF Inv, Typed, TypeOK
<1>5. TimersRight' /\ TimersLate' /\ PointsRight'
  BY <1>1 DEF Inv, TimersRight, TimersLate, PointsRight, Repeats, Single, IsTimer
<1> QED BY <1>1, <1>4, <1>5, AwakeSleepsNot DEF Inv

\* The stop-watches run down as the time goes on.
LEMMA TickKeeps ==
    ASSUME Inv, Tick
    PROVE  Inv'
<1>1. /\ clock' = clock + 1
      /\ left' = [w \in Watchers |-> IF w \in Timers /\ ~suspended THEN left[w] - 1 ELSE left[w]]
      /\ UNCHANGED <<shift, jumps, kind, have_monotonic, mn_now, ev_rt_now, now_floor, rtmn_diff,
                     at, active, pending, pc, wait, suspended, seen, since>>
  BY DEF Tick, clocks
<1>2. /\ Typed /\ TimersRight /\ TimersLate /\ PointsRight /\ NeverOversleeps
      /\ {clock, seen, mn_now, shift, wait, rtmn_diff} \subseteq Int /\ seen <= clock
      /\ left \in [Watchers -> Int] /\ at \in [Watchers -> Int] /\ active \subseteq Watchers
  BY DEF Inv, Typed, TypeOK
<1>3. \A w \in Watchers : /\ {left[w], at[w], left'[w]} \subseteq Int
                          /\ IsTimer(w) => left'[w] = IF w \in active /\ ~suspended THEN left[w] - 1 ELSE left[w]
  BY <1>1, <1>2 DEF Timers
<1>4. Typed'
  <2>1. left' \in [Watchers -> Int]
    BY <1>1, <1>2
  <2> QED BY <1>1, <1>2, <2>1 DEF Typed, TypeOK
<1>5. TimersRight'
  <2> SUFFICES ASSUME have_monotonic
               PROVE  /\ mn_now = seen
                      /\ \A w \in Watchers : IsTimer(w) =>
                           at[w] = left'[w] + (IF w \notin active THEN 0 ELSE IF suspended THEN mn_now ELSE clock + 1)
    BY <1>1 DEF TimersRight, IsTimer
  <2> QED BY <1>2, <1>3 DEF TimersRight
<1>6. TimersLate'
  <2> SUFFICES ASSUME ~have_monotonic
               PROVE  /\ seen + shift <= mn_now
                      /\ suspended => mn_now = seen + shift
                      /\ \A w \in Watchers : IsTimer(w) =>
                           at[w] >= left'[w] + (IF w \notin active THEN 0
                                                ELSE IF suspended THEN mn_now ELSE mn_now + (clock' - seen))
    BY <1>1 DEF TimersLate, IsTimer
  <2>1. ASSUME NEW w \in Watchers, IsTimer(w)
        PROVE  at[w] >= left'[w] + (IF w \notin active THEN 0
                                    ELSE IF suspended THEN mn_now ELSE mn_now + (clock' - seen))
    <3>1. at[w] >= left[w] + (IF w \notin active THEN 0
                              ELSE IF suspended THEN mn_now ELSE mn_now + (clock - seen))
      BY <1>2, <2>1 DEF TimersLate
    <3> QED BY <1>1, <1>2, <1>3, <2>1, <3>1
  <2> QED BY <1>2, <2>1 DEF TimersLate
<1>7. PointsRight'
  BY <1>1, <1>2 DEF PointsRight, Repeats, Single
<1>8. NeverOversleeps'
  <2> SUFFICES ASSUME pc = "poll", have_monotonic, wait > Max({TimeoutBlocktime, BackendMintime}), NEW w \in active
               PROVE  seen + wait <= IF IsTimer(w) THEN clock + 1 + left'[w] ELSE at[w] - rtmn_diff
    BY <1>1 DEF NeverOversleeps, IsTimer
  <2>1. seen + wait <= IF IsTimer(w) THEN clock + left[w] ELSE at[w] - rtmn_diff
    BY <1>2 DEF NeverOversleeps
  <2>2. ~suspended /\ w \in Watchers
    BY <1>2 DEF Typed
  <2> QED BY <1>2, <1>3, <2>1, <2>2
<1> QED BY <1>4, <1>5, <1>6, <1>7, <1>8 DEF Inv

LEMMA JumpKeeps ==
    ASSUME Inv, Jump
    PROVE  Inv'
<1>1. PICK d \in Jumps : (~have_monotonic => d < 0 /\ ~suspended) /\ shift' = shift + d
  BY DEF Jump
<1>2. UNCHANGED <<clock, kind, have_monotonic, mn_now, ev_rt_now, now_floor, rtmn_diff,
                  at, active, pending, pc, wait, suspended, seen, left, since>>
  BY DEF Jump, clocks
<1>3. d \in Int /\ shift \in Int /\ seen \in Int /\ mn_now \in Int
  BY EvTimerAssumption DEF Inv, Typed, TypeOK
<1>4. Typed'
  BY <1>1, <1>2, <1>3 DEF Inv, Typed, TypeOK
<1>5. TimersLate'
  <2> SUFFICES ASSUME ~have_monotonic
               PROVE  /\ seen + shift' <= mn_now
                      /\ \A w \in Watchers : IsTimer(w) =>
                           at[w] >= left[w] + (IF w \notin active THEN 0 ELSE mn_now + (clock - seen))
    BY <1>1, <1>2 DEF TimersLate, IsTimer
  <2>1. seen + shift <= mn_now
    BY DEF Inv, TimersLate
  <2> QED BY <1>1, <1>3, <2>1 DEF Inv, TimersLate
<1>6. TimersRight' /\ PointsRight' /\ NeverOversleeps'
  BY <1>2 DEF Inv, TimersRight, PointsRight, NeverOversleeps, Repeats, Single, IsTimer
<1> QED BY <1>4, <1>5, <1>6 DEF Inv

LEMMA InitHolds == Init => Inv
<1> SUFFICES ASSUME Init PROVE Inv
  OBVIOUS
<1>1. \A w \in Watchers : kind[w] \in Timer \cup Periodic \cup Manual
  BY EvTimerAssumption DEF Init
<1>2. \A w \in Watchers : (IF IsTimer(w) THEN kind[w].after
                           ELSE IF kind[w].kind = "manual" THEN 0 ELSE kind[w].offset) \in Int
  BY <1>1 DEF Timer, Periodic, Manual, IsTimer
<1>3. at \in [Watchers -> Int] /\ left = at
  BY <1>2 DEF Init
<1>4. Typed
  <2>1. pending \in Seq(Watchers) /\ IsInjective(pending)
    BY DEF Init, IsInjective
  <2>2. since \in [Watchers -> Int] /\ kind \in [Watchers -> Kinds]
    BY DEF Init
  <2>3. /\ mn_now = 0 /\ ev_rt_now = 0 /\ now_floor = 0 /\ rtmn_diff = 0 /\ shift = 0 /\ wait = 0
        /\ clock = 0 /\ seen = 0 /\ active = {} /\ pc = "run" /\ suspended = FALSE
        /\ have_monotonic \in BOOLEAN
    BY DEF Init
  <2>4. TypeOK
    <3>1. {mn_now, ev_rt_now, now_floor, rtmn_diff, shift, wait} \subseteq Int
      BY <2>3
    <3>2. active \subseteq Watchers /\ pc \in {"run", "poll"} /\ suspended \in BOOLEAN
      BY <2>3
    <3>3. left \in [Watchers -> Int]
      BY <1>3
    <3> QED BY <1>3, <2>1, <3>1, <3>2, <3>3 DEF TypeOK
  <2> QED BY <2>2, <2>3, <2>4 DEF Typed
<1>5. TimersRight /\ TimersLate /\ PointsRight /\ NeverOversleeps
  <2>1. \A w \in Watchers : at[w] \in Int /\ left[w] = at[w] /\ w \notin active
    BY <1>3 DEF Init
  <2> QED BY <2>1 DEF Init, TimersRight, TimersLate, PointsRight, NeverOversleeps
<1> QED BY <1>4, <1>5 DEF Inv

LEMMA NextKeeps == Inv /\ [Next]_vars => Inv'
<1> SUFFICES ASSUME Inv, [Next]_vars PROVE Inv'
  OBVIOUS
<1>1. CASE Block
  BY <1>1, BlockKeeps
<1>2. CASE PollReturns
  BY <1>2, PollReturnsKeeps
<1>3. CASE Invoke
  BY <1>3, InvokeKeeps
<1>4. CASE NowUpdate \/ Suspend
  BY <1>4, NowUpdateKeeps
<1>5. CASE Resume
  BY <1>5, ResumeKeeps
<1>6. CASE Tick
  BY <1>6, TickKeeps
<1>7. CASE Jump
  BY <1>7, JumpKeeps
<1>8. ASSUME NEW w \in Watchers, TimerSet(w) \/ TimerStart(w) \/ TimerStop(w) \/ TimerAgain(w)
      PROVE  Inv'
  BY <1>8, TimerSetKeeps, TimerStartKeeps, TimerStopKeeps, TimerAgainKeeps
<1>9. ASSUME NEW w \in Watchers, PeriodicStart(w) \/ PeriodicStop(w) \/ PeriodicAgain(w)
      PROVE  Inv'
  BY <1>9, PeriodicCallsKeep, PeriodicStopKeeps
<1>10. CASE UNCHANGED vars
  BY <1>10 DEF vars, clocks, Inv, Typed, TypeOK, TimersRight, TimersLate, PointsRight, NeverOversleeps,
               Repeats, Single, IsTimer
<1> QED BY <1>1, <1>2, <1>3, <1>4, <1>5, <1>6, <1>7, <1>8, <1>9, <1>10 DEF Next

LEMMA Invariance == Spec => []Inv
<1> QED BY InitHolds, NextKeeps, PTL DEF Spec
-----------------------------------------------------------------------------
(* The theorems.                                                           *)

\* By a monotonic clock, the expiry time of every timer is when its stop-watch runs
\* down, whatever the periods, however the program stops, repeats and suspends, and
\* however the real-time clock is set.
THEOREM TimerInvHolds == Spec => []TimerInv
<1>1. Inv => TimerInv
  BY DEF Inv, Typed, TimersRight, TimerInv
<1> QED BY <1>1, Invariance, PTL

\* The loop does not mean to sleep past a timer or, as far as it knows the time, a
\* periodic, by more than the program and the backend allow.
THEOREM NeverOversleepsHolds == Spec => []NeverOversleeps
<1>1. Inv => NeverOversleeps
  BY DEF Inv
<1> QED BY <1>1, Invariance, PTL

\* Only the return of the poll leaves it.
LEMMA OnlyPollReturns ==
    ASSUME [Next]_vars, pc = "poll", pc' # "poll"
    PROVE  PollReturns
BY DEF Next, vars, Block, Invoke, NowUpdate, Suspend, Resume, Tick, Jump, InProgram, TimerSet, TimerStart,
       TimerStop, TimerAgain, PeriodicStart, PeriodicStop, PeriodicAgain

\* What a return of the poll makes pending: expired periodics on top of expired timers.
LEMMA WhatExpires ==
    ASSUME Inv, PollReturns
    PROVE  \E u \in TimeUpdate(wait) : \E t, p :
             /\ t \in Seq(Timers) /\ p \in Seq(Periodics) /\ pending' = t \o p
             /\ \A i \in 1 .. Len(t) : u.at[t[i]] < u.mn
             /\ \A i \in 1 .. Len(p) : u.at[p[i]] < u.rt
             /\ \A i, j \in 1 .. Len(t) : i < j => u.at[t[i]] >= u.at[t[j]]
             /\ ev_rt_now' = u.rt
<1>1. PICK u \in TimeUpdate(wait) :
        /\ SetClocks(u)
        /\ \E t \in FeedReverse({w \in Timers : u.at[w] < u.mn}, u.at),
              p \in FeedReverse({w \in Periodics : u.at[w] < u.rt}, u.at) : pending' = t \o p
  BY DEF PollReturns
<1> DEFINE ts == {w \in Timers : u.at[w] < u.mn}
           ps == {w \in Periodics : u.at[w] < u.rt}
<1>2. PICK t \in FeedReverse(ts, u.at), p \in FeedReverse(ps, u.at) : pending' = t \o p
  BY <1>1
<1>3. IsFiniteSet(ts) /\ IsFiniteSet(ps)
  <2>1. ts \in SUBSET Watchers /\ ps \in SUBSET Watchers
    BY DEF Inv, Typed, TypeOK, Timers, Periodics
  <2> HIDE DEF ts, ps
  <2> QED BY <2>1, EvTimerAssumption, FS_Subset
<1>4. ts \subseteq Timers /\ ps \subseteq Periodics
  OBVIOUS
<1>5. (\A w \in ts : u.at[w] < u.mn) /\ (\A w \in ps : u.at[w] < u.rt)
  OBVIOUS
<1>6. ev_rt_now' = u.rt
  BY <1>1 DEF SetClocks
<1> HIDE DEF ts, ps
<1>7. t \in Seq(ts) /\ \A i, j \in 1 .. Len(t) : i < j => u.at[t[i]] >= u.at[t[j]]
  BY <1>3, FeedRight
<1>8. p \in Seq(ps)
  BY <1>3, FeedRight
<1>9. \A i \in 1 .. Len(t) : u.at[t[i]] < u.mn
  BY <1>5, <1>7
<1>10. \A i \in 1 .. Len(p) : u.at[p[i]] < u.rt
  BY <1>5, <1>8
<1>11. t \in Seq(Timers) /\ p \in Seq(Periodics)
  BY <1>4, <1>7, <1>8
<1> QED BY <1>2, <1>6, <1>7, <1>9, <1>10, <1>11

\* The stop-watches of the timers that are made pending have run down, and stand in
\* the order of their times.
LEMMA ExpiredTimers ==
    ASSUME Inv, PollReturns
    PROVE  \E t \in Seq(Timers), p \in Seq(Periodics) :
             /\ pending' = t \o p
             /\ \A i \in 1 .. Len(t) : left[t[i]] < 0
             /\ have_monotonic => \A i, j \in 1 .. Len(t) : i < j => left[t[i]] >= left[t[j]]
<1>1. PICK u \in TimeUpdate(wait) : \E t, p :
             /\ t \in Seq(Timers) /\ p \in Seq(Periodics) /\ pending' = t \o p
             /\ \A i \in 1 .. Len(t) : u.at[t[i]] < u.mn
             /\ \A i, j \in 1 .. Len(t) : i < j => u.at[t[i]] >= u.at[t[j]]
  BY WhatExpires
<1>2. PICK t, p :
             /\ t \in Seq(Timers) /\ p \in Seq(Periodics) /\ pending' = t \o p
             /\ \A i \in 1 .. Len(t) : u.at[t[i]] < u.mn
             /\ \A i, j \in 1 .. Len(t) : i < j => u.at[t[i]] >= u.at[t[j]]
  BY <1>1
<1>3. \A w \in Timers : /\ u.at[w] >= left[w] + u.mn
                        /\ have_monotonic => u.at[w] = left[w] + u.mn
                        /\ {u.at[w], left[w], u.mn} \subseteq Int
  <2>1. Typed /\ TimersRight /\ TimersLate /\ ~suspended /\ wait \in Int
    BY DEF Inv, Typed, TypeOK, PollReturns
  <2> QED BY <2>1, UpdatedTimers
<1>4. \A i \in 1 .. Len(t) : t[i] \in Timers
  BY <1>2
<1>5. \A i \in 1 .. Len(t) : left[t[i]] < 0
  <2> SUFFICES ASSUME NEW i \in 1 .. Len(t) PROVE left[t[i]] < 0
    OBVIOUS
  <2>1. t[i] \in Timers /\ u.at[t[i]] < u.mn
    BY <1>2, <1>4
  <2>2. PICK x \in Timers : x = t[i]
    BY <2>1
  <2>3. u.at[x] < u.mn /\ u.at[x] >= left[x] + u.mn /\ u.at[x] \in Int /\ left[x] \in Int /\ u.mn \in Int
    BY <1>3, <2>1, <2>2
  <2>4. left[x] < 0
    BY <2>3
  <2> QED BY <2>2, <2>4
<1>6. ASSUME have_monotonic, NEW i \in 1 .. Len(t), NEW j \in 1 .. Len(t), i < j
      PROVE  left[t[i]] >= left[t[j]]
  <2>1. u.at[t[i]] >= u.at[t[j]]
    BY <1>2, <1>6
  <2>2. t[i] \in Timers /\ t[j] \in Timers
    BY <1>4
  <2> QED BY SMTT(30), <1>3, <1>6, <2>1, <2>2
<1> QED BY <1>2, <1>5, <1>6

\* The time of a periodic that is made pending has passed already: it has not been
\* calculated again in this step, since that would have put it off.
LEMMA ExpiredPeriodic ==
    ASSUME Inv, [Next]_vars, NEW w \in Watchers, Expires(w), ~IsTimer(w)
    PROVE  w \in active /\ at[w] < ev_rt_now' /\ {at[w], ev_rt_now'} \subseteq Int
<1>1. PollReturns
  BY OnlyPollReturns DEF Expires
<1>2. PICK u \in TimeUpdate(wait) : \E t, p :
           /\ t \in Seq(Timers) /\ p \in Seq(Periodics) /\ pending' = t \o p
           /\ \A i \in 1 .. Len(p) : u.at[p[i]] < u.rt
           /\ ev_rt_now' = u.rt
  BY <1>1, WhatExpires
<1>3. PICK t, p :
           /\ t \in Seq(Timers) /\ p \in Seq(Periodics) /\ pending' = t \o p
           /\ \A i \in 1 .. Len(p) : u.at[p[i]] < u.rt
           /\ ev_rt_now' = u.rt
  BY <1>2
<1>4. PICK i \in 1 .. Len(t) + Len(p) : (t \o p)[i] = w
  BY <1>3 DEF Expires, Range
<1>5. w \in Periodics /\ u.at[w] < u.rt
  <2>1. CASE i <= Len(t)
    <3>1. w \in Timers
      BY <1>3, <1>4, <2>1
    <3> QED BY <3>1 DEF Timers
  <2>2. CASE i > Len(t)
    <3>1. w = p[i - Len(t)] /\ i - Len(t) \in 1 .. Len(p)
      BY <1>3, <1>4, <2>2
    <3> QED BY <1>3, <3>1
  <2> QED BY <1>3, <1>4, <2>1, <2>2
<1>6. Typed /\ wait \in Int
  BY DEF Inv, Typed, TypeOK
<1>7. UpdateRight(u)
  BY <1>6, TimeUpdateRight
<1>8. w \in active
  BY <1>5 DEF Periodics
<1>9. u.rt \in Int /\ at[w] \in Int
  BY <1>6, <1>7, Kinded DEF UpdateRight
<1>10. u.at[w] = at[w]
  <2> SUFFICES ASSUME u.at[w] \in NextAts(w, u.rt) PROVE u.at[w] = at[w]
    BY <1>7 DEF UpdateRight
  <2>1. u.at[w] \in Int /\ (u.at[w] > u.rt \/ u.at[w] = at[w])
    BY <1>6, <1>9, NextAtsRight
  <2> QED BY <1>5, <1>9, <2>1
<1> QED BY <1>3, <1>5, <1>8, <1>9, <1>10

\* No timer is called before its full time has run, by whatever clock, and no periodic
\* before the real-time clock has passed its time.
THEOREM NeverEarlyHolds == Spec => NeverEarly
<1> DEFINE Full == \A w \in Watchers : Expires(w) =>
                       IF IsTimer(w) THEN left[w] < 0 ELSE at[w] < ev_rt_now'
<1>1. Inv /\ [Next]_vars => [Full]_vars
  <2> SUFFICES ASSUME Inv, [Next]_vars, NEW w \in Watchers, Expires(w), IsTimer(w)
               PROVE  left[w] < 0
    BY ExpiredPeriodic
  <2>1. PollReturns
    BY OnlyPollReturns DEF Expires
  <2>2. PICK t \in Seq(Timers), p \in Seq(Periodics) :
               pending' = t \o p /\ \A i \in 1 .. Len(t) : left[t[i]] < 0
    BY <2>1, ExpiredTimers
  <2>3. PICK i \in 1 .. Len(t) + Len(p) : (t \o p)[i] = w
    BY <2>2 DEF Expires, Range
  <2>4. CASE i <= Len(t)
    BY <2>2, <2>3, <2>4
  <2>5. CASE i > Len(t)
    <3>1. w = p[i - Len(t)] /\ i - Len(t) \in 1 .. Len(p)
      BY <2>2, <2>3, <2>5
    <3>2. w \in Periodics
      BY <2>2, <3>1
    <3> QED BY <3>2 DEF Periodics
  <2> QED BY <2>2, <2>3, <2>4, <2>5
<1> QED BY <1>1, Invariance, PTL DEF Spec, NeverEarly

\* Periodics are called before timers, and by a monotonic clock the timer that was
\* due first before the others.
THEOREM CalledInOrderHolds == Spec => CalledInOrder
<1> DEFINE InOrder == pc = "poll" /\ pc' = "run" =>
             \A i, j \in DOMAIN pending' : i < j /\ IsTimer(pending'[j]) =>
                /\ IsTimer(pending'[i])
                /\ have_monotonic => left[pending'[i]] >= left[pending'[j]]
<1>1. Inv /\ [Next]_vars => [InOrder]_vars
  <2> SUFFICES ASSUME Inv, [Next]_vars, pc = "poll", pc' = "run",
                      NEW i \in DOMAIN pending', NEW j \in DOMAIN pending', i < j, IsTimer(pending'[j])
               PROVE  /\ IsTimer(pending'[i])
                      /\ have_monotonic => left[pending'[i]] >= left[pending'[j]]
    OBVIOUS
  <2>1. PollReturns
    BY OnlyPollReturns
  <2>2. PICK t \in Seq(Timers), p \in Seq(Periodics) :
             /\ pending' = t \o p
             /\ have_monotonic => \A k, l \in 1 .. Len(t) : k < l => left[t[k]] >= left[t[l]]
    BY <2>1, ExpiredTimers
  <2>3. i \in 1 .. Len(t) + Len(p) /\ j \in 1 .. Len(t) + Len(p)
    BY <2>2
  <2>4. j <= Len(t)
    <3> SUFFICES ASSUME j > Len(t) PROVE FALSE
      BY <2>2, <2>3
    <3>1. pending'[j] = p[j - Len(t)] /\ j - Len(t) \in 1 .. Len(p)
      BY <2>2, <2>3
    <3>2. pending'[j] \in Periodics
      BY <3>1
    <3> QED BY <3>2 DEF Periodics
  <2>5. /\ i \in 1 .. Len(t) /\ j \in 1 .. Len(t)
        /\ pending'[i] = t[i] /\ pending'[j] = t[j]
    BY <2>2, <2>3, <2>4
  <2>6. t[i] \in Timers
    BY <2>5
  <2> QED BY <2>2, <2>5, <2>6 DEF Timers
<1> QED BY <1>1, Invariance, PTL DEF Spec, CalledInOrder

\* A periodic with an interval is called when a point in time of its own has passed
\* since it was called, started or rescheduled last.
THEOREM OncePerPointHolds == Spec => OncePerPoint
<1> DEFINE Passed == \A w \in Watchers : Expires(w) /\ kind[w].kind = "periodic" /\ ~Single(w) =>
             \E t \in since[w] + 1 .. ev_rt_now' - 1 : (t - kind[w].offset) % kind[w].interval = 0
<1>1. Inv /\ [Next]_vars => [Passed]_vars
  <2> SUFFICES ASSUME Inv, [Next]_vars, NEW w \in Watchers, Expires(w), Repeats(w)
               PROVE  \E t \in since[w] + 1 .. ev_rt_now' - 1 : (t - kind[w].offset) % kind[w].interval = 0
    BY DEF Repeats
  <2>1. ~IsTimer(w)
    BY DEF IsTimer, Repeats
  <2>2. w \in active /\ at[w] < ev_rt_now' /\ {at[w], ev_rt_now'} \subseteq Int
    BY <2>1, ExpiredPeriodic
  <2>3. since[w] \in Int
    BY Kinded DEF Inv
  <2>4. at[w] > since[w] /\ (at[w] - kind[w].offset) % kind[w].interval = 0
    BY <2>2 DEF Inv, PointsRight
  <2>5. at[w] \in since[w] + 1 .. ev_rt_now' - 1
    BY <2>2, <2>3, <2>4
  <2> QED BY <2>4, <2>5
<1> QED BY <1>1, Invariance, PTL DEF Spec, OncePerPoint
-----------------------------------------------------------------------------
(* Stat watchers: the inductive invariant.                                 *)

Events == [wd : Stat!Wds \cup {Stat!NoWd}, gone : BOOLEAN]
Ops    == {"add", "addLast", "del", "check", "stat"}
Calls  == {<<op, w>> : op \in Ops, w \in Stats}

\* The watches of the kernel are of different inodes.
TargetsRight(t) ==
    /\ IsFiniteSet(DOMAIN t) /\ DOMAIN t \subseteq Stat!Wds
    /\ \A d \in DOMAIN t : t[d] \in Int
    /\ \A d, e \in DOMAIN t : t[d] = t[e] => d = e

PathRight ==
    /\ fs \in FileSystems /\ changes \in 0 .. MaxChanges
    /\ dir \in {none} \cup Int
    /\ file \in {none} \cup [ino : 0 .. MaxChanges, ver : {0, 1}]
    /\ file # none => dir # none

QueuesRight ==
    /\ events \in Seq(Events) /\ batch \in Seq(Events)
    /\ batch = <<>> => visit = {}
    /\ agenda \in Seq(Calls)
    /\ overflowed \in BOOLEAN

StatsTyped ==
    /\ fs_fd \in {"new", "none", "open"}
    /\ wd \in [Stats -> Stat!Wds \cup {Stat!NoWd, Stat!GoneWd}]
    /\ attr \in [Stats -> Stat!Attrs] /\ told \in [Stats -> Stat!Attrs]
    /\ IsFiniteSet(started) /\ started \subseteq Stats /\ timers \subseteq started
    /\ fed \subseteq started /\ visit \subseteq started

\* The calls under way are those of one watcher, or of infy_fork or ev_stat_start.
Last1(w)  == <<<<"addLast", w>>>>
Check1(w) == <<<<"check", w>>>>
Check2(w) == <<<<"add", w>>, <<"check", w>>>>
Stat1(w)  == <<<<"stat", w>>>>
Stat2(w)  == <<<<"add", w>>, <<"stat", w>>>>
Stat3(w)  == <<<<"del", w>>, <<"add", w>>, <<"stat", w>>>>
AgendaRight ==
    \/ agenda = <<>>
    \/ \E w \in started : agenda \in {Check1(w), Check2(w), Stat1(w), Stat2(w), Stat3(w)}
    \/ \A k \in 1 .. Len(agenda) : agenda[k][1] = "addLast" /\ agenda[k][2] \in started

\* Without inotify there are no watches, and nothing of them is under way.
Unopened ==
    fs_fd # "open" =>
        /\ \A w \in Stats : wd[w] < 0
        /\ DOMAIN target = {} /\ batch = <<>>
        /\ agenda = <<>> \/ \E w \in started : agenda = Check1(w)

In(a, op, w)   == \E k \in 1 .. Len(a) : a[k] = <<op, w>>
Planned(op, w) == In(agenda, op, w)
Adding(w)  == Planned("add", w) \/ Planned("addLast", w)
ToLook(w)  == Planned("check", w) \/ Planned("stat", w) \/ Planned("addLast", w)

\* The events that will still be looked at for a watcher.
Coming(w) ==
    {batch[k] : k \in {j \in 1 .. Len(batch) : j > 1 \/ w \in visit}}
      \cup {events[k] : k \in 1 .. Len(events)}
Overflowing ==
    \/ overflowed
    \/ \E k \in 1 .. Len(batch) : batch[k] = Stat!Overflow
    \/ \E k \in 1 .. Len(events) : events[k] = Stat!Overflow

\* A watcher that is started has a watch or a timer or will have one, and a timer if
\* inotify does not hear of all changes.
Covered(w) ==
    /\ w \in started => w \in timers \/ wd[w] > 0 \/ Adding(w)
    /\ w \in started /\ fs # "local" => w \in timers \/ Adding(w)
    /\ wd[w] > 0 => w \in started

\* A watch that the kernel has removed was the subject of an event, unless it was
\* dropped.
GoneTold(w) ==
    wd[w] > 0 => \/ wd[w] \in DOMAIN target \/ Overflowing
                 \/ \E e \in Coming(w) : e.wd = wd[w] /\ e.gone

Reported(w) == w \in started => told[w] = attr[w] \/ w \in fed \/ Planned("stat", w)

\* A watcher is up to date and will hear of the next change, or will look again, but
\* for the races that are lost.
Heard(w) == \E e \in Coming(w) : e.wd \in {wd[w], Stat!NoWd}
Sees(w)  == wd[w] \in DOMAIN target /\ target[wd[w]] = Stat!PathInode
Looking(w) ==
    w \in started =>
        \/ w \in timers \/ w \in late \/ Heard(w) \/ ToLook(w)
        \/ Overflowing /\ Stat!Deaf(w)
        \/ Stat!Current(w) /\ Sees(w)

WatcherKept(w) == Covered(w) /\ GoneTold(w) /\ Reported(w) /\ Looking(w)

StatKept ==
    /\ PathRight /\ TargetsRight(target) /\ QueuesRight /\ StatsTyped
    /\ AgendaRight /\ Unopened
    /\ refs = Cardinality(started)
    /\ \A w \in Stats : WatcherKept(w)
-----------------------------------------------------------------------------
(* Events and watches.                                                     *)

LEMMA StatConstants ==
    /\ IsFiniteSet(Stats) /\ none \notin Int
    /\ FileSystems \subseteq {"local", "remote", "old"}
    /\ QueueMax \in Nat \ {0} /\ MaxChanges \in Nat
BY StatsAssumption DEF Stat!StatsRight, Stat!IsFiniteSet, IsFiniteSet

LEMMA OverflowRight == Stat!Overflow \in Events /\ Stat!Overflow.wd = -1
BY DEF Stat!Overflow, Events, Stat!NoWd

\* What is appended to a queue of events.
Longer(q, r) == r \in Seq(Events) /\ Len(q) <= Len(r) /\ \A k \in 1 .. Len(q) : r[k] = q[k]
HasOne(r, d, gone) ==
    \E k \in 1 .. Len(r) : r[k] = Stat!Overflow \/ (r[k].wd = d /\ (gone => r[k].gone))

LEMMA LongerAgain ==
    ASSUME NEW q \in Seq(Events), NEW r, NEW s, Longer(q, r), Longer(r, s)
    PROVE  Longer(q, s)
BY DEF Longer

LEMMA LongerHas ==
    ASSUME NEW r \in Seq(Events), NEW s, Longer(r, s), NEW d, NEW gone, HasOne(r, d, gone)
    PROVE  HasOne(s, d, gone)
<1>1. PICK k \in 1 .. Len(r) : r[k] = Stat!Overflow \/ (r[k].wd = d /\ (gone => r[k].gone))
  BY DEF HasOne
<1>2. k \in 1 .. Len(s) /\ s[k] = r[k]
  BY <1>1 DEF Longer
<1> QED BY <1>1, <1>2 DEF HasOne

LEMMA QueuedRight ==
    ASSUME NEW q \in Seq(Events), NEW d \in Stat!Wds, NEW gone \in BOOLEAN
    PROVE  Longer(q, Stat!Queued(q, d, gone)) /\ HasOne(Stat!Queued(q, d, gone), d, gone)
<1>1. PICK e : e = [wd |-> d, gone |-> gone]
  OBVIOUS
<1>2. e \in Events /\ e.wd = d /\ (gone => e.gone)
  BY <1>1 DEF Events
<1>3. PICK r : r = Stat!Queued(q, d, gone)
  OBVIOUS
<1>4. CASE q # <<>> /\ Stat!Last(q) \in {e, Stat!Overflow}
  <2>1. r = q
    BY <1>1, <1>3, <1>4 DEF Stat!Queued
  <2>2. Len(q) \in 1 .. Len(q) /\ q[Len(q)] \in {e, Stat!Overflow}
    BY <1>4 DEF Stat!Last
  <2> QED BY <1>2, <1>3, <2>1, <2>2 DEF Longer, HasOne
<1>5. CASE ~(q # <<>> /\ Stat!Last(q) \in {e, Stat!Overflow})
  <2>1. PICK x : x \in {e, Stat!Overflow} /\ r = Append(q, x)
    BY <1>1, <1>3, <1>5 DEF Stat!Queued
  <2>2. x \in Events
    BY <1>2, <2>1, OverflowRight
  <2>3. /\ r \in Seq(Events) /\ Len(r) = Len(q) + 1 /\ r[Len(r)] = x
        /\ \A k \in 1 .. Len(q) : r[k] = q[k]
    BY <2>1, <2>2
  <2>4. Longer(q, r)
    BY <2>3 DEF Longer
  <2>5. Len(r) \in 1 .. Len(r)
    BY <2>3
  <2> QED BY <1>2, <1>3, <2>1, <2>3, <2>4, <2>5 DEF HasOne
<1> QED BY <1>4, <1>5

LEMMA WatchOfInode ==
    ASSUME TargetsRight(target), NEW inode, Stat!WdsOf(inode) # {}
    PROVE  /\ Stat!WdOf(inode) \in DOMAIN target /\ target[Stat!WdOf(inode)] = inode
           /\ \A d \in DOMAIN target : target[d] = inode => d = Stat!WdOf(inode)
BY DEF TargetsRight, Stat!WdOf, Stat!WdsOf

LEMMA NoticedRight ==
    ASSUME TargetsRight(target), NEW q \in Seq(Events), NEW inode, NEW gone \in BOOLEAN
    PROVE  /\ Longer(q, Stat!Noticed(q, inode, gone))
           /\ \A d \in DOMAIN target : target[d] = inode => HasOne(Stat!Noticed(q, inode, gone), d, gone)
<1>1. CASE Stat!WdsOf(inode) = {}
  BY <1>1 DEF Stat!Noticed, Longer, Stat!WdsOf
<1>2. CASE Stat!WdsOf(inode) # {}
  <2>1. PICK d \in DOMAIN target : d = Stat!WdOf(inode)
    BY <1>2, WatchOfInode
  <2>2. d \in Stat!Wds
    BY DEF TargetsRight
  <2>3. Stat!Noticed(q, inode, gone) = Stat!Queued(q, d, gone)
    BY <1>2, <2>1 DEF Stat!Noticed
  <2>4. \A x \in DOMAIN target : target[x] = inode => x = d
    BY <1>2, <2>1, WatchOfInode
  <2> QED BY <2>2, <2>3, <2>4, QueuedRight
<1> QED BY <1>1, <1>2

LEMMA UnlinkedRight ==
    ASSUME TargetsRight(target), NEW q \in Seq(Events), NEW inode
    PROVE  /\ Longer(q, Stat!Unlinked(q, inode))
           /\ \A d \in DOMAIN target : target[d] = inode => HasOne(Stat!Unlinked(q, inode), d, TRUE)
<1>1. PICK r : r = Stat!Noticed(q, inode, FALSE)
  OBVIOUS
<1>2. Longer(q, r) /\ r \in Seq(Events)
  BY <1>1, NoticedRight DEF Longer
<1>3. Stat!Unlinked(q, inode) = Stat!Noticed(r, inode, TRUE)
  BY <1>1 DEF Stat!Unlinked
<1>4. /\ Longer(r, Stat!Noticed(r, inode, TRUE))
      /\ \A d \in DOMAIN target : target[d] = inode => HasOne(Stat!Noticed(r, inode, TRUE), d, TRUE)
  BY <1>2, NoticedRight
<1> QED BY <1>2, <1>3, <1>4, LongerAgain

LEMMA ImageFinite ==
    ASSUME NEW S, IsFiniteSet(S), NEW f, DOMAIN f = S, NEW T, T = {f[x] : x \in S}, f = [x \in S |-> f[x]]
    PROVE  IsFiniteSet(T)
<1>1. f \in Surjection(S, T)
  BY DEF Surjection
<1> QED BY <1>1, FS_Surjection

LEMMA NewWdRight ==
    ASSUME TargetsRight(target), QueuesRight, StatsTyped
    PROVE  Stat!NewWd \in Stat!Wds /\ Stat!NewWd \notin DOMAIN target /\ \A w \in Stats : Stat!NewWd # wd[w]
<1>1. IsFiniteSet(Stat!Known)
  <2>1. IsFiniteSet(Stat!Range(wd))
    <3>1. DOMAIN wd = Stats /\ wd = [x \in Stats |-> wd[x]]
      BY DEF StatsTyped
    <3>2. Stat!Range(wd) = {wd[x] : x \in Stats}
      BY <3>1 DEF Stat!Range
    <3> QED BY <3>1, <3>2, StatConstants, ImageFinite
  <2>2. ASSUME NEW q \in Seq(Events) PROVE IsFiniteSet({e.wd : e \in Stat!Range(q)})
    <3>1. PICK f : f = [k \in 1 .. Len(q) |-> q[k].wd]
      OBVIOUS
    <3>2. Len(q) \in Nat /\ DOMAIN q = 1 .. Len(q)
      OBVIOUS
    <3>3. IsFiniteSet(1 .. Len(q))
      BY <3>2, FS_Interval
    <3>4. {e.wd : e \in Stat!Range(q)} = {f[k] : k \in 1 .. Len(q)}
      BY <3>1, <3>2 DEF Stat!Range
    <3>5. DOMAIN f = 1 .. Len(q) /\ f = [k \in 1 .. Len(q) |-> f[k]]
      BY <3>1
    <3>6. PICK T : T = {e.wd : e \in Stat!Range(q)}
      OBVIOUS
    <3>7. PICK S : S = 1 .. Len(q)
      OBVIOUS
    <3>8. IsFiniteSet(S) /\ DOMAIN f = S /\ T = {f[k] : k \in S} /\ f = [k \in S |-> f[k]]
      BY <3>3, <3>4, <3>5, <3>6, <3>7
    <3>9. IsFiniteSet(T)
      BY <3>8, ImageFinite
    <3> QED BY <3>6, <3>9
  <2>3. {e.wd : e \in Stat!Range(events) \cup Stat!Range(batch)}
          = {e.wd : e \in Stat!Range(events)} \cup {e.wd : e \in Stat!Range(batch)}
    OBVIOUS
  <2>4. IsFiniteSet({e.wd : e \in Stat!Range(events)}) /\ IsFiniteSet({e.wd : e \in Stat!Range(batch)})
    BY <2>2 DEF QueuesRight
  <2>5. IsFiniteSet({e.wd : e \in Stat!Range(events) \cup Stat!Range(batch)})
    <3>1. PICK S, T : S = {e.wd : e \in Stat!Range(events)} /\ T = {e.wd : e \in Stat!Range(batch)}
      OBVIOUS
    <3>2. IsFiniteSet(S \cup T)
      BY <2>4, <3>1, FS_Union
    <3> QED BY <2>3, <3>1, <3>2
  <2>6. IsFiniteSet(DOMAIN target)
    BY DEF TargetsRight
  <2> QED BY <2>1, <2>5, <2>6, FS_Union DEF Stat!Known
<1>2. PICK n \in Nat : n = Cardinality(Stat!Known) /\ n = Stat!Cardinality(Stat!Known)
  BY <1>1, FS_CardinalityType DEF Stat!Cardinality, Stat!IsFiniteSet, Cardinality, IsFiniteSet
<1>3. \E d \in 1 .. n + 1 : d \notin Stat!Known
  <2>1. Cardinality(1 .. n + 1) = n + 1
    BY <1>2, FS_Interval
  <2>2. CASE 1 .. n + 1 \subseteq Stat!Known
    <3>1. 1 .. n + 1 \in SUBSET Stat!Known
      BY <2>2
    <3>2. Cardinality(1 .. n + 1) <= n
      BY <1>1, <1>2, <3>1, FS_Subset
    <3> QED BY <1>2, <2>1, <3>2
  <2> QED BY <2>2
<1>4. Stat!NewWd = CHOOSE d \in 1 .. n + 1 : d \notin Stat!Known
  BY <1>2 DEF Stat!NewWd
<1>5. Stat!NewWd \in 1 .. n + 1 /\ Stat!NewWd \notin Stat!Known
  BY <1>3, <1>4
<1>6. \A w \in Stats : wd[w] \in Stat!Known
  BY DEF Stat!Known, Stat!Range, StatsTyped
<1>7. DOMAIN target \subseteq Stat!Known
  BY DEF Stat!Known
<1> QED BY <1>2, <1>5, <1>6, <1>7 DEF Stat!Wds

\* inotify_add_watch: the inode of the path has a watch afterwards.
LEMMA InfyAddRight ==
    ASSUME PathRight, TargetsRight(target), QueuesRight, StatsTyped, NEW w \in Stats, Stat!InfyAdd(w)
    PROVE  /\ TargetsRight(target')
           /\ wd' = [wd EXCEPT ![w] = wd'[w]] /\ wd'[w] \in Stat!Wds \cup {-1}
           /\ \A d \in DOMAIN target : d \in DOMAIN target' /\ target'[d] = target[d]
           /\ \A v \in Stats \ {w} : wd[v] \in DOMAIN target' => wd[v] \in DOMAIN target
           /\ IF Stat!PathInode = none THEN wd'[w] = -1
              ELSE wd'[w] \in DOMAIN target' /\ target'[wd'[w]] = Stat!PathInode
           /\ timers' = IF file = none \/ fs # "local" THEN timers \cup {w} ELSE timers \ {w}
           /\ refs \in Int => refs' = refs
<1>1. PICK d : d = (IF Stat!PathInode = none THEN -1
                    ELSE IF Stat!WdsOf(Stat!PathInode) # {} THEN Stat!WdOf(Stat!PathInode) ELSE Stat!NewWd)
  OBVIOUS
<1>2. /\ wd' = [wd EXCEPT ![w] = d]
      /\ target' = [x \in (DOMAIN target \cup {d}) \ {-1} |-> IF x = d THEN Stat!PathInode ELSE target[x]]
      /\ Stat!Rearmed(w, file = none \/ fs # "local")
  BY <1>1 DEF Stat!InfyAdd, Stat!NoWd
<1>3. wd'[w] = d
  BY <1>2 DEF StatsTyped
<1>4. DOMAIN target \subseteq Stat!Wds /\ -1 \notin Stat!Wds /\ IsFiniteSet(DOMAIN target)
  BY DEF TargetsRight, Stat!Wds
<1>5. /\ timers' = IF file = none \/ fs # "local" THEN timers \cup {w} ELSE timers \ {w}
      /\ refs \in Int => refs' = refs
  BY <1>2 DEF Stat!Rearmed, Stat!Bit
<1>6. CASE Stat!PathInode = none
  <2>1. d = -1
    BY <1>1, <1>6
  <2>2. DOMAIN target' = DOMAIN target /\ \A x \in DOMAIN target : target'[x] = target[x]
    BY <1>2, <1>4, <2>1
  <2>3. TargetsRight(target')
    BY <2>2 DEF TargetsRight
  <2> QED BY <1>2, <1>3, <1>5, <1>6, <2>1, <2>2, <2>3
<1>7. CASE Stat!PathInode # none
  <2>1. Stat!PathInode \in Int
    BY <1>7 DEF Stat!PathInode, PathRight
  <2>2. d \in Stat!Wds /\ d # -1
    <3>1. CASE Stat!WdsOf(Stat!PathInode) # {}
      BY <1>1, <1>4, <1>7, <3>1, WatchOfInode
    <3>2. CASE Stat!WdsOf(Stat!PathInode) = {}
      BY <1>1, <1>4, <1>7, <3>2, NewWdRight
    <3> QED BY <3>1, <3>2
  <2>3. DOMAIN target' = DOMAIN target \cup {d} /\ target'[d] = Stat!PathInode
    BY <1>2, <1>4, <2>2
  <2>4. \A x \in DOMAIN target : target'[x] = target[x]
    <3>1. CASE Stat!WdsOf(Stat!PathInode) # {}
      <4>1. d = Stat!WdOf(Stat!PathInode)
        BY <1>1, <1>7, <3>1
      <4>2. target[d] = Stat!PathInode
        BY <3>1, <4>1, WatchOfInode
      <4> QED BY <1>2, <1>4, <4>2
    <3>2. CASE Stat!WdsOf(Stat!PathInode) = {}
      <4>1. d \notin DOMAIN target
        BY <1>1, <1>7, <3>2, NewWdRight
      <4> QED BY <1>2, <1>4, <4>1
    <3> QED BY <3>1, <3>2
  <2>5. \A x \in DOMAIN target : target[x] = Stat!PathInode => x = d
    <3> SUFFICES ASSUME NEW x \in DOMAIN target, target[x] = Stat!PathInode PROVE x = d
      OBVIOUS
    <3>1. Stat!WdsOf(Stat!PathInode) # {}
      BY DEF Stat!WdsOf
    <3>2. d = Stat!WdOf(Stat!PathInode)
      BY <1>1, <1>7, <3>1
    <3> QED BY <3>1, <3>2, WatchOfInode
  <2>6. TargetsRight(target')
    <3>1. IsFiniteSet(DOMAIN target')
      BY <1>4, <2>3, FS_AddElement
    <3>2. DOMAIN target' \subseteq Stat!Wds
      BY <1>4, <2>2, <2>3
    <3>3. \A x \in DOMAIN target' : target'[x] \in Int
      BY <2>1, <2>3, <2>4 DEF TargetsRight
    <3>4. \A x, y \in DOMAIN target' : target'[x] = target'[y] => x = y
      BY <2>3, <2>4, <2>5 DEF TargetsRight
    <3> QED BY <3>1, <3>2, <3>3, <3>4 DEF TargetsRight
  <2>7. \A v \in Stats \ {w} : wd[v] \in DOMAIN target' => wd[v] \in DOMAIN target
    <3>1. CASE Stat!WdsOf(Stat!PathInode) # {}
      BY <1>1, <1>7, <2>3, <3>1, WatchOfInode
    <3>2. CASE Stat!WdsOf(Stat!PathInode) = {}
      BY <1>1, <1>7, <2>3, <3>2, NewWdRight
    <3> QED BY <3>1, <3>2
  <2> QED BY <1>2, <1>3, <1>5, <1>7, <2>2, <2>3, <2>4, <2>6, <2>7
<1> QED BY <1>6, <1>7
-----------------------------------------------------------------------------
(* Watchers that a step is not about.                                      *)

Undisturbed(v) ==
    /\ wd'[v] = wd[v] /\ attr'[v] = attr[v] /\ told'[v] = told[v]
    /\ v \in started' <=> v \in started
    /\ v \in timers' <=> v \in timers
    /\ v \in late => v \in late'
    /\ v \in fed => v \in fed'
    /\ \A op \in Ops : Planned(op, v) => Planned(op, v)'
    /\ Coming(v) \subseteq Coming(v)'
    /\ Overflowing => Overflowing'

\* The watch of a watcher ends with an event, and does not begin again.
WatchStep(v) ==
    wd[v] > 0 =>
        /\ wd[v] \in DOMAIN target' => wd[v] \in DOMAIN target /\ target'[wd[v]] = target[wd[v]]
        /\ wd[v] \in DOMAIN target /\ wd[v] \notin DOMAIN target' =>
             \E e \in Coming(v)' : e = Stat!Overflow \/ (e.wd = wd[v] /\ e.gone)

LEMMA UndisturbedKept ==
    ASSUME NEW v \in Stats, wd[v] \in Int, WatcherKept(v), fs' = fs, Undisturbed(v), WatchStep(v),
           DOMAIN target \subseteq Stat!Wds,
           Stat!Current(v) /\ Sees(v) /\ v \in started /\ v \notin timers /\ ~ToLook(v)
             => (Stat!Current(v)' /\ Sees(v)') \/ Heard(v)'
    PROVE  WatcherKept(v)'
<1>1. /\ wd'[v] = wd[v] /\ attr'[v] = attr[v] /\ told'[v] = told[v]
      /\ v \in started' <=> v \in started
      /\ v \in timers' <=> v \in timers
      /\ v \in late => v \in late'
      /\ v \in fed => v \in fed'
      /\ Coming(v) \subseteq Coming(v)'
      /\ Overflowing => Overflowing'
  BY DEF Undisturbed
<1>2. /\ Planned("add", v) => Planned("add", v)'
      /\ Planned("addLast", v) => Planned("addLast", v)'
      /\ Planned("check", v) => Planned("check", v)'
      /\ Planned("stat", v) => Planned("stat", v)'
  BY DEF Undisturbed, Ops
<1>3. (Adding(v) => Adding(v)') /\ (ToLook(v) => ToLook(v)')
  BY <1>2 DEF Adding, ToLook
<1>4. (\E e \in Coming(v)' : e = Stat!Overflow) => Overflowing'
  BY DEF Coming, Overflowing
<1>5. Covered(v)'
  BY <1>1, <1>3 DEF WatcherKept, Covered
<1>6. GoneTold(v)'
  BY <1>1, <1>4 DEF WatcherKept, GoneTold, WatchStep
<1>7. Reported(v)'
  BY <1>1, <1>2 DEF WatcherKept, Reported
<1>8. Looking(v)'
  <2> SUFFICES ASSUME v \in started, v \notin timers, v \notin late, ~ToLook(v), ~Heard(v)'
               PROVE  (Overflowing /\ Stat!Deaf(v))' \/ (Stat!Current(v) /\ Sees(v))'
    BY <1>1, <1>3 DEF Looking
  <2>1. ~Heard(v)
    BY <1>1 DEF Heard
  <2>2. CASE Overflowing /\ Stat!Deaf(v)
    <3>1. wd[v] > 0 /\ wd[v] \notin DOMAIN target
      BY <2>2 DEF Stat!Deaf, Stat!Hashed
    <3>2. wd'[v] > 0 /\ wd'[v] \notin DOMAIN target'
      BY <1>1, <3>1 DEF WatchStep
    <3> QED BY <1>1, <2>2, <3>2 DEF Stat!Deaf, Stat!Hashed
  <2>3. CASE Stat!Current(v) /\ Sees(v)
    BY <2>3
  <2> QED BY <2>1, <2>2, <2>3 DEF WatcherKept, Looking
<1> QED BY <1>5, <1>6, <1>7, <1>8 DEF WatcherKept

\* While the path is as it was, a watcher that sees it still does, or is told that its
\* watch has gone.
LEMMA OtherKept ==
    ASSUME NEW v \in Stats, wd[v] \in Int, WatcherKept(v), Undisturbed(v), WatchStep(v),
           DOMAIN target \subseteq Stat!Wds, UNCHANGED <<fs, dir, file>>
    PROVE  WatcherKept(v)'
<1>1. ASSUME Stat!Current(v), Sees(v) PROVE (Stat!Current(v)' /\ Sees(v)') \/ Heard(v)'
  <2>1. wd'[v] = wd[v] /\ attr'[v] = attr[v] /\ Stat!PathInode' = Stat!PathInode
    BY DEF Undisturbed, Stat!PathInode
  <2>2. Stat!Current(v)'
    BY <1>1, <2>1 DEF Stat!Current, Stat!Lstat
  <2>3. wd[v] > 0
    BY <1>1 DEF Sees, Stat!Wds
  <2>4. CASE wd[v] \in DOMAIN target'
    BY <1>1, <2>1, <2>2, <2>3, <2>4 DEF Sees, WatchStep
  <2>5. CASE wd[v] \notin DOMAIN target'
    <3>1. PICK e \in Coming(v)' : e = Stat!Overflow \/ (e.wd = wd[v] /\ e.gone)
      BY <1>1, <2>3, <2>5 DEF Sees, WatchStep
    <3> QED BY <2>1, <3>1 DEF Heard, Stat!Overflow
  <2> QED BY <2>4, <2>5
<1> QED BY <1>1, UndisturbedKept

\* What is appended to the queue is still to come.
LEMMA LongerComing ==
    ASSUME QueuesRight, Longer(events, events'), UNCHANGED batch,
           NEW v, v \in visit => v \in visit'
    PROVE  /\ Coming(v) \subseteq Coming(v)'
           /\ \A d, gone : HasOne(events', d, gone) =>
                \E e \in Coming(v)' : e = Stat!Overflow \/ (e.wd = d /\ (gone => e.gone))
<1>1. Len(events) \in Nat /\ Len(events') \in Nat
  BY DEF QueuesRight, Longer
<1>2. \A k \in 1 .. Len(events) : k \in 1 .. Len(events') /\ events'[k] = events[k]
  BY <1>1 DEF Longer
<1> QED BY <1>2 DEF Coming, HasOne

LEMMA LongerOverflows ==
    ASSUME QueuesRight, Longer(events, events'), UNCHANGED <<batch, overflowed>>, Overflowing
    PROVE  Overflowing'
<1>1. Len(events) \in Nat /\ Len(events') \in Nat
  BY DEF QueuesRight, Longer
<1>2. \A k \in 1 .. Len(events) : k \in 1 .. Len(events') /\ events'[k] = events[k]
  BY <1>1 DEF Longer
<1> QED BY <1>2 DEF Overflowing

LEMMA Unqueued == ASSUME QueuesRight, UNCHANGED events PROVE Longer(events, events')
BY DEF QueuesRight, Longer
-----------------------------------------------------------------------------
(* The other processes.                                                    *)

\* Whoever watches the inode of the path hears of a change of it.
LEMMA WorldKept ==
    ASSUME StatKept, UNCHANGED <<fs, fs_fd, batch, visit, agenda, started, timers, wd, attr, fed, refs, told,
                                 late, overflowed>>,
           changes' \in 0 .. MaxChanges, PathRight',
           Longer(events, events'), TargetsRight(target'),
           \A d \in DOMAIN target' : d \in DOMAIN target /\ target'[d] = target[d],
           \A d \in DOMAIN target \ DOMAIN target' : HasOne(events', d, TRUE),
           fs = "local" => \A d \in DOMAIN target : target[d] = Stat!PathInode => HasOne(events', d, FALSE)
    PROVE  StatKept'
<1>1. QueuesRight' /\ StatsTyped' /\ AgendaRight' /\ refs' = Cardinality(started')
  BY DEF StatKept, QueuesRight, StatsTyped, AgendaRight, Longer
<1>2. Unopened'
  BY DEF StatKept, Unopened
<1>3. ASSUME NEW v \in Stats PROVE WatcherKept(v)'
  <2>1. wd[v] \in Int /\ DOMAIN target \subseteq Stat!Wds /\ WatcherKept(v) /\ QueuesRight
    BY DEF StatKept, StatsTyped, TargetsRight, Stat!Wds, Stat!NoWd, Stat!GoneWd
  <2>2. /\ Coming(v) \subseteq Coming(v)'
        /\ \A d, gone : HasOne(events', d, gone) =>
             \E e \in Coming(v)' : e = Stat!Overflow \/ (e.wd = d /\ (gone => e.gone))
    BY <2>1, LongerComing
  <2>3. Overflowing => Overflowing'
    BY <2>1, LongerOverflows
  <2>4. Undisturbed(v)
    BY <2>2, <2>3 DEF Undisturbed, Planned
  <2>5. WatchStep(v)
    BY <2>2 DEF WatchStep
  <2>6. ASSUME Stat!Current(v), Sees(v), v \in started, v \notin timers, ~ToLook(v) PROVE Heard(v)'
    <3>1. ~Planned("addLast", v) /\ ~Planned("check", v) /\ ~Planned("stat", v)
      BY <2>6 DEF ToLook
    <3>2. ~Planned("add", v)
      <4> SUFFICES ASSUME NEW k \in 1 .. Len(agenda), agenda[k] = <<"add", v>> PROVE FALSE
        BY DEF Planned, In
      <4>1. PICK w \in started : agenda \in {Check1(w), Check2(w), Stat1(w), Stat2(w), Stat3(w)}
        <5>1. agenda[k][1] = "add"
          OBVIOUS
        <5>2. agenda # <<>>
          OBVIOUS
        <5> QED BY <5>1, <5>2 DEF StatKept, AgendaRight
      <4>2. CASE agenda \in {Check1(w), Stat1(w)}
        BY <4>2 DEF Check1, Stat1
      <4>3. CASE agenda = Check2(w)
        <5>1. 2 \in 1 .. Len(agenda) /\ agenda[2] = <<"check", w>> /\ w = v
          BY <4>3 DEF Check2
        <5> QED BY <3>1, <5>1 DEF Planned, In
      <4>4. CASE agenda = Stat2(w)
        <5>1. 2 \in 1 .. Len(agenda) /\ agenda[2] = <<"stat", w>> /\ w = v
          BY <4>4 DEF Stat2
        <5> QED BY <3>1, <5>1 DEF Planned, In
      <4>5. CASE agenda = Stat3(w)
        <5>1. 3 \in 1 .. Len(agenda) /\ agenda[3] = <<"stat", w>> /\ w = v
          BY <4>5 DEF Stat3
        <5> QED BY <3>1, <5>1 DEF Planned, In
      <4> QED BY <4>1, <4>2, <4>3, <4>4, <4>5
    <3>3. fs = "local"
      BY <2>1, <2>6, <3>1, <3>2 DEF WatcherKept, Covered, Adding
    <3>4. HasOne(events', wd[v], FALSE)
      BY <2>6, <3>3 DEF Sees
    <3>5. PICK e \in Coming(v)' : e = Stat!Overflow \/ e.wd = wd[v]
      BY <2>2, <3>4
    <3> QED BY <3>5 DEF Heard, Stat!Overflow
  <2> QED BY <2>1, <2>4, <2>5, <2>6, UndisturbedKept
<1> QED BY <1>1, <1>2, <1>3 DEF StatKept

LEMMA ModifyKept == ASSUME StatKept, Stat!Modify PROVE StatKept'
<1>1. PathRight /\ TargetsRight(target) /\ QueuesRight
  BY DEF StatKept
<1>2. /\ file # none /\ changes' = changes + 1 /\ changes < MaxChanges
      /\ dir' = dir /\ file' = [file EXCEPT !.ver = 1 - @] /\ target' = target
      /\ UNCHANGED <<fs, fs_fd, batch, visit, agenda, started, timers, wd, attr, fed, refs, told, late, overflowed>>
  BY DEF Stat!Modify, Stat!Changed, Stat!Unseen, Stat!loop, Stat!state, Stat!history
<1>3. PathRight'
  BY <1>1, <1>2, StatConstants DEF PathRight
<1>4. Stat!PathInode = file.ino
  BY <1>2 DEF Stat!PathInode
<1>5. Longer(events, events') /\ (fs = "local" => \A d \in DOMAIN target : target[d] = Stat!PathInode => HasOne(events', d, FALSE))
  <2>1. CASE Stat!Unseen
    BY <1>1, <2>1, Unqueued DEF Stat!Unseen
  <2>2. CASE events' = Stat!Noticed(events, file.ino, FALSE)
    BY <1>1, <1>4, <2>2, NoticedRight DEF QueuesRight
  <2> QED BY <2>1, <2>2 DEF Stat!Modify
<1> QED BY <1>1, <1>2, <1>3, <1>5, WorldKept DEF PathRight

LEMMA CreateKept == ASSUME StatKept, Stat!Create PROVE StatKept'
<1>1. PathRight /\ TargetsRight(target) /\ QueuesRight
  BY DEF StatKept
<1>2. /\ dir # none /\ file = none /\ changes' = changes + 1 /\ changes < MaxChanges
      /\ dir' = dir /\ file' = [ino |-> changes + 1, ver |-> 0] /\ target' = target
      /\ UNCHANGED <<fs, fs_fd, batch, visit, agenda, started, timers, wd, attr, fed, refs, told, late, overflowed>>
  BY DEF Stat!Create, Stat!Changed, Stat!Now, Stat!Unseen, Stat!loop, Stat!state, Stat!history
<1>3. PathRight'
  BY <1>1, <1>2, StatConstants DEF PathRight
<1>4. Stat!PathInode = dir
  BY <1>2 DEF Stat!PathInode
<1>5. Longer(events, events') /\ (fs = "local" => \A d \in DOMAIN target : target[d] = Stat!PathInode => HasOne(events', d, FALSE))
  <2>1. CASE Stat!Unseen
    BY <1>1, <2>1, Unqueued DEF Stat!Unseen
  <2>2. CASE events' = Stat!Noticed(events, dir, FALSE)
    BY <1>1, <1>4, <2>2, NoticedRight DEF QueuesRight
  <2> QED BY <2>1, <2>2 DEF Stat!Create
<1> QED BY <1>1, <1>2, <1>3, <1>5, WorldKept DEF PathRight

LEMMA TargetsFewer ==
    ASSUME TargetsRight(target), NEW D, D \subseteq DOMAIN target, NEW t, t = [d \in D |-> target[d]]
    PROVE  TargetsRight(t)
<1>1. D \in SUBSET DOMAIN target
  OBVIOUS
<1>2. IsFiniteSet(D)
  BY <1>1, FS_Subset DEF TargetsRight
<1> QED BY <1>2 DEF TargetsRight

\* The last watch of an inode goes, or nobody was told.
LEMMA GoneKept ==
    ASSUME TargetsRight(target), NEW inode,
           target' = target \/ target' = Stat!Unwatched(inode),
           \A d \in DOMAIN target : target' # target /\ target[d] = inode => HasOne(events', d, TRUE)
    PROVE  /\ TargetsRight(target')
           /\ \A d \in DOMAIN target' : d \in DOMAIN target /\ target'[d] = target[d]
           /\ \A d \in DOMAIN target \ DOMAIN target' : HasOne(events', d, TRUE)
<1>1. CASE target' = target
  BY <1>1
<1>2. CASE target' # target
  <2>1. PICK D : D = DOMAIN target \ Stat!WdsOf(inode)
    OBVIOUS
  <2>2. target' = [d \in D |-> target[d]]
    BY <1>2, <2>1 DEF Stat!Unwatched
  <2>3. TargetsRight(target')
    BY <2>1, <2>2, TargetsFewer
  <2> QED BY <1>2, <2>1, <2>2, <2>3 DEF Stat!WdsOf
<1> QED BY <1>1, <1>2

LEMMA HasAny == \A r, d : HasOne(r, d, TRUE) => HasOne(r, d, FALSE)
BY DEF HasOne

LEMMA RemoveKept == ASSUME StatKept, Stat!Delete \/ Stat!Replace PROVE StatKept'
<1>1. PathRight /\ TargetsRight(target) /\ QueuesRight
  BY DEF StatKept
<1>2. /\ file # none /\ changes' = changes + 1 /\ changes < MaxChanges
      /\ dir' = dir /\ file' \in {none, [ino |-> changes + 1, ver |-> 0]}
      /\ UNCHANGED <<fs, fs_fd, batch, visit, agenda, started, timers, wd, attr, fed, refs, told, late, overflowed>>
  BY DEF Stat!Delete, Stat!Replace, Stat!Changed, Stat!Now, Stat!loop, Stat!state, Stat!history
<1>3. PathRight'
  BY <1>1, <1>2, StatConstants DEF PathRight
<1>4. Stat!PathInode = file.ino
  BY <1>2 DEF Stat!PathInode
<1>5. /\ Longer(events, events')
      /\ target' = target \/ target' = Stat!Unwatched(file.ino)
      /\ fs = "local" \/ target' # target => \A d \in DOMAIN target : target[d] = file.ino => HasOne(events', d, TRUE)
  <2>1. CASE Stat!Unseen
    BY <1>1, <2>1, Unqueued DEF Stat!Unseen
  <2>2. CASE Stat!Seen
    <3>1. PICK r : r = Stat!Unlinked(events, file.ino)
      OBVIOUS
    <3>2. Longer(events, r) /\ \A d \in DOMAIN target : target[d] = file.ino => HasOne(r, d, TRUE)
      BY <1>1, <3>1, UnlinkedRight DEF QueuesRight
    <3>3. r \in Seq(Events) /\ events \in Seq(Events)
      BY <1>1, <3>2 DEF Longer, QueuesRight
    <3>4. events' = r \/ events' = Stat!Noticed(r, dir, FALSE)
      BY <2>2, <3>1 DEF Stat!Delete, Stat!Replace, Stat!Unseen, Stat!Seen
    <3>5. Longer(r, events')
      <4>1. Longer(r, r)
        BY <3>3 DEF Longer
      <4>2. Longer(r, Stat!Noticed(r, dir, FALSE))
        BY <1>1, <3>3, NoticedRight
      <4> QED BY <3>4, <4>1, <4>2
    <3>6. Longer(events, events') /\ \A d \in DOMAIN target : target[d] = file.ino => HasOne(events', d, TRUE)
      BY <3>2, <3>3, <3>5, LongerAgain, LongerHas
    <3>7. target' = Stat!Unwatched(file.ino)
      BY <2>2 DEF Stat!Delete, Stat!Replace, Stat!Unseen, Stat!Seen
    <3> QED BY <3>6, <3>7
  <2> QED BY <2>1, <2>2 DEF Stat!Delete, Stat!Replace
<1>6. /\ TargetsRight(target')
      /\ \A d \in DOMAIN target' : d \in DOMAIN target /\ target'[d] = target[d]
      /\ \A d \in DOMAIN target \ DOMAIN target' : HasOne(events', d, TRUE)
  BY <1>1, <1>5, GoneKept
<1>7. fs = "local" => \A d \in DOMAIN target : target[d] = Stat!PathInode => HasOne(events', d, FALSE)
  BY <1>4, <1>5, HasAny
<1> QED BY <1>2, <1>3, <1>5, <1>6, <1>7, WorldKept DEF PathRight

LEMMA MoveAwayKept == ASSUME StatKept, Stat!MoveAway PROVE StatKept'
<1>1. PathRight /\ TargetsRight(target) /\ QueuesRight
  BY DEF StatKept
<1>2. /\ file # none /\ changes' = changes + 1 /\ changes < MaxChanges
      /\ dir' = dir /\ file' = none /\ target' = target
      /\ UNCHANGED <<fs, fs_fd, batch, visit, agenda, started, timers, wd, attr, fed, refs, told, late, overflowed>>
  BY DEF Stat!MoveAway, Stat!Changed, Stat!Unseen, Stat!loop, Stat!state, Stat!history
<1>3. PathRight'
  BY <1>1, <1>2, StatConstants DEF PathRight
<1>4. Stat!PathInode = file.ino
  BY <1>2 DEF Stat!PathInode
<1>5. Longer(events, events') /\ (fs = "local" => \A d \in DOMAIN target : target[d] = Stat!PathInode => HasOne(events', d, FALSE))
  <2>1. CASE Stat!Unseen
    BY <1>1, <2>1, Unqueued DEF Stat!Unseen
  <2>2. CASE events' = Stat!Noticed(events, file.ino, FALSE)
    BY <1>1, <1>4, <2>2, NoticedRight DEF QueuesRight
  <2> QED BY <2>1, <2>2 DEF Stat!MoveAway
<1> QED BY <1>1, <1>2, <1>3, <1>5, WorldKept DEF PathRight

LEMMA DirectoryKept == ASSUME StatKept, Stat!Mkdir \/ Stat!Rmdir PROVE StatKept'
<1>1. PathRight /\ TargetsRight(target) /\ QueuesRight
  BY DEF StatKept
<1>2. /\ file = none /\ changes' = changes + 1 /\ changes < MaxChanges
      /\ dir' \in {none, changes + 1} /\ file' = none
      /\ UNCHANGED <<fs, fs_fd, batch, visit, agenda, started, timers, wd, attr, fed, refs, told, late, overflowed>>
  BY <1>1 DEF Stat!Mkdir, Stat!Rmdir, Stat!Changed, Stat!Now, Stat!loop, Stat!state, Stat!history, PathRight
<1>3. PathRight'
  BY <1>1, <1>2, StatConstants DEF PathRight
<1>4. Stat!PathInode = dir
  BY <1>2 DEF Stat!PathInode
<1>5. /\ Longer(events, events')
      /\ target' = target \/ target' = Stat!Unwatched(dir)
      /\ fs = "local" \/ target' # target => \A d \in DOMAIN target : target[d] = dir => HasOne(events', d, TRUE)
  <2>1. CASE Stat!Mkdir
    <3>1. UNCHANGED <<events, target>> /\ dir = none
      BY <2>1 DEF Stat!Mkdir
    <3>2. \A d \in DOMAIN target : target[d] # none
      BY <1>1, StatConstants DEF TargetsRight
    <3> QED BY <1>1, <3>1, <3>2, Unqueued
  <2>2. CASE Stat!Rmdir /\ Stat!Unseen
    BY <1>1, <2>2, Unqueued DEF Stat!Unseen
  <2>3. CASE events' = Stat!Noticed(events, dir, TRUE) /\ target' = Stat!Unwatched(dir)
    BY <1>1, <2>3, NoticedRight DEF QueuesRight
  <2> QED BY <2>1, <2>2, <2>3 DEF Stat!Rmdir
<1>6. /\ TargetsRight(target')
      /\ \A d \in DOMAIN target' : d \in DOMAIN target /\ target'[d] = target[d]
      /\ \A d \in DOMAIN target \ DOMAIN target' : HasOne(events', d, TRUE)
  BY <1>1, <1>5, GoneKept
<1>7. fs = "local" => \A d \in DOMAIN target : target[d] = Stat!PathInode => HasOne(events', d, FALSE)
  BY <1>4, <1>5, HasAny
<1> QED BY <1>2, <1>3, <1>5, <1>6, <1>7, WorldKept DEF PathRight
-----------------------------------------------------------------------------
(* Steps of the loop that are about one watcher.                           *)

LEMMA InRight ==
    \A w, v, op :
      /\ ~In(<<>>, op, v)
      /\ In(Check1(w), op, v) <=> v = w /\ op = "check"
      /\ In(Check2(w), op, v) <=> v = w /\ op \in {"add", "check"}
      /\ In(Stat1(w), op, v)  <=> v = w /\ op = "stat"
      /\ In(Stat2(w), op, v)  <=> v = w /\ op \in {"add", "stat"}
      /\ In(Stat3(w), op, v)  <=> v = w /\ op \in {"del", "add", "stat"}
      /\ In(Last1(w), op, v) <=> v = w /\ op = "addLast"
<1> SUFFICES ASSUME NEW w, NEW v, NEW op
             PROVE  /\ ~In(<<>>, op, v)
                    /\ In(Check1(w), op, v) <=> v = w /\ op = "check"
                    /\ In(Check2(w), op, v) <=> v = w /\ op \in {"add", "check"}
                    /\ In(Stat1(w), op, v)  <=> v = w /\ op = "stat"
                    /\ In(Stat2(w), op, v)  <=> v = w /\ op \in {"add", "stat"}
                    /\ In(Stat3(w), op, v)  <=> v = w /\ op \in {"del", "add", "stat"}
                    /\ In(Last1(w), op, v) <=> v = w /\ op = "addLast"
  OBVIOUS
<1>1. ~In(<<>>, op, v)
  BY DEF In
<1>2. In(Check1(w), op, v) <=> v = w /\ op = "check"
  BY DEF In, Check1
<1>3. In(Stat1(w), op, v)  <=> v = w /\ op = "stat"
  BY DEF In, Stat1
<1>4. In(Last1(w), op, v) <=> v = w /\ op = "addLast"
  <2>1. In(Last1(w), op, v) <=> Last1(w)[1] = <<op, v>>
    BY DEF In, Last1
  <2>2. Last1(w)[1] = <<"addLast", w>>
    BY DEF Last1
  <2> QED BY <2>1, <2>2
<1>5. In(Check2(w), op, v) <=> v = w /\ op \in {"add", "check"}
  <2>1. In(Check2(w), op, v) <=> Check2(w)[1] = <<op, v>> \/ Check2(w)[2] = <<op, v>>
    BY DEF In, Check2
  <2> QED BY <2>1 DEF Check2
<1>6. In(Stat2(w), op, v)  <=> v = w /\ op \in {"add", "stat"}
  <2>1. In(Stat2(w), op, v) <=> Stat2(w)[1] = <<op, v>> \/ Stat2(w)[2] = <<op, v>>
    BY DEF In, Stat2
  <2> QED BY <2>1 DEF Stat2
<1>7. In(Stat3(w), op, v)  <=> v = w /\ op \in {"del", "add", "stat"}
  <2>1. In(Stat3(w), op, v) <=> Stat3(w)[1] = <<op, v>> \/ Stat3(w)[2] = <<op, v>> \/ Stat3(w)[3] = <<op, v>>
    BY DEF In, Stat3
  <2> QED BY <2>1 DEF Stat3
<1> QED BY <1>1, <1>2, <1>3, <1>4, <1>5, <1>6, <1>7

LEMMA SmallSeqs ==
    \A S : /\ <<>> \in Seq(S)
          /\ (\A x \in S : <<x>> \in Seq(S) /\ Tail(<<x>>) = <<>>)
          /\ (\A x, y \in S : <<x, y>> \in Seq(S) /\ Tail(<<x, y>>) = <<y>>)
          /\ (\A x, y, z \in S : <<x, y, z>> \in Seq(S) /\ Tail(<<x, y, z>>) = <<y, z>>)
<1> SUFFICES ASSUME NEW S
             PROVE  /\ <<>> \in Seq(S)
                    /\ (\A x \in S : <<x>> \in Seq(S) /\ Tail(<<x>>) = <<>>)
                    /\ (\A x, y \in S : <<x, y>> \in Seq(S) /\ Tail(<<x, y>>) = <<y>>)
                    /\ (\A x, y, z \in S : <<x, y, z>> \in Seq(S) /\ Tail(<<x, y, z>>) = <<y, z>>)
  OBVIOUS
<1>1. <<>> \in Seq(S)
  OBVIOUS
<1>2. ASSUME NEW x \in S PROVE <<x>> \in Seq(S) /\ Tail(<<x>>) = <<>>
  OBVIOUS
<1>3. ASSUME NEW x \in S, NEW y \in S PROVE <<x, y>> \in Seq(S) /\ Tail(<<x, y>>) = <<y>>
  OBVIOUS
<1>4. ASSUME NEW x \in S, NEW y \in S, NEW z \in S
      PROVE  <<x, y, z>> \in Seq(S) /\ Tail(<<x, y, z>>) = <<y, z>>
  <2>1. <<x, y, z>> \in Seq(S)
    OBVIOUS
  <2>2. Tail(<<x, y, z>>) = <<y, z>>
    OBVIOUS
  <2> QED BY <2>1, <2>2
<1> QED BY <1>1, <1>2, <1>3, <1>4

LEMMA ShapesRight ==
    \A w \in Stats :
      /\ <<>> \in Seq(Calls) /\ Last1(w) \in Seq(Calls)
      /\ Check1(w) \in Seq(Calls) /\ Check2(w) \in Seq(Calls)
      /\ Stat1(w) \in Seq(Calls) /\ Stat2(w) \in Seq(Calls) /\ Stat3(w) \in Seq(Calls)
      /\ Tail(Check1(w)) = <<>> /\ Tail(Stat1(w)) = <<>>
      /\ Tail(Check2(w)) = Check1(w) /\ Tail(Stat2(w)) = Stat1(w) /\ Tail(Stat3(w)) = Stat2(w)
<1> SUFFICES ASSUME NEW w \in Stats
             PROVE  /\ <<>> \in Seq(Calls) /\ Last1(w) \in Seq(Calls)
                    /\ Check1(w) \in Seq(Calls) /\ Check2(w) \in Seq(Calls)
                    /\ Stat1(w) \in Seq(Calls) /\ Stat2(w) \in Seq(Calls)
                    /\ Stat3(w) \in Seq(Calls)
                    /\ Tail(Check1(w)) = <<>> /\ Tail(Stat1(w)) = <<>>
                    /\ Tail(Check2(w)) = Check1(w) /\ Tail(Stat2(w)) = Stat1(w) /\ Tail(Stat3(w)) = Stat2(w)
  OBVIOUS
<1>1. PICK a, b, c, d, e : /\ a = <<"add", w>> /\ b = <<"addLast", w>> /\ c = <<"check", w>>
                           /\ d = <<"del", w>> /\ e = <<"stat", w>>
  OBVIOUS
<1>6. \A op \in Ops : <<op, w>> \in Calls
  BY DEF Calls
<1>7. a \in Calls /\ b \in Calls /\ c \in Calls /\ d \in Calls /\ e \in Calls
  BY <1>1, <1>6 DEF Ops
<1>2. Check1(w) = <<c>> /\ Check2(w) = <<a, c>> /\ Last1(w) = <<b>>
  BY <1>1 DEF Check1, Check2, Last1
<1>3. Stat1(w) = <<e>> /\ Stat2(w) = <<a, e>> /\ Stat3(w) = <<d, a, e>>
  BY <1>1 DEF Stat1, Stat2, Stat3
<1> QED BY <1>2, <1>3, <1>7, SmallSeqs

LEMMA HeadsRight ==
    \A w :
      /\ Head(Check1(w)) = <<"check", w>> /\ Head(Check2(w)) = <<"add", w>>
      /\ Head(Stat1(w)) = <<"stat", w>> /\ Head(Stat2(w)) = <<"add", w>> /\ Head(Stat3(w)) = <<"del", w>>
BY DEF Check1, Check2, Stat1, Stat2, Stat3

\* What is under way when a call is made.
LEMMA StatCallRight ==
    ASSUME StatKept, NEW op \in Ops, NEW w \in Stats, Stat!Call(op, w)
    PROVE  /\ w \in started
           /\ op = "check" => agenda = Check1(w)
           /\ op = "stat" => agenda = Stat1(w)
           /\ op = "add" => agenda \in {Check2(w), Stat2(w)}
           /\ op = "del" => agenda = Stat3(w)
           /\ op = "addLast" => \A k \in 1 .. Len(agenda) : agenda[k][1] = "addLast" /\ agenda[k][2] \in started
           /\ op # "check" => fs_fd = "open"
<1>1. agenda # <<>> /\ Head(agenda) = <<op, w>>
  BY DEF Stat!Call
<1>2. CASE \E v \in started : agenda \in {Check1(v), Check2(v), Stat1(v), Stat2(v), Stat3(v)}
  <2>1. PICK v \in started : agenda \in {Check1(v), Check2(v), Stat1(v), Stat2(v), Stat3(v)}
    BY <1>2
  <2>2. v = w /\ op \in {"check", "add", "stat", "del"}
    BY <1>1, <2>1, HeadsRight
  <2>3. /\ op = "check" => agenda = Check1(w)
        /\ op = "stat" => agenda = Stat1(w)
        /\ op = "add" => agenda \in {Check2(w), Stat2(w)}
        /\ op = "del" => agenda = Stat3(w)
    BY <1>1, <2>1, <2>2, HeadsRight
  <2>4. op # "check" => fs_fd = "open"
    BY <1>1, HeadsRight DEF StatKept, Unopened
  <2> QED BY <2>1, <2>2, <2>3, <2>4
<1>3. CASE \A k \in 1 .. Len(agenda) : agenda[k][1] = "addLast" /\ agenda[k][2] \in started
  <2>1. agenda \in Seq(Calls)
    BY DEF StatKept, QueuesRight
  <2>2. 1 \in 1 .. Len(agenda) /\ agenda[1] = <<op, w>>
    BY <1>1, <2>1
  <2>3. op = "addLast" /\ w \in started
    <3>1. agenda[1][1] = op /\ agenda[1][2] = w
      BY <2>2
    <3> QED BY <1>3, <2>2, <3>1
  <2>4. fs_fd = "open"
    <3>1. ASSUME NEW v, agenda = Check1(v) PROVE FALSE
      <4>1. <<op, w>> = <<"check", v>>
        BY <1>1, <3>1, HeadsRight
      <4> QED BY <2>3, <4>1
    <3> QED BY <1>1, <3>1 DEF StatKept, Unopened
  <2> QED BY <1>3, <2>3, <2>4
<1> QED BY <1>1, <1>2, <1>3 DEF StatKept, AgendaRight

LEMMA OneStep ==
    ASSUME StatKept, NEW w \in Stats, UNCHANGED <<fs, dir, file, changes>>,
           TargetsRight(target'), QueuesRight', StatsTyped', AgendaRight', Unopened',
           refs' = Cardinality(started'),
           \A v \in Stats \ {w} : Undisturbed(v) /\ WatchStep(v), WatcherKept(w)'
    PROVE  StatKept'
<1>1. PathRight'
  BY DEF StatKept, PathRight
<1>2. ASSUME NEW v \in Stats \ {w} PROVE WatcherKept(v)'
  <2>1. wd[v] \in Int /\ DOMAIN target \subseteq Stat!Wds /\ WatcherKept(v)
    BY DEF StatKept, StatsTyped, TargetsRight, Stat!Wds, Stat!NoWd, Stat!GoneWd
  <2> QED BY <2>1, OtherKept
<1> QED BY <1>1, <1>2 DEF StatKept

\* The events that come stay the same.
LEMMA SameQueues ==
    ASSUME UNCHANGED <<events, batch>>
    PROVE  /\ \A v : (v \in visit => v \in visit') => Coming(v) \subseteq Coming(v)'
           /\ UNCHANGED overflowed => (Overflowing => Overflowing')
BY DEF Coming, Overflowing

\* infy_add: the watcher has a watch of the path or a timer.
LEMMA AddedRight ==
    ASSUME StatKept, NEW w \in Stats, w \in started, Stat!InfyAdd(w),
           UNCHANGED <<fs, dir, file, fs_fd, started, attr, fed, told, visit>>
    PROVE  /\ TargetsRight(target') /\ StatsTyped' /\ refs' = Cardinality(started')
           /\ \A v \in Stats \ {w} : /\ wd'[v] = wd[v] /\ (v \in timers' <=> v \in timers)
                                     /\ WatchStep(v)
           /\ Covered(w)' /\ GoneTold(w)' /\ (w \in timers' \/ Sees(w)')
<1>1. /\ PathRight /\ TargetsRight(target) /\ QueuesRight /\ StatsTyped
      /\ refs = Cardinality(started) /\ refs \in Int /\ WatcherKept(w)
  BY FS_CardinalityType DEF StatKept, StatsTyped
<1>5. /\ TargetsRight(target')
      /\ wd' = [wd EXCEPT ![w] = wd'[w]] /\ wd'[w] \in Stat!Wds \cup {-1}
      /\ \A d \in DOMAIN target : d \in DOMAIN target' /\ target'[d] = target[d]
      /\ \A v \in Stats \ {w} : wd[v] \in DOMAIN target' => wd[v] \in DOMAIN target
      /\ IF Stat!PathInode = none THEN wd'[w] = -1
         ELSE wd'[w] \in DOMAIN target' /\ target'[wd'[w]] = Stat!PathInode
      /\ timers' = IF file = none \/ fs # "local" THEN timers \cup {w} ELSE timers \ {w}
      /\ refs' = refs
  BY <1>1, InfyAddRight
<1>7. StatsTyped'
  <2>1. wd' \in [Stats -> Stat!Wds \cup {Stat!NoWd, Stat!GoneWd}]
    BY <1>1, <1>5 DEF StatsTyped, Stat!NoWd
  <2>2. fs_fd' \in {"new", "none", "open"}
    BY <1>1 DEF StatsTyped
  <2> QED BY <1>1, <1>5, <2>1, <2>2 DEF StatsTyped
<1>9. ASSUME NEW v \in Stats \ {w} PROVE wd'[v] = wd[v] /\ (v \in timers' <=> v \in timers) /\ WatchStep(v)
  <2>1. wd'[v] = wd[v]
    BY <1>1, <1>5 DEF StatsTyped
  <2>2. v \in timers' <=> v \in timers
    BY <1>5
  <2> QED BY <1>5, <2>1, <2>2 DEF WatchStep
<1>10. Stat!PathInode # none \/ w \in timers'
  BY <1>1, <1>5, StatConstants DEF Stat!PathInode, PathRight
<1>11. wd'[w] > 0 => wd'[w] \in DOMAIN target'
  BY <1>5
<1>12. wd'[w] \in DOMAIN target' => wd'[w] > 0
  BY <1>5 DEF TargetsRight, Stat!Wds
<1>13. Covered(w)'
  <2>1. fs # "local" => w \in timers'
    BY <1>5
  <2>2. w \in timers' \/ wd'[w] > 0
    BY <1>5, <1>10, <1>12
  <2> QED BY <2>1, <2>2 DEF Covered
<1>14. GoneTold(w)'
  BY <1>11 DEF GoneTold
<1>15. w \in timers' \/ Sees(w)'
  <2>1. Stat!PathInode' = Stat!PathInode
    BY DEF Stat!PathInode
  <2> QED BY <1>5, <1>10, <2>1 DEF Sees
<1> QED BY <1>1, <1>5, <1>7, <1>9, <1>13, <1>14, <1>15

LEMMA AddKept == ASSUME StatKept, NEW w \in Stats, Stat!Add(w) PROVE StatKept'
<1>1. QueuesRight /\ WatcherKept(w)
  BY DEF StatKept
<1>2. /\ Stat!Call("add", w) /\ Stat!InfyAdd(w) /\ agenda' = Tail(agenda) /\ late' = late \ {w}
      /\ UNCHANGED <<fs, dir, file, changes, events, fs_fd, batch, visit, started, attr, fed, told, overflowed>>
  BY DEF Stat!Add, Stat!world
<1>3. w \in started /\ agenda \in {Check2(w), Stat2(w)} /\ fs_fd = "open"
  BY <1>2, StatCallRight DEF Ops
<1>4. agenda' = IF agenda = Check2(w) THEN Check1(w) ELSE Stat1(w)
  <2>1. Check2(w)[2] # Stat2(w)[2]
    BY DEF Check2, Stat2
  <2> QED BY <1>2, <1>3, <2>1, ShapesRight
<1>5. /\ TargetsRight(target') /\ StatsTyped' /\ refs' = Cardinality(started')
      /\ \A v \in Stats \ {w} : /\ wd'[v] = wd[v] /\ (v \in timers' <=> v \in timers)
                                /\ WatchStep(v)
      /\ Covered(w)' /\ GoneTold(w)'
  BY <1>2, <1>3, AddedRight
<1>6. QueuesRight'
  BY <1>1, <1>2, <1>4, ShapesRight DEF QueuesRight
<1>7. AgendaRight' /\ Unopened'
  BY <1>2, <1>3, <1>4 DEF AgendaRight, Unopened
<1>8. ASSUME NEW v \in Stats \ {w} PROVE Undisturbed(v) /\ WatchStep(v)
  <2>1. \A op : ~Planned(op, v)
    <3> SUFFICES ASSUME NEW op, Planned(op, v) PROVE FALSE
      OBVIOUS
    <3>1. In(agenda, op, v) /\ v # w
      BY DEF Planned
    <3>2. CASE agenda = Check2(w)
      BY <3>1, <3>2, InRight
    <3>3. CASE agenda = Stat2(w)
      BY <3>1, <3>3, InRight
    <3> QED BY <1>3, <3>2, <3>3
  <2>2. Coming(v) \subseteq Coming(v)' /\ (Overflowing => Overflowing')
    BY <1>2, SameQueues
  <2>3. Undisturbed(v)
    BY <1>2, <1>5, <2>1, <2>2 DEF Undisturbed
  <2> QED BY <1>5, <2>3
<1>9. WatcherKept(w)'
  <2>1. Planned("check", w)' \/ Planned("stat", w)'
    BY <1>4, InRight DEF Planned
  <2>2. Planned("stat", w) => Planned("stat", w)'
    <3>1. CASE agenda = Check2(w)
      <4>1. ~In(Check2(w), "stat", w)
        BY InRight
      <4> QED BY <3>1, <4>1 DEF Planned
    <3>2. CASE agenda # Check2(w)
      BY <1>4, <3>2, InRight DEF Planned
    <3> QED BY <3>1, <3>2
  <2>3. Reported(w)'
    BY <1>1, <1>2, <2>2 DEF WatcherKept, Reported
  <2>4. Looking(w)'
    BY <2>1 DEF Looking, ToLook
  <2> QED BY <1>5, <2>3, <2>4 DEF WatcherKept
<1> QED BY <1>2, <1>5, <1>6, <1>7, <1>8, <1>9, OneStep

LEMMA TailRight ==
    ASSUME NEW S, NEW s \in Seq(S), s # <<>>
    PROVE  /\ Tail(s) \in Seq(S) /\ Len(s) \in Nat /\ Len(Tail(s)) = Len(s) - 1 /\ Head(s) = s[1]
           /\ \A k \in 1 .. Len(Tail(s)) : Tail(s)[k] = s[k + 1] /\ k + 1 \in 1 .. Len(s)
OBVIOUS

LEMMA AddLastKept == ASSUME StatKept, NEW w \in Stats, Stat!AddLast(w) PROVE StatKept'
<1>1. QueuesRight /\ WatcherKept(w) /\ agenda \in Seq(Calls)
  BY DEF StatKept, QueuesRight
<1>2. /\ Stat!Call("addLast", w) /\ Stat!InfyAdd(w) /\ agenda' = Tail(agenda)
      /\ late' = IF Stat!Current(w) THEN late \ {w} ELSE late \cup {w}
      /\ UNCHANGED <<fs, dir, file, changes, events, fs_fd, batch, visit, started, attr, fed, told, overflowed>>
  BY DEF Stat!AddLast, Stat!world
<1>3. /\ w \in started /\ fs_fd = "open"
      /\ \A k \in 1 .. Len(agenda) : agenda[k][1] = "addLast" /\ agenda[k][2] \in started
  BY <1>2, StatCallRight DEF Ops
<1>4. agenda # <<>> /\ Head(agenda) = <<"addLast", w>>
  BY <1>2 DEF Stat!Call
<1>5. /\ agenda' \in Seq(Calls) /\ Len(agenda) \in Nat /\ Len(agenda') = Len(agenda) - 1
      /\ agenda[1] = <<"addLast", w>>
      /\ \A k \in 1 .. Len(agenda') : agenda'[k] = agenda[k + 1] /\ k + 1 \in 1 .. Len(agenda)
  BY <1>1, <1>2, <1>4, TailRight
<1>6. /\ TargetsRight(target') /\ StatsTyped' /\ refs' = Cardinality(started')
      /\ \A v \in Stats \ {w} : /\ wd'[v] = wd[v] /\ (v \in timers' <=> v \in timers)
                                /\ WatchStep(v)
      /\ Covered(w)' /\ GoneTold(w)' /\ (w \in timers' \/ Sees(w)')
  BY <1>2, <1>3, AddedRight
<1>7. QueuesRight'
  BY <1>1, <1>2, <1>5 DEF QueuesRight
<1>8. AgendaRight' /\ Unopened'
  <2>1. \A k \in 1 .. Len(agenda') : agenda'[k][1] = "addLast" /\ agenda'[k][2] \in started'
    BY <1>2, <1>3, <1>5
  <2> QED BY <1>2, <1>3, <2>1 DEF AgendaRight, Unopened
<1>9. ASSUME NEW v \in Stats \ {w} PROVE Undisturbed(v) /\ WatchStep(v)
  <2>1. ASSUME NEW op \in Ops, Planned(op, v) PROVE Planned(op, v)'
    <3>1. PICK k \in 1 .. Len(agenda) : agenda[k] = <<op, v>>
      BY <2>1 DEF Planned, In
    <3>2. k # 1
      BY <1>5, <3>1
    <3>3. k - 1 \in 1 .. Len(agenda') /\ (k - 1) + 1 = k
      BY <1>5, <3>1, <3>2
    <3>4. agenda'[k - 1] = <<op, v>>
      BY <1>5, <3>1, <3>3
    <3> QED BY <3>3, <3>4 DEF Planned, In
  <2>2. Coming(v) \subseteq Coming(v)' /\ (Overflowing => Overflowing')
    BY <1>2, SameQueues
  <2>3. Undisturbed(v)
    BY <1>2, <1>6, <2>1, <2>2 DEF Undisturbed
  <2> QED BY <1>6, <2>3
<1>10. WatcherKept(w)'
  <2>1. ~Planned("stat", w)
    <3> SUFFICES ASSUME NEW k \in 1 .. Len(agenda), agenda[k] = <<"stat", w>> PROVE FALSE
      BY DEF Planned, In
    <3>1. agenda[k][1] = "stat"
      OBVIOUS
    <3> QED BY <1>3, <3>1
  <2>2. Reported(w)'
    BY <1>1, <1>2, <2>1 DEF WatcherKept, Reported
  <2>3. Stat!Current(w) <=> Stat!Current(w)'
    BY <1>2 DEF Stat!Current, Stat!Lstat
  <2>4. Looking(w)'
    BY <1>2, <1>6, <2>3 DEF Looking
  <2> QED BY <1>6, <2>2, <2>4 DEF WatcherKept
<1> QED BY <1>2, <1>6, <1>7, <1>8, <1>9, <1>10, OneStep

\* infy_del: whoever shares the watch is told that it has gone.
LEMMA InfyDelRight ==
    ASSUME StatKept, NEW w \in Stats, Stat!InfyDel(w)
    PROVE  /\ TargetsRight(target') /\ Longer(events, events')
           /\ \A d \in DOMAIN target' : d \in DOMAIN target /\ target'[d] = target[d]
           /\ \A d \in DOMAIN target \ DOMAIN target' : HasOne(events', d, TRUE)
           /\ wd' \in [Stats -> Stat!Wds \cup {Stat!NoWd, Stat!GoneWd}]
           /\ \A v \in Stats \ {w} : wd'[v] = wd[v]
           /\ wd'[w] < 0 /\ ~(wd'[w] > 0)
<1>1. TargetsRight(target) /\ QueuesRight /\ StatsTyped
  BY DEF StatKept
<1>2. CASE wd[w] < 0
  <2>1. UNCHANGED <<wd, target, events>>
    BY <1>2 DEF Stat!InfyDel
  <2>2. Longer(events, events')
    BY <1>1, <2>1, Unqueued
  <2>3. wd[w] \in Int
    BY <1>1 DEF StatsTyped, Stat!Wds, Stat!NoWd, Stat!GoneWd
  <2>4. /\ wd' \in [Stats -> Stat!Wds \cup {Stat!NoWd, Stat!GoneWd}]
        /\ \A v \in Stats \ {w} : wd'[v] = wd[v]
    BY <1>1, <2>1 DEF StatsTyped
  <2>5. wd'[w] < 0 /\ ~(wd'[w] > 0)
    BY <1>2, <2>1, <2>3
  <2>6. TargetsRight(target')
    BY <1>1, <2>1
  <2>7. target' = target
    BY <2>1
  <2> QED BY <2>2, <2>4, <2>5, <2>6, <2>7
<1>3. CASE ~(wd[w] < 0)
  <2>1. wd[w] \in Stat!Wds
    BY <1>1, <1>3 DEF StatsTyped, Stat!NoWd, Stat!GoneWd, Stat!Wds
  <2>2. PICK D : D = DOMAIN target \ {wd[w]}
    OBVIOUS
  <2>3. /\ wd' = [wd EXCEPT ![w] = Stat!GoneWd] /\ target' = [d \in D |-> target[d]]
        /\ events' = IF wd[w] \in DOMAIN target THEN Stat!Queued(events, wd[w], TRUE) ELSE events
    BY <1>3, <2>2 DEF Stat!InfyDel
  <2>4. TargetsRight(target')
    BY <1>1, <2>2, <2>3, TargetsFewer
  <2>5. Longer(events, events') /\ (wd[w] \in DOMAIN target => HasOne(events', wd[w], TRUE))
    <3>1. events \in Seq(Events) /\ Longer(events, events)
      BY <1>1 DEF QueuesRight, Longer
    <3> QED BY <2>1, <2>3, <3>1, QueuedRight
  <2>6. /\ wd' \in [Stats -> Stat!Wds \cup {Stat!NoWd, Stat!GoneWd}]
        /\ \A v \in Stats \ {w} : wd'[v] = wd[v]
        /\ wd'[w] < 0 /\ ~(wd'[w] > 0)
    BY <1>1, <2>3 DEF StatsTyped, Stat!GoneWd
  <2>7. /\ \A d \in DOMAIN target' : d \in DOMAIN target /\ target'[d] = target[d]
        /\ \A d \in DOMAIN target \ DOMAIN target' : d = wd[w]
    BY <2>2, <2>3
  <2> QED BY <2>4, <2>5, <2>6, <2>7
<1> QED BY <1>2, <1>3

\* The watchers that are told.
LEMMA DelOthers ==
    ASSUME StatKept, NEW w \in Stats, Stat!InfyDel(w), UNCHANGED <<batch, visit, overflowed>>, NEW v \in Stats \ {w}
    PROVE  /\ wd'[v] = wd[v] /\ WatchStep(v)
           /\ Coming(v) \subseteq Coming(v)' /\ (Overflowing => Overflowing')
<1>1. /\ Longer(events, events') /\ QueuesRight
      /\ \A d \in DOMAIN target' : d \in DOMAIN target /\ target'[d] = target[d]
      /\ \A d \in DOMAIN target \ DOMAIN target' : HasOne(events', d, TRUE)
      /\ wd'[v] = wd[v]
  BY InfyDelRight DEF StatKept
<1>2. /\ Coming(v) \subseteq Coming(v)'
      /\ \A d, gone : HasOne(events', d, gone) =>
           \E e \in Coming(v)' : e = Stat!Overflow \/ (e.wd = d /\ (gone => e.gone))
  BY <1>1, LongerComing
<1>3. Overflowing => Overflowing'
  BY <1>1, LongerOverflows
<1>4. WatchStep(v)
  BY <1>1, <1>2 DEF WatchStep
<1> QED BY <1>1, <1>2, <1>3, <1>4

LEMMA DelKept == ASSUME StatKept, NEW w \in Stats, Stat!Del(w) PROVE StatKept'
<1>1. QueuesRight /\ StatsTyped /\ refs = Cardinality(started) /\ WatcherKept(w)
  BY DEF StatKept
<1>2. /\ Stat!Call("del", w) /\ Stat!InfyDel(w) /\ agenda' = Tail(agenda)
      /\ UNCHANGED <<fs, dir, file, changes, fs_fd, batch, visit, started, timers, attr, fed, refs, told, late,
                     overflowed>>
  BY DEF Stat!Del, Stat!world, Stat!history
<1>3. w \in started /\ agenda = Stat3(w) /\ fs_fd = "open"
  BY <1>2, StatCallRight DEF Ops
<1>4. agenda' = Stat2(w)
  BY <1>2, <1>3, ShapesRight
<1>5. /\ TargetsRight(target') /\ Longer(events, events')
      /\ wd' \in [Stats -> Stat!Wds \cup {Stat!NoWd, Stat!GoneWd}] /\ ~(wd'[w] > 0)
  BY <1>2, InfyDelRight
<1>6. QueuesRight'
  BY <1>1, <1>2, <1>4, <1>5, ShapesRight DEF QueuesRight, Longer
<1>7. StatsTyped'
  BY <1>1, <1>2, <1>5 DEF StatsTyped
<1>8. AgendaRight' /\ Unopened' /\ refs' = Cardinality(started')
  BY <1>1, <1>2, <1>3, <1>4 DEF AgendaRight, Unopened
<1>9. ASSUME NEW v \in Stats \ {w} PROVE Undisturbed(v) /\ WatchStep(v)
  <2>1. \A op : ~Planned(op, v)
    BY <1>3, InRight DEF Planned
  <2>2. /\ wd'[v] = wd[v] /\ WatchStep(v)
        /\ Coming(v) \subseteq Coming(v)' /\ (Overflowing => Overflowing')
    BY <1>2, DelOthers
  <2> QED BY <1>2, <2>1, <2>2 DEF Undisturbed
<1>10. WatcherKept(w)'
  <2>1. Planned("add", w)' /\ Planned("stat", w)'
    BY <1>4, InRight DEF Planned
  <2>2. Covered(w)'
    BY <1>2, <1>5, <2>1 DEF Covered, Adding
  <2>3. GoneTold(w)' /\ Reported(w)' /\ Looking(w)'
    BY <1>5, <2>1 DEF GoneTold, Reported, Looking, ToLook
  <2> QED BY <2>2, <2>3 DEF WatcherKept
<1> QED BY <1>2, <1>5, <1>6, <1>7, <1>8, <1>9, <1>10, OneStep
-----------------------------------------------------------------------------
(* stat_timer_cb, and the steps of the loop between two calls.             *)

LEMMA LstatRight ==
    ASSUME PathRight, StatsTyped, NEW w \in Stats
    PROVE  Stat!Lstat(w) \in Stat!Attrs
<1>1. attr[w] \in Stat!Attrs
  BY DEF StatsTyped
<1>2. CASE file = none
  <2>1. Stat!Lstat(w) = [attr[w] EXCEPT !.st_nlink = 0]
    BY <1>2 DEF Stat!Lstat
  <2> QED BY <1>1, <2>1 DEF Stat!Attrs
<1>3. CASE file # none
  <2>1. Stat!Lstat(w) = [ino |-> file.ino, ver |-> file.ver, st_nlink |-> 1]
    BY <1>3 DEF Stat!Lstat
  <2>2. file \in [ino : 0 .. MaxChanges, ver : {0, 1}]
    BY <1>3 DEF PathRight
  <2>3. file.ino \in 0 .. MaxChanges /\ file.ver \in {0, 1}
    BY <2>2
  <2> QED BY <2>1, <2>3 DEF Stat!Attrs
<1> QED BY <1>2, <1>3

\* A watcher that has just looked at the path is up to date.
LEMMA LookedRight ==
    ASSUME StatKept, NEW w \in Stats, agenda \in {Check1(w), Stat1(w)}, Stat!Looked(w),
           attr' = [attr EXCEPT ![w] = Stat!Lstat(w)],
           UNCHANGED <<fs, dir, file, target, events, batch, visit, started, timers, wd, overflowed>>
    PROVE  /\ attr' \in [Stats -> Stat!Attrs] /\ attr'[w] = Stat!Lstat(w)
           /\ \A v \in Stats \ {w} : attr'[v] = attr[v] /\ (v \in late => v \in late')
           /\ Covered(w)' /\ GoneTold(w)' /\ Looking(w)'
<1>1. PathRight /\ StatsTyped /\ WatcherKept(w)
  BY DEF StatKept
<1>2. Stat!Lstat(w) \in Stat!Attrs
  BY <1>1, LstatRight
<1>3. /\ attr' \in [Stats -> Stat!Attrs] /\ attr'[w] = Stat!Lstat(w)
      /\ \A v \in Stats \ {w} : attr'[v] = attr[v]
  BY <1>1, <1>2 DEF StatsTyped
<1>4. \A v \in Stats \ {w} : v \in late => v \in late'
  BY DEF Stat!Looked
<1>5. Coming(w)' = Coming(w) /\ (Overflowing <=> Overflowing')
  BY DEF Coming, Overflowing
<1>6. ~Planned("add", w) /\ ~Planned("addLast", w)
  <2>1. CASE agenda = Check1(w)
    BY <2>1, InRight DEF Planned
  <2>2. CASE agenda = Stat1(w)
    BY <2>2, InRight DEF Planned
  <2> QED BY <2>1, <2>2
<1>7. Covered(w)'
  BY <1>1, <1>6 DEF WatcherKept, Covered, Adding
<1>8. GoneTold(w)'
  BY <1>1, <1>5 DEF WatcherKept, GoneTold
<1>9. Stat!Current(w)'
  <2>1. CASE file = none
    <3>1. attr[w] \in Stat!Attrs
      BY <1>1 DEF StatsTyped
    <3>2. attr'[w] = [attr[w] EXCEPT !.st_nlink = 0]
      BY <1>3, <2>1 DEF Stat!Lstat
    <3>3. [attr'[w] EXCEPT !.st_nlink = 0] = attr'[w]
      BY <3>1, <3>2 DEF Stat!Attrs
    <3> QED BY <2>1, <3>3 DEF Stat!Current, Stat!Lstat
  <2>2. CASE file # none
    BY <1>3, <2>2 DEF Stat!Current, Stat!Lstat
  <2> QED BY <2>1, <2>2
<1>10. Looking(w)'
  <2> SUFFICES ASSUME w \in started, w \notin timers, w \notin late', ~Heard(w)'
               PROVE  (Overflowing /\ Stat!Deaf(w))' \/ Sees(w)'
    BY <1>9 DEF Looking
  <2>1. wd[w] > 0
    BY <1>1, <1>6 DEF WatcherKept, Covered, Adding
  <2>2. CASE wd[w] \in DOMAIN target
    <3>1. target[wd[w]] = Stat!PathInode
      BY <2>2 DEF Stat!Looked, Stat!Strays
    <3>2. Stat!PathInode' = Stat!PathInode
      BY DEF Stat!PathInode
    <3> QED BY <2>2, <3>1, <3>2 DEF Sees
  <2>3. CASE wd[w] \notin DOMAIN target
    <3>1. ~ \E e \in Coming(w) : e.wd = wd[w] /\ e.gone
      BY <1>5 DEF Heard
    <3>2. Overflowing
      BY <1>1, <2>1, <2>3, <3>1 DEF WatcherKept, GoneTold
    <3> QED BY <1>5, <2>1, <2>3, <3>2 DEF Stat!Deaf, Stat!Hashed
  <2> QED BY <2>2, <2>3
<1> QED BY <1>3, <1>4, <1>7, <1>8, <1>10

LEMMA CheckKept == ASSUME StatKept, NEW w \in Stats, Stat!Check(w) PROVE StatKept'
<1>1. /\ TargetsRight(target) /\ QueuesRight /\ StatsTyped /\ refs = Cardinality(started) /\ WatcherKept(w)
  BY DEF StatKept
<1>2. /\ Stat!Call("check", w) /\ attr' = [attr EXCEPT ![w] = Stat!Lstat(w)] /\ Stat!Looked(w)
      /\ UNCHANGED <<fs, dir, file, changes, target, events, fs_fd, batch, visit, started, timers, wd, refs, told,
                     overflowed>>
  BY DEF Stat!Check, Stat!world
<1>3. w \in started /\ agenda = Check1(w)
  BY <1>2, StatCallRight DEF Ops
<1>4. \/ Stat!Current(w) /\ agenda' = <<>> /\ fed' = fed
      \/ fs_fd = "open" /\ agenda' = Stat3(w) /\ fed' = fed
      \/ agenda' = <<>> /\ fed' = fed \cup {w}
  <2>1. Tail(agenda) = <<>>
    BY <1>3, ShapesRight
  <2>2. /\ Stat3(w) \in Seq(Calls)
        /\ <<<<"del", w>>, <<"add", w>>, <<"stat", w>>>> = Stat3(w)
    BY ShapesRight DEF Stat3
  <2>3. Stat3(w) \o <<>> = Stat3(w)
    BY <2>2
  <2>4. \/ Stat!Current(w) /\ agenda' = Tail(agenda) /\ fed' = fed
        \/ fs_fd = "open" /\ agenda' = Stat3(w) \o Tail(agenda) /\ fed' = fed
        \/ agenda' = Tail(agenda) /\ fed' = fed \cup {w}
    BY <2>2 DEF Stat!Check
  <2> QED BY <2>1, <2>3, <2>4
<1>5. /\ attr' \in [Stats -> Stat!Attrs] /\ attr'[w] = Stat!Lstat(w)
      /\ \A v \in Stats \ {w} : attr'[v] = attr[v] /\ (v \in late => v \in late')
      /\ Covered(w)' /\ GoneTold(w)' /\ Looking(w)'
  BY <1>2, <1>3, LookedRight
<1>6. QueuesRight' /\ StatsTyped' /\ TargetsRight(target') /\ refs' = Cardinality(started')
  <2>1. agenda' \in Seq(Calls)
    BY <1>4, ShapesRight
  <2>2. fed' \subseteq started
    BY <1>1, <1>3, <1>4 DEF StatsTyped
  <2> QED BY <1>1, <1>2, <1>5, <2>1, <2>2 DEF QueuesRight, StatsTyped
<1>7. AgendaRight'
  BY <1>2, <1>3, <1>4 DEF AgendaRight
<1>8. Unopened'
  BY <1>2, <1>4 DEF StatKept, Unopened
<1>9. ASSUME NEW v \in Stats \ {w} PROVE Undisturbed(v) /\ WatchStep(v)
  <2>1. \A op : ~Planned(op, v)
    BY <1>3, InRight DEF Planned
  <2>2. Coming(v) \subseteq Coming(v)' /\ (Overflowing => Overflowing')
    BY <1>2, SameQueues
  <2>3. v \in fed => v \in fed'
    BY <1>4
  <2> QED BY <1>2, <1>5, <2>1, <2>2, <2>3 DEF Undisturbed, WatchStep
<1>10. WatcherKept(w)'
  <2>1. ~Planned("stat", w)
    BY <1>3, InRight DEF Planned
  <2>2. Reported(w)'
    <3>1. CASE Stat!Current(w) /\ fed' = fed
      BY <1>1, <1>2, <1>5, <2>1, <3>1 DEF WatcherKept, Reported, Stat!Current
    <3>2. CASE agenda' = Stat3(w)
      BY <3>2, InRight DEF Reported, Planned
    <3>3. CASE fed' = fed \cup {w}
      BY <3>3 DEF Reported
    <3> QED BY <1>4, <3>1, <3>2, <3>3
  <2> QED BY <1>5, <2>2 DEF WatcherKept
<1> QED BY <1>2, <1>6, <1>7, <1>8, <1>9, <1>10, OneStep

LEMMA StatStepKept == ASSUME StatKept, NEW w \in Stats, Stat!Stat(w) PROVE StatKept'
<1>1. /\ TargetsRight(target) /\ QueuesRight /\ StatsTyped /\ refs = Cardinality(started) /\ WatcherKept(w)
  BY DEF StatKept
<1>2. /\ Stat!Call("stat", w) /\ attr' = [attr EXCEPT ![w] = Stat!Lstat(w)] /\ Stat!Looked(w)
      /\ fed' = fed \cup {w} /\ agenda' = Tail(agenda)
      /\ UNCHANGED <<fs, dir, file, changes, target, events, fs_fd, batch, visit, started, timers, wd, refs, told,
                     overflowed>>
  BY DEF Stat!Stat, Stat!world
<1>3. w \in started /\ agenda = Stat1(w) /\ agenda' = <<>>
  BY <1>2, StatCallRight, ShapesRight DEF Ops
<1>4. /\ attr' \in [Stats -> Stat!Attrs]
      /\ \A v \in Stats \ {w} : attr'[v] = attr[v] /\ (v \in late => v \in late')
      /\ Covered(w)' /\ GoneTold(w)' /\ Looking(w)'
  BY <1>2, <1>3, LookedRight
<1>5. QueuesRight' /\ StatsTyped' /\ TargetsRight(target') /\ refs' = Cardinality(started')
  BY <1>1, <1>2, <1>3, <1>4, ShapesRight DEF QueuesRight, StatsTyped
<1>6. AgendaRight' /\ Unopened'
  BY <1>2, <1>3 DEF AgendaRight, StatKept, Unopened
<1>7. ASSUME NEW v \in Stats \ {w} PROVE Undisturbed(v) /\ WatchStep(v)
  <2>1. \A op : ~Planned(op, v)
    BY <1>3, InRight DEF Planned
  <2>2. Coming(v) \subseteq Coming(v)' /\ (Overflowing => Overflowing')
    BY <1>2, SameQueues
  <2> QED BY <1>2, <1>4, <2>1, <2>2 DEF Undisturbed, WatchStep
<1>8. WatcherKept(w)'
  BY <1>2, <1>4 DEF WatcherKept, Reported
<1> QED BY <1>2, <1>5, <1>6, <1>7, <1>8, OneStep

LEMMA TimerExpiresKept == ASSUME StatKept, NEW w \in Stats, Stat!TimerExpires(w) PROVE StatKept'
<1>1. /\ TargetsRight(target) /\ QueuesRight /\ StatsTyped /\ refs = Cardinality(started) /\ WatcherKept(w)
  BY DEF StatKept
<1>2. /\ agenda = <<>> /\ batch = <<>> /\ w \in timers /\ agenda' = Check1(w)
      /\ UNCHANGED <<fs, dir, file, changes, target, events, fs_fd, batch, visit, started, timers, wd, attr, fed, refs,
                     told, late, overflowed>>
  BY DEF Stat!TimerExpires, Stat!Idle, Stat!world, Stat!state, Stat!history, Check1
<1>3. w \in started
  BY <1>1, <1>2 DEF StatsTyped
<1>4. QueuesRight' /\ StatsTyped' /\ TargetsRight(target') /\ refs' = Cardinality(started')
  BY <1>1, <1>2, ShapesRight DEF QueuesRight, StatsTyped
<1>5. AgendaRight' /\ Unopened'
  BY <1>2, <1>3 DEF AgendaRight, StatKept, Unopened
<1>6. ASSUME NEW v \in Stats PROVE Undisturbed(v) /\ WatchStep(v)
  <2>1. \A op : ~Planned(op, v)
    BY <1>2, InRight DEF Planned
  <2>2. Coming(v) \subseteq Coming(v)' /\ (Overflowing => Overflowing')
    BY <1>2, SameQueues
  <2> QED BY <1>2, <2>1, <2>2 DEF Undisturbed, WatchStep
<1>7. WatcherKept(w)'
  <2>1. wd[w] \in Int /\ DOMAIN target \subseteq Stat!Wds
    BY <1>1 DEF StatsTyped, TargetsRight, Stat!Wds, Stat!NoWd, Stat!GoneWd
  <2> QED BY <1>1, <1>2, <1>6, <2>1, OtherKept
<1> QED BY <1>2, <1>4, <1>5, <1>6, <1>7, OneStep
-----------------------------------------------------------------------------
(* infy_cb and infy_wd: whoever a read event is about looks at it.         *)

LEMMA InfyWdKept == ASSUME StatKept, NEW w \in Stats, Stat!InfyWd(w) PROVE StatKept'
<1>1. /\ TargetsRight(target) /\ QueuesRight /\ StatsTyped /\ refs = Cardinality(started) /\ WatcherKept(w)
  BY DEF StatKept
<1>2. /\ agenda = <<>> /\ batch # <<>> /\ w \in visit /\ visit' = visit \ {w}
      /\ \/ Head(batch).gone /\ wd' = [wd EXCEPT ![w] = Stat!NoWd] /\ agenda' = Check2(w)
         \/ ~Head(batch).gone /\ wd' = wd /\ agenda' = Check1(w)
      /\ UNCHANGED <<fs, dir, file, changes, target, events, fs_fd, batch, started, timers, attr, fed, refs,
                     told, late, overflowed>>
  BY DEF Stat!InfyWd, Stat!world, Stat!history, Check1, Check2
<1>3. w \in started /\ fs_fd = "open"
  BY <1>1, <1>2 DEF StatsTyped, StatKept, Unopened
<1>4. QueuesRight' /\ TargetsRight(target') /\ refs' = Cardinality(started')
  <2>1. agenda' \in Seq(Calls)
    BY <1>2, ShapesRight
  <2> QED BY <1>1, <1>2, <2>1 DEF QueuesRight
<1>5. StatsTyped'
  <2>1. wd' \in [Stats -> Stat!Wds \cup {Stat!NoWd, Stat!GoneWd}]
    BY <1>1, <1>2 DEF StatsTyped
  <2> QED BY <1>1, <1>2, <2>1 DEF StatsTyped
<1>6. AgendaRight' /\ Unopened'
  BY <1>2, <1>3 DEF AgendaRight, Unopened
<1>7. ASSUME NEW op, NEW v PROVE ~Planned(op, v)
  BY <1>2, InRight DEF Planned
<1>8. ASSUME NEW v \in Stats \ {w} PROVE Undisturbed(v) /\ WatchStep(v)
  <2>1. Coming(v) \subseteq Coming(v)' /\ (Overflowing => Overflowing')
    BY <1>2, SameQueues
  <2>2. wd'[v] = wd[v]
    BY <1>1, <1>2 DEF StatsTyped
  <2> QED BY <1>2, <1>7, <2>1, <2>2 DEF Undisturbed, WatchStep
<1>9. WatcherKept(w)'
  <2>1. Planned("check", w)'
    BY <1>2, InRight DEF Planned
  <2>2. Looking(w)'
    BY <2>1 DEF Looking, ToLook
  <2>3. Reported(w)'
    BY <1>1, <1>2, <1>7 DEF WatcherKept, Reported
  <2>4. CASE Head(batch).gone
    <3>1. wd'[w] = -1
      BY <1>1, <1>2, <2>4 DEF StatsTyped, Stat!NoWd
    <3>2. ~(wd'[w] > 0)
      BY <3>1
    <3>3. Planned("add", w)'
      BY <1>2, <2>4, InRight DEF Planned
    <3>4. Covered(w)' /\ GoneTold(w)'
      BY <3>2, <3>3 DEF Covered, GoneTold, Adding
    <3> QED BY <2>2, <2>3, <3>4 DEF WatcherKept
  <2>5. CASE ~Head(batch).gone
    <3>1. wd' = wd
      BY <1>2, <2>5
    <3>2. Covered(w)'
      BY <1>1, <1>2, <1>7, <3>1 DEF WatcherKept, Covered, Adding
    <3>3. GoneTold(w)'
      <4> SUFFICES ASSUME wd[w] > 0, wd[w] \notin DOMAIN target, ~Overflowing
                   PROVE  \E e \in Coming(w)' : e.wd = wd[w] /\ e.gone
        BY <1>2, <3>1 DEF GoneTold, Overflowing
      <4>1. PICK e \in Coming(w) : e.wd = wd[w] /\ e.gone
        BY <1>1 DEF WatcherKept, GoneTold
      <4>2. e # batch[1]
        BY <1>1, <1>2, <2>5, <4>1 DEF QueuesRight
      <4>3. e \in Coming(w)'
        <5>1. CASE \E k \in 1 .. Len(events) : e = events[k]
          BY <1>2, <5>1 DEF Coming
        <5>2. CASE \E k \in 1 .. Len(batch) : e = batch[k] /\ k # 1
          <6>1. PICK k \in 1 .. Len(batch) : e = batch[k] /\ k # 1
            BY <5>2
          <6>2. k > 1
            BY <1>1, <6>1 DEF QueuesRight
          <6> QED BY <1>2, <6>1, <6>2 DEF Coming
        <5> QED BY <4>1, <4>2, <5>1, <5>2 DEF Coming
      <4> QED BY <4>1, <4>3
    <3> QED BY <2>2, <2>3, <3>2, <3>3 DEF WatcherKept
  <2> QED BY <2>4, <2>5
<1> QED BY <1>2, <1>4, <1>5, <1>6, <1>8, <1>9, OneStep

\* The events that come concern the watchers that have a watch. When a step only takes
\* events from the queues, those that have one must keep what is about them.
LEMMA EventsKept ==
    ASSUME StatKept, agenda = <<>>,
           UNCHANGED <<fs, dir, file, changes, target, fs_fd, agenda, started, timers, wd, attr, fed, refs, told, late>>,
           QueuesRight', Unopened', visit' \subseteq Stat!Hashed, Overflowing => Overflowing',
           \A w \in Stat!Hashed : \A e \in Coming(w) : e.wd \in {wd[w], -1} => e \in Coming(w)'
    PROVE  StatKept'
<1>1. /\ PathRight /\ TargetsRight(target) /\ StatsTyped /\ refs = Cardinality(started)
      /\ \A w \in Stats : WatcherKept(w)
  BY DEF StatKept
<1>2. Stat!Hashed \subseteq started
  BY <1>1 DEF WatcherKept, Covered, Stat!Hashed
<1>3. PathRight' /\ TargetsRight(target') /\ StatsTyped' /\ refs' = Cardinality(started') /\ AgendaRight'
  BY <1>1, <1>2 DEF PathRight, StatsTyped, AgendaRight
<1>4. ASSUME NEW op, NEW v PROVE ~Planned(op, v)
  BY InRight DEF Planned
<1>5. ASSUME NEW w \in Stats PROVE WatcherKept(w)'
  <2>1. WatcherKept(w) /\ Planned("stat", w)' = Planned("stat", w) /\ (Adding(w) <=> Adding(w)')
    BY <1>1 DEF Planned, Adding
  <2>2. Covered(w)' /\ Reported(w)'
    BY <2>1 DEF WatcherKept, Covered, Reported
  <2>3. CASE w \in Stat!Hashed
    <3>1. \A e \in Coming(w) : e.wd \in {wd[w], -1} => e \in Coming(w)'
      BY <2>3
    <3>2. GoneTold(w)'
      BY <2>1, <3>1 DEF WatcherKept, GoneTold
    <3>3. Heard(w) => Heard(w)'
      BY <3>1 DEF Heard, Stat!NoWd
    <3>4. Looking(w)'
      <4> SUFFICES ASSUME w \in started, w \notin timers, w \notin late, ~Heard(w)'
                   PROVE  (Overflowing /\ Stat!Deaf(w))' \/ (Stat!Current(w) /\ Sees(w))'
        BY DEF Looking
      <4>1. ~ToLook(w)
        BY <1>4 DEF ToLook
      <4>2. (Stat!Deaf(w) => Stat!Deaf(w)') /\ (Stat!Current(w) => Stat!Current(w)') /\ (Sees(w) => Sees(w)')
        BY DEF Stat!Deaf, Stat!Hashed, Stat!Current, Stat!Lstat, Sees, Stat!PathInode
      <4> QED BY <2>1, <3>3, <4>1, <4>2 DEF WatcherKept, Looking
    <3> QED BY <2>2, <3>2, <3>4 DEF WatcherKept
  <2>4. CASE w \notin Stat!Hashed
    <3>1. ~(wd[w] > 0)
      BY <2>4 DEF Stat!Hashed
    <3>2. w \in started => w \in timers
      BY <1>4, <2>1, <3>1 DEF WatcherKept, Covered, Adding
    <3> QED BY <2>2, <3>1, <3>2 DEF WatcherKept, GoneTold, Looking
  <2> QED BY <2>3, <2>4
<1> QED BY <1>3, <1>5 DEF StatKept

LEMMA NextEventKept == ASSUME StatKept, Stat!NextEvent PROVE StatKept'
<1>1. /\ agenda = <<>> /\ batch # <<>> /\ \A w \in visit : ~Stat!Meant(w)
      /\ batch' = Tail(batch) /\ visit' = IF Tail(batch) = <<>> THEN {} ELSE Stat!Hashed
      /\ overflowed' = (overflowed \/ Head(batch) = Stat!Overflow)
      /\ UNCHANGED <<fs, dir, file, changes, target, events, fs_fd, agenda, started, timers, wd, attr, fed, refs, told,
                     late>>
  BY DEF Stat!NextEvent, Stat!world, Stat!state
<1>2. batch \in Seq(Events) /\ events \in Seq(Events) /\ overflowed \in BOOLEAN /\ QueuesRight
  BY DEF StatKept, QueuesRight
<1>3. /\ batch' \in Seq(Events) /\ Len(batch) \in Nat /\ Len(batch') = Len(batch) - 1 /\ Head(batch) = batch[1]
      /\ \A k \in 1 .. Len(batch') : batch'[k] = batch[k + 1] /\ k + 1 \in 1 .. Len(batch)
  BY <1>1, <1>2, TailRight
<1>4. QueuesRight' /\ visit' \subseteq Stat!Hashed
  BY <1>1, <1>2, <1>3 DEF QueuesRight
<1>5. Unopened'
  BY <1>1 DEF StatKept, Unopened
<1>6. ASSUME NEW k \in 1 .. Len(batch), k > 1 PROVE k - 1 \in 1 .. Len(batch') /\ batch'[k - 1] = batch[k]
  <2>1. k - 1 \in 1 .. Len(batch') /\ (k - 1) + 1 = k
    BY <1>3, <1>6
  <2> QED BY <1>3, <2>1
<1>7. Overflowing => Overflowing'
  <2>1. CASE overflowed
    BY <1>1, <2>1 DEF Overflowing
  <2>2. CASE \E k \in 1 .. Len(events) : events[k] = Stat!Overflow
    BY <1>1, <2>2 DEF Overflowing
  <2>3. ASSUME NEW k \in 1 .. Len(batch), batch[k] = Stat!Overflow PROVE Overflowing'
    <3>1. CASE k = 1
      BY <1>1, <1>3, <2>3, <3>1 DEF Overflowing
    <3>2. CASE k > 1
      BY <1>6, <2>3, <3>2 DEF Overflowing
    <3> QED BY <1>3, <3>1, <3>2
  <2> QED BY <2>1, <2>2, <2>3 DEF Overflowing
<1>8. ASSUME NEW w \in Stat!Hashed, NEW e \in Coming(w), e.wd \in {wd[w], -1} PROVE e \in Coming(w)'
  <2>1. CASE \E k \in 1 .. Len(events) : e = events[k]
    BY <1>1, <2>1 DEF Coming
  <2>2. ASSUME NEW k \in 1 .. Len(batch), e = batch[k], k > 1 \/ w \in visit PROVE e \in Coming(w)'
    <3>1. CASE k > 1
      <4>1. k - 1 \in 1 .. Len(batch') /\ batch'[k - 1] = e
        BY <1>6, <2>2, <3>1
      <4>2. visit' = Stat!Hashed
        <5>1. batch' # <<>>
          BY <4>1
        <5> QED BY <1>1, <5>1
      <4>3. w \in visit'
        BY <4>2
      <4> QED BY <4>1, <4>3 DEF Coming
    <3>2. CASE ~(k > 1)
      <4>1. k = 1 /\ w \in visit
        BY <1>3, <2>2, <3>2
      <4>2. ~(Head(batch).wd \in {wd[w], -1})
        BY <1>1, <4>1, OverflowRight DEF Stat!Meant
      <4> QED BY <1>3, <1>8, <2>2, <4>1, <4>2
    <3> QED BY <3>1, <3>2
  <2> QED BY <2>1, <2>2 DEF Coming
<1> QED BY <1>1, <1>4, <1>5, <1>7, <1>8, EventsKept

LEMMA SplitRight ==
    ASSUME NEW S, NEW s \in Seq(S), NEW n \in 1 .. Len(s)
    PROVE  /\ SubSeq(s, 1, n) \in Seq(S) /\ Len(SubSeq(s, 1, n)) = n
           /\ \A k \in 1 .. n : SubSeq(s, 1, n)[k] = s[k]
           /\ SubSeq(s, n + 1, Len(s)) \in Seq(S) /\ Len(SubSeq(s, n + 1, Len(s))) = Len(s) - n
           /\ \A k \in 1 .. Len(s) - n : SubSeq(s, n + 1, Len(s))[k] = s[n + k]
<1>1. Len(s) \in Nat /\ n \in Nat /\ n <= Len(s)
  OBVIOUS
<1>2. SubSeq(s, 1, n) \in Seq(S) /\ Len(SubSeq(s, 1, n)) = n /\ \A k \in 1 .. n : SubSeq(s, 1, n)[k] = s[k]
  BY <1>1
<1>3. /\ SubSeq(s, n + 1, Len(s)) \in Seq(S) /\ Len(SubSeq(s, n + 1, Len(s))) = Len(s) - n
      /\ \A k \in 1 .. Len(s) - n : SubSeq(s, n + 1, Len(s))[k] = s[n + k]
  BY <1>1
<1> QED BY <1>2, <1>3

LEMMA InfyCbKept == ASSUME StatKept, Stat!InfyCb PROVE StatKept'
<1>1. /\ agenda = <<>> /\ batch = <<>> /\ fs_fd = "open" /\ events # <<>> /\ visit' = Stat!Hashed
      /\ UNCHANGED <<fs, dir, file, changes, target, fs_fd, agenda, started, timers, wd, attr, fed, refs, told,
                     late, overflowed>>
  BY DEF Stat!InfyCb, Stat!Idle, Stat!world, Stat!state, Stat!history
<1>2. events \in Seq(Events) /\ QueuesRight
  BY DEF StatKept, QueuesRight
<1>3. PICK n \in 1 .. Len(events) : batch' = SubSeq(events, 1, n) /\ events' = SubSeq(events, n + 1, Len(events))
  BY <1>1, <1>2 DEF Stat!InfyCb
<1>4. /\ batch' \in Seq(Events) /\ Len(batch') = n /\ \A k \in 1 .. n : batch'[k] = events[k]
      /\ events' \in Seq(Events) /\ Len(events') = Len(events) - n
      /\ \A k \in 1 .. Len(events) - n : events'[k] = events[n + k]
  BY <1>2, <1>3, SplitRight
<1>5. Len(events) \in Nat /\ n \in Nat
  BY <1>2
<1>6. QueuesRight'
  <2>1. batch' # <<>>
    BY <1>4, <1>5
  <2> QED BY <1>1, <1>2, <1>4, <2>1 DEF QueuesRight
<1>7. Unopened'
  BY <1>1 DEF Unopened
<1>8. ASSUME NEW k \in 1 .. Len(events)
      PROVE  \/ k \in 1 .. Len(batch') /\ batch'[k] = events[k]
             \/ k - n \in 1 .. Len(events') /\ events'[k - n] = events[k]
  <2>1. CASE k <= n
    BY <1>4, <1>5, <2>1
  <2>2. CASE k > n
    <3>1. k - n \in 1 .. Len(events) - n /\ n + (k - n) = k
      BY <1>5, <2>2
    <3> QED BY <1>4, <3>1
  <2> QED BY <1>5, <2>1, <2>2
<1>9. Overflowing => Overflowing'
  <2>1. Len(batch) = 0
    BY <1>1
  <2> QED BY <1>1, <1>8, <2>1 DEF Overflowing
<1>10. ASSUME NEW w \in Stat!Hashed, NEW e \in Coming(w) PROVE e \in Coming(w)'
  <2>1. PICK k \in 1 .. Len(events) : e = events[k]
    BY <1>1 DEF Coming
  <2>2. w \in visit'
    BY <1>1
  <2> QED BY <1>8, <2>1, <2>2 DEF Coming
<1> QED BY <1>1, <1>6, <1>7, <1>9, <1>10, EventsKept
-----------------------------------------------------------------------------
(* Starting, stopping, callbacks and a fork.                               *)

LEMMA StatStartKept == ASSUME StatKept, NEW w \in Stats, Stat!StatStart(w) PROVE StatKept'
<1>1. /\ PathRight /\ TargetsRight(target) /\ QueuesRight /\ StatsTyped
      /\ refs = Cardinality(started) /\ WatcherKept(w)
  BY DEF StatKept
<1>2. /\ agenda = <<>> /\ batch = <<>> /\ w \notin started /\ Stat!InfyInit
      /\ started' = started \cup {w}
      /\ attr' = [attr EXCEPT ![w] = Stat!Lstat(w)] /\ told' = [told EXCEPT ![w] = Stat!Lstat(w)]
      /\ UNCHANGED <<fs, dir, file, changes, target, events, batch, visit, wd, fed, late, overflowed>>
  BY DEF Stat!StatStart, Stat!Idle, Stat!world
<1>3. \/ fs_fd' = "open" /\ agenda' = Last1(w) /\ timers' = timers /\ refs' = refs + 1
      \/ fs_fd' # "open" /\ agenda' = <<>> /\ timers' = timers \cup {w} /\ refs' = refs + 1 - 1 + 1
  BY <1>2 DEF Stat!StatStart, Last1
<1>4. /\ fs_fd' \in {"new", "none", "open"}
      /\ fs_fd' # "open" => fs_fd # "open"
  BY <1>1, <1>2 DEF Stat!InfyInit, StatsTyped
<1>5. Stat!Lstat(w) \in Stat!Attrs
  BY <1>1, LstatRight
<1>6. /\ attr' \in [Stats -> Stat!Attrs] /\ told' \in [Stats -> Stat!Attrs] /\ attr'[w] = told'[w]
      /\ \A v \in Stats \ {w} : attr'[v] = attr[v] /\ told'[v] = told[v]
  BY <1>1, <1>2, <1>5 DEF StatsTyped
<1>7. IsFiniteSet(started') /\ refs' = Cardinality(started')
  <2>1. IsFiniteSet(started) /\ refs \in Nat
    BY <1>1, FS_CardinalityType DEF StatsTyped
  <2>2. IsFiniteSet(started \cup {w}) /\ Cardinality(started \cup {w}) = Cardinality(started) + 1
    BY <1>2, <2>1, FS_AddElement
  <2>3. refs' = refs + 1
    BY <1>3, <2>1
  <2> QED BY <1>1, <1>2, <2>2, <2>3
<1>8. QueuesRight'
  <2>1. agenda' \in Seq(Calls)
    BY <1>3, ShapesRight
  <2> QED BY <1>1, <1>2, <2>1 DEF QueuesRight
<1>9. StatsTyped'
  BY <1>1, <1>2, <1>3, <1>4, <1>6, <1>7 DEF StatsTyped
<1>10. AgendaRight'
  <2>1. CASE agenda' = Last1(w)
    <3>1. Len(Last1(w)) = 1 /\ Last1(w)[1] = <<"addLast", w>>
      BY DEF Last1
    <3>2. \A k \in 1 .. Len(agenda') : agenda'[k] = <<"addLast", w>>
      BY <2>1, <3>1
    <3>3. \A k \in 1 .. Len(agenda') : agenda'[k][1] = "addLast" /\ agenda'[k][2] \in started'
      BY <1>2, <3>2
    <3> QED BY <3>3 DEF AgendaRight
  <2>2. CASE agenda' = <<>>
    BY <2>2 DEF AgendaRight
  <2> QED BY <1>3, <2>1, <2>2
<1>11. Unopened'
  BY <1>2, <1>3, <1>4 DEF StatKept, Unopened
<1>12. ASSUME NEW v \in Stats \ {w} PROVE Undisturbed(v) /\ WatchStep(v)
  <2>1. \A op : ~Planned(op, v)
    BY <1>2, InRight DEF Planned
  <2>2. Coming(v) \subseteq Coming(v)' /\ (Overflowing => Overflowing')
    BY <1>2, SameQueues
  <2>3. (v \in started' <=> v \in started) /\ (v \in timers' <=> v \in timers)
    BY <1>2, <1>3
  <2> QED BY <1>2, <1>6, <2>1, <2>2, <2>3 DEF Undisturbed, WatchStep
<1>13. WatcherKept(w)'
  <2>1. ~(wd'[w] > 0)
    BY <1>1, <1>2 DEF WatcherKept, Covered
  <2>2. w \in timers' \/ Planned("addLast", w)'
    BY <1>3, InRight DEF Planned
  <2>3. Covered(w)' /\ GoneTold(w)' /\ Looking(w)'
    BY <2>1, <2>2 DEF Covered, GoneTold, Looking, Adding, ToLook
  <2>4. Reported(w)'
    BY <1>6 DEF Reported
  <2> QED BY <2>3, <2>4 DEF WatcherKept
<1> QED BY <1>1, <1>2, <1>7, <1>8, <1>9, <1>10, <1>11, <1>12, <1>13, OneStep

LEMMA StatStopKept == ASSUME StatKept, NEW w \in Stats, Stat!StatStop(w) PROVE StatKept'
<1>1. /\ QueuesRight /\ StatsTyped /\ refs = Cardinality(started) /\ Unopened
  BY DEF StatKept
<1>2. /\ agenda = <<>> /\ batch = <<>> /\ w \in started /\ Stat!InfyDel(w)
      /\ started' = started \ {w} /\ timers' = timers \ {w} /\ fed' = fed \ {w}
      /\ refs' = refs + Stat!Bit(w \in timers) - Stat!Bit(w \in timers) - 1
      /\ late' = late \ {w}
      /\ UNCHANGED <<fs, dir, file, changes, fs_fd, batch, visit, agenda, attr, told, overflowed>>
  BY DEF Stat!StatStop, Stat!Idle, Stat!world, Stat!loop
<1>3. /\ TargetsRight(target') /\ Longer(events, events')
      /\ \A d \in DOMAIN target' : d \in DOMAIN target /\ target'[d] = target[d]
      /\ wd' \in [Stats -> Stat!Wds \cup {Stat!NoWd, Stat!GoneWd}]
      /\ \A v \in Stats \ {w} : wd'[v] = wd[v]
      /\ wd'[w] < 0 /\ ~(wd'[w] > 0)
  BY <1>2, InfyDelRight
<1>4. IsFiniteSet(started') /\ refs' = Cardinality(started')
  <2>1. IsFiniteSet(started) /\ refs \in Nat
    BY <1>1, FS_CardinalityType DEF StatsTyped
  <2>2. IsFiniteSet(started \ {w}) /\ Cardinality(started \ {w}) = Cardinality(started) - 1
    BY <1>2, <2>1, FS_RemoveElement
  <2>3. refs' = refs - 1
    BY <1>2, <2>1 DEF Stat!Bit
  <2> QED BY <1>1, <1>2, <2>2, <2>3
<1>5. QueuesRight'
  BY <1>1, <1>2, <1>3 DEF QueuesRight, Longer
<1>6. StatsTyped'
  <2>1. visit = {}
    BY <1>1, <1>2 DEF QueuesRight
  <2> QED BY <1>1, <1>2, <1>3, <1>4, <2>1 DEF StatsTyped
<1>7. AgendaRight'
  BY <1>2 DEF AgendaRight
<1>8. Unopened'
  <2> SUFFICES ASSUME fs_fd # "open" PROVE (\A v \in Stats : wd'[v] < 0) /\ DOMAIN target' = {}
    BY <1>2 DEF Unopened
  <2>1. (\A v \in Stats : wd[v] < 0) /\ DOMAIN target = {}
    BY <1>1 DEF Unopened
  <2> QED BY <1>3, <2>1
<1>9. ASSUME NEW v \in Stats \ {w} PROVE Undisturbed(v) /\ WatchStep(v)
  <2>1. \A op : ~Planned(op, v)
    BY <1>2, InRight DEF Planned
  <2>2. /\ wd'[v] = wd[v] /\ WatchStep(v)
        /\ Coming(v) \subseteq Coming(v)' /\ (Overflowing => Overflowing')
    BY <1>2, DelOthers
  <2>3. (v \in started' <=> v \in started) /\ (v \in timers' <=> v \in timers)
    BY <1>2
  <2> QED BY <1>2, <2>1, <2>2, <2>3 DEF Undisturbed
<1>10. WatcherKept(w)'
  <2>1. w \notin started'
    BY <1>2
  <2> QED BY <1>3, <2>1 DEF WatcherKept, Covered, GoneTold, Reported, Looking
<1> QED BY <1>2, <1>3, <1>4, <1>5, <1>6, <1>7, <1>8, <1>9, <1>10, OneStep

LEMMA StatInvokeKept == ASSUME StatKept, NEW w \in Stats, Stat!Invoke(w) PROVE StatKept'
<1>1. /\ TargetsRight(target) /\ QueuesRight /\ StatsTyped /\ refs = Cardinality(started) /\ WatcherKept(w)
  BY DEF StatKept
<1>2. /\ agenda = <<>> /\ batch = <<>> /\ w \in fed /\ fed' = fed \ {w}
      /\ told' = [told EXCEPT ![w] = attr[w]]
      /\ UNCHANGED <<fs, dir, file, changes, target, events, fs_fd, batch, visit, agenda, started, timers, wd, attr,
                     refs, late, overflowed>>
  BY DEF Stat!Invoke, Stat!Idle, Stat!world, Stat!loop
<1>3. /\ told' \in [Stats -> Stat!Attrs] /\ told'[w] = attr[w]
      /\ \A v \in Stats \ {w} : told'[v] = told[v]
  BY <1>1, <1>2 DEF StatsTyped
<1>4. QueuesRight' /\ StatsTyped' /\ TargetsRight(target') /\ refs' = Cardinality(started')
  BY <1>1, <1>2, <1>3 DEF QueuesRight, StatsTyped
<1>5. AgendaRight' /\ Unopened'
  BY <1>2 DEF AgendaRight, StatKept, Unopened
<1>6. ASSUME NEW v \in Stats \ {w} PROVE Undisturbed(v) /\ WatchStep(v)
  <2>1. \A op : Planned(op, v) => Planned(op, v)'
    BY <1>2 DEF Planned
  <2>2. Coming(v) \subseteq Coming(v)' /\ (Overflowing => Overflowing')
    BY <1>2, SameQueues
  <2> QED BY <1>2, <1>3, <2>1, <2>2 DEF Undisturbed, WatchStep
<1>7. WatcherKept(w)'
  <2>1. /\ Coming(w)' = Coming(w) /\ (Overflowing <=> Overflowing') /\ (Adding(w) <=> Adding(w)')
        /\ (ToLook(w) <=> ToLook(w)')
    BY <1>2 DEF Coming, Overflowing, Adding, ToLook, Planned
  <2>2. Covered(w)' /\ GoneTold(w)'
    BY <1>1, <1>2, <2>1 DEF WatcherKept, Covered, GoneTold
  <2>3. Reported(w)'
    BY <1>2, <1>3 DEF Reported
  <2>4. /\ Heard(w) <=> Heard(w)'
        /\ Stat!Deaf(w) <=> Stat!Deaf(w)'
        /\ Stat!Current(w) <=> Stat!Current(w)'
        /\ Sees(w) <=> Sees(w)'
    BY <1>2, <2>1 DEF Heard, Stat!Deaf, Stat!Hashed, Stat!Current, Stat!Lstat, Sees, Stat!PathInode
  <2>5. Looking(w)'
    BY <1>1, <1>2, <2>1, <2>4 DEF WatcherKept, Looking
  <2> QED BY <2>2, <2>3, <2>5 DEF WatcherKept
<1> QED BY <1>2, <1>4, <1>5, <1>6, <1>7, OneStep

LEMMA AllOnce ==
    ASSUME NEW S, IsFiniteSet(S), NEW s \in Stat!SetToSeqs(S)
    PROVE  s \in Seq(S) /\ \A x \in S : \E k \in 1 .. Len(s) : s[k] = x
<1>1. PICK n : n = Cardinality(S)
  OBVIOUS
<1>2. n \in Nat
  BY <1>1, FS_CardinalityType
<1>3. Stat!Cardinality(S) = n
  BY <1>1 DEF Stat!Cardinality, Stat!IsFiniteSet, Cardinality, IsFiniteSet
<1>4. s \in [1 .. n -> S] /\ \A k, m \in 1 .. n : k # m => s[k] # s[m]
  BY <1>3 DEF Stat!SetToSeqs
<1>5. s \in Injection(1 .. n, S)
  BY <1>4 DEF Injection, IsInjective
<1>6. Cardinality(1 .. n) = n
  BY <1>2, FS_Interval
<1>7. s \in Surjection(1 .. n, S)
  BY <1>1, <1>5, <1>6, FS_Injection
<1> QED BY <1>2, <1>4, <1>7 DEF Surjection

LEMMA InfyForkKept == ASSUME StatKept, Stat!InfyFork PROVE StatKept'
<1>1. /\ PathRight /\ QueuesRight /\ StatsTyped /\ refs = Cardinality(started)
      /\ \A w \in Stats : WatcherKept(w)
  BY DEF StatKept
<1>2. /\ agenda = <<>> /\ batch = <<>> /\ fs_fd' \in {"open", "none"}
      /\ target' = << >> /\ events' = <<>>
      /\ wd' = [w \in Stats |-> IF w \in Stat!Hashed THEN Stat!NoWd ELSE wd[w]]
      /\ UNCHANGED <<fs, dir, file, changes, batch, visit, started, attr, fed, refs, told, late, overflowed>>
  BY DEF Stat!InfyFork, Stat!Idle, Stat!world, Stat!history
<1>3. Stat!Hashed \subseteq started
  BY <1>1 DEF WatcherKept, Covered, Stat!Hashed
<1>4. IsFiniteSet(Stat!Hashed)
  <2>1. Stat!Hashed \in SUBSET started
    BY <1>3
  <2> QED BY <1>1, <2>1, FS_Subset DEF StatsTyped
<1>5. \A w \in Stats : wd'[w] < 0 /\ ~(wd'[w] > 0)
  BY <1>1, <1>2 DEF StatsTyped, Stat!Hashed, Stat!Wds, Stat!NoWd, Stat!GoneWd
<1>6. wd' \in [Stats -> Stat!Wds \cup {Stat!NoWd, Stat!GoneWd}]
  BY <1>1, <1>2 DEF StatsTyped
<1>7. /\ agenda' \in Seq(Calls) /\ AgendaRight' /\ timers' \subseteq started /\ timers \subseteq timers'
      /\ fs_fd' # "open" => agenda' = <<>>
      /\ \A w \in Stat!Hashed : w \in timers' \/ Planned("addLast", w)'
  <2>1. CASE fs_fd' = "open"
    <3>1. PICK s \in Stat!SetToSeqs(Stat!Hashed) : agenda' = [k \in DOMAIN s |-> <<"addLast", s[k]>>]
      BY <2>1 DEF Stat!InfyFork
    <3>2. timers' = timers
      BY <2>1 DEF Stat!InfyFork
    <3>3. s \in Seq(Stat!Hashed) /\ \A w \in Stat!Hashed : \E k \in 1 .. Len(s) : s[k] = w
      <4>1. PICK S : S = Stat!Hashed
        OBVIOUS
      <4> QED BY <1>4, <3>1, <4>1, AllOnce
    <3>4. DOMAIN s = 1 .. Len(s) /\ Len(s) \in Nat
      BY <3>3
    <3>5. \A k \in 1 .. Len(s) : s[k] \in Stat!Hashed
      BY <3>3
    <3>6. \A k \in 1 .. Len(s) : <<"addLast", s[k]>> \in Calls
      BY <3>5 DEF Calls, Ops, Stat!Hashed
    <3>7. /\ agenda' \in Seq(Calls) /\ Len(agenda') = Len(s)
          /\ \A k \in 1 .. Len(s) : agenda'[k] = <<"addLast", s[k]>>
      BY <3>1, <3>4, <3>6
    <3>8. \A k \in 1 .. Len(agenda') : agenda'[k][1] = "addLast" /\ agenda'[k][2] \in started'
      BY <1>2, <1>3, <3>5, <3>7
    <3>9. AgendaRight'
      BY <3>8 DEF AgendaRight
    <3>10. \A w \in Stat!Hashed : Planned("addLast", w)'
      BY <3>3, <3>7 DEF Planned, In
    <3> QED BY <1>1, <2>1, <3>2, <3>7, <3>9, <3>10 DEF StatsTyped
  <2>2. CASE fs_fd' # "open"
    <3>1. agenda' = <<>> /\ timers' = timers \cup Stat!Hashed
      BY <1>2, <2>2 DEF Stat!InfyFork
    <3> QED BY <1>1, <1>3, <3>1, ShapesRight, SmallSeqs DEF AgendaRight, StatsTyped
  <2> QED BY <2>1, <2>2
<1>8. DOMAIN target' = {} /\ TargetsRight(target')
  <2>1. DOMAIN target' = {}
    BY <1>2
  <2> QED BY <2>1, FS_EmptySet DEF TargetsRight
<1>9. QueuesRight' /\ StatsTyped' /\ Unopened' /\ PathRight' /\ refs' = Cardinality(started')
  <2>1. QueuesRight'
    BY <1>1, <1>2, <1>7 DEF QueuesRight
  <2>2. StatsTyped'
    BY <1>1, <1>2, <1>6, <1>7 DEF StatsTyped
  <2>3. Unopened'
    BY <1>2, <1>5, <1>7, <1>8 DEF Unopened
  <2> QED BY <1>1, <1>2, <2>1, <2>2, <2>3 DEF PathRight
<1>10. ASSUME NEW w \in Stats PROVE WatcherKept(w)'
  <2>1. WatcherKept(w) /\ \A op : ~Planned(op, w)
    BY <1>1, <1>2, InRight DEF Planned
  <2>2. w \in started => w \in timers' \/ Planned("addLast", w)'
    <3>1. CASE w \in Stat!Hashed
      BY <1>7, <3>1
    <3>2. CASE w \notin Stat!Hashed
      BY <1>7, <2>1, <3>2 DEF WatcherKept, Covered, Adding, Stat!Hashed
    <3> QED BY <3>1, <3>2
  <2>3. Covered(w)' /\ GoneTold(w)' /\ Looking(w)'
    BY <1>2, <1>5, <2>2 DEF Covered, GoneTold, Looking, Adding, ToLook
  <2>4. Reported(w)'
    BY <1>2, <2>1 DEF WatcherKept, Reported
  <2> QED BY <2>3, <2>4 DEF WatcherKept
<1> QED BY <1>7, <1>8, <1>9, <1>10 DEF StatKept
-----------------------------------------------------------------------------
(* What the stat watchers promise.                                         *)

LEMMA StatInitKept == ASSUME Stat!Init PROVE StatKept
<1>1. /\ fs \in FileSystems /\ changes = 0
      /\ dir \in {none, -1} /\ file \in {none, [ino |-> 0, ver |-> 0]} /\ (file # none => dir # none)
      /\ target = << >> /\ events = <<>> /\ fs_fd = "new" /\ batch = <<>> /\ visit = {} /\ agenda = <<>>
      /\ started = {} /\ timers = {} /\ fed = {} /\ refs = 0
      /\ wd = [w \in Stats |-> -1]
      /\ attr = [w \in Stats |-> [ino |-> 0, ver |-> 0, st_nlink |-> 0]] /\ told = attr
      /\ late = {} /\ overflowed = FALSE
  BY DEF Stat!Init, Stat!NoWd
<1>2. PathRight
  BY <1>1, StatConstants DEF PathRight
<1>3. DOMAIN target = {} /\ TargetsRight(target)
  <2>1. DOMAIN target = {}
    BY <1>1
  <2> QED BY <2>1, FS_EmptySet DEF TargetsRight
<1>4. QueuesRight /\ AgendaRight
  BY <1>1, SmallSeqs DEF QueuesRight, AgendaRight
<1>5. [ino |-> 0, ver |-> 0, st_nlink |-> 0] \in Stat!Attrs
  BY StatConstants DEF Stat!Attrs
<1>6. StatsTyped
  BY <1>1, <1>5, FS_EmptySet DEF StatsTyped, Stat!NoWd
<1>7. Unopened
  BY <1>1, <1>3 DEF Unopened
<1>8. refs = Cardinality(started)
  BY <1>1, FS_EmptySet
<1>9. ASSUME NEW w \in Stats PROVE WatcherKept(w)
  <2>1. w \notin started /\ ~(wd[w] > 0)
    BY <1>1
  <2> QED BY <2>1 DEF WatcherKept, Covered, GoneTold, Reported, Looking
<1> QED BY <1>2, <1>3, <1>4, <1>6, <1>7, <1>8, <1>9 DEF StatKept

LEMMA StatIdleKept == ASSUME StatKept, UNCHANGED Stat!vars PROVE StatKept'
<1>1. UNCHANGED <<fs, dir, file, changes, target, events, fs_fd, batch, visit, agenda, started, timers, wd, attr, fed,
                  refs, told, late, overflowed>>
  BY DEF Stat!vars, Stat!world, Stat!loop, Stat!state, Stat!history
<1>2. PathRight' /\ TargetsRight(target') /\ QueuesRight' /\ StatsTyped' /\ AgendaRight' /\ Unopened'
      /\ refs' = Cardinality(started')
  BY <1>1 DEF StatKept, PathRight, QueuesRight, StatsTyped, AgendaRight, Unopened
<1>3. ASSUME NEW w \in Stats PROVE WatcherKept(w)'
  <2>1. WatcherKept(w)
    BY DEF StatKept
  <2>2. Undisturbed(w) /\ WatchStep(w)
    <3>1. Coming(w) \subseteq Coming(w)' /\ (Overflowing => Overflowing')
      BY <1>1, SameQueues
    <3>2. \A op : Planned(op, w) => Planned(op, w)'
      BY <1>1 DEF Planned
    <3> QED BY <1>1, <3>1, <3>2 DEF Undisturbed, WatchStep
  <2>3. wd[w] \in Int /\ DOMAIN target \subseteq Stat!Wds
    BY DEF StatKept, StatsTyped, TargetsRight, Stat!Wds, Stat!NoWd, Stat!GoneWd
  <2> QED BY <1>1, <2>1, <2>2, <2>3, OtherKept
<1> QED BY <1>2, <1>3 DEF StatKept

LEMMA StatStepsKept == ASSUME StatKept, [Stat!Next]_(Stat!vars) PROVE StatKept'
<1>1. CASE Stat!World
  BY <1>1, ModifyKept, CreateKept, RemoveKept, MoveAwayKept, DirectoryKept DEF Stat!World
<1>2. CASE Stat!InfyCb \/ Stat!NextEvent \/ Stat!InfyFork
  BY <1>2, InfyCbKept, NextEventKept, InfyForkKept
<1>3. ASSUME NEW w \in Stats, Stat!Loop(w) \/ Stat!StatStart(w) \/ Stat!StatStop(w) PROVE StatKept'
  <2>1. CASE Stat!Add(w) \/ Stat!AddLast(w) \/ Stat!Del(w) \/ Stat!Check(w) \/ Stat!Stat(w)
    BY <2>1, AddKept, AddLastKept, DelKept, CheckKept, StatStepKept
  <2>2. CASE Stat!InfyWd(w) \/ Stat!TimerExpires(w) \/ Stat!Invoke(w) \/ Stat!StatStart(w) \/ Stat!StatStop(w)
    BY <2>2, InfyWdKept, TimerExpiresKept, StatInvokeKept, StatStartKept, StatStopKept
  <2> QED BY <1>3, <2>1, <2>2 DEF Stat!Loop
<1> QED BY <1>1, <1>2, <1>3, StatIdleKept DEF Stat!Next

LEMMA StatAlwaysKept == StatSpec => []StatKept
<1>1. Stat!Init => StatKept
  BY StatInitKept
<1>2. StatKept /\ [Stat!Next]_(Stat!vars) => StatKept'
  BY StatStepsKept
<1> QED BY <1>1, <1>2, PTL DEF StatSpec, Stat!Spec

\* Whatever the files do, and however events, timers and forks mix: a stat watcher that
\* runs has a watch or a timer to look at its path, one that does not run has neither,
\* and the inner timers keep no loop alive (ev.c:4500-4507, 4751, 4785).
THEOREM PathsWatchedHolds == StatSpec => []PathsWatched
<1>1. ASSUME StatKept PROVE PathsWatched
  <2>1. /\ PathRight /\ TargetsRight(target) /\ QueuesRight /\ StatsTyped /\ Unopened
        /\ refs = Cardinality(started) /\ \A w \in Stats : WatcherKept(w)
    BY <1>1 DEF StatKept
  <2>2. \A e \in Stat!Range(events) \cup Stat!Range(batch) : e \in Events
    BY <2>1 DEF QueuesRight, Stat!Range
  <2>3. Stat!TypeOK
    BY <2>1, <2>2 DEF Stat!TypeOK, Events, PathRight, TargetsRight, StatsTyped
  <2>4. Stat!Cardinality(started) = Cardinality(started)
    BY DEF Stat!Cardinality, Stat!IsFiniteSet, Cardinality, IsFiniteSet
  <2>5. ASSUME agenda = <<>>, NEW w \in started PROVE w \in timers \/ w \in Stat!Hashed
    <3>1. w \in Stats /\ ~Planned("add", w) /\ ~Planned("addLast", w)
      BY <2>1, <2>5, InRight DEF Planned, StatsTyped
    <3> QED BY <2>1, <3>1 DEF WatcherKept, Covered, Adding, Stat!Hashed
  <2>6. timers \cup Stat!Hashed \subseteq started
    BY <2>1 DEF WatcherKept, Covered, Stat!Hashed, StatsTyped
  <2>7. fs_fd # "open" => Stat!Hashed = {} /\ DOMAIN target = {}
    <3> SUFFICES ASSUME fs_fd # "open" PROVE Stat!Hashed = {} /\ DOMAIN target = {}
      OBVIOUS
    <3>1. (\A w \in Stats : wd[w] < 0) /\ DOMAIN target = {}
      BY <2>1 DEF Unopened
    <3>2. \A w \in Stats : wd[w] \in Int
      BY <2>1 DEF StatsTyped, Stat!Wds, Stat!NoWd, Stat!GoneWd
    <3> QED BY <3>1, <3>2 DEF Stat!Hashed
  <2> QED BY <2>1, <2>3, <2>4, <2>5, <2>6, <2>7 DEF PathsWatched, Stat!StatInv
<1> QED BY <1>1, StatAlwaysKept, PTL

\* When nothing is left to do, each stat watcher has seen the file as it is and told its
\* callback, or has a timer that will look again, but for the three races that are lost
\* (ev.c:4549-4554, 4714-4721).
THEOREM ChangesSeenHolds == StatSpec => []ChangesSeen
<1>1. ASSUME StatKept PROVE ChangesSeen
  <2> SUFFICES ASSUME Stat!Idle, events = <<>>, NEW w \in started
               PROVE  /\ \/ Stat!Current(w) \/ w \in timers
                         \/ w \in late \/ (overflowed /\ Stat!Deaf(w))
                      /\ told[w] = attr[w] \/ w \in fed
    BY DEF ChangesSeen, Stat!ChangesReported
  <2>1. w \in Stats /\ WatcherKept(w) /\ agenda = <<>> /\ batch = <<>>
    BY <1>1 DEF StatKept, StatsTyped, Stat!Idle
  <2>2. \A op : ~Planned(op, w)
    BY <2>1, InRight DEF Planned
  <2>3. Coming(w) = {} /\ (Overflowing => overflowed)
    <3>1. Len(events) = 0 /\ Len(batch) = 0
      BY <2>1
    <3> QED BY <3>1 DEF Coming, Overflowing
  <2>4. told[w] = attr[w] \/ w \in fed
    BY <2>1, <2>2 DEF WatcherKept, Reported
  <2> QED BY <2>1, <2>2, <2>3, <2>4 DEF WatcherKept, Looking, Heard, ToLook
<1> QED BY <1>1, StatAlwaysKept, PTL
-----------------------------------------------------------------------------
(* Signals and child processes: the inductive invariant.                   *)

Structures == SigWatchers \cup Childs \cup Asyncs \cup {pipe_w, childev}

Once(s) == \A k, m \in 1 .. Len(s) : s[k] = s[m] => k = m

\* Nothing is in the pending queues twice.
QueueRight(q) ==
    /\ q \in [max : Seq(Structures), low : Seq(Structures)]
    /\ Once(q.max) /\ Once(q.low)
    /\ \A k \in 1 .. Len(q.max), m \in 1 .. Len(q.low) : q.max[k] # q.low[m]

\* childev is called after the child watchers that are pending.
ChildsAfter(q) ==
    /\ \A m \in 1 .. Len(q.low) : q.low[m] \notin Childs
    /\ \A k \in 1 .. Len(q.max) : q.max[k] \in Childs => \E m \in 1 .. Len(q.max) : m < k /\ q.max[m] = childev

SignalsTyped ==
    /\ attached \cup flag \cup owed \cup raised \subseteq Sig!Signal
    /\ action \in [Sig!Signal -> {"dfl", "ev_sighandler"}]
    /\ pipe \in {"none", "empty", "full"}
    /\ pri \in [Childs -> {"max", "low"}]
    /\ report \in [Pids -> {"none", "stop", "exit"}]
    /\ default \in BOOLEAN /\ skipped \in BOOLEAN /\ postfork \in BOOLEAN

\* The watchers that are started; childev is, and stays, in the default loop.
ListsRight ==
    /\ head \in [Sig!Signal -> Seq(SigWatchers \cup {childev})]
    /\ \A s \in Sig!Signal : \A x \in Sig!Range(head[s]) :
         \/ x \in SigWatchers /\ SignalOf[x] = s
         \/ x = childev /\ s = "CHLD" /\ default
    /\ default => childev \in Sig!Range(head["CHLD"])
    /\ childs \in [0 .. HashSize - 1 -> Seq(Childs)]
    /\ asyncs \in Seq(Asyncs) /\ Once(asyncs)

\* A signal is caught only while it has watchers, the loop is told only when it has a
\* pipe, and only the default loop has children.
CaughtRight ==
    /\ owed \subseteq attached
    /\ wake # {} => pipe # "none"
    /\ ~default => \A p \in Pids : report[p] = "none"

\* The table and the kernel agree, its watchers have a pipe, and what is pending is started.
TableRight ==
    \A s \in Sig!Signal : /\ (s \in attached <=> head[s] # <<>>)
                         /\ (s \in attached <=> action[s] = "ev_sighandler")
PipeRight == attached # {} \/ asyncs # <<>> => pipe # "none"
PendingStarted == \A x \in Sig!Pending(queue) : x = pipe_w \/ x \in Sig!Started

SigKept ==
    /\ SignalsTyped /\ ListsRight /\ CaughtRight
    /\ QueueRight(queue) /\ ChildsAfter(queue)
    /\ TableRight /\ PipeRight /\ PendingStarted
    /\ Sig!SignalsNoticed /\ Sig!ZombiesSeen
-----------------------------------------------------------------------------
(* Parts of sequences, and the queues.                                     *)

LEMMA SigCardinality == \A S : Sig!Cardinality(S) = Cardinality(S)
BY DEF Sig!Cardinality, Sig!IsFiniteSet, Cardinality, IsFiniteSet

LEMMA RangeRight ==
    ASSUME NEW S, NEW s \in Seq(S)
    PROVE  /\ \A x : x \in Sig!Range(s) <=> \E k \in 1 .. Len(s) : s[k] = x
           /\ Sig!Range(s) \subseteq S
<1>1. DOMAIN s = 1 .. Len(s) /\ \A k \in 1 .. Len(s) : s[k] \in S
  OBVIOUS
<1> QED BY <1>1 DEF Sig!Range

\* The places of a set of numbers, from the smallest up: the k-th has k that are not
\* larger.
LEMMA NthRight ==
    ASSUME NEW I, I \subseteq Nat, IsFiniteSet(I), NEW n, n = Cardinality(I)
    PROVE  /\ n \in Nat
           /\ \A k \in 1 .. n : Sig!Nth(I, k) \in I
           /\ \A i \in I : \E k \in 1 .. n : Sig!Nth(I, k) = i
           /\ \A k, m \in 1 .. n : k < m => Sig!Nth(I, k) < Sig!Nth(I, m)
<1>1. n \in Nat
  BY FS_CardinalityType
<1>2. PICK rank : rank = [i \in I |-> Cardinality({j \in I : j <= i})]
  OBVIOUS
<1>3. ASSUME NEW i \in I, NEW j \in I, i < j PROVE rank[i] \in 1 .. n /\ rank[j] \in 1 .. n /\ rank[i] < rank[j]
  <2>1. PICK A, B : A = {x \in I : x <= i} /\ B = {x \in I : x <= j}
    OBVIOUS
  <2> i \in Nat /\ j \in Nat /\ \A x \in I : x \in Nat
    OBVIOUS
  <2>5. i \in A /\ j \in B /\ j \notin A /\ B \in SUBSET I
    BY <1>3, <2>1
  <2>6. \A x : x \in A => x \in B
    BY <1>3, <2>1
  <2>2. A \in SUBSET B /\ B \in SUBSET I /\ i \in A /\ j \in B /\ j \notin A
    BY <2>5, <2>6
  <2>3. IsFiniteSet(B) /\ Cardinality(B) \in Nat /\ Cardinality(B) <= n
    BY <2>2, FS_Subset, FS_CardinalityType
  <2>4. IsFiniteSet(A) /\ Cardinality(A) \in Nat /\ Cardinality(A) <= Cardinality(B)
        /\ (Cardinality(A) = Cardinality(B) => A = B)
    BY <2>2, <2>3, FS_Subset, FS_CardinalityType
  <2>7. Cardinality(A) # 0
    BY <2>2, <2>4, FS_EmptySet
  <2> QED BY <1>1, <1>2, <2>1, <2>2, <2>3, <2>4, <2>7
<1>4. \A i \in I : rank[i] \in 1 .. n
  <2> SUFFICES ASSUME NEW i \in I PROVE rank[i] \in 1 .. n
    OBVIOUS
  <2>1. PICK A : A = {x \in I : x <= i}
    OBVIOUS
  <2>2. A \in SUBSET I /\ i \in A
    BY <2>1
  <2>3. IsFiniteSet(A) /\ Cardinality(A) \in Nat /\ Cardinality(A) <= n
    BY <2>2, FS_Subset, FS_CardinalityType
  <2>4. Cardinality(A) # 0
    BY <2>2, <2>3, FS_EmptySet
  <2> QED BY <1>1, <1>2, <2>1, <2>3, <2>4
<1>5. \A i, j \in I : rank[i] = rank[j] => i = j
  <2> SUFFICES ASSUME NEW i \in I, NEW j \in I, rank[i] = rank[j], i # j PROVE FALSE
    OBVIOUS
  <2>1. i < j \/ j < i
    OBVIOUS
  <2> QED BY <1>3, <2>1
<1>6. rank \in Injection(I, 1 .. n)
  BY <1>2, <1>4, <1>5 DEF Injection, IsInjective
<1>7. IsFiniteSet(1 .. n) /\ Cardinality(1 .. n) = n
  BY <1>1, FS_Interval
<1>8. rank \in Surjection(I, 1 .. n)
  BY <1>6, <1>7, FS_Injection
<1>9. \A k \in 1 .. n : \E i \in I : rank[i] = k
  BY <1>8 DEF Surjection
<1>10. \A k : Sig!Nth(I, k) = CHOOSE i \in I : rank[i] = k
  <2>1. \A i \in I : rank[i] = Cardinality({j \in I : j <= i})
    BY <1>2
  <2> SUFFICES ASSUME NEW k PROVE (CHOOSE i \in I : Sig!Cardinality({j \in I : j <= i}) = k) = CHOOSE i \in I : rank[i] = k
    BY DEF Sig!Nth
  <2>2. \A i : (i \in I /\ Sig!Cardinality({j \in I : j <= i}) = k) <=> (i \in I /\ rank[i] = k)
    BY <2>1, SigCardinality
  <2> QED BY <2>2, Zenon
<1>11. \A k \in 1 .. n : Sig!Nth(I, k) \in I /\ rank[Sig!Nth(I, k)] = k
  BY <1>9, <1>10
<1>12. \A k, m \in 1 .. n : k < m => Sig!Nth(I, k) < Sig!Nth(I, m)
  <2> SUFFICES ASSUME NEW k \in 1 .. n, NEW m \in 1 .. n, k < m, ~(Sig!Nth(I, k) < Sig!Nth(I, m)) PROVE FALSE
    OBVIOUS
  <2>1. PICK i \in I, j \in I : i = Sig!Nth(I, k) /\ j = Sig!Nth(I, m) /\ rank[i] = k /\ rank[j] = m
    BY <1>11
  <2>2. i = j \/ j < i
    BY <2>1
  <2> QED BY <1>1, <1>3, <2>1, <2>2
<1>13. \A i \in I : \E k \in 1 .. n : Sig!Nth(I, k) = i
  BY <1>4, <1>5, <1>11
<1> QED BY <1>1, <1>11, <1>12, <1>13

\* t has the elements of s at the places in I, in their order.
PartOf(t, s, I) ==
    /\ \A k \in 1 .. Len(t) : \E i \in I : t[k] = s[i]
    /\ \A i \in I : \E k \in 1 .. Len(t) : t[k] = s[i]
    /\ \A i, j \in I : i < j => \E k, m \in 1 .. Len(t) : k < m /\ t[k] = s[i] /\ t[m] = s[j]
    /\ (\A i, j \in I : s[i] = s[j] => i = j) => Once(t)

LEMMA PickedRight ==
    ASSUME NEW S, NEW s \in Seq(S), NEW I \in SUBSET (1 .. Len(s)), NEW t, t = Sig!Picked(s, I)
    PROVE  t \in Seq(S) /\ PartOf(t, s, I)
<1>1. PICK n : n = Cardinality(I)
  OBVIOUS
<1>2. IsFiniteSet(I) /\ I \subseteq Nat /\ Len(s) \in Nat
  <2>1. Len(s) \in Nat
    OBVIOUS
  <2>2. IsFiniteSet(1 .. Len(s)) /\ I \in SUBSET (1 .. Len(s))
    BY <2>1, FS_Interval
  <2>3. IsFiniteSet(I)
    BY <2>2, FS_Subset
  <2> QED BY <2>1, <2>3
<1>3. /\ n \in Nat
      /\ \A k \in 1 .. n : Sig!Nth(I, k) \in I
      /\ \A i \in I : \E k \in 1 .. n : Sig!Nth(I, k) = i
      /\ \A k, m \in 1 .. n : k < m => Sig!Nth(I, k) < Sig!Nth(I, m)
  BY <1>1, <1>2, NthRight
<1>4. t = [k \in 1 .. n |-> s[Sig!Nth(I, k)]]
  BY <1>1, SigCardinality DEF Sig!Picked
<1>5. \A i \in I : s[i] \in S
  OBVIOUS
<1>6. \A k \in 1 .. n : t[k] = s[Sig!Nth(I, k)] /\ t[k] \in S
  BY <1>3, <1>4, <1>5
<1>7. t \in Seq(S) /\ Len(t) = n
  BY <1>3, <1>4, <1>6
<1>8. \A k \in 1 .. Len(t) : \E i \in I : t[k] = s[i]
  BY <1>3, <1>6, <1>7
<1>9. \A i \in I : \E k \in 1 .. Len(t) : t[k] = s[i]
  BY <1>3, <1>6, <1>7
<1>10. ASSUME NEW i \in I, NEW j \in I, i < j PROVE \E k, m \in 1 .. Len(t) : k < m /\ t[k] = s[i] /\ t[m] = s[j]
  <2>1. PICK k \in 1 .. n, m \in 1 .. n : Sig!Nth(I, k) = i /\ Sig!Nth(I, m) = j
    BY <1>3
  <2>2. k < m
    <3>1. k = m \/ m < k \/ k < m
      BY <1>3
    <3>2. CASE m < k
      <4>1. j < i
        BY <1>3, <2>1, <3>2
      <4> QED BY <1>2, <1>10, <4>1
    <3> QED BY <1>2, <1>10, <2>1, <3>1, <3>2
  <2> QED BY <1>6, <1>7, <2>1, <2>2
<1>11. ASSUME \A i, j \in I : s[i] = s[j] => i = j PROVE Once(t)
  <2> SUFFICES ASSUME NEW k \in 1 .. n, NEW m \in 1 .. n, t[k] = t[m], k # m PROVE FALSE
    BY <1>7 DEF Once
  <2>1. Sig!Nth(I, k) = Sig!Nth(I, m)
    <3>1. PICK i \in I, j \in I : i = Sig!Nth(I, k) /\ j = Sig!Nth(I, m)
      BY <1>3
    <3>2. s[i] = s[j]
      BY <1>6, <3>1
    <3> QED BY <1>11, <3>1, <3>2
  <2>2. k < m \/ m < k
    BY <1>3
  <2>3. Sig!Nth(I, k) \in Nat /\ Sig!Nth(I, m) \in Nat
    BY <1>2, <1>3
  <2> QED BY <1>3, <2>1, <2>2, <2>3
<1> QED BY <1>7, <1>8, <1>9, <1>10, <1>11 DEF PartOf


\* t is what is left of s without w.
LeftOf(t, s, w) ==
    /\ \A x : x \in Sig!Range(t) <=> x \in Sig!Range(s) /\ x # w
    /\ \A i, j \in 1 .. Len(s) : i < j /\ s[i] # w /\ s[j] # w =>
         \E k, m \in 1 .. Len(t) : k < m /\ t[k] = s[i] /\ t[m] = s[j]
    /\ Once(s) => Once(t)

LEMMA DroppedRight ==
    ASSUME NEW S, NEW s \in Seq(S), NEW w, NEW t, t = Sig!Dropped(s, w)
    PROVE  t \in Seq(S) /\ LeftOf(t, s, w)
<1>1. PICK I : I = {i \in 1 .. Len(s) : s[i] # w}
  OBVIOUS
<1>2. I \in SUBSET (1 .. Len(s)) /\ t = Sig!Picked(s, I)
  <2>1. DOMAIN s = 1 .. Len(s)
    OBVIOUS
  <2> QED BY <1>1, <2>1 DEF Sig!Dropped
<1>9. t \in Seq(S) /\ PartOf(t, s, I)
  BY <1>2, PickedRight
<1>3. /\ t \in Seq(S)
      /\ \A k \in 1 .. Len(t) : \E i \in I : t[k] = s[i]
      /\ \A i \in I : \E k \in 1 .. Len(t) : t[k] = s[i]
      /\ \A i, j \in I : i < j => \E k, m \in 1 .. Len(t) : k < m /\ t[k] = s[i] /\ t[m] = s[j]
      /\ (\A i, j \in I : s[i] = s[j] => i = j) => Once(t)
  BY <1>9 DEF PartOf
<1>4. \A i : i \in I <=> i \in 1 .. Len(s) /\ s[i] # w
  BY <1>1
<1>5. \A x : x \in Sig!Range(t) <=> \E k \in 1 .. Len(t) : t[k] = x
  BY <1>3, RangeRight
<1>6. \A x : x \in Sig!Range(s) <=> \E k \in 1 .. Len(s) : s[k] = x
  BY RangeRight
<1>7. \A x : x \in Sig!Range(t) <=> x \in Sig!Range(s) /\ x # w
  <2>1. ASSUME NEW x, x \in Sig!Range(t) PROVE x \in Sig!Range(s) /\ x # w
    <3>1. PICK k \in 1 .. Len(t) : t[k] = x
      BY <1>5, <2>1
    <3>2. PICK i \in I : t[k] = s[i]
      BY <1>3
    <3> QED BY <1>4, <1>6, <3>1, <3>2
  <2>2. ASSUME NEW x, x \in Sig!Range(s), x # w PROVE x \in Sig!Range(t)
    <3>1. PICK i \in 1 .. Len(s) : s[i] = x
      BY <1>6, <2>2
    <3>2. i \in I
      BY <1>4, <2>2, <3>1
    <3> QED BY <1>3, <1>5, <3>1, <3>2
  <2> QED BY <2>1, <2>2
<1>8. Once(s) => Once(t)
  <2> SUFFICES ASSUME Once(s) PROVE \A i, j \in I : s[i] = s[j] => i = j
    BY <1>3
  <2> SUFFICES ASSUME NEW i \in I, NEW j \in I, s[i] = s[j] PROVE i = j
    OBVIOUS
  <2>1. i \in 1 .. Len(s) /\ j \in 1 .. Len(s)
    BY <1>4
  <2> QED BY <2>1 DEF Once
<1>10. ASSUME NEW i \in 1 .. Len(s), NEW j \in 1 .. Len(s), i < j, s[i] # w, s[j] # w
       PROVE  \E k, m \in 1 .. Len(t) : k < m /\ t[k] = s[i] /\ t[m] = s[j]
  <2>1. i \in I /\ j \in I
    BY <1>4, <1>10
  <2> QED BY <1>3, <1>10, <2>1
<1> QED BY <1>7, <1>8, <1>9, <1>10 DEF LeftOf

LEMMA ChosenRight ==
    ASSUME NEW S, NEW s \in Seq(S), NEW T, NEW t, t = Sig!Chosen(s, T)
    PROVE  /\ t \in Seq(S)
           /\ \A x : x \in Sig!Range(t) <=> x \in Sig!Range(s) /\ x \in T
<1>1. PICK I : I = {i \in 1 .. Len(s) : s[i] \in T}
  OBVIOUS
<1>2. I \in SUBSET (1 .. Len(s)) /\ t = Sig!Picked(s, I)
  <2>1. DOMAIN s = 1 .. Len(s)
    OBVIOUS
  <2> QED BY <1>1, <2>1 DEF Sig!Chosen
<1>9. t \in Seq(S) /\ PartOf(t, s, I)
  BY <1>2, PickedRight
<1>3. /\ t \in Seq(S)
      /\ \A k \in 1 .. Len(t) : \E i \in I : t[k] = s[i]
      /\ \A i \in I : \E k \in 1 .. Len(t) : t[k] = s[i]
  BY <1>9 DEF PartOf
<1>4. \A i : i \in I <=> i \in 1 .. Len(s) /\ s[i] \in T
  BY <1>1
<1>5. \A x : x \in Sig!Range(t) <=> \E k \in 1 .. Len(t) : t[k] = x
  BY <1>3, RangeRight
<1>6. \A x : x \in Sig!Range(s) <=> \E k \in 1 .. Len(s) : s[k] = x
  BY RangeRight
<1>7. \A x : x \in Sig!Range(t) <=> x \in Sig!Range(s) /\ x \in T
  <2>1. ASSUME NEW x, x \in Sig!Range(t) PROVE x \in Sig!Range(s) /\ x \in T
    <3>1. PICK k \in 1 .. Len(t) : t[k] = x
      BY <1>5, <2>1
    <3>2. PICK i \in I : t[k] = s[i]
      BY <1>3
    <3> QED BY <1>4, <1>6, <3>1, <3>2
  <2>2. ASSUME NEW x, x \in Sig!Range(s), x \in T PROVE x \in Sig!Range(t)
    <3>1. PICK i \in 1 .. Len(s) : s[i] = x
      BY <1>6, <2>2
    <3>2. i \in I
      BY <1>4, <2>2, <3>1
    <3> QED BY <1>3, <1>5, <3>1, <3>2
  <2> QED BY <2>1, <2>2
<1> QED BY <1>3, <1>7

LEMMA PendingRight ==
    ASSUME NEW q, QueueRight(q)
    PROVE  \A x : x \in Sig!Pending(q) <=>
             \/ \E k \in 1 .. Len(q.max) : q.max[k] = x
             \/ \E k \in 1 .. Len(q.low) : q.low[k] = x
<1>1. q.max \in Seq(Structures) /\ q.low \in Seq(Structures)
  BY DEF QueueRight
<1>2. \A x : x \in Sig!Range(q.max) <=> \E k \in 1 .. Len(q.max) : q.max[k] = x
  BY <1>1, RangeRight
<1>3. \A x : x \in Sig!Range(q.low) <=> \E k \in 1 .. Len(q.low) : q.low[k] = x
  BY <1>1, RangeRight
<1> QED BY <1>2, <1>3 DEF Sig!Pending

LEMMA WithoutRight ==
    ASSUME NEW q, QueueRight(q), NEW w, NEW r, r = Sig!Without(q, w)
    PROVE  /\ QueueRight(r)
           /\ \A x : x \in Sig!Pending(r) <=> x \in Sig!Pending(q) /\ x # w
           /\ ChildsAfter(q) /\ w # childev => ChildsAfter(r)
           /\ ChildsAfter(q) => \A m \in 1 .. Len(r.low) : r.low[m] \notin Childs
<1>1. /\ q.max \in Seq(Structures) /\ q.low \in Seq(Structures) /\ Once(q.max) /\ Once(q.low)
      /\ \A k \in 1 .. Len(q.max), m \in 1 .. Len(q.low) : q.max[k] # q.low[m]
  BY DEF QueueRight
<1>2. PICK a, b : a = Sig!Dropped(q.max, w) /\ b = Sig!Dropped(q.low, w)
  OBVIOUS
<1>3. r = [max |-> a, low |-> b]
  BY <1>2 DEF Sig!Without
<1>13. a \in Seq(Structures) /\ LeftOf(a, q.max, w) /\ b \in Seq(Structures) /\ LeftOf(b, q.low, w)
  BY <1>1, <1>2, DroppedRight
<1>4. /\ a \in Seq(Structures)
      /\ \A x : x \in Sig!Range(a) <=> x \in Sig!Range(q.max) /\ x # w
      /\ \A i, j \in 1 .. Len(q.max) : i < j /\ q.max[i] # w /\ q.max[j] # w =>
            \E k, m \in 1 .. Len(a) : k < m /\ a[k] = q.max[i] /\ a[m] = q.max[j]
      /\ Once(a)
  BY <1>1, <1>13 DEF LeftOf
<1>5. /\ b \in Seq(Structures)
      /\ \A x : x \in Sig!Range(b) <=> x \in Sig!Range(q.low) /\ x # w
      /\ Once(b)
  BY <1>1, <1>13 DEF LeftOf
<1>14. /\ \A x : x \in Sig!Range(q.max) <=> \E k \in 1 .. Len(q.max) : q.max[k] = x
       /\ \A x : x \in Sig!Range(q.low) <=> \E k \in 1 .. Len(q.low) : q.low[k] = x
  BY <1>1, RangeRight
<1>15. /\ \A x : x \in Sig!Range(a) <=> \E k \in 1 .. Len(a) : a[k] = x
       /\ \A x : x \in Sig!Range(b) <=> \E k \in 1 .. Len(b) : b[k] = x
  BY <1>13, RangeRight
<1>6. /\ \A x : x \in Sig!Range(q.max) <=> \E k \in 1 .. Len(q.max) : q.max[k] = x
      /\ \A x : x \in Sig!Range(q.low) <=> \E k \in 1 .. Len(q.low) : q.low[k] = x
      /\ \A x : x \in Sig!Range(a) <=> \E k \in 1 .. Len(a) : a[k] = x
      /\ \A x : x \in Sig!Range(b) <=> \E k \in 1 .. Len(b) : b[k] = x
  BY <1>14, <1>15
<1>7. ASSUME NEW k \in 1 .. Len(a), NEW m \in 1 .. Len(b) PROVE a[k] # b[m]
  <2>1. PICK i \in 1 .. Len(q.max) : q.max[i] = a[k]
    BY <1>4, <1>6
  <2>2. PICK j \in 1 .. Len(q.low) : q.low[j] = b[m]
    BY <1>5, <1>6
  <2> QED BY <1>1, <2>1, <2>2
<1>8. QueueRight(r)
  BY <1>3, <1>4, <1>5, <1>7 DEF QueueRight
<1>9. r.max = a /\ r.low = b
  BY <1>3
<1>10. \A x : x \in Sig!Pending(r) <=> x \in Sig!Pending(q) /\ x # w
  BY <1>4, <1>5, <1>9 DEF Sig!Pending
<1>11. ASSUME ChildsAfter(q) PROVE \A m \in 1 .. Len(b) : b[m] \notin Childs
  BY <1>5, <1>6, <1>11 DEF ChildsAfter
<1>12. ASSUME ChildsAfter(q), w # childev PROVE ChildsAfter(r)
  <2>1. ASSUME NEW k \in 1 .. Len(a), a[k] \in Childs PROVE \E m \in 1 .. Len(a) : m < k /\ a[m] = childev
    <3>1. PICK j \in 1 .. Len(q.max) : q.max[j] = a[k]
      BY <1>4, <1>6, <2>1
    <3>2. a[k] # w
      BY <1>4, <1>6, <2>1
    <3>3. PICK i \in 1 .. Len(q.max) : i < j /\ q.max[i] = childev
      BY <1>12, <2>1, <3>1 DEF ChildsAfter
    <3>4. PICK kk \in 1 .. Len(a), m \in 1 .. Len(a) : kk < m /\ a[kk] = q.max[i] /\ a[m] = q.max[j]
      BY <1>4, <1>12, <3>1, <3>2, <3>3
    <3>5. m = k
      BY <1>4, <3>1, <3>4 DEF Once
    <3> QED BY <3>3, <3>4, <3>5
  <2> QED BY <1>9, <1>11, <1>12, <2>1 DEF ChildsAfter
<1> QED BY <1>8, <1>9, <1>10, <1>11, <1>12

\* When childev is the next to be called no child watcher is pending.
LEMMA ChildevLast ==
    ASSUME QueueRight(queue), ChildsAfter(queue), Sig!Called(childev)
    PROVE  \A x \in Sig!Pending(queue) : x \notin Childs
<1>1. queue.max \in Seq(Structures) /\ queue.low \in Seq(Structures) /\ Once(queue.max)
  BY DEF QueueRight
<1>2. SUFFICES ASSUME NEW k \in 1 .. Len(queue.max), queue.max[k] \in Childs PROVE FALSE
  BY PendingRight DEF ChildsAfter
<1>3. queue.max # <<>>
  BY <1>1
<1>4. childev = queue.max[Len(queue.max)]
  BY <1>3 DEF Sig!Called, Sig!Last
<1>5. PICK m \in 1 .. Len(queue.max) : m < k /\ queue.max[m] = childev
  BY <1>2 DEF ChildsAfter
<1>6. Len(queue.max) \in 1 .. Len(queue.max)
  BY <1>1
<1>7. m = Len(queue.max)
  BY <1>1, <1>4, <1>5, <1>6 DEF Once
<1> QED BY <1>5, <1>7


LEMMA FirstPlace ==
    ASSUME NEW S, NEW s \in Seq(S), NEW x \in Sig!Range(s)
    PROVE  \E i \in 1 .. Len(s) : s[i] = x /\ \A j \in 1 .. i - 1 : s[j] # x
<1>1. PICK I : I = {i \in 1 .. Len(s) : s[i] = x}
  OBVIOUS
<1>2. Len(s) \in Nat
  OBVIOUS
<1>3. I # {}
  BY <1>1, RangeRight
<1>4. I \in SUBSET (1 .. Len(s)) /\ IsFiniteSet(1 .. Len(s))
  BY <1>1, <1>2, FS_Interval
<1>10. IsFiniteSet(I)
  BY <1>4, FS_Subset
<1>5. I \in SUBSET Int /\ IsFiniteSet(I)
  BY <1>4, <1>10
<1>6. PICK m : m = Min(I)
  OBVIOUS
<1>7. m \in I /\ \A y \in I : m <= y
  BY <1>3, <1>5, <1>6, MinExists
<1>8. m \in 1 .. Len(s) /\ s[m] = x
  BY <1>1, <1>7
<1>9. ASSUME NEW j \in 1 .. m - 1, s[j] = x PROVE FALSE
  <2>1. j \in 1 .. Len(s) /\ j < m
    BY <1>2, <1>8
  <2>2. j \in I
    BY <1>1, <1>9, <2>1
  <2> QED BY <1>7, <1>8, <2>1, <2>2
<1> QED BY <1>8, <1>9

\* c is a followed by b.
Joined(c, a, b) ==
    /\ Len(c) = Len(a) + Len(b) /\ Len(a) \in Nat /\ Len(b) \in Nat
    /\ \A k \in 1 .. Len(a) : k \in 1 .. Len(c) /\ c[k] = a[k]
    /\ \A k \in 1 .. Len(b) : Len(a) + k \in 1 .. Len(c) /\ c[Len(a) + k] = b[k]
    /\ \A x : x \in Sig!Range(c) <=> x \in Sig!Range(a) \/ x \in Sig!Range(b)
    /\ \A k \in 1 .. Len(c) : k > Len(a) => k - Len(a) \in 1 .. Len(b) /\ c[k] = b[k - Len(a)]

LEMMA JoinedRight ==
    ASSUME NEW S, NEW a \in Seq(S), NEW b \in Seq(S), NEW c, c = a \o b
    PROVE  c \in Seq(S) /\ Joined(c, a, b)
<1>1. c \in Seq(S) /\ Len(c) = Len(a) + Len(b) /\ Len(a) \in Nat /\ Len(b) \in Nat
  OBVIOUS
<1>2. \A k \in 1 .. Len(a) : k \in 1 .. Len(c) /\ c[k] = a[k]
  BY <1>1
<1>3. \A k \in 1 .. Len(b) : Len(a) + k \in 1 .. Len(c) /\ c[Len(a) + k] = b[k]
  BY <1>1
<1>4. \A k \in 1 .. Len(c) : k > Len(a) => k - Len(a) \in 1 .. Len(b) /\ c[k] = b[k - Len(a)]
  BY <1>1
<1>5. /\ \A x : x \in Sig!Range(a) <=> \E k \in 1 .. Len(a) : a[k] = x
      /\ \A x : x \in Sig!Range(b) <=> \E k \in 1 .. Len(b) : b[k] = x
      /\ \A x : x \in Sig!Range(c) <=> \E k \in 1 .. Len(c) : c[k] = x
  BY <1>1, RangeRight
<1>6. ASSUME NEW x, x \in Sig!Range(c) PROVE x \in Sig!Range(a) \/ x \in Sig!Range(b)
  <2>1. PICK k \in 1 .. Len(c) : c[k] = x
    BY <1>5, <1>6
  <2>2. CASE k > Len(a)
    BY <1>4, <1>5, <2>1, <2>2
  <2>3. CASE ~(k > Len(a))
    <3>1. k \in 1 .. Len(a)
      BY <1>1, <2>1, <2>3
    <3> QED BY <1>2, <1>5, <2>1, <3>1
  <2> QED BY <2>2, <2>3
<1>7. \A x : x \in Sig!Range(a) => x \in Sig!Range(c)
  BY <1>2, <1>5
<1>8. \A x : x \in Sig!Range(b) => x \in Sig!Range(c)
  BY <1>3, <1>5
<1> QED BY <1>1, <1>2, <1>3, <1>4, <1>6, <1>7, <1>8 DEF Joined

LEMMA OnceJoined ==
    ASSUME NEW S, NEW a \in Seq(S), NEW b \in Seq(S), NEW c, c = a \o b, Once(a), Once(b),
           \A x : ~(x \in Sig!Range(a) /\ x \in Sig!Range(b))
    PROVE  Once(c)
<1>7. c \in Seq(S) /\ Joined(c, a, b)
  BY JoinedRight
<1>1. /\ c \in Seq(S) /\ Len(c) = Len(a) + Len(b) /\ Len(a) \in Nat /\ Len(b) \in Nat
      /\ \A k \in 1 .. Len(a) : k \in 1 .. Len(c) /\ c[k] = a[k]
      /\ \A k \in 1 .. Len(c) : k > Len(a) => k - Len(a) \in 1 .. Len(b) /\ c[k] = b[k - Len(a)]
  BY <1>7 DEF Joined
<1>2. /\ \A k \in 1 .. Len(a) : a[k] \in Sig!Range(a)
      /\ \A k \in 1 .. Len(b) : b[k] \in Sig!Range(b)
  BY RangeRight
<1> SUFFICES ASSUME NEW k \in 1 .. Len(c), NEW m \in 1 .. Len(c), c[k] = c[m] PROVE k = m
  BY DEF Once
<1>3. CASE k > Len(a) /\ m > Len(a)
  <2>1. k - Len(a) = m - Len(a)
    BY <1>1, <1>3 DEF Once
  <2> QED BY <1>1, <2>1
<1>4. CASE ~(k > Len(a)) /\ ~(m > Len(a))
  <2>1. k \in 1 .. Len(a) /\ m \in 1 .. Len(a)
    BY <1>1, <1>4
  <2> QED BY <1>1, <2>1 DEF Once
<1>5. CASE k > Len(a) /\ ~(m > Len(a))
  <2>1. m \in 1 .. Len(a)
    BY <1>1, <1>5
  <2> QED BY <1>1, <1>2, <1>5, <2>1
<1>6. CASE ~(k > Len(a)) /\ m > Len(a)
  <2>1. k \in 1 .. Len(a)
    BY <1>1, <1>6
  <2> QED BY <1>1, <1>2, <1>6, <2>1
<1> QED BY <1>3, <1>4, <1>5, <1>6


\* r is q after ws have been fed.
Fed(r, q, ws, high) ==
    /\ \A x : x \in Sig!Pending(r) <=> x \in Sig!Pending(q) \/ x \in Sig!Range(ws)
    /\ \A k \in 1 .. Len(q.max) : k \in 1 .. Len(r.max) /\ r.max[k] = q.max[k]
    /\ \A k \in 1 .. Len(r.max) : k > Len(q.max) => r.max[k] \in Sig!Range(ws) /\ r.max[k] \in high
    /\ \A k \in 1 .. Len(r.low) : \/ k \in 1 .. Len(q.low) /\ r.low[k] = q.low[k]
                                  \/ r.low[k] \in Sig!Range(ws) /\ r.low[k] \notin high
    /\ ws # <<>> /\ ws[1] \notin Sig!Pending(q) /\ ws[1] \in high =>
         Len(q.max) + 1 \in 1 .. Len(r.max) /\ r.max[Len(q.max) + 1] = ws[1]

LEMMA FeedEventsRight ==
    ASSUME NEW q, QueueRight(q), NEW ws \in Seq(Structures), NEW high, NEW r, r = Sig!FeedEvents(q, ws, high)
    PROVE  QueueRight(r) /\ Fed(r, q, ws, high)
<1>1. /\ q.max \in Seq(Structures) /\ q.low \in Seq(Structures) /\ Once(q.max) /\ Once(q.low)
      /\ \A k \in 1 .. Len(q.max), m \in 1 .. Len(q.low) : q.max[k] # q.low[m]
  BY DEF QueueRight
<1>2. PICK N : N = {i \in 1 .. Len(ws) : ws[i] \notin Sig!Pending(q) /\ \A j \in 1 .. i - 1 : ws[j] # ws[i]}
  OBVIOUS
<1>3. PICK A, B : A = {i \in N : ws[i] \in high} /\ B = {i \in N : ws[i] \notin high}
  OBVIOUS
<1>4. PICK a, b : a = Sig!Picked(ws, A) /\ b = Sig!Picked(ws, B)
  OBVIOUS
<1>5. r = [max |-> q.max \o a, low |-> q.low \o b]
  <2>1. DOMAIN ws = 1 .. Len(ws)
    OBVIOUS
  <2> QED BY <1>2, <1>3, <1>4, <2>1 DEF Sig!FeedEvents
<1>6. \A i : i \in N <=> i \in 1 .. Len(ws) /\ ws[i] \notin Sig!Pending(q) /\ \A j \in 1 .. i - 1 : ws[j] # ws[i]
  BY <1>2
<1>7. /\ \A i : i \in A <=> i \in N /\ ws[i] \in high
      /\ \A i : i \in B <=> i \in N /\ ws[i] \notin high
  BY <1>3
<1>8. A \in SUBSET (1 .. Len(ws)) /\ B \in SUBSET (1 .. Len(ws)) /\ Len(ws) \in Nat
  BY <1>6, <1>7
<1>9. a \in Seq(Structures) /\ PartOf(a, ws, A) /\ b \in Seq(Structures) /\ PartOf(b, ws, B)
  BY <1>4, <1>8, PickedRight
<1>10. ASSUME NEW i \in N, NEW j \in N, ws[i] = ws[j] PROVE i = j
  <2>1. i \in 1 .. Len(ws) /\ j \in 1 .. Len(ws)
    BY <1>6
  <2>2. CASE i < j
    <3>1. i \in 1 .. j - 1
      BY <1>8, <2>1, <2>2
    <3> QED BY <1>6, <1>10, <3>1
  <2>3. CASE j < i
    <3>1. j \in 1 .. i - 1
      BY <1>8, <2>1, <2>3
    <3> QED BY <1>6, <1>10, <3>1
  <2> QED BY <1>8, <2>1, <2>2, <2>3
<1>11. Once(a) /\ Once(b)
  <2>1. \A i, j \in A : ws[i] = ws[j] => i = j
    BY <1>7, <1>10
  <2>2. \A i, j \in B : ws[i] = ws[j] => i = j
    BY <1>7, <1>10
  <2> QED BY <1>9, <2>1, <2>2 DEF PartOf
<1>12. /\ \A x : x \in Sig!Range(ws) <=> \E k \in 1 .. Len(ws) : ws[k] = x
       /\ \A x : x \in Sig!Range(a) <=> \E k \in 1 .. Len(a) : a[k] = x
       /\ \A x : x \in Sig!Range(b) <=> \E k \in 1 .. Len(b) : b[k] = x
       /\ \A x : x \in Sig!Range(q.max) <=> \E k \in 1 .. Len(q.max) : q.max[k] = x
       /\ \A x : x \in Sig!Range(q.low) <=> \E k \in 1 .. Len(q.low) : q.low[k] = x
  BY <1>1, <1>9, RangeRight
<1>13. ASSUME NEW x, x \in Sig!Range(a)
       PROVE  x \in Sig!Range(ws) /\ x \in high /\ x \notin Sig!Pending(q)
  <2>1. PICK k \in 1 .. Len(a) : a[k] = x
    BY <1>12, <1>13
  <2>2. PICK i \in A : a[k] = ws[i]
    BY <1>9 DEF PartOf
  <2> QED BY <1>6, <1>7, <1>12, <2>1, <2>2
<1>14. ASSUME NEW x, x \in Sig!Range(b)
       PROVE  x \in Sig!Range(ws) /\ x \notin high /\ x \notin Sig!Pending(q)
  <2>1. PICK k \in 1 .. Len(b) : b[k] = x
    BY <1>12, <1>14
  <2>2. PICK i \in B : b[k] = ws[i]
    BY <1>9 DEF PartOf
  <2> QED BY <1>6, <1>7, <1>12, <2>1, <2>2
<1>15. ASSUME NEW x \in Sig!Range(ws), x \notin Sig!Pending(q) PROVE x \in Sig!Range(a) \/ x \in Sig!Range(b)
  <2>1. PICK i \in 1 .. Len(ws) : ws[i] = x /\ \A j \in 1 .. i - 1 : ws[j] # x
    BY FirstPlace
  <2>2. i \in N
    BY <1>6, <1>15, <2>1
  <2>3. CASE x \in high
    <3>1. i \in A
      BY <1>7, <2>1, <2>2, <2>3
    <3>2. PICK k \in 1 .. Len(a) : a[k] = ws[i]
      BY <1>9, <3>1 DEF PartOf
    <3> QED BY <1>12, <2>1, <3>2
  <2>4. CASE x \notin high
    <3>1. i \in B
      BY <1>7, <2>1, <2>2, <2>4
    <3>2. PICK k \in 1 .. Len(b) : b[k] = ws[i]
      BY <1>9, <3>1 DEF PartOf
    <3> QED BY <1>12, <2>1, <3>2
  <2> QED BY <2>3, <2>4
<1>16. \A x : x \in Sig!Pending(q) <=> x \in Sig!Range(q.max) \/ x \in Sig!Range(q.low)
  BY DEF Sig!Pending
<1>17. PICK c, d : c = q.max \o a /\ d = q.low \o b
  OBVIOUS
<1>18. r.max = c /\ r.low = d /\ r = [max |-> c, low |-> d]
  BY <1>5, <1>17
<1>34. c \in Seq(Structures) /\ Joined(c, q.max, a) /\ d \in Seq(Structures) /\ Joined(d, q.low, b)
  BY <1>1, <1>9, <1>17, JoinedRight
<1>19. /\ c \in Seq(Structures) /\ Len(c) = Len(q.max) + Len(a) /\ Len(q.max) \in Nat /\ Len(a) \in Nat
       /\ \A k \in 1 .. Len(q.max) : k \in 1 .. Len(c) /\ c[k] = q.max[k]
       /\ \A k \in 1 .. Len(a) : Len(q.max) + k \in 1 .. Len(c) /\ c[Len(q.max) + k] = a[k]
       /\ \A x : x \in Sig!Range(c) <=> x \in Sig!Range(q.max) \/ x \in Sig!Range(a)
       /\ \A k \in 1 .. Len(c) : k > Len(q.max) =>
            k - Len(q.max) \in 1 .. Len(a) /\ c[k] = a[k - Len(q.max)]
  BY <1>34 DEF Joined
<1>20. /\ d \in Seq(Structures) /\ Len(d) = Len(q.low) + Len(b) /\ Len(q.low) \in Nat /\ Len(b) \in Nat
       /\ \A k \in 1 .. Len(q.low) : k \in 1 .. Len(d) /\ d[k] = q.low[k]
       /\ \A x : x \in Sig!Range(d) <=> x \in Sig!Range(q.low) \/ x \in Sig!Range(b)
       /\ \A k \in 1 .. Len(d) : k > Len(q.low) =>
            k - Len(q.low) \in 1 .. Len(b) /\ d[k] = b[k - Len(q.low)]
  BY <1>34 DEF Joined
<1>21. Once(c)
  <2>1. \A x : ~(x \in Sig!Range(q.max) /\ x \in Sig!Range(a))
    BY <1>13, <1>16
  <2> QED BY <1>1, <1>9, <1>11, <1>17, <2>1, OnceJoined
<1>22. Once(d)
  <2>1. \A x : ~(x \in Sig!Range(q.low) /\ x \in Sig!Range(b))
    BY <1>14, <1>16
  <2> QED BY <1>1, <1>9, <1>11, <1>17, <2>1, OnceJoined
<1>23. \A x : ~(x \in Sig!Range(q.max) /\ x \in Sig!Range(q.low))
  BY <1>1, <1>12
<1>24. ASSUME NEW x, x \in Sig!Range(c), x \in Sig!Range(d) PROVE FALSE
  BY <1>13, <1>14, <1>16, <1>19, <1>20, <1>23, <1>24
<1>25. /\ \A k \in 1 .. Len(c) : c[k] \in Sig!Range(c)
       /\ \A k \in 1 .. Len(d) : d[k] \in Sig!Range(d)
  BY <1>19, <1>20, RangeRight
<1>26. QueueRight(r)
  BY <1>18, <1>19, <1>20, <1>21, <1>22, <1>24, <1>25 DEF QueueRight
<1>27. \A x : x \in Sig!Pending(r) <=> x \in Sig!Pending(q) \/ x \in Sig!Range(ws)
  <2>1. \A x : x \in Sig!Pending(r) <=> x \in Sig!Range(c) \/ x \in Sig!Range(d)
    BY <1>18 DEF Sig!Pending
  <2> QED BY <1>13, <1>14, <1>15, <1>16, <1>19, <1>20, <2>1
<1>28. \A k \in 1 .. Len(a) : a[k] \in Sig!Range(a)
  BY <1>12
<1>29. \A k \in 1 .. Len(b) : b[k] \in Sig!Range(b)
  BY <1>12
<1>30. \A k \in 1 .. Len(c) : k > Len(q.max) => c[k] \in Sig!Range(ws) /\ c[k] \in high
  BY <1>13, <1>19, <1>28
<1>31. ASSUME NEW k \in 1 .. Len(d)
       PROVE  \/ k \in 1 .. Len(q.low) /\ d[k] = q.low[k]
              \/ d[k] \in Sig!Range(ws) /\ d[k] \notin high
  <2>1. CASE k > Len(q.low)
    BY <1>14, <1>20, <1>29, <2>1
  <2>2. CASE ~(k > Len(q.low))
    <3>1. k \in 1 .. Len(q.low)
      BY <1>20, <2>2
    <3> QED BY <1>20, <3>1
  <2> QED BY <2>1, <2>2
<1>32. ASSUME ws # <<>>, ws[1] \notin Sig!Pending(q), ws[1] \in high
       PROVE  Len(q.max) + 1 \in 1 .. Len(c) /\ c[Len(q.max) + 1] = ws[1]
  <2>1. 1 \in 1 .. Len(ws)
    BY <1>8, <1>32
  <2>2. 1 \in A
    BY <1>6, <1>7, <1>32, <2>1
  <2>3. PICK k \in 1 .. Len(a) : a[k] = ws[1]
    BY <1>9, <2>2 DEF PartOf
  <2>4. 1 \in 1 .. Len(a)
    BY <1>19, <2>3
  <2>5. PICK i \in A : a[1] = ws[i]
    BY <1>9, <2>4 DEF PartOf
  <2>6. CASE i = 1
    BY <1>19, <2>4, <2>5, <2>6
  <2>7. CASE i # 1
    <3>1. 1 < i
      BY <1>8, <2>7
    <3>2. PICK m \in 1 .. Len(a), n \in 1 .. Len(a) : m < n /\ a[m] = ws[1] /\ a[n] = ws[i]
      BY <1>9, <2>2, <3>1 DEF PartOf
    <3>3. n = 1
      BY <1>11, <2>4, <2>5, <3>2 DEF Once
    <3> QED BY <1>19, <3>2, <3>3
  <2> QED BY <2>6, <2>7
<1>33. Fed(r, q, ws, high)
  BY <1>18, <1>19, <1>27, <1>30, <1>31, <1>32 DEF Fed
<1> QED BY <1>26, <1>33

\* Feeding one watcher.
LEMMA SequenceOfOne ==
    ASSUME NEW w \in Structures
    PROVE  <<w>> \in Seq(Structures) /\ \A x : x \in Sig!Range(<<w>>) <=> x = w
<1>1. PICK s : s = <<w>>
  OBVIOUS
<1>2. s \in Seq(Structures) /\ Len(s) = 1 /\ s[1] = w
  BY <1>1
<1>3. \A x : x \in Sig!Range(s) <=> \E k \in 1 .. Len(s) : s[k] = x
  BY <1>2, RangeRight
<1>4. \A x : x \in Sig!Range(s) <=> x = w
  BY <1>2, <1>3
<1> QED BY <1>1, <1>2, <1>4

\* Feeding no child watcher leaves childev before those that are pending.
LEMMA FedNoChilds ==
    ASSUME NEW q, NEW ws, NEW high, NEW r, QueueRight(q), QueueRight(r), Fed(r, q, ws, high), ChildsAfter(q),
           \A x \in Sig!Range(ws) : x \notin Childs
    PROVE  ChildsAfter(r)
<1>1. \A k \in 1 .. Len(r.low) : r.low[k] \notin Childs
  BY DEF Fed, ChildsAfter
<1>2. Len(q.max) \in Nat /\ Len(r.max) \in Nat
  BY DEF QueueRight
<1>3. ASSUME NEW k \in 1 .. Len(r.max), r.max[k] \in Childs
      PROVE  \E m \in 1 .. Len(r.max) : m < k /\ r.max[m] = childev
  <2>1. ~(k > Len(q.max))
    BY <1>3 DEF Fed
  <2>2. k \in 1 .. Len(q.max)
    BY <1>2, <2>1
  <2>3. q.max[k] \in Childs
    BY <1>3, <2>2 DEF Fed
  <2>4. PICK m \in 1 .. Len(q.max) : m < k /\ q.max[m] = childev
    BY <2>2, <2>3 DEF ChildsAfter
  <2> QED BY <2>4 DEF Fed
<1> QED BY <1>1, <1>3 DEF ChildsAfter
-----------------------------------------------------------------------------
(* The steps.                                                              *)

LEMMA StartedRight ==
    \A x : x \in Sig!Started <=>
      \/ \E s \in Sig!Signal : x \in Sig!Range(head[s])
      \/ \E b \in DOMAIN childs : x \in Sig!Range(childs[b])
      \/ x \in Sig!Range(asyncs)
BY DEF Sig!Started

LEMMA StartedRightNext ==
    \A x : x \in Sig!Started' <=>
      \/ \E s \in Sig!Signal : x \in Sig!Range(head'[s])
      \/ \E b \in DOMAIN childs' : x \in Sig!Range(childs'[b])
      \/ x \in Sig!Range(asyncs')
BY DEF Sig!Started

LEMMA ListsSame ==
    ASSUME ListsRight, UNCHANGED <<default, head, childs, asyncs>>
    PROVE  ListsRight' /\ Sig!Started' = Sig!Started
<1>1. ListsRight'
  BY DEF ListsRight
<1>2. \A x : x \in Sig!Started' <=> x \in Sig!Started
  BY StartedRight, StartedRightNext
<1> QED BY <1>1, <1>2

\* Only started watchers stay pending when the queue does not change.
LEMMA PendingSame ==
    ASSUME PendingStarted, queue' = queue, \A x : x \in Sig!Started => x \in Sig!Started'
    PROVE  PendingStarted'
BY DEF PendingStarted

LEMMA TableSame ==
    ASSUME TableRight, UNCHANGED <<attached, head, action>>
    PROVE  TableRight'
BY DEF TableRight

LEMMA DeliverKeeps ==
    ASSUME SigKept, NEW s \in Sig!Signal, Sig!Deliver(s)
    PROVE  SigKept'
<1> USE DEF SigKept
<1>1. /\ s \in raised /\ raised' = raised \ {s}
      /\ UNCHANGED <<default, action, attached, head, childs, asyncs, postfork, queue, pri, report>>
  BY DEF Sig!Deliver, Sig!procs
<1>2. CASE action[s] = "ev_sighandler" /\ s \in attached
  <2>1. flag' = flag \cup {s} /\ owed' = owed \cup {s} /\ Sig!EvpipeWrite("sig")
    BY <1>2 DEF Sig!Deliver
  <2>2. /\ wake' = wake \cup {"sig"}
        /\ \/ "sig" \in wake /\ pipe' = pipe /\ skipped' = skipped
           \/ "sig" \notin wake /\ pipe' = "full" /\ skipped' = FALSE
           \/ "sig" \notin wake /\ skipped' = TRUE /\ pipe' = pipe
    BY <2>1 DEF Sig!EvpipeWrite
  <2>3. pipe # "none"
    BY <1>2 DEF PipeRight
  <2>4. SignalsTyped'
    BY <1>1, <2>1, <2>2 DEF SignalsTyped
  <2>5. CaughtRight' /\ PipeRight'
    BY <1>1, <1>2, <2>1, <2>2, <2>3 DEF CaughtRight, PipeRight
  <2>6. Sig!SignalsNoticed'
    BY <1>1, <2>1, <2>2 DEF Sig!SignalsNoticed
  <2>7. Sig!ZombiesSeen'
    BY <1>1, <2>1 DEF Sig!ZombiesSeen
  <2> QED BY <1>1, <2>4, <2>5, <2>6, <2>7, ListsSame, PendingSame, TableSame DEF QueueRight, ChildsAfter
<1>3. CASE ~(action[s] = "ev_sighandler" /\ s \in attached)
  <2>1. UNCHANGED <<flag, owed, wake, pipe, skipped>>
    BY <1>3 DEF Sig!Deliver
  <2>2. SignalsTyped' /\ CaughtRight' /\ PipeRight' /\ Sig!SignalsNoticed'
    BY <1>1, <2>1 DEF SignalsTyped, CaughtRight, PipeRight, Sig!SignalsNoticed
  <2>3. default => "CHLD" \in attached /\ action["CHLD"] = "ev_sighandler"
    <3>1. head["CHLD"] = <<>> => ~(childev \in Sig!Range(head["CHLD"]))
      BY DEF Sig!Range
    <3>2. "CHLD" \in Sig!Signal
      BY DEF Sig!Signal
    <3> QED BY <3>1, <3>2 DEF ListsRight, TableRight
  <2>4. Sig!ZombiesSeen'
    BY <1>1, <1>3, <2>1, <2>3 DEF Sig!ZombiesSeen, CaughtRight
  <2> QED BY <1>1, <2>2, <2>4, ListsSame, PendingSame, TableSame DEF QueueRight, ChildsAfter
<1> QED BY <1>2, <1>3

LEMMA AsyncSendKeeps ==
    ASSUME SigKept, NEW w \in Asyncs, Sig!AsyncSend(w)
    PROVE  SigKept'
<1> USE DEF SigKept
<1>1. /\ pipe # "none" /\ Sig!EvpipeWrite("async")
      /\ UNCHANGED <<default, raised, action, attached, flag, head, owed, childs, asyncs, postfork, queue,
                     pri, report>>
  BY DEF Sig!AsyncSend, Sig!procs, Sig!sigvars
<1>2. /\ wake' = wake \cup {"async"}
      /\ \/ "async" \in wake /\ pipe' = pipe /\ skipped' = skipped
         \/ "async" \notin wake /\ pipe' = "full" /\ skipped' = FALSE
         \/ "async" \notin wake /\ skipped' = TRUE /\ pipe' = pipe
  BY <1>1 DEF Sig!EvpipeWrite
<1>3. SignalsTyped'
  BY <1>1, <1>2 DEF SignalsTyped
<1>4. CaughtRight' /\ PipeRight'
  BY <1>1, <1>2 DEF CaughtRight, PipeRight
<1>5. Sig!SignalsNoticed'
  BY <1>1, <1>2 DEF Sig!SignalsNoticed
<1>6. Sig!ZombiesSeen'
  BY <1>1 DEF Sig!ZombiesSeen
<1> QED BY <1>1, <1>3, <1>4, <1>5, <1>6, ListsSame, PendingSame, TableSame DEF QueueRight, ChildsAfter


LEMMA PipeFed ==
    ASSUME QueueRight(queue), ChildsAfter(queue), NEW r, r = Sig!FeedEvents(queue, <<pipe_w>>, Sig!High)
    PROVE  /\ QueueRight(r) /\ ChildsAfter(r)
           /\ \A x : x \in Sig!Pending(r) <=> x \in Sig!Pending(queue) \/ x = pipe_w
<1>1. pipe_w \in Structures /\ pipe_w \notin Childs
  BY SignalsAssumption DEF Sig!WatchersRight, Structures
<1>2. PICK ws : ws = <<pipe_w>>
  OBVIOUS
<1>3. ws \in Seq(Structures) /\ \A x : x \in Sig!Range(ws) <=> x = pipe_w
  BY <1>1, <1>2, SequenceOfOne
<1>4. PICK high : high = Sig!High
  OBVIOUS
<1>5. r = Sig!FeedEvents(queue, ws, high)
  BY <1>2, <1>4
<1>6. QueueRight(r) /\ Fed(r, queue, ws, high)
  BY <1>3, <1>5, FeedEventsRight
<1>7. ChildsAfter(r)
  BY <1>1, <1>3, <1>6, FedNoChilds
<1>8. \A x : x \in Sig!Pending(r) <=> x \in Sig!Pending(queue) \/ x = pipe_w
  BY <1>3, <1>6 DEF Fed
<1> QED BY <1>6, <1>7, <1>8

\* A step that changes the queue, if at all, by feeding pipe_w to it.
LEMMA PipeFedKeeps ==
    ASSUME SigKept, UNCHANGED <<default, head, childs, asyncs, attached, action, raised, owed, report>>,
           queue' = queue \/ queue' = Sig!FeedEvents(queue, <<pipe_w>>, Sig!High)
    PROVE  /\ QueueRight(queue)' /\ ChildsAfter(queue)'
           /\ ListsRight' /\ TableRight' /\ PendingStarted' /\ Sig!ZombiesSeen'
           /\ \A x : x \in Sig!Pending(queue) => x \in Sig!Pending(queue')
           /\ queue' # queue => pipe_w \in Sig!Pending(queue')
<1> USE DEF SigKept
<1>1. PICK r : r = queue'
  OBVIOUS
<1>2. /\ QueueRight(r) /\ ChildsAfter(r)
      /\ \A x : x \in Sig!Pending(queue) => x \in Sig!Pending(r)
      /\ \A x : x \in Sig!Pending(r) => x \in Sig!Pending(queue) \/ x = pipe_w
      /\ r # queue => pipe_w \in Sig!Pending(r)
  <2>1. CASE r = queue
    BY <2>1
  <2>2. CASE r # queue
    <3>1. r = Sig!FeedEvents(queue, <<pipe_w>>, Sig!High)
      BY <1>1, <2>2
    <3> QED BY <3>1, PipeFed
  <2> QED BY <2>1, <2>2
<1>3. ListsRight' /\ Sig!Started' = Sig!Started
  BY ListsSame
<1>4. QueueRight(queue)' /\ ChildsAfter(queue)'
  BY <1>1, <1>2 DEF QueueRight, ChildsAfter
<1>5. Sig!Pending(queue)' = Sig!Pending(r)
  BY <1>1 DEF Sig!Pending
<1>6. PendingStarted'
  BY <1>2, <1>3, <1>5 DEF PendingStarted
<1>7. Sig!ZombiesSeen'
  BY <1>2, <1>5 DEF Sig!ZombiesSeen
<1> QED BY <1>1, <1>2, <1>3, <1>4, <1>6, <1>7, TableSame

LEMMA SigBlockKeeps ==
    ASSUME SigKept, Sig!Block
    PROVE  SigKept'
<1> USE DEF SigKept
<1>1. /\ UNCHANGED <<default, raised, action, attached, flag, head, owed, childs, asyncs, wake, skipped, pri, report>>
      /\ postfork' = FALSE /\ Sig!LoopFork
  BY DEF Sig!Block, Sig!procs, Sig!sigvars
<1>2. CASE postfork /\ pipe # "none"
  <2>1. pipe' = "empty" /\ queue' = Sig!FeedEvents(queue, <<pipe_w>>, Sig!High)
    BY <1>1, <1>2 DEF Sig!LoopFork
  <2>2. \A x : x \in Sig!Pending(queue') <=> x \in Sig!Pending(queue) \/ x = pipe_w
    BY <2>1, PipeFed
  <2>3. pipe_w \in Sig!Pending(queue)'
    BY <2>2 DEF Sig!Pending
  <2>4. SignalsTyped' /\ CaughtRight' /\ PipeRight'
    BY <1>1, <2>1 DEF SignalsTyped, CaughtRight, PipeRight
  <2>5. Sig!SignalsNoticed'
    BY <1>1, <2>3 DEF Sig!SignalsNoticed
  <2> QED BY <1>1, <2>1, <2>4, <2>5, PipeFedKeeps
<1>3. CASE ~(postfork /\ pipe # "none")
  <2>1. UNCHANGED <<pipe, queue>>
    BY <1>1, <1>3 DEF Sig!LoopFork
  <2>2. SignalsTyped' /\ CaughtRight' /\ PipeRight'
    BY <1>1, <2>1 DEF SignalsTyped, CaughtRight, PipeRight
  <2>3. Sig!Pending(queue)' = Sig!Pending(queue)
    BY <2>1
  <2>4. Sig!SignalsNoticed'
    BY <1>1, <1>3, <2>1, <2>3 DEF Sig!SignalsNoticed, CaughtRight
  <2> QED BY <1>1, <2>1, <2>2, <2>4, PipeFedKeeps
<1> QED BY <1>2, <1>3

\* The end of the poll, seen by the kernel and by the loop.
LEMMA PollKeeps ==
    ASSUME SigKept, Sig!Poll \/ Sig!PollReturns
    PROVE  SigKept'
<1> USE DEF SigKept
<1>1. /\ UNCHANGED <<default, raised, action, attached, flag, head, owed, childs, asyncs, wake, skipped, pri, report,
                     pipe, postfork>>
      /\ queue' = queue \/ queue' = Sig!FeedEvents(queue, <<pipe_w>>, Sig!High)
  BY DEF Sig!Poll, Sig!PollReturns, Sig!procs, Sig!sigvars
<1>2. SignalsTyped' /\ CaughtRight' /\ PipeRight'
  BY <1>1 DEF SignalsTyped, CaughtRight, PipeRight
<1>3. \A x : x \in Sig!Pending(queue) => x \in Sig!Pending(queue')
  BY <1>1, PipeFedKeeps
<1>4. pipe_w \in Sig!Pending(queue) => pipe_w \in Sig!Pending(queue)'
  BY <1>3 DEF Sig!Pending
<1>5. Sig!SignalsNoticed'
  BY <1>1, <1>4 DEF Sig!SignalsNoticed
<1> QED BY <1>1, <1>2, <1>5, PipeFedKeeps

LEMMA CallbackKeeps ==
    ASSUME SigKept, NEW w, Sig!Callback(w)
    PROVE  SigKept'
<1> USE DEF SigKept
<1>1. /\ UNCHANGED <<default, raised, action, attached, flag, head, owed, childs, asyncs, wake, skipped, pri, report,
                     pipe, postfork>>
      /\ queue' = Sig!Without(queue, w) /\ w # pipe_w /\ w # childev
  BY DEF Sig!Callback, Sig!procs, Sig!sigvars, Sig!loopvars
<1>2. PICK r : r = queue'
  OBVIOUS
<1>3. /\ QueueRight(r) /\ ChildsAfter(r)
      /\ \A x : x \in Sig!Pending(r) <=> x \in Sig!Pending(queue) /\ x # w
  BY <1>1, <1>2, WithoutRight
<1>4. QueueRight(queue)' /\ ChildsAfter(queue)' /\ Sig!Pending(queue)' = Sig!Pending(r)
  BY <1>2, <1>3 DEF QueueRight, ChildsAfter, Sig!Pending
<1>5. SignalsTyped' /\ CaughtRight' /\ PipeRight'
  BY <1>1 DEF SignalsTyped, CaughtRight, PipeRight
<1>6. Sig!SignalsNoticed' /\ Sig!ZombiesSeen'
  BY <1>1, <1>3, <1>4 DEF Sig!SignalsNoticed, Sig!ZombiesSeen
<1>7. ListsRight' /\ Sig!Started' = Sig!Started
  BY <1>1, ListsSame
<1>8. PendingStarted'
  BY <1>3, <1>4, <1>7 DEF PendingStarted
<1> QED BY <1>1, <1>4, <1>5, <1>6, <1>7, <1>8, TableSame

\* fork, the use of the pipe by the old process, and what the kernel and other
\* processes do.
LEMMA OutsideKeeps ==
    ASSUME SigKept, Sig!Fork \/ Sig!ParentUsesPipe \/ Sig!Raise \/ \E p \in Pids : Sig!ChildChanges(p)
    PROVE  SigKept'
<1> USE DEF SigKept
<1>1. UNCHANGED <<default, action, attached, flag, head, owed, childs, asyncs, wake, skipped, pri, queue>>
  BY DEF Sig!Fork, Sig!ParentUsesPipe, Sig!Raise, Sig!ChildChanges, Sig!procs, Sig!sigvars, Sig!loopvars
<1>2. Sig!Pending(queue)' = Sig!Pending(queue)
  BY <1>1
<1>3. QueueRight(queue)' /\ ChildsAfter(queue)' /\ ListsRight' /\ PendingStarted' /\ TableRight'
  BY <1>1, ListsSame, PendingSame, TableSame DEF QueueRight, ChildsAfter
<1>4. CASE Sig!Fork
  <2>1. /\ postfork' = TRUE /\ raised' = {} /\ report' = [p \in Pids |-> "none"] /\ pipe' = pipe
    BY <1>4 DEF Sig!Fork
  <2>2. SignalsTyped' /\ CaughtRight' /\ PipeRight' /\ Sig!SignalsNoticed' /\ Sig!ZombiesSeen'
    BY <1>1, <2>1 DEF SignalsTyped, CaughtRight, PipeRight, Sig!SignalsNoticed, Sig!ZombiesSeen
  <2> QED BY <1>3, <2>2
<1>5. CASE Sig!ParentUsesPipe
  <2>1. /\ postfork /\ postfork' = postfork /\ raised' = raised /\ report' = report
        /\ pipe # "none" /\ pipe' \in {"empty", "full"}
    BY <1>5 DEF Sig!ParentUsesPipe, Sig!procs
  <2>2. SignalsTyped' /\ CaughtRight' /\ PipeRight' /\ Sig!SignalsNoticed' /\ Sig!ZombiesSeen'
    BY <1>1, <1>2, <2>1 DEF SignalsTyped, CaughtRight, PipeRight, Sig!SignalsNoticed, Sig!ZombiesSeen
  <2> QED BY <1>3, <2>2
<1>6. CASE Sig!Raise
  <2>1. /\ postfork' = postfork /\ raised' = raised \cup {"USR"} /\ report' = report /\ pipe' = pipe
    BY <1>6 DEF Sig!Raise, Sig!procs, Sig!loopvars
  <2>2. SignalsTyped'
    BY <1>1, <2>1 DEF SignalsTyped, Sig!Signal
  <2>3. CaughtRight' /\ PipeRight' /\ Sig!SignalsNoticed' /\ Sig!ZombiesSeen'
    BY <1>1, <1>2, <2>1 DEF CaughtRight, PipeRight, Sig!SignalsNoticed, Sig!ZombiesSeen
  <2> QED BY <1>3, <2>2, <2>3
<1>7. ASSUME NEW p \in Pids, Sig!ChildChanges(p) PROVE SigKept'
  <2>1. /\ postfork' = postfork /\ raised' = raised \cup {"CHLD"} /\ pipe' = pipe /\ default
        /\ \/ report' = [report EXCEPT ![p] = "stop"]
           \/ report' = [report EXCEPT ![p] = "exit"]
    BY <1>7 DEF Sig!ChildChanges, Sig!loopvars
  <2>2. SignalsTyped'
    BY <1>1, <2>1 DEF SignalsTyped, Sig!Signal
  <2>3. CaughtRight' /\ PipeRight' /\ Sig!SignalsNoticed' /\ Sig!ZombiesSeen'
    BY <1>1, <1>2, <2>1 DEF CaughtRight, PipeRight, Sig!SignalsNoticed, Sig!ZombiesSeen
  <2> QED BY <1>3, <2>2, <2>3
<1> QED BY <1>4, <1>5, <1>6, <1>7


\* What is assumed of the program's watchers.
LEMMA WatchersKnown ==
    /\ HashSize \in Nat \ {0}
    /\ \A w \in Childs : PidOf[w] \in Nat
    /\ \A p \in Pids : p \in Nat
    /\ \A w \in SigWatchers : SignalOf[w] \in Sig!Signal
<1>1. /\ HashSize \in Nat \ {0} /\ PidOf \in [Childs -> Pids \cup {0}] /\ Pids \subseteq Nat \ {0}
      /\ SignalOf \in [SigWatchers -> Sig!Signal]
  BY SignalsAssumption DEF Sig!WatchersRight
<1>2. \A p \in Pids : p \in Nat
  BY <1>1
<1>3. \A w \in Childs : PidOf[w] \in Pids \cup {0}
  BY <1>1
<1>4. \A w \in Childs : PidOf[w] \in Nat
  BY <1>2, <1>3
<1>5. \A w \in SigWatchers : SignalOf[w] \in Sig!Signal
  BY <1>1
<1> QED BY <1>1, <1>2, <1>4, <1>5

\* <<w>> \o s
LEMMA FrontRight ==
    ASSUME NEW S, NEW s \in Seq(S), NEW w \in S
    PROVE  /\ <<w>> \o s \in Seq(S) /\ <<w>> \o s # <<>>
           /\ \A x : x \in Sig!Range(<<w>> \o s) <=> x = w \/ x \in Sig!Range(s)
<1>1. PICK a : a = <<w>>
  OBVIOUS
<1>2. a \in Seq(S) /\ Len(a) = 1 /\ a[1] = w
  BY <1>1
<1>3. \A x : x \in Sig!Range(a) <=> \E k \in 1 .. Len(a) : a[k] = x
  BY <1>2, RangeRight
<1>4. PICK c : c = a \o s
  OBVIOUS
<1>5. c \in Seq(S) /\ Joined(c, a, s)
  BY <1>2, <1>4, JoinedRight
<1>6. Len(c) # 0
  BY <1>2, <1>5 DEF Joined
<1>7. \A x : x \in Sig!Range(c) <=> x = w \/ x \in Sig!Range(s)
  BY <1>2, <1>3, <1>5 DEF Joined
<1>8. c # <<>>
  BY <1>6
<1> QED BY <1>1, <1>4, <1>5, <1>7, <1>8

LEMMA EmptyRight ==
    ASSUME NEW S, NEW s \in Seq(S)
    PROVE  s = <<>> <=> \A x : x \notin Sig!Range(s)
<1>1. \A x : x \in Sig!Range(s) <=> \E k \in 1 .. Len(s) : s[k] = x
  BY RangeRight
<1>2. s # <<>> => 1 \in 1 .. Len(s)
  OBVIOUS
<1>3. ASSUME s = <<>> PROVE \A x : x \notin Sig!Range(s)
  <2>1. Len(s) = 0
    BY <1>3
  <2> QED BY <1>1, <2>1
<1>4. ASSUME \A x : x \notin Sig!Range(s) PROVE s = <<>>
  <2>1. s # <<>> => s[1] \in Sig!Range(s)
    BY <1>1, <1>2
  <2> QED BY <1>4, <2>1
<1> QED BY <1>3, <1>4

LEMMA SignalStartKeeps ==
    ASSUME SigKept, NEW w \in SigWatchers, Sig!SignalStart(w)
    PROVE  SigKept'
<1> USE DEF SigKept
<1>1. PICK s : s = SignalOf[w]
  OBVIOUS
<1>2. s \in Sig!Signal
  BY <1>1, SignalsAssumption DEF Sig!WatchersRight
<1>3. /\ UNCHANGED <<default, raised, flag, childs, asyncs, wake, skipped, postfork, queue, pri, report, owed>>
      /\ attached' = attached \cup {s} /\ head' = [head EXCEPT ![s] = <<w>> \o @]
      /\ \/ /\ head[s] = <<>> /\ action' = [action EXCEPT ![s] = "ev_sighandler"]
            /\ pipe' = IF pipe = "none" THEN "empty" ELSE pipe
         \/ head[s] # <<>> /\ action' = action /\ pipe' = pipe
  BY <1>1 DEF Sig!SignalStart, Sig!EvpipeInit, Sig!procs
<1>4. \A z \in Sig!Signal : head[z] \in Seq(SigWatchers \cup {childev})
  BY DEF ListsRight
<1>5. PICK h : h = <<w>> \o head[s]
  OBVIOUS
<1>6. /\ h \in Seq(SigWatchers \cup {childev}) /\ h # <<>>
      /\ \A x : x \in Sig!Range(h) <=> x = w \/ x \in Sig!Range(head[s])
  <2>1. head[s] \in Seq(SigWatchers \cup {childev}) /\ w \in SigWatchers \cup {childev}
    BY <1>2, <1>4
  <2> QED BY <1>5, <2>1, FrontRight
<1>7. /\ head' \in [Sig!Signal -> Seq(SigWatchers \cup {childev})]
      /\ \A z \in Sig!Signal : head'[z] = IF z = s THEN h ELSE head[z]
  <2>1. head' = [head EXCEPT ![s] = h]
    BY <1>3, <1>5
  <2> QED BY <1>2, <1>6, <2>1 DEF ListsRight
<1>8. \A z \in Sig!Signal : \A x : x \in Sig!Range(head'[z]) <=> x \in Sig!Range(head[z]) \/ (z = s /\ x = w)
  BY <1>6, <1>7
<1>9. ListsRight'
  <2>1. \A z \in Sig!Signal : \A x \in Sig!Range(head'[z]) :
          \/ x \in SigWatchers /\ SignalOf[x] = z
          \/ x = childev /\ z = "CHLD" /\ default
    BY <1>1, <1>8 DEF ListsRight
  <2>2. default => childev \in Sig!Range(head'["CHLD"])
    <3>1. "CHLD" \in Sig!Signal
      BY DEF Sig!Signal
    <3> QED BY <1>8, <3>1 DEF ListsRight
  <2> QED BY <1>3, <1>7, <2>1, <2>2 DEF ListsRight
<1>10. SignalsTyped'
  BY <1>2, <1>3 DEF SignalsTyped
<1>11. TableRight'
  BY <1>2, <1>3, <1>6, <1>7 DEF TableRight, SignalsTyped
<1>12. PipeRight'
  BY <1>2, <1>3 DEF TableRight, PipeRight
<1>13. CaughtRight'
  BY <1>3 DEF CaughtRight
<1>14. \A x : x \in Sig!Started => x \in Sig!Started'
  BY <1>3, <1>8, StartedRight, StartedRightNext
<1>15. PendingStarted'
  BY <1>3, <1>14, PendingSame
<1>16. Sig!Pending(queue)' = Sig!Pending(queue)
  BY <1>3
<1>17. Sig!SignalsNoticed' /\ Sig!ZombiesSeen'
  BY <1>3, <1>16 DEF Sig!SignalsNoticed, Sig!ZombiesSeen
<1> QED BY <1>3, <1>9, <1>10, <1>11, <1>12, <1>13, <1>15, <1>17 DEF QueueRight, ChildsAfter

LEMMA ChildStartKeeps ==
    ASSUME SigKept, NEW w \in Childs, Sig!ChildStart(w)
    PROVE  SigKept'
<1> USE DEF SigKept
<1>1. PICK b : b = Sig!Bucket(PidOf[w])
  OBVIOUS
<1>2. /\ UNCHANGED <<default, raised, action, attached, flag, head, owed, asyncs, wake, skipped, pipe, postfork, queue, pri, report>>
      /\ childs' = [childs EXCEPT ![b] = <<w>> \o @]
  BY <1>1 DEF Sig!ChildStart, Sig!procs, Sig!sigvars, Sig!loopvars
<1>3. PICK h : h = <<w>> \o childs[b]
  OBVIOUS
<1>4. childs' = [childs EXCEPT ![b] = h]
  BY <1>2, <1>3
<1>5. childs \in [0 .. HashSize - 1 -> Seq(Childs)]
  BY DEF ListsRight
<1>6. b \in 0 .. HashSize - 1
  <2>1. PidOf[w] \in Nat /\ HashSize \in Nat \ {0}
    BY WatchersKnown
  <2> QED BY <1>1, <2>1 DEF Sig!Bucket
<1>7. h \in Seq(Childs) /\ \A x : x \in Sig!Range(h) <=> x = w \/ x \in Sig!Range(childs[b])
  BY <1>3, <1>5, <1>6, FrontRight
<1>8. childs' \in [0 .. HashSize - 1 -> Seq(Childs)]
  BY <1>4, <1>5, <1>7
<1>9. \A c \in DOMAIN childs : c \in DOMAIN childs' /\ \A x : x \in Sig!Range(childs[c]) => x \in Sig!Range(childs'[c])
  BY <1>4, <1>5, <1>6, <1>7
<1>10. ListsRight'
  BY <1>2, <1>8 DEF ListsRight
<1>11. \A x : x \in Sig!Started => x \in Sig!Started'
  BY <1>2, <1>9, StartedRight, StartedRightNext
<1>12. PendingStarted'
  BY <1>2, <1>11, PendingSame
<1>13. Sig!Pending(queue)' = Sig!Pending(queue)
  BY <1>2
<1>14. SignalsTyped' /\ CaughtRight' /\ PipeRight' /\ Sig!SignalsNoticed' /\ Sig!ZombiesSeen'
  BY <1>2, <1>13 DEF SignalsTyped, CaughtRight, PipeRight, Sig!SignalsNoticed, Sig!ZombiesSeen
<1> QED BY <1>2, <1>10, <1>12, <1>14, TableSame DEF QueueRight, ChildsAfter

LEMMA AsyncStartKeeps ==
    ASSUME SigKept, NEW w \in Asyncs, Sig!AsyncStart(w)
    PROVE  SigKept'
<1> USE DEF SigKept
<1>1. /\ UNCHANGED <<default, raised, action, attached, flag, head, owed, childs, wake, skipped, postfork, queue, pri, report>>
      /\ pipe' = IF pipe = "none" THEN "empty" ELSE pipe
      /\ asyncs' = Append(asyncs, w) /\ w \notin Sig!Started
  BY DEF Sig!AsyncStart, Sig!EvpipeInit, Sig!procs, Sig!sigvars
<1>2. PICK a : a = asyncs'
  OBVIOUS
<1>3. asyncs \in Seq(Asyncs) /\ Once(asyncs)
  BY DEF ListsRight
<1>4. /\ a \in Seq(Asyncs) /\ Len(a) = Len(asyncs) + 1 /\ a[Len(a)] = w /\ Len(asyncs) \in Nat
      /\ \A k \in 1 .. Len(asyncs) : a[k] = asyncs[k]
  BY <1>1, <1>2, <1>3
<1>5. \A x : x \in Sig!Range(asyncs) <=> \E k \in 1 .. Len(asyncs) : asyncs[k] = x
  BY <1>3, RangeRight
<1>6. \A x : x \in Sig!Range(a) <=> \E k \in 1 .. Len(a) : a[k] = x
  BY <1>4, RangeRight
<1>7. w \notin Sig!Range(asyncs)
  BY <1>1, StartedRight
<1>8. ASSUME NEW k \in 1 .. Len(a), NEW m \in 1 .. Len(a), a[k] = a[m] PROVE k = m
  <2>1. k \in 1 .. Len(asyncs) \/ k = Len(a)
    BY <1>4
  <2>2. m \in 1 .. Len(asyncs) \/ m = Len(a)
    BY <1>4
  <2>3. CASE k \in 1 .. Len(asyncs) /\ m \in 1 .. Len(asyncs)
    BY <1>3, <1>4, <1>8, <2>3 DEF Once
  <2> QED BY <1>4, <1>5, <1>7, <1>8, <2>1, <2>2, <2>3
<1>9. \A x : x \in Sig!Range(asyncs) => x \in Sig!Range(a)
  BY <1>4, <1>5, <1>6
<1>10. ListsRight'
  BY <1>1, <1>2, <1>4, <1>8 DEF ListsRight, Once
<1>11. \A x : x \in Sig!Started => x \in Sig!Started'
  BY <1>1, <1>2, <1>9, StartedRight, StartedRightNext
<1>12. PendingStarted'
  BY <1>1, <1>11, PendingSame
<1>13. Sig!Pending(queue)' = Sig!Pending(queue)
  BY <1>1
<1>14. SignalsTyped' /\ CaughtRight' /\ PipeRight' /\ Sig!SignalsNoticed' /\ Sig!ZombiesSeen'
  BY <1>1, <1>13 DEF SignalsTyped, CaughtRight, PipeRight, Sig!SignalsNoticed, Sig!ZombiesSeen
<1> QED BY <1>1, <1>10, <1>12, <1>14, TableSame DEF QueueRight, ChildsAfter


\* A step that drops w from the queue and from the lists.
LEMMA StopKeeps ==
    ASSUME SigKept, NEW w, w # pipe_w, w # childev, queue' = Sig!Without(queue, w),
           \A x : x \in Sig!Started /\ x # w => x \in Sig!Started'
    PROVE  /\ QueueRight(queue)' /\ ChildsAfter(queue)' /\ PendingStarted'
           /\ \A x \in Sig!Pending(queue) : x # w => x \in Sig!Pending(queue)'
<1> USE DEF SigKept
<1>1. PICK r : r = queue'
  OBVIOUS
<1>2. /\ QueueRight(r) /\ ChildsAfter(r)
      /\ \A x : x \in Sig!Pending(r) <=> x \in Sig!Pending(queue) /\ x # w
  BY <1>1, WithoutRight
<1>3. QueueRight(queue)' /\ ChildsAfter(queue)' /\ Sig!Pending(queue)' = Sig!Pending(r)
  BY <1>1, <1>2 DEF QueueRight, ChildsAfter, Sig!Pending
<1>4. PendingStarted'
  BY <1>2, <1>3 DEF PendingStarted
<1> QED BY <1>2, <1>3, <1>4

\* The loop's own watchers are not the program's.
LEMMA OwnWatchers ==
    ASSUME NEW w \in SigWatchers \cup Childs \cup Asyncs
    PROVE  w # pipe_w /\ w # childev
BY SignalsAssumption DEF Sig!WatchersRight

LEMMA SignalStopKeeps ==
    ASSUME SigKept, NEW w \in SigWatchers, Sig!SignalStop(w)
    PROVE  SigKept'
<1> USE DEF SigKept
<1>1. PICK s : s = SignalOf[w]
  OBVIOUS
<1>2. s \in Sig!Signal /\ w # pipe_w /\ w # childev /\ "CHLD" \in Sig!Signal
  BY <1>1, WatchersKnown, OwnWatchers DEF Sig!Signal
<1>3. /\ UNCHANGED <<default, flag, childs, asyncs, wake, skipped, pipe, postfork, pri, report>>
      /\ queue' = Sig!Without(queue, w) /\ head' = [head EXCEPT ![s] = Sig!Dropped(@, w)]
      /\ \/ /\ head'[s] = <<>>
            /\ attached' = attached \ {s} /\ action' = [action EXCEPT ![s] = "dfl"]
            /\ raised' = raised \ {s} /\ owed' = owed \ {s}
         \/ /\ ~(w \in Sig!Started /\ head'[s] = <<>>)
            /\ attached' = attached /\ action' = action /\ raised' = raised /\ owed' = owed
  BY <1>1 DEF Sig!SignalStop, Sig!procs, Sig!loopvars
<1>4. \A z \in Sig!Signal : head[z] \in Seq(SigWatchers \cup {childev})
  BY DEF ListsRight
<1>5. PICK h : h = Sig!Dropped(head[s], w)
  OBVIOUS
<1>20. h \in Seq(SigWatchers \cup {childev}) /\ LeftOf(h, head[s], w)
  BY <1>2, <1>4, <1>5, DroppedRight
<1>6. /\ h \in Seq(SigWatchers \cup {childev})
      /\ \A x : x \in Sig!Range(h) <=> x \in Sig!Range(head[s]) /\ x # w
  BY <1>20 DEF LeftOf
<1>7. /\ head' \in [Sig!Signal -> Seq(SigWatchers \cup {childev})]
      /\ \A z \in Sig!Signal : head'[z] = IF z = s THEN h ELSE head[z]
  <2>1. head' = [head EXCEPT ![s] = h]
    BY <1>3, <1>5
  <2> QED BY <1>2, <1>6, <2>1 DEF ListsRight
<1>8. \A z \in Sig!Signal : \A x : x \in Sig!Range(head'[z]) <=> x \in Sig!Range(head[z]) /\ ~(z = s /\ x = w)
  BY <1>6, <1>7
<1>9. ListsRight'
  <2>1. \A z \in Sig!Signal : \A x \in Sig!Range(head'[z]) :
          \/ x \in SigWatchers /\ SignalOf[x] = z
          \/ x = childev /\ z = "CHLD" /\ default
    BY <1>8 DEF ListsRight
  <2>2. default => childev \in Sig!Range(head'["CHLD"])
    BY <1>2, <1>8 DEF ListsRight
  <2> QED BY <1>3, <1>7, <2>1, <2>2 DEF ListsRight
<1>10. SignalsTyped'
  BY <1>2, <1>3 DEF SignalsTyped
<1>11. \A x : x \in Sig!Started /\ x # w => x \in Sig!Started'
  BY <1>3, <1>8, StartedRight, StartedRightNext
<1>12. /\ QueueRight(queue)' /\ ChildsAfter(queue)' /\ PendingStarted'
       /\ \A x \in Sig!Pending(queue) : x # w => x \in Sig!Pending(queue)'
  BY <1>2, <1>3, <1>11, StopKeeps
<1>13. ~(w \in Sig!Started) => h = head[s] \/ h # <<>> \/ head[s] = <<>>
  <2>1. ~(w \in Sig!Started) => \A x : x \in Sig!Range(h) <=> x \in Sig!Range(head[s])
    BY <1>2, <1>6, StartedRight
  <2>2. h = <<>> <=> \A x : x \notin Sig!Range(h)
    BY <1>6, EmptyRight
  <2>3. head[s] = <<>> <=> \A x : x \notin Sig!Range(head[s])
    BY <1>2, <1>4, EmptyRight
  <2> QED BY <2>1, <2>2, <2>3
<1>14. h # <<>> => head[s] # <<>>
  <2>1. h = <<>> <=> \A x : x \notin Sig!Range(h)
    BY <1>6, EmptyRight
  <2>2. head[s] = <<>> <=> \A x : x \notin Sig!Range(head[s])
    BY <1>2, <1>4, EmptyRight
  <2> QED BY <1>6, <2>1, <2>2
<1>15. TableRight'
  <2>1. CASE /\ head'[s] = <<>>
             /\ attached' = attached \ {s} /\ action' = [action EXCEPT ![s] = "dfl"]
    BY <1>2, <1>7, <2>1 DEF TableRight, SignalsTyped
  <2>2. CASE ~(w \in Sig!Started /\ head'[s] = <<>>) /\ attached' = attached /\ action' = action
    <3>1. h = <<>> <=> head[s] = <<>>
      BY <1>2, <1>7, <1>13, <1>14, <2>2
    <3> QED BY <1>2, <1>7, <2>2, <3>1 DEF TableRight
  <2> QED BY <1>3, <2>1, <2>2
<1>16. PipeRight' /\ CaughtRight'
  BY <1>3 DEF PipeRight, CaughtRight
<1>17. pipe_w \in Sig!Pending(queue) => pipe_w \in Sig!Pending(queue)'
  BY <1>2, <1>12
<1>18. Sig!SignalsNoticed'
  BY <1>3, <1>17 DEF Sig!SignalsNoticed
<1>19. Sig!ZombiesSeen'
  <2> SUFFICES ASSUME \E p \in Pids : report[p] # "none"
               PROVE  "CHLD" \in raised' \cup owed' \/ childev \in Sig!Pending(queue)'
    BY <1>3 DEF Sig!ZombiesSeen
  <2>1. "CHLD" \in raised \cup owed \/ childev \in Sig!Pending(queue)
    BY DEF Sig!ZombiesSeen
  <2>2. childev \in Sig!Range(head'["CHLD"])
    BY <1>3, <1>9 DEF CaughtRight, ListsRight
  <2>3. head'["CHLD"] # <<>>
    BY <2>2 DEF Sig!Range
  <2> QED BY <1>2, <1>3, <1>12, <2>1, <2>3
<1> QED BY <1>9, <1>10, <1>12, <1>15, <1>16, <1>18, <1>19

LEMMA ChildStopKeeps ==
    ASSUME SigKept, NEW w \in Childs, Sig!ChildStop(w)
    PROVE  SigKept'
<1> USE DEF SigKept
<1>1. w # pipe_w /\ w # childev
  BY OwnWatchers
<1>2. /\ UNCHANGED <<default, raised, action, attached, flag, head, owed, asyncs, wake, skipped, pipe, postfork, pri, report>>
      /\ queue' = Sig!Without(queue, w) /\ childs' = [b \in DOMAIN childs |-> Sig!Dropped(childs[b], w)]
  BY DEF Sig!ChildStop, Sig!procs, Sig!sigvars, Sig!loopvars
<1>3. childs \in [0 .. HashSize - 1 -> Seq(Childs)]
  BY DEF ListsRight
<1>4. ASSUME NEW b \in DOMAIN childs
      PROVE  /\ Sig!Dropped(childs[b], w) \in Seq(Childs)
             /\ \A x : x \in Sig!Range(Sig!Dropped(childs[b], w)) <=> x \in Sig!Range(childs[b]) /\ x # w
  <2>1. childs[b] \in Seq(Childs)
    BY <1>3
  <2>2. PICK h : h = Sig!Dropped(childs[b], w)
    OBVIOUS
  <2>3. h \in Seq(Childs) /\ LeftOf(h, childs[b], w)
    BY <2>1, <2>2, DroppedRight
  <2> QED BY <2>2, <2>3 DEF LeftOf
<1>5. childs' \in [0 .. HashSize - 1 -> Seq(Childs)]
  BY <1>2, <1>3, <1>4
<1>6. \A b \in DOMAIN childs : b \in DOMAIN childs' /\ \A x : x \in Sig!Range(childs[b]) /\ x # w => x \in Sig!Range(childs'[b])
  BY <1>2, <1>4
<1>7. ListsRight'
  BY <1>2, <1>5 DEF ListsRight
<1>8. \A x : x \in Sig!Started /\ x # w => x \in Sig!Started'
  BY <1>2, <1>6, StartedRight, StartedRightNext
<1>9. /\ QueueRight(queue)' /\ ChildsAfter(queue)' /\ PendingStarted'
      /\ \A x \in Sig!Pending(queue) : x # w => x \in Sig!Pending(queue)'
  BY <1>1, <1>2, <1>8, StopKeeps
<1>10. SignalsTyped' /\ CaughtRight' /\ PipeRight' /\ Sig!SignalsNoticed' /\ Sig!ZombiesSeen'
  BY <1>1, <1>2, <1>9 DEF SignalsTyped, CaughtRight, PipeRight, Sig!SignalsNoticed, Sig!ZombiesSeen
<1> QED BY <1>2, <1>7, <1>9, <1>10, TableSame

\* All but the last, when the last has taken the place of w.
LEMMA Overwritten ==
    ASSUME NEW S, NEW s \in Seq(S), Once(s), NEW w \in Sig!Range(s), NEW t,
           t = Sig!Front([i \in DOMAIN s |-> IF s[i] = w THEN Sig!Last(s) ELSE s[i]])
    PROVE  /\ t \in Seq(S) /\ Once(t)
           /\ \A x : x \in Sig!Range(t) <=> x \in Sig!Range(s) /\ x # w
<1>1. PICK n : n = Len(s)
  OBVIOUS
<1>2. n \in Nat /\ \A x : x \in Sig!Range(s) <=> \E k \in 1 .. n : s[k] = x
  BY <1>1, RangeRight
<1>3. PICK i \in 1 .. n : s[i] = w
  BY <1>2
<1>4. PICK u : u = [k \in 1 .. n |-> IF s[k] = w THEN s[n] ELSE s[k]]
  OBVIOUS
<1>5. \A k \in 1 .. n : s[k] \in S
  BY <1>1
<1>6. n \in 1 .. n
  BY <1>2, <1>3
<1>7. u \in Seq(S) /\ Len(u) = n /\ \A k \in 1 .. n : u[k] = IF s[k] = w THEN s[n] ELSE s[k]
  BY <1>2, <1>4, <1>5, <1>6
<1>8. t = SubSeq(u, 1, n - 1)
  <2>1. DOMAIN s = 1 .. n
    BY <1>1
  <2>2. t = Sig!Front(u)
    BY <1>1, <1>4, <2>1 DEF Sig!Last
  <2> QED BY <1>7, <2>2 DEF Sig!Front
<1>9. t \in Seq(S) /\ Len(t) = n - 1 /\ \A k \in 1 .. n - 1 : t[k] = u[k]
  <2>1. n - 1 \in Nat /\ n - 1 <= n /\ n - 1 <= Len(u)
    BY <1>2, <1>6, <1>7
  <2>2. PICK m : m = n - 1
    OBVIOUS
  <2>3. t = SubSeq(u, 1, m) /\ m \in Nat /\ m <= Len(u)
    BY <1>8, <2>1, <2>2
  <2>4. Len(t) = m
    BY <1>7, <2>3
  <2>5. t \in Seq(S)
    BY <1>7, <2>3
  <2>6. \A k \in 1 .. m : t[k] = u[k]
    BY <1>7, <2>3
  <2> QED BY <2>2, <2>4, <2>5, <2>6
<1>10. \A k \in 1 .. n, m \in 1 .. n : s[k] = s[m] => k = m
  BY <1>1 DEF Once
<1>11. ASSUME NEW k \in 1 .. n - 1
       PROVE  k \in 1 .. n /\ k # n /\ t[k] = IF k = i THEN s[n] ELSE s[k]
  <2>1. k \in 1 .. n /\ k # n
    BY <1>2
  <2>2. t[k] = IF s[k] = w THEN s[n] ELSE s[k]
    BY <1>7, <1>9, <2>1
  <2>3. s[k] = w <=> k = i
    BY <1>3, <1>10, <2>1
  <2> QED BY <2>1, <2>2, <2>3
<1>12. ASSUME NEW k \in 1 .. n - 1, NEW m \in 1 .. n - 1, t[k] = t[m] PROVE k = m
  <2>1. /\ k \in 1 .. n /\ k # n /\ t[k] = IF k = i THEN s[n] ELSE s[k]
        /\ m \in 1 .. n /\ m # n /\ t[m] = IF m = i THEN s[n] ELSE s[m]
    BY <1>11
  <2>2. CASE k = i /\ m = i
    BY <2>2
  <2>3. CASE k = i /\ m # i
    <3>1. s[n] = s[m]
      BY <1>12, <2>1, <2>3
    <3> QED BY <1>6, <1>10, <2>1, <3>1
  <2>4. CASE k # i /\ m = i
    <3>1. s[k] = s[n]
      BY <1>12, <2>1, <2>4
    <3> QED BY <1>6, <1>10, <2>1, <3>1
  <2>5. CASE k # i /\ m # i
    <3>1. s[k] = s[m]
      BY <1>12, <2>1, <2>5
    <3> QED BY <1>10, <2>1, <3>1
  <2> QED BY <2>2, <2>3, <2>4, <2>5
<1>13. \A x : x \in Sig!Range(t) <=> \E k \in 1 .. n - 1 : t[k] = x
  <2>1. \A x : x \in Sig!Range(t) <=> \E k \in 1 .. Len(t) : t[k] = x
    BY <1>9, RangeRight
  <2>2. Len(t) = n - 1
    BY <1>9
  <2> QED BY <2>1, <2>2
<1>14. ASSUME NEW x, x \in Sig!Range(t) PROVE x \in Sig!Range(s) /\ x # w
  <2>1. PICK k \in 1 .. n - 1 : t[k] = x
    BY <1>13, <1>14
  <2>2. CASE k = i
    BY <1>2, <1>3, <1>6, <1>10, <1>11, <2>1, <2>2
  <2>3. CASE k # i
    BY <1>2, <1>3, <1>10, <1>11, <2>1, <2>3
  <2> QED BY <2>2, <2>3
<1>15. ASSUME NEW x, x \in Sig!Range(s), x # w PROVE x \in Sig!Range(t)
  <2>1. PICK k \in 1 .. n : s[k] = x
    BY <1>2, <1>15
  <2>2. k # i
    BY <1>3, <1>15, <2>1
  <2>3. CASE k = n
    <3>1. i \in 1 .. n - 1
      BY <1>2, <2>2, <2>3
    <3> QED BY <1>11, <1>13, <2>1, <2>3, <3>1
  <2>4. CASE k # n
    <3>1. k \in 1 .. n - 1
      BY <1>2, <2>4
    <3> QED BY <1>11, <1>13, <2>1, <2>2, <3>1
  <2> QED BY <2>3, <2>4
<1>16. Once(t)
  BY <1>9, <1>12 DEF Once
<1> QED BY <1>9, <1>14, <1>15, <1>16

LEMMA AsyncStopKeeps ==
    ASSUME SigKept, NEW w \in Asyncs, Sig!AsyncStop(w)
    PROVE  SigKept'
<1> USE DEF SigKept
<1>1. w # pipe_w /\ w # childev
  BY OwnWatchers
<1>2. /\ UNCHANGED <<default, raised, action, attached, flag, head, owed, childs, wake, skipped, pipe, postfork, pri, report>>
      /\ queue' = Sig!Without(queue, w) /\ w \in Sig!Range(asyncs)
      /\ asyncs' = Sig!Front([i \in DOMAIN asyncs |-> IF asyncs[i] = w THEN Sig!Last(asyncs) ELSE asyncs[i]])
  BY DEF Sig!AsyncStop, Sig!procs, Sig!sigvars, Sig!loopvars
<1>3. asyncs \in Seq(Asyncs) /\ Once(asyncs)
  BY DEF ListsRight
<1>4. PICK t : t = asyncs'
  OBVIOUS
<1>5. t \in Seq(Asyncs) /\ Once(t) /\ \A x : x \in Sig!Range(t) <=> x \in Sig!Range(asyncs) /\ x # w
  BY <1>2, <1>3, <1>4, Overwritten
<1>6. ListsRight'
  BY <1>2, <1>4, <1>5 DEF ListsRight, Once
<1>7. \A x : x \in Sig!Started /\ x # w => x \in Sig!Started'
  BY <1>2, <1>4, <1>5, StartedRight, StartedRightNext
<1>8. /\ QueueRight(queue)' /\ ChildsAfter(queue)' /\ PendingStarted'
      /\ \A x \in Sig!Pending(queue) : x # w => x \in Sig!Pending(queue)'
  BY <1>1, <1>2, <1>7, StopKeeps
<1>9. PipeRight'
  <2>1. asyncs # <<>>
    BY <1>2 DEF Sig!Range
  <2> QED BY <1>2, <2>1 DEF PipeRight
<1>10. SignalsTyped' /\ CaughtRight' /\ Sig!SignalsNoticed' /\ Sig!ZombiesSeen'
  BY <1>1, <1>2, <1>8 DEF SignalsTyped, CaughtRight, Sig!SignalsNoticed, Sig!ZombiesSeen
<1> QED BY <1>2, <1>6, <1>8, <1>9, <1>10, TableSame


LEMMA ReverseRight ==
    ASSUME NEW S, NEW s \in Seq(S)
    PROVE  Sig!Reverse(s) \in Seq(S) /\ \A x : x \in Sig!Range(Sig!Reverse(s)) <=> x \in Sig!Range(s)
<1>1. PICK n : n = Len(s)
  OBVIOUS
<1>2. PICK t : t = Sig!Reverse(s)
  OBVIOUS
<1>3. n \in Nat /\ \A k \in 1 .. n : n - k + 1 \in 1 .. n /\ s[k] \in S
  BY <1>1
<1>4. t = [k \in 1 .. n |-> s[n - k + 1]]
  BY <1>1, <1>2 DEF Sig!Reverse
<1>5. t \in Seq(S) /\ Len(t) = n /\ \A k \in 1 .. n : t[k] = s[n - k + 1]
  BY <1>3, <1>4
<1>6. /\ \A x : x \in Sig!Range(s) <=> \E k \in 1 .. n : s[k] = x
      /\ \A x : x \in Sig!Range(t) <=> \E k \in 1 .. n : t[k] = x
  BY <1>1, <1>5, RangeRight
<1>7. ASSUME NEW k \in 1 .. n PROVE t[n - k + 1] = s[k]
  <2>1. n - (n - k + 1) + 1 = k
    BY <1>3
  <2> QED BY <1>3, <1>5, <2>1
<1>8. \A x : x \in Sig!Range(t) <=> x \in Sig!Range(s)
  BY <1>3, <1>5, <1>6, <1>7
<1> QED BY <1>2, <1>5, <1>8

LEMMA PipecbKeeps ==
    ASSUME SigKept, Sig!Pipecb
    PROVE  SigKept'
<1> USE DEF SigKept
<1>1. PICK ss, as, chld, usr :
        /\ ss = IF "sig" \in wake THEN flag \cap attached ELSE {}
        /\ as = IF "async" \in wake THEN Sig!Chosen(Sig!Reverse(asyncs), sent) ELSE <<>>
        /\ chld = IF "CHLD" \in ss THEN head["CHLD"] ELSE <<>>
        /\ usr = IF "USR" \in ss THEN head["USR"] ELSE <<>>
  OBVIOUS
<1>2. PICK ws : ws = chld \o usr \o as
  OBVIOUS
<1>3. PICK q : q = Sig!Without(queue, pipe_w)
  OBVIOUS
<1>4. /\ UNCHANGED <<default, raised, action, attached, head, childs, asyncs, postfork, pri, report>>
      /\ pipe' \in {"empty", pipe} /\ skipped' = FALSE /\ wake' = {}
      /\ flag' = flag \ ss /\ owed' = owed \ ss
      /\ queue' = Sig!FeedEvents(q, ws, Sig!High)
  BY <1>1, <1>2, <1>3 DEF Sig!Pipecb, Sig!procs
<1>5. pipe_w \in Structures /\ pipe_w \notin Childs /\ pipe_w # childev /\ "CHLD" \in Sig!Signal /\ "USR" \in Sig!Signal
  BY SignalsAssumption DEF Sig!WatchersRight, Structures, Sig!Signal
<1>6. /\ QueueRight(q) /\ ChildsAfter(q)
      /\ \A x : x \in Sig!Pending(q) <=> x \in Sig!Pending(queue) /\ x # pipe_w
  BY <1>3, <1>5, WithoutRight
<1>7. \A x \in SigWatchers \cup {childev} \cup Asyncs : x \in Structures /\ x \notin Childs
  BY SignalsAssumption DEF Sig!WatchersRight, Structures
<1>8. PICK U : U = SigWatchers \cup {childev} \cup Asyncs
  OBVIOUS
<1>9. head["CHLD"] \in Seq(U) /\ head["USR"] \in Seq(U) /\ asyncs \in Seq(U)
  <2>1. /\ head["CHLD"] \in Seq(SigWatchers \cup {childev}) /\ head["USR"] \in Seq(SigWatchers \cup {childev})
        /\ asyncs \in Seq(Asyncs)
    BY <1>5 DEF ListsRight
  <2>2. SigWatchers \cup {childev} \subseteq U /\ Asyncs \subseteq U
    BY <1>8
  <2> QED BY <2>1, <2>2
<1>10. \A x : x \notin Sig!Range(<<>>)
  BY DEF Sig!Range
<1>11. chld \in Seq(U) /\ \A x : x \in Sig!Range(chld) <=> "CHLD" \in ss /\ x \in Sig!Range(head["CHLD"])
  BY <1>1, <1>9, <1>10
<1>12. usr \in Seq(U) /\ \A x : x \in Sig!Range(usr) <=> "USR" \in ss /\ x \in Sig!Range(head["USR"])
  BY <1>1, <1>9, <1>10
<1>13. as \in Seq(U) /\ \A x : x \in Sig!Range(as) => x \in Sig!Range(asyncs)
  <2>1. CASE "async" \in wake
    <3>1. PICK v : v = Sig!Reverse(asyncs)
      OBVIOUS
    <3>2. v \in Seq(U) /\ \A x : x \in Sig!Range(v) <=> x \in Sig!Range(asyncs)
      BY <1>9, <3>1, ReverseRight
    <3>3. as = Sig!Chosen(v, sent)
      BY <1>1, <2>1, <3>1
    <3> QED BY <3>2, <3>3, ChosenRight
  <2>2. CASE "async" \notin wake
    BY <1>1, <1>10, <2>2
  <2> QED BY <2>1, <2>2
<1>14. PICK two : two = chld \o usr
  OBVIOUS
<1>15. two \in Seq(U) /\ Joined(two, chld, usr)
  BY <1>11, <1>12, <1>14, JoinedRight
<1>16. ws \in Seq(U) /\ Joined(ws, two, as)
  BY <1>2, <1>13, <1>14, <1>15, JoinedRight
<1>17. \A x : x \in Sig!Range(ws) <=> x \in Sig!Range(chld) \/ x \in Sig!Range(usr) \/ x \in Sig!Range(as)
  BY <1>15, <1>16 DEF Joined
<1>18. \A x \in Sig!Range(ws) : x \in U
  BY <1>16, RangeRight
<1>19. ws \in Seq(Structures)
  <2>1. U \subseteq Structures
    BY <1>7, <1>8
  <2> QED BY <1>16, <2>1
<1>20. PICK high : high = Sig!High
  OBVIOUS
<1>21. PICK r : r = queue'
  OBVIOUS
<1>22. QueueRight(r) /\ Fed(r, q, ws, high)
  BY <1>4, <1>6, <1>19, <1>20, <1>21, FeedEventsRight
<1>23. ChildsAfter(r)
  BY <1>6, <1>7, <1>8, <1>18, <1>22, FedNoChilds
<1>24. \A x : x \in Sig!Pending(r) <=> (x \in Sig!Pending(queue) /\ x # pipe_w) \/ x \in Sig!Range(ws)
  BY <1>6, <1>22 DEF Fed
<1>25. QueueRight(queue)' /\ ChildsAfter(queue)' /\ Sig!Pending(queue)' = Sig!Pending(r)
  BY <1>21, <1>22, <1>23 DEF QueueRight, ChildsAfter, Sig!Pending
<1>26. ListsRight' /\ Sig!Started' = Sig!Started
  BY <1>4, ListsSame
<1>27. \A x \in Sig!Range(ws) : x \in Sig!Started
  BY <1>5, <1>11, <1>12, <1>13, <1>17, StartedRight
<1>28. PendingStarted'
  BY <1>24, <1>25, <1>26, <1>27 DEF PendingStarted
<1>29. \A s \in owed : s \in ss
  BY <1>1 DEF Sig!SignalsNoticed, CaughtRight
<1>30. owed' = {}
  BY <1>4, <1>29
<1>31. SignalsTyped' /\ CaughtRight' /\ PipeRight' /\ Sig!SignalsNoticed'
  BY <1>4, <1>30 DEF SignalsTyped, CaughtRight, PipeRight, Sig!SignalsNoticed
<1>32. Sig!ZombiesSeen'
  <2> SUFFICES ASSUME \E p \in Pids : report[p] # "none"
               PROVE  "CHLD" \in raised \/ childev \in Sig!Pending(r)
    BY <1>4, <1>25 DEF Sig!ZombiesSeen
  <2>1. "CHLD" \in raised \cup owed \/ childev \in Sig!Pending(queue)
    BY DEF Sig!ZombiesSeen
  <2>2. CASE "CHLD" \in owed
    <3>1. childev \in Sig!Range(head["CHLD"])
      BY DEF CaughtRight, ListsRight
    <3> QED BY <1>11, <1>17, <1>24, <1>29, <2>2, <3>1
  <2> QED BY <1>5, <1>24, <2>1, <2>2
<1> QED BY <1>4, <1>25, <1>26, <1>28, <1>31, <1>32, TableSame

\* What child_reap finds in the table.
LEMMA MatchingRight ==
    ASSUME ListsRight, NEW b \in 0 .. HashSize - 1, NEW p, NEW status
    PROVE  /\ Sig!Matching(b, p, status) \in Seq(Childs)
           /\ \A x \in Sig!Range(Sig!Matching(b, p, status)) : x \in Childs /\ x \in Sig!Range(childs[b])
<1>1. PICK T : T = {w \in Childs : PidOf[w] \in {p, 0} /\ (status = "stop" => w \in Traced)}
  OBVIOUS
<1>2. PICK t : t = Sig!Matching(b, p, status)
  OBVIOUS
<1>3. PICK s : s = childs[b]
  OBVIOUS
<1>4. s \in Seq(Childs)
  BY <1>3 DEF ListsRight
<1>5. t = Sig!Chosen(s, T)
  BY <1>1, <1>2, <1>3 DEF Sig!Matching
<1>6. t \in Seq(Childs) /\ \A x : x \in Sig!Range(t) <=> x \in Sig!Range(s) /\ x \in T
  BY <1>4, <1>5, ChosenRight
<1> QED BY <1>1, <1>2, <1>3, <1>6

LEMMA BucketsRight ==
    ASSUME NEW p \in Pids
    PROVE  0 \in 0 .. HashSize - 1 /\ Sig!Bucket(p) \in 0 .. HashSize - 1
<1>1. p \in Nat /\ HashSize \in Nat \ {0}
  BY WatchersKnown
<1> QED BY <1>1 DEF Sig!Bucket

LEMMA ChildcbKeeps ==
    ASSUME SigKept, Sig!Childcb
    PROVE  SigKept'
<1> USE DEF SigKept
<1>1. /\ UNCHANGED <<default, raised, action, attached, flag, head, owed, childs, asyncs, wake, skipped, pipe, postfork>>
      /\ Sig!Called(childev)
  BY DEF Sig!Childcb, Sig!sigvars, Sig!loopvars
<1>2. pipe_w # childev /\ childev \notin Childs /\ childev \in Structures /\ pipe_w \notin Childs
  BY SignalsAssumption DEF Sig!WatchersRight, Structures
<1>3. PICK q : q = Sig!Without(queue, childev)
  OBVIOUS
<1>4. /\ QueueRight(q)
      /\ \A x : x \in Sig!Pending(q) <=> x \in Sig!Pending(queue) /\ x # childev
  BY <1>3, WithoutRight
<1>5. \A x \in Sig!Pending(q) : x \notin Childs
  BY <1>1, <1>4, ChildevLast
<1>6. PICK r : r = queue'
  OBVIOUS
<1>7. ListsRight' /\ Sig!Started' = Sig!Started /\ TableRight'
  BY <1>1, ListsSame, TableSame
<1>8. \A x : x \in Sig!Pending(q) <=> \/ \E k \in 1 .. Len(q.max) : q.max[k] = x
                                     \/ \E k \in 1 .. Len(q.low) : q.low[k] = x
  BY <1>4, PendingRight
<1>9. SUFFICES /\ SignalsTyped' /\ QueueRight(r) /\ ChildsAfter(r)
               /\ \A x \in Sig!Pending(r) : x = pipe_w \/ x \in Sig!Started
               /\ \A x \in Sig!Pending(q) : x \in Sig!Pending(r)
               /\ ~default => \A p \in Pids : report'[p] = "none"
               /\ (\E p \in Pids : report'[p] # "none") => childev \in Sig!Pending(r)
  <2>1. QueueRight(queue)' /\ ChildsAfter(queue)' /\ Sig!Pending(queue)' = Sig!Pending(r)
    BY <1>6, <1>9 DEF QueueRight, ChildsAfter, Sig!Pending
  <2>2. PendingStarted'
    BY <1>7, <1>9, <2>1 DEF PendingStarted
  <2>3. pipe_w \in Sig!Pending(queue) => pipe_w \in Sig!Pending(r)
    BY <1>2, <1>4, <1>9
  <2>4. CaughtRight' /\ PipeRight' /\ Sig!SignalsNoticed' /\ Sig!ZombiesSeen'
    BY <1>1, <1>9, <2>1, <2>3 DEF CaughtRight, PipeRight, Sig!SignalsNoticed, Sig!ZombiesSeen
  <2> QED BY <1>7, <1>9, <2>1, <2>2, <2>4
<1>10. CASE \A p \in Pids : report[p] = "none"
  <2>1. queue' = q /\ pri' = pri /\ report' = report
    BY <1>3, <1>10 DEF Sig!Childcb
  <2>2. SignalsTyped'
    BY <1>1, <2>1 DEF SignalsTyped
  <2>3. ChildsAfter(q)
    BY <1>5, <1>8 DEF ChildsAfter
  <2> QED BY <1>4, <1>6, <1>10, <2>1, <2>2, <2>3 DEF PendingStarted
<1>11. CASE ~ \A p \in Pids : report[p] = "none"
  <2>1. PICK p \in Pids :
          /\ report[p] # "none" /\ report' = [report EXCEPT ![p] = "none"]
          /\ LET ws == Sig!Matching(Sig!Bucket(p), p, report[p]) \o Sig!Matching(0, p, report[p]) IN
               /\ pri' = [w \in Childs |-> IF w \in Sig!Range(ws) THEN "max" ELSE pri[w]]
               /\ queue' = Sig!AfterReap(ws)
    BY <1>11 DEF Sig!Childcb
  <2>2. PICK one, two : one = Sig!Matching(Sig!Bucket(p), p, report[p]) /\ two = Sig!Matching(0, p, report[p])
    OBVIOUS
  <2>3. PICK ws : ws = one \o two
    OBVIOUS
  <2>4. /\ pri' = [w \in Childs |-> IF w \in Sig!Range(ws) THEN "max" ELSE pri[w]]
        /\ queue' = Sig!AfterReap(ws)
    BY <2>1, <2>2, <2>3
  <2>5. 0 \in 0 .. HashSize - 1 /\ Sig!Bucket(p) \in 0 .. HashSize - 1 /\ DOMAIN childs = 0 .. HashSize - 1
    BY BucketsRight DEF ListsRight
  <2>6. /\ one \in Seq(Childs) /\ \A x \in Sig!Range(one) : x \in Childs /\ x \in Sig!Started
        /\ two \in Seq(Childs) /\ \A x \in Sig!Range(two) : x \in Childs /\ x \in Sig!Started
    <3>1. /\ one \in Seq(Childs) /\ \A x \in Sig!Range(one) : x \in Childs /\ x \in Sig!Range(childs[Sig!Bucket(p)])
          /\ two \in Seq(Childs) /\ \A x \in Sig!Range(two) : x \in Childs /\ x \in Sig!Range(childs[0])
      BY <2>2, <2>5, MatchingRight
    <3> QED BY <2>5, <3>1, StartedRight
  <2>7. ws \in Seq(Childs) /\ Joined(ws, one, two)
    BY <2>3, <2>6, JoinedRight
  <2>8. \A x \in Sig!Range(ws) : x \in Childs /\ x \in Sig!Started
    BY <2>6, <2>7 DEF Joined
  <2>9. PICK vs : vs = <<childev>> \o ws
    OBVIOUS
  <2>10. /\ vs \in Seq(Structures) /\ vs # <<>> /\ vs[1] = childev
         /\ \A x : x \in Sig!Range(vs) <=> x = childev \/ x \in Sig!Range(ws)
    <3>1. Childs \subseteq Structures
      BY DEF Structures
    <3>2. ws \in Seq(Structures)
      BY <2>7, <3>1
    <3>3. vs[1] = childev
      BY <2>9, <3>2
    <3> QED BY <1>2, <2>9, <3>2, <3>3, FrontRight
  <2>11. PICK high : high = Childs \cup {childev}
    OBVIOUS
  <2>12. r = Sig!FeedEvents(q, vs, high)
    BY <1>3, <1>6, <2>4, <2>9, <2>11 DEF Sig!AfterReap
  <2>13. QueueRight(r) /\ Fed(r, q, vs, high)
    BY <1>4, <2>10, <2>12, FeedEventsRight
  <2>14. \A x : x \in Sig!Pending(r) <=> x \in Sig!Pending(q) \/ x = childev \/ x \in Sig!Range(ws)
    BY <2>10, <2>13 DEF Fed
  <2>15. /\ Len(q.max) \in Nat /\ Len(r.max) \in Nat
         /\ Len(q.max) + 1 \in 1 .. Len(r.max) /\ r.max[Len(q.max) + 1] = childev
    <3>1. Len(q.max) \in Nat /\ Len(r.max) \in Nat
      BY <1>4, <2>13 DEF QueueRight
    <3> QED BY <1>4, <2>10, <2>11, <2>13, <3>1 DEF Fed
  <2>16. ASSUME NEW k \in 1 .. Len(r.max), r.max[k] \in Childs
         PROVE  \E m \in 1 .. Len(r.max) : m < k /\ r.max[m] = childev
    <3>1. k \notin 1 .. Len(q.max)
      BY <1>5, <1>8, <2>13, <2>16 DEF Fed
    <3>2. k # Len(q.max) + 1
      BY <1>2, <2>15, <2>16
    <3>3. Len(q.max) + 1 < k
      BY <2>15, <3>1, <3>2
    <3> QED BY <2>15, <3>3
  <2>17. \A k \in 1 .. Len(r.low) : r.low[k] \notin Childs
    BY <1>5, <1>8, <2>11, <2>13 DEF Fed
  <2>18. ChildsAfter(r)
    BY <2>16, <2>17 DEF ChildsAfter
  <2>19. SignalsTyped'
    BY <1>1, <2>1, <2>4 DEF SignalsTyped
  <2>20. childev \in Sig!Started
    <3>1. childev \in Sig!Pending(queue)
      <4>1. queue.max \in Seq(Structures) /\ queue.low \in Seq(Structures)
        BY DEF QueueRight
      <4>2. CASE queue.max # <<>>
        <5>1. Len(queue.max) \in 1 .. Len(queue.max) /\ childev = queue.max[Len(queue.max)]
          BY <1>1, <4>1, <4>2 DEF Sig!Called, Sig!Last
        <5> QED BY <5>1, PendingRight
      <4>3. CASE queue.max = <<>>
        <5>1. Len(queue.low) \in 1 .. Len(queue.low) /\ childev = queue.low[Len(queue.low)]
          BY <1>1, <4>1, <4>3 DEF Sig!Called, Sig!Last
        <5> QED BY <5>1, PendingRight
      <4> QED BY <4>2, <4>3
    <3> QED BY <1>2, <3>1 DEF PendingStarted
  <2>21. \A x \in Sig!Pending(r) : x = pipe_w \/ x \in Sig!Started
    BY <1>4, <2>8, <2>14, <2>20 DEF PendingStarted
  <2>22. ~default => \A c \in Pids : report'[c] = "none"
    BY <2>1 DEF CaughtRight, SignalsTyped
  <2> QED BY <2>13, <2>14, <2>18, <2>19, <2>21, <2>22
<1> QED BY <1>10, <1>11


LEMMA SigInit ==
    ASSUME Sig!Init
    PROVE  SigKept
<1>1. /\ default \in BOOLEAN
      /\ action = [s \in Sig!Signal |-> IF default /\ s = "CHLD" THEN "ev_sighandler" ELSE "dfl"]
      /\ attached = IF default THEN {"CHLD"} ELSE {}
      /\ head = [s \in Sig!Signal |-> IF default /\ s = "CHLD" THEN <<childev>> ELSE <<>>]
      /\ pipe = IF default THEN "empty" ELSE "none"
      /\ raised = {} /\ flag = {} /\ owed = {} /\ asyncs = <<>> /\ sent = {} /\ wake = {}
      /\ childs = [b \in 0 .. HashSize - 1 |-> <<>>]
      /\ wanted = FALSE /\ skipped = FALSE /\ postfork = FALSE
      /\ queue = [max |-> <<>>, low |-> <<>>]
      /\ pri = [w \in Childs |-> "low"]
      /\ report = [p \in Pids |-> "none"]
  BY DEF Sig!Init
<1>2. SignalsTyped
  BY <1>1 DEF SignalsTyped, Sig!Signal
<1>3. PICK one : one = <<childev>>
  OBVIOUS
<1>4. one \in Seq(SigWatchers \cup {childev}) /\ one # <<>> /\ Len(one) = 1 /\ one[1] = childev
  BY <1>3
<1>5. \A x : x \in Sig!Range(one) <=> x = childev
  <2>1. \A x : x \in Sig!Range(one) <=> \E k \in 1 .. Len(one) : one[k] = x
    BY <1>4, RangeRight
  <2> QED BY <1>4, <2>1
<1>6. \A x : x \notin Sig!Range(<<>>)
  BY DEF Sig!Range
<1>7. \A s \in Sig!Signal : head[s] = IF default /\ s = "CHLD" THEN one ELSE <<>>
  BY <1>1, <1>3
<1>8. ListsRight
  <2>1. head \in [Sig!Signal -> Seq(SigWatchers \cup {childev})]
    <3>1. <<>> \in Seq(SigWatchers \cup {childev})
      OBVIOUS
    <3>2. head = [s \in Sig!Signal |-> IF default /\ s = "CHLD" THEN one ELSE <<>>]
      BY <1>1, <1>3
    <3> QED BY <1>4, <3>1, <3>2
  <2>2. \A s \in Sig!Signal : \A x \in Sig!Range(head[s]) : x = childev /\ s = "CHLD" /\ default
    BY <1>5, <1>6, <1>7
  <2>3. default => childev \in Sig!Range(head["CHLD"])
    BY <1>5, <1>7 DEF Sig!Signal
  <2>4. childs \in [0 .. HashSize - 1 -> Seq(Childs)] /\ asyncs \in Seq(Asyncs) /\ Once(asyncs)
    BY <1>1 DEF Once
  <2> QED BY <2>1, <2>2, <2>3, <2>4 DEF ListsRight
<1>9. CaughtRight /\ PipeRight /\ Sig!SignalsNoticed /\ Sig!ZombiesSeen
  BY <1>1 DEF CaughtRight, PipeRight, Sig!SignalsNoticed, Sig!ZombiesSeen
<1>10. TableRight
  BY <1>1, <1>4, <1>7 DEF TableRight, Sig!Signal
<1>11. QueueRight(queue) /\ ChildsAfter(queue)
  BY <1>1 DEF QueueRight, ChildsAfter, Once
<1>12. PendingStarted
  BY <1>1, <1>6 DEF PendingStarted, Sig!Pending
<1> QED BY <1>2, <1>8, <1>9, <1>10, <1>11, <1>12 DEF SigKept

LEMMA SigStep ==
    ASSUME SigKept, [Sig!Next]_Sig!vars
    PROVE  SigKept'
<1>1. CASE UNCHANGED Sig!vars
  <2>1. /\ UNCHANGED <<default, raised, action, attached, flag, head, owed, childs, asyncs, wake, skipped, pipe,
                      postfork, queue, pri, report>>
    BY <1>1 DEF Sig!vars, Sig!sigvars, Sig!loopvars, Sig!procs
  <2>2. SignalsTyped' /\ CaughtRight' /\ PipeRight' /\ Sig!SignalsNoticed' /\ Sig!ZombiesSeen'
    BY <2>1 DEF SigKept, SignalsTyped, CaughtRight, PipeRight, Sig!SignalsNoticed, Sig!ZombiesSeen
  <2> QED BY <2>1, <2>2, ListsSame, PendingSame, TableSame DEF SigKept, QueueRight, ChildsAfter
<1>2. CASE Sig!Block \/ Sig!Poll \/ Sig!PollReturns
  BY <1>2, SigBlockKeeps, PollKeeps
<1>3. CASE Sig!Invoke
  BY <1>3, PipecbKeeps, ChildcbKeeps, CallbackKeeps DEF Sig!Invoke
<1>4. CASE Sig!Fork \/ Sig!ParentUsesPipe \/ Sig!Raise \/ \E p \in Pids : Sig!ChildChanges(p)
  BY <1>4, OutsideKeeps
<1>5. ASSUME NEW s \in Sig!Signal, Sig!Deliver(s) PROVE SigKept'
  BY <1>5, DeliverKeeps
<1>6. ASSUME NEW w \in SigWatchers, Sig!SignalStart(w) \/ Sig!SignalStop(w) PROVE SigKept'
  BY <1>6, SignalStartKeeps, SignalStopKeeps
<1>7. ASSUME NEW w \in Childs, Sig!ChildStart(w) \/ Sig!ChildStop(w) PROVE SigKept'
  BY <1>7, ChildStartKeeps, ChildStopKeeps
<1>8. ASSUME NEW w \in Asyncs, Sig!AsyncStart(w) \/ Sig!AsyncStop(w) \/ Sig!AsyncSend(w) PROVE SigKept'
  BY <1>8, AsyncStartKeeps, AsyncStopKeeps, AsyncSendKeeps
<1> QED BY <1>1, <1>2, <1>3, <1>4, <1>5, <1>6, <1>7, <1>8 DEF Sig!Next

LEMMA SigAlways == SigSpec => []SigKept
<1>1. Sig!Init => SigKept
  BY SigInit
<1>2. SigKept /\ [Sig!Next]_Sig!vars => SigKept'
  BY SigStep
<1> QED BY <1>1, <1>2, PTL DEF SigSpec, Sig!Spec

LEMMA KeptChecked ==
    ASSUME SigKept
    PROVE  SigInv
<1> USE DEF SigKept
<1>1. Sig!Attached
  <2>1. \A s \in Sig!Signal : /\ (s \in attached) = (head[s] # <<>>)
                             /\ (s \in attached) = (action[s] = "ev_sighandler")
    BY DEF TableRight
  <2>2. Sig!Pending(queue) \subseteq Sig!Started \cup {pipe_w}
    BY DEF PendingStarted
  <2> QED BY <2>1, <2>2 DEF Sig!Attached, PipeRight
<1>2. Sig!TypeOK
  <2>1. PICK c : c = queue.max \o queue.low
    OBVIOUS
  <2>2. /\ queue.max \in Seq(Structures) /\ queue.low \in Seq(Structures) /\ Once(queue.max) /\ Once(queue.low)
        /\ \A k \in 1 .. Len(queue.max), m \in 1 .. Len(queue.low) : queue.max[k] # queue.low[m]
    BY DEF QueueRight
  <2>3. /\ \A x : x \in Sig!Range(queue.max) <=> \E k \in 1 .. Len(queue.max) : queue.max[k] = x
        /\ \A x : x \in Sig!Range(queue.low) <=> \E k \in 1 .. Len(queue.low) : queue.low[k] = x
    BY <2>2, RangeRight
  <2>4. \A x : ~(x \in Sig!Range(queue.max) /\ x \in Sig!Range(queue.low))
    BY <2>2, <2>3
  <2>5. Once(c)
    BY <2>1, <2>2, <2>4, OnceJoined
  <2>6. c \in Seq(Structures) /\ Joined(c, queue.max, queue.low)
    BY <2>1, <2>2, JoinedRight
  <2>7. Sig!IsInjective(c)
    <3>1. DOMAIN c = 1 .. Len(c)
      BY <2>6
    <3> QED BY <2>5, <3>1 DEF Once, Sig!IsInjective
  <2>8. Sig!IsInjective(asyncs)
    <3>1. asyncs \in Seq(Asyncs) /\ Once(asyncs)
      BY DEF ListsRight
    <3>2. DOMAIN asyncs = 1 .. Len(asyncs)
      BY <3>1
    <3> QED BY <3>1, <3>2 DEF Once, Sig!IsInjective
  <2> QED BY <2>1, <2>7, <2>8 DEF Sig!TypeOK, SignalsTyped
<1> QED BY <1>1, <1>2 DEF SigInv, Sig!SigInv

\* The table of signals and the pending queues are sound, a caught signal is on its way to
\* the loop, also when the write went to a pipe that loop_fork replaces, and while waitpid
\* has something to say SIGCHLD or childcb is on its way: for all watchers, signals,
\* children and interleavings (ev.c:4334, 3218, 2769).
THEOREM SigInvHolds == SigSpec => []SigInv
<1>1. SigKept => SigInv
  BY KeptChecked
<1> QED BY <1>1, SigAlways, PTL

\* childcb does not write the status of a child to a watcher that is still pending for an
\* earlier one, however many children and watchers there are (ev.c:2769).
THEOREM StatusKeptHolds == SigSpec => StatusKept
<1>1. ASSUME SigKept, NEW p \in Pids, Sig!Called(childev), NEW b \in {0, Sig!Bucket(p)}
      PROVE  Sig!Range(Sig!Matching(b, p, report[p])) \cap Sig!Pending(queue) = {}
  <2>1. b \in 0 .. HashSize - 1
    BY BucketsRight
  <2>2. PICK status : status = report[p]
    OBVIOUS
  <2>3. \A x \in Sig!Range(Sig!Matching(b, p, status)) : x \in Childs
    BY <1>1, <2>1, MatchingRight DEF SigKept
  <2>4. \A x \in Sig!Pending(queue) : x \notin Childs
    BY <1>1, ChildevLast DEF SigKept
  <2> QED BY <2>2, <2>3, <2>4
<1> DEFINE Kept == \A p \in Pids : Sig!Called(childev) /\ report[p] # report'[p] =>
                     \A b \in {0, Sig!Bucket(p)} :
                       Sig!Range(Sig!Matching(b, p, report[p])) \cap Sig!Pending(queue) = {}
<1>2. SigKept => Kept
  BY <1>1
<1>3. SigKept /\ [Sig!Next]_Sig!vars => [Kept]_Sig!vars
  BY <1>2
<1>4. SigSpec => [][Kept]_Sig!vars
  <2> HIDE DEF Kept
  <2> QED BY <1>3, SigAlways, PTL DEF SigSpec, Sig!Spec
<1> QED BY <1>4 DEF StatusKept, Sig!StatusKept
=============================================================================
