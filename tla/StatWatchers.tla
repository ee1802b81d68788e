--------------------------- MODULE StatWatchers ---------------------------
(***************************************************************************)
(* The stat watchers of EvStat and what is checked and proved of them,     *)
(* under names of their own beside those of the timers.                    *)
(***************************************************************************)
CONSTANTS Stats, FileSystems, QueueMax, MaxChanges, MaxStarts, MaxForks, none
VARIABLES
    fs, dir, file, changes, target, events, fs_fd, batch, visit, agenda, started, timers, wd,
    attr, fed, refs, starts, forks, told, late, overflowed

Stat == INSTANCE EvStat

ASSUME StatsAssumption == Stat!StatsRight

StatSpec == Stat!Spec

\* A stat watcher that runs has a watch or a timer to look at its path, and the inner
\* timers keep no loop alive (ev.c:4500-4507, 4751, 4785).
PathsWatched == Stat!StatInv

\* When nothing is left to do each watcher has seen the file as it is, or will look
\* again, but for three races (ev.c:4549-4554, 4714-4721).
ChangesSeen == Stat!ChangesReported
=============================================================================
