-------------------------- MODULE SignalWatchers --------------------------
(***************************************************************************)
(* The signal, child and async watchers of EvSignal and what is checked    *)
(* and proved of them, beside the other watchers.                          *)
(***************************************************************************)
CONSTANTS
    SigWatchers, SignalOf, Childs, PidOf, Traced, Asyncs, Pids, HashSize, pipe_w, childev, Programs
VARIABLES
    default, uses, action, raised, attached, flag, head, childs, asyncs, sent, wake, wanted,
    skipped, pipe, postfork, queue, pri, phase, alive, report, owed

Sig == INSTANCE EvSignal

ASSUME SignalsAssumption == Sig!WatchersRight

SigSpec == Sig!Spec

\* The table of signals and the pending queues are sound, a caught signal is on its way to
\* the loop, also after a fork, and a child that waitpid can report is seen (ev.c:4334,
\* 3218, 2769).
SigInv == Sig!SigInv

\* childcb does not write the status of a child to a watcher that is pending for an
\* earlier one (ev.c:2769).
StatusKept == Sig!StatusKept

\* All children are reaped, watched or not (ev.pod: "Libev always reaps all children,
\* even ones not watched").
EveryChildReaped == Sig!EveryChildReaped
=============================================================================
