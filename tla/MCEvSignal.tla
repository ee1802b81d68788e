---------------------------- MODULE MCEvSignal -----------------------------
(***************************************************************************)
(* A watcher for SIGUSR1 and one more for SIGCHLD, a traced watcher for    *)
(* one child and one for any, two children whose pids share bucket 0 with  *)
(* the pid 0 or do not. A program uses two of the watchers.                *)
(***************************************************************************)
EXTENDS SignalWatchers, TLC

CONSTANTS s1, c1, c2, a1

MCSignalOf == s1 :> "USR"
MCPidOf    == c1 :> 1 @@ c2 :> 0
MCPrograms == {{s1, a1}, {s1, c1}, {c1, c2}, {a1, c2}}
=============================================================================
