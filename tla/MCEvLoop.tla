------------------------------ MODULE MCEvLoop ------------------------------
(***************************************************************************)
(* A small instance of EvLoop. The program has started some of its         *)
(* watchers, in a fixed order, before the behaviour begins: a state the    *)
(* start functions reach, taken as initial so that MaxCalls is left for    *)
(* what callbacks do.                                                      *)
(***************************************************************************)
EXTENDS EvLoop

CONSTANTS io, chk1, chk2, prep, idle, fork, clean

MCKind == [w \in Watchers |->
    CASE w = io -> "io" [] w \in {chk1, chk2} -> "check" [] w = prep -> "prepare"
      [] w = idle -> "idle" [] w = fork -> "fork" [] w = clean -> "cleanup"]
\* The io watcher and one check watcher come before the others.
MCPri == [w \in Watchers |-> IF w \in {io, chk1} THEN 1 ELSE 0]

StartedArrays(S) ==
    [k \in Keys |-> SelectSeq(<<chk1, chk2, prep, idle, fork, clean>>,
                              LAMBDA w : w \in S /\ KeyOf(w) = k)]

Setups == {{io, chk1, chk2}, {prep, idle, fork, clean}}

MCInit ==
    \E S \in Setups :
        LET started == StartedArrays(S) IN
        /\ arrays = started
        /\ active = [w \in Watchers |->
                       IF w \notin S THEN 0
                       ELSE IF Kind[w] = "io" THEN 1
                       ELSE CHOOSE i \in 1 .. 2 :
                              i <= Len(started[KeyOf(w)]) /\ started[KeyOf(w)][i] = w]
        /\ activecnt = Cardinality({w \in S : Kind[w] # "cleanup"})
        /\ pending = [w \in Watchers |-> 0]
        /\ pendings = [p \in Pris |-> <<>>]
        /\ pendingpri = 0
        /\ loop_done = "CANCEL"
        /\ postfork = FALSE
        /\ stack = <<>>
        /\ running = <<>>
        /\ alive = TRUE
        /\ refs = 0
        /\ forkowed = FALSE
        /\ calls = 0

MCSpec == MCInit /\ [][Next]_vars /\ Fairness
=============================================================================
