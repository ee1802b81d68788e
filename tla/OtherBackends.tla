--------------------------- MODULE OtherBackends ---------------------------
(***************************************************************************)
(* The backends of EvBackend and what is checked and proved of them, under *)
(* names of their own beside those of epoll.                               *)
(***************************************************************************)
EXTENDS Anfds

CONSTANTS FdOf, EventsOf, MaxTroubles
VARIABLES backend, fresh, polls, pollidxs, vec, changes, leftover, kernel, troubles

Backend == INSTANCE EvBackend

ASSUME WatchersAssumption == Backend!WatchersRight

BackendSpec == Backend!Spec

\* The tables of poll name each other (ev_poll.c:73), and when the loop sleeps poll,
\* select and event ports have been told of each open descriptor what its watchers
\* ask for.
TablesTold == Backend!BackendInv

\* So has kqueue, or it will be told again in the next turn.
KqueueTold == Backend!KqueueAsked

\* poll and select stop the watchers of a descriptor that is not open.
BadFdsStopped == Backend!BadFdKilled
=============================================================================
