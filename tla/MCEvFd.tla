------------------------------- MODULE MCEvFd -------------------------------
(***************************************************************************)
(* Two descriptors, one of them with a watcher for reading and one for     *)
(* writing, two files that epoll takes and one that it does not.           *)
(***************************************************************************)
EXTENDS EvFd

CONSTANTS rd, wr, other, fd0, fd1, a, b, regular

MCFd    == [w \in Watchers |-> IF w = other THEN fd1 ELSE fd0]
MCWants == [w \in Watchers |-> IF w = wr THEN {"WRITE"} ELSE {"READ"}]
=============================================================================
