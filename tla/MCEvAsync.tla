----------------------------- MODULE MCEvAsync ------------------------------
(***************************************************************************)
(* Small instances of EvAsync: two threads and a signal handler.           *)
(***************************************************************************)
EXTENDS EvAsync

CONSTANTS thread1, thread2, handler, async, signal

MCSort == [t \in Targets |-> IF t = async THEN "async" ELSE "sig"]
MCTarget == [s \in Senders |-> IF s = handler THEN signal ELSE async]
=============================================================================
