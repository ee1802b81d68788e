------------------------------ MODULE EvAsync -------------------------------
(***************************************************************************)
(* How another thread or a signal handler wakes an event loop (ev.c):      *)
(* ev_async_send and ev_feed_signal, evpipe_write, the part of ev_run that *)
(* decides whether to block, and pipecb.                                   *)
(*                                                                         *)
(* No lock is taken. A sender sets its watcher's flag, the flag of all     *)
(* watchers of that sort, and pipe_write_skipped, and writes to the pipe   *)
(* only when the loop has asked for it (pipe_write_wanted); the loop looks *)
(* at pipe_write_skipped before it blocks. What keeps a send from falling  *)
(* between the two are the memory fences, so memory is modelled as x86-64  *)
(* has it: each processor buffers its stores and reads its own first, and  *)
(* ECB_MEMORY_FENCE waits for the buffer to drain. The release and acquire *)
(* fences are fences for the compiler only (ev.c:662-665).                 *)
(***************************************************************************)
EXTENDS Integers, Sequences, FiniteSets

CONSTANTS
    Senders,    \* who sends
    Handlers,   \* the senders that are signal handlers on the loop's thread
    Targets,    \* the async watchers and the signals
    Sort,       \* "async" or "sig", for each target
    Target,     \* what each sender sends to
    MaxSends,   \* bound: sends of all senders together
    PipeRead,   \* how many writes one read of pipecb takes: 4 of a pipe
    Locking     \* callbacks take a lock before they look at their data

ASSUME AsyncAssumption ==
    /\ IsFiniteSet(Senders) /\ "loop" \notin Senders
    /\ Handlers \subseteq Senders
    /\ Sort \in [Targets -> {"async", "sig"}]
    /\ Target \in [Senders -> Targets]
    /\ MaxSends \in Nat
    /\ PipeRead \in Nat \ {0}
    /\ Locking \in BOOLEAN

loop == "loop"
Cpus == {loop} \cup (Senders \ Handlers)
\* A signal handler runs on the processor of the loop it interrupts.
Cpu(s) == IF s \in Handlers THEN loop ELSE s

wanted  == <<"wanted">>     \* pipe_write_wanted
skipped == <<"skipped">>    \* pipe_write_skipped
flag(sort) == <<"flag", sort>>  \* sig_pending and async_pending
sent(t) == <<"sent", t>>    \* ev_async.sent, or ANSIG.pending
data(s) == <<"data", s>>    \* what sender s has to say: the number of its send
Locs == {wanted, skipped} \cup {flag(k) : k \in {"sig", "async"}}
        \cup {sent(t) : t \in Targets} \cup {data(s) : s \in Senders}

VARIABLES
    mem,        \* memory
    buffer,     \* the stores of each processor that memory has not seen
    bytes,      \* writes to the pipe that have not been read
    pc,         \* where the loop is
    block,      \* backend_poll was given a time to wait
    revents,    \* what is pending for pipe_w
    scan,       \* the targets pipecb has yet to look at
    fed,        \* the targets whose callbacks are pending
    spc,        \* where each sender is
    sends,      \* history: the sends each sender has begun
    seen        \* history: the last send of each sender a callback has seen

loopVars == <<pc, block, revents, scan, fed, seen>>
vars == <<mem, buffer, bytes, loopVars, spc, sends>>
-----------------------------------------------------------------------------
(* Memory.                                                                 *)

Fence(c) == buffer[c] = <<>>

Read(c, l) ==
    LET mine == {i \in 1 .. Len(buffer[c]) : buffer[c][i][1] = l} IN
    IF mine = {} THEN mem[l]
    ELSE buffer[c][CHOOSE i \in mine : \A j \in mine : j <= i][2]

Store(c, stores) == buffer' = [buffer EXCEPT ![c] = @ \o stores]

\* The oldest store of a processor reaches memory.
Drain(c) ==
    /\ buffer[c] # <<>>
    /\ mem' = [mem EXCEPT ![Head(buffer[c])[1]] = Head(buffer[c])[2]]
    /\ buffer' = [buffer EXCEPT ![c] = Tail(@)]
    /\ UNCHANGED <<bytes, loopVars, spc, sends>>
-----------------------------------------------------------------------------
(* The senders.                                                            *)

UNCHANGED_SEND == UNCHANGED <<mem, loopVars>>
Sent == UNION {{s} \X (1 .. sends[s]) : s \in Senders}
Move(s, to) == spc' = [spc EXCEPT ![s] = to]

\* ev_async_send or ev_feed_signal, after the sender has stored its data.
\* ev_signal_start blocks all signals in a handler: handlers do not nest.
Send(s) ==
    /\ spc[s] = "idle"
    /\ Cardinality(Sent) < MaxSends
    /\ s \in Handlers => \A h \in Handlers : spc[h] = "idle"
    /\ sends' = [sends EXCEPT ![s] = @ + 1]
    /\ Store(Cpu(s), <<<<data(s), sends[s] + 1>>, <<sent(Target[s]), 1>>>>)
    /\ Move(s, "test")
    /\ UNCHANGED_SEND /\ UNCHANGED bytes

TestFlagUnfenced(s) ==
    LET f == flag(Sort[Target[s]]) IN
    /\ spc[s] = "test"
    /\ IF Read(Cpu(s), f) = 1
       THEN Move(s, "idle") /\ UNCHANGED buffer
       ELSE Move(s, "wanted") /\ Store(Cpu(s), <<<<f, 1>>, <<skipped, 1>>>>)
    /\ UNCHANGED_SEND /\ UNCHANGED <<bytes, sends>>

\* evpipe_write: nothing to do when the flag is set already.
TestFlag(s) ==
    LET f == flag(Sort[Target[s]]) IN
    /\ spc[s] = "test"
    /\ Fence(Cpu(s))
    /\ IF Read(Cpu(s), f) = 1
       THEN Move(s, "idle") /\ UNCHANGED buffer
       ELSE Move(s, "wanted") /\ Store(Cpu(s), <<<<f, 1>>, <<skipped, 1>>>>)
    /\ UNCHANGED_SEND /\ UNCHANGED <<bytes, sends>>

TestWanted(s) ==
    /\ spc[s] = "wanted"
    /\ Fence(Cpu(s))
    /\ IF Read(Cpu(s), wanted) = 1
       THEN Move(s, "write") /\ Store(Cpu(s), <<<<skipped, 0>>>>)
       ELSE Move(s, "idle") /\ UNCHANGED buffer
    /\ UNCHANGED_SEND /\ UNCHANGED <<bytes, sends>>

\* write(2) takes the lock of the pipe, which drains the buffer.
WritePipe(s) ==
    /\ spc[s] = "write"
    /\ Fence(Cpu(s))
    /\ bytes' = bytes + 1
    /\ Move(s, "idle")
    /\ UNCHANGED_SEND /\ UNCHANGED <<buffer, sends>>

SenderStep(s) == TestFlag(s) \/ TestWanted(s) \/ WritePipe(s)
-----------------------------------------------------------------------------
(* The loop. It does not run while a handler has interrupted it.           *)

At(where) == pc = where /\ \A h \in Handlers : spc[h] = "idle"
UNCHANGED_LOOP == UNCHANGED <<mem, spc, sends>>

\* ev_run asks to be woken.
Want ==
    /\ At("want")
    /\ Store(loop, <<<<wanted, 1>>>>)
    /\ pc' = "decide"
    /\ UNCHANGED <<bytes, block, revents, scan, fed, seen>> /\ UNCHANGED_LOOP

DecideUnfenced ==
    /\ At("decide")
    /\ block' \in IF Read(loop, skipped) = 1 THEN {FALSE} ELSE BOOLEAN
    /\ pc' = "poll"
    /\ UNCHANGED <<buffer, bytes, revents, scan, fed, seen>> /\ UNCHANGED_LOOP

\* It does not wait when a write was skipped, nor for reasons of its own:
\* EVRUN_NOWAIT, an idle watcher, nothing active.
Decide ==
    /\ At("decide")
    /\ Fence(loop)
    /\ block' \in IF Read(loop, skipped) = 1 THEN {FALSE} ELSE BOOLEAN
    /\ pc' = "poll"
    /\ UNCHANGED <<buffer, bytes, revents, scan, fed, seen>> /\ UNCHANGED_LOOP

PollReturns ==
    /\ revents' = IF bytes > 0 THEN {"READ"} ELSE {}
    /\ Store(loop, <<<<wanted, 0>>>>)
    /\ pc' = "skipped"
    /\ UNCHANGED <<bytes, block, scan, fed, seen>> /\ UNCHANGED_LOOP

\* backend_poll returns for the pipe, or because it was not to wait.
Poll == At("poll") /\ (block => bytes > 0) /\ PollReturns

\* backend_poll returns for another event, for a timeout or for a signal. An
\* event loop may wait for that in vain.
PollOther == At("poll") /\ block /\ bytes = 0 /\ PollReturns

\* A write skipped since counts as an event of pipe_w.
CheckSkipped ==
    /\ At("skipped")
    /\ revents' = revents \cup (IF Read(loop, skipped) = 1 THEN {"CUSTOM"} ELSE {})
    /\ pc' = IF revents' = {} THEN "callbacks" ELSE "pipecb"
    /\ UNCHANGED <<buffer, bytes, block, scan, fed, seen>> /\ UNCHANGED_LOOP

\* pipecb begins: the pipe is read and pipe_write_skipped taken back.
Pipecb ==
    /\ At("pipecb")
    /\ bytes' = IF "READ" \notin revents THEN bytes
                ELSE IF bytes > PipeRead THEN bytes - PipeRead ELSE 0
    /\ revents' = {}
    /\ Store(loop, <<<<skipped, 0>>>>)
    /\ pc' = "sig"
    /\ UNCHANGED <<block, scan, fed, seen>> /\ UNCHANGED_LOOP

NextSort(sort) == IF sort = "sig" THEN "async" ELSE "callbacks"

TestSortUnfenced(sort) ==
    /\ At(sort)
    /\ IF Read(loop, flag(sort)) = 1
       THEN /\ Store(loop, <<<<flag(sort), 0>>>>)
            /\ scan' = {t \in Targets : Sort[t] = sort}
            /\ pc' = IF sort = "sig" THEN "scansig" ELSE "scanasync"
       ELSE /\ pc' = NextSort(sort)
            /\ UNCHANGED <<buffer, scan>>
    /\ UNCHANGED <<bytes, block, revents, fed, seen>> /\ UNCHANGED_LOOP

\* sig_pending, then async_pending: if set, it is reset, and the watchers of
\* that sort will be looked at.
TestSort(sort) ==
    /\ At(sort)
    /\ sort = "sig" => Fence(loop)
    /\ IF Read(loop, flag(sort)) = 1
       THEN /\ Store(loop, <<<<flag(sort), 0>>>>)
            /\ scan' = {t \in Targets : Sort[t] = sort}
            /\ pc' = IF sort = "sig" THEN "fencesig" ELSE "fenceasync"
       ELSE /\ pc' = NextSort(sort)
            /\ UNCHANGED <<buffer, scan>>
    /\ UNCHANGED <<bytes, block, revents, fed, seen>> /\ UNCHANGED_LOOP

\* The reset of the flag is visible before the watchers are looked at.
FenceSort(sort) ==
    /\ At(IF sort = "sig" THEN "fencesig" ELSE "fenceasync")
    /\ Fence(loop)
    /\ pc' = IF sort = "sig" THEN "scansig" ELSE "scanasync"
    /\ UNCHANGED <<buffer, bytes, block, revents, scan, fed, seen>> /\ UNCHANGED_LOOP

\* One watcher: its flag is reset and its event fed. ev_feed_signal_event does
\* the same for the watchers of a signal.
Scan(sort, t) ==
    /\ At(IF sort = "sig" THEN "scansig" ELSE "scanasync")
    /\ t \in scan
    /\ scan' = scan \ {t}
    /\ IF Read(loop, sent(t)) = 1
       THEN Store(loop, <<<<sent(t), 0>>>>) /\ fed' = fed \cup {t}
       ELSE UNCHANGED <<buffer, fed>>
    /\ UNCHANGED <<pc, bytes, block, revents, seen>> /\ UNCHANGED_LOOP

ScanDone(sort) ==
    /\ At(IF sort = "sig" THEN "scansig" ELSE "scanasync")
    /\ scan = {}
    /\ pc' = NextSort(sort)
    /\ UNCHANGED <<buffer, bytes, block, revents, scan, fed, seen>> /\ UNCHANGED_LOOP

\* ev_invoke_pending calls the callback of a watcher that was fed.
Callback(t) ==
    /\ At("callbacks")
    /\ t \in fed
    /\ Locking => Fence(loop)
    /\ fed' = fed \ {t}
    /\ seen' = [s \in Senders |-> IF Target[s] = t THEN Read(loop, data(s)) ELSE seen[s]]
    /\ UNCHANGED <<buffer, pc, bytes, block, revents, scan>> /\ UNCHANGED_LOOP

\* Nothing is pending: the next iteration of ev_run.
Iterate ==
    /\ At("callbacks")
    /\ fed = {}
    /\ pc' = "want"
    /\ UNCHANGED <<buffer, bytes, block, revents, scan, fed, seen>> /\ UNCHANGED_LOOP

LoopStep ==
    \/ Want \/ Decide \/ Poll \/ CheckSkipped \/ Pipecb \/ Iterate
    \/ \E sort \in {"sig", "async"} :
         TestSort(sort) \/ FenceSort(sort) \/ ScanDone(sort) \/ \E t \in Targets : Scan(sort, t)
    \/ \E t \in Targets : Callback(t)

Init ==
    /\ mem = [l \in Locs |-> 0]
    /\ buffer = [c \in Cpus |-> <<>>]
    /\ bytes = 0
    /\ pc = "want"
    /\ block = FALSE
    /\ revents = {}
    /\ scan = {}
    /\ fed = {}
    /\ spc = [s \in Senders |-> "idle"]
    /\ sends = [s \in Senders |-> 0]
    /\ seen = [s \in Senders |-> 0]

Next ==
    \/ LoopStep \/ PollOther
    \/ \E c \in Cpus : Drain(c)
    \/ \E s \in Senders : Send(s) \/ SenderStep(s)

\* Processors drain their buffers, the loop runs on and a sender that has begun
\* goes on. Nobody has to send, and a poll that waits ends only for the pipe.
Fairness ==
    /\ WF_vars(LoopStep)
    /\ \A c \in Cpus : WF_vars(Drain(c))
    /\ \A s \in Senders : WF_vars(SenderStep(s))

Spec == Init /\ [][Next]_vars /\ Fairness
-----------------------------------------------------------------------------
(* Properties.                                                             *)

TypeOK ==
    /\ mem \in [Locs -> Nat]
    /\ buffer \in [Cpus -> Seq(Locs \X Nat)]
    /\ bytes \in Nat
    /\ pc \in {"want", "decide", "poll", "skipped", "pipecb", "sig", "fencesig", "scansig",
               "async", "fenceasync", "scanasync", "callbacks"}
    /\ block \in BOOLEAN
    /\ revents \subseteq {"READ", "CUSTOM"}
    /\ scan \subseteq Targets
    /\ fed \subseteq Targets
    /\ spc \in [Senders -> {"idle", "test", "wanted", "write"}]
    /\ sends \in [Senders -> 0 .. MaxSends]
    /\ seen \in [Senders -> 0 .. MaxSends]

\* A loop that waits with an empty pipe has seen every send that is complete:
\* no interleaving of evpipe_write with the way into and out of backend_poll
\* leaves a send behind (the comments at ev.c:2526-2530 and 3789-3792).
NoLostWakeup ==
    pc = "poll" /\ block /\ bytes = 0
      /\ (\A s \in Senders : spc[s] = "idle") /\ (\A c \in Cpus : buffer[c] = <<>>)
    => seen = sends

\* A write that was skipped is not forgotten: whenever the loop waits while a
\* flag is set, the pipe can be read, or will be written by the sender that set
\* the flag.
FlaggedIsWoken ==
    pc = "poll" /\ block /\ (\E sort \in {"sig", "async"} : mem[flag(sort)] = 1)
    => bytes > 0 \/ \E s \in Senders : spc[s] \in {"wanted", "write"}

\* What a loop that waits owes the senders, with the types.
AsyncInv == TypeOK /\ NoLostWakeup /\ FlaggedIsWoken

\* Every send is followed by a callback of its target that sees what was stored
\* before the send, though many sends may be seen by one callback.
EverySendSeen == <>[](seen = sends)

\* The reset of sent is visible before the event is delivered, as the study
\* notes on memory fences say of the release fence in pipecb (line 480).
SentResetVisible ==
    pc = "callbacks" /\ fed # {} =>
      \A i \in 1 .. Len(buffer[loop]) : \A t \in fed : buffer[loop][i][1] # sent(t)
=============================================================================
