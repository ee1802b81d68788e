----------------------------- MODULE IpcMessages -----------------------------
(***************************************************************************)
(* A server that prints what its clients send: through a named pipe        *)
(* (IPC/fifo), a POSIX message queue or a System V message queue           *)
(* (IPC/message_queue, on Linux and elsewhere). The server may be          *)
(* interrupted, killed and started again; the clients come and go.         *)
(*                                                                         *)
(* signal() makes the kernel restart a blocking call, so an interrupt is   *)
(* noticed when the call returns for another reason. What a read returns   *)
(* is everything in the pipe. Only one server runs at a time.              *)
(***************************************************************************)
EXTENDS Integers, Sequences, SequencesExt, FiniteSets

CONSTANTS
    Clients,
    Urgent,         \* clients started with a higher priority or another type
    QueueMax,       \* MAX_MSG_COUNT
    MaxStarts,      \* bound on the starts of the server
    MaxGiven        \* bound on the messages of a client

Means   == {"fifo", "posix", "sysv"}
Objects == 1 .. MaxStarts
None    == 0

VARIABLES
    means,
    named,          \* the object the name or key stands for, or None
    store,          \* of an object: the messages in it, <<client, number>>
    server,         \* "down", "reopen", "open", "loop", "read", "close", "exit"
    held,           \* the object the server has open
    running,
    met,            \* a writer has come since the server's open began
    client,         \* "off", "open" or "up"
    target,         \* the object a client has open
    given,          \* number of the messages a client has sent
    received,       \* of a client: the numbers of its messages, as the server printed them
    starts

kernel  == <<named, store>>
serving == <<server, held, running, met, received, starts>>
sending == <<client, target, given>>
ipcVars == <<means, kernel, serving, sending>>

Writers(o) == {c \in Clients : client[c] # "off" /\ target[c] = o}
HasReader(o) == held = o /\ o # None
-----------------------------------------------------------------------------
(* The server.                                                             *)

\* access, unlink and mkfifo.
FifoObject == starts + 1

\* mq_unlink and mq_open.
PosixObject == starts + 1

\* msgget makes a queue when there is none for the key.
SysvObject == IF named # None THEN named ELSE starts + 1

Start ==
    LET o == CASE means = "fifo"  -> FifoObject
               [] means = "posix" -> PosixObject
               [] means = "sysv"  -> SysvObject
    IN
    /\ server = "down" /\ starts < MaxStarts
    /\ starts' = starts + 1 /\ named' = o /\ running' = TRUE /\ met' = FALSE
    /\ IF means = "fifo" THEN server' = "reopen" /\ held' = None
       ELSE server' = "loop" /\ held' = o
    /\ UNCHANGED <<means, store, received, sending>>

\* open begins. It lets the clients go that wait for a reader.
FifoOpen ==
    /\ server = "reopen" /\ server' = "open" /\ held' = named
    /\ met' = (Writers(named) # {})
    /\ client' = [c \in Clients |->
                     IF client[c] = "open" /\ target[c] = named THEN "up" ELSE client[c]]
    /\ UNCHANGED <<means, kernel, running, received, starts, target, given>>

FifoOpened ==
    /\ server = "open" /\ met /\ server' = "loop"
    /\ UNCHANGED <<means, kernel, held, running, met, received, starts, sending>>

TestRunning ==
    /\ server = "loop" /\ server' = IF running THEN "read" ELSE "exit"
    /\ UNCHANGED <<means, kernel, held, running, met, received, starts, sending>>

From(c, messages) == LET ofC(m) == m[1] = c IN SelectSeq(messages, ofC)
Numbers(messages) == [i \in DOMAIN messages |-> messages[i][2]]

Printed(messages) ==
    received' = [c \in Clients |-> received[c] \o Numbers(From(c, messages))]

\* The text printed ends at the first message.
FifoReadFirst ==
    /\ means = "fifo" /\ server = "read" /\ store[held] # <<>>
    /\ Printed(<<Head(store[held])>>) /\ store' = [store EXCEPT ![held] = <<>>]
    /\ server' = "loop"
    /\ UNCHANGED <<means, named, held, running, met, starts, sending>>

FifoRead ==
    /\ means = "fifo" /\ server = "read" /\ store[held] # <<>>
    /\ Printed(store[held]) /\ store' = [store EXCEPT ![held] = <<>>]
    /\ server' = "loop"
    /\ UNCHANGED <<means, named, held, running, met, starts, sending>>

\* read returns 0.
FifoReadEnd ==
    /\ means = "fifo" /\ server = "read" /\ store[held] = <<>> /\ Writers(held) = {}
    /\ server' = "close"
    /\ UNCHANGED <<means, kernel, held, running, met, received, starts, sending>>

\* What is in a pipe is gone with the last descriptor of it.
FifoClose ==
    /\ server = "close" /\ server' = "reopen" /\ held' = None
    /\ store' = IF Writers(held) = {} THEN [store EXCEPT ![held] = <<>>] ELSE store
    /\ UNCHANGED <<means, named, running, met, received, starts, sending>>

Receive ==
    /\ server = "read" /\ store[held] # <<>>
    /\ Printed(<<Head(store[held])>>) /\ store' = [store EXCEPT ![held] = Tail(@)]
    /\ server' = "loop"
    /\ UNCHANGED <<means, named, held, running, met, starts, sending>>

\* mq_receive waits; the messages are in the order of their priorities.
PosixReceive == means = "posix" /\ Receive

\* msgrcv of the first message of any type, or ENOMSG and a pause.
SysvReceive ==
    /\ means = "sysv"
    /\ \/ Receive
       \/ /\ server = "read" /\ store[held] = <<>> /\ server' = "loop"
          /\ UNCHANGED <<means, kernel, held, running, met, received, starts, sending>>

\* A pipe's contents and a POSIX queue stay with the clients that have it open.
Unlink ==
    /\ means \in {"fifo", "posix"}
    /\ store' = IF Writers(held) = {} THEN [store EXCEPT ![held] = <<>>] ELSE store

\* msgctl(IPC_RMID): the queue goes, whoever uses it.
RemoveId ==
    /\ means = "sysv"
    /\ store' = [store EXCEPT ![held] = <<>>]

Exit ==
    /\ server = "exit" /\ server' = "down" /\ named' = None /\ held' = None
    /\ Unlink \/ RemoveId
    /\ UNCHANGED <<means, running, met, received, starts, sending>>

Interrupt ==
    /\ server # "down" /\ running /\ running' = FALSE
    /\ UNCHANGED <<means, kernel, server, held, met, received, starts, sending>>

Crash ==
    /\ server # "down" /\ server' = "down" /\ held' = None
    /\ store' = IF means = "fifo" /\ held # None /\ Writers(held) = {}
                THEN [store EXCEPT ![held] = <<>>] ELSE store
    /\ UNCHANGED <<means, named, running, met, received, starts, sending>>
-----------------------------------------------------------------------------
(* The clients.                                                            *)

\* Without a name, or without a queue, the client ends at once.
FifoConnect(c) ==
    /\ means = "fifo" /\ client[c] = "off" /\ named # None
    /\ client' = [client EXCEPT ![c] = IF HasReader(named) THEN "up" ELSE "open"]
    /\ target' = [target EXCEPT ![c] = named]
    /\ met' = (met \/ (server = "open" /\ held = named))
    /\ UNCHANGED <<means, kernel, server, held, running, received, starts, given>>

Attach(c) ==
    /\ client[c] = "off" /\ named # None
    /\ client' = [client EXCEPT ![c] = "up"]
    /\ target' = [target EXCEPT ![c] = named]
    /\ UNCHANGED <<means, kernel, serving, given>>

PosixConnect(c) == means = "posix" /\ Attach(c)

SysvConnect(c) == means = "sysv" /\ Attach(c)

\* What nobody has open and no name leads to is gone with its contents, and so are
\* the contents of a pipe that has a name.
Leave(c) ==
    LET o == target[c]
        last == Writers(o) = {c} /\ held # o /\ (means = "fifo" \/ named # o)
    IN
    /\ client' = [client EXCEPT ![c] = "off"]
    /\ target' = [target EXCEPT ![c] = None]
    /\ store' = IF last THEN [store EXCEPT ![o] = <<>>] ELSE store
    /\ UNCHANGED <<means, named, serving, given>>

Deliver(c, messages) ==
    /\ store' = [store EXCEPT ![target[c]] = messages]
    /\ given' = [given EXCEPT ![c] = @ + 1]
    /\ UNCHANGED <<means, named, serving, client, target>>

Ready(c) == client[c] = "up" /\ given[c] < MaxGiven
Message(c) == <<c, given[c] + 1>>

\* SIGPIPE.
FifoSend(c) ==
    /\ means = "fifo" /\ Ready(c)
    /\ IF HasReader(target[c]) THEN Deliver(c, Append(store[target[c]], Message(c)))
       ELSE Leave(c)

\* mq_send waits when the queue is full. Urgent messages come before the others.
PosixSend(c) ==
    LET before(m) == c \notin Urgent \/ m[1] \in Urgent
        messages == store[target[c]]
    IN
    /\ means = "posix" /\ Ready(c) /\ Len(messages) < QueueMax
    /\ Deliver(c, SelectSeq(messages, before) \o <<Message(c)>>
                  \o SelectSeq(messages, LAMBDA m : ~before(m)))

\* EINVAL or EIDRM.
SysvSend(c) ==
    /\ means = "sysv" /\ Ready(c)
    /\ IF named = target[c]
       THEN Len(store[named]) < QueueMax /\ Deliver(c, Append(store[named], Message(c)))
       ELSE Leave(c)

\* "exit", or the end of the input.
ClientExit(c) == client[c] = "up" /\ Leave(c)
-----------------------------------------------------------------------------
Init ==
    /\ means \in Means
    /\ named = None /\ store = [o \in Objects |-> <<>>]
    /\ server = "down" /\ held = None /\ running = TRUE /\ met = FALSE
    /\ client = [c \in Clients |-> "off"] /\ target = [c \in Clients |-> None]
    /\ given = [c \in Clients |-> 0] /\ received = [c \in Clients |-> <<>>]
    /\ starts = 0

Serving ==
    FifoOpen \/ FifoOpened \/ TestRunning \/ FifoRead \/ FifoReadEnd \/ FifoClose
    \/ PosixReceive \/ SysvReceive \/ Exit

Sending(c) ==
    FifoConnect(c) \/ PosixConnect(c) \/ SysvConnect(c)
    \/ FifoSend(c) \/ PosixSend(c) \/ SysvSend(c) \/ ClientExit(c)

Next == Start \/ Serving \/ Interrupt \/ Crash \/ \E c \in Clients : Sending(c)

Spec == Init /\ [][Next]_ipcVars
-----------------------------------------------------------------------------
(* Properties.                                                             *)

Stored(c) == UNION {ToSet(Numbers(From(c, store[o]))) : o \in {named, held} \ {None}}
Lost(c)   == (1 .. given[c]) \ (ToSet(received[c]) \cup Stored(c))

\* The messages of a client are printed in the order they were sent, none twice.
InTurn(c) == \A i, j \in DOMAIN received[c] : i < j => received[c][i] < received[c][j]

\* A server that reads loses nothing that is sent to the object it reads. A message is
\* lost only with a server that exits or is gone, when it was sent to an object of an
\* earlier server, or when a pipe's only reader is closing and opening it again
\* (fifo_server.c:50) and its writer does not wait.
HasCause(c) ==
    \/ server = "down" \/ server' = "down"
    \/ target[c] \notin {held, None}
    \/ means = "fifo" /\ server \in {"close", "reopen"}

LostForCause ==
    [][\A c \in Clients : InTurn(c)' /\ (Lost(c)' \subseteq Lost(c) \/ HasCause(c))]_ipcVars
=============================================================================
