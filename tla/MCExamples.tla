----------------------------- MODULE MCExamples -----------------------------
(***************************************************************************)
(* The example programs that talk to other processes, one of which runs:   *)
(* the echo servers (three clients for two descriptors, and a poll table   *)
(* with room for the server and one of them), the servers of pipes and     *)
(* message queues (two clients, one of them with a higher priority, and a  *)
(* restart), and the producer and consumer of shared memory (a restart).   *)
(***************************************************************************)
EXTENDS IoServers

CONSTANTS
    Clients, Urgent, QueueMax, MaxStarts, MaxGiven,     \* of IpcMessages
    Messages, MaxRuns                                   \* of SharedMemory

ASSUME MessagesAssumption == Messages \in Nat \ {0}

VARIABLES
    program,        \* "servers", "messages" or "memory"
    means, named, store, server, held, running, met, client, target, given, received, starts,
    parent, child, names, prod, cons, data, done, item, printed, broken, killed, early,
    launches

Ipc == INSTANCE IpcMessages
Shm == INSTANCE SharedMemory WITH named <- names

ipcVars == <<means, named, store, server, held, running, met, client, target, given, received,
             starts>>
shmVars == <<parent, child, names, prod, cons, data, done, item, printed, broken, killed, early,
             launches>>
mcVars  == <<program, vars, ipcVars, shmVars>>

\* A program that does not run stays in one of its initial states.
MCInit ==
    /\ program \in {"servers", "messages", "memory"}
    /\ Init /\ (program = "servers" \/ kind = "select")
    /\ Ipc!Init /\ (program = "messages" \/ means = "fifo")
    /\ Shm!Init

ServersServe == program = "servers" /\ Serve /\ UNCHANGED <<program, ipcVars, shmVars>>
Servers  == program = "servers" /\ Next /\ UNCHANGED <<program, ipcVars, shmVars>>
Messengers == program = "messages" /\ Ipc!Next /\ UNCHANGED <<program, vars, shmVars>>
Memory   == program = "memory" /\ Shm!Next /\ UNCHANGED <<program, vars, ipcVars>>
Producer == program = "memory" /\ Shm!Producer /\ UNCHANGED <<program, vars, ipcVars>>
Consumer == program = "memory" /\ Shm!Consumer /\ UNCHANGED <<program, vars, ipcVars>>

MCSpec ==
    /\ MCInit /\ [][Servers \/ Messengers \/ Memory]_mcVars
    /\ WF_mcVars(ServersServe) /\ WF_mcVars(Producer) /\ WF_mcVars(Consumer)
-----------------------------------------------------------------------------
\* IpcMessages: messages are printed in turn, and lost for one of the known causes only.
LostForCause == Ipc!LostForCause

\* SharedMemory: the processes take turns, and nothing is left of them.
MemoryInv == Shm!MemoryInv

\* SharedMemory: both processes end and everything has been printed.
AllPrinted == Shm!AllPrinted
=============================================================================
