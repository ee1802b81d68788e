---------------------------- MODULE SharedMemory ----------------------------
(***************************************************************************)
(* shared_memory_example.c: a parent writes messages into shared memory    *)
(* and its child prints them; two named semaphores hand the memory over.   *)
(* Either process may be sent SIGINT or SIGTERM, or be killed, at any      *)
(* step; the program may then be started again, over what is left of it.   *)
(* Only one instance runs at a time. Calls of the system do not fail but   *)
(* for the child's shm_open.                                               *)
(***************************************************************************)
EXTENDS Integers, Sequences

CONSTANTS
    Messages,       \* number of messages; the last is "quit"
    MaxRuns         \* bound on the starts of the program

VARIABLES
    parent,         \* "gone", Starting, "main", "create", "wait", "write", "post", "reap", "exit"
    child,          \* "gone", "none" before fork, "open", "wait", "print", "check", "exit"
    named,          \* names that exist: "prod", "cons", "shm"
    prod, cons,     \* the semaphores these names stand, or stood, for
    data, done,     \* the shared memory
    item,           \* i of producer
    printed,        \* what the child of this run has printed
    broken,         \* a process of this run was signalled or killed, or found no memory
    killed,         \* a process of this run was killed
    early,          \* the parent of this run was signalled before both pointers were assigned
    launches        \* number of starts

semaphores == <<prod, cons>>
shared     == <<data, done>>
history    == <<broken, killed, early, launches>>
shmVars    == <<parent, child, named, semaphores, shared, item, printed, history>>

\* main before both sem_prod and sem_cons are assigned.
Starting == {"unlinkProd", "unlinkCons", "unlinkShm", "openProd", "setProd", "openCons", "setCons"}

\* The semaphores whose pointers are assigned; the child has both from its parent.
Opened ==
    CASE parent \in {"openCons", "setCons"}                -> {"prod"}
      [] parent \in Starting \ {"openCons", "setCons"}     -> {}
      [] OTHER                                             -> {"prod", "cons"}

\* cleanup, which either process calls when it exits: a name is removed whoever made it.
Cleanup == named' = named \ (Opened \cup {"shm"})
-----------------------------------------------------------------------------
(* main. The handlers and cleanup are installed first.                     *)

\* What the names that exist stand for is left as it is.
Launch ==
    /\ parent = "gone" /\ child \in {"gone", "none"} /\ launches < MaxRuns
    /\ parent' = "unlinkProd" /\ child' = "none" /\ item' = 1 /\ printed' = <<>>
    /\ broken' = FALSE /\ killed' = FALSE /\ early' = FALSE /\ launches' = launches + 1
    /\ UNCHANGED <<named, semaphores, shared>>

\* The names an earlier run has left are removed before sem_open would open them, and
\* with them the semaphores: no process has them open.
UnlinkProd ==
    /\ parent = "unlinkProd" /\ parent' = "unlinkCons"
    /\ named' = named \ {"prod"} /\ prod' = 0
    /\ UNCHANGED <<child, cons, shared, item, printed, history>>

UnlinkConsSkipped ==
    /\ parent = "unlinkCons" /\ parent' = "unlinkShm"
    /\ UNCHANGED <<child, named, semaphores, shared, item, printed, history>>

UnlinkCons ==
    /\ parent = "unlinkCons" /\ parent' = "unlinkShm"
    /\ named' = named \ {"cons"} /\ cons' = 0
    /\ UNCHANGED <<child, prod, shared, item, printed, history>>

UnlinkShm ==
    /\ parent = "unlinkShm" /\ parent' = "openProd" /\ named' = named \ {"shm"}
    /\ UNCHANGED <<child, semaphores, shared, item, printed, history>>

OpenProdTaken ==
    /\ parent = "openProd" /\ parent' = "setProd"
    /\ prod' = (IF "prod" \in named THEN prod ELSE 0) /\ named' = named \cup {"prod"}
    /\ UNCHANGED <<child, cons, shared, item, printed, history>>

\* sem_open has made the name, or opened what it stands for; sem_prod is assigned next.
OpenProd ==
    /\ parent = "openProd" /\ parent' = "setProd"
    /\ prod' = (IF "prod" \in named THEN prod ELSE 1) /\ named' = named \cup {"prod"}
    /\ UNCHANGED <<child, cons, shared, item, printed, history>>

SetProd ==
    /\ parent = "setProd" /\ parent' = "openCons"
    /\ UNCHANGED <<child, named, semaphores, shared, item, printed, history>>

OpenCons ==
    /\ parent = "openCons" /\ parent' = "setCons"
    /\ cons' = (IF "cons" \in named THEN cons ELSE 0) /\ named' = named \cup {"cons"}
    /\ UNCHANGED <<child, prod, shared, item, printed, history>>

SetCons ==
    /\ parent = "setCons" /\ parent' = "main"
    /\ UNCHANGED <<child, named, semaphores, shared, item, printed, history>>

Fork ==
    /\ parent = "main" /\ parent' = "create" /\ child' = "open"
    /\ UNCHANGED <<named, semaphores, shared, item, printed, history>>

Create ==
    /\ parent = "create" /\ parent' = "wait"
    /\ named' = named \cup {"shm"} /\ data' = 0 /\ done' = FALSE
    /\ UNCHANGED <<child, semaphores, item, printed, history>>

WaitProd ==
    /\ parent = "wait" /\ prod > 0
    /\ prod' = prod - 1 /\ parent' = "write"
    /\ UNCHANGED <<child, named, cons, shared, item, printed, history>>

Write ==
    /\ parent = "write" /\ parent' = "post"
    /\ data' = item /\ done' = (done \/ item = Messages)
    /\ UNCHANGED <<child, named, semaphores, item, printed, history>>

PostCons ==
    /\ parent = "post" /\ cons' = cons + 1
    /\ item' = item + 1
    /\ parent' = IF item = Messages THEN "reap" ELSE "wait"
    /\ UNCHANGED <<child, named, prod, shared, printed, history>>

\* wait(NULL) and the return from main.
Reap ==
    /\ parent = "reap" /\ child = "gone" /\ parent' = "exit"
    /\ UNCHANGED <<child, named, semaphores, shared, item, printed, history>>

ParentExit ==
    /\ parent = "exit" /\ parent' = "gone"
    /\ Cleanup
    /\ UNCHANGED <<child, semaphores, shared, item, printed, history>>
-----------------------------------------------------------------------------
\* The parent may not have made the memory yet: then the child exits at once, and takes
\* the names of the semaphores with it.
Open ==
    /\ child = "open"
    /\ IF "shm" \in named
       THEN child' = "wait" /\ UNCHANGED history
       ELSE child' = "exit" /\ broken' = TRUE /\ UNCHANGED <<killed, early, launches>>
    /\ UNCHANGED <<parent, named, semaphores, shared, item, printed>>

WaitCons ==
    /\ child = "wait" /\ cons > 0
    /\ cons' = cons - 1 /\ child' = "print"
    /\ UNCHANGED <<parent, named, prod, shared, item, printed, history>>

PrintData ==
    /\ child = "print" /\ child' = "check"
    /\ printed' = Append(printed, data)
    /\ UNCHANGED <<parent, named, semaphores, shared, item, history>>

CheckDone ==
    /\ child = "check"
    /\ IF done
       THEN child' = "exit" /\ UNCHANGED prod
       ELSE child' = "wait" /\ prod' = prod + 1
    /\ UNCHANGED <<parent, named, cons, shared, item, printed, history>>

ChildExit ==
    /\ child = "exit" /\ child' = "gone"
    /\ Cleanup
    /\ UNCHANGED <<parent, semaphores, shared, item, printed, history>>
-----------------------------------------------------------------------------
Alive == parent # "gone"
ChildAlive == child \notin {"gone", "none"}

Ends(isParent) ==
    IF isParent THEN Alive /\ parent' = "gone" /\ UNCHANGED child
    ELSE ChildAlive /\ child' = "gone" /\ UNCHANGED parent

\* handle_signal.
Signal ==
    /\ \E isParent \in BOOLEAN : Ends(isParent)
    /\ Cleanup /\ broken' = TRUE /\ early' = (early \/ parent \in Starting)
    /\ UNCHANGED <<semaphores, shared, item, printed, killed, launches>>

\* SIGKILL.
Kill ==
    /\ \E isParent \in BOOLEAN : Ends(isParent)
    /\ broken' = TRUE /\ killed' = TRUE
    /\ UNCHANGED <<named, semaphores, shared, item, printed, early, launches>>

Init ==
    /\ parent = "gone" /\ child = "none" /\ named = {} /\ prod = 0 /\ cons = 0
    /\ data = 0 /\ done = FALSE /\ item = 1 /\ printed = <<>>
    /\ broken = FALSE /\ killed = FALSE /\ early = FALSE /\ launches = 0

Start    == UnlinkProd \/ UnlinkCons \/ UnlinkShm \/ OpenProd \/ SetProd \/ OpenCons \/ SetCons
Producer == Start \/ Fork \/ Create \/ WaitProd \/ Write \/ PostCons \/ Reap \/ ParentExit
Consumer == Open \/ WaitCons \/ PrintData \/ CheckDone \/ ChildExit

Next == Launch \/ Producer \/ Consumer \/ Signal \/ Kill

Spec == Init /\ [][Next]_shmVars /\ WF_shmVars(Producer) /\ WF_shmVars(Consumer)
-----------------------------------------------------------------------------
(* Properties.                                                             *)

TypeOK ==
    /\ named \subseteq {"prod", "cons", "shm"} /\ prod \in 0 .. 1 /\ cons \in 0 .. 1
    /\ item \in 1 .. Messages + 1

\* At any time one of the two may touch the memory, or one semaphore says who is next.
HandedOver ==
    LET writing == IF parent \in {"write", "post"} THEN 1 ELSE 0
        reading == IF child \in {"print", "check"} THEN 1 ELSE 0
    IN prod + cons + writing + reading <= 1

\* The child prints the messages in order, each once and whole, even when the program
\* is started over what a killed run has left (shared_memory_example.c:188).
PrintedInOrder == printed = [i \in DOMAIN printed |-> i]

\* No name outlives the program, unless a process was killed, or a signal came before
\* both semaphores were assigned: cleanup passes over those that are not, and their names
\* may be left, by this run or an earlier one.
NothingLeftBehind ==
    ~Alive /\ ~ChildAlive /\ ~killed => named \subseteq IF early THEN {"prod", "cons"} ELSE {}

MemoryInv == TypeOK /\ HandedOver /\ PrintedInOrder /\ NothingLeftBehind

\* Unless one of them is sent a signal, or the child is faster than the parent's
\* shm_open (line 148), which leaves the parent waiting for ever, both processes end
\* and everything has been printed.
AllPrinted ==
    parent = "unlinkProd" ~> broken \/ (~Alive /\ ~ChildAlive /\ Len(printed) = Messages)
=============================================================================
