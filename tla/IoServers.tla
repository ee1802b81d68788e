----------------------------- MODULE IoServers -----------------------------
(***************************************************************************)
(* The echo servers of the examples, one for each way of waiting for       *)
(* several descriptors: select, poll, epoll (edge-triggered), kqueue       *)
(* (io_multiplex/) and the watchers of libev (libev_tutorial/ and          *)
(* exercise/echo/, which echoes its standard input too). They differ in    *)
(* how they remember what to wait for and how they walk through what is    *)
(* ready; `kind` is chosen at the start.                                   *)
(*                                                                         *)
(* A message is what one recv or read takes. A reply to a client that has  *)
(* reset its connection fails, which no server looks at, or ends the       *)
(* server with SIGPIPE, which none ignores. The clients read their         *)
(* replies, so that no send fails or blocks for want of room. A wait that  *)
(* ends with nothing ready, or with EINTR, changes nothing. The programs   *)
(* never leave their loop.                                                 *)
(***************************************************************************)
EXTENDS Integers, Sequences, SequencesExt, FiniteSets, FiniteSetsExt

CONSTANTS
    Conns,          \* connections clients make
    MaxFd,          \* limit of open descriptors
    FdSetSize,      \* MAX_FDS of select_example.c, counted from the server's descriptor
    TableSize,      \* MAX_FDS of poll_example.c
    MaxSent         \* bound on the messages of a connection

Server == 0         \* server_fd, the lowest
Fds    == 1 .. MaxFd
Kinds  == {"select", "poll", "epoll", "kqueue", "libev", "echo"}

ASSUME IoServersAssumption ==
    /\ MaxFd \in Nat \ {0} /\ FdSetSize \in Nat \ {0} /\ TableSize \in Nat \ {0}
    /\ MaxSent \in Nat

VARIABLES
    kind,
    pc,             \* "wait", "pass" through what is ready, "serve" a descriptor, "dead"
    current,        \* the descriptor that is served
    queue,          \* connections that wait for accept
    fdOf,           \* of a connection: 0 until it is accepted, -1 after close
    sent, unread,   \* messages of a client that is up, messages of it left to read
    peer,           \* a client: "none", "up", "shut" (FIN), "reset" (RST), "gone"
    watched,        \* readfds, or what the kernel or the loop watches (not poll)
    info,           \* select: fd_info, the descriptors in it
    table,          \* poll: poll_fds [0 .. poll_fd_count - 1], records fd, revents
    index,          \* poll: i of the pass
    batch,          \* the events of the pass that are left (not poll)
    flagged,        \* descriptors reported with an error, a hangup or, by kqueue, an end
    edges,          \* epoll: what has happened since the last epoll_wait
    leaked,         \* select, poll: descriptors fd_info or the full table has no place for
    stalled         \* epoll: the server broke off accept with connections waiting

clients  == <<queue, sent, unread, peer>>
memory   == <<watched, info, table, leaked>>
progress == <<pc, current, index, batch, flagged>>
vars     == <<kind, progress, clients, fdOf, memory, edges, stalled>>

Taken       == {fdOf[c] : c \in Conns} \cap Fds
ConnOf(fd)  == CHOOSE c \in Conns : fdOf[c] = fd
Ended(fd)   == fd # Server /\ peer[ConnOf(fd)] # "up"
Reset(fd)   == fd # Server /\ peer[ConnOf(fd)] = "reset"
Ready(fd)   == IF fd = Server THEN queue # <<>> ELSE unread[ConnOf(fd)] > 0 \/ Ended(fd)
Entries     == {table[i].fd : i \in DOMAIN table}
OnLibev     == kind \in {"libev", "echo"}
WaitsFor    == IF kind = "poll" THEN Entries ELSE watched
-----------------------------------------------------------------------------
(* The clients. What they do is an edge for epoll.                         *)

Edge(fd) == edges' = IF kind = "epoll" /\ fd \in watched THEN edges \cup {fd} ELSE edges

Connect(c) ==
    /\ peer[c] = "none" /\ pc # "dead"
    /\ peer' = [peer EXCEPT ![c] = "up"]
    /\ queue' = Append(queue, c)
    /\ Edge(Server)
    /\ stalled' = FALSE
    /\ UNCHANGED <<kind, progress, sent, unread, fdOf, memory>>

Send(c) ==
    /\ peer[c] = "up" /\ fdOf[c] >= 0 /\ sent[c] < MaxSent
    /\ sent' = [sent EXCEPT ![c] = @ + 1]
    /\ unread' = [unread EXCEPT ![c] = @ + 1]
    /\ IF fdOf[c] \in Fds THEN Edge(fdOf[c]) ELSE UNCHANGED edges
    /\ UNCHANGED <<kind, progress, queue, peer, fdOf, memory, stalled>>

\* A reset may follow a FIN. What has come before either is still there to be read.
Leave(c, how) ==
    /\ \/ peer[c] = "up" /\ how \in {"shut", "reset"}
       \/ peer[c] = "shut" /\ how = "reset"
    /\ peer' = [peer EXCEPT ![c] = how] /\ sent' = [sent EXCEPT ![c] = 0]
    /\ IF fdOf[c] \in Fds THEN Edge(fdOf[c]) ELSE UNCHANGED edges
    /\ UNCHANGED <<kind, progress, queue, unread, fdOf, memory, stalled>>
-----------------------------------------------------------------------------
(* What a server does to wait for a descriptor it has accepted, and to     *)
(* forget one it closes.                                                   *)

SelectAddForgets(fd) ==
    /\ IF fd < FdSetSize
       THEN info' = info \cup {fd} /\ UNCHANGED <<watched, leaked>>
       ELSE leaked' = leaked \cup {fd} /\ UNCHANGED <<info, watched>>
    /\ UNCHANGED <<table, edges>>

\* handle_new_connection does not look at the result of add_fd_info either, and FD_SET
\* writes outside the set (see Overrun): get_max_fd never reaches such a descriptor.
SelectAdd(fd) ==
    /\ IF fd < FdSetSize
       THEN info' = info \cup {fd} /\ watched' = watched \cup {fd} /\ UNCHANGED leaked
       ELSE leaked' = leaked \cup {fd} /\ UNCHANGED <<info, watched>>
    /\ UNCHANGED <<table, edges>>

\* add_poll_fd; handle_new_connection does not look at its result.
PollAdd(fd) ==
    /\ IF Len(table) >= TableSize
       THEN leaked' = leaked \cup {fd} /\ UNCHANGED table
       ELSE table' = Append(table, [fd |-> fd, revents |-> FALSE]) /\ UNCHANGED leaked
    /\ UNCHANGED <<watched, info, edges>>

\* The kernel reports at once what is there already.
EpollAdd(fd, c) ==
    /\ watched' = watched \cup {fd}
    /\ edges' = IF unread[c] > 0 \/ peer[c] # "up" THEN edges \cup {fd} ELSE edges
    /\ UNCHANGED <<info, table, leaked>>

KqueueAdd(fd) == watched' = watched \cup {fd} /\ UNCHANGED <<info, table, leaked, edges>>

\* accept_cb starts a watcher; client_watchers is not looked at while the loop runs.
LibevAdd(fd) == watched' = watched \cup {fd} /\ UNCHANGED <<info, table, leaked, edges>>

\* The first ten watchers go into client_watchers, for the end of main only.
EchoAdd(fd) == watched' = watched \cup {fd} /\ UNCHANGED <<info, table, leaked, edges>>

SelectRemove(fd) ==
    /\ info' = info \ {fd} /\ watched' = watched \ {fd}
    /\ UNCHANGED <<table, leaked, edges>>

\* remove_poll_fd: the last entry takes the place.
PollRemove(fd) ==
    LET i == CHOOSE j \in DOMAIN table : table[j].fd = fd IN
    /\ table' = Front([table EXCEPT ![i] = Last(table)])
    /\ UNCHANGED <<watched, info, leaked, edges>>

EpollRemove(fd) ==
    /\ watched' = watched \ {fd} /\ edges' = edges \ {fd}
    /\ UNCHANGED <<info, table, leaked>>

KqueueRemove(fd) == watched' = watched \ {fd} /\ UNCHANGED <<info, table, leaked, edges>>

LibevRemove(fd) == watched' = watched \ {fd} /\ UNCHANGED <<info, table, leaked, edges>>

EchoRemove(fd) == watched' = watched \ {fd} /\ UNCHANGED <<info, table, leaked, edges>>

\* close of a descriptor and whatever goes with it.
Close(fd) ==
    /\ fdOf' = [fdOf EXCEPT ![ConnOf(fd)] = -1]
    /\ peer' = [peer EXCEPT ![ConnOf(fd)] = "gone"]
    /\ sent' = [sent EXCEPT ![ConnOf(fd)] = 0]
    /\ unread' = [unread EXCEPT ![ConnOf(fd)] = 0]
    /\ CASE kind = "select" -> SelectRemove(fd)
         [] kind = "poll"   -> PollRemove(fd)
         [] kind = "epoll"  -> EpollRemove(fd)
         [] kind = "kqueue" -> KqueueRemove(fd)
         [] kind = "libev"  -> LibevRemove(fd)
         [] kind = "echo"   -> EchoRemove(fd)
-----------------------------------------------------------------------------
(* Waiting. What is reported is fixed here, and looked at during the pass. *)

Ascending(fds) == {s \in SetToSeqs(fds) : \A i, j \in DOMAIN s : i < j => s[i] < s[j]}

\* max_fd is the highest in fd_info.
SelectWait ==
    LET ready == {fd \in watched : Ready(fd) /\ fd <= Max(info)} IN
    /\ kind = "select" /\ ready # {}
    /\ batch' \in Ascending(ready) /\ flagged' = {}
    /\ UNCHANGED <<table, index, edges>>

PollWait ==
    /\ kind = "poll" /\ \E fd \in Entries : Ready(fd)
    /\ table' = [i \in DOMAIN table |-> [table[i] EXCEPT !.revents = Ready(table[i].fd)]]
    /\ index' = 1 /\ flagged' = {fd \in Entries : Reset(fd)}
    /\ UNCHANGED <<batch, edges>>

\* An edge is reported once.
EpollWait ==
    /\ kind = "epoll" /\ edges # {}
    /\ batch' \in SetToSeqs({fd \in edges : Ready(fd)})
    /\ edges' = {} /\ flagged' = {fd \in edges : Reset(fd)}
    /\ UNCHANGED <<table, index>>

KqueueWait ==
    /\ kind = "kqueue" /\ \E fd \in watched : Ready(fd)
    /\ batch' \in SetToSeqs({fd \in watched : Ready(fd)})
    /\ flagged' = {fd \in watched : Ended(fd)}
    /\ UNCHANGED <<table, index, edges>>

\* One iteration of the loop: its backend waits for levels.
LibevWait ==
    /\ OnLibev /\ \E fd \in watched : Ready(fd)
    /\ batch' \in SetToSeqs({fd \in watched : Ready(fd)}) /\ flagged' = {}
    /\ UNCHANGED <<table, index, edges>>

Wait ==
    /\ pc = "wait" /\ pc' = "pass"
    /\ SelectWait \/ PollWait \/ EpollWait \/ KqueueWait \/ LibevWait
    /\ UNCHANGED <<kind, current, clients, fdOf, watched, info, leaked, stalled>>
-----------------------------------------------------------------------------
(* The pass.                                                               *)

\* The descriptor is given to handle_new_connection or handle_client_data.
Begin(fd) ==
    /\ pc' = "serve" /\ current' = fd
    /\ UNCHANGED <<fdOf, peer, sent, unread, memory, edges>>

\* An error is found before the descriptor is read, and it is closed.
GiveUp(fd) == Close(fd) /\ UNCHANGED <<pc, current>>

\* select and libev leave the error to recv and read.
SelectPass ==
    /\ kind = "select" /\ batch # <<>>
    /\ IF Head(batch) \in info
       THEN Begin(Head(batch))
       ELSE UNCHANGED <<pc, current, fdOf, peer, sent, unread, memory, edges>>
    /\ batch' = Tail(batch) /\ UNCHANGED index

\* POLLERR or POLLHUP. poll_fd_count shrinks with a removal, while i goes on.
PollPass ==
    /\ kind = "poll" /\ index <= Len(table)
    /\ LET entry == table[index] IN
       IF ~entry.revents THEN UNCHANGED <<pc, current, fdOf, peer, sent, unread, memory, edges>>
       ELSE IF entry.fd \in flagged THEN GiveUp(entry.fd)
       ELSE Begin(entry.fd)
    /\ index' = index + 1 /\ UNCHANGED batch

EpollPassOnHangup ==
    /\ kind = "epoll" /\ batch # <<>>
    /\ IF Head(batch) \in flagged \/ Ended(Head(batch))
       THEN GiveUp(Head(batch)) ELSE Begin(Head(batch))
    /\ batch' = Tail(batch) /\ UNCHANGED index

\* EPOLLERR or EPOLLHUP.
EpollPass ==
    /\ kind = "epoll" /\ batch # <<>>
    /\ IF Head(batch) \in flagged THEN GiveUp(Head(batch)) ELSE Begin(Head(batch))
    /\ batch' = Tail(batch) /\ UNCHANGED index

\* EV_EOF comes with a FIN too, whatever there still is to read.
KqueuePass ==
    /\ kind = "kqueue" /\ batch # <<>>
    /\ IF Head(batch) \in flagged THEN GiveUp(Head(batch)) ELSE Begin(Head(batch))
    /\ batch' = Tail(batch) /\ UNCHANGED index

\* The callbacks of the pending watchers.
LibevPass ==
    /\ OnLibev /\ batch # <<>>
    /\ Begin(Head(batch))
    /\ batch' = Tail(batch) /\ UNCHANGED index

Pass ==
    /\ pc = "pass"
    /\ SelectPass \/ PollPass \/ EpollPass \/ KqueuePass \/ LibevPass
    /\ UNCHANGED <<kind, flagged, queue, stalled>>

PassDone ==
    /\ pc = "pass"
    /\ IF kind = "poll" THEN index > Len(table) ELSE batch = <<>>
    /\ pc' = "wait" /\ index' = 1 /\ flagged' = {}
    /\ UNCHANGED <<kind, current, batch, clients, fdOf, memory, edges, stalled>>

\* The next accept succeeds.
Accepts == pc = "serve" /\ current = Server /\ queue # <<>> /\ Taken # Fds

AcceptOnce ==
    LET c == Head(queue)  fd == Min(Fds \ Taken) IN
    /\ Accepts
    /\ queue' = Tail(queue)
    /\ fdOf' = [fdOf EXCEPT ![c] = fd]
    /\ CASE kind = "select" -> SelectAdd(fd)
         [] kind = "poll"   -> PollAdd(fd)
         [] kind = "epoll"  -> EpollAdd(fd, c)
         [] kind = "kqueue" -> KqueueAdd(fd)
         [] kind = "libev"  -> LibevAdd(fd)
         [] kind = "echo"   -> EchoAdd(fd)
    /\ pc' = "pass"
    /\ UNCHANGED <<kind, current, index, batch, flagged, sent, unread, peer, stalled>>

\* handle_new_connection goes on until accept fails; accept_cb accepts one.
Accept ==
    LET c == Head(queue)  fd == Min(Fds \ Taken) IN
    /\ Accepts
    /\ queue' = Tail(queue)
    /\ fdOf' = [fdOf EXCEPT ![c] = fd]
    /\ CASE kind = "select" -> SelectAdd(fd)
         [] kind = "poll"   -> PollAdd(fd)
         [] kind = "epoll"  -> EpollAdd(fd, c)
         [] kind = "kqueue" -> KqueueAdd(fd)
         [] kind = "libev"  -> LibevAdd(fd)
         [] kind = "echo"   -> EchoAdd(fd)
    /\ pc' = IF OnLibev THEN "pass" ELSE pc
    /\ UNCHANGED <<kind, current, index, batch, flagged, sent, unread, peer, stalled>>

\* EAGAIN, or EMFILE with connections left.
AcceptFails ==
    /\ pc = "serve" /\ current = Server /\ (queue = <<>> \/ Taken = Fds)
    /\ stalled' = (kind = "epoll" /\ queue # <<>> /\ Server \notin edges)
    /\ pc' = "pass"
    /\ UNCHANGED <<kind, current, index, batch, flagged, clients, fdOf, memory, edges>>

\* io_handle_client_data goes on until recv fails or ends; client_cb reads once.
Recv ==
    LET c == ConnOf(current) IN
    /\ pc = "serve" /\ current # Server /\ unread[c] > 0
    /\ unread' = [unread EXCEPT ![c] = @ - 1]
    /\ IF OnLibev THEN pc' = "pass" /\ current' = Server ELSE UNCHANGED <<pc, current>>
    /\ UNCHANGED <<kind, index, batch, flagged, queue, sent, peer, fdOf, memory, edges, stalled>>

\* EAGAIN.
RecvNothing ==
    LET c == ConnOf(current) IN
    /\ pc = "serve" /\ current # Server /\ unread[c] = 0 /\ peer[c] = "up"
    /\ pc' = "pass" /\ current' = Server
    /\ UNCHANGED <<kind, index, batch, flagged, clients, fdOf, memory, edges, stalled>>

RecvEnds ==
    LET c == ConnOf(current) IN
    /\ pc = "serve" /\ current # Server /\ unread[c] = 0 /\ peer[c] # "up"
    /\ Close(current)
    /\ pc' = "pass" /\ current' = Server
    /\ UNCHANGED <<kind, index, batch, flagged, queue, stalled>>

-----------------------------------------------------------------------------
(* The process ends, and the kernel closes what it has open.               *)

Dies ==
    /\ pc' = "dead" /\ current' = Server /\ index' = 1 /\ batch' = <<>> /\ flagged' = {}
    /\ watched' = {} /\ info' = {} /\ table' = <<>> /\ edges' = {} /\ leaked' = {}
    /\ fdOf' = [c \in Conns |-> IF peer[c] = "none" THEN 0 ELSE -1]
    /\ peer' = [c \in Conns |-> IF peer[c] = "none" THEN "none" ELSE "gone"]
    /\ sent' = [c \in Conns |-> 0] /\ unread' = [c \in Conns |-> 0]
    /\ queue' = <<>> /\ stalled' = FALSE
    /\ UNCHANGED kind

\* At the end of its standard input client_cb frees a watcher that malloc did not
\* give (exercise/echo/echo_server.c:24), and the C library aborts the process.
EchoStdin == kind = "echo" /\ pc \in {"wait", "pass"} /\ Dies

\* FD_SET of a descriptor beyond the set: a build with _FORTIFY_SOURCE aborts, others
\* go on with SelectAdd (what else the stray bit may change is not modelled).
Overrun ==
    /\ kind = "select" /\ Accepts /\ Min(Fds \ Taken) >= FdSetSize
    /\ Dies

\* A welcome, or the reply to a message, is sent to a client that has reset its
\* connection, and raises SIGPIPE; with ECONNRESET Accept and Recv go on. The servers on
\* libev send no welcome.
Sigpipe ==
    /\ \/ Accepts /\ ~OnLibev /\ peer[Head(queue)] = "reset"
       \/ /\ pc = "serve" /\ current # Server
          /\ Reset(current) /\ unread[ConnOf(current)] > 0
    /\ Dies
-----------------------------------------------------------------------------
SelectInit == kind = "select" /\ watched = {Server} /\ info = {Server} /\ table = <<>>
PollInit   == /\ kind = "poll" /\ watched = {} /\ info = {}
              /\ table = <<[fd |-> Server, revents |-> FALSE]>>
EpollInit  == kind = "epoll" /\ watched = {Server} /\ info = {} /\ table = <<>>
KqueueInit == kind = "kqueue" /\ watched = {Server} /\ info = {} /\ table = <<>>
LibevInit  == kind = "libev" /\ watched = {Server} /\ info = {} /\ table = <<>>
EchoInit   == kind = "echo" /\ watched = {Server} /\ info = {} /\ table = <<>>

Init ==
    /\ SelectInit \/ PollInit \/ EpollInit \/ KqueueInit \/ LibevInit \/ EchoInit
    /\ pc = "wait" /\ current = Server /\ index = 1 /\ batch = <<>> /\ flagged = {}
    /\ queue = <<>> /\ fdOf = [c \in Conns |-> 0]
    /\ sent = [c \in Conns |-> 0] /\ unread = [c \in Conns |-> 0]
    /\ peer = [c \in Conns |-> "none"]
    /\ edges = {} /\ leaked = {} /\ stalled = FALSE

Serve == Wait \/ Pass \/ PassDone \/ Accept \/ AcceptFails \/ Recv \/ RecvNothing \/ RecvEnds

Next ==
    \/ Serve \/ EchoStdin \/ Overrun \/ Sigpipe
    \/ \E c \in Conns : Connect(c) \/ Send(c) \/ \E how \in {"shut", "reset"} : Leave(c, how)

Spec == Init /\ [][Next]_vars /\ WF_vars(Serve)
-----------------------------------------------------------------------------
(* Properties.                                                             *)

TypeOK ==
    /\ watched \subseteq Taken \cup {Server} /\ edges \subseteq watched
    /\ kind = "select" => info = watched
    /\ Entries \subseteq Taken \cup {Server} /\ Cardinality(Entries) = Len(table)
    /\ leaked \subseteq Taken

\* Before a server sleeps, whatever is ready is something that will wake it: every
\* accepted descriptor is waited for (BUGFIX.md), and epoll's edges have not been
\* used up. Three are lost: a connection whose descriptor select's fd_info has no place
\* for (select_example.c:73), one for which poll's table has no entry (neither is ever
\* closed, poll_example.c:79), and what epoll's server has left in the queue when accept
\* failed for want of descriptors (epoll_example.c:65), which waits for the next
\* connection.
NothingForgotten ==
    pc = "wait" =>
        \A fd \in Taken \cup {Server} :
            Ready(fd) => \/ fd \in WaitsFor /\ (kind = "epoll" => fd \in edges)
                         \/ kind = "select" /\ fd >= FdSetSize
                         \/ kind = "poll" /\ fd \in leaked
                         \/ fd = Server /\ stalled

ServersInv == TypeOK /\ NothingForgotten

\* What may end a server: the end of the echo server's standard input, a reply to a client
\* that has reset its connection, and a descriptor that is too high for select.
Doomed ==
    \/ kind = "echo"
    \/ \E c \in Conns : peer[c] = "reset"
    \/ kind = "select" /\ \A fd \in Fds : fd < FdSetSize => fd \in Taken

\* A connection is closed because its client has left, or because the server has died of
\* one of the known causes; and only after a reset or, with kqueue, a FIN
\* (kqueue_example.c:148) is anything its client has sent not read.
ClosedForCause ==
    [][\A c \in Conns : fdOf[c] \in Fds /\ fdOf'[c] = -1 =>
           \/ pc' = "dead" /\ Doomed
           \/ /\ peer[c] # "up"
              /\ unread[c] = 0 \/ peer[c] = "reset" \/ kind = "kqueue"]_vars

\* Who connects is accepted, when there is a descriptor for it, and who sends is answered
\* on its open connection, whatever order the descriptors are served in. Not answered are
\* clients that reset, or with kqueue end, their connection; the connections that are lost
\* (NothingForgotten); and everybody when the server has died (Doomed).
Answered ==
    /\ queue # <<>> ~> queue = <<>> \/ Taken = Fds \/ stalled \/ pc = "dead"
    /\ \A c \in Conns : fdOf[c] \in Fds /\ unread[c] > 0 ~>
           \/ fdOf[c] \in Fds /\ unread[c] = 0
           \/ fdOf[c] \in leaked
           \/ peer[c] = "reset" \/ (kind = "kqueue" /\ peer[c] # "up")
           \/ pc = "dead"
=============================================================================
