-------------------------- MODULE ExamplesProofs --------------------------
(***************************************************************************)
(* The example programs. The echo servers forget nothing and close nothing *)
(* without cause, for every number of connections, of descriptors and of   *)
(* messages; shared memory is handed over and printed in order for every   *)
(* number of messages and starts, whatever is killed.                      *)
(***************************************************************************)
EXTENDS MCExamples, FiniteSetTheorems, WellFoundedInduction, TLAPS
-----------------------------------------------------------------------------
(* Sequences and sets the servers are written with.                        *)

\* A set that is not empty has a smallest descriptor: a smallest subset without one
\* would have another when an element is taken out.
LEMMA MinExists ==
    ASSUME NEW S \in SUBSET Int, IsFiniteSet(S), S # {}
    PROVE  Min(S) \in S /\ \A y \in S : Min(S) <= y
<1> DEFINE Bad == {T \in SUBSET S : T # {} /\ ~ \E x \in T : \A y \in T : x <= y}
<1>1. Bad = {}
  <2> SUFFICES ASSUME Bad # {} PROVE FALSE
    OBVIOUS
  <2>1. IsWellFoundedOn(StrictSubsetOrdering(S), SUBSET S)
    BY FS_StrictSubsetOrderingWellFounded, FS_FiniteSubsetsOfFinite
  <2>2. PICK T \in Bad : \A U \in Bad : <<U, T>> \notin StrictSubsetOrdering(S)
    <3>1. Bad \subseteq SUBSET S
      OBVIOUS
    <3> HIDE DEF Bad
    <3> QED BY <2>1, <3>1, WFMin
  <2>3. PICK x \in T : TRUE
    BY <2>2
  <2>4. T \ {x} # {}
    OBVIOUS
  <2>5. T \ {x} \notin Bad
    BY <2>2, <2>3 DEF StrictSubsetOrdering
  <2>6. PICK m \in T \ {x} : \A y \in T \ {x} : m <= y
    BY <2>4, <2>5
  <2>7. CASE x <= m
    BY <2>6, <2>7
  <2>8. CASE m < x
    BY <2>6, <2>8
  <2> QED BY <2>7, <2>8
<1>2. \E x \in S : \A y \in S : x <= y
  BY <1>1
<1> QED BY <1>2 DEF Min

\* Every order of a finite set has each element of it once.
LEMMA OrdersOfSet ==
    ASSUME NEW S, IsFiniteSet(S), NEW s \in SetToSeqs(S)
    PROVE  s \in Seq(S) /\ IsInjective(s) /\ Range(s) = S
<1> DEFINE n == Cardinality(S)
<1>1. n \in Nat
  BY FS_CardinalityType
<1>2. s \in [1 .. n -> S] /\ IsInjective(s)
  BY DEF SetToSeqs, IsInjective
<1>3. s \in Injection(1 .. n, S)
  BY <1>2 DEF Injection
<1>4. Cardinality(1 .. n) = n
  BY <1>1, FS_Interval
<1> HIDE DEF n
<1>5. s \in Surjection(1 .. n, S)
  <2>1. Cardinality(S) = n
    BY DEF n
  <2> QED BY <1>3, <1>4, <2>1, FS_Injection
<1>6. Range(s) = S
  BY <1>2, <1>5 DEF Surjection, Range
<1>7. s \in Seq(S)
  BY <1>1, <1>2
<1> QED BY <1>2, <1>6, <1>7

LEMMA ElementOf ==
    ASSUME NEW S, NEW s \in Seq(S), NEW i \in DOMAIN s
    PROVE  s[i] \in S /\ i \in 1 .. Len(s)
OBVIOUS

LEMMA IsSequence ==
    ASSUME NEW S, NEW n \in Nat, NEW s \in [1 .. n -> S]
    PROVE  s \in Seq(S) /\ Len(s) = n
OBVIOUS

LEMMA TakeFirst ==
    ASSUME NEW S, NEW s \in Seq(S), s # <<>>, IsInjective(s)
    PROVE  /\ Head(s) \in Range(s) /\ Head(s) \in S
           /\ Tail(s) \in Seq(S) /\ IsInjective(Tail(s))
           /\ Range(Tail(s)) = Range(s) \ {Head(s)}
<1>1. PICK n \in Nat \ {0} : n = Len(s)
  OBVIOUS
<1>2. DOMAIN s = 1 .. n /\ Head(s) = s[1]
  BY <1>1
<1>3. Tail(s) \in Seq(S) /\ Len(Tail(s)) = n - 1
  BY <1>1
<1>4. DOMAIN Tail(s) = 1 .. n - 1 /\ \A i \in 1 .. n - 1 : Tail(s)[i] = s[i + 1]
  BY <1>1, <1>3
<1>5. IsInjective(Tail(s))
  BY <1>2, <1>4 DEF IsInjective
<1>6. ASSUME NEW x \in Range(Tail(s)) PROVE x \in Range(s) \ {Head(s)}
  <2>1. PICK i \in 1 .. n - 1 : x = s[i + 1]
    BY <1>4 DEF Range
  <2>2. i + 1 \in 1 .. n /\ i + 1 # 1
    OBVIOUS
  <2> QED BY <1>2, <2>1, <2>2 DEF Range, IsInjective
<1>7. ASSUME NEW x \in Range(s), x # Head(s) PROVE x \in Range(Tail(s))
  <2>1. PICK j \in 1 .. n : x = s[j]
    BY <1>2 DEF Range
  <2>2. j - 1 \in 1 .. n - 1 /\ (j - 1) + 1 = j
    BY <1>2, <1>7, <2>1
  <2>3. Tail(s)[j - 1] = s[j]
    BY <1>4, <2>2
  <2> QED BY <1>4, <2>1, <2>2, <2>3 DEF Range
<1>8. Head(s) \in Range(s) /\ Head(s) \in S
  BY <1>2 DEF Range
<1> QED BY <1>3, <1>5, <1>6, <1>7, <1>8

LEMMA AddLast ==
    ASSUME NEW S, NEW s \in Seq(S), NEW e \in S
    PROVE  /\ Append(s, e) \in Seq(S) /\ DOMAIN Append(s, e) = 1 .. Len(s) + 1
           /\ \A i \in DOMAIN s : i \in 1 .. Len(s) /\ Append(s, e)[i] = s[i]
           /\ Append(s, e)[Len(s) + 1] = e
           /\ \A i \in 1 .. Len(s) + 1 : i \in DOMAIN s \/ i = Len(s) + 1
OBVIOUS
-----------------------------------------------------------------------------
(* The echo servers. A server waits for every descriptor it has accepted   *)
(* but the leaked ones, what it passes through is open, what was reported  *)
(* with an error or an end has one, and with epoll whatever is ready has   *)
(* its edge, is still to come in the pass, or is served.                   *)

PollFd    == [fd : Nat, revents : BOOLEAN]
Watchable == Taken \cup {Server}
Kept(fd)  == fd \in edges \cup Range(batch) \/ (pc = "serve" /\ fd = current)

\* Reported by the wait, and still to come in the pass.
Reported(fd) == fd \in Range(batch) \/ \E i \in DOMAIN table : table[i].fd = fd /\ table[i].revents

ServersTyped ==
    /\ kind \in Kinds /\ pc \in {"wait", "pass", "serve", "dead"} /\ stalled \in BOOLEAN
    /\ queue \in Seq(Conns) /\ IsInjective(queue)
    /\ fdOf \in [Conns -> Fds \cup {0, -1}] /\ unread \in [Conns -> Nat]
    /\ peer \in [Conns -> {"none", "up", "shut", "reset", "gone"}]
    /\ batch \in Seq(Nat) /\ IsInjective(batch) /\ Range(batch) \subseteq Watchable
    /\ table \in Seq(PollFd) /\ index \in Nat \ {0}
    /\ current \in Watchable

\* A descriptor is of one connection; one that waits for accept has none yet.
Connections ==
    /\ \A c, d \in Conns : fdOf[c] = fdOf[d] /\ fdOf[c] \in Fds => c = d
    /\ \A c \in Conns : (peer[c] = "none" => fdOf[c] = 0) /\ (peer[c] = "gone" => fdOf[c] = -1)
    /\ \A i \in DOMAIN queue : fdOf[queue[i]] = 0 /\ peer[queue[i]] # "none"

Remembers ==
    /\ leaked \subseteq Taken /\ (kind \notin {"select", "poll"} => leaked = {})
    /\ kind # "poll" => table = <<>>
    /\ kind # "poll" /\ pc # "dead" => watched = Watchable \ leaked
    /\ kind = "select" => info = watched /\ \A fd \in leaked : fd >= FdSetSize
    /\ kind = "poll" => watched = {} /\ \A i, j \in DOMAIN table : table[i].fd = table[j].fd => i = j
    /\ kind = "poll" /\ pc # "dead" => Entries \cup leaked = Watchable /\ Entries \cap leaked = {}
    /\ pc = "dead" => /\ Taken = {} /\ watched = {} /\ table = <<>>
                      /\ \A c \in Conns : peer[c] \in {"none", "gone"}

Passing ==
    /\ kind = "poll" \/ pc = "wait" => batch = <<>>
    /\ pc = "serve" => current \notin Range(batch)
    /\ pc # "serve" => current = Server
    /\ kind = "poll" /\ pc # "dead" => current \in Entries
    /\ current \notin leaked /\ Range(batch) \cap leaked = {}

FlagsRight ==
    /\ Server \notin flagged
    /\ \A c \in Conns : fdOf[c] \in Fds \cap flagged /\ Reported(fdOf[c]) =>
           peer[c] = "reset" \/ (kind = "kqueue" /\ peer[c] = "shut")

EdgesKept ==
    /\ edges \subseteq watched /\ (kind # "epoll" => edges = {})
    /\ kind = "epoll" =>
         /\ queue # <<>> => Kept(Server) \/ stalled
         /\ \A c \in Conns : fdOf[c] \in Fds /\ (unread[c] > 0 \/ peer[c] # "up") => Kept(fdOf[c])

ServersInductive == ServersTyped /\ Connections /\ Remembers /\ Passing /\ FlagsRight /\ EdgesKept

LEMMA Descriptors ==
    ASSUME ServersInductive
    PROVE  /\ Taken \subseteq Fds /\ Fds \subseteq Nat \ {Server} /\ Watchable \subseteq Nat
           /\ IsFiniteSet(Watchable)
           /\ watched \subseteq Watchable /\ Server \notin leaked
<1>1. Taken \subseteq Fds /\ Fds \subseteq Nat \ {Server}
  BY IoServersAssumption DEF Taken, Fds, Server
<1>2. IsFiniteSet(Fds)
  BY IoServersAssumption, FS_Interval DEF Fds
<1>3. IsFiniteSet(Watchable)
  BY <1>1, <1>2, FS_Subset, FS_AddElement DEF Watchable
<1>4. watched \subseteq Watchable /\ leaked \subseteq Taken
  BY DEF ServersInductive, Remembers
<1> QED BY <1>1, <1>3, <1>4 DEF Watchable, Server

\* The connection of an open descriptor.
LEMMA OwnerOf ==
    ASSUME ServersInductive, NEW fd \in Taken
    PROVE  ConnOf(fd) \in Conns /\ fdOf[ConnOf(fd)] = fd
BY DEF Taken, ConnOf

LEMMA OwnerIs ==
    ASSUME ServersInductive, NEW c \in Conns, fdOf[c] \in Fds
    PROVE  ConnOf(fdOf[c]) = c /\ fdOf[c] \in Taken
<1>1. fdOf[c] \in Taken
  BY DEF Taken
<1>2. ConnOf(fdOf[c]) \in Conns /\ fdOf[ConnOf(fdOf[c])] = fdOf[c]
  BY <1>1, OwnerOf
<1> QED BY <1>1, <1>2 DEF ServersInductive, Connections

LEMMA LowestFree ==
    ASSUME ServersInductive, Taken # Fds
    PROVE  /\ Min(Fds \ Taken) \in Fds /\ Min(Fds \ Taken) \notin Taken
           /\ \A fd \in Fds \ Taken : Min(Fds \ Taken) <= fd
<1>1. Fds \ Taken \in SUBSET Int /\ Fds \ Taken # {}
  BY Descriptors
<1>2. IsFiniteSet(Fds \ Taken)
  BY IoServersAssumption, FS_Interval, FS_Subset DEF Fds
<1> QED BY <1>1, <1>2, MinExists

\* Readiness, in terms of the connections.
LEMMA ReadyIs ==
    ASSUME ServersInductive, NEW fd \in Watchable, Ready(fd)
    PROVE  \/ fd = Server /\ queue # <<>>
           \/ \E c \in Conns : fdOf[c] = fd /\ fd \in Fds /\ (unread[c] > 0 \/ peer[c] # "up")
<1>1. CASE fd = Server
  BY <1>1 DEF Ready
<1>2. CASE fd # Server
  <2>1. fd \in Taken
    BY <1>2 DEF Watchable
  <2> QED BY <1>2, <2>1, OwnerOf, Descriptors DEF Ready, Ended
<1> QED BY <1>1, <1>2

LEMMA IsReady ==
    ASSUME ServersInductive
    PROVE  /\ queue # <<>> => Ready(Server)
           /\ \A c \in Conns : fdOf[c] \in Fds /\ (unread[c] > 0 \/ peer[c] # "up") => Ready(fdOf[c])
<1>1. ASSUME NEW c \in Conns, fdOf[c] \in Fds, unread[c] > 0 \/ peer[c] # "up"
      PROVE  Ready(fdOf[c])
  <2>1. ConnOf(fdOf[c]) = c /\ fdOf[c] # Server
    BY <1>1, OwnerIs, Descriptors
  <2> QED BY <1>1, <2>1 DEF Ready, Ended
<1> QED BY <1>1 DEF Ready
-----------------------------------------------------------------------------
LEMMA ServersInit == Init => ServersInductive
<1> SUFFICES ASSUME Init PROVE ServersInductive
  OBVIOUS
<1>1. /\ kind \in Kinds /\ pc = "wait" /\ current = Server /\ index = 1 /\ batch = <<>> /\ queue = <<>>
      /\ fdOf = [c \in Conns |-> 0] /\ unread = [c \in Conns |-> 0] /\ peer = [c \in Conns |-> "none"]
      /\ edges = {} /\ leaked = {} /\ stalled = FALSE /\ flagged = {}
  BY DEF Init, Kinds, SelectInit, PollInit, EpollInit, KqueueInit, LibevInit, EchoInit
<1>2. /\ kind # "poll" => watched = {Server} /\ table = <<>>
      /\ kind = "select" => info = {Server}
      /\ kind = "poll" => watched = {} /\ table = <<[fd |-> Server, revents |-> FALSE]>>
  BY DEF Init, SelectInit, PollInit, EpollInit, KqueueInit, LibevInit, EchoInit
<1>3. Taken = {} /\ Watchable = {Server}
  BY <1>1, IoServersAssumption DEF Taken, Watchable, Fds
<1>4. table \in Seq(PollFd)
  <2>1. CASE kind = "poll"
    <3>1. [fd |-> Server, revents |-> FALSE] \in PollFd
      BY DEF Server, PollFd
    <3> HIDE DEF Server
    <3>2. table = <<[fd |-> Server, revents |-> FALSE]>>
      BY <1>2, <2>1
    <3>3. \A e \in PollFd : <<e>> \in Seq(PollFd)
      OBVIOUS
    <3> QED BY ONLY <3>1, <3>2, <3>3
  <2>2. CASE kind # "poll"
    BY <1>2, <2>2
  <2> QED BY <2>1, <2>2
<1>5. ServersTyped
  <2>1. IsInjective(batch) /\ IsInjective(queue) /\ Range(batch) = {}
    BY <1>1 DEF IsInjective, Range
  <2>2. /\ fdOf \in [Conns -> Fds \cup {0, -1}] /\ unread \in [Conns -> Nat]
        /\ peer \in [Conns -> {"none", "up", "shut", "reset", "gone"}]
    BY <1>1
  <2>3. batch \in Seq(Nat) /\ queue \in Seq(Conns)
    BY <1>1
  <2>4. kind \in Kinds /\ pc = "wait" /\ current \in Watchable /\ index \in Nat \ {0}
    BY <1>1, <1>3
  <2>6. stalled \in BOOLEAN
    BY <1>1
  <2>5. Range(batch) \subseteq Watchable
    BY <2>1
  <2> QED BY ONLY <1>4, <2>1, <2>2, <2>3, <2>4, <2>5, <2>6 DEF ServersTyped
<1>6. Connections
  BY <1>1, IoServersAssumption DEF Connections, Fds
<1>7. kind = "poll" => Entries = {Server}
  BY <1>2 DEF Entries
<1>8. Remembers
  <2>1. kind = "poll" => \A i, j \in DOMAIN table : table[i].fd = table[j].fd => i = j
    BY <1>2
  <2>2. pc # "dead" /\ leaked = {}
    BY <1>1
  <2> QED BY <1>2, <1>3, <1>7, <2>1, <2>2 DEF Remembers
<1>9. Passing
  BY <1>1, <1>7 DEF Passing, Range
<1>10. EdgesKept
  BY <1>1, IoServersAssumption DEF EdgesKept, Fds
<1>11. FlagsRight
  BY <1>1 DEF FlagsRight
<1> QED BY <1>5, <1>6, <1>8, <1>9, <1>10, <1>11 DEF ServersInductive

\* A step that leaves the connections alone leaves what is said of them alone.
LEMMA SameConnections ==
    ASSUME ServersInductive, UNCHANGED <<queue, fdOf, unread, peer>>
    PROVE  Connections' /\ Taken' = Taken /\ Watchable' = Watchable
<1>1. Taken' = Taken
  BY DEF Taken
<1>2. Connections'
  BY DEF ServersInductive, Connections
<1> QED BY <1>1, <1>2 DEF Watchable

\* Nor does a step that reports nothing more change what is said of what is reported.
LEMMA SameFlags ==
    ASSUME ServersInductive, UNCHANGED <<kind, fdOf, peer, table, flagged>>,
           Range(batch') \subseteq Range(batch)
    PROVE  FlagsRight'
<1>1. \A fd : Reported(fd)' => Reported(fd)
  BY DEF Reported
<1> QED BY <1>1 DEF ServersInductive, FlagsRight, Reported

LEMMA ConnectKeeps ==
    ASSUME ServersInductive, NEW c \in Conns, Connect(c)
    PROVE  ServersInductive'
<1>1. /\ peer[c] = "none" /\ pc # "dead" /\ queue' = Append(queue, c)
      /\ peer' = [peer EXCEPT ![c] = "up"] /\ stalled' = FALSE /\ Edge(Server)
      /\ UNCHANGED <<kind, pc, current, index, batch, flagged, unread, fdOf, watched, info, table,
                     leaked>>
  BY DEF Connect, progress, memory
<1>2. fdOf[c] = 0 /\ \A i \in DOMAIN queue : queue[i] # c
  BY <1>1 DEF ServersInductive, Connections
<1>3. /\ queue \in Seq(Conns) /\ IsInjective(queue)
      /\ peer \in [Conns -> {"none", "up", "shut", "reset", "gone"}]
  BY DEF ServersInductive, ServersTyped
<1>4. PICK n \in Nat : n = Len(queue)
  BY <1>3
<1>5. /\ queue' \in Seq(Conns) /\ DOMAIN queue' = 1 .. n + 1 /\ DOMAIN queue = 1 .. n
      /\ (\A i \in 1 .. n : queue'[i] = queue[i]) /\ queue'[n + 1] = c
      /\ \A i \in 1 .. n + 1 : i \in 1 .. n \/ i = n + 1
  BY <1>1, <1>3, <1>4
<1>6. IsInjective(queue')
  BY <1>2, <1>3, <1>5 DEF IsInjective
<1>7. Taken' = Taken /\ Watchable' = Watchable
  BY <1>1 DEF Taken, Watchable
<1>8. ServersTyped'
  BY <1>1, <1>3, <1>5, <1>6, <1>7 DEF ServersInductive, ServersTyped
<1>9. Connections'
  <2>1. \A d \in Conns : peer'[d] = IF d = c THEN "up" ELSE peer[d]
    BY <1>1, <1>3
  <2>2. \A i \in 1 .. n + 1 : fdOf[queue'[i]] = 0 /\ peer'[queue'[i]] # "none"
    <3>1. \A i \in 1 .. n : fdOf[queue[i]] = 0 /\ peer'[queue[i]] # "none"
      BY <1>2, <1>3, <1>5, <2>1 DEF ServersInductive, Connections
    <3>2. fdOf[c] = 0 /\ peer'[c] # "none"
      BY <1>2, <2>1
    <3> QED BY <1>5, <3>1, <3>2
  <2> QED BY <1>1, <1>5, <2>1, <2>2 DEF ServersInductive, Connections
<1>10. Entries' = Entries
  BY <1>1 DEF Entries
<1>11. Remembers'
  BY <1>1, <1>7, <1>10 DEF ServersInductive, Remembers
<1>12. Passing'
  BY <1>1, <1>10 DEF ServersInductive, Passing
<1>13. EdgesKept'
  <2>1. kind # "epoll" => edges' = {}
    BY <1>1 DEF Edge, ServersInductive, EdgesKept
  <2>2. CASE kind # "epoll"
    BY <1>1, <2>1, <2>2 DEF EdgesKept
  <2>3. CASE kind = "epoll"
    <3>1. edges' = edges \cup {Server} /\ watched' = Watchable
      BY <1>1, <2>3 DEF Edge, ServersInductive, Remembers, Watchable
    <3>2. \A d \in Conns : fdOf'[d] \in Fds /\ (unread'[d] > 0 \/ peer'[d] # "up") => Kept(fdOf[d])'
      <4>1. \A d \in Conns : peer'[d] # "up" => peer[d] # "up"
        BY <1>1, <1>3
      <4> QED BY <1>1, <2>3, <3>1, <4>1 DEF ServersInductive, EdgesKept, Kept
    <3> QED BY <1>1, <2>3, <3>1, <3>2 DEF ServersInductive, EdgesKept, Kept, Watchable
  <2> QED BY <2>2, <2>3
<1>14. FlagsRight'
  <2>1. \A d \in Conns : fdOf[d] \in Fds => peer'[d] = peer[d]
    <3>1. 0 \notin Fds
      BY IoServersAssumption DEF Fds
    <3> QED BY <1>1, <1>2, <1>3, <3>1
  <2> QED BY <1>1, <2>1 DEF ServersInductive, FlagsRight, Reported
<1> QED BY <1>8, <1>9, <1>11, <1>12, <1>13, <1>14 DEF ServersInductive

\* What a client sends, and that it leaves, is an edge.
LEMMA ClientKeeps ==
    ASSUME ServersInductive, NEW c \in Conns,
           Send(c) \/ \E how \in {"shut", "reset"} : Leave(c, how)
    PROVE  ServersInductive'
<1>1. /\ IF fdOf[c] \in Fds THEN Edge(fdOf[c]) ELSE UNCHANGED edges
      /\ UNCHANGED <<kind, pc, current, index, batch, flagged, queue, fdOf, watched, info, table, leaked,
                     stalled>>
  BY DEF Send, Leave, progress, memory
<1>2. /\ unread' \in [Conns -> Nat] /\ peer' \in [Conns -> {"none", "up", "shut", "reset", "gone"}]
      /\ \A d \in Conns : d # c => unread'[d] = unread[d] /\ peer'[d] = peer[d]
      /\ peer[c] \in {"up", "shut"} /\ (peer'[c] = peer[c] \/ peer'[c] = "reset" \/ peer[c] = "up")
      /\ peer'[c] \notin {"none", "gone"}
  <2>1. unread \in [Conns -> Nat] /\ peer \in [Conns -> {"none", "up", "shut", "reset", "gone"}]
    BY DEF ServersInductive, ServersTyped
  <2>2. CASE Send(c)
    <3>1. unread' = [unread EXCEPT ![c] = unread[c] + 1] /\ peer' = peer /\ peer[c] = "up"
      BY <2>2 DEF Send
    <3> QED BY <2>1, <3>1
  <2>3. CASE \E how \in {"shut", "reset"} : Leave(c, how)
    <3>1. PICK how \in {"shut", "reset"} : Leave(c, how)
      BY <2>3
    <3>2. /\ peer' = [peer EXCEPT ![c] = how] /\ unread' = unread
          /\ peer[c] \in {"up", "shut"} /\ (peer[c] = "up" \/ how = "reset")
      BY <3>1 DEF Leave
    <3> QED BY <2>1, <3>2
  <2> QED BY <2>2, <2>3
<1>3. Taken' = Taken /\ Watchable' = Watchable /\ Entries' = Entries
  BY <1>1 DEF Taken, Watchable, Entries
<1>4. ServersTyped'
  BY <1>1, <1>2, <1>3 DEF ServersInductive, ServersTyped
<1>5. Connections'
  <2>1. /\ \A x, y \in Conns : fdOf[x] = fdOf[y] /\ fdOf[x] \in Fds => x = y
        /\ \A x \in Conns : (peer[x] = "none" => fdOf[x] = 0) /\ (peer[x] = "gone" => fdOf[x] = -1)
        /\ \A i \in DOMAIN queue : fdOf[queue[i]] = 0 /\ peer[queue[i]] # "none"
    BY DEF ServersInductive, Connections
  <2>2. \A x \in Conns : (peer'[x] = "none" => fdOf[x] = 0) /\ (peer'[x] = "gone" => fdOf[x] = -1)
    BY <1>2, <2>1
  <2>3. \A i \in DOMAIN queue : queue[i] \in Conns
    BY DEF ServersInductive, ServersTyped
  <2>4. \A i \in DOMAIN queue : fdOf[queue[i]] = 0 /\ peer'[queue[i]] # "none"
    BY <1>2, <2>1, <2>3
  <2> QED BY <1>1, <2>1, <2>2, <2>4 DEF Connections
<1>6. Remembers' /\ pc # "dead"
  <2>1. pc # "dead"
    BY <1>2 DEF ServersInductive, Remembers
  <2> QED BY <1>1, <1>3, <2>1 DEF ServersInductive, Remembers
<1>7. Passing'
  BY <1>1, <1>3 DEF ServersInductive, Passing
<1>8. EdgesKept'
  <2>1. kind # "epoll" => edges' = {}
    BY <1>1 DEF Edge, ServersInductive, EdgesKept
  <2>2. CASE kind # "epoll"
    BY <1>1, <2>1, <2>2 DEF EdgesKept
  <2>3. CASE kind = "epoll"
    <3>1. watched' = Watchable /\ watched = Watchable
      BY <1>1, <1>6, <2>3 DEF ServersInductive, Remembers
    <3>2. edges' = IF fdOf[c] \in Fds THEN edges \cup {fdOf[c]} ELSE edges
      <4>1. fdOf[c] \in Fds => fdOf[c] \in watched
        BY <3>1 DEF Watchable, Taken
      <4> QED BY <1>1, <2>3, <4>1 DEF Edge
    <3>3. edges' \subseteq watched' /\ edges \subseteq edges'
      BY <3>1, <3>2 DEF Watchable, Taken, ServersInductive, EdgesKept
    <3>4. queue' # <<>> => Kept(Server)' \/ stalled'
      BY <1>1, <2>3, <3>3 DEF ServersInductive, EdgesKept, Kept
    <3>5. ASSUME NEW d \in Conns, fdOf'[d] \in Fds, unread'[d] > 0 \/ peer'[d] # "up"
          PROVE  Kept(fdOf[d])'
      <4>1. CASE d = c
        BY <1>1, <3>2, <3>5, <4>1 DEF Kept
      <4>2. CASE d # c
        BY <1>1, <1>2, <2>3, <3>3, <3>5, <4>2 DEF ServersInductive, EdgesKept, Kept
      <4> QED BY <4>1, <4>2
    <3> QED BY <1>1, <2>3, <3>3, <3>4, <3>5 DEF EdgesKept
  <2> QED BY <2>2, <2>3
<1>9. FlagsRight'
  <2>1. \A d \in Conns : peer[d] = "reset" \/ (kind = "kqueue" /\ peer[d] = "shut") =>
            peer'[d] = "reset" \/ (kind = "kqueue" /\ peer'[d] = "shut")
    BY <1>2
  <2> QED BY <1>1, <2>1 DEF ServersInductive, FlagsRight, Reported
<1> QED BY <1>4, <1>5, <1>6, <1>7, <1>8, <1>9 DEF ServersInductive
-----------------------------------------------------------------------------
LEMMA WaitKeeps ==
    ASSUME ServersInductive, Wait
    PROVE  ServersInductive'
<1>1. /\ pc = "wait" /\ pc' = "pass"
      /\ UNCHANGED <<kind, current, queue, unread, peer, fdOf, watched, info, leaked, stalled>>
  BY DEF Wait, clients
<1>2. Connections' /\ Taken' = Taken /\ Watchable' = Watchable
  BY <1>1, SameConnections
<1>3. batch = <<>> /\ current = Server
  BY <1>1 DEF ServersInductive, Passing
<1>4. CASE kind = "poll"
  <2>1. PollWait
    BY <1>4 DEF Wait, SelectWait, EpollWait, KqueueWait, LibevWait, OnLibev
  <2>2. /\ table' = [i \in DOMAIN table |-> [table[i] EXCEPT !.revents = Ready(table[i].fd)]]
        /\ index' = 1 /\ flagged' = {fd \in Entries : Reset(fd)} /\ UNCHANGED <<batch, edges>>
    BY <2>1 DEF PollWait
  <2>3. table \in Seq(PollFd)
    BY DEF ServersInductive, ServersTyped
  <2>4. \A e \in PollFd, x \in BOOLEAN :
            [e EXCEPT !.revents = x] \in PollFd /\ [e EXCEPT !.revents = x].fd = e.fd
    BY DEF PollFd
  <2>5. \A fd : Ready(fd) \in BOOLEAN
    BY DEF Ready, Ended
  <2>6. ASSUME NEW i \in DOMAIN table
        PROVE  table'[i] \in PollFd /\ table'[i].fd = table[i].fd
    <3>1. table[i] \in PollFd
      BY <2>3, ElementOf
    <3>2. table'[i] = [table[i] EXCEPT !.revents = Ready(table[i].fd)]
      BY <2>2
    <3>3. Ready(table[i].fd) \in BOOLEAN
      BY <2>5
    <3> QED BY ONLY <2>4, <3>1, <3>2, <3>3
  <2>7. DOMAIN table' = DOMAIN table /\ table' \in Seq(PollFd)
    <3>1. PICK n \in Nat : n = Len(table)
      BY <2>3
    <3>2. DOMAIN table = 1 .. n
      BY <2>3, <3>1
    <3>3. DOMAIN table' = 1 .. n /\ table' = [i \in 1 .. n |-> table'[i]]
      BY <2>2, <3>2
    <3>4. table' \in [1 .. n -> PollFd]
      BY <2>6, <3>2, <3>3
    <3> QED BY <3>2, <3>3, <3>4, IsSequence
  <2>8. Entries' = Entries
    BY <2>6, <2>7 DEF Entries
  <2>9. ServersTyped'
    BY <1>1, <1>2, <2>2, <2>7 DEF ServersInductive, ServersTyped
  <2>10. Remembers'
    BY <1>1, <1>2, <1>4, <2>6, <2>7, <2>8 DEF ServersInductive, Remembers
  <2>11. Passing'
    BY <1>1, <1>3, <1>4, <2>2, <2>8 DEF ServersInductive, Passing
  <2>12. EdgesKept'
    BY <1>1, <1>4, <2>2 DEF ServersInductive, EdgesKept
  <2>13. FlagsRight'
    <3>1. ASSUME NEW c \in Conns, fdOf[c] \in Fds, Reset(fdOf[c]) PROVE peer[c] = "reset"
      BY <3>1, OwnerIs DEF Reset
    <3> QED BY <1>1, <2>2, <3>1 DEF FlagsRight, Reset
  <2> QED BY <1>2, <2>9, <2>10, <2>11, <2>12, <2>13 DEF ServersInductive
<1>5. CASE kind # "poll"
  <2>1. \E R \in SUBSET watched :
           /\ batch' \in SetToSeqs(R) /\ UNCHANGED <<table, index>>
           /\ IF kind = "epoll" THEN edges' = {} /\ R = {fd \in edges : Ready(fd)} ELSE UNCHANGED edges
           /\ \A fd \in flagged' : Reset(fd) \/ (kind = "kqueue" /\ Ended(fd))
    <3>1. edges \subseteq watched
      BY DEF ServersInductive, EdgesKept
    <3>2. CASE SelectWait
      <4>1. PICK R \in SUBSET watched : batch' \in Ascending(R)
        BY <3>2 DEF SelectWait
      <4> QED BY <3>2, <4>1 DEF SelectWait, Ascending
    <3>3. CASE EpollWait
      BY <3>1, <3>3 DEF EpollWait
    <3>4. CASE KqueueWait
      BY <3>4 DEF KqueueWait
    <3>5. CASE LibevWait
      BY <3>5 DEF LibevWait, OnLibev
    <3> QED BY <1>5, <3>2, <3>3, <3>4, <3>5 DEF Wait, PollWait
  <2>2. PICK R \in SUBSET watched :
           /\ batch' \in SetToSeqs(R) /\ UNCHANGED <<table, index>>
           /\ IF kind = "epoll" THEN edges' = {} /\ R = {fd \in edges : Ready(fd)} ELSE UNCHANGED edges
           /\ \A fd \in flagged' : Reset(fd) \/ (kind = "kqueue" /\ Ended(fd))
    BY ONLY <2>1
  <2>3. batch' \in Seq(R) /\ IsInjective(batch') /\ Range(batch') = R
    <3>1. IsFiniteSet(R)
      <4>1. R \subseteq Watchable
        BY Descriptors
      <4> QED BY <4>1, Descriptors, FS_Subset
    <3> QED BY ONLY <2>2, <3>1, OrdersOfSet
  <2>4. batch' \in Seq(Nat)
    BY <2>3, Descriptors
  <2>5. Entries' = Entries
    BY <2>2 DEF Entries
  <2>6. ServersTyped'
    BY <1>1, <1>2, <2>2, <2>3, <2>4, Descriptors DEF ServersInductive, ServersTyped
  <2>7. Remembers'
    BY <1>1, <1>2, <1>5, <2>2, <2>5 DEF ServersInductive, Remembers
  <2>8. Passing'
    <3>1. watched \cap leaked = {}
      BY <1>1, <1>5 DEF ServersInductive, Remembers
    <3> QED BY <1>1, <1>3, <1>5, <2>2, <2>3, <3>1 DEF ServersInductive, Passing
  <2>9. EdgesKept'
    <3>1. CASE kind # "epoll"
      BY <1>1, <2>2, <3>1 DEF ServersInductive, EdgesKept
    <3>2. CASE kind = "epoll"
      <4>1. Range(batch) = {}
        BY <1>3 DEF Range
      <4>2. \A fd : Kept(fd) /\ Ready(fd) => fd \in Range(batch')
        BY <1>1, <2>2, <2>3, <3>2, <4>1 DEF Kept
      <4>3. queue' # <<>> => Kept(Server)' \/ stalled'
        <5>1. queue # <<>> => (Kept(Server) \/ stalled) /\ Ready(Server)
          BY <3>2, IsReady DEF ServersInductive, EdgesKept
        <5>2. Server \in Range(batch') => Kept(Server)'
          BY DEF Kept
        <5> QED BY <1>1, <4>2, <5>1, <5>2
      <4>4. ASSUME NEW c \in Conns, fdOf'[c] \in Fds, unread'[c] > 0 \/ peer'[c] # "up"
            PROVE  Kept(fdOf[c])'
        <5>1. Kept(fdOf[c]) /\ Ready(fdOf[c])
          BY <1>1, <3>2, <4>4, IsReady DEF ServersInductive, EdgesKept
        <5> QED BY <1>1, <4>2, <5>1 DEF Kept
      <4> QED BY <1>1, <2>2, <3>2, <4>3, <4>4 DEF EdgesKept
    <3> QED BY <3>1, <3>2
  <2>10. FlagsRight'
    <3>1. ASSUME NEW c \in Conns, fdOf[c] \in Fds, Reset(fdOf[c]) PROVE peer[c] = "reset"
      BY <3>1, OwnerIs DEF Reset
    <3>2. ASSUME NEW c \in Conns, fdOf[c] \in Fds, Reported(fdOf[c])', Ended(fdOf[c])
          PROVE  peer[c] \in {"shut", "reset"}
      <4>1. peer[c] # "up" /\ peer[c] # "none" /\ peer[c] # "gone"
        BY <3>2, OwnerIs, IoServersAssumption DEF Ended, ServersInductive, Connections, Fds
      <4> QED BY <4>1 DEF ServersInductive, ServersTyped
    <3> QED BY <1>1, <2>2, <3>1, <3>2 DEF FlagsRight, Reset, Ended
  <2> QED BY <1>2, <2>6, <2>7, <2>8, <2>9, <2>10 DEF ServersInductive
<1> QED BY <1>4, <1>5

LEMMA PassDoneKeeps ==
    ASSUME ServersInductive, PassDone
    PROVE  ServersInductive'
<1>1. /\ pc = "pass" /\ pc' = "wait" /\ index' = 1 /\ flagged' = {}
      /\ kind = "poll" \/ batch = <<>>
      /\ UNCHANGED <<kind, current, batch, queue, unread, peer, fdOf, watched, info, table, leaked,
                     edges, stalled>>
  BY DEF PassDone, clients, memory
<1>2. Connections' /\ Taken' = Taken /\ Watchable' = Watchable /\ Entries' = Entries
  BY <1>1, SameConnections DEF Entries
<1>3. ServersTyped'
  BY <1>1, <1>2 DEF ServersInductive, ServersTyped
<1>4. Remembers'
  BY <1>1, <1>2 DEF ServersInductive, Remembers
<1>5. Passing'
  BY <1>1, <1>2 DEF ServersInductive, Passing
<1>6. EdgesKept'
  BY <1>1 DEF ServersInductive, EdgesKept, Kept
<1>7. FlagsRight'
  BY <1>1 DEF FlagsRight
<1> QED BY <1>2, <1>3, <1>4, <1>5, <1>6, <1>7 DEF ServersInductive

\* When accept has failed, there is nobody left, a connection has come since the
\* wait, or the server is stalled.
LEMMA AcceptFailsKeeps ==
    ASSUME ServersInductive, AcceptFails
    PROVE  ServersInductive'
<1>1. /\ pc = "serve" /\ current = Server /\ pc' = "pass"
      /\ stalled' = (kind = "epoll" /\ queue # <<>> /\ Server \notin edges)
      /\ UNCHANGED <<kind, current, index, batch, flagged, queue, unread, peer, fdOf, watched, info, table,
                     leaked, edges>>
  BY DEF AcceptFails, clients, memory
<1>2. Connections' /\ FlagsRight' /\ Taken' = Taken /\ Watchable' = Watchable /\ Entries' = Entries
  BY <1>1, SameConnections, SameFlags DEF Entries, Range
<1>3. ServersTyped'
  <2>1. stalled' \in BOOLEAN
    BY <1>1
  <2> QED BY <1>1, <1>2, <2>1 DEF ServersInductive, ServersTyped
<1>4. Remembers'
  BY <1>1, <1>2 DEF ServersInductive, Remembers
<1>5. Passing'
  BY <1>1, <1>2 DEF ServersInductive, Passing
<1>6. EdgesKept'
  <2>1. CASE kind # "epoll"
    BY <1>1, <2>1 DEF ServersInductive, EdgesKept
  <2>2. CASE kind = "epoll"
    <3>1. queue' # <<>> => Kept(Server)' \/ stalled'
      BY <1>1, <2>2 DEF Kept
    <3>2. ASSUME NEW c \in Conns, fdOf'[c] \in Fds, unread'[c] > 0 \/ peer'[c] # "up"
          PROVE  Kept(fdOf[c])'
      <4>1. Kept(fdOf[c]) /\ fdOf[c] # Server
        BY <1>1, <2>2, <3>2, Descriptors DEF ServersInductive, EdgesKept
      <4> QED BY <1>1, <4>1 DEF Kept
    <3> QED BY <1>1, <2>2, <3>1, <3>2 DEF ServersInductive, EdgesKept
  <2> QED BY <2>1, <2>2
<1> QED BY <1>2, <1>3, <1>4, <1>5, <1>6 DEF ServersInductive
-----------------------------------------------------------------------------
LEMMA RecvKeeps ==
    ASSUME ServersInductive, Recv
    PROVE  ServersInductive'
<1>1. PICK c \in Conns : c = ConnOf(current) /\ fdOf[c] = current /\ current \in Fds
  <2>1. current \in Taken
    BY DEF Recv, ServersInductive, ServersTyped, Watchable
  <2> QED BY <2>1, OwnerOf, Descriptors
<1>2. /\ pc = "serve" /\ current # Server /\ unread[c] > 0 /\ unread' = [unread EXCEPT ![c] = unread[c] - 1]
      /\ IF OnLibev THEN pc' = "pass" /\ current' = Server ELSE UNCHANGED <<pc, current>>
      /\ UNCHANGED <<kind, index, batch, flagged, queue, peer, fdOf, watched, info, table, leaked, edges,
                     stalled>>
  BY <1>1 DEF Recv, memory
<1>3. unread \in [Conns -> Nat]
  BY DEF ServersInductive, ServersTyped
<1>4. unread' \in [Conns -> Nat] /\ \A d \in Conns : unread'[d] > 0 => unread[d] > 0
  <2>1. unread[c] - 1 \in Nat
    BY <1>2, <1>3
  <2>2. \A d \in Conns : unread'[d] = IF d = c THEN unread[c] - 1 ELSE unread[d]
    BY <1>2, <1>3
  <2>3. unread' \in [Conns -> Nat]
    BY <1>2, <1>3, <2>1
  <2> QED BY <1>2, <2>2, <2>3
<1>5. Taken' = Taken /\ Watchable' = Watchable /\ Entries' = Entries
  BY <1>2 DEF Taken, Watchable, Entries
<1>6. OnLibev => kind \notin {"poll", "epoll"}
  BY DEF OnLibev
<1>7. ServersTyped'
  BY <1>2, <1>4, <1>5 DEF ServersInductive, ServersTyped, Watchable
<1>8. Connections' /\ FlagsRight'
  BY <1>2, SameFlags DEF ServersInductive, Connections, Range
<1>9. Remembers'
  BY <1>2, <1>5 DEF ServersInductive, Remembers
<1>10. Passing'
  BY <1>2, <1>5, <1>6, Descriptors DEF ServersInductive, Passing
<1>11. EdgesKept'
  BY <1>2, <1>4, <1>6 DEF ServersInductive, EdgesKept, Kept
<1> QED BY <1>7, <1>8, <1>9, <1>10, <1>11 DEF ServersInductive

\* A descriptor is left when nothing of it is left to read and its client is there.
LEMMA RecvNothingKeeps ==
    ASSUME ServersInductive, RecvNothing
    PROVE  ServersInductive'
<1>1. PICK c \in Conns : c = ConnOf(current) /\ fdOf[c] = current /\ current \in Fds
  <2>1. current \in Taken
    BY DEF RecvNothing, ServersInductive, ServersTyped, Watchable
  <2> QED BY <2>1, OwnerOf, Descriptors
<1>2. /\ pc = "serve" /\ current # Server /\ unread[c] = 0 /\ peer[c] = "up"
      /\ pc' = "pass" /\ current' = Server
      /\ UNCHANGED <<kind, index, batch, flagged, queue, unread, peer, fdOf, watched, info, table, leaked,
                     edges, stalled>>
  BY <1>1 DEF RecvNothing, clients, memory
<1>3. Connections' /\ FlagsRight' /\ Taken' = Taken /\ Watchable' = Watchable /\ Entries' = Entries
  BY <1>2, SameConnections, SameFlags DEF Entries, Range
<1>4. ServersTyped'
  BY <1>2, <1>3 DEF ServersInductive, ServersTyped, Watchable
<1>5. Remembers'
  BY <1>2, <1>3 DEF ServersInductive, Remembers
<1>6. Passing'
  <2>1. (kind = "poll" => Server \in Entries) /\ Server \notin leaked
    BY <1>2, Descriptors DEF ServersInductive, Remembers, Watchable
  <2> QED BY <1>2, <1>3, <2>1 DEF ServersInductive, Passing
<1>7. EdgesKept'
  <2>1. CASE kind # "epoll"
    BY <1>2, <2>1 DEF ServersInductive, EdgesKept
  <2>2. CASE kind = "epoll"
    <3>1. queue' # <<>> => Kept(Server)' \/ stalled'
      BY <1>2, <2>2 DEF ServersInductive, EdgesKept, Kept
    <3>2. ASSUME NEW d \in Conns, fdOf'[d] \in Fds, unread'[d] > 0 \/ peer'[d] # "up"
          PROVE  Kept(fdOf[d])'
      <4>1. d # c
        BY <1>2, <3>2
      <4>2. Kept(fdOf[d]) /\ fdOf[d] # current
        BY <1>1, <1>2, <2>2, <3>2, <4>1 DEF ServersInductive, EdgesKept, Connections
      <4> QED BY <1>2, <4>2 DEF Kept
    <3> QED BY <1>2, <2>2, <3>1, <3>2 DEF ServersInductive, EdgesKept
  <2> QED BY <2>1, <2>2
<1> QED BY <1>3, <1>4, <1>5, <1>6, <1>7 DEF ServersInductive

\* The pass takes the next descriptor, or goes on to the next entry.
TakesUp(fd) ==
    /\ kind = "poll"  => fd \in Entries /\ index' = index + 1 /\ UNCHANGED batch
    /\ kind # "poll" => batch # <<>> /\ fd = Head(batch) /\ batch' = Tail(batch) /\ UNCHANGED index

LEMMA NextOfPass ==
    ASSUME ServersInductive, pc # "dead", NEW fd, TakesUp(fd)
    PROVE  /\ batch' \in Seq(Nat) /\ IsInjective(batch') /\ Range(batch') \subseteq Range(batch)
           /\ fd \in Watchable \ leaked /\ fd \notin Range(batch')
           /\ Range(batch) \subseteq Range(batch') \cup {fd}
           /\ index' \in Nat \ {0} /\ (kind = "poll" => batch' = <<>>)
<1>1. CASE kind = "poll"
  <2>1. batch = <<>> /\ Range(batch) = {}
    BY <1>1 DEF ServersInductive, Passing, Range
  <2>2. fd \in Watchable \ leaked
    BY <1>1 DEF TakesUp, ServersInductive, Remembers
  <2> QED BY <1>1, <2>1, <2>2 DEF TakesUp, ServersInductive, ServersTyped
<1>2. CASE kind # "poll"
  <2>1. batch \in Seq(Nat) /\ IsInjective(batch) /\ batch # <<>> /\ Range(batch) \subseteq Watchable
    BY <1>2 DEF TakesUp, ServersInductive, ServersTyped
  <2>2. /\ Head(batch) \in Range(batch)
        /\ Tail(batch) \in Seq(Nat) /\ IsInjective(Tail(batch))
        /\ Range(Tail(batch)) = Range(batch) \ {Head(batch)}
    BY ONLY <2>1, TakeFirst
  <2>3. Range(batch) \cap leaked = {}
    BY DEF ServersInductive, Passing
  <2> QED BY <1>2, <2>1, <2>2, <2>3 DEF TakesUp, ServersInductive, ServersTyped
<1> QED BY <1>1, <1>2

LEMMA BeginKeeps ==
    ASSUME ServersInductive, pc = "pass", NEW fd, TakesUp(fd), Begin(fd),
           UNCHANGED <<kind, flagged, queue, stalled>>
    PROVE  ServersInductive'
<1>1. /\ pc' = "serve" /\ current' = fd
      /\ UNCHANGED <<kind, flagged, queue, stalled, fdOf, peer, unread, watched, info, table, leaked, edges>>
  BY DEF Begin, memory
<1>2. Connections' /\ FlagsRight' /\ Taken' = Taken /\ Watchable' = Watchable /\ Entries' = Entries
  BY <1>1, SameConnections, SameFlags, NextOfPass DEF Entries
<1>3. ServersTyped'
  BY <1>1, <1>2, NextOfPass DEF ServersInductive, ServersTyped
<1>4. Remembers'
  BY <1>1, <1>2 DEF ServersInductive, Remembers
<1>5. Passing'
  BY <1>1, <1>2, NextOfPass DEF ServersInductive, Passing, TakesUp
<1>6. EdgesKept'
  <2>1. \A g : Kept(g) => Kept(g)'
    BY <1>1, NextOfPass DEF Kept
  <2> QED BY <1>1, <2>1 DEF ServersInductive, EdgesKept
<1> QED BY <1>2, <1>3, <1>4, <1>5, <1>6 DEF ServersInductive

\* Where nothing is done for a descriptor, it is not epoll that has reported it.
LEMMA SkipKeeps ==
    ASSUME ServersInductive, pc = "pass", kind # "epoll", NEW fd, TakesUp(fd),
           UNCHANGED <<kind, flagged, queue, stalled, pc, current, fdOf, peer, sent, unread, memory, edges>>
    PROVE  ServersInductive'
<1>1. UNCHANGED <<kind, flagged, queue, stalled, pc, current, fdOf, peer, unread, watched, info, table,
                  leaked, edges>>
  BY DEF memory
<1>2. Connections' /\ FlagsRight' /\ Taken' = Taken /\ Watchable' = Watchable /\ Entries' = Entries
  BY <1>1, SameConnections, SameFlags, NextOfPass DEF Entries
<1>3. ServersTyped'
  BY <1>1, <1>2, NextOfPass DEF ServersInductive, ServersTyped
<1>4. Remembers'
  BY <1>1, <1>2 DEF ServersInductive, Remembers
<1>5. Passing'
  BY <1>1, <1>2, NextOfPass DEF ServersInductive, Passing
<1>6. EdgesKept'
  BY <1>1 DEF ServersInductive, EdgesKept
<1> QED BY <1>2, <1>3, <1>4, <1>5, <1>6 DEF ServersInductive
-----------------------------------------------------------------------------
\* Removing an entry of the poll table takes the last one to its place.
LEMMA EntryRemoved ==
    ASSUME table \in Seq(PollFd), \A i, j \in DOMAIN table : table[i].fd = table[j].fd => i = j,
           NEW fd \in Entries, PollRemove(fd)
    PROVE  /\ table' \in Seq(PollFd)
           /\ \A i, j \in DOMAIN table' : table'[i].fd = table'[j].fd => i = j
           /\ Entries' = Entries \ {fd}
           /\ \A i \in DOMAIN table' : \E j \in DOMAIN table : table'[i] = table[j]
<1>1. PICK n \in Nat : n = Len(table)
  OBVIOUS
<1>2. DOMAIN table = 1 .. n /\ \A i \in 1 .. n : table[i] \in PollFd
  BY <1>1, ElementOf
<1>3. PICK m \in 1 .. n : table[m].fd = fd /\ table' = Front([table EXCEPT ![m] = table[n]])
  <2>1. \E j \in DOMAIN table : table[j].fd = fd
    BY DEF Entries
  <2>2. PICK m \in DOMAIN table : m = CHOOSE j \in DOMAIN table : table[j].fd = fd
    BY <2>1
  <2>3. table[m].fd = fd
    BY <2>1, <2>2
  <2>4. table' = Front([table EXCEPT ![m] = table[n]])
    BY <1>1, <2>2 DEF PollRemove, Last
  <2> QED BY <1>2, <2>3, <2>4
<1>4. DEFINE T == [table EXCEPT ![m] = table[n]]
<1>5. T \in Seq(PollFd) /\ Len(T) = n
  <2>1. T \in [1 .. n -> PollFd]
    BY <1>2
  <2> HIDE DEF T
  <2> QED BY <2>1, IsSequence
<1>6. \A i \in 1 .. n : T[i] = IF i = m THEN table[n] ELSE table[i]
  BY <1>2
<1>7. table' = SubSeq(T, 1, n - 1)
  BY <1>3, <1>5 DEF Front
<1> HIDE DEF T
<1>8. n \in Nat \ {0} /\ n - 1 \in Nat /\ n \in 1 .. n /\ m \in Nat
  BY <1>3
<1>9. /\ table' \in Seq(PollFd) /\ DOMAIN table' = 1 .. n - 1
      /\ \A i \in 1 .. n - 1 : table'[i] = T[i]
  BY <1>5, <1>7, <1>8
<1>10. \A i \in 1 .. n - 1 : i \in 1 .. n /\ i # n /\ table'[i] = IF i = m THEN table[n] ELSE table[i]
  BY <1>6, <1>8, <1>9
<1>11. \A i, j \in DOMAIN table' : table'[i].fd = table'[j].fd => i = j
  BY <1>2, <1>8, <1>9, <1>10
<1>12. ASSUME NEW g \in Entries' PROVE g \in Entries \ {fd}
  <2>1. PICK i \in 1 .. n - 1 : g = table'[i].fd
    BY <1>9 DEF Entries
  <2> QED BY <1>2, <1>3, <1>8, <1>10, <2>1 DEF Entries
<1>13. ASSUME NEW g \in Entries, g # fd PROVE g \in Entries'
  <2>1. PICK i \in 1 .. n : g = table[i].fd
    BY <1>2 DEF Entries
  <2>2. i # m
    BY <1>3, <1>13, <2>1
  <2>3. CASE i = n
    <3>1. m \in 1 .. n - 1
      BY <1>3, <1>8, <2>2, <2>3
    <3> QED BY <1>9, <1>10, <2>1, <2>3, <3>1 DEF Entries
  <2>4. CASE i # n
    <3>1. i \in 1 .. n - 1
      BY <1>8, <2>4
    <3> QED BY <1>9, <1>10, <2>1, <2>2, <3>1 DEF Entries
  <2> QED BY <2>3, <2>4
<1>14. \A i \in DOMAIN table' : \E j \in DOMAIN table : table'[i] = table[j]
  BY <1>2, <1>8, <1>9, <1>10
<1> QED BY <1>9, <1>11, <1>12, <1>13, <1>14

\* What close does, whatever the server remembers descriptors in.
LEMMA CloseDoes ==
    ASSUME ServersInductive, NEW fd \in Taken, kind = "poll" => fd \in Entries, Close(fd)
    PROVE  /\ \E c \in Conns :
                 /\ c = ConnOf(fd) /\ fdOf[c] = fd
                 /\ fdOf' = [fdOf EXCEPT ![c] = -1]
                 /\ peer' = [peer EXCEPT ![c] = "gone"]
                 /\ unread' = [unread EXCEPT ![c] = 0]
           /\ leaked' = leaked /\ edges' = edges \ {fd}
           /\ kind # "poll" => watched' = watched \ {fd} /\ table' = table
           /\ kind = "poll" => /\ watched' = watched /\ table' \in Seq(PollFd)
                               /\ \A i, j \in DOMAIN table' : table'[i].fd = table'[j].fd => i = j
                               /\ Entries' = Entries \ {fd}
                               /\ \A i \in DOMAIN table' : \E j \in DOMAIN table : table'[i] = table[j]
           /\ kind = "select" => info' = info \ {fd}
<1>1. \E c \in Conns :
         /\ c = ConnOf(fd) /\ fdOf[c] = fd
         /\ fdOf' = [fdOf EXCEPT ![c] = -1]
         /\ peer' = [peer EXCEPT ![c] = "gone"]
         /\ unread' = [unread EXCEPT ![c] = 0]
  BY OwnerOf DEF Close
<1>2. kind \in Kinds /\ (kind # "epoll" => edges = {})
  BY DEF ServersInductive, ServersTyped, EdgesKept
<1>3. CASE kind = "poll"
  <2>1. PollRemove(fd)
    BY <1>3 DEF Close
  <2>2. /\ table' \in Seq(PollFd) /\ Entries' = Entries \ {fd}
        /\ \A i, j \in DOMAIN table' : table'[i].fd = table'[j].fd => i = j
        /\ \A i \in DOMAIN table' : \E j \in DOMAIN table : table'[i] = table[j]
    BY <1>3, <2>1, EntryRemoved DEF ServersInductive, ServersTyped, Remembers
  <2> QED BY <1>1, <1>2, <1>3, <2>1, <2>2 DEF PollRemove
<1>4. CASE kind = "epoll"
  <2>1. EpollRemove(fd)
    BY <1>4 DEF Close
  <2> QED BY <1>1, <1>4, <2>1 DEF EpollRemove
<1>5. CASE kind = "select"
  <2>1. SelectRemove(fd)
    BY <1>5 DEF Close
  <2> QED BY <1>1, <1>2, <1>5, <2>1 DEF SelectRemove
<1>6. CASE kind \in {"kqueue", "libev", "echo"}
  <2>1. KqueueRemove(fd) \/ LibevRemove(fd) \/ EchoRemove(fd)
    BY <1>6 DEF Close
  <2> QED BY <1>1, <1>2, <1>6, <2>1 DEF KqueueRemove, LibevRemove, EchoRemove
<1> QED BY <1>2, <1>3, <1>4, <1>5, <1>6 DEF Kinds

\* A descriptor that is closed is nowhere any more.
LEMMA CloseKeeps ==
    ASSUME ServersInductive, NEW fd \in Taken \ leaked, kind = "poll" => fd \in Entries, Close(fd),
           UNCHANGED <<kind, flagged, queue, stalled>>, pc # "dead", pc = "serve" => fd = current,
           pc' = "pass", current' = Server, index' \in Nat \ {0},
           batch' \in Seq(Nat), IsInjective(batch'), kind = "poll" => batch' = <<>>,
           fd \notin Range(batch'), Range(batch') \subseteq Range(batch),
           Range(batch) \subseteq Range(batch') \cup {fd}
    PROVE  ServersInductive'
<1>1. PICK c \in Conns :
         /\ fdOf[c] = fd /\ fdOf' = [fdOf EXCEPT ![c] = -1]
         /\ peer' = [peer EXCEPT ![c] = "gone"] /\ unread' = [unread EXCEPT ![c] = 0]
  BY CloseDoes
<1>2. /\ leaked' = leaked /\ edges' = edges \ {fd}
      /\ kind # "poll" => watched' = watched \ {fd} /\ table' = table
      /\ kind = "poll" => /\ watched' = watched /\ table' \in Seq(PollFd)
                          /\ \A i, j \in DOMAIN table' : table'[i].fd = table'[j].fd => i = j
                          /\ Entries' = Entries \ {fd}
                          /\ \A i \in DOMAIN table' : \E j \in DOMAIN table : table'[i] = table[j]
      /\ kind = "select" => info' = info \ {fd}
  BY CloseDoes
<1>3. /\ fdOf \in [Conns -> Fds \cup {0, -1}] /\ unread \in [Conns -> Nat]
      /\ peer \in [Conns -> {"none", "up", "shut", "reset", "gone"}]
  BY DEF ServersInductive, ServersTyped
<1>4. \A d \in Conns : /\ fdOf'[d] = IF d = c THEN -1 ELSE fdOf[d]
                       /\ unread'[d] = IF d = c THEN 0 ELSE unread[d]
                       /\ peer'[d] = IF d = c THEN "gone" ELSE peer[d]
  BY <1>1, <1>3
<1>5. /\ fdOf' \in [Conns -> Fds \cup {0, -1}] /\ unread' \in [Conns -> Nat]
      /\ peer' \in [Conns -> {"none", "up", "shut", "reset", "gone"}]
  BY <1>1, <1>3
<1>6. \A x, y \in Conns : fdOf[x] = fdOf[y] /\ fdOf[x] \in Fds => x = y
  BY DEF ServersInductive, Connections
<1>7. fd \in Fds /\ -1 \notin Fds /\ fd # Server /\ fd # 0 /\ Server \notin Fds
  BY IoServersAssumption, Descriptors DEF Fds, Server
<1>8. Taken' = Taken \ {fd}
  <2>1. \A d \in Conns : fdOf'[d] \in Fds <=> d # c /\ fdOf[d] \in Fds
    BY <1>4, <1>7
  <2>2. \A d \in Conns : d # c /\ fdOf[d] \in Fds => fdOf[d] # fd
    BY <1>1, <1>6, <1>7
  <2> QED BY <1>1, <1>4, <2>1, <2>2 DEF Taken
<1>9. Watchable' = Watchable \ {fd} /\ Server \in Watchable'
  BY <1>7, <1>8 DEF Watchable
<1>10. ServersTyped'
  <2>1. Range(batch') \subseteq Watchable'
    BY <1>9 DEF ServersInductive, ServersTyped
  <2>2. table' \in Seq(PollFd)
    BY <1>2 DEF ServersInductive, ServersTyped
  <2> QED BY <1>5, <1>9, <2>1, <2>2 DEF ServersInductive, ServersTyped
<1>11. Connections'
  <2>1. \A x, y \in Conns : fdOf'[x] = fdOf'[y] /\ fdOf'[x] \in Fds => x = y
    BY <1>4, <1>6, <1>7
  <2>2. \A x \in Conns : (peer'[x] = "none" => fdOf'[x] = 0) /\ (peer'[x] = "gone" => fdOf'[x] = -1)
    BY <1>4 DEF ServersInductive, Connections
  <2>3. \A i \in DOMAIN queue : fdOf'[queue[i]] = 0 /\ peer'[queue[i]] # "none"
    <3>1. \A i \in DOMAIN queue : queue[i] \in Conns
      BY ElementOf DEF ServersInductive, ServersTyped
    <3>2. \A i \in DOMAIN queue : fdOf[queue[i]] = 0 /\ peer[queue[i]] # "none"
      BY DEF ServersInductive, Connections
    <3> QED BY <1>1, <1>4, <1>7, <3>1, <3>2
  <2> QED BY <2>1, <2>2, <2>3 DEF Connections
<1>12. Remembers'
  <2>1. /\ leaked \subseteq Taken /\ (kind \notin {"select", "poll"} => leaked = {})
        /\ kind # "poll" => table = <<>> /\ watched = Watchable \ leaked
        /\ kind = "select" => info = watched /\ \A x \in leaked : x >= FdSetSize
        /\ kind = "poll" => watched = {} /\ Entries \cup leaked = Watchable /\ Entries \cap leaked = {}
    BY DEF ServersInductive, Remembers
  <2>2. kind = "poll" => Entries' \cup leaked' = Watchable' /\ Entries' \cap leaked' = {}
    BY <1>2, <1>9, <2>1
  <2>3. leaked' \subseteq Taken' /\ (kind # "poll" => watched' = Watchable' \ leaked')
    BY <1>2, <1>8, <1>9, <2>1
  <2> QED BY <1>2, <2>1, <2>2, <2>3 DEF Remembers
<1>13. Passing'
  <2>1. (kind = "poll" => Server \in Entries') /\ Server \notin leaked'
    BY <1>2, <1>7, Descriptors DEF ServersInductive, Remembers, Watchable
  <2> QED BY <1>2, <2>1 DEF ServersInductive, Passing
<1>15. FlagsRight'
  <2>1. ASSUME NEW x, Reported(x)' PROVE Reported(x)
    <3>1. CASE x \in Range(batch')
      BY <3>1 DEF Reported
    <3>2. CASE x \notin Range(batch')
      BY <1>2, <2>1, <3>2 DEF Reported
    <3> QED BY <3>1, <3>2
  <2>2. \A d \in Conns : fdOf'[d] \in Fds => fdOf[d] = fdOf'[d] /\ peer'[d] = peer[d]
    BY <1>4, <1>7
  <2>3. Server \notin flagged
    BY DEF ServersInductive, FlagsRight
  <2> SUFFICES ASSUME NEW d \in Conns, fdOf'[d] \in Fds \cap flagged, Reported(fdOf[d])'
               PROVE  peer'[d] = "reset" \/ (kind = "kqueue" /\ peer'[d] = "shut")
    BY <2>3 DEF FlagsRight, Reported
  <2>4. Reported(fdOf[d])
    BY <2>1, <2>2 DEF Reported
  <2> QED BY <2>2, <2>4 DEF ServersInductive, FlagsRight
<1>14. EdgesKept'
  <2>1. edges' \subseteq watched' /\ (kind # "epoll" => edges' = {})
    BY <1>2 DEF ServersInductive, EdgesKept
  <2>2. \A g : g # fd /\ Kept(g) => Kept(g)'
    BY <1>2 DEF Kept
  <2>3. CASE kind # "epoll"
    BY <2>1, <2>3 DEF EdgesKept
  <2>4. CASE kind = "epoll"
    <3>1. queue' # <<>> => Kept(Server)' \/ stalled'
      BY <1>7, <2>2, <2>4 DEF ServersInductive, EdgesKept
    <3>2. ASSUME NEW d \in Conns, fdOf'[d] \in Fds, unread'[d] > 0 \/ peer'[d] # "up"
          PROVE  Kept(fdOf[d])'
      <4>1. d # c
        BY <1>4, <1>7, <3>2
      <4>2. fdOf[d] # fd /\ fdOf'[d] = fdOf[d] /\ Kept(fdOf[d])
        BY <1>1, <1>4, <1>6, <2>4, <3>2, <4>1 DEF ServersInductive, EdgesKept
      <4>3. PICK g : g = fdOf[d]
        OBVIOUS
      <4>4. Kept(g)'
        BY <2>2, <4>2, <4>3
      <4>5. fdOf'[d] = g
        BY <4>2, <4>3
      <4> QED BY <4>1, <4>4, <4>5 DEF Kept
    <3> QED BY <2>1, <2>4, <3>1, <3>2 DEF EdgesKept
  <2> QED BY <2>3, <2>4
<1> QED BY <1>10, <1>11, <1>12, <1>13, <1>14, <1>15 DEF ServersInductive
-----------------------------------------------------------------------------
LEMMA PassKeeps ==
    ASSUME ServersInductive, Pass
    PROVE  ServersInductive'
<1>1. pc = "pass" /\ current = Server /\ UNCHANGED <<kind, flagged, queue, stalled>>
  BY DEF Pass, ServersInductive, Passing
<1>2. ASSUME NEW fd, TakesUp(fd), GiveUp(fd), fd # Server PROVE ServersInductive'
  <2>1. Close(fd) /\ pc' = "pass" /\ current' = Server
    BY <1>1, <1>2 DEF GiveUp
  <2>2. fd \in Taken \ leaked /\ (kind = "poll" => fd \in Entries)
    BY <1>1, <1>2, NextOfPass DEF Watchable, TakesUp
  <2> QED BY <1>1, <1>2, <2>1, <2>2, NextOfPass, CloseKeeps
<1>3. Server \notin flagged
  BY DEF ServersInductive, FlagsRight
<1>4. CASE SelectPass
  <2>1. TakesUp(Head(batch)) /\ kind = "select"
    BY <1>4 DEF SelectPass, TakesUp
  <2>2. CASE Head(batch) \in info
    BY <1>1, <1>4, <2>1, <2>2, BeginKeeps DEF SelectPass
  <2>3. CASE Head(batch) \notin info
    BY <1>1, <1>4, <2>1, <2>3, SkipKeeps DEF SelectPass
  <2> QED BY <2>2, <2>3
<1>5. CASE PollPass
  <2>1. kind = "poll" /\ index <= Len(table) /\ index' = index + 1 /\ UNCHANGED batch
    BY <1>5 DEF PollPass
  <2>2. index \in DOMAIN table
    BY <2>1 DEF ServersInductive, ServersTyped
  <2>3. TakesUp(table[index].fd)
    BY <2>1, <2>2 DEF TakesUp, Entries
  <2>4. CASE ~table[index].revents
    BY <1>1, <1>5, <2>1, <2>3, <2>4, SkipKeeps DEF PollPass
  <2>5. CASE table[index].revents /\ table[index].fd \in flagged
    BY <1>2, <1>3, <1>5, <2>3, <2>5 DEF PollPass
  <2>6. CASE table[index].revents /\ table[index].fd \notin flagged
    BY <1>1, <1>5, <2>3, <2>6, BeginKeeps DEF PollPass
  <2> QED BY <2>4, <2>5, <2>6
<1>6. CASE EpollPass
  <2>1. TakesUp(Head(batch))
    BY <1>6 DEF EpollPass, TakesUp
  <2> QED BY <1>1, <1>2, <1>3, <1>6, <2>1, BeginKeeps DEF EpollPass
<1>7. CASE KqueuePass
  <2>1. TakesUp(Head(batch))
    BY <1>7 DEF KqueuePass, TakesUp
  <2> QED BY <1>1, <1>2, <1>3, <1>7, <2>1, BeginKeeps DEF KqueuePass
<1>8. CASE LibevPass
  <2>1. TakesUp(Head(batch))
    BY <1>8 DEF LibevPass, OnLibev, TakesUp
  <2> QED BY <1>1, <1>8, <2>1, BeginKeeps DEF LibevPass
<1> QED BY <1>4, <1>5, <1>6, <1>7, <1>8 DEF Pass

LEMMA RecvEndsKeeps ==
    ASSUME ServersInductive, RecvEnds
    PROVE  ServersInductive'
<1>1. /\ pc = "serve" /\ current # Server /\ Close(current) /\ pc' = "pass" /\ current' = Server
      /\ UNCHANGED <<kind, index, batch, flagged, queue, stalled>>
  BY DEF RecvEnds
<1>2. current \in Taken \ leaked /\ current \notin Range(batch) /\ (kind = "poll" => current \in Entries /\ batch = <<>>)
  BY <1>1 DEF ServersInductive, ServersTyped, Passing, Watchable
<1>3. index \in Nat \ {0} /\ batch \in Seq(Nat) /\ IsInjective(batch)
  BY DEF ServersInductive, ServersTyped
<1>4. UNCHANGED Range(batch) /\ IsInjective(batch')
  BY <1>1, <1>3
<1> QED BY <1>1, <1>2, <1>3, <1>4, CloseKeeps

\* What a server does for a descriptor it has accepted.
LEMMA AcceptDoes ==
    ASSUME ServersInductive, Accept
    PROVE  \E c \in Conns, fd \in Fds \ Taken :
              /\ c = Head(queue) /\ fdOf' = [fdOf EXCEPT ![c] = fd]
              /\ kind \notin {"select", "poll"} => watched' = watched \cup {fd} /\ UNCHANGED <<table, leaked>>
              /\ kind = "select" =>
                    /\ UNCHANGED table
                    /\ \/ watched' = watched \cup {fd} /\ info' = info \cup {fd} /\ UNCHANGED leaked
                       \/ fd >= FdSetSize /\ leaked' = leaked \cup {fd} /\ UNCHANGED <<watched, info>>
              /\ kind # "epoll" => UNCHANGED edges
              /\ kind = "epoll" => edges' = IF unread[c] > 0 \/ peer[c] # "up" THEN edges \cup {fd} ELSE edges
              /\ kind = "poll" => /\ watched' = watched
                                  /\ \/ leaked' = leaked \cup {fd} /\ UNCHANGED table
                                     \/ table' = Append(table, [fd |-> fd, revents |-> FALSE]) /\ UNCHANGED leaked
<1>1. PICK fd \in Fds \ Taken : fd = Min(Fds \ Taken)
  BY LowestFree DEF Accept, Accepts
<1>2. PICK c \in Conns : c = Head(queue)
  BY DEF Accept, Accepts, ServersInductive, ServersTyped
<1>3. fdOf' = [fdOf EXCEPT ![c] = fd] /\ kind \in Kinds
  BY <1>1, <1>2 DEF Accept, ServersInductive, ServersTyped
<1>4. CASE kind = "poll"
  <2>1. PollAdd(fd)
    BY <1>1, <1>4 DEF Accept
  <2> QED BY <1>2, <1>3, <1>4, <2>1 DEF PollAdd
<1>5. CASE kind = "epoll"
  <2>1. EpollAdd(fd, c)
    BY <1>1, <1>2, <1>5 DEF Accept
  <2> QED BY <1>2, <1>3, <1>5, <2>1 DEF EpollAdd
<1>6. CASE kind = "select"
  <2>1. SelectAdd(fd)
    BY <1>1, <1>6 DEF Accept
  <2>2. fd \in Nat
    BY Descriptors
  <2>3. fd >= FdSetSize \/ fd < FdSetSize
    BY <2>2, IoServersAssumption
  <2> QED BY <1>2, <1>3, <1>6, <2>1, <2>3 DEF SelectAdd
<1>7. CASE kind \in {"kqueue", "libev", "echo"}
  <2>1. KqueueAdd(fd) \/ LibevAdd(fd) \/ EchoAdd(fd)
    BY <1>1, <1>7 DEF Accept
  <2> QED BY <1>2, <1>3, <1>7, <2>1 DEF KqueueAdd, LibevAdd, EchoAdd
<1> QED BY <1>3, <1>4, <1>5, <1>6, <1>7 DEF Kinds

\* A descriptor that is accepted is remembered, or has leaked.
LEMMA AcceptKeeps ==
    ASSUME ServersInductive, Accept
    PROVE  ServersInductive'
<1>1. PICK c \in Conns, fd \in Fds \ Taken :
         /\ c = Head(queue) /\ fdOf' = [fdOf EXCEPT ![c] = fd]
         /\ kind \notin {"select", "poll"} => watched' = watched \cup {fd} /\ UNCHANGED <<table, leaked>>
         /\ kind = "select" =>
               /\ UNCHANGED table
               /\ \/ watched' = watched \cup {fd} /\ info' = info \cup {fd} /\ UNCHANGED leaked
                  \/ fd >= FdSetSize /\ leaked' = leaked \cup {fd} /\ UNCHANGED <<watched, info>>
         /\ kind # "epoll" => UNCHANGED edges
         /\ kind = "epoll" => edges' = IF unread[c] > 0 \/ peer[c] # "up" THEN edges \cup {fd} ELSE edges
         /\ kind = "poll" => /\ watched' = watched
                             /\ \/ leaked' = leaked \cup {fd} /\ UNCHANGED table
                                \/ table' = Append(table, [fd |-> fd, revents |-> FALSE]) /\ UNCHANGED leaked
  BY AcceptDoes
<1>2. /\ pc = "serve" /\ current = Server /\ queue # <<>> /\ queue' = Tail(queue)
      /\ pc' = IF OnLibev THEN "pass" ELSE pc
      /\ UNCHANGED <<kind, current, index, batch, flagged, unread, peer, stalled>>
  BY DEF Accept, Accepts
<1>3. /\ fdOf \in [Conns -> Fds \cup {0, -1}] /\ unread \in [Conns -> Nat]
      /\ peer \in [Conns -> {"none", "up", "shut", "reset", "gone"}]
      /\ queue \in Seq(Conns) /\ IsInjective(queue)
  BY DEF ServersInductive, ServersTyped
<1>4. /\ c \in Range(queue)
      /\ Tail(queue) \in Seq(Conns) /\ IsInjective(Tail(queue))
      /\ Range(Tail(queue)) = Range(queue) \ {c}
  BY ONLY <1>1, <1>2, <1>3, TakeFirst
<1>5. \A d \in Range(queue) : d \in Conns /\ fdOf[d] = 0 /\ peer[d] \notin {"none", "gone"}
  BY <1>3, ElementOf DEF ServersInductive, Connections, Range
<1>6. \A d \in Conns : fdOf'[d] = IF d = c THEN fd ELSE fdOf[d]
  BY <1>1, <1>3
<1>7. fd # Server /\ fd # 0 /\ Server \notin Fds /\ 0 \notin Fds /\ Taken \subseteq Fds
  BY Descriptors DEF Server
<1>8. Taken' = Taken \cup {fd}
  <2>1. fdOf[c] \notin Fds
    BY <1>4, <1>5, <1>7
  <2> QED BY <1>1, <1>6, <2>1 DEF Taken
<1>9. Watchable' = Watchable \cup {fd} /\ fd \notin Watchable
  BY <1>1, <1>7, <1>8 DEF Watchable
<1>10. kind = "poll" =>
          /\ table' \in Seq(PollFd) /\ \A i, j \in DOMAIN table' : table'[i].fd = table'[j].fd => i = j
          /\ \/ leaked' = leaked \cup {fd} /\ Entries' = Entries
             \/ leaked' = leaked /\ Entries' = Entries \cup {fd}
  <2> SUFFICES ASSUME kind = "poll"
               PROVE  /\ table' \in Seq(PollFd)
                      /\ \A i, j \in DOMAIN table' : table'[i].fd = table'[j].fd => i = j
                      /\ \/ leaked' = leaked \cup {fd} /\ Entries' = Entries
                         \/ leaked' = leaked /\ Entries' = Entries \cup {fd}
    OBVIOUS
  <2>1. /\ table \in Seq(PollFd) /\ \A i, j \in DOMAIN table : table[i].fd = table[j].fd => i = j
        /\ Entries \subseteq Watchable
    BY <1>2 DEF ServersInductive, ServersTyped, Remembers
  <2>2. CASE leaked' = leaked \cup {fd} /\ UNCHANGED table
    BY <2>1, <2>2 DEF Entries
  <2>3. CASE table' = Append(table, [fd |-> fd, revents |-> FALSE]) /\ UNCHANGED leaked
    <3>1. PICK e \in PollFd : e = [fd |-> fd, revents |-> FALSE] /\ e.fd = fd
      <4>1. fd \in Nat
        BY Descriptors
      <4>2. [fd |-> fd, revents |-> FALSE] \in PollFd /\ [fd |-> fd, revents |-> FALSE].fd = fd
        BY ONLY <4>1 DEF PollFd
      <4> QED BY ONLY <4>2
    <3>2. /\ table' \in Seq(PollFd) /\ DOMAIN table' = 1 .. Len(table) + 1
          /\ \A i \in DOMAIN table : i \in 1 .. Len(table) /\ table'[i] = table[i]
          /\ table'[Len(table) + 1] = e
          /\ \A i \in 1 .. Len(table) + 1 : i \in DOMAIN table \/ i = Len(table) + 1
      BY <2>1, <2>3, <3>1, AddLast
    <3>3. \A i \in DOMAIN table : table[i].fd # fd
      BY <1>9, <2>1 DEF Entries
    <3>4. \A i, j \in DOMAIN table' : table'[i].fd = table'[j].fd => i = j
      BY <2>1, <3>1, <3>2, <3>3
    <3>5. Entries' = Entries \cup {fd}
      <4>1. Len(table) + 1 \in 1 .. Len(table) + 1 /\ \A i \in DOMAIN table : i \in 1 .. Len(table) + 1
        BY <2>1, <3>2
      <4> QED BY <3>1, <3>2, <4>1 DEF Entries
    <3> QED BY <2>3, <3>2, <3>4, <3>5
  <2> QED BY <1>1, <2>2, <2>3
<1>11. ServersTyped'
  <2>1. fdOf' \in [Conns -> Fds \cup {0, -1}]
    BY <1>1, <1>3
  <2>2. table' \in Seq(PollFd)
    BY <1>1, <1>10 DEF ServersInductive, ServersTyped
  <2> QED BY <1>2, <1>3, <1>4, <1>9, <2>1, <2>2 DEF ServersInductive, ServersTyped
<1>12. Connections'
  <2>1. \A x, y \in Conns : fdOf'[x] = fdOf'[y] /\ fdOf'[x] \in Fds => x = y
    <3>1. \A x \in Conns : fdOf[x] # fd
      BY <1>1 DEF Taken
    <3>2. \A x, y \in Conns : fdOf[x] = fdOf[y] /\ fdOf[x] \in Fds => x = y
      BY DEF ServersInductive, Connections
    <3> QED BY <1>6, <3>1, <3>2
  <2>2. \A x \in Conns : (peer'[x] = "none" => fdOf'[x] = 0) /\ (peer'[x] = "gone" => fdOf'[x] = -1)
    <3>1. peer[c] \notin {"none", "gone"}
      BY <1>4, <1>5
    <3> QED BY <1>2, <1>6, <3>1 DEF ServersInductive, Connections
  <2>3. ASSUME NEW i \in DOMAIN queue' PROVE fdOf'[queue'[i]] = 0 /\ peer'[queue'[i]] # "none"
    <3>1. queue'[i] \in Range(queue) /\ queue'[i] # c
      BY <1>2, <1>4 DEF Range
    <3> QED BY <1>2, <1>5, <1>6, <3>1
  <2> QED BY <2>1, <2>2, <2>3 DEF Connections
<1>13. Remembers'
  <2>1. pc' # "dead" /\ pc # "dead"
    BY <1>2
  <2>2. /\ leaked \subseteq Taken /\ (kind \notin {"select", "poll"} => leaked = {})
        /\ kind # "poll" => table = <<>> /\ watched = Watchable \ leaked
        /\ kind = "select" => info = watched /\ \A x \in leaked : x >= FdSetSize
        /\ kind = "poll" => watched = {} /\ Entries \cup leaked = Watchable /\ Entries \cap leaked = {}
    BY <2>1 DEF ServersInductive, Remembers
  <2>3. kind = "poll" => Entries' \cup leaked' = Watchable' /\ Entries' \cap leaked' = {}
    BY <1>9, <1>10, <2>2
  <2>4. leaked' \subseteq leaked \cup {fd} /\ leaked' \subseteq Taken'
    BY <1>1, <1>8, <1>10, <2>2
  <2>5. kind # "poll" => table' = <<>> /\ watched' = Watchable' \ leaked'
    <3>1. fd \notin leaked
      BY <1>9, <2>2 DEF Watchable
    <3>2. CASE kind = "select"
      <4>1. CASE watched' = watched \cup {fd} /\ UNCHANGED leaked
        BY <1>1, <1>9, <2>2, <3>1, <3>2, <4>1
      <4>2. CASE leaked' = leaked \cup {fd} /\ UNCHANGED watched
        BY <1>1, <1>9, <2>2, <3>2, <4>2
      <4> QED BY <1>1, <3>2, <4>1, <4>2
    <3>3. CASE kind # "select"
      BY <1>1, <1>9, <2>2, <3>1, <3>3
    <3> QED BY <3>2, <3>3
  <2>6. /\ kind \notin {"select", "poll"} => leaked' = {}
        /\ kind = "select" => info' = watched' /\ \A x \in leaked' : x >= FdSetSize
        /\ kind = "poll" => watched' = {}
    BY <1>1, <2>2
  <2> QED BY <1>2, <1>10, <2>1, <2>3, <2>4, <2>5, <2>6 DEF Remembers
<1>14. Passing'
  <2>1. kind = "poll" => Server \in Entries'
    BY <1>2, <1>10, Descriptors DEF ServersInductive, Remembers, Watchable
  <2>2. Server \notin leaked' /\ Range(batch) \cap leaked' = {}
    <3>1. leaked' \subseteq leaked \cup {fd}
      BY <1>1, <1>10
    <3>2. fd \notin Range(batch) /\ Range(batch) \cap leaked = {}
      BY <1>9 DEF ServersInductive, ServersTyped, Passing
    <3> QED BY <1>7, <3>1, <3>2, Descriptors
  <2> QED BY <1>2, <2>1, <2>2 DEF ServersInductive, Passing, OnLibev
<1>16. FlagsRight'
  <2>1. ASSUME NEW x, Reported(x)' PROVE Reported(x) /\ x # fd
    <3>1. fd \notin Range(batch)
      BY <1>9 DEF ServersInductive, ServersTyped
    <3>2. CASE kind # "poll"
      <4>1. table = <<>> /\ table' = <<>>
        BY <1>13, <1>2, <3>2 DEF ServersInductive, Remembers
      <4> QED BY <1>2, <2>1, <3>1, <4>1 DEF Reported
    <3>3. CASE kind = "poll"
      <4>1. table \in Seq(PollFd) /\ \A i \in DOMAIN table : table[i].fd # fd
        BY <1>2, <1>9, <3>3 DEF ServersInductive, ServersTyped, Remembers, Entries
      <4>2. ASSUME NEW i \in DOMAIN table', table'[i].fd = x, table'[i].revents
            PROVE  i \in DOMAIN table /\ table'[i] = table[i]
        <5>1. CASE UNCHANGED table
          BY <5>1
        <5>2. CASE table' = Append(table, [fd |-> fd, revents |-> FALSE])
          <6>1. /\ DOMAIN table' = 1 .. Len(table) + 1 /\ DOMAIN table = 1 .. Len(table)
                /\ \A k \in DOMAIN table : table'[k] = table[k]
                /\ table'[Len(table) + 1] = [fd |-> fd, revents |-> FALSE]
            BY <4>1, <5>2
          <6>2. i # Len(table) + 1
            BY <4>2, <6>1
          <6>3. Len(table) \in Nat
            BY <4>1
          <6> QED BY <6>1, <6>2, <6>3
        <5> QED BY <1>1, <3>3, <5>1, <5>2
      <4> QED BY <1>2, <2>1, <3>1, <4>1, <4>2 DEF Reported
    <3> QED BY <3>2, <3>3
  <2>2. Server \notin flagged
    BY DEF ServersInductive, FlagsRight
  <2> SUFFICES ASSUME NEW d \in Conns, fdOf'[d] \in Fds \cap flagged, Reported(fdOf[d])'
               PROVE  peer[d] = "reset" \/ (kind = "kqueue" /\ peer[d] = "shut")
    BY <1>2, <2>2 DEF FlagsRight, Reported
  <2>3. Reported(fdOf'[d]) /\ fdOf'[d] # fd
    BY <2>1 DEF Reported
  <2>4. fdOf'[d] = fdOf[d]
    BY <1>6, <2>3
  <2> QED BY <2>3, <2>4 DEF ServersInductive, FlagsRight
<1>15. EdgesKept'
  <2>1. CASE kind # "epoll"
    <3>1. edges' = {}
      BY <1>1, <2>1 DEF ServersInductive, EdgesKept
    <3> QED BY <1>2, <2>1, <3>1 DEF EdgesKept
  <2>2. CASE kind = "epoll"
    <3>1. pc' = "serve" /\ current' = Server /\ edges \subseteq edges'
      BY <1>1, <1>2, <2>2 DEF OnLibev
    <3>2. edges' \subseteq watched'
      BY <1>1, <2>2 DEF ServersInductive, EdgesKept
    <3>3. ASSUME NEW d \in Conns, fdOf'[d] \in Fds, unread'[d] > 0 \/ peer'[d] # "up"
          PROVE  Kept(fdOf[d])'
      <4>1. CASE d = c
        BY <1>1, <1>2, <1>6, <2>2, <3>3, <4>1 DEF Kept
      <4>2. CASE d # c
        <5>1. Kept(fdOf[d]) /\ fdOf'[d] = fdOf[d]
          BY <1>2, <1>6, <2>2, <3>3, <4>2 DEF ServersInductive, EdgesKept
        <5> QED BY <1>2, <3>1, <5>1 DEF Kept
      <4> QED BY <4>1, <4>2
    <3>4. Kept(Server)'
      BY <3>1 DEF Kept
    <3> QED BY <1>2, <2>2, <3>2, <3>3, <3>4 DEF EdgesKept
  <2> QED BY <2>1, <2>2
<1> QED BY <1>11, <1>12, <1>13, <1>14, <1>15, <1>16 DEF ServersInductive
-----------------------------------------------------------------------------
LEMMA DiesKeeps ==
    ASSUME ServersInductive, Dies
    PROVE  ServersInductive'
<1>1. /\ pc' = "dead" /\ watched' = {} /\ info' = {} /\ table' = <<>> /\ edges' = {} /\ leaked' = {}
      /\ batch' = <<>> /\ flagged' = {} /\ index' = 1 /\ queue' = <<>> /\ current' = Server
      /\ fdOf' = [c \in Conns |-> IF peer[c] = "none" THEN 0 ELSE -1]
      /\ unread' = [c \in Conns |-> 0]
      /\ peer' = [c \in Conns |-> IF peer[c] = "none" THEN "none" ELSE "gone"]
      /\ stalled' = FALSE /\ UNCHANGED kind
  BY DEF Dies
<1>2. Taken' = {} /\ Watchable' = {Server}
  BY <1>1, IoServersAssumption DEF Taken, Watchable, Fds
<1>3. ServersTyped'
  <2>1. IsInjective(queue') /\ IsInjective(batch') /\ Range(batch') = {}
    BY <1>1 DEF IsInjective, Range
  <2>2. /\ fdOf' \in [Conns -> Fds \cup {0, -1}] /\ unread' \in [Conns -> Nat]
        /\ peer' \in [Conns -> {"none", "up", "shut", "reset", "gone"}]
    BY <1>1
  <2>3. batch' \in Seq(Nat) /\ queue' \in Seq(Conns) /\ table' \in Seq(PollFd)
    BY <1>1
  <2>4. stalled' \in BOOLEAN /\ kind' \in Kinds
    BY <1>1 DEF ServersInductive, ServersTyped
  <2> QED BY <1>1, <1>2, <2>1, <2>2, <2>3, <2>4 DEF ServersTyped
<1>4. Connections'
  BY <1>1, IoServersAssumption DEF Connections, Fds
<1>5. Remembers'
  BY <1>1, <1>2 DEF Remembers
<1>6. Passing' /\ FlagsRight'
  BY <1>1 DEF Passing, FlagsRight, Range
<1>7. EdgesKept'
  BY <1>1, IoServersAssumption DEF EdgesKept, Fds
<1> QED BY <1>3, <1>4, <1>5, <1>6, <1>7 DEF ServersInductive

LEMMA ServersNext ==
    ASSUME ServersInductive, [Next]_vars
    PROVE  ServersInductive'
<1>1. CASE UNCHANGED vars
  <2>1. UNCHANGED <<kind, pc, current, index, batch, flagged, queue, unread, peer, fdOf, watched, info,
                    table, leaked, edges, stalled>>
    BY <1>1 DEF vars, progress, clients, memory
  <2>2. Connections' /\ FlagsRight' /\ Taken' = Taken /\ Watchable' = Watchable /\ Entries' = Entries
    BY <2>1, SameConnections, SameFlags DEF Entries, Range
  <2>3. ServersTyped'
    BY <2>1, <2>2 DEF ServersInductive, ServersTyped
  <2>4. Remembers' /\ Passing'
    BY <2>1, <2>2 DEF ServersInductive, Remembers, Passing
  <2>5. EdgesKept'
    BY <2>1 DEF ServersInductive, EdgesKept, Kept
  <2> QED BY <2>2, <2>3, <2>4, <2>5 DEF ServersInductive
<1>2. CASE Serve
  BY <1>2, WaitKeeps, PassKeeps, PassDoneKeeps, AcceptKeeps, AcceptFailsKeeps, RecvKeeps,
     RecvNothingKeeps, RecvEndsKeeps DEF Serve
<1>3. CASE EchoStdin \/ Overrun \/ Sigpipe
  BY <1>3, DiesKeeps DEF EchoStdin, Overrun, Sigpipe
<1>4. ASSUME NEW c \in Conns, Connect(c) \/ Send(c) \/ \E how \in {"shut", "reset"} : Leave(c, how)
      PROVE  ServersInductive'
  BY <1>4, ConnectKeeps, ClientKeeps
<1> QED BY <1>1, <1>2, <1>3, <1>4 DEF Next

LEMMA EntriesCount ==
    ASSUME table \in Seq(PollFd), \A i, j \in DOMAIN table : table[i].fd = table[j].fd => i = j
    PROVE  Cardinality(Entries) = Len(table)
<1>1. PICK n \in Nat : n = Len(table) /\ DOMAIN table = 1 .. n
  OBVIOUS
<1> DEFINE f == [i \in 1 .. n |-> table[i].fd]
<1>2. f \in Bijection(1 .. n, Entries)
  BY <1>1 DEF Bijection, Injection, Surjection, IsInjective, Entries
<1>3. ExistsBijection(1 .. n, Entries)
  BY <1>2 DEF ExistsBijection
<1> QED BY <1>1, <1>3, FS_CountingElements

LEMMA ServersSafe ==
    ASSUME ServersInductive
    PROVE  ServersInv
<1>1. TypeOK
  <2>1. watched \subseteq Taken \cup {Server} /\ edges \subseteq watched /\ (kind = "select" => info = watched)
    BY Descriptors DEF ServersInductive, Remembers, EdgesKept, Watchable
  <2>2. Entries \subseteq Taken \cup {Server} /\ leaked \subseteq Taken
    BY DEF ServersInductive, Remembers, Watchable, Entries
  <2>3. Cardinality(Entries) = Len(table)
    <3>1. table \in Seq(PollFd) /\ \A i, j \in DOMAIN table : table[i].fd = table[j].fd => i = j
      BY DEF ServersInductive, ServersTyped, Remembers
    <3> QED BY <3>1, EntriesCount
  <2> QED BY <2>1, <2>2, <2>3 DEF TypeOK
<1>2. NothingForgotten
  <2> SUFFICES ASSUME pc = "wait", NEW fd \in Watchable, Ready(fd)
               PROVE  \/ fd \in WaitsFor /\ (kind = "epoll" => fd \in edges)
                      \/ kind = "select" /\ fd >= FdSetSize
                      \/ kind = "poll" /\ fd \in leaked
                      \/ fd = Server /\ stalled
    BY DEF NothingForgotten, Watchable
  <2>1. CASE kind = "poll"
    BY <2>1 DEF ServersInductive, Remembers, WaitsFor
  <2>2. CASE kind # "poll"
    <3>1. fd \in WaitsFor \/ (kind = "select" /\ fd >= FdSetSize)
      BY <2>2 DEF ServersInductive, Remembers, WaitsFor
    <3>2. Range(batch) = {}
      BY DEF ServersInductive, Passing, Range
    <3>3. CASE kind # "epoll"
      BY <3>1, <3>3
    <3>4. CASE kind = "epoll"
      <4>1. Kept(fd) \/ (fd = Server /\ stalled)
        BY <3>4, ReadyIs DEF ServersInductive, EdgesKept
      <4> QED BY <3>1, <3>2, <4>1 DEF Kept
    <3> QED BY <3>3, <3>4
  <2> QED BY <2>1, <2>2
<1> QED BY <1>1, <1>2 DEF ServersInv

\* Of what a step of a server does to a connection, why it is closed.
LEMMA ClosesForCause ==
    ASSUME ServersInductive, [Next]_vars, NEW c \in Conns, fdOf[c] \in Fds, fdOf'[c] = -1
    PROVE  \/ pc' = "dead" /\ Doomed
           \/ peer[c] # "up" /\ (unread[c] = 0 \/ peer[c] = "reset" \/ kind = "kqueue")
<1>1. fdOf \in [Conns -> Fds \cup {0, -1}] /\ -1 \notin Fds
  BY IoServersAssumption DEF ServersInductive, ServersTyped, Fds
<1>2. fdOf' # fdOf
  BY <1>1
<1>3. \A fd : fd \in Taken /\ Close(fd) => ConnOf(fd) = c /\ fd = fdOf[c]
  <2> SUFFICES ASSUME NEW fd \in Taken, Close(fd) PROVE ConnOf(fd) = c /\ fd = fdOf[c]
    OBVIOUS
  <2>1. ConnOf(fd) \in Conns /\ fdOf[ConnOf(fd)] = fd /\ fdOf' = [fdOf EXCEPT ![ConnOf(fd)] = -1]
    BY OwnerOf DEF Close
  <2> QED BY <1>1, <2>1
<1>4. CASE Accept
  <2>1. PICK d \in Conns, fd \in Fds \ Taken : fdOf' = [fdOf EXCEPT ![d] = fd]
    BY <1>4, AcceptDoes
  <2> QED BY <1>1, <2>1
<1>5. CASE RecvEnds
  <2>1. current \in Taken
    BY <1>5 DEF RecvEnds, ServersInductive, ServersTyped, Watchable
  <2>2. Close(current) /\ unread[ConnOf(current)] = 0 /\ peer[ConnOf(current)] # "up"
    BY <1>5 DEF RecvEnds
  <2> QED BY <1>3, <2>1, <2>2
<1>6. CASE Pass
  <2>1. ASSUME NEW fd, TakesUp(fd), Reported(fd), GiveUp(fd), fd \in flagged
        PROVE  peer[c] # "up" /\ (peer[c] = "reset" \/ kind = "kqueue")
    <3>1. fd # Server /\ pc # "dead"
      BY <1>6, <2>1 DEF ServersInductive, FlagsRight, Pass
    <3>2. fd \in Taken
      BY <2>1, <3>1, NextOfPass DEF Watchable
    <3>3. fd = fdOf[c]
      BY <1>3, <2>1, <3>2 DEF GiveUp
    <3> QED BY <2>1, <3>3 DEF ServersInductive, FlagsRight
  <2>2. CASE SelectPass
    BY <1>2, <2>2 DEF SelectPass, Begin
  <2>3. CASE PollPass
    <3>1. kind = "poll" /\ index <= Len(table) /\ index' = index + 1 /\ UNCHANGED batch
      BY <2>3 DEF PollPass
    <3>2. index \in DOMAIN table
      BY <3>1 DEF ServersInductive, ServersTyped
    <3>3. TakesUp(table[index].fd)
      BY <3>1, <3>2 DEF TakesUp, Entries
    <3>4. /\ table[index].fd \in flagged /\ GiveUp(table[index].fd)
          /\ Reported(table[index].fd)
      BY <1>2, <2>3, <3>2 DEF PollPass, Begin, Reported
    <3> QED BY <2>1, <3>3, <3>4
  <2>4. CASE EpollPass
    <3>1. TakesUp(Head(batch)) /\ Head(batch) \in flagged /\ GiveUp(Head(batch))
      BY <1>2, <2>4 DEF EpollPass, Begin, TakesUp
    <3>2. Reported(Head(batch))
      BY <2>4, TakeFirst DEF EpollPass, Reported, ServersInductive, ServersTyped
    <3> QED BY <2>1, <3>1, <3>2
  <2>5. CASE KqueuePass
    <3>1. TakesUp(Head(batch)) /\ Head(batch) \in flagged /\ GiveUp(Head(batch))
      BY <1>2, <2>5 DEF KqueuePass, Begin, TakesUp
    <3>2. Reported(Head(batch))
      BY <2>5, TakeFirst DEF KqueuePass, Reported, ServersInductive, ServersTyped
    <3> QED BY <2>1, <3>1, <3>2
  <2>6. CASE LibevPass
    BY <1>2, <2>6 DEF LibevPass, Begin
  <2> QED BY <1>6, <2>2, <2>3, <2>4, <2>5, <2>6 DEF Pass
<1>7. CASE EchoStdin
  BY <1>7 DEF EchoStdin, Dies, Doomed
<1>11. CASE Overrun
  <2>1. Taken # Fds /\ Min(Fds \ Taken) >= FdSetSize /\ kind = "select" /\ pc' = "dead"
    BY <1>11 DEF Overrun, Accepts, Dies
  <2>2. ASSUME NEW fd \in Fds, fd < FdSetSize PROVE fd \in Taken
    <3>1. fd \in Int /\ Min(Fds \ Taken) \in Int /\ FdSetSize \in Int
      BY <2>1, LowestFree, Descriptors, IoServersAssumption
    <3>2. fd \notin Taken => Min(Fds \ Taken) <= fd
      BY <2>1, LowestFree
    <3> QED BY <2>1, <2>2, <3>1, <3>2
  <2> QED BY <2>1, <2>2 DEF Doomed
<1>12. CASE Sigpipe
  <2>1. \E d \in Conns : peer[d] = "reset"
    <3>1. CASE Accepts /\ peer[Head(queue)] = "reset"
      <4>1. Head(queue) \in Conns
        BY <3>1 DEF Accepts, ServersInductive, ServersTyped
      <4> QED BY <3>1, <4>1
    <3>2. CASE Reset(current)
      <4>1. ConnOf(current) \in Conns
        BY <3>2, OwnerOf DEF Reset, ServersInductive, ServersTyped, Watchable
      <4> QED BY <3>2, <4>1 DEF Reset
    <3> QED BY <1>12, <3>1, <3>2 DEF Sigpipe
  <2> QED BY <1>12, <2>1 DEF Sigpipe, Dies, Doomed
<1>8. CASE Wait \/ PassDone \/ AcceptFails \/ Recv \/ RecvNothing
  BY <1>2, <1>8 DEF Wait, PassDone, AcceptFails, Recv, RecvNothing
<1>9. CASE \E d \in Conns : Connect(d) \/ Send(d) \/ \E how \in {"shut", "reset"} : Leave(d, how)
  BY <1>2, <1>9 DEF Connect, Send, Leave
<1>10. CASE UNCHANGED vars
  BY <1>2, <1>10 DEF vars
<1> QED BY <1>4, <1>5, <1>6, <1>7, <1>8, <1>9, <1>10, <1>11, <1>12 DEF Next, Serve

\* Of the steps of the whole, the servers' own and those of the other programs.
LEMMA ServersStep == [Servers \/ Messengers \/ Memory]_mcVars => [Next]_vars
BY DEF Servers, Messengers, Memory, mcVars

LEMMA ServersAlways == MCSpec => []ServersInductive
<1>1. MCInit => ServersInductive
  BY ServersInit DEF MCInit
<1>2. ServersInductive /\ [Servers \/ Messengers \/ Memory]_mcVars => ServersInductive'
  BY ServersStep, ServersNext
<1> QED BY <1>1, <1>2, PTL DEF MCSpec

\* For every number of connections, descriptors and messages, every size of the poll
\* table and every limit of select's descriptors: before an echo server sleeps, whatever
\* is ready will wake it (but for descriptors beyond select's limit, those the full poll
\* table has no entry for, and connections epoll's server has left in the queue), and no
\* entry of what it waits for outlives its descriptor.
THEOREM ServersInvHolds == MCSpec => []ServersInv
BY ServersAlways, ServersSafe, PTL

\* A connection is closed only when its client has left, with everything it has sent read
\* but for a reset or, with kqueue, a FIN; or when the server dies of a known cause.
THEOREM ClosedForCauseHolds == MCSpec => ClosedForCause
<1>1. ServersInductive /\ [Servers \/ Messengers \/ Memory]_mcVars
         => [\A c \in Conns : fdOf[c] \in Fds /\ fdOf'[c] = -1 =>
                \/ pc' = "dead" /\ Doomed
                \/ /\ peer[c] # "up"
                   /\ unread[c] = 0 \/ peer[c] = "reset" \/ kind = "kqueue"]_vars
  BY ServersStep, ClosesForCause
<1> QED BY <1>1, ServersAlways, PTL DEF MCSpec, ClosedForCause
-----------------------------------------------------------------------------
(* The shared memory. Whoever has the token, which is one of the two       *)
(* semaphores or a process between its wait and its post, knows how far    *)
(* the printing is; when a process is killed the token may be lost, and    *)
(* nothing more is printed. The semaphores an earlier run has left say     *)
(* nothing, and are gone before the run's own are made.                    *)

Writing == parent \in {"write", "post"}

Started == {"main", "create", "wait", "write", "post", "reap", "exit"}

MemoryTyped ==
    /\ names \subseteq {"prod", "cons", "shm"} /\ prod \in Nat /\ cons \in Nat
    /\ item \in 1 .. Messages + 1
    /\ parent \in {"gone"} \cup Shm!Starting \cup Started
    /\ child \in {"gone", "none", "open", "wait", "print", "check", "exit"}
    /\ parent \in {"main", "create", "wait", "write", "post"} => item <= Messages
    /\ printed \in Seq(Int)

\* While the parent starts there is no child, and what it has unlinked is gone.
Starts ==
    /\ parent \in Shm!Starting \cup {"main"} => child = "none" /\ item = 1 /\ printed = <<>>
    /\ parent \in {"unlinkCons", "unlinkShm", "openProd"} => prod = 0 /\ "prod" \notin names
    /\ parent \in {"unlinkShm", "openProd", "setProd", "openCons"} => cons = 0 /\ "cons" \notin names
    /\ parent \in {"setProd", "openCons", "setCons", "main", "create"} => prod = 1

\* How much is printed and what is in the memory, by who has the token.
Progress ==
    /\ Writing \/ (prod = 1 /\ parent \notin {"gone", "unlinkProd"}) => Len(printed) = item - 1
    /\ parent = "post" => data = item
    /\ child # "none" /\ (cons = 1 \/ child = "print") => data = item - 1 /\ Len(printed) = item - 2
    /\ child = "check" => Len(printed) = item - 1

MemoryInductive ==
    /\ MemoryTyped /\ Starts /\ Progress
    /\ Shm!HandedOver /\ Shm!PrintedInOrder /\ Shm!NothingLeftBehind

LEMMA MemoryInit == Shm!Init => MemoryInductive
BY MessagesAssumption DEF Shm!Init, MemoryInductive, MemoryTyped, Starts, Progress, Writing, Started,
   Shm!Starting, Shm!HandedOver, Shm!PrintedInOrder, Shm!NothingLeftBehind

LEMMA MemoryNext == MemoryInductive /\ [Shm!Next]_shmVars => MemoryInductive'
<1> USE MessagesAssumption DEF MemoryInductive, MemoryTyped, Starts, Progress, Writing, Started, Shm!Starting,
        Shm!HandedOver, Shm!PrintedInOrder, Shm!NothingLeftBehind, Shm!Alive, Shm!ChildAlive,
        Shm!shared, Shm!semaphores, Shm!history, Shm!Cleanup, Shm!Opened
<1>1. MemoryInductive /\ Shm!Launch => MemoryInductive'
  BY DEF Shm!Launch
<1>2. MemoryInductive /\ Shm!Fork => MemoryInductive'
  BY DEF Shm!Fork
<1>3. MemoryInductive /\ Shm!Create => MemoryInductive'
  BY DEF Shm!Create
<1>4. MemoryInductive /\ Shm!WaitProd => MemoryInductive'
  BY DEF Shm!WaitProd
<1>5. MemoryInductive /\ Shm!Write => MemoryInductive'
  BY DEF Shm!Write
<1>6. MemoryInductive /\ Shm!PostCons => MemoryInductive'
  BY DEF Shm!PostCons
<1>7. MemoryInductive /\ Shm!Reap => MemoryInductive'
  BY DEF Shm!Reap
<1>8. MemoryInductive /\ Shm!Open => MemoryInductive'
  BY DEF Shm!Open
<1>9. MemoryInductive /\ Shm!WaitCons => MemoryInductive'
  BY DEF Shm!WaitCons
<1>10. MemoryInductive /\ Shm!PrintData => MemoryInductive'
  <2> SUFFICES ASSUME MemoryInductive, Shm!PrintData
               PROVE  MemoryInductive'
    OBVIOUS
  <2>1. /\ child = "print" /\ child' = "check" /\ printed' = Append(printed, data)
        /\ UNCHANGED <<parent, names, prod, cons, data, done, item, broken, killed, early, launches>>
    BY DEF Shm!PrintData
  <2>2. data = Len(printed) + 1 /\ Len(printed) = item - 2 /\ data \in Int
    BY <2>1
  <2>3. /\ printed' \in Seq(Int) /\ Len(printed') = item - 1
        /\ printed' = [i \in DOMAIN printed' |-> i]
    BY <2>1, <2>2
  <2> QED BY <2>1, <2>2, <2>3
<1>11. MemoryInductive /\ Shm!CheckDone => MemoryInductive'
  BY DEF Shm!CheckDone
<1>12. MemoryInductive /\ Shm!Signal => MemoryInductive'
  BY DEF Shm!Signal, Shm!Ends
<1>13. MemoryInductive /\ Shm!Kill => MemoryInductive'
  BY DEF Shm!Kill, Shm!Ends
<1>14. MemoryInductive /\ UNCHANGED shmVars => MemoryInductive'
  BY DEF shmVars
<1>15. MemoryInductive /\ Shm!UnlinkProd => MemoryInductive'
  BY DEF Shm!UnlinkProd
<1>16. MemoryInductive /\ Shm!UnlinkCons => MemoryInductive'
  BY DEF Shm!UnlinkCons
<1>17. MemoryInductive /\ Shm!UnlinkShm => MemoryInductive'
  BY DEF Shm!UnlinkShm
<1>18. MemoryInductive /\ Shm!OpenProd => MemoryInductive'
  BY DEF Shm!OpenProd
<1>19. MemoryInductive /\ Shm!SetProd => MemoryInductive'
  BY DEF Shm!SetProd
<1>20. MemoryInductive /\ Shm!OpenCons => MemoryInductive'
  BY DEF Shm!OpenCons
<1>21. MemoryInductive /\ Shm!SetCons => MemoryInductive'
  BY DEF Shm!SetCons
<1>22. MemoryInductive /\ Shm!ParentExit => MemoryInductive'
  BY DEF Shm!ParentExit
<1>23. MemoryInductive /\ Shm!ChildExit => MemoryInductive'
  BY DEF Shm!ChildExit
<1> QED BY ONLY <1>1, <1>2, <1>3, <1>4, <1>5, <1>6, <1>7, <1>8, <1>9, <1>10, <1>11, <1>12, <1>13, <1>14,
                <1>15, <1>16, <1>17, <1>18, <1>19, <1>20, <1>21, <1>22, <1>23
           DEF Shm!Next, Shm!Start, Shm!Producer, Shm!Consumer

\* Of the steps of the whole, the memory's own and those of the other programs.
LEMMA MemoryStep == [Servers \/ Messengers \/ Memory]_mcVars => [Shm!Next]_shmVars
BY DEF Servers, Messengers, Memory, mcVars

\* For every number of messages and of starts, the two processes take turns at the
\* memory, the child prints every message once and in order, over whatever a killed
\* run has left, and no name stays unless a process was killed or the run was signalled
\* before both its semaphores were assigned, and then only theirs.
THEOREM MemoryInvHolds == MCSpec => []MemoryInv
<1>1. MCInit => MemoryInductive
  BY MemoryInit DEF MCInit
<1>2. MemoryInductive /\ [Servers \/ Messengers \/ Memory]_mcVars => MemoryInductive'
  BY MemoryStep, MemoryNext
<1>3. MemoryInductive => MemoryInv
  BY DEF MemoryInductive, MemoryTyped, MemoryInv, Shm!MemoryInv, Shm!TypeOK, Shm!HandedOver
<1> QED BY <1>1, <1>2, <1>3, PTL DEF MCSpec
=============================================================================
