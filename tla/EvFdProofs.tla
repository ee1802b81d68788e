---------------------------- MODULE EvFdProofs ----------------------------
(***************************************************************************)
(* File descriptors and epoll, for any number of watchers and descriptors  *)
(* and whatever the program opens, closes and copies, as long as it does   *)
(* not give a descriptor back a file that epoll still watches under its    *)
(* number: when the loop polls no watcher is deaf, no watcher is fed an    *)
(* event of another file, and no stray event comes back unanswered.        *)
(*                                                                         *)
(* And poll, select and event ports, for any watchers and descriptors and  *)
(* whatever is closed, opened, forked and short of memory: when the loop   *)
(* sleeps they have been told what the watchers ask for.                   *)
(***************************************************************************)
EXTENDS EvFd, OtherBackends, FiniteSetTheorems, TLAPS
-----------------------------------------------------------------------------
(* The inductive invariant.                                                *)

Types ==
    /\ open \in [Fds -> Files \cup {closed}]
    /\ held \subseteq Files
    /\ interest \subseteq [fd : Fds, file : Files \ Regular, events : SUBSET Evs, egen : Nat]
    /\ active \subseteq Watchers /\ fdset \subseteq Watchers
    /\ pending \in [Watchers -> SUBSET (Evs \cup {"ERROR"})]
    /\ events \in [Fds -> SUBSET Evs]
    /\ reify \in [Fds -> SUBSET {"REIFY", "IOFDSET"}]
    /\ emask \in [Fds -> SUBSET (Evs \cup {"EPERM"})]
    /\ egen \in [Fds -> Nat]
    /\ fdchanges \in Seq(Fds) /\ eperms \in [Fds -> Nat]
    /\ postfork \subseteq {1, 2}
    /\ pc \in {"program", "reify", "poll", "events"}
    /\ i \in 0 .. Len(fdchanges)
    /\ reports \subseteq [fd : Fds, file : Files \ Regular, egen : Nat, got : (SUBSET Evs) \ {{}}]
    /\ strayed \in BOOLEAN
    /\ calls \in 0 .. MaxCalls

\* What is under way in which phase.
Phases ==
    /\ pc # "reify" => i = 0
    /\ pc \in {"poll", "events"} => fdchanges = <<>>
    /\ pc # "events" => reports = {}

\* fd_reify will come to every descriptor whose events are not those wanted.
ToDo(fd) == \E k \in 1 .. Len(fdchanges) : i < k /\ fdchanges[k] = fd
Noted(fd) == ToDo(fd) \/ (events[fd] = WantOf(fd) /\ reify[fd] = {})

\* The kernel, or epoll_poll, gives the events that events[fd] says it does,
\* unless the program has closed the descriptor, and then ev_io_set has been
\* called on what watches it, or will have been when it is started.
Watched(fd) == \E e \in Mine(fd) : events[fd] \subseteq e.events /\ e.egen = egen[fd]
Ready(fd)   == Refused(fd) /\ eperms[fd] > 0
Lost(fd)    == On(fd) = {} /\ (pc = "reify" \/ \A w \in Watchers : Fd[w] = fd => w \in fdset)
Known(fd)   == events[fd] = {} \/ Watched(fd) \/ Ready(fd) \/ "IOFDSET" \in reify[fd] \/ Lost(fd)

\* What emask says of the file the descriptor names is right, and so is egen.
Believed(fd) == \A e \in Mine(fd) : emask[fd] \subseteq e.events /\ e.egen = egen[fd]
Listed(fd)   == "EPERM" \in emask[fd] => eperms[fd] > 0

\* Numbers are used once for a descriptor. A descriptor epoll does not take
\* has a number of its own.
Numbered ==
    /\ \A e \in interest : e.egen <= egen[e.fd] /\ ("EPERM" \in emask[e.fd] => e.egen < egen[e.fd])
    /\ \A r \in reports : r.egen <= egen[r.fd] /\ ("EPERM" \in emask[r.fd] => r.egen < egen[r.fd])
    /\ \A e, f \in interest : e.fd = f.fd /\ e.egen = f.egen => e = f

\* An event with the number of its descriptor is one of the file it names, if
\* that file is watched.
Current == \A r \in reports : r.egen = egen[r.fd] /\ Mine(r.fd) # {} => r.file = open[r.fd]

\* As long as no interest outlived its descriptor.
Orderly ==
    \/ strayed
    \/ /\ \A e \in interest : e.file = open[e.fd]
       /\ \A r \in reports : r.file = open[r.fd] /\ r.egen = egen[r.fd] /\ Mine(r.fd) # {}
       /\ \A r, s \in reports : r.fd = s.fd => r = s
       /\ 2 \notin postfork

Inv ==
    /\ Types /\ Phases
    /\ \A fd \in Fds : Noted(fd) /\ Known(fd) /\ Believed(fd) /\ Listed(fd)
    /\ Numbered /\ Current /\ Orderly
-----------------------------------------------------------------------------
(* fdchanges.                                                              *)

\* SetToSeq lists every element of a finite set.
LEMMA SetToSeqRight ==
    ASSUME NEW S, IsFiniteSet(S)
    PROVE  SetToSeq(S) \in Seq(S) /\ \A x \in S : \E k \in 1 .. Len(SetToSeq(S)) : SetToSeq(S)[k] = x
<1>1. PICK n \in Nat : n = Cardinality(S) /\ ExistsBijection(1 .. n, S)
  BY FS_CardinalityType
<1>2. \E f \in [1 .. n -> S] : IsInjective(f)
  BY <1>1 DEF ExistsBijection, Bijection, Injection
<1>3. PICK s : s = SetToSeq(S)
  OBVIOUS
<1>4. s \in [1 .. n -> S] /\ IsInjective(s)
  <2>1. s = CHOOSE f \in [1 .. n -> S] : IsInjective(f)
    BY <1>1, <1>3 DEF SetToSeq
  <2> QED BY <1>2, <2>1
<1>5. s \in Injection(1 .. n, S)
  BY <1>4 DEF Injection
<1>6. Cardinality(1 .. n) = n
  <2>1. 1 \in Int /\ n \in Int
    OBVIOUS
  <2>2. Cardinality(1 .. n) = IF 1 > n THEN 0 ELSE n - 1 + 1
    BY <2>1, FS_Interval
  <2> QED BY <2>2
<1>7. s \in Surjection(1 .. n, S)
  BY <1>1, <1>5, <1>6, FS_Injection
<1>8. \A x \in S : \E k \in 1 .. n : s[k] = x
  BY <1>7 DEF Surjection
<1>9. s \in Seq(S) /\ Len(s) = n
  BY <1>4
<1> QED BY <1>3, <1>8, <1>9

\* What concatenation keeps.
LEMMA ConcatRight ==
    ASSUME NEW S, NEW s \in Seq(S), NEW t \in Seq(S)
    PROVE  /\ s \o t \in Seq(S) /\ Len(s) \in Nat /\ Len(t) \in Nat /\ Len(s \o t) = Len(s) + Len(t)
           /\ \A k \in 1 .. Len(s) : (s \o t)[k] = s[k]
           /\ \A k \in 1 .. Len(t) : (s \o t)[Len(s) + k] = t[k]
OBVIOUS

LEMMA Constants ==
    /\ IsFiniteSet(Fds) /\ Fd \in [Watchers -> Fds] /\ Wants \in [Watchers -> (SUBSET Evs) \ {{}}]
    /\ Regular \subseteq Files /\ closed \notin Files /\ MaxCalls \in Nat
    /\ "EPERM" \notin Evs /\ Evs # {}
BY FdAssumption DEF Evs

LEMMA WantRight == Types => \A fd : WantOf(fd) \subseteq Evs
<1> SUFFICES ASSUME Types, NEW fd PROVE WantOf(fd) \subseteq Evs
  OBVIOUS
<1>1. \A w \in On(fd) : Wants[w] \subseteq Evs
  BY Constants DEF On, Types
<1> QED BY <1>1 DEF WantOf

\* fd_change puts the descriptors behind those that are there.
LEMMA FdChangeRight ==
    ASSUME Types, i' = i, NEW fds \in SUBSET Fds,
           NEW flags \in [fds -> (SUBSET {"REIFY", "IOFDSET"}) \ {{}}],
           FdChange(fds, flags),
           \A fd \in Fds : reify[fd] # {} => ToDo(fd)
    PROVE  /\ fdchanges' \in Seq(Fds) /\ i' \in 0 .. Len(fdchanges')
           /\ reify' \in [Fds -> SUBSET {"REIFY", "IOFDSET"}]
           /\ \A fd \in Fds : reify'[fd] = IF fd \in fds THEN reify[fd] \cup flags[fd] ELSE reify[fd]
           /\ \A fd \in Fds : ToDo(fd) => ToDo(fd)'
           /\ \A fd \in fds : ToDo(fd)'
<1>1. PICK s : s = fdchanges
  OBVIOUS
<1>2. PICK new : new = {fd \in fds : reify[fd] = {}}
  OBVIOUS
<1>3. PICK t : t = SetToSeq(new)
  OBVIOUS
<1>4. new \subseteq Fds /\ IsFiniteSet(new)
  <2>1. new \in SUBSET Fds
    BY <1>2
  <2> QED BY <2>1, Constants, FS_Subset
<1>5. t \in Seq(Fds) /\ \A x \in new : \E k \in 1 .. Len(t) : t[k] = x
  <2>1. t \in Seq(new) /\ \A x \in new : \E k \in 1 .. Len(t) : t[k] = x
    BY <1>3, <1>4, SetToSeqRight
  <2> QED BY <1>4, <2>1
<1>6. s \in Seq(Fds) /\ i \in 0 .. Len(s)
  BY <1>1 DEF Types
<1>7. PICK u : u = fdchanges' /\ u = s \o t
  BY <1>1, <1>2, <1>3 DEF FdChange
<1>8. /\ u \in Seq(Fds) /\ Len(s) \in Nat /\ Len(t) \in Nat /\ Len(u) = Len(s) + Len(t)
      /\ \A k \in 1 .. Len(s) : u[k] = s[k]
      /\ \A k \in 1 .. Len(t) : u[Len(s) + k] = t[k]
  BY <1>5, <1>6, <1>7, ConcatRight
<1>9. i' \in 0 .. Len(fdchanges')
  BY <1>6, <1>7, <1>8
<1>10. reify' = [fd \in Fds |-> IF fd \in fds THEN reify[fd] \cup flags[fd] ELSE reify[fd]]
  BY DEF FdChange
<1>11. reify' \in [Fds -> SUBSET {"REIFY", "IOFDSET"}]
  BY <1>10 DEF Types
<1>12. ASSUME NEW fd \in Fds, ToDo(fd) PROVE ToDo(fd)'
  <2>1. PICK k \in 1 .. Len(s) : i < k /\ s[k] = fd
    BY <1>1, <1>12 DEF ToDo
  <2>2. k \in 1 .. Len(u) /\ u[k] = fd
    BY <1>8, <2>1
  <2> QED BY <1>7, <2>1, <2>2 DEF ToDo
<1>13. ASSUME NEW fd \in fds PROVE ToDo(fd)'
  <2>1. CASE reify[fd] # {}
    BY <1>12, <2>1
  <2>2. CASE reify[fd] = {}
    <3>1. PICK k \in 1 .. Len(t) : t[k] = fd
      BY <1>2, <1>5, <2>2
    <3>2. Len(s) + k \in 1 .. Len(u) /\ u[Len(s) + k] = fd /\ i < Len(s) + k
      BY <1>6, <1>8, <3>1
    <3> QED BY <1>7, <3>2 DEF ToDo
  <2> QED BY <2>1, <2>2
<1> QED BY <1>7, <1>8, <1>9, <1>10, <1>11, <1>12, <1>13
-----------------------------------------------------------------------------
(* The steps that leave the kernel's part alone.                           *)

LEMMA KernelPartStays ==
    ASSUME Inv, UNCHANGED <<open, interest, emask, egen, eperms, reports, strayed>>,
           2 \in postfork' => 2 \in postfork
    PROVE  /\ \A fd \in Fds : Believed(fd)' /\ Listed(fd)' /\ Mine(fd)' = Mine(fd)
           /\ Numbered' /\ Current' /\ Orderly'
<1>1. \A fd : Mine(fd)' = Mine(fd)
  BY DEF Mine
<1>2. \A fd \in Fds : Believed(fd)' /\ Listed(fd)'
  BY <1>1 DEF Inv, Believed, Listed
<1>3. Numbered'
  BY DEF Inv, Numbered
<1>4. Current'
  BY <1>1 DEF Inv, Current
<1>5. Orderly'
  BY <1>1 DEF Inv, Orderly
<1> QED BY <1>1, <1>2, <1>3, <1>4, <1>5

\* What is known of a descriptor, if the watchers of it are the same.
LEMMA KnownStays ==
    ASSUME NEW fd \in Fds, Known(fd), Mine(fd)' = Mine(fd),
           UNCHANGED <<events, emask, egen, eperms>>,
           "IOFDSET" \in reify[fd] => "IOFDSET" \in reify'[fd], Lost(fd) => Known(fd)'
    PROVE  Known(fd)'
<1>1. Watched(fd) => Watched(fd)'
  BY DEF Watched
<1>2. Ready(fd) => Ready(fd)'
  BY DEF Ready, Refused
<1> QED BY <1>1, <1>2 DEF Known

LEMMA CallbackKeeps == ASSUME Inv, NEW w \in Watchers, Callback(w) PROVE Inv'
<1>1. /\ UNCHANGED <<open, held, interest, active, fdset, events, reify, emask, egen>>
      /\ UNCHANGED <<fdchanges, eperms, postfork, pc, i, reports, strayed, calls>>
      /\ pending' = [pending EXCEPT ![w] = {}]
  BY DEF Callback, kernelVars, anfdVars, loopVars
<1>2. Types'
  BY <1>1 DEF Inv, Types
<1>3. Phases'
  BY <1>1 DEF Inv, Phases
<1>4. /\ \A fd \in Fds : Believed(fd)' /\ Listed(fd)' /\ Mine(fd)' = Mine(fd)
      /\ Numbered' /\ Current' /\ Orderly'
  BY <1>1, KernelPartStays
<1>5. ASSUME NEW fd \in Fds PROVE Noted(fd)' /\ Known(fd)'
  <2>1. On(fd)' = On(fd) /\ (Lost(fd) => Lost(fd)')
    BY <1>1 DEF On, Lost
  <2>2. Noted(fd)'
    BY <1>1, <2>1 DEF Inv, Noted, ToDo, WantOf
  <2>3. Known(fd)'
    BY <1>1, <1>4, <2>1, KnownStays DEF Inv, Known
  <2> QED BY <2>2, <2>3
<1> QED BY <1>2, <1>3, <1>4, <1>5 DEF Inv

LEMMA StartKeeps == ASSUME Inv, NEW w \in Watchers, Start(w) PROVE Inv'
<1>1. /\ UNCHANGED <<open, held, interest, events, emask, egen, postfork, strayed, eperms, pc, i, reports, pending>>
      /\ pc = "program" /\ calls < MaxCalls /\ calls' = calls + 1
      /\ w \notin active /\ active' = active \cup {w} /\ fdset' = fdset \ {w}
      /\ FdChange({Fd[w]}, [fd \in {Fd[w]} |-> {"REIFY"} \cup (IF w \in fdset THEN {"IOFDSET"} ELSE {})])
  BY DEF Start, Call, IoStart, LoopStays, kernelVars
<1>2. PICK f \in Fds : f = Fd[w]
  BY Constants
<1>3. PICK flags : flags = [fd \in {f} |-> {"REIFY"} \cup (IF w \in fdset THEN {"IOFDSET"} ELSE {})]
  OBVIOUS
<1>4. /\ flags \in [{f} -> (SUBSET {"REIFY", "IOFDSET"}) \ {{}}] /\ {f} \in SUBSET Fds
      /\ (w \in fdset => "IOFDSET" \in flags[f])
  BY <1>3
<1>5. \A fd \in Fds : reify[fd] # {} => ToDo(fd)
  BY DEF Inv, Noted
<1>6. /\ fdchanges' \in Seq(Fds) /\ i' \in 0 .. Len(fdchanges')
      /\ reify' \in [Fds -> SUBSET {"REIFY", "IOFDSET"}]
      /\ \A fd \in Fds : reify'[fd] = IF fd \in {f} THEN reify[fd] \cup flags[fd] ELSE reify[fd]
      /\ \A fd \in Fds : ToDo(fd) => ToDo(fd)'
      /\ \A fd \in {f} : ToDo(fd)'
  <2>1. Types /\ i' = i /\ FdChange({f}, flags)
    BY <1>1, <1>2, <1>3 DEF Inv
  <2> QED BY <1>4, <1>5, <2>1, FdChangeRight
<1>7. Types'
  <2>1. calls' \in 0 .. MaxCalls
    BY <1>1, Constants DEF Inv, Types
  <2> QED BY <1>1, <1>6, <2>1 DEF Inv, Types
<1>8. Phases'
  BY <1>1 DEF Inv, Phases
<1>9. /\ \A fd \in Fds : Believed(fd)' /\ Listed(fd)' /\ Mine(fd)' = Mine(fd)
      /\ Numbered' /\ Current' /\ Orderly'
  BY <1>1, KernelPartStays
<1>10. ASSUME NEW fd \in Fds PROVE Noted(fd)' /\ Known(fd)'
  <2>1. "IOFDSET" \in reify[fd] => "IOFDSET" \in reify'[fd]
    BY <1>6
  <2>2. CASE fd = f
    <3>1. Lost(fd) => "IOFDSET" \in reify'[fd]
      BY <1>1, <1>2, <1>4, <1>6, <2>2 DEF Lost
    <3> QED BY <1>1, <1>6, <1>9, <2>1, <2>2, <3>1, KnownStays DEF Inv, Noted, Known
  <2>3. CASE fd # f
    <3>1. On(fd)' = On(fd) /\ (Lost(fd) => Lost(fd)')
      BY <1>1, <1>2, <2>3 DEF On, Lost
    <3>2. Noted(fd)'
      BY <1>1, <1>6, <2>3, <3>1 DEF Inv, Noted, WantOf
    <3> QED BY <1>1, <1>9, <2>1, <3>1, <3>2, KnownStays DEF Inv, Known
  <2> QED BY <2>2, <2>3
<1> QED BY <1>7, <1>8, <1>9, <1>10 DEF Inv

LEMMA StopKeeps == ASSUME Inv, NEW w \in Watchers, Stop(w) PROVE Inv'
<1>1. /\ UNCHANGED <<open, held, interest, events, emask, egen, postfork, strayed, eperms, pc, i, reports, fdset>>
      /\ pc = "program" /\ calls < MaxCalls /\ calls' = calls + 1
      /\ active' = active \ {w} /\ pending' = [pending EXCEPT ![w] = {}]
      /\ IF w \in active THEN FdChange({Fd[w]}, [fd \in {Fd[w]} |-> {"REIFY"}]) ELSE UNCHANGED <<reify, fdchanges>>
  BY DEF Stop, Call, IoStop, LoopStays, kernelVars
<1>2. PICK f \in Fds : f = Fd[w]
  BY Constants
<1>3. PICK flags : flags = [fd \in {f} |-> {"REIFY"}]
  OBVIOUS
<1>4. flags \in [{f} -> (SUBSET {"REIFY", "IOFDSET"}) \ {{}}] /\ {f} \in SUBSET Fds
  BY <1>3
<1>5. \A fd \in Fds : reify[fd] # {} => ToDo(fd)
  BY DEF Inv, Noted
<1>6. /\ fdchanges' \in Seq(Fds) /\ i' \in 0 .. Len(fdchanges')
      /\ reify' \in [Fds -> SUBSET {"REIFY", "IOFDSET"}]
      /\ \A fd \in Fds : reify[fd] \subseteq reify'[fd]
      /\ \A fd \in Fds : fd # f => reify'[fd] = reify[fd]
      /\ \A fd \in Fds : ToDo(fd) => ToDo(fd)'
      /\ w \in active => ToDo(f)'
  <2>1. CASE w \in active
    <3>1. Types /\ i' = i /\ FdChange({f}, flags)
      BY <1>1, <1>2, <1>3, <2>1 DEF Inv
    <3> QED BY ZenonT(30), <1>4, <1>5, <3>1, FdChangeRight
  <2>2. CASE w \notin active
    BY <1>1, <2>2 DEF Inv, Types, ToDo
  <2> QED BY <2>1, <2>2
<1>7. Types'
  <2>1. calls' \in 0 .. MaxCalls
    BY <1>1, Constants DEF Inv, Types
  <2> QED BY <1>1, <1>6, <2>1 DEF Inv, Types
<1>8. Phases'
  BY <1>1 DEF Inv, Phases
<1>9. /\ \A fd \in Fds : Believed(fd)' /\ Listed(fd)' /\ Mine(fd)' = Mine(fd)
      /\ Numbered' /\ Current' /\ Orderly'
  BY <1>1, KernelPartStays
<1>10. ASSUME NEW fd \in Fds PROVE Noted(fd)' /\ Known(fd)'
  <2>1. Lost(fd) => Lost(fd)'
    BY <1>1 DEF Lost, On
  <2>2. Known(fd)'
    BY <1>1, <1>6, <1>9, <2>1, KnownStays DEF Inv, Known
  <2>3. CASE fd = f /\ w \in active
    BY <1>6, <2>2, <2>3 DEF Noted
  <2>4. CASE ~(fd = f /\ w \in active)
    <3>1. On(fd)' = On(fd) /\ reify'[fd] = reify[fd]
      BY <1>1, <1>2, <1>6, <2>4 DEF On
    <3> QED BY <1>1, <1>6, <2>2, <3>1 DEF Inv, Noted, WantOf
  <2> QED BY <2>3, <2>4
<1> QED BY <1>7, <1>8, <1>9, <1>10 DEF Inv

\* ev_io_set, a copy of a file, ev_loop_fork.
LEMMA SetHoldForkKeeps ==
    ASSUME Inv, (\E w \in Watchers : Set(w)) \/ (\E file \in Files : Hold(file)) \/ LoopFork
    PROVE  Inv'
<1>1. /\ UNCHANGED <<open, interest, active, pending, events, reify, emask, egen, fdchanges, strayed>>
      /\ UNCHANGED <<eperms, pc, i, reports>>
      /\ calls < MaxCalls /\ calls' = calls + 1
      /\ fdset \subseteq fdset' /\ fdset' \subseteq Watchers
      /\ held' \subseteq Files
      /\ postfork' \subseteq {1, 2} /\ (2 \in postfork' => 2 \in postfork)
  <2>1. CASE \E w \in Watchers : Set(w)
    BY <2>1 DEF Set, Call, LoopStays, kernelVars, anfdVars, Inv, Types
  <2>2. CASE \E file \in Files : Hold(file)
    BY <2>2 DEF Hold, Call, LoopStays, watcherVars, anfdVars, Inv, Types
  <2>3. CASE LoopFork
    BY <2>3 DEF LoopFork, Call, LoopStays, kernelVars, watcherVars, anfdVars, Inv, Types
  <2> QED BY <2>1, <2>2, <2>3
<1>2. Types'
  <2>1. calls' \in 0 .. MaxCalls
    BY <1>1, Constants DEF Inv, Types
  <2> QED BY <1>1, <2>1 DEF Inv, Types
<1>3. Phases'
  BY <1>1 DEF Inv, Phases
<1>4. /\ \A fd \in Fds : Believed(fd)' /\ Listed(fd)' /\ Mine(fd)' = Mine(fd)
      /\ Numbered' /\ Current' /\ Orderly'
  BY <1>1, KernelPartStays
<1>5. ASSUME NEW fd \in Fds PROVE Noted(fd)' /\ Known(fd)'
  <2>1. On(fd)' = On(fd) /\ (Lost(fd) => Lost(fd)')
    BY <1>1 DEF On, Lost
  <2>2. Noted(fd)'
    BY <1>1, <2>1 DEF Inv, Noted, ToDo, WantOf
  <2>3. Known(fd)'
    BY <1>1, <1>4, <2>1, KnownStays DEF Inv, Known
  <2> QED BY <2>2, <2>3
<1> QED BY <1>2, <1>3, <1>4, <1>5 DEF Inv

\* fd_reify has come to the end of fdchanges.
LEMMA FdReifyDoneKeeps == ASSUME Inv, FdReifyDone PROVE Inv'
<1>1. /\ UNCHANGED <<open, held, interest, active, fdset, pending, events, reify, emask, egen, eperms>>
      /\ UNCHANGED <<postfork, reports, strayed, calls>>
      /\ pc = "reify" /\ i = Len(fdchanges) /\ fdchanges' = <<>> /\ i' = 0 /\ pc' = "poll"
  BY DEF FdReifyDone, kernelVars, watcherVars, anfdVars
<1>2. Types'
  BY <1>1 DEF Inv, Types
<1>3. Phases'
  BY <1>1 DEF Inv, Phases
<1>4. /\ \A fd \in Fds : Believed(fd)' /\ Listed(fd)' /\ Mine(fd)' = Mine(fd)
      /\ Numbered' /\ Current' /\ Orderly'
  BY <1>1, KernelPartStays
<1>5. ASSUME NEW fd \in Fds PROVE Noted(fd)' /\ Known(fd)'
  <2>1. On(fd)' = On(fd) /\ ~ToDo(fd)
    BY <1>1 DEF On, ToDo, Inv, Types
  <2>2. events[fd] = WantOf(fd) /\ reify[fd] = {}
    BY <2>1 DEF Inv, Noted
  <2>3. Noted(fd)'
    BY <1>1, <2>1, <2>2 DEF Noted, WantOf
  <2>4. Lost(fd) => events[fd] = {}
    BY <2>2 DEF Lost, WantOf
  <2>5. Known(fd)'
    BY <1>1, <1>4, <2>4, KnownStays DEF Inv, Known
  <2> QED BY <2>3, <2>5
<1> QED BY <1>2, <1>3, <1>4, <1>5 DEF Inv
-----------------------------------------------------------------------------
(* The files.                                                              *)

\* The kernel keeps what it watches for a file that is still open.
LEMMA LivingRight ==
    ASSUME NEW set, NEW names \in [Fds -> Files \cup {closed}], NEW holders
    PROVE  /\ Living(set, names, holders) \subseteq set
           /\ \A fd \in Fds : \A e \in set : e.file = names[fd] => e \in Living(set, names, holders)
BY DEF Living

\* What only loses interests of files that descriptors do not name.
LEMMA InterestShrinks ==
    ASSUME Inv, interest' \subseteq interest, UNCHANGED <<emask, egen, eperms>>, NEW fd \in Fds,
           Mine(fd)' \subseteq Mine(fd)
    PROVE  Believed(fd)' /\ Listed(fd)'
BY DEF Inv, Believed, Listed

LEMMA ReleaseKeeps == ASSUME Inv, NEW file \in Files, Release(file) PROVE Inv'
<1>1. /\ UNCHANGED <<open, active, fdset, pending, events, reify, emask, egen, fdchanges, eperms, postfork>>
      /\ UNCHANGED <<pc, i, reports, strayed, calls>>
      /\ held' = held \ {file} /\ interest' = Living(interest, open, held')
  BY DEF Release, watcherVars, anfdVars, loopVars
<1>2. interest' \subseteq interest /\ \A fd \in Fds : \A e \in interest : e.file = open[fd] => e \in interest'
  BY <1>1, LivingRight DEF Inv, Types
<1>3. \A fd \in Fds : Mine(fd)' = Mine(fd)
  BY <1>1, <1>2 DEF Mine
<1>4. Types'
  BY <1>1, <1>2 DEF Inv, Types
<1>5. Phases'
  BY <1>1 DEF Inv, Phases
<1>6. ASSUME NEW fd \in Fds PROVE Noted(fd)' /\ Known(fd)'
  <2>1. On(fd)' = On(fd) /\ (Lost(fd) => Lost(fd)')
    BY <1>1 DEF On, Lost
  <2>2. Noted(fd)'
    BY <1>1, <2>1 DEF Inv, Noted, ToDo, WantOf
  <2>3. Known(fd)'
    BY <1>1, <1>3, <2>1, KnownStays DEF Inv, Known
  <2> QED BY <2>2, <2>3
<1>7. \A fd \in Fds : Believed(fd)' /\ Listed(fd)'
  BY <1>1, <1>2, <1>3, InterestShrinks
<1>8. Numbered'
  BY <1>1, <1>2 DEF Inv, Numbered
<1>9. \A r \in reports : r.fd \in Fds
  BY DEF Inv, Types
<1>10. Current'
  BY <1>1, <1>3, <1>9 DEF Inv, Current
<1>11. Orderly'
  BY <1>1, <1>2, <1>3, <1>9 DEF Inv, Orderly
<1> QED BY <1>4, <1>5, <1>6, <1>7, <1>8, <1>10, <1>11 DEF Inv

\* The program closes a descriptor whose watchers it has stopped.
LEMMA CloseKeeps == ASSUME Inv, NEW f \in Fds, Close(f) PROVE Inv'
<1>1. /\ UNCHANGED <<held, active, pending, events, reify, emask, egen, fdchanges, postfork, eperms, pc, i, reports>>
      /\ pc = "program" /\ calls < MaxCalls /\ calls' = calls + 1
      /\ open[f] # closed /\ On(f) = {}
      /\ open' = [open EXCEPT ![f] = closed] /\ interest' = Living(interest, open', held)
      /\ strayed' = (strayed \/ \E e \in interest' : e.fd = f /\ e.file = open[f])
      /\ fdset' = fdset \cup {w \in Watchers : Fd[w] = f}
  BY DEF Close, Call, LoopStays, anfdVars
<1>2. open' \in [Fds -> Files \cup {closed}] /\ open'[f] = closed /\ \A fd \in Fds : fd # f => open'[fd] = open[fd]
  BY <1>1 DEF Inv, Types
<1>3. /\ interest' \subseteq interest
      /\ \A fd \in Fds : \A e \in interest : e.file = open'[fd] => e \in interest'
  BY <1>1, <1>2, LivingRight
<1>4. Mine(f)' = {}
  BY <1>2, <1>3, Constants DEF Mine, Inv, Types
<1>5. \A fd \in Fds : fd # f => Mine(fd)' = Mine(fd)
  BY <1>2, <1>3 DEF Mine
<1>6. Types'
  <2>1. calls' \in 0 .. MaxCalls
    BY <1>1, Constants DEF Inv, Types
  <2>2. strayed' \in BOOLEAN
    BY <1>1 DEF Inv, Types
  <2>3. interest' \subseteq [fd : Fds, file : Files \ Regular, events : SUBSET Evs, egen : Nat]
    BY <1>3 DEF Inv, Types
  <2>4. fdset' \subseteq Watchers
    BY <1>1 DEF Inv, Types
  <2> QED BY <1>1, <1>2, <2>1, <2>2, <2>3, <2>4 DEF Inv, Types
<1>7. Phases' /\ reports = {}
  BY <1>1 DEF Inv, Phases
<1>8. ASSUME NEW fd \in Fds PROVE Noted(fd)' /\ Known(fd)'
  <2>1. On(fd)' = On(fd)
    BY <1>1 DEF On
  <2>2. Noted(fd)'
    BY <1>1, <2>1 DEF Inv, Noted, ToDo, WantOf
  <2>3. CASE fd = f
    <3>1. Lost(fd)'
      BY <1>1, <2>1, <2>3 DEF Lost
    <3> QED BY <2>2, <3>1 DEF Known
  <2>4. CASE fd # f
    <3>1. Lost(fd) => Lost(fd)'
      BY <1>1, <2>1 DEF Lost
    <3>2. Known(fd)'
      BY <1>1, <1>5, <2>4, <3>1, KnownStays DEF Inv, Known
    <3> QED BY <2>2, <3>2
  <2> QED BY <2>3, <2>4
<1>9. \A fd \in Fds : Believed(fd)' /\ Listed(fd)'
  BY <1>1, <1>3, <1>4, <1>5, InterestShrinks
<1>10. Numbered'
  BY <1>1, <1>3 DEF Inv, Numbered
<1>11. Current'
  BY <1>1, <1>7 DEF Current
<1>12. Orderly'
  <2> SUFFICES ASSUME ~strayed' PROVE Orderly'
    BY DEF Orderly
  <2>1. ~strayed /\ ~\E e \in interest' : e.fd = f /\ e.file = open[f]
    BY <1>1
  <2>2. 2 \notin postfork' /\ \A e \in interest : e.file = open[e.fd]
    BY <1>1, <2>1 DEF Inv, Orderly
  <2>3. \A e \in interest' : e.fd # f /\ e.fd \in Fds
    BY <1>3, <2>1, <2>2 DEF Inv, Types
  <2>4. \A e \in interest' : e.file = open'[e.fd]
    BY <1>2, <1>3, <2>2, <2>3
  <2> QED BY <1>1, <1>7, <2>2, <2>4 DEF Orderly
<1> QED BY <1>6, <1>7, <1>8, <1>9, <1>10, <1>11, <1>12 DEF Inv

\* ... and opens one, whose file epoll does not watch under that number.
LEMMA OpenKeeps == ASSUME ~Restoring, Inv, NEW f \in Fds, NEW file \in Files, Open(f, file) PROVE Inv'
<1>1. /\ UNCHANGED <<held, interest, active, pending, events, reify, emask, egen, fdchanges, postfork>>
      /\ UNCHANGED <<eperms, pc, i, reports, strayed>>
      /\ pc = "program" /\ calls < MaxCalls /\ calls' = calls + 1
      /\ open[f] = closed /\ On(f) = {}
      /\ ~\E e \in interest : e.fd = f /\ e.file = file
      /\ open' = [open EXCEPT ![f] = file]
      /\ fdset' = fdset \cup {w \in Watchers : Fd[w] = f}
  BY DEF Open, Call, LoopStays, anfdVars
<1>2. open' \in [Fds -> Files \cup {closed}] /\ open'[f] = file /\ \A fd \in Fds : fd # f => open'[fd] = open[fd]
  BY <1>1 DEF Inv, Types
<1>3. Mine(f)' = {}
  BY <1>1, <1>2 DEF Mine
<1>4. \A fd \in Fds : fd # f => Mine(fd)' = Mine(fd)
  BY <1>1, <1>2 DEF Mine
<1>5. Types'
  <2>1. calls' \in 0 .. MaxCalls
    BY <1>1, Constants DEF Inv, Types
  <2>2. fdset' \subseteq Watchers
    BY <1>1 DEF Inv, Types
  <2> QED BY <1>1, <1>2, <2>1, <2>2 DEF Inv, Types
<1>6. Phases' /\ reports = {}
  BY <1>1 DEF Inv, Phases
<1>7. ASSUME NEW fd \in Fds PROVE Noted(fd)' /\ Known(fd)'
  <2>1. On(fd)' = On(fd)
    BY <1>1 DEF On
  <2>2. Noted(fd)'
    BY <1>1, <2>1 DEF Inv, Noted, ToDo, WantOf
  <2>3. CASE fd = f
    <3>1. Lost(fd)'
      BY <1>1, <2>1, <2>3 DEF Lost
    <3> QED BY <2>2, <3>1 DEF Known
  <2>4. CASE fd # f
    <3>1. Lost(fd) => Lost(fd)'
      BY <1>1, <2>1 DEF Lost
    <3>2. Known(fd)'
      BY <1>1, <1>4, <2>4, <3>1, KnownStays DEF Inv, Known
    <3> QED BY <2>2, <3>2
  <2> QED BY <2>3, <2>4
<1>8. \A fd \in Fds : Believed(fd)' /\ Listed(fd)'
  BY <1>1, <1>3, <1>4, InterestShrinks
<1>9. Numbered'
  BY <1>1 DEF Inv, Numbered
<1>10. Current'
  BY <1>1, <1>6 DEF Current
<1>11. Orderly'
  <2> SUFFICES ASSUME ~strayed' PROVE Orderly'
    BY DEF Orderly
  <2>1. 2 \notin postfork' /\ \A e \in interest : e.file = open[e.fd]
    BY <1>1 DEF Inv, Orderly
  <2>2. \A e \in interest' : e.fd # f /\ e.fd \in Fds
    BY <1>1, <2>1, Constants DEF Inv, Types
  <2>3. \A e \in interest' : e.file = open'[e.fd]
    BY <1>1, <1>2, <2>1, <2>2
  <2> QED BY <1>1, <1>6, <2>1, <2>3 DEF Orderly
<1> QED BY <1>5, <1>6, <1>7, <1>8, <1>9, <1>10, <1>11 DEF Inv
-----------------------------------------------------------------------------
(* fd_reify at a descriptor.                                               *)

\* What every outcome has in common, and what it leaves of other descriptors.
Reifies(f) ==
    /\ pc = "reify" /\ pc' = "reify" /\ i < Len(fdchanges) /\ i' = i + 1
    /\ f \in Fds /\ f = fdchanges[i + 1]
    /\ fdchanges' = fdchanges \/ fdchanges' = Append(fdchanges, f)
    /\ active' = active \/ active' = active \ On(f)
    /\ UNCHANGED <<open, held, fdset, postfork, reports, strayed, calls>>
    /\ pending' \in [Watchers -> SUBSET (Evs \cup {"ERROR"})]
    /\ events' = [events EXCEPT ![f] = WantOf(f)]
    /\ reify' \in [Fds -> SUBSET {"REIFY", "IOFDSET"}]
    /\ emask' \in [Fds -> SUBSET (Evs \cup {"EPERM"})]
    /\ egen' \in [Fds -> Nat] /\ eperms' \in [Fds -> Nat]
    /\ \A fd \in Fds : fd # f => /\ reify'[fd] = reify[fd] /\ emask'[fd] = emask[fd]
                                 /\ egen'[fd] = egen[fd] /\ eperms'[fd] = eperms[fd]
    /\ \A e \in interest : e.fd # f => e \in interest'
    /\ \A e \in interest' : e.fd # f => e \in interest

LEMMA ReifyOthers ==
    ASSUME Inv, NEW f, Reifies(f)
    PROVE  /\ fdchanges' \in Seq(Fds) /\ i' \in 0 .. Len(fdchanges')
           /\ (fdchanges' = Append(fdchanges, f) => ToDo(f)')
           /\ \A fd \in Fds \ {f} : Noted(fd)' /\ Known(fd)' /\ Believed(fd)' /\ Listed(fd)'
<1>1. PICK s \in Seq(Fds) : s = fdchanges
  BY DEF Inv, Types
<1>2. PICK t : t = fdchanges'
  OBVIOUS
<1>3. PICK n \in Nat : n = i
  BY DEF Inv, Types
<1>4. /\ t \in Seq(Fds) /\ Len(s) \in Nat /\ Len(t) \in Nat /\ n < Len(s)
      /\ \A k \in 1 .. Len(s) : k \in 1 .. Len(t) /\ t[k] = s[k]
      /\ t = Append(s, f) => Len(s) + 1 \in 1 .. Len(t) /\ t[Len(s) + 1] = f
      /\ Len(s) <= Len(t)
  <2>1. (t = s \/ t = Append(s, f)) /\ f \in Fds /\ n < Len(s)
    BY <1>1, <1>2, <1>3 DEF Reifies
  <2> QED BY <2>1
<1>5. fdchanges' \in Seq(Fds) /\ i' \in 0 .. Len(fdchanges')
  BY <1>2, <1>3, <1>4 DEF Reifies
<1>6. fdchanges' = Append(fdchanges, f) => ToDo(f)'
  <2> SUFFICES ASSUME t = Append(s, f) PROVE ToDo(f)'
    BY <1>1, <1>2
  <2>1. n + 1 < Len(s) + 1 /\ i' = n + 1
    BY <1>3, <1>4 DEF Reifies
  <2> QED BY <1>2, <1>4, <2>1 DEF ToDo
<1>7. ASSUME NEW fd \in Fds \ {f} PROVE Noted(fd)' /\ Known(fd)' /\ Believed(fd)' /\ Listed(fd)'
  <2>1. On(fd)' = On(fd)
    BY DEF Reifies, On
  <2>2. ToDo(fd) => ToDo(fd)'
    <3> SUFFICES ASSUME ToDo(fd) PROVE ToDo(fd)'
      OBVIOUS
    <3>1. PICK k \in 1 .. Len(s) : n < k /\ s[k] = fd
      BY <1>1, <1>3 DEF ToDo
    <3>2. k # n + 1
      BY <1>1, <1>3, <3>1 DEF Reifies
    <3>3. n + 1 < k
      BY <3>1, <3>2
    <3> QED BY <1>2, <1>3, <1>4, <3>1, <3>3 DEF ToDo, Reifies
  <2>3. events'[fd] = events[fd] /\ events' \in [Fds -> SUBSET Evs]
    BY WantRight DEF Reifies, Inv, Types
  <2>4. Noted(fd)'
    BY <2>1, <2>2, <2>3 DEF Inv, Noted, WantOf, Reifies
  <2>5. Mine(fd)' = Mine(fd)
    BY DEF Reifies, Mine
  <2>6. Watched(fd) => Watched(fd)'
    BY <2>3, <2>5 DEF Watched, Reifies
  <2>7. Ready(fd) => Ready(fd)'
    BY <2>3 DEF Ready, Refused, Reifies
  <2>8. Lost(fd) => Lost(fd)'
    BY <2>1 DEF Lost, Reifies
  <2>9. Known(fd)'
    BY <2>3, <2>6, <2>7, <2>8 DEF Inv, Known, Reifies
  <2>10. Believed(fd)' /\ Listed(fd)'
    <3>1. emask'[fd] = emask[fd] /\ egen'[fd] = egen[fd] /\ eperms'[fd] = eperms[fd]
      BY DEF Reifies
    <3>2. Believed(fd) /\ Listed(fd)
      BY DEF Inv
    <3> QED BY <2>5, <3>1, <3>2 DEF Believed, Listed
  <2> QED BY <2>4, <2>9, <2>10
<1> QED BY <1>5, <1>6, <1>7

\* What is left to show of an outcome.
LEMMA ReifyKeeps ==
    ASSUME Inv, NEW f, Reifies(f), Noted(f)', Known(f)', Believed(f)', Listed(f)',
           interest' \subseteq [fd : Fds, file : Files \ Regular, events : SUBSET Evs, egen : Nat],
           \A e \in interest' : e.egen <= egen'[e.fd] /\ ("EPERM" \in emask'[e.fd] => e.egen < egen'[e.fd]),
           \A e, g \in interest' : e.fd = g.fd /\ e.egen = g.egen => e = g,
           \A e \in interest' : e \in interest \/ e.file = open[e.fd]
    PROVE  Inv'
<1>1. /\ fdchanges' \in Seq(Fds) /\ i' \in 0 .. Len(fdchanges')
      /\ \A fd \in Fds \ {f} : Noted(fd)' /\ Known(fd)' /\ Believed(fd)' /\ Listed(fd)'
  BY ReifyOthers
<1>2. \A fd \in Fds : Noted(fd)' /\ Known(fd)' /\ Believed(fd)' /\ Listed(fd)'
  BY <1>1
<1>3. reports = {} /\ reports' = {}
  BY DEF Inv, Phases, Reifies
<1>4. events' \in [Fds -> SUBSET Evs] /\ active' \subseteq Watchers
  BY WantRight DEF Inv, Types, Reifies
<1>5. Types'
  BY <1>1, <1>3, <1>4 DEF Inv, Types, Reifies
<1>6. Phases'
  BY <1>3 DEF Inv, Phases, Reifies
<1>7. Numbered' /\ Current'
  BY <1>3 DEF Numbered, Current
<1>8. Orderly'
  BY <1>3 DEF Inv, Orderly, Reifies
<1> QED BY <1>2, <1>5, <1>6, <1>7, <1>8 DEF Inv

\* No more to do than to note the events.
LEMMA NotedStep ==
    ASSUME NEW f \in Fds, events'[f] = WantOf(f), reify'[f] = {}, active' = active
    PROVE  Noted(f)'
<1>1. On(f)' = On(f)
  BY DEF On
<1> QED BY <1>1 DEF Noted, WantOf

LEMMA ToldKeeps ==
    ASSUME Inv, NEW f, Reifies(f), Told(f, WantOf(f)), UNCHANGED <<interest, emask, egen, eperms>>,
           WantOf(f) = {} \/ (WantOf(f) = events[f] /\ "IOFDSET" \notin reify[f])
    PROVE  Inv'
<1>1. f \in Fds /\ events'[f] = WantOf(f) /\ reify'[f] = {} /\ active' = active /\ open' = open
  BY DEF Inv, Types, Reifies, Told
<1>2. Mine(f)' = Mine(f)
  BY <1>1 DEF Mine
<1>3. Noted(f)'
  BY <1>1, NotedStep
<1>4. Known(f)'
  <2>1. CASE WantOf(f) = {}
    BY <1>1, <2>1 DEF Known
  <2>2. CASE WantOf(f) # {}
    <3>1. WantOf(f) = events[f] /\ "IOFDSET" \notin reify[f] /\ ~Lost(f)
      BY <2>2 DEF Lost, WantOf
    <3>2. Watched(f) \/ Ready(f)
      BY <1>1, <2>2, <3>1 DEF Inv, Known
    <3>3. Watched(f)' \/ Ready(f)'
      BY <1>1, <1>2, <3>1, <3>2 DEF Watched, Ready, Refused
    <3> QED BY <3>3 DEF Known
  <2> QED BY <2>1, <2>2
<1>5. Believed(f)' /\ Listed(f)'
  BY <1>1, <1>2 DEF Inv, Believed, Listed
<1> QED BY <1>3, <1>4, <1>5, ReifyKeeps DEF Inv, Types, Numbered

\* epoll_ctl has succeeded.
LEMMA AcceptedKeeps ==
    ASSUME Inv, NEW f, Reifies(f), NEW op \in {"ADD", "MOD"}, Accepted(f, op, WantOf(f)),
           open[f] \in Files \ Regular
    PROVE  Inv'
<1>1. /\ f \in Fds /\ events'[f] = WantOf(f) /\ reify'[f] = {} /\ active' = active /\ open' = open
      /\ emask'[f] = WantOf(f) /\ egen'[f] = egen[f] + 1 /\ eperms' = eperms /\ egen[f] \in Nat
      /\ WantOf(f) \subseteq Evs
  BY SMTT(30), WantRight DEF Inv, Types, Reifies, Accepted, Told
<1>2. PICK g : g = Entry(f, open[f], WantOf(f), egen[f] + 1)
  OBVIOUS
<1>3. g.fd = f /\ g.file = open[f] /\ g.events = WantOf(f) /\ g.egen = egen[f] + 1
  BY <1>2 DEF Entry
<1>4. interest' = (interest \ Mine(f)) \cup {g}
  BY <1>2 DEF Accepted, Ctl
<1>5. g \in Mine(f)' /\ \A e \in Mine(f)' : e = g
  BY <1>1, <1>3, <1>4 DEF Mine
<1>6. Noted(f)'
  BY <1>1, NotedStep
<1>7. Watched(f)'
  BY <1>1, <1>3, <1>5 DEF Watched
<1>8. Believed(f)' /\ Listed(f)'
  BY <1>1, <1>3, <1>5, Constants DEF Believed, Listed
<1>9. interest' \subseteq [fd : Fds, file : Files \ Regular, events : SUBSET Evs, egen : Nat]
  <2>1. g \in [fd : Fds, file : Files \ Regular, events : SUBSET Evs, egen : Nat]
    BY <1>1, <1>2 DEF Entry
  <2> QED BY <1>4, <2>1 DEF Inv, Types
<1>10. \A e \in interest : e.fd = f => e.egen \in Nat /\ e.egen < egen[f] + 1
  BY <1>1 DEF Inv, Numbered, Types
<1>11. \A e \in interest' : e.egen <= egen'[e.fd] /\ ("EPERM" \in emask'[e.fd] => e.egen < egen'[e.fd])
  <2> SUFFICES ASSUME NEW e \in interest'
               PROVE  e.egen <= egen'[e.fd] /\ ("EPERM" \in emask'[e.fd] => e.egen < egen'[e.fd])
    OBVIOUS
  <2>1. CASE e = g
    BY <1>1, <1>3, <2>1, Constants
  <2>2. CASE e # g /\ e.fd = f
    BY <1>1, <1>4, <1>10, <2>2
  <2>3. CASE e.fd # f
    <3>1. e \in interest /\ e.fd \in Fds
      BY <1>3, <1>4, <2>3 DEF Inv, Types
    <3> QED BY <2>3, <3>1 DEF Inv, Numbered, Reifies
  <2> QED BY <2>1, <2>2, <2>3
<1>12. \A e, h \in interest' : e.fd = h.fd /\ e.egen = h.egen => e = h
  BY <1>3, <1>4, <1>10 DEF Inv, Numbered
<1>13. \A e \in interest' : e \in interest \/ e.file = open[e.fd]
  BY <1>3, <1>4
<1> QED BY <1>6, <1>7, <1>8, <1>9, <1>11, <1>12, <1>13, ReifyKeeps DEF Known

\* The kernel had the file already, with the mask that emask says.
LEMMA AssumedAsKeeps ==
    ASSUME Inv, NEW f, Reifies(f), AssumedAs(f, WantOf(f)), emask[f] = WantOf(f), Mine(f) # {}
    PROVE  Inv'
<1>1. /\ f \in Fds /\ events'[f] = WantOf(f) /\ reify'[f] = {} /\ active' = active /\ open' = open
      /\ emask' = emask /\ egen' = egen /\ eperms' = eperms /\ interest' = interest
  BY DEF Inv, Types, Reifies, AssumedAs, Told
<1>2. Mine(f)' = Mine(f)
  BY <1>1 DEF Mine
<1>3. Noted(f)'
  BY <1>1, NotedStep
<1>4. Watched(f)'
  BY <1>1, <1>2 DEF Inv, Believed, Watched
<1>5. Believed(f)' /\ Listed(f)'
  BY <1>1, <1>2 DEF Inv, Believed, Listed
<1> QED BY <1>1, <1>3, <1>4, <1>5, ReifyKeeps DEF Known, Inv, Types, Numbered

\* epoll does not take the file.
LEMMA AlwaysReadyKeeps ==
    ASSUME Inv, NEW f, Reifies(f), AlwaysReady(f, WantOf(f)), open[f] \in Regular
    PROVE  Inv'
<1>1. /\ f \in Fds /\ events'[f] = WantOf(f) /\ reify'[f] = {} /\ active' = active /\ open' = open
      /\ emask'[f] = {"EPERM"} /\ egen'[f] = egen[f] + 1 /\ egen[f] \in Nat /\ interest' = interest
  BY DEF Inv, Types, Reifies, AlwaysReady, Told
<1>2. Mine(f)' = {}
  BY <1>1 DEF Mine, Inv, Types
<1>3. Noted(f)'
  BY <1>1, NotedStep
<1>4. eperms'[f] > 0
  BY <1>1 DEF AlwaysReady, Inv, Listed, Types
<1>5. Known(f)'
  BY <1>1, <1>4 DEF Known, Ready, Refused
<1>6. Believed(f)' /\ Listed(f)'
  BY <1>2, <1>4 DEF Believed, Listed
<1>7. \A e \in interest' : e.egen <= egen'[e.fd] /\ ("EPERM" \in emask'[e.fd] => e.egen < egen'[e.fd])
  <2> SUFFICES ASSUME NEW e \in interest
               PROVE  e.egen <= egen'[e.fd] /\ ("EPERM" \in emask'[e.fd] => e.egen < egen'[e.fd])
    BY <1>1
  <2>1. e.egen \in Nat /\ e.fd \in Fds /\ e.egen <= egen[e.fd]
    BY DEF Inv, Types, Numbered
  <2>2. CASE e.fd = f
    BY <1>1, <2>1, <2>2
  <2>3. CASE e.fd # f
    BY <2>1, <2>3 DEF Inv, Numbered, Reifies
  <2> QED BY <2>2, <2>3
<1> QED BY <1>1, <1>3, <1>5, <1>6, <1>7, ReifyKeeps DEF Inv, Types, Numbered

\* The descriptor is closed: fd_kill.
LEMMA KilledKeeps ==
    ASSUME Inv, NEW f, Reifies(f), Killed(f, WantOf(f)), open[f] = closed
    PROVE  Inv'
<1>1. /\ f \in Fds /\ events'[f] = WantOf(f) /\ active' = active \ On(f) /\ open' = open
      /\ emask'[f] = WantOf(f) /\ egen' = egen /\ interest' = interest /\ eperms' = eperms
      /\ fdchanges' = Append(fdchanges, f) /\ pc' = "reify" /\ WantOf(f) \subseteq Evs
  BY WantRight DEF Inv, Types, Reifies, Killed
<1>2. Mine(f)' = {}
  BY <1>1, Constants DEF Mine, Inv, Types
<1>3. ToDo(f)'
  BY <1>1, ReifyOthers
<1>4. Lost(f)'
  BY <1>1 DEF Lost, On
<1>5. Believed(f)' /\ Listed(f)'
  BY <1>1, <1>2, Constants DEF Believed, Listed
<1>6. \A e \in interest' : e.egen <= egen'[e.fd] /\ ("EPERM" \in emask'[e.fd] => e.egen < egen'[e.fd])
  <2> SUFFICES ASSUME NEW e \in interest
               PROVE  e.egen <= egen'[e.fd] /\ ("EPERM" \in emask'[e.fd] => e.egen < egen'[e.fd])
    BY <1>1
  <2>1. e.fd \in Fds /\ e.egen <= egen[e.fd] /\ ("EPERM" \in emask[e.fd] => e.egen < egen[e.fd])
    BY DEF Inv, Types, Numbered
  <2>2. "EPERM" \in emask'[e.fd] => "EPERM" \in emask[e.fd]
    <3>1. "EPERM" \notin emask'[f]
      BY <1>1, Constants
    <3> QED BY <2>1, <3>1 DEF Reifies
  <2> QED BY <1>1, <2>1, <2>2
<1> QED BY <1>1, <1>3, <1>4, <1>5, <1>6, ReifyKeeps DEF Noted, Known, Inv, Types, Numbered

LEMMA FdReifyKeeps == ASSUME Inv, FdReify PROVE Inv'
<1>1. PICK f \in Fds : f = fdchanges[i + 1]
  <2>1. i + 1 \in 1 .. Len(fdchanges) /\ fdchanges \in Seq(Fds)
    BY DEF FdReify, Inv, Types
  <2> QED BY <2>1
<1>2. PICK evs \in SUBSET Evs : evs = WantOf(f)
  BY WantRight DEF Inv
<1>3. CASE ~(evs # {} /\ (evs # events[f] \/ "IOFDSET" \in reify[f]))
  <2>1. Told(f, evs) /\ UNCHANGED <<interest, emask, egen, eperms>>
    BY <1>1, <1>2, <1>3 DEF FdReify
  <2>2. Reifies(f)
    BY <1>1, <1>2, <2>1 DEF FdReify, Reifies, Told, Inv, Types
  <2> QED BY <1>2, <1>3, <2>1, <2>2, ToldKeeps
<1>4. CASE evs # {} /\ (evs # events[f] \/ "IOFDSET" \in reify[f])
  <2>1. EpollModify(f, evs)
    BY <1>1, <1>2, <1>4 DEF FdReify
  <2>2. PICK op \in {"ADD", "MOD"} : op = FirstOp(f, evs)
    BY DEF FirstOp
  <2>3. Errno(op, f) \in {"0", "ENOENT", "EEXIST", "EPERM", "EBADF"}
    BY DEF Errno
  <2>4. ASSUME NEW q \in {"ADD", "MOD"}, Accepted(f, q, evs), open[f] \in Files \ Regular PROVE Inv'
    <3>1. Reifies(f)
      <4>1. \A e \in interest : e.fd # f => e \in interest'
        BY <2>4 DEF Accepted, Ctl, Mine
      <4>2. \A e \in interest' : e.fd # f => e \in interest
        BY <2>4 DEF Accepted, Ctl, Entry
      <4> QED BY SMTT(30), <1>1, <1>2, <2>4, <4>1, <4>2 DEF FdReify, Reifies, Accepted, Told, Inv, Types
    <3> QED BY <1>2, <2>4, <3>1, AcceptedKeeps
  <2>5. open[f] \in Files \cup {closed}
    BY DEF Inv, Types
  <2>6. CASE Errno(op, f) = "0"
    <3>1. Accepted(f, op, evs)
      BY <2>1, <2>2, <2>6 DEF EpollModify
    <3>2. open[f] \in Files \ Regular
      BY <2>5, <2>6 DEF Errno
    <3> QED BY <2>4, <3>1, <3>2
  <2>7. CASE Errno(op, f) = "ENOENT"
    <3>1. Accepted(f, "ADD", evs)
      BY <2>1, <2>2, <2>7 DEF EpollModify
    <3>2. open[f] \in Files \ Regular
      BY <2>5, <2>7 DEF Errno
    <3> QED BY <2>4, <3>1, <3>2
  <2>8. CASE Errno(op, f) = "EEXIST"
    <3>1. IF emask[f] = evs THEN AssumedAs(f, evs) ELSE Accepted(f, "MOD", evs)
      BY <2>1, <2>2, <2>8 DEF EpollModify
    <3>2. open[f] \in Files \ Regular /\ Mine(f) # {}
      BY <2>5, <2>8 DEF Errno
    <3>3. CASE emask[f] = evs
      <4>1. AssumedAs(f, evs)
        BY <3>1, <3>3
      <4>2. Reifies(f)
        BY <1>1, <1>2, <4>1 DEF FdReify, Reifies, AssumedAs, Told, Inv, Types
      <4> QED BY <1>2, <3>2, <3>3, <4>1, <4>2, AssumedAsKeeps
    <3>4. CASE emask[f] # evs
      BY <2>4, <3>1, <3>2, <3>4
    <3> QED BY <3>3, <3>4
  <2>9. CASE Errno(op, f) = "EPERM"
    <3>1. AlwaysReady(f, evs)
      BY <2>1, <2>2, <2>9 DEF EpollModify
    <3>2. open[f] \in Regular
      BY <2>9 DEF Errno
    <3>3. Reifies(f)
      BY SMTT(30), <1>1, <1>2, <3>1 DEF FdReify, Reifies, AlwaysReady, Told, Inv, Types
    <3> QED BY <1>2, <3>1, <3>2, <3>3, AlwaysReadyKeeps
  <2>10. CASE Errno(op, f) = "EBADF"
    <3>1. Killed(f, evs)
      BY <2>1, <2>2, <2>10 DEF EpollModify
    <3>2. open[f] = closed
      BY <2>10 DEF Errno
    <3>3. Reifies(f)
      BY <1>1, <1>2, <3>1 DEF FdReify, Reifies, Killed, Inv, Types
    <3> QED BY <1>2, <3>1, <3>2, <3>3, KilledKeeps
  <2> QED BY <2>3, <2>6, <2>7, <2>8, <2>9, <2>10
<1> QED BY <1>3, <1>4
-----------------------------------------------------------------------------
(* loop_fork and epoll_poll.                                               *)

LEMMA IterateKeeps == ASSUME Inv, Iterate PROVE Inv'
<1>1. /\ UNCHANGED <<open, held, active, fdset, pending, egen, eperms, i, reports, strayed, calls>>
      /\ pc = "program" /\ pc' = "reify" /\ postfork' = {} /\ reports = {}
      /\ IF postfork = {} THEN UNCHANGED <<interest, events, reify, emask, fdchanges>> ELSE EpollFork
  BY DEF Iterate, watcherVars, Inv, Phases
<1>2. Phases'
  BY <1>1 DEF Inv, Phases
<1>3. CASE UNCHANGED <<interest, events, reify, emask, fdchanges>>
  <2>1. Types'
    BY <1>1, <1>3 DEF Inv, Types
  <2>2. /\ \A fd \in Fds : Believed(fd)' /\ Listed(fd)' /\ Mine(fd)' = Mine(fd)
        /\ Numbered' /\ Current' /\ Orderly'
    BY <1>1, <1>3, KernelPartStays
  <2>3. ASSUME NEW fd \in Fds PROVE Noted(fd)' /\ Known(fd)'
    <3>1. On(fd)' = On(fd) /\ (Lost(fd) => Lost(fd)')
      BY <1>1 DEF On, Lost
    <3>2. Noted(fd)'
      BY <1>1, <1>3, <3>1 DEF Inv, Noted, ToDo, WantOf
    <3>3. Known(fd)'
      BY <1>1, <1>3, <2>2, <3>1, KnownStays DEF Inv, Known
    <3> QED BY <3>2, <3>3
  <2> QED BY <1>2, <2>1, <2>2, <2>3 DEF Inv
<1>4. CASE EpollFork
  <2>1. PICK fds \in SUBSET Fds : fds = {fd \in Fds : events[fd] # {}}
    OBVIOUS
  <2>2. PICK flags : flags = [fd \in fds |-> {"IOFDSET", "REIFY"}]
    OBVIOUS
  <2>3. /\ interest' = {} /\ events' = [fd \in Fds |-> {}]
        /\ emask' = [fd \in Fds |-> IF fd \in fds THEN {} ELSE emask[fd]]
        /\ FdChange(fds, flags)
    BY <1>4, <2>1, <2>2 DEF EpollFork, FdRearmAll
  <2>4. /\ fdchanges' \in Seq(Fds) /\ i' \in 0 .. Len(fdchanges')
        /\ reify' \in [Fds -> SUBSET {"REIFY", "IOFDSET"}]
        /\ \A fd \in Fds : reify'[fd] = IF fd \in fds THEN reify[fd] \cup flags[fd] ELSE reify[fd]
        /\ \A fd \in Fds : ToDo(fd) => ToDo(fd)'
        /\ \A fd \in fds : ToDo(fd)'
    <3>1. flags \in [fds -> (SUBSET {"REIFY", "IOFDSET"}) \ {{}}]
      BY <2>2
    <3>2. \A fd \in Fds : reify[fd] # {} => ToDo(fd)
      BY DEF Inv, Noted
    <3> QED BY <1>1, <2>3, <3>1, <3>2, FdChangeRight DEF Inv
  <2>5. Types'
    <3>1. emask' \in [Fds -> SUBSET (Evs \cup {"EPERM"})]
      BY <2>3 DEF Inv, Types
    <3>2. events' \in [Fds -> SUBSET Evs]
      BY <2>3
    <3> QED BY <1>1, <2>3, <2>4, <3>1, <3>2 DEF Inv, Types
  <2>6. ASSUME NEW fd \in Fds PROVE Noted(fd)' /\ Known(fd)' /\ Believed(fd)' /\ Listed(fd)'
    <3>1. Known(fd)'
      BY <2>3 DEF Known
    <3>2. Believed(fd)'
      BY <2>3 DEF Believed, Mine
    <3>3. Listed(fd)'
      BY <1>1, <2>3 DEF Inv, Listed
    <3>4. Noted(fd)'
      <4>1. CASE fd \in fds
        BY <2>4, <4>1 DEF Noted
      <4>2. CASE fd \notin fds
        <5>1. On(fd)' = On(fd) /\ events[fd] = {}
          BY <1>1, <2>1, <4>2 DEF On
        <5> QED BY <2>3, <2>4, <4>2, <5>1 DEF Inv, Noted, WantOf
      <4> QED BY <4>1, <4>2
    <3> QED BY <3>1, <3>2, <3>3, <3>4
  <2>7. Numbered' /\ Current' /\ Orderly'
    BY <1>1, <2>3 DEF Numbered, Current, Orderly
  <2> QED BY <1>2, <2>5, <2>6, <2>7 DEF Inv
<1> QED BY <1>1, <1>3, <1>4

LEMMA EpollWaitKeeps == ASSUME Inv, EpollWait PROVE Inv'
<1>1. /\ UNCHANGED <<open, held, interest, active, fdset, pending, events, reify, emask, egen, fdchanges>>
      /\ UNCHANGED <<eperms, postfork, i, strayed, calls>>
      /\ pc = "poll" /\ pc' = "events"
      /\ reports' \subseteq UNION {Sayable(e) : e \in interest}
      /\ \A r, s \in reports' : r.fd = s.fd /\ r.file = s.file => r = s
  BY DEF EpollWait, kernelVars, watcherVars, anfdVars
<1>2. ASSUME NEW r \in reports'
      PROVE  /\ r \in [fd : Fds, file : Files \ Regular, egen : Nat, got : (SUBSET Evs) \ {{}}]
             /\ \E e \in interest : r.fd = e.fd /\ r.file = e.file /\ r.egen = e.egen
  <2>1. PICK e \in interest : r \in Sayable(e)
    BY <1>1
  <2>2. e \in [fd : Fds, file : Files \ Regular, events : SUBSET Evs, egen : Nat]
    BY DEF Inv, Types
  <2>3. PICK got \in (SUBSET Evs) \ {{}} : r = Report(e, got)
    BY <2>1, <2>2, Constants DEF Sayable
  <2> QED BY <2>2, <2>3 DEF Report
<1>3. Types'
  BY <1>1, <1>2 DEF Inv, Types
<1>4. Phases'
  BY <1>1 DEF Inv, Phases
<1>5. \A fd \in Fds : Mine(fd)' = Mine(fd)
  BY <1>1 DEF Mine
<1>6. ASSUME NEW fd \in Fds PROVE Noted(fd)' /\ Known(fd)' /\ Believed(fd)' /\ Listed(fd)'
  <2>1. On(fd)' = On(fd) /\ (Lost(fd) => Lost(fd)')
    BY <1>1 DEF On, Lost
  <2>2. Noted(fd)'
    BY <1>1, <2>1 DEF Inv, Noted, ToDo, WantOf
  <2>3. Known(fd)'
    BY <1>1, <1>5, <2>1, KnownStays DEF Inv, Known
  <2>4. Believed(fd)' /\ Listed(fd)'
    BY <1>1, <1>5 DEF Inv, Believed, Listed
  <2> QED BY <2>2, <2>3, <2>4
<1>7. Numbered'
  BY <1>1, <1>2 DEF Inv, Numbered
<1>8. Current'
  <2> SUFFICES ASSUME NEW r \in reports', r.egen = egen[r.fd], Mine(r.fd) # {} PROVE r.file = open[r.fd]
    BY <1>1, <1>2, <1>5 DEF Current
  <2>1. PICK e \in interest : r.fd = e.fd /\ r.file = e.file /\ r.egen = e.egen
    BY <1>2
  <2>2. PICK h \in Mine(r.fd) : TRUE
    OBVIOUS
  <2>3. r.fd \in Fds /\ h \in interest /\ h.fd = r.fd /\ h.file = open[r.fd] /\ h.egen = egen[r.fd]
    BY <1>2, <2>2 DEF Mine, Inv, Believed
  <2> QED BY <2>1, <2>3 DEF Inv, Numbered
<1>9. Orderly'
  <2> SUFFICES ASSUME ~strayed PROVE Orderly'
    BY <1>1 DEF Orderly
  <2>1. 2 \notin postfork' /\ \A e \in interest : e.file = open[e.fd]
    BY <1>1 DEF Inv, Orderly
  <2>2. \A r \in reports' : r.file = open[r.fd] /\ r.egen = egen[r.fd] /\ Mine(r.fd) # {}
    <3> SUFFICES ASSUME NEW r \in reports' PROVE r.file = open[r.fd] /\ r.egen = egen[r.fd] /\ Mine(r.fd) # {}
      OBVIOUS
    <3>1. PICK e \in interest : r.fd = e.fd /\ r.file = e.file /\ r.egen = e.egen
      BY <1>2
    <3>2. e \in Mine(r.fd) /\ r.fd \in Fds
      BY <1>2, <2>1, <3>1 DEF Mine
    <3> QED BY <2>1, <3>1, <3>2 DEF Inv, Believed
  <2>3. \A r, s \in reports' : r.fd = s.fd => r = s
    BY <1>1, <2>2
  <2>4. \A r \in reports' : r.fd \in Fds
    BY <1>2
  <2> QED BY <1>1, <1>5, <2>1, <2>2, <2>3, <2>4 DEF Orderly
<1> QED BY <1>3, <1>4, <1>6, <1>7, <1>8, <1>9 DEF Inv

\* The end of epoll_poll: only emask and epoll_eperms change.
LEMMA EpollEpermsKeeps == ASSUME Inv, EpollEperms PROVE Inv'
<1>1. /\ UNCHANGED <<open, held, interest, active, fdset, events, reify, egen, fdchanges>>
      /\ UNCHANGED <<postfork, i, reports, strayed, calls>>
      /\ pc = "events" /\ reports = {} /\ pc' = "program"
      /\ pending' = [w \in Watchers |->
                     IF w \in active /\ eperms[Fd[w]] > 0 /\ Refused(Fd[w]) /\ reify[Fd[w]] = {}
                     THEN pending[w] \cup Wants[w] ELSE pending[w]]
      /\ emask' = [fd \in Fds |-> IF eperms[fd] > 0 /\ ~Refused(fd) THEN {} ELSE emask[fd]]
      /\ eperms' = [fd \in Fds |-> IF Refused(fd) THEN eperms[fd] ELSE 0]
  BY DEF EpollEperms, kernelVars
<1>2. Types'
  <2>1. pending' \in [Watchers -> SUBSET (Evs \cup {"ERROR"})]
    BY <1>1, Constants DEF Inv, Types
  <2>2. emask' \in [Fds -> SUBSET (Evs \cup {"EPERM"})]
    BY <1>1 DEF Inv, Types
  <2>3. eperms' \in [Fds -> Nat]
    BY <1>1 DEF Inv, Types
  <2> QED BY <1>1, <2>1, <2>2, <2>3 DEF Inv, Types
<1>3. Phases'
  BY <1>1 DEF Inv, Phases
<1>4. \A fd \in Fds : Mine(fd)' = Mine(fd)
  BY <1>1 DEF Mine
<1>5. \A fd \in Fds : emask'[fd] = emask[fd] \/ emask'[fd] = {}
  BY <1>1
<1>6. ASSUME NEW fd \in Fds PROVE Noted(fd)' /\ Known(fd)' /\ Believed(fd)' /\ Listed(fd)'
  <2>1. On(fd)' = On(fd)
    BY <1>1 DEF On
  <2>2. Noted(fd)'
    BY <1>1, <2>1 DEF Inv, Noted, ToDo, WantOf
  <2>3. ~ToDo(fd)
    BY <1>1 DEF Inv, Phases, ToDo, Types
  <2>4. events[fd] = WantOf(fd) /\ reify[fd] = {}
    BY <2>3 DEF Inv, Noted
  <2>5. Lost(fd) => events[fd] = {}
    BY <2>4 DEF Lost, WantOf
  <2>6. Watched(fd) => Watched(fd)'
    BY <1>1, <1>4 DEF Watched
  <2>7. Ready(fd) => Ready(fd)'
    BY <1>1 DEF Ready, Refused
  <2>8. Known(fd)'
    BY <1>1, <2>4, <2>5, <2>6, <2>7 DEF Inv, Known
  <2>9. Believed(fd)'
    BY <1>1, <1>4, <1>5 DEF Inv, Believed
  <2>10. Listed(fd)'
    <3> SUFFICES ASSUME "EPERM" \in emask'[fd] PROVE eperms'[fd] > 0
      BY DEF Listed
    <3>1. "EPERM" \in emask[fd] /\ eperms[fd] > 0
      BY <1>5 DEF Inv, Listed
    <3>2. Refused(fd)
      BY <1>1, <3>1
    <3> QED BY <1>1, <3>1, <3>2
  <2> QED BY <2>2, <2>8, <2>9, <2>10
<1>7. Numbered'
  <2>1. \A e \in interest : e.fd \in Fds
    BY DEF Inv, Types
  <2> QED BY <1>1, <1>5, <2>1 DEF Inv, Numbered
<1>8. Current' /\ Orderly'
  BY <1>1 DEF Inv, Current, Orderly
<1> QED BY <1>2, <1>3, <1>6, <1>7, <1>8 DEF Inv
-----------------------------------------------------------------------------
(* An event of epoll_wait.                                                 *)

\* What looking at an event has in common, whatever the event is.
LooksAt(r) ==
    /\ pc = "events" /\ r \in reports /\ reports' = reports \ {r}
    /\ UNCHANGED <<open, held, active, fdset, events, reify, egen, fdchanges, eperms, pc, i, strayed, calls>>

\* While it does, what the descriptors are to give has been noted.
LEMMA AllNoted ==
    Inv /\ pc \in {"poll", "events"} =>
        \A fd \in Fds : events[fd] = WantOf(fd) /\ reify[fd] = {} /\ (events[fd] = {} \/ Watched(fd) \/ Ready(fd))
<1> SUFFICES ASSUME Inv, pc \in {"poll", "events"}, NEW fd \in Fds
             PROVE  events[fd] = WantOf(fd) /\ reify[fd] = {} /\ (events[fd] = {} \/ Watched(fd) \/ Ready(fd))
  OBVIOUS
<1>1. ~ToDo(fd)
  BY DEF Inv, Phases, ToDo, Types
<1>2. events[fd] = WantOf(fd) /\ reify[fd] = {}
  BY <1>1 DEF Inv, Noted
<1>3. On(fd) = {} => events[fd] = {}
  BY <1>2 DEF WantOf
<1>4. pc # "reify"
  OBVIOUS
<1>5. (\A w \in Watchers : Fd[w] = fd => w \in fdset) /\ On(fd) = {} => events[fd] = {}
  BY <1>3
<1> QED BY <1>2, <1>3, <1>4 DEF Inv, Known, Lost

LEMMA ReportRight ==
    ASSUME Inv, NEW r \in reports
    PROVE  /\ r.fd \in Fds /\ r.file \in Files \ Regular /\ r.egen \in Nat /\ r.got \in (SUBSET Evs) \ {{}}
           /\ (r.egen = egen[r.fd] => "EPERM" \notin emask[r.fd])
<1>1. r \in [fd : Fds, file : Files \ Regular, egen : Nat, got : (SUBSET Evs) \ {{}}]
  BY DEF Inv, Types
<1>2. r.fd \in Fds /\ r.file \in Files \ Regular /\ r.egen \in Nat /\ r.got \in (SUBSET Evs) \ {{}}
  BY <1>1
<1>3. "EPERM" \in emask[r.fd] => r.egen < egen[r.fd]
  BY DEF Inv, Numbered
<1> QED BY <1>2, <1>3 DEF Inv, Types

\* The parts of the invariant that no event touches.
LEMMA LooksKeeps ==
    ASSUME Inv, NEW r, LooksAt(r), pending' \in [Watchers -> SUBSET (Evs \cup {"ERROR"})],
           interest' \subseteq [fd : Fds, file : Files \ Regular, events : SUBSET Evs, egen : Nat],
           emask' \in [Fds -> SUBSET (Evs \cup {"EPERM"})], postfork' \subseteq {1, 2}
    PROVE  Types' /\ Phases' /\ \A fd \in Fds : Noted(fd)'
<1>1. reports' \subseteq reports
  BY DEF LooksAt
<1>2. Types'
  BY <1>1 DEF Inv, Types, LooksAt
<1>3. Phases'
  BY DEF Inv, Phases, LooksAt
<1>4. ASSUME NEW fd \in Fds PROVE Noted(fd)'
  <2>1. On(fd)' = On(fd)
    BY DEF On, LooksAt
  <2> QED BY <2>1 DEF Inv, Noted, ToDo, WantOf, LooksAt
<1> QED BY <1>2, <1>3, <1>4

LEMMA FdEventRight ==
    ASSUME Inv, NEW r \in reports, FdEvent(r.fd, r.got)
    PROVE  pending' \in [Watchers -> SUBSET (Evs \cup {"ERROR"})]
BY Constants DEF Inv, Types, FdEvent

\* An event of another number, which only a stray interest can give.
LEMMA OtherNumberKeeps ==
    ASSUME Inv, NEW r, LooksAt(r), r.egen # egen[r.fd], AskRenewal, UNCHANGED <<interest, emask>>
    PROVE  Inv'
<1>1. strayed
  BY DEF Inv, Orderly, LooksAt
<1>2. Types' /\ Phases' /\ \A fd \in Fds : Noted(fd)'
  BY LooksKeeps DEF AskRenewal, Inv, Types
<1>3. \A fd \in Fds : Mine(fd)' = Mine(fd)
  BY DEF Mine, LooksAt
<1>4. \A fd \in Fds : Lost(fd)' = Lost(fd)
  BY DEF Lost, On, LooksAt
<1>5. \A fd \in Fds : Known(fd)' /\ Believed(fd)' /\ Listed(fd)'
  BY <1>3, <1>4 DEF Inv, Known, Watched, Ready, Refused, Believed, Listed, LooksAt
<1>6. Numbered'
  BY DEF Inv, Numbered, LooksAt
<1>7. Current'
  <2>1. \A s \in reports : s.fd \in Fds
    BY ReportRight
  <2> QED BY <1>3, <2>1 DEF Inv, Current, LooksAt
<1>8. Orderly'
  BY <1>1 DEF Orderly, LooksAt
<1> QED BY <1>2, <1>5, <1>6, <1>7, <1>8 DEF Inv

\* An event that was asked for.
LEMMA WantedKeeps ==
    ASSUME Inv, NEW r, LooksAt(r), FdEvent(r.fd, r.got), UNCHANGED <<interest, emask, postfork>>
    PROVE  Inv'
<1>1. Types' /\ Phases' /\ \A fd \in Fds : Noted(fd)'
  <2>1. pending' \in [Watchers -> SUBSET (Evs \cup {"ERROR"})]
    BY FdEventRight DEF LooksAt
  <2> QED BY <2>1, LooksKeeps DEF Inv, Types
<1>2. \A fd \in Fds : Mine(fd)' = Mine(fd)
  BY DEF Mine, LooksAt
<1>3. \A fd \in Fds : Lost(fd)' = Lost(fd)
  BY DEF Lost, On, LooksAt
<1>4. \A fd \in Fds : Known(fd)' /\ Believed(fd)' /\ Listed(fd)'
  BY <1>2, <1>3 DEF Inv, Known, Watched, Ready, Refused, Believed, Listed, LooksAt
<1>5. Numbered'
  BY DEF Inv, Numbered, LooksAt
<1>6. \A s \in reports : s.fd \in Fds
  BY ReportRight
<1>7. Current'
  BY <1>2, <1>6 DEF Inv, Current, LooksAt
<1>8. Orderly'
  BY <1>2, <1>6 DEF Inv, Orderly, LooksAt
<1> QED BY <1>1, <1>4, <1>5, <1>7, <1>8 DEF Inv

\* An unwanted event of a descriptor whose file epoll does not watch any more.
LEMMA UnmaskedKeeps ==
    ASSUME Inv, NEW r, LooksAt(r), r.egen = egen[r.fd], emask' = [emask EXCEPT ![r.fd] = events[r.fd]],
           AskRenewal, UNCHANGED interest, Mine(r.fd) = {}
    PROVE  Inv'
<1>1. r \in reports /\ r.fd \in Fds /\ "EPERM" \notin emask[r.fd]
  BY ReportRight DEF LooksAt
<1>2. events[r.fd] = {}
  BY <1>1, AllNoted DEF Watched, Ready, Refused, LooksAt
<1>3. emask' \in [Fds -> SUBSET (Evs \cup {"EPERM"})] /\ emask'[r.fd] = {}
      /\ \A fd \in Fds : fd # r.fd => emask'[fd] = emask[fd]
  BY <1>1, <1>2 DEF Inv, Types
<1>4. strayed
  BY <1>1 DEF Inv, Orderly
<1>5. Types' /\ Phases' /\ \A fd \in Fds : Noted(fd)'
  BY <1>3, LooksKeeps DEF AskRenewal, Inv, Types
<1>6. \A fd \in Fds : Mine(fd)' = Mine(fd)
  BY DEF Mine, LooksAt
<1>7. \A fd \in Fds : Lost(fd)' = Lost(fd)
  BY DEF Lost, On, LooksAt
<1>8. \A fd \in Fds : Known(fd)'
  BY <1>2, <1>3, <1>6, <1>7 DEF Inv, Known, Watched, Ready, Refused, LooksAt
<1>9. \A fd \in Fds : Believed(fd)' /\ Listed(fd)'
  BY <1>3, <1>6 DEF Inv, Believed, Listed, LooksAt
<1>10. Numbered'
  <2>1. \A e \in interest : e.fd \in Fds
    BY DEF Inv, Types
  <2>2. \A s \in reports : s.fd \in Fds
    BY ReportRight
  <2> QED BY <1>3, <2>1, <2>2 DEF Inv, Numbered, LooksAt
<1>11. Current'
  <2>1. \A s \in reports : s.fd \in Fds
    BY ReportRight
  <2> QED BY <1>6, <2>1 DEF Inv, Current, LooksAt
<1>12. Orderly'
  BY <1>4 DEF Orderly, LooksAt
<1> QED BY <1>5, <1>8, <1>9, <1>10, <1>11, <1>12 DEF Inv

\* An unwanted event, of which the kernel is told.
LEMMA CorrectedKeeps ==
    ASSUME Inv, NEW r, LooksAt(r), r.egen = egen[r.fd], emask' = [emask EXCEPT ![r.fd] = events[r.fd]],
           Ctl(IF events[r.fd] = {} THEN "DEL" ELSE "MOD", r.fd, events[r.fd], r.egen),
           FdEvent(r.fd, r.got), UNCHANGED postfork, Mine(r.fd) # {}, open[r.fd] \in Files \ Regular
    PROVE  Inv'
<1>1. /\ r \in reports /\ r.fd \in Fds /\ r.egen \in Nat /\ r.egen = egen[r.fd] /\ "EPERM" \notin emask[r.fd]
      /\ events[r.fd] \subseteq Evs /\ "EPERM" \notin events[r.fd]
  BY ReportRight, Constants DEF LooksAt, Inv, Types
<1>2. PICK g : g = Entry(r.fd, open[r.fd], events[r.fd], r.egen)
  OBVIOUS
<1>3. /\ g.fd = r.fd /\ g.file = open[r.fd] /\ g.events = events[r.fd] /\ g.egen = r.egen
      /\ g \in [fd : Fds, file : Files \ Regular, events : SUBSET Evs, egen : Nat]
  BY <1>1, <1>2 DEF Entry
<1>4. interest' = (interest \ Mine(r.fd)) \cup (IF events[r.fd] = {} THEN {} ELSE {g})
  BY <1>2 DEF Ctl
<1>5. emask' \in [Fds -> SUBSET (Evs \cup {"EPERM"})] /\ emask'[r.fd] = events[r.fd]
      /\ \A fd \in Fds : fd # r.fd => emask'[fd] = emask[fd]
  BY <1>1 DEF Inv, Types
<1>6. Types' /\ Phases' /\ \A fd \in Fds : Noted(fd)'
  <2>1. pending' \in [Watchers -> SUBSET (Evs \cup {"ERROR"})]
    BY <1>1, FdEventRight
  <2>2. interest' \subseteq [fd : Fds, file : Files \ Regular, events : SUBSET Evs, egen : Nat]
    BY <1>3, <1>4 DEF Inv, Types
  <2> QED BY <1>5, <2>1, <2>2, LooksKeeps DEF Inv, Types
<1>7. /\ \A fd \in Fds : fd # r.fd => Mine(fd)' = Mine(fd)
      /\ \A e \in Mine(r.fd)' : e = g /\ events[r.fd] # {}
      /\ events[r.fd] # {} => g \in Mine(r.fd)'
  <2>1. open' = open
    BY DEF LooksAt
  <2>2. \A fd \in Fds : fd # r.fd => Mine(fd)' = Mine(fd)
    BY <1>3, <1>4, <2>1 DEF Mine
  <2>3. \A e \in Mine(r.fd)' : e = g /\ events[r.fd] # {}
    BY <1>4, <2>1 DEF Mine
  <2>4. events[r.fd] # {} => g \in Mine(r.fd)'
    BY <1>3, <1>4, <2>1 DEF Mine
  <2> QED BY <2>2, <2>3, <2>4
<1>8. ASSUME NEW fd \in Fds PROVE Known(fd)' /\ Believed(fd)' /\ Listed(fd)'
  <2>1. CASE fd = r.fd
    <3>1. events[r.fd] # {} => Watched(r.fd)'
      BY <1>1, <1>3, <1>7 DEF Watched, LooksAt
    <3>2. Known(r.fd)'
      BY <3>1 DEF Known, LooksAt
    <3>3. Believed(r.fd)' /\ Listed(r.fd)'
      BY <1>1, <1>3, <1>5, <1>7 DEF Believed, Listed, LooksAt
    <3> QED BY <2>1, <3>2, <3>3
  <2>2. CASE fd # r.fd
    <3>1. Lost(fd)' = Lost(fd)
      BY DEF Lost, On, LooksAt
    <3>2. Mine(fd)' = Mine(fd) /\ emask'[fd] = emask[fd]
      BY <1>5, <1>7, <2>2
    <3>3. Known(fd)'
      BY <3>1, <3>2 DEF Inv, Known, Watched, Ready, Refused, LooksAt
    <3> QED BY <3>2, <3>3 DEF Inv, Believed, Listed, LooksAt
  <2> QED BY <2>1, <2>2
<1>9. \A e \in interest' : e \in interest \/ e = g
  BY <1>4
<1>10. Numbered'
  <2>1. \A fd \in Fds : "EPERM" \in emask'[fd] => "EPERM" \in emask[fd]
    BY <1>1, <1>5
  <2>2. \A e \in interest' : e.egen <= egen[e.fd] /\ ("EPERM" \in emask'[e.fd] => e.egen < egen[e.fd])
    <3>1. \A e \in interest : e.fd \in Fds
      BY DEF Inv, Types
    <3>2. \A e \in interest : e.egen <= egen[e.fd] /\ ("EPERM" \in emask'[e.fd] => e.egen < egen[e.fd])
      BY <2>1, <3>1 DEF Inv, Numbered
    <3>3. g.egen <= egen[g.fd] /\ "EPERM" \notin emask'[g.fd]
      BY <1>1, <1>3, <1>5
    <3> QED BY <1>9, <3>2, <3>3
  <2>3. \A s \in reports : s.egen <= egen[s.fd] /\ ("EPERM" \in emask'[s.fd] => s.egen < egen[s.fd])
    <3>1. \A s \in reports : s.fd \in Fds
      BY ReportRight
    <3> QED BY <2>1, <3>1 DEF Inv, Numbered
  <2>4. \A e \in interest : e.fd = r.fd /\ e.egen = r.egen => e \in Mine(r.fd)
    <3>1. PICK h \in Mine(r.fd) : TRUE
      OBVIOUS
    <3>2. h \in interest /\ h.fd = r.fd /\ h.egen = r.egen
      BY <1>1, <3>1 DEF Mine, Inv, Believed
    <3> QED BY <3>1, <3>2 DEF Inv, Numbered
  <2>5. \A e, f \in interest' : e.fd = f.fd /\ e.egen = f.egen => e = f
    <3>1. \A e \in interest' : e = g \/ (e \in interest /\ ~(e.fd = g.fd /\ e.egen = g.egen))
      BY <1>3, <1>4, <2>4
    <3> QED BY <3>1 DEF Inv, Numbered
  <2> QED BY <2>2, <2>3, <2>5 DEF Numbered, LooksAt
<1>11. \A s \in reports : s.fd \in Fds
  BY ReportRight
<1>12. Current'
  <2> SUFFICES ASSUME NEW s \in reports, s.egen = egen[s.fd], Mine(s.fd)' # {} PROVE s.file = open[s.fd]
    BY DEF Current, LooksAt
  <2>1. Mine(s.fd) # {}
    BY <1>7, <1>11
  <2> QED BY <2>1 DEF Inv, Current
<1>13. Orderly'
  <2> SUFFICES ASSUME ~strayed PROVE Orderly'
    BY DEF Orderly, LooksAt
  <2>1. /\ \A e \in interest : e.file = open[e.fd]
        /\ \A s \in reports : s.file = open[s.fd] /\ s.egen = egen[s.fd] /\ Mine(s.fd) # {}
        /\ \A s, t \in reports : s.fd = t.fd => s = t
        /\ 2 \notin postfork
    BY DEF Inv, Orderly
  <2>2. \A e \in interest' : e.file = open[e.fd]
    BY <1>3, <1>9, <2>1
  <2>3. \A s \in reports' : s \in reports /\ s.fd # r.fd /\ Mine(s.fd)' = Mine(s.fd)
    BY <1>1, <1>7, <1>11, <2>1 DEF LooksAt
  <2> QED BY <2>1, <2>2, <2>3 DEF Orderly, LooksAt
<1> QED BY <1>6, <1>8, <1>10, <1>12, <1>13 DEF Inv

\* Which of these it is.
LEMMA EventCases ==
    ASSUME Inv, NEW r, LooksAt(r), Event(r)
    PROVE  \/ r.egen # egen[r.fd] /\ AskRenewal /\ UNCHANGED <<interest, emask>>
           \/ /\ r.egen = egen[r.fd] /\ ~Unwanted(r)
              /\ FdEvent(r.fd, r.got) /\ UNCHANGED <<interest, emask, postfork>>
           \/ /\ r.egen = egen[r.fd] /\ Mine(r.fd) = {}
              /\ emask' = [emask EXCEPT ![r.fd] = events[r.fd]] /\ AskRenewal /\ UNCHANGED interest
           \/ /\ r.egen = egen[r.fd] /\ Mine(r.fd) # {} /\ open[r.fd] \in Files \ Regular
              /\ Ctl(IF events[r.fd] = {} THEN "DEL" ELSE "MOD", r.fd, events[r.fd], r.egen)
              /\ emask' = [emask EXCEPT ![r.fd] = events[r.fd]]
              /\ FdEvent(r.fd, r.got) /\ UNCHANGED postfork
<1>1. PICK op \in {"DEL", "MOD"} : op = IF events[r.fd] = {} THEN "DEL" ELSE "MOD"
  OBVIOUS
<1>2. r.fd \in Fds
  BY ReportRight DEF LooksAt
<1>3. CASE r.egen # egen[r.fd]
  BY <1>3 DEF Event
<1>4. CASE r.egen = egen[r.fd] /\ ~Unwanted(r)
  BY <1>4 DEF Event
<1>5. CASE r.egen = egen[r.fd] /\ Unwanted(r)
  <2>1. /\ emask' = [emask EXCEPT ![r.fd] = events[r.fd]]
        /\ IF Errno(op, r.fd) = "0"
           THEN Ctl(op, r.fd, events[r.fd], r.egen) /\ FdEvent(r.fd, r.got) /\ UNCHANGED postfork
           ELSE AskRenewal /\ UNCHANGED interest
    BY <1>1, <1>5 DEF Event
  <2>2. open[r.fd] \in Files \cup {closed}
    BY <1>2 DEF Inv, Types
  <2>3. open[r.fd] \notin Files \ Regular => Mine(r.fd) = {}
    BY DEF Mine, Inv, Types
  <2>4. (Errno(op, r.fd) = "0") = (open[r.fd] \in Files \ Regular /\ Mine(r.fd) # {})
    BY <2>2, <2>3, Constants DEF Errno
  <2>5. CASE Mine(r.fd) = {}
    BY <1>5, <2>1, <2>4, <2>5
  <2>6. CASE Mine(r.fd) # {}
    BY <1>1, <1>5, <2>1, <2>3, <2>4, <2>6
  <2> QED BY <2>5, <2>6
<1> QED BY <1>3, <1>4, <1>5

LEMMA EpollEventKeeps == ASSUME Inv, EpollEvent PROVE Inv'
<1>1. PICK r : LooksAt(r) /\ Event(r)
  BY DEF EpollEvent, LooksAt
<1> QED BY <1>1, EventCases, OtherNumberKeeps, WantedKeeps, UnmaskedKeeps, CorrectedKeeps
-----------------------------------------------------------------------------
(* The theorems.                                                           *)

LEMMA InitHolds == Init => Inv
<1> SUFFICES ASSUME Init PROVE Inv
  OBVIOUS
<1>1. /\ open \in [Fds -> Files] /\ held = {} /\ active = {} /\ fdset = Watchers /\ interest = {}
      /\ pending = [w \in Watchers |-> {}] /\ events = [fd \in Fds |-> {}]
      /\ reify = [fd \in Fds |-> {}] /\ emask = [fd \in Fds |-> {}] /\ egen = [fd \in Fds |-> 0]
      /\ eperms = [fd \in Fds |-> 0] /\ fdchanges = <<>> /\ postfork = {} /\ pc = "program"
      /\ i = 0 /\ reports = {} /\ strayed = FALSE /\ calls = 0
  BY DEF Init, EpollInit
<1>2. Types
  <2>1. open \in [Fds -> Files \cup {closed}]
    BY <1>1
  <2>2. i \in 0 .. Len(fdchanges) /\ fdchanges \in Seq(Fds)
    BY <1>1
  <2>3. calls \in 0 .. MaxCalls
    BY <1>1, Constants
  <2> QED BY <1>1, <2>1, <2>2, <2>3 DEF Types
<1>3. Phases
  BY <1>1 DEF Phases
<1>4. ASSUME NEW fd \in Fds PROVE Noted(fd) /\ Known(fd) /\ Believed(fd) /\ Listed(fd)
  <2>1. WantOf(fd) = {}
    BY <1>1 DEF WantOf, On
  <2> QED BY <1>1, <2>1 DEF Noted, Known, Believed, Listed, Mine
<1>5. Numbered /\ Current /\ Orderly
  BY <1>1 DEF Numbered, Current, Orderly
<1> QED BY <1>2, <1>3, <1>4, <1>5 DEF Inv

LEMMA StutterKeeps == ASSUME Inv, UNCHANGED vars PROVE Inv'
<1>1. /\ UNCHANGED <<open, held, interest, active, fdset, pending, events, reify, emask, egen>>
      /\ UNCHANGED <<fdchanges, eperms, postfork, pc, i, reports, strayed, calls>>
  BY DEF vars, kernelVars, watcherVars, anfdVars, loopVars
<1>2. Types' /\ Phases'
  BY <1>1 DEF Inv, Types, Phases
<1>3. /\ \A fd \in Fds : Believed(fd)' /\ Listed(fd)' /\ Mine(fd)' = Mine(fd)
      /\ Numbered' /\ Current' /\ Orderly'
  BY <1>1, KernelPartStays
<1>4. ASSUME NEW fd \in Fds PROVE Noted(fd)' /\ Known(fd)'
  <2>1. On(fd)' = On(fd) /\ (Lost(fd) => Lost(fd)')
    BY <1>1 DEF On, Lost
  <2>2. Noted(fd)'
    BY <1>1, <2>1 DEF Inv, Noted, ToDo, WantOf
  <2>3. Known(fd)'
    BY <1>1, <1>3, <2>1, KnownStays DEF Inv, Known
  <2> QED BY <2>2, <2>3
<1> QED BY <1>2, <1>3, <1>4 DEF Inv

LEMMA StepKeeps == ~Restoring /\ Inv /\ [Next]_vars => Inv'
<1> SUFFICES ASSUME ~Restoring, Inv, [Next]_vars PROVE Inv'
  OBVIOUS
<1>1. CASE LoopStep
  BY <1>1, FdReifyKeeps, FdReifyDoneKeeps, IterateKeeps, EpollWaitKeeps, EpollEventKeeps,
     EpollEpermsKeeps DEF LoopStep
<1>2. CASE Program
  <2>1. CASE \E w \in Watchers : Callback(w) \/ Start(w) \/ Stop(w)
    BY <2>1, CallbackKeeps, StartKeeps, StopKeeps
  <2>2. CASE (\E w \in Watchers : Set(w)) \/ (\E file \in Files : Hold(file)) \/ LoopFork
    BY <2>2, SetHoldForkKeeps
  <2>3. CASE \E fd \in Fds : Close(fd) \/ \E file \in Files : Open(fd, file)
    BY <2>3, CloseKeeps, OpenKeeps
  <2>4. CASE \E file \in Files : Release(file)
    BY <2>4, ReleaseKeeps
  <2> QED BY <1>2, <2>1, <2>2, <2>3, <2>4 DEF Program
<1>3. CASE UNCHANGED vars
  BY <1>3, StutterKeeps
<1> QED BY <1>1, <1>2, <1>3 DEF Next

\* The invariant holds of every behaviour, if no descriptor gets back a file
\* that epoll still watches under its number.
LEMMA InvHolds == ASSUME ~Restoring PROVE Spec => []Inv
<1>1. Inv /\ [Next]_vars => Inv'
  BY StepKeeps
<1> QED BY InitHolds, <1>1, PTL DEF Spec

LEMMA InvAgrees == Inv => KernelAgrees
<1> SUFFICES ASSUME Inv PROVE KernelAgrees
  OBVIOUS
<1>1. TypeOK
  <2>1. \A e \in interest : e.fd \in Fds /\ e.file \in Files \ Regular /\ e.events \in SUBSET Evs
    BY DEF Inv, Types
  <2>2. \A r \in reports : r.fd \in Fds /\ r.got \in (SUBSET Evs) \ {{}}
    BY DEF Inv, Types
  <2> QED BY <2>1, <2>2 DEF Inv, Types, TypeOK
<1>2. KernelWatches
  <2> SUFFICES ASSUME pc = "poll"
               PROVE  /\ \A fd \in Fds : events[fd] = WantOf(fd) /\ reify[fd] = {}
                      /\ \A w \in active :
                           \/ \E e \in Mine(Fd[w]) : Wants[w] \subseteq e.events /\ e.egen = egen[Fd[w]]
                           \/ Refused(Fd[w]) /\ eperms[Fd[w]] > 0
    BY DEF KernelWatches
  <2>1. \A fd \in Fds : events[fd] = WantOf(fd) /\ reify[fd] = {} /\ (events[fd] = {} \/ Watched(fd) \/ Ready(fd))
    BY AllNoted
  <2>2. ASSUME NEW w \in active
        PROVE  \/ \E e \in Mine(Fd[w]) : Wants[w] \subseteq e.events /\ e.egen = egen[Fd[w]]
               \/ Refused(Fd[w]) /\ eperms[Fd[w]] > 0
    <3>1. w \in Watchers /\ Fd[w] \in Fds /\ w \in On(Fd[w]) /\ Wants[w] # {}
      BY Constants DEF Inv, Types, On
    <3>2. Wants[w] \subseteq WantOf(Fd[w])
      BY <3>1 DEF WantOf
    <3>3. Watched(Fd[w]) \/ Ready(Fd[w])
      BY <2>1, <3>1, <3>2
    <3> QED BY <2>1, <3>1, <3>2, <3>3 DEF Watched, Ready
  <2> QED BY <2>1, <2>2
<1>3. RenewedForStraysOnly
  BY DEF Inv, Orderly, RenewedForStraysOnly
<1> QED BY <1>1, <1>2, <1>3 DEF KernelAgrees

\* What the loop does with the events of epoll_wait: only EpollEvent looks at
\* one, and nothing else that is done while there are some calls a watcher.
LEMMA OnlyEvents ==
    ASSUME Inv, [Next]_vars, NEW r \in reports
    PROVE  \/ \E s \in reports : LooksAt(s) /\ Event(s)
           \/ UNCHANGED <<reports, pending>>
<1>1. pc = "events" /\ reports # {}
  BY DEF Inv, Phases
<1>2. CASE UNCHANGED vars
  BY <1>2 DEF vars, loopVars, watcherVars
<1>3. CASE LoopStep
  BY <1>1, <1>3 DEF LoopStep, FdReify, FdReifyDone, Iterate, EpollWait, EpollEvent, EpollEperms, LooksAt
<1>4. CASE Program
  <2>1. PICK file \in Files : Release(file)
    BY <1>1, <1>4 DEF Program, Callback, Start, Stop, Set, Close, Open, Hold, LoopFork, Call
  <2> QED BY <2>1 DEF Release, loopVars, watcherVars
<1> QED BY <1>2, <1>3, <1>4 DEF Next

LEMMA NotStale ==
    Inv /\ [Next]_vars =>
        \A r \in reports : reports' = reports \ {r} /\ pending' # pending => r.file = open[r.fd]
<1> SUFFICES ASSUME Inv, [Next]_vars, NEW r \in reports, reports' = reports \ {r}, pending' # pending
             PROVE  r.file = open[r.fd]
  OBVIOUS
<1>1. PICK s \in reports : LooksAt(s) /\ Event(s)
  BY OnlyEvents
<1>2. s = r /\ pc = "events"
  BY <1>1 DEF LooksAt
<1>3. r.egen = egen[r.fd] /\ FdEvent(r.fd, r.got)
  BY <1>1, <1>2, EventCases DEF AskRenewal
<1>4. r.fd \in Fds /\ "EPERM" \notin emask[r.fd]
  BY <1>3, ReportRight
<1>5. On(r.fd) # {}
  <2> SUFFICES ASSUME On(r.fd) = {} PROVE pending' = pending
    OBVIOUS
  <2>1. pending' = [w \in Watchers |-> pending[w]]
    BY <1>3 DEF FdEvent
  <2> QED BY <2>1 DEF Inv, Types
<1>6. events[r.fd] # {}
  <2>1. PICK w \in On(r.fd) : TRUE
    BY <1>5
  <2>2. Wants[w] # {} /\ Wants[w] \subseteq WantOf(r.fd)
    BY <2>1, Constants DEF On, WantOf, Inv, Types
  <2> QED BY <1>2, <1>4, <2>2, AllNoted
<1>7. Mine(r.fd) # {}
  BY <1>2, <1>4, <1>6, AllNoted DEF Watched, Ready, Refused
<1> QED BY <1>3, <1>7 DEF Inv, Current

LEMMA Answered ==
    Inv /\ [Next]_vars =>
        \A r \in reports : r \notin reports' /\ (Unwanted(r) \/ egen[r.fd] # r.egen) =>
            postfork' # {} \/ \A e \in interest' :
                e.fd = r.fd /\ e.file = r.file => e.events \subseteq events[r.fd]
<1> SUFFICES ASSUME Inv, [Next]_vars, NEW r \in reports, r \notin reports', Unwanted(r) \/ egen[r.fd] # r.egen,
                    postfork' = {}, NEW e \in interest', e.fd = r.fd, e.file = r.file
             PROVE  e.events \subseteq events[r.fd]
  OBVIOUS
<1>1. PICK s \in reports : LooksAt(s) /\ Event(s)
  BY OnlyEvents
<1>2. s = r
  BY <1>1 DEF LooksAt
<1>3. /\ r.egen = egen[r.fd] /\ Mine(r.fd) # {}
      /\ Ctl(IF events[r.fd] = {} THEN "DEL" ELSE "MOD", r.fd, events[r.fd], r.egen)
  BY <1>1, <1>2, EventCases DEF AskRenewal
<1>4. r.file = open[r.fd]
  BY <1>3 DEF Inv, Current
<1>5. e \notin interest \ Mine(r.fd)
  BY <1>4 DEF Mine
<1>6. e = Entry(r.fd, open[r.fd], events[r.fd], r.egen)
  BY <1>3, <1>5 DEF Ctl
<1> QED BY <1>6 DEF Entry

\* When the loop polls, the kernel watches for every started watcher what it
\* asks for, under a number that epoll_poll will accept, or epoll_poll itself
\* knows that the descriptor is always ready; and the epoll set is renewed for
\* a stray event only if an interest has outlived its descriptor.
THEOREM KernelAgreesHolds == ASSUME ~Restoring PROVE Spec => []KernelAgrees
<1>1. Spec => []Inv
  BY InvHolds
<1> QED BY <1>1, InvAgrees, PTL

\* No watcher is fed an event of a file its descriptor does not name any more.
THEOREM NoStaleEventHolds == ASSUME ~Restoring PROVE Spec => NoStaleEvent
<1>1. Spec => []Inv
  BY InvHolds
<1> QED BY <1>1, NotStale, PTL DEF Spec, NoStaleEvent

\* After an event nobody asked for, the kernel is told to leave it, or the
\* epoll set will be renewed.
THEOREM SpuriousIsAnsweredHolds == ASSUME ~Restoring PROVE Spec => SpuriousIsAnswered
<1>1. Spec => []Inv
  BY InvHolds
<1> QED BY <1>1, Answered, PTL DEF Spec, SpuriousIsAnswered
-----------------------------------------------------------------------------
(* The other backends, for any watchers, descriptors and troubles: what    *)
(* poll, select and event ports are told, and the indices of poll.         *)

Entries == [fd : Fds, events : SUBSET Backend!Events]
WatchersOf(fd) == {w \in Watchers : FdOf[w] = fd}

TablesTyped ==
    /\ backend \in Backend!Backends /\ pc \in {"run", "reify", "poll"}
    /\ active \subseteq Watchers /\ fresh \subseteq Watchers /\ open \subseteq Fds
    /\ events \in [Fds -> SUBSET Backend!Events]

\* fdchanges has every descriptor with a flag once.
Queued ==
    /\ fdchanges \in Seq(Fds) /\ reify \in [Fds -> SUBSET {"reify", "fdset"}]
    /\ \A k, m \in 1 .. Len(fdchanges) : fdchanges[k] = fdchanges[m] => k = m
    /\ \A fd \in Fds : reify[fd] # {} <=> \E k \in 1 .. Len(fdchanges) : fdchanges[k] = fd

\* The others have the events that are asked for.
AskedOrQueued == \A fd \in Fds : reify[fd] = {} => events[fd] = Backend!Asked(active, fd)

\* ps has an entry for each descriptor with events, and no other; ix says where.
PollKept(ps, ix, ev) ==
    /\ ps \in Seq(Entries) /\ ix \in [Fds -> Int] /\ ev \in [Fds -> SUBSET Backend!Events]
    /\ \A k \in 1 .. Len(ps) : LET e == ps[k] IN ix[e.fd] = k - 1 /\ e.events # {} /\ e.events = ev[e.fd]
    /\ \A fd \in Fds : ix[fd] >= -1
    /\ \A fd \in Fds : ix[fd] >= 0 => ix[fd] < Len(ps) /\ ps[ix[fd] + 1].fd = fd
    /\ \A fd \in Fds : ev[fd] # {} => ix[fd] >= 0

PollTable ==
    IF backend = "poll" THEN PollKept(polls, pollidxs, events)
    ELSE polls = <<>> /\ pollidxs = [fd \in Fds |-> -1]

SelectTable == backend = "select" => vec = [e \in Backend!Events |-> {fd \in Fds : e \in events[fd]}]

\* A port has the events of a descriptor, unless an event or a close has ended the
\* association, and then it will be renewed before anyone waits for it.
Renewing(fd) == "fdset" \in reify[fd] \/ (Backend!Asked(active, fd) = {} /\ WatchersOf(fd) \subseteq fresh)
PortTable ==
    backend = "port" =>
      /\ kernel \in [Fds -> SUBSET Backend!Events]
      /\ \A fd \in Fds : kernel[fd] = {} \/ (kernel[fd] = events[fd] /\ fd \in open)
      /\ \A fd \in open : kernel[fd] = events[fd] \/ Renewing(fd)

TablesKept ==
    /\ TablesTyped /\ Queued /\ AskedOrQueued
    /\ pc = "poll" => fdchanges = <<>>
    /\ PollTable /\ SelectTable /\ PortTable
-----------------------------------------------------------------------------
(* What watchers ask for, and fd_change.                                   *)

LEMMA FdsRight ==
    /\ \E m \in Nat : Fds = 0 .. m
    /\ Fds \subseteq Nat /\ IsFiniteSet(Fds)
    /\ FdOf \in [Watchers -> Fds] /\ EventsOf \in [Watchers -> (SUBSET Backend!Events) \ {{}}]
<1>1. PICK m \in Nat : Fds = 0 .. m
  BY WatchersAssumption DEF Backend!WatchersRight
<1>2. IsFiniteSet(Fds)
  BY <1>1, FS_Interval
<1> QED BY <1>1, <1>2, WatchersAssumption DEF Backend!WatchersRight

LEMMA AskedRight ==
    ASSUME NEW ws \in SUBSET Watchers, NEW fd
    PROVE  /\ Backend!Asked(ws, fd) \subseteq Backend!Events
           /\ Backend!Asked(ws, fd) = {} <=> \A w \in ws : FdOf[w] # fd
BY FdsRight DEF Backend!Asked

LEMMA AskedAlike ==
    ASSUME NEW ws, NEW vs, NEW fd, \A w : FdOf[w] = fd => (w \in ws <=> w \in vs)
    PROVE  Backend!Asked(ws, fd) = Backend!Asked(vs, fd)
<1>1. {v \in ws : FdOf[v] = fd} = {v \in vs : FdOf[v] = fd}
  OBVIOUS
<1> QED BY <1>1 DEF Backend!Asked

\* Every order of a finite set has each element of it once.
LEMMA OrderRight ==
    ASSUME NEW S, IsFiniteSet(S), NEW s \in Backend!SetToSeqs(S)
    PROVE  /\ s \in Seq(S)
           /\ \A k, m \in 1 .. Len(s) : s[k] = s[m] => k = m
           /\ \A x \in S : \E k \in 1 .. Len(s) : s[k] = x
<1>1. PICK n : n = Cardinality(S)
  OBVIOUS
<1>2. n \in Nat
  BY <1>1, FS_CardinalityType
<1>3. Backend!Cardinality(S) = n
  BY <1>1 DEF Backend!Cardinality, Backend!IsFiniteSet, Cardinality, IsFiniteSet
<1>4. s \in [1 .. n -> S] /\ \A k, m \in 1 .. n : k # m => s[k] # s[m]
  BY <1>3 DEF Backend!SetToSeqs
<1>5. s \in Injection(1 .. n, S)
  BY <1>4 DEF Injection, IsInjective
<1>6. Cardinality(1 .. n) = n
  BY <1>2, FS_Interval
<1>7. s \in Surjection(1 .. n, S)
  BY <1>1, <1>5, <1>6, FS_Injection
<1>8. \A x \in S : \E k \in 1 .. n : s[k] = x
  BY <1>7 DEF Surjection
<1>9. s \in Seq(S) /\ Len(s) = n
  BY <1>2, <1>4
<1> QED BY <1>4, <1>8, <1>9

LEMMA ChangeKeeps ==
    ASSUME Queued, NEW fds \in SUBSET Fds, NEW flags \in SUBSET {"reify", "fdset"}, flags # {},
           Backend!FdChange(fds, flags)
    PROVE  /\ Queued'
           /\ \A fd \in Fds : reify'[fd] = IF fd \in fds THEN reify[fd] \cup flags ELSE reify[fd]
<1>1. PICK old : old = {fd \in fds : reify[fd] = {}}
  OBVIOUS
<1>2. old \subseteq Fds /\ IsFiniteSet(old)
  <2>1. old \in SUBSET Fds
    BY <1>1
  <2> QED BY <2>1, FdsRight, FS_Subset
<1>3. PICK t \in Backend!SetToSeqs(old) : fdchanges' = fdchanges \o t
  BY <1>1 DEF Backend!FdChange
<1>4. /\ t \in Seq(Fds)
      /\ \A k \in 1 .. Len(t) : t[k] \in old
      /\ \A k, m \in 1 .. Len(t) : t[k] = t[m] => k = m
      /\ \A x \in old : \E k \in 1 .. Len(t) : t[k] = x
  <2>1. /\ t \in Seq(old)
        /\ \A k, m \in 1 .. Len(t) : t[k] = t[m] => k = m
        /\ \A x \in old : \E k \in 1 .. Len(t) : t[k] = x
    BY <1>2, OrderRight
  <2> QED BY <1>2, <2>1
<1>5. PICK s : s = fdchanges
  OBVIOUS
<1>6. PICK u : u = fdchanges' /\ u = s \o t
  BY <1>3, <1>5
<1>7. s \in Seq(Fds) /\ \A k, m \in 1 .. Len(s) : s[k] = s[m] => k = m
  BY <1>5 DEF Queued
<1>8. /\ u \in Seq(Fds) /\ Len(s) \in Nat /\ Len(t) \in Nat /\ Len(u) = Len(s) + Len(t)
      /\ \A k \in 1 .. Len(s) : u[k] = s[k]
      /\ \A k \in 1 .. Len(t) : u[Len(s) + k] = t[k]
  BY <1>4, <1>6, <1>7, ConcatRight
<1>9. \A k \in 1 .. Len(s) : s[k] \notin old
  BY <1>1, <1>5, <1>7 DEF Queued
<1>10. \A k \in 1 .. Len(u) : k \in 1 .. Len(s) \/ (k - Len(s) \in 1 .. Len(t) /\ u[k] = t[k - Len(s)])
  <2> SUFFICES ASSUME NEW k \in 1 .. Len(u), k > Len(s)
               PROVE  k - Len(s) \in 1 .. Len(t) /\ u[k] = t[k - Len(s)]
    BY <1>8
  <2>1. k - Len(s) \in 1 .. Len(t) /\ Len(s) + (k - Len(s)) = k
    BY <1>8
  <2> QED BY <1>8, <2>1
<1>11. ASSUME NEW k \in 1 .. Len(u), NEW m \in 1 .. Len(u), u[k] = u[m] PROVE k = m
  <2>1. CASE k \in 1 .. Len(s) /\ m \in 1 .. Len(s)
    BY <1>7, <1>8, <1>11, <2>1
  <2>2. CASE k \notin 1 .. Len(s) /\ m \notin 1 .. Len(s)
    <3>1. k - Len(s) = m - Len(s)
      BY <1>4, <1>10, <1>11, <2>2
    <3> QED BY <1>8, <3>1
  <2>3. \A j \in 1 .. Len(u) : j \in 1 .. Len(s) <=> u[j] \notin old
    BY <1>4, <1>8, <1>9, <1>10
  <2>4. CASE k \in 1 .. Len(s) <=> m \notin 1 .. Len(s)
    BY <1>11, <2>3, <2>4
  <2> QED BY <2>1, <2>2, <2>4
<1>12. reify' = [fd \in Fds |-> IF fd \in fds THEN reify[fd] \cup flags ELSE reify[fd]]
  BY DEF Backend!FdChange
<1>13. reify' \in [Fds -> SUBSET {"reify", "fdset"}]
  BY <1>12 DEF Queued
<1>14. ASSUME NEW fd \in Fds PROVE reify'[fd] # {} <=> \E k \in 1 .. Len(u) : u[k] = fd
  <2>1. CASE fd \in old
    <3>1. PICK k \in 1 .. Len(t) : t[k] = fd
      BY <1>4, <2>1
    <3>2. Len(s) + k \in 1 .. Len(u) /\ u[Len(s) + k] = fd
      BY <1>8, <3>1
    <3> QED BY <1>1, <1>12, <2>1, <3>2
  <2>2. CASE fd \notin old
    <3>1. reify'[fd] # {} <=> reify[fd] # {}
      BY <1>1, <1>12, <2>2
    <3>2. reify[fd] # {} <=> \E k \in 1 .. Len(s) : s[k] = fd
      BY <1>5 DEF Queued
    <3>3. (\E k \in 1 .. Len(s) : s[k] = fd) <=> (\E k \in 1 .. Len(u) : u[k] = fd)
      <4>1. ASSUME NEW k \in 1 .. Len(s), s[k] = fd PROVE \E m \in 1 .. Len(u) : u[m] = fd
        BY <1>8, <4>1
      <4>2. ASSUME NEW k \in 1 .. Len(u), u[k] = fd PROVE \E m \in 1 .. Len(s) : s[m] = fd
        BY <1>4, <1>8, <1>10, <2>2, <4>2
      <4> QED BY <4>1, <4>2
    <3> QED BY <3>1, <3>2, <3>3
  <2> QED BY <2>1, <2>2
<1>15. Queued'
  <2>1. /\ u \in Seq(Fds) /\ \A k, m \in 1 .. Len(u) : u[k] = u[m] => k = m
        /\ \A fd \in Fds : reify'[fd] # {} <=> \E k \in 1 .. Len(u) : u[k] = fd
    BY <1>8, <1>11, <1>14
  <2> QED BY <1>6, <1>13, <2>1 DEF Queued
<1> QED BY <1>12, <1>15

\* fd_kill stops watchers, and notes their descriptors.
LEMMA KillTables ==
    ASSUME TablesTyped, Queued, NEW fds, Backend!FdKill(fds)
    PROVE  /\ Queued' /\ active' \subseteq active
           /\ \A fd \in Fds : reify[fd] \subseteq reify'[fd]
           /\ \A fd \in Fds : reify'[fd] = {} => Backend!Asked(active, fd)' = Backend!Asked(active, fd)
           /\ \A fd \in Fds : Backend!Asked(active, fd) = {} => Backend!Asked(active, fd)' = {}
<1>1. PICK killed : killed = {w \in active : FdOf[w] \in fds}
  OBVIOUS
<1>2. PICK fs : fs = {FdOf[w] : w \in killed}
  OBVIOUS
<1>3. active' = active \ killed /\ Backend!FdChange(fs, {"reify"})
  BY <1>1, <1>2 DEF Backend!FdKill
<1>4. fs \in SUBSET Fds
  BY <1>1, <1>2, FdsRight DEF TablesTyped
<1>5. Queued' /\ \A fd \in Fds : reify'[fd] = IF fd \in fs THEN reify[fd] \cup {"reify"} ELSE reify[fd]
  BY <1>3, <1>4, ChangeKeeps
<1>6. ASSUME NEW fd \in Fds, reify'[fd] = {} PROVE Backend!Asked(active, fd)' = Backend!Asked(active, fd)
  <2>1. fd \notin fs
    BY <1>5, <1>6
  <2>2. \A w : FdOf[w] = fd => (w \in active' <=> w \in active)
    BY <1>2, <1>3, <2>1
  <2>3. {v \in active' : FdOf[v] = fd} = {v \in active : FdOf[v] = fd}
    BY <2>2
  <2> QED BY <2>3 DEF Backend!Asked
<1>7. ASSUME NEW fd \in Fds, Backend!Asked(active, fd) = {} PROVE Backend!Asked(active, fd)' = {}
  <2>1. \A w \in active' : FdOf[w] # fd
    BY <1>3, <1>7, AskedRight DEF TablesTyped
  <2> QED BY <2>1 DEF Backend!Asked
<1> QED BY <1>3, <1>5, <1>6, <1>7
-----------------------------------------------------------------------------
(* The table of poll.                                                      *)

LEMMA EntryChanged ==
    ASSUME NEW e \in Entries, NEW nev \in SUBSET Backend!Events
    PROVE  LET c == [e EXCEPT !.events = nev] IN c \in Entries /\ c.fd = e.fd /\ c.events = nev
BY DEF Entries

\* What PollKept says of one entry, and of one descriptor.
LEMMA PollReads ==
    ASSUME NEW ps, NEW ix, NEW ev, PollKept(ps, ix, ev)
    PROVE  /\ ps \in Seq(Entries) /\ ix \in [Fds -> Int] /\ ev \in [Fds -> SUBSET Backend!Events] /\ Len(ps) \in Nat
           /\ \A k \in 1 .. Len(ps) : /\ ps[k] \in Entries /\ ps[k].fd \in Fds /\ ix[ps[k].fd] = k - 1
                                      /\ ps[k].events # {} /\ ps[k].events = ev[ps[k].fd]
           /\ \A fd \in Fds : ix[fd] >= 0 => ix[fd] \in 0 .. Len(ps) - 1 /\ ps[ix[fd] + 1].fd = fd
           /\ \A fd \in Fds : ix[fd] < 0 => ix[fd] = -1 /\ ev[fd] = {}
<1>1. \A k \in 1 .. Len(ps) : ps[k] \in Entries
  BY DEF PollKept
<1>2. \A k \in 1 .. Len(ps) : ps[k].fd \in Fds
  BY <1>1 DEF Entries
<1>3. \A fd \in Fds : ix[fd] >= -1 /\ ix[fd] \in Int
  BY DEF PollKept
<1>4. Len(ps) \in Nat
  BY DEF PollKept
<1> QED BY <1>1, <1>2, <1>3, <1>4 DEF PollKept

\* An entry is given other events.
LEMMA PollSet ==
    ASSUME NEW ps, NEW ix, NEW ev, NEW fd \in Fds, NEW nev \in SUBSET Backend!Events,
           PollKept(ps, ix, ev), nev # {}, ix[fd] >= 0
    PROVE  PollKept([ps EXCEPT ![ix[fd] + 1].events = nev], ix, [ev EXCEPT ![fd] = nev])
<1>1. PICK n \in Nat : n = Len(ps)
  BY PollReads
<1>2. PICK k1 \in 1 .. n : k1 = ix[fd] + 1 /\ ps[k1].fd = fd /\ ix[fd] = k1 - 1
  BY <1>1, PollReads
<1>3. PICK c : c = [ps[k1] EXCEPT !.events = nev]
  OBVIOUS
<1>4. c \in Entries /\ c.fd = fd /\ c.events = nev
  <2>1. ps[k1] \in Entries
    BY <1>1, <1>2, PollReads
  <2> QED BY <1>2, <1>3, <2>1, EntryChanged
<1>5. PICK q : q = [ps EXCEPT ![k1] = c]
  OBVIOUS
<1>6. q \in Seq(Entries) /\ Len(q) = n /\ \A k \in 1 .. n : q[k] = IF k = k1 THEN c ELSE ps[k]
  BY <1>1, <1>2, <1>4, <1>5, PollReads
<1>7. PICK v : v = [ev EXCEPT ![fd] = nev]
  OBVIOUS
<1>8. v \in [Fds -> SUBSET Backend!Events] /\ v[fd] = nev /\ \A f \in Fds : f # fd => v[f] = ev[f]
  BY <1>7, PollReads
<1>9. ASSUME NEW k \in 1 .. n
      PROVE  ix[q[k].fd] = k - 1 /\ q[k].events # {} /\ q[k].events = v[q[k].fd]
  <2>1. CASE k = k1
    BY <1>2, <1>4, <1>6, <1>8, <2>1
  <2>2. CASE k # k1
    <3>1. /\ q[k] = ps[k] /\ ps[k].fd \in Fds /\ ix[ps[k].fd] = k - 1
          /\ ps[k].events # {} /\ ps[k].events = ev[ps[k].fd]
      BY <1>1, <1>6, <2>2, PollReads
    <3>2. ps[k].fd # fd
      BY <1>2, <2>2, <3>1
    <3> QED BY <1>8, <3>1, <3>2
  <2> QED BY <2>1, <2>2
<1>10. ASSUME NEW f \in Fds, ix[f] >= 0 PROVE ix[f] < n /\ q[ix[f] + 1].fd = f
  <2>1. ix[f] \in 0 .. n - 1 /\ ps[ix[f] + 1].fd = f
    BY <1>1, <1>10, PollReads
  <2>2. PICK k \in 1 .. n : k = ix[f] + 1
    BY <2>1
  <2> QED BY <1>2, <1>4, <1>6, <2>1, <2>2
<1>11. ASSUME NEW f \in Fds, v[f] # {} PROVE ix[f] >= 0
  <2>1. CASE f = fd
    BY <2>1
  <2>2. CASE f # fd
    BY <1>8, <1>11, <2>2 DEF PollKept
  <2> QED BY <2>1, <2>2
<1>12. PollKept(q, ix, v)
  <2>1. ix \in [Fds -> Int] /\ \A f \in Fds : ix[f] >= -1
    BY DEF PollKept
  <2> QED BY <1>6, <1>8, <1>9, <1>10, <1>11, <2>1 DEF PollKept
<1>13. [ps EXCEPT ![ix[fd] + 1].events = nev] = q
  BY <1>2, <1>3, <1>5
<1> QED BY <1>7, <1>12, <1>13

\* A new entry goes to the end.
LEMMA PollAdd ==
    ASSUME NEW ps, NEW ix, NEW ev, NEW fd \in Fds, NEW nev \in SUBSET Backend!Events,
           PollKept(ps, ix, ev), nev # {}, ix[fd] < 0
    PROVE  PollKept([Append(ps, [fd |-> fd, events |-> {}]) EXCEPT ![Len(ps) + 1].events = nev],
                    [ix EXCEPT ![fd] = Len(ps)], [ev EXCEPT ![fd] = nev])
<1>1. PICK n \in Nat : n = Len(ps)
  BY PollReads
<1>2. PICK b : b = [fd |-> fd, events |-> {}]
  OBVIOUS
<1>3. PICK a : a = Append(ps, b)
  OBVIOUS
<1>4. b \in Entries /\ b.fd = fd
  BY <1>2 DEF Entries
<1>5. /\ a \in Seq(Entries) /\ Len(a) = n + 1 /\ a[n + 1] = b
      /\ \A k \in 1 .. n : a[k] = ps[k]
  BY <1>1, <1>3, <1>4, PollReads
<1>6. PICK c : c = [a[n + 1] EXCEPT !.events = nev]
  OBVIOUS
<1>7. c \in Entries /\ c.fd = fd /\ c.events = nev
  BY <1>4, <1>5, <1>6, EntryChanged
<1>8. PICK q : q = [a EXCEPT ![n + 1] = c]
  OBVIOUS
<1>9. /\ q \in Seq(Entries) /\ Len(q) = n + 1 /\ q[n + 1] = c
      /\ \A k \in 1 .. n : q[k] = ps[k]
  BY <1>5, <1>7, <1>8
<1>10. PICK v : v = [ev EXCEPT ![fd] = nev]
  OBVIOUS
<1>11. PICK x : x = [ix EXCEPT ![fd] = n]
  OBVIOUS
<1>12. /\ v \in [Fds -> SUBSET Backend!Events] /\ v[fd] = nev /\ \A f \in Fds : f # fd => v[f] = ev[f]
       /\ x \in [Fds -> Int] /\ x[fd] = n /\ \A f \in Fds : f # fd => x[f] = ix[f]
  BY <1>10, <1>11, PollReads
<1>13. ASSUME NEW k \in 1 .. n + 1
       PROVE  x[q[k].fd] = k - 1 /\ q[k].events # {} /\ q[k].events = v[q[k].fd]
  <2>1. CASE k = n + 1
    BY <1>7, <1>9, <1>12, <2>1
  <2>2. CASE k \in 1 .. n
    <3>1. /\ q[k] = ps[k] /\ ps[k].fd \in Fds /\ ix[ps[k].fd] = k - 1
          /\ ps[k].events # {} /\ ps[k].events = ev[ps[k].fd]
      BY <1>1, <1>9, <2>2, PollReads
    <3>2. ps[k].fd # fd
      BY <2>2, <3>1
    <3> QED BY <1>12, <3>1, <3>2
  <2> QED BY <2>1, <2>2
<1>14. ASSUME NEW f \in Fds
       PROVE  x[f] >= -1 /\ (x[f] >= 0 => x[f] < n + 1 /\ q[x[f] + 1].fd = f) /\ (v[f] # {} => x[f] >= 0)
  <2>1. CASE f = fd
    BY <1>7, <1>9, <1>12, <2>1
  <2>2. CASE f # fd
    <3>1. x[f] = ix[f] /\ v[f] = ev[f]
      BY <1>12, <2>2
    <3>2. CASE ix[f] >= 0
      <4>1. ix[f] \in 0 .. n - 1 /\ ps[ix[f] + 1].fd = f
        BY <1>1, <3>2, PollReads
      <4>2. PICK k \in 1 .. n : k = ix[f] + 1
        BY <4>1
      <4> QED BY <1>9, <3>1, <4>1, <4>2
    <3>3. CASE ~(ix[f] >= 0)
      <4>1. ix[f] = -1 /\ ev[f] = {}
        BY <1>12, <3>1, <3>3, PollReads
      <4> QED BY <3>1, <4>1
    <3> QED BY <3>2, <3>3
  <2> QED BY <2>1, <2>2
<1>15. PollKept(q, x, v)
  BY <1>9, <1>12, <1>13, <1>14 DEF PollKept
<1>16. [a EXCEPT ![n + 1].events = nev] = q
  BY <1>6, <1>8
<1> QED BY <1>1, <1>2, <1>3, <1>10, <1>11, <1>15, <1>16

\* A removed entry is replaced by the last one, whose index follows.
LEMMA PollRemove ==
    ASSUME NEW ps, NEW ix, NEW ev, NEW fd \in Fds, PollKept(ps, ix, ev), ix[fd] >= 0
    PROVE  PollKept(Backend!Front([ps EXCEPT ![ix[fd] + 1] = ps[Len(ps)]]),
                    [f \in Fds |-> IF f = fd THEN -1 ELSE IF f = ps[Len(ps)].fd THEN ix[fd] ELSE ix[f]],
                    [ev EXCEPT ![fd] = {}])
<1>1. PICK n \in Nat : n = Len(ps)
  BY PollReads
<1>2. PICK k1 \in 1 .. n : k1 = ix[fd] + 1 /\ ps[k1].fd = fd /\ ix[fd] = k1 - 1
  BY <1>1, PollReads
<1>3. PICK l : l = ps[n]
  OBVIOUS
<1>4. l \in Entries /\ l.fd \in Fds /\ ix[l.fd] = n - 1 /\ l.events # {} /\ l.events = ev[l.fd]
  <2>1. n \in 1 .. Len(ps)
    BY <1>1, <1>2
  <2>2. /\ ps[n] \in Entries /\ ps[n].fd \in Fds /\ ix[ps[n].fd] = n - 1
        /\ ps[n].events # {} /\ ps[n].events = ev[ps[n].fd]
    BY <2>1, PollReads
  <2> QED BY <1>3, <2>2
<1>5. PICK q : q = Backend!Front([ps EXCEPT ![k1] = l])
  OBVIOUS
<1>6. q \in Seq(Entries) /\ Len(q) = n - 1 /\ \A k \in 1 .. n - 1 : q[k] = IF k = k1 THEN l ELSE ps[k]
  <2>1. PICK a : a = [ps EXCEPT ![k1] = l]
    OBVIOUS
  <2>2. a \in Seq(Entries) /\ Len(a) = n /\ \A k \in 1 .. n : a[k] = IF k = k1 THEN l ELSE ps[k]
    BY <1>1, <1>2, <1>4, <2>1, PollReads
  <2>3. q = SubSeq(a, 1, n - 1)
    BY <1>5, <2>1, <2>2 DEF Backend!Front
  <2> QED BY <1>2, <2>2, <2>3
<1>7. PICK v : v = [ev EXCEPT ![fd] = {}]
  OBVIOUS
<1>8. PICK x : x = [f \in Fds |-> IF f = fd THEN -1 ELSE IF f = l.fd THEN ix[fd] ELSE ix[f]]
  OBVIOUS
<1>9. /\ v \in [Fds -> SUBSET Backend!Events] /\ v[fd] = {} /\ \A f \in Fds : f # fd => v[f] = ev[f]
      /\ x \in [Fds -> Int] /\ x[fd] = -1
      /\ \A f \in Fds : f # fd => x[f] = IF f = l.fd THEN k1 - 1 ELSE ix[f]
  BY <1>2, <1>7, <1>8, PollReads
<1>10. ASSUME NEW k \in 1 .. n - 1
       PROVE  x[q[k].fd] = k - 1 /\ q[k].events # {} /\ q[k].events = v[q[k].fd]
  <2>1. CASE k = k1
    <3>1. l.fd # fd
      BY <1>2, <1>4, <2>1
    <3> QED BY <1>4, <1>6, <1>9, <2>1, <3>1
  <2>2. CASE k # k1
    <3>1. /\ q[k] = ps[k] /\ ps[k].fd \in Fds /\ ix[ps[k].fd] = k - 1
          /\ ps[k].events # {} /\ ps[k].events = ev[ps[k].fd]
      <4>1. k \in 1 .. Len(ps)
        BY <1>1
      <4> QED BY <1>6, <2>2, <4>1, PollReads
    <3>2. ps[k].fd # fd /\ ps[k].fd # l.fd
      BY <1>2, <1>4, <2>2, <3>1
    <3> QED BY <1>9, <3>1, <3>2
  <2> QED BY <2>1, <2>2
<1>11. ASSUME NEW f \in Fds
       PROVE  x[f] >= -1 /\ (x[f] >= 0 => x[f] < n - 1 /\ q[x[f] + 1].fd = f) /\ (v[f] # {} => x[f] >= 0)
  <2>1. CASE f = fd
    BY <1>9, <2>1
  <2>2. CASE f # fd /\ f = l.fd
    <3>1. k1 # n
      BY <1>2, <1>3, <2>2
    <3>2. x[f] = k1 - 1 /\ k1 \in 1 .. n - 1
      BY <1>2, <1>9, <2>2, <3>1
    <3>3. q[k1].fd = f
      BY <1>6, <2>2, <3>2
    <3> QED BY <3>2, <3>3
  <2>3. CASE f # fd /\ f # l.fd
    <3>1. x[f] = ix[f] /\ v[f] = ev[f]
      BY <1>9, <2>3
    <3>2. CASE ix[f] >= 0
      <4>1. ix[f] \in 0 .. n - 1 /\ ps[ix[f] + 1].fd = f
        BY <1>1, <3>2, PollReads
      <4>2. PICK k \in 1 .. n : k = ix[f] + 1 /\ ps[k].fd = f
        BY <4>1
      <4>3. k # n /\ k # k1
        BY <1>2, <1>3, <2>3, <4>2
      <4>4. k \in 1 .. n - 1 /\ q[k] = ps[k]
        BY <1>6, <4>2, <4>3
      <4> QED BY <3>1, <4>1, <4>2, <4>4
    <3>3. CASE ~(ix[f] >= 0)
      <4>1. ix[f] = -1 /\ ev[f] = {}
        BY <1>9, <3>1, <3>3, PollReads
      <4> QED BY <3>1, <4>1
    <3> QED BY <3>2, <3>3
  <2> QED BY <2>1, <2>2, <2>3
<1>12. PollKept(q, x, v)
  BY <1>6, <1>9, <1>10, <1>11 DEF PollKept
<1> QED BY <1>1, <1>2, <1>3, <1>5, <1>7, <1>8, <1>12

LEMMA PollModifyKeeps ==
    ASSUME NEW fd \in Fds, NEW nev \in SUBSET Backend!Events, PollKept(polls, pollidxs, events),
           Backend!PollModify(fd, events[fd], nev)
    PROVE  PollKept(polls', pollidxs', [events EXCEPT ![fd] = nev])
<1>0. /\ pollidxs \in [Fds -> Int] /\ events \in [Fds -> SUBSET Backend!Events] /\ Len(polls) \in Nat
      /\ pollidxs[fd] < 0 => events[fd] = {}
  BY PollReads
<1>1. CASE events[fd] = nev
  <2>1. [events EXCEPT ![fd] = nev] = events
    BY <1>0, <1>1
  <2>2. polls' = polls /\ pollidxs' = pollidxs
    BY <1>1 DEF Backend!PollModify
  <2> QED BY <2>1, <2>2
<1>2. CASE events[fd] # nev /\ nev # {} /\ pollidxs[fd] < 0
  <2>1. /\ polls' = [Append(polls, [fd |-> fd, events |-> {}]) EXCEPT ![Len(polls) + 1].events = nev]
        /\ pollidxs' = [pollidxs EXCEPT ![fd] = Len(polls)]
    BY <1>2 DEF Backend!PollModify
  <2> QED BY <1>2, <2>1, PollAdd
<1>3. CASE events[fd] # nev /\ nev # {} /\ ~(pollidxs[fd] < 0)
  <2>1. /\ polls' = [polls EXCEPT ![pollidxs[fd] + 1].events = nev]
        /\ pollidxs' = [pollidxs EXCEPT ![fd] = pollidxs[fd]]
    BY <1>3 DEF Backend!PollModify
  <2>2. pollidxs' = pollidxs /\ pollidxs[fd] >= 0
    BY <1>0, <1>3, <2>1
  <2> QED BY <1>3, <2>1, <2>2, PollSet
<1>4. CASE events[fd] # nev /\ nev = {}
  <2>1. ~(pollidxs[fd] < 0) /\ pollidxs[fd] >= 0
    BY <1>0, <1>4
  <2>2. Len(polls) - 1 + 1 = Len(polls)
    BY <1>0
  <2>3. /\ polls' = Backend!Front([polls EXCEPT ![pollidxs[fd] + 1] = polls[Len(polls)]])
        /\ pollidxs' = [f \in Fds |-> IF f = fd THEN -1
                                      ELSE IF f = polls[Len(polls)].fd THEN pollidxs[fd] ELSE pollidxs[f]]
    BY <1>4, <2>1, <2>2 DEF Backend!PollModify
  <2> QED BY <1>4, <2>1, <2>3, PollRemove
<1> QED BY <1>1, <1>2, <1>3, <1>4
-----------------------------------------------------------------------------
(* The steps that leave the tables alone.                                  *)

LEMMA QuietTables ==
    ASSUME TablesKept, UNCHANGED <<backend, events, polls, pollidxs, vec>>,
           TablesTyped', Queued', AskedOrQueued', pc' = "poll" => fdchanges' = <<>>, PortTable'
    PROVE  TablesKept'
<1>1. PollTable'
  BY DEF TablesKept, PollTable, PollKept
<1>2. SelectTable'
  BY DEF TablesKept, SelectTable
<1> QED BY <1>1, <1>2 DEF TablesKept

\* A port that is left alone has what it had, as long as no flag is taken away.
LEMMA PortStays ==
    ASSUME PortTable, UNCHANGED <<backend, events, kernel, open>>,
           \A fd \in Fds : Renewing(fd) => Renewing(fd)', open \subseteq Fds
    PROVE  PortTable'
BY DEF PortTable

LEMMA IoStartTables == ASSUME TablesKept, NEW w \in Watchers, Backend!IoStart(w) PROVE TablesKept'
<1>1. /\ TablesTyped /\ Queued /\ AskedOrQueued /\ PortTable
      /\ pc = "run" /\ active' = active \cup {w} /\ fresh' = fresh \ {w}
      /\ UNCHANGED <<backend, events, pc, polls, pollidxs, vec, open, kernel>>
  BY DEF TablesKept, Backend!IoStart, Backend!tables
<1>2. PICK flags : flags = {"reify"} \cup IF w \in fresh THEN {"fdset"} ELSE {}
  OBVIOUS
<1>3. PICK f \in Fds : f = FdOf[w]
  BY FdsRight
<1>4. Backend!FdChange({f}, flags)
  BY <1>2, <1>3 DEF Backend!IoStart
<1>5. Queued' /\ \A fd \in Fds : reify'[fd] = IF fd \in {f} THEN reify[fd] \cup flags ELSE reify[fd]
  <2>1. flags \in SUBSET {"reify", "fdset"} /\ flags # {} /\ {f} \in SUBSET Fds
    BY <1>2
  <2> QED BY <1>1, <1>4, <2>1, ChangeKeeps
<1>6. \A fd \in Fds : fd # f => Backend!Asked(active, fd)' = Backend!Asked(active, fd)
  <2> SUFFICES ASSUME NEW fd \in Fds, fd # f PROVE Backend!Asked(active, fd)' = Backend!Asked(active, fd)
    OBVIOUS
  <2>1. {v \in active' : FdOf[v] = fd} = {v \in active : FdOf[v] = fd}
    BY <1>1, <1>3
  <2> QED BY <2>1 DEF Backend!Asked
<1>7. TablesTyped'
  BY <1>1 DEF TablesTyped
<1>8. AskedOrQueued'
  BY <1>1, <1>2, <1>5, <1>6 DEF AskedOrQueued
<1>9. \A fd \in Fds : Renewing(fd) => Renewing(fd)'
  <2> SUFFICES ASSUME NEW fd \in Fds, Renewing(fd) PROVE Renewing(fd)'
    OBVIOUS
  <2>1. CASE fd = f
    <3>1. w \in WatchersOf(fd)
      BY <1>3, <2>1 DEF WatchersOf
    <3>2. "fdset" \in reify[fd] \/ w \in fresh
      BY <3>1 DEF Renewing
    <3> QED BY <1>2, <1>5, <2>1, <3>2 DEF Renewing
  <2>2. CASE fd # f
    <3>1. w \notin WatchersOf(fd) /\ WatchersOf(fd)' = WatchersOf(fd)
      BY <1>3, <2>2 DEF WatchersOf
    <3>2. reify'[fd] = reify[fd] /\ Backend!Asked(active, fd)' = Backend!Asked(active, fd)
      BY <1>5, <1>6, <2>2
    <3> QED BY <1>1, <3>1, <3>2 DEF Renewing
  <2> QED BY <2>1, <2>2
<1>10. PortTable'
  <2>1. open \subseteq Fds
    BY <1>1 DEF TablesTyped
  <2> QED BY <1>1, <1>9, <2>1, PortStays
<1> QED BY <1>1, <1>5, <1>7, <1>8, <1>10, QuietTables

\* A stop and fd_kill: no watcher is started, and the descriptors of those that are
\* stopped get a flag.
LEMMA FewerTables ==
    ASSUME TablesKept, UNCHANGED <<backend, fresh, events, polls, pollidxs, vec, open>>,
           backend = "port" => kernel' = kernel,
           pc' \in {"run", "reify"}, Queued', active' \subseteq active,
           \A fd \in Fds : reify[fd] \subseteq reify'[fd],
           \A fd \in Fds : reify'[fd] = {} => Backend!Asked(active, fd)' = Backend!Asked(active, fd),
           \A fd \in Fds : Backend!Asked(active, fd) = {} => Backend!Asked(active, fd)' = {}
    PROVE  TablesKept'
<1>1. TablesTyped /\ AskedOrQueued /\ PortTable /\ open \subseteq Fds
  BY DEF TablesKept, TablesTyped
<1>2. TablesTyped'
  BY <1>1 DEF TablesTyped
<1>3. AskedOrQueued'
  <2> SUFFICES ASSUME NEW fd \in Fds, reify'[fd] = {} PROVE events'[fd] = Backend!Asked(active, fd)'
    BY DEF AskedOrQueued
  <2>1. reify[fd] = {}
    OBVIOUS
  <2> QED BY <1>1, <2>1 DEF AskedOrQueued
<1>4. \A fd \in Fds : Renewing(fd) => Renewing(fd)'
  <2> SUFFICES ASSUME NEW fd \in Fds, Renewing(fd) PROVE Renewing(fd)'
    OBVIOUS
  <2>1. WatchersOf(fd)' = WatchersOf(fd)
    BY DEF WatchersOf
  <2> QED BY <2>1 DEF Renewing
<1>5. PortTable'
  <2>1. CASE backend = "port"
    BY <1>1, <1>4, <2>1, PortStays
  <2>2. CASE backend # "port"
    BY <2>2 DEF PortTable
  <2> QED BY <2>1, <2>2
<1> QED BY <1>2, <1>3, <1>5, QuietTables

LEMMA KillsTables ==
    ASSUME TablesKept, UNCHANGED <<backend, fresh, events, polls, pollidxs, vec, open>>,
           backend = "port" => kernel' = kernel, pc' = "run", NEW fds, Backend!FdKill(fds)
    PROVE  TablesKept'
<1>1. TablesTyped /\ Queued
  BY DEF TablesKept
<1>2. /\ Queued' /\ active' \subseteq active
      /\ \A fd \in Fds : reify[fd] \subseteq reify'[fd]
      /\ \A fd \in Fds : reify'[fd] = {} => Backend!Asked(active, fd)' = Backend!Asked(active, fd)
      /\ \A fd \in Fds : Backend!Asked(active, fd) = {} => Backend!Asked(active, fd)' = {}
  BY <1>1, KillTables
<1> QED BY <1>2, FewerTables

LEMMA IoStopTables == ASSUME TablesKept, NEW w \in Watchers, Backend!IoStop(w) PROVE TablesKept'
<1>1. /\ TablesTyped /\ Queued
      /\ pc = "run" /\ active' = active \ {w}
      /\ UNCHANGED <<backend, fresh, events, pc, polls, pollidxs, vec, open, kernel>>
  BY DEF TablesKept, Backend!IoStop, Backend!tables
<1>2. PICK f \in Fds : f = FdOf[w]
  BY FdsRight
<1>3. Backend!FdChange({f}, {"reify"})
  BY <1>2 DEF Backend!IoStop
<1>4. Queued' /\ \A fd \in Fds : reify'[fd] = IF fd \in {f} THEN reify[fd] \cup {"reify"} ELSE reify[fd]
  <2>1. {"reify"} \in SUBSET {"reify", "fdset"} /\ {"reify"} # {} /\ {f} \in SUBSET Fds
    OBVIOUS
  <2> QED BY <1>1, <1>3, <2>1, ChangeKeeps
<1>5. ASSUME NEW fd \in Fds, reify'[fd] = {} PROVE Backend!Asked(active, fd)' = Backend!Asked(active, fd)
  <2>1. fd # f
    BY <1>4, <1>5
  <2>2. {v \in active' : FdOf[v] = fd} = {v \in active : FdOf[v] = fd}
    BY <1>1, <1>2, <2>1
  <2> QED BY <2>2 DEF Backend!Asked
<1>6. ASSUME NEW fd \in Fds, Backend!Asked(active, fd) = {} PROVE Backend!Asked(active, fd)' = {}
  <2>1. \A v \in active' : FdOf[v] # fd
    BY <1>1, <1>6, AskedRight DEF TablesTyped
  <2> QED BY <2>1 DEF Backend!Asked
<1> QED BY <1>1, <1>4, <1>5, <1>6, FewerTables

\* The new queue or port has nothing, and nor has events.
LEMMA LoopForkTables == ASSUME TablesKept, Backend!LoopFork PROVE TablesKept'
<1>1. /\ TablesTyped /\ Queued /\ AskedOrQueued /\ PollTable
      /\ backend \in {"kqueue", "port"} /\ pc = "run"
      /\ events' = [fd \in Fds |-> {}] /\ kernel' = [fd \in Fds |-> {}]
      /\ Backend!FdChange(Backend!Armed, {"reify", "fdset"})
      /\ UNCHANGED <<backend, active, fresh, pc, polls, pollidxs, vec, open>>
  BY DEF TablesKept, Backend!LoopFork, Backend!KqueueFork, Backend!PortFork, Backend!FdRearmAll
<1>2. /\ Queued'
      /\ \A fd \in Fds : reify'[fd] = IF fd \in Backend!Armed THEN reify[fd] \cup {"reify", "fdset"} ELSE reify[fd]
  <2>1. Backend!Armed \in SUBSET Fds /\ {"reify", "fdset"} \in SUBSET {"reify", "fdset"} /\ {"reify", "fdset"} # {}
    BY DEF Backend!Armed
  <2> QED BY <1>1, <2>1, ChangeKeeps
<1>3. TablesTyped'
  BY <1>1 DEF TablesTyped
<1>4. AskedOrQueued'
  <2> SUFFICES ASSUME NEW fd \in Fds, reify'[fd] = {} PROVE events'[fd] = Backend!Asked(active, fd)'
    BY DEF AskedOrQueued
  <2>1. events[fd] = {} /\ reify[fd] = {}
    BY <1>2 DEF Backend!Armed
  <2>2. Backend!Asked(active, fd) = {}
    BY <1>1, <2>1 DEF AskedOrQueued
  <2> QED BY <1>1, <2>2 DEF Backend!Asked
<1>5. PollTable' /\ SelectTable'
  BY <1>1 DEF PollTable, SelectTable
<1>6. PortTable'
  BY <1>1 DEF PortTable, TablesTyped
<1> QED BY <1>1, <1>2, <1>3, <1>4, <1>5, <1>6 DEF TablesKept

LEMMA PortPollTables == ASSUME TablesKept, Backend!PortPoll PROVE TablesKept'
<1>1. /\ TablesTyped /\ Queued /\ AskedOrQueued /\ PortTable
      /\ backend = "port" /\ pc' = "run"
      /\ UNCHANGED <<backend, active, fresh, events, polls, pollidxs, vec, open>>
  BY DEF TablesKept, Backend!PortPoll, Backend!tables
<1>2. PICK ready \in SUBSET {fd \in open : kernel[fd] # {}} :
        /\ kernel' = [fd \in Fds |-> IF fd \in ready THEN {} ELSE kernel[fd]]
        /\ Backend!FdChange(ready, {"fdset"})
  BY DEF Backend!PortPoll
<1>3. Queued' /\ \A fd \in Fds : reify'[fd] = IF fd \in ready THEN reify[fd] \cup {"fdset"} ELSE reify[fd]
  <2>1. ready \in SUBSET Fds /\ {"fdset"} \in SUBSET {"reify", "fdset"} /\ {"fdset"} # {}
    BY <1>1 DEF TablesTyped
  <2> QED BY <1>1, <1>2, <2>1, ChangeKeeps
<1>4. TablesTyped'
  BY <1>1 DEF TablesTyped
<1>5. \A fd \in Fds : Backend!Asked(active, fd)' = Backend!Asked(active, fd)
  BY <1>1 DEF Backend!Asked
<1>6. AskedOrQueued'
  BY <1>1, <1>3, <1>5 DEF AskedOrQueued
<1>7. PortTable'
  <2>1. kernel \in [Fds -> SUBSET Backend!Events] /\ open \subseteq Fds
    BY <1>1 DEF PortTable, TablesTyped
  <2>2. kernel' \in [Fds -> SUBSET Backend!Events]
    BY <1>2, <2>1
  <2>3. \A fd \in Fds : kernel'[fd] = {} \/ (kernel'[fd] = events'[fd] /\ fd \in open')
    BY <1>1, <1>2 DEF PortTable
  <2>4. ASSUME NEW fd \in open PROVE kernel'[fd] = events'[fd] \/ Renewing(fd)'
    <3>1. CASE fd \in ready
      BY <1>3, <2>1, <3>1 DEF Renewing
    <3>2. CASE fd \notin ready
      <4>1. kernel'[fd] = kernel[fd] /\ reify'[fd] = reify[fd] /\ WatchersOf(fd)' = WatchersOf(fd)
        BY <1>2, <1>3, <2>1, <3>2 DEF WatchersOf
      <4> QED BY <1>1, <1>5, <2>1, <4>1 DEF PortTable, Renewing
    <3> QED BY <3>1, <3>2
  <2> QED BY <1>1, <2>2, <2>3, <2>4 DEF PortTable
<1> QED BY <1>1, <1>3, <1>4, <1>6, <1>7, QuietTables

LEMMA CloseTables == ASSUME TablesKept, NEW f \in Fds, Backend!Close(f) PROVE TablesKept'
<1>1. /\ TablesTyped /\ Queued /\ AskedOrQueued /\ PortTable
      /\ pc = "run" /\ open' = open \ {f} /\ kernel' = [kernel EXCEPT ![f] = {}]
      /\ UNCHANGED <<backend, active, fresh, events, reify, fdchanges, pc, polls, pollidxs, vec>>
  BY DEF TablesKept, Backend!Close, Backend!tables, Backend!anfds
<1>2. TablesTyped' /\ Queued'
  BY <1>1 DEF TablesTyped, Queued
<1>3. \A fd \in Fds : Backend!Asked(active, fd)' = Backend!Asked(active, fd)
  BY <1>1 DEF Backend!Asked
<1>4. AskedOrQueued'
  BY <1>1, <1>3 DEF AskedOrQueued
<1>5. \A fd \in Fds : Renewing(fd)' = Renewing(fd)
  BY <1>1, <1>3 DEF Renewing, WatchersOf
<1>6. PortTable'
  BY <1>1, <1>5 DEF PortTable, TablesTyped
<1> QED BY <1>1, <1>2, <1>4, <1>6, QuietTables

LEMMA OpenTables == ASSUME TablesKept, NEW f \in Fds, Backend!Open(f) PROVE TablesKept'
<1>1. /\ TablesTyped /\ Queued /\ AskedOrQueued /\ PortTable
      /\ pc = "run" /\ open' = open \cup {f} /\ Backend!Asked(active, f) = {}
      /\ fresh' = fresh \cup WatchersOf(f)
      /\ UNCHANGED <<backend, active, events, reify, fdchanges, pc, polls, pollidxs, vec, kernel>>
  BY DEF TablesKept, Backend!Open, Backend!tables, Backend!anfds, WatchersOf
<1>2. TablesTyped' /\ Queued'
  BY <1>1 DEF TablesTyped, Queued, WatchersOf
<1>3. \A fd \in Fds : Backend!Asked(active, fd)' = Backend!Asked(active, fd)
  BY <1>1 DEF Backend!Asked
<1>4. AskedOrQueued'
  BY <1>1, <1>3 DEF AskedOrQueued
<1>5. Renewing(f)' /\ \A fd \in Fds : Renewing(fd) => Renewing(fd)'
  BY <1>1, <1>3 DEF Renewing, WatchersOf
<1>6. PortTable'
  BY <1>1, <1>5 DEF PortTable, TablesTyped
<1> QED BY <1>1, <1>2, <1>4, <1>6, QuietTables

\* The step from one phase to the next.
LEMMA PhaseTables ==
    ASSUME TablesKept, pc' \in {"run", "reify", "poll"}, pc' = "poll" => fdchanges = <<>>,
           UNCHANGED <<backend, active, fresh, events, reify, fdchanges, polls, pollidxs, vec, open, kernel>>
    PROVE  TablesKept'
<1>1. TablesTyped' /\ Queued'
  BY DEF TablesKept, TablesTyped, Queued
<1>2. \A fd \in Fds : Backend!Asked(active, fd)' = Backend!Asked(active, fd)
  BY DEF Backend!Asked
<1>3. AskedOrQueued'
  BY <1>2 DEF TablesKept, AskedOrQueued
<1>4. \A fd \in Fds : Renewing(fd) => Renewing(fd)'
  BY <1>2 DEF Renewing, WatchersOf
<1>5. PortTable'
  <2>1. PortTable /\ open \subseteq Fds
    BY DEF TablesKept, TablesTyped
  <2> QED BY <1>4, <2>1, PortStays
<1> QED BY <1>1, <1>3, <1>5, QuietTables
-----------------------------------------------------------------------------
(* fd_reify.                                                               *)

\* It takes the first descriptor, and appends it again if it is killed.
LEMMA TakeRight ==
    ASSUME Queued, fdchanges # <<>>, NEW f, f = Head(fdchanges),
           \/ fdchanges' = Tail(fdchanges) /\ reify' = [reify EXCEPT ![f] = {}]
           \/ fdchanges' = Tail(fdchanges) \o <<f>> /\ reify' = [reify EXCEPT ![f] = {"reify"}]
    PROVE  f \in Fds /\ reify[f] # {} /\ Queued'
<1>1. PICK s : s = fdchanges
  OBVIOUS
<1>2. PICK n \in Nat : n = Len(s)
  BY <1>1 DEF Queued
<1>3. /\ s \in Seq(Fds) /\ n > 0 /\ f = s[1] /\ f \in Fds
      /\ \A k, m \in 1 .. n : s[k] = s[m] => k = m
      /\ \A fd \in Fds : reify[fd] # {} <=> \E k \in 1 .. n : s[k] = fd
  BY <1>1, <1>2 DEF Queued
<1>4. reify \in [Fds -> SUBSET {"reify", "fdset"}] /\ reify[f] # {}
  BY <1>2, <1>3 DEF Queued
<1>5. PICK t : t = Tail(s)
  OBVIOUS
<1>6. t \in Seq(Fds) /\ Len(t) = n - 1 /\ \A k \in 1 .. n - 1 : t[k] = s[k + 1]
  BY <1>2, <1>3, <1>5
<1>7. \A k \in 1 .. n - 1 : t[k] # f
  BY <1>2, <1>3, <1>6
<1>8. \A k, m \in 1 .. n - 1 : t[k] = t[m] => k = m
  BY <1>2, <1>3, <1>6
<1>9. ASSUME NEW fd \in Fds, fd # f
      PROVE  (\E k \in 1 .. n : s[k] = fd) <=> (\E k \in 1 .. n - 1 : t[k] = fd)
  <2>1. ASSUME NEW k \in 1 .. n, s[k] = fd PROVE \E m \in 1 .. n - 1 : t[m] = fd
    <3>1. k - 1 \in 1 .. n - 1
      BY <1>2, <1>3, <1>9, <2>1
    <3>2. t[k - 1] = fd
      BY <1>6, <2>1, <3>1
    <3> QED BY <3>1, <3>2
  <2>2. ASSUME NEW k \in 1 .. n - 1, t[k] = fd PROVE \E m \in 1 .. n : s[m] = fd
    <3>1. k + 1 \in 1 .. n /\ s[k + 1] = fd
      BY <1>2, <1>6, <2>2
    <3> QED BY <3>1
  <2> QED BY <2>1, <2>2
<1>10. CASE fdchanges' = Tail(fdchanges) /\ reify' = [reify EXCEPT ![f] = {}]
  <2>1. fdchanges' = t
    BY <1>1, <1>5, <1>10
  <2>2. reify' \in [Fds -> SUBSET {"reify", "fdset"}]
    BY <1>4, <1>10
  <2>3. ASSUME NEW fd \in Fds PROVE reify'[fd] # {} <=> \E k \in 1 .. n - 1 : t[k] = fd
    <3>1. CASE fd = f
      BY <1>4, <1>7, <1>10, <3>1
    <3>2. CASE fd # f
      BY <1>3, <1>4, <1>9, <1>10, <3>2
    <3> QED BY <3>1, <3>2
  <2>4. Queued'
    BY <1>6, <1>8, <2>1, <2>2, <2>3 DEF Queued
  <2> QED BY <1>3, <1>4, <2>4
<1>11. CASE fdchanges' = Tail(fdchanges) \o <<f>> /\ reify' = [reify EXCEPT ![f] = {"reify"}]
  <2>1. PICK u : u = t \o <<f>>
    OBVIOUS
  <2>2. u \in Seq(Fds) /\ Len(u) = n /\ u[n] = f /\ \A k \in 1 .. n - 1 : u[k] = t[k]
    BY <1>2, <1>3, <1>6, <2>1
  <2>3. fdchanges' = u
    BY <1>1, <1>5, <1>11, <2>1
  <2>4. reify' \in [Fds -> SUBSET {"reify", "fdset"}]
    BY <1>4, <1>11
  <2>5. ASSUME NEW k \in 1 .. n, NEW m \in 1 .. n, u[k] = u[m] PROVE k = m
    <3>1. CASE k = n \/ m = n
      BY <1>2, <1>7, <2>2, <2>5, <3>1
    <3>2. CASE k \in 1 .. n - 1 /\ m \in 1 .. n - 1
      BY <1>8, <2>2, <2>5, <3>2
    <3> QED BY <1>2, <3>1, <3>2
  <2>6. ASSUME NEW fd \in Fds PROVE reify'[fd] # {} <=> \E k \in 1 .. n : u[k] = fd
    <3>1. CASE fd = f
      <4>1. n \in 1 .. n
        BY <1>2, <1>3
      <4> QED BY <1>4, <1>11, <2>2, <3>1, <4>1
    <3>2. CASE fd # f
      <4>1. (\E k \in 1 .. n - 1 : t[k] = fd) <=> (\E k \in 1 .. n : u[k] = fd)
        <5>1. ASSUME NEW k \in 1 .. n - 1, t[k] = fd PROVE \E m \in 1 .. n : u[m] = fd
          BY <1>2, <2>2, <5>1
        <5>2. ASSUME NEW k \in 1 .. n, u[k] = fd PROVE \E m \in 1 .. n - 1 : t[m] = fd
          <6>1. k # n
            BY <2>2, <3>2, <5>2
          <6>2. k \in 1 .. n - 1
            BY <1>2, <6>1
          <6> QED BY <2>2, <5>2, <6>2
        <5> QED BY <5>1, <5>2
      <4>2. reify'[fd] = reify[fd]
        BY <1>4, <1>11, <3>2
      <4> QED BY <1>3, <1>9, <3>2, <4>1, <4>2
    <3> QED BY <3>1, <3>2
  <2>7. Queued'
    BY <2>2, <2>3, <2>4, <2>5, <2>6 DEF Queued
  <2> QED BY <1>3, <1>4, <2>7
<1> QED BY <1>10, <1>11

\* What a turn of fd_reify has told the backend: f has the events nev.
Asking(f, nev) ==
    /\ PollTable' /\ SelectTable'
    /\ backend = "port" =>
         \/ kernel' = kernel /\ (f \notin open \/ (nev = {} /\ events[f] = {}))
         \/ kernel' = [kernel EXCEPT ![f] = nev] /\ f \in open

\* The call of backend_modify.
Modified(f, nev) ==
    CASE backend = "poll"   -> /\ Backend!PollModify(f, events[f], nev)
                               /\ UNCHANGED <<vec, changes, leftover, kernel>>
      [] backend = "select" -> /\ Backend!SelectModify(f, events[f], nev)
                               /\ UNCHANGED <<polls, pollidxs, changes, leftover, kernel>>
      [] backend = "kqueue" -> /\ changes' = Backend!KqueueModified(changes, f, events[f], nev)
                               /\ UNCHANGED <<polls, pollidxs, vec, leftover, kernel>>
      [] backend = "port"   -> Backend!PortModify(f, events[f], nev) /\ UNCHANGED Backend!tables

LEMMA ModifyTells ==
    ASSUME TablesKept, NEW f \in Fds, NEW nev \in SUBSET Backend!Events,
           events' = [events EXCEPT ![f] = nev], backend' = backend,
           Modified(f, nev)
    PROVE  Asking(f, nev)
<1>1. /\ backend \in Backend!Backends /\ PollTable /\ SelectTable /\ PortTable
      /\ events \in [Fds -> SUBSET Backend!Events]
  BY DEF TablesKept, TablesTyped
<1>2. CASE backend = "poll"
  <2>1. Backend!PollModify(f, events[f], nev) /\ PollKept(polls, pollidxs, events)
    BY <1>1, <1>2 DEF PollTable, Modified
  <2>2. PollKept(polls', pollidxs', events')
    BY <2>1, PollModifyKeeps
  <2> QED BY <1>2, <2>2 DEF Asking, PollTable, SelectTable
<1>3. CASE backend = "select"
  <2>1. polls' = polls /\ pollidxs' = pollidxs /\ Backend!SelectModify(f, events[f], nev)
    BY <1>3 DEF Modified
  <2>2. PollTable'
    BY <1>1, <1>3, <2>1 DEF PollTable
  <2>3. vec = [e \in Backend!Events |-> {fd \in Fds : e \in events[fd]}]
    BY <1>1, <1>3 DEF SelectTable
  <2>4. CASE events[f] = nev
    <3>1. events' = events /\ vec' = vec
      BY <1>1, <2>1, <2>4 DEF Backend!SelectModify
    <3> QED BY <1>3, <2>2, <2>3, <3>1 DEF Asking, SelectTable
  <2>5. CASE events[f] # nev
    <3>1. vec' = [e \in Backend!Events |-> IF e \in nev THEN vec[e] \cup {f} ELSE vec[e] \ {f}]
      BY <2>1, <2>5 DEF Backend!SelectModify
    <3>2. ASSUME NEW e \in Backend!Events
          PROVE  {fd \in Fds : e \in events'[fd]}
                   = IF e \in nev THEN {fd \in Fds : e \in events[fd]} \cup {f}
                     ELSE {fd \in Fds : e \in events[fd]} \ {f}
      BY <1>1
    <3>3. vec' = [e \in Backend!Events |-> {fd \in Fds : e \in events'[fd]}]
      BY <2>3, <3>1, <3>2
    <3> QED BY <1>3, <2>2, <3>3 DEF Asking, SelectTable
  <2> QED BY <2>4, <2>5
<1>4. CASE backend = "kqueue"
  <2>1. polls' = polls /\ pollidxs' = pollidxs
    BY <1>4 DEF Modified
  <2> QED BY <1>1, <1>4, <2>1 DEF Asking, PollTable, SelectTable
<1>5. CASE backend = "port"
  <2>1. polls' = polls /\ pollidxs' = pollidxs /\ Backend!PortModify(f, events[f], nev)
    BY <1>5 DEF Modified, Backend!tables
  <2>2. PollTable' /\ SelectTable'
    BY <1>1, <1>5, <2>1 DEF PollTable, SelectTable
  <2>3. \/ kernel' = kernel /\ (f \notin open \/ (nev = {} /\ events[f] = {}))
        \/ kernel' = [kernel EXCEPT ![f] = nev] /\ f \in open
    BY <2>1 DEF Backend!PortModify
  <2> QED BY <1>5, <2>2, <2>3 DEF Asking
<1> QED BY <1>1, <1>2, <1>3, <1>4, <1>5 DEF Backend!Backends

\* After a turn whose backend_modify has told f's events, if there was one.
LEMMA TurnKeeps ==
    ASSUME TablesKept, Queued', NEW f \in Fds, NEW nev \in SUBSET Backend!Events, nev = Backend!Asked(active, f),
           pc' = "reify", UNCHANGED <<backend, fresh, open>>,
           events' = [events EXCEPT ![f] = nev],
           \A fd \in Fds : fd # f => reify'[fd] = reify[fd],
           \/ active' = active
           \/ active' = {w \in active : FdOf[w] # f} /\ reify'[f] # {},
           Asking(f, nev)
    PROVE  TablesKept'
<1>1. TablesTyped /\ AskedOrQueued /\ PortTable /\ events \in [Fds -> SUBSET Backend!Events]
  BY DEF TablesKept, TablesTyped
<1>2. ASSUME NEW fd \in Fds, fd # f PROVE Backend!Asked(active, fd)' = Backend!Asked(active, fd)
  <2>1. {v \in active' : FdOf[v] = fd} = {v \in active : FdOf[v] = fd}
    BY <1>2
  <2> QED BY <2>1 DEF Backend!Asked
<1>3. TablesTyped'
  <2>1. events' \in [Fds -> SUBSET Backend!Events] /\ active' \subseteq active
    BY <1>1
  <2> QED BY <1>1, <2>1 DEF TablesTyped
<1>4. AskedOrQueued'
  <2> SUFFICES ASSUME NEW fd \in Fds, reify'[fd] = {} PROVE events'[fd] = Backend!Asked(active, fd)'
    BY DEF AskedOrQueued
  <2>1. CASE fd = f
    <3>1. active' = active
      BY <2>1
    <3>2. Backend!Asked(active, fd)' = Backend!Asked(active, fd)
      BY <3>1 DEF Backend!Asked
    <3> QED BY <1>1, <2>1, <3>2
  <2>2. CASE fd # f
    BY <1>1, <1>2, <2>2 DEF AskedOrQueued
  <2> QED BY <2>1, <2>2
<1>5. PortTable'
  <2> SUFFICES ASSUME backend = "port" PROVE PortTable'
    BY DEF PortTable
  <2>1. /\ kernel \in [Fds -> SUBSET Backend!Events] /\ open \subseteq Fds
        /\ \A fd \in Fds : kernel[fd] = {} \/ (kernel[fd] = events[fd] /\ fd \in open)
        /\ \A fd \in open : kernel[fd] = events[fd] \/ Renewing(fd)
    BY <1>1 DEF PortTable, TablesTyped
  <2>2. \/ kernel' = kernel /\ (f \notin open \/ (nev = {} /\ events[f] = {}))
        \/ kernel' = [kernel EXCEPT ![f] = nev] /\ f \in open
    BY DEF Asking
  <2>3. kernel' \in [Fds -> SUBSET Backend!Events]
    BY <2>1, <2>2
  <2>4. ASSUME NEW fd \in Fds PROVE kernel'[fd] = {} \/ (kernel'[fd] = events'[fd] /\ fd \in open')
    <3>1. CASE fd = f
      BY <1>1, <2>1, <2>2, <3>1
    <3>2. CASE fd # f
      <4>1. kernel'[fd] = kernel[fd] /\ events'[fd] = events[fd]
        BY <1>1, <2>1, <2>2, <3>2
      <4> QED BY <2>1, <4>1
    <3> QED BY <3>1, <3>2
  <2>5. ASSUME NEW fd \in open PROVE kernel'[fd] = events'[fd] \/ Renewing(fd)'
    <3>1. CASE fd = f
      BY <1>1, <2>1, <2>2, <3>1
    <3>2. CASE fd # f
      <4>1. kernel'[fd] = kernel[fd] /\ events'[fd] = events[fd] /\ reify'[fd] = reify[fd]
        BY <1>1, <2>1, <2>2, <3>2
      <4>2. WatchersOf(fd)' = WatchersOf(fd) /\ Backend!Asked(active, fd)' = Backend!Asked(active, fd)
        BY <1>2, <2>1, <3>2 DEF WatchersOf
      <4> QED BY <2>1, <4>1, <4>2 DEF Renewing
    <3> QED BY <3>1, <3>2
  <2> QED BY <2>3, <2>4, <2>5 DEF PortTable
<1> QED BY <1>3, <1>4, <1>5 DEF TablesKept, Asking

LEMMA ReifyTables == ASSUME TablesKept, Backend!FdReify PROVE TablesKept'
<1>1. PICK f : f = Head(fdchanges)
  OBVIOUS
<1>2. PICK nev : nev = Backend!Asked(active, f)
  OBVIOUS
<1>3. PICK bad \in BOOLEAN : bad = (backend = "port" /\ nev # {} /\ f \notin open)
  OBVIOUS
<1>4. /\ pc = "reify" /\ fdchanges # <<>> /\ events' = [events EXCEPT ![f] = nev]
      /\ UNCHANGED <<backend, fresh, pc, open>>
      /\ TablesTyped /\ Queued /\ AskedOrQueued /\ PollTable /\ SelectTable /\ PortTable
  BY <1>1, <1>2 DEF Backend!FdReify, TablesKept
<1>5. nev \in SUBSET Backend!Events
  BY <1>2, <1>4, AskedRight DEF TablesTyped
<1>6. CASE ~("fdset" \in reify[f] \/ nev # events[f])
  <2>1. /\ fdchanges' = Tail(fdchanges) /\ reify' = [reify EXCEPT ![f] = {}]
        /\ UNCHANGED <<active, polls, pollidxs, vec, kernel>>
    BY <1>1, <1>2, <1>6 DEF Backend!FdReify, Backend!tables
  <2>2. f \in Fds /\ Queued'
    BY <1>1, <1>4, <2>1, TakeRight
  <2>3. events \in [Fds -> SUBSET Backend!Events] /\ reify \in [Fds -> SUBSET {"reify", "fdset"}] /\ open \subseteq Fds
    BY <1>4 DEF TablesTyped, Queued
  <2>4. events' = events
    BY <1>4, <1>6, <2>2, <2>3
  <2>5. \A fd \in Fds : Backend!Asked(active, fd)' = Backend!Asked(active, fd)
    BY <2>1 DEF Backend!Asked
  <2>6. TablesTyped'
    BY <1>4, <2>1, <2>4 DEF TablesTyped
  <2>7. AskedOrQueued'
    <3> SUFFICES ASSUME NEW fd \in Fds, reify'[fd] = {} PROVE events'[fd] = Backend!Asked(active, fd)'
      BY DEF AskedOrQueued
    <3>1. CASE fd = f
      BY <1>2, <1>6, <2>4, <2>5, <3>1
    <3>2. CASE fd # f
      BY <1>4, <2>1, <2>3, <2>4, <2>5, <3>2 DEF AskedOrQueued
    <3> QED BY <3>1, <3>2
  <2>8. \A fd \in Fds : Renewing(fd) => Renewing(fd)'
    <3> SUFFICES ASSUME NEW fd \in Fds, Renewing(fd) PROVE Renewing(fd)'
      OBVIOUS
    <3>1. WatchersOf(fd)' = WatchersOf(fd)
      BY DEF WatchersOf
    <3>2. "fdset" \in reify[fd] => "fdset" \in reify'[fd]
      BY <1>6, <2>1, <2>3
    <3> QED BY <1>4, <2>5, <3>1, <3>2 DEF Renewing
  <2>9. PortTable'
    BY <1>4, <2>1, <2>3, <2>4, <2>8, PortStays
  <2> QED BY <1>4, <2>1, <2>2, <2>4, <2>6, <2>7, <2>9, QuietTables
<1>7. CASE "fdset" \in reify[f] \/ nev # events[f]
  <2>1. Modified(f, nev)
    BY <1>1, <1>2, <1>7 DEF Backend!FdReify, Modified
  <2>2. /\ active' = IF bad THEN {w \in active : FdOf[w] # f} ELSE active
        /\ fdchanges' = Tail(fdchanges) \o IF bad THEN <<f>> ELSE <<>>
        /\ reify' = [reify EXCEPT ![f] = IF bad THEN {"reify"} ELSE {}]
    BY <1>1, <1>2, <1>3, <1>7 DEF Backend!FdReify
  <2>3. Tail(fdchanges) \o <<>> = Tail(fdchanges)
    BY <1>4 DEF Queued
  <2>4. f \in Fds /\ Queued'
    BY <1>1, <1>4, <2>2, <2>3, TakeRight
  <2>5. Asking(f, nev)
    BY <1>4, <1>5, <2>1, <2>4, ModifyTells
  <2>6. reify \in [Fds -> SUBSET {"reify", "fdset"}]
    BY <1>4 DEF Queued
  <2>7. \A fd \in Fds : fd # f => reify'[fd] = reify[fd]
    BY <2>2, <2>6
  <2>8. active' = active \/ (active' = {w \in active : FdOf[w] # f} /\ reify'[f] # {})
    BY <2>2, <2>4, <2>6
  <2> QED BY <1>2, <1>4, <1>5, <2>4, <2>5, <2>7, <2>8, TurnKeeps
<1> QED BY <1>6, <1>7
-----------------------------------------------------------------------------
(* The invariant holds.                                                    *)

LEMMA InitTables == Backend!Init => TablesKept
<1> SUFFICES ASSUME Backend!Init PROVE TablesKept
  OBVIOUS
<1>1. /\ backend \in Backend!Backends /\ active = {} /\ fresh = Watchers
      /\ events = [fd \in Fds |-> {}] /\ reify = [fd \in Fds |-> {}] /\ fdchanges = <<>>
      /\ pc = "run" /\ polls = <<>> /\ pollidxs = [fd \in Fds |-> -1] /\ vec = [e \in Backend!Events |-> {}]
      /\ open = Fds /\ kernel = [fd \in Fds |-> {}]
  BY DEF Backend!Init, Backend!PollInit, Backend!SelectInit
<1>2. TablesTyped /\ Queued
  BY <1>1 DEF TablesTyped, Queued
<1>3. AskedOrQueued
  BY <1>1 DEF AskedOrQueued, Backend!Asked
<1>4. PollTable
  BY <1>1 DEF PollTable, PollKept
<1>5. SelectTable /\ PortTable
  BY <1>1 DEF SelectTable, PortTable
<1> QED BY <1>1, <1>2, <1>3, <1>4, <1>5 DEF TablesKept

LEMMA PollTables == ASSUME TablesKept, Backend!BackendPoll \/ Backend!Enomem PROVE TablesKept'
<1>1. CASE Backend!PollPoll
  <2>1. /\ UNCHANGED <<backend, fresh, events, polls, pollidxs, vec, open, kernel>> /\ pc' = "run"
        /\ \E fds : Backend!FdKill(fds)
    BY <1>1 DEF Backend!PollPoll, Backend!tables
  <2> QED BY <2>1, KillsTables
<1>2. CASE Backend!SelectPoll
  <2>1. UNCHANGED <<backend, fresh, events, polls, pollidxs, vec, open, kernel>> /\ pc' = "run"
    BY <1>2 DEF Backend!SelectPoll, Backend!tables
  <2>2. CASE UNCHANGED <<active, reify, fdchanges>>
    BY <2>1, <2>2, PhaseTables
  <2>3. CASE Backend!FdEbadf
    <3>1. \E fds : Backend!FdKill(fds)
      BY <2>3 DEF Backend!FdEbadf
    <3> QED BY <2>1, <3>1, KillsTables
  <2> QED BY <1>2, <2>2, <2>3 DEF Backend!SelectPoll
<1>3. CASE Backend!KqueuePoll
  <2>1. /\ UNCHANGED <<backend, fresh, events, polls, pollidxs, vec, open>> /\ pc' = "run"
        /\ backend = "kqueue" /\ \E fds : Backend!FdKill(fds)
    BY <1>3 DEF Backend!KqueuePoll
  <2> QED BY <2>1, KillsTables
<1>4. CASE Backend!PortPoll
  BY <1>4, PortPollTables
<1>5. CASE Backend!Enomem
  <2>1. /\ UNCHANGED <<backend, fresh, events, polls, pollidxs, vec, open, kernel>> /\ pc' = "run"
        /\ \E fds : Backend!FdKill(fds)
    BY <1>5 DEF Backend!Enomem, Backend!FdEnomem, Backend!tables
  <2> QED BY <2>1, KillsTables
<1> QED BY <1>1, <1>2, <1>3, <1>4, <1>5 DEF Backend!BackendPoll

LEMMA StepTables == TablesKept /\ [Backend!Next]_(Backend!vars) => TablesKept'
<1> SUFFICES ASSUME TablesKept, [Backend!Next]_(Backend!vars) PROVE TablesKept'
  OBVIOUS
<1>1. CASE Backend!BeginReify \/ Backend!FdReifyDone \/ UNCHANGED Backend!vars
  <2>1. /\ UNCHANGED <<backend, active, fresh, events, reify, fdchanges, polls, pollidxs, vec, open, kernel>>
        /\ \/ pc' = "reify" \/ (pc' = "poll" /\ fdchanges = <<>>) \/ pc' = pc
    BY <1>1 DEF Backend!BeginReify, Backend!FdReifyDone, Backend!vars, Backend!anfds, Backend!tables
  <2>2. pc' \in {"run", "reify", "poll"} /\ (pc' = "poll" => fdchanges = <<>>)
    BY <2>1 DEF TablesKept, TablesTyped
  <2> QED BY <2>1, <2>2, PhaseTables
<1>2. CASE Backend!FdReify
  BY <1>2, ReifyTables
<1>3. CASE Backend!BackendPoll \/ Backend!Enomem
  BY <1>3, PollTables
<1>4. CASE Backend!LoopFork
  BY <1>4, LoopForkTables
<1>5. ASSUME NEW w \in Watchers, Backend!IoStart(w) \/ Backend!IoStop(w) PROVE TablesKept'
  BY <1>5, IoStartTables, IoStopTables
<1>6. ASSUME NEW fd \in Fds, Backend!Close(fd) \/ Backend!Open(fd) PROVE TablesKept'
  BY <1>6, CloseTables, OpenTables
<1> QED BY <1>1, <1>2, <1>3, <1>4, <1>5, <1>6 DEF Backend!Next

LEMMA TablesHold == BackendSpec => []TablesKept
BY InitTables, StepTables, PTL DEF BackendSpec, Backend!Spec
-----------------------------------------------------------------------------
(* What follows from it.                                                   *)

\* Every entry of polls has a descriptor of its own, so there are no more entries
\* than descriptors.
LEMMA PollIndices ==
    ASSUME NEW ps, NEW ix, NEW ev, PollKept(ps, ix, ev)
    PROVE  ix \in [Fds -> -1 .. Backend!Max(Fds)]
<1>1. PICK m \in Nat : Fds = 0 .. m
  BY FdsRight
<1>2. Backend!Max(Fds) = m
  <2>1. m \in Fds /\ \A y \in Fds : m >= y
    BY <1>1
  <2>2. \A x \in Fds : (\A y \in Fds : x >= y) => x = m
    BY <1>1
  <2> QED BY <2>1, <2>2 DEF Backend!Max
<1>3. PICK n \in Nat : n = Len(ps)
  BY PollReads
<1>4. PICK h : h = [k \in 1 .. n |-> ps[k].fd]
  OBVIOUS
<1>5. h \in [1 .. n -> Fds] /\ \A j, k \in 1 .. n : h[j] = h[k] => j = k
  <2>1. \A k \in 1 .. n : h[k] \in Fds /\ ix[h[k]] = k - 1
    BY <1>3, <1>4, PollReads
  <2>2. h \in [1 .. n -> Fds]
    BY <1>4, <2>1
  <2>3. ASSUME NEW j \in 1 .. n, NEW k \in 1 .. n, h[j] = h[k] PROVE j = k
    <3>1. j - 1 = k - 1
      BY <2>1, <2>3
    <3> QED BY <3>1
  <2> QED BY <2>2, <2>3
<1>6. h \in Injection(1 .. n, Fds)
  BY <1>5 DEF Injection, IsInjective
<1>7. Cardinality(1 .. n) = n /\ Cardinality(Fds) = m + 1
  <2>1. 1 \in Int /\ n \in Int /\ 0 \in Int /\ m \in Int
    OBVIOUS
  <2>2. Cardinality(1 .. n) = IF 1 > n THEN 0 ELSE n - 1 + 1
    BY <2>1, FS_Interval
  <2>3. Cardinality(0 .. m) = IF 0 > m THEN 0 ELSE m - 0 + 1
    BY <2>1, FS_Interval
  <2> QED BY <1>1, <2>2, <2>3
<1>8. n <= m + 1
  <2>1. Cardinality(1 .. n) <= Cardinality(Fds)
    BY <1>6, FdsRight, FS_Injection
  <2> QED BY <1>7, <2>1
<1>9. \A fd \in Fds : ix[fd] \in -1 .. m
  <2> SUFFICES ASSUME NEW fd \in Fds PROVE ix[fd] \in -1 .. m
    OBVIOUS
  <2>1. ix[fd] \in Int
    BY PollReads
  <2>2. CASE ix[fd] >= 0
    <3>1. ix[fd] \in 0 .. n - 1
      BY <1>3, <2>2, PollReads
    <3> QED BY <1>8, <3>1
  <2>3. CASE ix[fd] < 0
    <3>1. ix[fd] = -1
      BY <2>3, PollReads
    <3> QED BY <3>1
  <2> QED BY <2>1, <2>2, <2>3
<1> QED BY <1>2, <1>9, PollReads

LEMMA TypesFollow == TablesKept => Backend!TypeOK
<1> SUFFICES ASSUME TablesKept PROVE Backend!TypeOK
  OBVIOUS
<1>1. events \in [Fds -> SUBSET Backend!Events] /\ Queued
  BY DEF TablesKept, TablesTyped
<1>2. pollidxs \in [Fds -> -1 .. Backend!Max(Fds)]
  <2>1. CASE backend = "poll"
    BY <2>1, PollIndices DEF TablesKept, PollTable
  <2>2. CASE backend # "poll"
    <3>1. pollidxs = [fd \in Fds |-> -1]
      BY <2>2 DEF TablesKept, PollTable
    <3>2. PollKept(<<>>, pollidxs, [fd \in Fds |-> {}])
      BY <3>1 DEF PollKept
    <3> QED BY <3>2, PollIndices
  <2> QED BY <2>1, <2>2
<1>3. DOMAIN fdchanges = 1 .. Len(fdchanges)
  BY <1>1 DEF Queued
<1>4. Backend!IsInjective(fdchanges)
  BY <1>1, <1>3 DEF Backend!IsInjective, Queued
<1>5. \A fd \in Fds : (reify[fd] # {}) = (fd \in Backend!Range(fdchanges))
  BY <1>1, <1>3 DEF Backend!Range, Queued
<1> QED BY <1>1, <1>2, <1>4, <1>5 DEF Backend!TypeOK

LEMMA IndicesFollow == TablesKept => Backend!PollsIndexed
<1> SUFFICES ASSUME TablesKept PROVE Backend!PollsIndexed
  OBVIOUS
<1>1. CASE backend = "poll"
  <2>1. PollKept(polls, pollidxs, events)
    BY <1>1 DEF TablesKept, PollTable
  <2>2. DOMAIN polls = 1 .. Len(polls)
    BY <2>1 DEF PollKept
  <2> QED BY <2>1, <2>2 DEF PollKept, Backend!PollsIndexed
<1>2. CASE backend # "poll"
  <2>1. polls = <<>> /\ pollidxs = [fd \in Fds |-> -1]
    BY <1>2 DEF TablesKept, PollTable
  <2> QED BY <2>1 DEF Backend!PollsIndexed
<1> QED BY <1>1, <1>2

LEMMA AskedFollows == TablesKept => Backend!KernelAsked
<1> SUFFICES ASSUME TablesKept, pc = "poll", backend # "kqueue", NEW fd \in open
             PROVE  Backend!Watched(fd) = Backend!Asked(active, fd)
  BY DEF Backend!KernelAsked
<1>1. /\ TablesTyped /\ Queued /\ AskedOrQueued /\ PollTable /\ SelectTable /\ PortTable
      /\ fdchanges = <<>> /\ fd \in Fds /\ events \in [Fds -> SUBSET Backend!Events]
  BY DEF TablesKept, TablesTyped
<1>2. reify[fd] = {}
  <2>1. Len(fdchanges) = 0
    BY <1>1
  <2> QED BY <1>1, <2>1 DEF Queued
<1>3. events[fd] = Backend!Asked(active, fd)
  BY <1>1, <1>2 DEF AskedOrQueued
<1>4. CASE backend = "poll"
  <2>1. PollKept(polls, pollidxs, events)
    BY <1>1, <1>4 DEF PollTable
  <2>2. DOMAIN polls = 1 .. Len(polls)
    BY <2>1 DEF PollKept
  <2>3. PICK js : js = {j \in DOMAIN polls : polls[j].fd = fd}
    OBVIOUS
  <2>4. Backend!Watched(fd) = UNION {polls[j].events : j \in js}
    BY <1>4, <2>3 DEF Backend!Watched
  <2>5. \A j \in js : polls[j].events = events[fd]
    BY <2>1, <2>2, <2>3, PollReads
  <2>6. events[fd] # {} => js # {}
    <3> SUFFICES ASSUME events[fd] # {} PROVE js # {}
      OBVIOUS
    <3>1. pollidxs[fd] \in 0 .. Len(polls) - 1 /\ polls[pollidxs[fd] + 1].fd = fd /\ Len(polls) \in Nat
      <4>1. pollidxs[fd] >= 0
        BY <1>1, <2>1 DEF PollKept
      <4> QED BY <1>1, <2>1, <4>1, PollReads
    <3>2. pollidxs[fd] + 1 \in 1 .. Len(polls)
      BY <3>1
    <3> QED BY <2>2, <2>3, <3>1, <3>2
  <2>7. UNION {polls[j].events : j \in js} = events[fd]
    BY <2>5, <2>6
  <2> QED BY <1>3, <2>4, <2>7
<1>5. CASE backend = "select"
  <2>1. vec = [e \in Backend!Events |-> {f \in Fds : e \in events[f]}]
    BY <1>1, <1>5 DEF SelectTable
  <2>2. Backend!Watched(fd) = {e \in Backend!Events : fd \in vec[e]}
    BY <1>5 DEF Backend!Watched
  <2> QED BY <1>1, <1>3, <2>1, <2>2
<1>6. CASE backend = "port"
  <2>1. Backend!Watched(fd) = kernel[fd]
    BY <1>6 DEF Backend!Watched
  <2>2. kernel[fd] = events[fd] \/ Renewing(fd)
    BY <1>1, <1>6 DEF PortTable
  <2>3. kernel[fd] = {} \/ kernel[fd] = events[fd]
    BY <1>1, <1>6 DEF PortTable
  <2>4. Renewing(fd) => events[fd] = {}
    BY <1>2, <1>3 DEF Renewing
  <2> QED BY <1>3, <2>1, <2>2, <2>3, <2>4
<1> QED BY <1>1, <1>4, <1>5, <1>6 DEF TablesTyped, Backend!Backends

\* No assertion of poll_modify fails, and poll, select and event ports are told of
\* each open descriptor what its watchers ask for before they sleep (ev_poll.c:52-89,
\* ev_select.c:70-139, ev_port.c:58-137).
THEOREM TablesToldHolds == BackendSpec => []TablesTold
<1>1. TablesKept => TablesTold
  BY TypesFollow, IndicesFollow, AskedFollows DEF TablesTold, Backend!BackendInv
<1> QED BY <1>1, TablesHold, PTL
=============================================================================
