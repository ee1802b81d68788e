--------------------------- MODULE EvAsyncProofs ---------------------------
(***************************************************************************)
(* The wake-up of the loop, for any number of threads, signal handlers and *)
(* watchers, with stores that wait in buffers for as long as they like: no *)
(* send is forgotten by a loop that waits.                                 *)
(***************************************************************************)
EXTENDS EvAsync, FiniteSetTheorems, TLAPS
-----------------------------------------------------------------------------
(* The inductive invariant.                                                *)

Sorts      == {"sig", "async"}
SortOf(s)  == Sort[Target[s]]
FenceAt(k) == IF k = "sig" THEN "fencesig" ELSE "fenceasync"
ScanAt(k)  == IF k = "sig" THEN "scansig" ELSE "scanasync"

\* The stores a processor has yet to drain, and what the last of them is.
Entries(b)   == {b[i] : i \in 1 .. Len(b)}
Ending(b, e) == b = <<>> \/ b[Len(b)] = e

\* Why a store can still be in a buffer: whoever made it has not come to a fence.
OfLoop(e) ==
    \/ e \in {<<wanted, 0>>, <<wanted, 1>>} /\ pc # "poll"
    \/ e = <<skipped, 0>> /\ pc = "sig"
    \/ \E k \in Sorts : e = <<flag(k), 0>> /\ pc = FenceAt(k)
    \/ \E t \in fed : e = <<sent(t), 0>>

OfSender(s, e) ==
    \/ spc[s] = "test" /\ e \in {<<data(s), sends[s]>>, <<sent(Target[s]), 1>>}
    \/ spc[s] = "wanted" /\ e \in {<<flag(SortOf(s)), 1>>, <<skipped, 1>>}
    \/ spc[s] = "write" /\ e = <<skipped, 0>>

Explained ==
    \A c \in Cpus : \A e \in Entries(buffer[c]) :
        (c = loop /\ OfLoop(e)) \/ \E s \in Senders : Cpu(s) = c /\ OfSender(s, e)

\* The last store of a sender is the last to leave the buffer.
Ends(s) ==
    /\ spc[s] = "test" => Ending(buffer[Cpu(s)], <<sent(Target[s]), 1>>)
    /\ spc[s] = "wanted" => Ending(buffer[Cpu(s)], <<skipped, 1>>)
    /\ spc[s] = "write" => Ending(buffer[Cpu(s)], <<skipped, 0>>)
    /\ spc[s] = "idle" /\ s \notin Handlers => buffer[s] = <<>>

OneHandler ==
    \A g, h \in Handlers : spc[g] # "idle" /\ spc[h] # "idle" => g = h

\* Data reaches memory, and before the flag sent of its target does.
DataStored(s) ==
    /\ mem[data(s)] \in 0 .. sends[s]
    /\ mem[data(s)] = sends[s] \/ <<data(s), sends[s]>> \in Entries(buffer[Cpu(s)])

\* A send that no callback has seen will be found by a scan of its target.
SentStays(s) ==
    \/ seen[s] = sends[s]
    \/ spc[s] = "test" /\ buffer[Cpu(s)] # <<>>
    \/ Target[s] \in fed
    \/ mem[sent(Target[s])] = 1 /\ <<sent(Target[s]), 0>> \notin Entries(buffer[loop])

Raised(k) ==
    \/ mem[flag(k)] = 1 /\ <<flag(k), 0>> \notin Entries(buffer[loop])
    \/ \E c \in Cpus : <<flag(k), 1>> \in Entries(buffer[c])

\* And the scan will come, if pipecb runs.
FlagStays(s) ==
    \/ seen[s] = sends[s]
    \/ spc[s] = "test"
    \/ Target[s] \in fed
    \/ Raised(SortOf(s))
    \/ pc \in {FenceAt(SortOf(s)), ScanAt(SortOf(s))} /\ Target[s] \in scan

\* pipecb will run, or is before its test of the flag.
Wakes(k) ==
    \/ mem[skipped] = 1 /\ <<skipped, 0>> \notin Entries(buffer[loop])
    \/ bytes > 0
    \/ \E s \in Senders : spc[s] = "wanted" /\ buffer[Cpu(s)] # <<>>
    \/ \E s \in Senders : spc[s] = "write"
    \/ pc \in {"pipecb", "sig"}
    \/ k = "async" /\ pc \in {"fencesig", "scansig", "async"}

\* The last word in the buffer b, or in memory, is that the loop wants to be woken.
AskedFor(m, b) ==
    \/ m = 1 /\ \A e \in Entries(b) : e[1] # wanted
    \/ \E i \in 1 .. Len(b) :
         /\ b[i] = <<wanted, 1>>
         /\ \A j \in i + 1 .. Len(b) : b[j][1] # wanted

WantedLast ==
    /\ pc = "decide" => AskedFor(mem[wanted], buffer[loop])
    /\ pc = "poll" => mem[wanted] = 1

\* A loop that waits has left no flag behind.
Waits ==
    pc = "poll" /\ block =>
        \A k \in Sorts : Raised(k) => bytes > 0 \/ \E s \in Senders : spc[s] \in {"wanted", "write"}

LoopState ==
    /\ pc \in {"want", "decide", "poll", "skipped", "pipecb", "sig"} => fed = {}
    /\ \A k \in Sorts : pc = FenceAt(k) => scan = {t \in Targets : Sort[t] = k}

Inv ==
    /\ TypeOK /\ Explained /\ OneHandler /\ WantedLast /\ Waits /\ LoopState
    /\ \A s \in Senders : Ends(s) /\ DataStored(s) /\ SentStays(s) /\ FlagStays(s)
    /\ \A k \in Sorts : Raised(k) => Wakes(k)
-----------------------------------------------------------------------------
(* Buffers and locations.                                                  *)

LEMMA TailRight ==
    ASSUME NEW S, NEW b \in Seq(S), b # <<>>
    PROVE  /\ b[1] \in S /\ Head(b) = b[1] /\ Tail(b) \in Seq(S)
           /\ Entries(b) = Entries(Tail(b)) \cup {b[1]}
           /\ \A e : Ending(b, e) => Ending(Tail(b), e) /\ (Tail(b) = <<>> => b[1] = e)
<1>0. Len(b) \in Nat /\ Len(b) > 0
  OBVIOUS
<1>1. Len(b) \in Nat /\ Len(b) > 0 /\ Head(b) = b[1] /\ b[1] \in S
  OBVIOUS
<1>2. /\ Tail(b) \in Seq(S) /\ Len(Tail(b)) = Len(b) - 1
      /\ \A i \in 1 .. Len(b) - 1 : Tail(b)[i] = b[i + 1]
  BY <1>1
<1>3. Entries(b) = Entries(Tail(b)) \cup {b[1]}
  <2>1. ASSUME NEW e \in Entries(b) PROVE e \in Entries(Tail(b)) \cup {b[1]}
    <3>1. PICK i \in 1 .. Len(b) : e = b[i]
      BY DEF Entries
    <3>2. CASE i = 1
      BY <1>1, <3>1, <3>2
    <3>3. CASE i > 1
      <4>1. i - 1 \in 1 .. Len(b) - 1 /\ Tail(b)[i - 1] = b[i]
        BY <1>1, <1>2, <3>3
      <4> QED BY <1>2, <3>1, <4>1 DEF Entries
    <3> QED BY <3>2, <3>3
  <2>2. ASSUME NEW e \in Entries(Tail(b)) \cup {b[1]} PROVE e \in Entries(b)
    <3>1. CASE e = b[1]
      BY <1>1, <3>1 DEF Entries
    <3>2. ASSUME NEW i \in 1 .. Len(b) - 1, e = Tail(b)[i] PROVE e \in Entries(b)
      <4>1. i + 1 \in 1 .. Len(b) /\ e = b[i + 1]
        BY <1>1, <1>2, <3>2
      <4> QED BY <4>1 DEF Entries
    <3> QED BY <1>2, <3>1, <3>2 DEF Entries
  <2> QED BY <2>1, <2>2
<1>4. ASSUME NEW e, Ending(b, e)
      PROVE  Ending(Tail(b), e) /\ (Tail(b) = <<>> => b[1] = e)
  <2> DEFINE t == Tail(b)
  <2>1. b[Len(b)] = e
    BY <1>4 DEF Ending
  <2>2. t \in Seq(S) /\ Len(t) = Len(b) - 1 /\ \A i \in 1 .. Len(b) - 1 : t[i] = b[i + 1]
    BY <1>2
  <2> HIDE DEF t
  <2>3. Len(b) = 1 => b[1] = e /\ t = <<>>
    BY <2>1, <2>2
  <2>4. Len(b) > 1 => t[Len(t)] = e /\ t # <<>>
    <3> SUFFICES ASSUME Len(b) > 1 PROVE t[Len(t)] = e /\ t # <<>>
      OBVIOUS
    <3>1. Len(b) - 1 \in 1 .. Len(b) - 1 /\ (Len(b) - 1) + 1 = Len(b)
      BY <1>1
    <3>2. t[Len(b) - 1] = b[Len(b)]
      BY <2>2, <3>1
    <3> QED BY <1>1, <2>1, <2>2, <3>2
  <2>5. Ending(t, e) /\ (t = <<>> => b[1] = e)
    <3>1. Len(b) = 1 \/ Len(b) > 1
      <4>1. \A n \in Nat : n > 0 => n = 1 \/ n > 1
        OBVIOUS
      <4> QED BY <1>0, <4>1, Zenon
    <3>2. CASE Len(b) = 1
      <4>1. b[1] = e
        BY <2>3, <3>2
      <4>2. t = <<>>
        BY <2>3, <3>2
      <4> QED BY <4>1, <4>2 DEF Ending
    <3>3. CASE Len(b) > 1
      BY <2>4, <3>3, Zenon DEF Ending
    <3> QED BY <3>1, <3>2, <3>3
  <2> QED BY <2>5 DEF t
<1> QED BY <1>1, <1>2, <1>3, <1>4

LEMMA EntriesOfFew ==
    /\ Entries(<<>>) = {}
    /\ \A d : Entries(<<d>>) = {d}
    /\ \A d, e : Entries(<<d, e>>) = {d, e}
BY DEF Entries

LEMMA AppendRight ==
    ASSUME NEW S, NEW b \in Seq(S), NEW a \in Seq(S), a # <<>>
    PROVE  /\ b \o a \in Seq(S) /\ b \o a # <<>>
           /\ Entries(b \o a) = Entries(b) \cup Entries(a)
           /\ Ending(b \o a, a[Len(a)])
<1>1. Len(b) \in Nat /\ Len(a) \in Nat /\ Len(a) > 0
  OBVIOUS
<1>2. /\ b \o a \in Seq(S) /\ Len(b \o a) = Len(b) + Len(a)
      /\ \A i \in 1 .. Len(b) + Len(a) : (b \o a)[i] = IF i <= Len(b) THEN b[i] ELSE a[i - Len(b)]
  OBVIOUS
<1>3. \A i \in 1 .. Len(b) : (b \o a)[i] = b[i] /\ i \in 1 .. Len(b) + Len(a)
  BY <1>1, <1>2
<1>4. \A i \in 1 .. Len(a) : (b \o a)[Len(b) + i] = a[i] /\ Len(b) + i \in 1 .. Len(b) + Len(a)
  BY <1>1, <1>2
<1>5. \A i \in 1 .. Len(b) + Len(a) : i \in 1 .. Len(b) \/ (i - Len(b) \in 1 .. Len(a) /\ i = Len(b) + (i - Len(b)))
  BY <1>1
<1>6. Entries(b \o a) = Entries(b) \cup Entries(a)
  <2>1. Entries(b \o a) = {(b \o a)[i] : i \in 1 .. Len(b) + Len(a)}
    BY <1>2 DEF Entries
  <2>2. Entries(b) \subseteq Entries(b \o a)
    BY <1>3, <2>1 DEF Entries
  <2>3. Entries(a) \subseteq Entries(b \o a)
    BY <1>4, <2>1 DEF Entries
  <2>4. Entries(b \o a) \subseteq Entries(b) \cup Entries(a)
    <3> SUFFICES ASSUME NEW i \in 1 .. Len(b) + Len(a) PROVE (b \o a)[i] \in Entries(b) \cup Entries(a)
      BY <2>1
    <3>1. CASE i \in 1 .. Len(b)
      BY <1>3, <3>1 DEF Entries
    <3>2. CASE i - Len(b) \in 1 .. Len(a) /\ i = Len(b) + (i - Len(b))
      BY <1>4, <3>2 DEF Entries
    <3> QED BY <1>5, <3>1, <3>2
  <2> QED BY <2>2, <2>3, <2>4
<1>7. Ending(b \o a, a[Len(a)])
  BY <1>1, <1>2, <1>4 DEF Ending
<1> QED BY <1>1, <1>2, <1>6, <1>7

\* The variables are different ones.
LEMMA LocsDiffer ==
    /\ wanted # skipped
    /\ \A k : flag(k) # wanted /\ flag(k) # skipped
    /\ \A t : sent(t) # wanted /\ sent(t) # skipped
    /\ \A s : data(s) # wanted /\ data(s) # skipped
    /\ \A k, t : flag(k) # sent(t) /\ flag(k) # data(t) /\ sent(k) # data(t)
    /\ \A j, k : (flag(j) = flag(k) => j = k) /\ (sent(j) = sent(k) => j = k) /\ (data(j) = data(k) => j = k)
BY DEF wanted, skipped, flag, sent, data

LEMMA LocsRight ==
    /\ wanted \in Locs /\ skipped \in Locs /\ \A k \in Sorts : flag(k) \in Locs
    /\ \A t \in Targets : sent(t) \in Locs
    /\ \A s \in Senders : data(s) \in Locs
BY DEF Locs, Sorts

LEMMA SendersRight ==
    /\ loop \in Cpus /\ loop \notin Senders
    /\ \A s \in Senders : Cpu(s) \in Cpus /\ Target[s] \in Targets /\ SortOf(s) \in Sorts
    /\ \A t \in Targets : Sort[t] \in Sorts
    /\ \A s \in Senders : (s \in Handlers => Cpu(s) = loop) /\ (s \notin Handlers => Cpu(s) = s /\ s # loop)
    /\ \A r, s \in Senders : Cpu(r) = Cpu(s) => r = s \/ (r \in Handlers /\ s \in Handlers)
BY AsyncAssumption DEF Cpus, Cpu, loop, SortOf, Sorts

\* A load of what the processor has no store of is from memory.
LEMMA ReadRight ==
    ASSUME TypeOK, NEW c \in Cpus, NEW l, \A e \in Entries(buffer[c]) : e[1] # l
    PROVE  Read(c, l) = mem[l]
BY DEF Read, Entries, TypeOK

\* What a drained store changes.
LEMMA DrainRight ==
    ASSUME TypeOK, NEW c \in Cpus, Drain(c)
    PROVE  \E l \in Locs, v \in Nat :
             /\ buffer[c] # <<>>
             /\ mem' = [mem EXCEPT ![l] = v] /\ mem' \in [Locs -> Nat]
             /\ buffer' \in [Cpus -> Seq(Locs \X Nat)]
             /\ Entries(buffer[c]) = Entries(buffer'[c]) \cup {<<l, v>>}
             /\ \A e : Ending(buffer[c], e) =>
                   Ending(buffer'[c], e) /\ (buffer'[c] = <<>> => <<l, v>> = e)
             /\ \A d \in Cpus \ {c} : buffer'[d] = buffer[d]
             /\ <<l, v>> = buffer[c][1] /\ buffer'[c] = Tail(buffer[c])
<1> DEFINE b == buffer[c]
           e == b[1]
<1>1. b \in Seq(Locs \X Nat) /\ b # <<>> /\ buffer \in [Cpus -> Seq(Locs \X Nat)] /\ mem \in [Locs -> Nat]
  BY DEF Drain, TypeOK
<1>2. mem' = [mem EXCEPT ![e[1]] = e[2]] /\ buffer' = [buffer EXCEPT ![c] = Tail(b)]
  <2>1. Head(b) = b[1]
    BY <1>1
  <2> QED BY <2>1 DEF Drain
<1>3. /\ e \in Locs \X Nat /\ Tail(b) \in Seq(Locs \X Nat)
      /\ Entries(b) = Entries(Tail(b)) \cup {e}
      /\ \A x : Ending(b, x) => Ending(Tail(b), x) /\ (Tail(b) = <<>> => e = x)
  <2> HIDE DEF b
  <2> QED BY <1>1, TailRight
<1>4. e = b[1]
  OBVIOUS
<1> HIDE DEF b, e
<1>5. e = <<e[1], e[2]>> /\ e[1] \in Locs /\ e[2] \in Nat
  BY <1>3
<1>6. buffer'[c] = Tail(b) /\ \A d \in Cpus \ {c} : buffer'[d] = buffer[d]
  BY <1>1, <1>2
<1>7. buffer' \in [Cpus -> Seq(Locs \X Nat)] /\ mem' \in [Locs -> Nat]
  BY <1>1, <1>2, <1>3, <1>5
<1>8. /\ e[1] \in Locs /\ e[2] \in Nat /\ buffer[c] # <<>>
      /\ mem' = [mem EXCEPT ![e[1]] = e[2]] /\ mem' \in [Locs -> Nat]
      /\ buffer' \in [Cpus -> Seq(Locs \X Nat)]
      /\ Entries(buffer[c]) = Entries(buffer'[c]) \cup {<<e[1], e[2]>>}
      /\ \A x : Ending(buffer[c], x) =>
                   Ending(buffer'[c], x) /\ (buffer'[c] = <<>> => <<e[1], e[2]>> = x)
      /\ \A d \in Cpus \ {c} : buffer'[d] = buffer[d]
      /\ <<e[1], e[2]>> = buffer[c][1] /\ buffer'[c] = Tail(buffer[c])
  BY <1>1, <1>2, <1>3, <1>4, <1>5, <1>6, <1>7 DEF b
<1> QED BY <1>8

LEMMA StoreRight ==
    ASSUME TypeOK, NEW c \in Cpus, NEW a \in Seq(Locs \X Nat), a # <<>>, Store(c, a)
    PROVE  /\ buffer' \in [Cpus -> Seq(Locs \X Nat)]
           /\ buffer'[c] = buffer[c] \o a /\ buffer'[c] # <<>>
           /\ Entries(buffer'[c]) = Entries(buffer[c]) \cup Entries(a)
           /\ Ending(buffer'[c], a[Len(a)])
           /\ \A d \in Cpus \ {c} : buffer'[d] = buffer[d]
<1>1. buffer \in [Cpus -> Seq(Locs \X Nat)] /\ buffer[c] \in Seq(Locs \X Nat)
  BY DEF TypeOK
<1>2. buffer' = [buffer EXCEPT ![c] = buffer[c] \o a]
  BY DEF Store
<1>3. /\ buffer[c] \o a \in Seq(Locs \X Nat) /\ buffer[c] \o a # <<>>
      /\ Entries(buffer[c] \o a) = Entries(buffer[c]) \cup Entries(a)
      /\ Ending(buffer[c] \o a, a[Len(a)])
  BY <1>1, AppendRight
<1>4. buffer'[c] = buffer[c] \o a /\ \A d \in Cpus \ {c} : buffer'[d] = buffer[d]
  BY <1>1, <1>2
<1> QED BY <1>1, <1>2, <1>3, <1>4

LEMMA AskedAppend ==
    ASSUME NEW m, NEW S, NEW b \in Seq(S), NEW a \in Seq(S), AskedFor(m, b),
           \A e \in Entries(a) : e[1] # wanted
    PROVE  AskedFor(m, b \o a)
<1>1. Len(b) \in Nat /\ Len(a) \in Nat
  OBVIOUS
<1>2. /\ b \o a \in Seq(S) /\ Len(b \o a) = Len(b) + Len(a)
      /\ \A i \in 1 .. Len(b) + Len(a) : (b \o a)[i] = IF i <= Len(b) THEN b[i] ELSE a[i - Len(b)]
  OBVIOUS
<1>3. \A i \in 1 .. Len(b) + Len(a) : i > Len(b) => (b \o a)[i][1] # wanted
  <2> SUFFICES ASSUME NEW i \in 1 .. Len(b) + Len(a), i > Len(b) PROVE (b \o a)[i][1] # wanted
    OBVIOUS
  <2>1. (b \o a)[i] = a[i - Len(b)] /\ i - Len(b) \in 1 .. Len(a)
    BY <1>1, <1>2
  <2> QED BY <2>1 DEF Entries
<1>4. CASE m = 1 /\ \A e \in Entries(b) : e[1] # wanted
  <2>1. \A i \in 1 .. Len(b \o a) : (b \o a)[i][1] # wanted
    <3> SUFFICES ASSUME NEW i \in 1 .. Len(b) + Len(a) PROVE (b \o a)[i][1] # wanted
      BY <1>2
    <3>1. CASE i <= Len(b)
      <4>1. (b \o a)[i] = b[i] /\ i \in 1 .. Len(b)
        BY <1>1, <1>2, <3>1
      <4> QED BY <1>4, <4>1 DEF Entries
    <3>2. CASE i > Len(b)
      BY <1>3, <3>2
    <3> QED BY <1>1, <3>1, <3>2
  <2> QED BY <1>4, <2>1 DEF AskedFor, Entries
<1>5. ASSUME NEW i \in 1 .. Len(b), b[i] = <<wanted, 1>>, \A j \in i + 1 .. Len(b) : b[j][1] # wanted
      PROVE  AskedFor(m, b \o a)
  <2>1. i \in 1 .. Len(b \o a) /\ (b \o a)[i] = <<wanted, 1>>
    BY <1>1, <1>2, <1>5
  <2>2. \A j \in i + 1 .. Len(b \o a) : (b \o a)[j][1] # wanted
    <3> SUFFICES ASSUME NEW j \in i + 1 .. Len(b) + Len(a) PROVE (b \o a)[j][1] # wanted
      BY <1>2
    <3>1. CASE j <= Len(b)
      BY <1>1, <1>2, <1>5, <3>1
    <3>2. CASE j > Len(b)
      BY <1>1, <1>3, <3>2
    <3> QED BY <1>1, <3>1, <3>2
  <2> QED BY <2>1, <2>2 DEF AskedFor
<1> QED BY <1>4, <1>5 DEF AskedFor

LEMMA AskedTail ==
    ASSUME NEW m, NEW S, NEW b \in Seq(S), b # <<>>, AskedFor(m, b)
    PROVE  /\ b[1][1] = wanted => AskedFor(b[1][2], Tail(b))
           /\ b[1][1] # wanted => AskedFor(m, Tail(b))
<1>1. Len(b) \in Nat /\ Len(b) > 0
  OBVIOUS
<1>2. /\ Tail(b) \in Seq(S) /\ Len(Tail(b)) = Len(b) - 1
      /\ \A i \in 1 .. Len(b) - 1 : Tail(b)[i] = b[i + 1]
  BY <1>1
<1>3. CASE m = 1 /\ \A e \in Entries(b) : e[1] # wanted
  <2>1. Entries(Tail(b)) \subseteq Entries(b) /\ b[1] \in Entries(b)
    BY TailRight
  <2> QED BY <1>3, <2>1 DEF AskedFor
<1>4. ASSUME NEW i \in 1 .. Len(b), b[i] = <<wanted, 1>>, \A j \in i + 1 .. Len(b) : b[j][1] # wanted
      PROVE  /\ b[1][1] = wanted => AskedFor(b[1][2], Tail(b))
             /\ b[1][1] # wanted => AskedFor(m, Tail(b))
  <2>1. CASE i = 1
    <3>1. b[1][1] = wanted /\ b[1][2] = 1
      BY <1>4, <2>1
    <3>2. \A j \in 1 .. Len(Tail(b)) : Tail(b)[j][1] # wanted
      <4> SUFFICES ASSUME NEW j \in 1 .. Len(b) - 1 PROVE b[j + 1][1] # wanted
        BY <1>2
      <4>1. j + 1 \in i + 1 .. Len(b)
        BY <1>1, <2>1
      <4> QED BY <1>4, <4>1
    <3> QED BY <3>1, <3>2 DEF AskedFor, Entries
  <2>2. CASE i > 1
    <3>1. i - 1 \in 1 .. Len(Tail(b)) /\ Tail(b)[i - 1] = <<wanted, 1>>
      <4>1. i - 1 \in 1 .. Len(b) - 1 /\ (i - 1) + 1 = i
        BY <1>1, <2>2
      <4> QED BY <1>2, <1>4, <4>1
    <3>2. \A j \in (i - 1) + 1 .. Len(Tail(b)) : Tail(b)[j][1] # wanted
      <4> SUFFICES ASSUME NEW j \in i .. Len(b) - 1 PROVE Tail(b)[j][1] # wanted
        BY <1>1, <1>2
      <4>1. j + 1 \in i + 1 .. Len(b) /\ j \in 1 .. Len(b) - 1
        BY <1>1
      <4> QED BY <1>2, <1>4, <4>1
    <3> QED BY <3>1, <3>2 DEF AskedFor
  <2> QED BY <1>1, <2>1, <2>2
<1> QED BY <1>3, <1>4 DEF AskedFor

\* One store, and two.
LEMMA StoreOne ==
    ASSUME TypeOK, NEW c \in Cpus, NEW l \in Locs, NEW v \in Nat, Store(c, <<<<l, v>>>>)
    PROVE  /\ buffer' \in [Cpus -> Seq(Locs \X Nat)] /\ buffer'[c] # <<>>
           /\ Entries(buffer'[c]) = Entries(buffer[c]) \cup {<<l, v>>}
           /\ Ending(buffer'[c], <<l, v>>)
           /\ \A d \in Cpus \ {c} : buffer'[d] = buffer[d]
<1> DEFINE a == <<<<l, v>>>>
<1>1. /\ a \in Seq(Locs \X Nat) /\ a # <<>> /\ Entries(a) = {<<l, v>>} /\ a[Len(a)] = <<l, v>>
      /\ Store(c, a)
  BY EntriesOfFew
<1> HIDE DEF a
<1> QED BY <1>1, StoreRight

LEMMA StoreTwo ==
    ASSUME TypeOK, NEW c \in Cpus, NEW k \in Locs, NEW u \in Nat, NEW l \in Locs, NEW v \in Nat,
           Store(c, <<<<k, u>>, <<l, v>>>>)
    PROVE  /\ buffer' \in [Cpus -> Seq(Locs \X Nat)] /\ buffer'[c] # <<>>
           /\ Entries(buffer'[c]) = Entries(buffer[c]) \cup {<<k, u>>, <<l, v>>}
           /\ Ending(buffer'[c], <<l, v>>)
           /\ \A d \in Cpus \ {c} : buffer'[d] = buffer[d]
<1> DEFINE a == <<<<k, u>>, <<l, v>>>>
<1>1. /\ a \in Seq(Locs \X Nat) /\ a # <<>> /\ Entries(a) = {<<k, u>>, <<l, v>>}
      /\ a[Len(a)] = <<l, v>> /\ Store(c, a)
  BY EntriesOfFew
<1> HIDE DEF a
<1> QED BY ZenonT(30), <1>1, StoreRight

\* Stores to other variables leave what the loop asked for.
LEMMA AskedStays ==
    ASSUME TypeOK, NEW c \in Cpus, NEW a \in Seq(Locs \X Nat), a # <<>>, Store(c, a),
           \A e \in Entries(a) : e[1] # wanted, mem' = mem, AskedFor(mem[wanted], buffer[loop])
    PROVE  AskedFor(mem'[wanted], buffer'[loop])
<1>1. buffer'[loop] = buffer[loop] \/ buffer'[loop] = buffer[loop] \o a
  BY StoreRight, SendersRight
<1>2. buffer[loop] \in Seq(Locs \X Nat)
  BY SendersRight DEF TypeOK
<1> QED BY <1>1, <1>2, AskedAppend
-----------------------------------------------------------------------------
(* The steps of the loop.                                                  *)

LEMMA LoopEntries ==
    ASSUME Inv, \A h \in Handlers : spc[h] = "idle", NEW e \in Entries(buffer[loop])
    PROVE  OfLoop(e)
<1>1. OfLoop(e) \/ \E s \in Senders : Cpu(s) = loop /\ OfSender(s, e)
  BY SendersRight DEF Inv, Explained
<1>2. \A s \in Senders : Cpu(s) = loop => spc[s] = "idle"
  BY SendersRight
<1> QED BY <1>1, <1>2 DEF OfSender

\* What the loop leaves alone.
LEMMA LoopExplained ==
    ASSUME Inv, \A h \in Handlers : spc[h] = "idle", UNCHANGED <<spc, sends>>,
           \A d \in Cpus \ {loop} : buffer'[d] = buffer[d],
           \A e \in Entries(buffer'[loop]) : OfLoop(e)'
    PROVE  Explained'
<1> SUFFICES ASSUME NEW c \in Cpus, NEW e \in Entries(buffer'[c])
             PROVE  (c = loop /\ OfLoop(e)') \/ \E s \in Senders : Cpu(s) = c /\ OfSender(s, e)'
  BY DEF Explained
<1>1. CASE c = loop
  BY <1>1
<1>2. CASE c # loop
  <2>1. PICK s \in Senders : Cpu(s) = c /\ OfSender(s, e)
    BY <1>2 DEF Inv, Explained
  <2>2. OfSender(s, e)'
    BY <2>1 DEF OfSender
  <2> QED BY <2>1, <2>2
<1> QED BY <1>1, <1>2

\* A flag that is in a buffer was stored by a sender that goes on.
LEMMA FlagStored ==
    ASSUME Inv, NEW k, NEW c \in Cpus, <<flag(k), 1>> \in Entries(buffer[c])
    PROVE  \E s \in Senders : Cpu(s) = c /\ spc[s] = "wanted" /\ buffer[Cpu(s)] # <<>> /\ k = SortOf(s)
<1>1. buffer[c] # <<>>
  BY EntriesOfFew
<1>2. ~OfLoop(<<flag(k), 1>>)
  BY LocsDiffer DEF OfLoop
<1>3. PICK s \in Senders : Cpu(s) = c /\ OfSender(s, <<flag(k), 1>>)
  BY <1>2 DEF Inv, Explained
<1>4. spc[s] = "wanted" /\ flag(k) = flag(SortOf(s))
  BY <1>3, LocsDiffer DEF OfSender
<1> QED BY <1>1, <1>3, <1>4, LocsDiffer

LEMMA RaisedAlone ==
    ASSUME NEW k, NEW c \in Cpus, mem' = mem, \A d \in Cpus \ {c} : buffer'[d] = buffer[d],
           \A v : <<flag(k), v>> \in Entries(buffer'[c]) <=> <<flag(k), v>> \in Entries(buffer[c])
    PROVE  Raised(k)' <=> Raised(k)
<1>1. \A d \in Cpus : \A v : <<flag(k), v>> \in Entries(buffer'[d]) <=> <<flag(k), v>> \in Entries(buffer[d])
  OBVIOUS
<1> QED BY <1>1, SendersRight DEF Raised

LEMMA WantKeeps == ASSUME Inv, Want PROVE Inv'
<1>1. pc = "want" /\ pc' = "decide" /\ \A h \in Handlers : spc[h] = "idle"
  BY DEF Want, At
<1>2. UNCHANGED <<mem, spc, sends, bytes, block, revents, scan, fed, seen>>
  BY DEF Want, UNCHANGED_LOOP
<1>3. TypeOK /\ fed = {}
  BY <1>1 DEF Inv, LoopState
<1>4. Store(loop, <<<<wanted, 1>>>>)
  BY DEF Want
<1>5. /\ buffer' \in [Cpus -> Seq(Locs \X Nat)] /\ buffer'[loop] # <<>>
      /\ Entries(buffer'[loop]) = Entries(buffer[loop]) \cup {<<wanted, 1>>}
      /\ Ending(buffer'[loop], <<wanted, 1>>)
      /\ \A d \in Cpus \ {loop} : buffer'[d] = buffer[d]
  BY <1>3, <1>4, StoreOne, SendersRight, LocsRight
<1>6. TypeOK'
  BY <1>1, <1>2, <1>3, <1>5 DEF TypeOK
<1>7. Explained'
  <2>1. ASSUME NEW e \in Entries(buffer'[loop]) PROVE OfLoop(e)'
    <3>1. e = <<wanted, 1>> \/ OfLoop(e)
      BY <1>1, <1>5, LoopEntries
    <3> QED BY <1>1, <1>2, <3>1 DEF OfLoop, FenceAt
  <2> QED BY <1>1, <1>2, <1>5, <2>1, LoopExplained
<1>8. WantedLast'
  <2> DEFINE b == buffer'[loop]
  <2>1. b \in Seq(Locs \X Nat) /\ b # <<>> /\ b[Len(b)] = <<wanted, 1>>
    BY <1>5, SendersRight DEF Ending
  <2> HIDE DEF b
  <2>2. AskedFor(mem'[wanted], b)
    BY <2>1 DEF AskedFor
  <2> QED BY <1>1, <2>2 DEF WantedLast, b
<1>9. (OneHandler /\ Waits /\ LoopState)'
  BY <1>1, <1>2 DEF Inv, OneHandler, Waits, LoopState, FenceAt
<1>10. ASSUME NEW s \in Senders PROVE (Ends(s) /\ DataStored(s) /\ SentStays(s) /\ FlagStays(s))'
  <2>1. Ends(s)'
    BY <1>1, <1>2, <1>5, SendersRight, LocsDiffer DEF Inv, Ends
  <2>2. DataStored(s)'
    BY <1>1, <1>2, <1>5, SendersRight, LocsDiffer DEF Inv, DataStored
  <2>3. SentStays(s)'
    BY <1>1, <1>2, <1>5, SendersRight, LocsDiffer DEF Inv, SentStays
  <2>4. FlagStays(s)'
    BY <1>1, <1>2, <1>5, SendersRight, LocsDiffer DEF Inv, FlagStays, Raised, FenceAt, ScanAt
  <2> QED BY <2>1, <2>2, <2>3, <2>4
<1>11. \A k \in Sorts : (Raised(k) => Wakes(k))'
  <2> SUFFICES ASSUME NEW k \in Sorts, Raised(k)' PROVE Wakes(k)'
    OBVIOUS
  <2>1. Raised(k)
    BY <1>2, <1>5, SendersRight, LocsDiffer, RaisedAlone
  <2>2. Wakes(k)
    BY <2>1 DEF Inv
  <2> QED BY <1>1, <1>2, <1>5, <2>2, SendersRight, LocsDiffer DEF Wakes
<1> QED BY <1>6, <1>7, <1>8, <1>9, <1>10, <1>11 DEF Inv

LEMMA DecideKeeps == ASSUME Inv, Decide PROVE Inv'
<1>1. /\ pc = "decide" /\ pc' = "poll" /\ (\A h \in Handlers : spc[h] = "idle")
      /\ buffer[loop] = <<>> /\ Entries(buffer[loop]) = {}
  BY EntriesOfFew DEF Decide, At, Fence
<1>2. UNCHANGED <<buffer, mem, spc, sends, bytes, revents, scan, fed, seen>>
  BY DEF Decide, UNCHANGED_LOOP
<1>3. TypeOK /\ fed = {} /\ mem[wanted] = 1
  BY <1>1 DEF Inv, LoopState, WantedLast, AskedFor
<1>4. Read(loop, skipped) = mem[skipped]
  BY <1>1, <1>3, ReadRight, SendersRight
<1>5. block' \in BOOLEAN /\ (block' => mem[skipped] # 1)
  BY <1>4 DEF Decide
<1>6. TypeOK'
  BY <1>1, <1>2, <1>3, <1>5 DEF TypeOK
<1>7. Explained'
  BY <1>1, <1>2, LoopExplained
<1>8. (OneHandler /\ WantedLast /\ LoopState)'
  BY <1>1, <1>2, <1>3 DEF Inv, OneHandler, WantedLast, LoopState, FenceAt
<1>9. Waits'
  BY <1>1, <1>2, <1>5 DEF Inv, Waits, Raised, Wakes
<1>10. \A s \in Senders : (Ends(s) /\ DataStored(s) /\ SentStays(s) /\ FlagStays(s))'
  BY <1>1, <1>2 DEF Inv, Ends, DataStored, SentStays, FlagStays, Raised, FenceAt, ScanAt
<1>11. \A k \in Sorts : (Raised(k) => Wakes(k))'
  BY <1>1, <1>2 DEF Inv, Raised, Wakes
<1> QED BY <1>6, <1>7, <1>8, <1>9, <1>10, <1>11 DEF Inv

\* Poll and PollOther.
LEMMA PollKeeps == ASSUME Inv, At("poll"), PollReturns PROVE Inv'
<1>1. pc = "poll" /\ pc' = "skipped" /\ \A h \in Handlers : spc[h] = "idle"
  BY DEF PollReturns, At
<1>2. UNCHANGED <<mem, spc, sends, bytes, block, scan, fed, seen>>
  BY DEF PollReturns, UNCHANGED_LOOP
<1>3. TypeOK /\ fed = {}
  BY <1>1 DEF Inv, LoopState
<1>4. Store(loop, <<<<wanted, 0>>>>) /\ revents' \subseteq {"READ", "CUSTOM"}
  BY DEF PollReturns
<1>5. /\ buffer' \in [Cpus -> Seq(Locs \X Nat)] /\ buffer'[loop] # <<>>
      /\ Entries(buffer'[loop]) = Entries(buffer[loop]) \cup {<<wanted, 0>>}
      /\ \A d \in Cpus \ {loop} : buffer'[d] = buffer[d]
  BY <1>3, <1>4, StoreOne, SendersRight, LocsRight
<1>6. TypeOK'
  BY <1>1, <1>2, <1>3, <1>4, <1>5 DEF TypeOK
<1>7. Explained'
  <2>1. ASSUME NEW e \in Entries(buffer'[loop]) PROVE OfLoop(e)'
    <3>1. e = <<wanted, 0>> \/ OfLoop(e)
      BY <1>1, <1>5, LoopEntries
    <3> QED BY <1>1, <1>2, <3>1 DEF OfLoop, FenceAt
  <2> QED BY <1>1, <1>2, <1>5, <2>1, LoopExplained
<1>8. (OneHandler /\ WantedLast /\ Waits /\ LoopState)'
  BY <1>1, <1>2 DEF Inv, OneHandler, WantedLast, Waits, LoopState, FenceAt
<1>9. ASSUME NEW s \in Senders PROVE (Ends(s) /\ DataStored(s) /\ SentStays(s) /\ FlagStays(s))'
  <2>1. Ends(s)'
    BY <1>1, <1>2, <1>5, SendersRight, LocsDiffer DEF Inv, Ends
  <2>2. DataStored(s)'
    BY <1>1, <1>2, <1>5, SendersRight, LocsDiffer DEF Inv, DataStored
  <2>3. SentStays(s)'
    BY <1>1, <1>2, <1>5, SendersRight, LocsDiffer DEF Inv, SentStays
  <2>4. FlagStays(s)'
    BY <1>1, <1>2, <1>5, SendersRight, LocsDiffer DEF Inv, FlagStays, Raised, FenceAt, ScanAt
  <2> QED BY <2>1, <2>2, <2>3, <2>4
<1>10. \A k \in Sorts : (Raised(k) => Wakes(k))'
  <2> SUFFICES ASSUME NEW k \in Sorts, Raised(k)' PROVE Wakes(k)'
    OBVIOUS
  <2>1. Raised(k)
    BY <1>2, <1>5, SendersRight, LocsDiffer, RaisedAlone
  <2>2. Wakes(k)
    BY <2>1 DEF Inv
  <2> QED BY <1>1, <1>2, <1>5, <2>2, SendersRight, LocsDiffer DEF Wakes
<1> QED BY <1>6, <1>7, <1>8, <1>9, <1>10 DEF Inv

LEMMA CheckSkippedKeeps == ASSUME Inv, CheckSkipped PROVE Inv'
<1>1. /\ pc = "skipped" /\ pc' \in {"callbacks", "pipecb"}
      /\ \A h \in Handlers : spc[h] = "idle"
  BY DEF CheckSkipped, At
<1>2. UNCHANGED <<buffer, mem, spc, sends, bytes, block, scan, fed, seen>>
  BY DEF CheckSkipped, UNCHANGED_LOOP
<1>3. TypeOK /\ fed = {}
  BY <1>1 DEF Inv, LoopState
<1>4. revents' \subseteq {"READ", "CUSTOM"}
  BY <1>3 DEF CheckSkipped, TypeOK
<1>5. TypeOK'
  BY <1>1, <1>2, <1>3, <1>4 DEF TypeOK
<1>6. Explained'
  <2>1. ASSUME NEW e \in Entries(buffer'[loop]) PROVE OfLoop(e)'
    <3>1. OfLoop(e)
      BY <1>1, <1>2, LoopEntries
    <3> QED BY <1>1, <1>2, <3>1 DEF OfLoop, FenceAt
  <2> QED BY <1>1, <1>2, <2>1, LoopExplained
<1>7. (OneHandler /\ WantedLast /\ Waits /\ LoopState)'
  BY <1>1, <1>2, <1>3 DEF Inv, OneHandler, WantedLast, Waits, LoopState, FenceAt
<1>8. \A s \in Senders : (Ends(s) /\ DataStored(s) /\ SentStays(s) /\ FlagStays(s))'
  BY <1>1, <1>2 DEF Inv, Ends, DataStored, SentStays, FlagStays, Raised, FenceAt, ScanAt
<1>9. \A k \in Sorts : (Raised(k) => Wakes(k))'
  BY <1>1, <1>2 DEF Inv, Raised, Wakes
<1> QED BY <1>5, <1>6, <1>7, <1>8, <1>9 DEF Inv

LEMMA PipecbKeeps == ASSUME Inv, Pipecb PROVE Inv'
<1>1. pc = "pipecb" /\ pc' = "sig" /\ \A h \in Handlers : spc[h] = "idle"
  BY DEF Pipecb, At
<1>2. UNCHANGED <<mem, spc, sends, block, scan, fed, seen>> /\ revents' = {}
  BY DEF Pipecb, UNCHANGED_LOOP
<1>3. TypeOK /\ fed = {}
  BY <1>1 DEF Inv, LoopState
<1>4. Store(loop, <<<<skipped, 0>>>>) /\ bytes' \in Nat
  BY <1>3, AsyncAssumption DEF Pipecb, TypeOK
<1>5. /\ buffer' \in [Cpus -> Seq(Locs \X Nat)] /\ buffer'[loop] # <<>>
      /\ Entries(buffer'[loop]) = Entries(buffer[loop]) \cup {<<skipped, 0>>}
      /\ \A d \in Cpus \ {loop} : buffer'[d] = buffer[d]
  BY <1>3, <1>4, StoreOne, SendersRight, LocsRight
<1>6. TypeOK'
  BY <1>1, <1>2, <1>3, <1>4, <1>5 DEF TypeOK
<1>7. Explained'
  <2>1. ASSUME NEW e \in Entries(buffer'[loop]) PROVE OfLoop(e)'
    <3>1. e = <<skipped, 0>> \/ OfLoop(e)
      BY <1>1, <1>5, LoopEntries
    <3> QED BY <1>1, <1>2, <3>1 DEF OfLoop, FenceAt
  <2> QED BY <1>1, <1>2, <1>5, <2>1, LoopExplained
<1>8. (OneHandler /\ WantedLast /\ Waits /\ LoopState)'
  BY <1>1, <1>2, <1>3 DEF Inv, OneHandler, WantedLast, Waits, LoopState, FenceAt
<1>9. ASSUME NEW s \in Senders PROVE (Ends(s) /\ DataStored(s) /\ SentStays(s) /\ FlagStays(s))'
  <2>1. Ends(s)'
    BY <1>1, <1>2, <1>5, SendersRight, LocsDiffer DEF Inv, Ends
  <2>2. DataStored(s)'
    BY <1>1, <1>2, <1>5, SendersRight, LocsDiffer DEF Inv, DataStored
  <2>3. SentStays(s)'
    BY <1>1, <1>2, <1>5, SendersRight, LocsDiffer DEF Inv, SentStays
  <2>4. FlagStays(s)'
    BY <1>1, <1>2, <1>5, SendersRight, LocsDiffer DEF Inv, FlagStays, Raised, FenceAt, ScanAt
  <2> QED BY <2>1, <2>2, <2>3, <2>4
<1>10. \A k \in Sorts : (Raised(k) => Wakes(k))'
  BY <1>1 DEF Wakes
<1> QED BY <1>6, <1>7, <1>8, <1>9, <1>10 DEF Inv

\* A test of a flag reads memory: pipecb comes to it with no store to that flag.
LEMMA FlagRead ==
    ASSUME Inv, NEW k \in Sorts, At(k)
    PROVE  Read(loop, flag(k)) = mem[flag(k)]
<1>1. \A e \in Entries(buffer[loop]) : e[1] # flag(k)
  <2> SUFFICES ASSUME NEW e \in Entries(buffer[loop]) PROVE e[1] # flag(k)
    OBVIOUS
  <2>1. OfLoop(e)
    BY LoopEntries DEF At
  <2> QED BY <2>1, LocsDiffer DEF OfLoop, At, FenceAt, Sorts
<1> QED BY <1>1, ReadRight, SendersRight DEF Inv

LEMMA TestSortKeeps == ASSUME Inv, NEW k \in Sorts, TestSort(k) PROVE Inv'
<1>1. /\ pc = k /\ \A h \in Handlers : spc[h] = "idle"
      /\ k = "sig" => buffer[loop] = <<>> /\ Entries(buffer[loop]) = {}
  BY EntriesOfFew DEF TestSort, At, Fence
<1>2. UNCHANGED <<mem, bytes, block, revents, fed, seen, spc, sends>>
  BY DEF TestSort, UNCHANGED_LOOP
<1>3. TypeOK /\ (k = "sig" => fed = {})
  BY <1>1 DEF Inv, LoopState
<1>4. Read(loop, flag(k)) = mem[flag(k)]
  BY FlagRead DEF TestSort
<1>5. ASSUME mem[flag(k)] = 1
      PROVE  Inv'
  <2>1. /\ Store(loop, <<<<flag(k), 0>>>>) /\ pc' = FenceAt(k)
        /\ scan' = {t \in Targets : Sort[t] = k}
    BY <1>4, <1>5 DEF TestSort, FenceAt
  <2>2. /\ buffer' \in [Cpus -> Seq(Locs \X Nat)] /\ buffer'[loop] # <<>>
        /\ Entries(buffer'[loop]) = Entries(buffer[loop]) \cup {<<flag(k), 0>>}
        /\ \A d \in Cpus \ {loop} : buffer'[d] = buffer[d]
    BY <1>3, <2>1, StoreOne, SendersRight, LocsRight
  <2>3. TypeOK'
    BY <1>1, <1>2, <1>3, <2>1, <2>2 DEF TypeOK, FenceAt
  <2>4. Explained'
    <3>1. ASSUME NEW e \in Entries(buffer'[loop]) PROVE OfLoop(e)'
      <4>1. e = <<flag(k), 0>> \/ (OfLoop(e) /\ k # "sig")
        BY <1>1, <2>2, LoopEntries
      <4> QED BY <1>1, <1>2, <2>1, <4>1 DEF OfLoop, FenceAt, Sorts
    <3> QED BY <1>1, <1>2, <2>2, <3>1, LoopExplained
  <2>5. (OneHandler /\ WantedLast /\ Waits /\ LoopState)'
    BY <1>1, <1>2, <1>3, <2>1 DEF Inv, OneHandler, WantedLast, Waits, LoopState, FenceAt, Sorts
  <2>6. \A j : j # k => (Raised(j)' <=> Raised(j))
    <3>1. \A j, v : j # k => (<<flag(j), v>> \in Entries(buffer'[loop]) <=> <<flag(j), v>> \in Entries(buffer[loop]))
      BY <2>2, LocsDiffer
    <3> SUFFICES ASSUME NEW j, j # k PROVE Raised(j)' <=> Raised(j)
      OBVIOUS
    <3> QED BY <1>2, <2>2, <3>1, SendersRight, RaisedAlone
  <2>7. ASSUME NEW s \in Senders PROVE (Ends(s) /\ DataStored(s) /\ SentStays(s))'
    BY <1>1, <1>2, <2>2, SendersRight, LocsDiffer DEF Inv, Ends, DataStored, SentStays
  <2>8. ASSUME NEW s \in Senders PROVE FlagStays(s)'
    BY <1>1, <1>2, <2>1, <2>6, SendersRight DEF Inv, FlagStays, FenceAt, ScanAt, Sorts, SortOf
  <2>9. ASSUME NEW j \in Sorts, Raised(j)' PROVE Wakes(j)'
    <3>1. CASE j = k
      <4>1. PICK c \in Cpus : <<flag(k), 1>> \in Entries(buffer'[c])
        BY <2>2, <2>9, <3>1 DEF Raised
      <4>2. <<flag(k), 1>> \in Entries(buffer[c])
        BY SMTT(30), <2>2, <4>1
      <4>3. PICK s \in Senders : Cpu(s) = c /\ spc[s] = "wanted" /\ buffer[Cpu(s)] # <<>>
        BY <4>2, FlagStored
      <4>4. buffer'[Cpu(s)] # <<>>
        BY <2>2, <4>3
      <4> QED BY <1>2, <4>3, <4>4 DEF Wakes
    <3>2. CASE j # k
      <4>1. Wakes(j)
        BY <2>6, <2>9, <3>2 DEF Inv
      <4> QED BY <1>1, <1>2, <2>1, <2>2, <3>2, <4>1, SendersRight, LocsDiffer DEF Wakes, FenceAt, Sorts
    <3> QED BY <3>1, <3>2
  <2> QED BY <2>3, <2>4, <2>5, <2>7, <2>8, <2>9 DEF Inv
<1>6. ASSUME mem[flag(k)] # 1
      PROVE  Inv'
  <2>1. pc' = NextSort(k) /\ UNCHANGED <<buffer, scan>>
    BY <1>4, <1>6 DEF TestSort
  <2>2. TypeOK'
    BY <1>1, <1>2, <1>3, <2>1 DEF TypeOK, NextSort
  <2>3. Explained'
    <3>1. ASSUME NEW e \in Entries(buffer'[loop]) PROVE OfLoop(e)'
      <4>1. OfLoop(e) /\ k # "sig"
        BY <1>1, <2>1, LoopEntries
      <4> QED BY <1>1, <1>2, <2>1, <4>1 DEF OfLoop, FenceAt, NextSort, Sorts
    <3> QED BY <1>1, <1>2, <2>1, <3>1, LoopExplained
  <2>4. (OneHandler /\ WantedLast /\ Waits /\ LoopState)'
    BY <1>1, <1>2, <1>3, <2>1 DEF Inv, OneHandler, WantedLast, Waits, LoopState, FenceAt, NextSort, Sorts
  <2>5. \A s \in Senders : (Ends(s) /\ DataStored(s) /\ SentStays(s) /\ FlagStays(s))'
    BY <1>1, <1>2, <2>1
       DEF Inv, Ends, DataStored, SentStays, FlagStays, Raised, FenceAt, ScanAt, NextSort, Sorts
  <2>6. ASSUME NEW j \in Sorts, Raised(j)' PROVE Wakes(j)'
    <3>1. Raised(j)
      BY <1>2, <2>1, <2>6 DEF Raised
    <3>2. CASE j = k
      <4>1. PICK c \in Cpus : <<flag(k), 1>> \in Entries(buffer[c])
        BY <1>6, <3>1, <3>2 DEF Raised
      <4> QED BY <1>2, <2>1, <4>1, FlagStored DEF Wakes
    <3>3. CASE j # k
      <4>1. Wakes(j)
        BY <3>1 DEF Inv
      <4> QED BY <1>1, <1>2, <2>1, <3>3, <4>1 DEF Wakes, NextSort, Sorts
    <3> QED BY <3>2, <3>3
  <2> QED BY <2>2, <2>3, <2>4, <2>5, <2>6 DEF Inv
<1> QED BY <1>5, <1>6

LEMMA FenceSortKeeps == ASSUME Inv, NEW k \in Sorts, FenceSort(k) PROVE Inv'
<1>1. /\ pc = FenceAt(k) /\ pc' = ScanAt(k) /\ (\A h \in Handlers : spc[h] = "idle")
      /\ buffer[loop] = <<>> /\ Entries(buffer[loop]) = {}
  BY EntriesOfFew DEF FenceSort, At, Fence, FenceAt, ScanAt
<1>2. UNCHANGED <<buffer, mem, bytes, block, revents, scan, fed, seen, spc, sends>>
  BY DEF FenceSort, UNCHANGED_LOOP
<1>3. TypeOK'
  BY <1>1, <1>2 DEF Inv, TypeOK, ScanAt
<1>4. Explained'
  BY <1>1, <1>2, LoopExplained
<1>5. (OneHandler /\ WantedLast /\ Waits /\ LoopState)'
  BY <1>1, <1>2 DEF Inv, OneHandler, WantedLast, Waits, LoopState, FenceAt, ScanAt, Sorts
<1>6. ASSUME NEW s \in Senders PROVE (Ends(s) /\ DataStored(s) /\ SentStays(s) /\ FlagStays(s))'
  <2>1. FlagStays(s)'
    BY <1>1, <1>2, SendersRight DEF Inv, FlagStays, Raised, FenceAt, ScanAt, Sorts
  <2> QED BY <1>2, <2>1 DEF Inv, Ends, DataStored, SentStays
<1>7. \A j \in Sorts : (Raised(j) => Wakes(j))'
  BY <1>1, <1>2 DEF Inv, Raised, Wakes, FenceAt, ScanAt, Sorts
<1> QED BY <1>3, <1>4, <1>5, <1>6, <1>7 DEF Inv

LEMMA ScanKeeps == ASSUME Inv, NEW k \in Sorts, NEW t \in Targets, Scan(k, t) PROVE Inv'
<1>1. /\ pc = ScanAt(k) /\ pc' = pc /\ t \in scan /\ scan' = scan \ {t}
      /\ \A h \in Handlers : spc[h] = "idle"
  BY DEF Scan, At, ScanAt
<1>2. UNCHANGED <<mem, bytes, block, revents, seen, spc, sends>>
  BY DEF Scan, UNCHANGED_LOOP
<1>3. TypeOK
  BY DEF Inv
<1>4. t \notin fed => Read(loop, sent(t)) = mem[sent(t)]
  <2> SUFFICES ASSUME t \notin fed PROVE Read(loop, sent(t)) = mem[sent(t)]
    OBVIOUS
  <2>1. ASSUME NEW e \in Entries(buffer[loop]) PROVE e[1] # sent(t)
    <3>1. OfLoop(e)
      BY <1>1, LoopEntries
    <3> QED BY <3>1, LocsDiffer DEF OfLoop
  <2> QED BY <1>3, <2>1, ReadRight, SendersRight
<1>5. /\ fed' = fed \/ fed' = fed \cup {t}
      /\ t \notin fed' => mem[sent(t)] # 1 /\ buffer' = buffer
      /\ buffer' \in [Cpus -> Seq(Locs \X Nat)]
      /\ \A d \in Cpus : buffer[d] # <<>> => buffer'[d] # <<>>
      /\ Entries(buffer[loop]) \subseteq Entries(buffer'[loop])
      /\ \A e \in Entries(buffer'[loop]) :
            e \in Entries(buffer[loop]) \/ (e = <<sent(t), 0>> /\ t \in fed')
      /\ \A d \in Cpus \ {loop} : buffer'[d] = buffer[d]
  <2>1. CASE Read(loop, sent(t)) = 1
    <3>1. Store(loop, <<<<sent(t), 0>>>>) /\ fed' = fed \cup {t}
      BY <2>1 DEF Scan
    <3>2. /\ buffer' \in [Cpus -> Seq(Locs \X Nat)] /\ buffer'[loop] # <<>>
          /\ Entries(buffer'[loop]) = Entries(buffer[loop]) \cup {<<sent(t), 0>>}
          /\ \A d \in Cpus \ {loop} : buffer'[d] = buffer[d]
      BY <1>3, <3>1, StoreOne, SendersRight, LocsRight
    <3> QED BY <3>1, <3>2
  <2>2. CASE Read(loop, sent(t)) # 1
    <3>1. buffer' = buffer /\ fed' = fed
      BY <2>2 DEF Scan
    <3> QED BY <1>3, <1>4, <2>2, <3>1 DEF TypeOK
  <2> QED BY <2>1, <2>2
<1>6. TypeOK'
  BY <1>1, <1>2, <1>3, <1>5 DEF TypeOK
<1>7. Explained'
  <2>1. ASSUME NEW e \in Entries(buffer'[loop]) PROVE OfLoop(e)'
    <3>1. (e = <<sent(t), 0>> /\ t \in fed') \/ OfLoop(e)
      BY <1>1, <1>5, LoopEntries
    <3> QED BY <1>1, <1>2, <1>5, <3>1 DEF OfLoop
  <2> QED BY <1>1, <1>2, <1>5, <2>1, LoopExplained
<1>8. (OneHandler /\ WantedLast /\ Waits /\ LoopState)'
  BY <1>1, <1>2 DEF Inv, OneHandler, WantedLast, Waits, LoopState, FenceAt, ScanAt, Sorts
<1>9. \A j : (Raised(j)' <=> Raised(j))
  <2>1. \A j, v : <<flag(j), v>> \in Entries(buffer'[loop]) <=> <<flag(j), v>> \in Entries(buffer[loop])
    BY <1>5, LocsDiffer
  <2> SUFFICES ASSUME NEW j PROVE Raised(j)' <=> Raised(j)
    OBVIOUS
  <2> QED BY <1>2, <1>5, <2>1, SendersRight, RaisedAlone
<1>10. ASSUME NEW s \in Senders PROVE (Ends(s) /\ DataStored(s) /\ SentStays(s) /\ FlagStays(s))'
  <2>1. Ends(s)' /\ DataStored(s)'
    BY <1>1, <1>2, <1>5, SendersRight DEF Inv, Ends, DataStored
  <2>2. SentStays(s)'
    <3>1. <<sent(Target[s]), 0>> \in Entries(buffer'[loop]) =>
            <<sent(Target[s]), 0>> \in Entries(buffer[loop]) \/ Target[s] \in fed'
      BY <1>5, LocsDiffer
    <3> QED BY <1>1, <1>2, <1>5, <3>1, SendersRight DEF Inv, SentStays
  <2>3. FlagStays(s)'
    <3>1. CASE Target[s] \in fed'
      BY <3>1 DEF FlagStays
    <3>2. CASE Target[s] \notin fed' /\ Target[s] = t
      BY <1>2, <1>5, <3>2 DEF Inv, SentStays, FlagStays
    <3>3. CASE Target[s] \notin fed' /\ Target[s] # t
      BY <1>1, <1>2, <1>5, <1>9, <3>3 DEF Inv, FlagStays
    <3> QED BY <3>1, <3>2, <3>3
  <2> QED BY <2>1, <2>2, <2>3
<1>11. ASSUME NEW j \in Sorts, Raised(j)' PROVE Wakes(j)'
  <2>1. Wakes(j)
    BY <1>9, <1>11 DEF Inv
  <2> QED BY <1>1, <1>2, <1>5, <2>1, SendersRight, LocsDiffer DEF Wakes
<1> QED BY <1>6, <1>7, <1>8, <1>10, <1>11 DEF Inv

LEMMA ScanDoneKeeps == ASSUME Inv, NEW k \in Sorts, ScanDone(k) PROVE Inv'
<1>1. /\ pc = ScanAt(k) /\ pc' = NextSort(k) /\ scan = {}
      /\ \A h \in Handlers : spc[h] = "idle"
  BY DEF ScanDone, At, ScanAt
<1>2. UNCHANGED <<buffer, mem, bytes, block, revents, scan, fed, seen, spc, sends>>
  BY DEF ScanDone, UNCHANGED_LOOP
<1>3. TypeOK'
  BY <1>1, <1>2 DEF Inv, TypeOK, NextSort
<1>4. Explained'
  <2>1. ASSUME NEW e \in Entries(buffer'[loop]) PROVE OfLoop(e)'
    <3>1. OfLoop(e)
      BY <1>1, <1>2, LoopEntries
    <3> QED BY <1>1, <1>2, <3>1 DEF OfLoop, FenceAt, ScanAt, NextSort, Sorts
  <2> QED BY <1>1, <1>2, <2>1, LoopExplained
<1>5. (OneHandler /\ WantedLast /\ Waits /\ LoopState)'
  BY <1>1, <1>2 DEF Inv, OneHandler, WantedLast, Waits, LoopState, FenceAt, ScanAt, NextSort, Sorts
<1>6. ASSUME NEW s \in Senders PROVE (Ends(s) /\ DataStored(s) /\ SentStays(s) /\ FlagStays(s))'
  <2>1. FlagStays(s)'
    BY <1>1, <1>2, SendersRight DEF Inv, FlagStays, Raised, FenceAt, ScanAt, Sorts
  <2> QED BY <1>2, <2>1 DEF Inv, Ends, DataStored, SentStays
<1>7. \A j \in Sorts : (Raised(j) => Wakes(j))'
  BY <1>1, <1>2 DEF Inv, Raised, Wakes, ScanAt, NextSort, Sorts
<1> QED BY <1>3, <1>4, <1>5, <1>6, <1>7 DEF Inv

\* With a lock in the callback, it sees what was stored before the send.
LEMMA CallbackKeeps == ASSUME Inv, Locking, NEW t \in Targets, Callback(t) PROVE Inv'
<1>1. /\ pc = "callbacks" /\ (\A h \in Handlers : spc[h] = "idle")
      /\ buffer[loop] = <<>> /\ Entries(buffer[loop]) = {}
      /\ fed' = fed \ {t}
  BY EntriesOfFew DEF Callback, At, Fence
<1>2. UNCHANGED <<buffer, pc, mem, bytes, block, revents, scan, spc, sends>>
  BY DEF Callback, UNCHANGED_LOOP
<1>3. TypeOK
  BY DEF Inv
<1>4. \A s \in Senders : Read(loop, data(s)) = mem[data(s)]
  BY <1>1, <1>3, ReadRight, SendersRight
<1>5. seen' = [s \in Senders |-> IF Target[s] = t THEN mem[data(s)] ELSE seen[s]]
  BY <1>4 DEF Callback
<1>6. \A s \in Senders : seen'[s] = IF Target[s] = t THEN mem[data(s)] ELSE seen[s]
  BY <1>5
<1>7. \A s \in Senders : mem[data(s)] \in 0 .. MaxSends
  <2> SUFFICES ASSUME NEW s \in Senders PROVE mem[data(s)] \in 0 .. MaxSends
    OBVIOUS
  <2>1. sends[s] \in 0 .. MaxSends /\ mem[data(s)] \in 0 .. sends[s]
    BY <1>3 DEF Inv, DataStored, TypeOK
  <2>2. MaxSends \in Nat
    BY AsyncAssumption
  <2> QED BY <2>1, <2>2
<1>8. TypeOK'
  BY <1>1, <1>2, <1>3, <1>5, <1>7 DEF TypeOK
<1>9. Explained'
  BY <1>1, <1>2, LoopExplained
<1>10. (OneHandler /\ WantedLast /\ Waits /\ LoopState)'
  BY <1>1, <1>2 DEF Inv, OneHandler, WantedLast, Waits, LoopState, FenceAt
<1>11. ASSUME NEW s \in Senders PROVE (Ends(s) /\ DataStored(s) /\ SentStays(s) /\ FlagStays(s))'
  <2>1. Ends(s)' /\ DataStored(s)'
    BY <1>2 DEF Inv, Ends, DataStored
  <2>2. CASE Target[s] # t
    <3>1. seen'[s] = seen[s]
      BY <1>6, <2>2
    <3> QED BY <1>1, <1>2, <2>1, <2>2, <3>1 DEF Inv, SentStays, FlagStays, Raised, FenceAt, ScanAt
  <2>3. CASE Target[s] = t /\ mem[data(s)] = sends[s]
    <3>1. seen'[s] = sends'[s]
      BY <1>2, <1>6, <2>3
    <3> QED BY <2>1, <3>1 DEF SentStays, FlagStays
  <2>4. CASE mem[data(s)] # sends[s]
    <3>1. <<data(s), sends[s]>> \in Entries(buffer[Cpu(s)])
      BY <2>4 DEF Inv, DataStored
    <3>2. buffer[Cpu(s)] # <<>>
      BY <3>1, EntriesOfFew
    <3>3. spc[s] = "test"
      <4>1. Cpu(s) # loop
        BY <1>1, <3>2
      <4>2. PICK r \in Senders : OfSender(r, <<data(s), sends[s]>>)
        BY <3>1, <4>1, SendersRight DEF Inv, Explained
      <4> QED BY <4>2, LocsDiffer DEF OfSender
    <3> QED BY <1>2, <2>1, <3>2, <3>3 DEF SentStays, FlagStays
  <2> QED BY <2>2, <2>3, <2>4
<1>12. \A j \in Sorts : (Raised(j) => Wakes(j))'
  BY <1>1, <1>2 DEF Inv, Raised, Wakes
<1> QED BY <1>8, <1>9, <1>10, <1>11, <1>12 DEF Inv

LEMMA IterateKeeps == ASSUME Inv, Iterate PROVE Inv'
<1>1. /\ pc = "callbacks" /\ pc' = "want" /\ fed = {}
      /\ \A h \in Handlers : spc[h] = "idle"
  BY DEF Iterate, At
<1>2. UNCHANGED <<buffer, mem, bytes, block, revents, scan, fed, seen, spc, sends>>
  BY DEF Iterate, UNCHANGED_LOOP
<1>3. TypeOK'
  BY <1>1, <1>2 DEF Inv, TypeOK
<1>4. Explained'
  <2>1. ASSUME NEW e \in Entries(buffer'[loop]) PROVE OfLoop(e)'
    <3>1. OfLoop(e)
      BY <1>1, <1>2, LoopEntries
    <3> QED BY <1>1, <1>2, <3>1 DEF OfLoop, FenceAt
  <2> QED BY <1>1, <1>2, <2>1, LoopExplained
<1>5. (OneHandler /\ WantedLast /\ Waits /\ LoopState)'
  BY <1>1, <1>2 DEF Inv, OneHandler, WantedLast, Waits, LoopState, FenceAt
<1>6. \A s \in Senders : (Ends(s) /\ DataStored(s) /\ SentStays(s) /\ FlagStays(s))'
  BY <1>1, <1>2 DEF Inv, Ends, DataStored, SentStays, FlagStays, Raised, FenceAt, ScanAt
<1>7. \A j \in Sorts : (Raised(j) => Wakes(j))'
  BY <1>1, <1>2 DEF Inv, Raised, Wakes
<1> QED BY <1>3, <1>4, <1>5, <1>6, <1>7 DEF Inv
-----------------------------------------------------------------------------
(* The steps of the senders.                                               *)

\* No sender begins more sends than all of them together may.
LEMMA SendsBounded ==
    ASSUME TypeOK, NEW s \in Senders, Cardinality(Sent) < MaxSends
    PROVE  sends[s] + 1 \in 0 .. MaxSends
<1> DEFINE n == sends[s]
           K == {{r} \X (1 .. sends[r]) : r \in Senders}
           M == {s} \X (1 .. n)
<1>1. n \in Nat /\ MaxSends \in Nat /\ \A r \in Senders : sends[r] \in Nat
  BY AsyncAssumption DEF TypeOK
<1>2. IsFiniteSet(K)
  <2> DEFINE F == [r \in Senders |-> {r} \X (1 .. sends[r])]
  <2>1. F \in Surjection(Senders, K)
    BY DEF Surjection
  <2> QED BY <2>1, AsyncAssumption, FS_Surjection
<1>3. \A r \in Senders : IsFiniteSet({r} \X (1 .. sends[r]))
  <2> TAKE r \in Senders
  <2>1. IsFiniteSet({r}) /\ IsFiniteSet(1 .. sends[r])
    <3>1. sends[r] \in Int /\ 1 \in Int
      BY <1>1
    <3> QED BY <3>1, FS_Singleton, FS_Interval
  <2> QED BY <2>1, FS_Product
<1>4. IsFiniteSet(UNION K)
  BY <1>2, <1>3, FS_UNION
<1>5. M \subseteq UNION K
  OBVIOUS
<1>6. Cardinality(M) = n
  <2>1. /\ IsFiniteSet({s}) /\ Cardinality({s}) = 1
        /\ IsFiniteSet(1 .. n) /\ Cardinality(1 .. n) = IF 1 > n THEN 0 ELSE n - 1 + 1
    <3>1. n \in Int /\ 1 \in Int
      BY <1>1
    <3> HIDE DEF n
    <3> QED BY <3>1, FS_Singleton, FS_Interval
  <2>2. Cardinality(M) = 1 * Cardinality(1 .. n)
    BY <2>1, FS_Product
  <2> QED BY <1>1, <2>1, <2>2
<1>7. Cardinality(M) <= Cardinality(UNION K) /\ Cardinality(UNION K) \in Nat
  BY <1>4, <1>5, FS_Subset, FS_CardinalityType
<1> QED BY <1>1, <1>6, <1>7 DEF Sent

\* What a step of a sender leaves alone.
LEMMA SenderExplained ==
    ASSUME Inv, NEW s \in Senders, UNCHANGED <<pc, fed>>,
           \A r \in Senders \ {s} : spc'[r] = spc[r] /\ sends'[r] = sends[r],
           \A d \in Cpus \ {Cpu(s)} : buffer'[d] = buffer[d],
           \A e \in Entries(buffer'[Cpu(s)]) :
              (e \in Entries(buffer[Cpu(s)]) /\ ~OfSender(s, e)) \/ OfSender(s, e)'
    PROVE  Explained'
<1> SUFFICES ASSUME NEW c \in Cpus, NEW e \in Entries(buffer'[c])
             PROVE  (c = loop /\ OfLoop(e)') \/ \E r \in Senders : Cpu(r) = c /\ OfSender(r, e)'
  BY DEF Explained
<1>1. CASE c = Cpu(s) /\ OfSender(s, e)'
  BY <1>1
<1>2. CASE e \in Entries(buffer[c]) /\ (c = Cpu(s) => ~OfSender(s, e))
  <2>1. CASE c = loop /\ OfLoop(e)
    BY <2>1 DEF OfLoop
  <2>2. ASSUME NEW r \in Senders, Cpu(r) = c, OfSender(r, e)
        PROVE  OfSender(r, e)'
    <3>1. r # s
      BY <1>2, <2>2
    <3> QED BY <2>2, <3>1 DEF OfSender
  <2> QED BY <1>2, <2>1, <2>2 DEF Inv, Explained
<1> QED BY <1>1, <1>2

\* The senders that share a processor with a sender that goes on are handlers,
\* and idle.
LEMMA OthersIdle ==
    ASSUME Inv, NEW s \in Senders, spc[s] # "idle", NEW r \in Senders, r # s, Cpu(r) = Cpu(s)
    PROVE  r \in Handlers /\ spc[r] = "idle"
BY SendersRight DEF Inv, OneHandler

LEMMA SendKeeps == ASSUME Inv, NEW s \in Senders, Send(s) PROVE Inv'
<1>0. PICK n \in Nat : n = sends[s] + 1
  BY DEF Inv, TypeOK
<1> DEFINE d == <<data(s), n>>
           f == <<sent(Target[s]), 1>>
<1>1. /\ spc[s] = "idle" /\ spc' = [spc EXCEPT ![s] = "test"]
      /\ s \in Handlers => \A h \in Handlers : spc[h] = "idle"
      /\ sends' = [sends EXCEPT ![s] = @ + 1]
  BY DEF Send, Move
<1>2. UNCHANGED <<mem, bytes, pc, block, revents, scan, fed, seen>>
  BY DEF Send, UNCHANGED_SEND, loopVars
<1>3. TypeOK /\ sends[s] \in Nat /\ sends[s] + 1 \in 0 .. MaxSends
  BY SendsBounded DEF Inv, Send, TypeOK
<1>4. Store(Cpu(s), <<d, f>>)
  BY <1>0 DEF Send
<1>5. /\ buffer' \in [Cpus -> Seq(Locs \X Nat)] /\ buffer'[Cpu(s)] # <<>>
      /\ Entries(buffer'[Cpu(s)]) = Entries(buffer[Cpu(s)]) \cup {d, f}
      /\ Ending(buffer'[Cpu(s)], f)
      /\ \A c \in Cpus \ {Cpu(s)} : buffer'[c] = buffer[c]
  BY <1>3, <1>4, StoreTwo, SendersRight, LocsRight
<1>6. /\ spc'[s] = "test" /\ sends'[s] = n
      /\ \A r \in Senders \ {s} : spc'[r] = spc[r] /\ sends'[r] = sends[r]
  BY <1>0, <1>1, <1>3 DEF TypeOK
<1>7. AskedFor(mem[wanted], buffer[loop]) => AskedFor(mem'[wanted], buffer'[loop])
  <2> DEFINE a == <<d, f>>
  <2>1. a \in Seq(Locs \X Nat) /\ a # <<>> /\ \A e \in Entries(a) : e[1] # wanted
    BY EntriesOfFew, LocsRight, LocsDiffer, SendersRight
  <2> HIDE DEF a
  <2> QED BY <1>2, <1>3, <1>4, <2>1, AskedStays, SendersRight DEF a
<1>8. TypeOK'
  BY <1>1, <1>2, <1>3, <1>5 DEF TypeOK
<1>9. Explained'
  <2>1. \A e : ~OfSender(s, e)
    BY <1>1 DEF OfSender
  <2>2. OfSender(s, d)' /\ OfSender(s, f)'
    BY <1>6 DEF OfSender
  <2> QED BY <1>2, <1>5, <1>6, <2>1, <2>2, SenderExplained
<1> HIDE DEF d, f
<1>10. (OneHandler /\ WantedLast /\ Waits /\ LoopState)'
  <2>1. OneHandler'
    BY <1>1, <1>6, AsyncAssumption DEF Inv, OneHandler
  <2>2. WantedLast' /\ LoopState'
    BY <1>2, <1>7 DEF Inv, WantedLast, LoopState
  <2>3. ASSUME NEW k, Raised(k)' PROVE Raised(k)
    <3>1. \A v : <<flag(k), v>> \notin {d, f}
      BY LocsDiffer DEF d, f
    <3> QED BY <1>2, <1>5, <2>3, <3>1, SendersRight, RaisedAlone
  <2>4. Waits'
    BY <1>1, <1>2, <1>6, <2>3 DEF Inv, Waits
  <2> QED BY <2>1, <2>2, <2>4
<1>11. ASSUME NEW k \in Sorts PROVE (Raised(k)' <=> Raised(k)) /\ (Raised(k)' => Wakes(k)')
  <2>1. \A v : <<flag(k), v>> \notin {d, f} /\ <<skipped, v>> \notin {d, f}
    BY LocsDiffer DEF d, f
  <2>2. Raised(k)' <=> Raised(k)
    BY <1>2, <1>5, <2>1, SendersRight, RaisedAlone
  <2>3. Wakes(k) => Wakes(k)'
    BY <1>1, <1>2, <1>5, <1>6, <2>1, SendersRight DEF Wakes
  <2> QED BY <2>2, <2>3 DEF Inv
<1>12. ASSUME NEW r \in Senders PROVE (Ends(r) /\ DataStored(r) /\ SentStays(r) /\ FlagStays(r))'
  <2>1. Ends(r)'
    <3>1. CASE r = s
      BY <1>5, <1>6, <3>1 DEF Ends, f
    <3>2. CASE r # s /\ Cpu(r) = Cpu(s)
      BY <1>1, <1>6, <3>2, SendersRight DEF Ends
    <3>3. CASE r # s /\ Cpu(r) # Cpu(s)
      BY <1>5, <1>6, <3>3, SendersRight DEF Inv, Ends
    <3> QED BY <3>1, <3>2, <3>3
  <2>2. DataStored(r)'
    <3>1. CASE r = s
      <4>1. mem[data(s)] \in 0 .. sends[s]
        BY DEF Inv, DataStored
      <4>2. mem[data(s)] \in 0 .. n
        BY <1>0, <1>3, <4>1
      <4>3. d \in Entries(buffer'[Cpu(s)])
        BY <1>5
      <4> QED BY <1>2, <1>6, <3>1, <4>2, <4>3 DEF DataStored, d
    <3>2. CASE r # s
      BY <1>2, <1>5, <1>6, <3>2, SendersRight DEF Inv, DataStored
    <3> QED BY <3>1, <3>2
  <2>3. SentStays(r)' /\ FlagStays(r)'
    <3>1. CASE r = s
      BY <1>5, <1>6, <3>1 DEF SentStays, FlagStays
    <3>2. CASE r # s
      <4>1. \A t : <<sent(t), 0>> \notin {d, f}
        BY LocsDiffer DEF d, f
      <4>2. Raised(SortOf(r)) => Raised(SortOf(r))'
        BY <1>11, SendersRight
      <4>3. SentStays(r)'
        BY <1>2, <1>5, <1>6, <3>2, <4>1, SendersRight DEF Inv, SentStays
      <4>4. FlagStays(r)'
        BY <1>2, <1>6, <3>2, <4>2 DEF Inv, FlagStays
      <4> QED BY <4>3, <4>4
    <3> QED BY <3>1, <3>2
  <2> QED BY <2>1, <2>2, <2>3
<1> QED BY <1>8, <1>9, <1>10, <1>11, <1>12 DEF Inv

LEMMA TestFlagKeeps == ASSUME Inv, NEW s \in Senders, TestFlag(s) PROVE Inv'
<1> DEFINE k == SortOf(s)
           f == <<flag(k), 1>>
           g == <<skipped, 1>>
<1>1. spc[s] = "test" /\ buffer[Cpu(s)] = <<>> /\ Entries(buffer[Cpu(s)]) = {}
  BY EntriesOfFew DEF TestFlag, Fence
<1>2. UNCHANGED <<mem, bytes, pc, block, revents, scan, fed, seen, sends>>
  BY DEF TestFlag, UNCHANGED_SEND, loopVars
<1>3. TypeOK /\ k \in Sorts
  BY SendersRight DEF Inv
<1>4. Read(Cpu(s), flag(k)) = mem[flag(k)]
  BY <1>1, <1>3, ReadRight, SendersRight
<1>5. ASSUME mem[flag(k)] = 1
      PROVE  Inv'
  <2>1. buffer' = buffer /\ spc' = [spc EXCEPT ![s] = "idle"]
    BY <1>4, <1>5 DEF TestFlag, Move, SortOf
  <2>2. spc'[s] = "idle" /\ \A r \in Senders \ {s} : spc'[r] = spc[r] /\ sends'[r] = sends[r]
    BY <1>2, <1>3, <2>1 DEF TypeOK
  <2>3. TypeOK'
    BY <1>2, <1>3, <2>1 DEF TypeOK
  <2>4. Explained'
    BY <1>1, <1>2, <2>1, <2>2, SenderExplained
  <2>5. (OneHandler /\ WantedLast /\ Waits /\ LoopState)'
    BY <1>1, <1>2, <2>1, <2>2, AsyncAssumption
       DEF Inv, OneHandler, WantedLast, Waits, LoopState, Raised
  <2>6. \A j : (Raised(j)' <=> Raised(j)) /\ (Wakes(j) => Wakes(j)')
    BY <1>1, <1>2, <2>1, <2>2 DEF Raised, Wakes
  <2>7. FlagStays(s)'
    <3>1. CASE <<flag(k), 0>> \in Entries(buffer[loop])
      <4>1. OfLoop(<<flag(k), 0>>)
        BY <3>1, SendersRight, LocsDiffer DEF Inv, Explained, OfSender
      <4>2. pc = FenceAt(k)
        BY <4>1, LocsDiffer DEF OfLoop
      <4>3. Target[s] \in scan
        BY <1>3, <4>2, SendersRight DEF Inv, LoopState, SortOf
      <4> QED BY <1>2, <4>2, <4>3 DEF FlagStays
    <3>2. CASE <<flag(k), 0>> \notin Entries(buffer[loop])
      BY <1>5, <2>6, <3>2 DEF FlagStays, Raised
    <3> QED BY <3>1, <3>2
  <2>8. ASSUME NEW r \in Senders PROVE (Ends(r) /\ DataStored(r) /\ SentStays(r) /\ FlagStays(r))'
    <3>1. Ends(r)' /\ DataStored(r)'
      BY <1>1, <1>2, <2>1, <2>2, SendersRight DEF Inv, Ends, DataStored
    <3>2. SentStays(r)'
      BY <1>1, <1>2, <2>1, <2>2 DEF Inv, SentStays
    <3>3. FlagStays(r)'
      BY <1>2, <2>2, <2>6, <2>7 DEF Inv, FlagStays
    <3> QED BY <3>1, <3>2, <3>3
  <2> QED BY <2>3, <2>4, <2>5, <2>6, <2>8 DEF Inv
<1>6. ASSUME mem[flag(k)] # 1
      PROVE  Inv'
  <2>1. Store(Cpu(s), <<f, g>>) /\ spc' = [spc EXCEPT ![s] = "wanted"]
    BY <1>4, <1>6 DEF TestFlag, Move, SortOf
  <2>2. spc'[s] = "wanted" /\ \A r \in Senders \ {s} : spc'[r] = spc[r] /\ sends'[r] = sends[r]
    BY <1>2, <1>3, <2>1 DEF TypeOK
  <2>3. /\ buffer' \in [Cpus -> Seq(Locs \X Nat)] /\ buffer'[Cpu(s)] # <<>>
        /\ Entries(buffer'[Cpu(s)]) = {f, g}
        /\ Ending(buffer'[Cpu(s)], g)
        /\ \A c \in Cpus \ {Cpu(s)} : buffer'[c] = buffer[c]
    <3> HIDE DEF k
    <3>1. flag(k) \in Locs /\ skipped \in Locs /\ 1 \in Nat /\ Cpu(s) \in Cpus
      BY <1>3, SendersRight, LocsRight
    <3>2. /\ buffer' \in [Cpus -> Seq(Locs \X Nat)] /\ buffer'[Cpu(s)] # <<>>
          /\ Entries(buffer'[Cpu(s)]) = Entries(buffer[Cpu(s)]) \cup {f, g}
          /\ Ending(buffer'[Cpu(s)], g)
          /\ \A c \in Cpus \ {Cpu(s)} : buffer'[c] = buffer[c]
      BY <1>3, <2>1, <3>1, StoreTwo
    <3> QED BY <1>1, <3>2
  <2>4. AskedFor(mem[wanted], buffer[loop]) => AskedFor(mem'[wanted], buffer'[loop])
    <3> DEFINE a == <<f, g>>
    <3>1. a \in Seq(Locs \X Nat) /\ a # <<>> /\ \A e \in Entries(a) : e[1] # wanted
      BY <1>3, EntriesOfFew, LocsRight, LocsDiffer
    <3> HIDE DEF a
    <3> QED BY <1>2, <1>3, <2>1, <3>1, AskedStays, SendersRight DEF a
  <2>5. TypeOK'
    BY <1>2, <1>3, <2>1, <2>3 DEF TypeOK
  <2>6. Explained'
    <3>1. OfSender(s, f)' /\ OfSender(s, g)'
      BY <2>2 DEF OfSender
    <3>2. \A e \in Entries(buffer'[Cpu(s)]) : OfSender(s, e)'
      <4> SUFFICES ASSUME NEW e, e = f \/ e = g PROVE OfSender(s, e)'
        BY <2>3
      <4> QED BY <2>2 DEF OfSender
    <3> QED BY <1>2, <2>2, <2>3, <3>2, SenderExplained
  <2>7. OneHandler'
    <3>1. s \in Handlers => \A h \in Handlers \ {s} : spc[h] = "idle"
      BY <1>1, AsyncAssumption DEF Inv, OneHandler
    <3> QED BY <1>1, <2>2, <3>1, AsyncAssumption DEF Inv, OneHandler
  <2>8. (WantedLast /\ LoopState)'
    BY <1>2, <2>4 DEF Inv, WantedLast, LoopState
  <2>9. Waits'
    BY <2>2 DEF Waits
  <2>10. \A j \in Sorts : Wakes(j)'
    BY <2>2, <2>3 DEF Wakes
  <2>11. \A j : Raised(j) => Raised(j)'
    <3>1. \A j : <<flag(j), 0>> \notin {f, g}
      BY LocsDiffer
    <3> QED BY <1>1, <1>2, <2>3, <3>1, SendersRight DEF Raised
  <2>12. ASSUME NEW r \in Senders PROVE (Ends(r) /\ DataStored(r) /\ SentStays(r) /\ FlagStays(r))'
    <3>1. Ends(r)'
      <4>1. CASE r = s
        BY <2>2, <2>3, <4>1 DEF Ends
      <4>2. CASE r # s /\ Cpu(r) = Cpu(s)
        BY <1>1, <2>2, <4>2, OthersIdle DEF Ends
      <4>3. CASE r # s /\ Cpu(r) # Cpu(s)
        BY <2>2, <2>3, <4>3, SendersRight DEF Inv, Ends
      <4> QED BY <4>1, <4>2, <4>3
    <3>2. DataStored(r)'
      BY <1>1, <1>2, <2>3, SendersRight DEF Inv, DataStored
    <3>3. SentStays(r)'
      <4>1. \A t : <<sent(t), 0>> \notin {f, g}
        BY LocsDiffer
      <4> QED BY <1>1, <1>2, <2>2, <2>3, <4>1, SendersRight DEF Inv, SentStays
    <3>4. FlagStays(r)'
      <4>1. CASE r = s
        BY <2>3, <4>1, SendersRight DEF FlagStays, Raised
      <4>2. CASE r # s
        BY <1>2, <2>2, <2>11, <4>2 DEF Inv, FlagStays
      <4> QED BY <4>1, <4>2
    <3> QED BY <3>1, <3>2, <3>3, <3>4
  <2> QED BY <2>5, <2>6, <2>7, <2>8, <2>9, <2>10, <2>12 DEF Inv
<1> QED BY <1>5, <1>6

LEMMA TestWantedKeeps == ASSUME Inv, NEW s \in Senders, TestWanted(s) PROVE Inv'
<1> DEFINE f == <<skipped, 0>>
<1>1. spc[s] = "wanted" /\ buffer[Cpu(s)] = <<>> /\ Entries(buffer[Cpu(s)]) = {}
  BY EntriesOfFew DEF TestWanted, Fence
<1>2. UNCHANGED <<mem, bytes, pc, block, revents, scan, fed, seen, sends>>
  BY DEF TestWanted, UNCHANGED_SEND, loopVars
<1>3. TypeOK
  BY DEF Inv
<1>4. Read(Cpu(s), wanted) = mem[wanted]
  BY <1>1, <1>3, ReadRight, SendersRight
<1>5. ASSUME mem[wanted] = 1
      PROVE  Inv'
  <2>1. Store(Cpu(s), <<f>>) /\ spc' = [spc EXCEPT ![s] = "write"]
    BY <1>4, <1>5 DEF TestWanted, Move
  <2>2. spc'[s] = "write" /\ \A r \in Senders \ {s} : spc'[r] = spc[r] /\ sends'[r] = sends[r]
    BY <1>2, <1>3, <2>1 DEF TypeOK
  <2>3. /\ buffer' \in [Cpus -> Seq(Locs \X Nat)] /\ buffer'[Cpu(s)] # <<>>
        /\ Entries(buffer'[Cpu(s)]) = {f}
        /\ Ending(buffer'[Cpu(s)], f)
        /\ \A c \in Cpus \ {Cpu(s)} : buffer'[c] = buffer[c]
    BY <1>1, <1>3, <2>1, StoreOne, SendersRight, LocsRight
  <2>4. AskedFor(mem[wanted], buffer[loop]) => AskedFor(mem'[wanted], buffer'[loop])
    <3> DEFINE a == <<f>>
    <3>1. a \in Seq(Locs \X Nat) /\ a # <<>> /\ \A e \in Entries(a) : e[1] # wanted
      BY EntriesOfFew, LocsRight, LocsDiffer
    <3> HIDE DEF a
    <3> QED BY <1>2, <1>3, <2>1, <3>1, AskedStays, SendersRight DEF a
  <2>5. TypeOK'
    BY <1>2, <1>3, <2>1, <2>3 DEF TypeOK
  <2>6. Explained'
    <3>1. \A e \in Entries(buffer'[Cpu(s)]) : OfSender(s, e)'
      BY <2>2, <2>3 DEF OfSender
    <3> QED BY <1>2, <2>2, <2>3, <3>1, SenderExplained
  <2>7. OneHandler'
    <3>1. s \in Handlers => \A h \in Handlers \ {s} : spc[h] = "idle"
      BY <1>1, AsyncAssumption DEF Inv, OneHandler
    <3> QED BY <1>1, <2>2, <3>1, AsyncAssumption DEF Inv, OneHandler
  <2>8. (WantedLast /\ LoopState)'
    BY <1>2, <2>4 DEF Inv, WantedLast, LoopState
  <2>9. Waits'
    BY <2>2 DEF Waits
  <2>10. \A j \in Sorts : Wakes(j)'
    BY <2>2 DEF Wakes
  <2>11. \A j : Raised(j) => Raised(j)'
    <3>1. \A j, v : <<flag(j), v>> # f
      BY LocsDiffer
    <3> QED BY <1>1, <1>2, <2>3, <3>1, SendersRight DEF Raised
  <2>12. ASSUME NEW r \in Senders PROVE (Ends(r) /\ DataStored(r) /\ SentStays(r) /\ FlagStays(r))'
    <3>1. Ends(r)'
      <4>1. CASE r = s
        BY <2>2, <2>3, <4>1 DEF Ends
      <4>2. CASE r # s /\ Cpu(r) = Cpu(s)
        BY <1>1, <2>2, <4>2, OthersIdle DEF Ends
      <4>3. CASE r # s /\ Cpu(r) # Cpu(s)
        BY <2>2, <2>3, <4>3, SendersRight DEF Inv, Ends
      <4> QED BY <4>1, <4>2, <4>3
    <3>2. DataStored(r)'
      BY <1>1, <1>2, <2>3, SendersRight DEF Inv, DataStored
    <3>3. SentStays(r)'
      <4>1. \A t : <<sent(t), 0>> # f
        BY LocsDiffer
      <4> QED BY <1>1, <1>2, <2>2, <2>3, <4>1, SendersRight DEF Inv, SentStays
    <3>4. FlagStays(r)'
      BY <1>1, <1>2, <2>2, <2>11 DEF Inv, FlagStays
    <3> QED BY <3>1, <3>2, <3>3, <3>4
  <2> QED BY <2>5, <2>6, <2>7, <2>8, <2>9, <2>10, <2>12 DEF Inv
<1>6. ASSUME mem[wanted] # 1
      PROVE  Inv'
  <2>1. buffer' = buffer /\ spc' = [spc EXCEPT ![s] = "idle"]
    BY <1>4, <1>6 DEF TestWanted, Move
  <2>2. spc'[s] = "idle" /\ \A r \in Senders \ {s} : spc'[r] = spc[r] /\ sends'[r] = sends[r]
    BY <1>2, <1>3, <2>1 DEF TypeOK
  <2>3. TypeOK'
    BY <1>2, <1>3, <2>1 DEF TypeOK
  <2>4. Explained'
    BY <1>1, <1>2, <2>1, <2>2, SenderExplained
  <2>5. (OneHandler /\ WantedLast /\ Waits /\ LoopState)'
    BY <1>1, <1>2, <1>6, <2>1, <2>2, AsyncAssumption
       DEF Inv, OneHandler, WantedLast, Waits, LoopState
  <2>6. \A j : (Raised(j)' <=> Raised(j)) /\ (Wakes(j) => Wakes(j)')
    BY <1>1, <1>2, <2>1, <2>2 DEF Raised, Wakes
  <2>7. ASSUME NEW r \in Senders PROVE (Ends(r) /\ DataStored(r) /\ SentStays(r) /\ FlagStays(r))'
    <3>1. Ends(r)' /\ DataStored(r)'
      BY <1>1, <1>2, <2>1, <2>2, SendersRight DEF Inv, Ends, DataStored
    <3>2. SentStays(r)' /\ FlagStays(r)'
      BY <1>1, <1>2, <2>1, <2>2, <2>6 DEF Inv, SentStays, FlagStays
    <3> QED BY <3>1, <3>2
  <2> QED BY <2>3, <2>4, <2>5, <2>6, <2>7 DEF Inv
<1> QED BY <1>5, <1>6

LEMMA WritePipeKeeps == ASSUME Inv, NEW s \in Senders, WritePipe(s) PROVE Inv'
<1>1. /\ spc[s] = "write" /\ spc' = [spc EXCEPT ![s] = "idle"]
      /\ buffer[Cpu(s)] = <<>> /\ Entries(buffer[Cpu(s)]) = {} /\ bytes' = bytes + 1
  BY EntriesOfFew DEF WritePipe, Fence, Move
<1>2. UNCHANGED <<buffer, mem, pc, block, revents, scan, fed, seen, sends>>
  BY DEF WritePipe, UNCHANGED_SEND, loopVars
<1>3. TypeOK /\ bytes' \in Nat /\ bytes' > 0
  BY <1>1 DEF Inv, TypeOK
<1>4. spc'[s] = "idle" /\ \A r \in Senders \ {s} : spc'[r] = spc[r] /\ sends'[r] = sends[r]
  BY <1>1, <1>2, <1>3 DEF TypeOK
<1>5. TypeOK'
  BY <1>1, <1>2, <1>3 DEF TypeOK
<1>6. Explained'
  BY <1>1, <1>2, <1>4, SenderExplained
<1>7. (OneHandler /\ WantedLast /\ Waits /\ LoopState)'
  BY <1>1, <1>2, <1>3, <1>4, AsyncAssumption DEF Inv, OneHandler, WantedLast, Waits, LoopState
<1>8. \A j : (Raised(j)' <=> Raised(j)) /\ Wakes(j)'
  BY <1>2, <1>3 DEF Raised, Wakes
<1>9. ASSUME NEW r \in Senders PROVE (Ends(r) /\ DataStored(r) /\ SentStays(r) /\ FlagStays(r))'
  <2>1. Ends(r)' /\ DataStored(r)'
    BY <1>1, <1>2, <1>4, SendersRight DEF Inv, Ends, DataStored
  <2>2. SentStays(r)' /\ FlagStays(r)'
    BY <1>1, <1>2, <1>4, <1>8 DEF Inv, SentStays, FlagStays
  <2> QED BY <2>1, <2>2
<1> QED BY <1>5, <1>6, <1>7, <1>8, <1>9 DEF Inv
-----------------------------------------------------------------------------
(* Memory.                                                                 *)

LEMMA DrainKeeps == ASSUME Inv, NEW c \in Cpus, Drain(c) PROVE Inv'
<1>1. UNCHANGED <<bytes, pc, block, revents, scan, fed, seen, spc, sends>>
  BY DEF Drain, loopVars
<1>2. TypeOK
  BY DEF Inv
<1>3. PICK l \in Locs, v \in Nat :
             /\ buffer[c] # <<>>
             /\ mem' = [mem EXCEPT ![l] = v] /\ mem' \in [Locs -> Nat]
             /\ buffer' \in [Cpus -> Seq(Locs \X Nat)]
             /\ Entries(buffer[c]) = Entries(buffer'[c]) \cup {<<l, v>>}
             /\ \A e : Ending(buffer[c], e) =>
                   Ending(buffer'[c], e) /\ (buffer'[c] = <<>> => <<l, v>> = e)
             /\ \A d \in Cpus \ {c} : buffer'[d] = buffer[d]
             /\ <<l, v>> = buffer[c][1] /\ buffer'[c] = Tail(buffer[c])
  BY <1>2, DrainRight
<1>4. mem'[l] = v /\ \A x \in Locs : x # l => mem'[x] = mem[x]
  BY <1>2, <1>3 DEF TypeOK
<1>5. \A d \in Cpus : \A e \in Entries(buffer'[d]) : e \in Entries(buffer[d])
  BY <1>3
<1>6. \A d \in Cpus : \A e \in Entries(buffer[d]) : e \in Entries(buffer'[d]) \/ (d = c /\ e = <<l, v>>)
  BY <1>3
<1>7. (c = loop /\ OfLoop(<<l, v>>)) \/ \E s \in Senders : Cpu(s) = c /\ OfSender(s, <<l, v>>)
  BY <1>3 DEF Inv, Explained
<1>8. TypeOK'
  BY <1>1, <1>2, <1>3 DEF TypeOK
<1>9. Explained'
  <2>1. \A e : OfLoop(e)' <=> OfLoop(e)
    BY <1>1 DEF OfLoop
  <2>2. \A s, e : OfSender(s, e)' <=> OfSender(s, e)
    BY <1>1 DEF OfSender
  <2> QED BY <1>5, <2>1, <2>2 DEF Inv, Explained
<1>10. (OneHandler /\ LoopState)'
  BY <1>1 DEF Inv, OneHandler, LoopState
<1>11. WantedLast'
  <2>1. ASSUME pc = "decide" PROVE AskedFor(mem'[wanted], buffer'[loop])
    <3>1. AskedFor(mem[wanted], buffer[loop])
      BY <2>1 DEF Inv, WantedLast
    <3>2. CASE c = loop
      <4>1. /\ (buffer[c][1])[1] = wanted => AskedFor((buffer[c][1])[2], Tail(buffer[c]))
            /\ (buffer[c][1])[1] # wanted => AskedFor(mem[wanted], Tail(buffer[c]))
        <5> DEFINE b == buffer[c]
                   m == mem[wanted]
        <5>1. b \in Seq(Locs \X Nat) /\ b # <<>> /\ AskedFor(m, b)
          BY <1>2, <1>3, <3>1, <3>2 DEF TypeOK
        <5> HIDE DEF b, m
        <5>2. /\ b[1][1] = wanted => AskedFor(b[1][2], Tail(b))
              /\ b[1][1] # wanted => AskedFor(m, Tail(b))
          BY <5>1, AskedTail
        <5> QED BY <5>2 DEF b, m
      <4>2. /\ l = wanted => AskedFor(v, Tail(buffer[c]))
            /\ l # wanted => AskedFor(mem[wanted], Tail(buffer[c]))
        <5>1. (buffer[c][1])[1] = l /\ (buffer[c][1])[2] = v
          BY <1>3
        <5> QED BY <4>1, <5>1
      <4> QED BY <1>3, <1>4, <3>2, <4>2, LocsRight
    <3>3. CASE c # loop
      <4>1. l # wanted
        BY <1>7, <3>3, LocsDiffer DEF OfSender
      <4> QED BY <1>3, <1>4, <3>1, <3>3, <4>1, LocsRight, SendersRight
    <3> QED BY <3>2, <3>3
  <2>2. ASSUME pc = "poll" PROVE mem'[wanted] = 1
    <3>1. l # wanted
      BY <1>7, <2>2, LocsDiffer DEF OfLoop, OfSender
    <3> QED BY <1>4, <2>2, <3>1, LocsRight DEF Inv, WantedLast
  <2> QED BY <1>1, <2>1, <2>2 DEF WantedLast
<1>12. ASSUME NEW k \in Sorts PROVE Raised(k)' => Raised(k)
  <2>1. CASE l = flag(k)
    <3>1. v = 1 => Raised(k)
      BY <1>3, <2>1 DEF Raised
    <3>2. v # 1 => mem'[flag(k)] # 1
      BY <1>4, <2>1
    <3> QED BY <1>5, <3>1, <3>2 DEF Raised
  <2>2. CASE l # flag(k)
    <3>1. mem'[flag(k)] = mem[flag(k)]
      BY <1>4, <2>2, LocsRight
    <3>2. <<flag(k), 0>> \in Entries(buffer[loop]) => <<flag(k), 0>> \in Entries(buffer'[loop])
      BY <1>6, <2>2, SendersRight
    <3> QED BY <1>5, <3>1, <3>2 DEF Raised
  <2> QED BY <2>1, <2>2
<1>13. ASSUME NEW k \in Sorts, Raised(k)
       PROVE  Raised(k)' \/ (<<flag(k), 0>> \in Entries(buffer'[loop]) /\ pc = FenceAt(k))
  <2>1. ASSUME <<flag(k), 0>> \in Entries(buffer[loop]) PROVE pc = FenceAt(k)
    <3>1. OfLoop(<<flag(k), 0>>)
      BY <2>1, SendersRight, LocsDiffer DEF Inv, Explained, OfSender
    <3> QED BY <3>1, LocsDiffer DEF OfLoop
  <2>2. CASE mem[flag(k)] = 1 /\ <<flag(k), 0>> \notin Entries(buffer[loop])
    <3>1. mem'[flag(k)] = 1
      <4>1. CASE l = flag(k)
        <5>1. v = 1
          BY <1>3, <1>7, <2>2, <4>1, LocsDiffer DEF OfLoop, OfSender
        <5> QED BY <1>4, <4>1, <5>1
      <4>2. CASE l # flag(k)
        BY <1>4, <2>2, <4>2, LocsRight
      <4> QED BY <4>1, <4>2
    <3> QED BY <1>5, <2>2, <3>1, SendersRight DEF Raised
  <2>3. ASSUME NEW d \in Cpus, <<flag(k), 1>> \in Entries(buffer[d])
        PROVE  Raised(k)' \/ (<<flag(k), 0>> \in Entries(buffer'[loop]) /\ pc = FenceAt(k))
    <3>1. CASE <<flag(k), 1>> \in Entries(buffer'[d])
      BY <3>1 DEF Raised
    <3>2. CASE <<l, v>> = <<flag(k), 1>>
      <4>1. mem'[flag(k)] = 1
        BY <1>4, <3>2
      <4> QED BY <1>5, <2>1, <4>1, SendersRight DEF Raised
    <3> QED BY <1>6, <2>3, <3>1, <3>2
  <2> QED BY <2>2, <2>3, <1>13 DEF Raised
<1>14. Waits'
  BY <1>1, <1>12 DEF Inv, Waits
<1>15. ASSUME NEW k \in Sorts, Wakes(k) PROVE Wakes(k)'
  <2>1. ASSUME <<skipped, 0>> \in Entries(buffer'[loop]), mem'[skipped] = 1 PROVE Wakes(k)'
    <3>1. pc = "sig" \/ \E s \in Senders : spc[s] = "write"
      BY <1>5, <2>1, SendersRight, LocsDiffer DEF Inv, Explained, OfLoop, OfSender
    <3> QED BY <1>1, <3>1 DEF Wakes
  <2>2. mem'[skipped] = 1 => Wakes(k)'
    BY <2>1 DEF Wakes
  <2>3. CASE mem[skipped] = 1 /\ <<skipped, 0>> \notin Entries(buffer[loop])
    <3>1. CASE l = skipped
      <4>1. v = 1 \/ \E s \in Senders : spc[s] = "write"
        BY <1>3, <1>7, <2>3, <3>1, LocsDiffer DEF OfLoop, OfSender
      <4> QED BY <1>1, <1>4, <2>2, <3>1, <4>1 DEF Wakes
    <3>2. CASE l # skipped
      BY <1>4, <2>2, <2>3, <3>2, LocsRight
    <3> QED BY <3>1, <3>2
  <2>4. ASSUME NEW s \in Senders, spc[s] = "wanted", buffer[Cpu(s)] # <<>> PROVE Wakes(k)'
    <3>1. CASE buffer'[Cpu(s)] # <<>>
      BY <1>1, <2>4, <3>1 DEF Wakes
    <3>2. CASE buffer'[Cpu(s)] = <<>>
      <4>1. Cpu(s) = c
        BY <1>3, <2>4, <3>2, SendersRight
      <4>2. Ending(buffer[c], <<skipped, 1>>)
        BY <2>4, <4>1 DEF Inv, Ends
      <4>3. <<l, v>> = <<skipped, 1>>
        BY <1>3, <3>2, <4>1, <4>2
      <4> QED BY <1>4, <2>2, <4>3
    <3> QED BY <3>1, <3>2
  <2> QED BY <1>1, <1>15, <2>3, <2>4 DEF Wakes
<1>16. ASSUME NEW s \in Senders PROVE (Ends(s) /\ DataStored(s) /\ SentStays(s) /\ FlagStays(s))'
  <2>1. Ends(s)'
    <3>1. \A e : Ending(buffer[Cpu(s)], e) => Ending(buffer'[Cpu(s)], e)
      BY <1>3, SendersRight
    <3>2. s \notin Handlers /\ buffer[s] = <<>> => buffer'[s] = <<>>
      BY <1>3 DEF Cpus
    <3> QED BY <1>1, <3>1, <3>2 DEF Inv, Ends
  <2>2. DataStored(s)'
    <3>1. CASE l = data(s)
      <4>1. v = sends[s]
        BY <1>7, <3>1, LocsDiffer DEF OfLoop, OfSender
      <4>2. sends[s] \in 0 .. sends[s]
        BY <1>2 DEF TypeOK
      <4> QED BY <1>1, <1>4, <3>1, <4>1, <4>2 DEF DataStored
    <3>2. CASE l # data(s)
      <4>1. mem'[data(s)] = mem[data(s)]
        BY <1>4, <3>2, LocsRight
      <4>2. \A e \in Entries(buffer[Cpu(s)]) : e[1] = data(s) => e \in Entries(buffer'[Cpu(s)])
        BY <1>6, <3>2, SendersRight
      <4> QED BY <1>1, <4>1, <4>2 DEF Inv, DataStored
    <3> QED BY <3>1, <3>2
  <2>3. SentStays(s)'
    <3>1. ASSUME mem'[sent(Target[s])] = 1 PROVE SentStays(s)'
      <4>1. <<sent(Target[s]), 0>> \in Entries(buffer'[loop]) => Target[s] \in fed
        BY <1>5, SendersRight, LocsDiffer DEF Inv, Explained, OfLoop, OfSender
      <4> QED BY <1>1, <3>1, <4>1 DEF SentStays
    <3>2. CASE spc[s] = "test" /\ buffer[Cpu(s)] # <<>>
      <4>1. CASE buffer'[Cpu(s)] # <<>>
        BY <1>1, <3>2, <4>1 DEF SentStays
      <4>2. CASE buffer'[Cpu(s)] = <<>>
        <5>1. Cpu(s) = c
          BY <1>3, <3>2, <4>2, SendersRight
        <5>2. Ending(buffer[c], <<sent(Target[s]), 1>>)
          BY <3>2, <5>1 DEF Inv, Ends
        <5>3. <<l, v>> = <<sent(Target[s]), 1>>
          BY <1>3, <4>2, <5>1, <5>2
        <5> QED BY <1>4, <3>1, <5>3
      <4> QED BY <4>1, <4>2
    <3>3. CASE mem[sent(Target[s])] = 1 /\ <<sent(Target[s]), 0>> \notin Entries(buffer[loop])
      <4>1. CASE l = sent(Target[s])
        <5>1. v = 1
          BY <1>3, <1>7, <3>3, <4>1, LocsDiffer DEF OfLoop, OfSender
        <5> QED BY <1>4, <3>1, <4>1, <5>1
      <4>2. CASE l # sent(Target[s])
        BY <1>4, <3>1, <3>3, <4>2, LocsRight, SendersRight
      <4> QED BY <4>1, <4>2
    <3> QED BY <1>1, <3>2, <3>3 DEF Inv, SentStays
  <2>4. FlagStays(s)'
    <3>1. CASE Raised(SortOf(s))
      <4>1. CASE Raised(SortOf(s))'
        BY <1>1, <4>1 DEF FlagStays
      <4>2. CASE pc = FenceAt(SortOf(s))
        <5>1. Target[s] \in scan
          BY <4>2, SendersRight DEF Inv, LoopState, SortOf
        <5> QED BY <1>1, <4>2, <5>1 DEF FlagStays
      <4> QED BY <1>13, <3>1, <4>1, <4>2, SendersRight
    <3>2. CASE ~Raised(SortOf(s))
      BY <1>1, <3>2 DEF Inv, FlagStays
    <3> QED BY <3>1, <3>2
  <2> QED BY <2>1, <2>2, <2>3, <2>4
<1> QED BY <1>8, <1>9, <1>10, <1>11, <1>12, <1>14, <1>15, <1>16 DEF Inv
-----------------------------------------------------------------------------
(* The theorem.                                                            *)

LEMMA InitHolds == Init => Inv
<1> SUFFICES ASSUME Init PROVE Inv
  OBVIOUS
<1>1. /\ \A l \in Locs : mem[l] = 0
      /\ \A c \in Cpus : buffer[c] = <<>> /\ Entries(buffer[c]) = {}
      /\ pc = "want" /\ scan = {} /\ fed = {}
      /\ \A s \in Senders : spc[s] = "idle" /\ sends[s] = 0 /\ seen[s] = 0
  BY EntriesOfFew DEF Init
<1>2. MaxSends \in Nat
  BY AsyncAssumption
<1>3. TypeOK
  <2>1. mem \in [Locs -> Nat] /\ buffer \in [Cpus -> Seq(Locs \X Nat)]
    BY DEF Init
  <2>2. 0 \in 0 .. MaxSends
    BY <1>2
  <2>3. sends \in [Senders -> 0 .. MaxSends] /\ seen \in [Senders -> 0 .. MaxSends]
    BY <2>2 DEF Init
  <2> QED BY <2>1, <2>3 DEF Init, TypeOK
<1>4. Explained /\ OneHandler /\ WantedLast /\ Waits /\ LoopState
  BY <1>1, AsyncAssumption DEF Explained, OneHandler, WantedLast, Waits, LoopState, FenceAt
<1>5. ASSUME NEW s \in Senders PROVE Ends(s) /\ DataStored(s) /\ SentStays(s) /\ FlagStays(s)
  <2>1. Ends(s)
    BY <1>1, SendersRight DEF Ends
  <2>2. mem[data(s)] = 0 /\ 0 \in 0 .. 0
    BY <1>1, LocsRight
  <2> QED BY <1>1, <2>1, <2>2 DEF DataStored, SentStays, FlagStays
<1>6. \A k \in Sorts : ~Raised(k)
  BY <1>1, LocsRight, SendersRight DEF Raised
<1> QED BY <1>3, <1>4, <1>5, <1>6 DEF Inv

LEMMA NextKeeps == ASSUME Locking, Inv, Next PROVE Inv'
<1>1. CASE LoopStep
  <2>1. CASE Want
    BY <2>1, WantKeeps
  <2>2. CASE Decide
    BY <2>2, DecideKeeps
  <2>3. CASE Poll
    BY <2>3, PollKeeps DEF Poll
  <2>4. CASE CheckSkipped
    BY <2>4, CheckSkippedKeeps
  <2>5. CASE Pipecb
    BY <2>5, PipecbKeeps
  <2>6. CASE Iterate
    BY <2>6, IterateKeeps
  <2>7. ASSUME NEW k \in Sorts, TestSort(k) \/ FenceSort(k) \/ ScanDone(k) PROVE Inv'
    BY <2>7, TestSortKeeps, FenceSortKeeps, ScanDoneKeeps
  <2>8. ASSUME NEW k \in Sorts, NEW t \in Targets, Scan(k, t) PROVE Inv'
    BY <2>8, ScanKeeps
  <2>9. ASSUME NEW t \in Targets, Callback(t) PROVE Inv'
    BY <2>9, CallbackKeeps
  <2> QED BY <1>1, <2>1, <2>2, <2>3, <2>4, <2>5, <2>6, <2>7, <2>8, <2>9 DEF LoopStep, Sorts
<1>2. CASE PollOther
  BY <1>2, PollKeeps DEF PollOther
<1>3. ASSUME NEW c \in Cpus, Drain(c) PROVE Inv'
  BY <1>3, DrainKeeps
<1>4. ASSUME NEW s \in Senders, Send(s) \/ SenderStep(s) PROVE Inv'
  BY <1>4, SendKeeps, TestFlagKeeps, TestWantedKeeps, WritePipeKeeps DEF SenderStep
<1> QED BY <1>1, <1>2, <1>3, <1>4 DEF Next

LEMMA StutterKeeps == ASSUME Inv, UNCHANGED vars PROVE Inv'
<1>1. UNCHANGED <<mem, buffer, bytes, pc, block, revents, scan, fed, seen, spc, sends>>
  BY DEF vars, loopVars
<1>2. TypeOK' /\ Explained' /\ OneHandler' /\ WantedLast' /\ LoopState'
  BY <1>1 DEF Inv, TypeOK, Explained, OfLoop, OfSender, OneHandler, WantedLast, LoopState
<1>3. \A k : (Raised(k)' <=> Raised(k)) /\ (Wakes(k)' <=> Wakes(k))
  BY <1>1 DEF Raised, Wakes
<1>4. Waits'
  BY <1>1, <1>3 DEF Inv, Waits
<1>5. \A s \in Senders : (Ends(s) /\ DataStored(s) /\ SentStays(s) /\ FlagStays(s))'
  BY <1>1, <1>3 DEF Inv, Ends, DataStored, SentStays, FlagStays
<1> QED BY <1>2, <1>3, <1>4, <1>5 DEF Inv

LEMMA InvGivesAsyncInv == Inv => AsyncInv
<1> SUFFICES ASSUME Inv PROVE AsyncInv
  OBVIOUS
<1>1. TypeOK
  BY DEF Inv
<1>2. NoLostWakeup
  <2> SUFFICES ASSUME pc = "poll", block, bytes = 0, \A s \in Senders : spc[s] = "idle" PROVE seen = sends
    BY DEF NoLostWakeup
  <2>1. ASSUME NEW s \in Senders PROVE seen[s] = sends[s]
    <3>1. ~Raised(SortOf(s)) /\ fed = {}
      BY SendersRight DEF Inv, Waits, LoopState
    <3> QED BY <3>1 DEF Inv, FlagStays, FenceAt, ScanAt
  <2> QED BY <1>1, <2>1 DEF TypeOK
<1>3. FlaggedIsWoken
  <2> SUFFICES ASSUME pc = "poll", block, NEW k \in Sorts, mem[flag(k)] = 1
               PROVE  bytes > 0 \/ \E s \in Senders : spc[s] \in {"wanted", "write"}
    BY DEF FlaggedIsWoken, Sorts
  <2>1. <<flag(k), 0>> \notin Entries(buffer[loop])
    BY SendersRight, LocsDiffer DEF Inv, Explained, OfLoop, OfSender, FenceAt
  <2>2. Raised(k)
    BY <2>1 DEF Raised
  <2> QED BY <2>2 DEF Inv, Waits
<1> QED BY <1>1, <1>2, <1>3 DEF AsyncInv

\* Where callbacks take a lock before they look at their data, whatever the
\* watchers, the threads, the handlers and the order in which memory sees their
\* stores: a loop that waits on an empty pipe has seen every complete send, and
\* no flag is left for a loop that is not woken (ev_async_send, ev_feed_signal,
\* evpipe_write, pipecb and the wait of ev_run).
THEOREM AsyncInvHolds == ASSUME Locking PROVE Spec => []AsyncInv
<1>1. Inv /\ [Next]_vars => Inv'
  BY NextKeeps, StutterKeeps
<1> QED BY InitHolds, <1>1, InvGivesAsyncInv, PTL DEF Spec
=============================================================================
