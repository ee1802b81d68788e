--------------------------- MODULE MsQueueProofs ---------------------------
(***************************************************************************)
(* The queues of many producers and many consumers.                        *)
(*                                                                         *)
(* The linked queue of Michael and Scott, for any number of producers,     *)
(* consumers and values: its links are the nodes in the order in which     *)
(* they were linked, tail_ is at most one node behind, and the queue is a  *)
(* first-in first-out queue.                                               *)
(*                                                                         *)
(* The ring of MpmcQueue, for any uses in which no thread is lapped: no two*)
(* threads are at one slot, and the ring is a first-in first-out queue.    *)
(***************************************************************************)
EXTENDS MsQueue, MpmcRing, FiniteSets, SequenceTheorems, FiniteSetTheorems, TLAPS
-----------------------------------------------------------------------------
(* The inductive invariant.                                                *)

\* s holds n, and m at the same place or at a later one.
NoLater(s, n, m) == \E i, j \in DOMAIN s : s[i] = n /\ s[j] = m /\ i <= j

\* head_ is not past tail_, and tail_ is at the last node or at the one before.
Ends ==
    /\ NoLater(linked, head_, tail_)
    /\ \E t \in DOMAIN linked : tail_ = linked[t] /\ t >= Len(linked) - 1

\* A linked node holds its value, and a node of a call to come, or of a call
\* that has not linked it, is not linked.
OwnNodes ==
    /\ \A n \in Range(linked) : n = dummy \/ data[n] = n
    /\ \A p \in Producers : \A j \in 1 .. Items[p] :
         j > sent[p] + 1 \/ (j = sent[p] + 1 /\ pc[p] # "advance") => <<p, j>> \notin Range(linked)

\* What a thread has loaded stays true of the links, whatever the others do:
\* a pointer to a linked node, and a next pointer once it is not null.
ProducerOK(p) ==
    /\ pc[p] \in {"idle", "tail", "next", "recheck", "link", "help", "advance"}
    /\ pc[p] # "idle" => Node(p) \in Values /\ data[Node(p)] = Node(p)
    /\ pc[p] \in {"next", "recheck", "link", "help", "advance"} => NoLater(linked, last[p], tail_)
    /\ pc[p] = "recheck" => next[p] \in {nullptr, nxt[last[p]]}
    /\ pc[p] = "help" => next[p] # nullptr /\ nxt[last[p]] = next[p]
    /\ pc[p] = "advance" => nxt[last[p]] = Node(p)

ConsumerOK(c) ==
    /\ pc[c] \in {"idle", "head", "tail", "next", "recheck", "false", "take", "help", "move"}
    /\ pc[c] \in {"tail", "next", "recheck", "take", "help"} => NoLater(linked, first[c], head_)
    /\ pc[c] \in {"next", "recheck", "take", "help"} =>
         NoLater(linked, first[c], last[c]) /\ NoLater(linked, last[c], tail_)
    /\ pc[c] = "recheck" =>
         next[c] \in {nullptr, nxt[first[c]]} /\ (first[c] # last[c] => next[c] # nullptr)
    /\ pc[c] \in {"take", "help"} => next[c] # nullptr /\ nxt[first[c]] = next[c]
    /\ pc[c] = "take" => first[c] # last[c]
    /\ pc[c] = "help" => first[c] = last[c]
    /\ pc[c] = "false" => next[c] = nullptr
    /\ pc[c] = "move" => next[c] # dummy /\ next[c] \in Range(linked)

Inv ==
    /\ TypeOK /\ LinksInOrder /\ Ends /\ OwnNodes
    /\ \A p \in Producers : ProducerOK(p)
    /\ \A c \in Consumers : ConsumerOK(c)
-----------------------------------------------------------------------------
(* Facts of the order in a sequence without repetition.                    *)

\* What is no later than something that is no later than a third is no later
\* than the third.
LEMMA NoLaterTransitive ==
    ASSUME NEW s, IsInjective(s), DOMAIN s \subseteq Nat, NEW a, NEW b, NEW c,
           NoLater(s, a, b), NoLater(s, b, c)
    PROVE  NoLater(s, a, c)
<1>1. PICK i \in DOMAIN s, j \in DOMAIN s : s[i] = a /\ s[j] = b /\ i <= j
  BY DEF NoLater
<1>2. PICK k \in DOMAIN s, l \in DOMAIN s : s[k] = b /\ s[l] = c /\ k <= l
  BY DEF NoLater
<1>3. j = k
  BY <1>1, <1>2 DEF IsInjective
<1>4. i <= l
  BY <1>1, <1>2, <1>3
<1>5. QED
  BY <1>1, <1>2, <1>4 DEF NoLater

\* A node is no later than itself.
LEMMA NoLaterReflexive ==
    ASSUME NEW s, DOMAIN s \subseteq Nat, NEW a \in Range(s)
    PROVE  NoLater(s, a, a)
BY DEF NoLater, Range

\* What an appended node changes: it comes last, the others stay in their order.
LEMMA Appended ==
    ASSUME NEW S, NEW s \in Seq(S), NEW n \in S
    PROVE  /\ Append(s, n) \in Seq(S) /\ Len(Append(s, n)) = Len(s) + 1
           /\ DOMAIN s = 1 .. Len(s) /\ DOMAIN Append(s, n) = 1 .. Len(s) + 1
           /\ Append(s, n)[Len(s) + 1] = n
           /\ \A k \in 1 .. Len(s) : Append(s, n)[k] = s[k]
           /\ Range(Append(s, n)) = Range(s) \cup {n}
           /\ \A a, b : NoLater(s, a, b) => NoLater(Append(s, n), a, b)
           /\ IsInjective(s) /\ n \notin Range(s) => IsInjective(Append(s, n))
<1> DEFINE w == Append(s, n)
<1>1. /\ w \in Seq(S) /\ Len(w) = Len(s) + 1 /\ Len(s) \in Nat
      /\ w[Len(s) + 1] = n /\ \A k \in 1 .. Len(s) : w[k] = s[k]
  BY AppendProperties, LenProperties
<1>2. DOMAIN s = 1 .. Len(s) /\ DOMAIN w = 1 .. Len(s) + 1
  BY <1>1, LenProperties
<1>3. \A k \in DOMAIN w : k \in DOMAIN s \/ k = Len(s) + 1
  BY <1>1, <1>2
<1>4. \A k \in DOMAIN s : k \in DOMAIN w /\ w[k] = s[k]
  BY <1>1, <1>2
<1>5. Len(s) + 1 \in DOMAIN w
  BY <1>1, <1>2
<1>6. Range(w) = Range(s) \cup {n}
  <2> HIDE DEF w
  <2> QED BY <1>1, <1>3, <1>4, <1>5 DEF Range
<1>7. \A a, b : NoLater(s, a, b) => NoLater(w, a, b)
  <2> HIDE DEF w
  <2> QED BY <1>4 DEF NoLater
<1>8. IsInjective(s) /\ n \notin Range(s) => IsInjective(w)
  <2> HIDE DEF w
  <2> QED BY <1>1, <1>3, <1>4 DEF Range, IsInjective
<1>9. QED
  BY <1>1, <1>2, <1>6, <1>7, <1>8
-----------------------------------------------------------------------------
(* The links.                                                              *)

\* The nodes are the first dummy and the values, and no pointer is null.
LEMMA ConstantsDiffer ==
    /\ nullptr \notin Nodes /\ dummy \notin Values /\ none \notin Values /\ empty \notin Values
    /\ none # empty /\ dummy \in Nodes /\ Values \subseteq Nodes
    /\ \A n \in Nodes : n = dummy \/ n \in Values
    /\ \A p \in Producers : p \notin Consumers
BY ItemsAssumption DEF Nodes

\* The next pointer of a linked node is null for the last one, and leads to the
\* next one for the others.
LEMMA NextLinks ==
    ASSUME TypeOK, LinksInOrder, NEW k \in DOMAIN linked
    PROVE  /\ k \in 1 .. Len(linked) /\ Len(linked) \in Nat
           /\ DOMAIN linked = 1 .. Len(linked) /\ linked[k] \in Nodes
           /\ linked[k] \in Range(linked)
           /\ nxt[linked[k]] = nullptr <=> k = Len(linked)
           /\ k # Len(linked) => k + 1 \in DOMAIN linked /\ nxt[linked[k]] = linked[k + 1]
<1>1. linked \in Seq(Nodes) BY DEF TypeOK
<1>2. Len(linked) \in Nat /\ DOMAIN linked = 1 .. Len(linked) /\ k \in 1 .. Len(linked)
  BY <1>1, LenProperties
<1>3. \A i \in 1 .. Len(linked) : linked[i] \in Nodes
  BY <1>1, ElementOfSeq
<1>4. k # Len(linked) => k + 1 \in 1 .. Len(linked)
  BY <1>2
<1>5. nxt[linked[k]] = IF k = Len(linked) THEN nullptr ELSE linked[k + 1]
  BY DEF LinksInOrder
<1>6. k # Len(linked) => linked[k + 1] # nullptr
  BY <1>3, <1>4, ConstantsDiffer
<1>7. linked[k] \in Range(linked)
  BY DEF Range
<1>8. QED
  BY <1>2, <1>3, <1>4, <1>5, <1>6, <1>7

\* What a step leaves true of the links: their order, the next pointers that are
\* set, the value of every node that has one; and head_ and tail_ only move on.
Grows ==
    /\ \A a, b : NoLater(linked, a, b) => NoLater(linked', a, b)
    /\ Range(linked) \subseteq Range(linked')
    /\ \A n \in Range(linked) : nxt[n] # nullptr => nxt'[n] = nxt[n]
    /\ NoLater(linked', tail_, tail_') /\ NoLater(linked', head_, head_')
    /\ \A n \in Values : data[n] = n => data'[n] = n

Links == linked \in Seq(Nodes) /\ LinksInOrder /\ Ends

\* head_ and tail_ are linked nodes.
LEMMA EndsLinked ==
    ASSUME TypeOK, LinksInOrder, Ends
    PROVE  /\ head_ \in Range(linked) /\ tail_ \in Range(linked)
           /\ DOMAIN linked \subseteq Nat /\ IsInjective(linked)
           /\ NoLater(linked, tail_, tail_) /\ NoLater(linked, head_, head_)
<1>1. DOMAIN linked \subseteq Nat
  BY LenProperties DEF TypeOK
<1>2. head_ \in Range(linked) /\ tail_ \in Range(linked)
  BY DEF Ends, NoLater, Range
<1>3. QED
  BY <1>1, <1>2, NoLaterReflexive DEF LinksInOrder

\* A step that leaves all shared state as it is.
LEMMA SharedUnchanged ==
    ASSUME TypeOK, LinksInOrder, Ends, UNCHANGED <<head_, tail_, nxt, linked>>,
           \A n \in Values : data[n] = n => data'[n] = n
    PROVE  Links' /\ Grows
BY EndsLinked DEF Grows, Links, TypeOK, LinksInOrder, Ends

\* tail_ moves on to the node after it.
LEMMA TailMoves ==
    ASSUME TypeOK, LinksInOrder, Ends, nxt[tail_] # nullptr, tail_' = nxt[tail_],
           UNCHANGED <<head_, data, nxt, linked>>
    PROVE  Links' /\ Grows
<1>1. PICK t \in DOMAIN linked : tail_ = linked[t] /\ t >= Len(linked) - 1
  BY DEF Ends
<1>2. t # Len(linked) /\ t + 1 \in DOMAIN linked /\ tail_' = linked[t + 1]
  BY <1>1, NextLinks
<1>3. t \in Nat /\ Len(linked) \in Nat /\ DOMAIN linked \subseteq Nat
  BY NextLinks, EndsLinked
<1>4. NoLater(linked, tail_, tail_')
  BY <1>1, <1>2, <1>3 DEF NoLater
<1>5. NoLater(linked, head_, tail_')
  BY <1>4, EndsLinked, NoLaterTransitive DEF Ends
<1>6. t + 1 >= Len(linked) - 1
  BY <1>1, <1>3
<1>7. Ends'
  BY <1>2, <1>5, <1>6 DEF Ends
<1>8. QED
  BY <1>4, <1>7, EndsLinked DEF Grows, Links, TypeOK, LinksInOrder

\* A pointer to a linked node before tail_ leads to a node not past tail_.
LEMMA NextNotPastTail ==
    ASSUME TypeOK, LinksInOrder, Ends, NEW n, NEW m, NoLater(linked, n, m), n # m,
           NoLater(linked, m, tail_)
    PROVE  nxt[n] # nullptr /\ NoLater(linked, n, nxt[n]) /\ NoLater(linked, nxt[n], tail_)
           /\ nxt[n] # dummy
<1>1. PICK i \in DOMAIN linked, j \in DOMAIN linked : linked[i] = n /\ linked[j] = m /\ i <= j
  BY DEF NoLater
<1>2. i \in Nat /\ j \in Nat /\ i # j /\ Len(linked) \in Nat /\ j <= Len(linked)
  BY <1>1, NextLinks
<1>3. i # Len(linked) /\ i + 1 <= j /\ i <= i + 1 /\ 1 # i + 1
  <2>1. i \in 1 .. Len(linked) BY NextLinks
  <2>2. QED BY <1>1, <1>2, <2>1
<1>4. nxt[n] # nullptr /\ i + 1 \in DOMAIN linked /\ nxt[n] = linked[i + 1]
  BY <1>1, <1>3, NextLinks
<1>5. NoLater(linked, n, nxt[n]) /\ NoLater(linked, nxt[n], m)
  BY <1>1, <1>3, <1>4 DEF NoLater
<1>6. NoLater(linked, nxt[n], tail_)
  BY <1>5, EndsLinked, NoLaterTransitive
<1>7. 1 \in DOMAIN linked
  <2>1. i \in 1 .. Len(linked) /\ DOMAIN linked = 1 .. Len(linked) BY NextLinks
  <2>2. QED BY <2>1, <1>2
<1>8. linked[i + 1] # dummy
  BY <1>3, <1>4, <1>7 DEF LinksInOrder, IsInjective
<1>9. QED
  BY <1>4, <1>5, <1>6, <1>8

\* head_ moves on to the node after it, which is not past tail_.
LEMMA HeadMoves ==
    ASSUME TypeOK, LinksInOrder, Ends, head_' = nxt[head_], NEW m, NoLater(linked, head_, m),
           head_ # m, NoLater(linked, m, tail_), UNCHANGED <<tail_, data, nxt, linked>>
    PROVE  Links' /\ Grows
<1>1. NoLater(linked, head_, head_') /\ NoLater(linked, head_', tail_)
  BY NextNotPastTail
<1>2. QED
  BY <1>1, EndsLinked DEF Grows, Links, TypeOK, LinksInOrder, Ends

\* A node is linked after the last one: a thread that finds the next pointer of a
\* linked node null has the last node, and tail_ is there.
LEMMA NodeLinked ==
    ASSUME TypeOK, LinksInOrder, Ends, NEW m, NoLater(linked, m, tail_), nxt[m] = nullptr,
           NEW n \in Nodes, n \notin Range(linked),
           nxt' = [nxt EXCEPT ![m] = n], linked' = Append(linked, n),
           UNCHANGED <<head_, tail_, data>>
    PROVE  Links' /\ Grows /\ Range(linked') = Range(linked) \cup {n} /\ nxt'[m] = n
<1> DEFINE L == Len(linked)
<1>1. PICK i \in DOMAIN linked, j \in DOMAIN linked : linked[i] = m /\ linked[j] = tail_ /\ i <= j
  BY DEF NoLater
<1>2. L \in Nat /\ i = L /\ DOMAIN linked = 1 .. L /\ i \in 1 .. L /\ j \in 1 .. L /\ m \in Nodes
  BY <1>1, NextLinks
<1>3. j = L /\ tail_ = linked[L] /\ m = linked[L] /\ L \in DOMAIN linked /\ 1 \in DOMAIN linked
  BY <1>1, <1>2
<1>4. linked \in Seq(Nodes) /\ linked' \in Seq(Nodes)
  BY Appended DEF TypeOK
<1>5. /\ Len(linked') = L + 1 /\ DOMAIN linked' = 1 .. L + 1 /\ linked'[L + 1] = n
      /\ \A k \in 1 .. L : linked'[k] = linked[k]
      /\ Range(linked') = Range(linked) \cup {n} /\ IsInjective(linked')
      /\ \A a, b : NoLater(linked, a, b) => NoLater(linked', a, b)
  <2>1. linked \in Seq(Nodes) /\ IsInjective(linked) BY <1>4 DEF LinksInOrder
  <2> QED BY <2>1, Appended
<1>6. nxt'[m] = n /\ \A x \in Nodes : x # m => nxt'[x] = nxt[x]
  BY <1>2 DEF TypeOK
<1>7. linked'[1] = dummy
  BY <1>2, <1>3, <1>5 DEF LinksInOrder
<1>8. ASSUME NEW x \in Nodes, x \notin Range(linked')
      PROVE  nxt'[x] = nullptr
  <2>1. x \notin Range(linked) BY <1>5, <1>8
  <2>2. m \in Range(linked) BY <1>3 DEF Range
  <2>3. QED BY <1>6, <2>1, <2>2 DEF LinksInOrder
<1>9. ASSUME NEW k \in DOMAIN linked'
      PROVE  nxt'[linked'[k]] = IF k = Len(linked') THEN nullptr ELSE linked'[k + 1]
  <2>1. CASE k = L + 1
    <3>1. n # m BY <1>3 DEF Range
    <3>2. nxt[n] = nullptr BY DEF LinksInOrder
    <3>3. QED BY <1>5, <1>6, <2>1, <3>1, <3>2
  <2>2. CASE k = L
    <3>1. linked'[k] = m BY <1>2, <1>3, <1>5, <2>2
    <3>2. k # Len(linked') BY <1>2, <1>5, <2>2
    <3>3. QED BY <1>5, <1>6, <2>2, <3>1, <3>2
  <2>3. CASE k \in 1 .. L /\ k # L
    <3>1. k \in DOMAIN linked /\ k + 1 \in 1 .. L /\ k # Len(linked') BY <1>2, <1>5, <2>3
    <3>2. linked[k] # m BY <1>3, <2>3, <3>1 DEF LinksInOrder, IsInjective
    <3>3. linked[k] \in Nodes /\ nxt[linked[k]] = linked[k + 1] BY <2>3, <3>1, NextLinks
    <3>4. linked'[k] = linked[k] /\ linked'[k + 1] = linked[k + 1] BY <1>5, <2>3, <3>1
    <3>5. QED BY <1>6, <3>1, <3>2, <3>3, <3>4
  <2>4. QED BY <1>2, <1>5, <2>1, <2>2, <2>3
<1>10. LinksInOrder'
  BY <1>5, <1>7, <1>8, <1>9 DEF LinksInOrder
<1>11. Ends'
  <2>1. NoLater(linked', head_', tail_') BY <1>5 DEF Ends
  <2>2. L \in DOMAIN linked' /\ tail_' = linked'[L] /\ L >= Len(linked') - 1
    BY <1>2, <1>3, <1>5
  <2>3. QED BY <2>1, <2>2 DEF Ends
<1>12. \A x \in Range(linked) : nxt[x] # nullptr => nxt'[x] = nxt[x]
  <2>1. \A x \in Range(linked) : x \in Nodes BY NextLinks DEF Range
  <2>2. QED BY <1>6, <2>1
<1>13. Grows
  BY <1>5, <1>12, EndsLinked DEF Grows
<1>14. QED
  BY <1>4, <1>5, <1>6, <1>10, <1>11, <1>13 DEF Links
-----------------------------------------------------------------------------
(* A step of one thread, seen by the others.                               *)

\* What a producer has loaded stays true when another thread takes a step.
LEMMA ProducerKept ==
    ASSUME TypeOK, Links', Grows, NEW q \in Producers, ProducerOK(q), Node(q)' = Node(q),
           pc'[q] = pc[q], last'[q] = last[q], next'[q] = next[q]
    PROVE  ProducerOK(q)'
<1>1. IsInjective(linked') /\ DOMAIN linked' \subseteq Nat
  BY LenProperties DEF Links, LinksInOrder
<1>2. ASSUME NoLater(linked, last[q], tail_) PROVE NoLater(linked', last'[q], tail_')
  <2>1. NoLater(linked', last[q], tail_) /\ NoLater(linked', tail_, tail_')
    BY <1>2 DEF Grows
  <2>2. QED BY <1>1, <2>1, NoLaterTransitive
<1>3. ASSUME NoLater(linked, last[q], tail_), nxt[last[q]] # nullptr
      PROVE  nxt'[last'[q]] = nxt[last[q]]
  <2>1. last[q] \in Range(linked) BY <1>3 DEF NoLater, Range
  <2>2. QED BY <1>3, <2>1 DEF Grows
<1>4. pc[q] # "idle" => Node(q)' \in Values /\ data'[Node(q)'] = Node(q)'
  BY DEF ProducerOK, Grows
<1>5. pc[q] = "advance" => nxt[last[q]] # nullptr
  BY ConstantsDiffer DEF ProducerOK
<1>6. QED
  BY <1>2, <1>3, <1>4, <1>5 DEF ProducerOK

\* What a consumer has loaded stays true when another thread takes a step.
LEMMA ConsumerKept ==
    ASSUME TypeOK, Links', Grows, NEW c \in Consumers, ConsumerOK(c),
           pc'[c] = pc[c], first'[c] = first[c], last'[c] = last[c], next'[c] = next[c]
    PROVE  ConsumerOK(c)'
<1>1. IsInjective(linked') /\ DOMAIN linked' \subseteq Nat
  BY LenProperties DEF Links, LinksInOrder
<1>2. ASSUME NoLater(linked, last[c], tail_) PROVE NoLater(linked', last'[c], tail_')
  <2>1. NoLater(linked', last[c], tail_) /\ NoLater(linked', tail_, tail_')
    BY <1>2 DEF Grows
  <2>2. QED BY <1>1, <2>1, NoLaterTransitive
<1>3. ASSUME NoLater(linked, first[c], head_) PROVE NoLater(linked', first'[c], head_')
  <2>1. NoLater(linked', first[c], head_) /\ NoLater(linked', head_, head_')
    BY <1>3 DEF Grows
  <2>2. QED BY <1>1, <2>1, NoLaterTransitive
<1>4. ASSUME NoLater(linked, first[c], head_), nxt[first[c]] # nullptr
      PROVE  nxt'[first'[c]] = nxt[first[c]]
  <2>1. first[c] \in Range(linked) BY <1>4 DEF NoLater, Range
  <2>2. QED BY <1>4, <2>1 DEF Grows
<1>5. NoLater(linked, first[c], last[c]) => NoLater(linked', first'[c], last'[c])
  BY DEF Grows
<1>6. next[c] \in Range(linked) => next'[c] \in Range(linked')
  BY DEF Grows
<1>7. QED
  BY <1>2, <1>3, <1>4, <1>5, <1>6 DEF ConsumerOK

\* A step of t touches what no other thread has loaded, and no other's place.
OnlyOf(t) ==
    /\ \A u \in Threads : u # t => pc'[u] = pc[u] /\ last'[u] = last[u] /\ next'[u] = next[u]
    /\ \A c \in Consumers : c # t => first'[c] = first[c]
    /\ \A p \in Producers : p # t => sent'[p] = sent[p]

\* A step keeps the invariant when it leaves the links sound and the thread that
\* takes it in order: the other threads are not disturbed.
LEMMA OneThread ==
    ASSUME Inv, TypeOK', Links', Grows, OwnNodes', NEW t \in Threads, OnlyOf(t),
           t \in Producers => ProducerOK(t)', t \in Consumers => ConsumerOK(t)'
    PROVE  Inv'
<1>1. ASSUME NEW p \in Producers PROVE ProducerOK(p)'
  <2>1. CASE p = t BY <2>1
  <2>2. CASE p # t
    <3>1. Node(p)' = Node(p) BY <2>2 DEF Node, OnlyOf
    <3>2. ProducerOK(p) /\ TypeOK BY DEF Inv
    <3>3. pc'[p] = pc[p] /\ last'[p] = last[p] /\ next'[p] = next[p] BY <2>2 DEF Threads, OnlyOf
    <3>4. QED BY ONLY Links', Grows, p \in Producers, <3>1, <3>2, <3>3, ProducerKept
  <2>3. QED BY <2>1, <2>2
<1>2. ASSUME NEW c \in Consumers PROVE ConsumerOK(c)'
  <2>1. CASE c = t BY <2>1
  <2>2. CASE c # t
    <3>1. ConsumerOK(c) /\ TypeOK BY DEF Inv
    <3>2. pc'[c] = pc[c] /\ last'[c] = last[c] /\ next'[c] = next[c] /\ first'[c] = first[c]
      BY <2>2 DEF Threads, OnlyOf
    <3>3. QED BY ONLY Links', Grows, c \in Consumers, <3>1, <3>2, ConsumerKept
  <2>3. QED BY <2>1, <2>2
<1>3. QED
  BY <1>1, <1>2 DEF Inv, Links

\* A step that links no node and ends no enqueue leaves every node to its owner.
LEMMA OwnNodesKept ==
    ASSUME Inv, Range(linked') = Range(linked), sent' = sent,
           \A n \in Values : data[n] = n => data'[n] = n,
           \A p \in Producers : pc[p] = "advance" => pc'[p] = "advance"
    PROVE  OwnNodes'
<1>1. ASSUME NEW n \in Range(linked) PROVE n = dummy \/ data'[n] = n
  <2>1. n \in Nodes
    <3>1. PICK k \in DOMAIN linked : linked[k] = n BY DEF Range
    <3>2. QED BY <3>1, NextLinks DEF Inv
  <2>2. QED BY <2>1, ConstantsDiffer DEF Inv, OwnNodes
<1>2. QED
  BY <1>1 DEF Inv, OwnNodes
-----------------------------------------------------------------------------
(* The steps of a producer.                                                *)

\* What a thread that starts a new turn has: nothing loaded.
LEMMA TurnEnds ==
    ASSUME TypeOK, NEW t \in Threads, NEW w \in {"idle", "tail", "head"}, Again(t, w)
    PROVE  /\ pc' \in [Threads -> {"idle", "tail", "next", "recheck", "link", "help", "advance",
                                   "head", "false", "take", "move"}]
           /\ first' \in [Consumers -> Nodes \cup {nullptr}]
           /\ last' \in [Threads -> Nodes \cup {nullptr}]
           /\ next' \in [Threads -> Nodes \cup {nullptr}]
           /\ pc'[t] = w
           /\ \A u \in Threads : u # t => pc'[u] = pc[u] /\ last'[u] = last[u] /\ next'[u] = next[u]
           /\ \A c \in Consumers : c # t => first'[c] = first[c]
BY DEF TypeOK, Again, Goto

\* What the invariant gives for a producer.
LEMMA OfProducer ==
    ASSUME Inv, NEW p \in Producers
    PROVE  /\ TypeOK /\ LinksInOrder /\ Ends /\ OwnNodes /\ ProducerOK(p)
           /\ p \in Threads /\ p \notin Consumers
BY ConstantsDiffer DEF Inv, Threads

\* The new node gets its value while nobody else knows it.
LEMMA ConstructKeeps == ASSUME Inv, NEW p \in Producers, Construct(p) PROVE Inv'
<1>1. TypeOK /\ LinksInOrder /\ Ends /\ ProducerOK(p) /\ p \in Threads /\ p \notin Consumers
  BY OfProducer
<1>2. Node(p) \in Values
  <2>1. sent[p] + 1 \in 1 .. Items[p]
    BY <1>1, ItemsAssumption DEF Construct, TypeOK
  <2>2. QED BY <2>1 DEF Values, Node
<1>3. data' = [data EXCEPT ![Node(p)] = Node(p)] /\ data'[Node(p)] = Node(p)
  BY <1>1, <1>2, ConstantsDiffer DEF Construct, Node, TypeOK
<1>4. TypeOK'
  BY <1>1, <1>2, <1>3, ConstantsDiffer DEF TypeOK, Construct, Goto, sharedVars, localVars, doneVars
<1>5. \A n \in Values : data[n] = n => data'[n] = n
  BY <1>1, <1>3, ConstantsDiffer DEF TypeOK
<1>6. Links' /\ Grows
  BY <1>1, <1>5, SharedUnchanged DEF Construct
<1>7. /\ pc[p] = "idle" /\ pc'[p] = "tail" /\ Node(p)' = Node(p)
      /\ UNCHANGED <<linked, sent, first, last, next>>
      /\ \A u \in Threads : u # p => pc'[u] = pc[u]
  BY <1>1 DEF Construct, Goto, Node, localVars, doneVars, TypeOK
<1>8. OwnNodes'
  <2>1. \A q \in Producers : pc[q] = "advance" => pc'[q] = "advance"
    BY <1>7 DEF Threads
  <2>2. QED BY <1>5, <1>7, <2>1, OwnNodesKept
<1>9. ProducerOK(p)'
  BY <1>2, <1>3, <1>7 DEF ProducerOK
<1>10. OnlyOf(p)
  BY <1>7 DEF OnlyOf
<1>11. QED
  BY <1>1, <1>4, <1>6, <1>8, <1>9, <1>10, OneThread

\* A step of a producer that only loads, or gives up its turn.
LEMMA ProducerLoads ==
    ASSUME Inv, NEW p \in Producers, UNCHANGED <<sharedVars, doneVars>>, TypeOK',
           pc[p] \notin {"idle", "advance"}, ProducerOK(p)',
           \A u \in Threads : u # p => pc'[u] = pc[u] /\ last'[u] = last[u] /\ next'[u] = next[u],
           \A c \in Consumers : first'[c] = first[c]
    PROVE  Inv'
<1>1. TypeOK /\ LinksInOrder /\ Ends /\ ProducerOK(p) /\ p \in Threads /\ p \notin Consumers
  BY OfProducer
<1>2. UNCHANGED <<head_, tail_, data, nxt, linked, sent>>
  BY DEF sharedVars, doneVars
<1>3. Links' /\ Grows
  BY <1>1, <1>2, SharedUnchanged
<1>4. OwnNodes'
  <2>1. \A q \in Producers : pc[q] = "advance" => pc'[q] = "advance" BY DEF Threads
  <2>2. QED BY <1>2, <2>1, OwnNodesKept
<1>5. OnlyOf(p)
  BY <1>2 DEF OnlyOf
<1>6. QED
  BY <1>1, <1>3, <1>4, <1>5, OneThread

\* tail_ is loaded: a linked node.
LEMMA LoadTailKeeps == ASSUME Inv, NEW p \in Producers, LoadTail(p) PROVE Inv'
<1>1. TypeOK /\ LinksInOrder /\ Ends /\ ProducerOK(p) /\ p \in Threads /\ p \notin Consumers
  BY OfProducer
<1>2. TypeOK'
  BY <1>1 DEF TypeOK, LoadTail, Goto, sharedVars, doneVars
<1>3. /\ pc[p] = "tail" /\ pc'[p] = "next" /\ last'[p] = tail_ /\ UNCHANGED <<sharedVars, doneVars>>
      /\ \A u \in Threads : u # p => pc'[u] = pc[u] /\ last'[u] = last[u] /\ next'[u] = next[u]
      /\ first' = first
  BY <1>1 DEF TypeOK, LoadTail, Goto
<1>4. ProducerOK(p)'
  BY <1>1, <1>3, EndsLinked DEF ProducerOK, Node, sharedVars, doneVars
<1>5. QED
  BY <1>2, <1>3, <1>4, ProducerLoads

\* The next pointer is loaded: null, or the next node for good.
LEMMA LoadNextKeeps == ASSUME Inv, NEW p \in Producers, LoadNext(p) PROVE Inv'
<1>1. TypeOK /\ LinksInOrder /\ Ends /\ ProducerOK(p) /\ p \in Threads /\ p \notin Consumers
  BY OfProducer
<1>2. last[p] \in Nodes
  <2>1. last[p] \in Range(linked) BY <1>1 DEF ProducerOK, LoadNext, NoLater, Range
  <2>2. QED BY <1>1, <2>1, NextLinks DEF Range
<1>3. TypeOK'
  BY <1>1, <1>2 DEF TypeOK, LoadNext, Goto, sharedVars, doneVars
<1>4. /\ pc[p] = "next" /\ pc'[p] = "recheck" /\ next'[p] = nxt[last[p]] /\ last' = last
      /\ UNCHANGED <<sharedVars, doneVars>> /\ first' = first
      /\ \A u \in Threads : u # p => pc'[u] = pc[u] /\ last'[u] = last[u] /\ next'[u] = next[u]
  BY <1>1 DEF TypeOK, LoadNext, Goto
<1>5. ProducerOK(p)'
  BY <1>1, <1>4 DEF ProducerOK, Node, sharedVars, doneVars
<1>6. QED
  BY <1>3, <1>4, <1>5, ProducerLoads

\* The pointers are used if tail_ has not moved since.
LEMMA RecheckTailKeeps == ASSUME Inv, NEW p \in Producers, RecheckTail(p) PROVE Inv'
<1>1. TypeOK /\ LinksInOrder /\ Ends /\ ProducerOK(p) /\ p \in Threads /\ p \notin Consumers
  BY OfProducer
<1>2. pc[p] = "recheck" /\ UNCHANGED <<sharedVars, doneVars>>
  BY DEF RecheckTail
<1>3. CASE tail_ # last[p]
  <2>1. Again(p, "tail") BY <1>3 DEF RecheckTail
  <2>2. TypeOK' /\ pc'[p] = "tail"
    BY <1>1, <1>2, <2>1, TurnEnds DEF TypeOK, sharedVars, doneVars
  <2>3. ProducerOK(p)'
    BY <1>1, <1>2, <2>2 DEF ProducerOK, Node, sharedVars, doneVars
  <2>4. QED BY <1>1, <1>2, <2>1, <2>2, <2>3, TurnEnds, ProducerLoads
<1>4. CASE tail_ = last[p]
  <2>1. Goto(p, IF next[p] = nullptr THEN "link" ELSE "help") /\ UNCHANGED localVars
    BY <1>4 DEF RecheckTail
  <2>2. /\ TypeOK' /\ UNCHANGED <<first, last, next>>
        /\ pc'[p] = (IF next[p] = nullptr THEN "link" ELSE "help")
        /\ \A u \in Threads : u # p => pc'[u] = pc[u]
    BY <1>1, <1>2, <2>1 DEF TypeOK, Goto, sharedVars, doneVars, localVars
  <2>3. ProducerOK(p)'
    BY <1>1, <1>2, <2>2 DEF ProducerOK, Node, sharedVars, doneVars
  <2>4. QED BY <1>2, <2>2, <2>3, ProducerLoads
<1>5. QED
  BY <1>3, <1>4
\* The node is linked after the last one: a next pointer that is still null is
\* that of the last node.
LEMMA LinkKeeps == ASSUME Inv, NEW p \in Producers, Link(p) PROVE Inv'
<1>1. /\ TypeOK /\ LinksInOrder /\ Ends /\ OwnNodes /\ ProducerOK(p)
      /\ p \in Threads /\ p \notin Consumers
  BY OfProducer
<1>2. CASE nxt[last[p]] # nullptr
  <2>1. Again(p, "tail") /\ UNCHANGED <<sharedVars, doneVars>> /\ pc[p] = "link"
    BY <1>2 DEF Link, sharedVars
  <2>2. TypeOK' /\ pc'[p] = "tail"
    BY <1>1, <2>1, TurnEnds DEF TypeOK, sharedVars, doneVars
  <2>3. ProducerOK(p)'
    BY <1>1, <2>1, <2>2 DEF ProducerOK, Node, sharedVars, doneVars
  <2>4. QED BY <1>1, <2>1, <2>2, <2>3, TurnEnds, ProducerLoads
<1>3. CASE nxt[last[p]] = nullptr
  <2>1. /\ nxt' = [nxt EXCEPT ![last[p]] = Node(p)] /\ linked' = Append(linked, Node(p))
        /\ pc[p] = "link" /\ pc' = [pc EXCEPT ![p] = "advance"]
        /\ UNCHANGED <<first, last, next, head_, tail_, data, out, sent, got>>
    BY <1>3 DEF Link, Goto, localVars, doneVars
  <2>2. Node(p) \in Values /\ Node(p) \in Nodes /\ data[Node(p)] = Node(p)
        /\ NoLater(linked, last[p], tail_)
    BY <1>1, <2>1, ConstantsDiffer DEF ProducerOK
  <2>3. sent[p] + 1 \in 1 .. Items[p]
    BY <2>2 DEF Values, Node
  <2>4. Node(p) \notin Range(linked)
    BY <1>1, <2>1, <2>3 DEF OwnNodes, Node
  <2>5. Links' /\ Grows /\ Range(linked') = Range(linked) \cup {Node(p)} /\ nxt'[last[p]] = Node(p)
    BY <1>1, <1>3, <2>1, <2>2, <2>4, NodeLinked
  <2>6. last[p] \in Nodes
    <3>1. last[p] \in Range(linked) BY <2>2 DEF NoLater, Range
    <3>2. QED BY <1>1, <3>1, NextLinks DEF Range
  <2>7. TypeOK'
    BY <1>1, <2>1, <2>2, <2>5, <2>6 DEF TypeOK, Links
  <2>8. /\ pc'[p] = "advance" /\ Node(p)' = Node(p)
        /\ \A u \in Threads : u # p => pc'[u] = pc[u]
    BY <1>1, <2>1 DEF TypeOK, Node
  <2>9. ProducerOK(p)'
    <3>1. NoLater(linked', last'[p], tail_') BY <2>1, <2>2, <2>5 DEF Grows
    <3>2. QED BY <2>1, <2>2, <2>5, <2>8, <3>1 DEF ProducerOK
  <2>10. OwnNodes'
    <3>1. \A n \in Range(linked') : n = dummy \/ data'[n] = n
      BY <1>1, <2>1, <2>2, <2>5 DEF OwnNodes
    <3>2. ASSUME NEW q \in Producers, NEW j \in 1 .. Items[q],
                 j > sent'[q] + 1 \/ (j = sent'[q] + 1 /\ pc'[q] # "advance")
          PROVE  <<q, j>> \notin Range(linked')
      <4>1. CASE q = p
        <5>1. j > sent[p] + 1 /\ sent[p] \in Nat /\ j \in Nat BY <1>1, <2>1, <2>8, <3>2, <4>1 DEF TypeOK
        <5>2. <<q, j>> \notin Range(linked) BY <1>1, <4>1, <5>1 DEF OwnNodes
        <5>3. <<q, j>> # Node(p) BY <5>1 DEF Node
        <5>4. QED BY <2>5, <5>2, <5>3
      <4>2. CASE q # p
        <5>1. pc'[q] = pc[q] BY <2>8, <4>2 DEF Threads
        <5>2. <<q, j>> \notin Range(linked) BY <1>1, <2>1, <3>2, <5>1 DEF OwnNodes
        <5>3. <<q, j>> # Node(p) BY <4>2 DEF Node
        <5>4. QED BY <2>5, <5>2, <5>3
      <4>3. QED BY <4>1, <4>2
    <3>3. QED BY <3>1, <3>2 DEF OwnNodes
  <2>11. OnlyOf(p)
    BY <2>1, <2>8 DEF OnlyOf
  <2>12. QED
    BY <1>1, <2>5, <2>7, <2>9, <2>10, <2>11, OneThread
<1>4. QED
  BY <1>2, <1>3

\* tail_ goes on to the next node, or stays where another thread has moved it.
LEMMA MoveTailSound ==
    ASSUME TypeOK, LinksInOrder, Ends, NEW t \in Threads, NEW n \in Nodes,
           NoLater(linked, last[t], tail_), nxt[last[t]] = n, MoveTail(t, n),
           UNCHANGED <<head_, data, nxt, linked>>
    PROVE  Links' /\ Grows /\ tail_' \in Nodes
<1>1. CASE tail_ = last[t]
  <2>1. tail_' = nxt[tail_] /\ nxt[tail_] # nullptr /\ tail_' \in Nodes
    BY <1>1, ConstantsDiffer DEF MoveTail
  <2>2. QED BY <2>1, TailMoves
<1>2. CASE tail_ # last[t]
  <2>1. tail_' = tail_ BY <1>2 DEF MoveTail
  <2>2. QED BY <2>1, SharedUnchanged DEF TypeOK
<1>3. QED
  BY <1>1, <1>2

\* A thread that helps has the next pointer of the tail_ it has loaded.
LEMMA HelpTailKeeps == ASSUME Inv, NEW t \in Threads, HelpTail(t) PROVE Inv'
<1> DEFINE w == IF t \in Producers THEN "tail" ELSE "head"
<1>1. /\ TypeOK /\ LinksInOrder /\ Ends /\ OwnNodes
      /\ t \in Producers => ProducerOK(t) /\ t \notin Consumers
      /\ t \in Consumers => ConsumerOK(t) /\ t \notin Producers
      /\ t \in Producers \/ t \in Consumers
  BY ConstantsDiffer DEF Inv, Threads
<1>2. /\ pc[t] = "help" /\ MoveTail(t, next[t]) /\ Again(t, w)
      /\ UNCHANGED <<head_, data, nxt, linked, out, sent, got>>
  BY DEF HelpTail, doneVars
<1>3. next[t] # nullptr /\ nxt[last[t]] = next[t] /\ NoLater(linked, last[t], tail_)
  BY <1>1, <1>2 DEF ProducerOK, ConsumerOK
<1>4. next[t] \in Nodes
  BY <1>1, <1>3 DEF TypeOK
<1>5. Links' /\ Grows /\ tail_' \in Nodes
  BY <1>1, <1>2, <1>3, <1>4, MoveTailSound
<1>6. w \in {"idle", "tail", "head"}
  OBVIOUS
<1>7. TypeOK' /\ pc'[t] = w
  <2> HIDE DEF w
  <2> QED BY <1>1, <1>2, <1>5, <1>6, TurnEnds DEF TypeOK
<1>8. OnlyOf(t)
  <2> HIDE DEF w
  <2> QED BY <1>1, <1>2, <1>6, TurnEnds DEF OnlyOf
<1>9. OwnNodes'
  <2>1. \A u \in Threads : u # t => pc'[u] = pc[u]
    BY <1>8 DEF OnlyOf
  <2>2. \A p \in Producers : pc[p] = "advance" => pc'[p] = "advance"
    BY <1>2, <2>1 DEF Threads
  <2>3. QED BY <1>2, <2>2, OwnNodesKept
<1>10. t \in Producers => ProducerOK(t)'
  BY <1>1, <1>2, <1>7 DEF ProducerOK, Node
<1>11. t \in Consumers => ConsumerOK(t)'
  <2>1. ASSUME t \in Consumers PROVE pc'[t] = "head" BY <1>1, <1>7, <2>1
  <2>2. QED BY <2>1 DEF ConsumerOK
<1>12. QED
  BY <1>5, <1>7, <1>8, <1>9, <1>10, <1>11, OneThread

\* The producer moves tail_ to the node it has linked, or finds that it was moved.
LEMMA AdvanceTailKeeps == ASSUME Inv, NEW p \in Producers, AdvanceTail(p) PROVE Inv'
<1>1. /\ TypeOK /\ LinksInOrder /\ Ends /\ OwnNodes /\ ProducerOK(p)
      /\ p \in Threads /\ p \notin Consumers
  BY OfProducer
<1>2. /\ pc[p] = "advance" /\ MoveTail(p, Node(p)) /\ Again(p, "idle")
      /\ sent' = [sent EXCEPT ![p] = @ + 1] /\ UNCHANGED <<head_, data, nxt, linked, out, got>>
  BY DEF AdvanceTail
<1>3. Node(p) \in Nodes /\ NoLater(linked, last[p], tail_) /\ nxt[last[p]] = Node(p)
  BY <1>1, <1>2, ConstantsDiffer DEF ProducerOK
<1>4. Links' /\ Grows /\ tail_' \in Nodes
  BY <1>1, <1>2, <1>3, MoveTailSound
<1>5. sent' \in [Producers -> Nat] /\ sent[p] \in Nat /\ sent'[p] = sent[p] + 1
      /\ \A q \in Producers : q # p => sent'[q] = sent[q]
  BY <1>1, <1>2 DEF TypeOK
<1>6. TypeOK' /\ pc'[p] = "idle"
  BY <1>1, <1>2, <1>4, <1>5, TurnEnds DEF TypeOK
<1>7. OnlyOf(p)
  BY <1>1, <1>2, <1>5, TurnEnds DEF OnlyOf
<1>8. OwnNodes'
  <2>1. ASSUME NEW q \in Producers, NEW j \in 1 .. Items[q],
               j > sent'[q] + 1 \/ (j = sent'[q] + 1 /\ pc'[q] # "advance")
        PROVE  <<q, j>> \notin Range(linked)
    <3>1. CASE q = p
      <4>1. j \in Nat OBVIOUS
      <4>2. j > sent[p] + 1 BY <1>5, <2>1, <3>1, <4>1
      <4>3. QED BY <1>1, <3>1, <4>2 DEF OwnNodes
    <3>2. CASE q # p
      <4>1. pc'[q] = pc[q] /\ sent'[q] = sent[q] BY <1>5, <1>7, <3>2 DEF OnlyOf, Threads
      <4>2. QED BY <1>1, <2>1, <4>1 DEF OwnNodes
    <3>3. QED BY <3>1, <3>2
  <2>2. QED BY <1>1, <1>2, <2>1 DEF OwnNodes
<1>9. ProducerOK(p)'
  BY <1>6 DEF ProducerOK
<1>10. QED
  BY <1>1, <1>4, <1>6, <1>7, <1>8, <1>9, OneThread
-----------------------------------------------------------------------------
(* The steps of a consumer.                                                *)

\* What the invariant gives for a consumer.
LEMMA OfConsumer ==
    ASSUME Inv, NEW c \in Consumers
    PROVE  /\ TypeOK /\ LinksInOrder /\ Ends /\ ConsumerOK(c)
           /\ c \in Threads /\ c \notin Producers
BY ConstantsDiffer DEF Inv, Threads

\* A step of a consumer that leaves the links as they are.
LEMMA ConsumerSteps ==
    ASSUME Inv, NEW c \in Consumers, UNCHANGED <<sharedVars, sent>>, TypeOK', ConsumerOK(c)',
           \A u \in Threads : u # c => pc'[u] = pc[u] /\ last'[u] = last[u] /\ next'[u] = next[u],
           \A d \in Consumers : d # c => first'[d] = first[d]
    PROVE  Inv'
<1>1. TypeOK /\ LinksInOrder /\ Ends /\ c \in Threads /\ c \notin Producers
  BY OfConsumer
<1>2. UNCHANGED <<head_, tail_, data, nxt, linked, sent>>
  BY DEF sharedVars
<1>3. Links' /\ Grows
  BY <1>1, <1>2, SharedUnchanged
<1>4. OwnNodes'
  <2>1. \A q \in Producers : pc[q] = "advance" => pc'[q] = "advance" BY <1>1 DEF Threads
  <2>2. QED BY <1>2, <2>1, OwnNodesKept
<1>5. OnlyOf(c)
  BY <1>2 DEF OnlyOf
<1>6. QED
  BY <1>1, <1>3, <1>4, <1>5, OneThread

\* head_ is loaded: a linked node.
LEMMA LoadHeadKeeps == ASSUME Inv, NEW c \in Consumers, LoadHead(c) PROVE Inv'
<1>1. TypeOK /\ LinksInOrder /\ Ends /\ ConsumerOK(c) /\ c \in Threads /\ c \notin Producers
  BY OfConsumer
<1>2. /\ first' = [first EXCEPT ![c] = head_] /\ pc' = [pc EXCEPT ![c] = "tail"]
      /\ UNCHANGED <<head_, tail_, data, nxt, linked, last, next, out, sent, got>>
  BY DEF LoadHead, Goto, sharedVars, doneVars
<1>3. TypeOK'
  BY <1>1, <1>2 DEF TypeOK
<1>4. /\ pc'[c] = "tail" /\ first'[c] = head_ /\ \A u \in Threads : u # c => pc'[u] = pc[u]
      /\ \A d \in Consumers : d # c => first'[d] = first[d]
  BY <1>1, <1>2 DEF TypeOK
<1>5. ConsumerOK(c)'
  BY <1>1, <1>2, <1>4, EndsLinked DEF ConsumerOK
<1>6. QED
  BY <1>2, <1>3, <1>4, <1>5, ConsumerSteps DEF sharedVars

\* tail_ is loaded after head_, so it is not before the head_ that was loaded.
LEMMA LoadTailOfDequeueKeeps ==
    ASSUME Inv, NEW c \in Consumers, LoadTailOfDequeue(c) PROVE Inv'
<1>1. TypeOK /\ LinksInOrder /\ Ends /\ ConsumerOK(c) /\ c \in Threads /\ c \notin Producers
  BY OfConsumer
<1>2. /\ last' = [last EXCEPT ![c] = tail_] /\ pc' = [pc EXCEPT ![c] = "next"] /\ pc[c] = "tail"
      /\ UNCHANGED <<head_, tail_, data, nxt, linked, first, next, out, sent, got>>
  BY DEF LoadTailOfDequeue, Goto, sharedVars, doneVars
<1>3. TypeOK'
  BY <1>1, <1>2 DEF TypeOK
<1>4. /\ pc'[c] = "next" /\ last'[c] = tail_
      /\ \A u \in Threads : u # c => pc'[u] = pc[u] /\ last'[u] = last[u]
  BY <1>1, <1>2 DEF TypeOK
<1>5. NoLater(linked, first[c], tail_)
  <2>1. NoLater(linked, first[c], head_) /\ NoLater(linked, head_, tail_)
    BY <1>1, <1>2 DEF ConsumerOK, Ends
  <2>2. QED BY <1>1, <2>1, EndsLinked, NoLaterTransitive
<1>6. ConsumerOK(c)'
  BY <1>1, <1>2, <1>4, <1>5, EndsLinked DEF ConsumerOK
<1>7. QED
  BY <1>2, <1>3, <1>4, <1>6, ConsumerSteps DEF sharedVars

\* A head_ before the tail_ that was loaded has a node after it.
LEMMA LoadFirstNextKeeps == ASSUME Inv, NEW c \in Consumers, LoadFirstNext(c) PROVE Inv'
<1>1. TypeOK /\ LinksInOrder /\ Ends /\ ConsumerOK(c) /\ c \in Threads /\ c \notin Producers
  BY OfConsumer
<1>2. /\ next' = [next EXCEPT ![c] = nxt[first[c]]] /\ pc' = [pc EXCEPT ![c] = "recheck"]
      /\ pc[c] = "next"
      /\ UNCHANGED <<head_, tail_, data, nxt, linked, first, last, out, sent, got>>
  BY DEF LoadFirstNext, Goto, sharedVars, doneVars
<1>3. /\ NoLater(linked, first[c], head_) /\ NoLater(linked, first[c], last[c])
      /\ NoLater(linked, last[c], tail_)
  BY <1>1, <1>2 DEF ConsumerOK
<1>4. first[c] \in Nodes
  <2>1. first[c] \in Range(linked) BY <1>3 DEF NoLater, Range
  <2>2. QED BY <1>1, <2>1, NextLinks DEF Range
<1>5. TypeOK'
  BY <1>1, <1>2, <1>4 DEF TypeOK
<1>6. /\ pc'[c] = "recheck" /\ next'[c] = nxt[first[c]]
      /\ \A u \in Threads : u # c => pc'[u] = pc[u] /\ next'[u] = next[u]
  BY <1>1, <1>2 DEF TypeOK
<1>7. first[c] # last[c] => nxt[first[c]] # nullptr
  BY <1>1, <1>3, NextNotPastTail
<1>8. ConsumerOK(c)'
  BY <1>2, <1>3, <1>6, <1>7 DEF ConsumerOK
<1>9. QED
  BY <1>2, <1>5, <1>6, <1>8, ConsumerSteps DEF sharedVars

\* The pointers are used if head_ has not moved since.
LEMMA RecheckHeadKeeps == ASSUME Inv, NEW c \in Consumers, RecheckHead(c) PROVE Inv'
<1>1. TypeOK /\ LinksInOrder /\ Ends /\ ConsumerOK(c) /\ c \in Threads /\ c \notin Producers
  BY OfConsumer
<1>2. pc[c] = "recheck" /\ UNCHANGED <<head_, tail_, data, nxt, linked, out, sent, got>>
  BY DEF RecheckHead, sharedVars, doneVars
<1>3. CASE head_ # first[c]
  <2>1. Again(c, "head") BY <1>3 DEF RecheckHead
  <2>2. TypeOK' /\ pc'[c] = "head" BY <1>1, <1>2, <2>1, TurnEnds DEF TypeOK
  <2>3. ConsumerOK(c)' BY <2>2 DEF ConsumerOK
  <2>4. QED BY <1>1, <1>2, <2>1, <2>2, <2>3, TurnEnds, ConsumerSteps DEF sharedVars
<1>4. CASE head_ = first[c]
  <2> DEFINE w == IF first[c] # last[c] THEN "take" ELSE IF next[c] = nullptr THEN "false" ELSE "help"
  <2>1. pc' = [pc EXCEPT ![c] = w] /\ UNCHANGED <<first, last, next>>
    BY <1>4 DEF RecheckHead, Goto, localVars
  <2>2. TypeOK' BY <1>1, <1>2, <2>1 DEF TypeOK
  <2>3. pc'[c] = w /\ \A u \in Threads : u # c => pc'[u] = pc[u]
    BY <1>1, <2>1 DEF TypeOK
  <2>4. ConsumerOK(c)' BY <1>1, <1>2, <2>1, <2>3 DEF ConsumerOK
  <2>5. QED
    <3> HIDE DEF w
    <3> QED BY <1>2, <2>1, <2>2, <2>3, <2>4, ConsumerSteps DEF sharedVars
<1>5. QED
  BY <1>3, <1>4

\* A dequeue of an empty queue returns.
LEMMA ReturnFalseKeeps == ASSUME Inv, NEW c \in Consumers, ReturnFalse(c) PROVE Inv'
<1>1. TypeOK /\ LinksInOrder /\ Ends /\ ConsumerOK(c) /\ c \in Threads /\ c \notin Producers
  BY OfConsumer
<1>2. /\ out' = [out EXCEPT ![c] = empty] /\ Again(c, "idle")
      /\ UNCHANGED <<head_, tail_, data, nxt, linked, sent, got>>
  BY DEF ReturnFalse, sharedVars
<1>3. TypeOK' /\ pc'[c] = "idle"
  BY <1>1, <1>2, TurnEnds DEF TypeOK
<1>4. ConsumerOK(c)'
  BY <1>3 DEF ConsumerOK
<1>5. QED
  BY <1>1, <1>2, <1>3, <1>4, TurnEnds, ConsumerSteps DEF sharedVars

\* The consumer that finds head_ as it loaded it moves it on, and not past tail_.
LEMMA TakeHeadKeeps == ASSUME Inv, NEW c \in Consumers, TakeHead(c) PROVE Inv'
<1>1. TypeOK /\ LinksInOrder /\ Ends /\ ConsumerOK(c) /\ c \in Threads /\ c \notin Producers
  BY OfConsumer
<1>2. pc[c] = "take" /\ UNCHANGED <<tail_, data, nxt, linked, out, sent, got>>
  BY DEF TakeHead, doneVars
<1>3. CASE head_ # first[c]
  <2>1. Again(c, "head") /\ head_' = head_ BY <1>3 DEF TakeHead
  <2>2. TypeOK' /\ pc'[c] = "head" BY <1>1, <1>2, <2>1, TurnEnds DEF TypeOK
  <2>3. ConsumerOK(c)' BY <2>2 DEF ConsumerOK
  <2>4. QED BY <1>1, <1>2, <2>1, <2>2, <2>3, TurnEnds, ConsumerSteps DEF sharedVars
<1>4. CASE head_ = first[c]
  <2>1. head_' = next[c] /\ pc' = [pc EXCEPT ![c] = "move"] /\ UNCHANGED <<first, last, next>>
    BY <1>4 DEF TakeHead, Goto, localVars
  <2>2. /\ next[c] # nullptr /\ nxt[first[c]] = next[c] /\ first[c] # last[c]
        /\ NoLater(linked, first[c], last[c]) /\ NoLater(linked, last[c], tail_)
    BY <1>1, <1>2 DEF ConsumerOK
  <2>3. Links' /\ Grows
    BY <1>1, <1>2, <1>4, <2>1, <2>2, HeadMoves
  <2>4. TypeOK'
    BY <1>1, <1>2, <2>1, <2>2 DEF TypeOK
  <2>5. pc'[c] = "move" /\ \A u \in Threads : u # c => pc'[u] = pc[u]
    BY <1>1, <2>1 DEF TypeOK
  <2>6. next[c] # dummy /\ next[c] \in Range(linked)
    <3>1. next[c] # dummy /\ NoLater(linked, next[c], tail_)
      BY <1>1, <2>2, NextNotPastTail
    <3>2. QED BY <3>1 DEF NoLater, Range
  <2>7. ConsumerOK(c)'
    BY <1>2, <2>1, <2>5, <2>6 DEF ConsumerOK
  <2>8. OwnNodes'
    <3>1. \A q \in Producers : pc[q] = "advance" => pc'[q] = "advance"
      BY <1>1, <2>5 DEF Threads
    <3>2. QED BY <1>2, <3>1, OwnNodesKept
  <2>9. OnlyOf(c)
    BY <1>2, <2>1, <2>5 DEF OnlyOf
  <2>10. QED
    BY <1>1, <2>3, <2>4, <2>7, <2>8, <2>9, OneThread
<1>5. QED
  BY <1>3, <1>4

\* The value that is moved out is that of the node head_ was moved to.
LEMMA MoveOutKeeps == ASSUME Inv, NEW c \in Consumers, MoveOut(c) PROVE Inv'
<1>1. TypeOK /\ LinksInOrder /\ Ends /\ ConsumerOK(c) /\ c \in Threads /\ c \notin Producers
  BY OfConsumer
<1>2. /\ out' = [out EXCEPT ![c] = data[next[c]]] /\ Again(c, "idle") /\ pc[c] = "move"
      /\ got' = [v \in Values |-> got[v] + (IF v = data[next[c]] THEN 1 ELSE 0)]
      /\ UNCHANGED <<head_, tail_, data, nxt, linked, sent>>
  BY DEF MoveOut, sharedVars
<1>3. data[next[c]] \in Values
  <2>1. next[c] \in Range(linked) /\ next[c] # dummy
    BY <1>1, <1>2 DEF ConsumerOK
  <2>2. next[c] \in Nodes
    BY <1>1, <2>1, NextLinks DEF Range
  <2>3. next[c] \in Values /\ data[next[c]] = next[c]
    BY <2>1, <2>2, ConstantsDiffer DEF Inv, OwnNodes
  <2>4. QED BY <2>3
<1>4. got' \in [Values -> Nat]
  BY <1>1, <1>2 DEF TypeOK
<1>5. TypeOK' /\ pc'[c] = "idle"
  BY <1>1, <1>2, <1>3, <1>4, TurnEnds DEF TypeOK
<1>6. ConsumerOK(c)'
  BY <1>5 DEF ConsumerOK
<1>7. QED
  BY <1>1, <1>2, <1>5, <1>6, TurnEnds, ConsumerSteps DEF sharedVars
-----------------------------------------------------------------------------
(* The invariant holds in every state.                                     *)

\* The constructor makes it hold.
LEMMA InitInv == ASSUME Init PROVE Inv
<1>1. linked = <<dummy>> /\ linked \in Seq(Nodes) /\ DOMAIN linked = {1} /\ linked[1] = dummy
      /\ Len(linked) = 1 /\ 1 - 1 = 0 /\ 1 >= 1 - 1 /\ Range(linked) = {dummy}
  BY ConstantsDiffer DEF Init, Range
<1>2. TypeOK
  BY <1>1, ConstantsDiffer DEF Init, TypeOK
<1>3. LinksInOrder
  BY <1>1, <1>2 DEF Init, LinksInOrder, IsInjective, TypeOK
<1>4. Ends
  BY <1>1 DEF Init, Ends, NoLater
<1>5. OwnNodes
  <2>1. ASSUME NEW p \in Producers, NEW j \in 1 .. Items[p] PROVE <<p, j>> # dummy
    <3>1. <<p, j>> \in Values BY DEF Values
    <3>2. QED BY <3>1, ConstantsDiffer
  <2>2. QED BY <1>1, <2>1 DEF OwnNodes
<1>6. \A p \in Producers : ProducerOK(p)
  BY DEF Init, ProducerOK, Threads
<1>7. \A c \in Consumers : ConsumerOK(c)
  BY DEF Init, ConsumerOK, Threads
<1>8. QED
  BY <1>2, <1>3, <1>4, <1>5, <1>6, <1>7 DEF Inv

\* Every step keeps it.
LEMMA NextInv == ASSUME Inv, [Next]_vars PROVE Inv'
<1>1. ASSUME NEW p \in Producers, Enqueue(p) PROVE Inv'
  <2>1. p \in Threads BY DEF Threads
  <2>2. QED
    BY <1>1, <2>1, ConstructKeeps, LoadTailKeeps, LoadNextKeeps, RecheckTailKeeps, LinkKeeps,
       HelpTailKeeps, AdvanceTailKeeps DEF Enqueue
<1>2. ASSUME NEW c \in Consumers, Dequeue(c) PROVE Inv'
  <2>1. c \in Threads BY DEF Threads
  <2>2. QED
    BY <1>2, <2>1, LoadHeadKeeps, LoadTailOfDequeueKeeps, LoadFirstNextKeeps, RecheckHeadKeeps,
       ReturnFalseKeeps, HelpTailKeeps, TakeHeadKeeps, MoveOutKeeps DEF Dequeue
<1>3. CASE UNCHANGED vars
  BY <1>3 DEF vars, Inv, TypeOK, LinksInOrder, Ends, OwnNodes, ProducerOK, ConsumerOK, Node
<1>4. QED
  BY <1>1, <1>2, <1>3 DEF Next

\* It holds in every state.
LEMMA InvHolds == Spec => []Inv
<1>1. Init => Inv BY InitInv
<1>2. Inv /\ [Next]_vars => Inv' BY NextInv
<1>3. QED BY <1>1, <1>2, PTL DEF Spec

\* The place of a linked node is the one where it stands.
LEMMA PositionIs ==
    ASSUME LinksInOrder, NEW k \in DOMAIN linked
    PROVE  Position(linked[k]) = k
BY DEF Position, LinksInOrder, IsInjective

\* The links are sound in every state, whatever the threads do: the nodes hang
\* together in the order in which they were linked, each once, head_ never passes
\* tail_, and tail_ is at most one node behind (lockfree_ms_queue.hpp:80-150).
THEOREM LinksSoundHolds == Spec => []LinksSound
<1>1. ASSUME Inv PROVE LinksSound
  <2>1. TypeOK /\ LinksInOrder /\ Ends BY <1>1 DEF Inv
  <2>2. PICK h \in DOMAIN linked, t \in DOMAIN linked : linked[h] = head_ /\ linked[t] = tail_ /\ h <= t
    BY <2>1 DEF Ends, NoLater
  <2>3. Position(head_) = h /\ Position(tail_) = t
    BY <2>1, <2>2, PositionIs
  <2>4. PICK k \in DOMAIN linked : tail_ = linked[k] /\ k >= Len(linked) - 1
    BY <2>1 DEF Ends
  <2>5. Position(tail_) = k
    BY <2>1, <2>4, PositionIs
  <2>6. TailLagsByOne
    BY <2>1, <2>2, <2>3, <2>4, <2>5, EndsLinked DEF TailLagsByOne
  <2>7. QED BY <2>1, <2>6 DEF LinksSound
<1>2. QED
  BY <1>1, InvHolds, PTL
-----------------------------------------------------------------------------
(* The queue is a first-in first-out queue.                                *)

\* The data of the nodes after the h-th one.
After(s, d, h) == [k \in 1 .. Len(s) - h |-> d[s[h + k]]]

\* What the data of the nodes after the h-th one are, when a node is appended,
\* when the place moves on by one, and when it is the last one.
LEMMA AfterSteps ==
    ASSUME NEW s \in Seq(Nodes), NEW d, NEW h \in 1 .. Len(s),
           \A k \in 1 .. Len(s) : k # 1 => d[s[k]] \in Values
    PROVE  /\ After(s, d, h) \in Seq(Values)
           /\ h = Len(s) => After(s, d, h) = <<>>
           /\ h # Len(s) => /\ After(s, d, h) # <<>> /\ Head(After(s, d, h)) = d[s[h + 1]]
                            /\ Tail(After(s, d, h)) = After(s, d, h + 1)
           /\ \A n \in Nodes : d[n] \in Values => After(Append(s, n), d, h) = Append(After(s, d, h), d[n])
<1>1. Len(s) \in Nat /\ h \in Nat /\ Len(s) - h \in Nat
  BY LenProperties
<1>2. \A k \in 1 .. Len(s) - h : h + k \in 1 .. Len(s) /\ h + k # 1
  BY <1>1
<1>3. After(s, d, h) \in [1 .. Len(s) - h -> Values]
  BY <1>2 DEF After
<1>4. After(s, d, h) \in Seq(Values) /\ Len(After(s, d, h)) = Len(s) - h
  <2>1. After(s, d, h) \in Seq(Values) BY <1>1, <1>3
  <2>2. QED BY <1>1, <1>3, <2>1, LenProperties
<1>5. h = Len(s) => After(s, d, h) = <<>>
  BY <1>1, <1>4, EmptySeq
<1>6. ASSUME h # Len(s)
      PROVE  /\ After(s, d, h) # <<>> /\ Head(After(s, d, h)) = d[s[h + 1]]
             /\ Tail(After(s, d, h)) = After(s, d, h + 1)
  <2>1. Len(s) - h # 0 /\ 1 \in 1 .. Len(s) - h
    BY <1>1, <1>6
  <2>2. After(s, d, h) # <<>>
    BY <1>4, <2>1, EmptySeq
  <2>3. Head(After(s, d, h)) = d[s[h + 1]]
    BY <1>4, <2>1, <2>2, HeadTailProperties DEF After
  <2>4. /\ Tail(After(s, d, h)) \in Seq(Values) /\ Len(Tail(After(s, d, h))) = Len(s) - h - 1
        /\ \A k \in 1 .. Len(s) - h - 1 : Tail(After(s, d, h))[k] = After(s, d, h)[k + 1]
    BY <1>1, <1>4, <2>2, HeadTailProperties
  <2>5. \A k \in 1 .. Len(s) - h - 1 :
          k + 1 \in 1 .. Len(s) - h /\ h + (k + 1) = (h + 1) + k /\ Len(s) - h - 1 = Len(s) - (h + 1)
    BY <1>1
  <2>6. Len(s) - h - 1 = Len(s) - (h + 1)
    BY <1>1
  <2>7. Tail(After(s, d, h)) = [k \in 1 .. Len(s) - h - 1 |-> Tail(After(s, d, h))[k]]
    BY <1>1, <2>1, <2>4, LenProperties
  <2>8. \A k \in 1 .. Len(s) - h - 1 : After(s, d, h)[k + 1] = d[s[(h + 1) + k]]
    BY <2>5 DEF After
  <2>9. QED BY <2>2, <2>3, <2>4, <2>6, <2>7, <2>8 DEF After
<1>7. ASSUME NEW n \in Nodes, d[n] \in Values
      PROVE  After(Append(s, n), d, h) = Append(After(s, d, h), d[n])
  <2> DEFINE w == Append(s, n)
             a == Append(After(s, d, h), d[n])
  <2>1. Len(w) = Len(s) + 1 /\ w[Len(s) + 1] = n /\ \A k \in 1 .. Len(s) : w[k] = s[k]
    BY AppendProperties
  <2>2. /\ a \in Seq(Values) /\ Len(a) = Len(s) - h + 1 /\ a[Len(s) - h + 1] = d[n]
        /\ \A k \in 1 .. Len(s) - h : a[k] = d[s[h + k]]
    BY <1>4, <1>7, AppendProperties DEF After
  <2> HIDE DEF w, a
  <2>3. Len(w) - h = Len(s) - h + 1
    BY <1>1, <2>1
  <2>4. ASSUME NEW k \in 1 .. Len(s) - h + 1 PROVE a[k] = d[w[h + k]]
    <3>1. CASE k = Len(s) - h + 1
      <4>1. h + k = Len(s) + 1 BY <1>1, <3>1
      <4>2. QED BY <2>1, <2>2, <3>1, <4>1
    <3>2. CASE k \in 1 .. Len(s) - h
      <4>1. h + k \in 1 .. Len(s) BY <1>2, <3>2
      <4>2. QED BY <2>1, <2>2, <3>2, <4>1
    <3>3. k = Len(s) - h + 1 \/ k \in 1 .. Len(s) - h BY <1>1
    <3>4. QED BY <3>1, <3>2, <3>3
  <2>5. a = [k \in 1 .. Len(s) - h + 1 |-> a[k]]
    BY <2>2, LenProperties
  <2>6. a = After(w, d, h)
    BY <2>3, <2>4, <2>5 DEF After
  <2>7. QED BY <2>6 DEF w, a
<1>8. QED
  BY <1>4, <1>5, <1>6, <1>7
\* The values of the queue are those of the nodes after the one head_ is at.
LEMMA ContentsAre ==
    ASSUME LinksInOrder, NEW h \in DOMAIN linked, head_ = linked[h]
    PROVE  Contents = After(linked, data, h)
BY PositionIs DEF Contents, After

\* The same of the state after a step.
LEMMA ContentsAreNext ==
    ASSUME LinksInOrder', NEW h \in DOMAIN linked', head_' = linked'[h]
    PROVE  Contents' = After(linked', data', h)
<1>1. Position(head_)' = h
  BY DEF Position, LinksInOrder, IsInjective
<1>2. QED
  BY <1>1 DEF Contents, After

\* The nodes after the first dummy are those of values, and hold them.
LEMMA LinkedValues ==
    ASSUME Inv
    PROVE  /\ linked \in Seq(Nodes) /\ DOMAIN linked = 1 .. Len(linked) /\ Len(linked) \in Nat
           /\ \A k \in 1 .. Len(linked) : k # 1 => linked[k] \in Values /\ data[linked[k]] = linked[k]
           /\ \A n \in Range(linked) : n # dummy => n \in Values /\ data[n] = n
<1>1. linked \in Seq(Nodes) /\ TypeOK /\ LinksInOrder /\ OwnNodes
  BY DEF Inv, TypeOK
<1>2. DOMAIN linked = 1 .. Len(linked) /\ Len(linked) \in Nat
  BY <1>1, LenProperties
<1>3. \A n \in Range(linked) : n # dummy => n \in Values /\ data[n] = n
  <2>1. \A n \in Range(linked) : n \in Nodes BY <1>1, NextLinks DEF Range
  <2>2. QED BY <1>1, <2>1, ConstantsDiffer DEF OwnNodes
<1>4. ASSUME NEW k \in 1 .. Len(linked), k # 1
      PROVE  linked[k] \in Values /\ data[linked[k]] = linked[k]
  <2>1. 1 \in DOMAIN linked /\ k \in DOMAIN linked BY <1>2
  <2>2. linked[k] # dummy BY <1>1, <1>4, <2>1 DEF LinksInOrder, IsInjective
  <2>3. linked[k] \in Range(linked) BY <2>1 DEF Range
  <2>4. QED BY <1>3, <2>2, <2>3
<1>5. QED
  BY <1>1, <1>2, <1>3, <1>4

\* head_ is at one of the nodes, and the queue is what comes after it.
LEMMA HeadPlace ==
    ASSUME Inv
    PROVE  /\ \E h \in 1 .. Len(linked) : head_ = linked[h]
           /\ \A h \in 1 .. Len(linked) : head_ = linked[h] => Contents = After(linked, data, h)
<1>1. LinksInOrder /\ Ends /\ DOMAIN linked = 1 .. Len(linked)
  BY LinkedValues DEF Inv
<1>2. \E h \in DOMAIN linked : head_ = linked[h]
  BY <1>1 DEF Ends, NoLater
<1>3. QED
  BY <1>1, <1>2, ContentsAre

\* The queue stays as it is when head_ and the links do.
LEMMA ContentsKept ==
    ASSUME Inv, Inv', UNCHANGED <<head_, linked>>, \A n \in Values : data[n] = n => data'[n] = n
    PROVE  Contents' = Contents
<1>1. PICK h \in 1 .. Len(linked) : head_ = linked[h]
  BY HeadPlace
<1>2. Contents = After(linked, data, h)
  BY <1>1, HeadPlace
<1>3. LinksInOrder' /\ DOMAIN linked = 1 .. Len(linked) /\ Len(linked) \in Nat
  BY LinkedValues DEF Inv
<1>4. Contents' = After(linked, data', h)
  BY <1>1, <1>3, ContentsAreNext
<1>5. ASSUME NEW k \in 1 .. Len(linked) - h PROVE data'[linked[h + k]] = data[linked[h + k]]
  <2>1. h + k \in 1 .. Len(linked) /\ h + k # 1 BY <1>3
  <2>2. QED BY <2>1, LinkedValues
<1>6. QED
  BY <1>2, <1>4, <1>5 DEF After

\* What another thread has found stays as it is.
LEMMA TakenKept ==
    ASSUME Inv, NEW c \in Consumers, OnlyOf(c), \A n \in Values : data[n] = n => data'[n] = n
    PROVE  Taken' = [Taken EXCEPT ![c] = TakenBy(c)']
<1>1. ASSUME NEW d \in Consumers, d # c PROVE TakenBy(d)' = TakenBy(d)
  <2>1. pc'[d] = pc[d] /\ next'[d] = next[d] BY <1>1 DEF OnlyOf, Threads
  <2>2. pc[d] = "move" => next[d] \in Range(linked) /\ next[d] # dummy BY DEF Inv, ConsumerOK
  <2>3. pc[d] = "move" => data'[next[d]] = data[next[d]] BY <2>2, LinkedValues
  <2>4. QED BY <2>1, <2>3 DEF TakenBy
<1>2. QED
  BY <1>1 DEF Taken

\* A step of a producer leaves what every consumer has found.
LEMMA TakenKeptByProducer ==
    ASSUME Inv, NEW p \in Producers, OnlyOf(p), \A n \in Values : data[n] = n => data'[n] = n
    PROVE  Taken' = Taken
<1>1. ASSUME NEW d \in Consumers PROVE TakenBy(d)' = TakenBy(d)
  <2>1. d # p BY ConstantsDiffer
  <2>2. pc'[d] = pc[d] /\ next'[d] = next[d] BY <2>1 DEF OnlyOf, Threads
  <2>3. pc[d] = "move" => next[d] \in Range(linked) /\ next[d] # dummy BY DEF Inv, ConsumerOK
  <2>4. pc[d] = "move" => data'[next[d]] = data[next[d]] BY <2>3, LinkedValues
  <2>5. QED BY <2>2, <2>4 DEF TakenBy
<1>2. QED
  BY <1>1 DEF Taken

\* A step of a producer that links no node is none of the queue.
LEMMA ProducerStutters ==
    ASSUME Inv, Inv', NEW p \in Producers, OnlyOf(p), UNCHANGED <<head_, linked, out>>,
           \A n \in Values : data[n] = n => data'[n] = n
    PROVE  UNCHANGED Fifo!vars
BY ContentsKept, TakenKeptByProducer DEF Fifo!vars

\* The queue takes in a value when its node is linked.
LEMMA LinkEnqueues ==
    ASSUME Inv, Inv', NEW p \in Producers, OnlyOf(p), UNCHANGED <<head_, data, out>>,
           Node(p) \in Values, data[Node(p)] = Node(p), linked' = Append(linked, Node(p))
    PROVE  Fifo!Enqueue(Node(p))
<1>1. PICK h \in 1 .. Len(linked) : head_ = linked[h]
  BY HeadPlace
<1>2. Contents = After(linked, data, h)
  BY <1>1, HeadPlace
<1>3. linked \in Seq(Nodes) /\ Node(p) \in Nodes /\ LinksInOrder'
  BY LinkedValues, ConstantsDiffer DEF Inv
<1>4. h \in DOMAIN linked' /\ linked'[h] = linked[h]
  <2>1. /\ DOMAIN Append(linked, Node(p)) = 1 .. Len(linked) + 1
        /\ \A k \in 1 .. Len(linked) : Append(linked, Node(p))[k] = linked[k]
    BY <1>3, Appended
  <2>2. Len(linked) \in Nat BY LinkedValues
  <2>3. QED BY <2>1, <2>2
<1>5. Contents' = After(linked', data, h)
  BY <1>1, <1>3, <1>4, ContentsAreNext
<1>6. \A k \in 1 .. Len(linked) : k # 1 => data[linked[k]] \in Values
  BY LinkedValues
<1>7. ASSUME NEW n \in Nodes, data[n] \in Values
      PROVE  After(Append(linked, n), data, h) = Append(After(linked, data, h), data[n])
  BY ONLY h \in 1 .. Len(linked), <1>3, <1>6, <1>7, AfterSteps
<1>8. Contents' = Append(Contents, Node(p))
  BY <1>2, <1>3, <1>5, <1>7
<1>9. Taken' = Taken
  BY TakenKeptByProducer
<1>10. QED
  BY <1>8, <1>9 DEF Fifo!Enqueue

\* Every step of a producer is an enqueue, or none.
LEMMA EnqueueRefines ==
    ASSUME Inv, Inv', NEW p \in Producers, Enqueue(p)
    PROVE  [Fifo!Next]_(Fifo!vars)
<1>1. TypeOK /\ ProducerOK(p) /\ p \in Threads /\ p \notin Consumers
  BY OfProducer
<1>2. OnlyOf(p) /\ out' = out /\ head_' = head_
  <2>1. CASE Construct(p)
    BY <1>1, <2>1 DEF Construct, Goto, OnlyOf, TypeOK, localVars, doneVars
  <2>2. CASE LoadTail(p) \/ LoadNext(p)
    BY <1>1, <2>2 DEF LoadTail, LoadNext, Goto, OnlyOf, TypeOK, sharedVars, doneVars
  <2>3. CASE RecheckTail(p)
    BY <1>1, <2>3 DEF RecheckTail, Again, Goto, OnlyOf, TypeOK, sharedVars, doneVars, localVars
  <2>4. CASE Link(p)
    BY <1>1, <2>4 DEF Link, Again, Goto, OnlyOf, TypeOK, doneVars, localVars
  <2>5. CASE HelpTail(p)
    BY <1>1, <2>5 DEF HelpTail, Again, Goto, OnlyOf, TypeOK, doneVars
  <2>6. CASE AdvanceTail(p)
    BY <1>1, <2>6 DEF AdvanceTail, Again, Goto, OnlyOf, TypeOK
  <2>7. QED BY <2>1, <2>2, <2>3, <2>4, <2>5, <2>6 DEF Enqueue
<1>3. CASE Link(p) /\ linked' # linked
  <2>1. linked' = Append(linked, Node(p)) /\ pc[p] = "link" /\ data' = data
    BY <1>3 DEF Link, doneVars
  <2>2. Node(p) \in Values /\ data[Node(p)] = Node(p)
    BY <1>1, <2>1 DEF ProducerOK
  <2>3. Fifo!Enqueue(Node(p))
    BY <1>2, <2>1, <2>2, LinkEnqueues
  <2>4. QED BY <2>2, <2>3 DEF Fifo!Next
<1>4. CASE ~ Link(p) \/ linked' = linked
  <2>1. linked' = linked
    BY <1>4 DEF Enqueue, Construct, LoadTail, LoadNext, RecheckTail, HelpTail, AdvanceTail, sharedVars
  <2>2. \A n \in Values : data[n] = n => data'[n] = n
    <3>1. CASE Construct(p)
      <4>1. data' = [data EXCEPT ![Node(p)] = Node(p)] BY <3>1 DEF Construct, Node
      <4>2. QED BY <1>1, <4>1, ConstantsDiffer DEF TypeOK
    <3>2. CASE ~ Construct(p)
      BY <3>2 DEF Enqueue, LoadTail, LoadNext, RecheckTail, Link, HelpTail, AdvanceTail, sharedVars
    <3>3. QED BY <3>1, <3>2
  <2>3. QED BY <1>2, <2>1, <2>2, ProducerStutters
<1>5. QED
  BY <1>3, <1>4
\* What a step of a consumer is to the queue that leaves the links as they are.
LEMMA ConsumerStutters ==
    ASSUME Inv, Inv', NEW c \in Consumers, OnlyOf(c), UNCHANGED <<head_, data, linked, out>>,
           TakenBy(c)' = TakenBy(c)
    PROVE  UNCHANGED Fifo!vars
<1>1. Taken' = Taken
  BY TakenKept DEF Taken
<1>2. QED
  BY <1>1, ContentsKept DEF Fifo!vars

\* A dequeue that loads a null next pointer finds the queue empty.
LEMMA NullFindsEmpty ==
    ASSUME Inv, Inv', NEW c \in Consumers, OnlyOf(c), UNCHANGED <<head_, data, linked, out>>,
           NoLater(linked, first[c], head_), nxt[first[c]] = nullptr,
           TakenBy(c) = none, TakenBy(c)' = empty
    PROVE  Fifo!FindEmpty(c)
<1>1. TypeOK /\ LinksInOrder /\ DOMAIN linked = 1 .. Len(linked) /\ Len(linked) \in Nat
  BY LinkedValues DEF Inv
<1>2. PICK i \in DOMAIN linked, h \in DOMAIN linked : linked[i] = first[c] /\ linked[h] = head_ /\ i <= h
  BY DEF NoLater
<1>3. i = Len(linked)
  BY <1>1, <1>2, NextLinks
<1>4. h = Len(linked) /\ h \in 1 .. Len(linked)
  BY <1>1, <1>2, <1>3
<1>5. Contents = After(linked, data, h)
  BY <1>2, <1>4, HeadPlace
<1>6. linked \in Seq(Nodes) /\ \A k \in 1 .. Len(linked) : k # 1 => data[linked[k]] \in Values
  BY LinkedValues
<1>7. After(linked, data, h) = <<>>
  BY ONLY <1>4, <1>6, AfterSteps
<1>8. Taken' = [Taken EXCEPT ![c] = empty] /\ Taken[c] = none
  BY TakenKept DEF Taken
<1>9. QED
  BY <1>5, <1>7, <1>8, ContentsKept DEF Fifo!FindEmpty

\* The consumer that moves head_ on takes the value at the head of the queue.
LEMMA HeadTaken ==
    ASSUME Inv, Inv', NEW c \in Consumers, OnlyOf(c), UNCHANGED <<tail_, data, linked, out>>,
           head_' = nxt[head_], nxt[head_] # nullptr, TakenBy(c) = none,
           TakenBy(c)' = data[nxt[head_]]
    PROVE  Fifo!Take(c)
<1>1. /\ TypeOK /\ LinksInOrder /\ LinksInOrder'
      /\ DOMAIN linked = 1 .. Len(linked) /\ Len(linked) \in Nat
  BY LinkedValues DEF Inv
<1>2. PICK h \in 1 .. Len(linked) : head_ = linked[h]
  BY HeadPlace
<1>3. h # Len(linked) /\ h + 1 \in 1 .. Len(linked) /\ nxt[head_] = linked[h + 1]
  BY <1>1, <1>2, NextLinks
<1>4. Contents = After(linked, data, h)
  BY <1>2, HeadPlace
<1>5. PICK g \in 1 .. Len(linked) : g = h + 1
  BY <1>3
<1>6. Contents' = After(linked, data, g)
  BY <1>1, <1>3, <1>5, ContentsAreNext
<1>7. linked \in Seq(Nodes) /\ \A k \in 1 .. Len(linked) : k # 1 => data[linked[k]] \in Values
  BY LinkedValues
<1>8. /\ After(linked, data, h) # <<>> /\ Head(After(linked, data, h)) = data[linked[h + 1]]
      /\ Tail(After(linked, data, h)) = After(linked, data, h + 1)
  BY ONLY h \in 1 .. Len(linked), <1>3, <1>7, AfterSteps
<1>9. Taken' = [Taken EXCEPT ![c] = data[nxt[head_]]] /\ Taken[c] = none
  BY TakenKept DEF Taken
<1>10. QED
  BY <1>3, <1>4, <1>5, <1>6, <1>8, <1>9 DEF Fifo!Take

\* A dequeue returns what it has found.
LEMMA DequeueReturns ==
    ASSUME Inv, Inv', NEW c \in Consumers, OnlyOf(c), UNCHANGED <<head_, data, linked>>,
           TakenBy(c) # none, TakenBy(c)' = none, out' = [out EXCEPT ![c] = TakenBy(c)]
    PROVE  Fifo!Return(c)
<1>1. Taken' = [Taken EXCEPT ![c] = none] /\ Taken[c] = TakenBy(c)
  BY TakenKept DEF Taken
<1>2. QED
  BY <1>1, ContentsKept DEF Fifo!Return

\* Every step of a consumer is one of a dequeue, or none.
LEMMA DequeueRefines ==
    ASSUME Inv, Inv', NEW c \in Consumers, Dequeue(c)
    PROVE  [Fifo!Next]_(Fifo!vars)
<1>1. TypeOK /\ LinksInOrder /\ Ends /\ ConsumerOK(c) /\ c \in Threads /\ c \notin Producers
  BY OfConsumer
<1>2. CASE LoadHead(c) \/ LoadTailOfDequeue(c)
  <2>1. OnlyOf(c) /\ UNCHANGED <<head_, data, linked, out>>
    BY <1>1, <1>2 DEF LoadHead, LoadTailOfDequeue, Goto, OnlyOf, TypeOK, sharedVars, doneVars
  <2>2. pc[c] \in {"idle", "head", "tail"} /\ pc'[c] \in {"tail", "next"}
    BY <1>1, <1>2 DEF LoadHead, LoadTailOfDequeue, Goto, TypeOK
  <2>3. TakenBy(c) = none /\ TakenBy(c)' = none
    BY <2>2 DEF TakenBy
  <2>4. QED BY <2>1, <2>3, ConsumerStutters
<1>3. CASE LoadFirstNext(c)
  <2>1. OnlyOf(c) /\ UNCHANGED <<head_, data, linked, out>>
    BY <1>1, <1>3 DEF LoadFirstNext, Goto, OnlyOf, TypeOK, sharedVars, doneVars
  <2>2. pc[c] = "next" /\ pc'[c] = "recheck" /\ next'[c] = nxt[first[c]]
    BY <1>1, <1>3 DEF LoadFirstNext, Goto, TypeOK
  <2>3. TakenBy(c) = none /\ NoLater(linked, first[c], head_)
    BY <1>1, <2>2 DEF TakenBy, ConsumerOK
  <2>4. CASE nxt[first[c]] = nullptr
    <3>1. TakenBy(c)' = empty BY <2>2, <2>4 DEF TakenBy
    <3>2. QED BY <2>1, <2>3, <2>4, <3>1, NullFindsEmpty DEF Fifo!Next
  <2>5. CASE nxt[first[c]] # nullptr
    <3>1. TakenBy(c)' = none BY <2>2, <2>5 DEF TakenBy
    <3>2. QED BY <2>1, <2>3, <3>1, ConsumerStutters
  <2>6. QED BY <2>4, <2>5
<1>4. CASE RecheckHead(c)
  <2>1. OnlyOf(c) /\ UNCHANGED <<head_, data, linked, out>>
    BY <1>1, <1>4 DEF RecheckHead, Again, Goto, OnlyOf, TypeOK, sharedVars, doneVars, localVars
  <2>2. pc[c] = "recheck"
    BY <1>4 DEF RecheckHead
  <2>3. CASE head_ # first[c]
    <3>1. pc'[c] = "head" BY <1>1, <1>4, <2>3 DEF RecheckHead, Again, Goto, TypeOK
    <3>2. TakenBy(c)' = none /\ TakenBy(c) \in {none, empty} BY <2>2, <3>1 DEF TakenBy
    <3>3. CASE TakenBy(c) = none BY <2>1, <3>2, <3>3, ConsumerStutters
    <3>4. CASE TakenBy(c) = empty
      <4>1. Taken' = [Taken EXCEPT ![c] = none] /\ Taken[c] = empty
        BY <2>1, <3>2, <3>4, TakenKept DEF Taken
      <4>2. Fifo!Recheck(c) BY <2>1, <4>1, ContentsKept DEF Fifo!Recheck
      <4>3. QED BY <4>2 DEF Fifo!Next
    <3>5. QED BY <3>2, <3>3, <3>4
  <2>4. CASE head_ = first[c]
    <3>1. /\ pc'[c] = (IF first[c] # last[c] THEN "take" ELSE IF next[c] = nullptr THEN "false" ELSE "help")
          /\ next' = next
      BY <1>1, <1>4, <2>4 DEF RecheckHead, Goto, TypeOK, localVars
    <3>2. first[c] # last[c] => next[c] # nullptr BY <1>1, <2>2 DEF ConsumerOK
    <3>3. TakenBy(c)' = TakenBy(c) BY <2>2, <3>1, <3>2 DEF TakenBy
    <3>4. QED BY <2>1, <3>3, ConsumerStutters
  <2>5. QED BY <2>3, <2>4
<1>5. CASE ReturnFalse(c)
  <2>1. OnlyOf(c) /\ UNCHANGED <<head_, data, linked>> /\ out' = [out EXCEPT ![c] = empty]
    BY <1>1, <1>5 DEF ReturnFalse, Again, Goto, OnlyOf, TypeOK, sharedVars
  <2>2. pc[c] = "false" /\ pc'[c] = "idle"
    BY <1>1, <1>5 DEF ReturnFalse, Again, Goto, TypeOK
  <2>3. TakenBy(c) = empty /\ TakenBy(c)' = none /\ empty # none
    BY <2>2, ConstantsDiffer DEF TakenBy
  <2>4. QED BY <2>1, <2>3, DequeueReturns DEF Fifo!Next
<1>6. CASE HelpTail(c)
  <2>1. OnlyOf(c) /\ UNCHANGED <<head_, data, linked, out>>
    BY <1>1, <1>6 DEF HelpTail, Again, Goto, OnlyOf, TypeOK, doneVars
  <2>2. pc[c] = "help" /\ pc'[c] = "head"
    BY <1>1, <1>6 DEF HelpTail, Again, Goto, TypeOK
  <2>3. TakenBy(c) = none /\ TakenBy(c)' = none
    BY <2>2 DEF TakenBy
  <2>4. QED BY <2>1, <2>3, ConsumerStutters
<1>7. CASE TakeHead(c)
  <2>1. OnlyOf(c) /\ UNCHANGED <<tail_, data, linked, out>>
    BY <1>1, <1>7 DEF TakeHead, Again, Goto, OnlyOf, TypeOK, doneVars, localVars
  <2>2. pc[c] = "take" /\ next[c] # nullptr /\ nxt[first[c]] = next[c]
    BY <1>1, <1>7 DEF TakeHead, ConsumerOK
  <2>3. TakenBy(c) = none
    BY <2>2 DEF TakenBy
  <2>4. CASE head_ = first[c]
    <3>1. head_' = next[c] /\ pc'[c] = "move" /\ next' = next
      BY <1>1, <1>7, <2>4 DEF TakeHead, Goto, TypeOK, localVars
    <3>2. TakenBy(c)' = data[nxt[head_]] BY <2>1, <2>2, <2>4, <3>1 DEF TakenBy
    <3>3. QED BY <2>1, <2>2, <2>3, <2>4, <3>1, <3>2, HeadTaken DEF Fifo!Next
  <2>5. CASE head_ # first[c]
    <3>1. head_' = head_ /\ pc'[c] = "head"
      BY <1>1, <1>7, <2>5 DEF TakeHead, Again, Goto, TypeOK
    <3>2. TakenBy(c)' = none BY <3>1 DEF TakenBy
    <3>3. QED BY <2>1, <2>3, <3>1, <3>2, ConsumerStutters
  <2>6. QED BY <2>4, <2>5
<1>8. CASE MoveOut(c)
  <2>1. /\ OnlyOf(c) /\ UNCHANGED <<head_, data, linked>>
        /\ out' = [out EXCEPT ![c] = data[next[c]]]
    BY <1>1, <1>8 DEF MoveOut, Again, Goto, OnlyOf, TypeOK, sharedVars
  <2>2. pc[c] = "move" /\ pc'[c] = "idle"
    BY <1>1, <1>8 DEF MoveOut, Again, Goto, TypeOK
  <2>3. data[next[c]] \in Values
    <3>1. next[c] \in Range(linked) /\ next[c] # dummy BY <1>1, <2>2 DEF ConsumerOK
    <3>2. QED BY <3>1, LinkedValues
  <2>4. TakenBy(c) = data[next[c]] /\ TakenBy(c)' = none /\ TakenBy(c) # none
    BY <2>2, <2>3, ConstantsDiffer DEF TakenBy
  <2>5. QED BY <2>1, <2>4, DequeueReturns DEF Fifo!Next
<1>9. QED
  BY <1>2, <1>3, <1>4, <1>5, <1>6, <1>7, <1>8 DEF Dequeue

\* At first the queue is empty and no dequeue has begun.
LEMMA InitRefines == ASSUME Init PROVE Fifo!Init
<1>1. Inv /\ linked = <<dummy>> /\ head_ = dummy /\ Len(linked) = 1 /\ linked[1] = dummy
  BY InitInv DEF Init
<1>2. 1 \in 1 .. Len(linked) /\ Contents = After(linked, data, 1)
  <2>1. 1 \in 1 .. Len(linked) /\ head_ = linked[1] BY <1>1
  <2>2. QED BY <1>1, <2>1, HeadPlace
<1>3. linked \in Seq(Nodes) /\ \A k \in 1 .. Len(linked) : k # 1 => data[linked[k]] \in Values
  BY <1>1, LinkedValues
<1>4. After(linked, data, 1) = <<>>
  BY ONLY <1>1, <1>2, <1>3, AfterSteps
<1>5. Taken = [c \in Consumers |-> none]
  BY DEF Init, Taken, TakenBy, Threads
<1>6. QED
  BY <1>2, <1>4, <1>5 DEF Init, Fifo!Init

\* The queue is a first-in first-out queue for any number of producers and
\* consumers: an enqueue takes effect when it links its node, a dequeue when it
\* moves head_ on or when it loads a null next pointer, though it may then look
\* again (lockfree_ms_queue.hpp:80-165).
THEOREM FifoRefinedHolds == Spec => FifoRefined
<1>1. Inv /\ Inv' /\ [Next]_vars => [Fifo!Next]_(Fifo!vars)
  <2> SUFFICES ASSUME Inv, Inv', [Next]_vars PROVE [Fifo!Next]_(Fifo!vars)
    OBVIOUS
  <2>1. CASE UNCHANGED vars
    BY <2>1 DEF vars, Fifo!vars, Contents, Position, Taken, TakenBy
  <2>2. QED
    BY <2>1, EnqueueRefines, DequeueRefines DEF Next
<1>2. QED
  BY <1>1, InitRefines, InvHolds, PTL DEF Spec, Fifo!Spec, FifoRefined
-----------------------------------------------------------------------------
(* The multi-producer multi-consumer ring, for any threads, values and     *)
(* capacities as long as no thread can be lapped. What both queues have, a *)
(* head_, a tail_ and so on, has one name here; no behavior is of both.    *)

\* In none of the uses can a thread be lapped.
NoneLapped == \A u \in Uses : Ring!Unlapped(u)
UsesFit == Ring!UsesRight /\ NoneLapped

\* The producers that have a slot to fill, the consumers that have one to empty.
Filling(p)  == pc[p] \in {"construct", "publish"}
Emptying(c) == pc[c] \in {"move", "destroy", "release"}

\* Who takes part, and how far the threads can have looked.
Roles ==
    /\ \A p \in Producers : /\ pc[p] \in {"head", "stamp", "cas", "construct", "publish"}
                            /\ pc[p] # "head" => sent[p] < use.items[p]
                            /\ pos[p] <= head_
    /\ \A c \in Consumers : /\ pc[c] \in {"tail", "stamp", "cas", "empty", "false",
                                          "move", "destroy", "release"}
                            /\ pc[c] # "tail" => c \in use.consumers
                            /\ pos[c] <= tail_

Edges == tail_ <= head_ /\ head_ <= tail_ + use.capacity

\* Each position before head_ has a value of its own. A value has none until a
\* producer has its slot.
Claimed ==
    /\ \A n \in Nat : n < head_ => \E v \in Ring!Values : <<n, v>> \in claims
    /\ \A n \in Nat, v \in Ring!Values : <<n, v>> \in claims => n < head_
    /\ \A n, m \in Nat, v, w \in Ring!Values :
         <<n, v>> \in claims /\ <<m, w>> \in claims => (n = m <=> v = w)
    /\ \A n \in Nat, p \in Producers, k \in Nat :
         <<n, <<p, k>>>> \in claims => k <= sent[p] \/ (k = sent[p] + 1 /\ Filling(p) /\ pos[p] = n)

FillsOf(p) ==
    Filling(p) =>
      /\ tail_ <= pos[p] /\ pos[p] < head_
      /\ stamp[Ring!Slot(pos[p])] = pos[p]
      /\ <<pos[p], Ring!Value(p)>> \in claims
      /\ data[Ring!Slot(pos[p])] = IF pc[p] = "construct" THEN raw ELSE Ring!Value(p)

EmptiesOf(c) ==
    Emptying(c) =>
      /\ pos[c] < tail_ /\ head_ <= pos[c] + use.capacity
      /\ stamp[Ring!Slot(pos[c])] = pos[c] + 1
      /\ pc[c] = "move" => <<pos[c], data[Ring!Slot(pos[c])]>> \in claims
      /\ pc[c] # "move" => <<pos[c], item[c]>> \in claims
      /\ (data[Ring!Slot(pos[c])] = raw) <=> (pc[c] = "release")

Apart ==
    /\ \A p, q \in Producers : Filling(p) /\ Filling(q) /\ pos[p] = pos[q] => p = q
    /\ \A c, d \in Consumers : Emptying(c) /\ Emptying(d) /\ pos[c] = pos[d] => c = d

\* Who will win its compare-and-exchange has seen the right lap.
ReadyToFill(p)  == pc[p] = "cas" /\ pos[p] = head_ =>
                     seen[p] = pos[p] /\ stamp[Ring!Slot(pos[p])] = pos[p]
ReadyToEmpty(c) == pc[c] = "cas" /\ pos[c] = tail_ =>
                     tail_ < head_ /\ stamp[Ring!Slot(pos[c])] = pos[c] + 1

\* What the stamp of a slot says of the position that uses it, or will.
Kept(n) ==
    \/ head_ <= n /\ stamp[Ring!Slot(n)] = n /\ data[Ring!Slot(n)] = raw
    \/ /\ head_ <= n /\ stamp[Ring!Slot(n)] = n - use.capacity + 1
       /\ \E c \in Consumers : Emptying(c) /\ pos[c] = n - use.capacity
    \/ n < head_ /\ stamp[Ring!Slot(n)] = n /\ \E p \in Producers : Filling(p) /\ pos[p] = n
    \/ n < head_ /\ stamp[Ring!Slot(n)] = n + 1 /\ <<n, data[Ring!Slot(n)]>> \in claims

Window == \A n \in Nat : tail_ <= n /\ n < tail_ + use.capacity => Kept(n)

RingInv ==
    /\ Ring!TypeOK /\ Roles /\ Edges /\ Claimed /\ Apart /\ Window
    /\ \A p \in Producers : FillsOf(p) /\ ReadyToFill(p)
    /\ \A c \in Consumers : EmptiesOf(c) /\ ReadyToEmpty(c)
-----------------------------------------------------------------------------
(* Slots, parities and values.                                             *)

\* The ring counts as everyone does.
LEMMA SameCount ==
    ASSUME NEW S
    PROVE  (Ring!IsFiniteSet(S) <=> IsFiniteSet(S)) /\ Ring!Cardinality(S) = Cardinality(S)
BY DEF Ring!IsFiniteSet, IsFiniteSet, Ring!Cardinality, Cardinality

LEMMA UseRight ==
    ASSUME UsesFit, use \in Uses
    PROVE  /\ use.capacity \in Nat /\ use.capacity > 1 /\ use.capacity % 2 = 0
           /\ use.items \in [Producers -> Nat] /\ use.consumers \subseteq Consumers
           /\ Producers \cap Consumers = {}
           /\ Ring!Unlapped(use)
BY DEF UsesFit, NoneLapped, Ring!UsesRight, Ring!Unlapped

LEMMA ValuesAre ==
    /\ \A p \in Producers : \A k : <<p, k>> \in Ring!Values <=> k \in 1 .. use.items[p]
    /\ \A v \in Ring!Values : \E p \in Producers : \E k \in 1 .. use.items[p] : v = <<p, k>>
BY DEF Ring!Values, Ring!ValuesOf

LEMMA Different ==
    ASSUME UsesFit, use \in Uses
    PROVE  none # empty /\ \A v \in Ring!Values : v # raw /\ v # none /\ v # empty
<1>1. \A v \in Ring!Values : v \in Producers \X Nat
  BY UseRight, ValuesAre
<1> QED BY <1>1 DEF UsesFit, Ring!UsesRight

\* The remainder is what is left of a number when multiples of the divisor are taken.
LEMMA Remainder ==
    ASSUME NEW n \in Nat \ {0}, NEW q \in Int, NEW i \in 0 .. n - 1
    PROVE  (n * q + i) % n = i
<1>1. PICK a \in Int : a = n * q + i
  OBVIOUS
<1>2. PICK p \in Int, r \in 0 .. n - 1 : r = a % n /\ a = n * p + r
  <2>1. a % n \in 0 .. n - 1 /\ a \div n \in Int /\ a = n * (a \div n) + (a % n)
    BY <1>1
  <2> QED BY <2>1
<1>3. n * p + r = n * q + i
  BY <1>1, <1>2
<1>4. n * (p - q) = i - r /\ i - r < n /\ i - r > -n
  <2>1. PICK x \in Int, y \in Int : x = n * p /\ y = n * q
    OBVIOUS
  <2>2. n * (p - q) = x - y
    BY <2>1
  <2>3. x + r = y + i
    BY <1>3, <2>1
  <2> QED BY <2>2, <2>3
<1>5. CASE p >= q + 1
  <2>1. n * (p - q) >= n
    BY <1>2, <1>5
  <2> QED BY <1>2, <1>4, <2>1
<1>6. CASE p <= q - 1
  <2>1. n * (p - q) <= -n
    BY <1>2, <1>6
  <2> QED BY <1>2, <1>4, <2>1
<1>7. CASE p = q
  <2>1. n * q \in Int
    OBVIOUS
  <2> QED BY <1>1, <1>2, <1>3, <1>7, <2>1
<1> QED BY <1>2, <1>5, <1>6, <1>7

LEMMA SlotIn ==
    ASSUME UsesFit, use \in Uses, NEW n \in Nat
    PROVE  Ring!Slot(n) \in Ring!Slots
BY UseRight DEF Ring!Slot, Ring!Slots

\* Going round the ring once leads back to the slot.
LEMMA SlotRound ==
    ASSUME UsesFit, use \in Uses, NEW n \in Nat
    PROVE  Ring!Slot(n + use.capacity) = Ring!Slot(n)
<1>1. PICK c \in Nat \ {0} : c = use.capacity
  BY UseRight
<1>2. PICK q \in Int, i \in 0 .. c - 1 : i = n % c /\ n = c * q + i
  <2>1. n % c \in 0 .. c - 1 /\ n \div c \in Int /\ n = c * (n \div c) + (n % c)
    OBVIOUS
  <2> QED BY <2>1
<1>3. n + c = c * (q + 1) + i
  <2>1. c * (q + 1) = c * q + c
    OBVIOUS
  <2> QED BY <1>2, <2>1
<1>4. (c * (q + 1) + i) % c = i
  <2>1. q + 1 \in Int
    OBVIOUS
  <2> QED BY <2>1, Remainder
<1> QED BY <1>1, <1>2, <1>3, <1>4 DEF Ring!Slot

\* Positions of one lap have different slots.
LEMMA SlotsDiffer ==
    ASSUME UsesFit, use \in Uses, NEW a \in Nat, NEW b \in Nat, a < b, b < a + use.capacity
    PROVE  Ring!Slot(a) # Ring!Slot(b)
<1>1. PICK n \in Nat \ {0} : n = use.capacity
  BY UseRight
<1>2. SUFFICES ASSUME a % n = b % n PROVE FALSE
  BY <1>1 DEF Ring!Slot
<1>3. PICK p \in Int, q \in Int, i \in Int : a = n * p + i /\ b = n * q + i
  <2>1. a % n \in Int /\ a \div n \in Int /\ a = n * (a \div n) + (a % n)
    OBVIOUS
  <2>2. b % n \in Int /\ b \div n \in Int /\ b = n * (b \div n) + (b % n)
    OBVIOUS
  <2> QED BY <1>2, <2>1, <2>2
<1>4. n * (q - p) > 0 /\ n * (q - p) < n
  <2>1. n * p \in Int /\ n * q \in Int /\ n * (q - p) = n * q - n * p
    OBVIOUS
  <2> QED BY <1>1, <1>3, <2>1
<1>5. CASE q <= p
  <2>1. n * (q - p) <= 0
    BY <1>5
  <2> QED BY <1>4, <2>1
<1>6. CASE q >= p + 1
  <2>1. n * (q - p) >= n
    BY <1>6
  <2> QED BY <1>4, <2>1
<1> QED BY <1>5, <1>6

LEMMA SlotsApart ==
    ASSUME UsesFit, use \in Uses, NEW a \in Nat, NEW b \in Nat,
           a < b + use.capacity, b < a + use.capacity, Ring!Slot(a) = Ring!Slot(b)
    PROVE  a = b
BY SlotsDiffer

\* Every slot has a position in each lap.
LEMMA SlotMet ==
    ASSUME UsesFit, use \in Uses, NEW t \in Nat, NEW i \in Ring!Slots
    PROVE  \E n \in Nat : t <= n /\ n < t + use.capacity /\ Ring!Slot(n) = i
<1>1. PICK c \in Nat \ {0} : c = use.capacity
  BY UseRight
<1>2. i \in 0 .. c - 1
  BY <1>1 DEF Ring!Slots
<1>3. PICK q \in Int, r \in 0 .. c - 1 : t = c * q + r
  <2>1. t % c \in 0 .. c - 1 /\ t \div c \in Int /\ t = c * (t \div c) + (t % c)
    OBVIOUS
  <2> QED BY <2>1
<1>4. CASE r <= i
  <2>1. PICK n \in Int : n = t + (i - r)
    BY <1>2
  <2>2. n = c * q + i /\ n \in Nat /\ t <= n /\ n < t + c
    BY <1>2, <1>3, <1>4, <2>1
  <2>3. n % c = i
    BY <1>2, <2>2, Remainder
  <2> QED BY <1>1, <2>2, <2>3 DEF Ring!Slot
<1>5. CASE i < r
  <2>1. PICK n \in Int : n = t + (i + c - r)
    BY <1>2
  <2>2. n \in Nat /\ t <= n /\ n < t + c
    BY <1>2, <1>3, <1>5, <2>1
  <2>3. n = c * (q + 1) + i
    <3>1. c * (q + 1) = c * q + c
      OBVIOUS
    <3> QED BY <1>2, <1>3, <2>1, <3>1
  <2>4. (c * (q + 1) + i) % c = i
    <3>1. q + 1 \in Int
      OBVIOUS
    <3> QED BY <1>2, <3>1, Remainder
  <2> QED BY <1>1, <2>2, <2>3, <2>4 DEF Ring!Slot
<1> QED BY <1>2, <1>3, <1>4, <1>5

\* A position has the parity of its slot and of the stamp of the empty slot, and not
\* that of the other stamps its slot can have.
LEMMA Parities ==
    ASSUME UsesFit, use \in Uses, NEW n \in Nat
    PROVE  /\ Ring!SameParity(n, n) /\ ~ Ring!SameParity(n, n + 1) /\ ~ Ring!SameParity(n, n - use.capacity + 1)
           /\ Ring!SameParity(n, Ring!Slot(n)) /\ ~ Ring!SameParity(n + 1, Ring!Slot(n))
           /\ ~ Ring!SameParity(n - use.capacity + 1, Ring!Slot(n))
<1>1. PICK c \in Nat \ {0} : c = use.capacity /\ c % 2 = 0
  BY UseRight
<1>2. PICK h \in Int : c = 2 * h
  BY <1>1
<1>3. PICK q \in Int, r \in 0 .. c - 1 : r = n % c /\ n = c * q + r
  <2>1. n % c \in 0 .. c - 1 /\ n \div c \in Int /\ n = c * (n \div c) + (n % c)
    OBVIOUS
  <2> QED BY <2>1
<1>4. PICK z \in Int : z = h * q
  OBVIOUS
<1>5. n = 2 * z + r
  <2>1. c * q = 2 * (h * q)
    BY <1>2
  <2> QED BY <1>3, <1>4, <2>1
<1>6. n % 2 = r % 2
  BY <1>5
<1>7. Ring!Slot(n) = r
  BY <1>1, <1>3 DEF Ring!Slot
<1>8. n % 2 # (n + 1) % 2
  OBVIOUS
<1>9. (n - c + 1) % 2 = (n + 1) % 2
  BY <1>2
<1> QED BY <1>1, <1>6, <1>7, <1>8, <1>9 DEF Ring!SameParity
-----------------------------------------------------------------------------
(* What a thread that looks at a slot can take it for.                     *)

\* As each position has its own value, there are no more positions than values.
LEMMA PositionsFew ==
    ASSUME UsesFit, Ring!TypeOK, Claimed, NEW S \in SUBSET Ring!Values, IsFiniteSet(S),
           \A n \in Nat, v \in Ring!Values : <<n, v>> \in claims => v \in S
    PROVE  head_ <= Cardinality(S)
<1> DEFINE f == [n \in 0 .. head_ - 1 |-> CHOOSE v \in Ring!Values : <<n, v>> \in claims]
<1>1. head_ \in Nat
  BY DEF Ring!TypeOK
<1>2. ASSUME NEW n \in 0 .. head_ - 1 PROVE f[n] \in Ring!Values /\ <<n, f[n]>> \in claims
  <2>1. n \in Nat /\ n < head_
    BY <1>1
  <2>2. \E v \in Ring!Values : <<n, v>> \in claims
    BY <2>1 DEF Claimed
  <2>3. f[n] = CHOOSE v \in Ring!Values : <<n, v>> \in claims
    OBVIOUS
  <2> HIDE DEF f
  <2> QED BY <2>2, <2>3
<1> HIDE DEF f
<1>3. f \in [0 .. head_ - 1 -> S]
  <2>1. ASSUME NEW n \in 0 .. head_ - 1 PROVE f[n] \in S
    <3>1. n \in Nat
      BY <1>1
    <3> QED BY <1>2, <3>1
  <2> QED BY <2>1 DEF f
<1>4. ASSUME NEW n \in 0 .. head_ - 1, NEW m \in 0 .. head_ - 1, f[n] = f[m] PROVE n = m
  <2>1. n \in Nat /\ m \in Nat
    BY <1>1
  <2> QED BY <1>2, <1>4, <2>1 DEF Claimed
<1>5. f \in Injection(0 .. head_ - 1, S)
  BY <1>3, <1>4 DEF Injection, IsInjective
<1>6. Cardinality(0 .. head_ - 1) <= Cardinality(S)
  BY <1>5, FS_Injection
<1>7. Cardinality(0 .. head_ - 1) = head_
  BY <1>1, FS_Interval
<1> QED BY <1>6, <1>7

\* A producer that has no slot has a value without position.
LEMMA ValueLeft ==
    ASSUME UsesFit, Ring!TypeOK, Claimed, NEW p \in Producers, ~ Filling(p), sent[p] < use.items[p]
    PROVE  /\ Ring!Value(p) \in Ring!Values
           /\ \A n \in Nat : <<n, Ring!Value(p)>> \notin claims
           /\ IsFiniteSet(Ring!Values) => head_ < Cardinality(Ring!Values)
<1>1. use \in Uses /\ sent[p] \in Nat /\ head_ \in Nat
  BY DEF Ring!TypeOK
<1>2. use.items[p] \in Nat
  BY <1>1, UseRight
<1>3. Ring!Value(p) \in Ring!Values
  <2>1. sent[p] + 1 \in 1 .. use.items[p]
    BY <1>1, <1>2
  <2> QED BY <2>1, ValuesAre DEF Ring!Value
<1>4. ASSUME NEW n \in Nat PROVE <<n, Ring!Value(p)>> \notin claims
  <2>1. PICK k \in Nat : k = sent[p] + 1
    BY <1>1
  <2>2. <<n, <<p, k>>>> \notin claims
    BY <1>1, <2>1 DEF Claimed
  <2> QED BY <2>1, <2>2 DEF Ring!Value
<1>5. ASSUME IsFiniteSet(Ring!Values) PROVE head_ < Cardinality(Ring!Values)
  <2> DEFINE S == Ring!Values \ {Ring!Value(p)}
  <2>1. IsFiniteSet(S) /\ Cardinality(S) = Cardinality(Ring!Values) - 1
    BY <1>3, <1>5, FS_RemoveElement
  <2>2. \A n \in Nat, v \in Ring!Values : <<n, v>> \in claims => v \in S
    BY <1>4
  <2>3. S \in SUBSET Ring!Values
    OBVIOUS
  <2> HIDE DEF S
  <2>4. head_ <= Cardinality(S)
    BY <2>1, <2>2, <2>3, PositionsFew
  <2>5. Cardinality(Ring!Values) \in Nat
    BY <1>5, FS_CardinalityType
  <2> QED BY <1>1, <2>1, <2>4, <2>5
<1> QED BY <1>3, <1>4, <1>5

\* A slot that looks empty to the producer at head_ is empty.
LEMMA LooksFree ==
    ASSUME UsesFit, RingInv, NEW p \in Producers, pc[p] = "stamp",
           Ring!SameParity(head_, stamp[Ring!Slot(head_)])
    PROVE  stamp[Ring!Slot(head_)] = head_
<1>1. /\ use \in Uses /\ head_ \in Nat /\ tail_ \in Nat /\ sent[p] \in Nat
      /\ tail_ <= head_ /\ head_ <= tail_ + use.capacity
      /\ \A q \in Producers : sent[q] \in Nat
  BY DEF RingInv, Edges, Ring!TypeOK
<1>2. use.capacity \in Nat /\ use.capacity > 1 /\ use.items \in [Producers -> Nat]
  BY <1>1, UseRight
<1>3. CASE head_ < tail_ + use.capacity
  <2>1. Kept(head_)
    BY <1>1, <1>3 DEF RingInv, Window
  <2>2. stamp[Ring!Slot(head_)] = head_ \/ stamp[Ring!Slot(head_)] = head_ - use.capacity + 1
    BY <1>1, <2>1 DEF Kept
  <2> QED BY <1>1, <2>2, Parities
<1>4. CASE head_ = tail_ + use.capacity
  <2>1. Ring!Slot(head_) = Ring!Slot(tail_)
    BY <1>1, <1>4, SlotRound
  <2>2. Kept(tail_) /\ tail_ < head_
    BY <1>1, <1>2, <1>4 DEF RingInv, Window
  <2>3. stamp[Ring!Slot(tail_)] # tail_ + 1
    <3>1. Ring!SameParity(head_, Ring!Slot(head_)) /\ ~ Ring!SameParity(tail_ + 1, Ring!Slot(tail_))
      BY <1>1, Parities
    <3> QED BY <2>1, <3>1 DEF Ring!SameParity
  <2>4. PICK q \in Producers : Filling(q)
    BY <1>1, <2>2, <2>3 DEF Kept
  <2>5. pc[q] # "head" /\ p # q /\ ~ Filling(p)
    BY <2>4 DEF Filling
  <2>6. sent[p] < use.items[p] /\ sent[q] < use.items[q]
    BY <2>5 DEF RingInv, Roles
  <2>7. use.items[p] > 0 /\ use.items[q] > 0
    BY <1>1, <1>2, <2>6
  <2>8. IsFiniteSet(Ring!Values) /\ Cardinality(Ring!Values) <= use.capacity
    <3>1. Ring!Unlapped(use)
      BY <1>1, UseRight
    <3> QED BY <2>5, <2>7, <3>1, SameCount DEF Ring!Unlapped, Ring!Values
  <2>9. head_ < Cardinality(Ring!Values) /\ Cardinality(Ring!Values) \in Nat
    BY <2>5, <2>6, <2>8, ValueLeft, FS_CardinalityType DEF RingInv
  <2> QED BY <1>1, <1>2, <1>4, <2>8, <2>9
<1> QED BY <1>1, <1>2, <1>3, <1>4

\* A slot that looks full to the consumer at tail_ is full.
LEMMA LooksFull ==
    ASSUME UsesFit, RingInv, NEW c \in Consumers, pc[c] = "stamp",
           ~ Ring!SameParity(tail_, stamp[Ring!Slot(tail_)])
    PROVE  tail_ < head_ /\ stamp[Ring!Slot(tail_)] = tail_ + 1
<1>1. /\ use \in Uses /\ head_ \in Nat /\ tail_ \in Nat /\ tail_ <= head_ /\ pos \in [Ring!Threads -> Nat]
  BY DEF RingInv, Edges, Ring!TypeOK
<1>2. use.capacity \in Nat /\ use.capacity > 1
  BY <1>1, UseRight
<1>3. Kept(tail_)
  BY <1>1, <1>2 DEF RingInv, Window
<1>4. stamp[Ring!Slot(tail_)] # tail_
  BY <1>1, Parities
<1>5. CASE stamp[Ring!Slot(tail_)] = tail_ - use.capacity + 1 /\ head_ <= tail_
  <2>1. PICK d \in Consumers : Emptying(d) /\ pos[d] = tail_ - use.capacity
    BY <1>1, <1>2, <1>3, <1>4, <1>5 DEF Kept
  <2>2. pc[d] # "tail" /\ pc[c] # "tail" /\ c # d
    BY <2>1 DEF Emptying
  <2>3. c \in use.consumers /\ d \in use.consumers
    BY <2>2 DEF RingInv, Roles
  <2>4. IsFiniteSet(Ring!Values) /\ Cardinality(Ring!Values) < use.capacity
    <3>1. Ring!Unlapped(use)
      BY <1>1, UseRight
    <3> QED BY <2>2, <2>3, <3>1, SameCount DEF Ring!Unlapped, Ring!Values
  <2>5. head_ <= Cardinality(Ring!Values) /\ Cardinality(Ring!Values) \in Nat
    BY <2>4, PositionsFew, FS_CardinalityType DEF RingInv
  <2>6. pos[d] \in Nat
    BY <1>1 DEF Ring!Threads
  <2> QED BY <1>1, <1>2, <2>1, <2>4, <2>5, <2>6
<1> QED BY <1>1, <1>3, <1>4, <1>5 DEF Kept
-----------------------------------------------------------------------------
(* What a step of one thread leaves of the others.                         *)

RingOnly(t) ==
    /\ use' = use
    /\ \A u \in Ring!Threads : u # t => pc'[u] = pc[u] /\ pos'[u] = pos[u] /\ seen'[u] = seen[u]
    /\ \A p \in Producers : p # t => sent'[p] = sent[p]
    /\ \A c \in Consumers : c # t => item'[c] = item[c]

LEMMA UseKept ==
    ASSUME use' = use
    PROVE  /\ Ring!Values' = Ring!Values /\ Ring!Slots' = Ring!Slots /\ \A n : Ring!Slot(n)' = Ring!Slot(n)
BY DEF Ring!Values, Ring!ValuesOf, Ring!Slots, Ring!Slot

LEMMA Numbers ==
    ASSUME UsesFit, RingInv
    PROVE  /\ use \in Uses /\ use.capacity \in Nat /\ use.capacity > 1
           /\ head_ \in Nat /\ tail_ \in Nat /\ tail_ <= head_ /\ head_ <= tail_ + use.capacity
           /\ \A t \in Ring!Threads : pos[t] \in Nat /\ seen[t] \in Nat
           /\ \A p \in Producers : p \in Ring!Threads /\ p \notin Consumers /\ sent[p] \in Nat
           /\ \A c \in Consumers : c \in Ring!Threads /\ c \notin Producers
           /\ \A n \in Nat : Ring!Slot(n) \in Ring!Slots /\ stamp[Ring!Slot(n)] \in Nat
<1>1. use \in Uses /\ stamp \in [Ring!Slots -> Nat]
  BY DEF RingInv, Ring!TypeOK
<1>2. \A n \in Nat : Ring!Slot(n) \in Ring!Slots /\ stamp[Ring!Slot(n)] \in Nat
  BY <1>1, SlotIn
<1> QED BY <1>1, <1>2, UseRight DEF RingInv, Ring!TypeOK, Edges, Ring!Threads

LEMMA OthersFill ==
    ASSUME UsesFit, RingInv, NEW t, RingOnly(t), NEW p \in Producers, p # t,
           Filling(p) => /\ tail_' <= pos[p] /\ pos[p] < head_'
                         /\ stamp'[Ring!Slot(pos[p])] = stamp[Ring!Slot(pos[p])]
                         /\ data'[Ring!Slot(pos[p])] = data[Ring!Slot(pos[p])],
           claims \subseteq claims'
    PROVE  FillsOf(p)'
<1>1. pc'[p] = pc[p] /\ pos'[p] = pos[p] /\ sent'[p] = sent[p] /\ p \in Ring!Threads
  BY Numbers DEF RingOnly
<1>2. Ring!Value(p)' = Ring!Value(p) /\ Filling(p)' = Filling(p)
  BY <1>1 DEF Ring!Value, Filling
<1>3. FillsOf(p) /\ \A n : Ring!Slot(n)' = Ring!Slot(n)
  BY UseKept DEF RingInv, RingOnly
<1>4. ASSUME Filling(p)
      PROVE  /\ tail_' <= pos'[p] /\ pos'[p] < head_'
             /\ stamp'[Ring!Slot(pos'[p])] = pos'[p]
             /\ <<pos'[p], Ring!Value(p)>> \in claims'
             /\ data'[Ring!Slot(pos'[p])] = IF pc'[p] = "construct" THEN raw ELSE Ring!Value(p)
  BY <1>1, <1>3, <1>4 DEF FillsOf
<1> QED BY <1>2, <1>3, <1>4 DEF FillsOf

LEMMA OthersEmpty ==
    ASSUME UsesFit, RingInv, NEW t, RingOnly(t), NEW c \in Consumers, c # t,
           Emptying(c) => /\ pos[c] < tail_' /\ head_' <= pos[c] + use.capacity
                          /\ stamp'[Ring!Slot(pos[c])] = stamp[Ring!Slot(pos[c])]
                          /\ data'[Ring!Slot(pos[c])] = data[Ring!Slot(pos[c])],
           claims \subseteq claims'
    PROVE  EmptiesOf(c)'
<1>1. pc'[c] = pc[c] /\ pos'[c] = pos[c] /\ item'[c] = item[c] /\ c \in Ring!Threads /\ use' = use
  BY Numbers DEF RingOnly
<1>2. Emptying(c)' = Emptying(c)
  BY <1>1 DEF Emptying
<1>3. EmptiesOf(c) /\ \A n : Ring!Slot(n)' = Ring!Slot(n)
  BY UseKept DEF RingInv, RingOnly
<1>4. ASSUME Emptying(c)
      PROVE  /\ pos'[c] < tail_' /\ head_' <= pos'[c] + use'.capacity
             /\ stamp'[Ring!Slot(pos'[c])] = pos'[c] + 1
             /\ pc'[c] = "move" => <<pos'[c], data'[Ring!Slot(pos'[c])]>> \in claims'
             /\ pc'[c] # "move" => <<pos'[c], item'[c]>> \in claims'
             /\ (data'[Ring!Slot(pos'[c])] = raw) <=> (pc'[c] = "release")
  BY <1>1, <1>3, <1>4 DEF EmptiesOf
<1> QED BY <1>2, <1>3, <1>4 DEF EmptiesOf

LEMMA KeptStays ==
    ASSUME UsesFit, RingInv, use' = use, NEW n \in Nat, Kept(n),
           stamp'[Ring!Slot(n)] = stamp[Ring!Slot(n)], data'[Ring!Slot(n)] = data[Ring!Slot(n)],
           head_' \in Nat, head_ <= n <=> head_' <= n, claims \subseteq claims',
           \A p \in Producers : Filling(p) /\ pos[p] = n => Filling(p)' /\ pos'[p] = n,
           \A c \in Consumers : Emptying(c) /\ pos[c] = n - use.capacity =>
                                  Emptying(c)' /\ pos'[c] = n - use.capacity
    PROVE  Kept(n)'
<1>1. \A m : Ring!Slot(m)' = Ring!Slot(m)
  BY UseKept
<1>2. n < head_ <=> n < head_'
  BY Numbers
<1>3. CASE head_ <= n /\ stamp[Ring!Slot(n)] = n /\ data[Ring!Slot(n)] = raw
  BY <1>1, <1>3 DEF Kept
<1>4. CASE /\ head_ <= n /\ stamp[Ring!Slot(n)] = n - use.capacity + 1
           /\ \E c \in Consumers : Emptying(c) /\ pos[c] = n - use.capacity
  <2>1. \E c \in Consumers : Emptying(c)' /\ pos'[c] = n - use'.capacity
    BY <1>4
  <2> QED BY <1>1, <1>4, <2>1 DEF Kept
<1>5. CASE n < head_ /\ stamp[Ring!Slot(n)] = n /\ \E p \in Producers : Filling(p) /\ pos[p] = n
  <2>1. \E p \in Producers : Filling(p)' /\ pos'[p] = n
    BY <1>5
  <2> QED BY <1>1, <1>2, <1>5, <2>1 DEF Kept
<1>6. CASE n < head_ /\ stamp[Ring!Slot(n)] = n + 1 /\ <<n, data[Ring!Slot(n)]>> \in claims
  BY <1>1, <1>2, <1>6 DEF Kept
<1> QED BY <1>3, <1>4, <1>5, <1>6 DEF Kept

\* The slots of two threads that hold one differ, and those of other positions.
LEMMA HeldSlots ==
    ASSUME UsesFit, RingInv
    PROVE  /\ \A p, q \in Producers : Filling(p) /\ Filling(q) /\ Ring!Slot(pos[p]) = Ring!Slot(pos[q]) => p = q
           /\ \A c, d \in Consumers : Emptying(c) /\ Emptying(d) /\ Ring!Slot(pos[c]) = Ring!Slot(pos[d]) => c = d
           /\ \A p \in Producers, c \in Consumers :
                Filling(p) /\ Emptying(c) => Ring!Slot(pos[p]) # Ring!Slot(pos[c])
<1>1. ASSUME NEW p \in Producers, NEW q \in Producers, Filling(p), Filling(q), Ring!Slot(pos[p]) = Ring!Slot(pos[q])
      PROVE  p = q
  <2>1. pos[p] = pos[q]
    <3>1. FillsOf(p) /\ FillsOf(q)
      BY DEF RingInv
    <3> QED BY <1>1, <3>1 DEF FillsOf
  <2> QED BY <1>1, <2>1 DEF RingInv, Apart
<1>2. ASSUME NEW c \in Consumers, NEW d \in Consumers, Emptying(c), Emptying(d), Ring!Slot(pos[c]) = Ring!Slot(pos[d])
      PROVE  c = d
  <2>1. pos[c] = pos[d]
    <3>1. EmptiesOf(c) /\ EmptiesOf(d)
      BY DEF RingInv
    <3>2. pos[c] + 1 = pos[d] + 1
      BY <1>2, <3>1 DEF EmptiesOf
    <3> QED BY <3>2, Numbers
  <2> QED BY <1>2, <2>1 DEF RingInv, Apart
<1>3. ASSUME NEW p \in Producers, NEW c \in Consumers, Filling(p), Emptying(c), Ring!Slot(pos[p]) = Ring!Slot(pos[c])
      PROVE  FALSE
  <2>1. FillsOf(p) /\ EmptiesOf(c)
    BY DEF RingInv
  <2>2. PICK a \in Nat, b \in Nat : a = pos[p] /\ b = pos[c]
    BY Numbers
  <2>3. a = b + 1 /\ tail_ <= a /\ b < tail_
    BY <1>3, <2>1, <2>2 DEF FillsOf, EmptiesOf
  <2>4. b < a /\ a < b + use.capacity /\ Ring!Slot(b) = Ring!Slot(a)
    BY <1>3, <2>2, <2>3, Numbers
  <2> QED BY <2>4, SlotsDiffer, Numbers
<1> QED BY <1>1, <1>2, <1>3

\* A step in which no thread takes, fills, empties or gives back a slot.
LEMMA QuietKeeps ==
    ASSUME UsesFit, RingInv, NEW t \in Ring!Threads, RingOnly(t),
           UNCHANGED <<stamp, data, head_, tail_, claims, sent>>,
           {pc[t], pc'[t]} \cap {"construct", "publish", "move", "destroy", "release"} = {},
           Ring!TypeOK', Roles',
           t \in Producers => ReadyToFill(t)', t \in Consumers => ReadyToEmpty(t)'
    PROVE  RingInv'
<1>1. \A n : Ring!Slot(n)' = Ring!Slot(n)
  BY UseKept DEF RingOnly
<1>2. use' = use /\ Ring!Values' = Ring!Values
  BY UseKept DEF RingOnly
<1>3. \A p \in Producers : (Filling(p) => p # t) /\ (Filling(p)' => p # t)
  BY DEF Filling
<1>4. \A c \in Consumers : (Emptying(c) => c # t) /\ (Emptying(c)' => c # t)
  BY DEF Emptying
<1>5. \A u \in Ring!Threads : u # t => pc'[u] = pc[u] /\ pos'[u] = pos[u] /\ seen'[u] = seen[u]
  BY DEF RingOnly
<1>6. \A p \in Producers : Filling(p)' = Filling(p) /\ (Filling(p) => pos'[p] = pos[p])
  BY <1>3, <1>5, Numbers DEF Filling
<1>7. \A c \in Consumers : Emptying(c)' = Emptying(c) /\ (Emptying(c) => pos'[c] = pos[c])
  BY <1>4, <1>5, Numbers DEF Emptying
<1>8. Edges'
  BY <1>2 DEF RingInv, Edges
<1>9. Claimed'
  BY <1>2, <1>6 DEF RingInv, Claimed
<1>10. Apart'
  BY <1>6, <1>7 DEF RingInv, Apart
<1>11. ASSUME NEW n \in Nat, tail_ <= n, n < tail_ + use.capacity PROVE Kept(n)'
  <2>1. Kept(n)
    BY <1>11 DEF RingInv, Window
  <2> QED BY <1>2, <1>6, <1>7, <2>1, Numbers, KeptStays
<1>12. Window'
  BY <1>2, <1>11 DEF Window
<1>13. ASSUME NEW p \in Producers PROVE FillsOf(p)' /\ ReadyToFill(p)'
  <2>1. CASE p = t
    BY <1>13, <1>3, <2>1 DEF FillsOf
  <2>2. CASE p # t
    <3>1. FillsOf(p)'
      <4>1. FillsOf(p)
        BY DEF RingInv
      <4> QED BY <2>2, <4>1, OthersFill DEF FillsOf
    <3>2. ReadyToFill(p)'
      <4>1. ReadyToFill(p)
        BY DEF RingInv
      <4> QED BY <1>1, <1>5, <2>2, <4>1, Numbers DEF ReadyToFill
    <3> QED BY <3>1, <3>2
  <2> QED BY <2>1, <2>2
<1>14. ASSUME NEW c \in Consumers PROVE EmptiesOf(c)' /\ ReadyToEmpty(c)'
  <2>1. CASE c = t
    BY <1>14, <1>4, <2>1 DEF EmptiesOf
  <2>2. CASE c # t
    <3>1. EmptiesOf(c)'
      <4>1. EmptiesOf(c)
        BY DEF RingInv
      <4> QED BY <2>2, <4>1, OthersEmpty DEF EmptiesOf
    <3>2. ReadyToEmpty(c)'
      <4>1. ReadyToEmpty(c)
        BY DEF RingInv
      <4> QED BY <1>1, <1>5, <2>2, <4>1, Numbers DEF ReadyToEmpty
    <3> QED BY <3>1, <3>2
  <2> QED BY <2>1, <2>2
<1> QED BY <1>8, <1>9, <1>10, <1>12, <1>13, <1>14 DEF RingInv
-----------------------------------------------------------------------------
(* The steps that only look, and those that lose.                          *)

Places == {"head", "stamp", "cas", "construct", "publish",
           "tail", "empty", "false", "move", "destroy", "release"}

\* A thread that only moves on.
LEMMA MovesOn ==
    ASSUME UsesFit, RingInv, NEW t \in Ring!Threads, NEW x \in Places,
           pc' = [pc EXCEPT ![t] = x],
           {pc[t], x} \cap {"construct", "publish", "move", "destroy", "release"} = {},
           \/ UNCHANGED pos
           \/ t \in Producers /\ pos' = [pos EXCEPT ![t] = head_]
           \/ t \in Consumers /\ pos' = [pos EXCEPT ![t] = tail_],
           UNCHANGED seen \/ seen' = [seen EXCEPT ![t] = stamp[Ring!Slot(pos[t])]],
           UNCHANGED out \/ (t \in Consumers /\ out' = [out EXCEPT ![t] = empty]),
           UNCHANGED <<use, stamp, data, head_, tail_, item, sent, claims, got>>,
           t \in Producers => x \in {"head", "stamp", "cas"} /\ (x # "head" => sent[t] < use.items[t]),
           t \in Consumers => x \in {"tail", "stamp", "cas", "empty", "false"}
                              /\ (x # "tail" => t \in use.consumers),
           t \in Producers => ReadyToFill(t)', t \in Consumers => ReadyToEmpty(t)'
    PROVE  RingInv'
<1>1. Ring!TypeOK
  BY DEF RingInv
<1>2. RingOnly(t)
  BY <1>1 DEF Ring!TypeOK, RingOnly
<1>3. Ring!Values' = Ring!Values /\ Ring!Slots' = Ring!Slots
  BY UseKept DEF RingOnly
<1>4. pos[t] \in Nat /\ stamp[Ring!Slot(pos[t])] \in Nat /\ head_ \in Nat /\ tail_ \in Nat
  BY Numbers
<1>5. pos' \in [Ring!Threads -> Nat] /\ seen' \in [Ring!Threads -> Nat] /\ pc' \in [Ring!Threads -> Places]
  BY <1>1, <1>4 DEF Ring!TypeOK, Places
<1>6. out' \in [Consumers -> Ring!Values \cup {none, empty}]
  BY <1>1 DEF Ring!TypeOK
<1>7. Ring!TypeOK'
  BY <1>1, <1>3, <1>5, <1>6 DEF Ring!TypeOK, Places
<1>8. pc'[t] = x
  BY <1>1 DEF Ring!TypeOK
<1>9. Roles'
  <2>1. ASSUME NEW p \in Producers
        PROVE  /\ pc'[p] \in {"head", "stamp", "cas", "construct", "publish"}
               /\ pc'[p] # "head" => sent'[p] < use'.items[p]
               /\ pos'[p] <= head_'
    <3>1. CASE p = t
      BY <1>1, <1>4, <1>8, <2>1, <3>1, Numbers DEF RingInv, Roles, Ring!TypeOK
    <3>2. CASE p # t
      BY <1>2, <3>2, Numbers DEF RingInv, Roles, RingOnly
    <3> QED BY <3>1, <3>2
  <2>2. ASSUME NEW c \in Consumers
        PROVE  /\ pc'[c] \in {"tail", "stamp", "cas", "empty", "false", "move", "destroy", "release"}
               /\ pc'[c] # "tail" => c \in use'.consumers
               /\ pos'[c] <= tail_'
    <3>1. CASE c = t
      BY <1>1, <1>4, <1>8, <2>2, <3>1, Numbers DEF RingInv, Roles, Ring!TypeOK
    <3>2. CASE c # t
      BY <1>2, <3>2, Numbers DEF RingInv, Roles, RingOnly
    <3> QED BY <3>1, <3>2
  <2> QED BY <2>1, <2>2 DEF Roles
<1> QED BY <1>2, <1>7, <1>8, <1>9, QuietKeeps

LEMMA RingLoadHeadKeeps ==
    ASSUME UsesFit, RingInv, NEW p \in Producers, Ring!LoadHead(p)
    PROVE  RingInv'
<1>1. /\ pc' = [pc EXCEPT ![p] = "stamp"] /\ pos' = [pos EXCEPT ![p] = head_]
      /\ pc[p] = "head" /\ sent[p] < use.items[p]
      /\ UNCHANGED <<use, stamp, data, head_, tail_, seen, item, out, sent, claims, got>>
  BY DEF Ring!LoadHead, Ring!Goto
<1>2. ReadyToFill(p)'
  <2>1. pc'[p] = "stamp"
    BY <1>1, Numbers DEF RingInv, Ring!TypeOK
  <2> QED BY <2>1 DEF ReadyToFill
<1> QED BY <1>1, <1>2, Numbers, MovesOn DEF Places

LEMMA LoadStampKeeps ==
    ASSUME UsesFit, RingInv, NEW p \in Producers, Ring!LoadStamp(p)
    PROVE  RingInv'
<1>1. PICK s : s = stamp[Ring!Slot(pos[p])]
  OBVIOUS
<1>2. /\ seen' = [seen EXCEPT ![p] = s] /\ seen'[p] = s
      /\ pc[p] = "stamp"
      /\ pc' = [pc EXCEPT ![p] = IF Ring!SameParity(pos[p], s) THEN "cas" ELSE "head"]
      /\ UNCHANGED <<use, stamp, data, head_, tail_, pos, item, out, sent, claims, got>>
  <2>1. p \in DOMAIN seen
    BY Numbers DEF RingInv, Ring!TypeOK
  <2> QED BY <1>1, <2>1 DEF Ring!LoadStamp, Ring!Goto
<1>3. sent[p] < use.items[p] /\ p \in Ring!Threads /\ p \notin Consumers
  BY <1>2, Numbers DEF RingInv, Roles
<1>4. ReadyToFill(p)'
  <2>1. \A n : Ring!Slot(n)' = Ring!Slot(n)
    BY <1>2, UseKept
  <2>2. CASE Ring!SameParity(pos[p], s) /\ pos[p] = head_
    <3>1. s = head_
      BY <1>1, <1>2, <2>2, LooksFree
    <3> QED BY <1>1, <1>2, <2>1, <2>2, <3>1 DEF ReadyToFill
  <2>3. CASE ~ Ring!SameParity(pos[p], s)
    <3>1. pc'[p] = "head"
      BY <1>2, <1>3, <2>3 DEF RingInv, Ring!TypeOK
    <3> QED BY <3>1 DEF ReadyToFill
  <2>4. CASE pos[p] # head_
    BY <1>2, <2>4 DEF ReadyToFill
  <2> QED BY <2>2, <2>3, <2>4
<1>5. PICK x \in {"cas", "head"} : pc' = [pc EXCEPT ![p] = x]
  BY <1>2
<1> QED BY <1>1, <1>2, <1>3, <1>4, <1>5, MovesOn DEF Places

LEMMA RingLoadTailKeeps ==
    ASSUME UsesFit, RingInv, NEW c \in Consumers, Ring!LoadTail(c)
    PROVE  RingInv'
<1>1. /\ pc' = [pc EXCEPT ![c] = "stamp"] /\ pos' = [pos EXCEPT ![c] = tail_]
      /\ pc[c] = "tail" /\ c \in use.consumers
      /\ UNCHANGED <<use, stamp, data, head_, tail_, seen, item, out, sent, claims, got>>
  BY DEF Ring!LoadTail, Ring!Goto
<1>2. ReadyToEmpty(c)'
  <2>1. pc'[c] = "stamp"
    BY <1>1, Numbers DEF RingInv, Ring!TypeOK
  <2> QED BY <2>1 DEF ReadyToEmpty
<1> QED BY <1>1, <1>2, Numbers, MovesOn DEF Places

LEMMA LoadStampOfDataKeeps ==
    ASSUME UsesFit, RingInv, NEW c \in Consumers, Ring!LoadStampOfData(c)
    PROVE  RingInv'
<1>1. PICK s : s = stamp[Ring!Slot(pos[c])]
  OBVIOUS
<1>2. /\ seen' = [seen EXCEPT ![c] = s] /\ seen'[c] = s
      /\ pc[c] = "stamp"
      /\ pc' = [pc EXCEPT ![c] = IF Ring!SameParity(pos[c], s) THEN "empty" ELSE "cas"]
      /\ UNCHANGED <<use, stamp, data, head_, tail_, pos, item, out, sent, claims, got>>
  <2>1. c \in DOMAIN seen
    BY Numbers DEF RingInv, Ring!TypeOK
  <2> QED BY <1>1, <2>1 DEF Ring!LoadStampOfData, Ring!Goto
<1>3. c \in use.consumers /\ c \in Ring!Threads /\ c \notin Producers
  BY <1>2, Numbers DEF RingInv, Roles
<1>4. ReadyToEmpty(c)'
  <2>1. \A n : Ring!Slot(n)' = Ring!Slot(n)
    BY <1>2, UseKept
  <2>2. CASE ~ Ring!SameParity(pos[c], s) /\ pos[c] = tail_
    <3>1. tail_ < head_ /\ s = tail_ + 1
      BY <1>1, <1>2, <2>2, LooksFull
    <3> QED BY <1>1, <1>2, <2>1, <2>2, <3>1 DEF ReadyToEmpty
  <2>3. CASE Ring!SameParity(pos[c], s)
    <3>1. pc'[c] = "empty"
      BY <1>2, <1>3, <2>3 DEF RingInv, Ring!TypeOK
    <3> QED BY <3>1 DEF ReadyToEmpty
  <2>4. CASE pos[c] # tail_
    BY <1>2, <2>4 DEF ReadyToEmpty
  <2> QED BY <2>2, <2>3, <2>4
<1>5. PICK x \in {"empty", "cas"} : pc' = [pc EXCEPT ![c] = x]
  BY <1>2
<1> QED BY <1>1, <1>2, <1>3, <1>4, <1>5, MovesOn DEF Places

LEMMA TestEmptyKeeps ==
    ASSUME UsesFit, RingInv, NEW c \in Consumers, Ring!TestEmpty(c)
    PROVE  RingInv'
<1>1. PICK x \in {"false", "tail"} : pc' = [pc EXCEPT ![c] = x]
  BY DEF Ring!TestEmpty, Ring!Goto
<1>2. /\ pc[c] = "empty"
      /\ UNCHANGED <<use, stamp, data, head_, tail_, pos, seen, item, out, sent, claims, got>>
  BY DEF Ring!TestEmpty
<1>3. c \in use.consumers /\ c \in Ring!Threads /\ c \notin Producers
  BY <1>2, Numbers DEF RingInv, Roles
<1>4. ReadyToEmpty(c)'
  <2>1. pc'[c] # "cas"
    BY <1>1, <1>3 DEF RingInv, Ring!TypeOK
  <2> QED BY <2>1 DEF ReadyToEmpty
<1> QED BY <1>1, <1>2, <1>3, <1>4, MovesOn DEF Places

LEMMA RingReturnFalseKeeps ==
    ASSUME UsesFit, RingInv, NEW c \in Consumers, Ring!ReturnFalse(c)
    PROVE  RingInv'
<1>1. /\ pc' = [pc EXCEPT ![c] = "tail"] /\ pc[c] = "false" /\ out' = [out EXCEPT ![c] = empty]
      /\ UNCHANGED <<use, stamp, data, head_, tail_, pos, seen, item, sent, claims, got>>
  BY DEF Ring!ReturnFalse, Ring!Goto
<1>2. ReadyToEmpty(c)'
  <2>1. pc'[c] = "tail"
    BY <1>1, Numbers DEF RingInv, Ring!TypeOK
  <2> QED BY <2>1 DEF ReadyToEmpty
<1> QED BY <1>1, <1>2, Numbers, MovesOn DEF Places

\* Somebody else has taken the position.
LEMMA LosesHead ==
    ASSUME UsesFit, RingInv, NEW p \in Producers, Ring!ClaimHead(p), head_ # pos[p]
    PROVE  RingInv'
<1>1. /\ pc' = [pc EXCEPT ![p] = "head"] /\ pc[p] = "cas"
      /\ UNCHANGED <<use, stamp, data, head_, tail_, pos, seen, item, out, sent, claims, got>>
  BY DEF Ring!ClaimHead, Ring!Goto
<1>2. ReadyToFill(p)'
  <2>1. pc'[p] = "head"
    BY <1>1, Numbers DEF RingInv, Ring!TypeOK
  <2> QED BY <2>1 DEF ReadyToFill
<1> QED BY <1>1, <1>2, Numbers, MovesOn DEF Places

LEMMA LosesTail ==
    ASSUME UsesFit, RingInv, NEW c \in Consumers, Ring!ClaimTail(c), tail_ # pos[c]
    PROVE  RingInv'
<1>1. /\ pc' = [pc EXCEPT ![c] = "tail"] /\ pc[c] = "cas"
      /\ UNCHANGED <<use, stamp, data, head_, tail_, pos, seen, item, out, sent, claims, got>>
  BY DEF Ring!ClaimTail, Ring!Goto
<1>2. ReadyToEmpty(c)'
  <2>1. pc'[c] = "tail"
    BY <1>1, Numbers DEF RingInv, Ring!TypeOK
  <2> QED BY <2>1 DEF ReadyToEmpty
<1> QED BY <1>1, <1>2, Numbers, MovesOn DEF Places
-----------------------------------------------------------------------------
(* A producer takes a slot, fills it and gives it to the consumers.        *)

\* Who wins at head_ finds its slot empty and unused.
LEMMA HeadFree ==
    ASSUME UsesFit, RingInv, NEW p \in Producers, pc[p] = "cas", pos[p] = head_
    PROVE  /\ seen[p] = head_ /\ head_ < tail_ + use.capacity
           /\ stamp[Ring!Slot(head_)] = head_ /\ data[Ring!Slot(head_)] = raw
           /\ \A c \in Consumers : Emptying(c) => head_ + 1 <= pos[c] + use.capacity
<1>1. seen[p] = head_ /\ stamp[Ring!Slot(head_)] = head_
  BY DEF RingInv, ReadyToFill
<1>2. head_ < tail_ + use.capacity
  <2> SUFFICES ASSUME head_ = tail_ + use.capacity PROVE FALSE
    BY Numbers
  <2>1. Ring!Slot(head_) = Ring!Slot(tail_)
    BY Numbers, SlotRound
  <2>2. Kept(tail_)
    BY Numbers DEF RingInv, Window
  <2>3. stamp[Ring!Slot(tail_)] \in {tail_, tail_ - use.capacity + 1, tail_ + 1}
    BY <2>2 DEF Kept
  <2> QED BY <1>1, <2>1, <2>3, Numbers
<1>3. data[Ring!Slot(head_)] = raw
  <2>1. Kept(head_)
    BY <1>2, Numbers DEF RingInv, Window
  <2> QED BY <1>1, <2>1, Numbers DEF Kept
<1>4. ASSUME NEW c \in Consumers, Emptying(c) PROVE head_ + 1 <= pos[c] + use.capacity
  <2>1. EmptiesOf(c)
    BY DEF RingInv
  <2>2. PICK b \in Nat : b = pos[c]
    BY Numbers
  <2>3. head_ <= b + use.capacity /\ stamp[Ring!Slot(b)] = b + 1
    BY <1>4, <2>1, <2>2 DEF EmptiesOf
  <2>4. head_ # b + use.capacity
    <3> SUFFICES ASSUME head_ = b + use.capacity PROVE FALSE
      OBVIOUS
    <3>1. Ring!Slot(head_) = Ring!Slot(b)
      BY Numbers, SlotRound
    <3> QED BY <1>1, <2>3, <3>1, Numbers
  <2> QED BY <2>2, <2>3, <2>4, Numbers
<1> QED BY <1>1, <1>2, <1>3, <1>4

LEMMA WinsHead ==
    ASSUME UsesFit, RingInv, NEW p \in Producers, Ring!ClaimHead(p), head_ = pos[p]
    PROVE  /\ pc[p] = "cas" /\ pc' = [pc EXCEPT ![p] = "construct"] /\ pc'[p] = "construct"
           /\ head_' = head_ + 1 /\ claims' = claims \cup {<<head_, Ring!Value(p)>>}
           /\ UNCHANGED <<use, stamp, data, tail_, pos, seen, item, out, sent, got>>
           /\ RingOnly(p)
<1>1. pc[p] = "cas"
  BY DEF Ring!ClaimHead
<1>2. seen[p] = pos[p]
  BY <1>1, HeadFree
<1>3. p \in DOMAIN pc /\ DOMAIN pc = Ring!Threads
  BY Numbers DEF RingInv, Ring!TypeOK
<1>4. /\ pc' = [pc EXCEPT ![p] = "construct"] /\ head_' = head_ + 1
      /\ claims' = claims \cup {<<head_, Ring!Value(p)>>}
      /\ UNCHANGED <<use, stamp, data, tail_, pos, seen, item, out, sent, got>>
  BY <1>2 DEF Ring!ClaimHead, Ring!Goto
<1> QED BY <1>1, <1>3, <1>4 DEF RingOnly

LEMMA WinsHeadKeeps ==
    ASSUME UsesFit, RingInv, NEW p \in Producers, Ring!ClaimHead(p), head_ = pos[p]
    PROVE  RingInv'
<1>1. PICK h, v : h \in Nat /\ h = head_ /\ v = Ring!Value(p)
  BY Numbers
<1>2. /\ pc[p] = "cas" /\ pc' = [pc EXCEPT ![p] = "construct"] /\ pc'[p] = "construct"
      /\ head_' = h + 1 /\ claims' = claims \cup {<<h, v>>}
      /\ UNCHANGED <<use, stamp, data, tail_, pos, seen, item, out, sent, got>>
      /\ RingOnly(p)
  BY <1>1, WinsHead
<1>3. /\ h < tail_ + use.capacity /\ stamp[Ring!Slot(h)] = h /\ data[Ring!Slot(h)] = raw
      /\ \A c \in Consumers : Emptying(c) => h + 1 <= pos[c] + use.capacity
  BY <1>1, <1>2, HeadFree
<1>4. ~ Filling(p) /\ sent[p] < use.items[p]
  BY <1>2 DEF Filling, RingInv, Roles
<1>5. v \in Ring!Values /\ \A n \in Nat : <<n, v>> \notin claims
  BY <1>1, <1>4, ValueLeft DEF RingInv
<1>6. Ring!Values' = Ring!Values /\ Ring!Slots' = Ring!Slots /\ \A n : Ring!Slot(n)' = Ring!Slot(n)
  BY <1>2, UseKept
<1>7. Ring!TypeOK'
  BY <1>1, <1>2, <1>5, <1>6 DEF RingInv, Ring!TypeOK
<1>8. Roles'
  <2>1. \A u \in Ring!Threads : u # p => pc'[u] = pc[u]
    BY <1>2 DEF RingOnly
  <2> QED BY <1>1, <1>2, <1>4, <2>1, Numbers DEF RingInv, Roles
<1>9. Edges'
  BY <1>1, <1>2, <1>3, Numbers DEF Edges
<1>10. \A q \in Producers : q # p => Filling(q)' = Filling(q) /\ pos'[q] = pos[q]
  BY <1>2, Numbers DEF Filling, RingOnly
<1>11. \A c \in Consumers : Emptying(c)' = Emptying(c) /\ pos'[c] = pos[c] /\ c # p
  BY <1>2, Numbers DEF Emptying, RingOnly
<1>12. Filling(p)' /\ pos'[p] = h /\ Ring!Value(p)' = v
  BY <1>1, <1>2 DEF Filling, Ring!Value
<1>13. Claimed'
  <2>1. ASSUME NEW n \in Nat, n < head_' PROVE \E w \in Ring!Values : <<n, w>> \in claims'
    <3>1. CASE n = h
      BY <1>2, <1>5, <3>1
    <3>2. CASE n # h
      <4>1. n < head_
        BY <1>1, <1>2, <2>1, <3>2
      <4>2. PICK w \in Ring!Values : <<n, w>> \in claims
        BY <4>1 DEF RingInv, Claimed
      <4> QED BY <1>2, <4>2
    <3> QED BY <3>1, <3>2
  <2>2. ASSUME NEW n \in Nat, NEW w \in Ring!Values, <<n, w>> \in claims' PROVE n < head_'
    <3>1. CASE <<n, w>> \in claims
      BY <1>1, <1>2, <3>1, Numbers DEF RingInv, Claimed
    <3>2. CASE <<n, w>> = <<h, v>>
      BY <1>2, <3>2
    <3> QED BY <1>2, <2>2, <3>1, <3>2
  <2>3. ASSUME NEW n \in Nat, NEW m \in Nat, NEW w \in Ring!Values, NEW x \in Ring!Values,
               <<n, w>> \in claims', <<m, x>> \in claims'
        PROVE  n = m <=> w = x
    <3>1. \A k \in Nat, y \in Ring!Values : <<k, y>> \in claims => k # h /\ y # v
      BY <1>1, <1>5, Numbers DEF RingInv, Claimed
    <3>2. <<n, w>> \in claims \/ (n = h /\ w = v)
      BY <1>2, <2>3
    <3>3. <<m, x>> \in claims \/ (m = h /\ x = v)
      BY <1>2, <2>3
    <3>4. CASE <<n, w>> \in claims /\ <<m, x>> \in claims
      BY <3>4 DEF RingInv, Claimed
    <3> QED BY <3>1, <3>2, <3>3, <3>4
  <2>4. ASSUME NEW n \in Nat, NEW q \in Producers, NEW k \in Nat, <<n, <<q, k>>>> \in claims'
        PROVE  k <= sent'[q] \/ (k = sent'[q] + 1 /\ Filling(q)' /\ pos'[q] = n)
    <3>1. CASE <<n, <<q, k>>>> \in claims
      BY <1>2, <1>4, <1>10, <3>1 DEF RingInv, Claimed
    <3>2. CASE n = h /\ <<q, k>> = v
      <4>1. q = p /\ k = sent[p] + 1
        BY <1>1, <3>2 DEF Ring!Value
      <4> QED BY <1>2, <1>12, <3>2, <4>1
    <3> QED BY <1>2, <2>4, <3>1, <3>2
  <2> QED BY <1>6, <2>1, <2>2, <2>3, <2>4 DEF Claimed
<1>14. Apart'
  <2>1. ASSUME NEW q \in Producers, q # p, Filling(q) PROVE pos[q] # h
    <3>1. FillsOf(q)
      BY DEF RingInv
    <3> QED BY <1>1, <2>1, <3>1, Numbers DEF FillsOf
  <2> QED BY <1>10, <1>11, <1>12, <2>1 DEF RingInv, Apart
<1>15. ASSUME NEW n \in Nat, tail_' <= n, n < tail_' + use'.capacity PROVE Kept(n)'
  <2>1. Kept(n)
    BY <1>2, <1>15 DEF RingInv, Window
  <2>2. CASE n = h
    <3>1. \E q \in Producers : Filling(q)' /\ pos'[q] = n
      BY <1>12, <2>2
    <3> QED BY <1>2, <1>3, <1>6, <2>2, <3>1 DEF Kept
  <2>3. CASE n # h
    <3>1. head_ <= n <=> head_' <= n
      BY <1>1, <1>2, <2>3
    <3>2. \A q \in Producers : Filling(q) /\ pos[q] = n => Filling(q)' /\ pos'[q] = n
      BY <1>4, <1>10
    <3> QED BY <1>1, <1>2, <1>11, <2>1, <3>1, <3>2, KeptStays
  <2> QED BY <2>2, <2>3
<1>16. Window'
  BY <1>15 DEF Window
<1>17. ASSUME NEW q \in Producers PROVE FillsOf(q)' /\ ReadyToFill(q)'
  <2>1. CASE q = p
    <3>1. FillsOf(p)'
      BY <1>1, <1>2, <1>3, <1>6, <1>12, Numbers DEF FillsOf
    <3>2. ReadyToFill(p)'
      BY <1>2 DEF ReadyToFill
    <3> QED BY <2>1, <3>1, <3>2
  <2>2. CASE q # p
    <3>1. FillsOf(q)'
      <4>1. FillsOf(q)
        BY DEF RingInv
      <4>2. Filling(q) => tail_' <= pos[q] /\ pos[q] < head_'
        BY <1>1, <1>2, <4>1, Numbers DEF FillsOf
      <4> QED BY <1>2, <2>2, <4>2, OthersFill
    <3>2. ReadyToFill(q)'
      <4>1. pos'[q] # head_'
        BY <1>1, <1>2, Numbers DEF RingInv, Roles
      <4> QED BY <4>1 DEF ReadyToFill
    <3> QED BY <3>1, <3>2
  <2> QED BY <2>1, <2>2
<1>18. ASSUME NEW c \in Consumers PROVE EmptiesOf(c)' /\ ReadyToEmpty(c)'
  <2>1. EmptiesOf(c)'
    <3>1. EmptiesOf(c)
      BY DEF RingInv
    <3>2. Emptying(c) => pos[c] < tail_' /\ head_' <= pos[c] + use.capacity
      BY <1>2, <1>3, <3>1 DEF EmptiesOf
    <3> QED BY <1>2, <1>11, <3>2, OthersEmpty
  <2>2. ReadyToEmpty(c)'
    <3>1. ReadyToEmpty(c) /\ pc'[c] = pc[c]
      BY <1>2, <1>11, Numbers DEF RingInv, RingOnly
    <3> QED BY <1>1, <1>2, <1>6, <3>1, Numbers DEF ReadyToEmpty
  <2> QED BY <2>1, <2>2
<1> QED BY <1>7, <1>8, <1>9, <1>13, <1>14, <1>16, <1>17, <1>18 DEF RingInv

LEMMA ConstructKeepsRing ==
    ASSUME UsesFit, RingInv, NEW p \in Producers, Ring!Construct(p)
    PROVE  RingInv'
<1>1. PICK n0, v : n0 \in Nat /\ n0 = pos[p] /\ v = Ring!Value(p)
  BY Numbers
<1>2. /\ pc[p] = "construct" /\ pc' = [pc EXCEPT ![p] = "publish"]
      /\ data' = [data EXCEPT ![Ring!Slot(n0)] = v]
      /\ UNCHANGED <<use, stamp, head_, tail_, pos, seen, item, out, sent, claims, got>>
  BY <1>1 DEF Ring!Construct, Ring!Goto
<1>3. pc'[p] = "publish" /\ RingOnly(p) /\ data'[Ring!Slot(n0)] = v
  <2>1. DOMAIN pc = Ring!Threads /\ DOMAIN data = Ring!Slots
    BY DEF RingInv, Ring!TypeOK
  <2> QED BY <1>1, <1>2, <2>1, Numbers DEF RingOnly
<1>4. Filling(p) /\ Filling(p)' /\ sent[p] < use.items[p]
  BY <1>2, <1>3 DEF Filling, RingInv, Roles
<1>5. /\ tail_ <= n0 /\ n0 < head_ /\ stamp[Ring!Slot(n0)] = n0 /\ <<n0, v>> \in claims
  <2>1. FillsOf(p)
    BY DEF RingInv
  <2> QED BY <1>1, <1>4, <2>1 DEF FillsOf
<1>6. Ring!Values' = Ring!Values /\ Ring!Slots' = Ring!Slots /\ \A n : Ring!Slot(n)' = Ring!Slot(n)
  BY <1>2, UseKept
<1>7. v \in Ring!Values
  <2>1. claims \subseteq Nat \X Ring!Values
    BY DEF RingInv, Ring!TypeOK
  <2> QED BY <1>5, <2>1
<1>8. Ring!TypeOK'
  BY <1>2, <1>6, <1>7 DEF RingInv, Ring!TypeOK
<1>9. Roles'
  <2>1. \A u \in Ring!Threads : u # p => pc'[u] = pc[u]
    BY <1>3 DEF RingOnly
  <2> QED BY <1>2, <1>3, <1>4, <2>1, Numbers DEF RingInv, Roles
<1>10. Edges'
  BY <1>2 DEF RingInv, Edges
<1>11. \A q \in Producers : Filling(q)' = Filling(q) /\ pos'[q] = pos[q]
  <2>1. \A q \in Producers : q # p => pc'[q] = pc[q]
    BY <1>3, Numbers DEF RingOnly
  <2> QED BY <1>2, <1>4, <2>1 DEF Filling
<1>12. \A c \in Consumers : Emptying(c)' = Emptying(c) /\ pos'[c] = pos[c] /\ c # p
  BY <1>2, <1>3, Numbers DEF Emptying, RingOnly
<1>13. Claimed'
  BY <1>2, <1>6, <1>11 DEF RingInv, Claimed
<1>14. Apart'
  BY <1>11, <1>12 DEF RingInv, Apart
<1>15. \A n \in Nat : Ring!Slot(n) # Ring!Slot(n0) => data'[Ring!Slot(n)] = data[Ring!Slot(n)]
  BY <1>2, Numbers DEF RingInv, Ring!TypeOK
<1>16. ASSUME NEW n \in Nat, tail_' <= n, n < tail_' + use'.capacity PROVE Kept(n)'
  <2>1. Kept(n)
    BY <1>2, <1>16 DEF RingInv, Window
  <2>2. CASE n = n0
    <3>1. \E q \in Producers : Filling(q)' /\ pos'[q] = n
      BY <1>1, <1>2, <1>4, <2>2
    <3> QED BY <1>2, <1>5, <1>6, <2>2, <3>1 DEF Kept
  <2>3. CASE n # n0
    <3>1. Ring!Slot(n) # Ring!Slot(n0)
      BY <1>2, <1>5, <1>16, <2>3, Numbers, SlotsApart
    <3> QED BY <1>2, <1>11, <1>12, <1>15, <2>1, <3>1, Numbers, KeptStays
  <2> QED BY <2>2, <2>3
<1>17. Window'
  BY <1>16 DEF Window
<1>18. ASSUME NEW q \in Producers PROVE FillsOf(q)' /\ ReadyToFill(q)'
  <2>1. CASE q = p
    <3>1. FillsOf(p)'
      <4>1. Ring!Value(p)' = v /\ pos'[p] = n0
        BY <1>1, <1>2 DEF Ring!Value
      <4> QED BY <1>2, <1>3, <1>5, <1>6, <4>1 DEF FillsOf
    <3>2. ReadyToFill(p)'
      BY <1>3 DEF ReadyToFill
    <3> QED BY <2>1, <3>1, <3>2
  <2>2. CASE q # p
    <3>1. FillsOf(q)'
      <4>1. FillsOf(q)
        BY DEF RingInv
      <4>2. Filling(q) => data'[Ring!Slot(pos[q])] = data[Ring!Slot(pos[q])]
        BY <1>1, <1>4, <1>15, <2>2, Numbers, HeldSlots
      <4> QED BY <1>2, <1>3, <2>2, <4>1, <4>2, OthersFill DEF FillsOf
    <3>2. ReadyToFill(q)'
      <4>1. ReadyToFill(q) /\ pc'[q] = pc[q]
        BY <1>3, <2>2, Numbers DEF RingInv, RingOnly
      <4> QED BY <1>2, <1>6, <4>1 DEF ReadyToFill
    <3> QED BY <3>1, <3>2
  <2> QED BY <2>1, <2>2
<1>19. ASSUME NEW c \in Consumers PROVE EmptiesOf(c)' /\ ReadyToEmpty(c)'
  <2>1. EmptiesOf(c)'
    <3>1. EmptiesOf(c)
      BY DEF RingInv
    <3>2. Emptying(c) => data'[Ring!Slot(pos[c])] = data[Ring!Slot(pos[c])]
      BY <1>1, <1>4, <1>15, Numbers, HeldSlots
    <3> QED BY <1>2, <1>3, <1>12, <3>1, <3>2, OthersEmpty DEF EmptiesOf
  <2>2. ReadyToEmpty(c)'
    <3>1. ReadyToEmpty(c) /\ pc'[c] = pc[c]
      BY <1>3, <1>12, Numbers DEF RingInv, RingOnly
    <3> QED BY <1>2, <1>6, <3>1 DEF ReadyToEmpty
  <2> QED BY <2>1, <2>2
<1> QED BY <1>8, <1>9, <1>10, <1>13, <1>14, <1>17, <1>18, <1>19 DEF RingInv
LEMMA PublishKeeps ==
    ASSUME UsesFit, RingInv, NEW p \in Producers, Ring!Publish(p)
    PROVE  RingInv'
<1>1. PICK n0, v : n0 \in Nat /\ n0 = pos[p] /\ v = Ring!Value(p)
  BY Numbers
<1>2. /\ pc[p] = "publish" /\ pc' = [pc EXCEPT ![p] = "head"]
      /\ stamp' = [stamp EXCEPT ![Ring!Slot(n0)] = n0 + 1]
      /\ sent' = [sent EXCEPT ![p] = sent[p] + 1]
      /\ UNCHANGED <<use, data, head_, tail_, pos, seen, item, out, claims, got>>
  BY <1>1 DEF Ring!Publish, Ring!Goto
<1>3. pc'[p] = "head" /\ RingOnly(p) /\ stamp'[Ring!Slot(n0)] = n0 + 1 /\ sent'[p] = sent[p] + 1
  <2>1. DOMAIN pc = Ring!Threads /\ DOMAIN stamp = Ring!Slots /\ DOMAIN sent = Producers
    BY DEF RingInv, Ring!TypeOK
  <2> QED BY <1>1, <1>2, <2>1, Numbers DEF RingOnly
<1>4. Filling(p) /\ ~ Filling(p)' /\ sent[p] < use.items[p]
  BY <1>2, <1>3 DEF Filling, RingInv, Roles
<1>5. /\ tail_ <= n0 /\ n0 < head_ /\ stamp[Ring!Slot(n0)] = n0
      /\ <<n0, v>> \in claims /\ data[Ring!Slot(n0)] = v
  <2>1. FillsOf(p)
    BY DEF RingInv
  <2> QED BY <1>1, <1>2, <1>4, <2>1 DEF FillsOf
<1>6. Ring!Values' = Ring!Values /\ Ring!Slots' = Ring!Slots /\ \A n : Ring!Slot(n)' = Ring!Slot(n)
  BY <1>2, UseKept
<1>7. use.items[p] \in Nat
  BY Numbers, UseRight
<1>8. Ring!TypeOK'
  <2>1. stamp' \in [Ring!Slots -> Nat]
    <3>1. stamp \in [Ring!Slots -> Nat]
      BY DEF RingInv, Ring!TypeOK
    <3>2. PICK m \in Nat : m = n0 + 1
      BY <1>1
    <3>3. stamp' = [stamp EXCEPT ![Ring!Slot(n0)] = m]
      BY <1>2, <3>2
    <3> QED BY <3>1, <3>3
  <2>2. sent' \in [Producers -> Nat] /\ \A q \in Producers : sent'[q] <= use.items[q]
    BY <1>2, <1>4, <1>7, Numbers DEF RingInv, Ring!TypeOK
  <2> QED BY <1>2, <1>6, <2>1, <2>2 DEF RingInv, Ring!TypeOK
<1>9. Roles'
  <2>1. \A u \in Ring!Threads : u # p => pc'[u] = pc[u]
    BY <1>3 DEF RingOnly
  <2>2. \A q \in Producers : q # p => sent'[q] = sent[q]
    BY <1>3 DEF RingOnly
  <2> QED BY <1>2, <1>3, <2>1, <2>2, Numbers DEF RingInv, Roles
<1>10. Edges'
  BY <1>2 DEF RingInv, Edges
<1>11. \A q \in Producers : q # p => Filling(q)' = Filling(q) /\ pos'[q] = pos[q] /\ sent'[q] = sent[q]
  BY <1>2, <1>3, Numbers DEF Filling, RingOnly
<1>12. \A c \in Consumers : Emptying(c)' = Emptying(c) /\ pos'[c] = pos[c] /\ c # p
  BY <1>2, <1>3, Numbers DEF Emptying, RingOnly
<1>13. Claimed'
  <2>1. ASSUME NEW n \in Nat, NEW q \in Producers, NEW k \in Nat, <<n, <<q, k>>>> \in claims
        PROVE  k <= sent'[q] \/ (k = sent'[q] + 1 /\ Filling(q)' /\ pos'[q] = n)
    <3>1. k <= sent[q] \/ (k = sent[q] + 1 /\ Filling(q) /\ pos[q] = n)
      BY <2>1 DEF RingInv, Claimed
    <3>2. CASE q = p
      <4>1. k <= sent[p] + 1
        BY <3>1, <3>2, Numbers
      <4> QED BY <1>3, <3>2, <4>1
    <3>3. CASE q # p
      BY <1>11, <3>1, <3>3
    <3> QED BY <3>2, <3>3
  <2>2. /\ \A n \in Nat : n < head_ => \E w \in Ring!Values : <<n, w>> \in claims
        /\ \A n \in Nat, w \in Ring!Values : <<n, w>> \in claims => n < head_
        /\ \A n, m \in Nat, w, x \in Ring!Values :
             <<n, w>> \in claims /\ <<m, x>> \in claims => (n = m <=> w = x)
    BY DEF RingInv, Claimed
  <2>3. head_' = head_ /\ claims' = claims /\ Ring!Values' = Ring!Values
    BY <1>2, <1>6
  <2> QED BY <2>1, <2>2, <2>3 DEF Claimed
<1>14. Apart'
  BY <1>4, <1>11, <1>12 DEF RingInv, Apart
<1>15. \A n \in Nat : Ring!Slot(n) # Ring!Slot(n0) => stamp'[Ring!Slot(n)] = stamp[Ring!Slot(n)]
  BY <1>2, Numbers DEF RingInv, Ring!TypeOK
<1>16. ASSUME NEW n \in Nat, tail_' <= n, n < tail_' + use'.capacity PROVE Kept(n)'
  <2>1. Kept(n)
    BY <1>2, <1>16 DEF RingInv, Window
  <2>2. CASE n = n0
    BY <1>2, <1>3, <1>5, <1>6, <2>2 DEF Kept
  <2>3. CASE n # n0
    <3>1. Ring!Slot(n) # Ring!Slot(n0)
      BY <1>1, <1>2, <1>5, <1>16, <2>3, Numbers, SlotsApart
    <3>2. \A q \in Producers : Filling(q) /\ pos[q] = n => Filling(q)' /\ pos'[q] = n
      BY <1>1, <1>11, <2>3
    <3> QED BY <1>1, <1>2, <1>12, <1>15, <2>1, <3>1, <3>2, Numbers, KeptStays
  <2> QED BY <2>2, <2>3
<1>17. Window'
  BY <1>16 DEF Window
<1>18. ASSUME NEW q \in Producers PROVE FillsOf(q)' /\ ReadyToFill(q)'
  <2>1. CASE q = p
    <3>1. FillsOf(p)'
      BY <1>4 DEF FillsOf
    <3>2. ReadyToFill(p)'
      BY <1>3 DEF ReadyToFill
    <3> QED BY <2>1, <3>1, <3>2
  <2>2. CASE q # p
    <3>1. FillsOf(q)'
      <4>1. FillsOf(q)
        BY DEF RingInv
      <4>2. Filling(q) => stamp'[Ring!Slot(pos[q])] = stamp[Ring!Slot(pos[q])]
        BY <1>1, <1>4, <1>15, <2>2, Numbers, HeldSlots
      <4> QED BY <1>2, <1>3, <2>2, <4>1, <4>2, OthersFill DEF FillsOf
    <3>2. ReadyToFill(q)'
      <4>1. ReadyToFill(q) /\ pc'[q] = pc[q] /\ pos[q] \in Nat
        BY <1>3, <2>2, Numbers DEF RingInv, RingOnly
      <4>2. pc[q] = "cas" /\ pos[q] = head_ => Ring!Slot(pos[q]) # Ring!Slot(n0)
        BY <1>5, <4>1 DEF ReadyToFill
      <4> QED BY <1>2, <1>6, <1>15, <4>1, <4>2 DEF ReadyToFill
    <3> QED BY <3>1, <3>2
  <2> QED BY <2>1, <2>2
<1>19. ASSUME NEW c \in Consumers PROVE EmptiesOf(c)' /\ ReadyToEmpty(c)'
  <2>1. EmptiesOf(c)'
    <3>1. EmptiesOf(c)
      BY DEF RingInv
    <3>2. Emptying(c) => stamp'[Ring!Slot(pos[c])] = stamp[Ring!Slot(pos[c])]
      BY <1>1, <1>4, <1>15, Numbers, HeldSlots
    <3> QED BY <1>2, <1>3, <1>12, <3>1, <3>2, OthersEmpty DEF EmptiesOf
  <2>2. ReadyToEmpty(c)'
    <3>1. ReadyToEmpty(c) /\ pc'[c] = pc[c] /\ pos[c] \in Nat
      BY <1>3, <1>12, Numbers DEF RingInv, RingOnly
    <3>2. pc[c] = "cas" /\ pos[c] = tail_ => Ring!Slot(pos[c]) # Ring!Slot(n0)
      <4> SUFFICES ASSUME pc[c] = "cas", pos[c] = tail_, Ring!Slot(tail_) = Ring!Slot(n0) PROVE FALSE
        OBVIOUS
      <4>1. n0 = tail_ + 1
        BY <1>5, <3>1 DEF ReadyToEmpty
      <4>2. Ring!Slot(tail_) # Ring!Slot(n0)
        BY <1>1, <4>1, Numbers, SlotsDiffer
      <4> QED BY <4>2
    <3> QED BY <1>2, <1>6, <1>15, <3>1, <3>2 DEF ReadyToEmpty
  <2> QED BY <2>1, <2>2
<1> QED BY <1>8, <1>9, <1>10, <1>13, <1>14, <1>17, <1>18, <1>19 DEF RingInv
-----------------------------------------------------------------------------
(* A consumer takes a slot, empties it and gives it back.                  *)

\* Who wins at tail_ finds the value of that position in the slot.
LEMMA WinsTail ==
    ASSUME UsesFit, RingInv, NEW c \in Consumers, Ring!ClaimTail(c), tail_ = pos[c]
    PROVE  /\ pc[c] = "cas" /\ pc' = [pc EXCEPT ![c] = "move"] /\ pc'[c] = "move"
           /\ tail_' = tail_ + 1 /\ tail_ < head_
           /\ stamp[Ring!Slot(tail_)] = tail_ + 1 /\ <<tail_, data[Ring!Slot(tail_)]>> \in claims
           /\ UNCHANGED <<use, stamp, data, head_, pos, seen, item, out, sent, claims, got>>
           /\ RingOnly(c)
<1>1. /\ pc[c] = "cas" /\ pc' = [pc EXCEPT ![c] = "move"] /\ tail_' = tail_ + 1
      /\ UNCHANGED <<use, stamp, data, head_, pos, seen, item, out, sent, claims, got>>
  BY DEF Ring!ClaimTail, Ring!Goto
<1>2. tail_ < head_ /\ stamp[Ring!Slot(tail_)] = tail_ + 1
  BY <1>1 DEF RingInv, ReadyToEmpty
<1>3. <<tail_, data[Ring!Slot(tail_)]>> \in claims
  <2>1. Kept(tail_)
    BY Numbers DEF RingInv, Window
  <2> QED BY <1>2, <2>1, Numbers DEF Kept
<1>4. pc'[c] = "move" /\ RingOnly(c)
  <2>1. DOMAIN pc = Ring!Threads
    BY DEF RingInv, Ring!TypeOK
  <2> QED BY <1>1, <2>1, Numbers DEF RingOnly
<1> QED BY <1>1, <1>2, <1>3, <1>4

LEMMA WinsTailKeeps ==
    ASSUME UsesFit, RingInv, NEW c \in Consumers, Ring!ClaimTail(c), tail_ = pos[c]
    PROVE  RingInv'
<1>1. PICK t \in Nat : t = tail_
  BY Numbers
<1>2. /\ pc[c] = "cas" /\ pc' = [pc EXCEPT ![c] = "move"] /\ pc'[c] = "move"
      /\ tail_' = t + 1 /\ t < head_ /\ pos[c] = t
      /\ stamp[Ring!Slot(t)] = t + 1 /\ <<t, data[Ring!Slot(t)]>> \in claims
      /\ UNCHANGED <<use, stamp, data, head_, pos, seen, item, out, sent, claims, got>>
      /\ RingOnly(c)
  BY <1>1, WinsTail
<1>3. ~ Emptying(c) /\ Emptying(c)' /\ pos'[c] = t /\ c \in use.consumers
  BY <1>2 DEF Emptying, RingInv, Roles
<1>4. Ring!Values' = Ring!Values /\ Ring!Slots' = Ring!Slots /\ \A n : Ring!Slot(n)' = Ring!Slot(n)
  BY <1>2, UseKept
<1>5. Ring!TypeOK'
  BY <1>1, <1>2, <1>4 DEF RingInv, Ring!TypeOK
<1>6. Roles'
  <2>1. \A u \in Ring!Threads : u # c => pc'[u] = pc[u]
    BY <1>2 DEF RingOnly
  <2> QED BY <1>1, <1>2, <1>3, <2>1, Numbers DEF RingInv, Roles
<1>7. Edges'
  BY <1>1, <1>2, Numbers DEF Edges
<1>8. \A p \in Producers : Filling(p)' = Filling(p) /\ pos'[p] = pos[p] /\ p # c
  BY <1>2, Numbers DEF Filling, RingOnly
<1>9. \A d \in Consumers : d # c => Emptying(d)' = Emptying(d) /\ pos'[d] = pos[d]
  BY <1>2, Numbers DEF Emptying, RingOnly
<1>10. Claimed'
  BY <1>2, <1>4, <1>8 DEF RingInv, Claimed
<1>11. Apart'
  <2>1. ASSUME NEW d \in Consumers, Emptying(d) PROVE pos[d] # t
    <3>1. EmptiesOf(d)
      BY DEF RingInv
    <3> QED BY <1>1, <2>1, <3>1, Numbers DEF EmptiesOf
  <2> QED BY <1>3, <1>8, <1>9, <2>1 DEF RingInv, Apart
<1>12. ASSUME NEW n \in Nat, tail_' <= n, n < tail_' + use'.capacity PROVE Kept(n)'
  <2>1. CASE n < t + use.capacity
    <3>1. Kept(n)
      BY <1>1, <1>2, <1>12, <2>1 DEF RingInv, Window
    <3>2. \A d \in Consumers : Emptying(d) /\ pos[d] = n - use.capacity =>
                                 Emptying(d)' /\ pos'[d] = n - use.capacity
      BY <1>3, <1>9
    <3> QED BY <1>2, <1>8, <3>1, <3>2, Numbers, KeptStays
  <2>2. CASE n = t + use.capacity
    <3>1. Ring!Slot(n) = Ring!Slot(t)
      BY <2>2, Numbers, SlotRound
    <3>2. head_ <= n /\ t = n - use.capacity
      BY <1>1, <2>2, Numbers
    <3>3. Emptying(c)' /\ pos'[c] = n - use'.capacity
      BY <1>2, <1>3, <3>2
    <3> QED BY <1>2, <1>4, <3>1, <3>2, <3>3 DEF Kept
  <2> QED BY <1>2, <1>12, <2>1, <2>2, Numbers
<1>13. Window'
  BY <1>12 DEF Window
<1>14. ASSUME NEW p \in Producers PROVE FillsOf(p)' /\ ReadyToFill(p)'
  <2>1. FillsOf(p)'
    <3>1. FillsOf(p)
      BY DEF RingInv
    <3>2. Filling(p) => tail_' <= pos[p]
      <4> SUFFICES ASSUME Filling(p) PROVE t + 1 <= pos[p]
        BY <1>2
      <4>1. t <= pos[p] /\ stamp[Ring!Slot(pos[p])] = pos[p]
        BY <1>1, <3>1 DEF FillsOf
      <4>2. pos[p] # t
        BY <1>2, <4>1
      <4> QED BY <4>1, <4>2, Numbers
    <3> QED BY <1>2, <1>8, <3>1, <3>2, OthersFill DEF FillsOf
  <2>2. ReadyToFill(p)'
    <3>1. ReadyToFill(p) /\ pc'[p] = pc[p]
      BY <1>2, <1>8, Numbers DEF RingInv, RingOnly
    <3> QED BY <1>2, <1>4, <3>1 DEF ReadyToFill
  <2> QED BY <2>1, <2>2
<1>15. ASSUME NEW d \in Consumers PROVE EmptiesOf(d)' /\ ReadyToEmpty(d)'
  <2>1. CASE d = c
    <3>1. data[Ring!Slot(t)] # raw
      <4>1. data[Ring!Slot(t)] \in Ring!Values
        BY <1>2 DEF RingInv, Ring!TypeOK
      <4> QED BY <4>1, Numbers, Different
    <3>2. EmptiesOf(c)'
      BY <1>1, <1>2, <1>3, <1>4, <3>1, Numbers DEF EmptiesOf
    <3>3. ReadyToEmpty(c)'
      BY <1>2 DEF ReadyToEmpty
    <3> QED BY <2>1, <3>2, <3>3
  <2>2. CASE d # c
    <3>1. EmptiesOf(d)'
      <4>1. EmptiesOf(d)
        BY DEF RingInv
      <4>2. Emptying(d) => pos[d] < tail_'
        BY <1>1, <1>2, <4>1, Numbers DEF EmptiesOf
      <4> QED BY <1>2, <2>2, <4>1, <4>2, OthersEmpty DEF EmptiesOf
    <3>2. ReadyToEmpty(d)'
      <4>1. pos'[d] # tail_'
        BY <1>1, <1>2, Numbers DEF RingInv, Roles
      <4> QED BY <4>1 DEF ReadyToEmpty
    <3> QED BY <3>1, <3>2
  <2> QED BY <2>1, <2>2
<1> QED BY <1>5, <1>6, <1>7, <1>10, <1>11, <1>13, <1>14, <1>15 DEF RingInv

LEMMA MoveOutKeepsRing ==
    ASSUME UsesFit, RingInv, NEW c \in Consumers, Ring!MoveOut(c)
    PROVE  RingInv'
<1>1. PICK m \in Nat : m = pos[c]
  BY Numbers
<1>2. /\ pc[c] = "move" /\ pc' = [pc EXCEPT ![c] = "destroy"]
      /\ item' = [item EXCEPT ![c] = data[Ring!Slot(m)]]
      /\ UNCHANGED <<use, stamp, data, head_, tail_, pos, seen, out, sent, claims, got>>
  BY <1>1 DEF Ring!MoveOut, Ring!Goto
<1>3. pc'[c] = "destroy" /\ RingOnly(c) /\ item'[c] = data[Ring!Slot(m)]
  <2>1. DOMAIN pc = Ring!Threads /\ DOMAIN item = Consumers
    BY DEF RingInv, Ring!TypeOK
  <2> QED BY <1>2, <2>1, Numbers DEF RingOnly
<1>4. Emptying(c) /\ Emptying(c)' /\ c \in use.consumers
  BY <1>2, <1>3 DEF Emptying, RingInv, Roles
<1>5. /\ m < tail_ /\ head_ <= m + use.capacity /\ stamp[Ring!Slot(m)] = m + 1
      /\ <<m, data[Ring!Slot(m)]>> \in claims /\ data[Ring!Slot(m)] # raw
  <2>1. EmptiesOf(c)
    BY DEF RingInv
  <2> QED BY <1>1, <1>2, <1>4, <2>1 DEF EmptiesOf
<1>6. Ring!Values' = Ring!Values /\ Ring!Slots' = Ring!Slots /\ \A n : Ring!Slot(n)' = Ring!Slot(n)
  BY <1>2, UseKept
<1>7. Ring!TypeOK'
  <2>1. data[Ring!Slot(m)] \in Ring!Values
    BY <1>5 DEF RingInv, Ring!TypeOK
  <2> QED BY <1>2, <1>6, <2>1 DEF RingInv, Ring!TypeOK
<1>8. Roles'
  <2>1. \A u \in Ring!Threads : u # c => pc'[u] = pc[u]
    BY <1>3 DEF RingOnly
  <2> QED BY <1>2, <1>3, <1>4, <2>1, Numbers DEF RingInv, Roles
<1>9. Edges'
  BY <1>2 DEF RingInv, Edges
<1>10. \A p \in Producers : Filling(p)' = Filling(p) /\ pos'[p] = pos[p] /\ p # c
  BY <1>2, <1>3, Numbers DEF Filling, RingOnly
<1>11. \A d \in Consumers : Emptying(d)' = Emptying(d) /\ pos'[d] = pos[d]
  <2>1. \A d \in Consumers : d # c => pc'[d] = pc[d]
    BY <1>3, Numbers DEF RingOnly
  <2> QED BY <1>2, <1>4, <2>1 DEF Emptying
<1>12. Claimed'
  BY <1>2, <1>6, <1>10 DEF RingInv, Claimed
<1>13. Apart'
  BY <1>10, <1>11 DEF RingInv, Apart
<1>14. ASSUME NEW n \in Nat, tail_' <= n, n < tail_' + use'.capacity PROVE Kept(n)'
  <2>1. Kept(n)
    BY <1>2, <1>14 DEF RingInv, Window
  <2> QED BY <1>2, <1>10, <1>11, <2>1, Numbers, KeptStays
<1>15. Window'
  BY <1>14 DEF Window
<1>16. ASSUME NEW p \in Producers PROVE FillsOf(p)' /\ ReadyToFill(p)'
  <2>1. FillsOf(p)'
    <3>1. FillsOf(p)
      BY DEF RingInv
    <3> QED BY <1>2, <1>3, <1>10, <3>1, OthersFill DEF FillsOf
  <2>2. ReadyToFill(p)'
    <3>1. ReadyToFill(p) /\ pc'[p] = pc[p]
      BY <1>3, <1>10, Numbers DEF RingInv, RingOnly
    <3> QED BY <1>2, <1>6, <3>1 DEF ReadyToFill
  <2> QED BY <2>1, <2>2
<1>17. ASSUME NEW d \in Consumers PROVE EmptiesOf(d)' /\ ReadyToEmpty(d)'
  <2>1. CASE d = c
    <3>1. EmptiesOf(c)'
      BY <1>1, <1>2, <1>3, <1>5, <1>6 DEF EmptiesOf
    <3>2. ReadyToEmpty(c)'
      BY <1>3 DEF ReadyToEmpty
    <3> QED BY <2>1, <3>1, <3>2
  <2>2. CASE d # c
    <3>1. EmptiesOf(d)'
      <4>1. EmptiesOf(d)
        BY DEF RingInv
      <4> QED BY <1>2, <1>3, <2>2, <4>1, OthersEmpty DEF EmptiesOf
    <3>2. ReadyToEmpty(d)'
      <4>1. ReadyToEmpty(d) /\ pc'[d] = pc[d]
        BY <1>3, <2>2, Numbers DEF RingInv, RingOnly
      <4> QED BY <1>2, <1>6, <4>1 DEF ReadyToEmpty
    <3> QED BY <3>1, <3>2
  <2> QED BY <2>1, <2>2
<1> QED BY <1>7, <1>8, <1>9, <1>12, <1>13, <1>15, <1>16, <1>17 DEF RingInv

LEMMA DestroyKeeps ==
    ASSUME UsesFit, RingInv, NEW c \in Consumers, Ring!Destroy(c)
    PROVE  RingInv'
<1>1. PICK m \in Nat : m = pos[c]
  BY Numbers
<1>2. /\ pc[c] = "destroy" /\ pc' = [pc EXCEPT ![c] = "release"]
      /\ data' = [data EXCEPT ![Ring!Slot(m)] = raw]
      /\ UNCHANGED <<use, stamp, head_, tail_, pos, seen, item, out, sent, claims, got>>
  BY <1>1 DEF Ring!Destroy, Ring!Goto
<1>3. pc'[c] = "release" /\ RingOnly(c) /\ data'[Ring!Slot(m)] = raw
  <2>1. DOMAIN pc = Ring!Threads /\ DOMAIN data = Ring!Slots
    BY DEF RingInv, Ring!TypeOK
  <2> QED BY <1>2, <2>1, Numbers DEF RingOnly
<1>4. Emptying(c) /\ Emptying(c)' /\ c \in use.consumers
  BY <1>2, <1>3 DEF Emptying, RingInv, Roles
<1>5. /\ m < tail_ /\ head_ <= m + use.capacity /\ stamp[Ring!Slot(m)] = m + 1
      /\ <<m, item[c]>> \in claims
  <2>1. EmptiesOf(c)
    BY DEF RingInv
  <2> QED BY <1>1, <1>2, <1>4, <2>1 DEF EmptiesOf
<1>6. Ring!Values' = Ring!Values /\ Ring!Slots' = Ring!Slots /\ \A n : Ring!Slot(n)' = Ring!Slot(n)
  BY <1>2, UseKept
<1>7. Ring!TypeOK'
  BY <1>2, <1>6 DEF RingInv, Ring!TypeOK
<1>8. Roles'
  <2>1. \A u \in Ring!Threads : u # c => pc'[u] = pc[u]
    BY <1>3 DEF RingOnly
  <2> QED BY <1>2, <1>3, <1>4, <2>1, Numbers DEF RingInv, Roles
<1>9. Edges'
  BY <1>2 DEF RingInv, Edges
<1>10. \A p \in Producers : Filling(p)' = Filling(p) /\ pos'[p] = pos[p] /\ p # c
  BY <1>2, <1>3, Numbers DEF Filling, RingOnly
<1>11. \A d \in Consumers : Emptying(d)' = Emptying(d) /\ pos'[d] = pos[d]
  <2>1. \A d \in Consumers : d # c => pc'[d] = pc[d]
    BY <1>3, Numbers DEF RingOnly
  <2> QED BY <1>2, <1>4, <2>1 DEF Emptying
<1>12. Claimed'
  BY <1>2, <1>6, <1>10 DEF RingInv, Claimed
<1>13. Apart'
  BY <1>10, <1>11 DEF RingInv, Apart
<1>14. \A n \in Nat : Ring!Slot(n) # Ring!Slot(m) => data'[Ring!Slot(n)] = data[Ring!Slot(n)]
  BY <1>2, Numbers DEF RingInv, Ring!TypeOK
<1>15. ASSUME NEW n \in Nat, tail_' <= n, n < tail_' + use'.capacity PROVE Kept(n)'
  <2>1. Kept(n)
    BY <1>2, <1>15 DEF RingInv, Window
  <2>2. PICK k \in Nat : k = m + use.capacity /\ Ring!Slot(k) = Ring!Slot(m)
    BY Numbers, SlotRound
  <2>3. CASE n = k
    <3>1. \E d \in Consumers : Emptying(d)' /\ pos'[d] = n - use'.capacity
      BY <1>1, <1>2, <1>4, <2>2, <2>3, Numbers
    <3>2. stamp'[Ring!Slot(n)] = n - use.capacity + 1
      BY <1>2, <1>5, <2>2, <2>3, Numbers
    <3> QED BY <1>2, <1>5, <1>6, <2>2, <2>3, <3>1, <3>2 DEF Kept
  <2>4. CASE n # k
    <3>1. Ring!Slot(n) # Ring!Slot(m)
      <4>1. n < k + use.capacity /\ k < n + use.capacity
        BY <1>2, <1>5, <1>15, <2>2, Numbers
      <4> QED BY <2>2, <2>4, <4>1, Numbers, SlotsApart
    <3> QED BY <1>2, <1>10, <1>11, <1>14, <2>1, <3>1, Numbers, KeptStays
  <2> QED BY <2>3, <2>4
<1>16. Window'
  BY <1>15 DEF Window
<1>17. ASSUME NEW p \in Producers PROVE FillsOf(p)' /\ ReadyToFill(p)'
  <2>1. FillsOf(p)'
    <3>1. FillsOf(p)
      BY DEF RingInv
    <3>2. Filling(p) => data'[Ring!Slot(pos[p])] = data[Ring!Slot(pos[p])]
      BY <1>1, <1>4, <1>14, Numbers, HeldSlots
    <3> QED BY <1>2, <1>3, <1>10, <3>1, <3>2, OthersFill DEF FillsOf
  <2>2. ReadyToFill(p)'
    <3>1. ReadyToFill(p) /\ pc'[p] = pc[p]
      BY <1>3, <1>10, Numbers DEF RingInv, RingOnly
    <3> QED BY <1>2, <1>6, <3>1 DEF ReadyToFill
  <2> QED BY <2>1, <2>2
<1>18. ASSUME NEW d \in Consumers PROVE EmptiesOf(d)' /\ ReadyToEmpty(d)'
  <2>1. CASE d = c
    <3>1. EmptiesOf(c)'
      BY <1>1, <1>2, <1>3, <1>5, <1>6 DEF EmptiesOf
    <3>2. ReadyToEmpty(c)'
      BY <1>3 DEF ReadyToEmpty
    <3> QED BY <2>1, <3>1, <3>2
  <2>2. CASE d # c
    <3>1. EmptiesOf(d)'
      <4>1. EmptiesOf(d)
        BY DEF RingInv
      <4>2. Emptying(d) => data'[Ring!Slot(pos[d])] = data[Ring!Slot(pos[d])]
        BY <1>1, <1>4, <1>14, <2>2, Numbers, HeldSlots
      <4> QED BY <1>2, <1>3, <2>2, <4>1, <4>2, OthersEmpty DEF EmptiesOf
    <3>2. ReadyToEmpty(d)'
      <4>1. ReadyToEmpty(d) /\ pc'[d] = pc[d]
        BY <1>3, <2>2, Numbers DEF RingInv, RingOnly
      <4> QED BY <1>2, <1>6, <4>1 DEF ReadyToEmpty
    <3> QED BY <3>1, <3>2
  <2> QED BY <2>1, <2>2
<1> QED BY <1>7, <1>8, <1>9, <1>12, <1>13, <1>16, <1>17, <1>18 DEF RingInv

LEMMA ReleaseKeeps ==
    ASSUME UsesFit, RingInv, NEW c \in Consumers, Ring!Release(c)
    PROVE  RingInv'
<1>1. PICK m \in Nat, k \in Nat : m = pos[c] /\ k = m + use.capacity /\ Ring!Slot(k) = Ring!Slot(m)
  <2>1. PICK m \in Nat : m = pos[c]
    BY Numbers
  <2>2. m + use.capacity \in Nat
    BY Numbers
  <2> QED BY <2>1, <2>2, Numbers, SlotRound
<1>2. /\ pc[c] = "release" /\ pc' = [pc EXCEPT ![c] = "tail"]
      /\ stamp' = [stamp EXCEPT ![Ring!Slot(m)] = k]
      /\ out' = [out EXCEPT ![c] = item[c]]
      /\ got' = [v \in DOMAIN got |-> got[v] + (IF v = item[c] THEN 1 ELSE 0)]
      /\ UNCHANGED <<use, data, head_, tail_, pos, seen, item, sent, claims>>
  BY <1>1 DEF Ring!Release, Ring!Goto
<1>3. pc'[c] = "tail" /\ RingOnly(c) /\ stamp'[Ring!Slot(m)] = k
  <2>1. DOMAIN pc = Ring!Threads /\ DOMAIN stamp = Ring!Slots
    BY DEF RingInv, Ring!TypeOK
  <2> QED BY <1>1, <1>2, <2>1, Numbers DEF RingOnly
<1>4. Emptying(c) /\ ~ Emptying(c)'
  BY <1>2, <1>3 DEF Emptying
<1>5. /\ m < tail_ /\ head_ <= k /\ stamp[Ring!Slot(m)] = m + 1
      /\ <<m, item[c]>> \in claims /\ data[Ring!Slot(m)] = raw
  <2>1. EmptiesOf(c)
    BY DEF RingInv
  <2> QED BY <1>1, <1>2, <1>4, <2>1 DEF EmptiesOf
<1>6. Ring!Values' = Ring!Values /\ Ring!Slots' = Ring!Slots /\ \A n : Ring!Slot(n)' = Ring!Slot(n)
  BY <1>2, UseKept
<1>7. Ring!TypeOK'
  <2>1. stamp' \in [Ring!Slots -> Nat]
    <3>1. stamp \in [Ring!Slots -> Nat]
      BY DEF RingInv, Ring!TypeOK
    <3> QED BY <1>1, <1>2, <3>1
  <2>2. item[c] \in Ring!Values
    BY <1>5 DEF RingInv, Ring!TypeOK
  <2>3. out' \in [Consumers -> Ring!Values \cup {none, empty}]
    BY <1>2, <2>2 DEF RingInv, Ring!TypeOK
  <2>4. got' \in [Ring!Values -> Nat]
    <3>1. got \in [Ring!Values -> Nat]
      BY DEF RingInv, Ring!TypeOK
    <3>2. \A v \in Ring!Values : got[v] + (IF v = item[c] THEN 1 ELSE 0) \in Nat
      BY <3>1
    <3> QED BY <1>2, <3>1, <3>2
  <2>5. pc' \in [Ring!Threads -> {"head", "stamp", "cas", "construct", "publish",
                             "tail", "empty", "false", "move", "destroy", "release"}]
    BY <1>2 DEF RingInv, Ring!TypeOK
  <2> QED BY <1>2, <1>6, <2>1, <2>3, <2>4, <2>5 DEF RingInv, Ring!TypeOK
<1>8. Roles'
  <2>1. \A u \in Ring!Threads : u # c => pc'[u] = pc[u]
    BY <1>3 DEF RingOnly
  <2> QED BY <1>2, <1>3, <2>1, Numbers DEF RingInv, Roles
<1>9. Edges'
  BY <1>2 DEF RingInv, Edges
<1>10. \A p \in Producers : Filling(p)' = Filling(p) /\ pos'[p] = pos[p] /\ p # c
  BY <1>2, <1>3, Numbers DEF Filling, RingOnly
<1>11. \A d \in Consumers : d # c => Emptying(d)' = Emptying(d) /\ pos'[d] = pos[d]
  BY <1>2, <1>3, Numbers DEF Emptying, RingOnly
<1>12. Claimed'
  BY <1>2, <1>6, <1>10 DEF RingInv, Claimed
<1>13. Apart'
  BY <1>4, <1>10, <1>11 DEF RingInv, Apart
<1>14. \A n \in Nat : Ring!Slot(n) # Ring!Slot(m) => stamp'[Ring!Slot(n)] = stamp[Ring!Slot(n)]
  BY <1>2, Numbers DEF RingInv, Ring!TypeOK
<1>15. ASSUME NEW n \in Nat, tail_' <= n, n < tail_' + use'.capacity PROVE Kept(n)'
  <2>1. Kept(n)
    BY <1>2, <1>15 DEF RingInv, Window
  <2>2. CASE n = k
    BY <1>1, <1>2, <1>3, <1>5, <1>6, <2>2 DEF Kept
  <2>3. CASE n # k
    <3>1. Ring!Slot(n) # Ring!Slot(m)
      <4>1. n < k + use.capacity /\ k < n + use.capacity
        BY <1>1, <1>2, <1>5, <1>15, Numbers
      <4> QED BY <1>1, <2>3, <4>1, Numbers, SlotsApart
    <3>2. \A d \in Consumers : Emptying(d) /\ pos[d] = n - use.capacity =>
                                 Emptying(d)' /\ pos'[d] = n - use.capacity
      <4>1. pos[c] # n - use.capacity
        BY <1>1, <2>3, Numbers
      <4> QED BY <1>11, <4>1
    <3> QED BY <1>1, <1>2, <1>10, <1>14, <2>1, <3>1, <3>2, Numbers, KeptStays
  <2> QED BY <2>2, <2>3
<1>16. Window'
  BY <1>15 DEF Window
<1>17. ASSUME NEW p \in Producers PROVE FillsOf(p)' /\ ReadyToFill(p)'
  <2>1. FillsOf(p)'
    <3>1. FillsOf(p)
      BY DEF RingInv
    <3>2. Filling(p) => stamp'[Ring!Slot(pos[p])] = stamp[Ring!Slot(pos[p])]
      BY <1>1, <1>4, <1>14, Numbers, HeldSlots
    <3> QED BY <1>2, <1>3, <1>10, <3>1, <3>2, OthersFill DEF FillsOf
  <2>2. ReadyToFill(p)'
    <3>1. ReadyToFill(p) /\ pc'[p] = pc[p] /\ pos[p] \in Nat
      BY <1>3, <1>10, Numbers DEF RingInv, RingOnly
    <3>2. pc[p] = "cas" /\ pos[p] = head_ => Ring!Slot(pos[p]) # Ring!Slot(m)
      <4> SUFFICES ASSUME pc[p] = "cas", pos[p] = head_, Ring!Slot(head_) = Ring!Slot(m) PROVE FALSE
        OBVIOUS
      <4>1. head_ = m + 1
        BY <1>5, <3>1 DEF ReadyToFill
      <4>2. Ring!Slot(m) # Ring!Slot(head_)
        BY <1>1, <4>1, Numbers, SlotsDiffer
      <4> QED BY <4>2
    <3> QED BY <1>2, <1>6, <1>14, <3>1, <3>2 DEF ReadyToFill
  <2> QED BY <2>1, <2>2
<1>18. ASSUME NEW d \in Consumers PROVE EmptiesOf(d)' /\ ReadyToEmpty(d)'
  <2>1. CASE d = c
    <3>1. EmptiesOf(c)'
      BY <1>4 DEF EmptiesOf
    <3>2. ReadyToEmpty(c)'
      BY <1>3 DEF ReadyToEmpty
    <3> QED BY <2>1, <3>1, <3>2
  <2>2. CASE d # c
    <3>1. EmptiesOf(d)'
      <4>1. EmptiesOf(d)
        BY DEF RingInv
      <4>2. Emptying(d) => stamp'[Ring!Slot(pos[d])] = stamp[Ring!Slot(pos[d])]
        BY <1>1, <1>4, <1>14, <2>2, Numbers, HeldSlots
      <4> QED BY <1>2, <1>3, <2>2, <4>1, <4>2, OthersEmpty DEF EmptiesOf
    <3>2. ReadyToEmpty(d)'
      <4>1. ReadyToEmpty(d) /\ pc'[d] = pc[d] /\ pos[d] \in Nat
        BY <1>3, <2>2, Numbers DEF RingInv, RingOnly
      <4>2. pc[d] = "cas" /\ pos[d] = tail_ => Ring!Slot(pos[d]) # Ring!Slot(m)
        <5> SUFFICES ASSUME pc[d] = "cas", pos[d] = tail_, Ring!Slot(tail_) = Ring!Slot(m) PROVE FALSE
          OBVIOUS
        <5>1. m + 1 = tail_ + 1
          BY <1>5, <4>1 DEF ReadyToEmpty
        <5> QED BY <1>5, <5>1, Numbers
      <4> QED BY <1>2, <1>6, <1>14, <4>1, <4>2 DEF ReadyToEmpty
    <3> QED BY <3>1, <3>2
  <2> QED BY <2>1, <2>2
<1> QED BY <1>7, <1>8, <1>9, <1>12, <1>13, <1>16, <1>17, <1>18 DEF RingInv
-----------------------------------------------------------------------------
(* The theorem.                                                            *)

LEMMA RingInit ==
    ASSUME UsesFit, Ring!Init
    PROVE  RingInv
<1>1. /\ use \in Uses /\ use.capacity \in Nat /\ use.capacity > 1
      /\ stamp = [i \in Ring!Slots |-> i] /\ data = [i \in Ring!Slots |-> raw]
      /\ head_ = 0 /\ tail_ = 0 /\ claims = {}
      /\ pos = [t \in Ring!Threads |-> 0] /\ seen = [t \in Ring!Threads |-> 0]
  BY UseRight DEF Ring!Init
<1>2. use.items \in [Producers -> Nat] /\ Producers \cap Consumers = {}
  BY <1>1, UseRight
<1>3. /\ pc = [t \in Ring!Threads |-> IF t \in Producers THEN "head" ELSE "tail"]
      /\ item = [c \in Consumers |-> none] /\ out = [c \in Consumers |-> none]
      /\ sent = [p \in Producers |-> 0] /\ got = [v \in Ring!Values |-> 0]
  BY DEF Ring!Init
<1>4. Ring!TypeOK
  <2>1. stamp \in [Ring!Slots -> Nat]
    BY <1>1 DEF Ring!Slots
  <2>2. pc \in [Ring!Threads -> {"head", "stamp", "cas", "construct", "publish",
                            "tail", "empty", "false", "move", "destroy", "release"}]
    BY <1>3
  <2>3. sent \in [Producers -> Nat] /\ \A p \in Producers : sent[p] <= use.items[p]
    BY <1>2, <1>3
  <2>4. got \in [Ring!Values -> Nat] /\ pos \in [Ring!Threads -> Nat] /\ seen \in [Ring!Threads -> Nat]
    BY <1>1, <1>3
  <2>5. /\ item \in [Consumers -> Ring!Values \cup {none}]
        /\ out \in [Consumers -> Ring!Values \cup {none, empty}]
        /\ data \in [Ring!Slots -> Ring!Values \cup {raw}]
    BY <1>1, <1>3
  <2> QED BY <1>1, <2>1, <2>2, <2>3, <2>4, <2>5 DEF Ring!TypeOK
<1>5. (\A p \in Producers : pc[p] = "head" /\ pos[p] = 0) /\ (\A c \in Consumers : pc[c] = "tail" /\ pos[c] = 0)
  BY <1>1, <1>2, <1>3 DEF Ring!Threads
<1>6. (\A p \in Producers : ~ Filling(p)) /\ (\A c \in Consumers : ~ Emptying(c))
  BY <1>5 DEF Filling, Emptying
<1>7. Roles
  BY <1>1, <1>5 DEF Roles
<1>8. Edges
  BY <1>1 DEF Edges
<1>9. Claimed
  BY <1>1 DEF Claimed
<1>10. Apart
  BY <1>6 DEF Apart
<1>11. ASSUME NEW n \in Nat, tail_ <= n, n < tail_ + use.capacity PROVE Kept(n)
  <2>1. n < use.capacity
    BY <1>1, <1>11
  <2>2. PICK c \in Nat \ {0} : c = use.capacity
    BY <1>1
  <2>3. n \in 0 .. c - 1 /\ c * 0 + n = n
    BY <2>1, <2>2
  <2>4. (c * 0 + n) % c = n
    BY <2>3, Remainder
  <2>5. Ring!Slot(n) = n /\ n \in Ring!Slots
    BY <2>2, <2>3, <2>4 DEF Ring!Slot, Ring!Slots
  <2> QED BY <1>1, <2>5 DEF Kept
<1>12. Window
  BY <1>11 DEF Window
<1>13. ASSUME NEW p \in Producers PROVE FillsOf(p) /\ ReadyToFill(p)
  BY <1>5, <1>6 DEF FillsOf, ReadyToFill
<1>14. ASSUME NEW c \in Consumers PROVE EmptiesOf(c) /\ ReadyToEmpty(c)
  BY <1>5, <1>6 DEF EmptiesOf, ReadyToEmpty
<1> QED BY <1>4, <1>7, <1>8, <1>9, <1>10, <1>12, <1>13, <1>14 DEF RingInv

LEMMA RingStep ==
    ASSUME UsesFit, RingInv, [Ring!Next]_(Ring!vars)
    PROVE  RingInv'
<1>1. ASSUME NEW p \in Producers, Ring!Producer(p) PROVE RingInv'
  <2>1. CASE Ring!LoadHead(p)
    BY <2>1, RingLoadHeadKeeps
  <2>2. CASE Ring!LoadStamp(p)
    BY <2>2, LoadStampKeeps
  <2>3. CASE Ring!ClaimHead(p)
    BY <2>3, LosesHead, WinsHeadKeeps
  <2>4. CASE Ring!Construct(p)
    BY <2>4, ConstructKeepsRing
  <2>5. CASE Ring!Publish(p)
    BY <2>5, PublishKeeps
  <2> QED BY <1>1, <2>1, <2>2, <2>3, <2>4, <2>5 DEF Ring!Producer
<1>2. ASSUME NEW c \in Consumers, Ring!Consumer(c) PROVE RingInv'
  <2>1. CASE Ring!LoadTail(c)
    BY <2>1, RingLoadTailKeeps
  <2>2. CASE Ring!LoadStampOfData(c)
    BY <2>2, LoadStampOfDataKeeps
  <2>3. CASE Ring!TestEmpty(c)
    BY <2>3, TestEmptyKeeps
  <2>4. CASE Ring!ReturnFalse(c)
    BY <2>4, RingReturnFalseKeeps
  <2>5. CASE Ring!ClaimTail(c)
    BY <2>5, LosesTail, WinsTailKeeps
  <2>6. CASE Ring!MoveOut(c)
    BY <2>6, MoveOutKeepsRing
  <2>7. CASE Ring!Destroy(c)
    BY <2>7, DestroyKeeps
  <2>8. CASE Ring!Release(c)
    BY <2>8, ReleaseKeeps
  <2> QED BY <1>2, <2>1, <2>2, <2>3, <2>4, <2>5, <2>6, <2>7, <2>8 DEF Ring!Consumer
<1>3. CASE UNCHANGED Ring!vars
  <2>1. UNCHANGED <<use, stamp, data, head_, tail_, pc, pos, seen, item, out, sent, claims, got>>
    BY <1>3 DEF Ring!vars
  <2>2. Ring!TypeOK' /\ Roles' /\ Edges' /\ Claimed' /\ Apart'
    <3>1. Ring!Values' = Ring!Values /\ Ring!Slots' = Ring!Slots
      BY <2>1, UseKept
    <3>2. Ring!TypeOK'
      BY <2>1, <3>1 DEF RingInv, Ring!TypeOK
    <3>3. Roles' /\ Edges'
      BY <2>1 DEF RingInv, Roles, Edges
    <3>4. Claimed'
      BY <2>1, <3>1 DEF RingInv, Claimed, Filling
    <3>5. Apart'
      BY <2>1 DEF RingInv, Apart, Filling, Emptying
    <3> QED BY <3>2, <3>3, <3>4, <3>5
  <2>3. Window'
    BY <2>1 DEF RingInv, Window, Kept, Ring!Slot, Filling, Emptying
  <2>4. \A p \in Producers : FillsOf(p)' /\ ReadyToFill(p)'
    BY <2>1 DEF RingInv, FillsOf, ReadyToFill, Ring!Slot, Filling, Ring!Value
  <2>5. \A c \in Consumers : EmptiesOf(c)' /\ ReadyToEmpty(c)'
    BY <2>1 DEF RingInv, EmptiesOf, ReadyToEmpty, Ring!Slot, Emptying
  <2> QED BY <2>2, <2>3, <2>4, <2>5 DEF RingInv
<1> QED BY <1>1, <1>2, <1>3 DEF Ring!Next

LEMMA RingInvHolds ==
    ASSUME UsesFit
    PROVE  Ring!Spec => []RingInv
<1>1. Ring!Init => RingInv
  BY RingInit
<1>2. RingInv /\ [Ring!Next]_(Ring!vars) => RingInv'
  BY RingStep
<1> QED BY <1>1, <1>2, PTL DEF Ring!Spec

LEMMA SlotsAreKept ==
    ASSUME UsesFit, RingInv
    PROVE  Ring!SlotsKept
<1>1. \A t, i : Ring!Holds(t, i) <=> (Filling(t) \/ Emptying(t)) /\ Ring!Slot(pos[t]) = i
  BY DEF Ring!Holds, Filling, Emptying
<1>2. (\A p \in Producers : ~ Emptying(p)) /\ (\A c \in Consumers : ~ Filling(c))
  BY DEF Filling, Emptying, RingInv, Roles
<1>3. Ring!SlotsExclusive
  <2> SUFFICES ASSUME NEW t \in Ring!Threads, NEW u \in Ring!Threads, NEW i \in Ring!Slots, Ring!Holds(t, i), Ring!Holds(u, i)
               PROVE  t = u
    BY DEF Ring!SlotsExclusive
  <2>1. /\ Filling(t) \/ Emptying(t)
        /\ Filling(u) \/ Emptying(u)
        /\ Ring!Slot(pos[t]) = Ring!Slot(pos[u])
    BY <1>1
  <2>2. /\ (t \in Producers /\ Filling(t)) \/ (t \in Consumers /\ Emptying(t))
        /\ (u \in Producers /\ Filling(u)) \/ (u \in Consumers /\ Emptying(u))
    BY <1>2, <2>1 DEF Ring!Threads
  <2> QED BY <2>1, <2>2, HeldSlots
<1>4. ASSUME NEW i \in Ring!Slots
      PROVE  (data[i] # raw) <=>
               \/ ~Ring!SameParity(stamp[i], i) /\ ~\E c \in Consumers : Ring!Holds(c, i) /\ pc[c] = "release"
               \/ \E p \in Producers : Ring!Holds(p, i) /\ pc[p] = "publish"
  <2>1. PICK n \in Nat : tail_ <= n /\ n < tail_ + use.capacity /\ Ring!Slot(n) = i
    BY Numbers, SlotMet
  <2>2. Kept(n)
    BY <2>1 DEF RingInv, Window
  <2>3. Ring!SameParity(n, i) /\ ~ Ring!SameParity(n + 1, i) /\ ~ Ring!SameParity(n - use.capacity + 1, i)
    BY <2>1, Numbers, Parities
  <2>4. \A v \in Ring!Values : v # raw
    BY Numbers, Different
  <2>5. ASSUME NEW c \in Consumers, Ring!Holds(c, i), pc[c] = "release"
        PROVE  stamp[i] = n - use.capacity + 1 /\ data[i] = raw
    <3>1. Emptying(c) /\ Ring!Slot(pos[c]) = i /\ EmptiesOf(c)
      BY <1>1, <1>2, <2>5 DEF RingInv
    <3>2. PICK m \in Nat : m = pos[c]
      BY Numbers
    <3>3. m < tail_ /\ head_ <= m + use.capacity /\ stamp[i] = m + 1 /\ data[i] = raw
      BY <2>5, <3>1, <3>2 DEF EmptiesOf
    <3>4. PICK k \in Nat : k = m + use.capacity /\ Ring!Slot(k) = i
      BY <3>1, <3>2, Numbers, SlotRound
    <3>5. n = k
      <4>1. n < k + use.capacity /\ k < n + use.capacity
        BY <2>1, <3>3, <3>4, Numbers
      <4> QED BY <2>1, <3>4, <4>1, Numbers, SlotsApart
    <3> QED BY <3>3, <3>4, <3>5, Numbers
  <2>6. ASSUME NEW p \in Producers, Ring!Holds(p, i), pc[p] = "publish"
        PROVE  data[i] # raw
    <3>1. Filling(p) /\ Ring!Slot(pos[p]) = i /\ FillsOf(p)
      BY <1>1, <1>2, <2>6 DEF RingInv
    <3>2. data[i] = Ring!Value(p) /\ <<pos[p], Ring!Value(p)>> \in claims
      BY <2>6, <3>1 DEF FillsOf
    <3> QED BY <2>4, <3>2 DEF RingInv, Ring!TypeOK
  <2>7. CASE head_ <= n /\ stamp[i] = n /\ data[i] = raw
    BY <2>3, <2>6, <2>7
  <2>8. CASE /\ head_ <= n /\ stamp[i] = n - use.capacity + 1
             /\ \E c \in Consumers : Emptying(c) /\ pos[c] = n - use.capacity
    <3>1. PICK c \in Consumers : Emptying(c) /\ pos[c] = n - use.capacity
      BY <2>8
    <3>2. Ring!Slot(pos[c]) = i
      <4>1. PICK m \in Nat : m = pos[c]
        BY Numbers
      <4>2. n = m + use.capacity
        BY <3>1, <4>1, Numbers
      <4> QED BY <2>1, <4>1, <4>2, Numbers, SlotRound
    <3>3. EmptiesOf(c)
      BY DEF RingInv
    <3>4. (data[i] = raw) <=> pc[c] = "release"
      BY <3>1, <3>2, <3>3 DEF EmptiesOf
    <3>5. ~ Ring!SameParity(stamp[i], i)
      BY <2>3, <2>8
    <3>6. Ring!Holds(c, i)
      BY <1>1, <3>1, <3>2
    <3> QED BY <2>5, <2>6, <3>4, <3>5, <3>6
  <2>9. CASE n < head_ /\ stamp[i] = n /\ \E p \in Producers : Filling(p) /\ pos[p] = n
    <3>1. PICK p \in Producers : Filling(p) /\ pos[p] = n
      BY <2>9
    <3>2. Ring!Holds(p, i) /\ FillsOf(p)
      BY <1>1, <2>1, <3>1 DEF RingInv
    <3>3. data[i] # raw => pc[p] = "publish"
      BY <2>1, <3>1, <3>2 DEF FillsOf, Filling
    <3>4. Ring!SameParity(stamp[i], i)
      BY <2>3, <2>9
    <3> QED BY <2>6, <3>2, <3>3, <3>4
  <2>10. CASE n < head_ /\ stamp[i] = n + 1 /\ <<n, data[i]>> \in claims
    <3>1. data[i] # raw
      BY <2>4, <2>10 DEF RingInv, Ring!TypeOK
    <3>2. ~ Ring!SameParity(stamp[i], i)
      BY <2>3, <2>10
    <3> QED BY <2>5, <3>1, <3>2
  <2> QED BY <2>1, <2>2, <2>7, <2>8, <2>9, <2>10 DEF Kept
<1>5. Ring!StampTells
  BY <1>4 DEF Ring!StampTells
<1> QED BY <1>3, <1>5 DEF Ring!SlotsKept, RingInv

\* No two threads are ever at one slot of lockfree_mpmc_queue.hpp (167-178 and 272-279),
\* and the stamp of a slot tells whether it has an element.
THEOREM RingKeepsItsSlots ==
    ASSUME NoneLapped
    PROVE  RingSpec => []RingKept
<1>0. UsesFit
  BY UsesAssumption DEF UsesFit
<1>1. RingInv => RingKept
  BY <1>0, SlotsAreKept DEF RingKept
<1> QED BY <1>0, <1>1, RingInvHolds, PTL DEF RingSpec
-----------------------------------------------------------------------------
(* The ring is a first-in first-out queue.                                 *)

AllValues == UNION {Ring!ValuesOf(u) : u \in Uses}

\* The values of the positions from t up to h, as the history cl has them.
Between(t, h, V, cl) == [k \in 1 .. h - t |-> CHOOSE v \in V : <<t + k - 1, v>> \in cl]

\* The positions from t up to h have a value each, and none from h on has.
Orderly(t, h, V, cl) ==
    /\ \A n \in Nat : t <= n /\ n < h => \E v \in V : <<n, v>> \in cl
    /\ \A n \in Nat, v, w \in V : <<n, v>> \in cl /\ <<n, w>> \in cl => v = w
    /\ \A n \in Nat, v \in V : <<n, v>> \in cl => n < h

\* What a dequeue in progress has found.
Found(c) == IF pc[c] = "move" THEN data[Ring!Slot(pos[c])]
            ELSE IF pc[c] \in {"destroy", "release"} THEN item[c]
            ELSE IF pc[c] = "false" THEN empty ELSE none

LEMMA OneMore ==
    ASSUME NEW S, NEW b \in Seq(S), NEW e \in S
    PROVE  /\ Append(b, e) \in Seq(S) /\ Len(b) \in Nat /\ Len(Append(b, e)) = Len(b) + 1
           /\ \A i \in 1 .. Len(b) : Append(b, e)[i] = b[i]
           /\ Append(b, e)[Len(b) + 1] = e
  OBVIOUS

LEMMA OneLess ==
    ASSUME NEW S, NEW b \in Seq(S), b # <<>>
    PROVE  /\ Head(b) = b[1] /\ Tail(b) \in Seq(S) /\ Len(Tail(b)) = Len(b) - 1
           /\ \A i \in 1 .. Len(b) - 1 : Tail(b)[i] = b[i + 1]
<1>1. Len(b) \in Nat /\ Len(b) > 0
  OBVIOUS
<1>2. Head(b) = b[1]
  BY <1>1
<1>3. Tail(b) \in Seq(S) /\ Len(Tail(b)) = Len(b) - 1
  BY <1>1
<1>4. \A i \in 1 .. Len(b) - 1 : Tail(b)[i] = b[i + 1]
  BY <1>1
<1> QED BY <1>2, <1>3, <1>4

LEMMA BetweenIs ==
    ASSUME NEW t \in Nat, NEW h \in Nat, t <= h, NEW V, NEW cl,
           \A n \in Nat : t <= n /\ n < h => \E v \in V : <<n, v>> \in cl
    PROVE  /\ Between(t, h, V, cl) \in Seq(V) /\ Len(Between(t, h, V, cl)) = h - t
           /\ \A k \in 1 .. h - t : <<t + k - 1, Between(t, h, V, cl)[k]>> \in cl
<1>1. h - t \in Nat
  OBVIOUS
<1>2. PICK s : s = Between(t, h, V, cl)
  OBVIOUS
<1>3. ASSUME NEW k \in 1 .. h - t PROVE s[k] \in V /\ <<t + k - 1, s[k]>> \in cl
  <2>1. PICK n \in Nat : n = t + k - 1
    OBVIOUS
  <2>2. s[k] = CHOOSE v \in V : <<n, v>> \in cl
    BY <1>2, <2>1 DEF Between
  <2>3. \E v \in V : <<n, v>> \in cl
    BY <2>1
  <2> QED BY <2>1, <2>2, <2>3
<1>4. s \in [1 .. h - t -> V]
  <2>1. \A k \in 1 .. h - t : (CHOOSE v \in V : <<t + k - 1, v>> \in cl) \in V
    BY <1>2, <1>3 DEF Between
  <2>2. [k \in 1 .. h - t |-> CHOOSE v \in V : <<t + k - 1, v>> \in cl] \in [1 .. h - t -> V]
    BY ONLY <2>1, Zenon
  <2> QED BY <1>2, <2>2 DEF Between
<1>5. s \in Seq(V)
  BY <1>1, <1>4, SeqDef
<1>6. Len(s) = h - t
  <2>1. DOMAIN s = 1 .. h - t
    BY <1>4
  <2> QED BY <1>1, <1>5, <2>1
<1> QED BY <1>2, <1>3, <1>5, <1>6

LEMMA BetweenGrows ==
    ASSUME NEW t \in Nat, NEW h \in Nat, t <= h, NEW V, NEW cl, NEW x \in V, Orderly(t, h, V, cl),
           NEW g, g = h + 1, NEW c2, c2 = cl \cup {<<h, x>>}
    PROVE  Between(t, g, V, c2) = Append(Between(t, h, V, cl), x)
<1>0. /\ \A n \in Nat : t <= n /\ n < h => \E v \in V : <<n, v>> \in cl
      /\ \A n \in Nat, v, w \in V : <<n, v>> \in cl /\ <<n, w>> \in cl => v = w
      /\ \A n \in Nat, v \in V : <<n, v>> \in cl => n < h
  BY DEF Orderly
<1>1. g = h + 1 /\ c2 = cl \cup {<<h, x>>}
  OBVIOUS
<1>2. PICK s, u, a : s = Between(t, h, V, cl) /\ u = Between(t, g, V, c2) /\ a = Append(s, x)
  OBVIOUS
<1>3. s \in Seq(V) /\ Len(s) = h - t /\ \A k \in 1 .. h - t : <<t + k - 1, s[k]>> \in cl
  BY <1>0, <1>2, BetweenIs
<1>4. u \in Seq(V) /\ Len(u) = g - t /\ \A k \in 1 .. g - t : <<t + k - 1, u[k]>> \in c2
  <2>1. g \in Nat /\ t <= g
    BY <1>1
  <2>2. ASSUME NEW n \in Nat, t <= n, n < g PROVE \E v \in V : <<n, v>> \in c2
    <3>1. CASE n = h
      BY <1>1, <3>1
    <3>2. CASE n # h
      <4>1. n < h
        BY <1>1, <2>2, <3>2
      <4>2. PICK v \in V : <<n, v>> \in cl
        BY <1>0, <2>2, <4>1
      <4> QED BY <1>1, <4>2
    <3> QED BY <3>1, <3>2
  <2> QED BY <1>2, <2>1, <2>2, BetweenIs
<1>5. /\ a \in Seq(V) /\ Len(a) = Len(s) + 1 /\ a[Len(s) + 1] = x
      /\ \A i \in 1 .. Len(s) : a[i] = s[i]
  BY <1>2, <1>3, OneMore
<1>6. ASSUME NEW i \in 1 .. Len(u) PROVE u[i] = a[i]
  <2>1. i \in 1 .. g - t /\ u[i] \in V /\ <<t + i - 1, u[i]>> \in c2
    BY <1>4
  <2>2. PICK n \in Nat : n = t + i - 1
    BY <2>1
  <2>3. CASE n = h
    <3>1. i = Len(s) + 1
      BY <1>1, <1>3, <2>1, <2>2, <2>3
    <3>2. <<h, u[i]>> \notin cl
      BY <1>0, <2>1
    <3>3. u[i] = x
      BY <1>1, <2>1, <2>2, <2>3, <3>2
    <3> QED BY <1>5, <3>1, <3>3
  <2>4. CASE n # h
    <3>1. i \in 1 .. h - t
      BY <1>1, <2>1, <2>2, <2>4
    <3>2. <<n, s[i]>> \in cl /\ s[i] \in V
      BY <1>3, <2>2, <3>1
    <3>3. <<n, u[i]>> \in cl
      BY <1>1, <2>1, <2>2, <2>4
    <3>4. a[i] = s[i]
      BY <1>3, <1>5, <3>1
    <3> QED BY <1>0, <2>1, <2>2, <3>2, <3>3, <3>4
  <2> QED BY <2>3, <2>4
<1>7. Len(u) = Len(a)
  BY <1>1, <1>3, <1>4, <1>5
<1>8. u = a
  BY ONLY <1>4, <1>5, <1>6, <1>7, SeqEqual
<1> QED BY <1>1, <1>2, <1>8

LEMMA BetweenShrinks ==
    ASSUME NEW t \in Nat, NEW h \in Nat, t < h, NEW V, NEW cl, NEW x \in V, <<t, x>> \in cl,
           Orderly(t, h, V, cl)
    PROVE  /\ Between(t, h, V, cl) # <<>> /\ Head(Between(t, h, V, cl)) = x
           /\ Between(t + 1, h, V, cl) = Tail(Between(t, h, V, cl))
<1>0. /\ \A n \in Nat : t <= n /\ n < h => \E v \in V : <<n, v>> \in cl
      /\ \A n \in Nat, v, w \in V : <<n, v>> \in cl /\ <<n, w>> \in cl => v = w
      /\ \A n \in Nat, v \in V : <<n, v>> \in cl => n < h
  BY DEF Orderly
<1>1. PICK r \in Nat : r = t + 1
  OBVIOUS
<1>2. PICK s, u, a : s = Between(t, h, V, cl) /\ u = Between(r, h, V, cl) /\ a = Tail(s)
  OBVIOUS
<1>3. s \in Seq(V) /\ Len(s) = h - t /\ \A k \in 1 .. h - t : <<t + k - 1, s[k]>> \in cl
  <2>1. t <= h
    OBVIOUS
  <2> QED BY <1>0, <1>2, <2>1, BetweenIs
<1>4. u \in Seq(V) /\ Len(u) = h - r /\ \A k \in 1 .. h - r : <<r + k - 1, u[k]>> \in cl
  <2>1. r <= h /\ \A n \in Nat : r <= n /\ n < h => \E v \in V : <<n, v>> \in cl
    BY <1>0, <1>1
  <2> QED BY <1>2, <2>1, BetweenIs
<1>5. s # <<>>
  <2>1. Len(s) # 0
    BY <1>3
  <2> QED BY <2>1
<1>6. /\ Head(s) = s[1] /\ a \in Seq(V) /\ Len(a) = Len(s) - 1
      /\ \A i \in 1 .. Len(s) - 1 : a[i] = s[i + 1]
  BY <1>2, <1>3, <1>5, OneLess
<1>7. s[1] = x
  <2>1. 1 \in 1 .. h - t /\ t + 1 - 1 = t
    OBVIOUS
  <2>2. <<t, s[1]>> \in cl /\ s[1] \in V
    BY <1>3, <2>1
  <2> QED BY <1>0, <2>2
<1>8. ASSUME NEW i \in 1 .. Len(u) PROVE u[i] = a[i]
  <2>1. i \in 1 .. h - r /\ u[i] \in V /\ <<r + i - 1, u[i]>> \in cl
    BY <1>4
  <2>2. PICK j \in Nat : j = i + 1
    BY <2>1
  <2>3. j \in 1 .. h - t /\ t + j - 1 = r + i - 1 /\ r + i - 1 \in Nat /\ i \in 1 .. Len(s) - 1
    BY <1>1, <1>3, <2>1, <2>2
  <2>4. <<r + i - 1, s[j]>> \in cl /\ s[j] \in V
    BY <1>3, <2>3
  <2>5. a[i] = s[j]
    BY <1>6, <2>2, <2>3
  <2> QED BY <1>0, <2>1, <2>3, <2>4, <2>5
<1>9. Len(u) = Len(a)
  BY <1>1, <1>3, <1>4, <1>6
<1>10. u = a
  BY ONLY <1>4, <1>6, <1>8, <1>9, SeqEqual
<1> QED BY <1>1, <1>2, <1>5, <1>6, <1>7, <1>10

LEMMA NoneBetween == ASSUME NEW t \in Nat, NEW V, NEW cl PROVE Between(t, t, V, cl) = <<>>
<1>1. PICK s : s = Between(t, t, V, cl)
  OBVIOUS
<1>2. s \in Seq(V) /\ Len(s) = 0
  BY <1>1, BetweenIs
<1> QED BY <1>1, <1>2

\* What the history says, in the form in which Between uses it.
LEMMA HistoryIs ==
    ASSUME UsesFit, RingInv
    PROVE  /\ Orderly(tail_, head_, Ring!Values, claims)
           /\ Ring!Queue = Between(tail_, head_, Ring!Values, claims)
BY DEF RingInv, Claimed, Ring!Queue, Between, Orderly

LEMMA QueueNext == Ring!Queue' = Between(tail_', head_', Ring!Values', claims')
BY DEF Ring!Queue, Between

LEMMA QueueKept == ASSUME UNCHANGED <<use, head_, tail_, claims>> PROVE Ring!Queue' = Ring!Queue
<1>1. Ring!Values' = Ring!Values
  BY UseKept
<1> QED BY <1>1 DEF Ring!Queue

LEMMA OthersFound ==
    ASSUME UsesFit, RingInv, NEW t, RingOnly(t), NEW c \in Consumers, c # t,
           Emptying(c) => data'[Ring!Slot(pos[c])] = data[Ring!Slot(pos[c])]
    PROVE  Found(c)' = Found(c)
<1>1. pc'[c] = pc[c] /\ pos'[c] = pos[c] /\ item'[c] = item[c] /\ use' = use
  BY Numbers DEF RingOnly
<1>2. Ring!Slot(pos[c])' = Ring!Slot(pos[c])
  BY <1>1 DEF Ring!Slot
<1>3. pc[c] = "move" => data'[Ring!Slot(pos[c])'] = data[Ring!Slot(pos[c])]
  BY <1>2 DEF Emptying
<1> QED BY <1>1, <1>3 DEF Found

\* A step that neither adds a value nor takes one, and after which every dequeue
\* has found what it had found.
LEMMA FifoStutters ==
    ASSUME UNCHANGED <<use, head_, tail_, claims, out>>,
           \A c \in Consumers : Found(c)' = Found(c)
    PROVE  UNCHANGED Ring!Fifo!vars
<1>2. Ring!Queue' = Ring!Queue
  BY QueueKept
<1>3. [c \in Consumers |-> Found(c)]' = [c \in Consumers |-> Found(c)]
  OBVIOUS
<1> QED BY <1>2, <1>3 DEF Ring!Fifo!vars, Found

LEMMA ProducerRefines ==
    ASSUME UsesFit, RingInv, NEW p \in Producers, Ring!Producer(p)
    PROVE  [Ring!Fifo!Next]_(Ring!Fifo!vars)
<1>1. \A c \in Consumers : c # p
  BY Numbers
<1>2. CASE Ring!LoadHead(p) \/ Ring!LoadStamp(p) \/ Ring!Publish(p) \/ (Ring!ClaimHead(p) /\ head_ # pos[p])
  <2>1. UNCHANGED <<use, data, head_, tail_, claims, out, item>>
    BY <1>2 DEF Ring!LoadHead, Ring!LoadStamp, Ring!Publish, Ring!ClaimHead
  <2>2. RingOnly(p)
    BY <1>2 DEF Ring!LoadHead, Ring!LoadStamp, Ring!Publish, Ring!ClaimHead, Ring!Goto, RingOnly, RingInv, Ring!TypeOK
  <2>3. \A c \in Consumers : Found(c)' = Found(c)
    BY <1>1, <2>1, <2>2, OthersFound
  <2> QED BY <2>1, <2>3, FifoStutters
<1>3. CASE Ring!Construct(p)
  <2>1. UNCHANGED <<use, head_, tail_, claims, out>> /\ pc[p] = "construct"
        /\ data' = [data EXCEPT ![Ring!Slot(pos[p])] = Ring!Value(p)]
    BY <1>3 DEF Ring!Construct
  <2>2. RingOnly(p)
    BY <1>3 DEF Ring!Construct, Ring!Goto, RingOnly, RingInv, Ring!TypeOK
  <2>3. ASSUME NEW c \in Consumers, Emptying(c) PROVE data'[Ring!Slot(pos[c])] = data[Ring!Slot(pos[c])]
    <3>1. Ring!Slot(pos[p]) # Ring!Slot(pos[c])
      BY <2>1, <2>3, HeldSlots DEF Filling
    <3> QED BY <2>1, <3>1, Numbers DEF RingInv, Ring!TypeOK
  <2>4. \A c \in Consumers : Found(c)' = Found(c)
    BY <1>1, <2>2, <2>3, OthersFound
  <2> QED BY <2>1, <2>4, FifoStutters
<1>4. CASE Ring!ClaimHead(p) /\ head_ = pos[p]
  <2>1. PICK h, t, v, V : h \in Nat /\ t \in Nat /\ h = head_ /\ t = tail_ /\ v = Ring!Value(p) /\ V = Ring!Values /\ t <= h
    BY Numbers
  <2>2. /\ head_' = h + 1 /\ tail_' = t /\ claims' = claims \cup {<<h, v>>}
        /\ UNCHANGED <<use, data, out>> /\ RingOnly(p) /\ pc[p] = "cas"
    BY <1>4, <2>1, WinsHead
  <2>3. v \in V /\ Ring!Values' = V
    <3>1. ~ Filling(p) /\ sent[p] < use.items[p]
      BY <2>2 DEF Filling, RingInv, Roles
    <3> QED BY <2>1, <2>2, <3>1, ValueLeft, UseKept DEF RingInv
  <2>4. Ring!Queue = Between(t, h, V, claims) /\ Ring!Queue' = Between(t, head_', V, claims')
    BY <2>1, <2>2, <2>3, HistoryIs, QueueNext
  <2>5. Between(t, head_', V, claims') = Append(Between(t, h, V, claims), v)
    <3>1. h \in Nat /\ t \in Nat /\ t <= h /\ v \in V /\ Orderly(t, h, V, claims)
      BY <2>1, <2>3, HistoryIs
    <3> QED BY ONLY <2>2, <3>1, BetweenGrows
  <2>6. \A c \in Consumers : Found(c)' = Found(c)
    BY <1>1, <2>2, OthersFound
  <2>7. [c \in Consumers |-> Found(c)]' = [c \in Consumers |-> Found(c)]
    BY <2>6
  <2>8. Ring!Queue' = Append(Ring!Queue, v)
    BY <2>4, <2>5
  <2>9. Ring!Fifo!Enqueue(v)
    BY <2>2, <2>7, <2>8 DEF Ring!Fifo!Enqueue, Found
  <2>10. v \in AllValues
    BY <2>1, <2>3, Numbers DEF Ring!Values, AllValues
  <2> QED BY <2>9, <2>10 DEF Ring!Fifo!Next, AllValues
<1> QED BY <1>2, <1>3, <1>4 DEF Ring!Producer

LEMMA ConsumerRefines ==
    ASSUME UsesFit, RingInv, NEW c \in Consumers, Ring!Consumer(c)
    PROVE  [Ring!Fifo!Next]_(Ring!Fifo!vars)
<1> DEFINE taken == [d \in Consumers |-> Found(d)]
<1>1. ASSUME NEW d \in Consumers, d # c, RingOnly(c), UNCHANGED data PROVE Found(d)' = Found(d)
  BY <1>1, OthersFound
<1>2. RingOnly(c)
  BY DEF Ring!Consumer, Ring!LoadTail, Ring!LoadStampOfData, Ring!TestEmpty, Ring!ReturnFalse, Ring!ClaimTail, Ring!MoveOut, Ring!Destroy,
         Ring!Release, Ring!Goto, RingOnly, RingInv, Ring!TypeOK
<1>3. \A x : pc' = [pc EXCEPT ![c] = x] => pc'[c] = x
  BY Numbers DEF RingInv, Ring!TypeOK
<1>4. ASSUME Found(c)' # Found(c), UNCHANGED data PROVE taken' = [taken EXCEPT ![c] = Found(c)']
  BY <1>1, <1>2, <1>4
<1>5. CASE Ring!LoadTail(c) \/ Ring!LoadStampOfData(c) \/ (Ring!ClaimTail(c) /\ tail_ # pos[c])
           \/ (Ring!TestEmpty(c) /\ ~ head_ <= pos[c])
  <2>1. UNCHANGED <<use, data, head_, tail_, claims, out>>
    BY <1>5 DEF Ring!LoadTail, Ring!LoadStampOfData, Ring!ClaimTail, Ring!TestEmpty
  <2>2. pc[c] \in {"tail", "stamp", "cas", "empty"} /\ pc'[c] \in {"tail", "stamp", "cas", "empty"}
    BY <1>3, <1>5 DEF Ring!LoadTail, Ring!LoadStampOfData, Ring!ClaimTail, Ring!TestEmpty, Ring!Goto
  <2>3. Found(c) = none /\ Found(c)' = none
    BY <2>2 DEF Found
  <2>4. \A d \in Consumers : Found(d)' = Found(d)
    BY <1>1, <1>2, <2>1, <2>3
  <2> QED BY <2>1, <2>4, FifoStutters
<1>6. CASE Ring!TestEmpty(c) /\ head_ <= pos[c]
  <2>1. UNCHANGED <<use, data, head_, tail_, claims, out>> /\ pc[c] = "empty" /\ pc'[c] = "false"
    BY <1>3, <1>6 DEF Ring!TestEmpty, Ring!Goto
  <2>2. Found(c) = none /\ Found(c)' = empty /\ none # empty
    BY <2>1, Numbers, Different DEF Found
  <2>3. head_ = tail_
    BY <1>6, Numbers DEF RingInv, Roles
  <2>4. Ring!Queue = <<>>
    BY <2>3, HistoryIs, NoneBetween, Numbers
  <2>5. Ring!Queue' = Ring!Queue
    BY <2>1, QueueKept
  <2>6. taken[c] = none /\ taken' = [taken EXCEPT ![c] = empty]
    BY <1>4, <2>1, <2>2
  <2>7. Ring!Fifo!FindEmpty(c)
    BY <2>1, <2>4, <2>5, <2>6 DEF Ring!Fifo!FindEmpty, Found
  <2> QED BY <2>7 DEF Ring!Fifo!Next
<1>7. CASE Ring!ReturnFalse(c)
  <2>1. UNCHANGED <<use, data, head_, tail_, claims>> /\ pc[c] = "false" /\ pc'[c] = "tail"
        /\ out' = [out EXCEPT ![c] = empty]
    BY <1>3, <1>7 DEF Ring!ReturnFalse, Ring!Goto
  <2>2. Found(c) = empty /\ Found(c)' = none /\ none # empty
    BY <2>1, Numbers, Different DEF Found
  <2>3. Ring!Queue' = Ring!Queue
    BY <2>1, QueueKept
  <2>4. taken[c] = empty /\ taken' = [taken EXCEPT ![c] = none]
    BY <1>4, <2>1, <2>2
  <2>5. Ring!Fifo!Return(c)
    BY <2>1, <2>2, <2>3, <2>4 DEF Ring!Fifo!Return, Found
  <2> QED BY <2>5 DEF Ring!Fifo!Next
<1>8. CASE Ring!ClaimTail(c) /\ tail_ = pos[c]
  <2>1. PICK h, t, V, v :
          h \in Nat /\ t \in Nat /\ h = head_ /\ t = tail_ /\ V = Ring!Values /\ v = data[Ring!Slot(tail_)]
    BY Numbers
  <2>2. /\ pc[c] = "cas" /\ pc'[c] = "move" /\ tail_' = t + 1 /\ head_' = h /\ t < h
        /\ <<t, v>> \in claims /\ UNCHANGED <<use, data, pos, out, claims>>
    BY <1>8, <2>1, WinsTail
  <2>3. v \in V /\ Ring!Values' = V
    BY <2>1, <2>2, UseKept DEF RingInv, Ring!TypeOK
  <2>4. Found(c) = none /\ Found(c)' = v /\ v # none
    <3>1. Found(c)' = v
      BY <1>8, <2>1, <2>2, UseKept DEF Found
    <3> QED BY <2>1, <2>2, <2>3, <3>1, Numbers, Different DEF Found
  <2>5. Ring!Queue = Between(t, h, V, claims) /\ Ring!Queue' = Between(t + 1, h, V, claims)
    BY <2>1, <2>2, <2>3, HistoryIs, QueueNext
  <2>6. /\ Between(t, h, V, claims) # <<>> /\ Head(Between(t, h, V, claims)) = v
        /\ Between(t + 1, h, V, claims) = Tail(Between(t, h, V, claims))
    <3>1. /\ h \in Nat /\ t \in Nat /\ t < h /\ v \in V /\ <<t, v>> \in claims
          /\ Orderly(t, h, V, claims)
      BY <2>1, <2>2, <2>3, HistoryIs
    <3> QED BY ONLY <3>1, BetweenShrinks
  <2>7. taken[c] = none /\ taken' = [taken EXCEPT ![c] = v]
    BY <1>4, <2>2, <2>4
  <2>8. Ring!Queue # <<>> /\ Head(Ring!Queue) = v /\ Ring!Queue' = Tail(Ring!Queue)
    BY <2>5, <2>6
  <2>9. Ring!Fifo!Take(c)
    BY <2>2, <2>7, <2>8 DEF Ring!Fifo!Take, Found
  <2> QED BY <2>9 DEF Ring!Fifo!Next
<1>9. CASE Ring!MoveOut(c)
  <2>1. UNCHANGED <<use, data, head_, tail_, claims, out>> /\ pc[c] = "move" /\ pc'[c] = "destroy"
        /\ item'[c] = data[Ring!Slot(pos[c])]
    <3>1. c \in DOMAIN item
      BY DEF RingInv, Ring!TypeOK
    <3> QED BY <1>3, <1>9, <3>1 DEF Ring!MoveOut, Ring!Goto
  <2>2. Found(c)' = Found(c)
    BY <2>1 DEF Found
  <2>3. \A d \in Consumers : Found(d)' = Found(d)
    BY <1>1, <1>2, <2>1, <2>2
  <2> QED BY <2>1, <2>3, FifoStutters
<1>10. CASE Ring!Destroy(c)
  <2>1. UNCHANGED <<use, head_, tail_, claims, out, item>> /\ pc[c] = "destroy" /\ pc'[c] = "release"
        /\ data' = [data EXCEPT ![Ring!Slot(pos[c])] = raw]
    BY <1>3, <1>10 DEF Ring!Destroy, Ring!Goto
  <2>2. Found(c)' = Found(c)
    BY <2>1 DEF Found
  <2>3. ASSUME NEW d \in Consumers, d # c, Emptying(d) PROVE data'[Ring!Slot(pos[d])] = data[Ring!Slot(pos[d])]
    <3>1. Ring!Slot(pos[c]) # Ring!Slot(pos[d])
      BY <2>1, <2>3, HeldSlots DEF Emptying
    <3> QED BY <2>1, <3>1, Numbers DEF RingInv, Ring!TypeOK
  <2>4. \A d \in Consumers : Found(d)' = Found(d)
    BY <1>2, <2>2, <2>3, OthersFound
  <2> QED BY <2>1, <2>4, FifoStutters
<1>11. CASE Ring!Release(c)
  <2>1. UNCHANGED <<use, data, head_, tail_, claims>> /\ pc[c] = "release" /\ pc'[c] = "tail"
        /\ out' = [out EXCEPT ![c] = item[c]]
    BY <1>3, <1>11 DEF Ring!Release, Ring!Goto
  <2>2. Found(c) = item[c] /\ Found(c)' = none /\ item[c] # none
    <3>1. <<pos[c], item[c]>> \in claims
      BY <2>1 DEF RingInv, EmptiesOf, Emptying
    <3>2. item[c] \in Ring!Values
      BY <3>1 DEF RingInv, Ring!TypeOK
    <3> QED BY <2>1, <3>2, Numbers, Different DEF Found
  <2>3. Ring!Queue' = Ring!Queue
    BY <2>1, QueueKept
  <2>4. taken[c] = item[c] /\ taken' = [taken EXCEPT ![c] = none]
    BY <1>4, <2>1, <2>2
  <2>5. Ring!Fifo!Return(c)
    BY <2>1, <2>2, <2>3, <2>4 DEF Ring!Fifo!Return, Found
  <2> QED BY <2>5 DEF Ring!Fifo!Next
<1> QED BY <1>5, <1>6, <1>7, <1>8, <1>9, <1>10, <1>11 DEF Ring!Consumer

LEMMA RingInitRefines ==
    ASSUME UsesFit, Ring!Init
    PROVE  Ring!Fifo!Init
<1>1. RingInv
  BY RingInit
<1>2. head_ = 0 /\ tail_ = 0 /\ out = [c \in Consumers |-> none] /\ \A c \in Consumers : pc[c] = "tail"
  BY Numbers, <1>1 DEF Ring!Init
<1>3. Ring!Queue = <<>>
  BY <1>1, <1>2, HistoryIs, NoneBetween
<1>4. \A c \in Consumers : Found(c) = none
  BY <1>2 DEF Found
<1>5. [c \in Consumers |-> Found(c)] = [c \in Consumers |-> none]
  BY <1>4
<1> QED BY <1>2, <1>3, <1>5 DEF Ring!Fifo!Init, Found

\* An enqueue of lockfree_mpmc_queue.hpp takes effect when it moves head_, a dequeue when
\* it moves tail_ or finds head_ not beyond its position.
THEOREM RingFifo ==
    ASSUME NoneLapped
    PROVE  RingSpec => RingIsFifo
<1>0. UsesFit
  BY UsesAssumption DEF UsesFit
<1>1. Ring!Init => Ring!Fifo!Init
  BY <1>0, RingInitRefines
<1>2. RingInv /\ [Ring!Next]_(Ring!vars) => [Ring!Fifo!Next]_(Ring!Fifo!vars)
  <2> SUFFICES ASSUME RingInv, [Ring!Next]_(Ring!vars) PROVE [Ring!Fifo!Next]_(Ring!Fifo!vars)
    OBVIOUS
  <2>1. CASE UNCHANGED Ring!vars
    <3>1. UNCHANGED <<use, data, head_, tail_, pc, pos, item, out, claims>>
      BY <2>1 DEF Ring!vars
    <3>2. \A c \in Consumers : Found(c)' = Found(c)
      BY <3>1 DEF Found, Ring!Slot
    <3> QED BY <3>1, <3>2, FifoStutters
  <2> QED BY <1>0, <2>1, ProducerRefines, ConsumerRefines DEF Ring!Next
<1> QED BY <1>0, <1>1, <1>2, RingInvHolds, PTL DEF RingSpec, Ring!Spec, RingIsFifo, Ring!FifoRefined, Ring!Fifo!Spec
=============================================================================
