---------------------------- MODULE DHeapProofs ----------------------------
(***************************************************************************)
(* The timer heap is a heap, and its index the watchers', for every number *)
(* of timers and both branching factors.                                   *)
(***************************************************************************)
EXTENDS DHeap, TLAPS
-----------------------------------------------------------------------------
(* The shape of the tree.                                                  *)

\* The parent of an entry lies before it.
LEMMA ParentBefore ==
    ASSUME NEW i \in Int, i > HEAP0
    PROVE  HPARENT(i) \in Int /\ HEAP0 <= HPARENT(i) /\ HPARENT(i) < i
<1>1. CASE DHEAP = 2
  BY <1>1 DEF HPARENT, HEAP0
<1>2. CASE DHEAP = 4
  BY <1>2 DEF HPARENT, HEAP0
<1> QED BY <1>1, <1>2, DHeapAssumption

\* downheap's children of i are the entries whose parent is i.
LEMMA ChildrenHaveParent ==
    ASSUME cnt \in Nat, NEW i \in Int, HEAP0 <= i, NEW j \in Int
    PROVE  j \in Children(i) <=> j \in Slots /\ j > HEAP0 /\ HPARENT(j) = i
<1>1. CASE DHEAP = 2
  BY <1>1 DEF HPARENT, HEAP0, Children, Slots
<1>2. CASE DHEAP = 4
  BY <1>2 DEF HPARENT, HEAP0, Children, Slots
<1> QED BY <1>1, <1>2, DHeapAssumption

LEMMA EntriesTimed == \A e \in Entry : e.at \in Int /\ e.w \in Watchers
BY DHeapAssumption DEF Entry

LEMMA HEAP0Type == HEAP0 \in Nat \ {0} /\ HEAP0 \in Int
BY DHeapAssumption DEF HEAP0
-----------------------------------------------------------------------------
(* One turn of a loop exchanges the held element with another.             *)

LEMMA MoveExchanges ==
    ASSUME HeapInv, pc # "idle", NEW i \in HEAP0 .. top - 1, i # k, Move(i)
    PROVE  /\ TypeOK' /\ Indexed' /\ Cached'
           /\ Slots' = Slots
           /\ Held' = [j \in Slots |-> IF j = i THEN he ELSE IF j = k THEN heap[i] ELSE heap[j]]
           /\ Held = [j \in Slots |-> IF j = k THEN he ELSE heap[j]]
<1> USE HEAP0Type
<1> USE DEF HeapInv
<1>1. Slots' = Slots /\ cnt' = cnt /\ pc' = pc /\ he' = he /\ top' = top /\ at' = at /\ k' = i
  BY DEF Move, Slots
<1>2. i \in Slots /\ k \in Slots /\ k \in Int /\ i \in Int
  BY DEF TypeOK, Slots
<1>3. heap' = [j \in Slots |-> IF j = k THEN heap[i] ELSE heap[j]]
  BY DEF Move, TypeOK
<1>4. Held = [j \in Slots |-> IF j = k THEN he ELSE heap[j]]
  BY DEF Held, TypeOK
<1>5. Held' = [j \in Slots |-> IF j = i THEN he ELSE IF j = k THEN heap[i] ELSE heap[j]]
  BY <1>1, <1>2, <1>3 DEF Held, Move
<1>6. heap[i] \in Entry /\ heap[i].w \in Watchers /\ he \in Entry /\ he.w \in Watchers
  BY <1>2 DEF TypeOK, Entry
<1>7. active' = [w \in Watchers |-> IF w = heap[i].w THEN k ELSE active[w]]
  BY <1>6 DEF Move, TypeOK
<1>8. TypeOK'
  BY <1>1, <1>2, <1>3, <1>6, <1>7 DEF TypeOK, Move
<1>9. heap[i].w # he.w
  BY <1>2, <1>4 DEF Indexed, IndexOf
<1>10. pc' # "idle" /\ k' = i /\ he' = he
  BY <1>1
<1>11. active[heap[i].w] = i /\ active[heap[i].w] # 0
  BY <1>2, <1>4, <1>9 DEF Indexed, IndexOf
<1>12. active'[he.w] # 0 /\ \A w \in Watchers : active'[w] # 0 <=> active[w] # 0
  <2>1. k # 0 /\ i # 0
    BY <1>2 DEF Slots
  <2>2. active[he.w] # 0
    BY DEF Indexed
  <2> QED BY <2>1, <2>2, <1>6, <1>7, <1>11
<1>13. ASSUME NEW j \in Slots PROVE (IndexOf(Held[j].w) = j /\ active[Held[j].w] # 0)'
  <2>1. Held'[j].w \in Watchers
    BY <1>5, <1>6 DEF TypeOK, Entry
  <2>2. CASE j = i
    BY <2>1, <2>2, <1>5, <1>10, <1>12 DEF IndexOf
  <2>3. CASE j = k /\ j # i
    BY <2>1, <2>3, <1>5, <1>7, <1>10, <1>12, <1>11, <1>9 DEF IndexOf
  <2>4. CASE j # k /\ j # i
    <3>1. Held'[j] = heap[j] /\ Held[j] = heap[j] /\ heap[j].w \in Watchers
      BY <2>4, <1>4, <1>5, <2>1
    <3>2. IndexOf(heap[j].w) = j /\ active[heap[j].w] # 0
      BY <3>1 DEF Indexed
    <3>3. heap[j].w # he.w /\ heap[j].w # heap[i].w
      BY <3>2, <2>4, <1>11 DEF IndexOf
    <3> QED BY <3>1, <3>2, <3>3, <1>7, <1>10, <1>12 DEF IndexOf
  <2> QED BY <2>2, <2>3, <2>4
<1>14. ASSUME NEW w \in Watchers, active'[w] # 0 PROVE (IndexOf(w) \in Slots /\ Held[IndexOf(w)].w = w)'
  <2>1. CASE w = he.w
    BY <2>1, <1>1, <1>10, <1>2, <1>5 DEF IndexOf
  <2>2. CASE w = heap[i].w
    BY <2>2, <1>1, <1>7, <1>9, <1>10, <1>2, <1>5 DEF IndexOf
  <2>3. CASE w # he.w /\ w # heap[i].w
    <3>1. IndexOf(w) = active[w] /\ active[w] \in Slots /\ Held[active[w]].w = w
      BY <2>3, <1>12, <1>14 DEF Indexed, IndexOf
    <3>2. active[w] # k /\ active[w] # i
      BY <3>1, <2>3, <1>4, <1>2
    <3> QED BY <3>1, <3>2, <2>3, <1>1, <1>7, <1>10, <1>5, <1>4 DEF IndexOf
  <2> QED BY <2>1, <2>2, <2>3
<1>15. Indexed'
  BY <1>1, <1>12, <1>13, <1>14 DEF Indexed
<1>16. Cached'
  <2> SUFFICES ASSUME NEW j \in Slots PROVE Held'[j].at = at[Held'[j].w]
    BY <1>1 DEF Cached
  <2>1. Held[i] = heap[i] /\ Held[k] = he /\ (j # k => Held[j] = heap[j])
    BY <1>2, <1>4
  <2> QED BY <2>1, <1>2, <1>5 DEF Cached
<1> QED BY <1>1, <1>4, <1>5, <1>8, <1>15, <1>16

LEMMA UpMoveKeeps ==
    ASSUME HeapInv, UpMove
    PROVE  HeapInv'
<1> USE HEAP0Type
<1>1. pc = "up" /\ k # HEAP0 /\ heap[HPARENT(k)].at > he.at /\ Move(HPARENT(k))
  BY DEF UpMove, UpGoesOn
<1>2. k \in HEAP0 .. top - 1 /\ k \in Int /\ k > HEAP0 /\ top \in Int /\ cnt \in Nat /\ top <= cnt + HEAP0
  BY <1>1 DEF HeapInv, TypeOK
<1> DEFINE q == HPARENT(k)
<1>3. PICK p \in Int : p = q
  BY <1>2, ParentBefore
<1> HIDE DEF q
<1>4. HPARENT(k) = p /\ p < k /\ HEAP0 <= p
  BY <1>2, <1>3, ParentBefore DEF q
<1>5. p \in HEAP0 .. top - 1 /\ p # k /\ Move(p) /\ heap[p].at > he.at
  BY <1>1, <1>2, <1>4
<1>6. /\ TypeOK' /\ Indexed' /\ Cached'
      /\ Slots' = Slots
      /\ Held' = [j \in Slots |-> IF j = p THEN he ELSE IF j = k THEN heap[p] ELSE heap[j]]
      /\ Held = [j \in Slots |-> IF j = k THEN he ELSE heap[j]]
  BY <1>1, <1>5, MoveExchanges
<1>7. pc' = "up" /\ top' = top /\ cnt' = cnt /\ k' = p
  BY <1>1, <1>5 DEF Move
<1>8. \A j \in HEAP0 .. top - 1 : j \in Slots /\ heap[j].at \in Int /\ he.at \in Int
  BY <1>2, EntriesTimed DEF HeapInv, TypeOK, Slots
<1>9. ASSUME NEW i \in HEAP0 + 1 .. top - 1
      PROVE  i \in Int /\ i \in HEAP0 .. top - 1 /\ i \in Slots /\ HPARENT(i) \in HEAP0 .. top - 1 /\ HPARENT(i) < i
  BY <1>2, <1>8, ParentBefore
<1>10. ASSUME NEW i \in HEAP0 + 1 .. top - 1
       PROVE  /\ i # k => Held[HPARENT(i)].at <= Held[i].at
              /\ HPARENT(i) = k => Held[p].at <= Held[i].at
  BY <1>1, <1>2, <1>4 DEF HeapInv, Ordered, Limit
<1>11. ASSUME NEW i \in HEAP0 + 1 .. top - 1, i # p
       PROVE  Held'[HPARENT(i)].at <= Held'[i].at
  <2>1. CASE i = k
    BY <2>1, <1>4, <1>5, <1>6, <1>8, <1>9
  <2>2. CASE i # k /\ HPARENT(i) = k
    BY <2>2, <1>2, <1>4, <1>5, <1>6, <1>8, <1>9, <1>10, <1>11
  <2>3. CASE i # k /\ HPARENT(i) = p
    <3>1. Held[p] = heap[p] /\ Held[i] = heap[i] /\ Held'[p] = he /\ Held'[i] = heap[i]
      BY <2>3, <1>5, <1>6, <1>8, <1>9, <1>11
    <3>2. heap[p].at <= heap[i].at
      BY <2>3, <3>1, <1>10
    <3> QED BY <2>3, <3>1, <3>2, <1>5, <1>8, <1>9
  <2>4. CASE i # k /\ HPARENT(i) # k /\ HPARENT(i) # p
    BY <2>4, <1>6, <1>8, <1>9, <1>10, <1>11
  <2> QED BY <2>1, <2>2, <2>3, <2>4
<1>12. ASSUME p # HEAP0, NEW i \in HEAP0 + 1 .. top - 1, HPARENT(i) = p
       PROVE  Held'[HPARENT(p)].at <= Held'[i].at
  <2>1. p \in HEAP0 + 1 .. top - 1 /\ HPARENT(p) < p /\ HPARENT(p) \in HEAP0 .. top - 1
    BY <1>5, <1>12, <1>9
  <2>2. Held'[HPARENT(p)] = heap[HPARENT(p)] /\ heap[HPARENT(p)].at <= heap[p].at
    BY <2>1, <1>4, <1>5, <1>6, <1>8, <1>10
  <2>3. CASE i = k
    BY <2>1, <2>2, <2>3, <1>5, <1>6, <1>9
  <2>4. CASE i # k
    BY <2>1, <2>2, <2>4, <1>4, <1>5, <1>6, <1>8, <1>9, <1>10, <1>12
  <2> QED BY <2>3, <2>4
<1>13. Ordered'
  BY <1>7, <1>11, <1>12 DEF Ordered, Limit, HPARENT, HEAP0
<1> QED BY <1>6, <1>13 DEF HeapInv

LEMMA DownMoveKeeps ==
    ASSUME HeapInv, DownMove
    PROVE  HeapInv'
<1> USE HEAP0Type
<1>1. pc = "down" /\ top = cnt + HEAP0 /\ cnt \in Nat /\ k \in HEAP0 .. top - 1 /\ k \in Int /\ top \in Int
  BY DEF DownMove, DownGoesOn, HeapInv, TypeOK
<1>2. PICK m \in Children(k) : /\ heap[m].at < he.at
                               /\ \A j \in Children(k) : heap[m].at <= heap[j].at
                               /\ Move(m)
  <2>1. PICK m \in Children(k) : /\ heap[m].at < he.at
                                 /\ \A j \in Children(k) : heap[m].at < heap[j].at \/ (heap[m].at = heap[j].at /\ m <= j)
                                 /\ Move(m)
    BY DEF DownMove
  <2>2. \A j \in Children(k) : heap[j].at \in Int
    BY EntriesTimed DEF HeapInv, TypeOK, Children
  <2> QED BY <2>1, <2>2
<1>3. \A j \in Int : j \in Children(k) <=> j \in HEAP0 + 1 .. top - 1 /\ HPARENT(j) = k
  BY <1>1, ChildrenHaveParent DEF Slots
<1>4. m \in HEAP0 + 1 .. top - 1 /\ m \in Int /\ HPARENT(m) = k /\ k < m
  BY <1>1, <1>2, <1>3, ParentBefore DEF Children, Slots
<1>5. m \in HEAP0 .. top - 1 /\ m # k /\ k \in HEAP0 .. top - 1
  BY <1>1, <1>4
<1>6. /\ TypeOK' /\ Indexed' /\ Cached'
      /\ Slots' = Slots
      /\ Held' = [j \in Slots |-> IF j = m THEN he ELSE IF j = k THEN heap[m] ELSE heap[j]]
      /\ Held = [j \in Slots |-> IF j = k THEN he ELSE heap[j]]
  BY <1>1, <1>2, <1>5, MoveExchanges
<1>7. pc' = "down" /\ top' = top /\ cnt' = cnt /\ k' = m
  BY <1>1, <1>2 DEF Move
<1>8. \A j \in HEAP0 .. top - 1 : j \in Slots /\ heap[j].at \in Int /\ he.at \in Int
  BY <1>1, EntriesTimed DEF HeapInv, TypeOK, Slots
<1>9. ASSUME NEW i \in HEAP0 + 1 .. top - 1
      PROVE  i \in Int /\ i \in HEAP0 .. top - 1 /\ i \in Slots /\ HPARENT(i) \in HEAP0 .. top - 1 /\ HPARENT(i) < i
  BY <1>1, <1>8, ParentBefore
<1>10. ASSUME NEW i \in HEAP0 + 1 .. top - 1
       PROVE  /\ HPARENT(i) # k => Held[HPARENT(i)].at <= Held[i].at
              /\ k # HEAP0 /\ HPARENT(i) = k => Held[HPARENT(k)].at <= Held[i].at
  BY <1>1 DEF HeapInv, Ordered, Limit
<1>11. ASSUME NEW i \in HEAP0 + 1 .. top - 1, HPARENT(i) # m
       PROVE  Held'[HPARENT(i)].at <= Held'[i].at
  <2>1. CASE i = m
    BY <2>1, <1>2, <1>4, <1>5, <1>6, <1>8, <1>9
  <2>2. CASE i # m /\ HPARENT(i) = k
    <3>1. i \in Children(k) /\ i # k
      BY <2>2, <1>3, <1>9
    <3> QED BY <2>2, <3>1, <1>2, <1>5, <1>6, <1>8, <1>9
  <2>3. CASE i = k
    <3>1. k # HEAP0 /\ k \in HEAP0 + 1 .. top - 1
      BY <2>3, <1>11
    <3>2. Held[HPARENT(k)].at <= Held[m].at
      BY <3>1, <1>4, <1>10
    <3>3. HPARENT(k) \in Slots /\ HPARENT(k) # k /\ HPARENT(k) # m
      BY <3>1, <1>4, <1>8, <1>9
    <3> QED BY <2>3, <3>2, <3>3, <1>5, <1>6, <1>8
  <2>4. CASE i # m /\ i # k /\ HPARENT(i) # k
    BY <2>4, <1>6, <1>8, <1>9, <1>10, <1>11
  <2> QED BY <2>1, <2>2, <2>3, <2>4
<1>12. ASSUME NEW i \in HEAP0 + 1 .. top - 1, HPARENT(i) = m
       PROVE  Held'[HPARENT(m)].at <= Held'[i].at
  <2>1. i # m /\ i # k /\ HPARENT(i) # k
    BY <1>4, <1>9, <1>12
  <2> QED BY <2>1, <1>4, <1>5, <1>6, <1>8, <1>9, <1>10, <1>12
<1>13. Ordered'
  BY <1>7, <1>11, <1>12 DEF Ordered, Limit, HPARENT, HEAP0
<1> QED BY <1>6, <1>13 DEF HeapInv

-----------------------------------------------------------------------------
(* An operation leaves an array that is a heap but for one entry, and hands  *)
(* that entry to a loop.                                                     *)

\* In array h, the entries name their watchers and the watchers their entries,
\* given what active and at are to be, and entry i is held.
Named(h, i) ==
    /\ h \in [Slots' -> Entry]
    /\ \A j \in Slots' : /\ (IF h[j].w = h[i].w THEN i ELSE active'[h[j].w]) = j
                         /\ active'[h[j].w] # 0
                         /\ h[j].at = at'[h[j].w]
    /\ \A w \in Watchers : active'[w] # 0 => \E j \in Slots' : h[j].w = w

\* The first n - HEAP0 entries of h are in order, but for entry i.
InOrder(h, i, n, loop) ==
    /\ \A j \in HEAP0 + 1 .. n - 1 :
         \/ loop = "up" /\ j = i
         \/ loop = "down" /\ HPARENT(j) = i
         \/ h[HPARENT(j)].at <= h[j].at
    /\ i # HEAP0 => \A j \in HEAP0 + 1 .. n - 1 : HPARENT(j) = i => h[HPARENT(i)].at <= h[j].at

LEMMA GoStarts ==
    ASSUME NEW STATE h, NEW i \in Int, NEW n \in Int, NEW loop \in {"up", "down"},
           NEW c \in Nat, cnt' = c, Go(loop, h, i, n),
           at' \in [Watchers -> Times], active' \in [Watchers -> Nat],
           i \in HEAP0 .. n - 1, n <= c + HEAP0, loop = "down" => n = c + HEAP0,
           Named(h, i), InOrder(h, i, n, loop)
    PROVE  HeapInv'
<1> USE HEAP0Type
<1>1. heap' = h /\ pc' = loop /\ k' = i /\ he' = h[i] /\ top' = n
  BY DEF Go
<1>2. HEAP0' = HEAP0 /\ Entry' = Entry /\ Slots' = HEAP0 .. c + HEAP0 - 1
  BY DEF HEAP0, Entry, Slots
<1>3. i \in Slots'
  BY <1>2
<1>4. h[i] \in Entry
  BY <1>3 DEF Named
<1>5. Held' = h
  BY <1>1, <1>3 DEF Held, Named
<1>6. TypeOK'
  BY <1>1, <1>2, <1>4 DEF TypeOK, Named
<1>7. Indexed'
  <2>1. ASSUME NEW j \in Slots' PROVE (IndexOf(Held[j].w) = j /\ active[Held[j].w] # 0)'
    BY <1>1, <1>5 DEF IndexOf, Named
  <2>2. ASSUME NEW w \in Watchers, active'[w] # 0
        PROVE  (IndexOf(w) \in Slots /\ Held[IndexOf(w)].w = w)'
    <3>1. PICK j \in Slots' : h[j].w = w
      BY <2>2 DEF Named
    <3>2. (IF w = h[i].w THEN i ELSE active'[w]) = j
      BY <3>1 DEF Named
    <3> QED BY <3>1, <3>2, <1>1, <1>5 DEF IndexOf
  <2>3. active'[he'.w] # 0
    BY <1>1, <1>3 DEF Named
  <2> QED BY <2>1, <2>2, <2>3 DEF Indexed
<1>8. Cached'
  BY <1>5 DEF Cached, Named
<1>9. Ordered'
  BY <1>1, <1>5 DEF Ordered, Limit, InOrder, HPARENT, HEAP0
<1> QED BY <1>6, <1>7, <1>8, <1>9 DEF HeapInv

\* At rest, HeapInv is what verify_heap asserts and a little more.
LEMMA AtRest ==
    ASSUME HeapInv, pc = "idle"
    PROVE  /\ cnt \in Nat /\ heap \in [Slots -> Entry]
           /\ at \in [Watchers -> Times] /\ active \in [Watchers -> Nat]
           /\ \A i \in Slots : /\ heap[i] \in Entry /\ heap[i].w \in Watchers
                               /\ active[heap[i].w] = i
                               /\ active[heap[i].w] # 0 /\ heap[i].at = at[heap[i].w]
           /\ \A w \in Watchers : active[w] # 0 => active[w] \in Slots /\ heap[active[w]].w = w
           /\ \A i \in HEAP0 + 1 .. cnt + HEAP0 - 1 : heap[HPARENT(i)].at <= heap[i].at
<1>1. cnt \in Nat /\ heap \in [Slots -> Entry] /\ at \in [Watchers -> Times] /\ active \in [Watchers -> Nat]
  BY DEF HeapInv, TypeOK
<1>2. Held = heap
  BY DEF Held
<1>3. \A i \in Slots : heap[i] \in Entry /\ heap[i].w \in Watchers
  BY <1>1, EntriesTimed
<1>4. \A w \in Watchers : IndexOf(w) = active[w]
  BY DEF IndexOf
<1>5. \A i \in Slots : active[heap[i].w] = i /\ active[heap[i].w] # 0
  BY <1>2, <1>3, <1>4 DEF HeapInv, Indexed
<1>6. \A w \in Watchers : active[w] # 0 => active[w] \in Slots /\ heap[active[w]].w = w
  BY <1>2, <1>4 DEF HeapInv, Indexed
<1>7. \A i \in Slots : heap[i].at = at[heap[i].w]
  BY <1>2 DEF HeapInv, Cached
<1>8. \A i \in HEAP0 + 1 .. cnt + HEAP0 - 1 : heap[HPARENT(i)].at <= heap[i].at
  <2>1. Limit = cnt + HEAP0
    BY DEF Limit
  <2>2. \A i \in HEAP0 + 1 .. Limit - 1 : Held[HPARENT(i)].at <= Held[i].at
    BY DEF HeapInv, Ordered
  <2>3. \A i \in HEAP0 + 1 .. cnt + HEAP0 - 1 : Held[HPARENT(i)].at <= Held[i].at
    BY <2>1, <2>2, <1>1, HEAP0Type
  <2> QED BY <2>3, <1>2, Zenon
<1> QED BY <1>1, <1>3, <1>5, <1>6, <1>7, <1>8

\* Both parts of a parent's entry are there when a child's is.
LEMMA ParentIsThere ==
    ASSUME cnt \in Nat, NEW i \in HEAP0 + 1 .. cnt + HEAP0 - 1
    PROVE  i \in Slots /\ i \in Int /\ HPARENT(i) \in Slots /\ HPARENT(i) < i
BY HEAP0Type, ParentBefore DEF Slots

LEMMA StartKeeps ==
    ASSUME HeapInv, NEW w \in Watchers, Start(w)
    PROVE  HeapInv'
<1> USE HEAP0Type
<1> DEFINE i == cnt + HEAP0
           h == [j \in Slots \cup {i} |-> IF j = i THEN Of(w)' ELSE heap[j]]
<1>1. pc = "idle" /\ active[w] = 0
  BY DEF Start
<1>2. /\ cnt \in Nat /\ heap \in [Slots -> Entry]
      /\ at \in [Watchers -> Times] /\ active \in [Watchers -> Nat]
  BY <1>1, AtRest
<1>3. PICK c \in Nat : c = cnt + 1 /\ cnt' = c
  BY <1>2 DEF Start
<1>4. PICK m \in Int : m = i /\ m = c + HEAP0 - 1 /\ m > 0
  BY <1>2, <1>3
<1>5. PICK t \in Times : at' = [at EXCEPT ![w] = t]
  BY DEF Start
<1>6. active' = [active EXCEPT ![w] = m] /\ Go("up", h, m, c + HEAP0)
  BY <1>3, <1>4 DEF Start
<1>7. Slots' = Slots \cup {m} /\ m \notin Slots
  <2>1. Slots' = HEAP0 .. c + HEAP0 - 1
    BY <1>3 DEF Slots, HEAP0
  <2> QED BY <2>1, <1>2, <1>3, <1>4 DEF Slots
<1>8. at'[w] = t /\ Of(w)' = [w |-> w, at |-> t] /\ Of(w)' \in Entry
  BY <1>2, <1>5 DEF Of, Entry
<1>9. h = [j \in Slots' |-> IF j = m THEN Of(w)' ELSE heap[j]]
  BY <1>4, <1>7
<1>10. ASSUME NEW j \in Slots
       PROVE  /\ heap[j].w # w /\ heap[j].w \in Watchers /\ heap[j] \in Entry
              /\ active'[heap[j].w] = j /\ j # 0 /\ heap[j].at = at'[heap[j].w]
  BY <1>1, <1>2, <1>5, <1>6, AtRest
<1> HIDE DEF h, i
<1>11. Named(h, m)
  <2>1. h \in [Slots' -> Entry]
    BY <1>7, <1>8, <1>9, <1>10
  <2>2. active'[w] = m
    BY <1>2, <1>6
  <2>3. ASSUME NEW j \in Slots'
        PROVE  /\ (IF h[j].w = h[m].w THEN m ELSE active'[h[j].w]) = j
               /\ active'[h[j].w] # 0
               /\ h[j].at = at'[h[j].w]
    <3>1. h[m].w = w
      BY <1>7, <1>8, <1>9
    <3>2. CASE j = m
      BY <3>1, <3>2, <2>2, <1>4, <1>8, <1>9
    <3>3. CASE j # m
      BY <3>1, <3>3, <1>7, <1>9, <1>10
    <3> QED BY <3>2, <3>3
  <2>4. ASSUME NEW v \in Watchers, active'[v] # 0 PROVE \E j \in Slots' : h[j].w = v
    <3>1. CASE v = w
      BY <3>1, <1>7, <1>8, <1>9
    <3>2. CASE v # w
      <4>1. active[v] \in Slots /\ heap[active[v]].w = v
        BY <3>2, <2>4, <1>1, <1>2, <1>6, AtRest
      <4> QED BY <4>1, <1>7, <1>9
    <3> QED BY <3>1, <3>2
  <2> QED BY <2>1, <2>3, <2>4 DEF Named
<1>12. InOrder(h, m, c + HEAP0, "up")
  <2>1. ASSUME NEW j \in HEAP0 + 1 .. c + HEAP0 - 1, j # m PROVE h[HPARENT(j)].at <= h[j].at
    <3>1. j \in HEAP0 + 1 .. cnt + HEAP0 - 1
      BY <2>1, <1>2, <1>3, <1>4
    <3>2. j \in Slots /\ HPARENT(j) \in Slots
      BY <3>1, <1>2, ParentIsThere
    <3> QED BY <3>1, <3>2, <1>1, <1>7, <1>9, AtRest
  <2>2. ASSUME NEW j \in HEAP0 + 1 .. c + HEAP0 - 1 PROVE HPARENT(j) # m
    <3>1. j \in Int /\ j > HEAP0 /\ j <= m
      BY <1>3, <1>4
    <3> QED BY <3>1, ParentBefore
  <2> QED BY <2>1, <2>2 DEF InOrder
<1>13. active' \in [Watchers -> Nat] /\ at' \in [Watchers -> Times]
  BY <1>2, <1>4, <1>5, <1>6
<1>14. m \in HEAP0 .. (c + HEAP0) - 1 /\ c + HEAP0 \in Int
  BY <1>2, <1>3, <1>4
<1> QED BY <1>3, <1>6, <1>11, <1>12, <1>13, <1>14, GoStarts

\* Array h is a heap but for entry i, in either direction.
Loose(h, i, n) ==
    /\ \A j \in HEAP0 + 1 .. n - 1 : j = i \/ HPARENT(j) = i \/ h[HPARENT(j)].at <= h[j].at
    /\ i # HEAP0 => \A j \in HEAP0 + 1 .. n - 1 : HPARENT(j) = i => h[HPARENT(i)].at <= h[j].at

\* adjustheap chooses the loop that the entry needs.
LEMMA AdjustStarts ==
    ASSUME NEW STATE h, NEW i \in Int, NEW c \in Nat, cnt' = c, AdjustHeap(h, i),
           at' \in [Watchers -> Times], active' \in [Watchers -> Nat],
           i \in HEAP0 .. (c + HEAP0) - 1,
           Named(h, i), Loose(h, i, c + HEAP0)
    PROVE  HeapInv'
<1> USE HEAP0Type
<1>1. Slots' = HEAP0 .. c + HEAP0 - 1
  BY DEF Slots, HEAP0
<1>2. \A j \in HEAP0 .. c + HEAP0 - 1 : h[j].at \in Int
  BY <1>1, EntriesTimed DEF Named
<1>3. c + HEAP0 \in Int
  OBVIOUS
<1>4. CASE i > HEAP0 /\ h[i].at <= h[HPARENT(i)].at
  <2>1. Go("up", h, i, c + HEAP0)
    BY <1>4 DEF AdjustHeap
  <2>2. i \in HEAP0 + 1 .. c + HEAP0 - 1 /\ HPARENT(i) \in HEAP0 .. c + HEAP0 - 1
    BY <1>4, ParentBefore
  <2>3. ASSUME NEW j \in HEAP0 + 1 .. c + HEAP0 - 1, j # i PROVE h[HPARENT(j)].at <= h[j].at
    <3>1. CASE HPARENT(j) = i
      <4>1. h[HPARENT(i)].at <= h[j].at
        BY <1>4, <3>1 DEF Loose
      <4>2. i \in HEAP0 .. c + HEAP0 - 1 /\ j \in HEAP0 .. c + HEAP0 - 1
        BY <2>3
      <4>3. h[i].at \in Int /\ h[j].at \in Int /\ h[HPARENT(i)].at \in Int
        BY <4>2, <2>2, <1>2
      <4> QED BY <3>1, <4>1, <4>3, <1>4
    <3>2. CASE HPARENT(j) # i
      BY <2>3, <3>2 DEF Loose
    <3> QED BY <3>1, <3>2
  <2>4. InOrder(h, i, c + HEAP0, "up")
    BY <2>3 DEF InOrder, Loose
  <2> QED BY <2>1, <2>4, <1>3, GoStarts
<1>5. CASE ~(i > HEAP0 /\ h[i].at <= h[HPARENT(i)].at)
  <2>1. Go("down", h, i, c + HEAP0)
    BY <1>5 DEF AdjustHeap
  <2>2. ASSUME NEW j \in HEAP0 + 1 .. c + HEAP0 - 1, HPARENT(j) # i PROVE h[HPARENT(j)].at <= h[j].at
    <3>1. CASE j = i
      <4>1. i > HEAP0 /\ i \in HEAP0 .. c + HEAP0 - 1 /\ HPARENT(i) \in HEAP0 .. c + HEAP0 - 1
        BY <2>2, <3>1, ParentBefore
      <4>2. h[i].at \in Int /\ h[HPARENT(i)].at \in Int
        BY <4>1, <1>2
      <4> QED BY <3>1, <4>1, <4>2, <1>5
    <3>2. CASE j # i
      BY <2>2, <3>2 DEF Loose
    <3> QED BY <3>1, <3>2
  <2>3. InOrder(h, i, c + HEAP0, "down")
    BY <2>2 DEF InOrder, Loose
  <2> QED BY <2>1, <2>3, <1>3, GoStarts
<1> QED BY <1>4, <1>5

LEMMA StopKeeps ==
    ASSUME HeapInv, NEW w \in Watchers, Stop(w)
    PROVE  HeapInv'
<1> USE HEAP0Type
<1>1. pc = "idle" /\ active[w] # 0 /\ at' = at /\ active' = [active EXCEPT ![w] = 0]
  BY DEF Stop
<1>2. /\ cnt \in Nat /\ heap \in [Slots -> Entry]
      /\ at \in [Watchers -> Times] /\ active \in [Watchers -> Nat]
  BY <1>1, AtRest
<1>3. PICK i \in Slots : i = active[w] /\ heap[i].w = w
  BY <1>1, AtRest
<1>4. i \in Int /\ HEAP0 <= i /\ i < cnt + HEAP0 /\ cnt > 0
  BY <1>2, <1>3 DEF Slots
<1>5. PICK c \in Nat : c = cnt - 1 /\ cnt' = c
  BY <1>2, <1>4 DEF Stop
<1>6. PICK last \in Int : last = c + HEAP0 /\ last \in Slots /\ last = cnt + HEAP0 - 1
  BY <1>2, <1>4, <1>5 DEF Slots
<1> DEFINE h == [j \in Slots \ {last} |-> IF j = i THEN heap[last] ELSE heap[j]]
<1>7. IF i < last THEN AdjustHeap(h, i) ELSE heap' = h /\ UNCHANGED <<pc, k, he, top>>
  BY <1>3, <1>5, <1>6 DEF Stop
<1>8. Slots' = Slots \ {last} /\ Slots' = HEAP0 .. c + HEAP0 - 1
  <2>1. Slots' = HEAP0 .. c + HEAP0 - 1
    BY <1>5 DEF Slots, HEAP0
  <2> QED BY <2>1, <1>2, <1>5, <1>6 DEF Slots
<1>9. h = [j \in Slots' |-> IF j = i THEN heap[last] ELSE heap[j]]
  BY <1>8
<1>10. active' \in [Watchers -> Nat] /\ at' \in [Watchers -> Times]
  BY <1>1, <1>2
<1>11. ASSUME NEW j \in Slots
       PROVE  /\ heap[j] \in Entry /\ heap[j].w \in Watchers /\ heap[j].at = at'[heap[j].w]
              /\ active[heap[j].w] = j /\ j # 0 /\ heap[j].at \in Int
              /\ j # i => heap[j].w # w /\ active'[heap[j].w] = j
  <2>1. /\ heap[j] \in Entry /\ heap[j].w \in Watchers /\ heap[j].at = at[heap[j].w]
        /\ active[heap[j].w] = j /\ active[heap[j].w] # 0
    BY <1>1, AtRest
  <2>2. heap[j].at \in Int
    BY <2>1, EntriesTimed
  <2> QED BY <2>1, <2>2, <1>1, <1>2, <1>3
<1>12. ASSUME NEW v \in Watchers, active'[v] # 0
       PROVE  v # w /\ active'[v] = active[v] /\ active[v] \in Slots /\ heap[active[v]].w = v /\ active[v] # i
  <2>1. v # w /\ active'[v] = active[v]
    BY <1>12, <1>1, <1>2
  <2>2. active[v] \in Slots /\ heap[active[v]].w = v
    BY <2>1, <1>12, <1>1, AtRest
  <2> QED BY <2>1, <2>2, <1>3
<1>13. ASSUME NEW j \in HEAP0 + 1 .. cnt + HEAP0 - 1
       PROVE  /\ heap[HPARENT(j)].at <= heap[j].at /\ HPARENT(j) < j
              /\ j \in Slots /\ HPARENT(j) \in Slots /\ HPARENT(j) \in Int
  <2>1. j \in Slots /\ HPARENT(j) \in Slots /\ HPARENT(j) < j /\ HPARENT(j) \in Int
    BY <1>2, ParentIsThere DEF Slots
  <2> QED BY <2>1, <1>1, AtRest
<1> HIDE DEF h
<1>14. CASE i < last
  <2>1. i \in Slots' /\ i # last
    BY <1>3, <1>8, <1>14
  <2>2. Named(h, i)
    <3>1. h \in [Slots' -> Entry]
      BY <1>6, <1>8, <1>9, <1>11
    <3>2. h[i] = heap[last] /\ heap[last].w # w /\ active[heap[last].w] = last
      BY <2>1, <1>6, <1>9, <1>11
    <3>3. ASSUME NEW j \in Slots'
          PROVE  /\ (IF h[j].w = h[i].w THEN i ELSE active'[h[j].w]) = j
                 /\ active'[h[j].w] # 0
                 /\ h[j].at = at'[h[j].w]
      <4>1. CASE j = i
        BY <4>1, <3>2, <2>1, <1>6, <1>9, <1>11
      <4>2. CASE j # i
        <5>1. h[j] = heap[j] /\ j \in Slots /\ j # last
          BY <4>2, <1>8, <1>9
        <5>2. heap[j].w # heap[last].w
          BY <5>1, <3>2, <1>11
        <5> QED BY <5>1, <5>2, <4>2, <3>2, <1>11
      <4> QED BY <4>1, <4>2
    <3>4. ASSUME NEW v \in Watchers, active'[v] # 0 PROVE \E j \in Slots' : h[j].w = v
      <4>1. CASE active[v] = last
        BY <4>1, <3>2, <2>1, <1>12, <3>4
      <4>2. CASE active[v] # last
        BY <4>2, <1>8, <1>9, <1>12, <3>4
      <4> QED BY <4>1, <4>2
    <3> QED BY <3>1, <3>3, <3>4 DEF Named
  <2>3. Loose(h, i, c + HEAP0)
    <3>1. ASSUME NEW j \in HEAP0 + 1 .. c + HEAP0 - 1, j # i, HPARENT(j) # i
          PROVE  h[HPARENT(j)].at <= h[j].at
      <4>1. j \in HEAP0 + 1 .. cnt + HEAP0 - 1 /\ j < last /\ j \in Int
        BY <1>2, <1>5, <1>6
      <4>2. j \in Slots' /\ HPARENT(j) \in Slots'
        BY <4>1, <1>6, <1>8, <1>13
      <4> QED BY <3>1, <4>1, <4>2, <1>9, <1>13
    <3>2. ASSUME i # HEAP0, NEW j \in HEAP0 + 1 .. c + HEAP0 - 1, HPARENT(j) = i
          PROVE  h[HPARENT(i)].at <= h[j].at
      <4>1. j \in HEAP0 + 1 .. cnt + HEAP0 - 1 /\ j < last /\ j \in Int
        BY <1>2, <1>5, <1>6
      <4>2. i \in HEAP0 + 1 .. cnt + HEAP0 - 1
        BY <1>2, <1>4, <3>2
      <4>3. j \in Slots' /\ HPARENT(i) \in Slots' /\ j # i /\ HPARENT(i) # i
        BY <3>2, <4>1, <4>2, <1>6, <1>8, <1>13, <1>14
      <4>4. h[HPARENT(i)] = heap[HPARENT(i)] /\ h[j] = heap[j]
        BY <4>3, <1>9
      <4>5. heap[HPARENT(i)].at <= heap[i].at /\ heap[i].at <= heap[j].at
        BY <3>2, <4>1, <4>2, <1>13
      <4>6. heap[HPARENT(i)].at \in Int /\ heap[i].at \in Int /\ heap[j].at \in Int
        BY <4>1, <4>2, <1>11, <1>13
      <4> QED BY <4>4, <4>5, <4>6
    <3> QED BY <3>1, <3>2 DEF Loose
  <2>4. i \in HEAP0 .. (c + HEAP0) - 1
    BY <2>1, <1>8
  <2> QED BY <2>2, <2>3, <2>4, <1>4, <1>5, <1>7, <1>10, <1>14, AdjustStarts
<1>15. CASE ~(i < last)
  <2>1. i = last
    BY <1>3, <1>4, <1>6, <1>15, <1>2
  <2>2. heap' = h /\ pc' = "idle" /\ he' = he
    BY <1>1, <1>7, <1>15
  <2>3. Held' = h /\ h = [j \in Slots' |-> heap[j]]
    BY <2>1, <2>2, <1>8, <1>9 DEF Held
  <2>4. TypeOK'
    <3>1. Entry' = Entry /\ he \in Entry
      BY DEF Entry, HeapInv, TypeOK
    <3>2. h \in [Slots' -> Entry]
      BY <2>3, <1>8, <1>11
    <3> QED BY <2>2, <3>1, <3>2, <1>5, <1>10 DEF TypeOK
  <2>5. Indexed'
    <3>1. ASSUME NEW j \in Slots' PROVE (IndexOf(Held[j].w) = j /\ active[Held[j].w] # 0)'
      <4>1. j \in Slots /\ j # i /\ h[j] = heap[j]
        BY <2>1, <2>3, <1>8
      <4> QED BY <4>1, <2>2, <2>3, <1>11 DEF IndexOf
    <3>2. ASSUME NEW v \in Watchers, active'[v] # 0 PROVE (IndexOf(v) \in Slots /\ Held[IndexOf(v)].w = v)'
      <4>1. active'[v] \in Slots' /\ heap[active'[v]].w = v
        BY <3>2, <2>1, <1>8, <1>12
      <4> QED BY <4>1, <2>2, <2>3 DEF IndexOf
    <3> QED BY <3>1, <3>2, <2>2 DEF Indexed
  <2>6. Cached'
    BY <2>3, <1>8, <1>11 DEF Cached
  <2>7. Ordered'
    <3>1. ASSUME NEW j \in HEAP0 + 1 .. c + HEAP0 - 1 PROVE Held'[HPARENT(j)].at <= Held'[j].at
      <4>1. j \in HEAP0 + 1 .. cnt + HEAP0 - 1 /\ j < last /\ j \in Int
        BY <1>2, <1>5, <1>6
      <4>2. j \in Slots' /\ HPARENT(j) \in Slots'
        BY <4>1, <1>6, <1>8, <1>13
      <4> QED BY <4>1, <4>2, <2>3, <1>13
    <3>2. Limit' = c + HEAP0
      BY <2>2, <1>5 DEF Limit, HEAP0
    <3> QED BY <3>1, <3>2, <2>2 DEF Ordered, HPARENT, HEAP0
  <2> QED BY <2>4, <2>5, <2>6, <2>7 DEF HeapInv
<1> QED BY <1>14, <1>15

\* A started watcher is given another time.
LEMMA NewTime ==
    ASSUME HeapInv, pc = "idle", NEW w \in Watchers, active[w] # 0, NEW t \in Times,
           at' = [at EXCEPT ![w] = t], cnt' = cnt, active' = active,
           NEW i \in Int, i = active[w], NEW STATE h, h = [heap EXCEPT ![i] = Of(w)']
    PROVE  /\ Named(h, i) /\ Loose(h, i, cnt + HEAP0) /\ i \in HEAP0 .. (cnt + HEAP0) - 1
           /\ cnt \in Nat /\ at' \in [Watchers -> Times] /\ active' \in [Watchers -> Nat]
<1> USE HEAP0Type
<1>1. /\ cnt \in Nat /\ heap \in [Slots -> Entry]
      /\ at \in [Watchers -> Times] /\ active \in [Watchers -> Nat]
  BY AtRest
<1>2. i \in Slots /\ heap[i].w = w /\ i \in HEAP0 .. (cnt + HEAP0) - 1
  BY AtRest DEF Slots
<1>3. Slots' = Slots
  BY DEF Slots, HEAP0
<1>4. Of(w)' \in Entry /\ (Of(w)').w = w /\ (Of(w)').at = t /\ at'[w] = t
  BY <1>1 DEF Of, Entry
<1>5. h = [j \in Slots |-> IF j = i THEN Of(w)' ELSE heap[j]]
  BY <1>1
<1>6. ASSUME NEW j \in Slots
      PROVE  /\ heap[j] \in Entry /\ heap[j].w \in Watchers /\ heap[j].at = at[heap[j].w]
             /\ active[heap[j].w] = j /\ j # 0 /\ heap[j].at \in Int
             /\ j # i => heap[j].w # w /\ h[j] = heap[j]
  <2>1. /\ heap[j] \in Entry /\ heap[j].w \in Watchers /\ heap[j].at = at[heap[j].w]
        /\ active[heap[j].w] = j /\ active[heap[j].w] # 0
    BY AtRest
  <2> QED BY <2>1, <1>5, EntriesTimed
<1>7. h[i].w = w /\ h[i].at = t /\ h[i] \in Entry
  BY <1>2, <1>4, <1>5
<1>8. Named(h, i)
  <2>1. h \in [Slots' -> Entry]
    BY <1>3, <1>4, <1>5, <1>6
  <2>2. ASSUME NEW j \in Slots'
        PROVE  /\ (IF h[j].w = h[i].w THEN i ELSE active'[h[j].w]) = j
               /\ active'[h[j].w] # 0
               /\ h[j].at = at'[h[j].w]
    <3>1. CASE j = i
      BY <3>1, <1>4, <1>7
    <3>2. CASE j # i
      BY <3>2, <1>1, <1>3, <1>6, <1>7
    <3> QED BY <3>1, <3>2
  <2>3. ASSUME NEW v \in Watchers, active'[v] # 0 PROVE \E j \in Slots' : h[j].w = v
    <3>1. CASE v = w
      BY <3>1, <1>2, <1>3, <1>7
    <3>2. CASE v # w
      <4>1. active[v] \in Slots /\ heap[active[v]].w = v
        BY <2>3, AtRest
      <4> QED BY <4>1, <3>2, <1>2, <1>3, <1>6
    <3> QED BY <3>1, <3>2
  <2> QED BY <2>1, <2>2, <2>3 DEF Named
<1>9. ASSUME NEW j \in HEAP0 + 1 .. cnt + HEAP0 - 1
      PROVE  /\ heap[HPARENT(j)].at <= heap[j].at /\ HPARENT(j) < j /\ j \in Int
             /\ j \in Slots /\ HPARENT(j) \in Slots /\ HPARENT(j) \in Int
  <2>1. j \in Slots /\ HPARENT(j) \in Slots /\ HPARENT(j) < j /\ HPARENT(j) \in Int /\ j \in Int
    BY <1>1, ParentIsThere DEF Slots
  <2> QED BY <2>1, AtRest
<1>10. Loose(h, i, cnt + HEAP0)
  <2>1. ASSUME NEW j \in HEAP0 + 1 .. (cnt + HEAP0) - 1, j # i, HPARENT(j) # i
        PROVE  h[HPARENT(j)].at <= h[j].at
    <3>1. h[HPARENT(j)] = heap[HPARENT(j)] /\ h[j] = heap[j]
      BY <2>1, <1>1, <1>6, <1>9
    <3> QED BY <3>1, <1>1, <1>9
  <2>2. ASSUME i # HEAP0, NEW j \in HEAP0 + 1 .. (cnt + HEAP0) - 1, HPARENT(j) = i
        PROVE  h[HPARENT(i)].at <= h[j].at
    <3>1. i \in HEAP0 + 1 .. cnt + HEAP0 - 1 /\ j # i /\ HPARENT(i) # i
      <4>1. i \in HEAP0 + 1 .. cnt + HEAP0 - 1
        BY <2>2, <1>1, <1>2
      <4> QED BY <4>1, <2>2, <1>9
    <3>2. h[HPARENT(i)] = heap[HPARENT(i)] /\ h[j] = heap[j]
      BY <3>1, <1>6, <1>9
    <3>3. heap[HPARENT(i)].at <= heap[i].at /\ heap[i].at <= heap[j].at
      BY <3>1, <2>2, <1>1, <1>9
    <3>4. heap[HPARENT(i)].at \in Int /\ heap[i].at \in Int /\ heap[j].at \in Int
      BY <3>1, <1>1, <1>6, <1>9
    <3> QED BY <3>2, <3>3, <3>4
  <2> QED BY <2>1, <2>2 DEF Loose
<1> QED BY <1>1, <1>2, <1>8, <1>10

LEMMA AgainKeeps ==
    ASSUME HeapInv, NEW w \in Watchers, Again(w)
    PROVE  HeapInv'
<1>1. pc = "idle" /\ active[w] # 0 /\ cnt' = cnt /\ active' = active
  BY DEF Again
<1>2. PICK t \in Times : at' = [at EXCEPT ![w] = t]
  BY DEF Again
<1>3. PICK i \in Int : i = active[w]
  BY <1>1, AtRest
<1>4. PICK c \in Nat : c = cnt
  BY <1>1, AtRest
<1> DEFINE h == [heap EXCEPT ![i] = Of(w)']
<1>5. AdjustHeap(h, i)
  BY <1>3 DEF Again
<1> HIDE DEF h
<1>6. /\ Named(h, i) /\ Loose(h, i, cnt + HEAP0) /\ i \in HEAP0 .. (cnt + HEAP0) - 1
      /\ at' \in [Watchers -> Times] /\ active' \in [Watchers -> Nat]
  BY <1>1, <1>2, <1>3, NewTime DEF h
<1> QED BY <1>1, <1>4, <1>5, <1>6, AdjustStarts

LEMMA PostponeKeeps ==
    ASSUME HeapInv, NEW w \in Watchers, Postpone(w)
    PROVE  HeapInv'
<1>1. pc = "idle" /\ active[w] = HEAP0 /\ active[w] # 0 /\ cnt' = cnt /\ active' = active
  BY HEAP0Type DEF Postpone
<1>2. PICK t \in Times : at' = [at EXCEPT ![w] = t]
  BY DEF Postpone
<1>3. PICK i \in Int : i = active[w] /\ i = HEAP0
  BY <1>1, HEAP0Type
<1>4. PICK c \in Nat : c = cnt
  BY <1>1, AtRest
<1> DEFINE h == [heap EXCEPT ![i] = Of(w)']
<1>5. Go("down", h, i, c + HEAP0)
  BY <1>3, <1>4 DEF Postpone
<1> HIDE DEF h
<1>6. /\ Named(h, i) /\ Loose(h, i, c + HEAP0) /\ i \in HEAP0 .. (c + HEAP0) - 1
      /\ at' \in [Watchers -> Times] /\ active' \in [Watchers -> Nat]
  BY <1>1, <1>2, <1>3, <1>4, NewTime DEF h
<1>7. InOrder(h, i, c + HEAP0, "down")
  <2>1. \A j \in HEAP0 + 1 .. (c + HEAP0) - 1 : j # HEAP0
    BY HEAP0Type
  <2> QED BY <2>1, <1>3, <1>6 DEF InOrder, Loose
<1>8. c + HEAP0 \in Int
  BY HEAP0Type
<1> QED BY <1>1, <1>4, <1>5, <1>6, <1>7, <1>8, HEAP0Type, GoStarts

LEMMA RescheduleKeeps ==
    ASSUME HeapInv, Reschedule
    PROVE  HeapInv'
<1> USE HEAP0Type
<1>1. pc = "idle" /\ cnt > 0 /\ cnt' = cnt /\ active' = active /\ at' \in [Watchers -> Times]
  BY DEF Reschedule
<1>2. cnt \in Nat /\ heap \in [Slots -> Entry] /\ active \in [Watchers -> Nat]
  BY <1>1, AtRest
<1>3. PICK c \in Nat : c = cnt /\ c > 0
  BY <1>1, <1>2
<1> DEFINE h == [i \in Slots |-> [w |-> heap[i].w, at |-> at'[heap[i].w]]]
<1>4. Go("up", h, HEAP0, HEAP0 + 1)
  BY DEF Reschedule
<1>5. Slots' = Slots /\ Slots = HEAP0 .. c + HEAP0 - 1 /\ HEAP0 \in Slots
  BY <1>1, <1>3 DEF Slots, HEAP0
<1>6. Named(h, HEAP0)
  <2>1. ASSUME NEW j \in Slots
        PROVE  /\ heap[j].w \in Watchers /\ active[heap[j].w] = j /\ active[heap[j].w] # 0
               /\ h[j] \in Entry /\ h[j].w = heap[j].w /\ h[j].at = at'[heap[j].w]
    <3>1. heap[j].w \in Watchers /\ active[heap[j].w] = j /\ active[heap[j].w] # 0
      BY <1>1, AtRest
    <3>2. h[j] = [w |-> heap[j].w, at |-> at'[heap[j].w]]
      OBVIOUS
    <3> QED BY <3>1, <3>2, <1>1 DEF Entry
  <2> HIDE DEF h
  <2>2. h \in [Slots' -> Entry]
    <3>1. h = [i \in Slots |-> h[i]]
      BY DEF h
    <3> QED BY <3>1, <2>1, <1>5
  <2>3. \A w \in Watchers : active'[w] # 0 => \E j \in Slots' : h[j].w = w
    <3> SUFFICES ASSUME NEW w \in Watchers, active'[w] # 0 PROVE \E j \in Slots' : h[j].w = w
      OBVIOUS
    <3>1. active[w] \in Slots /\ heap[active[w]].w = w
      BY <1>1, AtRest
    <3> QED BY <3>1, <2>1, <1>5
  <2> QED BY <2>1, <2>2, <2>3, <1>1, <1>5 DEF Named
<1> HIDE DEF h
<1>7. InOrder(h, HEAP0, HEAP0 + 1, "up")
  <2>1. \A j \in HEAP0 + 1 .. (HEAP0 + 1) - 1 : FALSE
    OBVIOUS
  <2> QED BY <2>1 DEF InOrder
<1>8. HEAP0 \in HEAP0 .. (HEAP0 + 1) - 1 /\ HEAP0 + 1 \in Int /\ HEAP0 + 1 <= c + HEAP0
  BY <1>3
<1>9. active' \in [Watchers -> Nat]
  BY <1>1, <1>2
<1> QED BY <1>1, <1>3, <1>4, <1>6, <1>7, <1>8, <1>9, GoStarts

\* Where the loop ends, the held element is in order with its neighbours.
LEMMA LoopEnd ==
    ASSUME HeapInv, Place
    PROVE  /\ \A j \in HEAP0 + 1 .. top - 1 : Held[HPARENT(j)].at <= Held[j].at
           /\ pc = "down" => top = cnt + HEAP0
<1> USE HEAP0Type
<1>1. /\ pc # "idle" /\ ~UpGoesOn /\ ~DownGoesOn /\ pc \in {"idle", "up", "down"}
      /\ cnt \in Nat /\ k \in HEAP0 .. top - 1 /\ k \in Int /\ top \in HEAP0 + 1 .. cnt + HEAP0
      /\ (pc = "down" => top = cnt + HEAP0)
  BY DEF Place, HeapInv, TypeOK
<1>2. Held = [heap EXCEPT ![k] = he] /\ heap \in [Slots -> Entry] /\ he \in Entry
  BY <1>1 DEF Held, HeapInv, TypeOK
<1>3. \A j \in HEAP0 .. top - 1 : j \in Slots /\ heap[j].at \in Int /\ he.at \in Int
  BY <1>1, <1>2, EntriesTimed DEF Slots
<1>4. \A j \in HEAP0 + 1 .. top - 1 :
        \/ pc = "up" /\ j = k
        \/ pc = "down" /\ HPARENT(j) = k
        \/ Held[HPARENT(j)].at <= Held[j].at
  BY <1>1 DEF HeapInv, Ordered, Limit
<1>5. ASSUME NEW j \in HEAP0 + 1 .. top - 1 PROVE Held[HPARENT(j)].at <= Held[j].at
  <2>1. j \in Int /\ j > HEAP0 /\ j \in HEAP0 .. top - 1 /\ HPARENT(j) \in HEAP0 .. top - 1 /\ HPARENT(j) # j
    BY <1>1, ParentBefore
  <2>2. CASE pc = "up" /\ j = k
    BY <2>1, <2>2, <1>1, <1>2, <1>3 DEF UpGoesOn
  <2>3. CASE pc = "down" /\ HPARENT(j) = k
    <3>1. j \in Children(k)
      BY <2>1, <2>3, <1>1, <1>3, ChildrenHaveParent
    <3>2. ~(heap[j].at < he.at)
      BY <3>1, <2>3, <1>1 DEF DownGoesOn
    <3> QED BY <3>2, <2>1, <2>3, <1>2, <1>3
  <2> QED BY <2>2, <2>3, <1>4
<1> QED BY <1>1, <1>5

LEMMA PlaceKeeps ==
    ASSUME HeapInv, Place
    PROVE  HeapInv'
<1> USE HEAP0Type
<1>1. /\ pc # "idle" /\ cnt' = cnt /\ at' = at /\ cnt \in Nat
      /\ k \in HEAP0 .. top - 1 /\ k \in Int /\ top \in HEAP0 + 1 .. cnt + HEAP0 /\ top \in Int
      /\ heap \in [Slots -> Entry] /\ at \in [Watchers -> Times] /\ active \in [Watchers -> Nat]
      /\ he \in Entry /\ he.w \in Watchers
  BY EntriesTimed DEF Place, HeapInv, TypeOK
<1>2. PICK c \in Nat : c = cnt
  BY <1>1
<1>3. Slots' = Slots /\ Entry' = Entry /\ HEAP0' = HEAP0 /\ Slots = HEAP0 .. c + HEAP0 - 1
  BY <1>1, <1>2 DEF Slots, Entry, HEAP0
<1> DEFINE h == [heap EXCEPT ![k] = he]
<1>4. /\ active' = [active EXCEPT ![he.w] = k]
      /\ IF top < cnt + HEAP0 THEN Go("up", h, top, top + 1)
         ELSE heap' = h /\ pc' = "idle" /\ UNCHANGED <<k, he, top>>
  BY DEF Place
<1>5. Held = h /\ h \in [Slots -> Entry] /\ k \in Slots /\ k # 0
  BY <1>1, <1>2, <1>3 DEF Held
<1> HIDE DEF h
<1>6. \A j \in HEAP0 + 1 .. top - 1 : h[HPARENT(j)].at <= h[j].at
  <2>1. \A j \in HEAP0 + 1 .. top - 1 : Held[HPARENT(j)].at <= Held[j].at
    BY LoopEnd
  <2>2. ASSUME NEW j \in HEAP0 + 1 .. top - 1 PROVE h[HPARENT(j)].at <= h[j].at
    <3>1. Held[HPARENT(j)].at <= Held[j].at
      BY <2>1
    <3>2. Held = h
      BY <1>5
    <3> QED BY <3>1, <3>2, Zenon
  <2> QED BY <2>2
<1>7. active' \in [Watchers -> Nat] /\ at' \in [Watchers -> Times]
  BY <1>1, <1>4
<1>8. \A w \in Watchers : IndexOf(w) = active'[w]
  BY <1>1, <1>4 DEF IndexOf
<1>9. ASSUME NEW j \in Slots
      PROVE  h[j].w \in Watchers /\ active'[h[j].w] = j /\ j # 0 /\ h[j].at = at'[h[j].w]
  <2>1. h[j].w \in Watchers
    BY <1>5, EntriesTimed
  <2>2. IndexOf(h[j].w) = j
    BY <1>5 DEF HeapInv, Indexed
  <2>3. j # 0
    BY <1>3
  <2>4. h[j].at = at[h[j].w]
    BY <1>5 DEF HeapInv, Cached
  <2> QED BY <2>1, <2>2, <2>3, <2>4, <1>1, <1>8
<1>10. ASSUME NEW w \in Watchers, active'[w] # 0
       PROVE  active'[w] \in Slots /\ h[active'[w]].w = w
  <2>1. active[w] # 0
    BY <1>10, <1>1, <1>4 DEF HeapInv, Indexed
  <2>2. IndexOf(w) \in Slots /\ Held[IndexOf(w)].w = w
    BY <2>1 DEF HeapInv, Indexed
  <2> QED BY <2>2, <1>5, <1>8
<1>11. CASE top < cnt + HEAP0
  <2>1. PICK n \in Int : n = top
    BY <1>1
  <2>2. Go("up", h, n, n + 1)
    BY <2>1, <1>4, <1>11
  <2>3. n \in Slots' /\ n \in HEAP0 .. (n + 1) - 1 /\ n + 1 <= c + HEAP0 /\ n + 1 \in Int
    BY <2>1, <1>1, <1>2, <1>3, <1>11
  <2>4. Named(h, n)
    BY <2>3, <1>3, <1>5, <1>9, <1>10 DEF Named
  <2>5. InOrder(h, n, n + 1, "up")
    <3>1. ASSUME NEW j \in HEAP0 + 1 .. (n + 1) - 1
          PROVE  (j # n => h[HPARENT(j)].at <= h[j].at) /\ HPARENT(j) # n
      <4>1. j \in Int /\ j > HEAP0 /\ j <= n /\ HPARENT(j) < j /\ HPARENT(j) \in Int
        BY ParentBefore
      <4>2. j # n => j \in HEAP0 + 1 .. top - 1
        BY <4>1, <2>1
      <4> QED BY <4>1, <4>2, <1>6
    <3> QED BY <3>1 DEF InOrder
  <2> QED BY <2>2, <2>3, <2>4, <2>5, <1>1, <1>2, <1>7, GoStarts
<1>12. CASE ~(top < cnt + HEAP0)
  <2>1. heap' = h /\ pc' = "idle" /\ he' = he /\ top = cnt + HEAP0
    BY <1>1, <1>4, <1>12
  <2>2. Held' = h /\ Limit' = top
    BY <2>1, <1>1, <1>3 DEF Held, Limit
  <2>3. TypeOK'
    BY <2>1, <1>1, <1>3, <1>5, <1>7 DEF TypeOK
  <2>4. Indexed'
    <3>1. ASSUME NEW j \in Slots' PROVE (IndexOf(Held[j].w) = j /\ active[Held[j].w] # 0)'
      BY <2>1, <2>2, <1>3, <1>9 DEF IndexOf
    <3>2. ASSUME NEW w \in Watchers, active'[w] # 0 PROVE (IndexOf(w) \in Slots /\ Held[IndexOf(w)].w = w)'
      BY <3>2, <2>1, <2>2, <1>3, <1>10 DEF IndexOf
    <3> QED BY <3>1, <3>2, <2>1 DEF Indexed
  <2>5. Cached'
    BY <2>2, <1>3, <1>9 DEF Cached
  <2>6. Ordered'
    BY <2>1, <2>2, <1>6 DEF Ordered, HPARENT, HEAP0
  <2> QED BY <2>3, <2>4, <2>5, <2>6 DEF HeapInv
<1> QED BY <1>11, <1>12
-----------------------------------------------------------------------------
(* The theorems.                                                           *)

LEMMA InitHolds == Init => HeapInv
<1> SUFFICES ASSUME Init PROVE HeapInv
  OBVIOUS
<1>1. Slots = {} /\ cnt = 0 /\ pc = "idle"
  BY HEAP0Type DEF Init, Slots
<1>2. heap = [i \in {} |-> i]
  BY DEF Init
<1>3. heap \in [Slots -> Entry] /\ Held = heap
  BY <1>1, <1>2 DEF Held
<1>4. TypeOK
  BY <1>1, <1>3 DEF Init, TypeOK
<1>5. Indexed /\ Cached
  BY <1>1, <1>3 DEF Init, Indexed, Cached
<1>6. \A i \in HEAP0 + 1 .. Limit - 1 : FALSE
  BY <1>1, HEAP0Type DEF Limit
<1>7. Ordered
  BY <1>1, <1>6 DEF Ordered
<1> QED BY <1>4, <1>5, <1>7 DEF HeapInv

LEMMA NextKeeps == HeapInv /\ [Next]_vars => HeapInv'
<1> SUFFICES ASSUME HeapInv, [Next]_vars PROVE HeapInv'
  OBVIOUS
<1>1. CASE UpMove
  BY <1>1, UpMoveKeeps
<1>2. CASE DownMove
  BY <1>2, DownMoveKeeps
<1>3. CASE Place
  BY <1>3, PlaceKeeps
<1>4. CASE Reschedule
  BY <1>4, RescheduleKeeps
<1>5. ASSUME NEW w \in Watchers, Start(w) \/ Stop(w) \/ Postpone(w) \/ Again(w) PROVE HeapInv'
  BY <1>5, StartKeeps, StopKeeps, PostponeKeeps, AgainKeeps
<1>6. CASE UNCHANGED vars
  BY <1>6 DEF vars, HeapInv, TypeOK, Indexed, Cached, Ordered, Limit, Held, IndexOf, Slots, Entry, HPARENT, HEAP0
<1> QED BY <1>1, <1>2, <1>3, <1>4, <1>5, <1>6 DEF Next

\* The heap is well-formed whatever timers are started, stopped, postponed,
\* given another time or rescheduled, at every turn of upheap and downheap, for
\* any number of timers, any times, and both branching factors.
THEOREM HeapCorrect == Spec => []HeapInv
BY InitHolds, NextKeeps, PTL DEF Spec

\* The assertions of verify_heap hold after every operation (ev.c:3257-3270).
THEOREM VerifyHeapHolds == Spec => []HeapVerified
<1>1. HeapInv => HeapVerified
  <2> SUFFICES ASSUME HeapInv, pc = "idle", NEW i \in Slots
               PROVE  /\ active[heap[i].w] = i
                      /\ i = HEAP0 \/ heap[HPARENT(i)].at <= heap[i].at
                      /\ heap[i].at = at[heap[i].w]
    BY DEF HeapVerified
  <2>1. i = HEAP0 \/ i \in HEAP0 + 1 .. cnt + HEAP0 - 1
    BY HEAP0Type, AtRest DEF Slots
  <2> QED BY <2>1, AtRest
<1> QED BY <1>1, HeapCorrect, PTL
=============================================================================
