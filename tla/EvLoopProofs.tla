---------------------------- MODULE EvLoopProofs ----------------------------
(***************************************************************************)
(* Theorems about EvLoop, for every set of watchers and every bound.       *)
(***************************************************************************)
EXTENDS EvLoop, SequenceTheorems, FiniteSetTheorems, TLAPS

LEMMA FrontProperties ==
    ASSUME NEW S, NEW s \in Seq(S), s # <<>>
    PROVE  /\ Front(s) \in Seq(S)
           /\ Len(Front(s)) = Len(s) - 1
           /\ \A k \in 1 .. Len(s) - 1 : Front(s)[k] = s[k]
<1>1. Len(s) \in Nat \ {0}
  BY EmptySeq
<1> DEFINE n == Len(s) - 1
<1>2. n \in Int /\ 1 \in Int /\ \A i \in 1 .. n : s[i] \in S
  BY <1>1, ElementOfSeq
<1>3. Front(s) = SubSeq(s, 1, n)
  BY DEF Front
<1> HIDE DEF n
<1>4. /\ SubSeq(s, 1, n) \in Seq(S)
      /\ Len(SubSeq(s, 1, n)) = IF 1 <= n THEN n - 1 + 1 ELSE 0
      /\ \A i \in 1 .. n - 1 + 1 : SubSeq(s, 1, n)[i] = s[1 + i - 1]
  BY <1>2, SubSeqProperties
<1>5. n = Len(s) - 1 /\ n \in Nat
  BY <1>1 DEF n
<1>6. Len(Front(s)) = Len(s) - 1
  BY <1>3, <1>4, <1>5
<1>7. ASSUME NEW k \in 1 .. Len(s) - 1 PROVE Front(s)[k] = s[k]
  <2>1. k \in 1 .. n - 1 + 1 /\ 1 + k - 1 = k
    BY <1>5
  <2>2. QED
    BY <1>3, <1>4, <2>1
<1>8. QED
  BY <1>3, <1>4, <1>6, <1>7

\* The pending queues by themselves: the part of TypeOK that is about them,
\* and PendingIndexed. Every call that touches them is a lemma below.
QueueOK ==
    /\ pending \in [Watchers -> Nat]
    /\ pendings \in [Pris -> Seq(Entries)]
    /\ pendingpri \in 0 .. NUMPRI
    /\ PendingIndexed

\* ev_feed_event keeps the queues consistent.
LEMMA FeedEventQueueOK ==
    ASSUME QueueOK, NEW w \in Watchers, NEW e \in SUBSET Events, e # {}, FeedEvent(w, e)
    PROVE  QueueOK'
<1> DEFINE p == Pri[w]
<1>1. p \in Pris /\ NUMPRI \in Nat \ {0} /\ Pri \in [Watchers -> Pris] /\ pending_w \notin Watchers
  BY ConstantsAssumption
<1>2. CASE pending[w] # 0
  <2>1. pending' = pending
    BY <1>2 DEF FeedEvent
  <2>2. pendings' = [pendings EXCEPT ![p][pending[w]].events = @ \cup e]
    BY <1>2 DEF FeedEvent
  <2>3. pending[w] \in 1 .. Len(pendings[p])
    BY <1>1, <1>2 DEF QueueOK, PendingIndexed
  <2> DEFINE k   == pending[w]
             new == [pendings[p][k] EXCEPT !.events = @ \cup e]
             q   == [pendings[p] EXCEPT ![k] = new]
  <2>4. /\ pendings[p] \in Seq(Entries) /\ pendings[p][k] \in Entries
        /\ new \in Entries /\ new.w = pendings[p][k].w
        /\ pendings[p][k].events # {} => new.events # {}
    <3>1. pendings[p] \in Seq(Entries)
      BY <1>1 DEF QueueOK
    <3>2. pendings[p][k] \in Entries
      BY <2>3, <3>1, ElementOfSeq
    <3>3. /\ new \in Entries /\ new.w = pendings[p][k].w
          /\ new.events = pendings[p][k].events \cup e
      BY <3>2 DEF Entries
    <3>4. QED
      BY <3>1, <3>2, <3>3
  <2>5. /\ q \in Seq(Entries)
        /\ Len(q) = Len(pendings[p])
        /\ \A i \in 1 .. Len(pendings[p]) : q[i] = IF i = k THEN new ELSE pendings[p][i]
    BY <2>3, <2>4, ExceptSeq
  <2>6. pendings' = [pendings EXCEPT ![p] = q]
    BY <2>2
  <2>7. pendings' \in [Pris -> Seq(Entries)] /\ pendings'[p] = q
    BY <1>1, <2>5, <2>6 DEF QueueOK
  <2>8. \A r \in Pris : Len(pendings'[r]) = Len(pendings[r])
    BY <1>1, <2>5, <2>6 DEF QueueOK
  <2>9. \A r \in Pris : \A i \in 1 .. Len(pendings[r]) :
          /\ pendings'[r][i].w = pendings[r][i].w
          /\ pendings[r][i].events # {} => pendings'[r][i].events # {}
    <3>1. TAKE r \in Pris
    <3>2. CASE r = p
      BY <2>4, <2>5, <2>7, <3>2
    <3>3. CASE r # p
      BY <1>1, <2>6, <3>3 DEF QueueOK
    <3>4. QED
      BY <3>2, <3>3
  <2>10. ASSUME NEW v \in Watchers, pending'[v] # 0
         PROVE  /\ pending'[v] <= Len(pendings'[Pri[v]])
                /\ pendings'[Pri[v]][pending'[v]].w = v
    <3>1. pending[v] \in 1 .. Len(pendings[Pri[v]]) /\ Pri[v] \in Pris
      BY <1>1, <2>1, <2>10 DEF QueueOK, PendingIndexed
    <3>2. QED
      BY <2>1, <2>8, <2>9, <2>10, <3>1 DEF QueueOK, PendingIndexed
  <2>11. ASSUME NEW r \in Pris, NEW i \in 1 .. Len(pendings'[r])
         PROVE  /\ pendings'[r][i].events # {}
                /\ pendings'[r][i].w # pending_w =>
                     Pri[pendings'[r][i].w] = r /\ pending'[pendings'[r][i].w] = i
    <3>1. i \in 1 .. Len(pendings[r])
      BY <2>8
    <3>2. QED
      BY <2>1, <2>9, <3>1 DEF QueueOK, PendingIndexed
  <2>12. PendingIndexed'
    BY <2>10, <2>11 DEF PendingIndexed
  <2>13. QED
    BY <1>1, <2>1, <2>7, <2>12 DEF QueueOK, FeedEvent
<1>3. CASE pending[w] = 0
  <2> DEFINE new == [w |-> w, events |-> e]
  <2>1. pendings' = [pendings EXCEPT ![p] = Append(@, new)]
    BY <1>3 DEF FeedEvent
  <2>2. pending' = [pending EXCEPT ![w] = Len(pendings[p]) + 1]
    BY <1>3 DEF FeedEvent
  <2>3. new \in Entries
    BY DEF Entries
  <2>4. pendings' \in [Pris -> Seq(Entries)] /\ pending' \in [Watchers -> Nat]
    BY <1>1, <2>1, <2>2, <2>3 DEF QueueOK
  <2>5. /\ Len(pendings'[p]) = Len(pendings[p]) + 1
        /\ pendings'[p][Len(pendings[p]) + 1] = new
        /\ \A i \in 1 .. Len(pendings[p]) : pendings'[p][i] = pendings[p][i]
    BY <1>1, <2>1, <2>3 DEF QueueOK
  <2>6. \A r \in Pris : r # p => pendings'[r] = pendings[r]
    BY <1>1, <2>1 DEF QueueOK
  <2>7. ASSUME NEW v \in Watchers, pending'[v] # 0
        PROVE  /\ pending'[v] <= Len(pendings'[Pri[v]])
               /\ pendings'[Pri[v]][pending'[v]].w = v
    <3>1. CASE v = w
      BY <1>1, <2>2, <2>5, <3>1 DEF QueueOK
    <3>2. CASE v # w
      <4>1. pending'[v] = pending[v] /\ pending[v] \in 1 .. Len(pendings[Pri[v]])
        BY <1>1, <2>2, <2>7, <3>2 DEF QueueOK, PendingIndexed
      <4>2. QED
        BY <1>1, <2>5, <2>6, <4>1, <2>7 DEF QueueOK, PendingIndexed
    <3>3. QED
      BY <3>1, <3>2
  <2>8. ASSUME NEW r \in Pris, NEW i \in 1 .. Len(pendings'[r])
        PROVE  /\ pendings'[r][i].events # {}
               /\ pendings'[r][i].w # pending_w =>
                    Pri[pendings'[r][i].w] = r /\ pending'[pendings'[r][i].w] = i
    <3>1. CASE r = p /\ i = Len(pendings[p]) + 1
      BY <1>1, <2>2, <2>5, <3>1 DEF QueueOK
    <3>2. CASE ~(r = p /\ i = Len(pendings[p]) + 1)
      <4>1. i \in 1 .. Len(pendings[r]) /\ pendings'[r][i] = pendings[r][i]
        BY <1>1, <2>5, <2>6, <3>2 DEF QueueOK
      <4>2. pendings[r][i] \in Entries
        BY <4>1, ElementOfSeq DEF QueueOK
      <4>3. pendings[r][i].w # pending_w => pendings[r][i].w # w
        BY <1>3, <4>1 DEF QueueOK, PendingIndexed
      <4>4. QED
        BY <2>2, <4>1, <4>2, <4>3 DEF QueueOK, PendingIndexed, Entries
    <3>3. QED
      BY <3>1, <3>2
  <2>9. PendingIndexed'
    BY <2>7, <2>8 DEF PendingIndexed
  <2>10. QED
    BY <1>1, <2>4, <2>9 DEF QueueOK, FeedEvent
<1>4. QED
  BY <1>2, <1>3

\* clear_pending keeps the queues consistent, leaves every queue its length, and
\* no entry names the watcher any more.
LEMMA ClearPendingQueueOK ==
    ASSUME QueueOK, NEW w \in Watchers, ClearPending(w)
    PROVE  /\ QueueOK'
           /\ pending' = [pending EXCEPT ![w] = 0]
           /\ pendingpri' = pendingpri
           /\ \A p \in Pris : Len(pendings'[p]) = Len(pendings[p])
           /\ \A p \in Pris : \A i \in 1 .. Len(pendings[p]) :
                /\ pendings'[p][i].events = pendings[p][i].events
                /\ pendings'[p][i].w = IF pendings[p][i].w = w THEN pending_w
                                       ELSE pendings[p][i].w
<1> DEFINE p == Pri[w]
           k == pending[w]
<1>1. p \in Pris /\ Pri \in [Watchers -> Pris] /\ pending_w \notin Watchers
  BY ConstantsAssumption
<1>2. pending' = [pending EXCEPT ![w] = 0] /\ pendingpri' = pendingpri
  BY DEF ClearPending
<1>3. pending' \in [Watchers -> Nat]
  BY <1>2 DEF QueueOK
<1>4. ASSUME NEW r \in Pris, NEW i \in 1 .. Len(pendings[r])
      PROVE  pendings[r][i] \in Entries
  BY ElementOfSeq DEF QueueOK
<1>5. /\ pendings' \in [Pris -> Seq(Entries)]
      /\ \A r \in Pris : Len(pendings'[r]) = Len(pendings[r])
      /\ \A r \in Pris : \A i \in 1 .. Len(pendings[r]) :
           /\ pendings'[r][i].events = pendings[r][i].events
           /\ pendings'[r][i].w = IF pendings[r][i].w = w THEN pending_w ELSE pendings[r][i].w
  <2>1. CASE k = 0
    <3>1. pendings' = pendings
      BY <2>1 DEF ClearPending
    <3>2. ASSUME NEW r \in Pris, NEW i \in 1 .. Len(pendings[r]), pendings[r][i].w = w
          PROVE  FALSE
      <4>1. pending[w] = i
        BY <1>1, <3>2 DEF QueueOK, PendingIndexed
      <4>2. QED
        BY <2>1, <4>1
    <3>3. QED
      BY <3>1, <3>2 DEF QueueOK
  <2>2. CASE k # 0
    <3> DEFINE new == [pendings[p][k] EXCEPT !.w = pending_w]
               q   == [pendings[p] EXCEPT ![k] = new]
    <3>1. pendings[p] \in Seq(Entries) /\ k \in 1 .. Len(pendings[p]) /\ pendings[p][k].w = w
      BY <1>1, <2>2 DEF QueueOK, PendingIndexed
    <3>2. pendings[p][k] \in Entries
      BY <1>1, <1>4, <3>1
    <3>3. new \in Entries /\ new.w = pending_w /\ new.events = pendings[p][k].events
      BY <3>2 DEF Entries
    <3>4. /\ q \in Seq(Entries)
          /\ Len(q) = Len(pendings[p])
          /\ \A i \in 1 .. Len(pendings[p]) : q[i] = IF i = k THEN new ELSE pendings[p][i]
      BY <3>1, <3>3, ExceptSeq
    <3>5. pendings' = [pendings EXCEPT ![p] = q]
      BY <2>2 DEF ClearPending
    <3>6. \A r \in Pris : pendings'[r] = IF r = p THEN q ELSE pendings[r]
      BY <3>5 DEF QueueOK
    <3>7. pendings' \in [Pris -> Seq(Entries)]
      BY <3>4, <3>5 DEF QueueOK
    <3>8. \A r \in Pris : \A i \in 1 .. Len(pendings[r]) :
            pendings[r][i].w = w => r = p /\ i = k
      BY <1>1 DEF QueueOK, PendingIndexed
    <3>9. ASSUME NEW r \in Pris, NEW i \in 1 .. Len(pendings[r])
          PROVE  /\ pendings'[r][i].events = pendings[r][i].events
                 /\ pendings'[r][i].w = IF pendings[r][i].w = w THEN pending_w
                                        ELSE pendings[r][i].w
      <4>1. CASE r = p /\ i = k
        BY <3>1, <3>3, <3>4, <3>6, <4>1
      <4>2. CASE ~(r = p /\ i = k)
        BY <3>4, <3>6, <3>8, <4>2
      <4>3. QED
        BY <4>1, <4>2
    <3>10. QED
      BY <3>4, <3>6, <3>7, <3>9
  <2>3. QED
    BY <2>1, <2>2
<1>6. ASSUME NEW v \in Watchers, pending'[v] # 0
      PROVE  /\ pending'[v] <= Len(pendings'[Pri[v]])
             /\ pendings'[Pri[v]][pending'[v]].w = v
  <2>1. v # w /\ pending'[v] = pending[v]
    BY <1>2, <1>6 DEF QueueOK
  <2>2. pending[v] \in 1 .. Len(pendings[Pri[v]]) /\ pendings[Pri[v]][pending[v]].w = v
    BY <1>1, <1>6, <2>1 DEF QueueOK, PendingIndexed
  <2>3. QED
    BY <1>1, <1>5, <2>1, <2>2
<1>7. ASSUME NEW r \in Pris, NEW i \in 1 .. Len(pendings'[r])
      PROVE  /\ pendings'[r][i].events # {}
             /\ pendings'[r][i].w # pending_w =>
                  Pri[pendings'[r][i].w] = r /\ pending'[pendings'[r][i].w] = i
  <2>1. i \in 1 .. Len(pendings[r])
    BY <1>5
  <2>2. pendings[r][i] \in Entries
    BY <1>4, <2>1
  <2>3. pendings'[r][i].events # {}
    BY <1>5, <2>1 DEF QueueOK, PendingIndexed
  <2>4. CASE pendings[r][i].w = w
    BY <1>5, <2>1, <2>3, <2>4
  <2>5. CASE pendings[r][i].w # w
    BY <1>2, <1>5, <2>1, <2>2, <2>3, <2>5 DEF QueueOK, PendingIndexed, Entries
  <2>6. QED
    BY <2>4, <2>5
<1>8. PendingIndexed'
  BY <1>6, <1>7 DEF PendingIndexed
<1>9. QED
  BY <1>2, <1>3, <1>5, <1>8 DEF QueueOK

\* Taking the last entry of a queue, as ev_invoke_pending does, keeps the queues
\* consistent.
LEMMA PopQueueOK ==
    ASSUME QueueOK, NEW p \in Pris, pendings[p] # <<>>,
           pendings' = [pendings EXCEPT ![p] = Front(@)],
           pendingpri' = p,
           pending' = IF pendings[p][Len(pendings[p])].w = pending_w THEN pending
                      ELSE [pending EXCEPT ![pendings[p][Len(pendings[p])].w] = 0]
    PROVE  QueueOK'
<1> DEFINE n     == Len(pendings[p])
           entry == pendings[p][n]
<1>1. Pri \in [Watchers -> Pris] /\ pending_w \notin Watchers /\ NUMPRI \in Nat \ {0}
  BY ConstantsAssumption
<1>2. pendings[p] \in Seq(Entries) /\ n \in Nat \ {0} /\ entry \in Entries
  <2>1. pendings[p] \in Seq(Entries)
    BY DEF QueueOK
  <2>2. n \in Nat \ {0}
    BY <2>1, EmptySeq
  <2>3. QED
    BY <2>1, <2>2, ElementOfSeq
<1>3. /\ Front(pendings[p]) \in Seq(Entries)
      /\ Len(Front(pendings[p])) = n - 1
      /\ \A i \in 1 .. n - 1 : Front(pendings[p])[i] = pendings[p][i]
  BY <1>2, SubSeqProperties DEF Front
<1>4. \A r \in Pris : pendings'[r] = IF r = p THEN Front(pendings[p]) ELSE pendings[r]
  BY DEF QueueOK
<1>5. pendings' \in [Pris -> Seq(Entries)]
  BY <1>3 DEF QueueOK
<1>6. pending' \in [Watchers -> Nat]
  BY DEF QueueOK
<1>7. \A r \in Pris : \A i \in 1 .. Len(pendings'[r]) :
        i \in 1 .. Len(pendings[r]) /\ pendings'[r][i] = pendings[r][i] /\ ~(r = p /\ i = n)
  BY <1>2, <1>3, <1>4
<1>8. ASSUME NEW v \in Watchers, pending'[v] # 0
      PROVE  /\ pending'[v] <= Len(pendings'[Pri[v]])
             /\ pendings'[Pri[v]][pending'[v]].w = v
  <2>1. pending'[v] = pending[v] /\ entry.w # v
    <3>1. CASE entry.w = pending_w
      BY <1>1, <3>1 DEF QueueOK
    <3>2. CASE entry.w # pending_w
      BY <1>8, <3>2 DEF QueueOK
    <3>3. QED
      BY <3>1, <3>2
  <2>2. pending[v] \in 1 .. Len(pendings[Pri[v]]) /\ pendings[Pri[v]][pending[v]].w = v
    BY <1>1, <1>8, <2>1 DEF QueueOK, PendingIndexed
  <2>3. ~(Pri[v] = p /\ pending[v] = n)
    BY <2>1, <2>2
  <2>4. pending[v] \in 1 .. Len(pendings'[Pri[v]])
    BY <1>1, <1>2, <1>3, <1>4, <2>2, <2>3
  <2>5. QED
    BY <1>1, <1>7, <2>1, <2>2, <2>4
<1>9. ASSUME NEW r \in Pris, NEW i \in 1 .. Len(pendings'[r])
      PROVE  /\ pendings'[r][i].events # {}
             /\ pendings'[r][i].w # pending_w =>
                  Pri[pendings'[r][i].w] = r /\ pending'[pendings'[r][i].w] = i
  <2>1. i \in 1 .. Len(pendings[r]) /\ pendings'[r][i] = pendings[r][i] /\ ~(r = p /\ i = n)
    BY <1>7
  <2>2. pendings[r][i].events # {}
    BY <2>1 DEF QueueOK, PendingIndexed
  <2>3. ASSUME pendings[r][i].w # pending_w
        PROVE  Pri[pendings[r][i].w] = r /\ pending'[pendings[r][i].w] = i
    <3>1. pendings[r][i] \in Entries
      BY <2>1, ElementOfSeq DEF QueueOK
    <3>2. pendings[r][i].w \in Watchers
      BY <2>3, <3>1 DEF Entries
    <3>3. Pri[pendings[r][i].w] = r /\ pending[pendings[r][i].w] = i
      BY <2>1, <2>3 DEF QueueOK, PendingIndexed
    <3>4. CASE entry.w = pending_w
      BY <3>3, <3>4
    <3>5. CASE entry.w # pending_w
      <4>1. Pri[entry.w] = p /\ pending[entry.w] = n
        BY <1>2, <3>5 DEF QueueOK, PendingIndexed
      <4>2. pendings[r][i].w # entry.w
        BY <2>1, <3>3, <4>1
      <4>3. QED
        BY <3>2, <3>3, <3>5, <4>2 DEF QueueOK
    <3>6. QED
      BY <3>4, <3>5
  <2>4. QED
    BY <2>1, <2>2, <2>3
<1>10. PendingIndexed'
  BY <1>8, <1>9 DEF PendingIndexed
<1>11. pendingpri' \in 0 .. NUMPRI
  BY <1>1 DEF Pris
<1>12. QED
  BY <1>5, <1>6, <1>10, <1>11 DEF QueueOK

-----------------------------------------------------------------------------
\* The arrays of started watchers by themselves.
ArraysOK ==
    /\ active \in [Watchers -> Nat]
    /\ arrays \in [Keys -> Seq(Watchers)]
    /\ activecnt \in Int
    /\ ActiveIndexed

\* The watchers that count in activecnt.
Counted == {w \in Watchers : active[w] # 0 /\ Kind[w] # "cleanup"}

LEMMA KeyOfType ==
    ASSUME NEW w \in Watchers, Kind[w] # "io"
    PROVE  KeyOf(w) \in Keys
BY ConstantsAssumption DEF KeyOf, Keys, Kinds

\* The start functions put a watcher at the end of its array and count it.
LEMMA StartArraysOK ==
    ASSUME ArraysOK, NEW w \in Watchers, StartWatcher(w)
    PROVE  /\ ArraysOK'
           /\ Kind[w] # "cleanup" => Counted' = Counted \cup {w} /\ w \notin Counted
           /\ Kind[w] = "cleanup" => Counted' = Counted
<1>1. active[w] = 0 /\ activecnt' \in Int
  BY DEF StartWatcher, ArraysOK
<1>2. CASE Kind[w] = "io"
  <2>1. active' = [active EXCEPT ![w] = 1] /\ arrays' = arrays
    BY <1>2 DEF StartWatcher
  <2>2. active' \in [Watchers -> Nat]
    BY <2>1 DEF ArraysOK
  <2>3. ASSUME NEW k \in Keys, NEW i \in 1 .. Len(arrays'[k])
        PROVE  KeyOf(arrays'[k][i]) = k /\ Kind[arrays'[k][i]] # "io" /\ active'[arrays'[k][i]] = i
    <3>1. arrays[k][i] \in Watchers
      BY <2>1, <2>3, ElementOfSeq DEF ArraysOK
    <3>2. Kind[arrays[k][i]] # "io" /\ active[arrays[k][i]] = i /\ KeyOf(arrays[k][i]) = k
      BY <2>1, <2>3 DEF ArraysOK, ActiveIndexed
    <3>3. QED
      BY <1>2, <2>1, <3>1, <3>2 DEF ArraysOK
  <2>4. ASSUME NEW v \in Watchers, active'[v] # 0
        PROVE  IF Kind[v] = "io" THEN active'[v] = 1
               ELSE active'[v] <= Len(arrays'[KeyOf(v)]) /\ arrays'[KeyOf(v)][active'[v]] = v
    <3>1. CASE v = w
      BY <1>2, <2>1, <3>1 DEF ArraysOK
    <3>2. CASE v # w
      BY <2>1, <2>4, <3>2 DEF ArraysOK, ActiveIndexed
    <3>3. QED
      BY <3>1, <3>2
  <2>5. ActiveIndexed'
    BY <2>3, <2>4 DEF ActiveIndexed, KeyOf
  <2>6. Counted' = Counted \cup {w} /\ w \notin Counted
    BY <1>1, <1>2, <2>1 DEF Counted, ArraysOK
  <2>7. QED
    BY <1>1, <1>2, <2>1, <2>2, <2>5, <2>6 DEF ArraysOK
<1>3. CASE Kind[w] # "io"
  <2> DEFINE k == KeyOf(w)
             a == arrays[k]
  <2>1. k \in Keys /\ a \in Seq(Watchers)
    BY <1>3, KeyOfType DEF ArraysOK
  <2>2. arrays' = [arrays EXCEPT ![k] = Append(@, w)] /\ active' = [active EXCEPT ![w] = Len(a) + 1]
    BY <1>3 DEF StartWatcher
  <2>3. active' \in [Watchers -> Nat] /\ arrays' \in [Keys -> Seq(Watchers)]
    BY <2>1, <2>2 DEF ArraysOK
  <2>4. /\ Len(arrays'[k]) = Len(a) + 1
        /\ arrays'[k][Len(a) + 1] = w
        /\ \A i \in 1 .. Len(a) : arrays'[k][i] = a[i]
        /\ \A l \in Keys : l # k => arrays'[l] = arrays[l]
    BY <2>1, <2>2 DEF ArraysOK
  <2>5. ASSUME NEW l \in Keys, NEW i \in 1 .. Len(arrays'[l])
        PROVE  KeyOf(arrays'[l][i]) = l /\ Kind[arrays'[l][i]] # "io" /\ active'[arrays'[l][i]] = i
    <3>1. CASE l = k /\ i = Len(a) + 1
      BY <1>3, <2>2, <2>4, <3>1 DEF ArraysOK
    <3>2. CASE ~(l = k /\ i = Len(a) + 1)
      <4>1. i \in 1 .. Len(arrays[l]) /\ arrays'[l][i] = arrays[l][i]
        BY <2>1, <2>4, <2>5, <3>2
      <4>2. arrays[l][i] \in Watchers
        BY <4>1, ElementOfSeq DEF ArraysOK
      <4>3. /\ KeyOf(arrays[l][i]) = l /\ Kind[arrays[l][i]] # "io"
            /\ active[arrays[l][i]] = i /\ i # 0
        BY <4>1 DEF ArraysOK, ActiveIndexed
      <4>4. QED
        BY <1>1, <2>2, <4>1, <4>2, <4>3 DEF ArraysOK
    <3>3. QED
      BY <3>1, <3>2
  <2>6. ASSUME NEW v \in Watchers, active'[v] # 0
        PROVE  IF Kind[v] = "io" THEN active'[v] = 1
               ELSE active'[v] <= Len(arrays'[KeyOf(v)]) /\ arrays'[KeyOf(v)][active'[v]] = v
    <3>1. CASE v = w
      BY <1>3, <2>1, <2>2, <2>4, <3>1 DEF ArraysOK
    <3>2. CASE v # w
      <4>1. active'[v] = active[v] /\ active[v] \in Nat \ {0}
        BY <2>2, <2>6, <3>2 DEF ArraysOK
      <4>2. CASE Kind[v] = "io"
        BY <4>1, <4>2 DEF ArraysOK, ActiveIndexed
      <4>3. CASE Kind[v] # "io"
        <5>1. KeyOf(v) \in Keys
          BY <4>3, KeyOfType
        <5>2. active[v] \in 1 .. Len(arrays[KeyOf(v)]) /\ arrays[KeyOf(v)][active[v]] = v
          BY <4>1, <4>3, <5>1 DEF ArraysOK, ActiveIndexed
        <5>3. QED
          BY <2>1, <2>4, <4>1, <4>3, <5>1, <5>2
      <4>4. QED
        BY <4>2, <4>3
    <3>3. QED
      BY <3>1, <3>2
  <2>7. ActiveIndexed'
    BY <2>5, <2>6 DEF ActiveIndexed, KeyOf
  <2>8. active'[w] # 0 /\ \A v \in Watchers : v # w => active'[v] = active[v]
    BY <2>1, <2>2 DEF ArraysOK
  <2>9. QED
    BY <1>1, <2>3, <2>7, <2>8 DEF ArraysOK, Counted
<1>4. QED
  BY <1>2, <1>3

\* The stop functions take out of its array the watcher they are given and no
\* other, and every watcher that stays has the index of its place.
LEMMA StopArraysOK ==
    ASSUME ArraysOK, NEW w \in Watchers, StopWatcher(w)
    PROVE  /\ ArraysOK'
           /\ active' = [active EXCEPT ![w] = 0] \/ Kind[w] # "io"
           /\ active'[w] = 0
           /\ Counted' = Counted \ {w}
           /\ activecnt' = IF w \in Counted THEN activecnt - 1 ELSE activecnt
<1>1. CASE active[w] = 0
  <2>1. active' = active /\ arrays' = arrays /\ activecnt' = activecnt
    BY <1>1 DEF StopWatcher, watchVars
  <2>2. ActiveIndexed'
    BY <2>1 DEF ArraysOK, ActiveIndexed, KeyOf
  <2>3. QED
    BY <1>1, <2>1, <2>2 DEF ArraysOK, Counted
<1>2. CASE active[w] # 0 /\ Kind[w] = "io"
  <2>1. active' = [active EXCEPT ![w] = 0] /\ arrays' = arrays /\ activecnt' = activecnt - 1
    BY <1>2 DEF StopWatcher
  <2>2. active' \in [Watchers -> Nat] /\ activecnt' \in Int
    BY <2>1 DEF ArraysOK
  <2>3. ASSUME NEW k \in Keys, NEW i \in 1 .. Len(arrays'[k])
        PROVE  KeyOf(arrays'[k][i]) = k /\ Kind[arrays'[k][i]] # "io" /\ active'[arrays'[k][i]] = i
    <3>1. arrays[k][i] \in Watchers
      BY <2>1, <2>3, ElementOfSeq DEF ArraysOK
    <3>2. Kind[arrays[k][i]] # "io" /\ active[arrays[k][i]] = i /\ KeyOf(arrays[k][i]) = k
      BY <2>1, <2>3 DEF ArraysOK, ActiveIndexed
    <3>3. QED
      BY <1>2, <2>1, <3>1, <3>2 DEF ArraysOK
  <2>4. ASSUME NEW v \in Watchers, active'[v] # 0
        PROVE  IF Kind[v] = "io" THEN active'[v] = 1
               ELSE active'[v] <= Len(arrays'[KeyOf(v)]) /\ arrays'[KeyOf(v)][active'[v]] = v
    BY <2>1, <2>4 DEF ArraysOK, ActiveIndexed
  <2>5. ActiveIndexed'
    BY <2>3, <2>4 DEF ActiveIndexed, KeyOf
  <2>6. Counted' = Counted \ {w} /\ w \in Counted
    BY <1>2, <2>1 DEF Counted, ArraysOK
  <2>7. QED
    BY <2>1, <2>2, <2>5, <2>6 DEF ArraysOK
<1>3. CASE active[w] # 0 /\ Kind[w] # "io"
  <2> DEFINE k    == KeyOf(w)
             a    == arrays[k]
             n    == Len(a)
             j    == active[w]
             last == a[n]
             b    == [a EXCEPT ![j] = last]
             f    == Front(b)
  <2>1. k \in Keys /\ a \in Seq(Watchers)
    BY <1>3, KeyOfType DEF ArraysOK
  <2>2. j \in 1 .. n /\ a[j] = w /\ n \in Nat \ {0}
    BY <1>3, <2>1 DEF ArraysOK, ActiveIndexed
  <2>3. last \in Watchers /\ active[last] = n /\ KeyOf(last) = k /\ Kind[last] # "io"
    BY <2>1, <2>2, ElementOfSeq DEF ArraysOK, ActiveIndexed
  <2>4. /\ activecnt' = IF Kind[w] = "cleanup" THEN activecnt ELSE activecnt - 1
        /\ arrays' = [arrays EXCEPT ![k] = Front(b)]
        /\ active' = [active EXCEPT ![last] = j, ![w] = 0]
    BY <1>3 DEF StopWatcher
  <2>5. /\ b \in Seq(Watchers) /\ Len(b) = n
        /\ \A i \in 1 .. n : b[i] = IF i = j THEN last ELSE a[i]
    BY <2>1, <2>2, <2>3, ExceptSeq
  <2>6. /\ f \in Seq(Watchers)
        /\ Len(f) = n - 1
        /\ \A i \in 1 .. n - 1 : f[i] = IF i = j THEN last ELSE a[i]
    <3>1. b # <<>>
      BY <2>2, <2>5
    <3> HIDE DEF b
    <3>2. /\ f \in Seq(Watchers)
          /\ Len(f) = Len(b) - 1
          /\ \A i \in 1 .. Len(b) - 1 : f[i] = b[i]
      BY <2>5, <3>1, FrontProperties
    <3>3. QED
      BY <2>2, <2>5, <3>2
  <2>7. \A l \in Keys : arrays'[l] = IF l = k THEN f ELSE arrays[l]
    BY <2>4 DEF ArraysOK
  <2>8. arrays' \in [Keys -> Seq(Watchers)] /\ active' \in [Watchers -> Nat] /\ activecnt' \in Int
    <3>1. arrays' \in [Keys -> Seq(Watchers)]
      BY <2>4, <2>6 DEF ArraysOK
    <3>2. active' \in [Watchers -> Nat]
      <4>1. j \in Nat
        BY DEF ArraysOK
      <4> HIDE DEF j, last
      <4>2. [active EXCEPT ![last] = j] \in [Watchers -> Nat]
        BY <4>1 DEF ArraysOK
      <4>3. QED
        BY <2>4, <4>2
    <3>3. activecnt' = IF Kind[w] = "cleanup" THEN activecnt ELSE activecnt - 1
      BY <2>4
    <3>4. activecnt' \in Int
      BY <3>3 DEF ArraysOK
    <3>5. QED
      BY <3>1, <3>2, <3>4
  <2>9. \A v \in Watchers : active'[v] = IF v = w THEN 0 ELSE IF v = last THEN j ELSE active[v]
    BY <2>2, <2>3, <2>4 DEF ArraysOK
  <2> HIDE DEF f, b
  <2>10. ASSUME NEW l \in Keys, NEW i \in 1 .. Len(arrays'[l])
         PROVE  KeyOf(arrays'[l][i]) = l /\ Kind[arrays'[l][i]] # "io" /\ active'[arrays'[l][i]] = i
    <3>1. CASE l = k /\ i = j
      <4>1. arrays'[l][i] = last /\ j # n
        BY <2>2, <2>6, <2>7, <2>10, <3>1
      <4>2. last # w
        BY <2>3, <4>1
      <4>3. QED
        BY <2>3, <2>9, <3>1, <4>1, <4>2
    <3>2. CASE ~(l = k /\ i = j)
      <4>1. i \in 1 .. Len(arrays[l]) /\ arrays'[l][i] = arrays[l][i] /\ ~(l = k /\ i = n)
        BY <2>1, <2>2, <2>6, <2>7, <2>10, <3>2
      <4>2. arrays[l][i] \in Watchers
        BY <4>1, ElementOfSeq DEF ArraysOK
      <4>3. KeyOf(arrays[l][i]) = l /\ Kind[arrays[l][i]] # "io" /\ active[arrays[l][i]] = i
        BY <4>1 DEF ArraysOK, ActiveIndexed
      <4>4. arrays[l][i] # w /\ arrays[l][i] # last
        BY <2>3, <3>2, <4>1, <4>3
      <4>5. QED
        BY <2>9, <4>1, <4>2, <4>3, <4>4
    <3>3. QED
      BY <3>1, <3>2
  <2>11. ASSUME NEW v \in Watchers, active'[v] # 0
         PROVE  IF Kind[v] = "io" THEN active'[v] = 1
                ELSE active'[v] <= Len(arrays'[KeyOf(v)]) /\ arrays'[KeyOf(v)][active'[v]] = v
    <3>1. v # w
      BY <2>9, <2>11
    <3>2. CASE v = last
      <4>1. j \in 1 .. n - 1
        BY <2>2, <2>3, <3>1, <3>2
      <4>2. QED
        BY <2>1, <2>3, <2>6, <2>7, <2>9, <3>1, <3>2, <4>1
    <3>3. CASE v # last /\ Kind[v] = "io"
      BY <2>9, <2>11, <3>1, <3>3 DEF ArraysOK, ActiveIndexed
    <3>4. CASE v # last /\ Kind[v] # "io"
      <4>1. active'[v] = active[v] /\ active[v] \in Nat \ {0} /\ KeyOf(v) \in Keys
        BY <2>9, <2>11, <3>1, <3>4, KeyOfType DEF ArraysOK
      <4>2. active[v] \in 1 .. Len(arrays[KeyOf(v)]) /\ arrays[KeyOf(v)][active[v]] = v
        BY <3>4, <4>1 DEF ArraysOK, ActiveIndexed
      <4>3. CASE KeyOf(v) = k
        <5>1. active[v] # n /\ active[v] # j
          BY <2>2, <3>1, <3>4, <4>2, <4>3
        <5>2. QED
          BY <2>2, <2>6, <2>7, <3>4, <4>1, <4>2, <4>3, <5>1
      <4>4. CASE KeyOf(v) # k
        BY <2>7, <3>4, <4>1, <4>2, <4>4
      <4>5. QED
        BY <4>3, <4>4
    <3>5. QED
      BY <3>2, <3>3, <3>4
  <2>12. ActiveIndexed'
    BY <2>10, <2>11 DEF ActiveIndexed, KeyOf
  <2>13. active'[w] = 0 /\ \A v \in Watchers : v # w => (active'[v] # 0 <=> active[v] # 0)
    BY <2>2, <2>3, <2>9
  <2>14. QED
    BY <1>3, <2>4, <2>8, <2>12, <2>13 DEF ArraysOK, Counted
<1>4. QED
  BY <1>1, <1>2, <1>3

-----------------------------------------------------------------------------
\* The stack of ev_run calls.
StackOK ==
    /\ stack \in Seq(Frames)
    /\ running \in Seq(Calls)
    /\ HighestFirst

\* The flags and counters.
CtlOK ==
    /\ loop_done \in {"CANCEL", "ONE", "ALL"}
    /\ postfork \in BOOLEAN
    /\ alive \in BOOLEAN
    /\ refs \in Int
    /\ forkowed \in BOOLEAN
    /\ calls \in 0 .. MaxCalls

\* The inductive invariant. PendingIndexed needs no more than itself; that no
\* queue above pendingpri has an entry needs the position of every ev_run call.
IInv == QueueOK /\ ArraysOK /\ RefCountExact /\ CtlOK /\ StackOK

LEMMA IInvParts ==
    IInv => TypeOK /\ PendingIndexed /\ ActiveIndexed /\ HighestFirst /\ RefCountExact
BY DEF IInv, QueueOK, ArraysOK, CtlOK, StackOK, TypeOK

LEMMA CountedFinite == IsFiniteSet(Counted) /\ Cardinality(Counted) \in Nat
<1>1. Counted \in SUBSET Watchers
  BY DEF Counted
<1>2. IsFiniteSet(Counted)
  BY <1>1, FS_Subset, ConstantsAssumption
<1>3. QED
  BY <1>2, FS_CardinalityType

\* Replacing the innermost frame leaves the rest of the stack alone.
LEMMA SetTop ==
    ASSUME stack \in Seq(Frames), stack # <<>>, NEW f \in Frames,
           stack' = [stack EXCEPT ![Len(stack)] = f]
    PROVE  /\ stack' \in Seq(Frames)
           /\ Len(stack') = Len(stack)
           /\ Len(stack) \in Nat \ {0}
           /\ stack' # <<>>
           /\ Top' = f
           /\ \A k \in 1 .. Len(stack) - 1 : stack'[k] = stack[k]
<1>1. Len(stack) \in Nat \ {0}
  BY EmptySeq
<1>2. Len(stack) \in 1 .. Len(stack)
  BY <1>1
<1>3. /\ stack' \in Seq(Frames)
      /\ Len(stack') = Len(stack)
      /\ \A j \in 1 .. Len(stack) : stack'[j] = IF j = Len(stack) THEN f ELSE stack[j]
  BY <1>2, ExceptSeq
<1>4. Len(<<>>) = 0
  BY EmptySeq
<1>5. stack' # <<>>
  BY <1>1, <1>3, <1>4
<1>6. Top' = f
  BY <1>2, <1>3 DEF Top
<1>7. \A k \in 1 .. Len(stack) - 1 : stack'[k] = stack[k]
  <2>1. TAKE k \in 1 .. Len(stack) - 1
  <2>2. k \in 1 .. Len(stack) /\ k # Len(stack)
    BY <1>1
  <2>3. QED
    BY <1>3, <2>2
<1>8. QED
  BY <1>1, <1>3, <1>5, <1>6, <1>7

LEMMA TopType ==
    ASSUME stack \in Seq(Frames), stack # <<>>
    PROVE  Top \in Frames /\ Len(stack) \in Nat \ {0}
<1>1. Len(stack) \in Nat \ {0}
  BY EmptySeq
<1>2. QED
  BY <1>1, ElementOfSeq DEF Top

PCs == {"invoke", "cb", "iter", "queue", "prepare", "test", "poll",
        "idle", "check", "while", "destroyed"}

LEMMA GotoTop ==
    ASSUME stack \in Seq(Frames), stack # <<>>, NEW pc \in PCs, Goto(pc)
    PROVE  /\ stack' \in Seq(Frames)
           /\ Len(stack') = Len(stack)
           /\ Len(stack) \in Nat \ {0}
           /\ stack' # <<>>
           /\ Top' = [Top EXCEPT !.pc = pc]
           /\ Top'.pc = pc /\ Top'.key = Top.key /\ Top'.i = Top.i
           /\ \A k \in 1 .. Len(stack) - 1 : stack'[k] = stack[k]
<1> DEFINE f == [Top EXCEPT !.pc = pc]
<1>1. Top \in Frames
  BY TopType
<1>2. f \in Frames /\ f.pc = pc /\ f.key = Top.key /\ f.i = Top.i
  BY <1>1 DEF Frames, PCs
<1>3. stack' = [stack EXCEPT ![Len(stack)] = f]
  BY DEF Goto, Top
<1> HIDE DEF f
<1>4. /\ stack' \in Seq(Frames) /\ Len(stack') = Len(stack) /\ Len(stack) \in Nat \ {0}
      /\ stack' # <<>> /\ Top' = f
      /\ \A k \in 1 .. Len(stack) - 1 : stack'[k] = stack[k]
  BY <1>2, <1>3, SetTop
<1>5. QED
  BY <1>2, <1>4 DEF f

\* What an action leaves alone stays right.
LEMMA QueueStutter == QueueOK /\ UNCHANGED queueVars => QueueOK'
BY DEF QueueOK, PendingIndexed, queueVars

LEMMA WatchStutter ==
    ArraysOK /\ RefCountExact /\ UNCHANGED <<watchVars, refs>> => ArraysOK' /\ RefCountExact'
BY DEF ArraysOK, ActiveIndexed, RefCountExact, KeyOf, watchVars

\* The steps of ev_run that only move the innermost program counter: how
\* HighestFirst follows from what the new position demands.
LEMMA GotoStackOK ==
    ASSUME StackOK, stack # <<>>, Top.pc # "cb", NEW pc \in PCs \ {"cb", "queue"}, Goto(pc),
           UNCHANGED running,
           pc = "invoke" => \A p \in Pris : p > pendingpri' => pendings'[p] = <<>>,
           pc \in {"iter", "prepare", "test", "while"} => \A p \in Pris : pendings'[p] = <<>>
    PROVE  StackOK'
<1>1. stack \in Seq(Frames) /\ pc \in PCs
  BY DEF StackOK
<1>2. /\ stack' \in Seq(Frames) /\ Len(stack') = Len(stack) /\ Len(stack) \in Nat \ {0}
      /\ stack' # <<>> /\ Top'.pc = pc
      /\ \A k \in 1 .. Len(stack) - 1 : stack'[k] = stack[k]
  BY <1>1, GotoTop
<1>3. Len(running') = Len(stack') - 1
  BY <1>2 DEF StackOK, HighestFirst
<1>4. \A k \in 1 .. Len(stack') - 1 : stack'[k].pc = "cb"
  BY <1>2 DEF StackOK, HighestFirst
<1>5. HighestFirst'
  BY <1>2, <1>3, <1>4 DEF HighestFirst
<1>6. QED
  BY <1>2, <1>5 DEF StackOK

LEMMA QueueStackOK ==
    ASSUME StackOK, ArraysOK, stack # <<>>, Top.pc # "cb", UNCHANGED <<queueVars, arrays, running>>,
           NEW key \in Keys, NEW next \in {"iter", "prepare", "test", "while", "destroyed"},
           arrays[key] # <<>>,
           stack' = [stack EXCEPT ![Len(stack)] =
                       [@ EXCEPT !.pc = "queue", !.key = key, !.i = 1, !.next = next]]
    PROVE  StackOK'
<1> DEFINE f == [Top EXCEPT !.pc = "queue", !.key = key, !.i = 1, !.next = next]
<1>1. Top \in Frames
  BY TopType DEF StackOK
<1>2. f \in Frames /\ f.pc = "queue" /\ f.key = key /\ f.i = 1
  BY <1>1 DEF Frames
<1>3. stack' = [stack EXCEPT ![Len(stack)] = f]
  BY DEF Top
<1> HIDE DEF f
<1>4. /\ stack' \in Seq(Frames) /\ Len(stack') = Len(stack) /\ Len(stack) \in Nat \ {0}
      /\ stack' # <<>> /\ Top' = f
      /\ \A k \in 1 .. Len(stack) - 1 : stack'[k] = stack[k]
  BY <1>2, <1>3, SetTop DEF StackOK
<1>5. Len(arrays[key]) \in Nat \ {0}
  BY EmptySeq DEF ArraysOK
<1>6. Top'.i \in 1 .. Len(arrays'[Top'.key])
  BY <1>2, <1>4, <1>5
<1>7. Len(running') = Len(stack') - 1
  BY <1>4 DEF StackOK, HighestFirst
<1>8. \A k \in 1 .. Len(stack') - 1 : stack'[k].pc = "cb"
  BY <1>4 DEF StackOK, HighestFirst
<1>9. HighestFirst'
  BY <1>2, <1>4, <1>6, <1>7, <1>8 DEF HighestFirst
<1>10. QED
  BY <1>4, <1>9 DEF StackOK

LEMMA QueueOrSkipStackOK ==
    ASSUME StackOK, ArraysOK, stack # <<>>, Top.pc # "cb", UNCHANGED <<queueVars, arrays, running>>,
           NEW key \in Keys, NEW next \in {"prepare", "test"},
           \A p \in Pris : pendings[p] = <<>>,
           QueueOrSkip(key, next)
    PROVE  StackOK'
<1>1. CASE arrays[key] = <<>>
  <2>1. Goto(next)
    BY <1>1 DEF QueueOrSkip, Goto
  <2>2. QED
    BY <2>1, GotoStackOK DEF PCs, queueVars
<1>2. CASE arrays[key] # <<>>
  <2>1. stack' = [stack EXCEPT ![Len(stack)] =
                    [@ EXCEPT !.pc = "queue", !.key = key, !.i = 1, !.next = next]]
    BY <1>2 DEF QueueOrSkip
  <2>2. QED
    BY <1>2, <2>1, QueueStackOK
<1>3. QED
  BY <1>1, <1>2

\* The steps of ev_run preserve the invariant.
LEMMA InvokePendingInv == IInv /\ InvokePending => IInv'
<1> SUFFICES ASSUME IInv, InvokePending PROVE IInv'
  OBVIOUS
<1>1. stack # <<>> /\ Top.pc = "invoke" /\ UNCHANGED <<watchVars, ctlVars>>
  BY DEF InvokePending, At
<1>2. PICK p \in Pris :
        /\ p <= pendingpri
        /\ pendings[p] # <<>>
        /\ \A q \in Pris : q > p /\ q <= pendingpri => pendings[q] = <<>>
        /\ LET entry == pendings[p][Len(pendings[p])] IN
           /\ pendings' = [pendings EXCEPT ![p] = Front(@)]
           /\ pendingpri' = p
           /\ IF entry.w = pending_w
              THEN UNCHANGED <<pending, running, stack>>
              ELSE /\ pending' = [pending EXCEPT ![entry.w] = 0]
                   /\ running' = Append(running, entry)
                   /\ Goto("cb")
  BY DEF InvokePending
<1> DEFINE entry == pendings[p][Len(pendings[p])]
<1>3. QueueOK'
  BY <1>2, PopQueueOK DEF IInv
<1>4. ArraysOK' /\ RefCountExact'
  BY <1>1, WatchStutter DEF IInv, ctlVars
<1>5. CtlOK'
  BY <1>1 DEF IInv, CtlOK, ctlVars
<1>6. \A q \in Pris : q > p => pendings'[q] = <<>>
  <2>1. TAKE q \in Pris
  <2>2. pendingpri \in 0 .. NUMPRI /\ NUMPRI \in Nat \ {0} /\ pendings \in [Pris -> Seq(Entries)]
    BY ConstantsAssumption DEF IInv, QueueOK
  <2>3. CASE q <= pendingpri
    BY <1>2, <2>2, <2>3 DEF Pris
  <2>4. CASE q > pendingpri
    BY <1>1, <1>2, <2>2, <2>4 DEF IInv, StackOK, HighestFirst, Pris
  <2>5. QED
    BY <2>2, <2>3, <2>4 DEF Pris
<1>7. CASE entry.w = pending_w
  <2>1. running' = running /\ stack' = stack /\ pendingpri' = p
    BY <1>2, <1>7
  <2>2. HighestFirst'
    BY <1>1, <1>6, <2>1 DEF IInv, StackOK, HighestFirst, Top
  <2>3. QED
    BY <1>3, <1>4, <1>5, <2>1, <2>2 DEF IInv, StackOK
<1>8. CASE entry.w # pending_w
  <2>1. running' = Append(running, entry) /\ Goto("cb") /\ pendingpri' = p
    BY <1>2, <1>8
  <2>2. pendings[p] \in Seq(Entries)
    BY DEF IInv, QueueOK
  <2>3. Len(pendings[p]) \in Nat \ {0}
    BY <1>2, <2>2, EmptySeq
  <2>4. entry \in Entries
    BY <2>2, <2>3, ElementOfSeq
  <2>5. entry \in Calls
    BY <1>8, <2>4 DEF Entries, Calls
  <2>6. /\ stack' \in Seq(Frames) /\ Len(stack') = Len(stack) /\ Len(stack) \in Nat \ {0}
        /\ stack' # <<>> /\ Top'.pc = "cb"
        /\ \A k \in 1 .. Len(stack) - 1 : stack'[k] = stack[k]
    BY <1>1, <2>1, GotoTop DEF IInv, StackOK, PCs
  <2>7. running' \in Seq(Calls) /\ Len(running') = Len(running) + 1
    BY <2>1, <2>5 DEF IInv, StackOK
  <2>8. Len(running') = Len(stack')
    BY <1>1, <2>6, <2>7 DEF IInv, StackOK, HighestFirst
  <2>9. \A k \in 1 .. Len(stack') - 1 : stack'[k].pc = "cb"
    BY <2>6 DEF IInv, StackOK, HighestFirst
  <2>10. HighestFirst'
    BY <1>6, <2>1, <2>6, <2>8, <2>9 DEF HighestFirst
  <2>11. QED
    BY <1>3, <1>4, <1>5, <2>6, <2>7, <2>10 DEF IInv, StackOK
<1>9. QED
  BY <1>7, <1>8

LEMMA InvokeDoneInv == IInv /\ InvokeDone => IInv'
<1> SUFFICES ASSUME IInv, InvokeDone PROVE IInv'
  OBVIOUS
<1>1. stack # <<>> /\ Top.pc = "invoke" /\ Top.next \in {"iter", "prepare", "test", "while", "destroyed"}
  BY TopType DEF InvokeDone, At, IInv, StackOK, Frames
<1>2. /\ pendingpri' = 0 /\ Goto(Top.next)
      /\ UNCHANGED <<pending, pendings, watchVars, ctlVars, running>>
  BY DEF InvokeDone
<1>3. \A p \in Pris : pendings'[p] = <<>>
  <2>1. TAKE p \in Pris
  <2>2. pendingpri \in 0 .. NUMPRI /\ NUMPRI \in Nat \ {0}
    BY ConstantsAssumption DEF IInv, QueueOK
  <2>3. p <= pendingpri \/ p > pendingpri
    BY <2>2 DEF Pris
  <2>4. QED
    BY <1>1, <1>2, <2>3 DEF InvokeDone, IInv, StackOK, HighestFirst
<1>4. QueueOK'
  <2>1. pendingpri' \in 0 .. NUMPRI
    BY <1>2, ConstantsAssumption
  <2>2. QED
    BY <1>2, <2>1 DEF IInv, QueueOK, PendingIndexed
<1>5. ArraysOK' /\ RefCountExact' /\ CtlOK'
  BY <1>2, WatchStutter DEF IInv, CtlOK, ctlVars
<1>6. StackOK'
  BY <1>1, <1>2, <1>3, GotoStackOK DEF IInv, PCs
<1>7. QED
  BY <1>4, <1>5, <1>6 DEF IInv

LEMMA QueueEventsInv == IInv /\ QueueEvents => IInv'
<1> SUFFICES ASSUME IInv, QueueEvents PROVE IInv'
  OBVIOUS
<1> DEFINE a == arrays[Top.key]
           f == IF Top.i < Len(a) THEN [Top EXCEPT !.i = Top.i + 1]
                ELSE [Top EXCEPT !.pc = IF Top.key[1] = "idle" THEN "check" ELSE "invoke"]
<1>1. stack # <<>> /\ Top.pc = "queue" /\ Top \in Frames
  BY TopType DEF QueueEvents, At, IInv, StackOK
<1>2. /\ FeedEvent(a[Top.i], {TypeOf[Top.key[1]]})
      /\ stack' = [stack EXCEPT ![Len(stack)] = f]
      /\ UNCHANGED <<watchVars, ctlVars, running>>
  BY DEF QueueEvents, Top
<1>3. Top.key \in Keys /\ Top.i \in 1 .. Len(a) /\ a \in Seq(Watchers)
  BY <1>1 DEF IInv, StackOK, HighestFirst, Frames, ArraysOK
<1>4. a[Top.i] \in Watchers
  BY <1>3, ElementOfSeq
<1>5. {TypeOf[Top.key[1]]} \in SUBSET Events /\ {TypeOf[Top.key[1]]} # {}
  <2>1. Top.key[1] \in {"idle", "prepare", "check", "fork", "cleanup"}
    BY <1>3 DEF Keys, Kinds
  <2>2. TypeOf[Top.key[1]] \in Events
    BY <2>1 DEF TypeOf, Events
  <2>3. QED
    BY <2>2
<1>6. QueueOK'
  BY <1>2, <1>4, <1>5, FeedEventQueueOK DEF IInv
<1>7. ArraysOK' /\ RefCountExact' /\ CtlOK'
  BY <1>2, WatchStutter DEF IInv, CtlOK, ctlVars
<1>8. pendingpri' = NUMPRI - 1 /\ arrays' = arrays /\ running' = running
  BY <1>2 DEF FeedEvent, watchVars
<1>9. f \in Frames /\ f.key = Top.key /\ f.pc \in {"queue", "check", "invoke"}
  BY <1>1, <1>3 DEF Frames
<1>10. f.pc = "queue" => f.i \in 1 .. Len(a)
  BY <1>1, <1>3 DEF Frames
<1> HIDE DEF f
<1>11. /\ stack' \in Seq(Frames) /\ Len(stack') = Len(stack) /\ Len(stack) \in Nat \ {0}
       /\ stack' # <<>> /\ Top' = f
       /\ \A k \in 1 .. Len(stack) - 1 : stack'[k] = stack[k]
  BY <1>1, <1>2, <1>9, SetTop DEF IInv, StackOK
<1>12. Len(running') = Len(stack') - 1
  BY <1>1, <1>8, <1>11 DEF IInv, StackOK, HighestFirst
<1>13. \A k \in 1 .. Len(stack') - 1 : stack'[k].pc = "cb"
  BY <1>11 DEF IInv, StackOK, HighestFirst
<1>14. \A p \in Pris : ~(p > pendingpri')
  BY <1>8, ConstantsAssumption DEF Pris
<1>15. Top'.pc = "queue" => Top'.i \in 1 .. Len(arrays'[Top'.key])
  BY <1>8, <1>9, <1>10, <1>11
<1>16. HighestFirst'
  BY <1>9, <1>11, <1>12, <1>13, <1>14, <1>15 DEF HighestFirst
<1>17. QED
  BY <1>6, <1>7, <1>8, <1>11, <1>16 DEF IInv, StackOK

LEMMA IterateInv == IInv /\ Iterate => IInv'
<1> SUFFICES ASSUME IInv, Iterate PROVE IInv'
  OBVIOUS
<1>1. stack # <<>> /\ Top.pc = "iter"
  BY DEF Iterate, At
<1>2. UNCHANGED <<queueVars, watchVars, loop_done, postfork, alive, refs, calls, running>>
  BY DEF Iterate
<1>3. \A p \in Pris : pendings[p] = <<>>
  BY <1>1 DEF IInv, StackOK, HighestFirst
<1>4. QueueOK' /\ ArraysOK' /\ RefCountExact'
  BY <1>2, QueueStutter, WatchStutter DEF IInv
<1>5. CtlOK'
  BY <1>2 DEF IInv, CtlOK, Iterate
<1>6. CASE postfork
  <2>1. <<"fork", 0>> \in Keys
    BY DEF Keys, Kinds
  <2>2. QueueOrSkip(<<"fork", 0>>, "prepare")
    BY <1>6 DEF Iterate
  <2>3. StackOK'
    BY <1>1, <1>2, <1>3, <2>1, <2>2, QueueOrSkipStackOK DEF IInv, watchVars
  <2>4. QED
    BY <1>4, <1>5, <2>3 DEF IInv
<1>7. CASE ~postfork
  <2>1. Goto("prepare")
    BY <1>7 DEF Iterate
  <2>2. StackOK'
    BY <1>1, <1>2, <1>3, <2>1, GotoStackOK DEF IInv, PCs, queueVars
  <2>3. QED
    BY <1>4, <1>5, <2>2 DEF IInv
<1>8. QED
  BY <1>6, <1>7

LEMMA PrepareInv == IInv /\ Prepare => IInv'
<1> SUFFICES ASSUME IInv, Prepare PROVE IInv'
  OBVIOUS
<1>1. /\ stack # <<>> /\ Top.pc = "prepare" /\ QueueOrSkip(<<"prepare", 0>>, "test")
      /\ UNCHANGED <<queueVars, watchVars, ctlVars, running>>
  BY DEF Prepare, At
<1>2. \A p \in Pris : pendings[p] = <<>>
  BY <1>1 DEF IInv, StackOK, HighestFirst
<1>3. <<"prepare", 0>> \in Keys
  BY DEF Keys, Kinds
<1>4. StackOK'
  BY <1>1, <1>2, <1>3, QueueOrSkipStackOK DEF IInv, watchVars
<1>5. QueueOK' /\ ArraysOK' /\ RefCountExact' /\ CtlOK'
  BY <1>1, QueueStutter, WatchStutter DEF IInv, CtlOK, ctlVars
<1>6. QED
  BY <1>4, <1>5 DEF IInv

LEMMA BreakOrPollInv == IInv /\ BreakOrPoll => IInv'
<1> SUFFICES ASSUME IInv, BreakOrPoll PROVE IInv'
  OBVIOUS
<1>1. /\ stack # <<>> /\ Top.pc = "test"
      /\ UNCHANGED <<queueVars, watchVars, loop_done, alive, refs, calls, running>>
  BY DEF BreakOrPoll, At
<1>2. \A p \in Pris : pendings'[p] = <<>>
  BY <1>1 DEF IInv, StackOK, HighestFirst, queueVars
<1>3. PICK pc \in {"while", "poll"} : Goto(pc)
  BY DEF BreakOrPoll
<1>4. StackOK'
  BY <1>1, <1>2, <1>3, GotoStackOK DEF IInv, PCs
<1>5. QueueOK' /\ ArraysOK' /\ RefCountExact'
  BY <1>1, QueueStutter, WatchStutter DEF IInv
<1>6. CtlOK'
  BY <1>1 DEF IInv, CtlOK, BreakOrPoll
<1>7. QED
  BY <1>4, <1>5, <1>6 DEF IInv

LEMMA IdleReifyInv == IInv /\ IdleReify => IInv'
<1> SUFFICES ASSUME IInv, IdleReify PROVE IInv'
  OBVIOUS
<1>1. stack # <<>> /\ Top.pc = "idle" /\ UNCHANGED <<queueVars, watchVars, ctlVars, running>>
  BY DEF IdleReify, At
<1>2. QueueOK' /\ ArraysOK' /\ RefCountExact' /\ CtlOK'
  BY <1>1, QueueStutter, WatchStutter DEF IInv, CtlOK, ctlVars
<1>3. ASSUME NEW p \in Pris, arrays[<<"idle", p>>] # <<>>, QueueOrSkip(<<"idle", p>>, "while")
      PROVE  StackOK'
  <2>1. <<"idle", p>> \in Keys
    BY DEF Keys
  <2>2. stack' = [stack EXCEPT ![Len(stack)] =
                    [@ EXCEPT !.pc = "queue", !.key = <<"idle", p>>, !.i = 1, !.next = "while"]]
    BY <1>3 DEF QueueOrSkip
  <2>3. QED
    BY <1>1, <1>3, <2>1, <2>2, QueueStackOK DEF IInv, watchVars
<1>4. ASSUME Goto("check") PROVE StackOK'
  BY <1>1, <1>4, GotoStackOK DEF IInv, PCs
<1>5. StackOK'
  BY <1>3, <1>4 DEF IdleReify
<1>6. QED
  BY <1>2, <1>5 DEF IInv

LEMMA CheckInv == IInv /\ Check => IInv'
<1> SUFFICES ASSUME IInv, Check PROVE IInv'
  OBVIOUS
<1> DEFINE a == arrays[<<"check", 0>>]
           f == IF a = <<>> THEN [Top EXCEPT !.pc = "invoke", !.next = "while"]
                ELSE [Top EXCEPT !.pc = "queue", !.key = <<"check", 0>>, !.i = 1, !.next = "while"]
<1>1. /\ stack # <<>> /\ Top.pc = "check" /\ pendingpri' = NUMPRI
      /\ UNCHANGED <<pending, pendings, watchVars, ctlVars, running>>
  BY DEF Check, At
<1>2. QueueOK'
  <2>1. pendingpri' \in 0 .. NUMPRI
    BY <1>1, ConstantsAssumption
  <2>2. QED
    BY <1>1, <2>1 DEF IInv, QueueOK, PendingIndexed
<1>3. ArraysOK' /\ RefCountExact' /\ CtlOK'
  BY <1>1, WatchStutter DEF IInv, CtlOK, ctlVars
<1>4. <<"check", 0>> \in Keys
  BY DEF Keys, Kinds
<1>5. a \in Seq(Watchers)
  BY <1>4 DEF IInv, ArraysOK
<1>6. Top \in Frames
  BY <1>1, TopType DEF IInv, StackOK
<1>7. /\ f \in Frames /\ f.pc \in {"invoke", "queue"}
      /\ f.pc = "queue" => f.key = <<"check", 0>> /\ f.i = 1 /\ a # <<>>
  BY <1>4, <1>6 DEF Frames
<1>8. stack' = [stack EXCEPT ![Len(stack)] = f]
  BY DEF Check, Top
<1> HIDE DEF f
<1>9. /\ stack' \in Seq(Frames) /\ Len(stack') = Len(stack) /\ Len(stack) \in Nat \ {0}
      /\ stack' # <<>> /\ Top' = f
      /\ \A k \in 1 .. Len(stack) - 1 : stack'[k] = stack[k]
  BY <1>1, <1>7, <1>8, SetTop DEF IInv, StackOK
<1>10. arrays' = arrays /\ running' = running
  BY <1>1 DEF watchVars
<1>11. Top'.pc = "queue" => Top'.i \in 1 .. Len(arrays'[Top'.key])
  BY <1>5, <1>7, <1>9, <1>10, EmptySeq
<1>12. Len(running') = Len(stack') - 1
  BY <1>1, <1>9, <1>10 DEF IInv, StackOK, HighestFirst
<1>13. \A k \in 1 .. Len(stack') - 1 : stack'[k].pc = "cb"
  BY <1>9 DEF IInv, StackOK, HighestFirst
<1>14. \A p \in Pris : ~(p > pendingpri')
  BY <1>1, ConstantsAssumption DEF Pris
<1>15. HighestFirst'
  BY <1>7, <1>9, <1>11, <1>12, <1>13, <1>14 DEF HighestFirst
<1>16. QED
  BY <1>2, <1>3, <1>9, <1>10, <1>15 DEF IInv, StackOK

\* The innermost ev_run returns to the callback that called it, with nothing
\* pending.
LEMMA PopStackOK ==
    ASSUME StackOK, stack # <<>>, Top.pc # "cb", stack' = Front(stack), UNCHANGED running,
           \A p \in Pris : pendings'[p] = <<>>
    PROVE  StackOK'
<1>1. stack \in Seq(Frames) /\ Len(stack) \in Nat \ {0}
  BY TopType DEF StackOK
<1>2. /\ stack' \in Seq(Frames) /\ Len(stack') = Len(stack) - 1
      /\ \A k \in 1 .. Len(stack) - 1 : stack'[k] = stack[k]
  BY <1>1, FrontProperties
<1>3. Len(running') = Len(stack')
  BY <1>2 DEF StackOK, HighestFirst
<1>4. \A k \in 1 .. Len(stack') : stack'[k].pc = "cb"
  BY <1>2 DEF StackOK, HighestFirst
<1>5. stack' = <<>> => running' = <<>>
  BY <1>3, EmptySeq DEF StackOK
<1>6. stack' # <<>> => Len(stack') \in 1 .. Len(stack')
  BY <1>1, <1>2, EmptySeq
<1>7. stack' # <<>> => Top'.pc = "cb"
  BY <1>4, <1>6 DEF Top
<1>8. \A k \in 1 .. Len(stack') - 1 : stack'[k].pc = "cb"
  BY <1>1, <1>2, <1>4
<1>9. HighestFirst'
  BY <1>3, <1>5, <1>7, <1>8 DEF HighestFirst
<1>10. QED
  BY <1>2, <1>9 DEF StackOK

LEMMA WhileInv == IInv /\ While => IInv'
<1> SUFFICES ASSUME IInv, While PROVE IInv'
  OBVIOUS
<1>1. /\ stack # <<>> /\ Top.pc = "while"
      /\ UNCHANGED <<queueVars, watchVars, postfork, alive, refs, forkowed, calls, running>>
  BY DEF While, At
<1>2. \A p \in Pris : pendings'[p] = <<>>
  BY <1>1 DEF IInv, StackOK, HighestFirst, queueVars
<1>3. QueueOK' /\ ArraysOK' /\ RefCountExact'
  BY <1>1, QueueStutter, WatchStutter DEF IInv
<1>4. CtlOK'
  BY <1>1 DEF IInv, CtlOK, While, Leave
<1>5. ASSUME Goto("iter") PROVE StackOK'
  BY <1>1, <1>2, <1>5, GotoStackOK DEF IInv, PCs
<1>6. ASSUME stack' = Front(stack) PROVE StackOK'
  BY <1>1, <1>2, <1>6, PopStackOK DEF IInv
<1>7. StackOK'
  BY <1>5, <1>6 DEF While
<1>8. QED
  BY <1>3, <1>4, <1>7 DEF IInv

\* Only the outermost frame is one of ev_loop_destroy.
OuterDestroy ==
    \A k \in 1 .. Len(stack) :
      stack[k].pc = "destroyed" \/ stack[k].next = "destroyed" => k = 1

LEMMA DestroyedInv == IInv /\ OuterDestroy /\ Destroyed => IInv'
<1> SUFFICES ASSUME IInv, OuterDestroy, Destroyed PROVE IInv'
  OBVIOUS
<1>1. /\ stack # <<>> /\ Top.pc = "destroyed" /\ stack' = <<>> /\ alive' = FALSE
      /\ UNCHANGED <<queueVars, watchVars, loop_done, postfork, refs, forkowed, calls, running>>
  BY DEF Destroyed, At
<1>2. QueueOK' /\ ArraysOK' /\ RefCountExact'
  BY <1>1, QueueStutter, WatchStutter DEF IInv
<1>3. CtlOK'
  BY <1>1 DEF IInv, CtlOK
<1>4. Len(stack) \in Nat \ {0}
  BY <1>1, TopType DEF IInv, StackOK
<1>5. Len(stack) = 1
  <2>1. Len(stack) \in 1 .. Len(stack) /\ stack[Len(stack)].pc = "destroyed"
    BY <1>1, <1>4 DEF Top
  <2>2. QED
    BY <2>1 DEF OuterDestroy
<1>6. Len(running) = 0 /\ running \in Seq(Calls)
  BY <1>1, <1>5 DEF IInv, StackOK, HighestFirst
<1>7. running' = <<>>
  BY <1>1, <1>6, EmptySeq
<1>8. stack' \in Seq(Frames) /\ Len(stack') = 0
  BY <1>1, EmptySeq
<1>9. HighestFirst'
  BY <1>1, <1>7, <1>8 DEF HighestFirst
<1>10. QED
  BY <1>1, <1>2, <1>3, <1>6, <1>8, <1>9 DEF IInv, StackOK

LEMMA PollEventInv == ASSUME NEW w \in Watchers PROVE IInv /\ PollEvent(w) => IInv'
<1> SUFFICES ASSUME IInv, PollEvent(w) PROVE IInv'
  OBVIOUS
<1>1. /\ stack # <<>> /\ Top.pc = "poll" /\ FeedEvent(w, {"READ"})
      /\ UNCHANGED <<watchVars, ctlVars, stack, running>>
  BY DEF PollEvent, At
<1>2. {"READ"} \in SUBSET Events /\ {"READ"} # {}
  BY DEF Events
<1>3. QueueOK'
  BY <1>1, <1>2, FeedEventQueueOK DEF IInv
<1>4. ArraysOK' /\ RefCountExact' /\ CtlOK'
  BY <1>1, WatchStutter DEF IInv, CtlOK, ctlVars
<1>5. StackOK'
  BY <1>1 DEF IInv, StackOK, HighestFirst, Top, watchVars
<1>6. QED
  BY <1>3, <1>4, <1>5 DEF IInv

LEMMA PollReturnInv == IInv /\ PollReturn => IInv'
<1> SUFFICES ASSUME IInv, PollReturn PROVE IInv'
  OBVIOUS
<1>1. /\ stack # <<>> /\ Top.pc = "poll" /\ Goto("idle")
      /\ UNCHANGED <<queueVars, watchVars, ctlVars, running>>
  BY DEF PollReturn, At
<1>2. QueueOK' /\ ArraysOK' /\ RefCountExact' /\ CtlOK'
  BY <1>1, QueueStutter, WatchStutter DEF IInv, CtlOK, ctlVars
<1>3. StackOK'
  BY <1>1, GotoStackOK DEF IInv, PCs
<1>4. QED
  BY <1>2, <1>3 DEF IInv

-----------------------------------------------------------------------------
\* The calls of the program that leave the stack alone: it is outside ev_run or
\* in a callback, where the arrays may change freely.
LEMMA ProgramStackOK ==
    ASSUME StackOK, Program, UNCHANGED <<stack, running>>,
           stack # <<>> => \A p \in Pris : p > pendingpri' => pendings'[p] = <<>>
    PROVE  StackOK'
BY DEF StackOK, HighestFirst, Program, Top

LEMMA SameQueuesStackOK ==
    ASSUME StackOK, Program, UNCHANGED <<pendings, pendingpri, stack, running>>
    PROVE  StackOK'
BY ProgramStackOK DEF StackOK, HighestFirst, Program

LEMMA CallCtl == CtlOK /\ Call => Program /\ calls' \in 0 .. MaxCalls
BY ConstantsAssumption DEF CtlOK, Call

LEMMA StartInv == ASSUME NEW w \in Watchers PROVE IInv /\ Start(w) => IInv'
<1> SUFFICES ASSUME IInv, Start(w) PROVE IInv'
  OBVIOUS
<1>1. /\ Call /\ StartWatcher(w) /\ UNCHANGED queueVars
      /\ UNCHANGED <<loop_done, postfork, alive, refs, forkowed, stack, running>>
  BY DEF Start, StartWatcher
<1>2. Program /\ CtlOK'
  BY <1>1, CallCtl DEF IInv, CtlOK
<1>3. QueueOK'
  BY <1>1, QueueStutter DEF IInv
<1>4. StackOK'
  BY <1>1, <1>2, SameQueuesStackOK DEF IInv, queueVars
<1>5. /\ ArraysOK'
      /\ Kind[w] # "cleanup" => Counted' = Counted \cup {w} /\ w \notin Counted
      /\ Kind[w] = "cleanup" => Counted' = Counted
  BY <1>1, StartArraysOK DEF IInv
<1>6. activecnt' = IF Kind[w] = "cleanup" THEN activecnt ELSE activecnt + 1
  BY <1>1 DEF StartWatcher
<1>7. activecnt = Cardinality(Counted) + refs /\ refs \in Int
  BY DEF IInv, RefCountExact, Counted, CtlOK
<1>8. Cardinality(Counted') = IF Kind[w] = "cleanup" THEN Cardinality(Counted)
                              ELSE Cardinality(Counted) + 1
  BY <1>5, CountedFinite, FS_AddElement
<1>9. activecnt' = Cardinality(Counted') + refs'
  BY <1>1, <1>6, <1>7, <1>8, CountedFinite
<1>10. RefCountExact'
  BY <1>9 DEF RefCountExact, Counted
<1>11. QED
  BY <1>2, <1>3, <1>4, <1>5, <1>10 DEF IInv

\* clear_pending leaves an empty queue empty.
LEMMA ClearStackOK ==
    ASSUME QueueOK, StackOK, Program, NEW w \in Watchers, ClearPending(w),
           UNCHANGED <<stack, running>>
    PROVE  StackOK'
<1>1. /\ QueueOK' /\ pendingpri' = pendingpri
      /\ \A p \in Pris : Len(pendings'[p]) = Len(pendings[p])
  BY ClearPendingQueueOK
<1>2. ASSUME NEW p \in Pris, pendings[p] = <<>> PROVE pendings'[p] = <<>>
  <2>1. Len(pendings'[p]) = 0
    BY <1>1, <1>2, EmptySeq
  <2>2. pendings'[p] \in Seq(Entries)
    BY <1>1 DEF QueueOK
  <2>3. QED
    BY <2>1, <2>2, EmptySeq
<1>3. stack # <<>> => \A p \in Pris : p > pendingpri => pendings[p] = <<>>
  BY DEF StackOK, HighestFirst, Program
<1>4. QED
  BY <1>1, <1>2, <1>3, ProgramStackOK

LEMMA StopInv == ASSUME NEW w \in Watchers PROVE IInv /\ Stop(w) => IInv'
<1> SUFFICES ASSUME IInv, Stop(w) PROVE IInv'
  OBVIOUS
<1>1. /\ Call /\ StopWatcher(w) /\ ClearPending(w)
      /\ UNCHANGED <<loop_done, postfork, alive, refs, forkowed, stack, running>>
  BY DEF Stop, StopWatcher
<1>2. Program /\ CtlOK'
  BY <1>1, CallCtl DEF IInv, CtlOK
<1>3. QueueOK'
  BY <1>1, ClearPendingQueueOK DEF IInv
<1>4. StackOK'
  BY <1>1, <1>2, ClearStackOK DEF IInv
<1>5. ArraysOK' /\ RefCountExact'
  <2>1. CASE active[w] = 0
    BY <1>1, <2>1, WatchStutter DEF IInv, StopWatcher
  <2>2. CASE active[w] # 0
    <3>1. activecnt' = IF Kind[w] = "cleanup" THEN activecnt ELSE activecnt - 1
      BY <1>1, <2>2 DEF StopWatcher
    <3>2. ArraysOK' /\ Counted' = Counted \ {w}
      BY <1>1, <2>2, StopArraysOK DEF IInv
    <3>3. w \in Counted <=> Kind[w] # "cleanup"
      BY <2>2 DEF Counted
    <3>4. activecnt = Cardinality(Counted) + refs /\ refs \in Int
      BY DEF IInv, RefCountExact, Counted, CtlOK
    <3>5. Cardinality(Counted') = IF Kind[w] = "cleanup" THEN Cardinality(Counted)
                                  ELSE Cardinality(Counted) - 1
      BY <3>2, <3>3, CountedFinite, FS_RemoveElement
    <3>6. activecnt' = Cardinality(Counted') + refs'
      BY <1>1, <3>1, <3>4, <3>5, CountedFinite
    <3>7. QED
      BY <3>2, <3>6 DEF RefCountExact, Counted
  <2>3. QED
    BY <2>1, <2>2
<1>6. QED
  BY <1>2, <1>3, <1>4, <1>5 DEF IInv

LEMMA FeedInv == ASSUME NEW w \in Watchers PROVE IInv /\ Feed(w) => IInv'
<1> SUFFICES ASSUME IInv, Feed(w) PROVE IInv'
  OBVIOUS
<1>1. /\ Call /\ FeedEvent(w, {"CUSTOM"})
      /\ UNCHANGED <<watchVars, loop_done, postfork, alive, refs, forkowed, stack, running>>
  BY DEF Feed
<1>2. Program /\ CtlOK'
  BY <1>1, CallCtl DEF IInv, CtlOK
<1>3. {"CUSTOM"} \in SUBSET Events /\ {"CUSTOM"} # {}
  BY DEF Events
<1>4. QueueOK'
  BY <1>1, <1>3, FeedEventQueueOK DEF IInv
<1>5. \A p \in Pris : ~(p > pendingpri')
  <2>1. pendingpri' = NUMPRI - 1
    BY <1>1 DEF FeedEvent
  <2>2. QED
    BY <2>1, ConstantsAssumption DEF Pris
<1>6. StackOK'
  BY <1>1, <1>2, <1>5, ProgramStackOK DEF IInv
<1>7. ArraysOK' /\ RefCountExact'
  BY <1>1, WatchStutter DEF IInv
<1>8. QED
  BY <1>2, <1>4, <1>6, <1>7 DEF IInv

LEMMA ClearInv == ASSUME NEW w \in Watchers PROVE IInv /\ Clear(w) => IInv'
<1> SUFFICES ASSUME IInv, Clear(w) PROVE IInv'
  OBVIOUS
<1>1. /\ Call /\ ClearPending(w)
      /\ UNCHANGED <<watchVars, loop_done, postfork, alive, refs, forkowed, stack, running>>
  BY DEF Clear
<1>2. Program /\ CtlOK'
  BY <1>1, CallCtl DEF IInv, CtlOK
<1>3. QueueOK'
  BY <1>1, ClearPendingQueueOK DEF IInv
<1>4. StackOK'
  BY <1>1, <1>2, ClearStackOK DEF IInv
<1>5. ArraysOK' /\ RefCountExact'
  BY <1>1, WatchStutter DEF IInv
<1>6. QED
  BY <1>2, <1>3, <1>4, <1>5 DEF IInv

LEMMA BreakInv ==
    ASSUME NEW how \in {"CANCEL", "ONE", "ALL"} PROVE IInv /\ Break(how) => IInv'
<1> SUFFICES ASSUME IInv, Break(how) PROVE IInv'
  OBVIOUS
<1>1. /\ Call /\ loop_done' = how
      /\ UNCHANGED <<queueVars, watchVars, postfork, alive, refs, forkowed, stack, running>>
  BY DEF Break
<1>2. Program /\ CtlOK'
  BY <1>1, CallCtl DEF IInv, CtlOK
<1>3. StackOK'
  BY <1>1, <1>2, SameQueuesStackOK DEF IInv, queueVars
<1>4. QueueOK' /\ ArraysOK' /\ RefCountExact'
  BY <1>1, QueueStutter, WatchStutter DEF IInv
<1>5. QED
  BY <1>2, <1>3, <1>4 DEF IInv

\* ev_ref and ev_unref move activecnt and the program's references together.
LEMMA RefUnrefInv == IInv /\ (Ref \/ Unref) => IInv'
<1> SUFFICES ASSUME IInv, Ref \/ Unref PROVE IInv'
  OBVIOUS
<1>1. /\ Call
      /\ UNCHANGED <<queueVars, active, arrays, loop_done, postfork, alive, forkowed, stack, running>>
  BY DEF Ref, Unref
<1>2. activecnt \in Int /\ refs \in Int
  BY DEF IInv, ArraysOK, CtlOK
<1>3. PICK d \in {1, -1} : activecnt' = activecnt + d /\ refs' = refs + d
  <2>1. CASE Ref
    BY <2>1 DEF Ref
  <2>2. CASE Unref
    BY <1>2, <2>2 DEF Unref
  <2>3. QED
    BY <2>1, <2>2
<1>4. Program /\ CtlOK'
  BY <1>1, <1>2, <1>3, CallCtl DEF IInv, CtlOK
<1>5. StackOK'
  BY <1>1, <1>4, SameQueuesStackOK DEF IInv, queueVars
<1>6. QueueOK'
  BY <1>1, QueueStutter DEF IInv
<1>7. ArraysOK'
  BY <1>1, <1>2, <1>3 DEF IInv, ArraysOK, ActiveIndexed, KeyOf
<1>8. activecnt' = Cardinality(Counted') + refs'
  <2>1. Counted' = Counted
    BY <1>1 DEF Counted
  <2>2. activecnt = Cardinality(Counted) + refs
    BY DEF IInv, RefCountExact, Counted
  <2>3. QED
    BY <1>2, <1>3, <2>1, <2>2, CountedFinite
<1>9. RefCountExact'
  BY <1>8 DEF RefCountExact, Counted
<1>10. QED
  BY <1>4, <1>5, <1>6, <1>7, <1>9 DEF IInv

LEMMA LoopForkInv == IInv /\ LoopFork => IInv'
<1> SUFFICES ASSUME IInv, LoopFork PROVE IInv'
  OBVIOUS
<1>1. /\ Call /\ postfork' = TRUE /\ forkowed' = (forkowed \/ Caller # "fork")
      /\ UNCHANGED <<queueVars, watchVars, loop_done, alive, refs, stack, running>>
  BY DEF LoopFork
<1>2. Program /\ CtlOK'
  BY <1>1, CallCtl DEF IInv, CtlOK
<1>3. StackOK'
  BY <1>1, <1>2, SameQueuesStackOK DEF IInv, queueVars
<1>4. QueueOK' /\ ArraysOK' /\ RefCountExact'
  BY <1>1, QueueStutter, WatchStutter DEF IInv
<1>5. QED
  BY <1>2, <1>3, <1>4 DEF IInv

LEMMA RunInv == ASSUME NEW flags \in RunFlags PROVE IInv /\ Run(flags) => IInv'
<1> SUFFICES ASSUME IInv, Run(flags) PROVE IInv'
  OBVIOUS
<1> DEFINE f == Frame("invoke", flags, <<"prepare", 0>>, "iter")
<1>1. /\ Call /\ loop_done' = "CANCEL" /\ pendingpri' = NUMPRI /\ stack' = Append(stack, f)
      /\ UNCHANGED <<pending, pendings, watchVars, postfork, alive, refs, forkowed, running>>
  BY DEF Run
<1>2. Program /\ CtlOK'
  BY <1>1, CallCtl DEF IInv, CtlOK
<1>3. QueueOK'
  <2>1. pendingpri' \in 0 .. NUMPRI
    BY <1>1, ConstantsAssumption
  <2>2. pending' = pending /\ pendings' = pendings
    BY <1>1
  <2>3. QED
    BY <2>1, <2>2 DEF IInv, QueueOK, PendingIndexed
<1>4. ArraysOK' /\ RefCountExact'
  BY <1>1, WatchStutter DEF IInv
<1>5. f \in Frames /\ f.pc = "invoke"
  <2>1. <<"prepare", 0>> \in Keys
    BY DEF Keys, Kinds
  <2>2. QED
    BY <2>1, ConstantsAssumption DEF Frames, Frame
<1> HIDE DEF f
<1>6. stack \in Seq(Frames) /\ Len(stack) \in Nat
  BY DEF IInv, StackOK
<1>7. /\ stack' \in Seq(Frames) /\ Len(stack') = Len(stack) + 1
      /\ stack'[Len(stack) + 1] = f
      /\ \A k \in 1 .. Len(stack) : stack'[k] = stack[k]
  BY <1>1, <1>5, <1>6, AppendProperties
<1>8. stack' # <<>> /\ Top' = f
  BY <1>6, <1>7, EmptySeq DEF Top
<1>9. \A k \in 1 .. Len(stack) : stack[k].pc = "cb"
  <2>1. stack # <<>> => Top.pc = "cb"
    BY <1>2 DEF Program
  <2>2. ASSUME NEW k \in 1 .. Len(stack) PROVE stack[k].pc = "cb"
    <3>1. stack # <<>>
      BY EmptySeq, <2>2
    <3>2. CASE k = Len(stack)
      BY <2>1, <3>1, <3>2 DEF Top
    <3>3. CASE k # Len(stack)
      BY <1>6, <3>3 DEF IInv, StackOK, HighestFirst
    <3>4. QED
      BY <3>2, <3>3
  <2>3. QED
    BY <2>2
<1>10. Len(running') = Len(stack') - 1
  <2>1. CASE stack = <<>>
    <3>1. running = <<>> /\ Len(running) = 0 /\ Len(stack) = 0
      BY <2>1, EmptySeq DEF IInv, StackOK, HighestFirst
    <3>2. QED
      BY <1>1, <1>7, <3>1
  <2>2. CASE stack # <<>>
    BY <1>1, <1>2, <1>6, <1>7, <2>2 DEF IInv, StackOK, HighestFirst, Program
  <2>3. QED
    BY <2>1, <2>2
<1>11. \A k \in 1 .. Len(stack') - 1 : stack'[k].pc = "cb"
  BY <1>6, <1>7, <1>9
<1>12. \A p \in Pris : ~(p > pendingpri')
  BY <1>1, ConstantsAssumption DEF Pris
<1>13. HighestFirst'
  BY <1>5, <1>8, <1>10, <1>11, <1>12 DEF HighestFirst
<1>14. QED
  BY <1>1, <1>2, <1>3, <1>4, <1>7, <1>13 DEF IInv, StackOK

LEMMA ReturnInv == IInv /\ Return => IInv'
<1> SUFFICES ASSUME IInv, Return PROVE IInv'
  OBVIOUS
<1>1. /\ stack # <<>> /\ Top.pc = "cb" /\ running' = Front(running) /\ Goto("invoke")
      /\ UNCHANGED <<queueVars, watchVars, ctlVars>>
  BY DEF Return, At
<1>2. QueueOK' /\ ArraysOK' /\ RefCountExact' /\ CtlOK'
  BY <1>1, QueueStutter, WatchStutter DEF IInv, CtlOK, ctlVars
<1>3. /\ stack' \in Seq(Frames) /\ Len(stack') = Len(stack) /\ Len(stack) \in Nat \ {0}
      /\ stack' # <<>> /\ Top'.pc = "invoke"
      /\ \A k \in 1 .. Len(stack) - 1 : stack'[k] = stack[k]
  BY <1>1, GotoTop DEF IInv, StackOK, PCs
<1>4. running \in Seq(Calls) /\ Len(running) = Len(stack)
  BY <1>1 DEF IInv, StackOK, HighestFirst
<1>5. running # <<>>
  BY <1>3, <1>4, EmptySeq
<1>6. running' \in Seq(Calls) /\ Len(running') = Len(running) - 1
  BY <1>1, <1>4, <1>5, FrontProperties
<1>7. \A k \in 1 .. Len(stack') - 1 : stack'[k].pc = "cb"
  BY <1>3 DEF IInv, StackOK, HighestFirst
<1>8. \A p \in Pris : p > pendingpri' => pendings'[p] = <<>>
  BY <1>1 DEF IInv, StackOK, HighestFirst, queueVars
<1>9. HighestFirst'
  BY <1>3, <1>4, <1>6, <1>7, <1>8 DEF HighestFirst
<1>10. QED
  BY <1>2, <1>3, <1>6, <1>9 DEF IInv, StackOK

LEMMA DestroyInv == IInv /\ Destroy => IInv'
<1> SUFFICES ASSUME IInv, Destroy PROVE IInv'
  OBVIOUS
<1> DEFINE key == <<"cleanup", 0>>
           f == IF arrays[key] = <<>> THEN Frame("destroyed", "ONCE", key, "destroyed")
                ELSE [Frame("queue", "ONCE", key, "destroyed") EXCEPT !.i = 1]
<1>1. stack = <<>> /\ stack' = <<f>> /\ UNCHANGED <<queueVars, watchVars, ctlVars, running>>
  BY DEF Destroy
<1>2. QueueOK' /\ ArraysOK' /\ RefCountExact' /\ CtlOK'
  BY <1>1, QueueStutter, WatchStutter DEF IInv, CtlOK, ctlVars
<1>3. key \in Keys
  BY DEF Keys, Kinds
<1>4. arrays[key] \in Seq(Watchers)
  BY <1>3 DEF IInv, ArraysOK
<1>5. arrays[key] # <<>> => 1 \in 1 .. Len(arrays[key])
  BY <1>4, EmptySeq
<1>6. /\ f \in Frames /\ f.pc \in {"destroyed", "queue"}
      /\ f.pc = "queue" => f.i \in 1 .. Len(arrays[f.key])
  BY <1>3, <1>5 DEF Frames, Frame
<1> HIDE DEF f
<1>7. /\ stack' \in Seq(Frames) /\ Len(stack') = 1 /\ stack' # <<>> /\ Top' = f
  BY <1>1, <1>6 DEF Top
<1>8. running = <<>> /\ Len(running') = 0
  BY <1>1, EmptySeq DEF IInv, StackOK, HighestFirst
<1>9. arrays' = arrays
  BY <1>1 DEF watchVars
<1>10. HighestFirst'
  BY <1>6, <1>7, <1>8, <1>9 DEF HighestFirst
<1>11. QED
  BY <1>1, <1>2, <1>7, <1>10 DEF IInv, StackOK

\* Where the frame of ev_loop_destroy can be. The innermost frame changes and the
\* ones below it do not.
LEMMA OuterSetTop ==
    ASSUME stack \in Seq(Frames), stack # <<>>, OuterDestroy, NEW f \in Frames,
           stack' = [stack EXCEPT ![Len(stack)] = f],
           f.next = "destroyed" => Top.next = "destroyed",
           f.pc = "destroyed" => Top.next = "destroyed"
    PROVE  OuterDestroy'
<1>1. /\ Len(stack') = Len(stack) /\ Len(stack) \in Nat \ {0} /\ Top' = f
      /\ \A k \in 1 .. Len(stack) - 1 : stack'[k] = stack[k]
  BY SetTop
<1>0. Len(stack) \in Nat \ {0}
  BY TopType
<1>2. stack'[Len(stack)] = f
  BY <1>1 DEF Top
<1>3. f.next = "destroyed" \/ f.pc = "destroyed" => Len(stack) = 1
  <2>1. Len(stack) \in 1 .. Len(stack)
    BY <1>0
  <2>2. Top.next = "destroyed" => Len(stack) = 1
    BY <2>1 DEF OuterDestroy, Top
  <2>3. QED
    BY <2>2
<1>4. ASSUME NEW k \in 1 .. Len(stack'),
             stack'[k].pc = "destroyed" \/ stack'[k].next = "destroyed"
      PROVE  k = 1
  <2>1. CASE k = Len(stack)
    BY <1>2, <1>3, <1>4, <2>1
  <2>2. CASE k # Len(stack)
    <3>1. k \in 1 .. Len(stack)
      BY <1>1
    <3>2. k \in 1 .. Len(stack) - 1
      BY <1>0, <2>2, <3>1
    <3>3. stack'[k] = stack[k]
      BY <1>1, <3>2
    <3>4. stack[k].pc = "destroyed" \/ stack[k].next = "destroyed"
      BY <1>4, <3>3
    <3>5. QED
      BY <3>1, <3>4 DEF OuterDestroy
  <2>3. QED
    BY <2>1, <2>2
<1>5. QED
  BY <1>4 DEF OuterDestroy

LEMMA OuterGoto ==
    ASSUME StackOK, stack # <<>>, OuterDestroy, NEW pc \in PCs, Goto(pc),
           pc = "destroyed" => Top.next = "destroyed"
    PROVE  OuterDestroy'
<1> DEFINE f == [Top EXCEPT !.pc = pc]
<1>1. Top \in Frames
  BY TopType DEF StackOK
<1>2. f \in Frames /\ f.pc = pc /\ f.next = Top.next
  BY <1>1 DEF Frames, PCs
<1>3. stack' = [stack EXCEPT ![Len(stack)] = f]
  BY DEF Goto, Top
<1> HIDE DEF f
<1>4. QED
  BY <1>2, <1>3, OuterSetTop DEF StackOK

LEMMA OuterQueueOrSkip ==
    ASSUME StackOK, stack # <<>>, OuterDestroy, NEW key \in Keys,
           NEW next \in {"prepare", "test", "while"}, QueueOrSkip(key, next)
    PROVE  OuterDestroy'
<1> DEFINE f == IF arrays[key] = <<>> THEN [Top EXCEPT !.pc = next]
                ELSE [Top EXCEPT !.pc = "queue", !.key = key, !.i = 1, !.next = next]
<1>1. Top \in Frames
  BY TopType DEF StackOK
<1>2. f \in Frames /\ f.pc # "destroyed" /\ (f.next = "destroyed" => Top.next = "destroyed")
  BY <1>1 DEF Frames
<1>3. stack' = [stack EXCEPT ![Len(stack)] = f]
  BY DEF QueueOrSkip, Top
<1> HIDE DEF f
<1>4. QED
  BY <1>2, <1>3, OuterSetTop DEF StackOK

LEMMA OuterStutter == OuterDestroy /\ UNCHANGED stack => OuterDestroy'
BY DEF OuterDestroy

LEMMA OuterLoopStep == IInv /\ OuterDestroy /\ LoopStep => OuterDestroy'
<1> SUFFICES ASSUME IInv, OuterDestroy, LoopStep PROVE OuterDestroy'
  OBVIOUS
<1> USE DEF At
<1>1. StackOK
  BY DEF IInv
<1>2. stack # <<>> /\ stack \in Seq(Frames) /\ Top \in Frames
  BY <1>1, TopType DEF StackOK, LoopStep, InvokePending, InvokeDone, QueueEvents, Iterate,
     Prepare, BreakOrPoll, IdleReify, Check, While, Destroyed
<1>3. Top.key \in Keys
  BY <1>2 DEF Frames
<1>4. CASE InvokePending
  BY <1>1, <1>2, <1>4, OuterStutter, OuterGoto DEF InvokePending, PCs
<1>5. CASE InvokeDone
  <2>1. Top.next \in PCs /\ Goto(Top.next)
    BY <1>2, <1>5 DEF Frames, PCs, InvokeDone
  <2>2. QED
    BY <1>1, <1>2, <2>1, OuterGoto
<1>6. CASE QueueEvents
  <2> DEFINE a == arrays[Top.key]
             f == IF Top.i < Len(a) THEN [Top EXCEPT !.i = Top.i + 1]
                  ELSE [Top EXCEPT !.pc = IF Top.key[1] = "idle" THEN "check" ELSE "invoke"]
  <2>1. stack' = [stack EXCEPT ![Len(stack)] = f] /\ Top.pc = "queue"
    BY <1>6 DEF QueueEvents
  <2>2. CASE Top.i < Len(a)
    <3>1. f = [Top EXCEPT !.i = Top.i + 1]
      BY <2>2
    <3> HIDE DEF f
    <3>2. f \in Frames /\ f.next = Top.next /\ f.pc = Top.pc
      BY <1>2, <3>1 DEF Frames
    <3>3. QED
      BY <1>2, <2>1, <3>2, OuterSetTop
  <2>3. CASE ~(Top.i < Len(a))
    <3>1. PICK pc \in {"check", "invoke"} : f = [Top EXCEPT !.pc = pc]
      BY <2>3
    <3> HIDE DEF f
    <3>2. f \in Frames /\ f.next = Top.next /\ f.pc = pc
      BY <1>2, <3>1 DEF Frames
    <3>3. QED
      BY <1>2, <2>1, <3>2, OuterSetTop
  <2>4. QED
    BY <2>2, <2>3
<1>7. CASE Iterate
  <2>1. <<"fork", 0>> \in Keys
    BY DEF Keys, Kinds
  <2>2. QueueOrSkip(<<"fork", 0>>, "prepare") \/ Goto("prepare")
    BY <1>7 DEF Iterate
  <2>3. QED
    BY <1>1, <1>2, <2>1, <2>2, OuterQueueOrSkip, OuterGoto DEF PCs
<1>8. CASE Prepare
  <2>1. <<"prepare", 0>> \in Keys
    BY DEF Keys, Kinds
  <2>2. QueueOrSkip(<<"prepare", 0>>, "test")
    BY <1>8 DEF Prepare
  <2>3. QED
    BY <1>1, <1>2, <2>1, <2>2, OuterQueueOrSkip
<1>9. CASE BreakOrPoll
  BY <1>1, <1>2, <1>9, OuterGoto DEF BreakOrPoll, PCs
<1>10. CASE IdleReify
  <2>1. \A p \in Pris : <<"idle", p>> \in Keys
    BY DEF Keys
  <2>2. (\E p \in Pris : QueueOrSkip(<<"idle", p>>, "while")) \/ Goto("check")
    BY <1>10 DEF IdleReify
  <2>3. QED
    BY <1>1, <1>2, <2>1, <2>2, OuterQueueOrSkip, OuterGoto DEF PCs
<1>11. CASE Check
  <2> DEFINE f == IF arrays[<<"check", 0>>] = <<>>
                  THEN [Top EXCEPT !.pc = "invoke", !.next = "while"]
                  ELSE [Top EXCEPT !.pc = "queue", !.key = <<"check", 0>>, !.i = 1,
                                   !.next = "while"]
  <2>1. stack' = [stack EXCEPT ![Len(stack)] = f]
    BY <1>11 DEF Check, Top
  <2>2. <<"check", 0>> \in Keys
    BY DEF Keys, Kinds
  <2>3. f \in Frames /\ f.next = "while" /\ f.pc # "destroyed"
    BY <1>2, <2>2 DEF Frames
  <2> HIDE DEF f
  <2>4. QED
    BY <1>2, <2>1, <2>3, OuterSetTop
<1>12. CASE While
  <2>1. CASE Goto("iter")
    BY <1>1, <1>2, <2>1, OuterGoto DEF PCs
  <2>2. CASE stack' = Front(stack)
    <3>1. /\ Len(stack') = Len(stack) - 1 /\ Len(stack) \in Nat \ {0}
          /\ \A k \in 1 .. Len(stack) - 1 : stack'[k] = stack[k]
      BY <1>2, <2>2, FrontProperties, TopType
    <3>2. \A k \in 1 .. Len(stack') : k \in 1 .. Len(stack) /\ stack'[k] = stack[k]
      BY <3>1
    <3>3. QED
      BY <3>2 DEF OuterDestroy
  <2>3. QED
    BY <1>12, <2>1, <2>2 DEF While
<1>13. CASE Destroyed
  <2>1. stack' = <<>> /\ Len(stack') = 0
    BY <1>13, EmptySeq DEF Destroyed
  <2>2. QED
    BY <2>1 DEF OuterDestroy
<1>14. QED
  BY <1>4, <1>5, <1>6, <1>7, <1>8, <1>9, <1>10, <1>11, <1>12, <1>13 DEF LoopStep

LEMMA OuterProgramStep == IInv /\ OuterDestroy /\ ProgramStep => OuterDestroy'
<1> SUFFICES ASSUME IInv, OuterDestroy, ProgramStep PROVE OuterDestroy'
  OBVIOUS
<1>1. StackOK /\ stack \in Seq(Frames)
  BY DEF IInv, StackOK
<1>2. ASSUME NEW flags \in RunFlags, Run(flags) PROVE OuterDestroy'
  <2> DEFINE f == Frame("invoke", flags, <<"prepare", 0>>, "iter")
  <2>1. stack' = Append(stack, f)
    BY <1>2 DEF Run
  <2>2. f.pc = "invoke" /\ f.next = "iter"
    BY DEF Frame
  <2>3. <<"prepare", 0>> \in Keys
    BY DEF Keys, Kinds
  <2>4. f \in Frames
    BY <2>3, ConstantsAssumption DEF Frames, Frame
  <2> HIDE DEF f
  <2>5. /\ Len(stack') = Len(stack) + 1 /\ stack'[Len(stack) + 1] = f
        /\ \A k \in 1 .. Len(stack) : stack'[k] = stack[k]
    BY <1>1, <2>1, <2>4, AppendProperties
  <2>6. ASSUME NEW k \in 1 .. Len(stack'),
               stack'[k].pc = "destroyed" \/ stack'[k].next = "destroyed"
        PROVE  k = 1
    <3>1. k # Len(stack) + 1
      BY <2>2, <2>5, <2>6
    <3>2. k \in 1 .. Len(stack) /\ Len(stack) \in Nat
      BY <1>1, <2>5, <3>1
    <3>3. stack[k].pc = "destroyed" \/ stack[k].next = "destroyed"
      BY <2>5, <2>6, <3>2
    <3>4. QED
      BY <3>2, <3>3 DEF OuterDestroy
  <2>7. QED
    BY <2>6 DEF OuterDestroy
<1>3. CASE Return
  BY <1>1, <1>3, OuterGoto DEF Return, At, PCs
<1>4. CASE Destroy
  <2>1. Len(stack') = 1
    BY <1>4 DEF Destroy
  <2>2. QED
    BY <2>1 DEF OuterDestroy
<1>5. ASSUME NEW w \in Watchers, Start(w) \/ Stop(w) \/ Feed(w) \/ Clear(w) PROVE OuterDestroy'
  BY <1>5, OuterStutter DEF Start, Stop, Feed, Clear
<1>6. ASSUME NEW how \in {"CANCEL", "ONE", "ALL"}, Break(how) PROVE OuterDestroy'
  BY <1>6, OuterStutter DEF Break
<1>7. ASSUME Ref \/ Unref \/ LoopFork PROVE OuterDestroy'
  BY <1>7, OuterStutter DEF Ref, Unref, LoopFork
<1>8. QED
  BY <1>2, <1>3, <1>4, <1>5, <1>6, <1>7 DEF ProgramStep

-----------------------------------------------------------------------------
\* The theorems.
Inv == IInv /\ OuterDestroy

LEMMA InitInv == Init => Inv
<1> SUFFICES ASSUME Init PROVE Inv
  OBVIOUS
<1> USE DEF Init
<1>1. NUMPRI \in Nat \ {0} /\ MaxCalls \in Nat
  BY ConstantsAssumption
<1>2. Len(<<>>) = 0 /\ \A S : <<>> \in Seq(S)
  BY EmptySeq
<1>3. PendingIndexed
  BY <1>2 DEF PendingIndexed
<1>4. QueueOK
  BY <1>1, <1>2, <1>3 DEF QueueOK
<1>5. ActiveIndexed
  BY <1>2 DEF ActiveIndexed
<1>6. ArraysOK
  BY <1>2, <1>5 DEF ArraysOK
<1>7. Counted = {}
  BY DEF Counted
<1>8. Cardinality({}) = 0
  BY FS_EmptySet
<1>9. RefCountExact
  <2>1. Cardinality({w \in Watchers : active[w] # 0 /\ Kind[w] # "cleanup"}) = 0
    BY <1>7, <1>8 DEF Counted
  <2>2. activecnt = 0 /\ refs = 0
    OBVIOUS
  <2>3. QED
    BY <2>1, <2>2 DEF RefCountExact
<1>10. CtlOK
  <2>1. 0 \in Int /\ 0 \in 0 .. MaxCalls
    BY <1>1
  <2>2. QED
    BY <2>1 DEF CtlOK
<1>11. HighestFirst
  BY <1>2 DEF HighestFirst
<1>12. StackOK
  BY <1>2, <1>11 DEF StackOK
<1>13. OuterDestroy
  BY <1>2 DEF OuterDestroy
<1>14. QED
  BY <1>4, <1>6, <1>9, <1>10, <1>12, <1>13 DEF IInv, Inv

LEMMA StutterInv == Inv /\ UNCHANGED vars => Inv'
<1> SUFFICES ASSUME Inv, UNCHANGED vars PROVE Inv'
  OBVIOUS
<1>1. UNCHANGED <<queueVars, watchVars, ctlVars, stack, running>>
  BY DEF vars
<1>2. QueueOK' /\ ArraysOK' /\ RefCountExact' /\ CtlOK'
  BY <1>1, QueueStutter, WatchStutter DEF Inv, IInv, CtlOK, ctlVars
<1>3. StackOK'
  BY <1>1 DEF Inv, IInv, StackOK, HighestFirst, Top, queueVars, watchVars
<1>4. OuterDestroy'
  BY <1>1, OuterStutter DEF Inv
<1>5. QED
  BY <1>2, <1>3, <1>4 DEF Inv, IInv

LEMMA LoopStepInv == Inv /\ LoopStep => Inv'
BY InvokePendingInv, InvokeDoneInv, QueueEventsInv, IterateInv, PrepareInv, BreakOrPollInv,
   IdleReifyInv, CheckInv, WhileInv, DestroyedInv, OuterLoopStep DEF Inv, LoopStep

LEMMA PollInv == Inv /\ ((\E w \in Watchers : PollEvent(w)) \/ PollReturn) => Inv'
<1> SUFFICES ASSUME Inv, (\E w \in Watchers : PollEvent(w)) \/ PollReturn PROVE Inv'
  OBVIOUS
<1>1. IInv'
  BY PollEventInv, PollReturnInv DEF Inv
<1>2. StackOK
  BY DEF Inv, IInv
<1>3. OuterDestroy'
  <2>1. ASSUME NEW w \in Watchers, PollEvent(w) PROVE OuterDestroy'
    BY <2>1, OuterStutter DEF PollEvent, Inv
  <2>2. CASE PollReturn
    BY <1>2, <2>2, OuterGoto DEF PollReturn, At, PCs, Inv
  <2>3. QED
    BY <2>1, <2>2
<1>4. QED
  BY <1>1, <1>3 DEF Inv

LEMMA ProgramStepInv == Inv /\ ProgramStep => Inv'
<1> SUFFICES ASSUME Inv, ProgramStep PROVE Inv'
  OBVIOUS
<1>1. IInv /\ OuterDestroy'
  BY OuterProgramStep DEF Inv
<1>2. ASSUME NEW w \in Watchers, Start(w) \/ Stop(w) \/ Feed(w) \/ Clear(w) PROVE IInv'
  BY <1>1, <1>2, StartInv, StopInv, FeedInv, ClearInv
<1>3. IInv'
  BY <1>1, <1>2, BreakInv, RefUnrefInv, LoopForkInv, RunInv, ReturnInv, DestroyInv DEF ProgramStep
<1>4. QED
  BY <1>1, <1>3 DEF Inv

LEMMA Inductive == Inv /\ [Next]_vars => Inv'
BY LoopStepInv, PollInv, ProgramStepInv, StutterInv DEF Next

THEOREM InvCorrect == Spec => []Inv
<1>1. Init => Inv
  BY InitInv
<1>2. Inv /\ [Next]_vars => Inv'
  BY Inductive
<1>3. QED
  BY <1>1, <1>2, PTL DEF Spec

LEMMA InvParts ==
    Inv => TypeOK /\ PendingIndexed /\ ActiveIndexed /\ HighestFirst /\ RefCountExact
BY IInvParts DEF Inv

\* Every state of the loop is well typed.
THEOREM TypeCorrect == Spec => []TypeOK
BY InvCorrect, InvParts, PTL

\* A watcher has at most one entry in the pending queues, where its pending
\* field says, whatever callbacks do to the queues ev_invoke_pending works on.
THEOREM PendingCorrect == Spec => []PendingIndexed
BY InvCorrect, InvParts, PTL

\* The arrays hold exactly the started watchers, each at its index.
THEOREM ActiveCorrect == Spec => []ActiveIndexed
BY InvCorrect, InvParts, PTL

\* ev_invoke_pending leaves nothing of a higher priority waiting.
THEOREM PriorityCorrect == Spec => []HighestFirst
BY InvCorrect, InvParts, PTL

\* activecnt is exact, so ev_run neither ends early nor goes on for nothing.
THEOREM RefCountCorrect == Spec => []RefCountExact
BY InvCorrect, InvParts, PTL

LEMMA StopSilencesStep ==
    ASSUME Inv, [Next]_vars, NEW w \in Watchers, active[w] # 0, active'[w] = 0
    PROVE  \A p \in Pris : \A i \in 1 .. Len(pendings'[p]) : pendings'[p][i].w # w
<1>1. ArraysOK /\ QueueOK /\ pending_w \notin Watchers
  BY ConstantsAssumption DEF Inv, IInv
<1>2. active \in [Watchers -> Nat]
  BY <1>1 DEF ArraysOK
<1>3. PICK v \in Watchers : Stop(v)
  <2>1. active' # active
    OBVIOUS
  <2>2. ASSUME NEW v \in Watchers, Start(v) PROVE FALSE
    <3>1. StartWatcher(v) /\ ArraysOK
      BY <1>1, <2>2 DEF Start
    <3>2. \E n \in Nat \ {0} : active' = [active EXCEPT ![v] = n]
      <4>1. CASE Kind[v] = "io"
        BY <3>1, <4>1 DEF StartWatcher
      <4>2. CASE Kind[v] # "io"
        <5>1. arrays[KeyOf(v)] \in Seq(Watchers)
          BY <1>1, <4>2, KeyOfType DEF ArraysOK
        <5>2. Len(arrays[KeyOf(v)]) + 1 \in Nat \ {0}
          BY <5>1
        <5>3. QED
          BY <3>1, <4>2, <5>2 DEF StartWatcher
      <4>3. QED
        BY <4>1, <4>2
    <3>3. QED
      BY <1>2, <3>2
  <2>3. ~LoopStep
    BY <2>1 DEF LoopStep, InvokePending, InvokeDone, QueueEvents, Iterate, Prepare,
       BreakOrPoll, IdleReify, Check, While, Destroyed, watchVars
  <2>4. ~PollReturn /\ \A v \in Watchers : ~PollEvent(v)
    BY <2>1 DEF PollReturn, PollEvent, watchVars
  <2>5. /\ \A v \in Watchers : ~Feed(v) /\ ~Clear(v)
        /\ \A how \in {"CANCEL", "ONE", "ALL"} : ~Break(how)
        /\ \A flags \in RunFlags : ~Run(flags)
        /\ ~Ref /\ ~Unref /\ ~LoopFork /\ ~Return /\ ~Destroy
    BY <2>1 DEF Feed, Clear, Break, Run, Ref, Unref, LoopFork, Return, Destroy, watchVars
  <2>6. ~UNCHANGED vars
    BY <2>1 DEF vars, watchVars
  <2>7. QED
    BY <2>2, <2>3, <2>4, <2>5, <2>6 DEF Next, ProgramStep
<1>4. StopWatcher(v) /\ ClearPending(v)
  BY <1>3 DEF Stop, StopWatcher
<1>5. w = v
  <2>1. CASE active[v] = 0 \/ Kind[v] = "io"
    BY <1>2, <1>4, <2>1 DEF StopWatcher, watchVars
  <2>2. CASE active[v] # 0 /\ Kind[v] # "io"
    BY <1>2, <1>4, <2>2 DEF StopWatcher
  <2>3. QED
    BY <2>1, <2>2
<1>6. /\ \A p \in Pris : Len(pendings'[p]) = Len(pendings[p])
      /\ \A p \in Pris : \A i \in 1 .. Len(pendings[p]) :
           pendings'[p][i].w = IF pendings[p][i].w = v THEN pending_w ELSE pendings[p][i].w
  BY <1>1, <1>4, ClearPendingQueueOK
<1>7. QED
  BY <1>1, <1>5, <1>6

\* The callback of a stopped watcher is not called for an earlier event.
THEOREM StopSilencesCorrect == Spec => StopSilences
<1>1. Inv /\ [Next]_vars =>
        [\A w \in Watchers : active[w] # 0 /\ active'[w] = 0 =>
           \A p \in Pris : \A i \in 1 .. Len(pendings'[p]) : pendings'[p][i].w # w]_vars
  BY StopSilencesStep
<1>2. QED
  BY <1>1, InvCorrect, PTL DEF Spec, StopSilences

LEMMA EvRunDrainsStep ==
    ASSUME Inv, [Next]_vars, Len(stack') < Len(stack), alive'
    PROVE  \A p \in Pris : pendings'[p] = <<>>
<1>1. StackOK /\ stack \in Seq(Frames) /\ Len(stack) \in Nat
  BY DEF Inv, IInv, StackOK
<1>2. \A f : Len([stack EXCEPT ![Len(stack)] = f]) = Len(stack)
  BY <1>1
<1>3. CASE While
  BY <1>1, <1>3 DEF While, At, StackOK, HighestFirst, queueVars
<1>4. CASE InvokePending
  <2>1. stack' = stack \/ Goto("cb")
    BY <1>4 DEF InvokePending
  <2>2. QED
    BY <1>1, <1>2, <2>1 DEF Goto
<1>5. CASE InvokeDone
  BY <1>1, <1>2, <1>5 DEF InvokeDone, Goto
<1>6. CASE QueueEvents
  BY <1>1, <1>2, <1>6 DEF QueueEvents
<1>7. CASE Iterate
  BY <1>1, <1>2, <1>7 DEF Iterate, QueueOrSkip, Goto
<1>8. CASE Prepare
  BY <1>1, <1>2, <1>8 DEF Prepare, QueueOrSkip
<1>9. CASE BreakOrPoll
  BY <1>1, <1>2, <1>9 DEF BreakOrPoll, Goto
<1>10. CASE IdleReify
  <2>1. \A p \in Pris : QueueOrSkip(<<"idle", p>>, "while") => Len(stack') = Len(stack)
    BY <1>2 DEF QueueOrSkip
  <2>2. Goto("check") => Len(stack') = Len(stack)
    BY <1>2 DEF Goto
  <2>3. (\E p \in Pris : QueueOrSkip(<<"idle", p>>, "while")) \/ Goto("check")
    BY <1>10 DEF IdleReify
  <2>4. Len(stack') = Len(stack)
    BY <2>1, <2>2, <2>3
  <2>5. QED
    BY <1>1, <2>4
<1>11. CASE Check
  BY <1>1, <1>2, <1>11 DEF Check
<1>12. CASE Destroyed
  BY <1>12 DEF Destroyed
<1>13. CASE PollReturn \/ Return
  BY <1>1, <1>2, <1>13 DEF PollReturn, Return, Goto
<1>14. ASSUME NEW flags \in RunFlags, Run(flags) PROVE FALSE
  BY <1>1, <1>14 DEF Run
<1>15. CASE Destroy
  <2>1. Len(stack) = 0 /\ Len(stack') = 1
    BY <1>1, <1>15, EmptySeq DEF Destroy
  <2>2. QED
    BY <2>1
<1>16. stack' # stack
  BY <1>1
<1>17. QED
  <2>1. ~(\E w \in Watchers : PollEvent(w) \/ Start(w) \/ Stop(w) \/ Feed(w) \/ Clear(w))
    BY <1>16 DEF PollEvent, Start, Stop, Feed, Clear
  <2>2. ~(\E how \in {"CANCEL", "ONE", "ALL"} : Break(how)) /\ ~Ref /\ ~Unref /\ ~LoopFork
    BY <1>16 DEF Break, Ref, Unref, LoopFork
  <2>3. ~UNCHANGED vars
    BY <1>16 DEF vars
  <2>4. QED
    BY <1>3, <1>4, <1>5, <1>6, <1>7, <1>8, <1>9, <1>10, <1>11, <1>12, <1>13, <1>14, <1>15,
       <2>1, <2>2, <2>3 DEF Next, LoopStep, ProgramStep

\* ev_run returns only when no callback is outstanding.
THEOREM EvRunDrainsCorrect == Spec => EvRunDrains
<1>1. Inv /\ [Next]_vars =>
        [Len(stack') < Len(stack) /\ alive' => \A p \in Pris : pendings'[p] = <<>>]_vars
  BY EvRunDrainsStep
<1>2. QED
  BY <1>1, InvCorrect, PTL DEF Spec, EvRunDrains

\* No step of the loop itself takes an EVBREAK_ALL back.
THEOREM BreakAllKeptCorrect == Spec => BreakAllKept
<1>1. ASSUME [Next]_vars, loop_done = "ALL", loop_done' # "ALL" PROVE Program
  <2>1. ~UNCHANGED vars
    BY <1>1 DEF vars, ctlVars
  <2>2. ~LoopStep
    BY <1>1 DEF LoopStep, InvokePending, InvokeDone, QueueEvents, Iterate, Prepare,
       BreakOrPoll, IdleReify, Check, While, Leave, Destroyed, ctlVars
  <2>3. ~PollReturn /\ \A v \in Watchers : ~PollEvent(v)
    BY <1>1 DEF PollReturn, PollEvent, ctlVars
  <2>4. ProgramStep /\ ~Return /\ ~Destroy
    BY <1>1, <2>1, <2>2, <2>3 DEF Next, Return, Destroy, ctlVars
  <2>5. /\ \A w \in Watchers : Start(w) \/ Stop(w) \/ Feed(w) \/ Clear(w) => Program
        /\ \A how \in {"CANCEL", "ONE", "ALL"} : Break(how) => Program
        /\ \A flags \in RunFlags : Run(flags) => Program
        /\ Ref \/ Unref \/ LoopFork => Program
    BY DEF Start, Stop, Feed, Clear, Break, Ref, Unref, LoopFork, Run, Call
  <2>6. QED
    BY <2>4, <2>5 DEF ProgramStep
<1>2. [Next]_vars => [loop_done = "ALL" /\ loop_done' # "ALL" => Program]_vars
  BY <1>1
<1>3. QED
  BY <1>2, PTL DEF Spec, BreakAllKept

-----------------------------------------------------------------------------
(* The pending queues implement EventDelivery.                             *)

\* ev_feed_event makes events due to its watcher and to no other.
LEMMA FeedEventDue ==
    ASSUME QueueOK, NEW w \in Watchers, NEW e, FeedEvent(w, e)
    PROVE  Due' = [Due EXCEPT ![w] = @ \cup e]
<1> DEFINE p == Pri[w]
<1>1. p \in Pris /\ Pri \in [Watchers -> Pris] /\ pending_w \notin Watchers
  BY ConstantsAssumption
<1>2. pendings[p] \in Seq(Entries) /\ pending[w] \in Nat /\ pendings \in [Pris -> Seq(Entries)]
  BY <1>1 DEF QueueOK
<1>3. ASSUME NEW v \in Watchers, v # w PROVE Due'[v] = Due[v]
  <2>1. pending'[v] = pending[v]
    BY <1>3 DEF FeedEvent, QueueOK
  <2>2. CASE pending[v] = 0
    BY <2>1, <2>2 DEF Due
  <2>3. CASE pending[v] # 0
    <3>1. pending[v] \in 1 .. Len(pendings[Pri[v]]) /\ Pri[v] \in Pris
          /\ pendings[Pri[v]][pending[v]].w = v
      BY <1>1, <2>3 DEF QueueOK, PendingIndexed
    <3>2. pendings'[Pri[v]][pending[v]] = pendings[Pri[v]][pending[v]]
      <4>1. CASE Pri[v] # p
        BY <1>1, <1>2, <3>1, <4>1 DEF FeedEvent
      <4>2. CASE Pri[v] = p /\ pending[w] # 0
        <5>1. pending[w] # pending[v]
          BY <1>1, <1>3, <3>1, <4>2 DEF QueueOK, PendingIndexed
        <5>2. pendings' = [pendings EXCEPT ![p][pending[w]].events = @ \cup e]
          BY <4>2 DEF FeedEvent
        <5>3. pendings'[p] = [pendings[p] EXCEPT ![pending[w]].events = @ \cup e]
          BY <1>1, <1>2, <5>2
        <5>4. pendings'[p][pending[v]] = pendings[p][pending[v]]
          BY <1>2, <3>1, <4>2, <5>1, <5>3
        <5>5. QED
          BY <4>2, <5>4
      <4>3. CASE Pri[v] = p /\ pending[w] = 0
        <5>1. pendings' = [pendings EXCEPT ![p] = Append(@, [w |-> w, events |-> e])]
          BY <4>3 DEF FeedEvent
        <5>2. pendings'[p] = Append(pendings[p], [w |-> w, events |-> e])
          BY <1>1, <1>2, <5>1
        <5>3. QED
          BY <1>2, <3>1, <4>3, <5>2
      <4>4. QED
        BY <4>1, <4>2, <4>3
    <3>3. QED
      BY <2>1, <2>3, <3>2 DEF Due
  <2>4. QED
    BY <2>2, <2>3
<1>4. Due'[w] = Due[w] \cup e
  <2>1. CASE pending[w] # 0
    <3>1. /\ pendings' = [pendings EXCEPT ![p][pending[w]].events = @ \cup e]
          /\ pending' = pending
      BY <2>1 DEF FeedEvent
    <3>2. pending[w] \in 1 .. Len(pendings[p])
      BY <1>1, <1>2, <2>1 DEF QueueOK, PendingIndexed
    <3>3. pendings[p][pending[w]] \in Entries
      BY <1>2, <3>2, ElementOfSeq
    <3>4. pendings'[p][pending[w]] = [pendings[p][pending[w]] EXCEPT !.events = @ \cup e]
      <4> DEFINE new == [pendings[p][pending[w]] EXCEPT !.events = @ \cup e]
                 q   == [pendings[p] EXCEPT ![pending[w]] = new]
      <4>1. pendings' = [pendings EXCEPT ![p] = q]
        BY <3>1
      <4>2. pendings'[p] = q
        BY <1>1, <1>2, <4>1
      <4>3. q[pending[w]] = new
        BY <1>2, <3>2
      <4>4. QED
        BY <4>2, <4>3
    <3>5. pendings'[p][pending[w]].events = pendings[p][pending[w]].events \cup e
      BY <3>3, <3>4 DEF Entries
    <3>6. QED
      BY <2>1, <3>1, <3>5 DEF Due
  <2>2. CASE pending[w] = 0
    <3>1. /\ pendings' = [pendings EXCEPT ![p] = Append(@, [w |-> w, events |-> e])]
          /\ pending' = [pending EXCEPT ![w] = Len(pendings[p]) + 1]
      BY <2>2 DEF FeedEvent
    <3>2. pendings'[p] = Append(pendings[p], [w |-> w, events |-> e])
      BY <1>1, <1>2, <3>1
    <3>3. pending'[w] = Len(pendings[p]) + 1 /\ Len(pendings[p]) \in Nat
      BY <1>2, <3>1 DEF QueueOK
    <3>4. pendings'[p][pending'[w]] = [w |-> w, events |-> e]
      BY <1>2, <3>2, <3>3
    <3>5. Due'[w] = e
      BY <3>3, <3>4 DEF Due
    <3>6. Due[w] = {}
      BY <2>2 DEF Due
    <3>7. QED
      BY <3>5, <3>6
  <2>3. QED
    BY <2>1, <2>2
<1>5. DOMAIN Due = Watchers /\ DOMAIN Due' = Watchers
  BY DEF Due
<1>6. Due = [v \in Watchers |-> Due[v]] /\ Due' = [v \in Watchers |-> Due'[v]]
  BY DEF Due
<1> HIDE DEF p
<1>7. [Due EXCEPT ![w] = @ \cup e] =
        [v \in Watchers |-> IF v = w THEN Due[w] \cup e ELSE Due[v]]
  BY <1>6
<1>8. Due' = [v \in Watchers |-> IF v = w THEN Due[w] \cup e ELSE Due[v]]
  BY <1>3, <1>4, <1>6
<1>9. QED
  BY <1>7, <1>8

\* Two ways for what is due to be the same function.
LEMMA DueExcept ==
    ASSUME NEW w \in Watchers, NEW d, Due'[w] = d,
           \A v \in Watchers : v # w => Due'[v] = Due[v]
    PROVE  Due' = [Due EXCEPT ![w] = d]
<1>1. Due = [v \in Watchers |-> Due[v]] /\ Due' = [v \in Watchers |-> Due'[v]]
  BY DEF Due
<1>2. [Due EXCEPT ![w] = d] = [v \in Watchers |-> IF v = w THEN d ELSE Due[v]]
  BY <1>1
<1>3. Due' = [v \in Watchers |-> IF v = w THEN d ELSE Due[v]]
  BY <1>1
<1>4. QED
  BY <1>2, <1>3

LEMMA DueStutter == UNCHANGED <<pending, pendings>> => Due' = Due
BY DEF Due

\* A pending watcher's entry, and what is due when there is none.
LEMMA DueEntry ==
    ASSUME QueueOK, NEW v \in Watchers
    PROVE  /\ Due[v] \in SUBSET Events
           /\ pending[v] = 0 => Due[v] = {}
           /\ pending[v] # 0 => /\ Pri[v] \in Pris
                                /\ pending[v] \in 1 .. Len(pendings[Pri[v]])
                                /\ Due[v] = pendings[Pri[v]][pending[v]].events
                                /\ pendings[Pri[v]][pending[v]].w = v
                                /\ pendings[Pri[v]] # <<>>
<1>1. Pri[v] \in Pris
  BY ConstantsAssumption
<1>2. pendings[Pri[v]] \in Seq(Entries)
  BY <1>1 DEF QueueOK
<1>3. CASE pending[v] = 0
  BY <1>3 DEF Due
<1>4. CASE pending[v] # 0
  <2>1. pending[v] \in 1 .. Len(pendings[Pri[v]]) /\ pendings[Pri[v]][pending[v]].w = v
    BY <1>1, <1>4 DEF QueueOK, PendingIndexed
  <2>2. pendings[Pri[v]][pending[v]] \in Entries
    BY <1>2, <2>1, ElementOfSeq
  <2>3. Due[v] = pendings[Pri[v]][pending[v]].events
    BY <1>4 DEF Due
  <2>4. Due[v] \in SUBSET Events
    BY <2>2, <2>3 DEF Entries
  <2>5. pendings[Pri[v]] # <<>>
    BY <2>1, EmptySeq
  <2>6. QED
    BY <1>1, <1>4, <2>1, <2>3, <2>4, <2>5
<1>5. QED
  BY <1>3, <1>4

LEMMA ClearPendingDue ==
    ASSUME QueueOK, NEW w \in Watchers, ClearPending(w)
    PROVE  Due' = [Due EXCEPT ![w] = {}]
<1>1. /\ pending' = [pending EXCEPT ![w] = 0]
      /\ \A p \in Pris : \A i \in 1 .. Len(pendings[p]) :
           pendings'[p][i].events = pendings[p][i].events
  BY ClearPendingQueueOK
<1>2. Due'[w] = {}
  BY <1>1 DEF Due, QueueOK
<1>3. ASSUME NEW v \in Watchers, v # w PROVE Due'[v] = Due[v]
  <2>1. pending'[v] = pending[v]
    BY <1>1, <1>3 DEF QueueOK
  <2>2. CASE pending[v] = 0
    BY <2>1, <2>2 DEF Due
  <2>3. CASE pending[v] # 0
    <3>1. /\ Pri[v] \in Pris /\ pending[v] \in 1 .. Len(pendings[Pri[v]])
          /\ Due[v] = pendings[Pri[v]][pending[v]].events
      BY <2>3, DueEntry
    <3>2. Due'[v] = pendings'[Pri[v]][pending[v]].events
      BY <2>1, <2>3 DEF Due
    <3>3. QED
      BY <1>1, <3>1, <3>2
  <2>4. QED
    BY <2>2, <2>3
<1>4. QED
  BY <1>2, <1>3, DueExcept

\* Taking the last entry of a queue changes what is due to the watcher it names.
LEMMA PopDue ==
    ASSUME QueueOK, NEW p \in Pris, pendings[p] # <<>>, NEW entry,
           entry = pendings[p][Len(pendings[p])],
           pendings' = [pendings EXCEPT ![p] = Front(@)],
           pending' = IF entry.w = pending_w THEN pending
                      ELSE [pending EXCEPT ![entry.w] = 0]
    PROVE  /\ entry.w = pending_w => Due' = Due
           /\ entry.w # pending_w => /\ entry.w \in Watchers
                                     /\ entry \in Calls
                                     /\ entry.events # {}
                                     /\ Pri[entry.w] = p
                                     /\ Due[entry.w] = entry.events
                                     /\ Due' = [Due EXCEPT ![entry.w] = {}]
<1> DEFINE n == Len(pendings[p])
<1>1. pendings[p] \in Seq(Entries) /\ pending_w \notin Watchers
  BY ConstantsAssumption DEF QueueOK
<1>2. n \in Nat \ {0}
  BY <1>1, EmptySeq
<1>3. entry \in Entries
  BY <1>1, <1>2, ElementOfSeq
<1>4. \A i \in 1 .. n - 1 : Front(pendings[p])[i] = pendings[p][i]
  BY <1>1, FrontProperties
<1>5. ASSUME NEW v \in Watchers, v # entry.w PROVE Due'[v] = Due[v]
  <2>1. pending'[v] = pending[v]
    BY <1>5 DEF QueueOK
  <2>2. CASE pending[v] = 0
    BY <2>1, <2>2 DEF Due
  <2>3. CASE pending[v] # 0
    <3>1. /\ Pri[v] \in Pris /\ pending[v] \in 1 .. Len(pendings[Pri[v]])
          /\ pendings[Pri[v]][pending[v]].w = v
          /\ Due[v] = pendings[Pri[v]][pending[v]].events
      BY <2>3, DueEntry
    <3>2. pendings'[Pri[v]][pending[v]] = pendings[Pri[v]][pending[v]]
      <4>1. CASE Pri[v] # p
        BY <3>1, <4>1 DEF QueueOK
      <4>2. CASE Pri[v] = p
        <5>1. pending[v] # n
          BY <1>5, <3>1, <4>2
        <5>2. pending[v] \in 1 .. n - 1
          BY <1>2, <3>1, <4>2, <5>1
        <5>3. pendings'[p] = Front(pendings[p])
          BY DEF QueueOK
        <5>4. QED
          BY <1>4, <4>2, <5>2, <5>3
      <4>3. QED
        BY <4>1, <4>2
    <3>3. QED
      BY <2>1, <2>3, <3>1, <3>2 DEF Due
  <2>4. QED
    BY <2>2, <2>3
<1>6. CASE entry.w = pending_w
  <2>1. \A v \in Watchers : Due'[v] = Due[v]
    BY <1>1, <1>5, <1>6
  <2>2. Due = [v \in Watchers |-> Due[v]] /\ Due' = [v \in Watchers |-> Due'[v]]
    BY DEF Due
  <2>3. QED
    BY <1>6, <2>1, <2>2
<1>7. CASE entry.w # pending_w
  <2>1. entry.w \in Watchers /\ entry \in Calls
    BY <1>3, <1>7 DEF Entries, Calls
  <2>2. Pri[entry.w] = p /\ pending[entry.w] = n /\ entry.events # {}
    BY <1>2, <1>7 DEF QueueOK, PendingIndexed
  <2>3. Due[entry.w] = entry.events
    BY <1>2, <2>1, <2>2, DueEntry
  <2>4. Due'[entry.w] = {}
    BY <1>7, <2>1 DEF Due, QueueOK
  <2>5. Due' = [Due EXCEPT ![entry.w] = {}]
    BY <1>5, <2>1, <2>4, DueExcept
  <2>6. QED
    BY <1>7, <2>1, <2>2, <2>3, <2>5
<1>8. QED
  BY <1>6, <1>7

LEMMA FeedEventRefined ==
    ASSUME QueueOK, NEW w \in Watchers, NEW e \in SUBSET Events, FeedEvent(w, e),
           UNCHANGED running
    PROVE  Delivery!Next
<1>1. Due' = [Due EXCEPT ![w] = @ \cup e]
  BY FeedEventDue
<1>2. Due[w] \in SUBSET Events /\ DOMAIN Due = Watchers
  BY DueEntry DEF Due
<1>3. Due'[w] = Due[w] \cup e
  BY <1>1, <1>2
<1>4. Due' = [Due EXCEPT ![w] = Due'[w]]
  BY <1>1, <1>3
<1>5. Delivery!Feed(w)
  BY <1>2, <1>3, <1>4 DEF Delivery!Feed
<1>6. QED
  BY <1>5 DEF Delivery!Next

LEMMA ClearPendingRefined ==
    ASSUME QueueOK, NEW w \in Watchers, ClearPending(w), UNCHANGED running
    PROVE  Delivery!Next
<1>1. Delivery!Clear(w)
  BY ClearPendingDue DEF Delivery!Clear
<1>2. QED
  BY <1>1 DEF Delivery!Next

LEMMA InvokePendingRefined ==
    ASSUME Inv, InvokePending
    PROVE  Delivery!Next \/ UNCHANGED <<Due, running>>
<1>1. PICK p \in Pris :
        /\ p <= pendingpri
        /\ pendings[p] # <<>>
        /\ \A q \in Pris : q > p /\ q <= pendingpri => pendings[q] = <<>>
        /\ LET entry == pendings[p][Len(pendings[p])] IN
           /\ pendings' = [pendings EXCEPT ![p] = Front(@)]
           /\ pendingpri' = p
           /\ IF entry.w = pending_w
              THEN UNCHANGED <<pending, running, stack>>
              ELSE /\ pending' = [pending EXCEPT ![entry.w] = 0]
                   /\ running' = Append(running, entry)
                   /\ Goto("cb")
  BY DEF InvokePending
<1> DEFINE entry == pendings[p][Len(pendings[p])]
<1>2. /\ stack # <<>> /\ Top.pc = "invoke" /\ QueueOK /\ HighestFirst
      /\ pendingpri \in 0 .. NUMPRI /\ NUMPRI \in Nat \ {0}
  BY ConstantsAssumption DEF Inv, IInv, StackOK, InvokePending, At, QueueOK
<1>3. ASSUME NEW q \in Pris, pendings[q] # <<>> PROVE q <= p
  <2>1. q <= pendingpri
    BY <1>2, <1>3 DEF HighestFirst, Pris
  <2>2. QED
    BY <1>1, <1>3, <2>1 DEF Pris
<1>4. /\ entry.w = pending_w => Due' = Due
      /\ entry.w # pending_w => /\ entry.w \in Watchers
                                /\ entry \in Calls
                                /\ entry.events # {}
                                /\ Pri[entry.w] = p
                                /\ Due[entry.w] = entry.events
                                /\ Due' = [Due EXCEPT ![entry.w] = {}]
  BY <1>1, <1>2, PopDue
<1>5. CASE entry.w = pending_w
  BY <1>1, <1>4, <1>5
<1>6. CASE entry.w # pending_w
  <2>1. \A v \in Watchers : Due[v] # {} => Pri[v] <= Pri[entry.w]
    BY <1>2, <1>3, <1>4, <1>6, DueEntry
  <2>2. entry = [w |-> entry.w, events |-> entry.events]
    BY <1>4, <1>6 DEF Calls
  <2>3. running' = Append(running, entry)
    BY <1>1, <1>6
  <2> HIDE DEF entry
  <2>4. Delivery!Invoke(entry.w)
    BY <1>4, <1>6, <2>1, <2>2, <2>3 DEF Delivery!Invoke
  <2>5. QED
    BY <1>4, <1>6, <2>4 DEF Delivery!Next
<1>7. QED
  BY <1>5, <1>6

LEMMA StepRefined == Inv /\ [Next]_vars => Delivery!Next \/ UNCHANGED <<Due, running>>
<1> SUFFICES ASSUME Inv, [Next]_vars PROVE Delivery!Next \/ UNCHANGED <<Due, running>>
  OBVIOUS
<1>1. QueueOK /\ StackOK
  BY DEF Inv, IInv
<1>2. CASE InvokePending
  BY <1>2, InvokePendingRefined
<1>3. CASE QueueEvents
  <2> DEFINE a == arrays[Top.key]
  <2>1. stack # <<>> /\ Top.pc = "queue" /\ Top \in Frames
    BY <1>1, <1>3, TopType DEF QueueEvents, At, StackOK
  <2>2. Top.key \in Keys /\ Top.i \in 1 .. Len(a) /\ a \in Seq(Watchers)
    BY <1>1, <2>1 DEF Inv, IInv, StackOK, HighestFirst, Frames, ArraysOK
  <2>3. a[Top.i] \in Watchers
    BY <2>2, ElementOfSeq
  <2>4. Top.key[1] \in {"idle", "prepare", "check", "fork", "cleanup"}
    BY <2>2 DEF Keys, Kinds
  <2>5. {TypeOf[Top.key[1]]} \in SUBSET Events
    BY <2>4 DEF TypeOf, Events
  <2>6. FeedEvent(a[Top.i], {TypeOf[Top.key[1]]}) /\ UNCHANGED running
    BY <1>3 DEF QueueEvents
  <2>7. QED
    BY <1>1, <2>3, <2>5, <2>6, FeedEventRefined
<1>4. ASSUME NEW w \in Watchers, PollEvent(w) \/ Feed(w) PROVE Delivery!Next
  <2>1. {"READ"} \in SUBSET Events /\ {"CUSTOM"} \in SUBSET Events
    BY DEF Events
  <2>2. (FeedEvent(w, {"READ"}) \/ FeedEvent(w, {"CUSTOM"})) /\ UNCHANGED running
    BY <1>4 DEF PollEvent, Feed
  <2>3. QED
    BY <1>1, <2>1, <2>2, FeedEventRefined
<1>5. ASSUME NEW w \in Watchers, Stop(w) \/ Clear(w) PROVE Delivery!Next
  BY <1>1, <1>5, ClearPendingRefined DEF Stop, StopWatcher, Clear
<1>6. CASE Return
  <2>1. Len(running) = Len(stack) /\ Len(stack) \in Nat \ {0} /\ running' = Front(running)
    BY <1>1, <1>6, TopType DEF Return, At, StackOK, HighestFirst
  <2>2. running # <<>>
    BY <2>1, EmptySeq
  <2>3. Due' = Due
    BY <1>6, DueStutter DEF Return, queueVars
  <2>4. Delivery!Return
    BY <2>1, <2>2, <2>3 DEF Delivery!Return, Front
  <2>5. QED
    BY <2>4 DEF Delivery!Next
<1>7. CASE InvokeDone \/ Iterate \/ Prepare \/ BreakOrPoll \/ IdleReify \/ Check \/ While \/ Destroyed
  BY <1>7, DueStutter DEF InvokeDone, Iterate, Prepare, BreakOrPoll, IdleReify, Check, While,
     Destroyed, queueVars
<1>8. ASSUME \/ \E w \in Watchers : Start(w)
             \/ \E how \in {"CANCEL", "ONE", "ALL"} : Break(how)
             \/ \E flags \in RunFlags : Run(flags)
             \/ PollReturn \/ Ref \/ Unref \/ LoopFork \/ Destroy
      PROVE  UNCHANGED <<Due, running>>
  BY <1>8, DueStutter DEF Start, StartWatcher, Break, Run, PollReturn, Ref, Unref, LoopFork,
     Destroy, queueVars
<1>9. CASE UNCHANGED vars
  BY <1>9, DueStutter DEF vars, queueVars
<1>10. QED
  BY <1>2, <1>3, <1>4, <1>5, <1>6, <1>7, <1>8, <1>9 DEF Next, LoopStep, ProgramStep

\* However callbacks feed, clear and stop watchers and run the loop again, every
\* event is delivered once, all that is due to a watcher together, and a watcher
\* of a higher priority first.
THEOREM DeliveryCorrect == Spec => DeliveryRefined
<1>1. Init => Delivery!Init
  <2>1. Init => Due = [w \in Watchers |-> {}] /\ running = <<>>
    BY DEF Init, Due
  <2>2. QED
    BY <2>1 DEF Delivery!Init
<1>2. Inv /\ [Next]_vars => [Delivery!Next]_(Delivery!vars)
  BY StepRefined DEF Delivery!vars
<1>3. QED
  BY <1>1, <1>2, InvCorrect, PTL DEF Spec, DeliveryRefined, Delivery!Spec
=============================================================================
