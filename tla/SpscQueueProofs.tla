-------------------------- MODULE SpscQueueProofs --------------------------
(***************************************************************************)
(* The single-producer single-consumer ring, for any capacity and any      *)
(* number of values: no element is constructed over another or destroyed   *)
(* twice, none is left behind, and the ring is a first-in first-out queue. *)
(***************************************************************************)
EXTENDS SpscQueue, SequenceTheorems, TLAPS
-----------------------------------------------------------------------------
(* The inductive invariant. The producer's stores are a construction and a *)
(* write_ for each value, the consumer's a destruction and a read_.        *)

\* The stores each thread has made, and those that have reached memory.
Pushed  == sent + sent + (IF ppc = "publish" THEN 1 ELSE 0)
Popped  == done + done + (IF cpc = "release" THEN 1 ELSE 0)
PushedOut == Pushed - Len(buffer["producer"])
PoppedOut == Popped - Len(buffer["consumer"])

Stores == [loc : Locs, val : Values \cup {raw}]


Types ==
    /\ mem \in [Locs -> Values \cup {raw, broken, 0}]
    /\ buffer \in [Threads -> Seq(Stores)]
    /\ mem[read_] \in 0 .. Items /\ mem[write_] \in 0 .. Items
    /\ ppc \in {"idle", "construct", "publish"}
    /\ sent \in 0 .. Items
    /\ cpc \in {"idle", "false", "move", "destroy", "release"}
    /\ item \in Values \cup {none}
    /\ out \in Values \cup {none, empty}
    /\ done \in 0 .. Items
    /\ alive \in BOOLEAN

ProducerStores ==
    /\ mem[write_] + mem[write_] <= PushedOut /\ PushedOut <= mem[write_] + mem[write_] + 1
    /\ \A i \in 1 .. Len(buffer["producer"]), k \in Nat :
         /\ PushedOut + i = k + k + 1 => buffer["producer"][i] = [loc |-> Slot(k), val |-> k + 1]
         /\ PushedOut + i = k + k + 2 => buffer["producer"][i] = [loc |-> write_, val |-> k + 1]

ConsumerStores ==
    /\ mem[read_] + mem[read_] <= PoppedOut /\ PoppedOut <= mem[read_] + mem[read_] + 1
    /\ \A i \in 1 .. Len(buffer["consumer"]), k \in Nat :
         /\ PoppedOut + i = k + k + 1 => buffer["consumer"][i] = [loc |-> Slot(k), val |-> raw]
         /\ PoppedOut + i = k + k + 2 => buffer["consumer"][i] = [loc |-> read_, val |-> k + 1]

Positions ==
    /\ mem[read_] <= done /\ done <= mem[write_] /\ mem[write_] <= sent
    /\ sent <= mem[read_] + capacity_
    /\ ppc # "idle" => sent < mem[read_] + capacity_ /\ sent < Items
    /\ cpc \in {"move", "destroy", "release"} => done < mem[write_]
    /\ cpc \in {"destroy", "release"} => item = done + 1

\* The slots with an element in memory.
Live == PoppedOut - mem[read_] .. PushedOut - mem[write_] - 1

Elements ==
    /\ \A k \in Live : mem[Slot(k)] = k + 1
    /\ \A i \in Slots : (\A k \in Live : Slot(k) # <<"data", i>>) => mem[<<"data", i>>] = raw

Inv ==
    /\ Types /\ ProducerStores /\ ConsumerStores /\ Positions
    /\ IF alive THEN Elements ELSE Joined /\ \A i \in Slots : mem[<<"data", i>>] = raw
-----------------------------------------------------------------------------
(* Slots, buffers and loads.                                               *)

LEMMA AppendRight ==
    ASSUME NEW S, NEW b \in Seq(S), NEW e \in S
    PROVE  /\ Append(b, e) \in Seq(S) /\ Len(b) \in Nat /\ Len(Append(b, e)) = Len(b) + 1
           /\ \A i \in 1 .. Len(b) : Append(b, e)[i] = b[i]
           /\ Append(b, e)[Len(b) + 1] = e
  OBVIOUS

LEMMA TailRight ==
    ASSUME NEW S, NEW b \in Seq(S), b # <<>>
    PROVE  /\ Len(b) \in Nat /\ Len(b) > 0 /\ Head(b) = b[1] /\ b[1] \in S
           /\ Tail(b) \in Seq(S) /\ Len(Tail(b)) = Len(b) - 1
           /\ \A i \in 1 .. Len(b) - 1 : Tail(b)[i] = b[i + 1]
<1>1. Len(b) \in Nat /\ Len(b) > 0
  OBVIOUS
<1>2. Head(b) = b[1] /\ b[1] \in S
  BY <1>1
<1>3. Tail(b) \in Seq(S) /\ Len(Tail(b)) = Len(b) - 1
  BY <1>1
<1>4. \A i \in 1 .. Len(b) - 1 : Tail(b)[i] = b[i + 1]
  BY <1>1
<1> QED BY <1>1, <1>2, <1>3, <1>4

LEMMA Constants ==
    /\ capacity_ \in Nat /\ capacity_ > 0 /\ Items \in Nat
    /\ \A v \in Values : v # raw /\ v # none /\ v # empty /\ v # broken
    /\ raw # broken /\ none # empty
BY CapacityAssumption

LEMMA SlotRight ==
    /\ write_ \in Locs /\ read_ \in Locs /\ write_ # read_
    /\ \A k \in Nat : Slot(k) \in Locs /\ Slot(k) # write_ /\ Slot(k) # read_ /\ Slot(k)[1] = "data"
    /\ write_[1] # "data" /\ read_[1] # "data"
    /\ \A k \in Nat : \E i \in Slots : Slot(k) = <<"data", i>>
    /\ \A i \in Slots : <<"data", i>> \in Locs /\ <<"data", i>> # write_ /\ <<"data", i>> # read_
<1>1. \A k \in Nat : k % capacity_ \in Slots
  BY Constants DEF Slots
<1>2. write_ \in Locs /\ read_ \in Locs /\ write_ # read_ /\ write_[1] # "data" /\ read_[1] # "data"
  BY DEF Locs, write_, read_
<1>3. \A k \in Nat : Slot(k) \in Locs /\ Slot(k) # write_ /\ Slot(k) # read_ /\ Slot(k)[1] = "data"
  BY <1>1 DEF Slot, Locs, write_, read_
<1>4. \A i \in Slots : <<"data", i>> \in Locs /\ <<"data", i>> # write_ /\ <<"data", i>> # read_
  BY DEF Locs, write_, read_
<1> QED BY <1>1, <1>2, <1>3, <1>4 DEF Slot

\* Positions less than a capacity apart have different slots.
LEMMA SlotsDiffer ==
    ASSUME NEW a \in Nat, NEW b \in Nat, a < b, b < a + capacity_
    PROVE  Slot(a) # Slot(b)
<1> DEFINE n == capacity_
<1>1. n \in Nat \ {0}
  BY Constants
<1> HIDE DEF n
<1> SUFFICES ASSUME a % n = b % n PROVE FALSE
  BY DEF Slot, n
<1> DEFINE p == a \div n
           q == b \div n
<1>2. p \in Int /\ q \in Int /\ a = n * p + (a % n) /\ b = n * q + (b % n)
  BY <1>1
<1>3. b - a = n * q - n * p /\ n * q \in Int /\ n * p \in Int
  BY <1>1, <1>2
<1>4. b - a = n * (q - p) /\ b - a > 0 /\ b - a < n
  <2>1. b - a < n
    <3>1. b < a + n
      BY DEF n
    <3> QED BY <1>1, <3>1
  <2> QED BY <1>1, <1>2, <1>3, <2>1
<1>5. CASE q <= p
  <2>1. n * (q - p) <= 0
    BY <1>1, <1>2, <1>5
  <2> QED BY <1>4, <2>1
<1>6. CASE q >= p + 1
  <2>1. n * (q - p) >= n
    BY <1>1, <1>2, <1>6
  <2> QED BY <1>1, <1>4, <2>1
<1> QED BY <1>2, <1>5, <1>6

\* A load sees the last store of its thread to that place, if there is one.
LEMMA LoadOwn ==
    ASSUME NEW t, NEW loc, Len(buffer[t]) \in Nat, NEW i \in 1 .. Len(buffer[t]),
           buffer[t][i].loc = loc,
           \A j \in 1 .. Len(buffer[t]) : j > i => buffer[t][j].loc # loc
    PROVE  Load(t, loc) = buffer[t][i].val
<1> DEFINE own == {j \in 1 .. Len(buffer[t]) : buffer[t][j].loc = loc}
           c == CHOOSE j \in own : \A k \in own : k <= j
<1>1. i \in own /\ \A j \in own : j <= i
  OBVIOUS
<1>2. c \in own /\ \A k \in own : k <= c
  BY <1>1
<1>3. c = i
  BY <1>1, <1>2
<1> QED BY <1>1, <1>3 DEF Load

LEMMA LoadMemory ==
    ASSUME NEW t, NEW loc, \A j \in 1 .. Len(buffer[t]) : buffer[t][j].loc # loc
    PROVE  Load(t, loc) = mem[loc]
BY DEF Load

\* The counts are numbers.
LEMMA NumbersRight ==
    ASSUME Inv
    PROVE  /\ buffer["producer"] \in Seq(Stores) /\ buffer["consumer"] \in Seq(Stores)
           /\ Len(buffer["producer"]) \in Nat /\ Len(buffer["consumer"]) \in Nat
           /\ mem[read_] \in Nat /\ mem[write_] \in Nat /\ sent \in Nat /\ done \in Nat
           /\ Pushed \in Nat /\ Popped \in Nat /\ PushedOut \in Nat /\ PoppedOut \in Nat
<1>1. /\ buffer["producer"] \in Seq(Stores) /\ buffer["consumer"] \in Seq(Stores)
      /\ mem[read_] \in Nat /\ mem[write_] \in Nat /\ sent \in Nat /\ done \in Nat
  BY Constants DEF Inv, Types, Threads
<1>2. Len(buffer["producer"]) \in Nat /\ Len(buffer["consumer"]) \in Nat
  BY <1>1
<1>3. Pushed \in Nat /\ Popped \in Nat
  BY <1>1 DEF Pushed, Popped
<1>4. PushedOut \in Int /\ PoppedOut \in Int
  BY <1>2, <1>3 DEF PushedOut, PoppedOut
<1>5. mem[write_] + mem[write_] <= PushedOut /\ mem[read_] + mem[read_] <= PoppedOut
  BY DEF Inv, ProducerStores, ConsumerStores
<1>6. PushedOut \in Nat
  BY <1>1, <1>4, <1>5
<1>7. PoppedOut \in Nat
  BY <1>1, <1>4, <1>5
<1> QED BY <1>1, <1>2, <1>3, <1>6, <1>7

LEMMA ProducerCount ==
    ASSUME Inv
    PROVE  /\ PushedOut + Len(buffer["producer"]) = Pushed
           /\ ppc # "publish" => Pushed = sent + sent
           /\ ppc = "publish" => Pushed = sent + sent + 1
           /\ sent + sent <= Pushed /\ Pushed <= sent + sent + 1
           /\ mem[write_] + mem[write_] <= PushedOut /\ PushedOut <= mem[write_] + mem[write_] + 1
           /\ mem[write_] <= sent
<1>1. mem[write_] + mem[write_] <= PushedOut /\ PushedOut <= mem[write_] + mem[write_] + 1
  BY DEF Inv, ProducerStores
<1>2. PushedOut + Len(buffer["producer"]) = Pushed
  BY NumbersRight DEF PushedOut
<1>3. (ppc # "publish" => Pushed = sent + sent) /\ (ppc = "publish" => Pushed = sent + sent + 1)
  BY NumbersRight DEF Pushed
<1>4. sent + sent <= Pushed /\ Pushed <= sent + sent + 1
  BY NumbersRight, <1>3
<1>5. mem[write_] <= sent
  BY DEF Inv, Positions
<1> QED BY <1>1, <1>2, <1>3, <1>4, <1>5

LEMMA ConsumerCount ==
    ASSUME Inv
    PROVE  /\ PoppedOut + Len(buffer["consumer"]) = Popped
           /\ cpc # "release" => Popped = done + done
           /\ cpc = "release" => Popped = done + done + 1
           /\ done + done <= Popped /\ Popped <= done + done + 1
           /\ mem[read_] + mem[read_] <= PoppedOut /\ PoppedOut <= mem[read_] + mem[read_] + 1
           /\ mem[read_] <= done
<1>1. mem[read_] + mem[read_] <= PoppedOut /\ PoppedOut <= mem[read_] + mem[read_] + 1
  BY DEF Inv, ConsumerStores
<1>2. PoppedOut + Len(buffer["consumer"]) = Popped
  BY NumbersRight DEF PoppedOut
<1>3. (cpc # "release" => Popped = done + done) /\ (cpc = "release" => Popped = done + done + 1)
  BY NumbersRight DEF Popped
<1>4. done + done <= Popped /\ Popped <= done + done + 1
  BY NumbersRight, <1>3
<1>5. mem[read_] <= done
  BY DEF Inv, Positions
<1> QED BY <1>1, <1>2, <1>3, <1>4, <1>5

\* Every other store of a thread, from number n on, is to its own position.
Alternates(b, n, loc) ==
    \A i \in 1 .. Len(b), k \in Nat :
      /\ n + i = k + k + 1 => b[i].loc # loc
      /\ n + i = k + k + 2 => b[i].loc = loc /\ b[i].val = k + 1

LEMMA LoadPosition ==
    ASSUME NEW t, NEW loc, NEW D \in Nat, NEW n \in Nat, NEW m \in Nat, NEW p \in Nat,
           Len(buffer[t]) = n, m + m <= D, D <= m + m + 1, p + p <= D + n, D + n <= p + p + 1,
           mem[loc] = m, m <= p, Alternates(buffer[t], D, loc)
    PROVE  Load(t, loc) = p
<1>1. CASE p = m
  <2>1. ASSUME NEW j \in 1 .. n PROVE buffer[t][j].loc # loc
    <3>1. D + j = m + m + 1
      BY <1>1
    <3> QED BY <3>1 DEF Alternates
  <2> QED BY <1>1, <2>1, LoadMemory
<1>2. CASE p > m
  <2> DEFINE i == p + p - D
             q == p - 1
  <2>1. i \in 1 .. n /\ q \in Nat /\ D + i = q + q + 2 /\ q + 1 = p
    BY <1>2
  <2>2. \A j \in 1 .. n : j > i => D + j = p + p + 1
    BY <1>2
  <2> HIDE DEF i, q
  <2>3. buffer[t][i].loc = loc /\ buffer[t][i].val = p
    BY <2>1 DEF Alternates
  <2>4. \A j \in 1 .. n : j > i => buffer[t][j].loc # loc
    BY <2>2 DEF Alternates
  <2> QED BY <2>1, <2>3, <2>4, LoadOwn
<1> QED BY <1>1, <1>2

LEMMA LoadWrite == ASSUME Inv PROVE Load("producer", write_) = sent
<1>1. Alternates(buffer["producer"], PushedOut, write_)
  <2> SUFFICES ASSUME NEW i \in 1 .. Len(buffer["producer"]), NEW k \in Nat
               PROVE  /\ PushedOut + i = k + k + 1 => buffer["producer"][i].loc # write_
                      /\ PushedOut + i = k + k + 2 =>
                            buffer["producer"][i].loc = write_ /\ buffer["producer"][i].val = k + 1
    BY DEF Alternates
  <2>1. /\ PushedOut + i = k + k + 1 => buffer["producer"][i] = [loc |-> Slot(k), val |-> k + 1]
        /\ PushedOut + i = k + k + 2 => buffer["producer"][i] = [loc |-> write_, val |-> k + 1]
    BY DEF Inv, ProducerStores
  <2>2. Slot(k) # write_
    BY SlotRight
  <2> QED BY <2>1, <2>2
<1> QED BY <1>1, NumbersRight, ProducerCount, LoadPosition

LEMMA LoadRead == ASSUME Inv PROVE Load("consumer", read_) = done
<1>1. Alternates(buffer["consumer"], PoppedOut, read_)
  <2> SUFFICES ASSUME NEW i \in 1 .. Len(buffer["consumer"]), NEW k \in Nat
               PROVE  /\ PoppedOut + i = k + k + 1 => buffer["consumer"][i].loc # read_
                      /\ PoppedOut + i = k + k + 2 =>
                            buffer["consumer"][i].loc = read_ /\ buffer["consumer"][i].val = k + 1
    BY DEF Alternates
  <2>1. /\ PoppedOut + i = k + k + 1 => buffer["consumer"][i] = [loc |-> Slot(k), val |-> raw]
        /\ PoppedOut + i = k + k + 2 => buffer["consumer"][i] = [loc |-> read_, val |-> k + 1]
    BY DEF Inv, ConsumerStores
  <2>2. Slot(k) # read_
    BY SlotRight
  <2> QED BY <2>1, <2>2
<1> QED BY SMTT(30), <1>1, NumbersRight, ConsumerCount, LoadPosition

\* Every positive number is odd or even.
LEMMA Parity == \A n \in Nat \ {0} : \E k \in Nat : n = k + k + 1 \/ n = k + k + 2
<1> TAKE n \in Nat \ {0}
<1>1. (n - 1) \div 2 \in Nat
      /\ (n - 1 = 2 * ((n - 1) \div 2) \/ n - 1 = 2 * ((n - 1) \div 2) + 1)
  OBVIOUS
<1> QED BY <1>1

\* What can be in a buffer.
LEMMA ProducerBuffer ==
    ASSUME Inv, NEW i \in 1 .. Len(buffer["producer"])
    PROVE  \E k \in Nat : buffer["producer"][i].loc = write_ \/ buffer["producer"][i].loc = Slot(k)
<1>1. PushedOut + i \in Nat \ {0}
  BY NumbersRight
<1>2. PICK k \in Nat : PushedOut + i = k + k + 1 \/ PushedOut + i = k + k + 2
  BY <1>1, Parity
<1>3. /\ PushedOut + i = k + k + 1 => buffer["producer"][i] = [loc |-> Slot(k), val |-> k + 1]
      /\ PushedOut + i = k + k + 2 => buffer["producer"][i] = [loc |-> write_, val |-> k + 1]
  BY DEF Inv, ProducerStores
<1> QED BY <1>2, <1>3

LEMMA ConsumerBuffer ==
    ASSUME Inv, NEW i \in 1 .. Len(buffer["consumer"])
    PROVE  \/ buffer["consumer"][i].loc = read_
           \/ \E k \in Nat : /\ (cpc # "release" => k < done) /\ mem[read_] <= k
                            /\ buffer["consumer"][i].loc = Slot(k)
<1>1. PoppedOut + i \in Nat \ {0}
  BY NumbersRight
<1>2. PICK k \in Nat : PoppedOut + i = k + k + 1 \/ PoppedOut + i = k + k + 2
  BY <1>1, Parity
<1>3. /\ PoppedOut + i = k + k + 1 => buffer["consumer"][i] = [loc |-> Slot(k), val |-> raw]
      /\ PoppedOut + i = k + k + 2 => buffer["consumer"][i] = [loc |-> read_, val |-> k + 1]
  BY DEF Inv, ConsumerStores
<1>4. PoppedOut + i = k + k + 1 => (cpc # "release" => k < done) /\ mem[read_] <= k
  <2>1. PoppedOut + i <= Popped /\ PoppedOut + i > PoppedOut
    BY SMTT(30), NumbersRight, ConsumerCount
  <2>2. mem[read_] + mem[read_] <= PoppedOut /\ (cpc # "release" => Popped = done + done)
    BY ConsumerCount
  <2>3. \A p, q, d, r, j \in Nat : p <= q /\ r + r < p /\ p = j + j + 1 => (q = d + d => j < d) /\ r <= j
    OBVIOUS
  <2>4. PICK p \in Nat : p = PoppedOut + i
    BY <1>1
  <2>5. p <= Popped /\ mem[read_] + mem[read_] < p
    BY <2>1, <2>2, <2>4, NumbersRight
  <2>6. /\ p = k + k + 1 => (Popped = done + done => k < done)
        /\ p = k + k + 1 => mem[read_] <= k
    BY <2>3, <2>5, NumbersRight
  <2> QED BY <2>2, <2>4, <2>6
<1> QED BY <1>2, <1>3, <1>4

\* What the threads load of each other is what has reached memory.
LEMMA LoadOthers ==
    ASSUME Inv
    PROVE  Load("producer", read_) = mem[read_] /\ Load("consumer", write_) = mem[write_]
<1>1. \A j \in 1 .. Len(buffer["producer"]) : buffer["producer"][j].loc # read_
  BY ProducerBuffer, SlotRight
<1>2. \A j \in 1 .. Len(buffer["consumer"]) : buffer["consumer"][j].loc # write_
  BY ConsumerBuffer, SlotRight
<1> QED BY <1>1, <1>2, LoadMemory

LEMMA LoadSlot ==
    ASSUME Inv, alive, cpc = "move"
    PROVE  Load("consumer", Slot(done)) = done + 1
<1>1. \A j \in 1 .. Len(buffer["consumer"]) : buffer["consumer"][j].loc # Slot(done)
  <2> SUFFICES ASSUME NEW j \in 1 .. Len(buffer["consumer"]), buffer["consumer"][j].loc = Slot(done) PROVE FALSE
    OBVIOUS
  <2>1. done \in Nat
    BY NumbersRight
  <2>2. PICK k \in Nat : k < done /\ mem[read_] <= k /\ buffer["consumer"][j].loc = Slot(k)
    BY <2>1, ConsumerBuffer, SlotRight
  <2>3. done < mem[write_] /\ mem[write_] <= sent /\ sent <= mem[read_] + capacity_
    BY DEF Inv, Positions
  <2>4. done < k + capacity_
    BY <2>2, <2>3, NumbersRight, Constants
  <2>5. Slot(k) # Slot(done)
    BY <2>1, <2>2, <2>4, SlotsDiffer
  <2> QED BY <2>2, <2>5
<1>2. Load("consumer", Slot(done)) = mem[Slot(done)]
  BY <1>1, LoadMemory
<1>3. done \in Live
  <2>1. done < mem[write_]
    BY DEF Inv, Positions
  <2>2. PoppedOut <= done + done
    BY NumbersRight, ConsumerCount
  <2>3. PoppedOut <= mem[read_] + mem[read_] + 1 /\ mem[read_] <= done
    BY ConsumerCount
  <2>4. mem[write_] + mem[write_] <= PushedOut
    BY ProducerCount
  <2>5. PoppedOut - mem[read_] <= done
    <3>1. \A p, r, d \in Nat : p <= d + d /\ p <= r + r + 1 /\ r <= d => p - r <= d
      OBVIOUS
    <3> QED BY <2>2, <2>3, <3>1, NumbersRight
  <2>6. done <= PushedOut - mem[write_] - 1
    <3>1. \A p, w, d \in Nat : w + w <= p /\ d < w => d <= p - w - 1
      OBVIOUS
    <3> QED BY <2>1, <2>4, <3>1, NumbersRight
  <2>7. done \in Int /\ PoppedOut - mem[read_] \in Int /\ PushedOut - mem[write_] - 1 \in Int
    BY NumbersRight
  <2> QED BY <2>5, <2>6, <2>7 DEF Live
<1> QED BY <1>2, <1>3 DEF Inv, Elements
-----------------------------------------------------------------------------
(* The steps.                                                              *)

\* What one thread's step keeps of the other's stores.
LEMMA OtherConsumer ==
    ASSUME Inv, mem'[read_] = mem[read_], buffer'["consumer"] = buffer["consumer"], Popped' = Popped
    PROVE  ConsumerStores' /\ PoppedOut' = PoppedOut
<1>1. PoppedOut' = PoppedOut
  BY DEF PoppedOut
<1> QED BY <1>1 DEF Inv, ConsumerStores

LEMMA OtherProducer ==
    ASSUME Inv, mem'[write_] = mem[write_], buffer'["producer"] = buffer["producer"], Pushed' = Pushed
    PROVE  ProducerStores' /\ PushedOut' = PushedOut
<1>1. PushedOut' = PushedOut
  BY DEF PushedOut
<1> QED BY <1>1 DEF Inv, ProducerStores

LEMMA ElementsStay ==
    ASSUME Elements, mem' = mem, PushedOut' = PushedOut, PoppedOut' = PoppedOut
    PROVE  Elements'
BY DEF Elements, Live

\* What the next store of a thread is.
NextPush(loc, val) ==
    \A k \in Nat : /\ Pushed = k + k => loc = Slot(k) /\ val = k + 1
                   /\ Pushed = k + k + 1 => loc = write_ /\ val = k + 1

NextPop(loc, val) ==
    \A k \in Nat : /\ Popped = k + k => loc = Slot(k) /\ val = raw
                   /\ Popped = k + k + 1 => loc = read_ /\ val = k + 1

LEMMA Push ==
    ASSUME Inv, mem' = mem, NEW loc, NEW val, [loc |-> loc, val |-> val] \in Stores,
           Store("producer", loc, val), Pushed' = Pushed + 1,
           NextPush(loc, val)
    PROVE  /\ buffer' \in [Threads -> Seq(Stores)] /\ buffer'["consumer"] = buffer["consumer"]
           /\ ProducerStores' /\ PushedOut' = PushedOut
<1> DEFINE e == [loc |-> loc, val |-> val]
           b == buffer["producer"]
           c == buffer'["producer"]
<1>1. b \in Seq(Stores) /\ Len(b) \in Nat /\ Pushed \in Nat /\ PushedOut \in Nat /\ PushedOut + Len(b) = Pushed
  BY NumbersRight, ProducerCount
<1>2. buffer \in [Threads -> Seq(Stores)] /\ buffer' = [buffer EXCEPT !["producer"] = Append(b, e)]
  BY DEF Inv, Types, Store
<1>3. e \in Stores
  OBVIOUS
<1>4. c = Append(b, e) /\ buffer'["consumer"] = buffer["consumer"]
  BY <1>2 DEF Threads
<1> HIDE DEF e
<1>5. /\ c \in Seq(Stores) /\ Len(c) = Len(b) + 1 /\ c[Len(b) + 1] = e
      /\ \A i \in 1 .. Len(b) : c[i] = b[i]
  <2>1. /\ Append(b, e) \in Seq(Stores) /\ Len(b) \in Nat /\ Len(Append(b, e)) = Len(b) + 1
        /\ \A i \in 1 .. Len(b) : Append(b, e)[i] = b[i]
        /\ Append(b, e)[Len(b) + 1] = e
    <3> HIDE DEF b
    <3> QED BY <1>1, <1>3, AppendRight
  <2> QED BY <1>4, <2>1
<1>6. buffer' \in [Threads -> Seq(Stores)]
  BY <1>2, <1>4, <1>5
<1>7. PushedOut' = PushedOut
  <2>1. PushedOut' = Pushed' - Len(c)
    BY DEF PushedOut
  <2> HIDE DEF b, c
  <2> QED BY <1>1, <1>5, <2>1
<1>8. \A i \in 1 .. Len(c), k \in Nat :
         /\ PushedOut + i = k + k + 1 => c[i] = [loc |-> Slot(k), val |-> k + 1]
         /\ PushedOut + i = k + k + 2 => c[i] = [loc |-> write_, val |-> k + 1]
  <2> TAKE i \in 1 .. Len(c), k \in Nat
  <2>1. CASE i = Len(b) + 1
    <3>1. PushedOut + i = Pushed + 1 /\ c[i] = e
      <4> HIDE DEF b, c
      <4> QED BY <1>1, <1>5, <2>1
    <3>2. /\ PushedOut + i = k + k + 1 => Pushed = k + k
          /\ PushedOut + i = k + k + 2 => Pushed = k + k + 1
      BY <1>1, <3>1
    <3> QED BY <3>1, <3>2 DEF e, NextPush
  <2>2. CASE i # Len(b) + 1
    <3>1. i \in 1 .. Len(b) /\ c[i] = b[i]
      <4> HIDE DEF b, c
      <4> QED BY <1>1, <1>5, <2>2
    <3> QED BY <3>1 DEF Inv, ProducerStores
  <2> QED BY <2>1, <2>2
<1>9. ProducerStores'
  <2>1. mem[write_] + mem[write_] <= PushedOut /\ PushedOut <= mem[write_] + mem[write_] + 1
    BY ProducerCount
  <2> QED BY <1>7, <1>8, <2>1 DEF ProducerStores
<1> QED BY <1>4, <1>6, <1>7, <1>9

LEMMA Pop ==
    ASSUME Inv, mem' = mem, NEW loc, NEW val, [loc |-> loc, val |-> val] \in Stores,
           Store("consumer", loc, val), Popped' = Popped + 1,
           NextPop(loc, val)
    PROVE  /\ buffer' \in [Threads -> Seq(Stores)] /\ buffer'["producer"] = buffer["producer"]
           /\ ConsumerStores' /\ PoppedOut' = PoppedOut
<1> DEFINE e == [loc |-> loc, val |-> val]
           b == buffer["consumer"]
           c == buffer'["consumer"]
<1>1. b \in Seq(Stores) /\ Len(b) \in Nat /\ Popped \in Nat /\ PoppedOut \in Nat /\ PoppedOut + Len(b) = Popped
  BY NumbersRight, ConsumerCount
<1>2. buffer \in [Threads -> Seq(Stores)] /\ buffer' = [buffer EXCEPT !["consumer"] = Append(b, e)]
  BY DEF Inv, Types, Store
<1>3. e \in Stores
  OBVIOUS
<1>4. c = Append(b, e) /\ buffer'["producer"] = buffer["producer"]
  BY <1>2 DEF Threads
<1> HIDE DEF e
<1>5. /\ c \in Seq(Stores) /\ Len(c) = Len(b) + 1 /\ c[Len(b) + 1] = e
      /\ \A i \in 1 .. Len(b) : c[i] = b[i]
  <2>1. /\ Append(b, e) \in Seq(Stores) /\ Len(b) \in Nat /\ Len(Append(b, e)) = Len(b) + 1
        /\ \A i \in 1 .. Len(b) : Append(b, e)[i] = b[i]
        /\ Append(b, e)[Len(b) + 1] = e
    <3> HIDE DEF b
    <3> QED BY <1>1, <1>3, AppendRight
  <2> QED BY <1>4, <2>1
<1>6. buffer' \in [Threads -> Seq(Stores)]
  BY <1>2, <1>4, <1>5
<1>7. PoppedOut' = PoppedOut
  <2>1. PoppedOut' = Popped' - Len(c)
    BY DEF PoppedOut
  <2> HIDE DEF b, c
  <2> QED BY <1>1, <1>5, <2>1
<1>8. \A i \in 1 .. Len(c), k \in Nat :
         /\ PoppedOut + i = k + k + 1 => c[i] = [loc |-> Slot(k), val |-> raw]
         /\ PoppedOut + i = k + k + 2 => c[i] = [loc |-> read_, val |-> k + 1]
  <2> TAKE i \in 1 .. Len(c), k \in Nat
  <2>1. CASE i = Len(b) + 1
    <3>1. PoppedOut + i = Popped + 1 /\ c[i] = e
      <4> HIDE DEF b, c
      <4> QED BY <1>1, <1>5, <2>1
    <3>2. /\ PoppedOut + i = k + k + 1 => Popped = k + k
          /\ PoppedOut + i = k + k + 2 => Popped = k + k + 1
      BY <1>1, <3>1
    <3> QED BY <3>1, <3>2 DEF e, NextPop
  <2>2. CASE i # Len(b) + 1
    <3>1. i \in 1 .. Len(b) /\ c[i] = b[i]
      <4> HIDE DEF b, c
      <4> QED BY <1>1, <1>5, <2>2
    <3> QED BY <3>1 DEF Inv, ConsumerStores
  <2> QED BY <2>1, <2>2
<1>9. ConsumerStores'
  <2>1. mem[read_] + mem[read_] <= PoppedOut /\ PoppedOut <= mem[read_] + mem[read_] + 1
    BY ConsumerCount
  <2> QED BY <1>7, <1>8, <2>1 DEF ConsumerStores
<1> QED BY <1>4, <1>6, <1>7, <1>9

LEMMA TestFullKeeps == ASSUME Inv, alive, TestFull PROVE Inv'
<1>1. /\ ppc = "idle" /\ ppc' = "construct" /\ sent < Items
      /\ UNCHANGED <<mem, buffer, sent, cpc, item, out, done, alive>>
  BY DEF TestFull, consumerVars
<1>2. sent - mem[read_] < capacity_
  BY LoadWrite, LoadOthers DEF TestFull
<1>3. sent < mem[read_] + capacity_
  BY <1>2, NumbersRight, Constants
<1>4. Pushed' = Pushed /\ Popped' = Popped
  BY <1>1 DEF Pushed, Popped
<1>5. ProducerStores' /\ ConsumerStores' /\ Elements'
  BY <1>1, <1>4, OtherProducer, OtherConsumer, ElementsStay DEF Inv
<1>6. Types' /\ Positions'
  BY <1>1, <1>3 DEF Inv, Types, Positions
<1> QED BY <1>1, <1>5, <1>6 DEF Inv

LEMMA ConstructKeeps == ASSUME Inv, alive, Construct PROVE Inv'
<1>1. /\ ppc = "construct" /\ ppc' = "publish"
      /\ UNCHANGED <<mem, sent, cpc, item, out, done, alive>>
  BY DEF Construct, consumerVars
<1>2. Store("producer", Slot(sent), sent + 1)
  BY LoadWrite DEF Construct
<1>3. sent \in Nat /\ sent < Items /\ Items \in Nat
  BY <1>1, NumbersRight, Constants DEF Inv, Positions
<1>4. [loc |-> Slot(sent), val |-> sent + 1] \in Stores
  BY <1>3, SlotRight DEF Stores, Values
<1>5. Pushed = sent + sent /\ Pushed' = Pushed + 1 /\ Popped' = Popped
  BY <1>1, <1>3 DEF Pushed, Popped
<1>6. NextPush(Slot(sent), sent + 1)
  <2> SUFFICES ASSUME NEW k \in Nat
               PROVE  /\ Pushed = k + k => Slot(sent) = Slot(k) /\ sent + 1 = k + 1
                      /\ Pushed = k + k + 1 => Slot(sent) = write_ /\ sent + 1 = k + 1
    BY DEF NextPush
  <2>1. Pushed = k + k => sent = k
    BY <1>3, <1>5
  <2>2. Pushed # k + k + 1
    BY <1>3, <1>5
  <2> QED BY <2>1, <2>2
<1>7. /\ buffer' \in [Threads -> Seq(Stores)] /\ buffer'["consumer"] = buffer["consumer"]
      /\ ProducerStores' /\ PushedOut' = PushedOut
  <2>0. PICK l, v : l = Slot(sent) /\ v = sent + 1
    OBVIOUS
  <2>1. /\ Store("producer", l, v) /\ [loc |-> l, val |-> v] \in Stores
        /\ NextPush(l, v)
    BY <1>2, <1>4, <1>6, <2>0
  <2> QED BY <1>1, <1>5, <2>1, Push
<1>8. ConsumerStores' /\ Elements'
  BY <1>1, <1>5, <1>7, OtherConsumer, ElementsStay DEF Inv
<1>9. Types' /\ Positions'
  BY <1>1, <1>7 DEF Inv, Types, Positions
<1> QED BY <1>1, <1>7, <1>8, <1>9 DEF Inv

LEMMA PublishKeeps == ASSUME Inv, alive, Publish PROVE Inv'
<1>1. /\ ppc = "publish" /\ ppc' = "idle" /\ sent' = sent + 1
      /\ UNCHANGED <<mem, cpc, item, out, done, alive>>
  BY DEF Publish, consumerVars
<1>2. Store("producer", write_, sent + 1)
  BY LoadWrite DEF Publish
<1>3. sent \in Nat /\ sent < Items /\ Items \in Nat /\ sent < mem[read_] + capacity_
  BY <1>1, NumbersRight, Constants DEF Inv, Positions
<1>4. [loc |-> write_, val |-> sent + 1] \in Stores
  BY <1>3, SlotRight DEF Stores, Values
<1>5. Pushed = sent + sent + 1 /\ Pushed' = Pushed + 1 /\ Popped' = Popped
  BY <1>1, <1>3 DEF Pushed, Popped
<1>6. NextPush(write_, sent + 1)
  <2> SUFFICES ASSUME NEW k \in Nat
               PROVE  /\ Pushed = k + k => write_ = Slot(k) /\ sent + 1 = k + 1
                      /\ Pushed = k + k + 1 => write_ = write_ /\ sent + 1 = k + 1
    BY DEF NextPush
  <2>1. Pushed = k + k + 1 => sent = k
    BY <1>3, <1>5
  <2>2. Pushed # k + k
    BY <1>3, <1>5
  <2> QED BY <2>1, <2>2
<1>7. /\ buffer' \in [Threads -> Seq(Stores)] /\ buffer'["consumer"] = buffer["consumer"]
      /\ ProducerStores' /\ PushedOut' = PushedOut
  <2>0. PICK l, v : l = write_ /\ v = sent + 1
    OBVIOUS
  <2>1. /\ Store("producer", l, v) /\ [loc |-> l, val |-> v] \in Stores
        /\ NextPush(l, v)
    BY <1>2, <1>4, <1>6, <2>0
  <2> QED BY <1>1, <1>5, <2>1, Push
<1>8. ConsumerStores' /\ Elements'
  BY <1>1, <1>5, <1>7, OtherConsumer, ElementsStay DEF Inv
<1>9. Types'
  BY <1>1, <1>3, <1>7 DEF Inv, Types
<1>10. Positions'
  <2>1. sent + 1 <= mem[read_] + capacity_ /\ mem[write_] <= sent + 1
    BY SMTT(30), <1>3, NumbersRight, ProducerCount, Constants
  <2> QED BY <1>1, <2>1 DEF Inv, Positions
<1> QED BY <1>1, <1>7, <1>8, <1>9, <1>10 DEF Inv

\* TestEmpty, ReturnFalse and MoveOut store nothing.
LEMMA NoStore ==
    ASSUME Inv, alive, UNCHANGED <<mem, buffer, ppc, sent, done, alive>>, cpc # "release", cpc' # "release"
    PROVE  ProducerStores' /\ ConsumerStores' /\ Elements' /\ alive'
<1>1. Pushed' = Pushed /\ Popped' = Popped
  BY DEF Pushed, Popped
<1> QED BY <1>1, OtherProducer, OtherConsumer, ElementsStay DEF Inv

LEMMA TestEmptyKeeps == ASSUME Inv, alive, TestEmpty PROVE Inv'
<1>1. /\ cpc = "idle" /\ cpc' = IF done = mem[write_] THEN "false" ELSE "move"
      /\ UNCHANGED <<mem, buffer, ppc, sent, item, out, done, alive>>
  BY LoadRead, LoadOthers DEF TestEmpty, producerVars
<1>2. done <= mem[write_]
  BY DEF Inv, Positions
<1>3. done # mem[write_] => done < mem[write_]
  BY <1>2, NumbersRight
<1>4. Types' /\ Positions'
  BY <1>1, <1>3 DEF Inv, Types, Positions
<1> QED BY <1>1, <1>4, NoStore DEF Inv

LEMMA ReturnFalseKeeps == ASSUME Inv, alive, ReturnFalse PROVE Inv'
<1>1. /\ cpc = "false" /\ cpc' = "idle" /\ out' = empty
      /\ UNCHANGED <<mem, buffer, ppc, sent, item, done, alive>>
  BY DEF ReturnFalse, producerVars
<1>2. Types' /\ Positions'
  BY <1>1 DEF Inv, Types, Positions
<1> QED BY <1>1, <1>2, NoStore DEF Inv

LEMMA MoveOutKeeps == ASSUME Inv, alive, MoveOut PROVE Inv'
<1>1. /\ cpc = "move" /\ cpc' = "destroy" /\ item' = done + 1
      /\ UNCHANGED <<mem, buffer, ppc, sent, out, done, alive>>
  BY LoadRead, LoadSlot DEF MoveOut, producerVars
<1>2. done < mem[write_] /\ mem[write_] <= Items
  BY <1>1, NumbersRight DEF Inv, Positions, Types
<1>3. done + 1 \in Values
  BY <1>2, NumbersRight, Constants DEF Values
<1>4. Types' /\ Positions'
  BY <1>1, <1>3 DEF Inv, Types, Positions
<1> QED BY <1>1, <1>4, NoStore DEF Inv

LEMMA DestroyKeeps == ASSUME Inv, alive, Destroy PROVE Inv'
<1>1. /\ cpc = "destroy" /\ cpc' = "release"
      /\ UNCHANGED <<mem, ppc, sent, item, out, done, alive>>
  BY DEF Destroy, producerVars
<1>2. Store("consumer", Slot(done), raw)
  BY LoadRead DEF Destroy
<1>3. done \in Nat
  BY NumbersRight
<1>4. [loc |-> Slot(done), val |-> raw] \in Stores
  BY <1>3, SlotRight DEF Stores
<1>5. Popped = done + done /\ Popped' = Popped + 1 /\ Pushed' = Pushed
  BY <1>1, <1>3 DEF Pushed, Popped
<1>6. NextPop(Slot(done), raw)
  <2> SUFFICES ASSUME NEW k \in Nat
               PROVE  /\ Popped = k + k => Slot(done) = Slot(k) /\ raw = raw
                      /\ Popped = k + k + 1 => Slot(done) = read_ /\ raw = k + 1
    BY DEF NextPop
  <2>1. Popped = k + k => done = k
    BY <1>3, <1>5
  <2>2. Popped # k + k + 1
    BY <1>3, <1>5
  <2> QED BY <2>1, <2>2
<1>7. /\ buffer' \in [Threads -> Seq(Stores)] /\ buffer'["producer"] = buffer["producer"]
      /\ ConsumerStores' /\ PoppedOut' = PoppedOut
  <2>0. PICK l : l = Slot(done)
    OBVIOUS
  <2>1. /\ Store("consumer", l, raw) /\ [loc |-> l, val |-> raw] \in Stores
        /\ NextPop(l, raw)
    BY <1>2, <1>4, <1>6, <2>0
  <2> QED BY <1>1, <1>5, <2>1, Pop
<1>8. ProducerStores' /\ Elements'
  BY <1>1, <1>5, <1>7, OtherProducer, ElementsStay DEF Inv
<1>9. Types' /\ Positions'
  BY <1>1, <1>7 DEF Inv, Types, Positions
<1> QED BY <1>1, <1>7, <1>8, <1>9 DEF Inv

LEMMA ReleaseKeeps == ASSUME Inv, alive, Release PROVE Inv'
<1>1. /\ cpc = "release" /\ cpc' = "idle" /\ done' = done + 1 /\ out' = item
      /\ UNCHANGED <<mem, ppc, sent, item, alive>>
  BY DEF Release, producerVars
<1>2. Store("consumer", read_, done + 1)
  BY LoadRead DEF Release
<1>3. /\ done \in Nat /\ done < mem[write_] /\ mem[write_] <= Items /\ mem[write_] \in Nat
      /\ Items \in Nat /\ item = done + 1
  BY <1>1, NumbersRight, Constants DEF Inv, Positions, Types
<1>4. done + 1 \in Values /\ [loc |-> read_, val |-> done + 1] \in Stores
  BY <1>3, SlotRight DEF Stores, Values
<1>5. Popped = done + done + 1 /\ Popped' = Popped + 1 /\ Pushed' = Pushed
  BY <1>1, <1>3 DEF Pushed, Popped
<1>6. NextPop(read_, done + 1)
  <2> SUFFICES ASSUME NEW k \in Nat
               PROVE  /\ Popped = k + k => read_ = Slot(k) /\ done + 1 = raw
                      /\ Popped = k + k + 1 => read_ = read_ /\ done + 1 = k + 1
    BY DEF NextPop
  <2>1. Popped = k + k + 1 => done = k
    BY <1>3, <1>5
  <2>2. Popped # k + k
    BY <1>3, <1>5
  <2> QED BY <2>1, <2>2
<1>7. /\ buffer' \in [Threads -> Seq(Stores)] /\ buffer'["producer"] = buffer["producer"]
      /\ ConsumerStores' /\ PoppedOut' = PoppedOut
  <2>0. PICK l, v : l = read_ /\ v = done + 1
    OBVIOUS
  <2>1. /\ Store("consumer", l, v) /\ [loc |-> l, val |-> v] \in Stores
        /\ NextPop(l, v)
    BY <1>2, <1>4, <1>6, <2>0
  <2> QED BY <1>1, <1>5, <2>1, Pop
<1>8. ProducerStores' /\ Elements'
  BY <1>1, <1>5, <1>7, OtherProducer, ElementsStay DEF Inv
<1>9. Types'
  BY <1>1, <1>3, <1>4, <1>7 DEF Inv, Types
<1>10. Positions'
  <2>1. mem[read_] <= done + 1 /\ done + 1 <= mem[write_]
    BY SMTT(30), <1>3, NumbersRight, ConsumerCount
  <2> QED BY <1>1, <2>1 DEF Inv, Positions
<1> QED BY <1>1, <1>7, <1>8, <1>9, <1>10 DEF Inv
-----------------------------------------------------------------------------
(* Memory.                                                                 *)

\* The bounds of Live.
LEMMA LiveRight ==
    ASSUME Inv
    PROVE  /\ Live \subseteq Nat
           /\ \A k \in Nat : k \in Live <=> PoppedOut - mem[read_] <= k /\ k < PushedOut - mem[write_]
           /\ \A k \in Live : mem[read_] <= k /\ k <= mem[write_]
<1>1. /\ mem[write_] + mem[write_] <= PushedOut /\ PushedOut <= mem[write_] + mem[write_] + 1
      /\ mem[read_] + mem[read_] <= PoppedOut /\ PoppedOut <= mem[read_] + mem[read_] + 1
      /\ PushedOut \in Nat /\ PoppedOut \in Nat /\ mem[read_] \in Nat /\ mem[write_] \in Nat
  BY NumbersRight, ProducerCount, ConsumerCount
<1> QED BY <1>1 DEF Live

\* The next position of the producer is less than a capacity from the consumer's.
LEMMA RoomRight ==
    ASSUME Inv, buffer["producer"] # <<>> \/ mem[write_] < sent \/ PushedOut = mem[write_] + mem[write_] + 1
    PROVE  mem[write_] < mem[read_] + capacity_ /\ mem[write_] < Items
<1>1. /\ mem[write_] + mem[write_] <= PushedOut /\ PushedOut + Len(buffer["producer"]) = Pushed
      /\ mem[write_] <= sent /\ Len(buffer["producer"]) \in Nat
      /\ PushedOut \in Nat /\ Pushed \in Nat /\ mem[write_] \in Nat /\ sent \in Nat /\ mem[read_] \in Nat
      /\ capacity_ \in Nat /\ Items \in Nat
  BY NumbersRight, ProducerCount, Constants
<1>2. /\ sent <= mem[read_] + capacity_ /\ sent <= Items
      /\ ppc # "idle" => sent < mem[read_] + capacity_ /\ sent < Items
  BY Constants DEF Inv, Positions, Types
<1>3. CASE mem[write_] < sent
  BY <1>1, <1>2, <1>3
<1>4. CASE mem[write_] = sent
  <2>1. Len(buffer["producer"]) > 0 \/ PushedOut > mem[write_] + mem[write_]
    BY <1>1, <1>4, NumbersRight
  <2>2. Pushed # sent + sent
    BY <1>1, <1>4, <2>1
  <2>3. ppc = "publish"
    BY <2>2, ProducerCount
  <2> QED BY <1>2, <1>4, <2>3
<1> QED BY <1>1, <1>3, <1>4

\* A store that leaves the buffer of the producer.
LEMMA DrainOfProducer ==
    ASSUME Inv, Drain("producer")
    PROVE  /\ alive /\ Elements
           /\ UNCHANGED <<ppc, sent, cpc, item, out, done, alive>>
           /\ buffer' \in [Threads -> Seq(Stores)] /\ buffer'["consumer"] = buffer["consumer"]
           /\ Pushed' = Pushed /\ Popped' = Popped /\ PushedOut' = PushedOut + 1
           /\ PushedOut + 1 <= Pushed
           /\ \A i \in 1 .. Len(buffer'["producer"]), k \in Nat :
                /\ PushedOut' + i = k + k + 1 => buffer'["producer"][i] = [loc |-> Slot(k), val |-> k + 1]
                /\ PushedOut' + i = k + k + 2 => buffer'["producer"][i] = [loc |-> write_, val |-> k + 1]
           /\ PushedOut = mem[write_] + mem[write_] =>
                mem' = [mem EXCEPT ![Slot(mem[write_])] = Overwrite(Slot(mem[write_]), mem[write_] + 1)]
           /\ PushedOut = mem[write_] + mem[write_] + 1 =>
                mem' = [mem EXCEPT ![write_] = Overwrite(write_, mem[write_] + 1)]
<1> DEFINE b == buffer["producer"]
           c == buffer'["producer"]
<1>1. b # <<>> /\ UNCHANGED <<ppc, sent, cpc, item, out, done, alive>>
  BY DEF Drain, producerVars, consumerVars
<1>2. alive /\ Elements
  BY <1>1 DEF Inv, Joined, Threads
<1>3. buffer \in [Threads -> Seq(Stores)] /\ b \in Seq(Stores)
  BY NumbersRight DEF Inv, Types
<1>4. /\ Len(b) \in Nat /\ Len(b) > 0 /\ Head(b) = b[1] /\ Tail(b) \in Seq(Stores) /\ Len(Tail(b)) = Len(b) - 1
      /\ \A i \in 1 .. Len(b) - 1 : Tail(b)[i] = b[i + 1]
  <2> HIDE DEF b
  <2> QED BY <1>1, <1>3, TailRight
<1>5. /\ c = Tail(b) /\ buffer' \in [Threads -> Seq(Stores)] /\ buffer'["consumer"] = buffer["consumer"]
      /\ mem' = [mem EXCEPT ![b[1].loc] = Overwrite(b[1].loc, b[1].val)]
  BY <1>3, <1>4 DEF Drain, Threads
<1>6. Pushed' = Pushed /\ Popped' = Popped
  BY <1>1 DEF Pushed, Popped
<1>7. PushedOut' = Pushed - (Len(b) - 1) /\ PushedOut + Len(b) = Pushed
  BY <1>4, <1>5, <1>6, ProducerCount DEF PushedOut
<1>8. PushedOut' = PushedOut + 1 /\ PushedOut + 1 <= Pushed
  <2> HIDE DEF b
  <2> QED BY <1>4, <1>7, NumbersRight
<1>9. ASSUME NEW i \in 1 .. Len(c), NEW k \in Nat
      PROVE  /\ PushedOut' + i = k + k + 1 => c[i] = [loc |-> Slot(k), val |-> k + 1]
             /\ PushedOut' + i = k + k + 2 => c[i] = [loc |-> write_, val |-> k + 1]
  <2>1. i + 1 \in 1 .. Len(b) /\ c[i] = b[i + 1] /\ PushedOut' + i = PushedOut + (i + 1)
    <3> HIDE DEF b, c
    <3> QED BY <1>4, <1>5, <1>8, NumbersRight
  <2>2. /\ PushedOut + (i + 1) = k + k + 1 => b[i + 1] = [loc |-> Slot(k), val |-> k + 1]
        /\ PushedOut + (i + 1) = k + k + 2 => b[i + 1] = [loc |-> write_, val |-> k + 1]
    BY <2>1 DEF Inv, ProducerStores
  <2> QED BY <2>1, <2>2
<1>10. /\ PushedOut = mem[write_] + mem[write_] => b[1] = [loc |-> Slot(mem[write_]), val |-> mem[write_] + 1]
       /\ PushedOut = mem[write_] + mem[write_] + 1 => b[1] = [loc |-> write_, val |-> mem[write_] + 1]
  <2>1. 1 \in 1 .. Len(b) /\ mem[write_] \in Nat
    BY <1>4, NumbersRight
  <2>2. PICK v \in Nat : v = mem[write_]
    BY <2>1
  <2>3. PICK e \in Nat : e = PushedOut
    BY NumbersRight
  <2>4. /\ e + 1 = v + v + 1 => b[1] = [loc |-> Slot(v), val |-> v + 1]
        /\ e + 1 = v + v + 2 => b[1] = [loc |-> write_, val |-> v + 1]
    BY <2>1, <2>3 DEF Inv, ProducerStores
  <2>5. (e = v + v => e + 1 = v + v + 1) /\ (e = v + v + 1 => e + 1 = v + v + 2)
    OBVIOUS
  <2>6. /\ e = v + v => b[1] = [loc |-> Slot(v), val |-> v + 1]
        /\ e = v + v + 1 => b[1] = [loc |-> write_, val |-> v + 1]
    BY <2>4, <2>5
  <2>7. /\ PushedOut = v + v => b[1] = [loc |-> Slot(v), val |-> v + 1]
        /\ PushedOut = v + v + 1 => b[1] = [loc |-> write_, val |-> v + 1]
    BY ONLY <2>3, <2>6
  <2> HIDE DEF b
  <2> QED BY <2>2, <2>7
<1>11. ASSUME PushedOut = mem[write_] + mem[write_]
       PROVE  mem' = [mem EXCEPT ![Slot(mem[write_])] = Overwrite(Slot(mem[write_]), mem[write_] + 1)]
  <2>1. b[1].loc = Slot(mem[write_]) /\ b[1].val = mem[write_] + 1
    BY <1>10, <1>11
  <2> HIDE DEF b
  <2> QED BY <1>5, <2>1
<1>12. ASSUME PushedOut = mem[write_] + mem[write_] + 1
       PROVE  mem' = [mem EXCEPT ![write_] = Overwrite(write_, mem[write_] + 1)]
  <2>1. b[1].loc = write_ /\ b[1].val = mem[write_] + 1
    BY <1>10, <1>12
  <2> HIDE DEF b
  <2> QED BY <1>5, <2>1
<1> QED BY <1>1, <1>2, <1>5, <1>6, <1>8, <1>9, <1>11, <1>12, Zenon

LEMMA DrainProducerKeeps == ASSUME Inv, Drain("producer") PROVE Inv'
<1> DEFINE w == mem[write_]
           r == mem[read_]
<1>1. /\ alive /\ Elements /\ UNCHANGED <<ppc, sent, cpc, item, out, done, alive>>
      /\ buffer' \in [Threads -> Seq(Stores)] /\ buffer'["consumer"] = buffer["consumer"]
      /\ Pushed' = Pushed /\ Popped' = Popped /\ PushedOut' = PushedOut + 1 /\ PushedOut + 1 <= Pushed
      /\ \A i \in 1 .. Len(buffer'["producer"]), k \in Nat :
           /\ PushedOut' + i = k + k + 1 => buffer'["producer"][i] = [loc |-> Slot(k), val |-> k + 1]
           /\ PushedOut' + i = k + k + 2 => buffer'["producer"][i] = [loc |-> write_, val |-> k + 1]
  BY DrainOfProducer
<1>2. PICK v \in Nat : v = w
  BY NumbersRight
<1>3. v < r + capacity_ /\ v < Items /\ v + 1 \in Values /\ r \in Nat
  <2>1. buffer["producer"] # <<>>
    BY DEF Drain
  <2>2. v < r + capacity_ /\ v < Items /\ r \in Nat
    BY <1>2, <2>1, RoomRight, NumbersRight
  <2> QED BY <2>2, Constants DEF Values
<1>4. mem \in [Locs -> Values \cup {raw, broken, 0}]
  BY DEF Inv, Types
<1>5. CASE PushedOut = v + v
  <2>1. Slot(v) \in Locs /\ Slot(v) # write_ /\ Slot(v) # read_
    BY SlotRight
  <2>2. \A k \in Live : k \in Nat /\ k < v /\ v < k + capacity_ /\ Slot(k) # Slot(v)
    <3> SUFFICES ASSUME NEW k \in Live PROVE k \in Nat /\ k < v /\ v < k + capacity_ /\ Slot(k) # Slot(v)
      OBVIOUS
    <3>1. k \in Nat /\ r <= k /\ k < PushedOut - v
      BY <1>2, LiveRight
    <3>2. k < v /\ v < k + capacity_
      BY <1>3, <1>5, <3>1, Constants
    <3> QED BY <3>1, <3>2, SlotsDiffer
  <2>3. mem[Slot(v)] = raw
    <3>1. PICK i \in Slots : Slot(v) = <<"data", i>>
      BY SlotRight
    <3> QED BY <1>1, <2>2, <3>1 DEF Elements
  <2>4. Overwrite(Slot(v), v + 1) = v + 1
    BY <1>3, <2>3, Constants DEF Overwrite
  <2>5. mem' = [mem EXCEPT ![Slot(v)] = v + 1]
    BY <1>2, <1>5, <2>4, DrainOfProducer
  <2>6. mem'[Slot(v)] = v + 1 /\ \A l \in Locs : l # Slot(v) => mem'[l] = mem[l]
    BY <1>4, <2>1, <2>5
  <2>7. mem'[write_] = v /\ mem'[read_] = r
    BY <1>2, <2>1, <2>6, SlotRight
  <2>8. Types'
    <3>1. mem' \in [Locs -> Values \cup {raw, broken, 0}]
      BY <1>3, <1>4, <2>5
    <3> QED BY <1>1, <1>2, <2>7, <3>1 DEF Inv, Types
  <2>9. ProducerStores'
    <3>1. mem'[write_] + mem'[write_] <= PushedOut' /\ PushedOut' <= mem'[write_] + mem'[write_] + 1
      BY <1>1, <1>5, <2>7
    <3> QED BY <1>1, <3>1 DEF ProducerStores
  <2>10. ConsumerStores' /\ PoppedOut' = PoppedOut
    BY <1>1, <2>7, OtherConsumer
  <2>11. Positions'
    BY <1>1, <1>2, <2>7 DEF Inv, Positions
  <2>12. \A k \in Live' : k \in Live \/ k = v
    <3>1. Live' = PoppedOut - r .. v
      BY <1>1, <1>5, <2>7, <2>10 DEF Live
    <3>2. Live = PoppedOut - r .. v - 1
      BY <1>2, <1>5 DEF Live
    <3> QED BY <3>1, <3>2, NumbersRight
  <2>13. Live \subseteq Live' /\ v \in Live'
    <3>1. Live' = PoppedOut - r .. v
      BY <1>1, <1>5, <2>7, <2>10 DEF Live
    <3>2. Live = PoppedOut - r .. v - 1
      BY <1>2, <1>5 DEF Live
    <3>3. PoppedOut - r <= v
      <4>1. PoppedOut <= r + r + 1 /\ r <= done /\ done <= v /\ PoppedOut <= Popped
        BY <1>2, NumbersRight, ConsumerCount DEF Inv, Positions
      <4>2. r < v \/ PoppedOut <= r + r
        <5>1. r = v => done = v /\ cpc # "release"
          BY <1>2, <1>3, <4>1, NumbersRight DEF Inv, Positions
        <5>2. r = v => Popped = r + r
          BY <5>1, ConsumerCount
        <5> QED BY <1>3, <4>1, <5>2, NumbersRight
      <4> QED BY SMTT(30), <1>3, <4>1, <4>2, NumbersRight
    <3> QED BY <1>3, <3>1, <3>2, <3>3, NumbersRight
  <2>14. Elements'
    <3>1. \A k \in Live' : mem'[Slot(k)] = k + 1
      <4> SUFFICES ASSUME NEW k \in Live' PROVE mem'[Slot(k)] = k + 1
        OBVIOUS
      <4>1. CASE k \in Live
        BY <1>1, <2>2, <2>6, <4>1, SlotRight DEF Elements
      <4>2. CASE k = v
        BY <2>6, <4>2
      <4> QED BY <2>12, <4>1, <4>2
    <3>2. \A i \in Slots : (\A k \in Live' : Slot(k) # <<"data", i>>) => mem'[<<"data", i>>] = raw
      BY <1>1, <2>6, <2>13, SlotRight DEF Elements
    <3> QED BY <3>1, <3>2 DEF Elements
  <2> QED BY <1>1, <2>8, <2>9, <2>10, <2>11, <2>14 DEF Inv
<1>6. CASE PushedOut = v + v + 1
  <2>1. Overwrite(write_, v + 1) = v + 1
    BY SlotRight DEF Overwrite
  <2>2. mem' = [mem EXCEPT ![write_] = v + 1]
    BY <1>2, <1>6, <2>1, DrainOfProducer
  <2>3. mem'[write_] = v + 1 /\ \A l \in Locs : l # write_ => mem'[l] = mem[l]
    BY <1>4, <2>2, SlotRight
  <2>4. mem'[read_] = r
    BY <2>3, SlotRight
  <2>5. v + 1 \in 0 .. Items
    BY <1>3, Constants
  <2>6. Types'
    <3>1. mem' \in [Locs -> Values \cup {raw, broken, 0}]
      BY <1>3, <1>4, <2>2
    <3> QED BY <1>1, <2>3, <2>4, <2>5, <3>1 DEF Inv, Types
  <2>7. ProducerStores'
    <3>1. mem'[write_] + mem'[write_] <= PushedOut' /\ PushedOut' <= mem'[write_] + mem'[write_] + 1
      BY <1>1, <1>6, <2>3
    <3> QED BY <1>1, <3>1 DEF ProducerStores
  <2>8. ConsumerStores' /\ PoppedOut' = PoppedOut
    BY <1>1, <2>4, OtherConsumer
  <2>9. Positions'
    <3>1. v + 1 <= sent
      <4>1. v + v + 2 <= Pushed /\ Pushed <= sent + sent + 1
        BY <1>1, <1>6, ProducerCount
      <4> QED BY <4>1, NumbersRight
    <3>2. done <= v /\ done \in Nat
      BY <1>2, NumbersRight DEF Inv, Positions
    <3>3. done <= v + 1 /\ done < v + 1
      BY <3>2
    <3> QED BY <1>1, <2>3, <2>4, <3>1, <3>3 DEF Inv, Positions
  <2>10. Live' = Live
    <3>1. PushedOut' - mem'[write_] - 1 = PushedOut - w - 1
      BY <1>1, <1>2, <1>6, <2>3
    <3> QED BY <2>4, <2>8, <3>1 DEF Live
  <2>11. Elements'
    BY <1>1, <2>3, <2>10, LiveRight, SlotRight DEF Elements
  <2> QED BY <1>1, <2>6, <2>7, <2>8, <2>9, <2>11 DEF Inv
<1>7. PushedOut = v + v \/ PushedOut = v + v + 1
  <2>1. PICK e \in Nat : e = PushedOut
    BY NumbersRight
  <2>2. v + v <= e /\ e <= v + v + 1
    BY <1>2, <2>1, ProducerCount
  <2>3. e = v + v \/ e = v + v + 1
    BY <2>2
  <2> QED BY <2>1, <2>3
<1> QED BY <1>5, <1>6, <1>7
\* A store that leaves the buffer of the consumer.
LEMMA DrainOfConsumer ==
    ASSUME Inv, Drain("consumer")
    PROVE  /\ alive /\ Elements
           /\ UNCHANGED <<ppc, sent, cpc, item, out, done, alive>>
           /\ buffer' \in [Threads -> Seq(Stores)] /\ buffer'["producer"] = buffer["producer"]
           /\ Pushed' = Pushed /\ Popped' = Popped /\ PoppedOut' = PoppedOut + 1
           /\ PoppedOut + 1 <= Popped
           /\ \A i \in 1 .. Len(buffer'["consumer"]), k \in Nat :
                /\ PoppedOut' + i = k + k + 1 => buffer'["consumer"][i] = [loc |-> Slot(k), val |-> raw]
                /\ PoppedOut' + i = k + k + 2 => buffer'["consumer"][i] = [loc |-> read_, val |-> k + 1]
           /\ PoppedOut = mem[read_] + mem[read_] =>
                mem' = [mem EXCEPT ![Slot(mem[read_])] = Overwrite(Slot(mem[read_]), raw)]
           /\ PoppedOut = mem[read_] + mem[read_] + 1 =>
                mem' = [mem EXCEPT ![read_] = Overwrite(read_, mem[read_] + 1)]
<1> DEFINE b == buffer["consumer"]
           c == buffer'["consumer"]
<1>1. b # <<>> /\ UNCHANGED <<ppc, sent, cpc, item, out, done, alive>>
  BY DEF Drain, producerVars, consumerVars
<1>2. alive /\ Elements
  BY <1>1 DEF Inv, Joined, Threads
<1>3. buffer \in [Threads -> Seq(Stores)] /\ b \in Seq(Stores)
  BY NumbersRight DEF Inv, Types
<1>4. /\ Len(b) \in Nat /\ Len(b) > 0 /\ Head(b) = b[1] /\ Tail(b) \in Seq(Stores) /\ Len(Tail(b)) = Len(b) - 1
      /\ \A i \in 1 .. Len(b) - 1 : Tail(b)[i] = b[i + 1]
  <2> HIDE DEF b
  <2> QED BY <1>1, <1>3, TailRight
<1>5. /\ c = Tail(b) /\ buffer' \in [Threads -> Seq(Stores)] /\ buffer'["producer"] = buffer["producer"]
      /\ mem' = [mem EXCEPT ![b[1].loc] = Overwrite(b[1].loc, b[1].val)]
  BY <1>3, <1>4 DEF Drain, Threads
<1>6. Pushed' = Pushed /\ Popped' = Popped
  BY <1>1 DEF Pushed, Popped
<1>7. PoppedOut' = Popped - (Len(b) - 1) /\ PoppedOut + Len(b) = Popped
  BY <1>4, <1>5, <1>6, ConsumerCount DEF PoppedOut
<1>8. PoppedOut' = PoppedOut + 1 /\ PoppedOut + 1 <= Popped
  <2> HIDE DEF b
  <2> QED BY <1>4, <1>7, NumbersRight
<1>9. ASSUME NEW i \in 1 .. Len(c), NEW k \in Nat
      PROVE  /\ PoppedOut' + i = k + k + 1 => c[i] = [loc |-> Slot(k), val |-> raw]
             /\ PoppedOut' + i = k + k + 2 => c[i] = [loc |-> read_, val |-> k + 1]
  <2>1. i + 1 \in 1 .. Len(b) /\ c[i] = b[i + 1] /\ PoppedOut' + i = PoppedOut + (i + 1)
    <3> HIDE DEF b, c
    <3> QED BY <1>4, <1>5, <1>8, NumbersRight
  <2>2. /\ PoppedOut + (i + 1) = k + k + 1 => b[i + 1] = [loc |-> Slot(k), val |-> raw]
        /\ PoppedOut + (i + 1) = k + k + 2 => b[i + 1] = [loc |-> read_, val |-> k + 1]
    BY <2>1 DEF Inv, ConsumerStores
  <2> QED BY <2>1, <2>2
<1>10. /\ PoppedOut = mem[read_] + mem[read_] => b[1] = [loc |-> Slot(mem[read_]), val |-> raw]
       /\ PoppedOut = mem[read_] + mem[read_] + 1 => b[1] = [loc |-> read_, val |-> mem[read_] + 1]
  <2>1. 1 \in 1 .. Len(b) /\ mem[read_] \in Nat
    BY <1>4, NumbersRight
  <2>2. PICK v \in Nat : v = mem[read_]
    BY <2>1
  <2>3. PICK e \in Nat : e = PoppedOut
    BY NumbersRight
  <2>4. /\ e + 1 = v + v + 1 => b[1] = [loc |-> Slot(v), val |-> raw]
        /\ e + 1 = v + v + 2 => b[1] = [loc |-> read_, val |-> v + 1]
    BY <2>1, <2>3 DEF Inv, ConsumerStores
  <2>5. (e = v + v => e + 1 = v + v + 1) /\ (e = v + v + 1 => e + 1 = v + v + 2)
    OBVIOUS
  <2>6. /\ e = v + v => b[1] = [loc |-> Slot(v), val |-> raw]
        /\ e = v + v + 1 => b[1] = [loc |-> read_, val |-> v + 1]
    BY <2>4, <2>5
  <2>7. /\ PoppedOut = v + v => b[1] = [loc |-> Slot(v), val |-> raw]
        /\ PoppedOut = v + v + 1 => b[1] = [loc |-> read_, val |-> v + 1]
    BY ONLY <2>3, <2>6
  <2> HIDE DEF b
  <2> QED BY <2>2, <2>7
<1>11. ASSUME PoppedOut = mem[read_] + mem[read_]
       PROVE  mem' = [mem EXCEPT ![Slot(mem[read_])] = Overwrite(Slot(mem[read_]), raw)]
  <2>1. b[1].loc = Slot(mem[read_]) /\ b[1].val = raw
    BY <1>10, <1>11
  <2> HIDE DEF b
  <2> QED BY <1>5, <2>1
<1>12. ASSUME PoppedOut = mem[read_] + mem[read_] + 1
       PROVE  mem' = [mem EXCEPT ![read_] = Overwrite(read_, mem[read_] + 1)]
  <2>1. b[1].loc = read_ /\ b[1].val = mem[read_] + 1
    BY <1>10, <1>12
  <2> HIDE DEF b
  <2> QED BY <1>5, <2>1
<1> QED BY <1>1, <1>2, <1>5, <1>6, <1>8, <1>9, <1>11, <1>12, Zenon


LEMMA DrainConsumerKeeps == ASSUME Inv, Drain("consumer") PROVE Inv'
<1> DEFINE w == mem[write_]
<1>1. /\ alive /\ Elements /\ UNCHANGED <<ppc, sent, cpc, item, out, done, alive>>
      /\ buffer' \in [Threads -> Seq(Stores)] /\ buffer'["producer"] = buffer["producer"]
      /\ Pushed' = Pushed /\ Popped' = Popped /\ PoppedOut' = PoppedOut + 1 /\ PoppedOut + 1 <= Popped
      /\ \A i \in 1 .. Len(buffer'["consumer"]), k \in Nat :
           /\ PoppedOut' + i = k + k + 1 => buffer'["consumer"][i] = [loc |-> Slot(k), val |-> raw]
           /\ PoppedOut' + i = k + k + 2 => buffer'["consumer"][i] = [loc |-> read_, val |-> k + 1]
  BY DrainOfConsumer
<1>2. PICK v \in Nat : v = mem[read_]
  BY NumbersRight
<1>3. PICK e \in Nat : e = PoppedOut
  BY NumbersRight
<1>4. mem \in [Locs -> Values \cup {raw, broken, 0}]
  BY DEF Inv, Types
<1>5. CASE e = v + v
  <2>1. Slot(v) \in Locs /\ Slot(v) # write_ /\ Slot(v) # read_ /\ Slot(v)[1] = "data"
    BY SlotRight
  <2>2. v < w
    <3>1. e + 1 <= Popped /\ v <= done /\ done <= w /\ Popped \in Nat /\ done \in Nat /\ w \in Nat
      BY <1>1, <1>2, <1>3, NumbersRight DEF Inv, Positions
    <3>2. CASE cpc = "release"
      <4>1. done < w
        BY <3>2 DEF Inv, Positions
      <4> QED BY <3>1, <4>1
    <3>3. CASE cpc # "release"
      <4>1. Popped = done + done
        BY <3>3, ConsumerCount
      <4>2. v < done
        BY <1>5, <3>1, <4>1
      <4> QED BY <3>1, <4>2
    <3> QED BY <3>2, <3>3
  <2>3. PICK h \in Nat : h = PushedOut - w /\ w <= h /\ h <= w + 1 /\ h \in Nat
    <3>1. w + w <= PushedOut /\ PushedOut <= w + w + 1 /\ PushedOut \in Nat /\ w \in Nat
      BY NumbersRight, ProducerCount
    <3> QED BY <3>1
  <2>4. v < h /\ w \in Nat
    BY <2>2, <2>3, NumbersRight
  <2>5. Live = v .. h - 1
    BY <1>2, <1>3, <1>5, <2>3 DEF Live
  <2>6. v \in Live
    BY <2>4, <2>5
  <2>7. mem[Slot(v)] = v + 1 /\ v + 1 # raw
    <3>1. mem[Slot(v)] = v + 1
      BY <1>1, <2>6 DEF Elements
    <3>2. v + 1 \in Values
      <4>1. w <= Items /\ w \in Nat
        BY NumbersRight, Constants DEF Inv, Types
      <4> QED BY <2>2, <4>1, Constants DEF Values
    <3> QED BY <3>1, <3>2, Constants
  <2>8. mem' = [mem EXCEPT ![Slot(v)] = raw]
    <3>1. Overwrite(Slot(v), raw) = raw
      BY <2>7 DEF Overwrite
    <3> QED BY <1>2, <1>3, <1>5, <3>1, DrainOfConsumer
  <2>9. mem'[Slot(v)] = raw /\ \A l \in Locs : l # Slot(v) => mem'[l] = mem[l]
    BY <1>4, <2>1, <2>8
  <2>10. mem'[write_] = w /\ mem'[read_] = v
    BY <1>2, <2>1, <2>9, SlotRight
  <2>11. Types'
    <3>1. mem' \in [Locs -> Values \cup {raw, broken, 0}]
      BY <1>4, <2>8
    <3> QED BY <1>1, <1>2, <2>10, <3>1 DEF Inv, Types
  <2>12. ConsumerStores'
    <3>1. mem'[read_] + mem'[read_] <= PoppedOut' /\ PoppedOut' <= mem'[read_] + mem'[read_] + 1
      BY <1>1, <1>3, <1>5, <2>10
    <3> QED BY <1>1, <3>1 DEF ConsumerStores
  <2>13. ProducerStores' /\ PushedOut' = PushedOut
    BY <1>1, <2>10, OtherProducer
  <2>14. Positions'
    BY <1>1, <1>2, <2>10 DEF Inv, Positions
  <2>15. Live' = v + 1 .. h - 1
    <3>1. PoppedOut' - mem'[read_] = v + 1
      BY <1>1, <1>3, <1>5, <2>10
    <3>2. PushedOut' - mem'[write_] = h
      BY <2>3, <2>10, <2>13
    <3> QED BY <3>1, <3>2 DEF Live
  <2>16. \A k \in Live' : k \in Nat /\ k \in Live /\ Slot(k) # Slot(v)
    <3> SUFFICES ASSUME NEW k \in Live' PROVE k \in Nat /\ k \in Live /\ Slot(k) # Slot(v)
      OBVIOUS
    <3>1. k \in Nat /\ v < k /\ k < h /\ k \in Live
      BY <2>5, <2>15
    <3>2. k < v + capacity_
      <4>1. sent <= v + capacity_ /\ w <= sent /\ sent \in Nat /\ w \in Nat /\ capacity_ \in Nat
        BY <1>2, NumbersRight, Constants DEF Inv, Positions
      <4>2. CASE k < w
        BY <3>1, <4>1, <4>2
      <4>3. CASE k = w
        <5>1. h = w + 1
          BY <2>3, <3>1, <4>1, <4>3
        <5>2. PushedOut = w + w + 1
          BY SMTT(30), <2>3, <4>1, <5>1, NumbersRight
        <5>3. w < v + capacity_
          BY <1>2, <5>2, RoomRight
        <5> QED BY <4>3, <5>3
      <4> QED BY <2>3, <3>1, <4>1, <4>2, <4>3
    <3> QED BY <3>1, <3>2, SlotsDiffer
  <2>17. Elements'
    <3>1. \A k \in Live' : mem'[Slot(k)] = k + 1
      <4> SUFFICES ASSUME NEW k \in Live' PROVE mem'[Slot(k)] = k + 1
        OBVIOUS
      <4>1. k \in Nat /\ k \in Live /\ Slot(k) # Slot(v) /\ Slot(k) \in Locs
        BY <2>16, SlotRight
      <4>2. mem[Slot(k)] = k + 1
        BY <1>1, <4>1 DEF Elements
      <4> QED BY <2>9, <4>1, <4>2
    <3>2. ASSUME NEW i \in Slots, \A k \in Live' : Slot(k) # <<"data", i>>
          PROVE  mem'[<<"data", i>>] = raw
      <4>1. CASE Slot(v) = <<"data", i>>
        BY <2>9, <4>1
      <4>2. CASE Slot(v) # <<"data", i>>
        <5>1. \A k \in Live : k \in Live' \/ k = v
          BY <2>5, <2>15
        <5>2. \A k \in Live : Slot(k) # <<"data", i>>
          BY <3>2, <4>2, <5>1
        <5>3. mem[<<"data", i>>] = raw
          BY <1>1, <5>2 DEF Elements
        <5> QED BY <2>9, <4>2, <5>3, SlotRight
      <4> QED BY <4>1, <4>2
    <3> QED BY <3>1, <3>2 DEF Elements
  <2> QED BY <1>1, <2>11, <2>12, <2>13, <2>14, <2>17 DEF Inv
<1>6. CASE e = v + v + 1
  <2>1. mem' = [mem EXCEPT ![read_] = v + 1]
    <3>1. Overwrite(read_, v + 1) = v + 1
      BY SlotRight DEF Overwrite
    <3> QED BY <1>2, <1>3, <1>6, <3>1, DrainOfConsumer
  <2>2. mem'[read_] = v + 1 /\ \A l \in Locs : l # read_ => mem'[l] = mem[l]
    BY <1>4, <2>1, SlotRight
  <2>3. mem'[write_] = w
    BY <2>2, SlotRight
  <2>4. v + 1 <= done /\ done \in Nat
    <3>1. v + v + 2 <= Popped /\ Popped <= done + done + 1 /\ Popped \in Nat /\ done \in Nat
      BY <1>1, <1>3, <1>6, ConsumerCount, NumbersRight
    <3> QED BY <3>1
  <2>5. v + 1 \in 0 .. Items /\ v + 1 \in Values
    <3>1. done <= Items
      BY Constants DEF Inv, Types
    <3> QED BY <2>4, <3>1, Constants DEF Values
  <2>6. Types'
    <3>1. mem' \in [Locs -> Values \cup {raw, broken, 0}]
      BY <1>4, <2>1, <2>5
    <3> QED BY <1>1, <2>2, <2>3, <2>5, <3>1 DEF Inv, Types
  <2>7. ConsumerStores'
    <3>1. mem'[read_] + mem'[read_] <= PoppedOut' /\ PoppedOut' <= mem'[read_] + mem'[read_] + 1
      BY <1>1, <1>3, <1>6, <2>2
    <3> QED BY <1>1, <3>1 DEF ConsumerStores
  <2>8. ProducerStores' /\ PushedOut' = PushedOut
    BY <1>1, <2>3, OtherProducer
  <2>9. Positions'
    <3>1. /\ sent <= v + capacity_ /\ sent \in Nat /\ capacity_ \in Nat
          /\ ppc # "idle" => sent < v + capacity_ /\ sent < Items
      BY <1>2, NumbersRight, Constants DEF Inv, Positions
    <3>2. /\ sent <= v + 1 + capacity_
          /\ ppc # "idle" => sent < v + 1 + capacity_ /\ sent < Items
      BY <3>1
    <3> QED BY <1>1, <2>2, <2>3, <2>4, <3>2 DEF Inv, Positions
  <2>10. Live' = Live
    <3>1. PoppedOut' - mem'[read_] = PoppedOut - mem[read_]
      BY <1>1, <1>2, <1>3, <1>6, <2>2
    <3> QED BY <2>3, <2>8, <3>1 DEF Live
  <2>11. Elements'
    BY <1>1, <2>2, <2>10, LiveRight, SlotRight DEF Elements
  <2> QED BY <1>1, <2>6, <2>7, <2>8, <2>9, <2>11 DEF Inv
<1>7. e = v + v \/ e = v + v + 1
  <2>1. v + v <= e /\ e <= v + v + 1
    BY <1>2, <1>3, ConsumerCount
  <2> QED BY <2>1
<1> QED BY <1>5, <1>6, <1>7
-----------------------------------------------------------------------------
(* The destructor, the initial states, and the theorems.                   *)

LEMMA DestructKeeps == ASSUME Inv, Destruct PROVE Inv' /\ ~alive'
<1>1. /\ alive /\ Elements /\ ~alive' /\ UNCHANGED <<buffer, ppc, sent, cpc, item, out, done>>
      /\ ppc = "idle" /\ cpc = "idle" /\ buffer["producer"] = <<>> /\ buffer["consumer"] = <<>>
      /\ Joined /\ Joined'
  BY DEF Destruct, Joined, Inv, producerVars, consumerVars, Threads
<1>2. Len(buffer["producer"]) = 0 /\ Len(buffer["consumer"]) = 0
  BY <1>1
<1>3. mem[write_] = sent /\ PushedOut = sent + sent
  <2>1. PushedOut = sent + sent
    BY <1>1, <1>2, ProducerCount, NumbersRight
  <2>2. PICK w \in Nat : w = mem[write_]
    BY NumbersRight
  <2>3. PICK s \in Nat : s = sent
    BY NumbersRight
  <2>4. w + w <= s + s /\ s + s <= w + w + 1
    BY <2>1, <2>2, <2>3, ProducerCount
  <2> QED BY <2>1, <2>2, <2>3, <2>4
<1>4. mem[read_] = done /\ PoppedOut = done + done
  <2>1. PoppedOut = done + done
    BY <1>1, <1>2, ConsumerCount, NumbersRight
  <2>2. PICK r \in Nat : r = mem[read_]
    BY NumbersRight
  <2>3. PICK d \in Nat : d = done
    BY NumbersRight
  <2>4. r + r <= d + d /\ d + d <= r + r + 1
    BY <2>1, <2>2, <2>3, ConsumerCount
  <2> QED BY <2>1, <2>2, <2>3, <2>4
<1>5. Live = done .. sent - 1 /\ done \in Nat /\ sent \in Nat /\ sent <= Items
  <2>1. PoppedOut - mem[read_] = done /\ PushedOut - mem[write_] = sent
    BY <1>3, <1>4, NumbersRight
  <2>2. sent <= Items
    BY Constants DEF Inv, Types
  <2> QED BY <2>1, <2>2, NumbersRight DEF Live
<1>6. mem' = [l \in Locs |-> IF \E i \in Live : l = Slot(i) THEN Overwrite(l, raw) ELSE mem[l]]
  BY <1>3, <1>4, <1>5 DEF Destruct
<1>7. mem \in [Locs -> Values \cup {raw, broken, 0}]
  BY DEF Inv, Types
<1>8. \A i \in Live : i \in Nat /\ Slot(i)[1] = "data" /\ mem[Slot(i)] # raw
  <2> SUFFICES ASSUME NEW i \in Live PROVE i \in Nat /\ Slot(i)[1] = "data" /\ mem[Slot(i)] # raw
    OBVIOUS
  <2>1. i \in Nat /\ i + 1 \in Values
    BY <1>5, Constants DEF Values
  <2>2. mem[Slot(i)] = i + 1
    BY <1>1 DEF Elements
  <2> QED BY <2>1, <2>2, SlotRight, Constants
<1>9. \A l \in Locs : (\E i \in Live : l = Slot(i)) => Overwrite(l, raw) = raw
  BY <1>8 DEF Overwrite
<1>10. mem' = [l \in Locs |-> IF \E i \in Live : l = Slot(i) THEN raw ELSE mem[l]]
  BY <1>6, <1>9
<1>11. mem'[write_] = mem[write_] /\ mem'[read_] = mem[read_]
  BY <1>8, <1>10, SlotRight
<1>12. \A i \in Slots : mem'[<<"data", i>>] = raw
  <2> SUFFICES ASSUME NEW i \in Slots PROVE mem'[<<"data", i>>] = raw
    OBVIOUS
  <2>1. (\A k \in Live : Slot(k) # <<"data", i>>) => mem[<<"data", i>>] = raw
    BY <1>1 DEF Elements
  <2> QED BY <1>10, <2>1, SlotRight
<1>13. Types'
  <2>1. mem' \in [Locs -> Values \cup {raw, broken, 0}]
    BY <1>7, <1>10
  <2>2. mem'[read_] \in 0 .. Items /\ mem'[write_] \in 0 .. Items
    BY <1>11 DEF Inv, Types
  <2>3. buffer' \in [Threads -> Seq(Stores)]
    BY <1>1 DEF Inv, Types
  <2>4. /\ ppc' \in {"idle", "construct", "publish"} /\ sent' \in 0 .. Items
        /\ cpc' \in {"idle", "false", "move", "destroy", "release"}
        /\ item' \in Values \cup {none} /\ out' \in Values \cup {none, empty}
        /\ done' \in 0 .. Items
    BY <1>1 DEF Inv, Types
  <2>5. alive' \in BOOLEAN
    BY DEF Destruct
  <2> QED BY <2>1, <2>2, <2>3, <2>4, <2>5 DEF Types
<1>14. ProducerStores' /\ ConsumerStores'
  <2>1. Pushed' = Pushed /\ Popped' = Popped
    BY <1>1 DEF Pushed, Popped
  <2> QED BY <1>1, <1>11, <2>1, OtherProducer, OtherConsumer
<1>15. Positions'
  BY <1>1, <1>11 DEF Inv, Positions
<1> QED BY <1>1, <1>12, <1>13, <1>14, <1>15 DEF Inv

LEMMA StutterKeeps == ASSUME Inv, UNCHANGED vars PROVE Inv'
BY DEF Inv, Types, ProducerStores, ConsumerStores, Positions, Elements, Live, PushedOut, PoppedOut,
       Pushed, Popped, Joined, vars

LEMMA InitHolds == Init => Inv
<1> SUFFICES ASSUME Init PROVE Inv
  OBVIOUS
<1>1. /\ mem = [l \in Locs |-> IF l \in {write_, read_} THEN 0 ELSE raw]
      /\ buffer = [t \in Threads |-> <<>>]
      /\ ppc = "idle" /\ sent = 0 /\ cpc = "idle" /\ item = none /\ out = none /\ done = 0 /\ alive = TRUE
  BY DEF Init
<1>2. mem[write_] = 0 /\ mem[read_] = 0
  BY <1>1, SlotRight
<1>3. buffer["producer"] = <<>> /\ buffer["consumer"] = <<>> /\ buffer \in [Threads -> Seq(Stores)]
  BY <1>1 DEF Threads
<1>4. Len(buffer["producer"]) = 0 /\ Len(buffer["consumer"]) = 0
  BY <1>3
<1>5. Types
  <2>1. mem \in [Locs -> Values \cup {raw, broken, 0}]
    BY <1>1
  <2>2. 0 \in 0 .. Items
    BY Constants
  <2>3. /\ ppc \in {"idle", "construct", "publish"}
        /\ cpc \in {"idle", "false", "move", "destroy", "release"}
        /\ item \in Values \cup {none} /\ out \in Values \cup {none, empty} /\ alive \in BOOLEAN
    BY <1>1
  <2>4. sent \in 0 .. Items /\ done \in 0 .. Items /\ mem[read_] \in 0 .. Items /\ mem[write_] \in 0 .. Items
    BY <1>1, <1>2, <2>2
  <2> QED BY <1>3, <2>1, <2>3, <2>4 DEF Types
<1>6. PushedOut = 0 /\ PoppedOut = 0
  <2>1. Pushed = 0 /\ Popped = 0
    <3>1. sent = 0 /\ done = 0 /\ ppc # "publish" /\ cpc # "release"
      BY <1>1
    <3> QED BY ONLY <3>1 DEF Pushed, Popped
  <2> QED BY ONLY <1>4, <2>1 DEF PushedOut, PoppedOut
<1>7. ProducerStores /\ ConsumerStores
  BY <1>2, <1>4, <1>6 DEF ProducerStores, ConsumerStores
<1>8. Positions
  BY <1>1, <1>2, Constants DEF Positions
<1>9. Elements
  <2>1. Live = {}
    BY <1>2, <1>6 DEF Live
  <2>2. \A i \in Slots : mem[<<"data", i>>] = raw
    BY <1>1, SlotRight
  <2> QED BY <2>1, <2>2 DEF Elements
<1> QED BY <1>1, <1>5, <1>7, <1>8, <1>9 DEF Inv

\* The threads run while the ring lives; the processors drain their buffers
\* whenever they like.
LEMMA StepKeeps == Inv /\ [Next]_vars => Inv'
<1> SUFFICES ASSUME Inv, [Next]_vars PROVE Inv'
  OBVIOUS
<1>1. CASE alive /\ Producer
  BY <1>1, TestFullKeeps, ConstructKeeps, PublishKeeps DEF Producer
<1>2. CASE alive /\ Consumer
  BY <1>2, TestEmptyKeeps, ReturnFalseKeeps, MoveOutKeeps, DestroyKeeps, ReleaseKeeps DEF Consumer
<1>3. CASE \E t \in Threads : Drain(t)
  BY <1>3, DrainProducerKeeps, DrainConsumerKeeps DEF Threads
<1>4. CASE Destruct
  BY <1>4, DestructKeeps
<1>5. CASE UNCHANGED vars
  BY <1>5, StutterKeeps
<1> QED BY <1>1, <1>2, <1>3, <1>4, <1>5 DEF Next

\* The invariant says of every slot what is in it.
LEMMA InvSound == Inv => RingSound
<1> SUFFICES ASSUME Inv PROVE RingSound
  OBVIOUS
<1>1. TypeOK
  BY DEF Inv, Types, TypeOK
<1>2. SlotsSound
  <2> SUFFICES ASSUME NEW i \in Slots PROVE mem[<<"data", i>>] # broken
    BY DEF SlotsSound
  <2>1. CASE ~alive
    BY <2>1, Constants DEF Inv
  <2>2. CASE alive
    <3>1. Elements
      BY <2>2 DEF Inv
    <3>2. CASE \E k \in Live : Slot(k) = <<"data", i>>
      <4>1. PICK k \in Live : Slot(k) = <<"data", i>>
        BY <3>2
      <4>2. mem[<<"data", i>>] = k + 1
        BY <3>1, <4>1 DEF Elements
      <4>3. k \in Nat /\ k < PushedOut - mem[write_]
        BY LiveRight
      <4>4. k + 1 \in Values
        <5>1. PICK e \in Nat : e = PushedOut
          BY NumbersRight
        <5>2. PICK w \in Nat : w = mem[write_]
          BY NumbersRight
        <5>3. e <= w + w + 1 /\ w <= Items /\ k < e - w
          BY <4>3, <5>1, <5>2, ProducerCount DEF Inv, Types
        <5>4. e = w + w + 1 => w < Items
          BY <5>1, <5>2, RoomRight
        <5> QED BY <4>3, <5>3, <5>4, Constants DEF Values
      <4> QED BY <4>2, <4>4, Constants
    <3>3. CASE \A k \in Live : Slot(k) # <<"data", i>>
      BY <3>1, <3>3, Constants DEF Elements
    <3> QED BY <3>2, <3>3
  <2> QED BY <2>1, <2>2
<1>3. NothingLeaks
  BY DEF Inv, NothingLeaks
<1> QED BY <1>1, <1>2, <1>3 DEF RingSound

\* Whatever the capacity and the number of values, and however the stores of
\* the two processors are delayed: no element is constructed over another
\* (lockfree_spsc_queue.hpp:83), none is destroyed twice (116), and the
\* destructor destroys those that were not consumed (55-63).
THEOREM RingSoundHolds == Spec => []RingSound
<1>1. Spec => []Inv
  BY InitHolds, StepKeeps, PTL DEF Spec
<1> QED BY <1>1, InvSound, PTL
-----------------------------------------------------------------------------
(* The first-in first-out queue.                                           *)

\* Where the value that leaves next is, and the values a + 1 .. b in order.
First == done + (IF cpc \in {"destroy", "release"} THEN 1 ELSE 0)
Interval(a, b) == [k \in 1 .. b - a |-> a + k]

\* What a dequeue has found.
Taken == IF cpc \in {"destroy", "release"} THEN item ELSE IF cpc = "false" THEN empty ELSE none

LEMMA IntervalRight ==
    ASSUME NEW a \in Nat, NEW b \in Nat, a <= b
    PROVE  /\ Interval(a, b) \in Seq(Nat) /\ Len(Interval(a, b)) = b - a
           /\ \A k \in 1 .. b - a : Interval(a, b)[k] = a + k
<1>1. b - a \in Nat
  OBVIOUS
<1>2. Interval(a, b) \in [1 .. b - a -> Nat]
  BY <1>1 DEF Interval
<1>3. Interval(a, b) \in Seq(Nat)
  BY <1>1, <1>2, SeqDef
<1>4. DOMAIN Interval(a, b) = 1 .. b - a
  BY <1>2
<1>5. Len(Interval(a, b)) = b - a
  BY <1>1, <1>3, <1>4
<1> QED BY <1>3, <1>5 DEF Interval

\* A value more, and a value less.
LEMMA IntervalGrows ==
    ASSUME NEW a \in Nat, NEW b \in Nat, a <= b
    PROVE  Interval(a, b + 1) = Append(Interval(a, b), b + 1)
<1>1. PICK s : s = Interval(a, b)
  OBVIOUS
<1>2. PICK t : t = Interval(a, b + 1)
  OBVIOUS
<1>3. s \in Seq(Nat) /\ Len(s) = b - a /\ \A k \in 1 .. b - a : s[k] = a + k
  BY <1>1, IntervalRight
<1>4. t \in Seq(Nat) /\ Len(t) = b + 1 - a /\ \A k \in 1 .. b + 1 - a : t[k] = a + k
  <2>1. PICK n \in Nat : n = b + 1
    OBVIOUS
  <2>2. a <= n /\ t = Interval(a, n)
    BY <1>2, <2>1
  <2>3. t \in Seq(Nat) /\ Len(t) = n - a /\ \A k \in 1 .. n - a : t[k] = a + k
    BY <2>2, IntervalRight
  <2> QED BY <2>1, <2>3
<1>5. PICK u : u = Append(s, b + 1)
  OBVIOUS
<1>6. /\ u \in Seq(Nat) /\ Len(u) = Len(s) + 1 /\ \A i \in 1 .. Len(s) : u[i] = s[i]
      /\ u[Len(s) + 1] = b + 1
  <2>1. b + 1 \in Nat
    OBVIOUS
  <2> QED BY <1>3, <1>5, <2>1, AppendRight
<1>7. Len(t) = Len(u) /\ \A i \in 1 .. Len(t) : t[i] = u[i]
  <2>1. Len(t) = Len(u)
    BY <1>3, <1>4, <1>6
  <2>2. ASSUME NEW i \in 1 .. Len(t) PROVE t[i] = u[i]
    <3>1. CASE i = b + 1 - a
      BY <1>3, <1>4, <1>6, <3>1
    <3>2. CASE i # b + 1 - a
      <4>1. i \in 1 .. b - a
        BY <1>4, <2>2, <3>2
      <4> QED BY <1>3, <1>4, <1>6, <4>1
    <3> QED BY <3>1, <3>2
  <2> QED BY <2>1, <2>2
<1>8. t = u
  BY <1>4, <1>6, <1>7, SeqEqual
<1> QED BY <1>1, <1>2, <1>5, <1>8

LEMMA IntervalShrinks ==
    ASSUME NEW a \in Nat, NEW b \in Nat, a < b
    PROVE  /\ Interval(a, b) # <<>> /\ Head(Interval(a, b)) = a + 1
           /\ Interval(a + 1, b) = Tail(Interval(a, b))
<1>1. PICK s : s = Interval(a, b)
  OBVIOUS
<1>2. PICK t : t = Interval(a + 1, b)
  OBVIOUS
<1>3. s \in Seq(Nat) /\ Len(s) = b - a /\ \A k \in 1 .. b - a : s[k] = a + k
  <2>1. a <= b
    OBVIOUS
  <2> QED BY <1>1, <2>1, IntervalRight
<1>4. t \in Seq(Nat) /\ Len(t) = b - (a + 1) /\ \A k \in 1 .. b - (a + 1) : t[k] = a + 1 + k
  <2>1. PICK n \in Nat : n = a + 1
    OBVIOUS
  <2>2. n <= b /\ t = Interval(n, b)
    BY <1>2, <2>1
  <2>3. t \in Seq(Nat) /\ Len(t) = b - n /\ \A k \in 1 .. b - n : t[k] = n + k
    BY <2>2, IntervalRight
  <2> QED BY <2>1, <2>3
<1>5. s # <<>>
  <2>1. Len(s) # 0
    BY <1>3
  <2> QED BY <2>1
<1>6. PICK u : u = Tail(s)
  OBVIOUS
<1>7. /\ Head(s) = s[1] /\ u \in Seq(Nat) /\ Len(u) = Len(s) - 1
      /\ \A i \in 1 .. Len(s) - 1 : u[i] = s[i + 1]
  BY <1>3, <1>5, <1>6, TailRight
<1>8. Len(t) = Len(u) /\ \A i \in 1 .. Len(t) : t[i] = u[i]
  <2>1. Len(t) = Len(u)
    BY <1>3, <1>4, <1>7
  <2>2. ASSUME NEW i \in 1 .. Len(t) PROVE t[i] = u[i]
    <3>1. i \in 1 .. Len(s) - 1 /\ i + 1 \in 1 .. b - a /\ i \in 1 .. b - (a + 1)
      BY <1>3, <1>4, <2>2
    <3> QED BY <1>3, <1>4, <1>7, <3>1
  <2> QED BY <2>1, <2>2
<1>9. t = u
  BY <1>4, <1>7, <1>8, SeqEqual
<1>10. s[1] = a + 1
  BY <1>3
<1> QED BY <1>1, <1>2, <1>5, <1>6, <1>7, <1>9, <1>10

LEMMA IntervalEmpty == \A a \in Nat : Interval(a, a) = <<>>
<1> SUFFICES ASSUME NEW a \in Nat PROVE Interval(a, a) = <<>>
  OBVIOUS
<1>1. Interval(a, a) \in Seq(Nat) /\ Len(Interval(a, a)) = 0
  BY IntervalRight
<1> QED BY <1>1, EmptySeq

\* The queue holds the values between the two positions, in order.
LEMMA QueueRight ==
    Inv /\ alive => /\ Queue = Interval(First, mem[write_])
                    /\ First \in Nat /\ First <= mem[write_] /\ mem[write_] \in Nat
<1> SUFFICES ASSUME Inv, alive
             PROVE  /\ Queue = Interval(First, mem[write_])
                    /\ First \in Nat /\ First <= mem[write_] /\ mem[write_] \in Nat
  OBVIOUS
<1>1. Queue = [k \in 1 .. mem[write_] - First |-> mem[Slot(First + k - 1)]]
  BY LoadRead DEF Queue, First
<1>2. PICK w \in Nat : w = mem[write_]
  BY NumbersRight
<1>3. PICK f \in Nat : f = First
  BY NumbersRight DEF First
<1>4. PICK r \in Nat : r = mem[read_]
  BY NumbersRight
<1>5. f <= w
  <2>1. done <= w /\ (cpc \in {"destroy", "release"} => done < w) /\ done \in Nat
    BY <1>2, NumbersRight DEF Inv, Positions
  <2> QED BY <1>3, <2>1 DEF First
<1>6. PoppedOut - r <= f
  <2>1. PICK e \in Nat : e = PoppedOut
    BY NumbersRight
  <2>2. PICK d \in Nat : d = done
    BY NumbersRight
  <2>3. r <= d /\ e <= r + r + 1 /\ e <= Popped /\ Len(buffer["consumer"]) \in Nat
    <3>1. e + Len(buffer["consumer"]) = Popped /\ Len(buffer["consumer"]) \in Nat /\ Popped \in Nat
      BY <2>1, ConsumerCount, NumbersRight
    <3>2. r <= d /\ e <= r + r + 1
      BY <1>4, <2>1, <2>2, ConsumerCount
    <3> QED BY <3>1, <3>2
  <2>4. CASE cpc = "release"
    <3>1. f = d + 1
      BY <1>3, <2>2, <2>4 DEF First
    <3> QED BY <2>1, <2>3, <3>1
  <2>5. CASE cpc # "release"
    <3>1. e <= d + d
      BY <2>2, <2>3, <2>5, ConsumerCount
    <3>2. d <= f
      BY <1>3, <2>2 DEF First
    <3>3. e - r <= d
      BY <2>3, <3>1
    <3> QED BY <2>1, <3>2, <3>3
  <2> QED BY <2>4, <2>5
<1>7. ASSUME NEW k \in 1 .. w - f PROVE mem[Slot(f + k - 1)] = f + k
  <2>1. PICK n \in Nat : n = f + k - 1
    BY <1>7
  <2>2. f <= n /\ n < w /\ n + 1 = f + k
    BY <1>5, <1>7, <2>1
  <2>3. PoppedOut - r <= n /\ n < PushedOut - w
    <3>1. PICK e \in Nat : e = PushedOut
      BY NumbersRight
    <3>2. w + w <= e
      BY <1>2, <3>1, ProducerCount
    <3>3. PICK g \in Nat : g = PoppedOut
      BY NumbersRight
    <3>4. g - r <= f
      BY <1>6, <3>3
    <3>5. g - r <= n /\ n < e - w
      BY <2>2, <3>2, <3>4
    <3> QED BY <3>1, <3>3, <3>5
  <2>4. n \in Live
    BY <1>2, <1>4, <2>3, LiveRight
  <2>5. mem[Slot(n)] = n + 1
    BY <2>4 DEF Inv, Elements
  <2> QED BY <2>1, <2>2, <2>5
<1>8. Queue = Interval(f, w)
  <2>1. Queue = [k \in 1 .. w - f |-> mem[Slot(f + k - 1)]]
    BY <1>1, <1>2, <1>3
  <2> QED BY <1>7, <2>1 DEF Interval
<1> QED BY <1>2, <1>3, <1>5, <1>8

LEMMA QueueNext ==
    Inv' /\ alive' => /\ Queue' = Interval(First', mem'[write_])
                      /\ First' \in Nat /\ First' <= mem'[write_] /\ mem'[write_] \in Nat
<1>1. (Inv /\ alive => /\ Queue = Interval(First, mem[write_])
                       /\ First \in Nat /\ First <= mem[write_] /\ mem[write_] \in Nat)'
  BY QueueRight, PTL
<1> QED BY <1>1 DEF Interval

LEMMA FifoInit == Init => Fifo!Init
<1> SUFFICES ASSUME Init PROVE Fifo!Init
  OBVIOUS
<1>1. cpc = "idle" /\ done = 0 /\ out = none /\ alive
  BY DEF Init
<1>2. Inv
  BY InitHolds
<1>3. mem[write_] = 0 /\ First = 0
  BY <1>1, SlotRight DEF Init, First
<1>4. Queue = <<>>
  BY <1>1, <1>2, <1>3, QueueRight, IntervalEmpty
<1> QED BY <1>1, <1>4 DEF Fifo!Init

\* A step that moves neither position, finds nothing and returns nothing.
LEMMA Stutters ==
    ASSUME Inv, Inv', alive, alive', mem'[write_] = mem[write_], First' = First,
           Taken' = Taken, out' = out
    PROVE  UNCHANGED Fifo!vars
<1>1. Queue' = Queue
  BY QueueRight, QueueNext
<1> QED BY <1>1 DEF Fifo!vars, Taken

\* One value enters when a store to write_ reaches memory.
LEMMA Enqueues ==
    ASSUME Inv, Inv', alive, alive', mem'[write_] = mem[write_] + 1, First' = First,
           Taken' = Taken, out' = out
    PROVE  Fifo!Next
<1>1. PICK w \in Nat : w = mem[write_]
  BY NumbersRight
<1>2. PICK f \in Nat : f = First
  BY QueueRight
<1>3. Queue = Interval(f, w) /\ f <= w
  BY <1>1, <1>2, QueueRight
<1>4. Queue' = Interval(f, w + 1)
  BY <1>1, <1>2, QueueNext
<1>5. Queue' = Append(Queue, w + 1)
  BY <1>3, <1>4, IntervalGrows
<1>6. w + 1 \in Values
  <2>1. mem'[write_] <= Items
    BY Constants DEF Inv, Types
  <2> QED BY <1>1, <2>1, Constants DEF Values
<1>7. Fifo!Enqueue(w + 1)
  BY <1>5 DEF Fifo!Enqueue, Taken
<1> QED BY <1>6, <1>7 DEF Fifo!Next

\* One value leaves when dequeue moves it out.
LEMMA Takes ==
    ASSUME Inv, Inv', alive, alive', mem'[write_] = mem[write_], First' = First + 1,
           Taken = none, Taken' = First + 1, out' = out
    PROVE  Fifo!Next
<1>1. PICK w \in Nat : w = mem[write_]
  BY NumbersRight
<1>2. PICK f \in Nat : f = First
  BY QueueRight
<1>3. Queue = Interval(f, w)
  BY <1>1, <1>2, QueueRight
<1>4. Queue' = Interval(f + 1, w) /\ f + 1 <= w
  BY <1>1, <1>2, QueueNext
<1>5. Queue # <<>> /\ Head(Queue) = f + 1 /\ Queue' = Tail(Queue)
  <2>1. f < w
    BY <1>4
  <2> QED BY <1>3, <1>4, <2>1, IntervalShrinks
<1>6. Fifo!Take("consumer")
  BY <1>2, <1>5 DEF Fifo!Take, Taken
<1> QED BY <1>6 DEF Fifo!Next

\* A dequeue that will return false finds the queue empty.
LEMMA FindsEmpty ==
    ASSUME Inv, Inv', alive, alive', mem'[write_] = mem[write_], First' = First, First = mem[write_],
           Taken = none, Taken' = empty, out' = out
    PROVE  Fifo!Next
<1>1. Queue = <<>>
  BY QueueRight, IntervalEmpty
<1>2. Queue' = <<>>
  BY QueueRight, QueueNext, IntervalEmpty
<1>3. Fifo!FindEmpty("consumer")
  BY <1>1, <1>2 DEF Fifo!FindEmpty, Taken
<1> QED BY <1>3 DEF Fifo!Next

\* What a dequeue returns is what it found.
LEMMA Returns ==
    ASSUME Inv, Inv', alive, alive', mem'[write_] = mem[write_], First' = First,
           Taken # none, Taken' = none, out' = Taken
    PROVE  Fifo!Next
<1>1. Queue' = Queue
  BY QueueRight, QueueNext
<1>2. Fifo!Return("consumer")
  BY <1>1 DEF Fifo!Return, Taken
<1> QED BY <1>2 DEF Fifo!Next

\* A store of the producer that reaches memory constructs or publishes.
LEMMA FifoDrainsProducer ==
    ASSUME Inv, Inv', alive, alive', Drain("producer")
    PROVE  [Fifo!Next]_(Fifo!vars)
<1>1. UNCHANGED <<cpc, item, out, done>>
  BY DrainOfProducer
<1>2. First' = First /\ Taken' = Taken /\ out' = out
  BY <1>1 DEF First, Taken
<1>3. PICK w \in Nat : w = mem[write_]
  BY NumbersRight
<1>4. PICK e \in Nat : e = PushedOut
  BY NumbersRight
<1>5. mem \in [Locs -> Values \cup {raw, broken, 0}]
  BY DEF Inv, Types
<1>6. CASE e = w + w
  <2>1. mem' = [mem EXCEPT ![Slot(w)] = Overwrite(Slot(w), w + 1)]
    BY <1>3, <1>4, <1>6, DrainOfProducer
  <2>2. mem'[write_] = mem[write_]
    BY <1>5, <2>1, SlotRight
  <2> QED BY <1>2, <2>2, Stutters
<1>7. CASE e = w + w + 1
  <2>1. mem' = [mem EXCEPT ![write_] = Overwrite(write_, w + 1)]
    BY <1>3, <1>4, <1>7, DrainOfProducer
  <2>2. mem'[write_] = mem[write_] + 1
    BY <1>3, <1>5, <2>1, SlotRight DEF Overwrite
  <2> QED BY <1>2, <2>2, Enqueues
<1>8. e = w + w \/ e = w + w + 1
  <2>1. w + w <= e /\ e <= w + w + 1
    BY <1>3, <1>4, ProducerCount
  <2> QED BY <2>1
<1> QED BY <1>6, <1>7, <1>8

\* No store of the consumer moves the end of the queue.
LEMMA FifoDrainsConsumer ==
    ASSUME Inv, Inv', alive, alive', Drain("consumer")
    PROVE  [Fifo!Next]_(Fifo!vars)
<1>1. UNCHANGED <<cpc, item, out, done>>
  BY DrainOfConsumer
<1>2. First' = First /\ Taken' = Taken /\ out' = out
  BY <1>1 DEF First, Taken
<1>3. PICK r \in Nat : r = mem[read_]
  BY NumbersRight
<1>4. PICK e \in Nat : e = PoppedOut
  BY NumbersRight
<1>5. mem \in [Locs -> Values \cup {raw, broken, 0}]
  BY DEF Inv, Types
<1>6. e = r + r \/ e = r + r + 1
  <2>1. r + r <= e /\ e <= r + r + 1
    BY <1>3, <1>4, ConsumerCount
  <2> QED BY <2>1
<1>7. mem'[write_] = mem[write_]
  <2>1. CASE e = r + r
    <3>1. mem' = [mem EXCEPT ![Slot(r)] = Overwrite(Slot(r), raw)]
      BY <1>3, <1>4, <2>1, DrainOfConsumer
    <3> QED BY <1>5, <3>1, SlotRight
  <2>2. CASE e = r + r + 1
    <3>1. mem' = [mem EXCEPT ![read_] = Overwrite(read_, r + 1)]
      BY <1>3, <1>4, <2>2, DrainOfConsumer
    <3> QED BY <1>5, <3>1, SlotRight
  <2> QED BY <1>6, <2>1, <2>2
<1> QED BY <1>2, <1>7, Stutters

\* A step of the ring that leaves it alive is a step of the queue, or none.
LEMMA FifoStep ==
    ASSUME Inv, Inv', [Next]_vars, alive'
    PROVE  [Fifo!Next]_(Fifo!vars)
<1>1. CASE alive /\ Producer
  <2>1. mem' = mem /\ UNCHANGED <<cpc, item, out, done>>
    BY <1>1 DEF Producer, TestFull, Construct, Publish, consumerVars
  <2> QED BY <1>1, <2>1, Stutters DEF First, Taken
<1>2. CASE alive /\ TestEmpty
  <2>1. cpc = "idle" /\ cpc' \in {"false", "move"} /\ UNCHANGED <<mem, item, out, done, alive>>
    BY <1>2 DEF TestEmpty, producerVars
  <2>2. First' = First /\ Taken = none /\ First = done
    BY <2>1, NumbersRight DEF First, Taken
  <2>3. CASE cpc' = "move"
    BY <1>2, <2>1, <2>2, <2>3, Stutters DEF Taken
  <2>4. CASE cpc' = "false"
    <3>1. done = mem[write_]
      BY <1>2, <2>4, LoadRead, LoadOthers DEF TestEmpty
    <3> QED BY <1>2, <2>1, <2>2, <2>4, <3>1, FindsEmpty DEF Taken
  <2> QED BY <2>1, <2>3, <2>4
<1>3. CASE alive /\ ReturnFalse
  <2>1. cpc = "false" /\ cpc' = "idle" /\ out' = empty /\ UNCHANGED <<mem, item, done, alive>>
    BY <1>3 DEF ReturnFalse, producerVars
  <2>2. First' = First /\ Taken = empty /\ Taken' = none
    BY <2>1 DEF First, Taken
  <2> QED BY <1>3, <2>1, <2>2, Returns, Constants
<1>4. CASE alive /\ MoveOut
  <2>1. /\ cpc = "move" /\ cpc' = "destroy" /\ item' = done + 1 /\ UNCHANGED <<mem, out, done, alive>>
    BY <1>4, LoadRead, LoadSlot DEF MoveOut, producerVars
  <2>2. First' = First + 1 /\ Taken = none /\ Taken' = First + 1
    BY <2>1, NumbersRight DEF First, Taken
  <2> QED BY <1>4, <2>1, <2>2, Takes
<1>5. CASE alive /\ Destroy
  <2>1. cpc = "destroy" /\ cpc' = "release" /\ UNCHANGED <<mem, item, out, done, alive>>
    BY <1>5 DEF Destroy, producerVars
  <2>2. First' = First /\ Taken' = Taken
    BY <2>1 DEF First, Taken
  <2> QED BY <1>5, <2>1, <2>2, Stutters
<1>6. CASE alive /\ Release
  <2>1. cpc = "release" /\ cpc' = "idle" /\ out' = item /\ done' = done + 1 /\ UNCHANGED <<mem, item, alive>>
    BY <1>6 DEF Release, producerVars
  <2>2. First' = First /\ Taken = item /\ Taken' = none
    BY <2>1, NumbersRight DEF First, Taken
  <2>3. item # none
    <3>1. item = done + 1 /\ done < mem[write_] /\ mem[write_] <= Items
      BY <2>1, Constants DEF Inv, Positions, Types
    <3>2. item \in Values
      BY <3>1, NumbersRight, Constants DEF Values
    <3> QED BY <3>2, Constants
  <2> QED BY <1>6, <2>1, <2>2, <2>3, Returns
<1>7. CASE \E t \in Threads : Drain(t)
  <2>1. alive
    BY <1>7, DrainOfProducer, DrainOfConsumer DEF Threads
  <2> QED BY <1>7, <2>1, FifoDrainsProducer, FifoDrainsConsumer DEF Threads
<1>8. CASE Destruct
  BY <1>8, DestructKeeps
<1>9. CASE UNCHANGED vars
  <2>1. UNCHANGED <<mem, cpc, item, out, done, alive>>
    BY <1>9 DEF vars
  <2>2. alive /\ mem'[write_] = mem[write_] /\ First' = First /\ Taken' = Taken
    BY <2>1 DEF First, Taken
  <2> QED BY <2>1, <2>2, Stutters
<1> QED BY <1>1, <1>2, <1>3, <1>4, <1>5, <1>6, <1>7, <1>8, <1>9 DEF Next, Consumer

\* The ring is a first-in first-out queue as long as it lives: a value enters
\* when its write_ reaches memory and leaves when dequeue moves it out, and
\* what a dequeue returns is the value at the head, or false when there was
\* none (lockfree_spsc_queue.hpp:69-120).
THEOREM FifoRefinedHolds == Spec => FifoRefined
<1>1. Spec => []Inv
  BY InitHolds, StepKeeps, PTL DEF Spec
<1>2. Inv /\ Inv' /\ [Next]_vars => [alive' => Fifo!Next]_(Fifo!vars)
  BY FifoStep
<1> QED BY <1>1, <1>2, FifoInit, PTL DEF Spec, FifoRefined
=============================================================================
