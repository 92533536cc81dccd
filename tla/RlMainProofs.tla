---------------------------- MODULE RlMainProofs ----------------------------
(***************************************************************************)
(* What is proved of an RL job: a replay memory samples what was put into  *)
(* it, for every capacity, number of agents and number of transitions      *)
(* (ReplayMemory), the replies of rollout workers fit what was asked, for   *)
(* every parallelism (BatchEnvSampler), the experiences of a sampling are   *)
(* what was played, for every setup (EnvSampler), and what is learnt from   *)
(* them and resumed from a checkpoint is of the networks it should be of    *)
(* (RlWorkflow).                                                            *)
(***************************************************************************)
EXTENDS RlMain, FiniteSetTheorems, SequenceTheorems, TLAPS

----------------------------------------------------------------------------
(***************************************************************************)
(* The inductive invariant.  The properties speak of what a sample returns;  *)
(* a put preserves them only because of where the pointers stand, which the  *)
(* parts for each kind of scheduler relate to the age of what is stored.     *)
(***************************************************************************)

\* The arrays of all agents hold the same.
SharedInv ==
  /\ kind \in {"cyclic", "priority", "overwrite", "fifo"}
  /\ "shared" \in DOMAIN slots
  /\ \A a \in DOMAIN slots : slots[a] = slots["shared"]
  /\ slots["shared"] \in [Indexes -> Nat]
  /\ items \in Nat

\* size counts what there is, and all of it has a weight.
RandomInv ==
  kind # "fifo" =>
    /\ ptr \in 0 .. Capacity
    /\ size = Lesser(items, Capacity)
    /\ kind = "priority" => weighted = 0 .. size - 1

\* From ptr backwards the array holds the newest transitions.
CyclicInv ==
  kind \in {"cyclic", "priority"} =>
    /\ size < Capacity => ptr = size
    /\ \A i \in 0 .. size - 1 :
         slots["shared"][i] = IF i < ptr THEN items - ptr + 1 + i ELSE items - ptr + 1 + i - Capacity

\* The pointer stops at the end of the array; random overwriting keeps what is
\* stored different and the newest of it.
OverwriteInv ==
  kind = "overwrite" =>
    /\ ptr = size
    /\ \A i \in 0 .. size - 1 : slots["shared"][i] \in 1 .. items
    /\ \A i, j \in 0 .. size - 1 : slots["shared"][i] = slots["shared"][j] => i = j
    /\ items > 0 => \E i \in 0 .. size - 1 : slots["shared"][i] = items

\* A position past the end of the array is one from its beginning.
Around(x) == IF x < Capacity THEN x ELSE x - Capacity
\* How many transitions a FIFO sample is to return.
New == Lesser(items - handedOut, Capacity)

\* The new transitions stand between head and tail, oldest first, as long as
\* no put has found the memory full.
FifoInv ==
  kind = "fifo" =>
    /\ head \in Indexes /\ tail \in Indexes
    /\ handedOut \in 0 .. items
    /\ putWhenFull \in BOOLEAN
    /\ ~ putWhenFull =>
         /\ tail = Around(head + New)
         /\ \A k \in 1 .. New : slots["shared"][Around(head + k - 1)] = items - New + k

MemoryInv == SharedInv /\ RandomInv /\ CyclicInv /\ OverwriteInv /\ FifoInv

\* The workflow and the rollout keep no memory of their own.
MemoryIsAbsent == kind = "none" /\ items = 0 /\ size = 0

----------------------------------------------------------------------------
\* Around the end of the array at most once, a position taken modulo the
\* capacity is one subtraction.
LEMMA AroundTheEnd ==
  ASSUME NEW x \in Nat, x < 2 * Capacity
  PROVE  x % Capacity = IF x < Capacity THEN x ELSE x - Capacity
BY CapacityAssumption, SMT

\* A batch of at most the capacity wraps around once.
LEMMA AroundIsIndex ==
  ASSUME NEW i \in Indexes, NEW k \in 1 .. Capacity
  PROVE  Around(i + k - 1) \in Indexes
BY CapacityAssumption DEF Around, Indexes

----------------------------------------------------------------------------
\* A put at different indexes: each gets its transition, the others keep
\* theirs, in every array.
LEMMA PutInEveryArray ==
  ASSUME SharedInv, NEW n \in Nat,
         NEW indexes \in [1 .. n -> Indexes],
         \A k, l \in 1 .. n : indexes[k] = indexes[l] => k = l,
         slots' = Stored(indexes, n), items' = items + n, kind' = kind
  PROVE  /\ SharedInv'
         /\ \A k \in 1 .. n : slots'["shared"][indexes[k]] = items + k
         /\ \A i \in Indexes : (\A k \in 1 .. n : indexes[k] # i) => slots'["shared"][i] = slots["shared"][i]
<1> DEFINE array == slots["shared"]
           stored == put_by_indexes(array, indexes, n)
<1>1. DOMAIN slots' = DOMAIN slots /\ \A a \in DOMAIN slots : slots'[a] = stored
  BY DEF Stored, SharedInv
<1>2. \A i \in Indexes : stored[i] = IF \E k \in 1 .. n : indexes[k] = i
                                    THEN items + (CHOOSE k \in 1 .. n : indexes[k] = i)
                                    ELSE array[i]
  BY DEF put_by_indexes
<1>3. array \in [Indexes -> Nat] /\ items \in Nat BY DEF SharedInv
<1>4. ASSUME NEW k \in 1 .. n PROVE stored[indexes[k]] = items + k
 <2> DEFINE c == CHOOSE l \in 1 .. n : indexes[l] = indexes[k]
 <2>1. c \in 1 .. n /\ indexes[c] = indexes[k] OBVIOUS
 <2>2. c = k BY <2>1
 <2>3. indexes[k] \in Indexes OBVIOUS
 <2> QED BY <1>2, <2>2, <2>3
<1>5. \A i \in Indexes : (\A k \in 1 .. n : indexes[k] # i) => stored[i] = array[i] BY <1>2
<1>6. ASSUME NEW i \in Indexes PROVE stored[i] \in Nat
 <2> HIDE DEF stored, array
 <2>1. CASE \E k \in 1 .. n : indexes[k] = i BY <1>3, <1>4, <2>1
 <2>2. CASE \A k \in 1 .. n : indexes[k] # i BY <1>3, <1>5, <2>2
 <2> QED BY <2>1, <2>2
<1>7. stored = [i \in Indexes |-> stored[i]] BY DEF put_by_indexes
<1>8. slots'["shared"] = stored BY <1>1 DEF SharedInv
<1> HIDE DEF stored
<1>9. SharedInv'
 <2>1. stored \in [Indexes -> Nat] BY <1>6, <1>7
 <2> QED BY <1>1, <1>8, <2>1 DEF SharedInv, Indexes
<1> QED BY <1>4, <1>5, <1>8, <1>9

----------------------------------------------------------------------------
\* A put without random overwriting.
LEMMA PutCyclicKeeps ==
  ASSUME MemoryInv, NEW n \in 1 .. Capacity, PutCyclic(n), items' = items + n, kind' = kind
  PROVE  MemoryInv'
<1> DEFINE positions == CyclicIndexes(n)
<1>1. /\ Capacity \in Nat \ {0} /\ n \in Nat /\ n <= Capacity /\ n > 0
      /\ ptr \in Nat /\ ptr <= Capacity /\ items \in Nat /\ size = Lesser(items, Capacity)
      /\ kind \in {"cyclic", "priority"}
  BY CapacityAssumption DEF MemoryInv, SharedInv, RandomInv, PutCyclic
<1>2. \A k \in 1 .. n : positions[k] = Around(ptr + k - 1)
 <2> SUFFICES ASSUME NEW k \in 1 .. n PROVE (ptr + k - 1) % Capacity = Around(ptr + k - 1)
   BY DEF CyclicIndexes
 <2>1. ptr + k - 1 \in Nat /\ ptr + k - 1 < 2 * Capacity BY <1>1
 <2> QED BY <2>1, AroundTheEnd DEF Around
<1>3. positions \in [1 .. n -> Indexes]
 <2>1. \A k \in 1 .. n : Around(ptr + k - 1) \in Indexes BY <1>1 DEF Around, Indexes
 <2>2. positions = [k \in 1 .. n |-> positions[k]] BY DEF CyclicIndexes
 <2> QED BY <1>2, <2>1, <2>2
<1>4. \A k, l \in 1 .. n : positions[k] = positions[l] => k = l BY <1>1, <1>2 DEF Around
<1> HIDE DEF positions
<1>5. /\ SharedInv'
      /\ \A k \in 1 .. n : slots'["shared"][positions[k]] = items + k
      /\ \A i \in Indexes : (\A k \in 1 .. n : positions[k] # i) => slots'["shared"][i] = slots["shared"][i]
 <2>1. slots' = Stored(positions, n) BY DEF PutCyclic, positions
 <2> QED BY <1>1, <1>3, <1>4, <2>1, PutInEveryArray DEF MemoryInv
<1>6. /\ ptr' = NextPtr(n) /\ size' = Lesser(size + n, Capacity) /\ kind' = kind
      /\ weighted' = IF kind = "priority" THEN weighted \cup Range(positions) ELSE weighted
  BY DEF PutCyclic, positions
<1>7. size' = Lesser(items', Capacity) /\ ptr' \in 0 .. Capacity
  BY <1>1, <1>6 DEF Lesser, NextPtr
<1>8. \A i \in 0 .. size' - 1 : (\E k \in 1 .. n : positions[k] = i) \/ i \in 0 .. size - 1
 <2> SUFFICES ASSUME NEW i \in 0 .. size' - 1, i \notin 0 .. size - 1
              PROVE  \E k \in 1 .. n : positions[k] = i
   OBVIOUS
 <2>1. size = ptr /\ size < Capacity BY <1>1, <1>6 DEF MemoryInv, CyclicInv, Lesser
 <2>2. i - ptr + 1 \in 1 .. n /\ Around(ptr + (i - ptr + 1) - 1) = i
   BY <1>1, <1>6, <2>1 DEF Lesser, Around
 <2> QED BY <1>2, <2>2
<1>9. RandomInv'
 <2>1. ASSUME kind = "priority" PROVE weighted' = 0 .. size' - 1
  <3>1. weighted = 0 .. size - 1 BY <2>1 DEF MemoryInv, RandomInv
  <3>2. weighted' = (0 .. size - 1) \cup {positions[k] : k \in 1 .. n}
    BY <1>3, <1>6, <2>1, <3>1 DEF Range
  <3>3. 0 .. size - 1 \subseteq 0 .. size' - 1 BY <1>1, <1>6 DEF Lesser
  <3>4. ASSUME NEW k \in 1 .. n PROVE positions[k] \in 0 .. size' - 1
   <4>1. CASE size = Capacity BY <1>1, <1>3, <1>6, <4>1 DEF Lesser, Indexes
   <4>2. CASE size < Capacity
    <5>1. ptr = size BY <1>1, <4>2 DEF MemoryInv, CyclicInv
    <5> QED BY <1>1, <1>2, <1>6, <5>1, <4>2 DEF Lesser, Around
   <4> QED BY <1>1, <4>1, <4>2 DEF Lesser
  <3>5. \A i \in 0 .. size' - 1 : i \in (0 .. size - 1) \cup {positions[k] : k \in 1 .. n}
    BY <1>8
  <3> QED BY <3>2, <3>3, <3>4, <3>5
 <2> QED BY <1>1, <1>7, <2>1, <1>6 DEF RandomInv
<1>10. CyclicInv'
 <2>1. size' < Capacity => ptr' = size'
   BY <1>1, <1>6 DEF MemoryInv, CyclicInv, Lesser, NextPtr
 <2>2. ASSUME NEW i \in 0 .. size' - 1
       PROVE  slots'["shared"][i] = IF i < ptr' THEN items' - ptr' + 1 + i
                                    ELSE items' - ptr' + 1 + i - Capacity
  <3>1. CASE \E k \in 1 .. n : positions[k] = i
   <4>1. PICK k \in 1 .. n : positions[k] = i BY <3>1
   <4>2. slots'["shared"][i] = items + k /\ i = Around(ptr + k - 1) BY <4>1, <1>2, <1>5
   <4> QED BY <1>1, <1>6, <4>2 DEF Around, NextPtr
  <3>2. CASE \A k \in 1 .. n : positions[k] # i
   <4>1. i \in 0 .. size - 1 BY <1>8, <3>2
   <4>2. i \in Indexes BY <1>1, <4>1 DEF Lesser, Indexes
   <4>3. slots'["shared"][i] = slots["shared"][i] BY <1>5, <3>2, <4>2
   <4>4. slots["shared"][i] = IF i < ptr THEN items - ptr + 1 + i ELSE items - ptr + 1 + i - Capacity
     BY <1>1, <4>1 DEF MemoryInv, CyclicInv
   <4>5. ~ (ptr <= i /\ i < ptr + n) /\ ~ (ptr <= i + Capacity /\ i + Capacity < ptr + n)
    <5>1. ASSUME ptr <= i, i < ptr + n PROVE FALSE
     <6>1. i - ptr + 1 \in 1 .. n /\ Around(ptr + (i - ptr + 1) - 1) = i
       BY <1>1, <4>2, <5>1 DEF Around, Indexes
     <6> QED BY <1>2, <3>2, <6>1
    <5>2. ASSUME ptr <= i + Capacity, i + Capacity < ptr + n PROVE FALSE
     <6>1. i + Capacity - ptr + 1 \in 1 .. n /\ Around(ptr + (i + Capacity - ptr + 1) - 1) = i
       BY <1>1, <4>2, <5>2 DEF Around, Indexes
     <6> QED BY <1>2, <3>2, <6>1
    <5> QED BY <5>1, <5>2
   <4> QED BY <1>1, <1>6, <4>2, <4>3, <4>4, <4>5 DEF NextPtr, Indexes
  <3> QED BY <3>1, <3>2
 <2> QED BY <1>1, <2>1, <2>2 DEF CyclicInv
<1>11. OverwriteInv' /\ FifoInv' BY <1>1, <1>6 DEF OverwriteInv, FifoInv
<1> QED BY <1>5, <1>9, <1>10, <1>11 DEF MemoryInv
----------------------------------------------------------------------------
\* A put with random overwriting.
LEMMA PutOverwritingKeeps ==
  ASSUME MemoryInv, NEW n \in 1 .. Capacity, PutOverwriting(n), items' = items + n, kind' = kind
  PROVE  MemoryInv'
<1>1. /\ Capacity \in Nat \ {0} /\ n \in Nat /\ n <= Capacity /\ n > 0
      /\ ptr \in Nat /\ ptr <= Capacity /\ items \in Nat
      /\ size = Lesser(items, Capacity) /\ ptr = size
      /\ kind = "overwrite"
  BY CapacityAssumption DEF MemoryInv, SharedInv, RandomInv, OverwriteInv, PutOverwriting
<1>2. PICK f \in OverwriteIndexes(n) : slots' = Stored(f, n) BY DEF PutOverwriting
<1>3. /\ f \in [1 .. n -> Indexes]
      /\ \A k, l \in 1 .. n : f[k] = f[l] => k = l
      /\ \A k \in 1 .. n : IF ptr + k <= Capacity THEN f[k] = ptr + k - 1 ELSE f[k] < ptr
  BY DEF OverwriteIndexes, IsInjective
<1>4. /\ SharedInv'
      /\ \A k \in 1 .. n : slots'["shared"][f[k]] = items + k
      /\ \A i \in Indexes : (\A k \in 1 .. n : f[k] # i) => slots'["shared"][i] = slots["shared"][i]
  BY <1>1, <1>2, <1>3, PutInEveryArray DEF MemoryInv
<1>5. ptr' = size' /\ size' = Lesser(items', Capacity) /\ ptr' \in 0 .. Capacity
      /\ size' = Lesser(size + n, Capacity)
  BY <1>1 DEF PutOverwriting, Lesser
<1>6. ASSUME NEW i \in 0 .. size' - 1
      PROVE  \/ \E k \in 1 .. n : f[k] = i /\ slots'["shared"][i] = items + k
             \/ /\ i \in 0 .. size - 1
                /\ slots'["shared"][i] = slots["shared"][i]
                /\ slots["shared"][i] \in 1 .. items
 <2>1. CASE \E k \in 1 .. n : f[k] = i BY <1>4, <2>1
 <2>2. CASE \A k \in 1 .. n : f[k] # i
  <3>1. i \in 0 .. size - 1
   <4> SUFFICES ASSUME i >= size PROVE FALSE
     BY <1>1, <1>5 DEF Lesser
   <4> DEFINE k == i - ptr + 1
   <4>1. k \in 1 .. n /\ ptr + k <= Capacity /\ ptr + k - 1 = i BY <1>1, <1>5 DEF Lesser
   <4> HIDE DEF k
   <4> QED BY <1>3, <2>2, <4>1
  <3>2. i \in Indexes BY <1>1, <3>1 DEF Lesser, Indexes
  <3> QED BY <1>1, <1>4, <2>2, <3>1, <3>2 DEF MemoryInv, OverwriteInv
 <2> QED BY <2>1, <2>2
<1>7. OverwriteInv'
 <2>1. \A i \in 0 .. size' - 1 : slots'["shared"][i] \in 1 .. items' BY <1>1, <1>6
 <2>2. ASSUME NEW i \in 0 .. size' - 1, NEW j \in 0 .. size' - 1,
              slots'["shared"][i] = slots'["shared"][j]
       PROVE  i = j
  <3>1. CASE \E k \in 1 .. n : f[k] = i /\ slots'["shared"][i] = items + k
   <4>1. PICK k \in 1 .. n : f[k] = i /\ slots'["shared"][i] = items + k BY <3>1
   <4>2. ASSUME slots'["shared"][j] \in 1 .. items PROVE FALSE BY <1>1, <2>2, <4>1, <4>2
   <4>3. PICK l \in 1 .. n : f[l] = j /\ slots'["shared"][j] = items + l BY <1>6, <4>2
   <4>4. k = l
    <5>1. items + k = items + l BY <2>2, <4>1, <4>3
    <5> QED BY <1>1, <5>1
   <4> QED BY <4>1, <4>3, <4>4
  <3>2. CASE /\ i \in 0 .. size - 1
             /\ slots'["shared"][i] = slots["shared"][i]
             /\ slots["shared"][i] \in 1 .. items
   <4>1. /\ j \in 0 .. size - 1
         /\ slots'["shared"][j] = slots["shared"][j]
    <5>1. \A k \in 1 .. n : slots'["shared"][j] # items + k BY <1>1, <2>2, <3>2
    <5> QED BY <1>6, <5>1
   <4> QED BY <1>1, <2>2, <3>2, <4>1 DEF MemoryInv, OverwriteInv
  <3> QED BY <1>6, <3>1, <3>2
 <2>3. \E i \in 0 .. size' - 1 : slots'["shared"][i] = items'
  <3>1. f[n] \in 0 .. size' - 1 BY <1>1, <1>3, <1>5 DEF Lesser, Indexes
  <3> QED BY <1>1, <1>4, <3>1
 <2> QED BY <1>1, <1>5, <2>1, <2>2, <2>3 DEF OverwriteInv
<1>8. RandomInv' /\ CyclicInv' /\ FifoInv' BY <1>1, <1>5 DEF RandomInv, CyclicInv, FifoInv
<1> QED BY <1>4, <1>7, <1>8 DEF MemoryInv

----------------------------------------------------------------------------
\* A put into a FIFO memory, which loses track of what is new only when the
\* memory is exactly full.
LEMMA PutFifoKeeps ==
  ASSUME MemoryInv, NEW n \in 1 .. Capacity, PutFifo(n), items' = items + n, kind' = kind,
         handedOut' = handedOut
  PROVE  MemoryInv'
<1> DEFINE positions == [k \in 1 .. n |-> (tail + k - 1) % Capacity]
<1>1. /\ Capacity \in Nat \ {0} /\ n \in Nat /\ n <= Capacity /\ n > 0
      /\ head \in Nat /\ tail \in Nat /\ head < Capacity /\ tail < Capacity
      /\ items \in Nat /\ handedOut \in Nat /\ handedOut <= items
      /\ kind = "fifo"
 <2>1. kind = "fifo" /\ Capacity \in Nat \ {0} /\ items \in Nat
   BY CapacityAssumption DEF MemoryInv, SharedInv, PutFifo
 <2>2. head \in Indexes /\ tail \in Indexes /\ handedOut \in 0 .. items
   BY <2>1 DEF MemoryInv, FifoInv
 <2> QED BY <2>1, <2>2 DEF Indexes
<1>2. \A k \in 1 .. n : positions[k] = Around(tail + k - 1)
 <2> SUFFICES ASSUME NEW k \in 1 .. n PROVE (tail + k - 1) % Capacity = Around(tail + k - 1)
   OBVIOUS
 <2>1. tail + k - 1 \in Nat /\ tail + k - 1 < 2 * Capacity BY <1>1
 <2> QED BY <2>1, AroundTheEnd DEF Around
<1>3. positions \in [1 .. n -> Indexes]
 <2>1. \A k \in 1 .. n : Around(tail + k - 1) \in Indexes BY <1>1 DEF Around, Indexes
 <2>2. positions = [k \in 1 .. n |-> positions[k]] OBVIOUS
 <2> QED BY <1>2, <2>1, <2>2
<1>4. \A k, l \in 1 .. n : positions[k] = positions[l] => k = l BY <1>1, <1>2 DEF Around
<1> HIDE DEF positions
<1>5. /\ SharedInv'
      /\ \A k \in 1 .. n : slots'["shared"][positions[k]] = items + k
      /\ \A i \in Indexes : (\A k \in 1 .. n : positions[k] # i) => slots'["shared"][i] = slots["shared"][i]
 <2>1. slots' = Stored(positions, n) BY DEF PutFifo, positions
 <2> QED BY <1>1, <1>3, <1>4, <2>1, PutInEveryArray DEF MemoryInv
<1>6. tail' = Around(tail + n)
 <2>1. tail + n \in Nat /\ tail + n < 2 * Capacity BY <1>1
 <2> QED BY <2>1, AroundTheEnd DEF Around, PutFifo
<1>7. FifoSize = Around(Capacity + tail - head)
 <2>1. Capacity + tail - head \in Nat /\ Capacity + tail - head < 2 * Capacity BY <1>1
 <2> QED BY <2>1, AroundTheEnd DEF Around, FifoSize
<1>8. head' = IF FifoSize + n <= Capacity THEN head ELSE Around(head + FifoSize + n - Capacity)
 <2>1. FifoSize + n > Capacity =>
         head + FifoSize + n - Capacity \in Nat /\ head + FifoSize + n - Capacity < 2 * Capacity
   BY <1>1, <1>7 DEF Around
 <2>2. FifoSize \in Nat BY <1>1, <1>7 DEF Around
 <2>3. head' = HeadFor(n) BY DEF PutFifo
 <2> QED BY <1>1, <2>1, <2>2, <2>3, AroundTheEnd DEF Around, HeadFor
<1>9. head' \in Indexes /\ tail' \in Indexes BY <1>1, <1>6, <1>7, <1>8 DEF Around, Indexes
<1>10. ASSUME ~ putWhenFull'
       PROVE  /\ tail' = Around(head' + New')
              /\ \A k \in 1 .. New' : slots'["shared"][Around(head' + k - 1)] = items' - New' + k
 <2>1. ~ putWhenFull /\ ~ (head = tail /\ items > handedOut) BY <1>10 DEF PutFifo
 <2>2. /\ tail = Around(head + New)
       /\ \A k \in 1 .. New : slots["shared"][Around(head + k - 1)] = items - New + k
   BY <1>1, <2>1 DEF MemoryInv, FifoInv
 <2>3. New = items - handedOut /\ New < Capacity /\ New \in Nat
   BY <1>1, <2>1, <2>2 DEF New, Lesser, Around
 <2>4. FifoSize = New BY <1>1, <1>7, <2>2, <2>3 DEF Around
 <2>5. New' = Lesser(New + n, Capacity) BY <1>1, <2>3 DEF New, Lesser
 <2>6. tail' = Around(head' + New')
   BY <1>1, <1>6, <1>8, <2>2, <2>3, <2>4, <2>5 DEF Around, Lesser
 <2> DEFINE new == Lesser(New + n, Capacity)
            old == new - n
 <2>7. /\ new \in Nat /\ new <= Capacity /\ old \in Int /\ old = new - n
       /\ new = IF New + n <= Capacity THEN New + n ELSE Capacity
   BY <1>1, <2>3 DEF Lesser
 <2> HIDE DEF new, old
 <2>8. ASSUME NEW k \in 1 .. new
       PROVE  slots'["shared"][Around(head' + k - 1)] = items' - new + k
  <3>1. k \in Nat /\ k > 0 /\ k <= new /\ k <= Capacity BY <1>1, <2>7
  <3>2. Around(head' + k - 1) \in Indexes
   <4>1. k \in 1 .. Capacity BY <1>1, <3>1
   <4> QED BY <1>9, <4>1, AroundIsIndex
  <3>3. CASE k > old
   <4>1. k - old \in 1 .. n BY <1>1, <2>7, <3>1, <3>3
   <4>2. Around(head' + k - 1) = Around(tail + (k - old) - 1)
     BY <1>1, <1>8, <2>2, <2>3, <2>4, <2>7, <3>1, <3>3 DEF Around
   <4>3. slots'["shared"][positions[k - old]] = items + (k - old) BY <1>5, <4>1
   <4>4. positions[k - old] = Around(head' + k - 1) BY <1>2, <4>1, <4>2
   <4>5. items + (k - old) = items' - new + k BY <1>1, <2>7, <3>1
   <4> QED BY <4>3, <4>4, <4>5
  <3>4. CASE k <= old
   <4>1. PICK j \in 1 .. New : /\ Around(head' + k - 1) = Around(head + j - 1)
                              /\ items' - new + k = items - New + j
    <5>1. k + New - old \in 1 .. New BY <1>1, <2>3, <2>7, <3>1, <3>4
    <5>2. Around(head' + k - 1) = Around(head + (k + New - old) - 1)
      BY <1>1, <1>8, <2>2, <2>3, <2>4, <2>7, <3>1, <3>4 DEF Around
    <5>3. items' - new + k = items - New + (k + New - old) BY <1>1, <2>3, <2>7, <3>1
    <5> QED BY <5>1, <5>2, <5>3
   <4>2. \A l \in 1 .. n : positions[l] # Around(head' + k - 1)
     BY <1>1, <1>2, <1>8, <2>2, <2>3, <2>4, <2>7, <3>1, <3>4 DEF Around
   <4>3. slots'["shared"][Around(head' + k - 1)] = slots["shared"][Around(head' + k - 1)]
     BY <1>5, <3>2, <4>2
   <4> QED BY <2>2, <4>1, <4>3
  <3> QED BY <2>7, <3>1, <3>3, <3>4
 <2>9. New' = new BY <2>5 DEF new
 <2> QED BY <2>6, <2>8, <2>9
<1>11. FifoInv'
 <2>1. putWhenFull' \in BOOLEAN BY <1>1 DEF MemoryInv, FifoInv, PutFifo
 <2> QED BY <1>1, <1>9, <1>10, <2>1 DEF FifoInv
<1>12. RandomInv' /\ CyclicInv' /\ OverwriteInv'
  BY <1>1 DEF RandomInv, CyclicInv, OverwriteInv
<1> QED BY <1>5, <1>11, <1>12 DEF MemoryInv
----------------------------------------------------------------------------
\* A new memory of any class.
LEMMA MemoryInvInit == MemoryInit => MemoryInv
<1> SUFFICES ASSUME MemoryInit PROVE MemoryInv
  OBVIOUS
<1>1. PICK m \in Memories : kind \in m.schedulers
                          /\ slots = [a \in m.arrays |-> [i \in Indexes |-> 0]]
  BY DEF MemoryInit
<1>2. "shared" \in m.arrays /\ m.schedulers \subseteq {"cyclic", "priority", "overwrite", "fifo"}
  BY DEF Memories, RandomReplayMemory, PrioritizedReplayMemory, FIFOReplayMemory,
         RandomMultiReplayMemory, FIFOMultiReplayMemory, MultiReplayMemory
<1>3. /\ weighted = {} /\ ptr = 0 /\ size = 0 /\ head = 0 /\ tail = 0 /\ items = 0
      /\ handedOut = 0 /\ putWhenFull = FALSE
  BY DEF MemoryInit
<1>4. SharedInv BY <1>1, <1>2, <1>3 DEF SharedInv
<1>5. size = Lesser(items, Capacity) /\ 0 .. size - 1 = {} /\ New = 0 /\ 1 .. New = {}
  BY <1>3, CapacityAssumption DEF Lesser, New
<1>6. RandomInv /\ CyclicInv /\ OverwriteInv
  BY <1>3, <1>5, CapacityAssumption DEF RandomInv, CyclicInv, OverwriteInv
<1>7. FifoInv
 <2>1. /\ head \in Indexes /\ tail \in Indexes /\ handedOut \in 0 .. items
       /\ tail = Around(head + New)
   BY <1>3, <1>5, CapacityAssumption DEF Around, Indexes
 <2>2. putWhenFull \in BOOLEAN BY <1>3
 <2>3. \A k \in 1 .. New : slots["shared"][Around(head + k - 1)] = items - New + k BY <1>5
 <2> QED BY <2>1, <2>2, <2>3 DEF FifoInv
<1> QED BY <1>4, <1>6, <1>7 DEF MemoryInv

\* A sample of a FIFO memory: nothing is new after it.
LEMMA SampleFifoKeeps ==
  ASSUME MemoryInv, SampleFifo
  PROVE  MemoryInv'
<1>1. /\ kind = "fifo" /\ kind' = kind /\ slots' = slots /\ items' = items /\ tail' = tail
      /\ head' = tail /\ handedOut' = items /\ putWhenFull' = FALSE
  BY DEF SampleFifo
<1>2. items \in Nat /\ tail \in Indexes /\ SharedInv'
  BY <1>1 DEF MemoryInv, SharedInv, FifoInv
<1>3. New' = 0 BY <1>1, <1>2, CapacityAssumption DEF New, Lesser
<1>4. FifoInv'
 <2>1. tail' = Around(head' + New')
   BY <1>1, <1>2, <1>3, CapacityAssumption DEF Around, Indexes
 <2>2. 1 .. New' = {} BY <1>3
 <2>3. \A k \in 1 .. New' : slots'["shared"][Around(head' + k - 1)] = items' - New' + k
   BY <2>2
 <2>4. /\ head' \in Indexes /\ tail' \in Indexes /\ handedOut' \in 0 .. items'
   BY <1>1, <1>2 DEF MemoryInv, FifoInv
 <2>5. putWhenFull' \in BOOLEAN BY <1>1
 <2> QED BY <2>1, <2>3, <2>4, <2>5 DEF FifoInv
<1>5. RandomInv' /\ CyclicInv' /\ OverwriteInv'
  BY <1>1 DEF RandomInv, CyclicInv, OverwriteInv
<1> QED BY <1>2, <1>4, <1>5 DEF MemoryInv

\* Every step: puts, draws and FIFO samples.
LEMMA MemoryInvStep == MemoryInv /\ [MemoryNext]_memoryVars => MemoryInv'
<1> SUFFICES ASSUME MemoryInv, [MemoryNext]_memoryVars PROVE MemoryInv'
  OBVIOUS
<1>1. ASSUME NEW n \in 1 .. Capacity, Put(n) PROVE MemoryInv'
  BY <1>1, PutCyclicKeeps, PutOverwritingKeeps, PutFifoKeeps DEF Put
<1>2. CASE DrawOne
  BY <1>2 DEF DrawOne, MemoryInv, SharedInv, RandomInv, CyclicInv, OverwriteInv, FifoInv, New
<1>3. CASE SampleFifo BY <1>3, SampleFifoKeeps
<1>4. CASE UNCHANGED memoryVars
  BY <1>4 DEF memoryVars, MemoryInv, SharedInv, RandomInv, CyclicInv, OverwriteInv, FifoInv, New
<1> QED BY <1>1, <1>2, <1>3, <1>4 DEF MemoryNext
----------------------------------------------------------------------------
\* Draws below size are transitions, all different, the newest among them.
LEMMA DrawsFollow == MemoryInv => DrawsAreTransitions
<1> SUFFICES ASSUME MemoryInv, kind # "fifo" PROVE DrawsAreTransitions
  BY DEF DrawsAreTransitions
<1> DEFINE filled == [i \in 0 .. size - 1 |-> sample_by_indexes(<<i>>)[1]]
<1>1. /\ Capacity \in Nat \ {0} /\ items \in Nat /\ size = Lesser(items, Capacity)
      /\ ptr \in 0 .. Capacity /\ kind \in {"cyclic", "priority", "overwrite"}
      /\ kind = "priority" => weighted = 0 .. size - 1
  BY CapacityAssumption DEF MemoryInv, SharedInv, RandomInv
<1>2. DOMAIN filled = 0 .. size - 1 /\ \A i \in 0 .. size - 1 : filled[i] = slots["shared"][i]
  BY DEF sample_by_indexes, MemoryInv, SharedInv
<1> HIDE DEF filled
<1>3. Drawable = 0 .. size - 1 BY <1>1 DEF Drawable
<1>4. CASE kind = "overwrite"
 <2>1. /\ \A i \in DOMAIN filled : filled[i] \in 1 .. items
       /\ IsInjective(filled)
       /\ items > 0 => \E i \in DOMAIN filled : filled[i] = items
   BY <1>2, <1>4 DEF MemoryInv, OverwriteInv, IsInjective
 <2> QED BY <1>1, <1>3, <2>1 DEF DrawsAreTransitions, filled
<1>5. CASE kind \in {"cyclic", "priority"}
 <2>1. /\ size < Capacity => ptr = size
       /\ \A i \in 0 .. size - 1 :
            filled[i] = IF i < ptr THEN items - ptr + 1 + i ELSE items - ptr + 1 + i - Capacity
   BY <1>2, <1>5 DEF MemoryInv, CyclicInv
 <2>2. \A i \in DOMAIN filled : filled[i] \in 1 .. items BY <1>1, <1>2, <2>1 DEF Lesser
 <2>3. IsInjective(filled) BY <1>1, <1>2, <2>1 DEF Lesser, IsInjective
 <2>4. ASSUME items > 0 PROVE \E i \in DOMAIN filled : filled[i] = items
  <3>1. CASE ptr > 0
   <4>1. ptr - 1 \in 0 .. size - 1 /\ filled[ptr - 1] = items BY <1>1, <2>1, <3>1 DEF Lesser
   <4> QED BY <1>2, <4>1
  <3>2. CASE ptr = 0
   <4>1. Capacity - 1 \in 0 .. size - 1 /\ filled[Capacity - 1] = items
     BY <1>1, <2>1, <2>4, <3>2 DEF Lesser
   <4> QED BY <1>2, <4>1
  <3> QED BY <1>1, <3>1, <3>2
 <2> QED BY <1>1, <1>3, <2>2, <2>3, <2>4 DEF DrawsAreTransitions, filled
<1> QED BY <1>1, <1>4, <1>5

\* Without random overwriting they are the newest ones.
LEMMA NewestFollow == MemoryInv => CyclicKeepsNewest
<1> SUFFICES ASSUME MemoryInv, kind \in {"cyclic", "priority"}
             PROVE  {slots["shared"][i] : i \in 0 .. size - 1} = (items - size) + 1 .. items
  BY DEF CyclicKeepsNewest
<1>1. /\ Capacity \in Nat \ {0} /\ items \in Nat /\ size = Lesser(items, Capacity)
      /\ ptr \in 0 .. Capacity
      /\ size < Capacity => ptr = size
      /\ \A i \in 0 .. size - 1 :
           slots["shared"][i] = IF i < ptr THEN items - ptr + 1 + i ELSE items - ptr + 1 + i - Capacity
  BY CapacityAssumption DEF MemoryInv, SharedInv, RandomInv, CyclicInv
<1>2. ASSUME NEW i \in 0 .. size - 1 PROVE slots["shared"][i] \in (items - size) + 1 .. items
  BY <1>1 DEF Lesser
<1>3. ASSUME NEW v \in (items - size) + 1 .. items PROVE \E i \in 0 .. size - 1 : slots["shared"][i] = v
 <2> DEFINE i == IF v - items + ptr - 1 >= 0 THEN v - items + ptr - 1
                 ELSE v - items + ptr - 1 + Capacity
 <2>1. i \in 0 .. size - 1 /\ (IF i < ptr THEN items - ptr + 1 + i ELSE items - ptr + 1 + i - Capacity) = v
   BY <1>1 DEF Lesser
 <2> QED BY <1>1, <2>1
<1> QED BY <1>2, <1>3

\* The indexes of a FIFO sample run from head around the end to tail.
LEMMA FifoFollow == MemoryInv => FifoSamplesWhatIsNew
<1> SUFFICES ASSUME MemoryInv, kind = "fifo", ~ putWhenFull, New > 0
             PROVE  /\ Len(FifoIndexes) = New
                    /\ \A k \in 1 .. New : sample_by_indexes(FifoIndexes)[k] = items - New + k
  BY DEF FifoSamplesWhatIsNew, New
<1>1. /\ Capacity \in Nat \ {0} /\ items \in Nat /\ handedOut \in 0 .. items
      /\ head \in Indexes /\ tail \in Indexes
      /\ tail = Around(head + New)
      /\ \A k \in 1 .. New : slots["shared"][Around(head + k - 1)] = items - New + k
  BY CapacityAssumption DEF MemoryInv, SharedInv, FifoInv
<1>2. New \in Nat /\ New <= Capacity BY <1>1 DEF New, Lesser
<1>3. FifoIndexes = [k \in 1 .. New |-> Around(head + k - 1)]
 <2>1. CASE tail > head
  <3>1. tail - head = New /\ \A k \in 1 .. New : Around(head + k - 1) = head + k - 1
    BY <1>1, <1>2, <2>1 DEF Around, Indexes
  <3> QED BY <2>1, <3>1 DEF FifoIndexes
 <2>2. CASE ~ (tail > head)
  <3>1. Capacity - head + tail = New BY <1>1, <1>2, <2>2 DEF Around, Indexes
  <3>2. ASSUME NEW k \in 1 .. New PROVE (head + k - 1) % Capacity = Around(head + k - 1)
   <4>1. head + k - 1 \in Nat /\ head + k - 1 < 2 * Capacity BY <1>1, <1>2 DEF Indexes
   <4> QED BY <4>1, AroundTheEnd DEF Around
  <3> QED BY <2>2, <3>1, <3>2 DEF FifoIndexes
 <2> QED BY <2>1, <2>2
<1>4. Len(FifoIndexes) = New BY <1>2, <1>3
<1>5. ASSUME NEW k \in 1 .. New PROVE sample_by_indexes(FifoIndexes)[k] = items - New + k
 <2>1. sample_by_indexes(FifoIndexes)[k] = slots["shared"][FifoIndexes[k]]
   BY <1>3 DEF sample_by_indexes, MemoryInv, SharedInv
 <2> QED BY <1>1, <1>3, <2>1
<1> QED BY <1>4, <1>5

----------------------------------------------------------------------------
(***************************************************************************)
(* Whatever is put into a replay memory, in batches of any size, samples     *)
(* return it and nothing else: put_by_indexes and get_put_indexes of all     *)
(* schedulers against get_sample_indexes.                                    *)
(***************************************************************************)
THEOREM MemorySamplesWhatWasPut == MainSpec => []SamplesAreWhatWasPut
<1> DEFINE Inv == MemoryIsAbsent \/ MemoryInv
<1>1. MainInit => Inv BY MemoryInvInit DEF MainInit, NoMemory, MemoryIsAbsent
<1>2. Inv /\ [MainNext]_all_vars => Inv'
 <2> SUFFICES ASSUME Inv, [MainNext]_all_vars PROVE Inv'
   OBVIOUS
 <2>1. UNCHANGED memoryVars \/ (kind # "none" /\ MemoryNext) BY DEF MainNext, all_vars
 <2>2. CASE UNCHANGED memoryVars
  <3>1. MemoryIsAbsent => MemoryIsAbsent' BY <2>2 DEF MemoryIsAbsent, memoryVars
  <3> QED BY <2>2, <3>1, MemoryInvStep
 <2>3. CASE kind # "none" /\ MemoryNext BY <2>3, MemoryInvStep DEF MemoryIsAbsent
 <2> QED BY <2>1, <2>2, <2>3
<1>3. Inv => SamplesAreWhatWasPut
 <2>1. MemoryIsAbsent => SamplesAreWhatWasPut
  <3> SUFFICES ASSUME MemoryIsAbsent PROVE SamplesAreWhatWasPut
    OBVIOUS
  <3>1. 0 .. size - 1 = {} /\ kind = "none" /\ items = 0 /\ size = 0 BY DEF MemoryIsAbsent
  <3>2. Drawable = 0 .. size - 1 BY <3>1 DEF Drawable
  <3>3. size = Lesser(items, Capacity) BY <3>1, CapacityAssumption DEF Lesser
  <3> QED BY <3>1, <3>2, <3>3
          DEF SamplesAreWhatWasPut, DrawsAreTransitions, CyclicKeepsNewest, FifoSamplesWhatIsNew, IsInjective
 <2> QED BY <2>1, DrawsFollow, NewestFollow, FifoFollow DEF SamplesAreWhatWasPut
<1> QED BY <1>1, <1>2, <1>3, PTL DEF MainSpec

----------------------------------------------------------------------------
(***************************************************************************)
(* The inductive invariant of the rollout.  A reply carries the index of a  *)
(* request, which several requests share, so what keeps old replies out is  *)
(* that nothing is under way between two requests: the controller has       *)
(* collected as many replies as it has addressed workers, and each of them  *)
(* answers once.                                                            *)
(***************************************************************************)
Request(w) == [type |-> Head(todo), round |-> round, index |-> Index, from |-> w]

\* Workers are known once, and no fewer are known than are asked.
KnownInv ==
  /\ known \in Seq(Worker)
  /\ \A i, j \in 1 .. Len(known) : known[i] = known[j] => i = j
  /\ stage = "recv" => Len(known) >= parallelism

\* What the workflow still does.
TodoInv ==
  /\ todo \in { << "set_policy_state", "eval", "post_evaluate" >>, << "eval", "post_evaluate" >>,
                << "post_evaluate" >>, << "sample" >>, << >> }
  /\ round \in Nat
  /\ stage \in {"wait", "recv"} => todo # << >>
  /\ stage = "wait" => results = {}

\* A worker's announcement comes before it is known, and it is sent nothing
\* before it is known.
ReadyInv ==
  \A w \in Worker \ ToSet(known) :
    /\ tasks[w] = << >>
    /\ replies[w] = << >> \/ (replies[w] = << READY >> /\ worker[w] = "up")

\* A worker that is known has nothing to do and has said nothing that was not
\* heard, unless it is asked; then its task, its reply or its result is there.
AnswerInv ==
  /\ \A w \in ToSet(known) :
       /\ worker[w] = "up"
       /\ stage = "recv" /\ w \in Addressed =>
            \/ tasks[w] = << Request(w) >> /\ replies[w] = << >> /\ Request(w) \notin results
            \/ tasks[w] = << >> /\ replies[w] = << Request(w) >> /\ Request(w) \notin results
            \/ tasks[w] = << >> /\ replies[w] = << >> /\ Request(w) \in results
       /\ stage # "recv" \/ w \notin Addressed => tasks[w] = << >> /\ replies[w] = << >>
  /\ stage = "recv" => results \subseteq { Request(w) : w \in Addressed }

\* The workers that have answered the loading of policies have loaded them, and
\* stay the first ones if no evaluation needs more.
LoadedInv ==
  /\ stage = "recv" /\ Head(todo) = "set_policy_state" =>
       \A w \in Addressed : tasks[w] = << >> => w \in loaded
  /\ Parallelism(rconfig).sampling >= Parallelism(rconfig).eval
     /\ todo = << "eval", "post_evaluate" >> /\ round > (IF stage = "idle" THEN 0 ELSE 1) =>
       /\ Len(known) >= Parallelism(rconfig).sampling
       /\ \A i \in 1 .. Parallelism(rconfig).sampling : known[i] \in loaded

RolloutTypeOK ==
  /\ rconfig \in RolloutConfigs
  /\ _validate(rconfig) /\ get_job_spec(rconfig).rollout_workers > 0
  /\ worker = [w \in Worker |-> worker[w]]
  /\ tasks = [w \in Worker |-> tasks[w]]
  /\ replies = [w \in Worker |-> replies[w]]

\* All of it until the controller has exited or raised.
FlowInv == RolloutTypeOK /\ KnownInv /\ TodoInv /\ ReadyInv /\ AnswerInv /\ LoadedInv

ResultsFit ==
  \A r \in results :
    /\ r.round = round
    /\ r.type = "eval" /\ round > 1 /\ Parallelism(rconfig).sampling >= Parallelism(rconfig).eval
         => r.from \in loaded

RolloutInv ==
  /\ stage \in {"idle", "wait", "recv", "exited", "raised"}
  /\ stage \in {"idle", "wait", "recv"} => FlowInv
  /\ stage = "raised" /\ Len(known) = Cardinality(Worker) => todo = << >>
  /\ ResultsFit

----------------------------------------------------------------------------
\* The parser lets through positive numbers only (_validate_rollout_section).
LEMMA ParallelismIsPositive ==
  ASSUME RolloutTypeOK
  PROVE  /\ Parallelism(rconfig).sampling \in Nat \ {0}
         /\ Parallelism(rconfig).eval \in Nat \ {0}
         /\ parallelism \in Nat \ {0}
         /\ get_job_spec(rconfig).rollout_workers \in Nat
         /\ IsFiniteSet(Worker)
<1>1. rconfig.sampling \in Int \cup {Unset} /\ rconfig.eval \in Int \cup {Unset}
  BY ParallelismAssumption DEF RolloutTypeOK
<1>2. rconfig.sampling # Unset => rconfig.sampling > 0 /\ Parallelism(rconfig).eval > 0
  BY DEF RolloutTypeOK, _validate, _validate_rollout_section
<1>3. Parallelism(rconfig).sampling \in Nat \ {0} /\ Parallelism(rconfig).eval \in Nat \ {0}
  BY <1>1, <1>2 DEF Parallelism
<1>4. get_job_spec(rconfig).rollout_workers \in Nat BY <1>3 DEF get_job_spec, RolloutWorkers
<1>5. IsFiniteSet(Worker) BY <1>4, FS_Interval DEF Worker
<1> QED BY <1>3, <1>4, <1>5 DEF parallelism

\* Of a list that is long enough, the first p are asked.
LEMMA AddressedAreFirst ==
  ASSUME KnownInv, Len(known) >= parallelism, parallelism \in Nat
  PROVE  /\ Addressed = {known[i] : i \in 1 .. parallelism}
         /\ Addressed \subseteq ToSet(known)
         /\ Addressed \subseteq Worker /\ ToSet(known) \subseteq Worker
<1>1. known \in Seq(Worker) /\ Len(known) \in Nat BY DEF KnownInv
<1>2. /\ Len(SubSeq(known, 1, parallelism)) = parallelism
      /\ \A i \in 1 .. parallelism : SubSeq(known, 1, parallelism)[i] = known[i]
      /\ DOMAIN SubSeq(known, 1, parallelism) = 1 .. parallelism
  BY <1>1
<1>3. Addressed = {known[i] : i \in 1 .. parallelism} BY <1>2 DEF Addressed, ToSet
<1>4. DOMAIN known = 1 .. Len(known) /\ \A i \in 1 .. Len(known) : known[i] \in Worker
  BY <1>1
<1>5. 1 .. parallelism \subseteq DOMAIN known BY <1>1, <1>4
<1> QED BY <1>3, <1>4, <1>5 DEF ToSet

\* Whoever is inserted is known afterwards, and nobody is lost.
LEMMA InsertionIsKnown ==
  ASSUME NEW S, NEW s \in Seq(S), NEW e \in S, NEW k \in 1 .. Len(s) + 1,
         \A i, j \in 1 .. Len(s) : s[i] = s[j] => i = j, e \notin ToSet(s)
  PROVE  LET t == InsertAt(s, k, e)
         IN  /\ t \in Seq(S) /\ ToSet(t) = ToSet(s) \cup {e}
             /\ \A i, j \in 1 .. Len(t) : t[i] = t[j] => i = j
<1> DEFINE a == SubSeq(s, 1, k - 1)
           b == SubSeq(s, k, Len(s))
           t == InsertAt(s, k, e)
<1>1. Len(s) \in Nat /\ k \in Nat /\ k >= 1 /\ k <= Len(s) + 1 /\ DOMAIN s = 1 .. Len(s)
  OBVIOUS
<1>2. /\ a \in Seq(S) /\ Len(a) = k - 1
      /\ \A i \in 1 .. k - 1 : a[i] = s[i]
  BY <1>1
<1>3. /\ b \in Seq(S) /\ Len(b) = Len(s) - k + 1
      /\ \A i \in 1 .. Len(s) - k + 1 : b[i] = s[k + i - 1]
 <2>1. CASE k = Len(s) + 1 BY <1>1, <2>1
 <2>2. CASE k <= Len(s) BY <1>1, <2>2
 <2> QED BY <1>1, <2>1, <2>2
<1>4. t = a \o << e >> \o b BY DEF InsertAt
<1> HIDE DEF a, b, t
<1>5. t \in Seq(S) /\ Len(t) = Len(s) + 1 /\ DOMAIN t = 1 .. Len(s) + 1
  BY <1>1, <1>2, <1>3, <1>4
<1>6. \A i \in 1 .. Len(s) + 1 : t[i] = IF i < k THEN s[i] ELSE IF i = k THEN e ELSE s[i - 1]
 <2> SUFFICES ASSUME NEW i \in 1 .. Len(s) + 1
              PROVE  t[i] = IF i < k THEN s[i] ELSE IF i = k THEN e ELSE s[i - 1]
   OBVIOUS
 <2>1. CASE i < k BY <1>1, <1>2, <1>3, <1>4, <2>1
 <2>2. CASE i = k BY <1>1, <1>2, <1>3, <1>4, <2>2
 <2>3. CASE i > k
  <3>1. t[i] = b[i - k] BY <1>1, <1>2, <1>3, <1>4, <2>3
  <3>2. b[i - k] = s[i - 1] BY <1>1, <1>3, <2>3
  <3> QED BY <1>1, <2>3, <3>1, <3>2
 <2> QED BY <1>1, <2>1, <2>2, <2>3
<1>7. \A i \in 1 .. Len(s) : s[i] # e BY <1>1 DEF ToSet
<1>8. ToSet(t) = ToSet(s) \cup {e}
 <2>1. ASSUME NEW x \in ToSet(t) PROVE x \in ToSet(s) \cup {e}
  <3>1. PICK i \in 1 .. Len(s) + 1 : x = t[i] BY <1>5 DEF ToSet
  <3>2. (i < k => i \in 1 .. Len(s)) /\ (i > k => i - 1 \in 1 .. Len(s)) BY <1>1
  <3> QED BY <1>1, <1>6, <3>1, <3>2 DEF ToSet
 <2>2. ASSUME NEW x \in ToSet(s) PROVE x \in ToSet(t)
  <3>1. PICK i \in 1 .. Len(s) : x = s[i] BY <1>1 DEF ToSet
  <3>2. CASE i < k
   <4>1. i \in 1 .. Len(s) + 1 /\ t[i] = x BY <1>1, <1>6, <3>1, <3>2
   <4> QED BY <1>5, <4>1 DEF ToSet
  <3>3. CASE i >= k
   <4>1. i + 1 \in 1 .. Len(s) + 1 /\ t[i + 1] = x BY <1>1, <1>6, <3>1, <3>3
   <4> QED BY <1>5, <4>1 DEF ToSet
  <3> QED BY <1>1, <3>2, <3>3
 <2>3. e \in ToSet(t)
  <3>1. k \in 1 .. Len(s) + 1 /\ t[k] = e BY <1>1, <1>6
  <3> QED BY <1>5, <3>1 DEF ToSet
 <2> QED BY <2>1, <2>2, <2>3
<1>9. \A i, j \in 1 .. Len(t) : t[i] = t[j] => i = j
 <2> SUFFICES ASSUME NEW i \in 1 .. Len(s) + 1, NEW j \in 1 .. Len(s) + 1, t[i] = t[j] PROVE i = j
   BY <1>5
 <2> DEFINE old(l) == IF l < k THEN l ELSE l - 1
 <2>1. \A l \in 1 .. Len(s) + 1 : l # k => old(l) \in 1 .. Len(s) /\ t[l] = s[old(l)]
   BY <1>1, <1>6
 <2>2. t[k] = e BY <1>1, <1>6
 <2>3. CASE i = k \/ j = k BY <1>7, <2>1, <2>2, <2>3
 <2>4. CASE i # k /\ j # k
  <3>1. old(i) = old(j)
   <4> HIDE DEF old
   <4> QED BY <2>1, <2>4
  <3> QED BY <1>1, <2>4, <3>1
 <2> QED BY <2>3, <2>4
<1> QED BY <1>5, <1>8, <1>9 DEF t

\* Everyone who was asked has answered when as many replies are there: each
\* answers once, so that none of them can stand for two.
LEMMA EveryoneAnswered ==
  ASSUME FlowInv, stage = "recv", Cardinality(results) >= parallelism
  PROVE  \A w \in Addressed : Request(w) \in results
<1>1. /\ parallelism \in Nat \ {0} /\ Len(known) >= parallelism
      /\ IsFiniteSet(Worker)
  BY ParallelismIsPositive DEF FlowInv, KnownInv
<1>2. Addressed = {known[i] : i \in 1 .. parallelism} /\ Addressed \subseteq Worker
  BY <1>1, AddressedAreFirst DEF FlowInv
<1>3. IsFiniteSet(Addressed) /\ Cardinality(Addressed) \in Nat
  BY <1>1, <1>2, FS_Subset, FS_CardinalityType
<1>4. Cardinality(Addressed) <= parallelism
 <2> DEFINE f == [i \in 1 .. parallelism |-> known[i]]
 <2>1. f \in Surjection(1 .. parallelism, Addressed) BY <1>2 DEF Surjection
 <2> QED BY <1>1, <2>1, FS_SurjCardinalityBound DEF ExistsSurjection
<1>5. \A r \in results : r.from \in Addressed /\ r = Request(r.from)
 <2> SUFFICES ASSUME NEW r \in results PROVE r.from \in Addressed /\ r = Request(r.from)
   OBVIOUS
 <2>1. PICK w \in Addressed : r = Request(w) BY DEF FlowInv, AnswerInv
 <2>2. r.from = w BY <2>1 DEF Request
 <2> QED BY <2>1, <2>2
<1> DEFINE from == [r \in results |-> r.from]
<1>6. from \in Injection(results, Addressed) BY <1>5 DEF Injection, IsInjective
<1>7. /\ IsFiniteSet(results) /\ Cardinality(results) <= Cardinality(Addressed)
      /\ Cardinality(results) = Cardinality(Addressed) <=> from \in Surjection(results, Addressed)
 <2> HIDE DEF from
 <2> QED BY <1>3, <1>6, FS_Injection
<1>8. Cardinality(results) = Cardinality(Addressed)
  BY <1>1, <1>3, <1>4, <1>7, FS_CardinalityType
<1>9. \A w \in Addressed : \E r \in results : r.from = w BY <1>7, <1>8 DEF Surjection
<1> QED BY <1>5, <1>9

\* Nobody is unknown when as many workers are known as there are.
LEMMA EveryoneIsKnown ==
  ASSUME RolloutTypeOK, KnownInv, Len(known) = Cardinality(Worker)
  PROVE  Worker \subseteq ToSet(known)
<1>1. IsFiniteSet(Worker) BY ParallelismIsPositive
<1>2. known \in [1 .. Len(known) -> Worker] /\ Len(known) \in Nat BY DEF KnownInv
<1>3. known \in Injection(1 .. Len(known), Worker)
  BY <1>2 DEF KnownInv, Injection, IsInjective
<1>4. Cardinality(1 .. Len(known)) = Len(known) BY <1>2, FS_Interval
<1>5. known \in Surjection(1 .. Len(known), Worker) BY <1>1, <1>3, <1>4, FS_Injection
<1> QED BY <1>2, <1>5 DEF Surjection, ToSet

----------------------------------------------------------------------------
Running == stage \in {"idle", "wait", "recv"}

\* The requests and who gets them do not change within a request.
LEMMA SameRequest ==
  ASSUME rconfig' = rconfig
  PROVE  /\ Worker' = Worker
         /\ Parallelism(rconfig)' = Parallelism(rconfig)
         /\ todo' = todo => parallelism' = parallelism
         /\ todo' = todo /\ known' = known => Addressed' = Addressed
         /\ todo' = todo /\ round' = round => \A w : Request(w)' = Request(w)
<1>1. Worker' = Worker /\ (todo' = todo => parallelism' = parallelism)
  BY DEF Worker, parallelism
<1> QED BY <1>1 DEF Addressed, Request, Index

\* What the workers do matters to the flow only.
LEMMA WorkersKeep ==
  ASSUME RolloutInv, UNCHANGED << rconfig, todo, stage, known, results, round >>, loaded \subseteq loaded',
         Running => FlowInv'
  PROVE  RolloutInv'
<1>1. Worker' = Worker /\ Parallelism(rconfig)' = Parallelism(rconfig) BY SameRequest
<1>2. ResultsFit' BY <1>1 DEF RolloutInv, ResultsFit
<1> QED BY <1>1, <1>2 DEF RolloutInv, Running

LEMMA RolloutWorkerStartsKeeps ==
  ASSUME RolloutInv, NEW w \in Worker, RolloutWorkerStarts(w)
  PROVE  RolloutInv'
<1>1. UNCHANGED << rconfig, todo, stage, known, results, round, tasks, loaded >>
  BY DEF RolloutWorkerStarts
<1>2. ASSUME Running PROVE FlowInv'
 <2>1. FlowInv BY <1>2 DEF RolloutInv, Running
 <2>2. /\ Worker' = Worker /\ parallelism' = parallelism /\ Addressed' = Addressed
       /\ Parallelism(rconfig)' = Parallelism(rconfig) /\ \A v : Request(v)' = Request(v)
   BY <1>1, SameRequest
 <2>3. /\ worker[w] = "off"
       /\ worker' = [worker EXCEPT ![w] = "up"]
       /\ replies' = [replies EXCEPT ![w] = Append(@, READY)]
   BY DEF RolloutWorkerStarts
 <2>4. w \notin ToSet(known) /\ replies[w] = << >>
   BY <2>1, <2>3 DEF FlowInv, AnswerInv, ReadyInv
 <2>5. /\ worker'[w] = "up" /\ replies'[w] = << READY >>
       /\ \A v \in Worker : v # w => worker'[v] = worker[v] /\ replies'[v] = replies[v]
   BY <2>1, <2>3, <2>4 DEF FlowInv, RolloutTypeOK
 <2>6. RolloutTypeOK' BY <1>1, <2>1, <2>2, <2>3 DEF FlowInv, RolloutTypeOK
 <2>7. KnownInv' /\ TodoInv' /\ LoadedInv'
   BY <1>1, <2>1, <2>2 DEF FlowInv, KnownInv, TodoInv, LoadedInv
 <2>8. ReadyInv' BY <1>1, <2>1, <2>2, <2>5 DEF FlowInv, ReadyInv, READY
 <2>9. ToSet(known) \subseteq Worker BY <2>1 DEF FlowInv, KnownInv, ToSet
 <2>10. \A v \in ToSet(known) : worker'[v] = worker[v] /\ replies'[v] = replies[v] /\ tasks'[v] = tasks[v]
   BY <1>1, <2>4, <2>5, <2>9
 <2>11. AnswerInv' BY <1>1, <2>1, <2>2, <2>10 DEF FlowInv, AnswerInv
 <2> QED BY <2>6, <2>7, <2>8, <2>11 DEF FlowInv
<1> QED BY <1>1, <1>2, WorkersKeep

LEMMA ComputeRolloutKeeps ==
  ASSUME RolloutInv, NEW w \in Worker, ComputeRollout(w)
  PROVE  RolloutInv'
<1>1. UNCHANGED << rconfig, todo, stage, known, results, round >> /\ loaded \subseteq loaded'
  BY DEF ComputeRollout
<1>2. ASSUME Running PROVE FlowInv'
 <2>1. FlowInv BY <1>2 DEF RolloutInv, Running
 <2>2. /\ Worker' = Worker /\ parallelism' = parallelism /\ Addressed' = Addressed
       /\ Parallelism(rconfig)' = Parallelism(rconfig) /\ \A v : Request(v)' = Request(v)
   BY <1>1, SameRequest
 <2>3. tasks[w] # << >> BY DEF ComputeRollout
 <2>4. w \in ToSet(known) /\ stage = "recv" /\ w \in Addressed
   BY <2>1, <2>3 DEF FlowInv, AnswerInv, ReadyInv
 <2>5. tasks[w] = << Request(w) >> /\ replies[w] = << >> /\ Request(w) \notin results
   BY <2>1, <2>3, <2>4 DEF FlowInv, AnswerInv
 <2>6. todo # << >> /\ Head(todo) \in {"set_policy_state", "eval", "post_evaluate", "sample"}
   BY <2>1, <2>4 DEF FlowInv, TodoInv
 <2>7. Head(tasks[w]) = Request(w) /\ Tail(tasks[w]) = << >> BY <2>5
 <2>8. Request(w).type = Head(todo) /\ [Request(w) EXCEPT !.from = w] = Request(w)
   BY DEF Request
 <2>9. Request(w).type # "EXIT" BY <2>6, <2>8
 <2>10. /\ tasks' = [tasks EXCEPT ![w] = << >>]
        /\ replies' = [replies EXCEPT ![w] = Append(@, Request(w))]
        /\ loaded' = IF Head(todo) = "set_policy_state" THEN loaded \cup {w} ELSE loaded
        /\ worker' = worker
   BY <2>7, <2>8, <2>9 DEF ComputeRollout
 <2>11. /\ tasks'[w] = << >> /\ replies'[w] = << Request(w) >>
        /\ \A v \in Worker : v # w => tasks'[v] = tasks[v] /\ replies'[v] = replies[v]
   BY <2>1, <2>5, <2>10 DEF FlowInv, RolloutTypeOK
 <2>12. RolloutTypeOK' BY <1>1, <2>1, <2>2, <2>10 DEF FlowInv, RolloutTypeOK
 <2>13. KnownInv' /\ TodoInv' BY <1>1, <2>1, <2>2 DEF FlowInv, KnownInv, TodoInv
 <2>14. ReadyInv' BY <1>1, <2>1, <2>2, <2>4, <2>10, <2>11 DEF FlowInv, ReadyInv, READY
 <2>15. ToSet(known) \subseteq Worker BY <2>1 DEF FlowInv, KnownInv, ToSet
 <2>16. AnswerInv'
  <3>1. \A v \in ToSet(known) : worker'[v] = "up" BY <2>1, <2>10 DEF FlowInv, AnswerInv
  <3>2. tasks'[w] = << >> /\ replies'[w] = << Request(w) >> /\ Request(w) \notin results
    BY <2>5, <2>11
  <3>3. \A v \in ToSet(known) : v # w => tasks'[v] = tasks[v] /\ replies'[v] = replies[v]
    BY <2>11, <2>15
  <3> QED BY <1>1, <2>1, <2>2, <2>4, <3>1, <3>2, <3>3 DEF FlowInv, AnswerInv
 <2>17. LoadedInv'
  <3>1. ASSUME Head(todo) = "set_policy_state", NEW v \in Addressed, tasks'[v] = << >> PROVE v \in loaded'
   <4>1. CASE v = w BY <2>10, <3>1, <4>1
   <4>2. CASE v # w
    <5>1. v \in Worker
      BY <2>1, <2>4, AddressedAreFirst, ParallelismIsPositive DEF FlowInv, KnownInv
    <5>2. v \in loaded BY <2>1, <2>4, <2>11, <3>1, <4>2, <5>1 DEF FlowInv, LoadedInv
    <5> QED BY <1>1, <5>2
   <4> QED BY <4>1, <4>2
  <3> QED BY <1>1, <2>1, <2>2, <3>1 DEF FlowInv, LoadedInv
 <2> QED BY <2>12, <2>13, <2>14, <2>16, <2>17 DEF FlowInv
<1> QED BY <1>1, <1>2, WorkersKeep

LEMMA CollectBeginsKeeps ==
  ASSUME RolloutInv, CollectBegins
  PROVE  RolloutInv'
<1>1. /\ stage = "idle" /\ todo # << >> /\ stage' = "wait" /\ results' = {} /\ round' = round + 1
      /\ UNCHANGED << rconfig, todo, known, worker, tasks, replies, loaded >>
  BY DEF CollectBegins
<1>2. FlowInv BY <1>1 DEF RolloutInv
<1>3. Worker' = Worker /\ Parallelism(rconfig)' = Parallelism(rconfig) BY <1>1, SameRequest
<1>4. RolloutTypeOK' /\ KnownInv' /\ ReadyInv'
  BY <1>1, <1>2, <1>3 DEF FlowInv, RolloutTypeOK, KnownInv, ReadyInv, READY
<1>5. TodoInv' /\ round \in Nat BY <1>1, <1>2 DEF FlowInv, TodoInv
<1>6. AnswerInv' BY <1>1, <1>2 DEF FlowInv, AnswerInv
<1>7. LoadedInv' BY <1>1, <1>2, <1>3, <1>5 DEF FlowInv, LoadedInv
<1> QED BY <1>1, <1>4, <1>5, <1>6, <1>7 DEF RolloutInv, FlowInv, ResultsFit

LEMMA WorkerIsReadyKeeps ==
  ASSUME RolloutInv, NEW w \in Worker, WorkerIsReady(w)
  PROVE  RolloutInv'
<1>1. /\ stage = "wait" /\ Len(known) < parallelism /\ replies[w] # << >>
      /\ replies' = [replies EXCEPT ![w] = Tail(@)]
      /\ UNCHANGED << rconfig, todo, stage, results, round, worker, tasks, loaded >>
  BY DEF WorkerIsReady
<1>2. FlowInv BY <1>1 DEF RolloutInv
<1>3. /\ Worker' = Worker /\ parallelism' = parallelism /\ Parallelism(rconfig)' = Parallelism(rconfig)
  BY <1>1, SameRequest
<1>4. w \notin ToSet(known) /\ replies[w] = << READY >> /\ worker[w] = "up" /\ tasks[w] = << >>
  BY <1>1, <1>2 DEF FlowInv, AnswerInv, ReadyInv
<1>5. PICK k \in 1 .. Len(known) + 1 : known' = InsertAt(known, k, w)
  BY <1>4 DEF WorkerIsReady
<1>6. /\ known' \in Seq(Worker) /\ ToSet(known') = ToSet(known) \cup {w}
      /\ \A i, j \in 1 .. Len(known') : known'[i] = known'[j] => i = j
  BY <1>2, <1>4, <1>5, InsertionIsKnown DEF FlowInv, KnownInv
<1>7. /\ replies'[w] = << >>
      /\ \A v \in Worker : v # w => replies'[v] = replies[v]
 <2>1. Tail(<< READY >>) = << >> OBVIOUS
 <2> QED BY <1>1, <1>2, <1>4, <2>1 DEF FlowInv, RolloutTypeOK
<1>8. RolloutTypeOK' BY <1>1, <1>2, <1>3 DEF FlowInv, RolloutTypeOK
<1>9. KnownInv' BY <1>1, <1>3, <1>6 DEF KnownInv
<1>10. TodoInv' BY <1>1, <1>2 DEF FlowInv, TodoInv
<1>11. ReadyInv' BY <1>1, <1>2, <1>3, <1>6, <1>7 DEF FlowInv, ReadyInv, READY
<1>12. AnswerInv'
 <2>1. ToSet(known) \subseteq Worker BY <1>2 DEF FlowInv, KnownInv, ToSet
 <2>2. \A v \in ToSet(known) : worker[v] = "up" /\ tasks[v] = << >> /\ replies'[v] = << >>
   BY <1>1, <1>2, <1>4, <1>7, <2>1 DEF FlowInv, AnswerInv
 <2> QED BY <1>1, <1>4, <1>6, <1>7, <2>2 DEF AnswerInv
<1>13. LoadedInv'
 <2>1. parallelism = Parallelism(rconfig).eval \/ todo # << "eval", "post_evaluate" >>
   BY DEF parallelism
 <2>2. Len(known) \in Nat /\ Parallelism(rconfig).sampling \in Nat /\ Parallelism(rconfig).eval \in Nat
   BY <1>2, ParallelismIsPositive DEF FlowInv, KnownInv
 <2>3. ~ (/\ Parallelism(rconfig).sampling >= Parallelism(rconfig).eval
          /\ todo = << "eval", "post_evaluate" >> /\ round > 1)
   BY <1>1, <1>2, <2>1, <2>2 DEF FlowInv, LoadedInv
 <2> QED BY <1>1, <1>3, <2>3 DEF LoadedInv
<1>14. ResultsFit' BY <1>1, <1>3 DEF RolloutInv, ResultsFit
<1> QED BY <1>1, <1>8, <1>9, <1>10, <1>11, <1>12, <1>13, <1>14 DEF RolloutInv, FlowInv

LEMMA RequestsSentKeeps ==
  ASSUME RolloutInv, RequestsSent
  PROVE  RolloutInv'
<1>1. /\ stage = "wait" /\ Len(known) >= parallelism /\ stage' = "recv"
      /\ tasks' = [w \in Worker |-> IF w \in Addressed THEN Append(tasks[w], Request(w)) ELSE tasks[w]]
      /\ UNCHANGED << rconfig, todo, known, results, round, worker, replies, loaded >>
  BY DEF RequestsSent, Request
<1>2. FlowInv /\ results = {} BY <1>1 DEF RolloutInv, FlowInv, TodoInv
<1>3. /\ Worker' = Worker /\ parallelism' = parallelism /\ Addressed' = Addressed
      /\ Parallelism(rconfig)' = Parallelism(rconfig) /\ \A v : Request(v)' = Request(v)
  BY <1>1, SameRequest
<1>4. Addressed \subseteq ToSet(known) /\ ToSet(known) \subseteq Worker
  BY <1>1, <1>2, AddressedAreFirst, ParallelismIsPositive DEF FlowInv
<1>5. \A w \in ToSet(known) : worker[w] = "up" /\ tasks[w] = << >> /\ replies[w] = << >>
  BY <1>1, <1>2 DEF FlowInv, AnswerInv
<1>6. \A w \in Addressed : tasks'[w] = << Request(w) >>
 <2> SUFFICES ASSUME NEW w \in Addressed PROVE tasks'[w] = << Request(w) >>
   OBVIOUS
 <2>1. tasks'[w] = Append(tasks[w], Request(w)) /\ tasks[w] = << >> BY <1>1, <1>4, <1>5
 <2> DEFINE r == Request(w)
 <2> HIDE DEF r
 <2>2. Append(<< >>, r) = << r >> OBVIOUS
 <2> QED BY <2>1, <2>2 DEF r
<1>7. \A w \in Worker \ Addressed : tasks'[w] = tasks[w] BY <1>1
<1>8. RolloutTypeOK' /\ KnownInv' /\ TodoInv'
  BY <1>1, <1>2, <1>3 DEF FlowInv, RolloutTypeOK, KnownInv, TodoInv
<1>9. ReadyInv' BY <1>1, <1>2, <1>3, <1>4, <1>7 DEF FlowInv, ReadyInv, READY
<1>10. AnswerInv' BY <1>1, <1>2, <1>3, <1>4, <1>5, <1>6, <1>7 DEF AnswerInv
<1>11. LoadedInv'
 <2>1. \A w \in Addressed : tasks'[w] # << >>
  <3>1. \A r : << r >> # << >> OBVIOUS
  <3> QED BY <1>6, <3>1
 <2> QED BY <1>1, <1>2, <1>3, <2>1 DEF FlowInv, LoadedInv
<1> QED BY <1>1, <1>2, <1>8, <1>9, <1>10, <1>11 DEF RolloutInv, FlowInv, ResultsFit

LEMMA ReplyTakenKeeps ==
  ASSUME RolloutInv, NEW w \in Worker, ReplyTaken(w)
  PROVE  RolloutInv'
<1>1. /\ stage = "recv" /\ replies[w] # << >>
      /\ replies' = [replies EXCEPT ![w] = Tail(@)]
      /\ UNCHANGED << rconfig, todo, known, round, worker, tasks, loaded >>
  BY DEF ReplyTaken
<1>2. FlowInv /\ ResultsFit BY <1>1 DEF RolloutInv
<1>3. /\ Worker' = Worker /\ parallelism' = parallelism /\ Addressed' = Addressed
      /\ Parallelism(rconfig)' = Parallelism(rconfig) /\ \A v : Request(v)' = Request(v)
  BY <1>1, SameRequest
<1>4. CASE w \notin ToSet(known)
 <2>1. Len(known) # Cardinality(Worker) BY <1>2, <1>4, EveryoneIsKnown DEF FlowInv
 <2>2. replies[w] = << READY >> BY <1>1, <1>2, <1>4 DEF FlowInv, ReadyInv
 <2>3. stage' = "raised" /\ results' = results BY <2>2 DEF ReplyTaken
 <2> QED BY <1>1, <1>2, <1>3, <2>1, <2>3 DEF RolloutInv, ResultsFit
<1>5. CASE w \in ToSet(known)
 <2>1. w \in Addressed /\ tasks[w] = << >> /\ replies[w] = << Request(w) >> /\ Request(w) \notin results
   BY <1>1, <1>2, <1>5 DEF FlowInv, AnswerInv
 <2>2. Head(todo) \in {"set_policy_state", "eval", "post_evaluate", "sample"}
   BY <1>1, <1>2 DEF FlowInv, TodoInv
 <2>3. Request(w).index = Index /\ Request(w) # READY /\ Request(w).round = round
       /\ Request(w).type = Head(todo) /\ Request(w).from = w
  <3>1. Request(w).type # READY.type BY <2>2 DEF Request, READY
  <3> QED BY <3>1 DEF Request
 <2>4. Head(replies[w]) = Request(w) /\ Tail(replies[w]) = << >> BY <2>1
 <2>5. stage' = "recv" /\ results' = results \cup {Request(w)}
   BY <1>1, <2>3, <2>4 DEF ReplyTaken
 <2>6. replies'[w] = << >> /\ \A v \in Worker : v # w => replies'[v] = replies[v]
   BY <1>1, <1>2, <2>4 DEF FlowInv, RolloutTypeOK
 <2>7. RolloutTypeOK' /\ KnownInv' /\ TodoInv' /\ LoadedInv'
   BY <1>1, <1>2, <1>3, <2>5 DEF FlowInv, RolloutTypeOK, KnownInv, TodoInv, LoadedInv
 <2>8. ReadyInv' BY <1>1, <1>2, <1>3, <1>5, <2>6 DEF FlowInv, ReadyInv, READY
 <2>9. Addressed \subseteq ToSet(known) /\ ToSet(known) \subseteq Worker
   BY <1>1, <1>2, AddressedAreFirst, ParallelismIsPositive DEF FlowInv, KnownInv
 <2>10. AnswerInv'
  <3>1. \A v \in ToSet(known) : v # w => replies'[v] = replies[v] /\ Request(v) # Request(w)
   <4>1. \A v : v # w => Request(v).from # Request(w).from BY DEF Request
   <4> QED BY <2>6, <2>9, <4>1
  <3>2. \A v \in ToSet(known) : v # w => (Request(v) \in results' <=> Request(v) \in results)
    BY <2>5, <3>1
  <3>3. results' \subseteq { Request(v) : v \in Addressed }
    BY <1>1, <1>2, <2>1, <2>5 DEF FlowInv, AnswerInv
  <3>4. worker'[w] = "up" /\ tasks'[w] = << >> /\ replies'[w] = << >> /\ Request(w) \in results'
    BY <1>1, <1>2, <1>5, <2>1, <2>5, <2>6 DEF FlowInv, AnswerInv
  <3>5. { Request(v) : v \in Addressed }' = { Request(v) : v \in Addressed } BY <1>3
  <3> HIDE DEF Request
  <3> QED BY <1>1, <1>2, <1>3, <2>1, <2>5, <3>1, <3>2, <3>3, <3>4, <3>5 DEF FlowInv, AnswerInv
 <2>11. ResultsFit'
  <3>1. ASSUME Head(todo) = "eval", round > 1, Parallelism(rconfig).sampling >= Parallelism(rconfig).eval
        PROVE  w \in loaded
   <4>1. todo = << "eval", "post_evaluate" >> /\ parallelism = Parallelism(rconfig).eval
     BY <1>1, <1>2, <3>1 DEF FlowInv, TodoInv, parallelism
   <4>2. \A i \in 1 .. Parallelism(rconfig).sampling : known[i] \in loaded
     BY <1>1, <1>2, <3>1, <4>1 DEF FlowInv, LoadedInv
   <4>3. PICK i \in 1 .. parallelism : w = known[i]
     BY <1>1, <1>2, <2>1, AddressedAreFirst, ParallelismIsPositive DEF FlowInv, KnownInv
   <4>4. Parallelism(rconfig).sampling \in Nat /\ Parallelism(rconfig).eval \in Nat
     BY <1>2, ParallelismIsPositive DEF FlowInv
   <4>5. i \in 1 .. Parallelism(rconfig).sampling BY <3>1, <4>1, <4>4
   <4> QED BY <4>2, <4>3, <4>5
  <3> QED BY <1>1, <1>2, <1>3, <2>3, <2>5, <3>1 DEF ResultsFit
 <2> QED BY <2>5, <2>7, <2>8, <2>10, <2>11 DEF RolloutInv, FlowInv
<1> QED BY <1>4, <1>5

\* What is left of the workflow's requests after each of them.
LEMMA RequestsLeft ==
  /\ Tail(<< "set_policy_state", "eval", "post_evaluate" >>) = << "eval", "post_evaluate" >>
  /\ Tail(<< "eval", "post_evaluate" >>) = << "post_evaluate" >>
  /\ Tail(<< "post_evaluate" >>) = << >>
  /\ Tail(<< "sample" >>) = << >>
<1>1. ASSUME NEW a, NEW b, NEW c PROVE Tail(<< a, b, c >>) = << b, c >>
 <2> DEFINE t == Tail(<< a, b, c >>)
 <2>1. t \in Seq({a, b, c}) /\ Len(t) = 2 /\ t[1] = b /\ t[2] = c OBVIOUS
 <2> HIDE DEF t
 <2> QED BY <2>1
<1>2. ASSUME NEW a, NEW b PROVE Tail(<< a, b >>) = << b >>
 <2> DEFINE t == Tail(<< a, b >>)
 <2>1. t \in Seq({a, b}) /\ Len(t) = 1 /\ t[1] = b OBVIOUS
 <2> HIDE DEF t
 <2> QED BY <2>1
<1>3. ASSUME NEW a PROVE Tail(<< a >>) = << >>
  OBVIOUS
<1> QED BY <1>1, <1>2, <1>3

LEMMA CollectEndsKeeps ==
  ASSUME RolloutInv, CollectEnds
  PROVE  RolloutInv'
<1>1. /\ stage = "recv" /\ Cardinality(results) >= parallelism
      /\ stage' = IF Head(todo) = "sample" THEN "raised" ELSE "idle"
      /\ todo' = Tail(todo)
      /\ UNCHANGED << rconfig, known, results, round, worker, tasks, replies, loaded >>
  BY DEF CollectEnds, min_replies
<1>2. FlowInv /\ ResultsFit BY <1>1 DEF RolloutInv
<1>3. Worker' = Worker /\ Parallelism(rconfig)' = Parallelism(rconfig) BY <1>1, SameRequest
<1>4. ResultsFit' BY <1>1, <1>2, <1>3 DEF ResultsFit
<1>5. todo \in { << "set_policy_state", "eval", "post_evaluate" >>, << "eval", "post_evaluate" >>,
                 << "post_evaluate" >>, << "sample" >> }
  BY <1>1, <1>2 DEF FlowInv, TodoInv
<1>6. CASE Head(todo) = "sample"
 <2>1. todo = << "sample" >> BY <1>5, <1>6
 <2> QED BY <1>1, <1>4, <1>6, <2>1, RequestsLeft DEF RolloutInv
<1>7. CASE Head(todo) # "sample"
 <2>1. stage' = "idle" BY <1>1, <1>7
 <2>2. \A w \in Addressed : Request(w) \in results BY <1>1, <1>2, EveryoneAnswered
 <2>3. \A w \in ToSet(known) : worker[w] = "up" /\ tasks[w] = << >> /\ replies[w] = << >>
  <3> SUFFICES ASSUME NEW w \in ToSet(known)
               PROVE  worker[w] = "up" /\ tasks[w] = << >> /\ replies[w] = << >>
    OBVIOUS
  <3>1. CASE w \in Addressed
   <4> HIDE DEF Request
   <4> QED BY <1>1, <1>2, <2>2, <3>1 DEF FlowInv, AnswerInv
  <3>2. CASE w \notin Addressed BY <1>2, <3>2 DEF FlowInv, AnswerInv
  <3> QED BY <3>1, <3>2
 <2>4. RolloutTypeOK' /\ KnownInv' /\ ReadyInv'
   BY <1>1, <1>2, <1>3, <2>1 DEF FlowInv, RolloutTypeOK, KnownInv, ReadyInv, READY
 <2>5. TodoInv' BY <1>1, <1>2, <1>5, <2>1, RequestsLeft DEF FlowInv, TodoInv
 <2>6. AnswerInv' BY <1>1, <2>1, <2>3 DEF AnswerInv
 <2>7. LoadedInv'
  <3>1. ASSUME todo' = << "eval", "post_evaluate" >>
        PROVE  /\ Len(known) >= Parallelism(rconfig).sampling
               /\ \A i \in 1 .. Parallelism(rconfig).sampling : known[i] \in loaded
   <4>1. todo = << "set_policy_state", "eval", "post_evaluate" >>
     BY <1>1, <1>5, <3>1, RequestsLeft, SMTT(30)
   <4>2. parallelism = Parallelism(rconfig).sampling /\ Len(known) >= parallelism
     BY <1>1, <1>2, <4>1 DEF parallelism, FlowInv, KnownInv
   <4>3. Addressed = {known[i] : i \in 1 .. parallelism} /\ Addressed \subseteq ToSet(known)
     BY <1>2, <4>2, AddressedAreFirst, ParallelismIsPositive DEF FlowInv
   <4>4. \A w \in Addressed : w \in loaded
     BY <1>1, <1>2, <2>3, <4>1, <4>3 DEF FlowInv, LoadedInv
   <4> QED BY <4>2, <4>3, <4>4
  <3> QED BY <1>1, <1>3, <2>1, <3>1 DEF LoadedInv
 <2> QED BY <1>4, <2>1, <2>4, <2>5, <2>6, <2>7 DEF RolloutInv, FlowInv
<1> QED BY <1>6, <1>7

LEMMA ControllerExitsKeeps == RolloutInv /\ ControllerExits => RolloutInv'
<1> SUFFICES ASSUME RolloutInv, ControllerExits PROVE RolloutInv'
  OBVIOUS
<1>1. stage' = "exited" /\ UNCHANGED << rconfig, todo, known, results, round, worker, replies, loaded >>
  BY DEF ControllerExits
<1>2. Parallelism(rconfig)' = Parallelism(rconfig) BY <1>1, SameRequest
<1> QED BY <1>1, <1>2 DEF RolloutInv, ResultsFit

LEMMA RolloutInvInit == MainInit => RolloutInv
<1>1. ASSUME NoRollout PROVE RolloutInv BY <1>1 DEF NoRollout, RolloutInv, ResultsFit
<1>2. ASSUME InitRollout PROVE RolloutInv
 <2>1. /\ stage = "idle" /\ known = << >> /\ results = {} /\ round = 0
       /\ worker = [w \in Worker |-> "off"] /\ loaded = {}
       /\ tasks = [w \in Worker |-> << >>] /\ replies = [w \in Worker |-> << >>]
   BY <1>2 DEF InitRollout
 <2>2. RolloutTypeOK BY <1>2, <2>1 DEF InitRollout, RolloutTypeOK
 <2>3. KnownInv BY <2>1 DEF KnownInv
 <2>4. TodoInv
   BY <1>2, <2>1, EvaluateOnlyAssumption DEF InitRollout, RolloutRequests, TodoInv
 <2>5. ToSet(known) = {} BY <2>1 DEF ToSet
 <2>6. ReadyInv /\ AnswerInv /\ LoadedInv BY <2>1, <2>5 DEF ReadyInv, AnswerInv, LoadedInv
 <2> QED BY <2>1, <2>2, <2>3, <2>4, <2>6 DEF RolloutInv, FlowInv, ResultsFit
<1> QED BY <1>1, <1>2 DEF MainInit

LEMMA RolloutInvStep == RolloutInv /\ [MainNext]_all_vars => RolloutInv'
<1> SUFFICES ASSUME RolloutInv, [MainNext]_all_vars PROVE RolloutInv'
  OBVIOUS
<1>1. CASE RolloutNext
 <2>1. ASSUME NEW w \in Worker,
              RolloutWorkerStarts(w) \/ ComputeRollout(w) \/ WorkerIsReady(w) \/ ReplyTaken(w)
       PROVE  RolloutInv'
   BY <2>1, RolloutWorkerStartsKeeps, ComputeRolloutKeeps, WorkerIsReadyKeeps, ReplyTakenKeeps
 <2> QED BY <1>1, <2>1, CollectBeginsKeeps, RequestsSentKeeps, CollectEndsKeeps, ControllerExitsKeeps
         DEF RolloutNext
<1>2. CASE UNCHANGED rollout_vars
 <2>1. UNCHANGED << rconfig, todo, stage, known, results, round, worker, tasks, replies, loaded >>
   BY <1>2 DEF rollout_vars
 <2>2. /\ Worker' = Worker /\ parallelism' = parallelism /\ Addressed' = Addressed
       /\ Parallelism(rconfig)' = Parallelism(rconfig) /\ \A v : Request(v)' = Request(v)
   BY <2>1, SameRequest
 <2>3. FlowInv => FlowInv'
  <3>1. { Request(v) : v \in Addressed }' = { Request(v) : v \in Addressed } BY <2>2
  <3>2. RolloutTypeOK /\ KnownInv /\ TodoInv /\ ReadyInv => RolloutTypeOK' /\ KnownInv' /\ TodoInv' /\ ReadyInv'
    BY <2>1, <2>2 DEF RolloutTypeOK, KnownInv, TodoInv, ReadyInv, READY
  <3>3. AnswerInv => AnswerInv' BY <2>1, <2>2, <3>1 DEF AnswerInv
  <3>4. LoadedInv => LoadedInv' BY <2>1, <2>2 DEF LoadedInv
  <3> QED BY <3>2, <3>3, <3>4 DEF FlowInv
 <2> QED BY <2>1, <2>3, WorkersKeep DEF RolloutInv, Running
<1> QED BY <1>1, <1>2 DEF MainNext, all_vars

(***************************************************************************)
(* The replies that BatchEnvSampler._collect returns answer the request it  *)
(* has just sent, evaluation runs with the policies loaded before, and only *)
(* the announcement of a worker that comes late raises - for any number of  *)
(* workers, in whichever order they start and answer.                       *)
(***************************************************************************)
THEOREM RolloutRepliesFit == MainSpec => []RepliesFit
<1>1. RolloutInv => RepliesFit BY DEF RolloutInv, ResultsFit, RepliesFit
<1> QED BY RolloutInvInit, RolloutInvStep, <1>1, PTL DEF MainSpec
-----------------------------------------------------------------------------
(***************************************************************************)
(* The transitions of the sampler.  An experience is right when it leaves  *)
(* the cache because every element of the cache always says what came      *)
(* after it, as far as it is known (CacheInv): what the agents were asked  *)
(* since, of which the cache has the last decisions, and the index the     *)
(* last place of each agent.                                               *)
(***************************************************************************)

IsSeq(s) == s \in Seq({ s[k] : k \in DOMAIN s })

\* A CacheElement.
IsElement(e) ==
  e = [env |-> e.env, id |-> e.id, tick |-> e.tick, agents |-> e.agents, version |-> e.version,
       terminal |-> e.terminal, next |-> e.next, truncated |-> e.truncated]

\* The elements are those of the last decisions, in order; the index has the last
\* place of each of their agents.
InOrder(elements, index, decisions) ==
  /\ IsSeq(elements) /\ IsSeq(decisions) /\ Len(elements) <= Len(decisions)
  /\ \A j \in 1 .. Len(elements) :
       /\ IsElement(elements[j]) /\ elements[j].env = "learn"
       /\ elements[j].id = Len(decisions) - Len(elements) + j
       /\ elements[j].agents = decisions[elements[j].id]
       /\ \A a \in elements[j].agents : a \in DOMAIN index /\ j <= index[a]
  /\ \A a \in DOMAIN index : index[a] \in 1 .. Len(elements) /\ a \in elements[index[a]].agents

\* An agent that is asked at place j of the cache is asked next at k.
AskedNext(elements, a, j, k) ==
  a \in elements[k].agents /\ \A m \in j + 1 .. k - 1 : a \notin elements[m].agents

\* What an element says of an agent that is asked again.
Followed(elements) ==
  \A j \in 1 .. Len(elements) : \A a \in elements[j].agents : \A k \in j + 1 .. Len(elements) :
    AskedNext(elements, a, j, k) =>
      /\ a \in DOMAIN elements[j].terminal /\ a \in DOMAIN elements[j].next
      /\ elements[j].terminal[a] = FALSE /\ elements[j].next[a] = elements[k].id

\* What the last element of an agent says when a round has ended.
Ended(elements, index, over) ==
  \A a \in DOMAIN index :
    LET e == elements[index[a]]
    IN  a \in DOMAIN e.terminal /\ a \in DOMAIN e.next /\ e.terminal[a] = over /\ e.next[a] = e.id

CacheInv(elements, index, decisions) == InOrder(elements, index, decisions) /\ Followed(elements)

\* What TransitionsAreTrue asks of an experience.
IsTrue(e, decisions, over) ==
  \A a \in e.agents :
    LET later == { k \in (e.id + 1)..Len(decisions) : a \in decisions[k] }
    IN  /\ a \in DOMAIN e.terminal /\ a \in DOMAIN e.next
        /\ later = {} => e.terminal[a] = over /\ e.next[a] = e.id
        /\ later # {} => ~e.terminal[a] /\ e.next[a] = Min(later)

\* The inductive invariant.  The cache is the learning environment's until an
\* evaluation, which ends with the episode; experiences of the episode being
\* played are there only between the end of a round and the next reset.
SamplerInv ==
  /\ end_of_episode \in BOOLEAN
  /\ phase \in {"idle", "outer", "inner", "eval"}
  /\ env \in {"learn", "test"} /\ (phase \in {"outer", "inner"} => env = "learn")
  /\ phase = "eval" => env = "test"
  /\ phase = "idle" /\ env = "test" => end_of_episode
  /\ env = "learn" => CacheInv(cache, last_index, acted)
  /\ phase \in {"outer", "inner"} =>
       /\ IsSeq(experiences) /\ \A j \in 1 .. Len(experiences) : experiences[j].env = "learn"
       /\ earlier \in 0 .. Len(experiences)
       /\ num_steps = Unset => steps_to_go = Infinite
  /\ phase = "inner" => Len(experiences) = earlier
  /\ phase = "outer" =>
       /\ earlier < Len(experiences) => RoundOver
       /\ \A j \in earlier + 1 .. Len(experiences) : IsTrue(experiences[j], acted, end_of_episode)

-----------------------------------------------------------------------------
\* Sequences of any elements.
LEMMA AnySeq ==
  ASSUME NEW n \in Nat, NEW f, f = [k \in 1 .. n |-> f[k]]
  PROVE  IsSeq(f) /\ Len(f) = n /\ DOMAIN f = 1 .. n
<1> DEFINE R == { f[k] : k \in DOMAIN f }
<1>1. DOMAIN f = 1 .. n OBVIOUS
<1>2. \A k \in 1 .. n : f[k] \in R BY <1>1
<1> HIDE DEF R
<1>3. f \in [1 .. n -> R] BY <1>2
<1>4. f \in Seq(R) /\ Len(f) = n BY <1>3, IsASeq
<1> QED BY <1>1, <1>4 DEF IsSeq, R

LEMMA SeqFacts ==
  ASSUME NEW s, IsSeq(s)
  PROVE  /\ Len(s) \in Nat /\ DOMAIN s = 1 .. Len(s)
         /\ s = [k \in 1 .. Len(s) |-> s[k]]
<1> DEFINE R == { s[k] : k \in DOMAIN s }
<1>1. s \in Seq(R) BY DEF IsSeq
<1> HIDE DEF R
<1> QED BY <1>1, LenProperties

LEMMA AppendSeq ==
  ASSUME NEW s, IsSeq(s), NEW e
  PROVE  /\ IsSeq(Append(s, e)) /\ Len(Append(s, e)) = Len(s) + 1
         /\ \A j \in 1 .. Len(s) : Append(s, e)[j] = s[j]
         /\ Append(s, e)[Len(s) + 1] = e
<1> DEFINE R == { s[k] : k \in DOMAIN s } \cup {e}
           t == Append(s, e)
<1>1. s \in Seq(R)
 <2> DEFINE Q == { s[k] : k \in DOMAIN s }
 <2>1. s \in Seq(Q) /\ Q \subseteq R BY DEF IsSeq
 <2> HIDE DEF R, Q
 <2> QED BY <2>1, SeqMonotonic
<1>2. e \in R OBVIOUS
<1> HIDE DEF R
<1>3. /\ t \in Seq(R) /\ Len(t) = Len(s) + 1 /\ Len(s) \in Nat
      /\ \A j \in 1 .. Len(s) : t[j] = s[j]
      /\ t[Len(s) + 1] = e
  BY <1>1, <1>2, AppendProperties, LenProperties
<1> HIDE DEF t
<1>4. t = [k \in 1 .. Len(t) |-> t[k]] /\ Len(t) \in Nat BY <1>3, LenProperties
<1>5. IsSeq(t) BY <1>4, AnySeq
<1> QED BY <1>3, <1>5 DEF t

LEMMA FrontSeq ==
  ASSUME NEW s, IsSeq(s), NEW n \in 0 .. Len(s)
  PROVE  /\ IsSeq(SubSeq(s, 1, n)) /\ Len(SubSeq(s, 1, n)) = n
         /\ \A j \in 1 .. n : SubSeq(s, 1, n)[j] = s[j]
<1> DEFINE t == SubSeq(s, 1, n)
<1>1. Len(s) \in Nat BY SeqFacts
<1>2. t = [k \in 1 .. n |-> s[k]] /\ n \in Nat BY <1>1
<1> HIDE DEF t
<1>3. t = [k \in 1 .. n |-> t[k]] /\ \A j \in 1 .. n : t[j] = s[j] BY <1>2
<1>4. IsSeq(t) /\ Len(t) = n BY <1>2, <1>3, AnySeq
<1> QED BY <1>3, <1>4 DEF t

LEMMA RestSeq ==
  ASSUME NEW s, IsSeq(s), NEW m \in 0 .. Len(s)
  PROVE  /\ IsSeq(SubSeq(s, m + 1, Len(s))) /\ Len(SubSeq(s, m + 1, Len(s))) = Len(s) - m
         /\ \A j \in 1 .. Len(s) - m : SubSeq(s, m + 1, Len(s))[j] = s[m + j]
<1> DEFINE n == Len(s)
           t == SubSeq(s, m + 1, n)
<1>1. n \in Nat BY SeqFacts
<1>2. t = [k \in 1 .. n - m |-> s[m + k]] /\ n - m \in Nat
 <2> HIDE DEF n
 <2> QED BY <1>1 DEF n
<1> HIDE DEF n, t
<1>3. t = [k \in 1 .. n - m |-> t[k]] /\ \A j \in 1 .. n - m : t[j] = s[m + j] BY <1>2
<1>4. IsSeq(t) /\ Len(t) = n - m BY <1>2, <1>3, AnySeq
<1> QED BY <1>3, <1>4 DEF n, t

LEMMA ConcatSeq ==
  ASSUME NEW s, IsSeq(s), NEW t, IsSeq(t)
  PROVE  /\ IsSeq(s \o t) /\ Len(s \o t) = Len(s) + Len(t)
         /\ \A j \in 1 .. Len(s) : (s \o t)[j] = s[j]
         /\ \A j \in 1 .. Len(t) : (s \o t)[Len(s) + j] = t[j]
<1> DEFINE Q == { s[k] : k \in DOMAIN s }
           P == { t[k] : k \in DOMAIN t }
           R == Q \cup P
           u == s \o t
<1>1. s \in Seq(Q) /\ t \in Seq(P) /\ Q \subseteq R /\ P \subseteq R BY DEF IsSeq
<1> HIDE DEF Q, P, R
<1>2. s \in Seq(R) /\ t \in Seq(R) BY <1>1, SeqMonotonic
<1>3. /\ u \in Seq(R) /\ Len(u) = Len(s) + Len(t)
      /\ Len(s) \in Nat /\ Len(t) \in Nat
      /\ \A i \in 1 .. Len(s) + Len(t) : u[i] = IF i <= Len(s) THEN s[i] ELSE t[i - Len(s)]
  BY <1>2, ConcatProperties, LenProperties
<1> HIDE DEF u
<1>4. u = [k \in 1 .. Len(u) |-> u[k]] /\ Len(u) \in Nat BY <1>3, LenProperties
<1>5. IsSeq(u) BY <1>4, AnySeq
<1>6. ASSUME NEW j \in 1 .. Len(t) PROVE u[Len(s) + j] = t[j]
 <2>1. Len(s) + j \in 1 .. Len(s) + Len(t) /\ ~(Len(s) + j <= Len(s)) /\ (Len(s) + j) - Len(s) = j
   BY <1>3, <1>6
 <2> QED BY <1>3, <2>1
<1> QED BY <1>3, <1>5, <1>6 DEF u

\* The first of some natural numbers.
LEMMA FirstOf ==
  ASSUME NEW T, T \subseteq Nat, T # {}
  PROVE  \E m \in T : \A u \in T : m <= u
<1> DEFINE R == {p \in Nat \X Nat : p[1] < p[2]}
<1>0. IsWellFoundedOn(R, Nat) BY NatLessThanWellFounded, Zenon DEF OpToRel
<1> HIDE DEF R
<1>1. PICK m \in T : \A u \in T : ~(<<u, m>> \in R) BY <1>0, WFMin, Zenon
<1>2. ASSUME NEW u \in T PROVE m <= u
 <2>1. m \in Nat /\ u \in Nat /\ <<u, m>> \in Nat \X Nat BY <1>1, <1>2
 <2>2. ~(u < m) BY <1>1, <1>2, <2>1 DEF R
 <2> QED BY <2>1, <2>2
<1> QED BY <1>1, <1>2

\* The elements to return are at the front of the cache.
LEMMA RipeBounds ==
  ASSUME NEW elements, IsSeq(elements)
  PROVE  Ripe(elements) \in 0 .. Len(elements)
<1> DEFINE young == { i \in 1 .. Len(elements) : elements[i].tick > TickBound }
           P(i) == i \in young /\ \A j \in young : i <= j
<1>1. Len(elements) \in Nat BY SeqFacts
<1>2. CASE young = {} BY <1>1, <1>2 DEF Ripe
<1>3. CASE young # {}
 <2> DEFINE m == CHOOSE i \in young : \A j \in young : i <= j
 <2>1. young \subseteq Nat OBVIOUS
 <2> HIDE DEF young
 <2>2. \E i \in young : \A j \in young : i <= j BY <1>3, <2>1, FirstOf
 <2>3. m \in young BY <2>2
 <2>4. Ripe(elements) = m - 1 BY <1>3 DEF Ripe, young
 <2> HIDE DEF m
 <2>5. m \in 1 .. Len(elements) BY <2>3 DEF young
 <2> QED BY <1>1, <2>4, <2>5
<1> QED BY <1>2, <1>3

\* An element x of which the agents of A learn a terminal flag and a next state.
Marked(x, A, flag, state) ==
  [x EXCEPT !.terminal = Assigned(@, A, flag), !.next = Assigned(@, A, state)]

LEMMA MarkedFacts ==
  ASSUME NEW x, IsElement(x), NEW A, NEW flag, NEW state
  PROVE  LET y == Marked(x, A, flag, state)
         IN  /\ IsElement(y) /\ y.env = x.env /\ y.id = x.id /\ y.agents = x.agents
             /\ y.tick = x.tick /\ y.version = x.version
             /\ \A a \in A : /\ a \in DOMAIN y.terminal /\ a \in DOMAIN y.next
                             /\ y.terminal[a] = flag /\ y.next[a] = state
             /\ \A a : a \notin A /\ a \in DOMAIN x.terminal =>
                         a \in DOMAIN y.terminal /\ y.terminal[a] = x.terminal[a]
             /\ \A a : a \notin A /\ a \in DOMAIN x.next =>
                         a \in DOMAIN y.next /\ y.next[a] = x.next[a]
<1> DEFINE f == Assigned(x.terminal, A, flag)
           g == Assigned(x.next, A, state)
           y == Marked(x, A, flag, state)
<1>1. \A a \in A : a \in DOMAIN f /\ f[a] = flag /\ a \in DOMAIN g /\ g[a] = state
  BY DEF Assigned
<1>2. \A a : a \notin A /\ a \in DOMAIN x.terminal => a \in DOMAIN f /\ f[a] = x.terminal[a]
  BY DEF Assigned
<1>3. \A a : a \notin A /\ a \in DOMAIN x.next => a \in DOMAIN g /\ g[a] = x.next[a]
  BY DEF Assigned
<1>4. y = [env |-> x.env, id |-> x.id, tick |-> x.tick, agents |-> x.agents, version |-> x.version,
           terminal |-> f, next |-> g, truncated |-> x.truncated]
 <2> DEFINE z == [x EXCEPT !.terminal = f]
 <2>1. x = [env |-> x.env, id |-> x.id, tick |-> x.tick, agents |-> x.agents, version |-> x.version,
            terminal |-> x.terminal, next |-> x.next, truncated |-> x.truncated]
   BY DEF IsElement
 <2>2. y = [z EXCEPT !.next = g] BY DEF Marked
 <2> HIDE DEF f, g, y
 <2>3. z = [env |-> x.env, id |-> x.id, tick |-> x.tick, agents |-> x.agents, version |-> x.version,
            terminal |-> f, next |-> x.next, truncated |-> x.truncated]
   BY <2>1
 <2> HIDE DEF z
 <2> QED BY <2>2, <2>3
<1> HIDE DEF f, g, y
<1>5. /\ IsElement(y) /\ y.env = x.env /\ y.id = x.id /\ y.agents = x.agents /\ y.terminal = f /\ y.next = g
      /\ y.tick = x.tick /\ y.version = x.version
  BY <1>4 DEF IsElement
<1>6. SUFFICES
        /\ IsElement(y) /\ y.env = x.env /\ y.id = x.id /\ y.agents = x.agents
        /\ y.tick = x.tick /\ y.version = x.version
        /\ \A a \in A : /\ a \in DOMAIN y.terminal /\ a \in DOMAIN y.next
                        /\ y.terminal[a] = flag /\ y.next[a] = state
        /\ \A a : a \notin A /\ a \in DOMAIN x.terminal =>
                    a \in DOMAIN y.terminal /\ y.terminal[a] = x.terminal[a]
        /\ \A a : a \notin A /\ a \in DOMAIN x.next =>
                    a \in DOMAIN y.next /\ y.next[a] = x.next[a]
  BY DEF y
<1> QED BY <1>1, <1>2, <1>3, <1>5

\* The agents of B whose last element is at place i.
LastAt(B, index, i) == { a \in B : index[a] = i }

\* _append_cache_element with the element of a new decision.
LEMMA FollowedKeeps ==
  ASSUME NEW elements, NEW index, NEW decisions, CacheInv(elements, index, decisions),
         NEW e, IsElement(e), e.env = "learn", e.id = Len(decisions) + 1
  PROVE  CacheInv(FollowedBy(elements, index, e)[1], FollowedBy(elements, index, e)[2],
                  Append(decisions, e.agents))
<1> DEFINE n == Len(elements)
           B == e.agents \cap DOMAIN index
           no == FALSE
           F == [i \in 1 .. n |-> Marked(elements[i], LastAt(B, index, i), no, e.id)]
           s == Append(F, e)
           x == Assigned(index, e.agents, n + 1)
           d == Append(decisions, e.agents)
<1>1. FollowedBy(elements, index, e) = << s, x >> BY DEF FollowedBy, Marked, LastAt
<1> HIDE DEF no
<1>2. /\ IsSeq(elements) /\ IsSeq(decisions) /\ n <= Len(decisions)
      /\ \A j \in 1 .. n :
           /\ IsElement(elements[j]) /\ elements[j].env = "learn"
           /\ elements[j].id = Len(decisions) - n + j
           /\ elements[j].agents = decisions[elements[j].id]
           /\ \A a \in elements[j].agents : a \in DOMAIN index /\ j <= index[a]
      /\ \A a \in DOMAIN index : index[a] \in 1 .. n /\ a \in elements[index[a]].agents
  BY DEF CacheInv, InOrder
<1>3. n \in Nat /\ Len(decisions) \in Nat BY <1>2, SeqFacts
<1>4. IsSeq(F) /\ Len(F) = n
 <2>1. F = [k \in 1 .. n |-> F[k]] OBVIOUS
 <2> HIDE DEF F, n
 <2> QED BY <1>3, <2>1, AnySeq
<1>5. /\ IsSeq(s) /\ Len(s) = n + 1 /\ s[n + 1] = e
      /\ \A j \in 1 .. n : s[j] = Marked(elements[j], LastAt(B, index, j), no, e.id)
 <2>1. \A j \in 1 .. n : F[j] = Marked(elements[j], LastAt(B, index, j), no, e.id)
   OBVIOUS
 <2> HIDE DEF F, n, B
 <2>2. IsSeq(s) /\ Len(s) = n + 1 /\ s[n + 1] = e /\ \A j \in 1 .. n : s[j] = F[j]
   BY <1>4, AppendSeq
 <2> QED BY <2>1, <2>2
<1>6. /\ IsSeq(d) /\ Len(d) = Len(decisions) + 1 /\ d[Len(decisions) + 1] = e.agents
      /\ \A j \in 1 .. Len(decisions) : d[j] = decisions[j]
  BY <1>2, AppendSeq
<1>7. /\ DOMAIN x = e.agents \cup DOMAIN index
      /\ \A a \in e.agents : x[a] = n + 1
      /\ \A a \in DOMAIN index : a \notin e.agents => x[a] = index[a]
  BY DEF Assigned
<1> HIDE DEF n, F, s, x, d
<1>8. \A j \in 1 .. n :
        /\ IsElement(s[j]) /\ s[j].env = "learn" /\ s[j].id = elements[j].id
        /\ s[j].agents = elements[j].agents
  BY <1>2, <1>5, MarkedFacts
<1>9. InOrder(s, x, d)
 <2>1. Len(s) <= Len(d) BY <1>2, <1>3, <1>5, <1>6
 <2>2. ASSUME NEW j \in 1 .. Len(s)
       PROVE  /\ IsElement(s[j]) /\ s[j].env = "learn" /\ s[j].id = Len(d) - Len(s) + j
              /\ s[j].agents = d[s[j].id]
              /\ \A a \in s[j].agents : a \in DOMAIN x /\ j <= x[a]
  <3>1. CASE j = n + 1
   <4>1. s[j] = e /\ Len(d) - Len(s) + j = Len(decisions) + 1 BY <1>3, <1>5, <1>6, <3>1
   <4> QED BY <1>3, <1>6, <1>7, <3>1, <4>1
  <3>2. CASE j \in 1 .. n
   <4>1. s[j].id = Len(d) - Len(s) + j /\ s[j].id \in 1 .. Len(decisions)
     BY <1>2, <1>3, <1>5, <1>6, <1>8, <3>2
   <4>2. s[j].agents = d[s[j].id] BY <1>2, <1>6, <1>8, <3>2, <4>1
   <4>3. ASSUME NEW a \in s[j].agents PROVE a \in DOMAIN x /\ j <= x[a]
    <5>1. a \in DOMAIN index /\ j <= index[a] BY <1>2, <1>8, <3>2, <4>3
    <5>2. a \in e.agents => x[a] = n + 1 BY <1>7
    <5>3. a \notin e.agents => x[a] = index[a] BY <1>7, <5>1
    <5>4. a \in DOMAIN x BY <1>7, <5>1
    <5> QED BY <1>3, <3>2, <5>1, <5>2, <5>3, <5>4
   <4> QED BY <1>8, <3>2, <4>1, <4>2, <4>3
  <3> QED BY <1>3, <1>5, <2>2, <3>1, <3>2
 <2>3. ASSUME NEW a \in DOMAIN x PROVE x[a] \in 1 .. Len(s) /\ a \in s[x[a]].agents
  <3>1. CASE a \in e.agents BY <1>3, <1>5, <1>7, <3>1
  <3>2. CASE a \notin e.agents
   <4>1. a \in DOMAIN index /\ x[a] = index[a] /\ x[a] \in 1 .. n BY <1>2, <1>7, <2>3, <3>2
   <4> QED BY <1>2, <1>3, <1>5, <1>8, <4>1
  <3> QED BY <3>1, <3>2
 <2> QED BY <1>5, <1>6, <2>1, <2>2, <2>3 DEF InOrder
<1>10. Followed(s)
 <2> SUFFICES ASSUME NEW j \in 1 .. Len(s), NEW a \in s[j].agents, NEW k \in j + 1 .. Len(s),
                     AskedNext(s, a, j, k)
              PROVE  /\ a \in DOMAIN s[j].terminal /\ a \in DOMAIN s[j].next
                     /\ s[j].terminal[a] = no /\ s[j].next[a] = s[k].id
   BY DEF Followed, no
 <2>1. j \in 1 .. n /\ a \in elements[j].agents /\ a \in DOMAIN index /\ j <= index[a]
   BY <1>2, <1>3, <1>5, <1>8
 <2>2. s[j] = Marked(elements[j], LastAt(B, index, j), no, e.id) BY <1>5, <2>1
 <2>3. index[a] \in 1 .. n /\ a \in elements[index[a]].agents /\ a \in s[index[a]].agents
   BY <1>2, <1>8, <2>1
 <2>4. CASE k = n + 1
  <3>1. index[a] = j
   <4> SUFFICES ASSUME index[a] # j PROVE FALSE
     OBVIOUS
   <4>1. index[a] \in j + 1 .. k - 1 BY <1>3, <2>1, <2>3, <2>4
   <4> QED BY <2>3, <4>1 DEF AskedNext
  <3>2. s[k] = e /\ a \in e.agents BY <1>5, <2>4 DEF AskedNext
  <3>3. a \in LastAt(B, index, j) BY <2>1, <3>1, <3>2 DEF LastAt
  <3> QED BY <1>2, <2>1, <2>2, <3>2, <3>3, MarkedFacts
 <2>5. CASE k \in j + 1 .. n
  <3>1. AskedNext(elements, a, j, k)
   <4>1. k \in 1 .. n /\ \A m \in j + 1 .. k - 1 : m \in 1 .. n BY <1>3, <2>1, <2>5
   <4> QED BY <1>8, <4>1 DEF AskedNext
  <3>2. k \in 1 .. n /\ k <= index[a] /\ s[k].id = elements[k].id
   <4>1. k \in 1 .. n BY <1>3, <2>1, <2>5
   <4>2. a \in elements[k].agents BY <3>1 DEF AskedNext
   <4> QED BY <1>2, <1>8, <4>1, <4>2
  <3>3. a \notin LastAt(B, index, j) BY <1>3, <2>1, <2>3, <2>5, <3>2 DEF LastAt
  <3>4. /\ a \in DOMAIN elements[j].terminal /\ a \in DOMAIN elements[j].next
        /\ elements[j].terminal[a] = no /\ elements[j].next[a] = elements[k].id
    BY <2>1, <2>5, <3>1 DEF CacheInv, Followed, n, no
  <3> QED BY <1>2, <2>1, <2>2, <3>2, <3>3, <3>4, MarkedFacts
 <2> QED BY <1>3, <1>5, <2>1, <2>4, <2>5
<1> QED BY <1>1, <1>9, <1>10 DEF CacheInv, s, x, d, F, n, no

\* _append_cache_element(None) at the end of a round.
LEMMA ClosedKeeps ==
  ASSUME NEW elements, NEW index, NEW decisions, CacheInv(elements, index, decisions)
  PROVE  /\ CacheInv(Closed(elements, index), index, decisions)
         /\ Ended(Closed(elements, index), index, end_of_episode)
<1> DEFINE n == Len(elements)
           B == DOMAIN index
           over == end_of_episode
           C == Closed(elements, index)
<1>1. C = [i \in 1 .. n |-> Marked(elements[i], LastAt(B, index, i), over, elements[i].id)]
  BY DEF Closed, Marked, LastAt
<1> HIDE DEF over
<1>2. /\ IsSeq(elements) /\ IsSeq(decisions) /\ n <= Len(decisions)
      /\ \A j \in 1 .. n :
           /\ IsElement(elements[j]) /\ elements[j].env = "learn"
           /\ elements[j].id = Len(decisions) - n + j
           /\ elements[j].agents = decisions[elements[j].id]
           /\ \A a \in elements[j].agents : a \in DOMAIN index /\ j <= index[a]
      /\ \A a \in DOMAIN index : index[a] \in 1 .. n /\ a \in elements[index[a]].agents
  BY DEF CacheInv, InOrder
<1>3. n \in Nat /\ Len(decisions) \in Nat BY <1>2, SeqFacts
<1> HIDE DEF n, C, B
<1>4. \A j \in 1 .. n : C[j] = Marked(elements[j], LastAt(B, index, j), over, elements[j].id)
  BY <1>1
<1>5. IsSeq(C) /\ Len(C) = n
 <2>1. C = [k \in 1 .. n |-> C[k]] BY <1>1
 <2> QED BY <1>3, <2>1, AnySeq
<1>6. \A j \in 1 .. n :
        /\ IsElement(C[j]) /\ C[j].env = "learn" /\ C[j].id = elements[j].id
        /\ C[j].agents = elements[j].agents
  BY <1>2, <1>4, MarkedFacts
<1>7. InOrder(C, index, decisions) BY <1>2, <1>5, <1>6 DEF InOrder
<1>8. Followed(C)
 <2> DEFINE no == FALSE
 <2> SUFFICES ASSUME NEW j \in 1 .. n, NEW a \in C[j].agents, NEW k \in j + 1 .. n,
                     AskedNext(C, a, j, k)
              PROVE  /\ a \in DOMAIN C[j].terminal /\ a \in DOMAIN C[j].next
                     /\ C[j].terminal[a] = no /\ C[j].next[a] = C[k].id
   BY <1>5 DEF Followed
 <2> HIDE DEF no
 <2>1. k \in 1 .. n /\ \A m \in j + 1 .. k - 1 : m \in 1 .. n BY <1>3
 <2>2. AskedNext(elements, a, j, k) BY <1>6, <2>1 DEF AskedNext
 <2>3. a \in elements[k].agents /\ a \in elements[j].agents BY <1>6, <2>2 DEF AskedNext
 <2>4. k <= index[a] /\ index[a] \in 1 .. n BY <1>2, <2>1, <2>3
 <2>5. a \notin LastAt(B, index, j) BY <1>3, <2>4 DEF LastAt
 <2>6. /\ a \in DOMAIN elements[j].terminal /\ a \in DOMAIN elements[j].next
       /\ elements[j].terminal[a] = no /\ elements[j].next[a] = elements[k].id
   BY <2>2, <2>3 DEF CacheInv, Followed, n, no
 <2> QED BY <1>2, <1>4, <1>6, <2>1, <2>5, <2>6, MarkedFacts
<1>9. ASSUME NEW a \in DOMAIN index
      PROVE  /\ a \in DOMAIN C[index[a]].terminal /\ a \in DOMAIN C[index[a]].next
             /\ C[index[a]].terminal[a] = over /\ C[index[a]].next[a] = C[index[a]].id
 <2>1. index[a] \in 1 .. n /\ a \in LastAt(B, index, index[a]) BY <1>2, <1>9 DEF LastAt, B
 <2> QED BY <1>2, <1>4, <1>6, <2>1, MarkedFacts
<1>10. Ended(C, index, over) BY <1>9 DEF Ended
<1> QED BY <1>7, <1>8, <1>10 DEF CacheInv, C, over

\* m elements leave the front of the cache.
LEMMA ShiftKeeps ==
  ASSUME NEW elements, NEW index, NEW decisions, CacheInv(elements, index, decisions),
         NEW m \in 0 .. Len(elements)
  PROVE  CacheInv(SubSeq(elements, m + 1, Len(elements)), ShiftedIndex(index, m), decisions)
<1> DEFINE n == Len(elements)
           s == SubSeq(elements, m + 1, n)
           x == ShiftedIndex(index, m)
<1>1. /\ IsSeq(elements) /\ IsSeq(decisions) /\ n <= Len(decisions)
      /\ \A j \in 1 .. n :
           /\ IsElement(elements[j]) /\ elements[j].env = "learn"
           /\ elements[j].id = Len(decisions) - n + j
           /\ elements[j].agents = decisions[elements[j].id]
           /\ \A a \in elements[j].agents : a \in DOMAIN index /\ j <= index[a]
      /\ \A a \in DOMAIN index : index[a] \in 1 .. n /\ a \in elements[index[a]].agents
  BY DEF CacheInv, InOrder
<1>2. n \in Nat /\ Len(decisions) \in Nat /\ m \in 0 .. n BY <1>1, SeqFacts
<1>3. /\ IsSeq(s) /\ Len(s) = n - m
      /\ \A j \in 1 .. n - m : s[j] = elements[m + j] /\ m + j \in 1 .. n
 <2>1. IsSeq(s) /\ Len(s) = n - m /\ \A j \in 1 .. n - m : s[j] = elements[m + j]
   BY <1>1, RestSeq
 <2>2. \A j \in 1 .. n - m : m + j \in 1 .. n BY <1>2
 <2> QED BY <2>1, <2>2
<1>4. /\ DOMAIN x = { a \in DOMAIN index : index[a] > m }
      /\ \A a \in DOMAIN x : x[a] = index[a] - m
  BY DEF ShiftedIndex
<1> HIDE DEF n, s, x
<1>5. InOrder(s, x, decisions)
 <2>1. Len(s) <= Len(decisions) BY <1>1, <1>2, <1>3
 <2>2. ASSUME NEW j \in 1 .. Len(s)
       PROVE  /\ IsElement(s[j]) /\ s[j].env = "learn" /\ s[j].id = Len(decisions) - Len(s) + j
              /\ s[j].agents = decisions[s[j].id]
              /\ \A a \in s[j].agents : a \in DOMAIN x /\ j <= x[a]
  <3>1. s[j] = elements[m + j] /\ m + j \in 1 .. n BY <1>3, <2>2
  <3>2. s[j].id = Len(decisions) - Len(s) + j BY <1>1, <1>2, <1>3, <3>1
  <3>3. ASSUME NEW a \in s[j].agents PROVE a \in DOMAIN x /\ j <= x[a]
   <4>1. a \in DOMAIN index /\ m + j <= index[a] /\ index[a] \in 1 .. n BY <1>1, <3>1, <3>3
   <4>2. index[a] > m BY <1>2, <1>3, <4>1
   <4>3. x[a] = index[a] - m /\ a \in DOMAIN x BY <1>4, <4>1, <4>2
   <4> QED BY <1>2, <1>3, <4>1, <4>3
  <3> QED BY <1>1, <3>1, <3>2, <3>3
 <2>3. ASSUME NEW a \in DOMAIN x PROVE x[a] \in 1 .. Len(s) /\ a \in s[x[a]].agents
  <3>1. a \in DOMAIN index /\ index[a] > m /\ x[a] = index[a] - m
        /\ index[a] \in 1 .. n /\ a \in elements[index[a]].agents
    BY <1>1, <1>4, <2>3
  <3>2. x[a] \in 1 .. n - m /\ m + x[a] = index[a] BY <1>2, <3>1
  <3> QED BY <1>3, <3>1, <3>2
 <2> QED BY <1>1, <1>3, <2>1, <2>2, <2>3 DEF InOrder
<1>6. Followed(s)
 <2> DEFINE no == FALSE
 <2> SUFFICES ASSUME NEW j \in 1 .. n - m, NEW a \in s[j].agents, NEW k \in j + 1 .. n - m,
                     AskedNext(s, a, j, k)
              PROVE  /\ a \in DOMAIN s[j].terminal /\ a \in DOMAIN s[j].next
                     /\ s[j].terminal[a] = no /\ s[j].next[a] = s[k].id
   BY <1>3 DEF Followed
 <2> HIDE DEF no
 <2>1. /\ k \in 1 .. n - m /\ s[j] = elements[m + j] /\ s[k] = elements[m + k]
       /\ m + j \in 1 .. n /\ m + k \in (m + j) + 1 .. n
   BY <1>2, <1>3
 <2>2. ASSUME NEW i \in (m + j) + 1 .. (m + k) - 1 PROVE a \notin elements[i].agents
  <3>1. i - m \in j + 1 .. k - 1 /\ i - m \in 1 .. n - m /\ m + (i - m) = i
    BY <1>2, <2>1, <2>2
  <3>2. s[i - m] = elements[i] BY <1>3, <3>1
  <3> QED BY <3>1, <3>2 DEF AskedNext
 <2>3. AskedNext(elements, a, m + j, m + k) BY <2>1, <2>2 DEF AskedNext
 <2> QED BY <2>1, <2>3 DEF CacheInv, Followed, n, no
<1> QED BY <1>5, <1>6 DEF CacheInv, s, x, n

\* A closed cache says of every decision what came after it.
LEMMA ClosedIsTrue ==
  ASSUME NEW elements, NEW index, NEW decisions, CacheInv(elements, index, decisions),
         NEW over, Ended(elements, index, over)
  PROVE  \A j \in 1 .. Len(elements) : IsTrue(elements[j], decisions, over)
<1> DEFINE n == Len(elements)
           gone == Len(decisions) - n
<1>1. /\ IsSeq(elements) /\ IsSeq(decisions) /\ n <= Len(decisions)
      /\ \A j \in 1 .. n :
           /\ elements[j].id = gone + j
           /\ elements[j].agents = decisions[gone + j]
           /\ \A a \in elements[j].agents : a \in DOMAIN index /\ j <= index[a]
      /\ \A a \in DOMAIN index : index[a] \in 1 .. n /\ a \in elements[index[a]].agents
  BY DEF CacheInv, InOrder
<1>2. n \in Nat /\ Len(decisions) \in Nat /\ gone \in Nat /\ Len(decisions) = gone + n
 <2>1. n \in Nat /\ Len(decisions) \in Nat BY <1>1, SeqFacts
 <2> HIDE DEF n
 <2> QED BY <1>1, <2>1
<1> HIDE DEF n, gone
<1> SUFFICES ASSUME NEW j \in 1 .. n, NEW a \in elements[j].agents
             PROVE  LET e == elements[j]
                        later == { k \in (e.id + 1)..Len(decisions) : a \in decisions[k] }
                    IN  /\ a \in DOMAIN e.terminal /\ a \in DOMAIN e.next
                        /\ later = {} => e.terminal[a] = over /\ e.next[a] = e.id
                        /\ later # {} => ~e.terminal[a] /\ e.next[a] = Min(later)
  BY DEF IsTrue, n
<1> DEFINE e == elements[j]
           later == { k \in (e.id + 1)..Len(decisions) : a \in decisions[k] }
           no == FALSE
<1>3. /\ e.id = gone + j /\ a \in DOMAIN index /\ j <= index[a]
      /\ index[a] \in 1 .. n /\ a \in elements[index[a]].agents
  BY <1>1
<1>4. \A k : k \in later <=> k \in (gone + j) + 1 .. gone + n /\ a \in decisions[k]
  BY <1>2, <1>3
<1> HIDE DEF e, later, no
<1>5. \A i \in j + 1 .. n : a \in elements[i].agents <=> gone + i \in later
 <2> SUFFICES ASSUME NEW i \in j + 1 .. n
              PROVE  a \in elements[i].agents <=> gone + i \in later
   OBVIOUS
 <2>1. i \in 1 .. n /\ gone + i \in (gone + j) + 1 .. gone + n BY <1>2
 <2> QED BY <1>1, <1>4, <2>1
<1>6. CASE later = {}
 <2>1. index[a] = j
  <3> SUFFICES ASSUME index[a] # j PROVE FALSE
    OBVIOUS
  <3>1. index[a] \in j + 1 .. n BY <1>2, <1>3
  <3> QED BY <1>3, <1>5, <1>6, <3>1
 <2>2. a \in DOMAIN e.terminal /\ a \in DOMAIN e.next /\ e.terminal[a] = over /\ e.next[a] = e.id
   BY <1>3, <2>1 DEF Ended, e
 <2> QED BY <1>6, <2>2 DEF e, later
<1>7. CASE later # {}
 <2>1. later \subseteq Nat BY <1>2, <1>4
 <2>2. \E m \in later : \A u \in later : m <= u BY <1>7, <2>1, FirstOf
 <2> DEFINE m == Min(later)
 <2>3. m \in later /\ \A u \in later : m <= u BY <2>2 DEF Min
 <2> HIDE DEF m
 <2>4. PICK k \in j + 1 .. n : m = gone + k
  <3>1. m - gone \in j + 1 .. n /\ m = gone + (m - gone) BY <1>2, <1>4, <2>3
  <3> QED BY <3>1
 <2>5. AskedNext(elements, a, j, k)
  <3>1. a \in elements[k].agents BY <1>5, <2>3, <2>4
  <3>2. ASSUME NEW i \in j + 1 .. k - 1, a \in elements[i].agents PROVE FALSE
   <4>1. i \in j + 1 .. n /\ ~(gone + k <= gone + i) BY <1>2, <3>2
   <4>2. gone + i \in later BY <1>5, <3>2, <4>1
   <4> QED BY <2>3, <2>4, <4>1, <4>2
  <3> QED BY <3>1, <3>2 DEF AskedNext
 <2>6. elements[k].id = m BY <1>1, <1>2, <2>4
 <2>7. a \in DOMAIN e.terminal /\ a \in DOMAIN e.next /\ e.terminal[a] = no /\ e.next[a] = m
   BY <2>5, <2>6 DEF CacheInv, Followed, e, no, n
 <2>8. a \in DOMAIN e.terminal /\ a \in DOMAIN e.next /\ ~e.terminal[a] /\ e.next[a] = m
   BY <2>7, Zenon DEF no
 <2> QED BY <1>7, <2>8 DEF e, later, m
<1> QED BY <1>6, <1>7

LEMMA NothingCached == CacheInv(<< >>, << >>, << >>)
<1>1. IsSeq(<< >>) /\ Len(<< >>) = 0 /\ DOMAIN << >> = {} BY DEF IsSeq
<1> QED BY <1>1 DEF CacheInv, InOrder, Followed

LEMMA SampleBeginsKeeps ==
  ASSUME SamplerInv, phase = "idle", SampleBegins, UNCHANGED sampler_config
  PROVE  SamplerInv'
<1>1. /\ phase' = "outer" /\ env' = "learn" /\ experiences' = << >> /\ earlier' = 0
      /\ steps_to_go' = IF num_steps = Unset THEN Infinite ELSE num_steps
      /\ num_steps' = num_steps
  BY DEF SampleBegins, sampler_config
<1>2. end_of_episode' \in BOOLEAN /\ CacheInv(cache', last_index', acted')
 <2>1. CASE end_of_episode BY <2>1, NothingCached DEF SampleBegins, ResetEnv, StepEnv
 <2>2. CASE ~end_of_episode
  <3>1. env = "learn" BY <2>2 DEF SamplerInv
  <3>2. UNCHANGED << cache, last_index, acted, end_of_episode >> BY <2>2 DEF SampleBegins
  <3> QED BY <3>1, <3>2 DEF SamplerInv
 <2> QED BY <2>1, <2>2
<1>3. IsSeq(<< >>) /\ Len(<< >>) = 0 BY DEF IsSeq
<1> QED BY <1>1, <1>2, <1>3 DEF SamplerInv

LEMMA RoundBeginsKeeps ==
  ASSUME SamplerInv, RoundBegins, UNCHANGED sampler_config
  PROVE  SamplerInv'
<1>1. /\ phase = "outer" /\ phase' = "inner" /\ env = "learn" /\ num_steps' = num_steps
      /\ UNCHANGED << env, steps_to_go, experiences >>
  BY DEF RoundBegins, SamplerInv, sampler_config
<1>2. Len(experiences) \in Nat /\ earlier \in 0 .. Len(experiences)
  BY <1>1, SeqFacts DEF SamplerInv
<1>3. /\ end_of_episode' \in BOOLEAN /\ CacheInv(cache', last_index', acted')
      /\ earlier' = Len(experiences)
 <2>1. CASE end_of_episode \/ truncated
   BY <2>1, NothingCached DEF RoundBegins, ResetEnv, StepEnv
 <2>2. CASE ~(end_of_episode \/ truncated)
  <3>1. UNCHANGED << cache, last_index, acted, end_of_episode, earlier >>
    BY <2>2 DEF RoundBegins
  <3>2. steps_to_go # 0 BY <1>1, <2>2 DEF RoundBegins, SampleDone, SamplerInv, Infinite
  <3>3. ~RoundOver BY <2>2, <3>2 DEF RoundOver
  <3>4. ~(earlier < Len(experiences)) BY <1>1, <3>3 DEF SamplerInv
  <3> QED BY <1>1, <1>2, <3>1, <3>4 DEF SamplerInv
 <2> QED BY <2>1, <2>2
<1>4. earlier' \in 0 .. Len(experiences') BY <1>1, <1>2, <1>3
<1> QED BY <1>1, <1>3, <1>4 DEF SamplerInv

LEMMA SampleStepsKeeps ==
  ASSUME SamplerInv, NEW version, SampleSteps(version), UNCHANGED sampler_config
  PROVE  SamplerInv'
<1> DEFINE e == CacheElement(version, length + 1)
           r == FollowedBy(cache, last_index, e)
<1>1. /\ phase = "inner" /\ env = "learn" /\ num_steps' = num_steps
      /\ cache' = r[1] /\ last_index' = r[2] /\ acted' = Append(acted, asked \cap TrainableAgents)
      /\ steps_to_go' = (IF steps_to_go = Infinite THEN Infinite ELSE steps_to_go - 1)
      /\ UNCHANGED << phase, env, experiences, earlier >>
  BY DEF SampleSteps, SamplerInv, sampler_config
<1>2. /\ IsElement(e) /\ e.env = "learn" /\ e.id = Len(acted) + 1
      /\ e.agents = asked \cap TrainableAgents
  BY <1>1 DEF CacheElement, IsElement
<1>3. CacheInv(cache, last_index, acted) BY <1>1 DEF SamplerInv
<1> HIDE DEF e
<1>4. CacheInv(r[1], r[2], Append(acted, e.agents)) BY <1>2, <1>3, FollowedKeeps
<1>5. end_of_episode' \in BOOLEAN BY DEF SampleSteps, StepEnv
<1> HIDE DEF r
<1> QED BY <1>1, <1>2, <1>4, <1>5 DEF SamplerInv

LEMMA RoundCollectedKeeps ==
  ASSUME SamplerInv, RoundCollected, UNCHANGED sampler_config
  PROVE  SamplerInv'
<1> DEFINE closed == Closed(cache, last_index)
           n == Ripe(closed)
           front == SubSeq(closed, 1, n)
           rest == SubSeq(closed, n + 1, Len(closed))
           over == end_of_episode
<1>1. /\ phase = "inner" /\ RoundOver /\ phase' = "outer" /\ env = "learn"
      /\ experiences' = experiences \o front
      /\ cache' = rest /\ last_index' = ShiftedIndex(last_index, n)
      /\ UNCHANGED << env, end_of_episode, length, steps_to_go, earlier, acted >>
  BY DEF RoundCollected, SamplerInv
<1>2. /\ CacheInv(cache, last_index, acted) /\ IsSeq(experiences)
      /\ \A j \in 1 .. Len(experiences) : experiences[j].env = "learn"
      /\ earlier = Len(experiences) /\ over \in BOOLEAN
      /\ num_steps = Unset => steps_to_go = Infinite
  BY <1>1 DEF SamplerInv
<1>3. CacheInv(closed, last_index, acted) /\ Ended(closed, last_index, over)
  BY <1>2, ClosedKeeps
<1> HIDE DEF closed, over
<1>4. /\ IsSeq(closed) /\ \A j \in 1 .. Len(closed) : closed[j].env = "learn"
  BY <1>3 DEF CacheInv, InOrder
<1>5. n \in 0 .. Len(closed) /\ Len(closed) \in Nat BY <1>4, RipeBounds, SeqFacts
<1> HIDE DEF n
<1>6. CacheInv(rest, ShiftedIndex(last_index, n), acted) BY <1>3, <1>5, ShiftKeeps
<1>7. \A j \in 1 .. Len(closed) : IsTrue(closed[j], acted, over) BY <1>3, ClosedIsTrue
<1>8. IsSeq(front) /\ Len(front) = n /\ \A j \in 1 .. n : front[j] = closed[j] /\ j \in 1 .. Len(closed)
 <2>1. \A j \in 1 .. n : j \in 1 .. Len(closed) BY <1>5
 <2> QED BY <1>4, <1>5, <2>1, FrontSeq
<1> HIDE DEF front, rest
<1> DEFINE all == experiences \o front
<1>9. /\ IsSeq(all) /\ Len(all) = Len(experiences) + n
      /\ \A j \in 1 .. Len(experiences) : all[j] = experiences[j]
      /\ \A j \in 1 .. n : all[Len(experiences) + j] = closed[j]
 <2>1. IsSeq(experiences) /\ IsSeq(front) BY <1>2, <1>8
 <2>2. IsSeq(all) /\ Len(all) = Len(experiences) + Len(front) BY <2>1, ConcatSeq
 <2>3. \A j \in 1 .. Len(experiences) : all[j] = experiences[j] BY <2>1, ConcatSeq
 <2>4. \A j \in 1 .. Len(front) : all[Len(experiences) + j] = front[j] BY <2>1, ConcatSeq
 <2> HIDE DEF all
 <2> QED BY <1>8, <2>2, <2>3, <2>4
<1>10. Len(experiences) \in Nat BY <1>2, SeqFacts
<1> HIDE DEF all
<1>11. ASSUME NEW j \in 1 .. Len(all)
       PROVE  all[j].env = "learn" /\ (j > Len(experiences) => IsTrue(all[j], acted, over))
 <2>1. CASE j \in 1 .. Len(experiences) BY <1>2, <1>9, <1>10, <2>1
 <2>2. CASE j \notin 1 .. Len(experiences)
  <3>1. j - Len(experiences) \in 1 .. n /\ Len(experiences) + (j - Len(experiences)) = j
    BY <1>5, <1>9, <1>10, <1>11, <2>2
  <3>2. all[j] = closed[j - Len(experiences)] /\ j - Len(experiences) \in 1 .. Len(closed)
    BY <1>8, <1>9, <3>1
  <3> QED BY <1>4, <1>7, <3>2
 <2> QED BY <2>1, <2>2
<1>12. \A j \in earlier + 1 .. Len(all) : j \in 1 .. Len(all) /\ j > Len(experiences)
  BY <1>2, <1>9, <1>10
<1>13. earlier \in 0 .. Len(all) BY <1>2, <1>5, <1>9, <1>10
<1>14. RoundOver' /\ num_steps' = num_steps BY <1>1 DEF RoundOver, truncated, sampler_config
<1>15. /\ phase' = "outer" /\ env' = "learn" /\ experiences' = all /\ cache' = rest
       /\ last_index' = ShiftedIndex(last_index, n) /\ acted' = acted /\ end_of_episode' = over
       /\ earlier' = earlier /\ steps_to_go' = steps_to_go
  BY <1>1 DEF all, over
<1> QED BY <1>2, <1>6, <1>9, <1>11, <1>12, <1>13, <1>14, <1>15 DEF SamplerInv

LEMMA EvalBeginsKeeps ==
  ASSUME SamplerInv, EvalBegins
  PROVE  SamplerInv'
<1>1. phase' = "eval" /\ env' = "test" /\ end_of_episode' \in BOOLEAN
  BY DEF EvalBegins, ResetEnv, StepEnv
<1> QED BY <1>1 DEF SamplerInv

LEMMA EvalStepsKeeps ==
  ASSUME SamplerInv, NEW version, EvalSteps(version)
  PROVE  SamplerInv'
<1>1. phase' = "eval" /\ env' = "test" /\ end_of_episode' \in BOOLEAN
  BY DEF EvalSteps, StepEnv, SamplerInv
<1> QED BY <1>1 DEF SamplerInv

LEMMA EvalEndsKeeps ==
  ASSUME SamplerInv, EvalEnds
  PROVE  SamplerInv'
<1>1. phase' = "idle" /\ env' = "test" /\ end_of_episode' = end_of_episode /\ end_of_episode \in BOOLEAN
      /\ end_of_episode
  BY DEF EvalEnds, SamplerInv
<1> QED BY <1>1 DEF SamplerInv

LEMMA SampleEndsKeeps ==
  ASSUME SamplerInv, phase = "outer", phase' = "idle",
         UNCHANGED << env, end_of_episode, cache, last_index, acted >>
  PROVE  SamplerInv'
<1>1. env = "learn" BY DEF SamplerInv
<1> QED BY <1>1 DEF SamplerInv

LEMMA SamplerStays ==
  ASSUME SamplerInv, UNCHANGED << sampler_vars, sampler_config >>
  PROVE  SamplerInv'
<1>1. /\ UNCHANGED << phase, env, end_of_episode, cache, last_index, acted, experiences, earlier >>
      /\ num_steps' = num_steps /\ steps_to_go' = steps_to_go /\ RoundOver' = RoundOver
  BY DEF sampler_vars, sampler_config, RoundOver, truncated
<1> QED BY <1>1 DEF SamplerInv

LEMMA SamplerInvInit == MainInit => SamplerInv
<1> SUFFICES ASSUME MainInit PROVE SamplerInv
  OBVIOUS
<1>1. InitSampler BY DEF MainInit, Init, InitProcess, NoWorkflow
<1> QED BY <1>1, NothingCached DEF InitSampler, SamplerInv

LEMMA SamplerInvStep == SamplerInv /\ [MainNext]_all_vars => SamplerInv'
<1> SUFFICES ASSUME SamplerInv, [MainNext]_all_vars PROVE SamplerInv'
  OBVIOUS
<1>1. CASE UNCHANGED vars BY <1>1, SamplerStays DEF vars, setup
<1>2. CASE Next
 <2>1. UNCHANGED sampler_config BY <1>2 DEF Next, setup
 <2>2. CASE Crashes BY <2>2, NothingCached DEF Crashes, SamplerRestarts, SamplerInv
 <2>3. CASE Collects
  <3>1. CASE phase = "idle" /\ SampleBegins BY <2>1, <3>1, SampleBeginsKeeps
  <3>2. CASE RoundBegins \/ SampleSteps(Versions) \/ RoundCollected
    BY <2>1, <3>2, RoundBeginsKeeps, SampleStepsKeeps, RoundCollectedKeeps
  <3>3. CASE phase = "outer" /\ phase' = "idle"
             /\ UNCHANGED << env, end_of_episode, cache, last_index, acted >>
    BY <3>3, SampleEndsKeeps
  <3> QED BY <2>3, <3>1, <3>2, <3>3 DEF Collects
 <2>4. CASE Validates
  <3>1. CASE EvalBegins BY <3>1, EvalBeginsKeeps
  <3>2. CASE UNCHANGED sampler_vars BY <2>1, <3>2, SamplerStays
  <3> QED BY <2>4, <3>1, <3>2 DEF Validates
 <2>5. CASE Evaluates BY <2>5, EvalStepsKeeps, EvalEndsKeeps DEF Evaluates
 <2>6. CASE UNCHANGED sampler_vars BY <2>1, <2>6, SamplerStays
 <2>7. StartsNew \/ (\E m \in DOMAIN disk : Loads(m)) \/ EpisodeStarts \/ Records \/ Trains \/ SavesFile
         \/ ValidationEnds \/ Stopped => UNCHANGED sampler_vars
   BY DEF StartsNew, Loads, EpisodeStarts, Records, Trains, SavesFile, ValidationEnds, Stopped
 <2> QED BY <1>2, <2>2, <2>3, <2>4, <2>5, <2>6, <2>7 DEF Next, Runs
<1> QED BY <1>1, <1>2 DEF MainNext, all_vars

(***************************************************************************)
(* What EnvSampler.sample returns is what was played: every experience has  *)
(* the state its agent is asked in next, and the last of an agent the flag  *)
(* of the environment - for any agents, any delay of rewards, any number of *)
(* steps per sample, any length of an episode, with evaluations and crashes *)
(* between samples.                                                         *)
(***************************************************************************)
THEOREM SampledTransitions == MainSpec => []TransitionsAreTrue
<1>1. SamplerInv => TransitionsAreTrue BY DEF SamplerInv, TransitionsAreTrue, IsTrue
<1> QED BY SamplerInvInit, SamplerInvStep, <1>1, PTL DEF MainSpec
-----------------------------------------------------------------------------
(***************************************************************************)
(* The workflow.  What is recorded was acted by the networks it is to       *)
(* train, because sampling leaves nothing in the cache that a later         *)
(* sampling, after a train step, could return; and what a checkpoint has    *)
(* of an episode comes from trainings of that episode, whichever runs wrote *)
(* it.                                                                      *)
(***************************************************************************)

IsNets(n) ==
  n = [actor |-> n.actor, critic |-> n.critic, old |-> n.old, target |-> n.target,
       version |-> n.version, target_version |-> n.target_version]

\* A checkpoint has neither the target of an on-policy trainer nor the critic of DQN:
\* they have none.
Shaped(algorithms, n) ==
  \A t \in Trainer :
    /\ algorithms[t] \in OnPolicyAlgorithms => n[t].target = 0
    /\ algorithms[t] = "dqn" => n[t].critic = 0

NetsInv ==
  /\ AlgorithmOf \in [Trainer -> Algorithms]
  /\ Shaped(AlgorithmOf, nets)
  /\ \A t \in Trainer :
       /\ AlgorithmOf[t] \in OnPolicyAlgorithms \cup {"dqn"} => IsNets(nets[t])
       /\ AlgorithmOf[t] = "ppo_entropy" /\ crashes = 0 => nets[t].old = nets[t].actor

\* A file of a checkpoint has what loading restores of the networks n of a trainer.
Restored(file, net) == IF net \in DOMAIN file THEN file[net] ELSE 0
Stores(file, name, n) ==
  IF name = "policy" THEN file.actor = n.actor
  ELSE Restored(file, "critic") = n.critic /\ Restored(file, "target") = n.target

DiskInv ==
  \A e \in DOMAIN disk : e \in Nat /\
    \A f \in DOMAIN disk[e] :
      AlgorithmOf[f[1]] # "maddpg" => \E n \in TrainedIn(e) : Stores(disk[e][f], f[2], n[f[1]])

TrainedInv == \A e \in DOMAIN trained : \A n \in trained[e] : Shaped(AlgorithmOf, n)

CheckpointInv ==
  /\ ep \in Nat /\ crashes \in Nat
  /\ at = "start" /\ crashes = 0 => DOMAIN disk = {}
  /\ at = "save" => ep \in DOMAIN disk
  /\ DiskInv /\ TrainedInv
  /\ at \in {"save", "validate", "eval", "validated"} => nets \in TrainedIn(ep)
  /\ ResumeContinues

PhaseInv ==
  /\ at \notin {"collect", "eval"} => phase = "idle"
  /\ at = "collect" => phase \in {"idle", "outer", "inner"}

TickInv ==
  /\ max_tick \in Nat /\ tick \in [{"learn", "test"} -> 0 .. max_tick]
  /\ delay = Unset /\ phase = "inner" =>
       \A i \in 1 .. Len(cache) : cache[i].tick \in 0 .. tick["learn"]

Timely == delay = Unset \/ num_steps = Unset

\* Elements that the given networks acted in.
ActedBy(elements, versions) == \A i \in 1 .. Len(elements) : elements[i].version = versions

\* What a sampling leaves in the cache, the next one does not return.
FreshInv ==
  Timely =>
    /\ phase \in {"idle", "outer"} /\ env = "learn" /\ ~(end_of_episode \/ truncated) => Len(cache) = 0
    /\ at = "collect" =>
         /\ IsSeq(total) /\ \A k \in 1 .. Len(total) : ActedBy(total[k], Versions)
         /\ phase \in {"outer", "inner"} => ActedBy(experiences, Versions)
         /\ phase = "inner" => ActedBy(cache, Versions)

RecordedInv == (at # "train" => \A t \in Trainer : memory[t] = {}) /\ OnPolicy

PlayInv == PhaseInv /\ TickInv /\ FreshInv
RunInv == NetsInv /\ CheckpointInv /\ PlayInv /\ RecordedInv

WorkflowInv == at = "elsewhere" \/ RunInv

-----------------------------------------------------------------------------
(* Appending an element and closing the cache leave the ticks and versions. *)
LEMMA FollowedParts ==
  ASSUME NEW elements, IsSeq(elements), \A j \in 1 .. Len(elements) : IsElement(elements[j]),
         NEW index, NEW e
  PROVE  LET s == FollowedBy(elements, index, e)[1]
         IN  /\ Len(s) = Len(elements) + 1 /\ s[Len(elements) + 1] = e
             /\ \A j \in 1 .. Len(elements) :
                  s[j].tick = elements[j].tick /\ s[j].version = elements[j].version
<1> DEFINE n == Len(elements)
           B == e.agents \cap DOMAIN index
           no == FALSE
           F == [i \in 1 .. n |-> Marked(elements[i], LastAt(B, index, i), no, e.id)]
           s == Append(F, e)
<1>1. FollowedBy(elements, index, e)[1] = s BY DEF FollowedBy, Marked, LastAt
<1> HIDE DEF no
<1>2. n \in Nat BY SeqFacts
<1>3. \A j \in 1 .. n : F[j] = Marked(elements[j], LastAt(B, index, j), no, e.id) OBVIOUS
<1>4. F = [k \in 1 .. n |-> F[k]] OBVIOUS
<1> HIDE DEF F, n, B
<1>5. IsSeq(F) /\ Len(F) = n BY <1>2, <1>4, AnySeq
<1>6. Len(s) = n + 1 /\ s[n + 1] = e /\ \A j \in 1 .. n : s[j] = F[j] BY <1>5, AppendSeq
<1>7. ASSUME NEW j \in 1 .. n
      PROVE  s[j].tick = elements[j].tick /\ s[j].version = elements[j].version
  BY <1>3, <1>6, MarkedFacts DEF n
<1> QED BY <1>1, <1>6, <1>7 DEF n

LEMMA ClosedParts ==
  ASSUME NEW elements, IsSeq(elements), \A j \in 1 .. Len(elements) : IsElement(elements[j]),
         NEW index
  PROVE  LET C == Closed(elements, index)
         IN  /\ IsSeq(C) /\ Len(C) = Len(elements)
             /\ \A j \in 1 .. Len(elements) :
                  C[j].tick = elements[j].tick /\ C[j].version = elements[j].version
<1> DEFINE n == Len(elements)
           B == DOMAIN index
           over == end_of_episode
           C == Closed(elements, index)
<1>1. C = [i \in 1 .. n |-> Marked(elements[i], LastAt(B, index, i), over, elements[i].id)]
  BY DEF Closed, Marked, LastAt
<1> HIDE DEF over
<1>2. n \in Nat BY SeqFacts
<1> HIDE DEF n, C, B
<1>3. \A j \in 1 .. n : C[j] = Marked(elements[j], LastAt(B, index, j), over, elements[j].id)
  BY <1>1
<1>4. C = [k \in 1 .. n |-> C[k]] BY <1>1
<1>5. IsSeq(C) /\ Len(C) = n BY <1>2, <1>4, AnySeq
<1>6. ASSUME NEW j \in 1 .. n
      PROVE  C[j].tick = elements[j].tick /\ C[j].version = elements[j].version
  BY <1>3, MarkedFacts DEF n
<1> QED BY <1>5, <1>6 DEF n, C

\* Without a delay all elements are ripe at the tick that the last was acted at.
LEMMA AllRipe ==
  ASSUME NEW elements, \A j \in 1 .. Len(elements) : elements[j].tick <= tick[env], delay = Unset,
         \A j \in 1 .. Len(elements) : elements[j].tick \in Nat, tick[env] \in Nat
  PROVE  Ripe(elements) = Len(elements)
<1>1. TickBound = tick[env] BY DEF TickBound
<1>2. { i \in 1 .. Len(elements) : elements[i].tick > TickBound } = {} BY <1>1
<1> QED BY <1>2 DEF Ripe

(* The parts of the invariant that a step of the sampler leaves. *)
LEMMA WorkflowStays ==
  ASSUME NetsInv, CheckpointInv, RecordedInv,
         UNCHANGED << AlgorithmOf, nets, memory, crashes, at, ep, disk, trained, delay, num_steps >>
  PROVE  NetsInv' /\ CheckpointInv' /\ RecordedInv'
<1>1. NetsInv' BY DEF NetsInv, Shaped
<1>2. CheckpointInv'
  BY DEF CheckpointInv, DiskInv, TrainedInv, TrainedIn, Shaped, ResumeContinues
<1>3. RecordedInv' BY DEF RecordedInv, OnPolicy
<1> QED BY <1>1, <1>2, <1>3

LEMMA WorkflowSampleBegins ==
  ASSUME SamplerInv, PlayInv, at = "collect", phase = "idle", SampleBegins,
         UNCHANGED << sampler_config, nets, at, total >>
  PROVE  PlayInv'
<1>1. /\ phase' = "outer" /\ env' = "learn" /\ experiences' = << >> /\ at' = "collect"
      /\ delay' = delay /\ num_steps' = num_steps /\ max_tick' = max_tick /\ max_length' = max_length
  BY DEF SampleBegins, sampler_config
<1>2. PhaseInv' BY <1>1 DEF PhaseInv
<1>3. TickInv'
 <2>1. tick' \in [{"learn", "test"} -> 0 .. max_tick] /\ max_tick \in Nat
   BY DEF SampleBegins, ResetEnv, StepEnv, TickInv, PlayInv
 <2> QED BY <1>1, <2>1 DEF TickInv
<1>4. Timely /\ ~(end_of_episode' \/ truncated') => Len(cache') = 0
 <2>1. CASE end_of_episode BY <2>1 DEF SampleBegins, ResetEnv
 <2>2. CASE ~end_of_episode
  <3>1. env = "learn" BY <2>2 DEF SamplerInv
  <3>2. UNCHANGED << cache, length, end_of_episode >> BY <2>2 DEF SampleBegins
  <3> QED BY <1>1, <3>1, <3>2 DEF PlayInv, FreshInv, truncated
 <2> QED BY <2>1, <2>2
<1>5. Timely => IsSeq(total) /\ \A k \in 1 .. Len(total) : ActedBy(total[k], Versions)
  BY DEF PlayInv, FreshInv
<1>6. Versions' = Versions /\ total' = total /\ Timely' = Timely
  BY <1>1 DEF Versions, Timely
<1>7. ActedBy(experiences', Versions) BY <1>1 DEF ActedBy
<1>8. FreshInv' BY <1>1, <1>4, <1>5, <1>6, <1>7 DEF FreshInv, ActedBy
<1> QED BY <1>2, <1>3, <1>8 DEF PlayInv

LEMMA WorkflowRoundBegins ==
  ASSUME SamplerInv, PlayInv, at = "collect", RoundBegins,
         UNCHANGED << sampler_config, nets, at, total >>
  PROVE  PlayInv'
<1>1. /\ phase = "outer" /\ phase' = "inner" /\ env = "learn" /\ env' = env /\ experiences' = experiences
      /\ at' = "collect"
      /\ delay' = delay /\ num_steps' = num_steps /\ max_tick' = max_tick /\ max_length' = max_length
  BY DEF RoundBegins, sampler_config, SamplerInv
<1>2. PhaseInv' BY <1>1 DEF PhaseInv
<1>3. Timely => Len(cache') = 0
 <2>1. CASE end_of_episode \/ truncated BY <2>1 DEF RoundBegins, ResetEnv
 <2>2. CASE ~(end_of_episode \/ truncated) BY <1>1, <2>2 DEF RoundBegins, PlayInv, FreshInv
 <2> QED BY <2>1, <2>2
<1>4. TickInv'
 <2>1. tick' \in [{"learn", "test"} -> 0 .. max_tick] /\ max_tick \in Nat
   BY <1>1 DEF RoundBegins, ResetEnv, StepEnv, TickInv, PlayInv
 <2> QED BY <1>1, <1>3, <2>1 DEF TickInv, Timely
<1>5. Timely => /\ IsSeq(total) /\ \A k \in 1 .. Len(total) : ActedBy(total[k], Versions)
                /\ ActedBy(experiences, Versions)
  BY <1>1 DEF PlayInv, FreshInv
<1>6. Versions' = Versions /\ total' = total /\ Timely' = Timely
  BY <1>1 DEF Versions, Timely
<1>7. FreshInv' BY <1>1, <1>3, <1>5, <1>6 DEF FreshInv, ActedBy
<1> QED BY <1>2, <1>4, <1>7 DEF PlayInv

LEMMA WorkflowSampleSteps ==
  ASSUME SamplerInv, PlayInv, at = "collect", SampleSteps(Versions),
         UNCHANGED << sampler_config, nets, at, total >>
  PROVE  PlayInv'
<1> DEFINE e == CacheElement(Versions, length + 1)
           r == FollowedBy(cache, last_index, e)
<1>1. /\ phase = "inner" /\ phase' = "inner" /\ env = "learn" /\ env' = env
      /\ experiences' = experiences /\ at' = "collect" /\ cache' = r[1]
      /\ delay' = delay /\ num_steps' = num_steps /\ max_tick' = max_tick
  BY DEF SampleSteps, sampler_config, SamplerInv
<1>2. e.tick = tick["learn"] /\ e.version = Versions BY <1>1 DEF CacheElement
<1>3. IsSeq(cache) /\ \A j \in 1 .. Len(cache) : IsElement(cache[j])
  BY <1>1 DEF SamplerInv, CacheInv, InOrder
<1> HIDE DEF e
<1>4. /\ Len(cache') = Len(cache) + 1 /\ cache'[Len(cache) + 1] = e /\ Len(cache) \in Nat
      /\ \A j \in 1 .. Len(cache) :
           cache'[j].tick = cache[j].tick /\ cache'[j].version = cache[j].version
  BY <1>1, <1>3, FollowedParts, SeqFacts
<1>5. PhaseInv' BY <1>1 DEF PhaseInv
<1>6. TickInv'
 <2>1. /\ max_tick \in Nat /\ tick \in [{"learn", "test"} -> 0 .. max_tick]
       /\ delay = Unset => \A i \in 1 .. Len(cache) : cache[i].tick \in 0 .. tick["learn"]
   BY <1>1 DEF TickInv, PlayInv
 <2>2. tick' \in [{"learn", "test"} -> 0 .. max_tick] /\ tick["learn"] <= tick'["learn"]
   BY <1>1, <2>1 DEF SampleSteps, StepEnv
 <2>3. ASSUME delay = Unset, NEW i \in 1 .. Len(cache')
       PROVE  cache'[i].tick \in 0 .. tick'["learn"]
  <3>1. i \in 1 .. Len(cache) \/ i = Len(cache) + 1 BY <1>4, <2>3
  <3>2. tick["learn"] \in Nat /\ tick'["learn"] \in Nat BY <2>1, <2>2
  <3> QED BY <1>2, <1>4, <2>1, <2>2, <2>3, <3>1, <3>2
 <2> QED BY <1>1, <2>1, <2>2, <2>3 DEF TickInv
<1>7. Timely => /\ IsSeq(total) /\ \A k \in 1 .. Len(total) : ActedBy(total[k], Versions)
                /\ ActedBy(experiences, Versions) /\ ActedBy(cache, Versions)
  BY <1>1 DEF PlayInv, FreshInv
<1>8. Timely => ActedBy(cache', Versions)
 <2> SUFFICES ASSUME Timely, NEW i \in 1 .. Len(cache') PROVE cache'[i].version = Versions
   BY DEF ActedBy
 <2>1. i \in 1 .. Len(cache) \/ i = Len(cache) + 1 BY <1>4
 <2> QED BY <1>2, <1>4, <1>7, <2>1 DEF ActedBy
<1>9. Versions' = Versions /\ total' = total /\ Timely' = Timely
  BY <1>1 DEF Versions, Timely
<1>10. FreshInv' BY <1>1, <1>7, <1>8, <1>9 DEF FreshInv, ActedBy
<1> QED BY <1>5, <1>6, <1>10 DEF PlayInv

LEMMA WorkflowRoundCollected ==
  ASSUME SamplerInv, PlayInv, at = "collect", RoundCollected,
         UNCHANGED << sampler_config, nets, at, total >>
  PROVE  PlayInv'
<1> DEFINE closed == Closed(cache, last_index)
           n == Ripe(closed)
           front == SubSeq(closed, 1, n)
           rest == SubSeq(closed, n + 1, Len(closed))
<1>1. /\ phase = "inner" /\ phase' = "outer" /\ env = "learn" /\ env' = env
      /\ experiences' = experiences \o front /\ at' = "collect" /\ cache' = rest
      /\ delay' = delay /\ num_steps' = num_steps /\ max_tick' = max_tick /\ max_length' = max_length
      /\ tick' = tick /\ length' = length /\ end_of_episode' = end_of_episode
      /\ RoundOver
  BY DEF RoundCollected, sampler_config, SamplerInv
<1>2. IsSeq(cache) /\ \A j \in 1 .. Len(cache) : IsElement(cache[j])
  BY <1>1 DEF SamplerInv, CacheInv, InOrder
<1>3. /\ IsSeq(closed) /\ Len(closed) = Len(cache)
      /\ \A j \in 1 .. Len(cache) : closed[j].tick = cache[j].tick /\ closed[j].version = cache[j].version
  BY <1>2, ClosedParts
<1> HIDE DEF closed
<1>4. n \in 0 .. Len(closed) /\ Len(closed) \in Nat BY <1>3, RipeBounds, SeqFacts
<1>5. PhaseInv' BY <1>1 DEF PhaseInv
<1>6. TickInv' BY <1>1 DEF PlayInv, TickInv
<1>7. ASSUME Timely, ~(end_of_episode \/ truncated) PROVE Len(rest) = 0
 <2>1. num_steps # Unset
  <3>1. num_steps = Unset => steps_to_go = Infinite BY <1>1 DEF SamplerInv
  <3> QED BY <1>1, <1>7, <3>1 DEF RoundOver, Infinite
 <2>2. delay = Unset BY <1>7, <2>1 DEF Timely
 <2>3. /\ tick["learn"] \in Nat
       /\ \A j \in 1 .. Len(cache) : cache[j].tick \in 0 .. tick["learn"]
   BY <1>1, <2>2 DEF PlayInv, TickInv
 <2>4. n = Len(closed)
  <3>1. env = "learn" BY <1>1
  <3>2. \A j \in 1 .. Len(closed) : closed[j].tick \in 0 .. tick["learn"] BY <1>3, <2>3
  <3>3. \A j \in 1 .. Len(closed) : closed[j].tick \in Nat /\ closed[j].tick <= tick["learn"]
    BY <2>3, <3>2
  <3> QED BY <2>2, <2>3, <3>1, <3>3, AllRipe
 <2> HIDE DEF n
 <2>5. Len(rest) = Len(closed) - n BY <1>3, <1>4, RestSeq
 <2> QED BY <1>4, <2>4, <2>5
<1> HIDE DEF n
<1>8. IsSeq(front) /\ Len(front) = n /\ \A j \in 1 .. n : front[j] = closed[j]
  BY <1>3, <1>4, FrontSeq
<1>9. Timely => /\ IsSeq(total) /\ \A k \in 1 .. Len(total) : ActedBy(total[k], Versions)
                /\ ActedBy(experiences, Versions) /\ ActedBy(cache, Versions)
  BY <1>1 DEF PlayInv, FreshInv
<1>10. ASSUME Timely PROVE ActedBy(experiences', Versions)
 <2> HIDE DEF front
 <2> DEFINE all == experiences \o front
 <2>1. IsSeq(experiences) /\ Len(experiences) \in Nat BY <1>1, SeqFacts DEF SamplerInv
 <2>2. Len(all) = Len(experiences) + n BY <1>8, <2>1, ConcatSeq
 <2>3. \A j \in 1 .. Len(experiences) : all[j] = experiences[j] BY <1>8, <2>1, ConcatSeq
 <2>4. \A j \in 1 .. n : all[Len(experiences) + j] = front[j] BY <1>8, <2>1, ConcatSeq
 <2> HIDE DEF all
 <2>5. ASSUME NEW j \in 1 .. Len(all) PROVE all[j].version = Versions
  <3>1. CASE j \in 1 .. Len(experiences) BY <1>9, <1>10, <2>3, <3>1 DEF ActedBy
  <3>2. CASE j \notin 1 .. Len(experiences)
   <4>1. j - Len(experiences) \in 1 .. n /\ Len(experiences) + (j - Len(experiences)) = j
     BY <1>4, <2>1, <2>2, <2>5, <3>2
   <4>2. all[j] = closed[j - Len(experiences)] /\ j - Len(experiences) \in 1 .. Len(cache)
     BY <1>3, <1>4, <1>8, <2>4, <4>1
   <4> QED BY <1>3, <1>9, <1>10, <4>2 DEF ActedBy
  <3> QED BY <3>1, <3>2
 <2> QED BY <1>1, <2>5 DEF ActedBy, all
<1>11. Versions' = Versions /\ total' = total /\ Timely' = Timely /\ truncated' = truncated
  BY <1>1 DEF Versions, Timely, truncated
<1> HIDE DEF rest, front
<1>12. FreshInv' BY <1>1, <1>7, <1>9, <1>10, <1>11 DEF FreshInv, ActedBy
<1> QED BY <1>5, <1>6, <1>12 DEF PlayInv

LEMMA WorkflowSampleEnds ==
  ASSUME SamplerInv, PlayInv, at = "collect", phase = "outer", phase' = "idle",
         total' = IF experiences = << >> THEN total ELSE Append(total, experiences),
         UNCHANGED << sampler_config, env, tick, end_of_episode, cache, length, nets, at >>
  PROVE  PlayInv'
<1>1. /\ delay' = delay /\ num_steps' = num_steps /\ max_tick' = max_tick /\ max_length' = max_length
  BY DEF sampler_config
<1>2. PhaseInv' BY DEF PhaseInv
<1>3. TickInv' BY <1>1 DEF PlayInv, TickInv
<1>4. Timely => /\ IsSeq(total) /\ \A k \in 1 .. Len(total) : ActedBy(total[k], Versions)
                /\ ActedBy(experiences, Versions)
  BY DEF PlayInv, FreshInv
<1>5. ASSUME Timely PROVE IsSeq(total') /\ \A k \in 1 .. Len(total') : ActedBy(total'[k], Versions)
 <2>1. CASE experiences = << >> BY <1>4, <1>5, <2>1
 <2>2. CASE experiences # << >>
  <3>1. total' = Append(total, experiences) /\ IsSeq(total) /\ Len(total) \in Nat
    BY <1>4, <1>5, <2>2, SeqFacts
  <3>2. /\ IsSeq(total') /\ Len(total') = Len(total) + 1
        /\ \A j \in 1 .. Len(total) : total'[j] = total[j]
        /\ total'[Len(total) + 1] = experiences
    BY <3>1, AppendSeq
  <3>3. \A k \in 1 .. Len(total') : k \in 1 .. Len(total) \/ k = Len(total) + 1
    BY <3>1, <3>2
  <3> QED BY <1>4, <1>5, <3>2, <3>3
 <2> QED BY <2>1, <2>2
<1>6. Versions' = Versions /\ Timely' = Timely /\ truncated' = truncated
  BY <1>1 DEF Versions, Timely, truncated
<1>7. Timely /\ env = "learn" /\ ~(end_of_episode \/ truncated) => Len(cache) = 0
  BY DEF PlayInv, FreshInv
<1>8. FreshInv' BY <1>1, <1>5, <1>6, <1>7 DEF FreshInv, ActedBy
<1> QED BY <1>2, <1>3, <1>8 DEF PlayInv

\* The sampler is idle in the steps of the workflow.
LEMMA WorkflowIdle ==
  ASSUME PlayInv, phase = "idle", UNCHANGED << sampler_vars, sampler_config >>,
         at' = "collect" => total' = << >>
  PROVE  PlayInv'
<1>1. /\ UNCHANGED << phase, tick, env, end_of_episode, cache, length >>
      /\ UNCHANGED << delay, num_steps, max_tick, max_length >>
  BY DEF sampler_vars, sampler_config
<1>2. PhaseInv' /\ TickInv' BY <1>1 DEF PlayInv, PhaseInv, TickInv
<1>3. IsSeq(<< >>) /\ Len(<< >>) = 0 BY DEF IsSeq
<1>4. Timely' = Timely /\ truncated' = truncated BY <1>1 DEF Timely, truncated
<1>5. Timely /\ env = "learn" /\ ~(end_of_episode \/ truncated) => Len(cache) = 0
  BY DEF PlayInv, FreshInv
<1>6. FreshInv' BY <1>1, <1>3, <1>4, <1>5 DEF FreshInv
<1> QED BY <1>2, <1>6 DEF PlayInv

LEMMA WorkflowEvalBegins ==
  ASSUME PlayInv, EvalBegins, at' = "eval", UNCHANGED sampler_config
  PROVE  PlayInv'
<1>1. phase' = "eval" /\ max_tick' = max_tick BY DEF EvalBegins, sampler_config
<1>2. tick' \in [{"learn", "test"} -> 0 .. max_tick] /\ max_tick \in Nat
  BY DEF EvalBegins, ResetEnv, StepEnv, PlayInv, TickInv
<1> QED BY <1>1, <1>2 DEF PlayInv, PhaseInv, TickInv, FreshInv

LEMMA WorkflowEvaluates ==
  ASSUME SamplerInv, PlayInv, EvalSteps(Versions) \/ EvalEnds,
         at' = (IF phase' = "idle" THEN "validated" ELSE at), at = "eval", UNCHANGED sampler_config
  PROVE  PlayInv'
<1>1. max_tick' = max_tick BY DEF sampler_config
<1>2. CASE EvalSteps(Versions)
 <2>1. phase = "eval" /\ phase' = "eval" /\ at' = "eval" BY <1>2 DEF EvalSteps
 <2>2. tick' \in [{"learn", "test"} -> 0 .. max_tick] /\ max_tick \in Nat
   BY <1>2 DEF EvalSteps, StepEnv, PlayInv, TickInv
 <2> QED BY <1>1, <2>1, <2>2 DEF PlayInv, PhaseInv, TickInv, FreshInv
<1>3. CASE EvalEnds
 <2>1. phase' = "idle" /\ at' = "validated" /\ env' = "test" /\ tick' = tick
   BY <1>3 DEF EvalEnds, SamplerInv
 <2> QED BY <1>1, <2>1 DEF PlayInv, PhaseInv, TickInv, FreshInv
<1> QED BY <1>2, <1>3

LEMMA WorkflowRestarts ==
  ASSUME PlayInv, SamplerRestarts, at' = "start", UNCHANGED sampler_config
  PROVE  PlayInv'
<1>1. /\ phase' = "idle" /\ end_of_episode' = TRUE /\ max_tick' = max_tick
      /\ tick' = [e \in {"learn", "test"} |-> 0]
  BY DEF SamplerRestarts, sampler_config
<1>2. max_tick \in Nat /\ 0 \in 0 .. max_tick BY DEF PlayInv, TickInv
<1>3. tick' \in [{"learn", "test"} -> 0 .. max_tick] BY <1>1, <1>2
<1> QED BY <1>1, <1>2, <1>3 DEF PlayInv, PhaseInv, TickInv, FreshInv

-----------------------------------------------------------------------------
LEMMA NetsUpdated ==
  ASSUME NEW n, IsNets(n), NEW v
  PROVE  /\ [n EXCEPT !.actor = v] =
              [actor |-> v, critic |-> n.critic, old |-> n.old, target |-> n.target,
               version |-> n.version, target_version |-> n.target_version]
         /\ [n EXCEPT !.critic = v] =
              [actor |-> n.actor, critic |-> v, old |-> n.old, target |-> n.target,
               version |-> n.version, target_version |-> n.target_version]
         /\ [n EXCEPT !.old = v] =
              [actor |-> n.actor, critic |-> n.critic, old |-> v, target |-> n.target,
               version |-> n.version, target_version |-> n.target_version]
         /\ [n EXCEPT !.target = v] =
              [actor |-> n.actor, critic |-> n.critic, old |-> n.old, target |-> v,
               version |-> n.version, target_version |-> n.target_version]
         /\ [n EXCEPT !.version = v] =
              [actor |-> n.actor, critic |-> n.critic, old |-> n.old, target |-> n.target,
               version |-> v, target_version |-> n.target_version]
         /\ [n EXCEPT !.target_version = v] =
              [actor |-> n.actor, critic |-> n.critic, old |-> n.old, target |-> n.target,
               version |-> n.version, target_version |-> v]
<1>1. n = [actor |-> n.actor, critic |-> n.critic, old |-> n.old, target |-> n.target,
           version |-> n.version, target_version |-> n.target_version]
  BY DEF IsNets
<1> QED BY <1>1

(* A step of training keeps what the networks of a trainer are. *)
LEMMA ActorCriticTrains ==
  ASSUME NEW n, IsNets(n)
  PROVE  /\ IsNets(train_ac(n)) /\ train_ac(n).target = n.target
         /\ IsNets(train_ppo_entropy(n)) /\ train_ppo_entropy(n).target = n.target
         /\ train_ppo_entropy(n).old = train_ppo_entropy(n).actor
<1> DEFINE m == ac_update_actor(n, 1)
           k == ac_update_critic(m, GradIters)
           p == ppo_update_critic(n, GradIters)
           q == ppo_update_actor(p, GradIters)
           r == [q EXCEPT !.old = q.actor]
<1>1. IsNets(m) /\ m.target = n.target BY NetsUpdated DEF IsNets, ac_update_actor
<1>2. IsNets(p) /\ p.target = n.target BY NetsUpdated DEF IsNets, ppo_update_critic
<1>3. train_ac(n) = k /\ train_ppo_entropy(n) = r BY DEF train_ac, train_ppo_entropy
<1> HIDE DEF m, p
<1>4. IsNets(k) /\ k.target = m.target BY <1>1, NetsUpdated DEF IsNets, ac_update_critic
<1>5. IsNets(q) /\ q.target = p.target BY <1>2, NetsUpdated DEF IsNets, ppo_update_actor
<1> HIDE DEF k, q
<1>6. IsNets(r) /\ r.target = q.target /\ r.old = r.actor BY <1>5, NetsUpdated DEF IsNets
<1> HIDE DEF r
<1> QED BY <1>1, <1>2, <1>3, <1>4, <1>5, <1>6

LEMMA SoftUpdateKeeps ==
  ASSUME NEW n, IsNets(n)
  PROVE  IsNets(SoftUpdated(n)) /\ SoftUpdated(n).critic = n.critic
<1> DEFINE u == n.version + 1
           m == [n EXCEPT !.version = u]
           k == [m EXCEPT !.target_version = u]
           p == [k EXCEPT !.target = n.actor]
<1>1. SoftUpdated(n) \in {m, p} BY DEF SoftUpdated
<1> HIDE DEF u
<1>2. IsNets(m) /\ m.critic = n.critic BY NetsUpdated DEF IsNets
<1> HIDE DEF m
<1>3. IsNets(k) /\ k.critic = n.critic
 <2>1. k = [actor |-> m.actor, critic |-> m.critic, old |-> m.old, target |-> m.target,
            version |-> m.version, target_version |-> u]
   BY <1>2, NetsUpdated
 <2> HIDE DEF k
 <2> QED BY <1>2, <2>1 DEF IsNets
<1> HIDE DEF k
<1>4. IsNets(p) /\ p.critic = n.critic BY <1>3, NetsUpdated DEF IsNets
<1> HIDE DEF p
<1> QED BY <1>1, <1>2, <1>4

LEMMA DqnTrains ==
  ASSUME NEW n, IsNets(n)
  PROVE  IsNets(train_dqn(n)) /\ train_dqn(n).critic = n.critic
<1> DEFINE m == dqn_update(n, GradIters)
<1>1. IsNets(m) /\ m.critic = n.critic BY NetsUpdated DEF IsNets, dqn_update
<1>2. train_dqn(n) = SoftUpdated(m) BY DEF train_dqn
<1> HIDE DEF m
<1> QED BY <1>1, <1>2, SoftUpdateKeeps

(* What is loaded for a trainer is what the files have. *)
LEMMA LoadedFacts ==
  ASSUME NEW policy, NEW rest
  PROVE  LET n == LoadedNets(policy, rest)
         IN  /\ IsNets(n) /\ n.actor = policy.actor
             /\ n.critic = Restored(rest, "critic") /\ n.target = Restored(rest, "target")
<1> DEFINE critic == Restored(rest, "critic")
           target == Restored(rest, "target")
           actor == policy.actor
           m == [FreshNets EXCEPT !.actor = actor]
           k == [m EXCEPT !.critic = critic]
           n == [k EXCEPT !.target = target]
<1>1. LoadedNets(policy, rest) = n BY DEF LoadedNets, Restored, FreshNets
<1> HIDE DEF critic, target, actor
<1>2. IsNets(FreshNets) BY DEF FreshNets, IsNets
<1>3. IsNets(m) /\ m.actor = actor BY <1>2, NetsUpdated DEF IsNets
<1> HIDE DEF m
<1>4. IsNets(k) /\ k.actor = actor /\ k.critic = critic BY <1>3, NetsUpdated DEF IsNets
<1> HIDE DEF k
<1>5. IsNets(n) /\ n.actor = actor /\ n.critic = critic /\ n.target = target
  BY <1>4, NetsUpdated DEF IsNets
<1> HIDE DEF n
<1> QED BY <1>1, <1>5 DEF actor, critic, target

(* What a checkpoint keeps of networks, apart from those of MADDPG. *)
LEMMA ContentStores ==
  ASSUME AlgorithmOf \in [Trainer -> Algorithms], NEW t \in Trainer, AlgorithmOf[t] # "maddpg",
         NEW f, f[1] = t, NEW n, Shaped(AlgorithmOf, n)
  PROVE  Stores(Content(f, n), f[2], n[t])
<1>1. CASE f[2] = "policy" BY <1>1 DEF Stores, Content, PolicyState
<1>2. CASE f[2] # "policy"
 <2> DEFINE r == NonPolicyState(t, n[t])
 <2>1. SUFFICES Restored(r, "critic") = n[t].critic /\ Restored(r, "target") = n[t].target
   BY <1>2 DEF Stores, Content
 <2>2. CASE AlgorithmOf[t] \in OnPolicyAlgorithms
  <3>1. r = [critic |-> n[t].critic]
    BY <2>2 DEF NonPolicyState, ac_non_policy, OnPolicyAlgorithms
  <3>2. n[t].target = 0 BY <2>2 DEF Shaped
  <3> HIDE DEF r
  <3> QED BY <3>1, <3>2 DEF Restored
 <2>3. CASE AlgorithmOf[t] = "dqn"
  <3>1. r = [target |-> n[t].target] /\ n[t].critic = 0
    BY <2>3 DEF NonPolicyState, dqn_non_policy, Shaped, OnPolicyAlgorithms
  <3> HIDE DEF r
  <3> QED BY <3>1 DEF Restored
 <2>4. CASE AlgorithmOf[t] \in {"ddpg", "sac"}
  <3>1. r = [critic |-> n[t].critic, target |-> n[t].target]
    BY <2>4 DEF NonPolicyState, ddpg_non_policy, sac_non_policy, OnPolicyAlgorithms
  <3> HIDE DEF r
  <3> QED BY <3>1 DEF Restored
 <2> QED BY <2>2, <2>3, <2>4 DEF Algorithms
<1> QED BY <1>1, <1>2

-----------------------------------------------------------------------------
LEMMA NetsStay ==
  ASSUME NetsInv, UNCHANGED << AlgorithmOf, nets, crashes >>
  PROVE  NetsInv'
BY DEF NetsInv, Shaped

LEMMA DiskStays ==
  ASSUME DiskInv, TrainedInv, UNCHANGED << AlgorithmOf, disk, trained >>
  PROVE  DiskInv' /\ TrainedInv'
BY DEF DiskInv, TrainedInv, TrainedIn, Shaped

LEMMA StartsNewKeeps ==
  ASSUME RunInv, StartsNew, UNCHANGED setup
  PROVE  RunInv'
<1>1. /\ at = "start" /\ at' = "loop" /\ ep' = 1
      /\ UNCHANGED << sampler_vars, sampler_config, nets, memory, disk, crashes, trained, AlgorithmOf >>
  BY DEF StartsNew, setup, trainer_vars
<1>2. NetsInv' BY <1>1, NetsStay DEF RunInv
<1>3. DiskInv' /\ TrainedInv' BY <1>1, DiskStays DEF RunInv, CheckpointInv
<1>4. CheckpointInv' BY <1>1, <1>3 DEF RunInv, CheckpointInv, ResumeContinues
<1>5. PlayInv' BY <1>1, WorkflowIdle DEF RunInv, PlayInv, PhaseInv
<1>6. RecordedInv' BY <1>1 DEF RunInv, RecordedInv, OnPolicy
<1> QED BY <1>2, <1>4, <1>5, <1>6 DEF RunInv

LEMMA EpisodeStartsKeeps ==
  ASSUME RunInv, EpisodeStarts, UNCHANGED setup
  PROVE  RunInv'
<1>1. /\ at = "loop" /\ at' \in {"done", "collect"} /\ ep' = ep /\ total' = << >>
      /\ UNCHANGED << sampler_vars, sampler_config, nets, memory, disk, crashes, trained, AlgorithmOf >>
  BY DEF EpisodeStarts, setup, trainer_vars
<1>2. NetsInv' BY <1>1, NetsStay DEF RunInv
<1>3. DiskInv' /\ TrainedInv' BY <1>1, DiskStays DEF RunInv, CheckpointInv
<1>4. CheckpointInv' BY <1>1, <1>3 DEF RunInv, CheckpointInv, ResumeContinues
<1>5. PlayInv' BY <1>1, WorkflowIdle DEF RunInv, PlayInv, PhaseInv
<1>6. RecordedInv' BY <1>1 DEF RunInv, RecordedInv, OnPolicy
<1> QED BY <1>2, <1>4, <1>5, <1>6 DEF RunInv

(* The next episode, after training or after its evaluation. *)
LEMMA NextEpisodeKeeps ==
  ASSUME RunInv, at \in {"validate", "validated"}, at' = "loop", ep' = ep + 1,
         UNCHANGED << sampler_vars, sampler_config, nets, memory, disk, crashes, trained, AlgorithmOf >>
  PROVE  RunInv'
<1>2. NetsInv' BY NetsStay DEF RunInv
<1>3. DiskInv' /\ TrainedInv' BY DiskStays DEF RunInv, CheckpointInv
<1>4. ResumeContinues'
 <2>1. ep' - 1 = ep /\ nets \in TrainedIn(ep) /\ nets' = nets /\ trained' = trained
   BY DEF RunInv, CheckpointInv
 <2>2. nets' \in TrainedIn(ep - 1)' BY <2>1 DEF TrainedIn
 <2> QED BY <2>2 DEF ResumeContinues
<1>5. CheckpointInv' BY <1>3, <1>4 DEF RunInv, CheckpointInv
<1>6. PlayInv' BY WorkflowIdle DEF RunInv, PlayInv, PhaseInv
<1>7. RecordedInv' BY DEF RunInv, RecordedInv, OnPolicy
<1> QED BY <1>2, <1>5, <1>6, <1>7 DEF RunInv

LEMMA ValidationEndsKeeps ==
  ASSUME RunInv, ValidationEnds, UNCHANGED setup
  PROVE  RunInv'
<1>1. /\ at = "validated" /\ at' = "loop" /\ ep' = ep + 1
      /\ UNCHANGED << sampler_vars, sampler_config, nets, memory, disk, crashes, trained, AlgorithmOf >>
  BY DEF ValidationEnds, setup, trainer_vars
<1> QED BY <1>1, NextEpisodeKeeps

LEMMA ValidatesKeeps ==
  ASSUME RunInv, Validates, UNCHANGED setup
  PROVE  RunInv'
<1>1. /\ at = "validate"
      /\ UNCHANGED << sampler_config, nets, memory, disk, crashes, trained, AlgorithmOf >>
  BY DEF Validates, setup, trainer_vars
<1>2. \/ at' = "loop" /\ ep' = ep + 1 /\ UNCHANGED sampler_vars
      \/ at' = "raised" /\ ep' = ep /\ UNCHANGED sampler_vars
      \/ at' = "eval" /\ ep' = ep /\ EvalBegins
  BY DEF Validates
<1>3. CASE at' = "loop" /\ ep' = ep + 1 /\ UNCHANGED sampler_vars
  BY <1>1, <1>3, NextEpisodeKeeps
<1>4. CASE /\ at' \in {"raised", "eval"} /\ ep' = ep
           /\ UNCHANGED sampler_vars \/ (EvalBegins /\ at' = "eval")
 <2>1. NetsInv' BY <1>1, NetsStay DEF RunInv
 <2>2. DiskInv' /\ TrainedInv' BY <1>1, DiskStays DEF RunInv, CheckpointInv
 <2>3. TrainedIn(ep)' = TrainedIn(ep) BY <1>1, <1>4 DEF TrainedIn
 <2>4. CheckpointInv' BY <1>1, <1>4, <2>2, <2>3 DEF RunInv, CheckpointInv, ResumeContinues
 <2>5. PlayInv'
   BY <1>1, <1>4, WorkflowIdle, WorkflowEvalBegins DEF RunInv, PlayInv, PhaseInv
 <2>6. RecordedInv' BY <1>1, <1>4 DEF RunInv, RecordedInv, OnPolicy
 <2> QED BY <2>1, <2>4, <2>5, <2>6 DEF RunInv
<1> QED BY <1>2, <1>3, <1>4

LEMMA EvaluatesKeeps ==
  ASSUME SamplerInv, RunInv, Evaluates, UNCHANGED setup
  PROVE  RunInv'
<1>1. /\ at = "eval" /\ at' = (IF phase' = "idle" THEN "validated" ELSE at) /\ ep' = ep
      /\ EvalSteps(Versions) \/ EvalEnds
      /\ UNCHANGED << sampler_config, nets, memory, disk, crashes, trained, AlgorithmOf >>
  BY DEF Evaluates, setup, trainer_vars
<1>2. NetsInv' BY <1>1, NetsStay DEF RunInv
<1>3. DiskInv' /\ TrainedInv' BY <1>1, DiskStays DEF RunInv, CheckpointInv
<1>4. TrainedIn(ep)' = TrainedIn(ep) BY <1>1 DEF TrainedIn
<1>5. CheckpointInv' BY <1>1, <1>3, <1>4 DEF RunInv, CheckpointInv, ResumeContinues
<1>6. PlayInv' BY <1>1, WorkflowEvaluates DEF RunInv
<1>7. RecordedInv' BY <1>1 DEF RunInv, RecordedInv, OnPolicy
<1> QED BY <1>2, <1>5, <1>6, <1>7 DEF RunInv

LEMMA CrashesKeeps ==
  ASSUME RunInv, Crashes, UNCHANGED setup
  PROVE  RunInv'
<1>1. /\ at' = "start" /\ ep' = 0 /\ crashes' = crashes + 1
      /\ nets' = [t \in Trainer |-> FreshNets] /\ memory' = [t \in Trainer |-> {}]
      /\ SamplerRestarts
      /\ UNCHANGED << sampler_config, disk, trained, AlgorithmOf >>
  BY DEF Crashes, setup
<1>2. crashes \in Nat BY DEF RunInv, CheckpointInv
<1>3. NetsInv'
 <2>1. \A t \in Trainer : nets'[t] = FreshNets BY <1>1
 <2>2. IsNets(FreshNets) /\ FreshNets.critic = 0 /\ FreshNets.target = 0
       /\ FreshNets.old = 0 /\ FreshNets.actor = 0
   BY DEF IsNets, FreshNets
 <2>3. AlgorithmOf \in [Trainer -> Algorithms] /\ AlgorithmOf' = AlgorithmOf
   BY <1>1 DEF RunInv, NetsInv
 <2> QED BY <2>1, <2>2, <2>3 DEF NetsInv, Shaped
<1>4. DiskInv' /\ TrainedInv' BY <1>1, DiskStays DEF RunInv, CheckpointInv
<1>5. CheckpointInv' BY <1>1, <1>2, <1>4 DEF CheckpointInv, ResumeContinues
<1>6. PlayInv' BY <1>1, WorkflowRestarts DEF RunInv
<1>7. RecordedInv' BY <1>1 DEF RecordedInv, OnPolicy
<1> QED BY <1>3, <1>5, <1>6, <1>7 DEF RunInv

LEMMA LoadsKeeps ==
  ASSUME RunInv, NEW e \in DOMAIN disk, Loads(e), UNCHANGED setup
  PROVE  RunInv'
<1>1. /\ at = "start"
      /\ UNCHANGED << sampler_vars, sampler_config, memory, total, disk, crashes, trained, AlgorithmOf >>
  BY DEF Loads, setup
<1>2. \/ /\ Complete(e) /\ ~\E t \in Trainer : LoadRaises(t)
         /\ nets' = [t \in Trainer |-> NetsIn(e, t)] /\ at' = "loop" /\ ep' = e + 1
      \/ at' = "raised" /\ UNCHANGED << nets, ep >>
  BY DEF Loads
<1>3. DiskInv' /\ TrainedInv' BY <1>1, DiskStays DEF RunInv, CheckpointInv
<1>4. PlayInv' BY <1>1, <1>2, WorkflowIdle DEF RunInv, PlayInv, PhaseInv
<1>5. RecordedInv' BY <1>1, <1>2 DEF RunInv, RecordedInv, OnPolicy
<1>6. CASE at' = "raised" /\ UNCHANGED << nets, ep >>
 <2>1. NetsInv' BY <1>1, <1>6, NetsStay DEF RunInv
 <2>2. CheckpointInv' BY <1>1, <1>3, <1>6 DEF RunInv, CheckpointInv, ResumeContinues
 <2> QED BY <1>4, <1>5, <2>1, <2>2 DEF RunInv
<1>7. CASE /\ Complete(e) /\ ~\E t \in Trainer : LoadRaises(t)
           /\ nets' = [t \in Trainer |-> NetsIn(e, t)] /\ at' = "loop" /\ ep' = e + 1
 <2>1. e \in Nat /\ AlgorithmOf \in [Trainer -> Algorithms] /\ crashes \in Nat
   BY DEF RunInv, NetsInv, CheckpointInv, DiskInv
 <2>2. ASSUME NEW t \in Trainer
       PROVE  /\ IsNets(nets'[t])
              /\ \E n, m \in TrainedIn(e) :
                   /\ nets'[t].actor = n[t].actor
                   /\ nets'[t].critic = m[t].critic
                   /\ nets'[t].target = m[t].target
  <3> DEFINE policy == disk[e][<< t, "policy" >>]
             rest == disk[e][<< t, "non_policy" >>]
  <3>1. nets'[t] = LoadedNets(policy, rest) BY <1>7 DEF NetsIn
  <3>2. << t, "policy" >> \in DOMAIN disk[e] /\ << t, "non_policy" >> \in DOMAIN disk[e]
    BY <1>7 DEF Complete, Files
  <3>3. AlgorithmOf[t] # "maddpg" BY <1>7 DEF LoadRaises
  <3>4. PICK n \in TrainedIn(e) : Stores(policy, "policy", n[t])
    BY <3>2, <3>3 DEF RunInv, CheckpointInv, DiskInv
  <3>5. PICK m \in TrainedIn(e) : Stores(rest, "non_policy", m[t])
    BY <3>2, <3>3 DEF RunInv, CheckpointInv, DiskInv
  <3> HIDE DEF policy, rest
  <3>6. policy.actor = n[t].actor /\ Restored(rest, "critic") = m[t].critic
        /\ Restored(rest, "target") = m[t].target
    BY <3>4, <3>5 DEF Stores
  <3> QED BY <3>1, <3>6, LoadedFacts
 <2>3. NetsInv'
  <3>1. ASSUME NEW t \in Trainer
        PROVE  /\ AlgorithmOf[t] \in OnPolicyAlgorithms => nets'[t].target = 0
               /\ AlgorithmOf[t] = "dqn" => nets'[t].critic = 0
   <4>1. PICK m \in TrainedIn(e) : nets'[t].critic = m[t].critic /\ nets'[t].target = m[t].target
     BY <2>2
   <4>2. Shaped(AlgorithmOf, m) BY <4>1 DEF RunInv, CheckpointInv, TrainedInv, TrainedIn
   <4> QED BY <4>1, <4>2 DEF Shaped
  <3>2. crashes # 0 BY <1>1 DEF RunInv, CheckpointInv
  <3> QED BY <1>1, <2>1, <2>2, <3>1, <3>2 DEF NetsInv, Shaped
 <2>4. ResumeContinues'
  <3>1. ep' - 1 = e BY <1>7, <2>1
  <3>2. TrainedIn(ep - 1)' = TrainedIn(e) BY <1>1, <3>1 DEF TrainedIn
  <3> QED BY <2>2, <3>2 DEF ResumeContinues
 <2>5. CheckpointInv' BY <1>1, <1>3, <1>7, <2>1, <2>4 DEF CheckpointInv
 <2> QED BY <1>4, <1>5, <2>3, <2>5 DEF RunInv
<1> QED BY <1>2, <1>6, <1>7

(* What is recorded for a trainer: transitions of what was acted by its networks. *)
LEMMA RecordsKeeps ==
  ASSUME RunInv, Records, UNCHANGED setup
  PROVE  RunInv'
<1>1. /\ at = "collect" /\ phase = "idle" /\ ep' = ep
      /\ UNCHANGED << sampler_vars, sampler_config, nets, disk, crashes, trained, AlgorithmOf, total >>
      /\ \/ at' = "raised" /\ memory' = memory
         \/ at' = "train" /\ record_experiences(total)
  BY DEF Records, setup, trainer_vars, record_experiences
<1>2. NetsInv' BY <1>1, NetsStay DEF RunInv
<1>3. DiskInv' /\ TrainedInv' BY <1>1, DiskStays DEF RunInv, CheckpointInv
<1>4. CheckpointInv' BY <1>1, <1>3 DEF RunInv, CheckpointInv, ResumeContinues
<1>5. PlayInv' BY <1>1, WorkflowIdle DEF RunInv
<1>6. RecordedInv'
 <2>1. CASE at' = "raised" /\ memory' = memory
   BY <1>1, <2>1 DEF RunInv, RecordedInv, OnPolicy
 <2>2. CASE at' = "train" /\ record_experiences(total)
  <3> SUFFICES ASSUME Timely, NEW t \in Trainer, NEW transition \in memory'[t]
               PROVE  /\ transition.version = nets[t].actor
                      /\ AlgorithmOf[t] # "ppo_entropy" \/ crashes = 0 =>
                           transition.logps = nets[t].actor
    BY <1>1, <2>2 DEF RecordedInv, OnPolicy, Timely, sampler_config
  <3> DEFINE PutOf(k) == { Transition(total[k][p[1]], p[2], LogpVersion(t)) : p \in Recorded(t, total[k]) }
  <3>1. memory'[t] = IF AlgorithmOf[t] \in OnPolicyAlgorithms
                     THEN memory[t] \cup UNION { PutOf(k) : k \in 1..Len(total) } ELSE {}
    BY <2>2 DEF record_experiences
  <3>2. memory[t] = {} BY <1>1 DEF RunInv, RecordedInv
  <3>3. PICK k \in 1 .. Len(total) : transition \in PutOf(k) BY <3>1, <3>2
  <3>4. PICK p \in Recorded(t, total[k]) :
          transition = Transition(total[k][p[1]], p[2], LogpVersion(t))
    BY <3>3
  <3>5. p[1] \in 1 .. Len(total[k]) /\ agent2trainer[p[2]] = t
    BY DEF Recorded, OwnAgents, AgentsOf
  <3>6. total[k][p[1]].version = Versions
    BY <1>1, <3>5 DEF RunInv, PlayInv, FreshInv, ActedBy
  <3>7. transition.version = nets[t].actor /\ transition.logps = LogpVersion(t)
    BY <3>4, <3>5, <3>6 DEF Transition, Versions
  <3>8. AlgorithmOf[t] # "ppo_entropy" \/ crashes = 0 => LogpVersion(t) = nets[t].actor
    BY DEF LogpVersion, RunInv, NetsInv
  <3> QED BY <3>7, <3>8
 <2> QED BY <1>1, <2>1, <2>2
<1> QED BY <1>2, <1>4, <1>5, <1>6 DEF RunInv

LEMMA TrainsKeeps ==
  ASSUME RunInv, Trains, UNCHANGED setup
  PROVE  RunInv'
<1>1. /\ at = "train" /\ at' \in {"save", "validate"} /\ ep' = ep /\ total' = << >>
      /\ nets' = [t \in Trainer |-> Trained(t)] /\ memory' = [t \in Trainer |-> {}]
      /\ trained' = Assigned(trained, {ep}, TrainedIn(ep) \cup {nets'})
      /\ disk' = disk \/ (ep \notin DOMAIN disk /\ disk' = Assigned(disk, {ep}, << >>))
      /\ at' = "save" => ep \in DOMAIN disk'
      /\ UNCHANGED << sampler_vars, sampler_config, crashes, AlgorithmOf >>
  BY DEF Trains, train_step, setup, Assigned
<1>2. /\ AlgorithmOf \in [Trainer -> Algorithms] /\ Shaped(AlgorithmOf, nets)
      /\ \A t \in Trainer : AlgorithmOf[t] \in OnPolicyAlgorithms \cup {"dqn"} => IsNets(nets[t])
  BY DEF RunInv, NetsInv
<1>3. ASSUME NEW t \in Trainer
      PROVE  /\ AlgorithmOf[t] \in OnPolicyAlgorithms => IsNets(nets'[t]) /\ nets'[t].target = 0
             /\ AlgorithmOf[t] = "dqn" => IsNets(nets'[t]) /\ nets'[t].critic = 0
             /\ AlgorithmOf[t] = "ppo_entropy" => nets'[t].old = nets'[t].actor
 <2>1. nets'[t] = Trained(t) BY <1>1
 <2>2. CASE AlgorithmOf[t] \in {"ac", "ppo"}
  <3>1. Trained(t) = train_ac(nets[t]) BY <2>2 DEF Trained
  <3>2. IsNets(nets[t]) /\ nets[t].target = 0 BY <1>2, <2>2 DEF OnPolicyAlgorithms, Shaped
  <3> QED BY <2>1, <2>2, <3>1, <3>2, ActorCriticTrains
 <2>3. CASE AlgorithmOf[t] = "ppo_entropy"
  <3>1. Trained(t) = train_ppo_entropy(nets[t]) BY <2>3 DEF Trained
  <3>2. IsNets(nets[t]) /\ nets[t].target = 0 BY <1>2, <2>3 DEF OnPolicyAlgorithms, Shaped
  <3> QED BY <2>1, <2>3, <3>1, <3>2, ActorCriticTrains
 <2>4. CASE AlgorithmOf[t] = "dqn"
  <3>1. Trained(t) = train_dqn(nets[t]) BY <2>4 DEF Trained
  <3>2. IsNets(nets[t]) /\ nets[t].critic = 0 BY <1>2, <2>4 DEF Shaped
  <3> QED BY <2>1, <2>4, <3>1, <3>2, DqnTrains DEF OnPolicyAlgorithms
 <2> QED BY <2>2, <2>3, <2>4 DEF OnPolicyAlgorithms
<1>4. NetsInv' BY <1>1, <1>2, <1>3 DEF NetsInv, Shaped
<1>5. /\ DOMAIN trained' = DOMAIN trained \cup {ep}
      /\ trained'[ep] = TrainedIn(ep) \cup {nets'}
      /\ \A e \in DOMAIN trained : e # ep => trained'[e] = trained[e]
  BY <1>1 DEF Assigned
<1>6. ASSUME NEW e PROVE TrainedIn(e) \subseteq TrainedIn(e)' BY <1>5 DEF TrainedIn
<1>7. DiskInv'
 <2>1. ep \in Nat BY DEF RunInv, CheckpointInv
 <2>2. ASSUME NEW e \in DOMAIN disk' PROVE e \in Nat /\ (e \notin DOMAIN disk => DOMAIN disk'[e] = {})
                                           /\ (e \in DOMAIN disk => disk'[e] = disk[e])
   BY <1>1, <2>1, <2>2 DEF Assigned, RunInv, CheckpointInv, DiskInv
 <2> SUFFICES ASSUME NEW e \in DOMAIN disk', NEW f \in DOMAIN disk'[e], AlgorithmOf[f[1]] # "maddpg"
              PROVE  \E n \in TrainedIn(e)' : Stores(disk'[e][f], f[2], n[f[1]])
   BY <1>1, <2>2 DEF DiskInv
 <2>3. PICK n \in TrainedIn(e) : Stores(disk'[e][f], f[2], n[f[1]])
   BY <2>2 DEF RunInv, CheckpointInv, DiskInv
 <2> QED BY <1>6, <2>3
<1>8. TrainedInv'
 <2>1. Shaped(AlgorithmOf, nets') BY <1>3 DEF Shaped
 <2>2. \A n \in TrainedIn(ep) : Shaped(AlgorithmOf, n)
   BY DEF TrainedIn, RunInv, CheckpointInv, TrainedInv
 <2>3. AlgorithmOf' = AlgorithmOf BY <1>1
 <2> SUFFICES ASSUME NEW e \in DOMAIN trained', NEW n \in trained'[e] PROVE Shaped(AlgorithmOf, n)
   BY <2>3 DEF TrainedInv, Shaped
 <2>4. CASE e = ep BY <1>5, <2>1, <2>2, <2>4
 <2>5. CASE e # ep BY <1>5, <2>5 DEF RunInv, CheckpointInv, TrainedInv
 <2> QED BY <2>4, <2>5
<1>9. nets' \in TrainedIn(ep)' BY <1>1, <1>5 DEF TrainedIn
<1>10. CheckpointInv' BY <1>1, <1>7, <1>8, <1>9 DEF RunInv, CheckpointInv, ResumeContinues
<1>11. PlayInv' BY <1>1, WorkflowIdle DEF RunInv, PlayInv, PhaseInv
<1>12. RecordedInv' BY <1>1 DEF RecordedInv, OnPolicy
<1> QED BY <1>4, <1>10, <1>11, <1>12 DEF RunInv

LEMMA SavesFileKeeps ==
  ASSUME RunInv, SavesFile, UNCHANGED setup
  PROVE  RunInv'
<1>1. /\ at = "save" /\ at' \in {"save", "validate"} /\ ep' = ep
      /\ UNCHANGED << sampler_vars, sampler_config, nets, memory, crashes, trained, AlgorithmOf >>
      /\ \/ disk' = disk
         \/ \E f \in Files : disk' = [disk EXCEPT ![ep] = Assigned(@, {f}, Content(f, nets))]
  BY DEF SavesFile, setup, trainer_vars
<1>2. NetsInv' BY <1>1, NetsStay DEF RunInv
<1>3. /\ ep \in DOMAIN disk /\ ep \in Nat /\ nets \in TrainedIn(ep) /\ DiskInv /\ TrainedInv
      /\ AlgorithmOf \in [Trainer -> Algorithms] /\ Shaped(AlgorithmOf, nets)
  BY <1>1 DEF RunInv, CheckpointInv, NetsInv
<1>4. DiskInv' /\ TrainedInv'
 <2>1. CASE disk' = disk BY <1>1, <1>3, <2>1, DiskStays
 <2>2. ASSUME NEW g \in Files, disk' = [disk EXCEPT ![ep] = Assigned(@, {g}, Content(g, nets))]
       PROVE  DiskInv' /\ TrainedInv'
  <3>1. /\ DOMAIN disk' = DOMAIN disk
        /\ disk'[ep] = Assigned(disk[ep], {g}, Content(g, nets))
        /\ \A e \in DOMAIN disk : e # ep => disk'[e] = disk[e]
    BY <1>3, <2>2
  <3>2. ASSUME NEW e \in DOMAIN disk, NEW f \in DOMAIN disk'[e], AlgorithmOf[f[1]] # "maddpg"
        PROVE  \E n \in TrainedIn(e) : Stores(disk'[e][f], f[2], n[f[1]])
   <4>1. CASE e = ep /\ f = g
    <5>1. disk'[e][f] = Content(f, nets) BY <3>1, <4>1 DEF Assigned
    <5>2. f[1] \in Trainer BY <4>1 DEF Files
    <5>3. Stores(Content(f, nets), f[2], nets[f[1]]) BY <1>3, <3>2, <5>2, ContentStores
    <5> QED BY <1>3, <4>1, <5>1, <5>3
   <4>2. CASE e # ep \/ f # g
    <5>1. f \in DOMAIN disk[e] /\ disk'[e][f] = disk[e][f] BY <3>1, <3>2, <4>2 DEF Assigned
    <5> QED BY <1>3, <3>2, <5>1 DEF DiskInv
   <4> QED BY <4>1, <4>2
  <3>3. DiskInv' BY <1>1, <1>3, <3>1, <3>2 DEF DiskInv, TrainedIn
  <3>4. TrainedInv'
   <4>1. trained' = trained /\ AlgorithmOf' = AlgorithmOf BY <1>1
   <4> QED BY <1>3, <4>1 DEF TrainedInv, Shaped
  <3> QED BY <3>3, <3>4
 <2> QED BY <1>1, <2>1, <2>2
<1>5. TrainedIn(ep)' = TrainedIn(ep) /\ ep \in DOMAIN disk' BY <1>1, <1>3 DEF TrainedIn
<1>6. CheckpointInv' BY <1>1, <1>3, <1>4, <1>5 DEF RunInv, CheckpointInv, ResumeContinues
<1>7. PlayInv' BY <1>1, WorkflowIdle DEF RunInv, PlayInv, PhaseInv
<1>8. RecordedInv' BY <1>1 DEF RunInv, RecordedInv, OnPolicy
<1> QED BY <1>2, <1>6, <1>7, <1>8 DEF RunInv

LEMMA CollectsKeeps ==
  ASSUME SamplerInv, RunInv, Collects, UNCHANGED setup
  PROVE  RunInv'
<1>1. /\ at = "collect"
      /\ UNCHANGED << sampler_config, nets, memory, disk, crashes, trained, AlgorithmOf, at, ep >>
      /\ delay' = delay /\ num_steps' = num_steps
  BY DEF Collects, setup, trainer_vars, sampler_config
<1>2. NetsInv' /\ CheckpointInv' /\ RecordedInv' BY <1>1, WorkflowStays DEF RunInv
<1>3. PlayInv'
 <2>1. CASE phase = "idle" /\ SampleBegins /\ UNCHANGED total
   BY <1>1, <2>1, WorkflowSampleBegins DEF RunInv
 <2>2. CASE (RoundBegins \/ SampleSteps(Versions) \/ RoundCollected) /\ UNCHANGED total
   BY <1>1, <2>2, WorkflowRoundBegins, WorkflowSampleSteps, WorkflowRoundCollected DEF RunInv
 <2>3. CASE /\ phase = "outer" /\ phase' = "idle"
            /\ total' = IF experiences = << >> THEN total ELSE Append(total, experiences)
            /\ UNCHANGED << env, tick, end_of_episode, cache, length >>
   BY <1>1, <2>3, WorkflowSampleEnds DEF RunInv
 <2> QED BY <2>1, <2>2, <2>3 DEF Collects
<1> QED BY <1>2, <1>3 DEF RunInv

-----------------------------------------------------------------------------
LEMMA WorkflowInvInit == MainInit => WorkflowInv
<1> SUFFICES ASSUME Init PROVE RunInv
  BY DEF MainInit, NoWorkflow, WorkflowInv
<1>1. PICK s \in Setups : max_tick = s.max_tick /\ AlgorithmOf = s.algorithms BY DEF Init
<1>2. AlgorithmOf \in [Trainer -> Algorithms] /\ max_tick \in Nat BY <1>1, SetupsAssumption
<1>3. /\ nets = [t \in Trainer |-> FreshNets] /\ memory = [t \in Trainer |-> {}]
      /\ at = "start" /\ ep = 0 /\ disk = << >> /\ crashes = 0 /\ trained = << >>
      /\ phase = "idle" /\ tick = [e \in {"learn", "test"} |-> 0] /\ end_of_episode = TRUE
  BY DEF Init, InitProcess, InitSampler, build
<1>4. NetsInv
 <2>1. \A t \in Trainer : nets[t] = FreshNets BY <1>3
 <2>2. IsNets(FreshNets) /\ FreshNets.critic = 0 /\ FreshNets.target = 0
       /\ FreshNets.old = 0 /\ FreshNets.actor = 0
   BY DEF IsNets, FreshNets
 <2> QED BY <1>2, <2>1, <2>2 DEF NetsInv, Shaped
<1>5. DOMAIN << >> = {} OBVIOUS
<1>6. CheckpointInv BY <1>3, <1>5 DEF CheckpointInv, DiskInv, TrainedInv, ResumeContinues
<1>7. PlayInv
 <2>1. tick \in [{"learn", "test"} -> 0 .. max_tick] BY <1>2, <1>3
 <2> QED BY <1>2, <1>3, <2>1 DEF PlayInv, PhaseInv, TickInv, FreshInv
<1>8. RecordedInv BY <1>3 DEF RecordedInv, OnPolicy
<1> QED BY <1>4, <1>6, <1>7, <1>8 DEF RunInv

LEMMA WorkflowInvStep == SamplerInv /\ WorkflowInv /\ [MainNext]_all_vars => WorkflowInv'
<1> SUFFICES ASSUME SamplerInv, WorkflowInv, [MainNext]_all_vars PROVE WorkflowInv'
  OBVIOUS
<1>1. CASE at = "elsewhere" /\ UNCHANGED vars BY <1>1 DEF WorkflowInv, vars, workflow_vars
<1>2. CASE RunInv /\ (UNCHANGED vars \/ (Stopped /\ UNCHANGED setup))
 <2>1. /\ UNCHANGED << sampler_vars, sampler_config, nets, memory, at, ep, total >>
       /\ UNCHANGED << disk, crashes, trained, AlgorithmOf, delay, num_steps >>
   BY <1>2 DEF vars, setup, workflow_vars, trainer_vars, Stopped, sampler_config
 <2>2. NetsInv' /\ CheckpointInv' /\ RecordedInv' BY <1>2, <2>1, WorkflowStays DEF RunInv
 <2>3. PlayInv'
  <3>1. UNCHANGED << phase, tick, env, end_of_episode, cache, length, max_tick, max_length, experiences >>
    BY <2>1 DEF sampler_vars, sampler_config
  <3>2. Timely' = Timely /\ truncated' = truncated /\ Versions' = Versions
    BY <2>1, <3>1 DEF Timely, truncated, Versions
  <3>3. PhaseInv' /\ TickInv' BY <1>2, <2>1, <3>1 DEF RunInv, PlayInv, PhaseInv, TickInv
  <3>4. FreshInv' BY <1>2, <2>1, <3>1, <3>2 DEF RunInv, PlayInv, FreshInv, ActedBy
  <3> QED BY <3>3, <3>4 DEF PlayInv
 <2> QED BY <2>2, <2>3 DEF RunInv, WorkflowInv
<1>3. CASE RunInv /\ Next
 <2>1. UNCHANGED setup BY <1>3 DEF Next
 <2>2. CASE Runs
  <3>1. CASE StartsNew \/ EpisodeStarts \/ Collects \/ Records
    BY <1>3, <2>1, <3>1, StartsNewKeeps, EpisodeStartsKeeps, CollectsKeeps, RecordsKeeps DEF WorkflowInv
  <3>2. CASE \E e \in DOMAIN disk : Loads(e) BY <1>3, <2>1, <3>2, LoadsKeeps DEF WorkflowInv
  <3>3. CASE Trains \/ SavesFile \/ Validates \/ Evaluates \/ ValidationEnds
    BY <1>3, <2>1, <3>3, TrainsKeeps, SavesFileKeeps, ValidatesKeeps, EvaluatesKeeps, ValidationEndsKeeps
       DEF WorkflowInv
  <3> QED BY <2>2, <3>1, <3>2, <3>3 DEF Runs
 <2>3. CASE Crashes BY <1>3, <2>1, <2>3, CrashesKeeps DEF WorkflowInv
 <2>4. CASE Stopped BY <1>2, <1>3, <2>1, <2>4
 <2> QED BY <1>3, <2>2, <2>3, <2>4 DEF Next
<1>4. (at # "elsewhere" /\ Next) \/ UNCHANGED vars BY DEF MainNext, all_vars
<1> QED BY <1>1, <1>2, <1>3, <1>4 DEF WorkflowInv

(***************************************************************************)
(* What the trainers learn from is what was played (record_experiences,     *)
(* EnvSampler.sample), and for on-policy algorithms it was acted by the     *)
(* policy that is being updated, unless a reward delay and a number of      *)
(* steps per sampling are both set - for any trainers and agents, any       *)
(* schedule, and any number of crashes.                                     *)
(***************************************************************************)
THEOREM LearnedExperiences == MainSpec => []ExperiencesAreTrue
<1>1. SamplerInv => TransitionsAreTrue BY DEF SamplerInv, TransitionsAreTrue, IsTrue
<1>2. WorkflowInv => OnPolicy BY DEF WorkflowInv, RunInv, RecordedInv, OnPolicy
<1>3. SamplerInv /\ WorkflowInv => ExperiencesAreTrue BY <1>1, <1>2 DEF ExperiencesAreTrue
<1>4. MainInit => SamplerInv /\ WorkflowInv BY SamplerInvInit, WorkflowInvInit
<1>5. SamplerInv /\ WorkflowInv /\ [MainNext]_all_vars => (SamplerInv /\ WorkflowInv)'
  BY SamplerInvStep, WorkflowInvStep
<1> QED BY <1>3, <1>4, <1>5, PTL DEF MainSpec

(***************************************************************************)
(* A workflow that continues from a checkpoint continues from the episode   *)
(* after it, with networks that its training ended with: whichever of the   *)
(* processes before wrote the files, and wherever they crashed.             *)
(***************************************************************************)
THEOREM ResumedWorkflow == MainSpec => []ResumeContinues
<1>1. WorkflowInv => ResumeContinues
  BY DEF WorkflowInv, RunInv, CheckpointInv, ResumeContinues
<1>2. MainInit => SamplerInv /\ WorkflowInv BY SamplerInvInit, WorkflowInvInit
<1>3. SamplerInv /\ WorkflowInv /\ [MainNext]_all_vars => (SamplerInv /\ WorkflowInv)'
  BY SamplerInvStep, WorkflowInvStep
<1> QED BY <1>1, <1>2, <1>3, PTL DEF MainSpec
=============================================================================
