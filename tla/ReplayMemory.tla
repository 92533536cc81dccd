---------------------------- MODULE ReplayMemory ----------------------------
(***************************************************************************)
(* The replay memory of a trainer (rl/training/replay_memory.py): arrays of *)
(* Capacity transitions and an index scheduler that says where a batch is   *)
(* stored and what a sample returns.  The memory of a multi-agent trainer   *)
(* has arrays of its own for every agent beside the shared ones.            *)
(* Transitions are numbered in the order they are put; 0 is the zero the    *)
(* arrays are filled with at first.                                         *)
(*                                                                         *)
(* The schedulers: "cyclic" and "overwrite" are RandomIndexScheduler        *)
(* without and with random overwriting; "priority" is                       *)
(* PriorityReplayIndexScheduler, which stores like the first; "fifo" is     *)
(* FIFOIndexScheduler, which hands out what was put since the last sample.  *)
(***************************************************************************)
EXTENDS Integers, Sequences, FiniteSets, Functions

CONSTANTS
  Capacity,   \* the trainer's replay_memory_capacity
  MemoryAgents, \* agents of a multi-agent memory
  MaxItems    \* bound: transitions put altogether

ASSUME CapacityAssumption == Capacity \in Nat \ {0}

VARIABLES
  kind,       \* which scheduler the memory has
  slots,      \* the arrays of the memory: [array -> [index -> transition]]
  weighted,   \* indexes whose weight is not zero (PriorityReplayIndexScheduler)
  ptr, size,  \* RandomIndexScheduler, PriorityReplayIndexScheduler
  head, tail, \* FIFOIndexScheduler
  items,      \* history: how many transitions have been put
  handedOut,  \* history: how many of them a FIFO sample has covered
  putWhenFull,\* history: a put found the FIFO memory full since the last sample
  batch       \* the transitions of the last sample

memoryVars == <<kind, slots, weighted, ptr, size, head, tail, items, handedOut, putWhenFull, batch>>

Indexes == 0 .. Capacity - 1

Lesser(a, b) == IF a < b THEN a ELSE b

\* The classes of memories: their arrays and the schedulers they are made with.
RandomReplayMemory == [arrays |-> {"shared"}, schedulers |-> {"cyclic", "overwrite"}]
PrioritizedReplayMemory == [arrays |-> {"shared"}, schedulers |-> {"priority"}]
FIFOReplayMemory == [arrays |-> {"shared"}, schedulers |-> {"fifo"}]
MultiReplayMemory(schedulers) == [arrays |-> {"shared"} \cup MemoryAgents, schedulers |-> schedulers]
RandomMultiReplayMemory == MultiReplayMemory({"cyclic", "overwrite"})
FIFOMultiReplayMemory == MultiReplayMemory({"fifo"})
Memories == {RandomReplayMemory, PrioritizedReplayMemory, FIFOReplayMemory,
             RandomMultiReplayMemory, FIFOMultiReplayMemory}

MemoryInit ==
  /\ \E m \in Memories :
       /\ kind \in m.schedulers
       /\ slots = [a \in m.arrays |-> [i \in Indexes |-> 0]]
  /\ weighted = {}
  /\ ptr = 0 /\ size = 0
  /\ head = 0 /\ tail = 0
  /\ items = 0
  /\ handedOut = 0
  /\ putWhenFull = FALSE
  /\ batch = <<>>

\* put_by_indexes: the n new transitions go to the given indexes, in every
\* array of the memory.
put_by_indexes(array, indexes, n) ==
  [i \in Indexes |-> IF \E k \in 1 .. n : indexes[k] = i
                     THEN items + (CHOOSE k \in 1 .. n : indexes[k] = i)
                     ELSE array[i]]
Stored(indexes, n) == [a \in DOMAIN slots |-> put_by_indexes(slots[a], indexes, n)]

\* sample_by_indexes: the transitions there, if the arrays agree on them.
sample_by_indexes(indexes) ==
  [k \in DOMAIN indexes |-> IF \A a \in DOMAIN slots : slots[a][indexes[k]] = slots["shared"][indexes[k]]
                            THEN slots["shared"][indexes[k]] ELSE 0]

----------------------------------------------------------------------------
(* RandomIndexScheduler, PriorityReplayIndexScheduler.                       *)

\* get_put_indexes without random overwriting: from ptr on, then from 0.
CyclicIndexes(n) == [k \in 1 .. n |-> (ptr + k - 1) % Capacity]

\* The pointer after n more transitions: at the end of the array, not yet
\* wrapped, when the batch fits exactly.
NextPtr(n) == IF ptr + n <= Capacity THEN ptr + n ELSE ptr + n - Capacity

PutCyclic(n) ==
  /\ kind \in {"cyclic", "priority"}
  /\ slots' = Stored(CyclicIndexes(n), n)
  /\ weighted' = IF kind = "priority" THEN weighted \cup Range(CyclicIndexes(n)) ELSE weighted
  /\ ptr' = NextPtr(n)
  /\ size' = Lesser(size + n, Capacity)
  /\ UNCHANGED <<head, tail, putWhenFull>>

\* The indexes of a put with random overwriting: the free ones, then a choice
\* without replacement among the filled ones.
OverwriteIndexes(n) ==
  {f \in [1 .. n -> Indexes] :
     /\ IsInjective(f)
     /\ \A k \in 1 .. n : IF ptr + k <= Capacity THEN f[k] = ptr + k - 1 ELSE f[k] < ptr}

PutOverwriting(n) ==
  /\ kind = "overwrite"
  /\ \E f \in OverwriteIndexes(n) : slots' = Stored(f, n)
  /\ ptr' = Lesser(ptr + n, Capacity)
  /\ size' = Lesser(size + n, Capacity)
  /\ UNCHANGED <<head, tail, putWhenFull, weighted>>

\* One draw of get_sample_indexes: any filled index, with priorities any of
\* them that has a weight.  update_weight leaves no weight at zero.
Drawable == {i \in 0 .. size - 1 : kind = "priority" => i \in weighted}
DrawOne ==
  /\ kind # "fifo"
  /\ size > 0
  /\ \E i \in Drawable : batch' = sample_by_indexes(<<i>>)
  /\ UNCHANGED <<kind, slots, weighted, ptr, size, head, tail, items, handedOut, putWhenFull>>

----------------------------------------------------------------------------
(* FIFOIndexScheduler.                                                       *)

FifoSize == (Capacity + tail - head) % Capacity

\* The head after making room for n more transitions.
HeadForNoRoom(n) == head
HeadFor(n) ==
  IF FifoSize + n <= Capacity THEN head ELSE (head + FifoSize + n - Capacity) % Capacity

PutFifo(n) ==
  /\ kind = "fifo"
  /\ slots' = Stored([k \in 1 .. n |-> (tail + k - 1) % Capacity], n)
  /\ head' = HeadFor(n)
  /\ tail' = (tail + n) % Capacity
  /\ putWhenFull' = (putWhenFull \/ (head = tail /\ items > handedOut))
  /\ UNCHANGED <<ptr, size, weighted>>

\* get_sample_indexes: from head to tail, around the end of the array; head =
\* tail counts as a full memory here (and as an empty one in size).
FifoIndexes ==
  IF tail > head THEN [k \in 1 .. tail - head |-> head + k - 1]
  ELSE [k \in 1 .. Capacity - head + tail |-> (head + k - 1) % Capacity]

SampleFifo ==
  /\ kind = "fifo"
  /\ batch' = sample_by_indexes(FifoIndexes)
  /\ head' = tail
  /\ handedOut' = items
  /\ putWhenFull' = FALSE
  /\ UNCHANGED <<kind, slots, weighted, ptr, size, tail, items>>

----------------------------------------------------------------------------
\* ReplayMemory.put of a batch of n transitions: asserts 0 < n <= capacity.
Put(n) ==
  /\ n <= Capacity
  /\ items + n <= MaxItems
  /\ \/ PutCyclic(n)
     \/ PutOverwriting(n)
     \/ PutFifo(n)
  /\ items' = items + n
  /\ UNCHANGED <<kind, handedOut, batch>>

MemoryNext ==
  \/ \E n \in 1 .. Capacity : Put(n)
  \/ DrawOne
  \/ SampleFifo

----------------------------------------------------------------------------
(***************************************************************************)
(* The memories that sample at random never return a zero that was not put  *)
(* there, hold no transition twice, and hold the newest one: a draw below   *)
(* size is always a transition, whatever was overwritten, and every one     *)
(* of them may be drawn.  The arrays of all agents hold the same.           *)
(***************************************************************************)
DrawsAreTransitions ==
  kind # "fifo" =>
    LET filled == [i \in 0 .. size - 1 |-> sample_by_indexes(<<i>>)[1]] IN
    /\ Drawable = 0 .. size - 1
    /\ size = Lesser(items, Capacity)
    /\ \A i \in DOMAIN filled : filled[i] \in 1 .. items
    /\ IsInjective(filled)
    /\ items > 0 => \E i \in DOMAIN filled : filled[i] = items

(***************************************************************************)
(* Without random overwriting the memory keeps the newest transitions, as   *)
(* many as it has room for, although a batch may wrap around and the        *)
(* pointer may stand at either end when the memory is exactly full.         *)
(***************************************************************************)
CyclicKeepsNewest ==
  kind \in {"cyclic", "priority"} =>
    {slots["shared"][i] : i \in 0 .. size - 1} = (items - size) + 1 .. items

(***************************************************************************)
(* A FIFO sample returns the transitions put since the last sample, the     *)
(* newest Capacity of them if there are more, in the order they were put.   *)
(* Not when nothing was put, or when a put found the memory exactly full:   *)
(* head = tail then stands for both.                                        *)
(***************************************************************************)
FifoSamplesWhatIsNew ==
  LET n == Lesser(items - handedOut, Capacity) IN
  kind = "fifo" /\ ~putWhenFull /\ n > 0 =>
    /\ Len(FifoIndexes) = n
    /\ \A k \in 1 .. n : sample_by_indexes(FifoIndexes)[k] = items - n + k

(***************************************************************************)
(* A trainer samples what was put and nothing else, the newest of it, for  *)
(* every scheduler.                                                         *)
(***************************************************************************)
SamplesAreWhatWasPut == DrawsAreTransitions /\ CyclicKeepsNewest /\ FifoSamplesWhatIsNew
=============================================================================
