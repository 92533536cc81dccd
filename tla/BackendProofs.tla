------------------------ MODULE BackendProofs -------------------------------
(***************************************************************************)
(* The numpy snapshot list, for every number of snapshots, every set of     *)
(* ticks and every kind of frame contents: it never shows the row of        *)
(* another tick, and it implements the dynamic backend's list.  The frame   *)
(* of the dynamic backend, for every layout of attributes: its memory and   *)
(* its snapshots hold what was written.                                     *)
(***************************************************************************)
EXTENDS Backends, DataLemmas, FiniteSetTheorems, SequenceTheorems, TLAPS

(***************************************************************************)
(* The rows of mapped ticks hold what was taken; inductive together with    *)
(* the type and NoSharedRow, with or without history.                       *)
(***************************************************************************)
RowsAreTaken ==
  \A t \in DOMAIN tick2index :
    t \in DOMAIN taken /\ rows[tick2index[t]] = taken[t]

DataInv == TypeOK /\ NoSharedRow /\ RowsAreTaken

\* The row chosen by take_snapshot is a row of the array.
LEMMA TargetIsIndex ==
  ASSUME TypeOK, NEW t \in Ticks
  PROVE  TargetIndex(t) \in Indices
<1>1. NextIndex \in Indices BY NPAssumption DEF TypeOK, NextIndex, Indices, max_size
<1> QED BY <1>1 DEF TargetIndex, TypeOK

\* Under NoSharedRow, forgetting the old tick of row i unmaps every tick
\* that was mapped to i.
LEMMA ForgottenTicks ==
  ASSUME NoSharedRow, NEW i
  PROVE  /\ MappedTicks(i) \subseteq DOMAIN tick2index
         /\ \A u \in MappedTicks(i) : tick2index[u] # i
  BY DEF NoSharedRow, MappedTicks

\* Recording keeps the type of the history's bookkeeping.
LEMMA RecordedType ==
  ASSUME history \in HistoryType
  PROVE  Recorded \in HistoryType
<1>1. RecordError \in {"none", "KeyError", "IndexError"} BY DEF RecordError
<1> DEFINE e == RecordError
           a == history.asked + 1
           c == IF e = "none" THEN history.count + 1 ELSE history.count
           f == IF e = "none" THEN history.error ELSE e
<1>2. a \in Nat /\ c \in Nat /\ f \in {"none", "KeyError", "IndexError"}
  BY <1>1 DEF HistoryType
<1>3. Recorded \in {history, [[[history EXCEPT !.asked = a] EXCEPT !.error = f]
                                 EXCEPT !.count = c]}
  BY DEF Recorded, HistoryType
<1> HIDE DEF e, a, c, f
<1>4. [history EXCEPT !.asked = a] \in HistoryType BY <1>2 DEF HistoryType
<1>5. [[history EXCEPT !.asked = a] EXCEPT !.error = f] \in HistoryType
  BY <1>2, <1>4 DEF HistoryType
<1>6. [[[history EXCEPT !.asked = a] EXCEPT !.error = f] EXCEPT !.count = c]
         \in HistoryType
  BY <1>2, <1>5 DEF HistoryType
<1> QED BY <1>3, <1>6

LEMMA DataInvInit == Init => DataInv
  BY NPAssumption
     DEF Init, DataInv, TypeOK, NoSharedRow, RowsAreTaken, Indices, NoHistory, HistoryType

LEMMA DataInvStep ==
  ASSUME DataInv, [Next]_vars
  PROVE  DataInv'
<1> USE DEF DataInv
<1>1. CASE UNCHANGED vars BY <1>1 DEF vars, TypeOK, NoSharedRow, RowsAreTaken
<1>2. ASSUME NEW v \in Data, SetAttr(v) PROVE DataInv'
  BY <1>2 DEF SetAttr, TypeOK, NoSharedRow, RowsAreTaken
<1>3. CASE ResetFrame
  BY <1>3, NPAssumption DEF ResetFrame, TypeOK, NoSharedRow, RowsAreTaken
<1>4. CASE ResetSnapshots
 <2>1. history' \in HistoryType BY <1>4 DEF ResetSnapshots, TypeOK, HistoryType
 <2>2. /\ DOMAIN tick2index' = {} /\ DOMAIN index2tick' = {}
       /\ cur_index' = 0 /\ frame' = frame
       /\ rows' = [j \in Indices |-> Zero]
       /\ tick2index' \in [DOMAIN tick2index' -> Indices]
       /\ index2tick' \in [DOMAIN index2tick' -> Ticks]
   BY <1>4 DEF ResetSnapshots
 <2>3. TypeOK' BY <2>1, <2>2, NPAssumption DEF TypeOK
 <2> QED BY <2>2, <2>3 DEF NoSharedRow, RowsAreTaken
<1>5. CASE EnableHistory
  BY <1>5 DEF EnableHistory, TypeOK, HistoryType, NoSharedRow, RowsAreTaken
<1>6. ASSUME NEW t \in Ticks, TakeSnapshot(t) PROVE DataInv'
 <2> DEFINE i == TargetIndex(t)
            M == MappedTicks(i)
 <2>1. i \in Indices BY TargetIsIndex
 <2>2. /\ M \subseteq DOMAIN tick2index
       /\ \A u \in M : tick2index[u] # i
   BY ForgottenTicks
 <2>3. /\ rows' = [rows EXCEPT ![i] = frame]
       /\ frame' = frame
       /\ cur_index' = IF t \in DOMAIN tick2index THEN cur_index ELSE i
       /\ history' = Recorded
   BY <1>6 DEF TakeSnapshot
 <2>4. /\ frame' \in Data /\ rows' \in [Indices -> Data]
       /\ cur_index' \in 0 .. TotalSnapshots
   BY <2>1, <2>3, NPAssumption DEF TypeOK, Indices
 <2>5. history' \in HistoryType BY <2>3, RecordedType DEF TypeOK
 <2>6. CASE RecordError = "none"
  <3>1. /\ index2tick' = [j \in DOMAIN index2tick \cup {i} |->
                            IF j = i THEN t ELSE index2tick[j]]
        /\ tick2index' = [u \in M \cup {t} |->
                            IF u = t THEN i ELSE tick2index[u]]
        /\ taken' = [u \in DOMAIN taken \cup {t} |->
                            IF u = t THEN frame ELSE taken[u]]
    BY <1>6, <2>6 DEF TakeSnapshot
  <3> HIDE DEF i, M
  <3>2. TypeOK' BY <2>1, <2>2, <2>4, <2>5, <3>1 DEF TypeOK
  <3>3. NoSharedRow' BY <2>2, <3>1 DEF NoSharedRow
  <3>4. RowsAreTaken' BY <2>1, <2>2, <2>3, <3>1 DEF RowsAreTaken, TypeOK
  <3> QED BY <3>2, <3>3, <3>4
 <2>7. CASE RecordError # "none"
  <3>1. /\ tick2index' = [u \in M |-> tick2index[u]]
        /\ UNCHANGED <<index2tick, taken>>
    BY <1>6, <2>7 DEF TakeSnapshot
  <3> HIDE DEF i, M
  <3>2. TypeOK' BY <2>1, <2>2, <2>4, <2>5, <3>1 DEF TypeOK
  <3>3. NoSharedRow' BY <2>2, <3>1 DEF NoSharedRow
  <3>4. RowsAreTaken' BY <2>1, <2>2, <2>3, <3>1 DEF RowsAreTaken, TypeOK
  <3> QED BY <3>2, <3>3, <3>4
 <2> QED BY <2>6, <2>7
<1> QED BY <1>1, <1>2, <1>3, <1>4, <1>5, <1>6 DEF Next

\* Every value the snapshot list keeps has its type.
THEOREM NPTypeCorrect == Spec => []TypeOK
<1>1. DataInv => TypeOK BY DEF DataInv
<1> QED BY DataInvInit, DataInvStep, <1>1, PTL DEF Spec

\* A query shows the last snapshot of its tick or padding, never the row of
\* another tick.
THEOREM NPQueryReturnsLastTaken == Spec => []QueryReturnsLastTaken
<1>1. DataInv => QueryReturnsLastTaken
  BY DEF DataInv, RowsAreTaken, QueryReturnsLastTaken, Query
<1> QED BY DataInvInit, DataInvStep, <1>1, PTL DEF Spec

----------------------------------------------------------------------------
(***************************************************************************)
(* As long as no snapshot raises, the rows in use are a full ring or the    *)
(* part 1 .. _cur_index that has been written so far, and walking the       *)
(* ring from the row after _cur_index meets the ticks in ascending order.   *)
(* This is what makes the row that is reused the row of the oldest tick.    *)
(***************************************************************************)
RingShape ==
  \/ DOMAIN index2tick = 1 .. cur_index
  \/ DOMAIN index2tick = Indices /\ cur_index \in Indices

Before(i, j) ==
  \/ i < j /\ (j <= cur_index \/ cur_index < i)
  \/ cur_index < i /\ j <= cur_index

RingOrder ==
  \A i, j \in DOMAIN index2tick : Before(i, j) => index2tick[i] < index2tick[j]

RingInv == DataInv /\ DictsAgree /\ NothingRaised /\ RingShape /\ RingOrder

\* A snapshot after which nothing has raised did not raise itself, nor did
\* one before it.
LEMMA DidNotRaise ==
  ASSUME history \in HistoryType, NEW t \in Ticks, TakeSnapshot(t), NothingRaised'
  PROVE  NothingRaised /\ RecordError = "none"
<1>1. Recorded.error = "none" BY DEF TakeSnapshot, NothingRaised
<1>2. CASE ~history.enabled BY <1>1, <1>2 DEF Recorded, RecordError, NothingRaised
<1>3. CASE history.enabled
 <2>1. Recorded.error = IF RecordError = "none" THEN history.error ELSE RecordError
   BY <1>3 DEF Recorded, HistoryType
 <2> QED BY <1>1, <2>1 DEF NothingRaised
<1> QED BY <1>2, <1>3

\* A snapshot of a tick that has a row leaves the dictionaries as they are.
LEMMA OverwriteStep ==
  ASSUME RingInv, NEW t \in Ticks, TakeSnapshot(t), RecordError = "none",
         t \in DOMAIN tick2index
  PROVE  /\ tick2index' = tick2index
         /\ index2tick' = index2tick
         /\ cur_index' = cur_index
         /\ rows' = [rows EXCEPT ![tick2index[t]] = frame]
<1> DEFINE i == tick2index[t]
<1>1. TargetIndex(t) = i BY DEF TargetIndex
<1>2. i \in DOMAIN index2tick /\ index2tick[i] = t BY DEF RingInv, DataInv, NoSharedRow
<1>3. MappedTicks(i) \cup {t} = DOMAIN tick2index BY <1>2 DEF MappedTicks
<1>4. /\ index2tick' = [j \in DOMAIN index2tick \cup {i} |->
                          IF j = i THEN t ELSE index2tick[j]]
      /\ tick2index' = [u \in MappedTicks(i) \cup {t} |->
                          IF u = t THEN i ELSE tick2index[u]]
      /\ cur_index' = cur_index
      /\ rows' = [rows EXCEPT ![i] = frame]
  BY <1>1 DEF TakeSnapshot
<1>5. tick2index' = tick2index BY <1>3, <1>4 DEF RingInv, DataInv, TypeOK
<1>6. index2tick' = index2tick BY <1>2, <1>4 DEF RingInv, DataInv, TypeOK
<1> QED BY <1>4, <1>5, <1>6

\* As many ticks are mapped as rows are in use.
LEMMA MappedTickCount ==
  ASSUME RingInv
  PROVE  /\ IsFiniteSet(DOMAIN tick2index)
         /\ Cardinality(DOMAIN tick2index) = Cardinality(DOMAIN index2tick)
<1> DEFINE D == DOMAIN tick2index
           I == DOMAIN index2tick
<1>1. IsFiniteSet(I)
 <2>1. IsFiniteSet(Indices) BY NPAssumption, FS_Interval DEF Indices
 <2> QED BY <2>1, FS_Subset DEF RingInv, DataInv, TypeOK
<1>2. index2tick \in [I -> D] BY DEF RingInv, DictsAgree, DataInv, TypeOK
<1>3. \A a, b \in I : index2tick[a] = index2tick[b] => a = b BY DEF RingInv, DictsAgree
<1>4. \A u \in D : \E a \in I : index2tick[a] = u
  BY DEF RingInv, DictsAgree, NoSharedRow, NothingRaised
<1>5. index2tick \in Bijection(I, D)
  BY <1>2, <1>3, <1>4 DEF Bijection, Injection, Surjection, IsInjective
<1>6. ExistsBijection(I, D) BY <1>5 DEF ExistsBijection
<1> QED BY <1>1, <1>6, FS_Bijection

\* A snapshot of a new tick reuses a row only when the ring is full, and then
\* the row of the oldest tick.
LEMMA ReusedRowIsOldest ==
  ASSUME RingInv
  PROVE  /\ NextIndex \in Indices
         /\ NextIndex \notin DOMAIN index2tick =>
              /\ DOMAIN index2tick = 1 .. cur_index
              /\ cur_index < TotalSnapshots
              /\ NextIndex = cur_index + 1
         /\ NextIndex \in DOMAIN index2tick =>
              /\ DOMAIN index2tick = Indices
              /\ \A j \in Indices : j # NextIndex => Before(NextIndex, j)
<1>1. /\ cur_index \in 0 .. TotalSnapshots
      /\ TotalSnapshots \in Nat /\ TotalSnapshots > 0
  BY NPAssumption DEF RingInv, DataInv, TypeOK
<1>2. CASE cur_index = TotalSnapshots
 <2>1. NextIndex = 1 BY <1>1, <1>2 DEF NextIndex, max_size
 <2>2. DOMAIN index2tick = Indices BY <1>2 DEF RingInv, RingShape, Indices
 <2>3. \A j \in Indices : j # 1 => Before(1, j) BY <1>1, <1>2 DEF Indices, Before
 <2> QED BY <1>1, <2>1, <2>2, <2>3 DEF Indices
<1>3. CASE cur_index < TotalSnapshots
 <2>1. NextIndex = cur_index + 1 /\ NextIndex \in Indices
   BY <1>1, <1>3 DEF NextIndex, max_size, Indices
 <2>2. cur_index + 1 \notin 1 .. cur_index BY <1>1
 <2>3. \A j \in Indices : j # cur_index + 1 => Before(cur_index + 1, j)
   BY <1>1 DEF Indices, Before
 <2> QED BY <1>3, <2>1, <2>2, <2>3 DEF RingInv, RingShape
<1> QED BY <1>1, <1>2, <1>3

\* What a snapshot of a new tick does to the dictionaries.
LEMMA NewTickStep ==
  ASSUME RingInv, NEW t \in Ticks, TakeSnapshot(t), RecordError = "none",
         t \notin DOMAIN tick2index
  PROVE  LET i == NextIndex IN
         /\ index2tick' = [j \in DOMAIN index2tick \cup {i} |->
                             IF j = i THEN t ELSE index2tick[j]]
         /\ tick2index' = [u \in MappedTicks(i) \cup {t} |->
                             IF u = t THEN i ELSE tick2index[u]]
         /\ cur_index' = i
         /\ rows' = [rows EXCEPT ![i] = frame]
<1>1. TargetIndex(t) = NextIndex BY DEF TargetIndex
<1> QED BY <1>1 DEF TakeSnapshot

LEMMA RingInvNewTick ==
  ASSUME RingInv, NEW t \in Ticks, InOrder(t), TakeSnapshot(t),
         RecordError = "none", t \notin DOMAIN tick2index, DataInv', NothingRaised'
  PROVE  RingInv'
<1> DEFINE i == NextIndex
           M == MappedTicks(i)
<1>1. /\ index2tick' = [j \in DOMAIN index2tick \cup {i} |->
                          IF j = i THEN t ELSE index2tick[j]]
      /\ tick2index' = [u \in M \cup {t} |->
                          IF u = t THEN i ELSE tick2index[u]]
      /\ cur_index' = i
  BY NewTickStep
<1>2. /\ i \in Indices
      /\ i \notin DOMAIN index2tick => /\ DOMAIN index2tick = 1 .. cur_index
                                       /\ cur_index < TotalSnapshots
                                       /\ i = cur_index + 1
      /\ i \in DOMAIN index2tick => DOMAIN index2tick = Indices
  BY ReusedRowIsOldest
<1>3. /\ cur_index \in 0 .. TotalSnapshots
      /\ TotalSnapshots \in Nat /\ TotalSnapshots > 0
      /\ DOMAIN index2tick \subseteq Nat
  BY NPAssumption DEF RingInv, DataInv, TypeOK, Indices
<1>4. RingShape'
 <2>1. CASE i \in DOMAIN index2tick
  <3>1. DOMAIN index2tick' = Indices BY <1>1, <1>2, <2>1
  <3> QED BY <3>1, <1>1, <1>2 DEF RingShape, Indices
 <2>2. CASE i \notin DOMAIN index2tick
  <3>1. DOMAIN index2tick' = (1 .. cur_index) \cup {cur_index + 1} BY <1>1, <1>2, <2>2
  <3>2. (1 .. cur_index) \cup {cur_index + 1} = 1 .. (cur_index + 1) BY <1>3
  <3> QED BY <3>1, <3>2, <1>1, <1>2, <2>2 DEF RingShape
 <2> QED BY <2>1, <2>2
<1>5. \A j \in DOMAIN index2tick :
         /\ index2tick[j] \in DOMAIN tick2index
         /\ index2tick[j] # t
         /\ index2tick[j] \in Nat /\ t \in Nat
         /\ index2tick[j] < t
 <2> SUFFICES ASSUME NEW j \in DOMAIN index2tick
              PROVE  /\ index2tick[j] \in DOMAIN tick2index
                     /\ index2tick[j] # t
                     /\ index2tick[j] \in Nat /\ t \in Nat
                     /\ index2tick[j] < t
   OBVIOUS
 <2>1. index2tick[j] \in DOMAIN tick2index BY DEF RingInv, DictsAgree
 <2>2. index2tick[j] # t BY <2>1
 <2>3. index2tick[j] \in Nat /\ t \in Nat BY <2>1, NPAssumption DEF RingInv, DataInv, TypeOK
 <2>4. index2tick[j] <= t BY <2>1 DEF InOrder
 <2> QED BY <2>1, <2>2, <2>3, <2>4
<1>6. RingOrder'
 <2> SUFFICES ASSUME NEW a \in DOMAIN index2tick', NEW b \in DOMAIN index2tick',
                     Before(a, b)'
              PROVE  index2tick'[a] < index2tick'[b]
   BY DEF RingOrder
 <2>1. (a < b /\ (b <= i \/ i < a)) \/ (i < a /\ b <= i) BY <1>1 DEF Before
 <2>2. a \in Nat /\ b \in Nat /\ i \in Nat BY <1>1, <1>2, <1>3 DEF Indices
 <2>3. a # i /\ a \in DOMAIN index2tick /\ index2tick'[a] = index2tick[a]
   BY <2>1, <2>2, <1>1
 <2>4. CASE b = i BY <2>3, <2>4, <1>1, <1>5
 <2>5. CASE b # i
  <3>1. b \in DOMAIN index2tick /\ index2tick'[b] = index2tick[b] BY <2>5, <1>1
  <3>2. a <= TotalSnapshots /\ b <= TotalSnapshots /\ a >= 1 /\ b >= 1
    BY <2>3, <3>1 DEF RingInv, DataInv, TypeOK, Indices
  <3>3. (i = 1 /\ cur_index = TotalSnapshots) \/ i = cur_index + 1
    BY <1>3 DEF NextIndex, max_size
  <3> HIDE DEF i
  <3>4. Before(a, b) BY <2>1, <2>2, <2>5, <3>2, <3>3, <1>3 DEF Before
  <3> QED BY <2>3, <3>1, <3>4 DEF RingInv, RingOrder
 <2> QED BY <2>4, <2>5
<1>7. DictsAgree'
 <2>1. NoSharedRow' BY DEF DataInv
 <2>2. ASSUME NEW j \in DOMAIN index2tick'
       PROVE  /\ index2tick'[j] \in DOMAIN tick2index'
              /\ tick2index'[index2tick'[j]] = j
  <3>1. CASE j = i BY <3>1, <1>1
  <3>2. CASE j # i
   <4>1. j \in DOMAIN index2tick /\ index2tick'[j] = index2tick[j] BY <3>2, <2>2, <1>1
   <4>2. /\ index2tick[j] \in DOMAIN tick2index
         /\ tick2index[index2tick[j]] = j
     BY <4>1 DEF RingInv, DictsAgree
   <4>3. index2tick[j] \in M BY <3>2, <4>1, <4>2 DEF RingInv, DictsAgree, MappedTicks
   <4> QED BY <4>1, <4>2, <4>3, <1>1, <1>5
  <3> QED BY <3>1, <3>2
 <2> QED BY <2>1, <2>2 DEF DictsAgree
<1> QED BY <1>4, <1>6, <1>7 DEF RingInv

LEMMA RingInvInit == Init => RingInv
<1> SUFFICES ASSUME Init PROVE RingInv
  OBVIOUS
<1>1. DataInv BY DataInvInit
<1>2. DOMAIN index2tick = {} /\ DOMAIN tick2index = {} /\ cur_index = 0 BY DEF Init
<1>3. 1 .. 0 = {} OBVIOUS
<1>4. NothingRaised BY DEF Init, NoHistory, NothingRaised
<1> QED BY <1>1, <1>2, <1>3, <1>4
     DEF RingInv, DictsAgree, NoSharedRow, RingShape, RingOrder

\* What is inductive: the ring is in order whenever nothing has raised.
SafeInv == DataInv /\ (NothingRaised => RingInv)

LEMMA SafeInvStep ==
  ASSUME SafeInv, [Next]_vars
  PROVE  SafeInv'
<1>1. DataInv' BY DataInvStep DEF SafeInv
<1> SUFFICES ASSUME NothingRaised' PROVE RingInv'
  BY <1>1 DEF SafeInv
<1> DEFINE ring == <<tick2index, index2tick, cur_index>>
<1>2. ASSUME RingInv, UNCHANGED ring PROVE RingInv'
  BY <1>1, <1>2
     DEF RingInv, DictsAgree, NoSharedRow, RingShape, RingOrder, Before, Indices
<1>3. CASE UNCHANGED vars \/ (\E v \in Data : SetAttr(v)) \/ ResetFrame
 <2>1. UNCHANGED ring /\ UNCHANGED history BY <1>3 DEF vars, SetAttr, ResetFrame
 <2>2. RingInv BY <2>1 DEF SafeInv, NothingRaised
 <2> QED BY <2>1, <2>2, <1>2
<1>4. CASE EnableHistory
 <2>1. UNCHANGED ring /\ history'.error = history.error
   BY <1>4 DEF EnableHistory, SafeInv, DataInv, TypeOK, HistoryType
 <2>2. RingInv BY <2>1 DEF SafeInv, NothingRaised
 <2> QED BY <2>1, <2>2, <1>2
<1>5. CASE ResetSnapshots
 <2>1. /\ DOMAIN index2tick' = {} /\ DOMAIN tick2index' = {}
       /\ cur_index' = 0
   BY <1>5 DEF ResetSnapshots
 <2>2. 1 .. 0 = {} OBVIOUS
 <2> QED BY <1>1, <2>1, <2>2
      DEF RingInv, DictsAgree, NoSharedRow, RingShape, RingOrder
<1>6. ASSUME NEW t \in Ticks, InOrder(t), TakeSnapshot(t) PROVE RingInv'
 <2>1. RingInv /\ RecordError = "none" BY <1>6, DidNotRaise DEF SafeInv, DataInv, TypeOK
 <2>2. CASE t \in DOMAIN tick2index BY <1>2, <1>6, <2>1, <2>2, OverwriteStep
 <2>3. CASE t \notin DOMAIN tick2index BY <1>1, <1>6, <2>1, <2>3, RingInvNewTick
 <2> QED BY <2>2, <2>3
<1> QED BY <1>3, <1>4, <1>5, <1>6 DEF Next

\* The two dictionaries are each other's inverse unless a snapshot raised, so
\* __len__ counts the ticks that can be queried.
THEOREM NPDictsAgree == Spec => []DictsAgree
<1>1. Init => SafeInv BY DataInvInit, RingInvInit DEF SafeInv
<1>2. SafeInv => DictsAgree BY DEF SafeInv, DataInv, RingInv, DictsAgree
<1> QED BY SafeInvStep, <1>1, <1>2, PTL DEF Spec

----------------------------------------------------------------------------
\* The snapshots the numpy list shows, as a map.
shown == [t \in DOMAIN tick2index |-> rows[tick2index[t]]]

\* In both lists the same ticks make room for a snapshot of t.
LEMMA SameTicksKept ==
  ASSUME RingInv, NEW t \in Ticks, InOrder(t)
  PROVE  Raw!KeptKeys(t) \cup {t} = MappedTicks(TargetIndex(t)) \cup {t}
<1> DEFINE D == DOMAIN tick2index
           rest == D \ {t}
<1>1. /\ IsFiniteSet(D)
      /\ Cardinality(D) = Cardinality(DOMAIN index2tick)
  BY MappedTickCount
<1>2. /\ TotalSnapshots \in Nat /\ TotalSnapshots > 0
      /\ cur_index \in 0 .. TotalSnapshots
      /\ DOMAIN index2tick \subseteq Indices
  BY NPAssumption DEF RingInv, DataInv, TypeOK
<1>3. /\ Cardinality(Indices) = TotalSnapshots
      /\ Cardinality(1 .. cur_index) = cur_index
      /\ IsFiniteSet(Indices)
  BY <1>2, FS_Interval DEF Indices
<1>4. Cardinality(D) <= TotalSnapshots /\ Cardinality(D) \in Nat
  BY <1>1, <1>2, <1>3, FS_Subset, FS_CardinalityType
<1>5. Raw!KeptKeys(t) = IF Cardinality(rest) > 0 /\ Cardinality(rest) >= TotalSnapshots
                        THEN rest \ Raw!Oldest(rest) ELSE rest
 <2>1. \A S : Raw!Cardinality(S) = Cardinality(S)
   BY Zenon DEF Raw!Cardinality, Cardinality, Raw!IsFiniteSet, IsFiniteSet
 <2> QED BY <2>1 DEF Raw!KeptKeys
<1>6. CASE t \in D
 <2>1. Cardinality(rest) = Cardinality(D) - 1 BY <1>1, <1>6, FS_RemoveElement
 <2>2. Raw!KeptKeys(t) = rest BY <1>2, <1>4, <1>5, <2>1
 <2>3. TargetIndex(t) \in DOMAIN index2tick /\ index2tick[TargetIndex(t)] = t
   BY <1>6 DEF TargetIndex, RingInv, DictsAgree, NoSharedRow
 <2> QED BY <2>2, <2>3 DEF MappedTicks
<1>7. CASE t \notin D
 <2>1. TargetIndex(t) = NextIndex /\ rest = D BY <1>7 DEF TargetIndex
 <2>2. CASE NextIndex \notin DOMAIN index2tick
  <3>1. Cardinality(D) < TotalSnapshots BY <1>1, <1>2, <1>3, <2>2, ReusedRowIsOldest
  <3>2. Raw!KeptKeys(t) = D BY <1>2, <1>4, <1>5, <2>1, <3>1
  <3> QED BY <3>2, <2>1, <2>2 DEF MappedTicks
 <2>3. CASE NextIndex \in DOMAIN index2tick
  <3> DEFINE old == index2tick[NextIndex]
  <3>1. /\ DOMAIN index2tick = Indices
        /\ \A j \in Indices : j # NextIndex => Before(NextIndex, j)
    BY <2>3, ReusedRowIsOldest
  <3>2. Raw!KeptKeys(t) = D \ Raw!Oldest(D) BY <1>1, <1>2, <1>3, <1>5, <2>1, <3>1
  <3>3. old \in D /\ D \subseteq Nat
    BY <2>3, NPAssumption DEF RingInv, DictsAgree, DataInv, TypeOK
  <3>4. ASSUME NEW u \in D, u # old PROVE old < u
   <4>1. /\ tick2index[u] \in DOMAIN index2tick
         /\ index2tick[tick2index[u]] = u
     BY <3>4 DEF RingInv, DictsAgree, NoSharedRow
   <4>2. tick2index[u] # NextIndex BY <3>4, <4>1
   <4>3. Before(NextIndex, tick2index[u]) BY <3>1, <4>1, <4>2
   <4>4. old < index2tick[tick2index[u]] BY <2>3, <4>1, <4>3 DEF RingInv, RingOrder
   <4> QED BY <4>1, <4>4
  <3>5. old \in Raw!Oldest(D) BY <3>3, <3>4 DEF Raw!Oldest
  <3>6. ASSUME NEW u \in Raw!Oldest(D) PROVE u = old
   <4>1. u \in D /\ u <= old BY <3>3, <3>6 DEF Raw!Oldest
   <4>2. u \in Nat /\ old \in Nat BY <4>1, <3>3
   <4> QED BY <4>1, <4>2, <3>4
  <3>7. Raw!KeptKeys(t) = D \ {old} BY <3>2, <3>5, <3>6
  <3> QED BY <3>7, <2>1, <2>3 DEF MappedTicks
 <2> QED BY <2>2, <2>3
<1> QED BY <1>6, <1>7

(***************************************************************************)
(* The static backend implements the dynamic one: on every sequence of      *)
(* snapshots the simulator can ask for, both show the same ticks with the   *)
(* same contents, until a recording of the history raises.                  *)
(***************************************************************************)
THEOREM NPSameAsRawBackend == Spec => SameAsRawBackend
<1>1. Init => Raw!RawInit BY DEF Init, Raw!RawInit
<1>2. ASSUME SafeInv, [Next]_vars
      PROVE  [NothingRaised' => Raw!RawNext]_Raw!rawVars
 <2> SUFFICES ASSUME NothingRaised' PROVE [Raw!RawNext]_Raw!rawVars
   OBVIOUS
 <2>1. CASE UNCHANGED vars BY <2>1 DEF vars, Raw!rawVars
 <2>2. ASSUME NEW v \in Data, SetAttr(v) PROVE Raw!RawNext
   BY <2>2 DEF SetAttr, Raw!RawNext, Raw!SetAttr
 <2>3. CASE ResetFrame BY <2>3 DEF ResetFrame, Raw!RawNext, Raw!ResetFrame
 <2>4. CASE ResetSnapshots BY <2>4 DEF ResetSnapshots, Raw!RawNext, Raw!ResetSnapshots
 <2>5. ASSUME NEW t \in Ticks, InOrder(t), TakeSnapshot(t) PROVE Raw!RawNext
  <3> DEFINE i == TargetIndex(t)
             M == MappedTicks(i)
  <3>1. RingInv /\ RecordError = "none"
    BY <1>2, <2>5, DidNotRaise DEF SafeInv, DataInv, TypeOK
  <3>2. /\ tick2index' = [u \in M \cup {t} |->
                            IF u = t THEN i ELSE tick2index[u]]
        /\ rows' = [rows EXCEPT ![i] = frame]
        /\ frame' = frame
        /\ taken' = [u \in DOMAIN taken \cup {t} |->
                            IF u = t THEN frame ELSE taken[u]]
    BY <2>5, <3>1 DEF TakeSnapshot
  <3>3. i \in Indices /\ rows \in [Indices -> Data]
    BY <3>1, TargetIsIndex DEF RingInv, DataInv, TypeOK
  <3>4. /\ M \subseteq DOMAIN tick2index
        /\ \A u \in M : tick2index[u] # i
        /\ \A u \in M : tick2index[u] \in Indices
    BY <3>1, ForgottenTicks DEF RingInv, DataInv, TypeOK
  <3>5. Raw!KeptKeys(t) \cup {t} = M \cup {t} BY <3>1, <2>5, SameTicksKept
  <3> HIDE DEF i, M
  <3>6. shown' = [u \in M \cup {t} |-> IF u = t THEN frame ELSE shown[u]]
    BY <3>2, <3>3, <3>4 DEF shown
  <3>7. Raw!TakeSnapshot(t) BY <3>2, <3>5, <3>6 DEF Raw!TakeSnapshot, Raw!StoreCopy, shown
  <3>8. Raw!InOrder(t) BY <2>5 DEF Raw!InOrder, InOrder
  <3> QED BY <3>7, <3>8 DEF Raw!RawNext
 <2>6. CASE EnableHistory BY <2>6 DEF EnableHistory, Raw!rawVars
 <2> QED BY <1>2, <2>1, <2>2, <2>3, <2>4, <2>5, <2>6 DEF Next
<1>3. Init => SafeInv BY DataInvInit, RingInvInit DEF SafeInv
<1> QED BY SafeInvStep, <1>1, <1>2, <1>3, PTL DEF Spec, SameAsRawBackend

----------------------------------------------------------------------------
(***************************************************************************)
(* The memory of the dynamic backend (raw/node.cpp).  Where a cell is:      *)
(* the parts of nodes and of attributes in a block do not overlap.          *)
(***************************************************************************)

(* The cells of an attribute lie in the part of its block that belongs to   *)
(* the node, after those of the attributes before it.                       *)
LEMMA LayoutTypes ==
  /\ IsFiniteSet(DOMAIN Attrs) /\ DOMAIN Attrs \subseteq Nat \ {0}
  /\ \A a \in DOMAIN Attrs : /\ Width[a] \in Nat /\ Width[a] = slot_number(a)
                             /\ Attrs[a].is_list \in BOOLEAN /\ Attrs[a].is_const \in BOOLEAN
                             /\ Attrs[a].slots \in Nat
  /\ Lists \subseteq InBlock(FALSE) /\ \A a \in Lists : Width[a] = 1 /\ a \in DOMAIN Attrs
<1>1. /\ DOMAIN Attrs = 1..Len(Attrs) /\ Len(Attrs) \in Nat
      /\ \A a \in DOMAIN Attrs : Attrs[a] \in [is_list : BOOLEAN, is_const : BOOLEAN, slots : Nat]
 <2> DEFINE R == [is_list : BOOLEAN, is_const : BOOLEAN, slots : Nat]
 <2>1. Attrs \in Seq(R) BY NodeAssumption
 <2> HIDE DEF R
 <2>2. /\ DOMAIN Attrs = 1..Len(Attrs) /\ Len(Attrs) \in Nat
       /\ \A a \in DOMAIN Attrs : Attrs[a] \in R
   BY <2>1
 <2> QED BY <2>2 DEF R
<1>2. IsFiniteSet(DOMAIN Attrs)
 <2> DEFINE l == Len(Attrs)
 <2>1. 1 \in Int /\ l \in Int /\ DOMAIN Attrs = 1..l BY <1>1
 <2> HIDE DEF l
 <2>2. IsFiniteSet(1..l) BY <2>1, FS_Interval
 <2> QED BY <2>1, <2>2
<1>3. \A a \in DOMAIN Attrs : Width[a] \in Nat /\ Width[a] = slot_number(a)
  BY <1>1 DEF Width, slot_number
<1>4. Lists \subseteq InBlock(FALSE) /\ \A a \in Lists : Width[a] = 1 /\ a \in DOMAIN Attrs
  BY <1>1, NodeAssumption DEF Lists, InBlock, Width, slot_number
<1>5. \A a \in DOMAIN Attrs : /\ Attrs[a].is_list \in BOOLEAN /\ Attrs[a].is_const \in BOOLEAN
                              /\ Attrs[a].slots \in Nat
  BY <1>1
<1>6. DOMAIN Attrs \subseteq Nat \ {0} BY <1>1
<1> QED BY <1>2, <1>3, <1>4, <1>5, <1>6, Zenon

\* Sums of widths are natural, and grow with the set.
LEMMA WidthsAddUp ==
  ASSUME NEW S \in SUBSET DOMAIN Attrs, NEW T \in SUBSET S
  PROVE  /\ SumFunctionOnSet(Width, S) \in Nat /\ SumFunctionOnSet(Width, T) \in Nat
         /\ SumFunctionOnSet(Width, T) <= SumFunctionOnSet(Width, S)
<1>1. IsFiniteSet(S) /\ IsFiniteSet(T) /\ IsFiniteSet(S \ T) BY LayoutTypes, FS_Subset
<1>2. \A x \in S : Width[x] \in Nat /\ Width[x] \in Int BY LayoutTypes
<1>3. /\ SumFunctionOnSet(Width, S) \in Nat /\ SumFunctionOnSet(Width, T) \in Nat
      /\ SumFunctionOnSet(Width, S \ T) \in Nat
  BY <1>1, <1>2, SumIsNatural
<1>4. SumFunctionOnSet(Width, S) = SumFunctionOnSet(Width, T) + SumFunctionOnSet(Width, S \ T)
  BY <1>1, <1>2, SumSplits
<1> QED BY <1>3, <1>4

\* An attribute fits before what comes after it, and all fit in the node.
LEMMA OffsetsFit ==
  ASSUME NEW a \in DOMAIN Attrs
  PROVE  /\ offset[a] \in Nat /\ size_per_node[Attrs[a].is_const] \in Nat
         /\ offset[a] + Width[a] <= size_per_node[Attrs[a].is_const]
         /\ \A b \in InBlock(Attrs[a].is_const) : a < b => offset[a] + Width[a] <= offset[b]
<1> DEFINE c == Attrs[a].is_const
           Earlier(b) == {d \in InBlock(c) : d < b}
           W(S) == SumFunctionOnSet(Width, S)
<1>1. /\ c \in BOOLEAN /\ InBlock(c) \subseteq DOMAIN Attrs /\ a \in InBlock(c)
      /\ \A b \in InBlock(c) : Attrs[b].is_const = c /\ b \in Nat /\ b \in DOMAIN Attrs
  BY LayoutTypes DEF InBlock
<1>2. \A b \in InBlock(c) : offset[b] = W(Earlier(b)) BY <1>1 DEF offset
<1>3. size_per_node[c] = W(InBlock(c)) BY <1>1 DEF size_per_node
<1>4. W(Earlier(a) \cup {a}) = Width[a] + W(Earlier(a)) /\ Width[a] \in Nat
 <2> DEFINE S == Earlier(a)
 <2>1. S \subseteq DOMAIN Attrs /\ a \notin S BY <1>1
 <2>2. IsFiniteSet(S) /\ \A x \in S \cup {a} : Width[x] \in Int
   BY <2>1, LayoutTypes, FS_Subset
 <2> HIDE DEF S
 <2>3. SumFunctionOnSet(Width, S \cup {a}) = Width[a] + SumFunctionOnSet(Width, S)
   BY <2>1, <2>2, SumAdds
 <2> QED BY <2>3, LayoutTypes DEF S
<1>5. ASSUME NEW S \in SUBSET DOMAIN Attrs, Earlier(a) \cup {a} \subseteq S
      PROVE  /\ W(Earlier(a)) \in Nat /\ W(S) \in Nat
             /\ W(Earlier(a)) + Width[a] <= W(S)
 <2>1. W(Earlier(a) \cup {a}) <= W(S) /\ W(S) \in Nat BY <1>5, WidthsAddUp
 <2>2. Earlier(a) \subseteq S BY <1>5
 <2>3. W(Earlier(a)) \in Nat BY <1>5, <2>2, WidthsAddUp
 <2> QED BY <1>4, <2>1, <2>3
<1>6. /\ offset[a] \in Nat /\ size_per_node[c] \in Nat
      /\ offset[a] + Width[a] <= size_per_node[c]
 <2>1. Earlier(a) \cup {a} \subseteq InBlock(c) BY <1>1
 <2> HIDE DEF Earlier, W
 <2> QED BY <1>1, <1>2, <1>3, <1>5, <2>1
<1>7. ASSUME NEW b \in InBlock(c), a < b
      PROVE  offset[a] + Width[a] <= offset[b]
 <2>1. Earlier(a) \cup {a} \subseteq Earlier(b) /\ Earlier(b) \in SUBSET DOMAIN Attrs
   BY <1>1, <1>7
 <2> HIDE DEF Earlier, W
 <2> QED BY <1>1, <1>2, <1>5, <2>1
<1> QED BY <1>6, <1>7

Address(i, a, slot) == compose_attr_offset_in_node(i, a, slot)

\* An address lies in the part of its node,
LEMMA AddressInNode ==
  ASSUME NEW i \in Nat, NEW a \in DOMAIN Attrs, NEW s \in 0..Width[a] - 1
  PROVE  LET z == size_per_node[Attrs[a].is_const]
         IN  /\ Address(i, a, s) \in Nat \ {0}
             /\ i * z < Address(i, a, s) /\ Address(i, a, s) <= i * z + z
             /\ i * z \in Nat /\ z \in Nat /\ Width[a] \in Nat
<1> DEFINE z == size_per_node[Attrs[a].is_const]
<1>1. /\ offset[a] \in Nat /\ z \in Nat /\ offset[a] + Width[a] <= z /\ Width[a] \in Nat
  BY OffsetsFit, LayoutTypes
<1>2. Address(i, a, s) = i * z + offset[a] + s + 1
  BY DEF Address, compose_attr_offset_in_node
<1> HIDE DEF z
<1>3. i * z \in Nat BY <1>1
<1> QED BY <1>1, <1>2, <1>3 DEF z

\* The parts of two nodes in a block are one after the other.
LEMMA ProductGrows ==
  ASSUME NEW i \in Nat, NEW j \in Nat, i < j, NEW z \in Nat
  PROVE  i * z \in Nat /\ j * z \in Nat /\ i * z + z <= j * z
<1>1. PICK d \in Nat : j = i + 1 + d
 <2>1. j - i - 1 \in Nat /\ j = i + 1 + (j - i - 1) OBVIOUS
 <2> QED BY <2>1
<1> QED OBVIOUS

\* ... and of no other.
LEMMA AddressesDiffer ==
  ASSUME NEW i \in Nat, NEW a \in DOMAIN Attrs, NEW s \in 0..Width[a] - 1,
         NEW j \in Nat, NEW b \in InBlock(Attrs[a].is_const), NEW u \in 0..Width[b] - 1,
         Address(i, a, s) = Address(j, b, u)
  PROVE  i = j /\ a = b /\ s = u
<1> DEFINE z == size_per_node[Attrs[a].is_const]
           k == Address(i, a, s)
<1>1. b \in DOMAIN Attrs /\ Attrs[b].is_const = Attrs[a].is_const /\ a \in InBlock(Attrs[b].is_const)
  BY DEF InBlock
<1>2. /\ z \in Nat /\ i * z \in Nat /\ j * z \in Nat /\ k \in Nat
      /\ i * z < k /\ k <= i * z + z /\ j * z < k /\ k <= j * z + z
  BY <1>1, AddressInNode
<1>3. i = j
 <2> HIDE DEF z, k
 <2>1. ~ (i < j) BY <1>2, ProductGrows
 <2>2. ~ (j < i) BY <1>2, ProductGrows
 <2> QED BY <2>1, <2>2
<1>4. k = i * z + offset[a] + s + 1 /\ k = j * z + offset[b] + u + 1
  BY <1>1 DEF Address, compose_attr_offset_in_node
<1>5. /\ offset[a] \in Nat /\ offset[b] \in Nat /\ a \in Nat /\ b \in Nat
      /\ Width[a] \in Nat /\ Width[b] \in Nat
      /\ (a < b => offset[a] + Width[a] <= offset[b]) /\ (b < a => offset[b] + Width[b] <= offset[a])
  BY <1>1, OffsetsFit, LayoutTypes
<1>6. offset[a] + s = offset[b] + u
 <2> DEFINE p == i * z
 <2>1. p \in Nat /\ k = p + offset[a] + s + 1 /\ k = p + offset[b] + u + 1
   BY <1>2, <1>3, <1>4
 <2> HIDE DEF p, k
 <2> QED BY <1>5, <2>1
<1> QED BY <1>3, <1>5, <1>6

\* The addresses of the nodes before the m-th are before its part of the block.
LEMMA AddressBound ==
  ASSUME NEW m \in Nat, NEW i \in 0..m - 1, NEW a \in DOMAIN Attrs, NEW s \in 0..Width[a] - 1
  PROVE  LET z == size_per_node[Attrs[a].is_const]
         IN  m * z \in Nat /\ Address(i, a, s) \in 1..m * z
<1> DEFINE z == size_per_node[Attrs[a].is_const]
           k == Address(i, a, s)
<1>1. k \in Nat \ {0} /\ k <= i * z + z /\ z \in Nat BY AddressInNode
<1> HIDE DEF k, z
<1>2. m * z \in Nat /\ i * z \in Nat /\ i * z + z <= m * z BY <1>1, ProductGrows
<1>3. k \in 1..m * z
 <2> DEFINE p == i * z
            q == m * z
 <2>1. p \in Nat /\ q \in Nat /\ k <= p + z /\ p + z <= q BY <1>1, <1>2
 <2> HIDE DEF p, q
 <2>2. k \in 1..q BY <1>1, <2>1
 <2> QED BY <2>2 DEF q
<1> QED BY <1>2, <1>3 DEF k, z

\* ... and those of later nodes are not.
LEMMA AddressBeyond ==
  ASSUME NEW m \in Nat, NEW i \in Nat, m <= i, NEW a \in DOMAIN Attrs, NEW s \in 0..Width[a] - 1
  PROVE  LET z == size_per_node[Attrs[a].is_const]
         IN  m * z \in Nat /\ m * z < Address(i, a, s)
<1> DEFINE z == size_per_node[Attrs[a].is_const]
           k == Address(i, a, s)
<1>1. k \in Nat \ {0} /\ i * z < k /\ z \in Nat /\ i * z \in Nat BY AddressInNode
<1> HIDE DEF k, z
<1>2. m * z \in Nat /\ m * z <= i * z
 <2>1. CASE m = i BY <1>1, <2>1
 <2>2. CASE m < i BY <1>1, <2>2, ProductGrows
 <2> QED BY <2>1, <2>2
<1> QED BY <1>1, <1>2 DEF k, z

(* The store of lists: each new list gets an index of its own.             *)

Held == InRange \cup Nat
Cells == [v : Held, slots : Nat]

Rank(a) == Cardinality({b \in Lists : b < a})
ListIndex(a, i, from, to, next) == next + Rank(a) * (to - from) + (i - from)

\* The lists are numbered from 0 by their order.
LEMMA RanksDiffer ==
  /\ Cardinality(Lists) \in Nat
  /\ \A a \in Lists : Rank(a) \in Nat /\ Rank(a) < Cardinality(Lists)
  /\ \A a, b \in Lists : a < b => Rank(a) < Rank(b)
<1> DEFINE Earlier(a) == {b \in Lists : b < a}
<1>1. IsFiniteSet(Lists) /\ \A a \in Lists : a \in Nat
 <2>1. Lists \subseteq DOMAIN Attrs BY DEF Lists
 <2> QED BY <2>1, LayoutTypes, FS_Subset
<1>2. ASSUME NEW S \in SUBSET Lists, NEW a \in S
      PROVE  /\ Rank(a) \in Nat /\ Cardinality(S) \in Nat
             /\ Earlier(a) \subseteq S => Rank(a) < Cardinality(S)
 <2>1. IsFiniteSet(S) /\ IsFiniteSet(Earlier(a)) BY <1>1, FS_Subset
 <2>2. Cardinality(S) \in Nat /\ Cardinality(Earlier(a)) \in Nat BY <2>1, FS_CardinalityType
 <2>3. ASSUME Earlier(a) \subseteq S PROVE Cardinality(Earlier(a)) < Cardinality(S)
  <3>1. a \notin Earlier(a) BY <1>1
  <3>2. Earlier(a) # S BY <3>1
  <3> HIDE DEF Earlier
  <3>3. Cardinality(Earlier(a)) <= Cardinality(S) /\ Cardinality(Earlier(a)) # Cardinality(S)
    BY <2>1, <2>3, <3>2, FS_Subset
  <3> QED BY <2>2, <3>3
 <2> QED BY <2>2, <2>3 DEF Rank
<1>3. \A a \in Lists : Earlier(a) \subseteq Lists OBVIOUS
<1>4. \A a \in Lists : Rank(a) \in Nat /\ Rank(a) < Cardinality(Lists) BY <1>2, <1>3
<1>5. Cardinality(Lists) \in Nat BY <1>1, FS_CardinalityType
<1>6. ASSUME NEW a \in Lists, NEW b \in Lists, a < b PROVE Rank(a) < Rank(b)
 <2>1. a \in Earlier(b) /\ Earlier(a) \subseteq Earlier(b) /\ Earlier(b) \in SUBSET Lists
   BY <1>1, <1>6
 <2>2. Rank(a) < Cardinality(Earlier(b)) BY <1>2, <2>1
 <2> QED BY <2>2 DEF Rank
<1> QED BY <1>4, <1>5, <1>6

\* Numbered lists get different numbers, the next ones of the store.
LEMMA IndicesDiffer ==
  ASSUME NEW from \in Nat, NEW to \in Nat, from <= to, NEW next \in Nat,
         NEW a \in Lists, NEW i \in from..to - 1
  PROVE  LET x == ListIndex(a, i, from, to, next)
             size == Cardinality(Lists) * (to - from)
         IN  /\ size \in Nat /\ x \in Nat /\ next <= x /\ x < next + size
             /\ \A b \in Lists : \A j \in from..to - 1 :
                  ListIndex(b, j, from, to, next) = x => a = b /\ i = j
<1> DEFINE z == to - from
           N == Cardinality(Lists)
<1>1. z \in Nat /\ N \in Nat /\ Lists \subseteq Nat BY RanksDiffer, LayoutTypes DEF Lists
<1> HIDE DEF z, N
<1>2. \A b \in Lists : Rank(b) \in Nat /\ Rank(b) < N /\ Rank(b) * z \in Nat /\ Rank(b) * z + z <= N * z
                       /\ N * z \in Nat
  BY <1>1, RanksDiffer, ProductGrows DEF N
<1>3. \A b \in Lists : \A j \in from..to - 1 : j - from \in 0..z - 1 BY DEF z
<1>4. \A b \in Lists : \A j \in from..to - 1 :
        ListIndex(b, j, from, to, next) = next + Rank(b) * z + (j - from)
  BY DEF ListIndex, z
<1>5. ASSUME NEW b \in Lists, NEW j \in from..to - 1
      PROVE  LET y == ListIndex(b, j, from, to, next)
             IN  y \in Nat /\ next <= y /\ y < next + N * z
 <2> DEFINE p == Rank(b) * z
            q == N * z
            d == j - from
 <2>1. p \in Nat /\ q \in Nat /\ p + z <= q /\ d \in 0..z - 1 BY <1>2, <1>3
 <2>2. ListIndex(b, j, from, to, next) = next + p + d BY <1>4
 <2> HIDE DEF p, q, d
 <2>3. next + p + d \in Nat /\ next <= next + p + d /\ next + p + d < next + q BY <1>1, <2>1
 <2> QED BY <2>2, <2>3 DEF q
<1>6. ASSUME NEW b \in Lists, NEW j \in from..to - 1,
             ListIndex(b, j, from, to, next) = ListIndex(a, i, from, to, next)
      PROVE  a = b /\ i = j
 <2> DEFINE p == Rank(a) * z
            q == Rank(b) * z
            d == i - from
            e == j - from
 <2>1. p \in Nat /\ q \in Nat /\ d \in 0..z - 1 /\ e \in 0..z - 1 BY <1>2, <1>3
 <2>2. next + p + d = next + q + e BY <1>4, <1>6
 <2>3. a < b => p + z <= q BY <1>1, <1>2, RanksDiffer, ProductGrows
 <2>4. b < a => q + z <= p BY <1>1, <1>2, RanksDiffer, ProductGrows
 <2>5. a = b => p = q OBVIOUS
 <2>6. a \in Nat /\ b \in Nat BY <1>1
 <2>7. d = e => i = j OBVIOUS
 <2> HIDE DEF p, q, d, e
 <2>8. a = b BY <1>1, <2>1, <2>2, <2>3, <2>4, <2>6
 <2>9. d = e BY <2>1, <2>2, <2>5, <2>8
 <2> QED BY <2>7, <2>8, <2>9
<1> QED BY <1>1, <1>2, <1>5, <1>6 DEF z, N

\* Where lists are numbered nothing else changes.
OnlyNumbers(after, block, from, to, next) ==
  /\ after \in Seq(Cells) /\ Len(after) = Len(block)
  /\ \A k \in 1..Len(block) :
       (\A a \in Lists : \A i \in from..to - 1 : Address(i, a, 0) # k) => after[k] = block[k]
  /\ \A a \in Lists : \A i \in from..to - 1 :
       Address(i, a, 0) \in 1..Len(block) =>
         after[Address(i, a, 0)] = [v |-> ListIndex(a, i, from, to, next),
                                    slots |-> block[Address(i, a, 0)].slots]

\* write_lists touches the cells of the lists it numbers and no others.
LEMMA ListCellsAt ==
  ASSUME NEW block \in Seq(Cells), NEW from \in Nat, NEW to \in Nat, from <= to, NEW next \in Nat
  PROVE  OnlyNumbers(ListCells(block, from, to, next), block, from, to, next)
<1> DEFINE Owner(k) == {o \in Lists \X (from..to - 1) : k = Address(o[2], o[1], 0)}
           At(k) == IF Owner(k) = {} THEN block[k]
                    ELSE LET o == CHOOSE o \in Owner(k) : TRUE
                         IN  [block[k] EXCEPT !.v = ListIndex(o[1], o[2], from, to, next)]
           n == Len(block)
           after == ListCells(block, from, to, next)
<1>1. n \in Nat /\ DOMAIN block = 1..n /\ \A k \in 1..n : block[k] \in Cells OBVIOUS
<1>2. after = [k \in 1..n |-> At(k)] BY <1>1 DEF ListCells, Rank, ListIndex, Address
<1>3. ASSUME NEW k \in 1..n, NEW a \in Lists, NEW i \in from..to - 1, Address(i, a, 0) = k
      PROVE  Owner(k) = {<<a, i>>}
 <2>1. <<a, i>> \in Owner(k) BY <1>3
 <2>2. ASSUME NEW o \in Owner(k) PROVE o = <<a, i>>
  <3>1. PICK b \in Lists, j \in from..to - 1 : o = <<b, j>> OBVIOUS
  <3>2. Address(j, b, 0) = Address(i, a, 0) BY <1>3, <3>1
  <3>3. /\ i \in Nat /\ j \in Nat /\ a \in DOMAIN Attrs /\ b \in InBlock(Attrs[a].is_const)
        /\ 0 \in 0..Width[a] - 1 /\ 0 \in 0..Width[b] - 1
   <4>1. a \in InBlock(FALSE) /\ b \in InBlock(FALSE) /\ Width[a] = 1 /\ Width[b] = 1
     BY LayoutTypes
   <4>2. Attrs[a].is_const = FALSE /\ a \in DOMAIN Attrs BY <4>1 DEF InBlock
   <4>3. b \in InBlock(Attrs[a].is_const) BY <4>1, <4>2, Zenon
   <4>4. i \in Nat /\ j \in Nat /\ 0 \in 0..Width[a] - 1 /\ 0 \in 0..Width[b] - 1 BY <4>1
   <4> QED BY <4>2, <4>3, <4>4
  <3> HIDE DEF Owner
  <3>4. i = j /\ a = b BY <3>2, <3>3, AddressesDiffer
  <3> QED BY <3>1, <3>4
 <2> HIDE DEF Owner
 <2> QED BY <2>1, <2>2
<1>4. ASSUME NEW k \in 1..n, NEW a \in Lists, NEW i \in from..to - 1, Address(i, a, 0) = k
      PROVE  At(k) = [v |-> ListIndex(a, i, from, to, next), slots |-> block[k].slots]
 <2>1. Owner(k) = {<<a, i>>} BY <1>3, <1>4
 <2> HIDE DEF Owner
 <2>2. (CHOOSE o \in Owner(k) : TRUE) = <<a, i>> /\ Owner(k) # {} BY <2>1
 <2>3. At(k) = [block[k] EXCEPT !.v = ListIndex(<<a, i>>[1], <<a, i>>[2], from, to, next)]
   BY <2>2
 <2>4. At(k) = [block[k] EXCEPT !.v = ListIndex(a, i, from, to, next)] BY <2>3
 <2> QED BY <1>1, <2>4 DEF Cells
<1>5. ASSUME NEW k \in 1..n PROVE At(k) \in Cells
 <2>1. CASE Owner(k) = {} BY <1>1, <2>1
 <2>2. CASE Owner(k) # {}
  <3>1. PICK a \in Lists, i \in from..to - 1 : Address(i, a, 0) = k BY <2>2
  <3>2. ListIndex(a, i, from, to, next) \in Nat /\ block[k] \in Cells BY <1>1, IndicesDiffer
  <3>3. At(k) = [v |-> ListIndex(a, i, from, to, next), slots |-> block[k].slots]
    BY <1>4, <3>1
  <3> QED BY <3>2, <3>3 DEF Cells, Held
 <2> QED BY <2>1, <2>2
<1>6. ASSUME NEW k \in 1..n, \A a \in Lists : \A i \in from..to - 1 : Address(i, a, 0) # k
      PROVE  At(k) = block[k]
 <2>1. Owner(k) = {} BY <1>6
 <2> QED BY <2>1
<1> HIDE DEF At, Owner
<1>7. after \in Seq(Cells) /\ Len(after) = n /\ \A k \in 1..n : after[k] = At(k)
  BY <1>1, <1>2, <1>5
<1> QED BY <1>4, <1>6, <1>7 DEF OnlyNumbers, after

----------------------------------------------------------------------------
(***************************************************************************)
(* The invariant of the memory, MemoryOK: the blocks are long enough for    *)
(* the nodes, cells show the values written, no two lists share a place of  *)
(* the store, and cells beyond the nodes are zero, since append_nodes does  *)
(* not write those it hands out.                                            *)
(***************************************************************************)

(* What a node's memory holds, in terms of the values written: the cells of *)
(* an attribute hold its slots, the cell of a list its place in the store   *)
(* and its length; no two lists have the same place.                        *)
NodeType == [max : Nat, const : Seq(Cells), dynamic : Seq(Cells), lists : Seq(Seq(Held)),
             bits : Nat, masks : SUBSET Int]
ValueType == Seq([DOMAIN Attrs -> Seq(Held)])

BlocksOK(n) ==
  /\ n \in NodeType /\ n.max <= n.bits
  /\ n.max * size_per_node[FALSE] <= Len(n.dynamic)

FrameOK(n) ==
  /\ BlocksOK(n)
  /\ n.max * size_per_node[TRUE] <= Len(n.const)
  /\ Defined <= n.max /\ Defined * Cardinality(Lists) <= Len(n.lists)
  /\ \A k \in 1..Len(n.dynamic) : n.max * size_per_node[FALSE] < k => n.dynamic[k] = Cell

ShowsList(n, i, a, l) ==
  LET c == n.dynamic[Address(i, a, 0)]
  IN  c.v \in 1..Len(n.lists) /\ n.lists[c.v] = l /\ c.slots = Len(l)

ShowsSlots(block, i, a, l) ==
  Len(l) = Attrs[a].slots /\ \A s \in 1..Attrs[a].slots : block[Address(i, a, s - 1)].v = l[s]

Shows(n, vals) ==
  \A i \in 0..n.max - 1 : \A a \in InBlock(FALSE) :
    IF a \in Lists THEN ShowsList(n, i, a, vals[i + 1][a])
    ELSE ShowsSlots(n.dynamic, i, a, vals[i + 1][a])

ConstShows(n, vals) ==
  \A i \in 0..n.max - 1 : \A a \in InBlock(TRUE) : ShowsSlots(n.const, i, a, vals[i + 1][a])

Separate(n) ==
  \A i, j \in 0..n.max - 1 : \A a, b \in Lists :
    n.dynamic[Address(i, a, 0)].v = n.dynamic[Address(j, b, 0)].v => i = j /\ a = b

ValuesOK(n, vals) == vals \in ValueType /\ Len(vals) = n.max

MemoryOK(n, vals) ==
  FrameOK(n) /\ ValuesOK(n, vals) /\ Separate(n) /\ Shows(n, vals) /\ ConstShows(n, vals)

\* The fields of a node.
LEMMA NodeFields ==
  ASSUME NEW n \in NodeType
  PROVE  /\ n.max \in Nat /\ n.const \in Seq(Cells) /\ n.dynamic \in Seq(Cells)
         /\ n.lists \in Seq(Seq(Held)) /\ n.bits \in Nat /\ n.masks \in SUBSET Int
         /\ Len(n.const) \in Nat /\ Len(n.dynamic) \in Nat /\ Len(n.lists) \in Nat
         /\ size_per_node[TRUE] \in Nat /\ size_per_node[FALSE] \in Nat
<1>1. \A c \in BOOLEAN : size_per_node[c] \in Nat
 <2> SUFFICES ASSUME NEW c \in BOOLEAN PROVE size_per_node[c] \in Nat
   OBVIOUS
 <2>1. InBlock(c) \in SUBSET DOMAIN Attrs BY DEF InBlock
 <2>2. SumFunctionOnSet(Width, InBlock(c)) \in Nat BY <2>1, WidthsAddUp
 <2> QED BY <2>2 DEF size_per_node
<1>2. /\ n.max \in Nat /\ n.const \in Seq(Cells) /\ n.dynamic \in Seq(Cells)
      /\ n.lists \in Seq(Seq(Held)) /\ n.bits \in Nat /\ n.masks \in SUBSET Int
  BY DEF NodeType
<1>3. \A S : \A q \in Seq(S) : Len(q) \in Nat OBVIOUS
<1>4. Len(n.const) \in Nat /\ Len(n.dynamic) \in Nat /\ Len(n.lists) \in Nat
  BY <1>2, <1>3, Zenon
<1> QED BY <1>1, <1>2, <1>4, Zenon

\* An attribute is in one block; what it is in the other terms.
LEMMA KindsOfAttrs ==
  /\ DOMAIN Attrs = InBlock(TRUE) \cup InBlock(FALSE) /\ InBlock(TRUE) \cap InBlock(FALSE) = {}
  /\ Lists \subseteq InBlock(FALSE)
  /\ \A a \in DOMAIN Attrs : /\ Attrs[a].is_const <=> a \in InBlock(TRUE)
                             /\ Attrs[a].is_list <=> a \in Lists
                             /\ a \notin Lists => Width[a] = Attrs[a].slots
                             /\ a \in Lists => Width[a] = 1
  /\ \A c \in BOOLEAN : \A a \in InBlock(c) : Attrs[a].is_const = c /\ a \in DOMAIN Attrs
<1>1. \A a \in DOMAIN Attrs : Attrs[a].is_const \in BOOLEAN /\ Attrs[a].is_list \in BOOLEAN
  BY LayoutTypes
<1>2. Lists \subseteq InBlock(FALSE) BY LayoutTypes
<1>3. \A a \in DOMAIN Attrs : /\ a \notin Lists => Width[a] = Attrs[a].slots
                              /\ a \in Lists => Width[a] = 1
  BY <1>1, LayoutTypes DEF Lists, slot_number
<1> QED BY <1>1, <1>2, <1>3, Zenon DEF Lists, InBlock

\* Addresses are in the block,
LEMMA AddressInBlock ==
  ASSUME NEW n, BlocksOK(n), NEW i \in 0..n.max - 1, NEW a \in InBlock(FALSE), NEW s \in 0..Width[a] - 1
  PROVE  Address(i, a, s) \in 1..Len(n.dynamic) /\ Address(i, a, s) <= n.max * size_per_node[FALSE]
<1> DEFINE q == n.max * size_per_node[FALSE]
           l == Len(n.dynamic)
<1>1. n.max \in Nat /\ l \in Nat /\ q <= l BY NodeFields DEF BlocksOK
<1>2. a \in DOMAIN Attrs /\ size_per_node[Attrs[a].is_const] = size_per_node[FALSE]
  BY KindsOfAttrs
<1>3. q \in Nat /\ Address(i, a, s) \in 1..q BY <1>1, <1>2, AddressBound
<1> HIDE DEF q, l
<1>4. Address(i, a, s) \in 1..l /\ Address(i, a, s) <= q BY <1>1, <1>3
<1> QED BY <1>4, Zenon DEF q, l

\* ... in either block,
LEMMA AddressInConst ==
  ASSUME NEW n, FrameOK(n), NEW i \in 0..n.max - 1, NEW a \in InBlock(TRUE), NEW s \in 0..Width[a] - 1
  PROVE  Address(i, a, s) \in 1..Len(n.const)
<1> DEFINE q == n.max * size_per_node[TRUE]
           l == Len(n.const)
<1>1. n.max \in Nat /\ l \in Nat /\ q <= l BY NodeFields DEF BlocksOK, FrameOK
<1>2. a \in DOMAIN Attrs /\ size_per_node[Attrs[a].is_const] = size_per_node[TRUE]
  BY KindsOfAttrs
<1>3. q \in Nat /\ Address(i, a, s) \in 1..q BY <1>1, <1>2, AddressBound
<1> HIDE DEF q, l
<1>4. Address(i, a, s) \in 1..l /\ Address(i, a, s) <= q BY <1>1, <1>3
<1> QED BY <1>4, Zenon DEF q, l

\* ... and differ within a block.
LEMMA AddressIsOwn ==
  ASSUME NEW m \in Nat, NEW c \in BOOLEAN, NEW i \in 0..m - 1, NEW a \in InBlock(c), NEW s \in 0..Width[a] - 1,
         NEW j \in 0..m - 1, NEW b \in InBlock(c), NEW u \in 0..Width[b] - 1,
         Address(i, a, s) = Address(j, b, u)
  PROVE  i = j /\ a = b /\ s = u
<1>1. i \in Nat /\ j \in Nat OBVIOUS
<1>2. a \in DOMAIN Attrs /\ Attrs[a].is_const = c /\ b \in InBlock(Attrs[a].is_const)
  BY KindsOfAttrs
<1> QED BY <1>1, <1>2, AddressesDiffer

\* A list has one cell, any other attribute one for each slot.
LEMMA ListWidth ==
  ASSUME NEW a \in Lists
  PROVE  a \in DOMAIN Attrs /\ a \in InBlock(FALSE) /\ 0 \in 0..Width[a] - 1
<1>1. a \in DOMAIN Attrs /\ a \in InBlock(FALSE) /\ Width[a] = 1 BY LayoutTypes
<1>2. 0 \in 0..Width[a] - 1
 <2>1. Width[a] = 1 BY <1>1
 <2> HIDE <1>1
 <2> QED BY <2>1
<1> QED BY <1>1, <1>2, Zenon

\* The slots of an attribute that is not a list.
LEMMA SlotWidth ==
  ASSUME NEW c \in BOOLEAN, NEW a \in InBlock(c), a \notin Lists
  PROVE  /\ a \in DOMAIN Attrs /\ Width[a] = Attrs[a].slots /\ Attrs[a].slots \in Nat
         /\ \A s \in 1..Attrs[a].slots : s - 1 \in 0..Width[a] - 1
         /\ \A s \in 0..Attrs[a].slots - 1 : s \in 0..Width[a] - 1
<1>1. a \in DOMAIN Attrs /\ Width[a] = Attrs[a].slots BY KindsOfAttrs, Zenon
<1>2. Attrs[a].slots \in Nat BY <1>1, LayoutTypes
<1> QED BY <1>1, <1>2

\* Two lists do not share a cell.
LEMMA ListCellIsOwn ==
  ASSUME NEW m \in Nat, NEW i \in 0..m - 1, NEW a \in Lists, NEW j \in 0..m - 1, NEW b \in Lists,
         Address(i, a, 0) = Address(j, b, 0)
  PROVE  i = j /\ a = b
<1> DEFINE s == 0
           u == 0
<1>1. s \in 0..Width[a] - 1 /\ u \in 0..Width[b] - 1 /\ Address(i, a, s) = Address(j, b, u)
  BY ListWidth
<1> DEFINE c == FALSE
<1>2. c \in BOOLEAN /\ a \in InBlock(c) /\ b \in InBlock(c) BY ListWidth
<1> HIDE DEF s, u, c
<1> QED BY <1>1, <1>2, AddressIsOwn

\* Sizes of parts of blocks.
LEMMA ProductIsNatural ==
  ASSUME NEW i \in Nat, NEW z \in Nat
  PROVE  i * z \in Nat
OBVIOUS

\* What a snapshot or a frame shows is read by the operations on attributes.
Reads(n, i, a, l) ==
  /\ get_slot_number(n, i, a) = Len(l)
  /\ \A s \in 1..Len(l) : get_attr(n, i, a, s - 1) = l[s]
  /\ a \in Lists => get_attribute_list(n, i, a) = l

\* A value that memory shows is what an attribute reads,
LEMMA ReadsValues ==
  ASSUME NEW n, NEW vals, Shows(n, vals), NEW i \in 0..n.max - 1, NEW a \in InBlock(FALSE),
         vals[i + 1][a] \in Seq(Held)
  PROVE  Reads(n, i, a, vals[i + 1][a])
<1> DEFINE l == vals[i + 1][a]
<1>1. a \in DOMAIN Attrs /\ (Attrs[a].is_list <=> a \in Lists) /\ ~ Attrs[a].is_const
  BY KindsOfAttrs
<1>2. CASE a \in Lists
 <2>1. ShowsList(n, i, a, l) BY <1>2 DEF Shows
 <2>2. get_slot_number(n, i, a) = Len(l) /\ get_attribute_list(n, i, a) = l
   BY <1>1, <1>2, <2>1 DEF ShowsList, get_slot_number, get_attribute_list, get_list_attribute, Address
 <2>3. \A s \in 1..Len(l) : get_attr(n, i, a, s - 1) = l[s - 1 + 1]
   BY <1>1, <1>2, <2>2 DEF get_attr
 <2>4. \A s \in 1..Len(l) : s - 1 + 1 = s OBVIOUS
 <2> QED BY <2>2, <2>3, <2>4 DEF Reads
<1>3. CASE a \notin Lists
 <2>1. ShowsSlots(n.dynamic, i, a, l) BY <1>3 DEF Shows
 <2>2. get_slot_number(n, i, a) = Len(l) BY <1>1, <1>3, <2>1 DEF ShowsSlots, get_slot_number
 <2>3. \A s \in 1..Len(l) : get_attr(n, i, a, s - 1) = l[s]
   BY <1>1, <1>3, <2>1 DEF ShowsSlots, get_attr, Address
 <2> QED BY <1>3, <2>2, <2>3 DEF Reads
<1> QED BY <1>2, <1>3 DEF Reads

\* ... and so is a constant.
LEMMA ReadsConstants ==
  ASSUME NEW n, NEW vals, ConstShows(n, vals), NEW i \in 0..n.max - 1, NEW a \in InBlock(TRUE)
  PROVE  Reads(n, i, a, vals[i + 1][a])
<1> DEFINE l == vals[i + 1][a]
<1>1. a \in DOMAIN Attrs /\ a \notin Lists /\ ~ Attrs[a].is_list /\ Attrs[a].is_const
  BY KindsOfAttrs
<1>2. ShowsSlots(n.const, i, a, l) BY DEF ConstShows
<1>3. get_slot_number(n, i, a) = Len(l) BY <1>1, <1>2 DEF ShowsSlots, get_slot_number
<1>4. \A s \in 1..Len(l) : get_attr(n, i, a, s - 1) = l[s]
  BY <1>1, <1>2 DEF ShowsSlots, get_attr, Address
<1> QED BY <1>1, <1>3, <1>4 DEF Reads

(* One value changes: a list is replaced,                                  *)

\* Changing one value keeps the type.
LEMMA ValueChanges ==
  ASSUME NEW m \in Nat, NEW vals \in ValueType, Len(vals) = m, NEW i \in 0..m - 1, NEW a \in DOMAIN Attrs,
         NEW l \in Seq(Held)
  PROVE  LET after == [vals EXCEPT ![i + 1][a] = l]
         IN  /\ after \in ValueType /\ Len(after) = m
             /\ after[i + 1][a] = l
             /\ \A j \in 0..m - 1 : \A b \in DOMAIN Attrs : <<j, b>> # <<i, a>> => after[j + 1][b] = vals[j + 1][b]
<1> DEFINE F == [DOMAIN Attrs -> Seq(Held)]
           after == [vals EXCEPT ![i + 1][a] = l]
<1>1. vals \in Seq(F) /\ i + 1 \in 1..m /\ DOMAIN vals = 1..m BY DEF ValueType
<1>2. vals[i + 1] \in F BY <1>1
<1>3. [vals[i + 1] EXCEPT ![a] = l] \in F BY <1>2
<1>4. after = [vals EXCEPT ![i + 1] = [vals[i + 1] EXCEPT ![a] = l]] OBVIOUS
<1>5. after[i + 1][a] = l BY <1>1, <1>2, <1>4
<1>6. ASSUME NEW j \in 0..m - 1, NEW b \in DOMAIN Attrs, <<j, b>> # <<i, a>>
      PROVE  after[j + 1][b] = vals[j + 1][b]
 <2>1. j + 1 \in 1..m /\ (j # i => j + 1 # i + 1) OBVIOUS
 <2>2. CASE j # i BY <1>1, <1>4, <2>1, <2>2
 <2>3. CASE j = i /\ b # a BY <1>1, <1>2, <1>4, <2>3
 <2> QED BY <1>6, <2>2, <2>3
<1>7. after \in Seq(F) /\ Len(after) = m
 <2> HIDE DEF F
 <2> DEFINE e == [vals[i + 1] EXCEPT ![a] = l]
 <2>1. e \in F /\ after = [vals EXCEPT ![i + 1] = e] BY <1>3, <1>4
 <2> HIDE DEF e, after
 <2> QED BY <1>1, <2>1
<1> QED BY <1>5, <1>6, <1>7 DEF ValueType

\* The parts of memory that one value is held in.
LEMMA ValueOfAttr ==
  ASSUME NEW n, NEW vals, ValuesOK(n, vals), n.max \in Nat, NEW i \in 0..n.max - 1, NEW a \in DOMAIN Attrs
  PROVE  vals[i + 1][a] \in Seq(Held) /\ Len(vals[i + 1][a]) \in Nat
<1> DEFINE F == [DOMAIN Attrs -> Seq(Held)]
<1>1. vals \in Seq(F) /\ i + 1 \in 1..Len(vals) BY DEF ValuesOK, ValueType
<1> HIDE DEF F
<1>2. vals[i + 1] \in F BY <1>1
<1>3. vals[i + 1][a] \in Seq(Held) BY <1>2 DEF F
<1> QED BY <1>3

\* Memory m shows what n shows, but for one value.
Changed(n, m, vals, i, a, l) ==
  /\ MemoryOK(m, [vals EXCEPT ![i + 1][a] = l])
  /\ m.max = n.max /\ m.bits = n.bits /\ m.masks = n.masks

(* A list is replaced, and its length with it.                             *)
LEMMA ListChanges ==
  ASSUME NEW n, NEW vals, MemoryOK(n, vals), NEW i \in 0..n.max - 1, NEW a \in Lists, NEW l \in Seq(Held)
  PROVE  Changed(n, WithList(n, i, a, l, Len(l)), vals, i, a, l)
<1> DEFINE k == Address(i, a, 0)
           x == n.dynamic[k].v
           m == WithList(n, i, a, l, Len(l))
           after == [vals EXCEPT ![i + 1][a] = l]
           q == n.max * size_per_node[FALSE]
           d == Len(n.dynamic)
<1>1. n \in NodeType /\ n.max \in Nat /\ a \in InBlock(FALSE) /\ a \in DOMAIN Attrs /\ BlocksOK(n)
      /\ Len(l) \in Nat
 <2>1. n \in NodeType /\ BlocksOK(n) BY DEF MemoryOK, FrameOK, BlocksOK
 <2>2. n.max \in Nat BY <2>1, NodeFields
 <2>3. Len(l) \in Nat OBVIOUS
 <2> QED BY <2>1, <2>2, <2>3, ListWidth
<1>2. /\ n.dynamic \in Seq(Cells) /\ n.lists \in Seq(Seq(Held)) /\ d \in Nat /\ Len(n.lists) \in Nat
  BY <1>1, NodeFields
<1>3. k \in 1..d /\ k <= q
 <2>1. 0 \in 0..Width[a] - 1 BY ListWidth
 <2> QED BY <1>1, <2>1, AddressInBlock
<1>4. n.dynamic[k] \in Cells /\ x \in 1..Len(n.lists)
 <2>1. ShowsList(n, i, a, vals[i + 1][a]) BY <1>1 DEF MemoryOK, Shows
 <2> QED BY <1>2, <1>3, <2>1 DEF ShowsList
<1>5. m = [n EXCEPT !.lists = [n.lists EXCEPT ![x] = l],
                    !.dynamic = [n.dynamic EXCEPT ![k] = [n.dynamic[k] EXCEPT !.slots = Len(l)]]]
  BY <1>1 DEF WithList, get_list_attribute, Address, NodeType
<1> DEFINE e == [n.dynamic[k] EXCEPT !.slots = Len(l)]
<1>6. e \in Cells /\ e.v = x /\ e.slots = Len(l) BY <1>1, <1>4 DEF Cells
<1>7. /\ m.max = n.max /\ m.bits = n.bits /\ m.masks = n.masks /\ m.const = n.const
      /\ m.lists = [n.lists EXCEPT ![x] = l] /\ m.dynamic = [n.dynamic EXCEPT ![k] = e]
      /\ m = [max |-> n.max, const |-> n.const, dynamic |-> [n.dynamic EXCEPT ![k] = e],
              lists |-> [n.lists EXCEPT ![x] = l], bits |-> n.bits, masks |-> n.masks]
  BY <1>1, <1>5 DEF NodeType
<1> HIDE DEF m, e, x, k
<1>8. m.dynamic \in Seq(Cells) /\ Len(m.dynamic) = d BY <1>2, <1>3, <1>6, <1>7
<1>9. m.lists \in Seq(Seq(Held)) /\ Len(m.lists) = Len(n.lists)
 <2> DEFINE L == Seq(Held)
            ls == n.lists
 <2>1. ls \in Seq(L) /\ x \in 1..Len(ls) /\ l \in L /\ m.lists = [ls EXCEPT ![x] = l]
   BY <1>2, <1>4, <1>7
 <2> HIDE DEF L, ls
 <2>2. m.lists \in Seq(L) /\ Len(m.lists) = Len(ls) BY <2>1
 <2> QED BY <2>2 DEF L, ls
<1>10. m \in NodeType BY <1>1, <1>7, <1>8, <1>9 DEF NodeType
<1>11. FrameOK(m)
 <2>1. \A j \in 1..d : q < j => m.dynamic[j] = Cell
  <3>1. \A j \in 1..d : q < j => n.dynamic[j] = Cell BY DEF MemoryOK, FrameOK
  <3>2. q \in Nat
   <4>1. size_per_node[FALSE] \in Nat BY <1>1, NodeFields
   <4> QED BY <1>1, <4>1, ProductIsNatural
  <3> HIDE DEF q
  <3>3. \A j \in 1..d : q < j => j # k BY <1>3, <3>2
  <3> QED BY <1>2, <1>7, <3>1, <3>3
 <2> QED BY <1>7, <1>8, <1>9, <1>10, <2>1 DEF MemoryOK, FrameOK, BlocksOK
<1>12. ValuesOK(m, after) /\ after[i + 1][a] = l
       /\ \A j \in 0..n.max - 1 : \A b \in DOMAIN Attrs : <<j, b>> # <<i, a>> => after[j + 1][b] = vals[j + 1][b]
  BY <1>1, <1>7, ValueChanges, SMTT(30) DEF MemoryOK, ValuesOK
<1>13. \A z \in 1..d : m.dynamic[z].v = n.dynamic[z].v /\ (z # k => m.dynamic[z] = n.dynamic[z])
  BY <1>2, <1>3, <1>6, <1>7 DEF x
<1>14. ASSUME NEW j \in 0..n.max - 1, NEW b \in Lists
       PROVE  /\ Address(j, b, 0) \in 1..d /\ b \in InBlock(FALSE) /\ b \in DOMAIN Attrs
              /\ <<j, b>> # <<i, a>> => Address(j, b, 0) # k
 <2>1. b \in InBlock(FALSE) /\ b \in DOMAIN Attrs /\ 0 \in 0..Width[b] - 1 /\ 0 \in 0..Width[a] - 1
   BY ListWidth
 <2>2. Address(j, b, 0) \in 1..d BY <1>1, <2>1, AddressInBlock
 <2>a. n.max \in Nat /\ a \in InBlock(FALSE) BY <1>1
 <2>3. ASSUME Address(i, a, 0) = Address(j, b, 0) PROVE i = j /\ a = b
   BY <2>a, <2>3, ListCellIsOwn
 <2> QED BY <2>1, <2>2, <2>3 DEF k
<1>15. Separate(m)
 <2> SUFFICES ASSUME NEW j \in 0..n.max - 1, NEW g \in 0..n.max - 1, NEW b \in Lists, NEW c \in Lists,
                     m.dynamic[Address(j, b, 0)].v = m.dynamic[Address(g, c, 0)].v
              PROVE  j = g /\ b = c
   BY <1>7 DEF Separate
 <2>1. n.dynamic[Address(j, b, 0)].v = n.dynamic[Address(g, c, 0)].v BY <1>13, <1>14
 <2> QED BY <2>1 DEF MemoryOK, Separate
<1>16. Shows(m, after)
 <2> SUFFICES ASSUME NEW j \in 0..n.max - 1, NEW b \in InBlock(FALSE)
              PROVE  IF b \in Lists THEN ShowsList(m, j, b, after[j + 1][b])
                     ELSE ShowsSlots(m.dynamic, j, b, after[j + 1][b])
   BY <1>7 DEF Shows
 <2>0. b \in DOMAIN Attrs BY KindsOfAttrs
 <2>1. CASE j = i /\ b = a
  <3>1. m.dynamic[k] = e /\ m.lists[x] = l BY <1>2, <1>3, <1>4, <1>7
  <3>2. ShowsList(m, i, a, l) BY <1>4, <1>6, <1>9, <3>1 DEF ShowsList, k
  <3> QED BY <1>12, <2>1, <3>2
 <2>2. CASE b \in Lists /\ <<j, b>> # <<i, a>>
  <3> DEFINE z == Address(j, b, 0)
  <3>1. z \in 1..d /\ z # k /\ m.dynamic[z] = n.dynamic[z] BY <1>13, <1>14, <2>2
  <3>2. ShowsList(n, j, b, vals[j + 1][b]) BY <2>2 DEF MemoryOK, Shows
  <3>3. n.dynamic[z].v # x BY <2>2 DEF MemoryOK, Separate, x, k
  <3>4. n.dynamic[z].v \in 1..Len(n.lists) /\ m.lists[n.dynamic[z].v] = n.lists[n.dynamic[z].v]
   <4> DEFINE y == n.dynamic[z].v
              ls == n.lists
   <4>1. y \in 1..Len(ls) /\ y # x /\ m.lists = [ls EXCEPT ![x] = l]
     BY <1>7, <3>2, <3>3 DEF ShowsList
   <4>2. ls \in Seq(Seq(Held)) BY <1>2
   <4> HIDE DEF y, ls
   <4>3. DOMAIN ls = 1..Len(ls) BY <4>2
   <4>4. y \in 1..Len(ls) /\ m.lists[y] = ls[y] BY <4>1, <4>3
   <4> QED BY <4>4 DEF y, ls
  <3>5. after[j + 1][b] = vals[j + 1][b] BY <1>12, <2>0, <2>2
  <3> QED BY <1>9, <2>2, <3>1, <3>2, <3>4, <3>5 DEF ShowsList
 <2>3. CASE b \notin Lists
  <3>1. ShowsSlots(n.dynamic, j, b, vals[j + 1][b]) BY <2>3 DEF MemoryOK, Shows
  <3>2. after[j + 1][b] = vals[j + 1][b] BY <1>12, <2>0, <2>3
  <3>3. \A s \in 1..Attrs[b].slots : Address(j, b, s - 1) \in 1..d
   <4> SUFFICES ASSUME NEW s \in 1..Attrs[b].slots PROVE Address(j, b, s - 1) \in 1..d
     OBVIOUS
   <4>0. FALSE \in BOOLEAN OBVIOUS
   <4>1. s - 1 \in 0..Width[b] - 1 BY <2>3, <4>0, SlotWidth
   <4> QED BY <1>1, <4>1, AddressInBlock
  <3> QED BY <1>13, <2>3, <3>1, <3>2, <3>3 DEF ShowsSlots
 <2> QED BY <2>1, <2>2, <2>3
<1>17. ConstShows(m, after)
 <2> SUFFICES ASSUME NEW j \in 0..n.max - 1, NEW b \in InBlock(TRUE)
              PROVE  ShowsSlots(n.const, j, b, after[j + 1][b])
   BY <1>7 DEF ConstShows
 <2>1. b \in DOMAIN Attrs /\ b # a BY <1>1, KindsOfAttrs
 <2>2. after[j + 1][b] = vals[j + 1][b] BY <1>12, <2>1
 <2> QED BY <2>2 DEF MemoryOK, ConstShows
<1> QED BY <1>7, <1>11, <1>12, <1>15, <1>16, <1>17 DEF MemoryOK, Changed, m

(* ... or slots are assigned.                                              *)

\* The cells of a block some of which are assigned.
LEMMA FilledAt ==
  ASSUME NEW block \in Seq(Cells), NEW cells, NEW v \in Held
  PROVE  LET after == Filled(block, cells, v)
         IN  /\ after \in Seq(Cells) /\ Len(after) = Len(block)
             /\ \A k \in 1..Len(block) : after[k] = IF k \in cells THEN [v |-> v, slots |-> block[k].slots]
                                                    ELSE block[k]
<1> DEFINE n == Len(block)
           At(k) == IF k \in cells THEN [block[k] EXCEPT !.v = v] ELSE block[k]
<1>1. n \in Nat /\ DOMAIN block = 1..n /\ \A k \in 1..n : block[k] \in Cells OBVIOUS
<1>2. \A k \in 1..n : /\ At(k) \in Cells
                      /\ At(k) = IF k \in cells THEN [v |-> v, slots |-> block[k].slots] ELSE block[k]
  BY <1>1 DEF Cells
<1>3. Filled(block, cells, v) = [k \in 1..n |-> At(k)] BY <1>1 DEF Filled
<1> HIDE DEF At
<1>4. Filled(block, cells, v) \in Seq(Cells) /\ Len(Filled(block, cells, v)) = n
      /\ \A k \in 1..n : Filled(block, cells, v)[k] = At(k)
  BY <1>1, <1>2, <1>3
<1> QED BY <1>2, <1>4

\* A sequence with some of its slots set.
Set(l, slots, v) == [s \in DOMAIN l |-> IF s - 1 \in slots THEN v ELSE l[s]]

\* The slots of a sequence some of which are set.
LEMMA SetType ==
  ASSUME NEW l \in Seq(Held), NEW slots, NEW v \in Held
  PROVE  /\ Set(l, slots, v) \in Seq(Held) /\ Len(Set(l, slots, v)) = Len(l)
         /\ \A s \in 1..Len(l) : Set(l, slots, v)[s] = IF s - 1 \in slots THEN v ELSE l[s]
<1>1. Len(l) \in Nat /\ DOMAIN l = 1..Len(l) /\ \A s \in 1..Len(l) : l[s] \in Held OBVIOUS
<1>2. Set(l, slots, v) = [s \in 1..Len(l) |-> IF s - 1 \in slots THEN v ELSE l[s]]
  BY <1>1 DEF Set
<1> QED BY <1>1, <1>2

\* The cells of the first m nodes are in the block.
Fits(m, c, block) ==
  \A j \in 0..m - 1 : \A b \in InBlock(c) : \A u \in 0..Width[b] - 1 : Address(j, b, u) \in 1..Len(block)

CellsOf(i, a, slots) == {Address(i, a, slot) : slot \in slots}

KeepsOthers(m, c, block, after, i, a) ==
  \A j \in 0..m - 1 : \A b \in InBlock(c) : b # a \/ j # i =>
    \A u \in 0..Width[b] - 1 : after[Address(j, b, u)] = block[Address(j, b, u)]

SetsOwn(block, after, i, a, slots, v) ==
  \A l \in Seq(Held) : ShowsSlots(block, i, a, l) => ShowsSlots(after, i, a, Set(l, slots, v))

\* The same block with the cells of some slots set shows what it showed of
\* other attributes, and the slots that were set.
LEMMA FilledShows ==
  ASSUME NEW m \in Nat, NEW c \in BOOLEAN, NEW block \in Seq(Cells), NEW v \in Held,
         Fits(m, c, block),
         NEW i \in 0..m - 1, NEW a \in InBlock(c), a \notin Lists, NEW slots \in SUBSET (0..Width[a] - 1)
  PROVE  /\ KeepsOthers(m, c, block, Filled(block, CellsOf(i, a, slots), v), i, a)
         /\ SetsOwn(block, Filled(block, CellsOf(i, a, slots), v), i, a, slots, v)
<1> DEFINE cells == CellsOf(i, a, slots)
           after == Filled(block, cells, v)
<1>1. \A k \in 1..Len(block) : after[k] = IF k \in cells THEN [v |-> v, slots |-> block[k].slots] ELSE block[k]
  BY FilledAt
<1> HIDE DEF after, cells
<1>2. ASSUME NEW j \in 0..m - 1, NEW b \in InBlock(c), NEW u \in 0..Width[b] - 1
      PROVE  /\ Address(j, b, u) \in 1..Len(block)
             /\ Address(j, b, u) \in cells <=> j = i /\ b = a /\ u \in slots
 <2>1. ASSUME Address(j, b, u) \in cells PROVE j = i /\ b = a /\ u \in slots
  <3>1. PICK s \in slots : Address(i, a, s) = Address(j, b, u) BY <2>1 DEF CellsOf, cells
  <3>2. s \in 0..Width[a] - 1 OBVIOUS
  <3>3. i = j /\ a = b /\ s = u BY <3>1, <3>2, AddressIsOwn
  <3> QED BY <3>1, <3>3
 <2>2. Address(j, b, u) \in 1..Len(block) BY DEF Fits
 <2> QED BY <2>1, <2>2 DEF cells, CellsOf
<1>3. ASSUME NEW j \in 0..m - 1, NEW b \in InBlock(c), b # a \/ j # i, NEW u \in 0..Width[b] - 1
      PROVE  after[Address(j, b, u)] = block[Address(j, b, u)]
  BY <1>1, <1>2, <1>3
<1>4. ASSUME NEW l \in Seq(Held), ShowsSlots(block, i, a, l)
      PROVE  ShowsSlots(after, i, a, Set(l, slots, v))
 <2>1. /\ Len(Set(l, slots, v)) = Len(l)
       /\ \A s \in 1..Len(l) : Set(l, slots, v)[s] = IF s - 1 \in slots THEN v ELSE l[s]
   BY SetType
 <2>2. Len(l) = Attrs[a].slots /\ \A s \in 1..Len(l) : block[Address(i, a, s - 1)].v = l[s]
   BY <1>4 DEF ShowsSlots
 <2>3. ASSUME NEW s \in 1..Len(l) PROVE after[Address(i, a, s - 1)].v = Set(l, slots, v)[s]
  <3>1. s - 1 \in 0..Width[a] - 1 BY <2>2, SlotWidth
  <3>2. /\ Address(i, a, s - 1) \in 1..Len(block)
        /\ Address(i, a, s - 1) \in cells <=> s - 1 \in slots
    BY <1>2, <3>1
  <3> DEFINE k == Address(i, a, s - 1)
             l2 == Set(l, slots, v)
  <3>3. /\ k \in 1..Len(block) /\ (k \in cells <=> s - 1 \in slots) /\ block[k].v = l[s]
        /\ l2[s] = IF s - 1 \in slots THEN v ELSE l[s]
    BY <2>1, <2>2, <3>2
  <3> HIDE DEF k, l2
  <3>4. after[k].v = l2[s]
   <4>1. CASE s - 1 \in slots
    <5>1. after[k] = [v |-> v, slots |-> block[k].slots] BY <1>1, <3>3, <4>1
    <5> QED BY <3>3, <4>1, <5>1
   <4>2. CASE s - 1 \notin slots
    <5>1. after[k] = block[k] BY <1>1, <3>3, <4>2
    <5> QED BY <3>3, <4>2, <5>1
   <4> QED BY <4>1, <4>2
  <3> QED BY <3>4 DEF k, l2
 <2> QED BY <2>1, <2>2, <2>3 DEF ShowsSlots
<1> QED BY <1>3, <1>4 DEF after, cells, KeepsOthers, SetsOwn

\* All the cells of a frame are in its blocks.
LEMMA BlocksFit ==
  ASSUME NEW n, FrameOK(n)
  PROVE  /\ n \in NodeType /\ n.max \in Nat /\ BlocksOK(n)
         /\ Fits(n.max, FALSE, n.dynamic) /\ Fits(n.max, TRUE, n.const)
<1>1. n \in NodeType /\ BlocksOK(n) BY DEF FrameOK, BlocksOK
<1>2. n.max \in Nat BY <1>1, NodeFields
<1>3. Fits(n.max, FALSE, n.dynamic) BY <1>1, AddressInBlock DEF Fits
<1>4. Fits(n.max, TRUE, n.const) BY AddressInConst DEF Fits
<1> QED BY <1>1, <1>2, <1>3, <1>4

\* One attribute's value is the only one that differs.
OnlyAt(i, a, m, vals, after) ==
  \A j \in 0..m - 1 : \A b \in DOMAIN Attrs : b # a \/ j # i => after[j + 1][b] = vals[j + 1][b]

\* The values of a frame when one attribute of one node gets another.
LEMMA OneValueChanges ==
  ASSUME NEW n, NEW vals, MemoryOK(n, vals), NEW i \in 0..n.max - 1, NEW a \in DOMAIN Attrs, NEW l \in Seq(Held)
  PROVE  LET after == [vals EXCEPT ![i + 1][a] = l]
         IN  ValuesOK(n, after) /\ after[i + 1][a] = l /\ OnlyAt(i, a, n.max, vals, after)
<1>1. n.max \in Nat /\ vals \in ValueType /\ Len(vals) = n.max
  BY BlocksFit DEF MemoryOK, ValuesOK
<1>2. \A j \in 0..n.max - 1 : \A b \in DOMAIN Attrs : b # a \/ j # i => <<j, b>> # <<i, a>>
  OBVIOUS
<1> QED BY <1>1, <1>2, ValueChanges, SMTT(30) DEF ValuesOK, OnlyAt

(* Slots of an attribute that is not a list are assigned.                  *)
LEMMA PlainChanges ==
  ASSUME NEW n, NEW vals, MemoryOK(n, vals), NEW i \in 0..n.max - 1, NEW a \in InBlock(FALSE), a \notin Lists,
         NEW slots \in SUBSET (0..Width[a] - 1), NEW v \in Held
  PROVE  Changed(n, assigned(n, i, a, slots, v), vals, i, a, Set(vals[i + 1][a], slots, v))
<1> DEFINE cells == CellsOf(i, a, slots)
           block == Filled(n.dynamic, cells, v)
           m == assigned(n, i, a, slots, v)
           l == vals[i + 1][a]
           after == [vals EXCEPT ![i + 1][a] = Set(l, slots, v)]
           q == n.max * size_per_node[FALSE]
           d == Len(n.dynamic)
<1>1. /\ n \in NodeType /\ n.max \in Nat /\ BlocksOK(n) /\ Fits(n.max, FALSE, n.dynamic)
      /\ ~ Attrs[a].is_list /\ ~ Attrs[a].is_const /\ a \in DOMAIN Attrs
      /\ FrameOK(n) /\ ValuesOK(n, vals)
  BY BlocksFit, KindsOfAttrs DEF MemoryOK
<1>2. m = [n EXCEPT !.dynamic = block] BY <1>1 DEF assigned, Address, Filled, CellsOf
<1>3. /\ m.max = n.max /\ m.bits = n.bits /\ m.masks = n.masks /\ m.const = n.const /\ m.lists = n.lists
      /\ m.dynamic = block
      /\ m = [max |-> n.max, const |-> n.const, dynamic |-> block, lists |-> n.lists,
              bits |-> n.bits, masks |-> n.masks]
  BY <1>1, <1>2 DEF NodeType
<1>4. n.dynamic \in Seq(Cells) /\ d \in Nat BY <1>1, NodeFields
<1> HIDE DEF m
<1>5. block \in Seq(Cells) /\ Len(block) = d
      /\ \A k \in 1..d : k \notin cells => block[k] = n.dynamic[k]
 <2> HIDE DEF cells
 <2>1. /\ Filled(n.dynamic, cells, v) \in Seq(Cells) /\ Len(Filled(n.dynamic, cells, v)) = d
       /\ \A k \in 1..d : Filled(n.dynamic, cells, v)[k] = IF k \in cells THEN [v |-> v, slots |-> n.dynamic[k].slots]
                                                           ELSE n.dynamic[k]
   BY <1>4, FilledAt
 <2>2. \A k \in 1..d : k \notin cells => Filled(n.dynamic, cells, v)[k] = n.dynamic[k]
   BY <2>1
 <2> QED BY <2>1, <2>2
<1>6. KeepsOthers(n.max, FALSE, n.dynamic, block, i, a) /\ SetsOwn(n.dynamic, block, i, a, slots, v)
 <2> DEFINE c == FALSE
            nd == n.dynamic
            mx == n.max
 <2>1. /\ c \in BOOLEAN /\ a \in InBlock(c) /\ Fits(mx, c, nd) /\ mx \in Nat /\ nd \in Seq(Cells)
       /\ i \in 0..mx - 1 /\ a \notin Lists
   BY <1>1, <1>4
 <2> HIDE DEF c, nd, mx, block
 <2>2. /\ KeepsOthers(mx, c, nd, Filled(nd, CellsOf(i, a, slots), v), i, a)
       /\ SetsOwn(nd, Filled(nd, CellsOf(i, a, slots), v), i, a, slots, v)
   BY <2>1, FilledShows
 <2> QED BY <2>2, Zenon DEF c, nd, mx, block
<1> HIDE DEF block
<1>7. m \in NodeType BY <1>1, <1>3, <1>5 DEF NodeType
<1>8. l \in Seq(Held) /\ Set(l, slots, v) \in Seq(Held) BY <1>1, ValueOfAttr, SetType
<1>9. ValuesOK(m, after) /\ after[i + 1][a] = Set(l, slots, v) /\ OnlyAt(i, a, n.max, vals, after)
 <2>1. ValuesOK(n, after) /\ after[i + 1][a] = Set(l, slots, v) /\ OnlyAt(i, a, n.max, vals, after)
   BY <1>1, <1>8, OneValueChanges
 <2> QED BY <1>3, <2>1 DEF ValuesOK
<1>10. FrameOK(m)
 <2>1. ASSUME NEW k \in 1..d, q < k PROVE block[k] = Cell
  <3>1. k \notin cells
   <4> SUFFICES ASSUME NEW s \in slots, k = Address(i, a, s) PROVE FALSE
     BY DEF CellsOf
   <4>1. s \in 0..Width[a] - 1 OBVIOUS
   <4>2. k <= q BY <1>1, <4>1, AddressInBlock
   <4>3. q \in Nat
    <5>1. size_per_node[FALSE] \in Nat BY <1>1, NodeFields
    <5> QED BY <1>1, <5>1, ProductIsNatural
   <4> HIDE DEF q
   <4> QED BY <2>1, <4>2, <4>3
  <3>2. n.dynamic[k] = Cell BY <1>1, <2>1 DEF FrameOK
  <3> QED BY <1>5, <3>1, <3>2
 <2> QED BY <1>1, <1>3, <1>5, <1>7, <2>1 DEF FrameOK, BlocksOK
<1>11. \A j \in 0..n.max - 1 : \A b \in Lists : block[Address(j, b, 0)] = n.dynamic[Address(j, b, 0)]
 <2> SUFFICES ASSUME NEW j \in 0..n.max - 1, NEW b \in Lists
              PROVE  block[Address(j, b, 0)] = n.dynamic[Address(j, b, 0)]
   OBVIOUS
 <2>1. b \in InBlock(FALSE) /\ 0 \in 0..Width[b] - 1 /\ b # a BY ListWidth
 <2> QED BY <1>6, <2>1 DEF KeepsOthers
<1>12. Separate(m)
 <2> SUFFICES ASSUME NEW j \in 0..n.max - 1, NEW g \in 0..n.max - 1, NEW b \in Lists, NEW c \in Lists,
                     block[Address(j, b, 0)].v = block[Address(g, c, 0)].v
              PROVE  j = g /\ b = c
   BY <1>3 DEF Separate
 <2>1. n.dynamic[Address(j, b, 0)].v = n.dynamic[Address(g, c, 0)].v BY <1>11
 <2> QED BY <2>1 DEF MemoryOK, Separate
<1>13. Shows(m, after)
 <2> SUFFICES ASSUME NEW j \in 0..n.max - 1, NEW b \in InBlock(FALSE)
              PROVE  IF b \in Lists THEN ShowsList(m, j, b, after[j + 1][b])
                     ELSE ShowsSlots(block, j, b, after[j + 1][b])
   BY <1>3 DEF Shows
 <2>0. b \in DOMAIN Attrs BY KindsOfAttrs
 <2>1. CASE j = i /\ b = a
  <3>1. ShowsSlots(n.dynamic, i, a, l) BY DEF MemoryOK, Shows
  <3>2. ShowsSlots(block, i, a, Set(l, slots, v)) BY <1>6, <1>8, <3>1 DEF SetsOwn
  <3> QED BY <1>9, <2>1, <3>2
 <2>2. CASE b \in Lists
  <3>1. ShowsList(n, j, b, vals[j + 1][b]) BY <2>2 DEF MemoryOK, Shows
  <3>2. after[j + 1][b] = vals[j + 1][b] BY <1>9, <2>0, <2>2 DEF OnlyAt
  <3> QED BY <1>3, <1>11, <2>2, <3>1, <3>2 DEF ShowsList
 <2>3. CASE b \notin Lists /\ (b # a \/ j # i)
  <3>1. ShowsSlots(n.dynamic, j, b, vals[j + 1][b]) BY <2>3 DEF MemoryOK, Shows
  <3>2. after[j + 1][b] = vals[j + 1][b] BY <1>9, <2>0, <2>3 DEF OnlyAt
  <3>3. \A s \in 1..Attrs[b].slots : block[Address(j, b, s - 1)] = n.dynamic[Address(j, b, s - 1)]
   <4> SUFFICES ASSUME NEW s \in 1..Attrs[b].slots PROVE block[Address(j, b, s - 1)] = n.dynamic[Address(j, b, s - 1)]
     OBVIOUS
   <4>0. FALSE \in BOOLEAN OBVIOUS
   <4>1. s - 1 \in 0..Width[b] - 1 BY <2>3, <4>0, SlotWidth
   <4> QED BY <1>6, <2>3, <4>1 DEF KeepsOthers
  <3> QED BY <2>3, <3>1, <3>2, <3>3 DEF ShowsSlots
 <2> QED BY <2>1, <2>2, <2>3
<1>14. ConstShows(m, after)
 <2> SUFFICES ASSUME NEW j \in 0..n.max - 1, NEW b \in InBlock(TRUE)
              PROVE  ShowsSlots(n.const, j, b, after[j + 1][b])
   BY <1>3 DEF ConstShows
 <2>1. b \in DOMAIN Attrs /\ b # a BY KindsOfAttrs
 <2>2. after[j + 1][b] = vals[j + 1][b] BY <1>9, <2>1 DEF OnlyAt
 <2> QED BY <2>2 DEF MemoryOK, ConstShows
<1> QED BY <1>3, <1>9, <1>10, <1>12, <1>13, <1>14 DEF MemoryOK, Changed, m

(* Slots of a constant are assigned.                                       *)
LEMMA ConstantChanges ==
  ASSUME NEW n, NEW vals, MemoryOK(n, vals), NEW i \in 0..n.max - 1, NEW a \in InBlock(TRUE),
         NEW slots \in SUBSET (0..Width[a] - 1), NEW v \in Held
  PROVE  Changed(n, assigned(n, i, a, slots, v), vals, i, a, Set(vals[i + 1][a], slots, v))
<1> DEFINE cells == CellsOf(i, a, slots)
           block == Filled(n.const, cells, v)
           m == assigned(n, i, a, slots, v)
           l == vals[i + 1][a]
           after == [vals EXCEPT ![i + 1][a] = Set(l, slots, v)]
<1>1. /\ n \in NodeType /\ n.max \in Nat /\ BlocksOK(n) /\ Fits(n.max, TRUE, n.const)
      /\ ~ Attrs[a].is_list /\ Attrs[a].is_const /\ a \in DOMAIN Attrs /\ a \notin Lists
      /\ FrameOK(n) /\ ValuesOK(n, vals)
  BY BlocksFit, KindsOfAttrs DEF MemoryOK
<1>2. m = [n EXCEPT !.const = block] BY <1>1 DEF assigned, Address, Filled, CellsOf
<1>3. /\ m.max = n.max /\ m.bits = n.bits /\ m.masks = n.masks /\ m.dynamic = n.dynamic /\ m.lists = n.lists
      /\ m.const = block
      /\ m = [max |-> n.max, const |-> block, dynamic |-> n.dynamic, lists |-> n.lists,
              bits |-> n.bits, masks |-> n.masks]
  BY <1>1, <1>2 DEF NodeType
<1>4. n.const \in Seq(Cells) BY <1>1, NodeFields
<1> HIDE DEF m
<1>5. block \in Seq(Cells) /\ Len(block) = Len(n.const) BY <1>4, FilledAt
<1>6. KeepsOthers(n.max, TRUE, n.const, block, i, a) /\ SetsOwn(n.const, block, i, a, slots, v)
 <2> DEFINE c == TRUE
            nd == n.const
            mx == n.max
 <2>1. /\ c \in BOOLEAN /\ a \in InBlock(c) /\ Fits(mx, c, nd) /\ mx \in Nat /\ nd \in Seq(Cells)
       /\ i \in 0..mx - 1 /\ a \notin Lists
   BY <1>1, <1>4
 <2> HIDE DEF c, nd, mx, block
 <2>2. /\ KeepsOthers(mx, c, nd, Filled(nd, CellsOf(i, a, slots), v), i, a)
       /\ SetsOwn(nd, Filled(nd, CellsOf(i, a, slots), v), i, a, slots, v)
   BY <2>1, FilledShows
 <2> QED BY <2>2, Zenon DEF c, nd, mx, block
<1> HIDE DEF block
<1>7. m \in NodeType BY <1>1, <1>3, <1>5 DEF NodeType
<1>8. l \in Seq(Held) /\ Set(l, slots, v) \in Seq(Held) BY <1>1, ValueOfAttr, SetType
<1>9. ValuesOK(m, after) /\ after[i + 1][a] = Set(l, slots, v) /\ OnlyAt(i, a, n.max, vals, after)
 <2>1. ValuesOK(n, after) /\ after[i + 1][a] = Set(l, slots, v) /\ OnlyAt(i, a, n.max, vals, after)
   BY <1>1, <1>8, OneValueChanges
 <2> QED BY <1>3, <2>1 DEF ValuesOK
<1>10. FrameOK(m) /\ Separate(m)
 <2>1. Separate(m) BY <1>3 DEF MemoryOK, Separate
 <2>2. BlocksOK(m) BY <1>1, <1>3, <1>7 DEF BlocksOK
 <2> QED BY <1>1, <1>3, <1>5, <2>1, <2>2 DEF FrameOK
<1>11. Shows(m, after)
 <2> SUFFICES ASSUME NEW j \in 0..n.max - 1, NEW b \in InBlock(FALSE)
              PROVE  IF b \in Lists THEN ShowsList(m, j, b, after[j + 1][b])
                     ELSE ShowsSlots(n.dynamic, j, b, after[j + 1][b])
   BY <1>3 DEF Shows
 <2>1. b \in DOMAIN Attrs /\ b # a BY KindsOfAttrs
 <2>2. after[j + 1][b] = vals[j + 1][b] BY <1>9, <2>1 DEF OnlyAt
 <2>3. IF b \in Lists THEN ShowsList(n, j, b, after[j + 1][b])
       ELSE ShowsSlots(n.dynamic, j, b, after[j + 1][b])
   BY <2>2 DEF MemoryOK, Shows
 <2> QED BY <1>3, <2>3 DEF ShowsList
<1>12. ConstShows(m, after)
 <2> SUFFICES ASSUME NEW j \in 0..n.max - 1, NEW b \in InBlock(TRUE)
              PROVE  ShowsSlots(block, j, b, after[j + 1][b])
   BY <1>3 DEF ConstShows
 <2>0. b \in DOMAIN Attrs /\ b \notin Lists BY KindsOfAttrs
 <2>a. ShowsSlots(n.const, j, b, vals[j + 1][b]) BY DEF MemoryOK, ConstShows
 <2>1. CASE j = i /\ b = a BY <1>6, <1>8, <1>9, <2>a, <2>1 DEF SetsOwn
 <2>2. CASE b # a \/ j # i
  <3>1. after[j + 1][b] = vals[j + 1][b] BY <1>9, <2>0, <2>2 DEF OnlyAt
  <3>2. \A s \in 1..Attrs[b].slots : block[Address(j, b, s - 1)] = n.const[Address(j, b, s - 1)]
   <4> SUFFICES ASSUME NEW s \in 1..Attrs[b].slots PROVE block[Address(j, b, s - 1)] = n.const[Address(j, b, s - 1)]
     OBVIOUS
   <4>0. TRUE \in BOOLEAN OBVIOUS
   <4>1. s - 1 \in 0..Width[b] - 1 BY <2>0, <4>0, SlotWidth
   <4> QED BY <1>6, <2>2, <4>1 DEF KeepsOthers
  <3> QED BY <2>a, <3>1, <3>2 DEF ShowsSlots
 <2> QED BY <2>1, <2>2
<1> QED BY <1>3, <1>9, <1>10, <1>11, <1>12 DEF MemoryOK, Changed, m

(* Slots of any attribute are assigned.                                    *)
LEMMA SlotsChange ==
  ASSUME NEW n, NEW vals, MemoryOK(n, vals), NEW i \in 0..n.max - 1, NEW a \in DOMAIN Attrs,
         NEW slots \in SUBSET (0..Len(vals[i + 1][a]) - 1), NEW v \in Held
  PROVE  Changed(n, assigned(n, i, a, slots, v), vals, i, a, Set(vals[i + 1][a], slots, v))
<1> DEFINE l == vals[i + 1][a]
           r == Set(l, slots, v)
<1>1. n \in NodeType /\ n.max \in Nat /\ BlocksOK(n) /\ ValuesOK(n, vals)
  BY BlocksFit DEF MemoryOK
<1>2. l \in Seq(Held) /\ Len(l) \in Nat BY <1>1, ValueOfAttr
<1>3. r \in Seq(Held) /\ Len(r) = Len(l) BY <1>2, SetType
<1>4. CASE a \in Lists
 <2> DEFINE k == Address(i, a, 0)
            x == n.dynamic[k].v
            e == n.dynamic[k]
 <2>1. a \in InBlock(FALSE) /\ a \in DOMAIN Attrs /\ Attrs[a].is_list
   BY <1>4, ListWidth, KindsOfAttrs
 <2>2. ShowsList(n, i, a, l) BY <1>4, <2>1 DEF MemoryOK, Shows
 <2>3. x \in 1..Len(n.lists) /\ n.lists[x] = l /\ e.slots = Len(l) BY <2>2 DEF ShowsList
 <2>4. k \in 1..Len(n.dynamic) /\ n.dynamic \in Seq(Cells)
  <3>1. 0 \in 0..Width[a] - 1 BY <1>4, ListWidth
  <3> QED BY <1>1, <2>1, <3>1, AddressInBlock, NodeFields
 <2>5. [e EXCEPT !.slots = Len(r)] = e
  <3>1. e \in Cells BY <2>4
  <3> HIDE DEF e, r
  <3> QED BY <1>3, <2>3, <3>1 DEF Cells
 <2>6. [n.dynamic EXCEPT ![k] = e] = n.dynamic BY <2>4
 <2>7. assigned(n, i, a, slots, v) = [n EXCEPT !.lists = [n.lists EXCEPT ![x] = r]]
  <3>1. assigned(n, i, a, slots, v) =
          [n EXCEPT !.lists = [n.lists EXCEPT ![x] = Set(n.lists[x], slots, v)]]
    BY <1>1, <2>1 DEF assigned, get_list_attribute, Address, Set, NodeType
  <3> QED BY <2>3, <3>1
 <2>8. WithList(n, i, a, r, Len(r)) =
         [n EXCEPT !.lists = [n.lists EXCEPT ![x] = r],
                   !.dynamic = [n.dynamic EXCEPT ![k] = [e EXCEPT !.slots = Len(r)]]]
   BY <1>1 DEF WithList, get_list_attribute, Address, NodeType
 <2>9. [n EXCEPT !.dynamic = n.dynamic] = n BY <1>1 DEF NodeType
 <2>10. assigned(n, i, a, slots, v) = WithList(n, i, a, r, Len(r))
  <3> HIDE DEF e, r, x, k
  <3>1. WithList(n, i, a, r, Len(r)) =
          [n EXCEPT !.lists = [n.lists EXCEPT ![x] = r], !.dynamic = n.dynamic]
    BY <2>5, <2>6, <2>8
  <3> QED BY <1>1, <2>7, <3>1 DEF NodeType
 <2> QED BY <1>3, <1>4, <2>10, ListChanges
<1>5. CASE a \in InBlock(FALSE) /\ a \notin Lists
 <2>1. ShowsSlots(n.dynamic, i, a, l) BY <1>5 DEF MemoryOK, Shows
 <2>2. slots \in SUBSET (0..Width[a] - 1) BY <1>5, <2>1, KindsOfAttrs DEF ShowsSlots
 <2>3. a \in InBlock(FALSE) /\ a \notin Lists BY <1>5
 <2> HIDE DEF l, r
 <2>4. Changed(n, assigned(n, i, a, slots, v), vals, i, a, Set(vals[i + 1][a], slots, v))
   BY <2>2, <2>3, PlainChanges
 <2> QED BY <2>4
<1>6. CASE a \in InBlock(TRUE)
 <2>1. ShowsSlots(n.const, i, a, l) BY <1>6 DEF MemoryOK, ConstShows
 <2>2. a \notin Lists BY <1>6, KindsOfAttrs, Zenon
 <2>3. slots \in SUBSET (0..Width[a] - 1) BY <2>1, <2>2, KindsOfAttrs DEF ShowsSlots
 <2> QED BY <1>6, <2>3, ConstantChanges
<1> QED BY <1>4, <1>5, <1>6, KindsOfAttrs, Zenon

\* Cells numbered from none on, with all lists of the first m nodes empty.
LEMMA CellIsCell == Cell \in Cells /\ Cell.v = 0 /\ Cell.slots = 0
  BY DEF Cell, Cells, Held


\* A new node holds a zero for each slot, and empty lists.
LEMMA FreshTypes ==
  /\ Fresh \in [DOMAIN Attrs -> Seq(Held)]
  /\ \A a \in Lists : Fresh[a] = << >>
  /\ \A a \in DOMAIN Attrs : a \notin Lists => Len(Fresh[a]) = Attrs[a].slots
                                               /\ \A s \in 1..Attrs[a].slots : Fresh[a][s] = 0
<1>1. \A a \in DOMAIN Attrs : Attrs[a].slots \in Nat /\ Attrs[a].is_list \in BOOLEAN
  BY LayoutTypes
<1> DEFINE Zeros(k) == [s \in 1..k |-> 0]
<1>2. \A k \in Nat : Zeros(k) \in Seq(Held) /\ Len(Zeros(k)) = k /\ \A s \in 1..k : Zeros(k)[s] = 0
  BY DEF Held
<1>3. \A a \in DOMAIN Attrs : Fresh[a] = IF a \in Lists THEN << >> ELSE Zeros(Attrs[a].slots)
  BY <1>1 DEF Fresh, Lists
<1>4. << >> \in Seq(Held) OBVIOUS
<1>5. Fresh = [a \in DOMAIN Attrs |-> Fresh[a]] BY DEF Fresh
<1> HIDE DEF Zeros
<1>6. \A a \in Lists : a \in DOMAIN Attrs BY DEF Lists
<1>7. \A a \in DOMAIN Attrs : Fresh[a] \in Seq(Held) BY <1>1, <1>2, <1>3, <1>4
<1> QED BY <1>1, <1>2, <1>3, <1>5, <1>6, <1>7

(* Nodes are added: add_nodes with write_lists.                            *)

\* A block that has only fresh cells from node `from' on.
FreshFrom(block, from) ==
  \A k \in 1..Len(block) : from * size_per_node[FALSE] < k => block[k] = Cell

\* Nodes from..to-1 get lists; the cells of others stay.
Numbered(after, block, from, to, next) ==
  /\ after \in Seq(Cells) /\ Len(after) = Len(block)
  /\ \A i \in 0..from - 1 : \A a \in InBlock(FALSE) : \A s \in 0..Width[a] - 1 :
       after[Address(i, a, s)] = block[Address(i, a, s)]
  /\ \A i \in from..to - 1 : \A a \in Lists :
       after[Address(i, a, 0)] = [v |-> ListIndex(a, i, from, to, next), slots |-> 0]
  /\ \A i \in from..to - 1 : \A a \in InBlock(FALSE) \ Lists : \A s \in 0..Width[a] - 1 :
       after[Address(i, a, s)] = Cell
  /\ FreshFrom(after, to)

\* After write_lists the cells of new nodes name different lists of the store.
LEMMA ListsAreNumbered ==
  ASSUME NEW block \in Seq(Cells), NEW from \in Nat, NEW to \in Nat, from <= to, NEW next \in Nat,
         to * size_per_node[FALSE] <= Len(block), FreshFrom(block, from)
  PROVE  Numbered(ListCells(block, from, to, next), block, from, to, next)
<1> DEFINE z == size_per_node[FALSE]
           after == ListCells(block, from, to, next)
           d == Len(block)
<1>1. /\ after \in Seq(Cells) /\ Len(after) = d
      /\ \A k \in 1..d : (\A a \in Lists : \A i \in from..to - 1 : Address(i, a, 0) # k) => after[k] = block[k]
      /\ \A a \in Lists : \A i \in from..to - 1 :
           Address(i, a, 0) \in 1..d =>
             after[Address(i, a, 0)] = [v |-> ListIndex(a, i, from, to, next), slots |-> block[Address(i, a, 0)].slots]
 <2>1. OnlyNumbers(after, block, from, to, next) BY ListCellsAt
 <2> HIDE DEF after
 <2> QED BY <2>1 DEF OnlyNumbers
<1>0. to * z <= d OBVIOUS
<1> HIDE DEF after
<1>2. d \in Nat /\ z \in Nat /\ to * z \in Nat /\ from * z \in Nat /\ from * z <= to * z /\ to * z <= d
 <2>1. z \in Nat
  <3>1. InBlock(FALSE) \in SUBSET DOMAIN Attrs BY DEF InBlock
  <3>2. SumFunctionOnSet(Width, InBlock(FALSE)) \in Nat BY <3>1, WidthsAddUp
  <3> QED BY <3>2 DEF size_per_node
 <2> HIDE DEF z
 <2>2. to * z \in Nat /\ from * z \in Nat BY <2>1, ProductIsNatural
 <2>3. from * z <= to * z
  <3>1. CASE from = to BY <2>2, <3>1
  <3>2. CASE from < to
   <4>1. from * z + z <= to * z BY <2>1, <3>2, ProductGrows
   <4> QED BY <2>1, <2>2, <4>1
  <3> QED BY <3>1, <3>2
 <2>4. d \in Nat BY DEF d
 <2> HIDE DEF d
 <2>5. to * z <= d BY <1>0
 <2> QED BY <2>1, <2>2, <2>3, <2>4, <2>5, Zenon
<1> HIDE DEF z
<1>3. ASSUME NEW i \in 0..to - 1, NEW a \in InBlock(FALSE), NEW s \in 0..Width[a] - 1
      PROVE  /\ Address(i, a, s) \in 1..d /\ Address(i, a, s) <= to * z
             /\ i \in from..to - 1 => from * z < Address(i, a, s)
 <2>1. a \in DOMAIN Attrs /\ size_per_node[Attrs[a].is_const] = z BY KindsOfAttrs DEF z
 <2>2. Address(i, a, s) \in 1..to * z BY <2>1, AddressBound
 <2>3. ASSUME i \in from..to - 1 PROVE from * z < Address(i, a, s)
   BY <2>1, <2>3, AddressBeyond
 <2> DEFINE p == to * z
            k == Address(i, a, s)
 <2>4. p \in Nat /\ p <= d /\ k \in 1..p BY <1>2, <2>2
 <2> HIDE DEF p, k
 <2>5. k \in 1..d /\ k <= p BY <1>2, <2>4
 <2> QED BY <2>3, <2>5 DEF p, k
<1>4. ASSUME NEW i \in 0..to - 1, NEW a \in InBlock(FALSE), NEW s \in 0..Width[a] - 1,
             a \notin Lists \/ i \in 0..from - 1
      PROVE  after[Address(i, a, s)] = block[Address(i, a, s)]
 <2>1. ASSUME NEW b \in Lists, NEW j \in from..to - 1, Address(j, b, 0) = Address(i, a, s)
       PROVE  FALSE
  <3> DEFINE u == 0
  <3>1. b \in InBlock(FALSE) /\ u \in 0..Width[b] - 1 BY ListWidth, Zenon
  <3>2. j \in 0..to - 1 /\ Address(i, a, s) = Address(j, b, u) BY <2>1
  <3> DEFINE c == FALSE
  <3>a. c \in BOOLEAN /\ a \in InBlock(c) /\ b \in InBlock(c) BY <3>1
  <3> HIDE DEF u, c
  <3>3. i = j /\ a = b BY <3>1, <3>2, <3>a, AddressIsOwn
  <3>4. i \notin 0..from - 1 BY <3>3
  <3> QED BY <1>4, <3>3, <3>4
 <2>2. Address(i, a, s) \in 1..d BY <1>3
 <2> QED BY <1>1, <2>1, <2>2
<1>5. ASSUME NEW i \in from..to - 1, NEW a \in InBlock(FALSE), NEW s \in 0..Width[a] - 1
      PROVE  block[Address(i, a, s)] = Cell /\ Address(i, a, s) \in 1..d
 <2>1. i \in 0..to - 1 OBVIOUS
 <2>2. Address(i, a, s) \in 1..d /\ from * z < Address(i, a, s) BY <1>3, <2>1
 <2> QED BY <2>2 DEF FreshFrom, z
<1>6. ASSUME NEW i \in from..to - 1, NEW a \in Lists
      PROVE  after[Address(i, a, 0)] = [v |-> ListIndex(a, i, from, to, next), slots |-> 0]
 <2>1. block[Address(i, a, 0)] = Cell /\ Address(i, a, 0) \in 1..d BY <1>5, ListWidth
 <2> QED BY <1>1, <2>1, CellIsCell
<1>7. ASSUME NEW k \in 1..d, to * z < k PROVE after[k] = Cell
 <2>1. ASSUME NEW b \in Lists, NEW j \in from..to - 1 PROVE Address(j, b, 0) # k
  <3>1. j \in 0..to - 1 OBVIOUS
  <3>2. Address(j, b, 0) <= to * z /\ Address(j, b, 0) \in 1..d BY <1>3, <3>1, ListWidth
  <3> DEFINE p == to * z
             y == Address(j, b, 0)
  <3>3. p \in Nat /\ p < k /\ y <= p /\ y \in 1..d BY <1>2, <1>7, <3>2
  <3> HIDE DEF p, y
  <3>4. y # k BY <3>3
  <3> QED BY <3>4 DEF y
 <2>2. block[k] = Cell
  <3> DEFINE p == to * z
             q == from * z
  <3>1. p \in Nat /\ q \in Nat /\ q <= p /\ p < k BY <1>2, <1>7
  <3> HIDE DEF p, q
  <3>2. q < k BY <3>1
  <3> QED BY <3>2 DEF FreshFrom, q, z
 <2> QED BY <1>1, <2>1, <2>2
<1>8. FreshFrom(after, to) BY <1>1, <1>7 DEF FreshFrom, z
<1>9. \A i \in 0..from - 1 : \A a \in InBlock(FALSE) : \A s \in 0..Width[a] - 1 :
        after[Address(i, a, s)] = block[Address(i, a, s)]
 <2>1. \A i \in 0..from - 1 : i \in 0..to - 1 OBVIOUS
 <2> QED BY <1>4, <2>1
<1>10. \A i \in from..to - 1 : \A a \in InBlock(FALSE) \ Lists : \A s \in 0..Width[a] - 1 :
         after[Address(i, a, s)] = Cell
 <2>1. \A i \in from..to - 1 : i \in 0..to - 1 OBVIOUS
 <2> QED BY <1>4, <1>5, <2>1
<1> QED BY <1>1, <1>6, <1>8, <1>9, <1>10 DEF after, Numbered

\* What the nodes before `from' show in terms of their block and lists.
OldShown(block, ls, from, next, vals) ==
  /\ \A i \in 0..from - 1 : \A a \in InBlock(FALSE) :
       IF a \in Lists
       THEN LET c == block[Address(i, a, 0)]
            IN  c.v \in 1..next - 1 /\ ls[c.v] = vals[i + 1][a] /\ c.slots = Len(vals[i + 1][a])
       ELSE ShowsSlots(block, i, a, vals[i + 1][a])
  /\ \A i, j \in 0..from - 1 : \A a, b \in Lists :
       block[Address(i, a, 0)].v = block[Address(j, b, 0)].v => i = j /\ a = b

NewFresh(from, to, vals) ==
  \A i \in from..to - 1 : \A a \in InBlock(FALSE) : vals[i + 1][a] = Fresh[a]

\* Nodes with numbered lists show fresh values and those before what they did.
LEMMA GrownShows ==
  ASSUME NEW block, NEW from \in Nat, NEW to \in Nat, from <= to, NEW next \in Nat \ {0},
         NEW m, m.max = to, Numbered(m.dynamic, block, from, to, next),
         Len(m.lists) \in Nat, next - 1 + Cardinality(Lists) * (to - from) <= Len(m.lists),
         \A x \in next..Len(m.lists) : m.lists[x] = << >>,
         NEW vals, OldShown(block, m.lists, from, next, vals), NewFresh(from, to, vals)
  PROVE  Shows(m, vals) /\ Separate(m)
<1> DEFINE nd == m.dynamic
           N == Len(m.lists)
           size == Cardinality(Lists) * (to - from)
<1>1. size \in Nat /\ next - 1 + size <= N /\ N \in Nat /\ next - 1 <= N
 <2>1. to - from \in Nat /\ Cardinality(Lists) \in Nat BY RanksDiffer
 <2>2. size \in Nat BY <2>1, ProductIsNatural
 <2> HIDE DEF size
 <2>3. next - 1 + size <= N BY DEF size
 <2> QED BY <2>2, <2>3
<1> HIDE DEF size
<1>2. ASSUME NEW i \in from..to - 1, NEW a \in Lists
      PROVE  /\ nd[Address(i, a, 0)].v = ListIndex(a, i, from, to, next) /\ nd[Address(i, a, 0)].slots = 0
             /\ ListIndex(a, i, from, to, next) \in next..N
             /\ \A b \in Lists : \A j \in from..to - 1 :
                  ListIndex(b, j, from, to, next) = ListIndex(a, i, from, to, next) => a = b /\ i = j
 <2>1. nd[Address(i, a, 0)] = [v |-> ListIndex(a, i, from, to, next), slots |-> 0]
   BY DEF Numbered
 <2> DEFINE x == ListIndex(a, i, from, to, next)
 <2>2. /\ x \in Nat /\ next <= x /\ x < next + size
       /\ \A b \in Lists : \A j \in from..to - 1 : ListIndex(b, j, from, to, next) = x => a = b /\ i = j
  <3>1. next \in Nat OBVIOUS
  <3> QED BY <3>1, IndicesDiffer DEF size
 <2> HIDE DEF x
 <2>3. x \in next..N BY <1>1, <2>2
 <2> QED BY <2>1, <2>2, <2>3 DEF x
<1>3. ASSUME NEW i \in 0..from - 1, NEW a \in Lists
      PROVE  nd[Address(i, a, 0)] = block[Address(i, a, 0)]
  BY ListWidth DEF Numbered
<1>4. \A i \in 0..from - 1 : \A a \in Lists : nd[Address(i, a, 0)].v \in 1..next - 1
 <2> SUFFICES ASSUME NEW i \in 0..from - 1, NEW a \in Lists PROVE nd[Address(i, a, 0)].v \in 1..next - 1
   OBVIOUS
 <2>1. block[Address(i, a, 0)].v \in 1..next - 1 BY ListWidth DEF OldShown
 <2> QED BY <1>3, <2>1
<1>5. Separate(m)
 <2> SUFFICES ASSUME NEW i \in 0..to - 1, NEW j \in 0..to - 1, NEW a \in Lists, NEW b \in Lists,
                     nd[Address(i, a, 0)].v = nd[Address(j, b, 0)].v
              PROVE  i = j /\ a = b
   BY DEF Separate
 <2>1. CASE i \in 0..from - 1 /\ j \in 0..from - 1 BY <1>3, <2>1 DEF OldShown
 <2>2. CASE i \in from..to - 1 /\ j \in from..to - 1 BY <1>2, <2>2
 <2>3. CASE i \in 0..from - 1 /\ j \in from..to - 1
  <3>1. nd[Address(i, a, 0)].v \in 1..next - 1 /\ nd[Address(j, b, 0)].v \in next..N
    BY <1>2, <1>4, <2>3, SMTT(30)
  <3> QED BY <1>1, <3>1
 <2>4. CASE i \in from..to - 1 /\ j \in 0..from - 1
  <3>1. nd[Address(i, a, 0)].v \in next..N /\ nd[Address(j, b, 0)].v \in 1..next - 1
    BY <1>2, <1>4, <2>4, SMTT(30)
  <3> QED BY <1>1, <3>1
 <2> QED BY <2>1, <2>2, <2>3, <2>4
<1>6. Shows(m, vals)
 <2> SUFFICES ASSUME NEW i \in 0..to - 1, NEW a \in InBlock(FALSE)
              PROVE  IF a \in Lists THEN ShowsList(m, i, a, vals[i + 1][a])
                     ELSE ShowsSlots(nd, i, a, vals[i + 1][a])
   BY DEF Shows
 <2>0. a \in DOMAIN Attrs BY KindsOfAttrs
 <2>1. CASE i \in 0..from - 1 /\ a \in Lists
  <3> DEFINE c == block[Address(i, a, 0)]
  <3>1. nd[Address(i, a, 0)] = c BY <1>3, <2>1
  <3>2. c.v \in 1..next - 1 /\ m.lists[c.v] = vals[i + 1][a] /\ c.slots = Len(vals[i + 1][a])
    BY <2>1 DEF OldShown
  <3> HIDE DEF c
  <3>3. c.v \in 1..N BY <1>1, <3>2
  <3> QED BY <2>1, <3>1, <3>2, <3>3 DEF ShowsList
 <2>2. CASE i \in from..to - 1 /\ a \in Lists
  <3>1. /\ nd[Address(i, a, 0)].v \in next..N /\ nd[Address(i, a, 0)].slots = 0
    BY <1>2, <2>2
  <3>2. vals[i + 1][a] = << >> BY <2>2, FreshTypes DEF NewFresh
  <3>3. Len(<< >>) = 0 OBVIOUS
  <3>4. nd[Address(i, a, 0)].v \in 1..N BY <1>1, <3>1
  <3>5. m.lists[nd[Address(i, a, 0)].v] = << >> BY <3>1
  <3> QED BY <2>2, <3>1, <3>2, <3>3, <3>4, <3>5 DEF ShowsList
 <2>3. CASE i \in 0..from - 1 /\ a \notin Lists
  <3>1. ShowsSlots(block, i, a, vals[i + 1][a]) BY <2>3 DEF OldShown
  <3>2. \A s \in 1..Attrs[a].slots : nd[Address(i, a, s - 1)] = block[Address(i, a, s - 1)]
   <4> SUFFICES ASSUME NEW s \in 1..Attrs[a].slots PROVE nd[Address(i, a, s - 1)] = block[Address(i, a, s - 1)]
     OBVIOUS
   <4>0. FALSE \in BOOLEAN OBVIOUS
   <4>1. s - 1 \in 0..Width[a] - 1 BY <2>3, <4>0, SlotWidth
   <4> QED BY <2>3, <4>1 DEF Numbered
  <3> QED BY <2>3, <3>1, <3>2 DEF ShowsSlots
 <2>4. CASE i \in from..to - 1 /\ a \notin Lists
  <3>1. vals[i + 1][a] = Fresh[a] BY <2>4 DEF NewFresh
  <3>2. \A s \in 1..Attrs[a].slots : nd[Address(i, a, s - 1)] = Cell
   <4> SUFFICES ASSUME NEW s \in 1..Attrs[a].slots PROVE nd[Address(i, a, s - 1)] = Cell
     OBVIOUS
   <4>0. FALSE \in BOOLEAN OBVIOUS
   <4>1. s - 1 \in 0..Width[a] - 1 BY <2>4, <4>0, SlotWidth
   <4> QED BY <2>4, <4>1 DEF Numbered
  <3> QED BY <2>0, <2>4, <3>1, <3>2, FreshTypes, CellIsCell DEF ShowsSlots
 <2> QED BY <2>1, <2>2, <2>3, <2>4
<1> QED BY <1>5, <1>6

\* A resized sequence.
IsResized(r, S, q, n, filler) ==
  /\ r \in Seq(S) /\ Len(r) = n
  /\ \A k \in 1..n : r[k] = IF k <= Len(q) THEN q[k] ELSE filler

\* A resized sequence keeps its front and is filled at its end.
LEMMA ResizedIs ==
  ASSUME NEW S, NEW q \in Seq(S), NEW n \in Nat, NEW filler \in S
  PROVE  IsResized(Resized(q, n, filler), S, q, n, filler)
<1>1. \A k \in 1..n : (IF k <= Len(q) THEN q[k] ELSE filler) \in S OBVIOUS
<1> QED BY <1>1 DEF Resized, IsResized

\* The larger and the smaller of two numbers.
LEMMA OfTwo ==
  ASSUME NEW x \in Int, NEW y \in Int
  PROVE  /\ Max({x, y}) \in {x, y} /\ Max({x, y}) >= x /\ Max({x, y}) >= y
         /\ Min({x, y}) \in {x, y} /\ Min({x, y}) <= x /\ Min({x, y}) <= y
<1>1. Max({x, y}) \in {x, y} /\ Max({x, y}) >= x /\ Max({x, y}) >= y
 <2>1. \E z \in {x, y} : \A u \in {x, y} : z >= u
  <3>1. CASE x >= y BY <3>1
  <3>2. CASE y >= x BY <3>2
  <3> QED BY <3>1, <3>2
 <2> QED BY <2>1 DEF Max
<1>2. Min({x, y}) \in {x, y} /\ Min({x, y}) <= x /\ Min({x, y}) <= y
 <2>1. \E z \in {x, y} : \A u \in {x, y} : z <= u
  <3>1. CASE x <= y BY <3>1
  <3>2. CASE y <= x BY <3>2
  <3> QED BY <3>1, <3>2
 <2> QED BY <2>1 DEF Min
<1> QED BY <1>1, <1>2

\* Whole masks cover the nodes.
LEMMA MasksCover ==
  ASSUME NEW n \in Nat
  PROVE  ceil_to_times(n) \in Nat /\ n <= ceil_to_times(n)
<1> DEFINE d == MaskBits
           q == (n + MaskBits - 1) \div MaskBits
<1>1. d \in Nat \ {0} /\ n + d - 1 \in Nat BY NodeAssumption
<1>2. q \in Nat /\ n + d - 1 < d * q + d BY <1>1, DivisionBounds
<1>3. ceil_to_times(n) = q * d BY DEF ceil_to_times
<1> HIDE DEF q, d
<1>4. q * d = d * q /\ q * d \in Nat BY <1>1, <1>2
<1> DEFINE p == q * d
<1>5. p \in Nat /\ n + d - 1 < p + d BY <1>2, <1>4
<1> HIDE DEF p
<1>6. n <= p BY <1>1, <1>5
<1> QED BY <1>3, <1>5, <1>6 DEF p

\* A block that is grown for `to' nodes.
Grown(after, block, z, to) ==
  /\ after \in Seq(Cells) /\ Len(block) <= Len(after) /\ to * z <= Len(after)
  /\ \A k \in 1..Len(after) : after[k] = IF k <= Len(block) THEN block[k] ELSE Cell

\* A block grows by fresh cells.
LEMMA GrownBlock ==
  ASSUME NEW block \in Seq(Cells), NEW z \in Nat, NEW to \in Nat
  PROVE  Grown(Resized(block, Max({Len(block), to * z}), Cell), block, z, to)
<1> DEFINE p == to * z
           d == Len(block)
           n == Max({d, p})
<1>1. p \in Nat /\ d \in Nat BY ProductIsNatural
<1> HIDE DEF p, d
<1>2. n \in Nat /\ n >= d /\ n >= p
 <2>1. d \in Int /\ p \in Int BY <1>1
 <2>2. n \in {d, p} /\ n >= d /\ n >= p BY <2>1, OfTwo
 <2> HIDE DEF n
 <2> QED BY <1>1, <2>2
<1> HIDE DEF n
<1>3. /\ Resized(block, n, Cell) \in Seq(Cells) /\ Len(Resized(block, n, Cell)) = n
      /\ \A k \in 1..n : Resized(block, n, Cell)[k] = IF k <= Len(block) THEN block[k] ELSE Cell
 <2> DEFINE S == Cells
 <2>1. block \in Seq(S) /\ Cell \in S BY CellIsCell
 <2> HIDE DEF S
 <2>2. /\ Resized(block, n, Cell) \in Seq(S) /\ Len(Resized(block, n, Cell)) = n
       /\ \A k \in 1..n : Resized(block, n, Cell)[k] = IF k <= Len(block) THEN block[k] ELSE Cell
  <3>1. IsResized(Resized(block, n, Cell), S, block, n, Cell) BY <1>2, <2>1, ResizedIs
  <3> QED BY <3>1 DEF IsResized
 <2> QED BY <2>2 DEF S
<1>4. d <= n /\ p <= n BY <1>1, <1>2
<1> QED BY <1>3, <1>4 DEF Grown, n, p, d

\* The block sizes are natural.
LEMMA SizesAreNatural == size_per_node[TRUE] \in Nat /\ size_per_node[FALSE] \in Nat
<1> SUFFICES ASSUME NEW c \in BOOLEAN PROVE size_per_node[c] \in Nat
  OBVIOUS
<1>1. InBlock(c) \in SUBSET DOMAIN Attrs BY DEF InBlock
<1>2. SumFunctionOnSet(Width, InBlock(c)) \in Nat BY <1>1, WidthsAddUp
<1> QED BY <1>2 DEF size_per_node

\* Cells of zeros show fresh values.
LEMMA FreshShows ==
  ASSUME NEW block, NEW i, NEW c \in BOOLEAN, NEW a \in InBlock(c), a \notin Lists,
         \A s \in 0..Width[a] - 1 : block[Address(i, a, s)] = Cell
  PROVE  ShowsSlots(block, i, a, Fresh[a])
<1>1. a \in DOMAIN Attrs /\ Attrs[a].slots \in Nat /\ \A s \in 1..Attrs[a].slots : s - 1 \in 0..Width[a] - 1
  BY SlotWidth
<1>2. Len(Fresh[a]) = Attrs[a].slots /\ \A s \in 1..Attrs[a].slots : Fresh[a][s] = 0
  BY <1>1, FreshTypes
<1>3. \A s \in 1..Attrs[a].slots : block[Address(i, a, s - 1)] = Cell BY <1>1
<1> QED BY <1>2, <1>3, CellIsCell DEF ShowsSlots

\* The memory of to nodes, the last of which have just been added.
AddedTo(m, block, from, to, next) ==
  /\ m.max = to /\ to <= m.bits /\ m.bits \in Nat /\ m.masks \in SUBSET Int
  /\ m.dynamic = ListCells(block, from, to, next)
  /\ m.const \in Seq(Cells) /\ to * size_per_node[TRUE] <= Len(m.const)
  /\ m.lists \in Seq(Seq(Held))
  /\ m = [max |-> m.max, const |-> m.const, dynamic |-> m.dynamic, lists |-> m.lists,
          bits |-> m.bits, masks |-> m.masks]
  /\ Defined <= to /\ Defined * Cardinality(Lists) <= Len(m.lists)
  /\ next - 1 + Cardinality(Lists) * (to - from) <= Len(m.lists)
  /\ \A x \in next..Len(m.lists) : m.lists[x] = << >>

\* The memory after add_nodes is well formed, and its new nodes are fresh.
LEMMA AddedMemory ==
  ASSUME NEW block \in Seq(Cells), NEW from \in Nat, NEW to \in Nat, from <= to, NEW next \in Nat \ {0},
         to * size_per_node[FALSE] <= Len(block), FreshFrom(block, from),
         NEW m, AddedTo(m, block, from, to, next),
         NEW vals, ValuesOK(m, vals), OldShown(block, m.lists, from, next, vals), NewFresh(from, to, vals),
         ConstShows(m, vals)
  PROVE  MemoryOK(m, vals)
<1>1. Numbered(m.dynamic, block, from, to, next)
 <2>1. next \in Nat /\ m.dynamic = ListCells(block, from, to, next) BY DEF AddedTo
 <2> QED BY <2>1, ListsAreNumbered
<1>2. Shows(m, vals) /\ Separate(m)
 <2>1. m.max = to /\ Len(m.lists) \in Nat /\ next - 1 + Cardinality(Lists) * (to - from) <= Len(m.lists)
       /\ \A x \in next..Len(m.lists) : m.lists[x] = << >>
  <3>1. Len(m.lists) \in Nat
   <4> DEFINE L == Seq(Held)
              ls == m.lists
   <4>1. ls \in Seq(L) BY DEF AddedTo
   <4> HIDE DEF L, ls
   <4>2. Len(ls) \in Nat BY <4>1
   <4> QED BY <4>2 DEF ls
  <3> QED BY <3>1, Zenon DEF AddedTo
 <2> QED BY <1>1, <2>1, GrownShows
<1>3. m \in NodeType
 <2>1. m.dynamic \in Seq(Cells) BY <1>1 DEF Numbered
 <2> QED BY <2>1 DEF AddedTo, NodeType
<1>4. BlocksOK(m)
 <2>1. Len(m.dynamic) = Len(block) BY <1>1 DEF Numbered
 <2> QED BY <1>3, <2>1 DEF AddedTo, BlocksOK
<1>5. FrameOK(m)
 <2>1. \A k \in 1..Len(m.dynamic) : m.max * size_per_node[FALSE] < k => m.dynamic[k] = Cell
  <3>1. FreshFrom(m.dynamic, m.max) BY <1>1 DEF Numbered, AddedTo
  <3> QED BY <3>1 DEF FreshFrom
 <2> QED BY <1>4, <2>1, Zenon DEF AddedTo, FrameOK
<1> QED BY <1>2, <1>5 DEF MemoryOK

\* The defined nodes, with a store of this many lists, all of them empty.
LEMMA NoneBefore ==
  ASSUME NEW block, NEW ls, NEW next, NEW vals
  PROVE  OldShown(block, ls, 0, next, vals)
<1>1. 0..0 - 1 = {} OBVIOUS
<1> QED BY <1>1 DEF OldShown

\* A block of fresh cells.
LEMMA FreshBlock ==
  ASSUME NEW n \in Nat
  PROVE  LET block == [k \in 1..n |-> Cell]
         IN  block \in Seq(Cells) /\ Len(block) = n /\ FreshFrom(block, 0) /\ \A k \in 1..n : block[k] = Cell
<1>1. Cell \in Cells BY CellIsCell
<1> QED BY <1>1 DEF FreshFrom

\* A store of empty lists.
LEMMA EmptyStore ==
  ASSUME NEW n \in Nat
  PROVE  LET ls == [k \in 1..n |-> << >>]
         IN  ls \in Seq(Seq(Held)) /\ Len(ls) = n /\ \A k \in 1..n : ls[k] = << >>
<1> DEFINE L == Seq(Held)
<1>1. << >> \in L OBVIOUS
<1> HIDE DEF L
<1>2. LET ls == [k \in 1..n |-> << >>]
      IN  ls \in Seq(L) /\ Len(ls) = n /\ \A k \in 1..n : ls[k] = << >>
  BY <1>1
<1> QED BY <1>2 DEF L

\* All the nodes of a new frame are alive.
LEMMA WholeMasks ==
  ASSUME NEW m \in Nat
  PROVE  0..m - 1 \in SUBSET Int
OBVIOUS

(* The first frame holds fresh values.                                     *)
LEMMA SetupHolds == MemoryOK(setup, [k \in 1..Defined |-> Fresh])
<1> DEFINE vals == [k \in 1..Defined |-> Fresh]
           z == size_per_node[FALSE]
           y == size_per_node[TRUE]
           N == Cardinality(Lists)
           block == [k \in 1..Defined * z |-> Cell]
           m == setup
<1>1. Defined \in Nat /\ z \in Nat /\ y \in Nat /\ N \in Nat
  BY NodeAssumption, SizesAreNatural, RanksDiffer
<1> HIDE DEF z, y, N
<1>2. Defined * z \in Nat /\ Defined * y \in Nat /\ Defined * N \in Nat /\ N * (Defined - 0) = Defined * N
 <2>1. Defined * z \in Nat /\ Defined * y \in Nat /\ Defined * N \in Nat
   BY <1>1, ProductIsNatural
 <2>2. N * (Defined - 0) = Defined * N BY <1>1
 <2> QED BY <2>1, <2>2
<1>3. block \in Seq(Cells) /\ Len(block) = Defined * z /\ FreshFrom(block, 0)
  BY <1>2, FreshBlock
<1>4. /\ m.max = Defined /\ m.const = [k \in 1..Defined * y |-> Cell] /\ m.dynamic = ListCells(block, 0, Defined, 1)
      /\ m.lists = [k \in 1..Defined * N |-> << >>] /\ m.bits = ceil_to_times(Defined)
      /\ m.masks = 0..ceil_to_times(Defined) - 1
      /\ m = [max |-> m.max, const |-> m.const, dynamic |-> m.dynamic, lists |-> m.lists,
              bits |-> m.bits, masks |-> m.masks]
  BY DEF setup, z, y, N
<1> HIDE DEF block, m
<1>5. m.const \in Seq(Cells) /\ Len(m.const) = Defined * y /\ \A k \in 1..Defined * y : m.const[k] = Cell
  BY <1>2, <1>4, FreshBlock
<1>6. m.lists \in Seq(Seq(Held)) /\ Len(m.lists) = Defined * N /\ \A k \in 1..Len(m.lists) : m.lists[k] = << >>
  BY <1>2, <1>4, EmptyStore
<1>7. m.bits \in Nat /\ Defined <= m.bits /\ m.masks \in SUBSET Int
  BY <1>1, <1>4, MasksCover, WholeMasks
<1>8. AddedTo(m, block, 0, Defined, 1)
 <2> DEFINE p == Defined * N
            r == N * (Defined - 0)
 <2>1. p \in Nat /\ r = p /\ Len(m.lists) = p /\ 1 - 1 + r <= p /\ p <= p
  <3>1. p \in Nat /\ r = p /\ Len(m.lists) = p BY <1>2, <1>6
  <3> HIDE DEF p, r
  <3> QED BY <3>1
 <2>2. Defined * y <= Len(m.const)
  <3> DEFINE c == Defined * y
  <3>1. c \in Nat /\ Len(m.const) = c BY <1>2, <1>5
  <3> HIDE DEF c
  <3>2. c <= Len(m.const) BY <3>1
  <3> QED BY <3>2 DEF c
 <2>3. Defined <= Defined BY <1>1
 <2>4. \A x \in 1..Len(m.lists) : m.lists[x] = << >> BY <1>6
 <2> HIDE DEF p, r
 <2>5. p <= Len(m.lists) /\ 1 - 1 + r <= Len(m.lists) BY <2>1
 <2> QED BY <1>4, <1>5, <1>6, <1>7, <2>2, <2>3, <2>4, <2>5 DEF AddedTo, z, y, N, p, r
<1>9. ValuesOK(m, vals) /\ \A k \in 1..Defined : vals[k] = Fresh
 <2> DEFINE F == [DOMAIN Attrs -> Seq(Held)]
 <2>1. Fresh \in F BY FreshTypes
 <2> HIDE DEF F
 <2>2. vals \in Seq(F) /\ Len(vals) = Defined /\ \A k \in 1..Defined : vals[k] = Fresh
   BY <1>1, <2>1
 <2> HIDE DEF vals
 <2> QED BY <1>4, <2>2 DEF ValuesOK, ValueType, F
<1>10. NewFresh(0, Defined, vals)
 <2>1. \A i \in 0..Defined - 1 : vals[i + 1] = Fresh BY <1>1
 <2> QED BY <2>1 DEF NewFresh
<1>11. ConstShows(m, vals)
 <2> SUFFICES ASSUME NEW i \in 0..Defined - 1, NEW a \in InBlock(TRUE)
              PROVE  ShowsSlots(m.const, i, a, vals[i + 1][a])
   BY <1>4 DEF ConstShows
 <2>1. vals[i + 1] = Fresh BY <1>1
 <2>2. \A s \in 0..Width[a] - 1 : m.const[Address(i, a, s)] = Cell
  <3> SUFFICES ASSUME NEW s \in 0..Width[a] - 1 PROVE m.const[Address(i, a, s)] = Cell
    OBVIOUS
  <3>1. a \in DOMAIN Attrs /\ size_per_node[Attrs[a].is_const] = y BY KindsOfAttrs DEF y
  <3>2. Address(i, a, s) \in 1..Defined * y BY <1>1, <3>1, AddressBound
  <3> QED BY <1>5, <3>2
 <2>3. a \notin Lists BY KindsOfAttrs, Zenon
 <2> DEFINE c == TRUE
 <2>4. c \in BOOLEAN /\ a \in InBlock(c) OBVIOUS
 <2> HIDE DEF c, vals
 <2>5. ShowsSlots(m.const, i, a, Fresh[a]) BY <2>2, <2>3, <2>4, FreshShows
 <2> QED BY <2>1, <2>5
<1>12. Defined * z <= Len(block)
 <2> DEFINE p == Defined * z
 <2>1. p \in Nat /\ Len(block) = p BY <1>2, <1>3
 <2> HIDE DEF p
 <2>2. p <= Len(block) BY <2>1
 <2> QED BY <2>2 DEF p
<1> HIDE DEF vals
<1>13. OldShown(block, m.lists, 0, 1, vals) BY NoneBefore
<1> DEFINE from == 0
           next == 1
<1>14. from \in Nat /\ next \in Nat \ {0} /\ from <= Defined BY <1>1
<1>15. /\ AddedTo(m, block, from, Defined, next) /\ OldShown(block, m.lists, from, next, vals)
       /\ NewFresh(from, Defined, vals) /\ FreshFrom(block, from)
  BY <1>3, <1>8, <1>10, <1>13
<1> HIDE DEF from, next
<1>16. MemoryOK(m, vals) BY <1>1, <1>3, <1>9, <1>11, <1>12, <1>14, <1>15, AddedMemory DEF z
<1> QED BY <1>16 DEF m, vals

(* A reset: the blocks of values are zeroed, constants stay.               *)

\* Values of one node.
NodeValues == [DOMAIN Attrs -> Seq(Held)]

\* The values of all nodes are those of each.
LEMMA ValuesOfNode ==
  ASSUME NEW n, NEW vals, ValuesOK(n, vals), n.max \in Nat
  PROVE  /\ vals \in Seq(NodeValues) /\ Len(vals) = n.max
         /\ \A i \in 0..n.max - 1 : vals[i + 1] \in NodeValues
<1> DEFINE F == NodeValues
<1>1. vals \in Seq(F) /\ Len(vals) = n.max BY DEF ValuesOK, ValueType, NodeValues
<1> HIDE DEF F
<1>2. \A i \in 0..n.max - 1 : vals[i + 1] \in F BY <1>1
<1> QED BY <1>1, <1>2 DEF F

ResetValues(vals) ==
  [k \in 1..Defined |-> [a \in DOMAIN Attrs |-> IF Attrs[a].is_const THEN vals[k][a] ELSE Fresh[a]]]

(* After a reset the defined nodes hold fresh values and their constants.  *)
LEMMA ResetHolds ==
  ASSUME NEW n, NEW vals, MemoryOK(n, vals)
  PROVE  MemoryOK(reset_node(n), ResetValues(vals))
<1> DEFINE after == ResetValues(vals)
           z == size_per_node[FALSE]
           y == size_per_node[TRUE]
           N == Cardinality(Lists)
           d == Len(n.dynamic)
           block == [k \in 1..d |-> Cell]
           m == reset_node(n)
<1>1. /\ Defined \in Nat /\ z \in Nat /\ y \in Nat /\ N \in Nat
      /\ n \in NodeType /\ n.max \in Nat /\ BlocksOK(n) /\ FrameOK(n) /\ ValuesOK(n, vals) /\ Defined <= n.max
  BY NodeAssumption, SizesAreNatural, RanksDiffer, BlocksFit DEF MemoryOK, FrameOK
<1>2. /\ n.dynamic \in Seq(Cells) /\ n.lists \in Seq(Seq(Held)) /\ n.const \in Seq(Cells)
      /\ d \in Nat /\ Len(n.lists) \in Nat /\ Len(n.const) \in Nat
  BY <1>1, NodeFields
<1> HIDE DEF z, y, N
<1>a. n.max * z <= d /\ n.max * y <= Len(n.const) /\ Defined * N <= Len(n.lists)
  BY <1>1 DEF FrameOK, BlocksOK, z, y, N
<1> HIDE DEF d
<1>3. block \in Seq(Cells) /\ Len(block) = d /\ FreshFrom(block, 0) BY <1>2, FreshBlock
<1>b. DOMAIN n.dynamic = 1..d /\ DOMAIN n.lists = 1..Len(n.lists)
 <2> DEFINE L == Seq(Held)
            ls == n.lists
 <2>1. ls \in Seq(L) BY <1>2
 <2> HIDE DEF L, ls
 <2>2. DOMAIN ls = 1..Len(ls) BY <2>1
 <2>3. DOMAIN n.dynamic = 1..d BY <1>2 DEF d
 <2> QED BY <2>2, <2>3 DEF ls
<1>4. /\ m.max = Defined /\ m.const = n.const /\ m.dynamic = ListCells(block, 0, Defined, 1)
      /\ m.lists = [k \in 1..Len(n.lists) |-> << >>] /\ m.bits = ceil_to_times(Defined)
      /\ m.masks = 0..ceil_to_times(Defined) - 1
      /\ m = [max |-> m.max, const |-> m.const, dynamic |-> m.dynamic, lists |-> m.lists,
              bits |-> m.bits, masks |-> m.masks]
 <2> DEFINE empty == [k \in 1..Len(n.lists) |-> << >>]
 <2>1. [k \in DOMAIN n.dynamic |-> Cell] = block /\ [k \in DOMAIN n.lists |-> << >>] = empty
   BY <1>b
 <2> HIDE DEF block, empty
 <2>2. m = [n EXCEPT !.max = Defined, !.dynamic = ListCells(block, 0, Defined, 1), !.lists = empty,
                     !.bits = ceil_to_times(Defined), !.masks = 0..ceil_to_times(Defined) - 1]
   BY <2>1, Zenon DEF reset_node
 <2> HIDE DEF m
 <2>3. /\ m.max = Defined /\ m.const = n.const /\ m.dynamic = ListCells(block, 0, Defined, 1)
       /\ m.lists = empty /\ m.bits = ceil_to_times(Defined) /\ m.masks = 0..ceil_to_times(Defined) - 1
       /\ m = [max |-> m.max, const |-> m.const, dynamic |-> m.dynamic, lists |-> m.lists,
               bits |-> m.bits, masks |-> m.masks]
   BY <1>1, <2>2 DEF NodeType
 <2> QED BY <2>3 DEF empty
<1> HIDE DEF block, m
<1>5. m.lists \in Seq(Seq(Held)) /\ Len(m.lists) = Len(n.lists) /\ \A k \in 1..Len(m.lists) : m.lists[k] = << >>
  BY <1>2, <1>4, EmptyStore
<1>6. m.bits \in Nat /\ Defined <= m.bits /\ m.masks \in SUBSET Int
  BY <1>1, <1>4, MasksCover, WholeMasks
\* The defined nodes' parts of the blocks are there.
<1>7. Defined * z <= d /\ Defined * y <= Len(n.const)
 <2>1. ASSUME NEW w \in Nat, NEW l \in Nat, n.max * w <= l PROVE Defined * w <= l
  <3>1. CASE Defined = n.max BY <2>1, <3>1
  <3>2. CASE Defined < n.max
   <4> DEFINE p == Defined * w
              q == n.max * w
   <4>1. p \in Nat /\ q \in Nat /\ p + w <= q BY <1>1, <3>2, ProductGrows
   <4>2. q <= l BY <2>1
   <4> HIDE DEF p, q
   <4>3. p <= l BY <4>1, <4>2
   <4> QED BY <4>3 DEF p
  <3> QED BY <1>1, <3>1, <3>2
 <2> QED BY <1>1, <1>2, <1>a, <2>1
<1>8. AddedTo(m, block, 0, Defined, 1)
 <2> DEFINE p == Defined * N
            r == N * (Defined - 0)
 <2>1. p \in Nat /\ r = p /\ Len(m.lists) = Len(n.lists) /\ p <= Len(n.lists)
  <3>1. p \in Nat BY <1>1, ProductIsNatural
  <3>2. r = p BY <1>1
  <3> QED BY <1>5, <1>a, <3>1, <3>2
 <2>2. Defined <= Defined BY <1>1
 <2>3. \A x \in 1..Len(m.lists) : m.lists[x] = << >> BY <1>5
 <2> HIDE DEF p, r
 <2>4. p <= Len(m.lists) /\ 1 - 1 + r <= Len(m.lists) BY <1>2, <2>1
 <2> QED BY <1>2, <1>4, <1>5, <1>6, <1>7, <2>2, <2>3, <2>4 DEF AddedTo, z, y, N, p, r
<1>9. ASSUME NEW k \in 1..Defined
      PROVE  /\ after[k] \in NodeValues
             /\ \A a \in InBlock(TRUE) : after[k][a] = vals[k][a]
             /\ \A a \in InBlock(FALSE) : after[k][a] = Fresh[a]
 <2>1. vals[k] \in NodeValues
  <3>1. k - 1 \in 0..n.max - 1 /\ k - 1 + 1 = k BY <1>1
  <3>2. vals[k - 1 + 1] \in NodeValues BY <1>1, <3>1, ValuesOfNode
  <3> QED BY <3>1, <3>2
 <2>2. after[k] = [a \in DOMAIN Attrs |-> IF Attrs[a].is_const THEN vals[k][a] ELSE Fresh[a]]
   BY DEF ResetValues
 <2>3. after[k] \in NodeValues BY <2>1, <2>2, FreshTypes DEF NodeValues
 <2> QED BY <2>2, <2>3, KindsOfAttrs
<1>10. ValuesOK(m, after)
 <2> DEFINE F == NodeValues
 <2>1. \A k \in 1..Defined : after[k] \in F BY <1>9
 <2>2. after = [k \in 1..Defined |-> after[k]] BY DEF ResetValues
 <2> HIDE DEF F, after
 <2>3. after \in Seq(F) /\ Len(after) = Defined BY <1>1, <2>1, <2>2
 <2> QED BY <1>4, <2>3 DEF ValuesOK, ValueType, F, NodeValues
<1> HIDE DEF after
<1>11. \A i \in 0..Defined - 1 : i + 1 \in 1..Defined /\ i \in 0..n.max - 1 BY <1>1
<1>12. NewFresh(0, Defined, after) BY <1>9, <1>11 DEF NewFresh
<1>13. ConstShows(m, after)
 <2> SUFFICES ASSUME NEW i \in 0..Defined - 1, NEW a \in InBlock(TRUE)
              PROVE  ShowsSlots(n.const, i, a, after[i + 1][a])
   BY <1>4 DEF ConstShows
 <2>1. after[i + 1][a] = vals[i + 1][a] BY <1>9, <1>11
 <2>2. ShowsSlots(n.const, i, a, vals[i + 1][a]) BY <1>11 DEF MemoryOK, ConstShows
 <2> QED BY <2>1, <2>2
<1>14. OldShown(block, m.lists, 0, 1, after) BY NoneBefore
<1> DEFINE from == 0
           next == 1
<1>15. from \in Nat /\ next \in Nat \ {0} /\ from <= Defined BY <1>1
<1>16. /\ AddedTo(m, block, from, Defined, next) /\ OldShown(block, m.lists, from, next, after)
       /\ NewFresh(from, Defined, after) /\ FreshFrom(block, from)
  BY <1>3, <1>8, <1>12, <1>14
<1> HIDE DEF from, next
<1>17. Defined * z <= Len(block) BY <1>3, <1>7
<1>18. MemoryOK(m, after)
  BY <1>1, <1>3, <1>10, <1>13, <1>15, <1>16, <1>17, AddedMemory DEF z
<1> QED BY <1>18 DEF m, after

(* Nodes are appended.                                                     *)

\* The values of a node that is appended to memory m as the i-th.
AppendedNode(m, i) ==
  [a \in DOMAIN Attrs |-> IF Attrs[a].is_const
     THEN [s \in 1..Attrs[a].slots |-> get_attr(m, i, a, s - 1)] ELSE Fresh[a]]

AppendedValues(n, vals, m, number) == vals \o [k \in 1..number |-> AppendedNode(m, n.max + k - 1)]

\* What an appended node holds is what the memory shows of it.
LEMMA AppendedShows ==
  ASSUME NEW m, NEW i \in Nat, m.const \in Seq(Cells),
         \A a \in InBlock(TRUE) : \A s \in 0..Width[a] - 1 : Address(i, a, s) \in 1..Len(m.const)
  PROVE  /\ AppendedNode(m, i) \in NodeValues
         /\ \A a \in InBlock(TRUE) : ShowsSlots(m.const, i, a, AppendedNode(m, i)[a])
         /\ \A a \in InBlock(FALSE) : AppendedNode(m, i)[a] = Fresh[a]
<1> DEFINE V(a) == [s \in 1..Attrs[a].slots |-> get_attr(m, i, a, s - 1)]
<1>1. ASSUME NEW a \in InBlock(TRUE)
      PROVE  V(a) \in Seq(Held) /\ ShowsSlots(m.const, i, a, V(a))
 <2>1. a \in DOMAIN Attrs /\ a \notin Lists /\ Attrs[a].is_const /\ ~ Attrs[a].is_list
   BY KindsOfAttrs, Zenon
 <2>2. Attrs[a].slots \in Nat /\ \A s \in 1..Attrs[a].slots : s - 1 \in 0..Width[a] - 1
  <3> DEFINE c == TRUE
  <3>1. c \in BOOLEAN /\ a \in InBlock(c) OBVIOUS
  <3> HIDE DEF c
  <3> QED BY <2>1, <3>1, SlotWidth
 <2> DEFINE z == Attrs[a].slots
 <2>3. ASSUME NEW s \in 1..z
       PROVE  get_attr(m, i, a, s - 1) = m.const[Address(i, a, s - 1)].v /\ get_attr(m, i, a, s - 1) \in Held
  <3>1. get_attr(m, i, a, s - 1) = m.const[Address(i, a, s - 1)].v
    BY <2>1 DEF get_attr, Address
  <3> DEFINE k == Address(i, a, s - 1)
  <3>2. k \in 1..Len(m.const) BY <2>2
  <3> HIDE DEF k
  <3>3. m.const[k] \in Cells BY <3>2
  <3> QED BY <3>1, <3>3 DEF Cells, k
 <2>4. V(a) \in Seq(Held) /\ Len(V(a)) = z /\ \A s \in 1..z : V(a)[s] = get_attr(m, i, a, s - 1)
  <3> DEFINE g(s) == get_attr(m, i, a, s - 1)
  <3>1. z \in Nat /\ \A s \in 1..z : g(s) \in Held BY <2>2, <2>3
  <3> HIDE DEF g, z
  <3>2. [s \in 1..z |-> g(s)] \in Seq(Held) /\ Len([s \in 1..z |-> g(s)]) = z
        /\ \A s \in 1..z : [u \in 1..z |-> g(u)][s] = g(s)
    BY <3>1
  <3> QED BY <3>2 DEF g, z
 <2> QED BY <2>3, <2>4 DEF ShowsSlots
<1>2. ASSUME NEW a \in InBlock(TRUE) PROVE AppendedNode(m, i)[a] = V(a)
  BY KindsOfAttrs DEF AppendedNode
<1> HIDE DEF V
<1>3. \A a \in InBlock(FALSE) : AppendedNode(m, i)[a] = Fresh[a]
  BY KindsOfAttrs DEF AppendedNode
<1>4. \A a \in DOMAIN Attrs : AppendedNode(m, i)[a] \in Seq(Held)
 <2>1. \A a \in InBlock(TRUE) : AppendedNode(m, i)[a] \in Seq(Held) BY <1>1, <1>2
 <2>2. \A a \in DOMAIN Attrs : Fresh[a] \in Seq(Held) BY FreshTypes
 <2> QED BY <1>3, <2>1, <2>2, KindsOfAttrs, Zenon
<1>5. AppendedNode(m, i) = [a \in DOMAIN Attrs |-> AppendedNode(m, i)[a]]
  BY DEF AppendedNode
<1>6. AppendedNode(m, i) \in NodeValues BY <1>4, <1>5 DEF NodeValues
<1> QED BY <1>1, <1>2, <1>3, <1>6

\* Elements of a concatenation by their place from 0.
Joined(after, S, q, r, f) ==
  /\ after \in Seq(S) /\ Len(after) = Len(q) + r
  /\ \A i \in 0..Len(q) - 1 : after[i + 1] = q[i + 1]
  /\ \A i \in Len(q)..Len(q) + r - 1 : after[i + 1] = f[i + 1 - Len(q)]

\* Elements of the two parts of a concatenation.
LEMMA JoinedAt ==
  ASSUME NEW S, NEW q \in Seq(S), NEW r \in Nat, NEW f, \A k \in 1..r : f[k] \in S
  PROVE  Joined(q \o [k \in 1..r |-> f[k]], S, q, r, f)
<1> DEFINE t == [k \in 1..r |-> f[k]]
<1>1. t \in Seq(S) /\ Len(t) = r /\ \A k \in 1..r : t[k] = f[k] OBVIOUS
<1> HIDE DEF t
<1>2. /\ q \o t \in Seq(S) /\ Len(q \o t) = Len(q) + r
      /\ \A i \in 0..Len(q) - 1 : (q \o t)[i + 1] = q[i + 1]
      /\ \A i \in Len(q)..Len(q) + r - 1 : (q \o t)[i + 1] = t[i + 1 - Len(q)]
  BY <1>1
<1>3. \A i \in Len(q)..Len(q) + r - 1 : i + 1 - Len(q) \in 1..r OBVIOUS
<1> QED BY <1>1, <1>2, <1>3 DEF t, Joined

(* Appended nodes hold fresh values, and what the memory has of their      *)
(* constants; the values of the others stay.                               *)
AppendsTo(n, vals, m, number) ==
  /\ MemoryOK(m, AppendedValues(n, vals, m, number))
  /\ m.max = n.max + number
  /\ m.masks = (n.masks \cap (0..ceil_to_times(m.max) - 1)) \cup (n.max..m.max - 1)

\* Memory after append_nodes holds the values of before and the new ones.
LEMMA AppendHolds ==
  ASSUME NEW n, NEW vals, MemoryOK(n, vals), NEW number \in Nat
  PROVE  AppendsTo(n, vals, append_nodes(n, number), number)
<1> DEFINE m == append_nodes(n, number)
           after == AppendedValues(n, vals, m, number)
           from == n.max
           to == n.max + number
           z == size_per_node[FALSE]
           y == size_per_node[TRUE]
           N == Cardinality(Lists)
           ls == n.lists
           L == Seq(Held)
           block == Resized(n.dynamic, Max({Len(n.dynamic), to * z}), Cell)
           next == Len(ls) + 1
<1>1. /\ Defined \in Nat /\ z \in Nat /\ y \in Nat /\ N \in Nat
      /\ n \in NodeType /\ n.max \in Nat /\ BlocksOK(n) /\ FrameOK(n) /\ ValuesOK(n, vals) /\ Defined <= n.max
      /\ Fits(n.max, FALSE, n.dynamic) /\ Fits(n.max, TRUE, n.const)
  BY NodeAssumption, SizesAreNatural, RanksDiffer, BlocksFit DEF MemoryOK, FrameOK
<1>2. /\ n.dynamic \in Seq(Cells) /\ ls \in Seq(L) /\ n.const \in Seq(Cells) /\ n.masks \in SUBSET Int
      /\ Len(ls) \in Nat /\ << >> \in L
 <2>1. << >> \in L OBVIOUS
 <2> HIDE DEF L
 <2>2. ls \in Seq(L) /\ Len(ls) \in Nat BY <1>1, NodeFields DEF L
 <2> QED BY <1>1, <2>1, <2>2, NodeFields
<1> HIDE DEF z, y, N, ls, L
<1>3. /\ from \in Nat /\ to \in Nat /\ from <= to /\ to - from = number /\ next \in Nat \ {0}
      /\ N * number \in Nat /\ number * N = N * number
  BY <1>1, <1>2
<1>4. /\ m.max = to
      /\ m.const = Resized(n.const, Max({Len(n.const), to * y}), Cell)
      /\ m.dynamic = ListCells(block, from, to, next)
      /\ m.lists = Resized(ls, Len(ls) + number * N, << >>)
      /\ m.bits = ceil_to_times(to)
      /\ m.masks = (n.masks \cap (0..ceil_to_times(to) - 1)) \cup (from..to - 1)
      /\ m = [max |-> m.max, const |-> m.const, dynamic |-> m.dynamic, lists |-> m.lists,
              bits |-> m.bits, masks |-> m.masks]
  BY DEF append_nodes, NewListsFrom, z, y, N, ls
<1>5. Grown(block, n.dynamic, z, to) /\ Grown(m.const, n.const, y, to)
  BY <1>1, <1>2, <1>3, <1>4, GrownBlock
<1> HIDE DEF m, block
<1>6. /\ m.lists \in Seq(L) /\ Len(m.lists) = Len(ls) + N * number
      /\ \A k \in 1..Len(m.lists) : m.lists[k] = IF k <= Len(ls) THEN ls[k] ELSE << >>
 <2> DEFINE w == N * number
 <2>1. w \in Nat /\ Len(ls) + w \in Nat /\ m.lists = Resized(ls, Len(ls) + w, << >>)
   BY <1>2, <1>3, <1>4
 <2> DEFINE g == << >>
            l == Len(ls) + w
 <2>2. g \in L /\ l \in Nat /\ m.lists = Resized(ls, l, g) BY <1>2, <2>1
 <2> HIDE DEF w, g, l
 <2>3. /\ m.lists \in Seq(L) /\ Len(m.lists) = l
       /\ \A k \in 1..l : m.lists[k] = IF k <= Len(ls) THEN ls[k] ELSE g
  <3>1. ls \in Seq(L) BY <1>2
  <3>2. IsResized(m.lists, L, ls, l, g) BY <2>2, <3>1, ResizedIs
  <3> QED BY <3>2 DEF IsResized
 <2> QED BY <2>3 DEF w, g, l
<1>7. m.bits \in Nat /\ to <= m.bits /\ m.masks \in SUBSET Int
 <2>1. from..to - 1 \subseteq Int BY <1>3
 <2> QED BY <1>2, <1>3, <1>4, <2>1, MasksCover
<1>8. AddedTo(m, block, from, to, next)
 <2> DEFINE p == Defined * N
            r == N * number
            l == Len(ls)
            e == Len(m.lists)
 <2>1. p \in Nat /\ r \in Nat /\ p <= l /\ l \in Nat /\ e = l + r
  <3>1. p <= Len(n.lists) /\ p \in Nat BY <1>1, ProductIsNatural DEF FrameOK, N
  <3> QED BY <1>2, <1>3, <1>6, <3>1 DEF ls
 <2>2. N * (to - from) = r BY <1>3
 <2>3. \A k \in next..e : m.lists[k] = << >>
  <3>1. \A k \in next..e : k \in 1..e /\ ~ k <= l BY <1>2
  <3> QED BY <1>6, <3>1
 <2>4. Defined <= to BY <1>1
 <2>5. p <= e /\ next - 1 + r <= e
  <3>1. next - 1 = l BY <2>1
  <3> HIDE DEF p, r, l, e, next
  <3> QED BY <2>1, <3>1
 <2>6. m.const \in Seq(Cells) /\ to * y <= Len(m.const) BY <1>5 DEF Grown
 <2>7. p <= e /\ next - 1 + N * (to - from) <= e BY <2>2, <2>5, Zenon
 <2> HIDE DEF from, to, next
 <2> QED BY <1>4, <1>6, <1>7, <2>3, <2>4, <2>6, <2>7 DEF AddedTo, y, N, L, p, e
<1>9. block \in Seq(Cells) /\ to * z <= Len(block) /\ FreshFrom(block, from)
      /\ \A k \in 1..Len(n.dynamic) : block[k] = n.dynamic[k]
 <2>1. /\ block \in Seq(Cells) /\ to * z <= Len(block) /\ Len(n.dynamic) <= Len(block)
       /\ \A k \in 1..Len(block) : block[k] = IF k <= Len(n.dynamic) THEN n.dynamic[k] ELSE Cell
   BY <1>5 DEF Grown
 <2> DEFINE d == Len(n.dynamic)
            e == Len(block)
 <2>2. d \in Nat /\ e \in Nat /\ d <= e BY <1>2, <2>1
 <2> HIDE DEF d, e
 <2>3. \A k \in 1..d : k \in 1..e /\ k <= d BY <2>2
 <2>4. \A k \in 1..e : k <= d \/ ~ k <= d OBVIOUS
 <2>5. \A k \in 1..e : k <= d => k \in 1..d BY <2>2
 <2>6. \A k \in 1..d : from * z < k => n.dynamic[k] = Cell BY <1>1 DEF FrameOK, z, d
 <2>7. \A k \in 1..d : block[k] = n.dynamic[k] BY <2>1, <2>3 DEF d, e
 <2>8. \A k \in 1..e : from * z < k => block[k] = Cell BY <2>1, <2>5, <2>6 DEF d, e
 <2> QED BY <2>1, <2>7, <2>8 DEF FreshFrom, z, d, e
\* The values.
<1>10. \A i \in 0..to - 1 : \A a \in InBlock(TRUE) : \A s \in 0..Width[a] - 1 :
         Address(i, a, s) \in 1..Len(m.const)
 <2> SUFFICES ASSUME NEW i \in 0..to - 1, NEW a \in InBlock(TRUE), NEW s \in 0..Width[a] - 1
              PROVE  Address(i, a, s) \in 1..Len(m.const)
   OBVIOUS
 <2>1. a \in DOMAIN Attrs /\ size_per_node[Attrs[a].is_const] = y BY KindsOfAttrs DEF y
 <2>2. Address(i, a, s) \in 1..to * y BY <1>3, <2>1, AddressBound
 <2> DEFINE p == to * y
            k == Address(i, a, s)
            l == Len(m.const)
 <2>3. p <= l /\ l \in Nat /\ p \in Nat /\ k \in 1..p
  <3>1. p \in Nat BY <1>1, <1>3, ProductIsNatural
  <3>2. m.const \in Seq(Cells) /\ p <= l BY <1>5 DEF Grown
  <3>3. l \in Nat BY <3>2
  <3> QED BY <2>2, <3>1, <3>2, <3>3
 <2> HIDE DEF p, k, l
 <2>4. k \in 1..l BY <2>3
 <2> QED BY <2>4 DEF k, l
<1>11. ASSUME NEW i \in from..to - 1
       PROVE  /\ AppendedNode(m, i) \in NodeValues
              /\ \A a \in InBlock(TRUE) : ShowsSlots(m.const, i, a, AppendedNode(m, i)[a])
              /\ \A a \in InBlock(FALSE) : AppendedNode(m, i)[a] = Fresh[a]
 <2>1. i \in Nat /\ i \in 0..to - 1 /\ m.const \in Seq(Cells) BY <1>3, <1>5 DEF Grown
 <2> QED BY <1>10, <2>1, AppendedShows
<1>12. /\ after \in Seq(NodeValues) /\ Len(after) = to
       /\ \A i \in 0..from - 1 : after[i + 1] = vals[i + 1]
       /\ \A i \in from..to - 1 : after[i + 1] = AppendedNode(m, i)
 <2> DEFINE F == NodeValues
            f == [k \in 1..number |-> AppendedNode(m, n.max + k - 1)]
 <2>1. vals \in Seq(F) /\ Len(vals) = from BY <1>1, ValuesOfNode
 <2>2. \A k \in 1..number : f[k] = AppendedNode(m, n.max + k - 1) /\ n.max + k - 1 \in from..to - 1
   BY <1>1
 <2>3. \A k \in 1..number : f[k] \in F BY <1>11, <2>2
 <2>4. after = vals \o [k \in 1..number |-> f[k]] BY DEF AppendedValues
 <2>5. \A i \in from..to - 1 : i + 1 - from \in 1..number /\ n.max + (i + 1 - from) - 1 = i
   BY <1>1
 <2>6. \A i \in from..to - 1 : f[i + 1 - from] = AppendedNode(m, i) BY <2>2, <2>5
 <2> HIDE DEF F, f, after
 <2>7. Joined(after, F, vals, number, f) BY <2>1, <2>3, <2>4, JoinedAt
 <2>8. /\ after \in Seq(F) /\ Len(after) = from + number
       /\ \A i \in 0..from - 1 : after[i + 1] = vals[i + 1]
       /\ \A i \in from..from + number - 1 : after[i + 1] = f[i + 1 - from]
   BY <2>1, <2>7 DEF Joined
 <2>9. from + number = to OBVIOUS
 <2> HIDE DEF from, to
 <2>10. \A i \in from..to - 1 : after[i + 1] = AppendedNode(m, i) BY <1>3, <2>6, <2>8, <2>9
 <2> QED BY <2>8, <2>9, <2>10 DEF F
<1>13. ValuesOK(m, after) BY <1>4, <1>12 DEF ValuesOK, ValueType, NodeValues
<1> HIDE DEF after
<1>14. NewFresh(from, to, after) BY <1>11, <1>12 DEF NewFresh
<1>15. OldShown(block, m.lists, from, next, after)
 <2>1. ASSUME NEW i \in 0..from - 1, NEW a \in InBlock(FALSE), NEW s \in 0..Width[a] - 1
       PROVE  block[Address(i, a, s)] = n.dynamic[Address(i, a, s)]
  <3>1. Address(i, a, s) \in 1..Len(n.dynamic) BY <1>1 DEF Fits
  <3> QED BY <1>9, <3>1
 <2>2. ASSUME NEW i \in 0..from - 1, NEW a \in Lists
       PROVE  block[Address(i, a, 0)] = n.dynamic[Address(i, a, 0)]
   BY <2>1, ListWidth
 <2>3. ASSUME NEW i \in 0..from - 1, NEW a \in Lists
       PROVE  LET c == block[Address(i, a, 0)]
              IN  /\ c.v \in 1..next - 1 /\ m.lists[c.v] = after[i + 1][a]
                  /\ c.slots = Len(after[i + 1][a])
  <3> DEFINE x == block[Address(i, a, 0)].v
  <3>1. a \in InBlock(FALSE) BY ListWidth
  <3>2. ShowsList(n, i, a, vals[i + 1][a]) BY <3>1 DEF MemoryOK, Shows
  <3>3. x \in 1..Len(ls) /\ ls[x] = vals[i + 1][a]
        /\ block[Address(i, a, 0)].slots = Len(vals[i + 1][a])
    BY <2>2, <3>2 DEF ShowsList, ls
  <3>4. after[i + 1][a] = vals[i + 1][a] BY <1>12
  <3> HIDE DEF x
  <3>5. m.lists[x] = ls[x] /\ x \in 1..next - 1
   <4> DEFINE w == N * number
   <4>1. w \in Nat /\ Len(m.lists) = Len(ls) + w BY <1>3, <1>6
   <4> HIDE DEF w
   <4>2. x \in 1..Len(m.lists) /\ x <= Len(ls) BY <1>2, <3>3, <4>1
   <4>3. m.lists[x] = ls[x] BY <1>6, <4>2
   <4> QED BY <1>2, <3>3, <4>3
  <3> QED BY <3>3, <3>4, <3>5 DEF x
 <2>4. ASSUME NEW i \in 0..from - 1, NEW a \in InBlock(FALSE), a \notin Lists
       PROVE  ShowsSlots(block, i, a, after[i + 1][a])
  <3>1. ShowsSlots(n.dynamic, i, a, vals[i + 1][a]) BY <2>4 DEF MemoryOK, Shows
  <3>2. after[i + 1][a] = vals[i + 1][a] BY <1>12
  <3>3. \A s \in 1..Attrs[a].slots : s - 1 \in 0..Width[a] - 1
   <4>0. FALSE \in BOOLEAN OBVIOUS
   <4> QED BY <2>4, <4>0, SlotWidth
  <3>4. \A s \in 1..Attrs[a].slots : block[Address(i, a, s - 1)] = n.dynamic[Address(i, a, s - 1)]
    BY <2>1, <3>3
  <3> QED BY <3>1, <3>2, <3>4 DEF ShowsSlots
 <2>5. ASSUME NEW i \in 0..from - 1, NEW j \in 0..from - 1, NEW a \in Lists, NEW b \in Lists,
              block[Address(i, a, 0)].v = block[Address(j, b, 0)].v
       PROVE  i = j /\ a = b
  <3>1. n.dynamic[Address(i, a, 0)].v = n.dynamic[Address(j, b, 0)].v BY <2>2, <2>5
  <3> QED BY <3>1 DEF MemoryOK, Separate
 <2> QED BY <2>3, <2>4, <2>5 DEF OldShown
<1>16. ConstShows(m, after)
 <2> SUFFICES ASSUME NEW i \in 0..to - 1, NEW a \in InBlock(TRUE)
              PROVE  ShowsSlots(m.const, i, a, after[i + 1][a])
   BY <1>4 DEF ConstShows
 <2>1. CASE i \in from..to - 1 BY <1>11, <1>12, <2>1
 <2>2. CASE i \in 0..from - 1
  <3>1. ShowsSlots(n.const, i, a, vals[i + 1][a]) BY <2>2 DEF MemoryOK, ConstShows
  <3>2. after[i + 1][a] = vals[i + 1][a] BY <1>12, <2>2
  <3>3. \A s \in 1..Attrs[a].slots : s - 1 \in 0..Width[a] - 1
   <4>0. TRUE \in BOOLEAN /\ a \notin Lists BY KindsOfAttrs, Zenon
   <4> QED BY <4>0, SlotWidth
  <3>4. \A k \in 1..Len(n.const) : m.const[k] = n.const[k]
   <4>1. /\ Len(n.const) <= Len(m.const) /\ m.const \in Seq(Cells)
         /\ \A k \in 1..Len(m.const) : m.const[k] = IF k <= Len(n.const) THEN n.const[k] ELSE Cell
     BY <1>5 DEF Grown
   <4> DEFINE d == Len(n.const)
              e == Len(m.const)
   <4>2. d \in Nat /\ e \in Nat /\ d <= e BY <1>2, <4>1
   <4> HIDE DEF d, e
   <4>3. \A k \in 1..d : k \in 1..e /\ k <= d BY <4>2
   <4> QED BY <4>1, <4>3 DEF d, e
  <3>5. \A s \in 1..Attrs[a].slots : m.const[Address(i, a, s - 1)] = n.const[Address(i, a, s - 1)]
    BY <1>1, <2>2, <3>3, <3>4 DEF Fits
  <3> QED BY <3>1, <3>2, <3>5 DEF ShowsSlots
 <2> QED BY <1>3, <2>1, <2>2
<1>17. MemoryOK(m, after)
 <2>1. to * size_per_node[FALSE] <= Len(block) BY <1>9 DEF z
 <2> HIDE DEF from, to, next
 <2> QED BY <1>3, <1>8, <1>9, <1>13, <1>14, <1>15, <1>16, <2>1, AddedMemory
<1> QED BY <1>4, <1>17 DEF AppendsTo, m, after

----------------------------------------------------------------------------
(***************************************************************************)
(* Node objects, masks and memory.  A node object keeps the count of a      *)
(* list, which may differ from the memory only for a list that a reset      *)
(* emptied; a node is alive by its mask iff its object is not deleted.      *)
(***************************************************************************)

ObjectType == [deleted : BOOLEAN, slot_number : [Lists -> Nat]]

AliveOK(n, os) == \A i \in 0..n.max - 1 : i \in n.masks <=> ~os[i + 1].deleted

CountsOK(n, os, vals) ==
  \A i \in 0..n.max - 1 : \A a \in Lists :
    os[i + 1].slot_number[a] # Len(vals[i + 1][a]) => vals[i + 1][a] = << >>

(* The nodes of the frame: memory, node objects and values agree.          *)
NodesAre(n, os, vals) ==
  /\ MemoryOK(n, vals)
  /\ os \in Seq(ObjectType) /\ Len(os) = n.max
  /\ AliveOK(n, os) /\ CountsOK(n, os, vals)

\* What an invariant of nodes gives.
LEMMA NodesHave ==
  ASSUME NEW n, NEW os, NEW vals, NodesAre(n, os, vals)
  PROVE  /\ n \in NodeType /\ n.max \in Nat /\ n.masks \in SUBSET Int /\ n.bits \in Nat /\ n.max <= n.bits
         /\ ValuesOK(n, vals) /\ MemoryOK(n, vals) /\ Defined \in Nat /\ Defined <= n.max
         /\ os \in Seq(ObjectType) /\ Len(os) = n.max /\ DOMAIN os = 1..n.max
         /\ \A i \in 0..n.max - 1 : /\ i + 1 \in 1..n.max /\ os[i + 1] \in ObjectType
                                    /\ \A a \in DOMAIN Attrs : vals[i + 1][a] \in Seq(Held)
                                                               /\ Len(vals[i + 1][a]) \in Nat
<1>1. n \in NodeType /\ n.max \in Nat /\ ValuesOK(n, vals) /\ MemoryOK(n, vals) /\ Defined <= n.max
      /\ n.max <= n.bits
  BY BlocksFit DEF NodesAre, MemoryOK, FrameOK, BlocksOK
<1>2. n.masks \in SUBSET Int /\ n.bits \in Nat BY <1>1, NodeFields
<1>3. os \in Seq(ObjectType) /\ Len(os) = n.max BY DEF NodesAre
<1>4. DOMAIN os = 1..n.max /\ \A i \in 0..n.max - 1 : i + 1 \in 1..n.max /\ os[i + 1] \in ObjectType
 <2> DEFINE T == ObjectType
 <2>1. os \in Seq(T) BY <1>3
 <2> HIDE DEF T
 <2>2. DOMAIN os = 1..n.max /\ \A i \in 0..n.max - 1 : i + 1 \in 1..n.max /\ os[i + 1] \in T
   BY <1>1, <1>3, <2>1
 <2> QED BY <2>2 DEF T
<1>5. \A i \in 0..n.max - 1 : \A a \in DOMAIN Attrs : vals[i + 1][a] \in Seq(Held) /\ Len(vals[i + 1][a]) \in Nat
  BY <1>1, ValueOfAttr
<1>6. Defined \in Nat BY NodeAssumption
<1> QED BY <1>1, <1>2, <1>3, <1>4, <1>5, <1>6

\* A node object is replaced.
LEMMA ObjectChanges ==
  ASSUME NEW os \in Seq(ObjectType), NEW m \in Nat, Len(os) = m, NEW i \in 0..m - 1, NEW o \in ObjectType
  PROVE  LET after == [os EXCEPT ![i + 1] = o]
         IN  /\ after \in Seq(ObjectType) /\ Len(after) = m /\ after[i + 1] = o
             /\ \A j \in 0..m - 1 : j # i => after[j + 1] = os[j + 1]
<1> DEFINE T == ObjectType
<1>1. os \in Seq(T) /\ o \in T /\ i + 1 \in 1..m OBVIOUS
<1> HIDE DEF T
<1>2. LET after == [os EXCEPT ![i + 1] = o]
      IN  /\ after \in Seq(T) /\ Len(after) = m /\ after[i + 1] = o
          /\ \A j \in 0..m - 1 : j # i => after[j + 1] = os[j + 1]
  BY <1>1
<1> QED BY <1>2 DEF T

(* An operation on a list.                                                 *)
LEMMA ListOperation ==
  ASSUME NEW n, NEW os, NEW vals, NodesAre(n, os, vals),
         NEW i \in 0..n.max - 1, NEW a \in Lists, NEW l \in Seq(Held), NEW m, m = WithList(n, i, a, l, Len(l))
  PROVE  NodesAre(m, [os EXCEPT ![i + 1].slot_number[a] = get_slot_number(m, i, a)],
                  [vals EXCEPT ![i + 1][a] = l])
<1> DEFINE after == [vals EXCEPT ![i + 1][a] = l]
           o == [os[i + 1] EXCEPT !.slot_number = [os[i + 1].slot_number EXCEPT ![a] = get_slot_number(m, i, a)]]
           ob == [os EXCEPT ![i + 1].slot_number[a] = get_slot_number(m, i, a)]
<1>1. /\ n.max \in Nat /\ ValuesOK(n, vals) /\ MemoryOK(n, vals)
      /\ os \in Seq(ObjectType) /\ Len(os) = n.max /\ os[i + 1] \in ObjectType
  BY NodesHave
<1>2. MemoryOK(m, after) /\ m.max = n.max /\ m.masks = n.masks
  BY <1>1, ListChanges DEF Changed
<1>3. after[i + 1][a] = l /\ OnlyAt(i, a, n.max, vals, after)
 <2>1. a \in DOMAIN Attrs BY ListWidth
 <2> QED BY <1>1, <2>1, OneValueChanges, SMTT(30)
<1> HIDE DEF after
<1>4. get_slot_number(m, i, a) = Len(l) /\ Len(l) \in Nat
 <2>1. Shows(m, after) /\ i \in 0..m.max - 1 /\ a \in InBlock(FALSE) /\ after[i + 1][a] \in Seq(Held)
   BY <1>2, <1>3, ListWidth DEF MemoryOK
 <2>2. get_slot_number(m, i, a) = Len(after[i + 1][a])
  <3>1. Reads(m, i, a, after[i + 1][a]) BY <2>1, ReadsValues
  <3> QED BY <3>1 DEF Reads
 <2>3. Len(l) \in Nat OBVIOUS
 <2> QED BY <1>3, <2>2, <2>3
<1>5. o \in ObjectType /\ o.deleted = os[i + 1].deleted /\ o.slot_number[a] = Len(l)
      /\ \A b \in Lists : b # a => o.slot_number[b] = os[i + 1].slot_number[b]
  BY <1>1, <1>4 DEF ObjectType
<1>6. ob = [os EXCEPT ![i + 1] = o] OBVIOUS
<1> HIDE DEF o, ob
<1>7. /\ ob \in Seq(ObjectType) /\ Len(ob) = n.max /\ ob[i + 1] = o
      /\ \A j \in 0..n.max - 1 : j # i => ob[j + 1] = os[j + 1]
  BY <1>1, <1>5, <1>6, ObjectChanges
<1>8. AliveOK(m, ob) BY <1>2, <1>5, <1>7 DEF AliveOK, NodesAre
<1>9. CountsOK(m, ob, after)
 <2> SUFFICES ASSUME NEW j \in 0..n.max - 1, NEW b \in Lists,
                     ob[j + 1].slot_number[b] # Len(after[j + 1][b])
              PROVE  after[j + 1][b] = << >>
   BY <1>2 DEF CountsOK
 <2>1. CASE j = i /\ b = a BY <1>3, <1>5, <1>7, <2>1
 <2>2. CASE b # a \/ j # i
  <3>1. after[j + 1][b] = vals[j + 1][b] BY <1>3, <2>2, ListWidth DEF OnlyAt
  <3>2. ob[j + 1].slot_number[b] = os[j + 1].slot_number[b] BY <1>5, <1>7, <2>2
  <3> QED BY <3>1, <3>2 DEF NodesAre, CountsOK
 <2> QED BY <2>1, <2>2
<1> QED BY <1>2, <1>7, <1>8, <1>9 DEF NodesAre, after, ob

(* An assignment to slots.                                                 *)
LEMMA Assignment ==
  ASSUME NEW n, NEW os, NEW vals, NodesAre(n, os, vals),
         NEW i \in 0..n.max - 1, NEW a \in DOMAIN Attrs,
         NEW slots \in SUBSET (0..Len(vals[i + 1][a]) - 1), NEW v \in Held
  PROVE  NodesAre(assigned(n, i, a, slots, v), os, [vals EXCEPT ![i + 1][a] = Set(vals[i + 1][a], slots, v)])
<1> DEFINE m == assigned(n, i, a, slots, v)
           l == vals[i + 1][a]
           r == Set(l, slots, v)
           after == [vals EXCEPT ![i + 1][a] = r]
<1>1. /\ n.max \in Nat /\ ValuesOK(n, vals) /\ MemoryOK(n, vals) /\ l \in Seq(Held)
      /\ os \in Seq(ObjectType) /\ Len(os) = n.max
  BY NodesHave
<1>2. MemoryOK(m, after) /\ m.max = n.max /\ m.masks = n.masks
 <2>1. Changed(n, m, vals, i, a, r) BY <1>1, SlotsChange
 <2> QED BY <2>1 DEF Changed
<1>3. r \in Seq(Held) /\ Len(r) = Len(l) BY <1>1, SetType
<1>4. after[i + 1][a] = r /\ OnlyAt(i, a, n.max, vals, after) BY <1>1, <1>3, OneValueChanges
<1> HIDE DEF after, m, r
<1>5. CountsOK(m, os, after)
 <2> SUFFICES ASSUME NEW j \in 0..n.max - 1, NEW b \in Lists,
                     os[j + 1].slot_number[b] # Len(after[j + 1][b])
              PROVE  after[j + 1][b] = << >>
   BY <1>2 DEF CountsOK
 <2>1. CASE j = i /\ b = a
  <3>1. l = << >> BY <1>3, <1>4, <2>1 DEF NodesAre, CountsOK
  <3>2. Len(r) = 0 BY <1>3, <3>1
  <3>3. r = << >> BY <1>3, <3>2
  <3> QED BY <1>4, <2>1, <3>3
 <2>2. CASE b # a \/ j # i
  <3>1. after[j + 1][b] = vals[j + 1][b] BY <1>4, <2>2, ListWidth DEF OnlyAt
  <3> QED BY <3>1 DEF NodesAre, CountsOK
 <2> QED BY <2>1, <2>2
<1>6. AliveOK(m, os) BY <1>2 DEF AliveOK, NodesAre
<1> QED BY <1>1, <1>2, <1>5, <1>6 DEF NodesAre, after, m, r

(* Deleting and resuming a node touches its mask and its object.           *)
LEMMA DeletedNode ==
  ASSUME NEW n, NEW os, NEW vals, NodesAre(n, os, vals), NEW i \in 0..n.max - 1
  PROVE  /\ NodesAre(remove_node(n, i), [os EXCEPT ![i + 1].deleted = TRUE], vals)
         /\ NodesAre(resume(n, i), [os EXCEPT ![i + 1].deleted = FALSE], vals)
<1>1. /\ n \in NodeType /\ n.max \in Nat /\ n.masks \in SUBSET Int /\ MemoryOK(n, vals)
      /\ os \in Seq(ObjectType) /\ Len(os) = n.max /\ os[i + 1] \in ObjectType /\ i \in Int
  BY NodesHave
<1>2. ASSUME NEW masks \in SUBSET Int, NEW deleted \in BOOLEAN,
             i \in masks <=> ~deleted, \A j \in 0..n.max - 1 : j # i => (j \in masks <=> j \in n.masks)
      PROVE  NodesAre([n EXCEPT !.masks = masks], [os EXCEPT ![i + 1].deleted = deleted], vals)
 <2> DEFINE m == [n EXCEPT !.masks = masks]
            o == [os[i + 1] EXCEPT !.deleted = deleted]
            ob == [os EXCEPT ![i + 1].deleted = deleted]
 <2>1. /\ m \in NodeType /\ m.max = n.max /\ m.const = n.const /\ m.dynamic = n.dynamic /\ m.lists = n.lists
       /\ m.bits = n.bits /\ m.masks = masks
   BY <1>1 DEF NodeType
 <2> HIDE DEF m
 <2>2. MemoryOK(m, vals)
  <3>1. BlocksOK(m) /\ FrameOK(m) BY <1>1, <2>1 DEF MemoryOK, FrameOK, BlocksOK
  <3>2. ValuesOK(m, vals) /\ Separate(m) /\ ConstShows(m, vals)
   <4>1. ValuesOK(m, vals) BY <1>1, <2>1 DEF MemoryOK, ValuesOK
   <4>2. Separate(m) BY <1>1, <2>1 DEF MemoryOK, Separate
   <4>3. ConstShows(m, vals) BY <1>1, <2>1 DEF MemoryOK, ConstShows
   <4> QED BY <4>1, <4>2, <4>3
  <3>3. Shows(m, vals) BY <1>1, <2>1 DEF MemoryOK, Shows, ShowsList
  <3> QED BY <3>1, <3>2, <3>3 DEF MemoryOK
 <2>3. o \in ObjectType /\ o.deleted = deleted /\ o.slot_number = os[i + 1].slot_number
   BY <1>1 DEF ObjectType
 <2>4. ob = [os EXCEPT ![i + 1] = o] OBVIOUS
 <2> HIDE DEF o, ob
 <2>5. /\ ob \in Seq(ObjectType) /\ Len(ob) = n.max /\ ob[i + 1] = o
       /\ \A j \in 0..n.max - 1 : j # i => ob[j + 1] = os[j + 1]
   BY <1>1, <2>3, <2>4, ObjectChanges
 <2>6. AliveOK(m, ob)
  <3> SUFFICES ASSUME NEW j \in 0..n.max - 1 PROVE j \in masks <=> ~ob[j + 1].deleted
    BY <2>1 DEF AliveOK
  <3>1. j \in n.masks <=> ~os[j + 1].deleted BY DEF NodesAre, AliveOK
  <3>2. CASE j = i BY <1>2, <2>3, <2>5, <3>2
  <3>3. CASE j # i BY <1>2, <2>5, <3>1, <3>3
  <3> QED BY <3>2, <3>3
 <2>7. CountsOK(m, ob, vals)
  <3> SUFFICES ASSUME NEW j \in 0..n.max - 1, NEW a \in Lists,
                      ob[j + 1].slot_number[a] # Len(vals[j + 1][a])
               PROVE  vals[j + 1][a] = << >>
    BY <2>1 DEF CountsOK
  <3>1. ob[j + 1].slot_number = os[j + 1].slot_number BY <2>3, <2>5
  <3> QED BY <3>1 DEF NodesAre, CountsOK
 <2> QED BY <2>1, <2>2, <2>5, <2>6, <2>7 DEF NodesAre, m, ob
<1>3. NodesAre(remove_node(n, i), [os EXCEPT ![i + 1].deleted = TRUE], vals)
 <2> DEFINE masks == n.masks \ {i}
            deleted == TRUE
 <2>1. /\ masks \in SUBSET Int /\ deleted \in BOOLEAN /\ (i \in masks <=> ~deleted)
       /\ \A j \in 0..n.max - 1 : j # i => (j \in masks <=> j \in n.masks)
   BY <1>1
 <2>2. remove_node(n, i) = [n EXCEPT !.masks = masks] BY DEF remove_node
 <2> HIDE DEF masks, deleted
 <2>3. NodesAre([n EXCEPT !.masks = masks], [os EXCEPT ![i + 1].deleted = deleted], vals)
   BY <1>2, <2>1
 <2> QED BY <2>2, <2>3 DEF deleted
<1>4. NodesAre(resume(n, i), [os EXCEPT ![i + 1].deleted = FALSE], vals)
 <2> DEFINE masks == n.masks \cup {i}
            deleted == FALSE
 <2>1. /\ masks \in SUBSET Int /\ deleted \in BOOLEAN /\ (i \in masks <=> ~deleted)
       /\ \A j \in 0..n.max - 1 : j # i => (j \in masks <=> j \in n.masks)
   BY <1>1
 <2>2. resume(n, i) = [n EXCEPT !.masks = masks]
  <3>1. i < n.max BY <1>1
  <3> QED BY <3>1 DEF resume
 <2> HIDE DEF masks, deleted
 <2>3. NodesAre([n EXCEPT !.masks = masks], [os EXCEPT ![i + 1].deleted = deleted], vals)
   BY <1>2, <2>1
 <2> QED BY <2>2, <2>3 DEF deleted
<1> QED BY <1>3, <1>4

\* The node object of a new node.
LEMMA NewObjectType ==
  /\ NewObject \in ObjectType /\ NewObject.deleted = FALSE
  /\ \A a \in Lists : NewObject.slot_number[a] = 0
BY DEF NewObject, ObjectType

(* The first nodes.                                                        *)
LEMMA SetupNodes == NodesAre(setup, [k \in 1..Defined |-> NewObject], [k \in 1..Defined |-> Fresh])
<1> DEFINE m == setup
           os == [k \in 1..Defined |-> NewObject]
           vals == [k \in 1..Defined |-> Fresh]
<1>1. MemoryOK(m, vals) /\ m.max = Defined /\ m.masks = 0..ceil_to_times(Defined) - 1 /\ Defined \in Nat
  BY SetupHolds, NodeAssumption DEF setup
<1>2. ceil_to_times(Defined) \in Nat /\ Defined <= ceil_to_times(Defined)
  BY <1>1, MasksCover
<1>3. os \in Seq(ObjectType) /\ Len(os) = Defined
 <2> DEFINE T == ObjectType
            x == NewObject
 <2>1. x \in T BY NewObjectType
 <2> HIDE DEF T, x
 <2>2. [k \in 1..Defined |-> x] \in Seq(T) /\ Len([k \in 1..Defined |-> x]) = Defined
   BY <1>1, <2>1
 <2> QED BY <2>2 DEF T, x
<1>4. \A i \in 0..Defined - 1 : i + 1 \in 1..Defined /\ os[i + 1] = NewObject /\ vals[i + 1] = Fresh
  BY <1>1
<1> HIDE DEF m, os, vals
<1>5. AliveOK(m, os)
 <2>1. \A i \in 0..Defined - 1 : i \in 0..ceil_to_times(Defined) - 1 BY <1>1, <1>2
 <2> QED BY <1>1, <1>4, <2>1, NewObjectType DEF AliveOK
<1>6. CountsOK(m, os, vals) BY <1>1, <1>4, FreshTypes DEF CountsOK
<1> QED BY <1>1, <1>3, <1>5, <1>6 DEF NodesAre, m, os, vals

ResetObjects(os) == [k \in 1..Defined |-> [os[k] EXCEPT !.deleted = FALSE]]

\* A reset of nodes, objects and values keeps them in agreement,
LEMMA ResetNodes ==
  ASSUME NEW n, NEW os, NEW vals, NodesAre(n, os, vals)
  PROVE  NodesAre(reset_node(n), ResetObjects(os), ResetValues(vals))
<1> DEFINE m == reset_node(n)
           ob == ResetObjects(os)
           after == ResetValues(vals)
<1>1. /\ n \in NodeType /\ n.max \in Nat /\ Defined \in Nat /\ Defined <= n.max /\ MemoryOK(n, vals)
      /\ \A i \in 0..n.max - 1 : os[i + 1] \in ObjectType
  BY NodesHave
<1>2. MemoryOK(m, after) /\ m.max = Defined /\ m.masks = 0..ceil_to_times(Defined) - 1
 <2>1. m.max = Defined /\ m.masks = 0..ceil_to_times(Defined) - 1
  <3> DEFINE masks == 0..ceil_to_times(Defined) - 1
  <3> HIDE DEF masks
  <3> QED BY <1>1 DEF reset_node, NodeType, masks
 <2> QED BY <1>1, <2>1, ResetHolds
<1>3. ceil_to_times(Defined) \in Nat /\ Defined <= ceil_to_times(Defined)
  BY <1>1, MasksCover
<1>4. \A k \in 1..Defined : os[k] \in ObjectType
 <2> SUFFICES ASSUME NEW k \in 1..Defined PROVE os[k] \in ObjectType
   OBVIOUS
 <2>1. k - 1 \in 0..n.max - 1 /\ k - 1 + 1 = k BY <1>1
 <2>2. os[k - 1 + 1] \in ObjectType BY <1>1, <2>1
 <2> QED BY <2>1, <2>2
<1>5. \A k \in 1..Defined : ob[k] \in ObjectType /\ ob[k].deleted = FALSE /\ ob[k].slot_number = os[k].slot_number
  BY <1>4 DEF ResetObjects, ObjectType
<1>6. ob \in Seq(ObjectType) /\ Len(ob) = Defined
 <2> DEFINE T == ObjectType
 <2>1. \A k \in 1..Defined : ob[k] \in T BY <1>5
 <2>2. ob = [k \in 1..Defined |-> ob[k]] BY DEF ResetObjects
 <2> HIDE DEF T, ob
 <2>3. ob \in Seq(T) /\ Len(ob) = Defined BY <1>1, <2>1, <2>2
 <2> QED BY <2>3 DEF T
<1>7. ASSUME NEW i \in 0..Defined - 1, NEW a \in Lists PROVE after[i + 1][a] = << >>
 <2>1. a \in DOMAIN Attrs /\ a \in InBlock(FALSE) BY ListWidth
 <2>a. ~ Attrs[a].is_const BY <2>1, KindsOfAttrs
 <2>b. i + 1 \in 1..Defined BY <1>1
 <2>2. after[i + 1][a] = Fresh[a] BY <2>1, <2>a, <2>b DEF ResetValues
 <2> QED BY <2>2, FreshTypes
<1> HIDE DEF m, ob, after
<1>8. AliveOK(m, ob)
 <2>1. \A i \in 0..Defined - 1 : i \in 0..ceil_to_times(Defined) - 1 /\ i + 1 \in 1..Defined
   BY <1>1, <1>3
 <2> QED BY <1>2, <1>5, <2>1 DEF AliveOK
<1>9. CountsOK(m, ob, after) BY <1>2, <1>7 DEF CountsOK
<1> QED BY <1>2, <1>6, <1>8, <1>9 DEF NodesAre, m, ob, after

\* ... and so does appending nodes.
LEMMA AppendedNodes ==
  ASSUME NEW n, NEW os, NEW vals, NodesAre(n, os, vals), NEW number \in Nat, NEW m, m = append_nodes(n, number)
  PROVE  NodesAre(m, os \o [k \in 1..number |-> NewObject], AppendedValues(n, vals, m, number))
<1> DEFINE f == [k \in 1..number |-> NewObject]
           ob == os \o [k \in 1..number |-> f[k]]
           after == AppendedValues(n, vals, m, number)
<1>1. /\ n \in NodeType /\ n.max \in Nat /\ MemoryOK(n, vals) /\ n.masks \in SUBSET Int
      /\ os \in Seq(ObjectType) /\ Len(os) = n.max /\ ValuesOK(n, vals)
  BY NodesHave
<1>2. /\ MemoryOK(m, after) /\ m.max = n.max + number
      /\ m.masks = (n.masks \cap (0..ceil_to_times(m.max) - 1)) \cup (n.max..m.max - 1)
  BY <1>1, AppendHolds DEF AppendsTo
<1>3. m.max \in Nat /\ ceil_to_times(m.max) \in Nat /\ m.max <= ceil_to_times(m.max)
 <2>1. m.max \in Nat BY <1>1, <1>2
 <2> QED BY <2>1, MasksCover
<1>4. \A k \in 1..number : f[k] = NewObject OBVIOUS
<1>5. /\ ob \in Seq(ObjectType) /\ Len(ob) = m.max
      /\ \A i \in 0..n.max - 1 : ob[i + 1] = os[i + 1]
      /\ \A i \in n.max..m.max - 1 : ob[i + 1] = NewObject
 <2> DEFINE T == ObjectType
 <2>1. os \in Seq(T) /\ \A k \in 1..number : f[k] \in T BY <1>1, NewObjectType
 <2>2. n.max \in Nat /\ \A i \in n.max..m.max - 1 : i + 1 - n.max \in 1..number
   BY <1>1, <1>2
 <2> HIDE DEF T, f
 <2>3. Joined(ob, T, os, number, f) BY <2>1, JoinedAt
 <2> HIDE DEF ob
 <2>4. /\ ob \in Seq(T) /\ Len(ob) = n.max + number
       /\ \A i \in 0..n.max - 1 : ob[i + 1] = os[i + 1]
       /\ \A i \in n.max..n.max + number - 1 : ob[i + 1] = f[i + 1 - n.max]
   BY <1>1, <2>3 DEF Joined
 <2>5. \A i \in n.max..m.max - 1 : ob[i + 1] = NewObject
  <3> SUFFICES ASSUME NEW i \in n.max..m.max - 1 PROVE ob[i + 1] = NewObject
    OBVIOUS
  <3>1. ob[i + 1] = f[i + 1 - n.max] BY <1>1, <1>2, <2>4
  <3> QED BY <1>4, <2>2, <3>1
 <2> QED BY <1>2, <2>4, <2>5 DEF T
<1>6. \A i \in n.max..m.max - 1 : \A a \in Lists : after[i + 1][a] = << >>
 <2> DEFINE F == NodeValues
            g == [k \in 1..number |-> AppendedNode(m, n.max + k - 1)]
 <2>1. vals \in Seq(F) /\ Len(vals) = n.max BY <1>1, ValuesOfNode
 <2>a. \A i : \A a \in Lists : AppendedNode(m, i)[a] = << >>
  <3> SUFFICES ASSUME NEW i, NEW a \in Lists PROVE AppendedNode(m, i)[a] = << >>
    OBVIOUS
  <3>1. a \in DOMAIN Attrs /\ ~ Attrs[a].is_const BY ListWidth, KindsOfAttrs
  <3> QED BY <3>1, FreshTypes DEF AppendedNode
 <2>2. \A i \in n.max..m.max - 1 : (vals \o g)[i + 1] = AppendedNode(m, i)
  <3>1. Len(g) = number /\ DOMAIN g = 1..number OBVIOUS
  <3>2. \A k \in 1..number : g[k] = AppendedNode(m, n.max + k - 1) OBVIOUS
  <3>3. \A i \in n.max..m.max - 1 : i + 1 - n.max \in 1..number /\ n.max + (i + 1 - n.max) - 1 = i
    BY <1>1, <1>2
  <3>4. \A i \in n.max..m.max - 1 : g[i + 1 - n.max] = AppendedNode(m, i) BY <3>2, <3>3
  <3> SUFFICES ASSUME NEW i \in n.max..m.max - 1 PROVE (vals \o g)[i + 1] = AppendedNode(m, i)
    OBVIOUS
  <3>5. i + 1 \in 1..Len(vals) + Len(g) /\ ~ i + 1 <= Len(vals) /\ Len(vals) \in Nat /\ Len(g) \in Nat
    BY <1>1, <1>2, <2>1, <3>1
  <3> HIDE DEF F, g
  <3>6. (vals \o g)[i + 1] = g[i + 1 - Len(vals)] BY <3>5
  <3> QED BY <2>1, <3>4, <3>6
 <2> HIDE DEF g
 <2>3. after = vals \o g BY DEF AppendedValues, g
 <2> QED BY <2>a, <2>2, <2>3
<1>7. \A i \in 0..n.max - 1 : after[i + 1] = vals[i + 1]
 <2> DEFINE g == [k \in 1..number |-> AppendedNode(m, n.max + k - 1)]
 <2>1. vals \in Seq(NodeValues) /\ Len(vals) = n.max BY <1>1, ValuesOfNode
 <2>2. after = vals \o g /\ Len(g) = number BY DEF AppendedValues
 <2> SUFFICES ASSUME NEW i \in 0..n.max - 1 PROVE (vals \o g)[i + 1] = vals[i + 1]
   BY <2>2
 <2>3. i + 1 \in 1..Len(vals) + Len(g) /\ i + 1 <= Len(vals) /\ Len(vals) \in Nat /\ Len(g) \in Nat
   BY <1>1, <2>1, <2>2
 <2> HIDE DEF g
 <2> QED BY <2>3
<1> HIDE DEF ob, after
<1>8. AliveOK(m, ob)
 <2> SUFFICES ASSUME NEW i \in 0..m.max - 1 PROVE i \in m.masks <=> ~ob[i + 1].deleted
   BY DEF AliveOK
 <2>1. CASE i \in 0..n.max - 1
  <3>1. i \in 0..ceil_to_times(m.max) - 1 /\ i \notin n.max..m.max - 1 BY <1>1, <1>3, <2>1
  <3>2. i \in n.masks <=> ~os[i + 1].deleted BY <2>1 DEF NodesAre, AliveOK
  <3> QED BY <1>2, <1>5, <2>1, <3>1, <3>2
 <2>2. CASE i \in n.max..m.max - 1 BY <1>2, <1>5, <2>2, NewObjectType
 <2> QED BY <1>1, <2>1, <2>2
<1>9. CountsOK(m, ob, after)
 <2> SUFFICES ASSUME NEW i \in 0..m.max - 1, NEW a \in Lists,
                     ob[i + 1].slot_number[a] # Len(after[i + 1][a])
              PROVE  after[i + 1][a] = << >>
   BY DEF CountsOK
 <2>1. CASE i \in 0..n.max - 1 BY <1>5, <1>7, <2>1 DEF NodesAre, CountsOK
 <2>2. CASE i \in n.max..m.max - 1 BY <1>6, <2>2
 <2> QED BY <1>1, <2>1, <2>2
<1>10. ob = os \o [k \in 1..number |-> NewObject] BY DEF ob
<1> QED BY <1>2, <1>5, <1>8, <1>9, <1>10 DEF NodesAre, after

----------------------------------------------------------------------------
(***************************************************************************)
(* Snapshots: copies of the node whose values are those of the tick.        *)
(***************************************************************************)

(* A snapshot shows the values it was taken of.                            *)
ShotOK(n, h) ==
  /\ BlocksOK(n) /\ ValuesOK(n, h.value) /\ Shows(n, h.value)
  /\ h.alive = {i \in 0..n.max - 1 : i \in n.masks}

\* The front of a block.
LEMMA FrontOf ==
  ASSUME NEW q \in Seq(Cells), NEW p \in Nat, p <= Len(q)
  PROVE  /\ SubSeq(q, 1, p) \in Seq(Cells) /\ Len(SubSeq(q, 1, p)) = p
         /\ \A k \in 1..p : SubSeq(q, 1, p)[k] = q[k]
<1> DEFINE S == Cells
<1>1. q \in Seq(S) OBVIOUS
<1> HIDE DEF S
<1>2. /\ SubSeq(q, 1, p) \in Seq(S) /\ Len(SubSeq(q, 1, p)) = p
      /\ \A k \in 1..p : SubSeq(q, 1, p)[k] = q[k]
  BY <1>1
<1> QED BY <1>2 DEF S

\* copy_from takes all the values of the nodes that are there.
LEMMA CopyShows ==
  ASSUME NEW n, NEW os, NEW vals, NodesAre(n, os, vals)
  PROVE  ShotOK(copy_from(n), [value |-> vals, alive |-> {i \in 0..n.max - 1 : ~os[i + 1].deleted}])
<1> DEFINE m == copy_from(n)
           p == n.max * size_per_node[FALSE]
           front == SubSeq(n.dynamic, 1, p)
           h == [value |-> vals, alive |-> {i \in 0..n.max - 1 : ~os[i + 1].deleted}]
<1>1. /\ n \in NodeType /\ n.max \in Nat /\ MemoryOK(n, vals) /\ n.max <= n.bits /\ ValuesOK(n, vals)
      /\ BlocksOK(n)
  BY NodesHave, BlocksFit DEF MemoryOK
<1>2. n.dynamic \in Seq(Cells) /\ p \in Nat /\ p <= Len(n.dynamic)
  BY <1>1, NodeFields, SizesAreNatural, ProductIsNatural DEF BlocksOK
<1>3. /\ m.max = n.max /\ m.const = << >> /\ m.dynamic = front /\ m.lists = n.lists /\ m.bits = n.bits
      /\ m.masks = n.masks /\ m \in [max : {n.max}, const : {<< >>}, dynamic : {front}, lists : {n.lists},
                                     bits : {n.bits}, masks : {n.masks}]
  BY <1>1 DEF copy_from, NodeType
<1>4. front \in Seq(Cells) /\ Len(front) = p /\ \A k \in 1..p : front[k] = n.dynamic[k]
 <2> HIDE DEF p
 <2> QED BY <1>2, FrontOf
<1> HIDE DEF m, front
<1>5. m \in NodeType
 <2>1. << >> \in Seq(Cells) OBVIOUS
 <2> QED BY <1>1, <1>3, <1>4, <2>1 DEF NodeType
<1>6. BlocksOK(m)
 <2>1. p <= Len(m.dynamic)
  <3> HIDE DEF p
  <3> QED BY <1>2, <1>3, <1>4
 <2> QED BY <1>1, <1>3, <1>5, <2>1 DEF BlocksOK
<1>7. \A i \in 0..n.max - 1 : \A a \in InBlock(FALSE) : \A s \in 0..Width[a] - 1 :
        front[Address(i, a, s)] = n.dynamic[Address(i, a, s)]
 <2> SUFFICES ASSUME NEW i \in 0..n.max - 1, NEW a \in InBlock(FALSE), NEW s \in 0..Width[a] - 1
              PROVE  front[Address(i, a, s)] = n.dynamic[Address(i, a, s)]
   OBVIOUS
 <2> DEFINE k == Address(i, a, s)
 <2>1. k \in 1..Len(n.dynamic) /\ k <= p BY <1>1, AddressInBlock
 <2> HIDE DEF k, p
 <2>2. k \in 1..p BY <1>2, <2>1
 <2>3. front[k] = n.dynamic[k] BY <1>4, <2>2
 <2> QED BY <2>3 DEF k
<1>8. Shows(m, vals)
 <2> SUFFICES ASSUME NEW i \in 0..n.max - 1, NEW a \in InBlock(FALSE)
              PROVE  IF a \in Lists THEN ShowsList(m, i, a, vals[i + 1][a])
                     ELSE ShowsSlots(front, i, a, vals[i + 1][a])
   BY <1>3 DEF Shows
 <2>1. CASE a \in Lists
  <3>1. ShowsList(n, i, a, vals[i + 1][a]) BY <1>1, <2>1 DEF MemoryOK, Shows
  <3>2. front[Address(i, a, 0)] = n.dynamic[Address(i, a, 0)] BY <1>7, <2>1, ListWidth
  <3> QED BY <1>3, <2>1, <3>1, <3>2 DEF ShowsList
 <2>2. CASE a \notin Lists
  <3>1. ShowsSlots(n.dynamic, i, a, vals[i + 1][a]) BY <1>1, <2>2 DEF MemoryOK, Shows
  <3>2. \A s \in 1..Attrs[a].slots : s - 1 \in 0..Width[a] - 1
   <4>0. FALSE \in BOOLEAN OBVIOUS
   <4> QED BY <2>2, <4>0, SlotWidth
  <3>3. \A s \in 1..Attrs[a].slots : front[Address(i, a, s - 1)] = n.dynamic[Address(i, a, s - 1)]
    BY <1>7, <3>2
  <3> QED BY <2>2, <3>1, <3>3 DEF ShowsSlots
 <2> QED BY <2>1, <2>2
<1>9. h.value = vals /\ h.alive = {i \in 0..n.max - 1 : i \in n.masks}
  BY DEF NodesAre, AliveOK
<1> HIDE DEF h
<1>10. ValuesOK(m, h.value) BY <1>1, <1>3, <1>9 DEF ValuesOK
<1> QED BY <1>3, <1>6, <1>8, <1>9, <1>10 DEF ShotOK, m, h

(* The frame and its snapshots hold what they should.                      *)
ShotsOK == DOMAIN shots = DOMAIN shot /\ \A t \in DOMAIN shots : ShotOK(shots[t], shot[t])
RawInv == NodesAre(node, objects, value) /\ ShotsOK

\* A new frame without snapshots satisfies the invariant.
LEMMA RawInit ==
  ASSUME FrameInit
  PROVE  RawInv
<1>1. NodesAre(node, objects, value)
 <2>1. node = setup /\ objects = [k \in 1..Defined |-> NewObject] /\ value = [k \in 1..Defined |-> Fresh]
   BY DEF FrameInit
 <2> QED BY <2>1, SetupNodes, Zenon
<1>2. DOMAIN shots = {} /\ DOMAIN shot = {} BY DEF FrameInit
<1> QED BY <1>1, <1>2 DEF RawInv, ShotsOK

\* What the frame reads.
LEMMA NodeReads ==
  ASSUME NEW n, NEW os, NEW vals, NodesAre(n, os, vals), NEW i \in 0..n.max - 1, NEW a \in DOMAIN Attrs
  PROVE  Reads(n, i, a, vals[i + 1][a])
<1>1. MemoryOK(n, vals) /\ vals[i + 1][a] \in Seq(Held) BY NodesHave
<1>2. CASE a \in InBlock(FALSE) BY <1>1, <1>2, ReadsValues DEF MemoryOK
<1>3. CASE a \in InBlock(TRUE) BY <1>1, <1>3, ReadsConstants DEF MemoryOK
<1> QED BY <1>2, <1>3, KindsOfAttrs, Zenon

\* What an accessor accepts can be held.
LEMMA HeldValues == \A v \in InRange : v \in Held
  BY DEF Held

\* Steps on slots.
LEMMA SetValueStep ==
  ASSUME RawInv, NEW i \in 0..node.max - 1, NEW a \in DOMAIN Attrs, NEW v \in Values,
         NEW slot \in 0..get_slot_number(node, i, a) - 1, set_value(i, a, slot, v)
  PROVE  RawInv'
<1> DEFINE l == value[i + 1][a]
           slots == {slot}
<1>1. NodesAre(node, objects, value) /\ ShotsOK /\ l \in Seq(Held) /\ Len(l) \in Nat
  BY NodesHave DEF RawInv
<1>2. get_slot_number(node, i, a) = Len(l) BY <1>1, NodeReads DEF Reads
<1>3. slots \in SUBSET (0..Len(l) - 1) /\ v \in Held /\ slot \in 0..Len(l) - 1
  BY <1>2, HeldValues DEF set_value, Accepted
<1>4. node' = assigned(node, i, a, slots, v) /\ UNCHANGED <<objects, shots, shot>>
      /\ value' = [value EXCEPT ![i + 1][a][slot + 1] = v]
  BY DEF set_value
<1>5. [l EXCEPT ![slot + 1] = v] = Set(l, slots, v)
 <2>1. DOMAIN l = 1..Len(l) BY <1>1
 <2> HIDE DEF l
 <2>2. \A s \in 1..Len(l) : s - 1 \in slots <=> s = slot + 1 BY <1>3
 <2> HIDE DEF slots
 <2>3. [l EXCEPT ![slot + 1] = v] = [s \in DOMAIN l |-> IF s = slot + 1 THEN v ELSE l[s]]
   OBVIOUS
 <2> QED BY <2>1, <2>2, <2>3 DEF Set
<1>6. value' = [value EXCEPT ![i + 1][a] = Set(l, slots, v)] BY <1>4, <1>5
<1> HIDE DEF slots
<1>7. NodesAre(assigned(node, i, a, slots, v), objects, [value EXCEPT ![i + 1][a] = Set(value[i + 1][a], slots, v)])
  BY <1>1, <1>3, Assignment
<1> QED BY <1>1, <1>4, <1>6, <1>7 DEF RawInv, ShotsOK

\* ... and on all the slots of an attribute.
LEMMA SetAttrStep ==
  ASSUME RawInv, NEW i \in 0..node.max - 1, NEW a \in DOMAIN Attrs, NEW v \in Values, set_attr_values(i, a, v)
  PROVE  RawInv'
<1> DEFINE l == value[i + 1][a]
           last == Min({AllSlots(i, a), get_slot_number(node, i, a)})
           slots == 0..last - 1
<1>1. NodesAre(node, objects, value) /\ ShotsOK /\ l \in Seq(Held) /\ Len(l) \in Nat
      /\ objects[i + 1] \in ObjectType
  BY NodesHave DEF RawInv
<1>2. get_slot_number(node, i, a) = Len(l) BY <1>1, NodeReads DEF Reads
<1>3. AllSlots(i, a) \in Int
 <2>1. Attrs[a].slots \in Nat /\ (Attrs[a].is_list <=> a \in Lists)
   BY LayoutTypes, KindsOfAttrs
 <2> QED BY <1>1, <2>1 DEF AllSlots, ObjectType
<1>4. last \in Int /\ last <= Len(l)
 <2> DEFINE x == AllSlots(i, a)
            y == get_slot_number(node, i, a)
 <2>1. x \in Int /\ y \in Int /\ y = Len(l) BY <1>1, <1>2, <1>3
 <2> HIDE DEF x, y
 <2>2. Min({x, y}) \in {x, y} /\ Min({x, y}) <= y BY <2>1, OfTwo
 <2>3. Min({x, y}) \in Int /\ Min({x, y}) <= Len(l) BY <2>1, <2>2
 <2> QED BY <2>3 DEF x, y
<1>5. /\ node' = assigned(node, i, a, slots, v) /\ UNCHANGED <<objects, shots, shot>>
      /\ value' = [value EXCEPT ![i + 1][a] = [s \in DOMAIN value[i + 1][a] |-> IF s <= last THEN v ELSE value[i + 1][a][s]]]
      /\ v \in Held
  BY HeldValues DEF set_attr_values, Accepted
<1> HIDE DEF last
<1>6. slots \in SUBSET (0..Len(l) - 1) BY <1>1, <1>4
<1>7. [s \in DOMAIN l |-> IF s <= last THEN v ELSE l[s]] = Set(l, slots, v)
 <2>1. DOMAIN l = 1..Len(l) BY <1>1
 <2> HIDE DEF l
 <2>2. \A s \in 1..Len(l) : s - 1 \in slots <=> s <= last BY <1>4
 <2> HIDE DEF slots
 <2> QED BY <2>1, <2>2 DEF Set
<1>8. value' = [value EXCEPT ![i + 1][a] = Set(l, slots, v)] BY <1>5, <1>7
<1> HIDE DEF slots
<1>9. NodesAre(assigned(node, i, a, slots, v), objects, [value EXCEPT ![i + 1][a] = Set(value[i + 1][a], slots, v)])
  BY <1>1, <1>5, <1>6, Assignment
<1> QED BY <1>1, <1>5, <1>8, <1>9 DEF RawInv, ShotsOK

\* Steps on lists: the list of the memory is the value that was kept of it.
LEMMA ListOfNode ==
  ASSUME RawInv, NEW i \in 0..node.max - 1, NEW a \in Lists
  PROVE  /\ value[i + 1][a] \in Seq(Held) /\ Len(value[i + 1][a]) \in Nat
         /\ get_attribute_list(node, i, a) = value[i + 1][a]
         /\ get_slot_number(node, i, a) = Len(value[i + 1][a])
<1>1. NodesAre(node, objects, value) /\ a \in DOMAIN Attrs BY ListWidth DEF RawInv
<1>2. Reads(node, i, a, value[i + 1][a]) BY <1>1, NodeReads
<1>3. value[i + 1][a] \in Seq(Held) /\ Len(value[i + 1][a]) \in Nat BY <1>1, NodesHave
<1> QED BY <1>2, <1>3 DEF Reads

\* An operation on a list that leaves in memory what its history says.
LEMMA ListStepHolds ==
  ASSUME RawInv, NEW i \in 0..node.max - 1, NEW a \in Lists, NEW l \in Seq(Held),
         NEW m, m = WithList(node, i, a, l, Len(l)), ListStep(i, a, m, l)
  PROVE  RawInv'
<1>1. /\ node' = m /\ objects' = [objects EXCEPT ![i + 1].slot_number[a] = get_slot_number(m, i, a)]
      /\ value' = [value EXCEPT ![i + 1][a] = l] /\ UNCHANGED <<shots, shot>>
  BY DEF ListStep
<1>2. NodesAre(node, objects, value) BY DEF RawInv
<1>3. NodesAre(m, [objects EXCEPT ![i + 1].slot_number[a] = get_slot_number(m, i, a)],
               [value EXCEPT ![i + 1][a] = l])
  BY <1>2, ListOperation
<1> QED BY <1>1, <1>3 DEF RawInv, ShotsOK

\* What the operations make of a list.
LEMMA ListsMade ==
  ASSUME NEW l \in Seq(Held), NEW v \in Held
  PROVE  /\ Append(l, v) \in Seq(Held) /\ Len(Append(l, v)) = Len(l) + 1
         /\ InsertAt(l, 1, v) \in Seq(Held) /\ Len(InsertAt(l, 1, v)) = Len(l) + 1
         /\ 0 < Len(l) => RemoveAt(l, 1) \in Seq(Held) /\ Len(RemoveAt(l, 1)) = Len(l) - 1
<1>1. Append(l, v) \in Seq(Held) /\ Len(Append(l, v)) = Len(l) + 1 /\ Len(l) \in Nat
  OBVIOUS
<1>2. InsertAt(l, 1, v) \in Seq(Held) /\ Len(InsertAt(l, 1, v)) = Len(l) + 1
 <2> DEFINE p == SubSeq(l, 1, 1 - 1)
            q == SubSeq(l, 1, Len(l))
 <2>1. p \in Seq(Held) /\ Len(p) = 0 /\ q \in Seq(Held) /\ Len(q) = Len(l) BY <1>1
 <2>2. <<v>> \in Seq(Held) /\ Len(<<v>>) = 1 OBVIOUS
 <2> DEFINE r == <<v>>
 <2>3. InsertAt(l, 1, v) = p \o r \o q BY DEF InsertAt
 <2>4. r \in Seq(Held) /\ Len(r) = 1 BY <2>2
 <2> HIDE DEF p, q, r
 <2>5. p \o r \in Seq(Held) /\ Len(p \o r) = 1 BY <2>1, <2>4
 <2> DEFINE w == p \o r
 <2>a. w \in Seq(Held) /\ Len(w) = 1 BY <2>5
 <2> HIDE DEF w
 <2>6. w \o q \in Seq(Held) /\ Len(w \o q) = 1 + Len(l)
  <3> DEFINE n == Len(l)
  <3>1. n \in Nat /\ Len(q) = n /\ q \in Seq(Held) BY <1>1, <2>1
  <3> HIDE DEF n
  <3>2. w \o q \in Seq(Held) /\ Len(w \o q) = 1 + n BY <2>a, <3>1, ConcatProperties, ZenonT(60)
  <3> QED BY <3>2 DEF n
 <2>7. InsertAt(l, 1, v) = w \o q BY <2>3 DEF w
 <2>8. 1 + Len(l) = Len(l) + 1 BY <1>1
 <2> QED BY <2>6, <2>7, <2>8, Zenon
<1>3. ASSUME 0 < Len(l) PROVE RemoveAt(l, 1) \in Seq(Held) /\ Len(RemoveAt(l, 1)) = Len(l) - 1
 <2> DEFINE p == SubSeq(l, 1, 1 - 1)
            q == SubSeq(l, 1 + 1, Len(l))
 <2>1. p \in Seq(Held) /\ Len(p) = 0 BY <1>1
 <2>2. q \in Seq(Held) /\ Len(q) = Len(l) - 1
  <3> DEFINE n == Len(l)
             b == 1 + 1
  <3>1. n \in Nat /\ n > 0 /\ b = 2 BY <1>1, <1>3
  <3>2. \A k \in b..n : k \in 1..n BY <3>1
  <3>3. \A k \in b..n : l[k] \in Held BY <3>2
  <3> HIDE DEF b, n
  <3>4. SubSeq(l, b, n) \in Seq(Held) /\ Len(SubSeq(l, b, n)) = IF b <= n THEN n - b + 1 ELSE 0
    BY <3>1, <3>3, SubSeqProperties
  <3>5. Len(SubSeq(l, b, n)) = n - 1 BY <3>1, <3>4
  <3> QED BY <3>4, <3>5, Zenon DEF b, n, q
 <2>3. RemoveAt(l, 1) = p \o q BY DEF RemoveAt
 <2> HIDE DEF p, q
 <2>4. p \o q \in Seq(Held) /\ Len(p \o q) = 0 + (Len(l) - 1) BY <2>1, <2>2
 <2>5. 0 + (Len(l) - 1) = Len(l) - 1 BY <1>1
 <2> QED BY <2>3, <2>4, <2>5, Zenon
<1> QED BY <1>1, <1>2, <1>3

\* append, insert, remove, resize and clear are such operations.
LEMMA AppendStep ==
  ASSUME RawInv, NEW i \in 0..node.max - 1, NEW a \in Lists, NEW v \in Values, append(i, a, v)
  PROVE  RawInv'
<1> DEFINE l == value[i + 1][a]
           r == Append(l, v)
           m == append_to_list(node, i, a, v)
<1>1. l \in Seq(Held) /\ get_attribute_list(node, i, a) = l /\ get_slot_number(node, i, a) = Len(l)
  BY ListOfNode
<1>2. v \in Held /\ ListStep(i, a, m, r) BY HeldValues DEF append, Accepted
<1>3. r \in Seq(Held) /\ Len(r) = Len(l) + 1 BY <1>1, <1>2, ListsMade
<1>4. m = WithList(node, i, a, r, Len(r)) BY <1>1, <1>3 DEF append_to_list
<1> HIDE DEF r, m
<1> QED BY <1>2, <1>3, <1>4, ListStepHolds

\* insert
LEMMA InsertStep ==
  ASSUME RawInv, NEW i \in 0..node.max - 1, NEW a \in Lists, NEW v \in Values, insert(i, a, 0, v)
  PROVE  RawInv'
<1> DEFINE l == value[i + 1][a]
           r == InsertAt(l, 1, v)
           m == insert_to_list(node, i, a, 0, v)
<1>1. l \in Seq(Held) /\ get_attribute_list(node, i, a) = l /\ get_slot_number(node, i, a) = Len(l)
  BY ListOfNode
<1>a. 0 + 1 = 1 OBVIOUS
<1>2. v \in Held /\ ListStep(i, a, m, r) BY <1>a, HeldValues DEF insert, Accepted
<1>3. r \in Seq(Held) /\ Len(r) = Len(l) + 1 BY <1>1, <1>2, ListsMade
<1>4. m = WithList(node, i, a, r, Len(r)) BY <1>1, <1>3, <1>a DEF insert_to_list
<1> HIDE DEF r, m
<1> QED BY <1>2, <1>3, <1>4, ListStepHolds

\* remove
LEMMA RemoveStep ==
  ASSUME RawInv, NEW i \in 0..node.max - 1, NEW a \in Lists, remove(i, a, 0)
  PROVE  RawInv'
<1> DEFINE l == value[i + 1][a]
           r == RemoveAt(l, 1)
           m == remove_from_list(node, i, a, 0)
<1>1. l \in Seq(Held) /\ get_attribute_list(node, i, a) = l /\ get_slot_number(node, i, a) = Len(l)
  BY ListOfNode
<1>a. 0 + 1 = 1 OBVIOUS
<1>2. 0 < Len(l) /\ ListStep(i, a, m, r) BY <1>1, <1>a DEF remove
<1>b. 0 \in Held BY DEF Held
<1>3. r \in Seq(Held) /\ Len(r) = Len(l) - 1
 <2> DEFINE v == 0
 <2>1. v \in Held BY <1>b
 <2> HIDE DEF v
 <2> QED BY <1>1, <1>2, <2>1, ListsMade
<1>4. m = WithList(node, i, a, r, Len(r)) BY <1>1, <1>3, <1>a DEF remove_from_list
<1> HIDE DEF r, m
<1> QED BY <1>2, <1>3, <1>4, ListStepHolds

\* resize
LEMMA ResizeStep ==
  ASSUME RawInv, NEW i \in 0..node.max - 1, NEW a \in Lists, NEW n \in Nat, resize(i, a, n)
  PROVE  RawInv'
<1> DEFINE l == value[i + 1][a]
           r == Resized(l, n, 0)
           m == resize_list(node, i, a, n)
<1>1. l \in Seq(Held) /\ get_attribute_list(node, i, a) = l /\ get_slot_number(node, i, a) = Len(l)
  BY ListOfNode
<1>2. ListStep(i, a, m, r) BY DEF resize
<1>3. r \in Seq(Held) /\ Len(r) = n
 <2> DEFINE v == 0
            S == Held
 <2>1. v \in S /\ l \in Seq(S) BY <1>1 DEF Held
 <2> HIDE DEF v, S
 <2>2. IsResized(Resized(l, n, v), S, l, n, v) BY <2>1, ResizedIs
 <2> QED BY <2>2 DEF IsResized, v, S
<1>4. m = WithList(node, i, a, r, Len(r)) BY <1>1, <1>3 DEF resize_list
<1> HIDE DEF r, m
<1> QED BY <1>2, <1>3, <1>4, ListStepHolds

\* clear
LEMMA ClearStep ==
  ASSUME RawInv, NEW i \in 0..node.max - 1, NEW a \in Lists, clear(i, a)
  PROVE  RawInv'
<1> DEFINE r == << >>
           m == clear_list(node, i, a)
<1>1. ListStep(i, a, m, r) BY DEF clear
<1>2. r \in Seq(Held) /\ Len(r) = 0 OBVIOUS
<1>3. m = WithList(node, i, a, r, Len(r)) BY <1>2 DEF clear_list
<1> HIDE DEF r, m
<1> QED BY <1>1, <1>2, <1>3, ListStepHolds

\* Steps on nodes.
LEMMA AppendNodeStep ==
  ASSUME RawInv, NEW number \in Nat, append_node(number)
  PROVE  RawInv'
<1> DEFINE m == append_nodes(node, number)
<1>1. /\ node' = m /\ objects' = objects \o [k \in 1..number |-> NewObject] /\ UNCHANGED <<shots, shot>>
      /\ value' = AppendedValues(node, value, m, number)
  BY DEF append_node, AppendedValues, AppendedNode
<1>2. NodesAre(node, objects, value) BY DEF RawInv
<1> HIDE DEF m
<1>3. NodesAre(m, objects \o [k \in 1..number |-> NewObject], AppendedValues(node, value, m, number))
  BY <1>2, AppendedNodes DEF m
<1> QED BY <1>1, <1>3 DEF RawInv, ShotsOK

\* delete_node and resume_node
LEMMA DeleteStep ==
  ASSUME RawInv, NEW i \in 0..node.max - 1, delete_node(i) \/ resume_node(i)
  PROVE  RawInv'
<1>1. NodesAre(node, objects, value) BY DEF RawInv
<1>2. CASE delete_node(i)
 <2>1. /\ node' = remove_node(node, i) /\ objects' = [objects EXCEPT ![i + 1].deleted = TRUE]
       /\ UNCHANGED <<shots, value, shot>>
   BY <1>2 DEF delete_node
 <2>2. NodesAre(remove_node(node, i), [objects EXCEPT ![i + 1].deleted = TRUE], value)
   BY <1>1, DeletedNode
 <2> QED BY <2>1, <2>2 DEF RawInv, ShotsOK
<1>3. CASE resume_node(i)
 <2>1. /\ node' = resume(node, i) /\ objects' = [objects EXCEPT ![i + 1].deleted = FALSE]
       /\ UNCHANGED <<shots, value, shot>>
   BY <1>3 DEF resume_node
 <2>2. NodesAre(resume(node, i), [objects EXCEPT ![i + 1].deleted = FALSE], value)
   BY <1>1, DeletedNode
 <2> QED BY <2>1, <2>2 DEF RawInv, ShotsOK
<1> QED BY <1>2, <1>3

\* reset
LEMMA ResetStep ==
  ASSUME RawInv, reset
  PROVE  RawInv'
<1>1. /\ node' = reset_node(node) /\ objects' = ResetObjects(objects) /\ value' = ResetValues(value)
      /\ UNCHANGED <<shots, shot>>
  BY DEF reset, ResetObjects, ResetValues
<1>2. NodesAre(reset_node(node), ResetObjects(objects), ResetValues(value))
  BY ResetNodes DEF RawInv
<1> QED BY <1>1, <1>2 DEF RawInv, ShotsOK

\* A snapshot of a frame that shows its values shows them too,
LEMMA SnapshotStep ==
  ASSUME RawInv, NEW t, take_snapshot(t)
  PROVE  RawInv'
<1> DEFINE rest == DOMAIN shots \ {t}
           kept == IF Cardinality(rest) >= MaxSnapshots THEN rest \ {Min(rest)} ELSE rest
           h == [value |-> value, alive |-> {i \in 0..node.max - 1 : ~objects[i + 1].deleted}]
<1>1. /\ shots' = [u \in kept \cup {t} |-> IF u = t THEN copy_from(node) ELSE shots[u]]
      /\ shot' = [u \in kept \cup {t} |-> IF u = t THEN h ELSE shot[u]]
      /\ UNCHANGED <<node, objects, value>>
  BY DEF take_snapshot
<1>2. kept \subseteq DOMAIN shots /\ t \notin kept OBVIOUS
<1>3. ShotOK(copy_from(node), h) BY CopyShows DEF RawInv
<1> HIDE DEF kept, h
<1>4. DOMAIN shots' = kept \cup {t} /\ DOMAIN shot' = kept \cup {t} BY <1>1
<1>5. ASSUME NEW u \in DOMAIN shots' PROVE ShotOK(shots'[u], shot'[u])
 <2>1. CASE u = t
  <3>1. shots'[u] = copy_from(node) /\ shot'[u] = h BY <1>1, <1>4, <2>1
  <3> QED BY <1>3, <3>1
 <2>2. CASE u # t
  <3>1. u \in DOMAIN shots /\ shots'[u] = shots[u] /\ shot'[u] = shot[u]
    BY <1>1, <1>2, <1>4, <2>2
  <3> QED BY <3>1 DEF RawInv, ShotsOK
 <2> QED BY <2>1, <2>2
<1>6. ShotsOK' BY <1>4, <1>5 DEF ShotsOK
<1> QED BY <1>1, <1>6 DEF RawInv

\* ... and the others stay or go as a whole.
LEMMA SnapshotsResetStep ==
  ASSUME RawInv, snapshots_reset
  PROVE  RawInv'
<1>1. DOMAIN shots' = {} /\ DOMAIN shot' = {} /\ UNCHANGED <<node, objects, value>>
  BY DEF snapshots_reset
<1> QED BY <1>1 DEF RawInv, ShotsOK

\* A number is put at the end of a sequence.
LEMMA RangeOfAppend ==
  ASSUME NEW q \in Seq(Nat), NEW k \in Nat
  PROVE  Append(q, k) \in Seq(Nat) /\ Range(Append(q, k)) = Range(q) \cup {k}
<1> DEFINE r == Append(q, k)
           n == Len(q)
<1>1. /\ r \in Seq(Nat) /\ n \in Nat /\ DOMAIN q = 1..n /\ DOMAIN r = 1..n + 1
      /\ r[n + 1] = k /\ \A i \in 1..n : r[i] = q[i]
  OBVIOUS
<1> HIDE DEF r, n
<1>2. \A i \in 1..n + 1 : i \in 1..n \/ i = n + 1 BY <1>1
<1>3. \A i \in 1..n : i \in 1..n + 1 BY <1>1
<1>4. n + 1 \in 1..n + 1 BY <1>1
<1>5. Range(r) \subseteq Range(q) \cup {k} BY <1>1, <1>2 DEF Range
<1>6. Range(q) \cup {k} \subseteq Range(r)
 <2>1. Range(q) \subseteq Range(r)
  <3> SUFFICES ASSUME NEW i \in 1..n PROVE q[i] \in Range(r)
    BY <1>1 DEF Range
  <3>1. i \in DOMAIN r /\ r[i] = q[i] BY <1>1, <1>3
  <3> QED BY <3>1 DEF Range
 <2>2. k \in Range(r) BY <1>1, <1>4 DEF Range
 <2> QED BY <2>1, <2>2
<1> QED BY <1>1, <1>5, <1>6 DEF r

(* The numbers of a set, in order, are these numbers and no others.        *)
LEMMA AscendingIs ==
  ASSUME NEW n \in Nat, NEW places
  PROVE  Ascending(n, places) \in Seq(Nat) /\ Range(Ascending(n, places)) = places \cap (1..n)
<1> DEFINE Next1(k, x) == IF k \in places THEN Append(x, k) ELSE x
           T == [k \in 0..n |-> {q \in Seq(Nat) : Range(q) = places \cap (1..k)}]
           G == [p \in (1..n) \X UNION {T[l] : l \in 0..n} |-> Next1(p[1], p[2])]
           found == CHOOSE f : f = [k \in 0..n |->
                      IF k = 0 THEN << >> ELSE IF k \in places THEN Append(f[k - 1], k) ELSE f[k - 1]]
<1>1. << >> \in T[0]
 <2>1. 0 \in 0..n /\ places \cap (1..0) = {} OBVIOUS
 <2>2. << >> \in Seq(Nat) /\ Range(<< >>) = {} BY DEF Range
 <2> QED BY <2>1, <2>2
<1>2. ASSUME NEW k \in 1..n, NEW x \in T[k - 1] PROVE Next1(k, x) \in T[k]
 <2>1. k - 1 \in 0..n /\ k \in 0..n /\ k \in Nat OBVIOUS
 <2>2. x \in Seq(Nat) /\ Range(x) = places \cap (1..k - 1) BY <2>1
 <2>3. 1..k = (1..k - 1) \cup {k} OBVIOUS
 <2>4. CASE k \in places
  <3>1. Append(x, k) \in Seq(Nat) /\ Range(Append(x, k)) = Range(x) \cup {k}
    BY <2>1, <2>2, RangeOfAppend
  <3>2. Range(Append(x, k)) = places \cap (1..k) BY <2>2, <2>3, <2>4, <3>1
  <3> QED BY <2>1, <2>4, <3>1, <3>2
 <2>5. CASE k \notin places
  <3>1. Range(x) = places \cap (1..k) BY <2>2, <2>3, <2>5
  <3> QED BY <2>1, <2>2, <2>5, <3>1
 <2> QED BY <2>4, <2>5
<1>3. \E f : f = [k \in 0..n |-> IF k = 0 THEN << >> ELSE Next1(k, f[k - 1])]
 <2>1. \A k \in 1..n : \A x \in T[k - 1] : G[<<k, x>>] = Next1(k, x) /\ G[<<k, x>>] \in T[k]
  <3> SUFFICES ASSUME NEW k \in 1..n, NEW x \in T[k - 1]
               PROVE  G[<<k, x>>] = Next1(k, x) /\ G[<<k, x>>] \in T[k]
    OBVIOUS
  <3>1. k - 1 \in 0..n OBVIOUS
  <3> HIDE DEF T, Next1
  <3>2. <<k, x>> \in (1..n) \X UNION {T[l] : l \in 0..n} BY <3>1
  <3>3. G[<<k, x>>] = Next1(k, x) BY <3>2
  <3> QED BY <3>3, <1>2
 <2> HIDE DEF T, G, Next1
 <2>2. PICK f : /\ f = [k \in 0..n |-> IF k = 0 THEN << >> ELSE G[<<k, f[k - 1]>>]]
                /\ \A k \in 0..n : f[k] \in T[k]
  <3>1. \A k \in 1..n : \A x \in T[k - 1] : G[<<k, x>>] \in T[k] BY <2>1
  <3> DEFINE none == << >>
  <3>2. none \in T[0] BY <1>1
  <3> HIDE DEF none
  <3>3. \E f : IsComputed(f, n, none, G, T) BY <3>1, <3>2, IteratesExist
  <3> QED BY <3>3 DEF none, IsComputed
 <2>3. \A k \in 0..n : k # 0 => k \in 1..n /\ k - 1 \in 0..n OBVIOUS
 <2>4. \A k \in 0..n : (IF k = 0 THEN << >> ELSE G[<<k, f[k - 1]>>])
                           = (IF k = 0 THEN << >> ELSE Next1(k, f[k - 1]))
   BY <2>1, <2>2, <2>3
 <2>5. f = [k \in 0..n |-> IF k = 0 THEN << >> ELSE Next1(k, f[k - 1])] BY <2>2, <2>4
 <2> QED BY <2>5
<1>4. found = [k \in 0..n |-> IF k = 0 THEN << >> ELSE Next1(k, found[k - 1])] BY <1>3
<1>5. Ascending(n, places) = found[n] BY DEF Ascending
<1> HIDE DEF found
<1>6. \A k \in 0..n : found[k] \in T[k]
 <2>1. found[0] \in T[0] BY <1>1, <1>4
 <2>2. \A k \in 1..n : found[k - 1] \in T[k - 1] => found[k] \in T[k]
  <3> SUFFICES ASSUME NEW k \in 1..n, found[k - 1] \in T[k - 1] PROVE found[k] \in T[k]
    OBVIOUS
  <3>1. k \in 0..n /\ k # 0 OBVIOUS
  <3> HIDE DEF T, Next1
  <3>2. found[k] = Next1(k, found[k - 1]) BY <3>1, <1>4
  <3> QED BY <3>2, <1>2
 <2> HIDE DEF T, Next1
 <2> QED BY <2>1, <2>2, IteratesKeep
<1>7. n \in 0..n OBVIOUS
<1> QED BY <1>5, <1>6, <1>7

(* Every step keeps the invariant.                                         *)
LEMMA RawStep ==
  ASSUME RawInv, FrameNext
  PROVE  RawInv'
<1>1. CASE \E i \in 0..node.max - 1, a \in DOMAIN Attrs, v \in Values :
             \E slot \in 0..get_slot_number(node, i, a) - 1 : set_value(i, a, slot, v)
  BY <1>1, SetValueStep
<1>2. CASE \E i \in 0..node.max - 1, a \in DOMAIN Attrs, v \in Values : set_attr_values(i, a, v)
  BY <1>2, SetAttrStep
<1>3. CASE \E i \in 0..node.max - 1, a \in Lists, v \in Values \ {0} : append(i, a, v)
 <2>1. PICK i \in 0..node.max - 1, a \in Lists, v \in Values \ {0} : append(i, a, v) BY <1>3
 <2>2. v \in Values OBVIOUS
 <2> QED BY <2>1, <2>2, AppendStep
<1>4. CASE \E i \in 0..node.max - 1, a \in Lists, v \in Values \ {0} : insert(i, a, 0, v)
 <2>1. PICK i \in 0..node.max - 1, a \in Lists, v \in Values \ {0} : insert(i, a, 0, v)
   BY <1>4
 <2>2. v \in Values OBVIOUS
 <2> QED BY <2>1, <2>2, InsertStep
<1>5. CASE \E i \in 0..node.max - 1, a \in Lists : remove(i, a, 0) BY <1>5, RemoveStep
<1>6. CASE \E i \in 0..node.max - 1, a \in Lists : \E n \in 0..MaxList : resize(i, a, n)
 <2>1. PICK i \in 0..node.max - 1, a \in Lists, n \in 0..MaxList : resize(i, a, n) BY <1>6
 <2>2. n \in Nat BY BoundAssumption
 <2> QED BY <2>1, <2>2, ResizeStep
<1>7. CASE \E i \in 0..node.max - 1, a \in Lists : clear(i, a) BY <1>7, ClearStep
<1>8. CASE append_node(1)
 <2> DEFINE number == 1
 <2>1. number \in Nat /\ append_node(number) BY <1>8
 <2> HIDE DEF number
 <2> QED BY <2>1, AppendNodeStep
<1>9. CASE \E i \in 0..node.max - 1 : delete_node(i) \/ resume_node(i) BY <1>9, DeleteStep
<1>10. CASE reset BY <1>10, ResetStep
<1>11. CASE \E t \in ShotTicks : (\A u \in DOMAIN shots : u <= t) /\ take_snapshot(t)
  BY <1>11, SnapshotStep
<1>12. CASE snapshots_reset BY <1>12, SnapshotsResetStep
<1> QED BY <1>1, <1>2, <1>3, <1>4, <1>5, <1>6, <1>7, <1>8, <1>9, <1>10, <1>11, <1>12 DEF FrameNext

(* What the invariant gives a reader of the frame and of its snapshots.    *)

(* The frame reads as it was written.                                      *)
LEMMA FrameReads ==
  ASSUME RawInv
  PROVE  MemoryHoldsValues
<1> SUFFICES ASSUME NEW i \in 0..node.max - 1, NEW a \in DOMAIN Attrs
             PROVE  LET l == value[i + 1][a]
                    IN  /\ get_slot_number(node, i, a) = Len(l)
                        /\ \A s \in DOMAIN l : get_attr(node, i, a, s - 1) = l[s]
                        /\ a \in Lists =>
                             /\ Len(get_attribute_list(node, i, a)) = Len(l)
                             /\ AllSlots(i, a) # Len(l) => l = << >>
                        /\ is_node_alive(node, i) <=> ~objects[i + 1].deleted
                        /\ Usable(i) => Range(where(i, a, {1})) = {s - 1 : s \in {u \in DOMAIN l : l[u] = 1}}
  BY DEF MemoryHoldsValues
<1> DEFINE l == value[i + 1][a]
<1>1. /\ NodesAre(node, objects, value) /\ l \in Seq(Held) /\ Len(l) \in Nat /\ DOMAIN l = 1..Len(l)
      /\ node.max \in Nat /\ node.bits \in Nat /\ node.max <= node.bits
  BY NodesHave DEF RawInv
<1>2. /\ get_slot_number(node, i, a) = Len(l)
      /\ \A s \in 1..Len(l) : get_attr(node, i, a, s - 1) = l[s]
      /\ a \in Lists => get_attribute_list(node, i, a) = l
  BY <1>1, NodeReads DEF Reads
<1> HIDE DEF l
<1>3. ASSUME a \in Lists, AllSlots(i, a) # Len(l) PROVE l = << >>
 <2>1. AllSlots(i, a) = objects[i + 1].slot_number[a]
   BY <1>3, KindsOfAttrs DEF AllSlots, Lists
 <2> QED BY <1>1, <1>3, <2>1 DEF NodesAre, CountsOK, l
<1>4. is_node_alive(node, i) <=> ~objects[i + 1].deleted
 <2>1. i < node.bits BY <1>1
 <2> QED BY <1>1, <2>1 DEF is_node_alive, NodesAre, AliveOK
<1>5. Range(where(i, a, {1})) = {s - 1 : s \in {u \in DOMAIN l : l[u] = 1}}
 <2> DEFINE n == Len(l)
            ones == {s \in 1..n : get_attr(node, i, a, s - 1) \in {1}}
            found == Ascending(n, ones)
 <2>1. ones = {u \in 1..n : l[u] = 1} BY <1>2
 <2>2. where(i, a, {1}) = [k \in DOMAIN found |-> found[k] - 1] BY <1>2 DEF where
 <2> HIDE DEF ones
 <2>3. found \in Seq(Nat) /\ Range(found) = ones \cap (1..n) BY <1>1, AscendingIs
 <2> HIDE DEF found
 <2>4. Range(where(i, a, {1})) = {x - 1 : x \in Range(found)} BY <2>2 DEF Range
 <2>5. Range(found) = {u \in DOMAIN l : l[u] = 1} BY <1>1, <2>1, <2>3
 <2> QED BY <2>4, <2>5
<1> QED BY <1>1, <1>2, <1>3, <1>4, <1>5 DEF l

\* What a snapshot shows of one slot.
LEMMA SlotOfSnapshot ==
  ASSUME RawInv, NEW t, NEW i \in Nat, NEW a \in InBlock(FALSE), NEW s \in Nat \ {0}
  PROVE  SnapshotAttr(t, i, a, s - 1) =
           IF /\ t \in DOMAIN shot /\ i \in shot[t].alive
              /\ (a \in Lists \/ s <= Attrs[a].slots) /\ s <= Len(shot[t].value[i + 1][a])
           THEN shot[t].value[i + 1][a][s] ELSE NaN
<1>1. a \in DOMAIN Attrs /\ (Attrs[a].is_list <=> a \in Lists) /\ ~ Attrs[a].is_const /\ Attrs[a].slots \in Nat
  BY KindsOfAttrs, LayoutTypes
<1>2. DOMAIN shots = DOMAIN shot BY DEF RawInv, ShotsOK
<1>3. s - 1 \in Nat /\ \A n \in Nat : s - 1 >= n <=> ~ s <= n OBVIOUS
<1>4. CASE t \notin DOMAIN shots BY <1>1, <1>2, <1>4 DEF SnapshotAttr
<1>5. CASE t \in DOMAIN shots
 <2> DEFINE n == shots[t]
            h == shot[t]
            l == h.value[i + 1][a]
 <2>1. BlocksOK(n) /\ ValuesOK(n, h.value) /\ Shows(n, h.value) /\ h.alive = {j \in 0..n.max - 1 : j \in n.masks}
   BY <1>5 DEF RawInv, ShotsOK, ShotOK
 <2>2. n.max \in Nat /\ n.bits \in Nat /\ n.max <= n.bits BY <2>1, NodeFields DEF BlocksOK
 <2> HIDE DEF n, h
 <2>3. i \in h.alive <=> ~(i >= n.max \/ ~is_node_alive(n, i))
  <3>1. i \in 0..n.max - 1 <=> ~ i >= n.max BY <2>2
  <3>2. i \in 0..n.max - 1 => i < n.bits BY <2>2
  <3> QED BY <2>1, <3>1, <3>2 DEF is_node_alive
 <2>4. CASE i \notin h.alive BY <1>1, <1>5, <2>3, <2>4 DEF SnapshotAttr, n, h
 <2>5. CASE i \in h.alive
  <3>1. i \in 0..n.max - 1 BY <2>1, <2>5
  <3>2. l \in Seq(Held) /\ Len(l) \in Nat BY <1>1, <2>1, <2>2, <3>1, ValueOfAttr
  <3>3. Reads(n, i, a, l) BY <2>1, <3>1, <3>2, ReadsValues
  <3> HIDE DEF l
  <3>4. s <= Len(l) => get_attr(n, i, a, s - 1) = l[s]
   <4>1. s <= Len(l) => s \in 1..Len(l) BY <3>2
   <4> QED BY <3>3, <4>1 DEF Reads
  <3>5. CASE a \in Lists
   <4>1. get_attribute_list(n, i, a) = l BY <3>3, <3>5 DEF Reads
   <4>2. s - 1 >= Len(l) <=> ~ s <= Len(l) BY <1>3, <3>2
   <4>3. SnapshotAttr(t, i, a, s - 1) = IF s - 1 >= Len(l) THEN NaN ELSE get_attr(n, i, a, s - 1)
     BY <1>1, <1>5, <2>3, <2>5, <3>5, <4>1 DEF SnapshotAttr, n
   <4> QED BY <1>2, <1>5, <2>5, <3>4, <3>5, <4>2, <4>3 DEF l, h
  <3>6. CASE a \notin Lists
   <4>1. Len(l) = Attrs[a].slots BY <2>1, <3>1, <3>6 DEF Shows, ShowsSlots, l
   <4>2. s - 1 >= Attrs[a].slots <=> ~ s <= Attrs[a].slots BY <1>1, <1>3
   <4>3. SnapshotAttr(t, i, a, s - 1) = IF s - 1 >= Attrs[a].slots THEN NaN ELSE get_attr(n, i, a, s - 1)
     BY <1>1, <1>5, <2>3, <2>5, <3>6 DEF SnapshotAttr, n
   <4> QED BY <1>2, <1>5, <2>5, <3>4, <3>6, <4>1, <4>2, <4>3 DEF l, h
  <3> QED BY <3>5, <3>6
 <2> QED BY <2>4, <2>5
<1> QED BY <1>4, <1>5

\* NaN, which a query shows as 0, is never held.
LEMMA HeldIsShown == \A x \in Held : x # NaN /\ Shown(x) = x
<1>1. NaN \notin Nat BY DEF NaN
<1>2. NaN \notin Held BY <1>1, AccessorAssumption DEF Held
<1> QED BY <1>2 DEF Shown

\* What the values of a snapshot are.
LEMMA SnapshotValues ==
  ASSUME RawInv, NEW t \in DOMAIN shot, NEW i \in shot[t].alive, NEW a \in DOMAIN Attrs
  PROVE  /\ t \in DOMAIN shots /\ i \in 0..shots[t].max - 1 /\ i \in Nat
         /\ shot[t].value[i + 1][a] \in Seq(Held) /\ Len(shot[t].value[i + 1][a]) \in Nat
         /\ ShotOK(shots[t], shot[t]) /\ is_node_alive(shots[t], i)
         /\ a \in InBlock(FALSE) => Reads(shots[t], i, a, shot[t].value[i + 1][a])
<1> DEFINE n == shots[t]
           h == shot[t]
<1>1. t \in DOMAIN shots /\ ShotOK(n, h) BY DEF RawInv, ShotsOK
<1> HIDE DEF n, h
<1>2. BlocksOK(n) /\ ValuesOK(n, h.value) /\ Shows(n, h.value) /\ h.alive = {j \in 0..n.max - 1 : j \in n.masks}
  BY <1>1 DEF ShotOK
<1>3. n.max \in Nat /\ n.bits \in Nat /\ n.max <= n.bits BY <1>2, NodeFields DEF BlocksOK
<1>4. i \in 0..n.max - 1 /\ i \in n.masks BY <1>2 DEF h
<1>5. h.value[i + 1][a] \in Seq(Held) /\ Len(h.value[i + 1][a]) \in Nat
  BY <1>2, <1>3, <1>4, ValueOfAttr
<1>6. a \in InBlock(FALSE) => Reads(n, i, a, h.value[i + 1][a])
  BY <1>2, <1>4, <1>5, ReadsValues
<1>7. i \in Nat /\ i < n.bits BY <1>3, <1>4
<1>8. is_node_alive(n, i) BY <1>4, <1>7 DEF is_node_alive
<1> QED BY <1>1, <1>4, <1>5, <1>6, <1>7, <1>8 DEF n, h

(* A list is shown as it was.                                              *)
LEMMA ListShown ==
  ASSUME RawInv, NEW t, NEW a \in Lists, NEW i \in Nat
  PROVE  IF t \in DOMAIN shot /\ i \in shot[t].alive
         THEN ListQueryValid(t, i) /\ query_for_list(t, i, a) = shot[t].value[i + 1][a]
         ELSE SnapshotAttr(t, i, a, 0) = NaN
<1> DEFINE l == shot[t].value[i + 1][a]
<1>1. a \in InBlock(FALSE) /\ a \in DOMAIN Attrs BY ListWidth
<1>2. CASE t \in DOMAIN shot /\ i \in shot[t].alive
 <2>1. /\ t \in DOMAIN shots /\ l \in Seq(Held) /\ Len(l) \in Nat /\ is_node_alive(shots[t], i)
       /\ get_slot_number(shots[t], i, a) = Len(l)
   BY <1>1, <1>2, SnapshotValues DEF Reads
 <2>2. ASSUME NEW s \in 1..Len(l) PROVE Shown(SnapshotAttr(t, i, a, s - 1)) = l[s]
  <3>1. s \in Nat \ {0} /\ s <= Len(l) /\ l[s] \in Held BY <2>1
  <3>2. SnapshotAttr(t, i, a, s - 1) =
          IF /\ t \in DOMAIN shot /\ i \in shot[t].alive
             /\ (a \in Lists \/ s <= Attrs[a].slots) /\ s <= Len(l)
          THEN l[s] ELSE NaN
    BY <1>1, <3>1, SlotOfSnapshot
  <3> QED BY <1>2, <3>1, <3>2, HeldIsShown
 <2>3. l = [s \in 1..Len(l) |-> l[s]] BY <2>1
 <2> HIDE DEF l
 <2>4. query_for_list(t, i, a) = [s \in 1..Len(l) |-> l[s]] BY <2>1, <2>2 DEF query_for_list
 <2>5. ListQueryValid(t, i) BY <2>1 DEF ListQueryValid
 <2> QED BY <1>2, <2>3, <2>4, <2>5 DEF l
<1>3. CASE ~(t \in DOMAIN shot /\ i \in shot[t].alive)
 <2> DEFINE s == 1
 <2>1. s \in Nat \ {0} /\ s - 1 = 0 OBVIOUS
 <2> HIDE DEF s
 <2>2. SnapshotAttr(t, i, a, s - 1) =
         IF /\ t \in DOMAIN shot /\ i \in shot[t].alive
            /\ (a \in Lists \/ s <= Attrs[a].slots) /\ s <= Len(l)
         THEN l[s] ELSE NaN
   BY <1>1, <2>1, SlotOfSnapshot
 <2>3. SnapshotAttr(t, i, a, s - 1) = NaN BY <1>3, <2>2
 <2> QED BY <1>3, <2>1, <2>3
<1> QED BY <1>2, <1>3

(* The attributes a plain query asks for, and the width of its rows.       *)
LEMMA PlainIs ==
  /\ Plain \in Seq(Nat) /\ \A k \in DOMAIN Plain : Plain[k] \in InBlock(FALSE) /\ Plain[k] \notin Lists
  /\ \A k \in DOMAIN Plain : max_slot_number(Plain) \in Nat /\ Attrs[Plain[k]].slots <= max_slot_number(Plain)
<1> DEFINE places == {a \in DOMAIN Attrs : ~Attrs[a].is_list /\ ~Attrs[a].is_const}
           n == Len(Attrs)
           W == {Attrs[a].slots : a \in {b \in Range(Plain) : b \notin Lists}}
<1>1. n \in Nat /\ DOMAIN Attrs = 1..n
 <2> DEFINE S == [is_list : BOOLEAN, is_const : BOOLEAN, slots : Nat]
 <2>1. Attrs \in Seq(S) BY NodeAssumption
 <2> HIDE DEF S
 <2> QED BY <2>1
<1>2. Plain = Ascending(n, places) BY DEF Plain
<1> HIDE DEF places, n
<1>3. Plain \in Seq(Nat) /\ Range(Plain) = places \cap (1..n) BY <1>1, <1>2, AscendingIs
<1>4. \A a \in places : a \in DOMAIN Attrs /\ a \in InBlock(FALSE) /\ a \notin Lists /\ Attrs[a].slots \in Nat
  BY KindsOfAttrs, LayoutTypes DEF places
<1>5. \A k \in DOMAIN Plain : Plain[k] \in places /\ Plain[k] \in Range(Plain)
  BY <1>3 DEF Range
<1>6. ASSUME NEW k \in DOMAIN Plain
      PROVE  max_slot_number(Plain) \in Nat /\ Attrs[Plain[k]].slots <= max_slot_number(Plain)
 <2>1. Attrs[Plain[k]].slots \in W BY <1>4, <1>5
 <2>2. W \subseteq Nat /\ \A x \in W : x \in Int
  <3>1. \A b \in Range(Plain) : b \in places BY <1>3
  <3>2. \A b \in Range(Plain) : Attrs[b].slots \in Nat BY <1>4, <3>1
  <3>3. \A x \in W : x \in Nat BY <3>2
  <3> HIDE DEF W
  <3> QED BY <3>3
 <2>3. IsFiniteSet(W)
  <3> DEFINE D == {b \in Range(Plain) : b \notin Lists}
             g == [a \in D |-> Attrs[a].slots]
  <3>1. IsFiniteSet(D)
   <4>1. D \subseteq DOMAIN Attrs BY <1>3, <1>4
   <4> QED BY <4>1, LayoutTypes, FS_Subset
  <3>2. W = {g[a] : a \in D} OBVIOUS
  <3> HIDE DEF D, W
  <3>3. IsFiniteSet(W)
   <4>1. g \in Surjection(D, W) BY <3>2 DEF Surjection
   <4> QED BY <3>1, <4>1, FS_Surjection
  <3> QED BY <3>3
 <2>4. W # {} BY <2>1
 <2>5. max_slot_number(Plain) = Max(W) BY DEF max_slot_number
 <2> HIDE DEF W
 <2>6. Max(W) \in W /\ \A y \in W : Max(W) >= y BY <2>2, <2>3, <2>4, Extremes
 <2> DEFINE x == Attrs[Plain[k]].slots
            y == Max(W)
 <2>7. x \in Nat /\ y \in Nat /\ y >= x BY <2>1, <2>2, <2>6
 <2> HIDE DEF x, y
 <2>8. x <= y BY <2>7
 <2> QED BY <2>5, <2>7, <2>8 DEF x, y
<1>7. \A k \in DOMAIN Plain : Plain[k] \in InBlock(FALSE) /\ Plain[k] \notin Lists
  BY <1>4, <1>5
<1> QED BY <1>3, <1>6, <1>7

(* A row of a query for plain attributes shows the values of its snapshot. *)
LEMMA RowShown ==
  ASSUME RawInv, NEW t \in DOMAIN shots, NEW i \in 0..node.max - 1, NEW k \in DOMAIN Plain,
         NEW s \in 1..max_slot_number(Plain)
  PROVE  Shown(SnapshotAttr(t, i, Plain[k], s - 1)) =
           IF i \in shot[t].alive /\ s <= Attrs[Plain[k]].slots
           THEN shot[t].value[i + 1][Plain[k]][s] ELSE 0
<1> DEFINE a == Plain[k]
           l == shot[t].value[i + 1][a]
<1>1. a \in InBlock(FALSE) /\ a \notin Lists /\ max_slot_number(Plain) \in Nat BY PlainIs
<1>2. a \in DOMAIN Attrs /\ Attrs[a].slots \in Nat BY <1>1, KindsOfAttrs, LayoutTypes
<1>3. s \in Nat \ {0} /\ i \in Nat BY <1>1
<1>4. t \in DOMAIN shot BY DEF RawInv, ShotsOK
<1> HIDE DEF a
<1>5. SnapshotAttr(t, i, a, s - 1) =
        IF /\ t \in DOMAIN shot /\ i \in shot[t].alive
           /\ (a \in Lists \/ s <= Attrs[a].slots) /\ s <= Len(l)
        THEN l[s] ELSE NaN
  BY <1>1, <1>3, SlotOfSnapshot
<1>6. Shown(NaN) = 0 BY DEF Shown
<1>7. CASE i \in shot[t].alive /\ s <= Attrs[a].slots
 <2>1. /\ l \in Seq(Held) /\ i \in 0..shots[t].max - 1 /\ ShotOK(shots[t], shot[t])
   BY <1>2, <1>4, <1>7, SnapshotValues
 <2>2. Len(l) = Attrs[a].slots BY <1>1, <2>1 DEF ShotOK, Shows, ShowsSlots
 <2>3. l[s] \in Held
  <3>1. s \in 1..Len(l) BY <1>2, <1>3, <1>7, <2>2
  <3> QED BY <2>1, <3>1
 <2>4. SnapshotAttr(t, i, a, s - 1) = l[s] BY <1>4, <1>5, <1>7, <2>2
 <2> QED BY <1>7, <2>3, <2>4, HeldIsShown DEF a
<1>8. CASE ~(i \in shot[t].alive /\ s <= Attrs[a].slots)
 <2>1. SnapshotAttr(t, i, a, s - 1) = NaN BY <1>1, <1>5, <1>8
 <2> QED BY <1>6, <1>8, <2>1 DEF a
<1> QED BY <1>7, <1>8

\* Snapshots show what they were taken of.
LEMMA SnapshotsRead ==
  ASSUME RawInv
  PROVE  SnapshotsAreFrozen
<1>1. \A t \in ShotTicks, a \in Lists, i \in 0..MaxNodes - 1 :
        IF t \in DOMAIN shot /\ i \in shot[t].alive
        THEN ListQueryValid(t, i) /\ query_for_list(t, i, a) = shot[t].value[i + 1][a]
        ELSE SnapshotAttr(t, i, a, 0) = NaN
 <2>1. \A i \in 0..MaxNodes - 1 : i \in Nat BY BoundAssumption
 <2> QED BY <2>1, ListShown
<1>2. DOMAIN shots = DOMAIN shot BY DEF RawInv, ShotsOK
<1>3. ASSUME NEW k \in DOMAIN QueryAll, NEW s \in 1..max_slot_number(Plain)
      PROVE  QueryAll[k][s] = IF k[2] \in shot[k[1]].alive /\ s <= Attrs[Plain[k[3]]].slots
                              THEN shot[k[1]].value[k[2] + 1][Plain[k[3]]][s] ELSE 0
 <2> DEFINE A == DOMAIN shots
            B == 0..node.max - 1
            C == DOMAIN Plain
            row(p) == [u \in 1..max_slot_number(Plain) |->
                         Shown(SnapshotAttr(p[1], p[2], Plain[p[3]], u - 1))]
 <2>1. QueryAll = [p \in A \X B \X C |-> row(p)] BY Zenon DEF QueryAll, query_for_normal
 <2>2. k[1] \in A /\ k[2] \in B /\ k[3] \in C /\ QueryAll[k] = row(k)
  <3> HIDE DEF A, B, C, row
  <3>1. k \in A \X B \X C BY <2>1
  <3> QED BY <2>1, <3>1
 <2>3. QueryAll[k] = [u \in 1..max_slot_number(Plain) |->
                        Shown(SnapshotAttr(k[1], k[2], Plain[k[3]], u - 1))]
   BY <2>2, Zenon
 <2>4. QueryAll[k][s] = Shown(SnapshotAttr(k[1], k[2], Plain[k[3]], s - 1)) BY <2>3
 <2> QED BY <2>2, <2>4, RowShown
<1> QED BY <1>1, <1>2, <1>3 DEF SnapshotsAreFrozen

(***************************************************************************)
(* Whatever is written, appended, deleted, resumed, resized, reset and      *)
(* snapshotted, the frame of the dynamic backend reads as it was written    *)
(* and its snapshots as they were taken: for every layout of attributes,    *)
(* every number of nodes and slots and every limit on snapshots.            *)
(***************************************************************************)
THEOREM FrameKeepsValues == BackendSpec => []ValuesAreKept
<1>1. BackendInit => RawInv BY RawInit DEF BackendInit
<1>2. RawInv /\ [BackendNext]_backendVars => RawInv'
 <2> SUFFICES ASSUME RawInv, [BackendNext]_backendVars PROVE RawInv'
   OBVIOUS
 <2>1. CASE FrameNext BY <2>1, RawStep
 <2>2. CASE UNCHANGED frameVars BY <2>2 DEF frameVars, RawInv, ShotsOK
 <2> QED BY <2>1, <2>2 DEF BackendNext, backendVars
<1>3. RawInv => ValuesAreKept BY FrameReads, SnapshotsRead DEF ValuesAreKept
<1> QED BY <1>1, <1>2, <1>3, PTL DEF BackendSpec
=============================================================================
