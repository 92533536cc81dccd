--------------------------- MODULE NPSnapshotList ---------------------------
(***************************************************************************)
(* The static (numpy) backend's frame and snapshot list                     *)
(* (backends/np_backend.pyx).  One array holds the frame in row 0 and the   *)
(* snapshots in rows 1 .. TotalSnapshots, used as a ring; two dictionaries  *)
(* map ticks to rows and back.  The optional history (NPBufferedMmap)       *)
(* appends every snapshot to a memory-mapped file.                          *)
(***************************************************************************)
EXTENDS Integers, FiniteSets, Sequences

CONSTANTS TotalSnapshots,  \* total_snapshot of NumpyBackend.setup
          Ticks,           \* the frame indices snapshots are taken at
          Data,            \* the contents of a frame
          Zero,            \* the contents of a frame after reset
          MmapBufferSize,  \* MMAP_BUFFER_SIZE
          MaxRecords       \* bound: records written to the history file

ASSUME NPAssumption ==
  /\ TotalSnapshots \in Nat \ {0}
  /\ Ticks \subseteq Nat
  /\ Zero \in Data
  /\ MmapBufferSize \in Nat \ {0}
  /\ MaxRecords \in Nat

VARIABLES frame,        \* row 0 of every node's array
          rows,         \* rows 1 .. TotalSnapshots
          tick2index,   \* _tick2index_dict
          index2tick,   \* _index2tick_dict
          cur_index,    \* _cur_index
          taken,        \* history variable: snapshots since the last reset
          history       \* the NPBufferedMmap side, see below

vars == <<frame, rows, tick2index, index2tick, cur_index, taken, history>>

max_size == TotalSnapshots + 1
Indices == 1 .. TotalSnapshots

(***************************************************************************)
(* history.enabled  _is_history_enabled                                     *)
(* history.open     _history_dict still holds the NPBufferedMmap            *)
(* history.count    its _current_record_number                              *)
(* history.asked    snapshots taken since the history was enabled           *)
(* history.error    the exception take_snapshot raised since the last reset  *)
(***************************************************************************)
NoHistory == [enabled |-> FALSE, open |-> FALSE, count |-> 0, asked |-> 0,
              error |-> "none"]

Init ==
  /\ frame = Zero
  /\ rows = [i \in Indices |-> Zero]
  /\ tick2index = [t \in {} |-> 0]
  /\ index2tick = [i \in {} |-> 0]
  /\ cur_index = 0
  /\ taken = [t \in {} |-> Zero]
  /\ history = NoHistory

\* NumpyBackend.set_attr_value / set_attr_values write row 0.
SetAttr(v) ==
  /\ frame' = v
  /\ UNCHANGED <<rows, tick2index, index2tick, cur_index, taken, history>>

\* NumpyBackend.reset: row 0 only, the snapshots stay.
ResetFrame ==
  /\ frame' = Zero
  /\ UNCHANGED <<rows, tick2index, index2tick, cur_index, taken, history>>

\* The ring position after _cur_index.
NextIndex == IF cur_index + 1 >= max_size THEN 1 ELSE cur_index + 1

\* Mutant: a tick that already has a row is given a new one.
TargetIndexNoOverwrite(t) == NextIndex

\* The row a snapshot of tick t is written to.
TargetIndex(t) ==
  IF t \in DOMAIN tick2index THEN tick2index[t] ELSE NextIndex

\* Mutant: the old tick of a reused row is not forgotten.
MappedTicksNoForget(i) == DOMAIN tick2index

\* The ticks still mapped after the old tick of row i is forgotten.
MappedTicks(i) ==
  DOMAIN tick2index \
    (IF i \in DOMAIN index2tick THEN {index2tick[i]} ELSE {})

\* NPBufferedMmap.record fails where numpy does: the dictionary entry is
\* gone, or the row is beyond the mapped window.
RecordError ==
  CASE history.enabled /\ ~history.open -> "KeyError"
    [] history.enabled /\ history.open /\ history.count >= MmapBufferSize
         -> "IndexError"
    [] OTHER -> "none"

\* One record: the counter moves on, and reload maps a new window without
\* setting the counter back.
Recorded ==
  IF ~history.enabled THEN history
  ELSE [history EXCEPT !.asked = @ + 1,
                       !.error = IF RecordError = "none" THEN @ ELSE RecordError,
                       !.count = IF RecordError = "none" THEN @ + 1 ELSE @]

TakeSnapshot(t) ==
  LET i == TargetIndex(t) IN
  /\ cur_index' = IF t \in DOMAIN tick2index THEN cur_index ELSE i
  /\ rows' = [rows EXCEPT ![i] = frame]
  /\ history' = Recorded
  /\ IF RecordError = "none"
     THEN /\ index2tick' = [j \in DOMAIN index2tick \cup {i} |->
                              IF j = i THEN t ELSE index2tick[j]]
          /\ tick2index' = [u \in MappedTicks(i) \cup {t} |->
                              IF u = t THEN i ELSE tick2index[u]]
          /\ taken' = [u \in DOMAIN taken \cup {t} |->
                              IF u = t THEN frame ELSE taken[u]]
     ELSE \* the exception leaves the loop before the dictionaries are set
          /\ tick2index' = [u \in MappedTicks(i) |-> tick2index[u]]
          /\ UNCHANGED <<index2tick, taken>>
  /\ UNCHANGED frame

\* NPSnapshotList.reset; the history stays enabled but loses its files.
ResetSnapshots ==
  /\ cur_index' = 0
  /\ tick2index' = [t \in {} |-> 0]
  /\ index2tick' = [i \in {} |-> 0]
  /\ rows' = [i \in Indices |-> Zero]
  /\ taken' = [t \in {} |-> Zero]
  /\ history' = [history EXCEPT !.open = FALSE, !.error = "none"]
  /\ UNCHANGED frame

\* A second call returns early.
EnableHistory ==
  /\ ~history.enabled
  /\ history' = [history EXCEPT !.enabled = TRUE, !.open = TRUE]
  /\ UNCHANGED <<frame, rows, tick2index, index2tick, cur_index, taken>>

\* The simulator's frame index never decreases between two resets.
InOrder(t) == \A u \in DOMAIN tick2index : u <= t

Next ==
  \/ \E v \in Data : SetAttr(v)
  \/ ResetFrame
  \/ \E t \in Ticks : /\ InOrder(t)
                      /\ history.asked < MaxRecords
                      /\ TakeSnapshot(t)
  \/ ResetSnapshots
  \/ EnableHistory

Spec == Init /\ [][Next]_vars

----------------------------------------------------------------------------
(* What a query for one tick returns: the row, or zeros as padding.          *)
Query(t) == IF t \in DOMAIN tick2index THEN rows[tick2index[t]] ELSE Zero

HistoryType ==
  [enabled : BOOLEAN, open : BOOLEAN, count : Nat, asked : Nat,
   error : {"none", "KeyError", "IndexError"}]

TypeOK ==
  /\ frame \in Data
  /\ rows \in [Indices -> Data]
  /\ DOMAIN tick2index \subseteq Ticks
  /\ tick2index \in [DOMAIN tick2index -> Indices]
  /\ DOMAIN index2tick \subseteq Indices
  /\ index2tick \in [DOMAIN index2tick -> Ticks]
  /\ cur_index \in 0 .. TotalSnapshots
  /\ history \in HistoryType

(***************************************************************************)
(* No two ticks share a row although rows are reused: every mapped tick is  *)
(* the tick its row was last written for.                                   *)
(***************************************************************************)
NoSharedRow ==
  \A t \in DOMAIN tick2index :
    /\ tick2index[t] \in DOMAIN index2tick
    /\ index2tick[tick2index[t]] = t

\* No take_snapshot of this episode has raised.
NothingRaised == history.error = "none"

(***************************************************************************)
(* The two dictionaries are each other's inverse, so that __len__, which    *)
(* counts rows, is the number of ticks that can be queried.  A snapshot     *)
(* whose recording raised breaks the second half until the next reset.      *)
(***************************************************************************)
DictsAgree ==
  /\ NoSharedRow
  /\ NothingRaised => \A i \in DOMAIN index2tick :
        /\ index2tick[i] \in DOMAIN tick2index
        /\ tick2index[index2tick[i]] = i

(***************************************************************************)
(* A query answers with the frame of the last take_snapshot of that tick,   *)
(* or with zeros once the tick has been given up; it never shows the row of *)
(* another tick although rows are reused.                                   *)
(***************************************************************************)
QueryReturnsLastTaken ==
  \A t \in Ticks :
    Query(t) = IF t \in DOMAIN tick2index THEN taken[t] ELSE Zero

(***************************************************************************)
(* The static backend behaves as the dynamic one, with or without history:  *)
(* as long as no recording raises, both keep and give up the same ticks with *)
(* the same contents.                                                       *)
(***************************************************************************)
Raw == INSTANCE RawSnapshotList WITH
         MaxSize <- TotalSnapshots,
         snapshots <- [t \in DOMAIN tick2index |-> rows[tick2index[t]]]

SameAsRawBackend ==
  Raw!RawInit /\ [][NothingRaised' => Raw!RawNext]_Raw!rawVars
=============================================================================
