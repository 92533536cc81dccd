-------------------------- MODULE RawSnapshotList --------------------------
(***************************************************************************)
(* The snapshot list of the dynamic backend (backends/raw/snapshotlist.cpp) *)
(* with the frame it copies: an ordered map from a tick to the frame that   *)
(* was current when the tick was last snapshotted, bounded by _max_size.    *)
(*                                                                          *)
(* The contents of the frame are abstracted to one value of Data, Zero for  *)
(* a frame whose attributes have all been reset to 0.  `taken' is a history *)
(* variable: every snapshot taken since the last reset, never evicted.      *)
(***************************************************************************)
EXTENDS Integers, FiniteSets

CONSTANTS MaxSize,   \* _max_size: how many snapshots are kept
          Ticks,     \* the frame indices snapshots are taken at
          Data,      \* the contents of a frame
          Zero       \* the contents of a frame after Frame::reset

ASSUME RawAssumption ==
  /\ MaxSize \in Nat \ {0}      \* ensure_max_size throws otherwise
  /\ Ticks \subseteq Nat
  /\ Zero \in Data

VARIABLES frame,      \* _cur_frame
          snapshots,  \* _snapshots: tick -> copied frame
          taken       \* history: every snapshot since the last reset

rawVars == <<frame, snapshots, taken>>

RawInit ==
  /\ frame = Zero
  /\ snapshots = [t \in {} |-> Zero]
  /\ taken = [t \in {} |-> Zero]

\* The first key of the ordered map, what erase(begin()) removes.
Oldest(S) == {t \in S : \A u \in S : t <= u}

\* Mutant: the size limit is compared with > instead of >=.
KeptKeysOneTooMany(t) ==
  LET rest == DOMAIN snapshots \ {t} IN
  IF Cardinality(rest) > MaxSize THEN rest \ Oldest(rest) ELSE rest

\* The keys left after erase(tick) and, at the size limit, erase(begin()).
KeptKeys(t) ==
  LET rest == DOMAIN snapshots \ {t} IN
  IF Cardinality(rest) > 0 /\ Cardinality(rest) >= MaxSize
  THEN rest \ Oldest(rest)
  ELSE rest

\* An attribute of a node is written through the frame.
SetAttr(v) ==
  /\ frame' = v
  /\ UNCHANGED <<snapshots, taken>>

\* Frame::reset, as every business engine calls it.
ResetFrame ==
  /\ frame' = Zero
  /\ UNCHANGED <<snapshots, taken>>

\* The copy of the frame takes its place in the map.
StoreCopy(t) ==
  /\ snapshots' = [u \in KeptKeys(t) \cup {t} |->
                     IF u = t THEN frame ELSE snapshots[u]]
  /\ taken' = [u \in DOMAIN taken \cup {t} |->
                     IF u = t THEN frame ELSE taken[u]]

TakeSnapshot(t) == StoreCopy(t) /\ UNCHANGED frame

ResetSnapshots ==
  /\ snapshots' = [t \in {} |-> Zero]
  /\ taken' = [t \in {} |-> Zero]
  /\ UNCHANGED frame

\* The simulator passes its frame index, which never decreases between two
\* resets (Env._simulate only ever adds to its tick).
InOrder(t) == \A u \in DOMAIN snapshots : u <= t

RawNext ==
  \/ \E v \in Data : SetAttr(v)
  \/ ResetFrame
  \/ \E t \in Ticks : InOrder(t) /\ TakeSnapshot(t)
  \/ ResetSnapshots

RawSpec == RawInit /\ [][RawNext]_rawVars

----------------------------------------------------------------------------
RawTypeOK ==
  /\ frame \in Data
  /\ DOMAIN snapshots \subseteq Ticks
  /\ \A t \in DOMAIN snapshots : snapshots[t] \in Data
  /\ DOMAIN taken \subseteq Ticks

(***************************************************************************)
(* When the limit is reached only the oldest snapshots are given up, and    *)
(* what is kept is what was copied: the list holds the newest MaxSize ticks *)
(* of the episode, each with the frame of its last take_snapshot.           *)
(***************************************************************************)
KeepsNewest ==
  /\ DOMAIN snapshots \subseteq DOMAIN taken
  /\ \A t \in DOMAIN snapshots : snapshots[t] = taken[t]
  /\ \A t \in DOMAIN taken \ DOMAIN snapshots :
        /\ \A u \in DOMAIN snapshots : t < u
        /\ Cardinality(DOMAIN snapshots) = MaxSize
  /\ Cardinality(DOMAIN snapshots) <= MaxSize
=============================================================================
