------------------------- MODULE EnvironmentProofs --------------------------
(***************************************************************************)
(* What runs around the business engines.                                  *)
(*                                                                         *)
(* The simulation loop: at the end of an episode no frame is missing, for  *)
(* every length of episode, start tick, resolution and number of           *)
(* snapshots; and each snapshot shows the end of its frame, and the        *)
(* statistics of the frames add up, whenever the start tick is a multiple  *)
(* of the resolution.                                                      *)
(*                                                                         *)
(* More processes, for any numbers of them: vectorised environments give   *)
(* every answer to the environment that was asked, and a training proxy    *)
(* gives every request the gradients of its own version.                   *)
(*                                                                         *)
(* The communication proxy: messages and replies go their way once and in  *)
(* order through every exit and rejoin of the peers.                       *)
(***************************************************************************)
EXTENDS Simulator, VectorEnv, TrainingProxy, Proxy, DataLemmas

-----------------------------------------------------------------------------
(* The dynamic backend's snapshot list: KeepsNewest holds for every size   *)
(* limit, every set of ticks and every kind of frame contents.             *)

(***************************************************************************)
(* KeepsNewest is inductive once the ticks are known to be numbers and the  *)
(* list to be finite.                                                       *)
(***************************************************************************)
RawIInv ==
  /\ DOMAIN snapshots \subseteq Ticks
  /\ DOMAIN taken \subseteq Ticks
  /\ IsFiniteSet(DOMAIN snapshots)
  /\ KeepsNewest

\* erase(begin()) removes exactly one key of a non-empty set of ticks.
LEMMA OldestIsOne ==
  ASSUME NEW S \in SUBSET Nat, S # {}
  PROVE  \E m \in S : Oldest(S) = {m} /\ \A u \in S : m <= u
<1> DEFINE R == {p \in Nat \X Nat : p[1] < p[2]}
<1>0. IsWellFoundedOn(R, Nat) BY NatLessThanWellFounded, Zenon DEF OpToRel
<1> HIDE DEF R
<1>1. PICK m \in S : \A u \in S : ~(<<u, m>> \in R) BY <1>0, WFMin, Zenon
<1>1a. \A u \in S : m <= u
 <2> SUFFICES ASSUME NEW u \in S PROVE m <= u
   OBVIOUS
 <2>1. m \in Nat /\ u \in Nat OBVIOUS
 <2>2. <<u, m>> \in Nat \X Nat BY <2>1
 <2>3. ~(u < m) BY <1>1, <2>2 DEF R
 <2> QED BY <2>1, <2>3
<1>2. Oldest(S) = {m}
 <2>1. m \in Oldest(S) BY <1>1a DEF Oldest
 <2>2. ASSUME NEW x \in Oldest(S) PROVE x = m
  <3>1. x \in S /\ x <= m BY <2>2 DEF Oldest
  <3>2. x \in Nat /\ m \in Nat /\ m <= x BY <3>1, <1>1a
  <3> QED BY <3>1, <3>2
 <2> QED BY <2>1, <2>2
<1> QED BY <1>1a, <1>2

\* What take_snapshot keeps besides the new tick: room is made for it.
LEMMA KeptKeysFacts ==
  ASSUME RawIInv, NEW t \in Ticks, InOrder(t)
  PROVE  /\ KeptKeys(t) \subseteq DOMAIN snapshots \ {t}
         /\ IsFiniteSet(KeptKeys(t))
         /\ Cardinality(KeptKeys(t)) < MaxSize
         /\ \A u \in (DOMAIN snapshots \ {t}) \ KeptKeys(t) :
               /\ \A w \in KeptKeys(t) : u < w
               /\ Cardinality(KeptKeys(t)) = MaxSize - 1
               /\ u < t
<1> DEFINE rest == DOMAIN snapshots \ {t}
           c == Cardinality(DOMAIN snapshots)
<1>1. c \in Nat /\ c <= MaxSize /\ MaxSize \in Nat /\ MaxSize > 0
  BY RawAssumption, FS_CardinalityType DEF RawIInv, KeepsNewest
<1>2. /\ IsFiniteSet(rest)
      /\ Cardinality(rest) = IF t \in DOMAIN snapshots THEN c - 1 ELSE c
  BY FS_RemoveElement DEF RawIInv
<1>3. /\ rest \subseteq Nat /\ t \in Nat
      /\ \A u \in rest : u < t
 <2>1. rest \subseteq Nat /\ t \in Nat BY RawAssumption DEF RawIInv
 <2>2. ASSUME NEW u \in rest PROVE u < t
  <3>1. u \in Nat /\ u # t /\ u <= t BY <2>1, <2>2 DEF InOrder
  <3> QED BY <3>1, <2>1
 <2> QED BY <2>1, <2>2
<1>4. CASE Cardinality(rest) > 0 /\ Cardinality(rest) >= MaxSize
 <2>1. rest # {} BY <1>4, FS_EmptySet
 <2>2. PICK m \in rest : Oldest(rest) = {m} /\ \A u \in rest : m <= u
   BY <2>1, <1>3, OldestIsOne
 <2>3. KeptKeys(t) = rest \ {m} BY <1>4, <2>2 DEF KeptKeys
 <2>4. /\ IsFiniteSet(rest \ {m})
       /\ Cardinality(rest \ {m}) = Cardinality(rest) - 1
   BY <1>2, <2>2, FS_RemoveElement
 <2>5. Cardinality(rest \ {m}) = MaxSize - 1 BY <1>1, <1>2, <1>4, <2>4
 <2>6. \A w \in rest \ {m} : m < w BY <1>3, <2>2
 <2>7. \A u \in rest \ KeptKeys(t) : u = m BY <2>3
 <2>8. m < t BY <1>3
 <2> HIDE DEF rest
 <2>9. Cardinality(KeptKeys(t)) < MaxSize BY <1>1, <2>3, <2>5
 <2> QED BY <2>3, <2>4, <2>5, <2>6, <2>7, <2>8, <2>9 DEF rest
<1>5. CASE ~(Cardinality(rest) > 0 /\ Cardinality(rest) >= MaxSize)
 <2>1. KeptKeys(t) = rest BY <1>5 DEF KeptKeys
 <2>2. Cardinality(rest) < MaxSize BY <1>1, <1>2, <1>5
 <2> QED BY <2>1, <2>2, <1>2
<1> QED BY <1>4, <1>5

\* A copy of the frame takes its place, and the oldest makes room for it.
LEMMA StoreCopyKeeps ==
  ASSUME RawIInv, NEW t \in Ticks, InOrder(t), StoreCopy(t)
  PROVE  RawIInv'
<1> DEFINE K == KeptKeys(t)
<1>1. /\ DOMAIN snapshots' = K \cup {t}
      /\ DOMAIN taken' = DOMAIN taken \cup {t}
  BY DEF StoreCopy
<1>2. /\ \A u \in K \cup {t} : snapshots'[u] = IF u = t THEN frame ELSE snapshots[u]
      /\ \A u \in DOMAIN taken \cup {t} : taken'[u] = IF u = t THEN frame ELSE taken[u]
  BY DEF StoreCopy
<1>3. /\ K \subseteq DOMAIN snapshots \ {t}
      /\ IsFiniteSet(K)
      /\ Cardinality(K) < MaxSize
      /\ \A u \in (DOMAIN snapshots \ {t}) \ K :
            /\ \A w \in K : u < w
            /\ Cardinality(K) = MaxSize - 1
            /\ u < t
  BY KeptKeysFacts
<1> HIDE DEF K
<1>4. t \notin K BY <1>3
<1>5. /\ IsFiniteSet(K \cup {t})
      /\ Cardinality(K \cup {t}) = Cardinality(K) + 1
      /\ Cardinality(K) \in Nat
  BY <1>3, <1>4, FS_AddElement, FS_CardinalityType
<1>6. MaxSize \in Nat /\ t \in Nat /\ DOMAIN taken \subseteq Nat
  BY RawAssumption DEF RawIInv
<1>7. DOMAIN snapshots' \subseteq Ticks /\ DOMAIN taken' \subseteq Ticks
  BY <1>1, <1>3 DEF RawIInv
<1>8. DOMAIN snapshots' \subseteq DOMAIN taken' BY <1>1, <1>3 DEF RawIInv, KeepsNewest
<1>9. ASSUME NEW u \in DOMAIN snapshots' PROVE snapshots'[u] = taken'[u]
  BY <1>1, <1>2, <1>3, <1>9 DEF RawIInv, KeepsNewest
<1>10. ASSUME NEW u \in DOMAIN taken' \ DOMAIN snapshots'
       PROVE  /\ \A w \in K : u < w
              /\ u < t
              /\ Cardinality(K) = MaxSize - 1
 <2>1. u \in DOMAIN taken /\ u # t /\ u \notin K BY <1>1, <1>10
 <2>2. CASE u \in DOMAIN snapshots BY <2>1, <2>2, <1>3
 <2>3. CASE u \notin DOMAIN snapshots
  <3>1. /\ \A w \in DOMAIN snapshots : u < w
        /\ Cardinality(DOMAIN snapshots) = MaxSize
    BY <2>1, <2>3 DEF RawIInv, KeepsNewest
  <3>2. DOMAIN snapshots # {} BY <3>1, RawAssumption, FS_EmptySet
  <3>3. PICK v \in DOMAIN snapshots : TRUE BY <3>2
  <3>4. u < v /\ v <= t /\ v \in Nat /\ u \in Nat
    BY <3>1, <3>3, <2>1, <1>6, RawAssumption DEF InOrder, RawIInv
  <3>5. u < t BY <3>4, <1>6
  <3>6. \A w \in K : u < w BY <3>1, <1>3
  <3>7. Cardinality(K) = MaxSize - 1
   <4>1. Cardinality(DOMAIN snapshots \ {t}) >= MaxSize - 1
    <5>1. Cardinality(DOMAIN snapshots \ {t}) =
            IF t \in DOMAIN snapshots THEN Cardinality(DOMAIN snapshots) - 1
                                      ELSE Cardinality(DOMAIN snapshots)
      BY FS_RemoveElement DEF RawIInv
    <5> QED BY <5>1, <3>1, <1>6
   <4>2. CASE K = DOMAIN snapshots \ {t} BY <4>1, <4>2, <1>3, <1>5, <1>6
   <4>3. CASE K # DOMAIN snapshots \ {t} BY <4>3, <1>3
   <4> QED BY <4>2, <4>3
  <3> QED BY <3>5, <3>6, <3>7
 <2> QED BY <2>2, <2>3
<1>11. Cardinality(DOMAIN snapshots') <= MaxSize BY <1>1, <1>3, <1>5, <1>6
<1>12. ASSUME NEW u \in DOMAIN taken' \ DOMAIN snapshots'
       PROVE  /\ \A w \in DOMAIN snapshots' : u < w
              /\ Cardinality(DOMAIN snapshots') = MaxSize
  BY <1>10, <1>12, <1>1, <1>5, <1>6
<1>13. KeepsNewest' BY <1>8, <1>9, <1>11, <1>12 DEF KeepsNewest
<1> QED BY <1>1, <1>5, <1>7, <1>13 DEF RawIInv

(***************************************************************************)
(* For every size limit, the list keeps exactly the newest ticks of the     *)
(* episode, each with the frame of its last take_snapshot.                  *)
(***************************************************************************)
THEOREM RawKeepsNewest == RawSpec => []KeepsNewest
<1>1. RawInit => RawIInv BY FS_EmptySet, RawAssumption DEF RawInit, RawIInv, KeepsNewest
<1>2. ASSUME RawIInv, [RawNext]_rawVars PROVE RawIInv'
 <2>1. CASE UNCHANGED <<snapshots, taken>> BY <2>1, <1>2 DEF RawIInv, KeepsNewest
 <2>2. CASE ResetSnapshots
   BY <2>2, FS_EmptySet, RawAssumption DEF ResetSnapshots, RawIInv, KeepsNewest
 <2>3. ASSUME NEW t \in Ticks, InOrder(t), TakeSnapshot(t)
       PROVE  RawIInv'
   BY <1>2, <2>3, StoreCopyKeeps DEF TakeSnapshot
 <2> QED
   BY <1>2, <2>1, <2>2, <2>3 DEF RawNext, rawVars, SetAttr, ResetFrame
<1>3. RawIInv => KeepsNewest BY DEF RawIInv
<1> QED BY <1>1, <1>2, <1>3, PTL DEF RawSpec

-----------------------------------------------------------------------------
(* The loop of an episode.                                                 *)

\* The first frame begins where the engines' test for the end of a frame
\* begins to count.
Aligned == \E m \in 0 .. StartTick : StartTick = m * Resolution

----------------------------------------------------------------------------
(***************************************************************************)
(* The inductive invariant.  Every tick that is over and ends a frame by    *)
(* the engine's test has left a snapshot under its own frame index; no      *)
(* snapshot is ahead of the loop, so the list keeps frame indices in order. *)
(***************************************************************************)

\* How many ticks are over.
Over == IF pc = "end" THEN MaxTick + 1 ELSE now

LoopInv ==
  /\ now \in 0 .. MaxTick
  /\ pc \in {"step", "execute", "yield", "end"}
  /\ pc = "end" => now = MaxTick
  /\ DOMAIN atEnd = StartTick .. StartTick + Over - 1

\* Frames up to the current one, and the last one when the episode is over.
TakenInv ==
  /\ \A k \in DOMAIN taken : k <= frame_index
  /\ \A t \in DOMAIN atEnd : EndsFrame(t) => tick_to_frame_index(t) \in DOMAIN taken
  /\ pc = "end" => frame_index \in DOMAIN taken

\* What was last stored for a frame that is over is how it ended.
ShownInv ==
  \A k \in DOMAIN taken : \A t \in DOMAIN atEnd :
    (tick_to_frame_index(t) = k /\ (t + 1 < max_tick => tick_to_frame_index(t + 1) # k))
      => taken[k] = atEnd[t]

SimInv == RawIInv /\ LoopInv /\ TakenInv

----------------------------------------------------------------------------
\* The number of frames, rounded up, is one more than the last frame's index.
LEMMA TotalFrames ==
  /\ MaxTick \div Resolution \in Nat
  /\ total_frames = MaxTick \div Resolution + 1
<1> DEFINE q == MaxTick \div Resolution
<1>1. MaxTick \in Nat /\ Resolution \in Nat \ {0} /\ StartTick \in Nat
  BY SimulatorAssumption
<1>2. q \in Nat /\ Resolution * q <= MaxTick /\ MaxTick < Resolution * q + Resolution
  BY <1>1, DivisionBounds
<1>3. total_frames = (MaxTick + Resolution) \div Resolution
  BY <1>1 DEF total_frames, max_tick
<1> HIDE DEF q
<1>4. Resolution * (q + 1) = Resolution * q + Resolution BY <1>1, <1>2
<1>5. Resolution * (q + 1) <= MaxTick + Resolution /\ MaxTick + Resolution < Resolution * (q + 1) + Resolution
  BY <1>1, <1>2, <1>4
<1>6. (MaxTick + Resolution) \div Resolution = q + 1 BY <1>1, <1>2, <1>5, DivisionUnique
<1> QED
  BY <1>2, <1>3, <1>6 DEF q

\* Frame indices stay in the range the snapshot list is made for, and grow
\* with the ticks.
LEMMA FrameIndexes ==
  ASSUME NEW t \in StartTick .. StartTick + MaxTick
  PROVE  /\ tick_to_frame_index(t) \in Ticks
         /\ tick_to_frame_index(t) \in Nat
         /\ \A u \in t .. StartTick + MaxTick : tick_to_frame_index(t) <= tick_to_frame_index(u)
<1>1. MaxTick \in Nat /\ Resolution \in Nat \ {0} /\ StartTick \in Nat
  BY SimulatorAssumption
<1>2. t - StartTick \in Nat /\ t - StartTick <= MaxTick BY <1>1
<1>3. tick_to_frame_index(t) \in Nat BY <1>1, <1>2, DivisionBounds DEF tick_to_frame_index
<1>4. tick_to_frame_index(t) <= MaxTick \div Resolution
  BY <1>1, <1>2, DivisionMonotone DEF tick_to_frame_index
<1>5. ASSUME NEW u \in t .. StartTick + MaxTick
      PROVE  tick_to_frame_index(t) <= tick_to_frame_index(u)
  BY <1>1, <1>2, DivisionMonotone DEF tick_to_frame_index
<1> QED
  BY <1>3, <1>4, <1>5, TotalFrames, FrameAssumption

\* A frame is Resolution ticks.
LEMMA TicksOfIndex ==
  ASSUME NEW t \in StartTick .. StartTick + MaxTick, NEW k \in Nat
  PROVE  tick_to_frame_index(t) = k
           <=> t >= StartTick + k * Resolution /\ t < StartTick + k * Resolution + Resolution
<1>1. MaxTick \in Nat /\ Resolution \in Nat \ {0} /\ StartTick \in Nat
  BY SimulatorAssumption
<1> DEFINE n == t - StartTick
<1>2. n \in Nat /\ tick_to_frame_index(t) = n \div Resolution /\ t = StartTick + n
  BY <1>1 DEF tick_to_frame_index
<1> HIDE DEF n
<1>3. k * Resolution = Resolution * k /\ k * Resolution \in Nat BY <1>1
<1>4. n \div Resolution = k <=> Resolution * k <= n /\ n < Resolution * k + Resolution
  BY <1>1, <1>2, DivisionBounds, DivisionUnique
<1> QED
  BY <1>1, <1>2, <1>3, <1>4

\* In an aligned episode the test for the end of a frame is true at every one.
LEMMA AlignedEnds ==
  ASSUME Aligned, NEW t \in StartTick .. StartTick + MaxTick, t + 1 <= StartTick + MaxTick,
         tick_to_frame_index(t + 1) # tick_to_frame_index(t)
  PROVE  EndsFrame(t)
<1> DEFINE k == tick_to_frame_index(t)
<1>1. MaxTick \in Nat /\ Resolution \in Nat \ {0} /\ StartTick \in Nat
  BY SimulatorAssumption
<1>2. k \in Nat BY FrameIndexes
<1>3. t \in Nat /\ t + 1 \in StartTick .. StartTick + MaxTick BY <1>1
<1>4. t >= StartTick + k * Resolution /\ t < StartTick + k * Resolution + Resolution
  BY <1>2, TicksOfIndex
<1>5. ~(t + 1 >= StartTick + k * Resolution /\ t + 1 < StartTick + k * Resolution + Resolution)
  BY <1>2, <1>3, TicksOfIndex
<1> HIDE DEF k
<1>6. k * Resolution \in Nat BY <1>1, <1>2
<1>7. t + 1 = StartTick + k * Resolution + Resolution BY <1>1, <1>3, <1>4, <1>5, <1>6
<1>8. PICK m \in 0 .. StartTick : StartTick = m * Resolution BY DEF Aligned
<1>9. t + 1 = Resolution * (m + k + 1) /\ m + k + 1 \in Nat BY <1>1, <1>2, <1>7, <1>8
<1> QED
  BY <1>1, <1>9, MultipleHasNoRest DEF EndsFrame

\* Aligned or not, the test is true at one tick of every frame that is not cut off.
LEMMA FrameHasEnd ==
  ASSUME NEW k \in Nat, k < MaxTick \div Resolution
  PROVE  \E t \in StartTick .. StartTick + MaxTick : EndsFrame(t) /\ tick_to_frame_index(t) = k
<1> DEFINE first == StartTick + k * Resolution
           q == (first + Resolution) \div Resolution
           t == Resolution * q - 1
<1>1. MaxTick \in Nat /\ Resolution \in Nat \ {0} /\ StartTick \in Nat
  BY SimulatorAssumption
<1>2. k * Resolution \in Nat /\ first \in Nat /\ first + Resolution \in Nat BY <1>1
<1>3. q \in Nat /\ Resolution * q <= first + Resolution /\ first + Resolution < Resolution * q + Resolution
  BY <1>1, <1>2, DivisionBounds
<1>4. k * Resolution + Resolution <= MaxTick
 <2> DEFINE p == MaxTick \div Resolution
 <2>1. p \in Nat /\ Resolution * p <= MaxTick BY <1>1, DivisionBounds
 <2>2. k + 1 <= p BY <2>1
 <2> HIDE DEF p
 <2>3. (k + 1) * Resolution <= Resolution * p BY <1>1, <2>1, <2>2
 <2> QED
   BY <1>1, <2>1, <2>3
<1> HIDE DEF q
<1>5. Resolution * q \in Nat BY <1>1, <1>3
<1>6. t \in Nat /\ t >= first /\ t < first + Resolution /\ t + 1 = Resolution * q
  BY <1>1, <1>2, <1>3, <1>5
<1>7. t \in StartTick .. StartTick + MaxTick BY <1>1, <1>2, <1>4, <1>6
<1>8. tick_to_frame_index(t) = k BY <1>6, <1>7, TicksOfIndex
<1>9. EndsFrame(t) BY <1>1, <1>3, <1>6, MultipleHasNoRest DEF EndsFrame
<1> QED
  BY <1>7, <1>8, <1>9

----------------------------------------------------------------------------
\* A set of numbers that holds everything above what it lacks is known by its size.
LEMMA NewestOf ==
  ASSUME NEW n \in Nat, NEW S \in SUBSET (0 .. n - 1), NEW size \in Nat \ {0},
         Cardinality(S) <= size,
         \A k \in (0 .. n - 1) \ S : Cardinality(S) = size /\ \A u \in S : k < u
  PROVE  S = {k \in 0 .. n - 1 : k >= n - size}
<1>1. IsFiniteSet(0 .. n - 1) /\ Cardinality(0 .. n - 1) = n BY FS_Interval
<1>2. IsFiniteSet(S) /\ Cardinality(S) \in Nat BY <1>1, FS_Subset, FS_CardinalityType
<1>3. CASE S = 0 .. n - 1 BY <1>1, <1>3
<1>4. CASE S # 0 .. n - 1
 <2>1. Cardinality(S) = size /\ S # {} BY <1>4, FS_EmptySet
 <2>2. PICK m \in S : \A u \in S : m <= u BY <2>1, OldestIsOne
 <2>3. S = m .. n - 1
  <3>1. m \in 0 .. n - 1 BY <2>2
  <3>2. ASSUME NEW k \in m .. n - 1 PROVE k \in S BY <2>2, <3>1, <3>2
  <3>3. ASSUME NEW u \in S PROVE u \in m .. n - 1 BY <2>2, <3>1, <3>3
  <3> QED
    BY <3>2, <3>3
 <2>4. Cardinality(S) = n - m BY <2>2, <2>3, FS_Interval
 <2> QED
   BY <2>1, <2>2, <2>3, <2>4
<1> QED
  BY <1>3, <1>4

LEMMA SimInvImplies == SimInv => EpisodeIsCovered
<1> SUFFICES ASSUME SimInv, pc = "end"
             PROVE  DOMAIN snapshots = {k \in 0 .. total_frames - 1 : k >= total_frames - calc_max_snapshots}
  BY DEF EpisodeIsCovered
<1>1. MaxTick \in Nat /\ Resolution \in Nat \ {0} /\ StartTick \in Nat
  BY SimulatorAssumption
<1>2. /\ total_frames \in Nat \ {0} /\ MaxSize \in Nat \ {0} /\ MaxSize = calc_max_snapshots
      /\ Ticks = 0 .. total_frames - 1
  BY TotalFrames, FrameAssumption, RawAssumption
<1>3. DOMAIN atEnd = StartTick .. StartTick + MaxTick /\ now = MaxTick
  BY <1>1 DEF SimInv, LoopInv, Over
<1>4. frame_index = MaxTick \div Resolution
  BY <1>1, <1>3 DEF frame_index, tick_to_frame_index, tick
<1>5. ASSUME NEW k \in 0 .. total_frames - 1 PROVE k \in DOMAIN taken
 <2>1. k \in Nat /\ k <= MaxTick \div Resolution BY <1>2, TotalFrames
 <2>2. CASE k = MaxTick \div Resolution BY <1>4, <2>2 DEF SimInv, TakenInv
 <2>3. CASE k < MaxTick \div Resolution
  <3>1. PICK t \in StartTick .. StartTick + MaxTick : EndsFrame(t) /\ tick_to_frame_index(t) = k
    BY <2>1, <2>3, FrameHasEnd
  <3> QED
    BY <1>3, <3>1 DEF SimInv, TakenInv
 <2> QED
   BY <2>1, <2>2, <2>3, TotalFrames
<1>6. DOMAIN taken = 0 .. total_frames - 1 BY <1>2, <1>5 DEF SimInv, RawIInv
<1>7. /\ DOMAIN snapshots \in SUBSET (0 .. total_frames - 1)
      /\ Cardinality(DOMAIN snapshots) <= MaxSize
      /\ \A k \in (0 .. total_frames - 1) \ DOMAIN snapshots :
           Cardinality(DOMAIN snapshots) = MaxSize /\ \A u \in DOMAIN snapshots : k < u
  BY <1>6 DEF SimInv, RawIInv, KeepsNewest
<1> QED
  BY <1>2, <1>7, NewestOf

LEMMA SimInitially == SimInit => SimInv /\ ShownInv
<1> SUFFICES ASSUME SimInit PROVE SimInv /\ ShownInv
  OBVIOUS
<1>1. RawIInv BY FS_EmptySet, RawAssumption DEF SimInit, RawInit, RawIInv, KeepsNewest
<1>2. LoopInv BY SimulatorAssumption DEF SimInit, AInit, LoopInv, Over
<1>3. TakenInv /\ ShownInv BY DEF SimInit, RawInit, TakenInv, ShownInv
<1> QED
  BY <1>1, <1>2, <1>3 DEF SimInv

----------------------------------------------------------------------------
\* Everything but snapshots, the ends of ticks and a reset.
LEMMA LoopStays ==
  ASSUME SimInv, UNCHANGED <<now, snapshots, taken, atEnd>>,
         pc' = pc \/ (pc' \in {"step", "execute", "yield"} /\ pc # "end")
  PROVE  SimInv' /\ (ShownInv => ShownInv')
<1>1. RawIInv' BY DEF SimInv, RawIInv, KeepsNewest
<1>2. LoopInv' BY DEF SimInv, LoopInv, Over
<1>3. TakenInv' BY DEF SimInv, LoopInv, TakenInv, frame_index, tick
<1>4. ShownInv => ShownInv' BY DEF ShownInv
<1> QED
  BY <1>1, <1>2, <1>3, <1>4 DEF SimInv

\* The loop stands in the newest frame.
LEMMA CurrentFrame ==
  ASSUME SimInv
  PROVE  /\ tick \in StartTick .. StartTick + MaxTick
         /\ frame_index \in Ticks /\ InOrder(frame_index)
<1>1. tick \in StartTick .. StartTick + MaxTick
  BY SimulatorAssumption DEF SimInv, LoopInv, tick
<1>2. InOrder(frame_index) BY DEF SimInv, RawIInv, KeepsNewest, TakenInv, InOrder
<1> QED
  BY <1>1, <1>2, FrameIndexes DEF frame_index

\* A frame with a tick yet to come is not over.
LEMMA NotOver ==
  ASSUME NEW t \in StartTick .. StartTick + MaxTick, NEW u \in t + 1 .. StartTick + MaxTick,
         tick_to_frame_index(t) = tick_to_frame_index(u)
  PROVE  t + 1 < max_tick /\ tick_to_frame_index(t + 1) = tick_to_frame_index(t)
<1>1. MaxTick \in Nat /\ StartTick \in Nat BY SimulatorAssumption
<1>2. t + 1 \in StartTick .. StartTick + MaxTick /\ t + 1 \in t .. StartTick + MaxTick
  BY <1>1
<1>3. tick_to_frame_index(t) <= tick_to_frame_index(t + 1) /\ tick_to_frame_index(t + 1) <= tick_to_frame_index(u)
  BY <1>2, FrameIndexes
<1>4. tick_to_frame_index(t) \in Nat /\ tick_to_frame_index(t + 1) \in Nat
  BY <1>2, FrameIndexes
<1> QED
  BY <1>1, <1>2, <1>3, <1>4 DEF max_tick

\* A snapshot of the current frame before the agent is asked: the tick is not over.
LEMMA Asking == SimInv /\ AskAgent => SimInv' /\ (ShownInv => ShownInv')
<1> SUFFICES ASSUME SimInv, AskAgent PROVE SimInv' /\ (ShownInv => ShownInv')
  OBVIOUS
<1>1. /\ pc = "execute" /\ pc' = "yield" /\ UNCHANGED <<now, atEnd>>
      /\ StoreCopy(frame_index)
  BY DEF AskAgent, TakeSnapshot, agendaVars
<1>2. /\ tick \in StartTick .. StartTick + MaxTick
      /\ frame_index \in Ticks /\ InOrder(frame_index)
  BY CurrentFrame
<1>3. RawIInv' BY <1>1, <1>2, StoreCopyKeeps DEF SimInv
<1>4. LoopInv' BY <1>1 DEF SimInv, LoopInv, Over
<1>5. /\ DOMAIN taken' = DOMAIN taken \cup {frame_index}
      /\ \A k \in DOMAIN taken : k # frame_index => taken'[k] = taken[k]
  BY <1>1 DEF StoreCopy
<1>6. frame_index' = frame_index BY <1>1 DEF frame_index, tick
<1>7. TakenInv'
 <2>1. frame_index <= frame_index BY <1>2, FrameIndexes DEF frame_index
 <2> QED
   BY <1>1, <1>5, <1>6, <2>1 DEF SimInv, TakenInv
<1>8. ASSUME ShownInv PROVE ShownInv'
 <2> SUFFICES ASSUME NEW k \in DOMAIN taken', NEW t \in DOMAIN atEnd, tick_to_frame_index(t) = k,
                     t + 1 < max_tick => tick_to_frame_index(t + 1) # k
              PROVE  taken'[k] = atEnd[t]
   BY <1>1 DEF ShownInv
 <2>1. t \in StartTick .. StartTick + MaxTick /\ tick \in t + 1 .. StartTick + MaxTick
   BY <1>1, <1>2, SimulatorAssumption DEF SimInv, LoopInv, Over, tick
 <2>2. k # frame_index BY <1>2, <2>1, NotOver DEF frame_index
 <2> QED
   BY <1>5, <1>8, <2>2 DEF ShownInv
<1> QED
  BY <1>3, <1>4, <1>7, <1>8 DEF SimInv

\* The tick is over: its end is on record, and in the snapshot if the frame is over.
LEMMA Posting == SimInv /\ PostStep => SimInv' /\ (Aligned /\ ShownInv => ShownInv')
<1> SUFFICES ASSUME SimInv, PostStep PROVE SimInv' /\ (Aligned /\ ShownInv => ShownInv')
  OBVIOUS
<1>1. /\ pc = "execute"
      /\ IF SnapshotDue THEN StoreCopy(frame_index) ELSE UNCHANGED <<snapshots, taken>>
      /\ atEnd' = [t \in DOMAIN atEnd \cup {tick} |-> IF t = tick THEN frame ELSE atEnd[t]]
      /\ IF now = MaxTick THEN pc' = "end" /\ now' = now ELSE pc' = "step" /\ now' = now + 1
  BY DEF PostStep
<1>2. /\ tick \in StartTick .. StartTick + MaxTick /\ now \in 0 .. MaxTick
      /\ frame_index \in Ticks /\ InOrder(frame_index)
      /\ MaxTick \in Nat /\ StartTick \in Nat /\ tick = StartTick + now
  BY CurrentFrame, SimulatorAssumption DEF SimInv, LoopInv, tick
<1>3. RawIInv'
 <2>1. CASE SnapshotDue BY <1>1, <1>2, <2>1, StoreCopyKeeps DEF SimInv
 <2>2. CASE ~ SnapshotDue BY <1>1, <2>2 DEF SimInv, RawIInv, KeepsNewest
 <2> QED
   BY <2>1, <2>2
<1>4. DOMAIN atEnd = StartTick .. tick - 1 BY <1>1, <1>2 DEF SimInv, LoopInv, Over
<1>5. DOMAIN atEnd' = StartTick .. tick /\ \A t \in DOMAIN atEnd' : atEnd'[t] = IF t = tick THEN frame ELSE atEnd[t]
 <2>1. DOMAIN atEnd' = DOMAIN atEnd \cup {tick} BY <1>1
 <2>2. DOMAIN atEnd \cup {tick} = StartTick .. tick BY <1>2, <1>4
 <2> QED
   BY <1>1, <2>1, <2>2
<1>6. LoopInv' BY <1>1, <1>2, <1>5 DEF LoopInv, Over
<1>7. frame_index <= frame_index' /\ (now = MaxTick => frame_index' = frame_index)
 <2>1. tick' \in tick .. StartTick + MaxTick /\ (now = MaxTick => tick' = tick)
   BY <1>1, <1>2 DEF tick
 <2>2. frame_index' = tick_to_frame_index(tick') BY DEF frame_index, tick_to_frame_index
 <2> QED
   BY <1>2, <2>1, <2>2, FrameIndexes DEF frame_index
<1>8. /\ DOMAIN taken \subseteq DOMAIN taken' /\ DOMAIN taken' \subseteq DOMAIN taken \cup {frame_index}
      /\ \A k \in DOMAIN taken : k # frame_index => taken'[k] = taken[k]
      /\ SnapshotDue => frame_index \in DOMAIN taken' /\ taken'[frame_index] = frame
  BY <1>1 DEF StoreCopy
<1>9. TakenInv'
 <2>1. \A k \in DOMAIN taken' : k <= frame_index'
  <3>1. DOMAIN taken \subseteq Nat /\ frame_index \in Nat /\ frame_index' \in Nat
   <4>1. tick' \in StartTick .. StartTick + MaxTick /\ frame_index' = tick_to_frame_index(tick')
     BY <1>1, <1>2 DEF tick, frame_index, tick_to_frame_index
   <4> QED
     BY <1>2, <4>1, FrameIndexes, RawAssumption DEF SimInv, RawIInv, frame_index
  <3>2. \A k \in DOMAIN taken : k <= frame_index BY DEF SimInv, TakenInv
  <3> QED
    BY <1>7, <1>8, <3>1, <3>2
 <2>2. ASSUME NEW t \in DOMAIN atEnd', EndsFrame(t) PROVE tick_to_frame_index(t) \in DOMAIN taken'
  <3>1. CASE t = tick BY <1>8, <2>2, <3>1 DEF SnapshotDue, frame_index
  <3>2. CASE t # tick BY <1>2, <1>4, <1>5, <1>8, <2>2, <3>2 DEF SimInv, TakenInv
  <3> QED
    BY <3>1, <3>2
 <2>3. pc' = "end" => frame_index' \in DOMAIN taken' BY <1>1, <1>7, <1>8 DEF SnapshotDue
 <2> QED
   BY <2>1, <2>2, <2>3 DEF TakenInv, EndsFrame, tick_to_frame_index
<1>10. ASSUME Aligned, ShownInv PROVE ShownInv'
 <2> SUFFICES ASSUME NEW k \in DOMAIN taken', NEW t \in DOMAIN atEnd', tick_to_frame_index(t) = k,
                     t + 1 < max_tick => tick_to_frame_index(t + 1) # k
              PROVE  taken'[k] = atEnd'[t]
   BY DEF ShownInv, tick_to_frame_index, max_tick
 <2>1. CASE t = tick
  <3>1. SnapshotDue
   <4>1. CASE now = MaxTick BY <4>1 DEF SnapshotDue
   <4>2. CASE now # MaxTick
    <5>1. t + 1 <= StartTick + MaxTick /\ t + 1 < max_tick BY <1>2, <2>1, <4>2 DEF max_tick
    <5> QED
      BY <1>2, <1>10, <2>1, <5>1, AlignedEnds DEF SnapshotDue
   <4> QED
     BY <4>1, <4>2
  <3> QED
    BY <1>5, <1>8, <2>1, <3>1 DEF frame_index
 <2>2. CASE t # tick
  <3>1. t \in DOMAIN atEnd /\ t \in StartTick .. StartTick + MaxTick /\ tick \in t + 1 .. StartTick + MaxTick
    BY <1>2, <1>4, <1>5, <2>2
  <3>2. k # frame_index BY <1>2, <3>1, NotOver DEF frame_index
  <3> QED
    BY <1>5, <1>8, <1>10, <2>2, <3>1, <3>2 DEF ShownInv
 <2> QED
   BY <2>1, <2>2
<1> QED
  BY <1>3, <1>6, <1>9, <1>10 DEF SimInv

LEMMA Resetting == SimInv /\ EnvReset => SimInv' /\ ShownInv'
<1> SUFFICES ASSUME SimInv, EnvReset PROVE SimInv' /\ ShownInv'
  OBVIOUS
<1>1. /\ now' = 0 /\ pc' = "step" /\ DOMAIN snapshots' = {} /\ DOMAIN taken' = {} /\ DOMAIN atEnd' = {}
  BY DEF EnvReset, AReset
<1>2. RawIInv' BY <1>1, FS_EmptySet, RawAssumption DEF RawIInv, KeepsNewest
<1>3. LoopInv' BY <1>1, SimulatorAssumption DEF LoopInv, Over
<1>4. TakenInv' /\ ShownInv' BY <1>1 DEF TakenInv, ShownInv
<1> QED
  BY <1>2, <1>3, <1>4 DEF SimInv

LEMMA SimStep == SimInv /\ [SimNext]_simVars => SimInv' /\ (Aligned /\ ShownInv => ShownInv')
<1> SUFFICES ASSUME SimInv, [SimNext]_simVars PROVE SimInv' /\ (Aligned /\ ShownInv => ShownInv')
  OBVIOUS
<1>1. ASSUME NEW t \in AgendaTicks, NEW k \in {"atom", "decision"}, EngineInserts(t, k)
      PROVE  UNCHANGED <<now, snapshots, taken, atEnd, pc>>
  BY <1>1 DEF EngineInserts, AInsert, rawVars
<1>2. ASSUME EngineStepped
      PROVE  UNCHANGED <<now, snapshots, taken, atEnd>> /\ pc' = "execute" /\ pc # "end"
  BY <1>2 DEF EngineStepped, agendaVars, rawVars
<1>3. ASSUME RunEvent PROVE UNCHANGED <<now, snapshots, taken, atEnd, pc>>
  BY <1>3 DEF RunEvent, AStart, SetAttr, rawVars
<1>4. ASSUME EventDone PROVE UNCHANGED <<now, snapshots, taken, atEnd, pc>>
  BY <1>4 DEF EventDone, AFinish, rawVars
<1>5. ASSUME NEW g \in 0 .. MaxEvents, StepWithAction(g)
      PROVE  UNCHANGED <<now, snapshots, taken, atEnd>> /\ pc' = "execute" /\ pc # "end"
  BY <1>5 DEF StepWithAction, AAnswer, rawVars
<1>6. ASSUME UNCHANGED simVars PROVE UNCHANGED <<now, snapshots, taken, atEnd, pc>>
  BY <1>6 DEF simVars, agendaVars, rawVars
<1>7. ASSUME UNCHANGED <<now, snapshots, taken, atEnd>>,
             pc' = pc \/ (pc' \in {"step", "execute", "yield"} /\ pc # "end")
      PROVE  SimInv' /\ (Aligned /\ ShownInv => ShownInv')
  BY <1>7, LoopStays
<1>8. \/ UNCHANGED <<now, snapshots, taken, atEnd, pc>>
      \/ UNCHANGED <<now, snapshots, taken, atEnd>> /\ pc' = "execute" /\ pc # "end"
      \/ AskAgent \/ PostStep \/ EnvReset
  BY <1>1, <1>2, <1>3, <1>4, <1>5, <1>6 DEF SimNext
<1>9. CASE UNCHANGED <<now, snapshots, taken, atEnd, pc>> BY <1>7, <1>9
<1>10. CASE UNCHANGED <<now, snapshots, taken, atEnd>> /\ pc' = "execute" /\ pc # "end"
  BY <1>7, <1>10
<1>11. CASE AskAgent \/ PostStep \/ EnvReset BY <1>11, Asking, Posting, Resetting
<1> QED
  BY <1>8, <1>9, <1>10, <1>11

\* The last tick of a frame is the greatest of its ticks.
LEMMA ShownInvImplies == SimInv /\ ShownInv => SnapshotIsEndOfFrame
<1> SUFFICES ASSUME SimInv, ShownInv, NEW k \in DOMAIN snapshots,
                    TicksOfFrame(k) # {}, TicksOfFrame(k) \subseteq DOMAIN atEnd
             PROVE  snapshots[k] = atEnd[Max(TicksOfFrame(k))]
  BY DEF SnapshotIsEndOfFrame
<1> DEFINE ts == TicksOfFrame(k)
           first == StartTick + k * Resolution
           m == Max(ts)
<1>1. MaxTick \in Nat /\ Resolution \in Nat \ {0} /\ StartTick \in Nat
  BY SimulatorAssumption
<1>2. k \in Nat /\ k \in DOMAIN taken /\ snapshots[k] = taken[k] /\ k * Resolution \in Nat /\ first \in Nat
 <2>1. k \in Nat /\ k \in DOMAIN taken /\ snapshots[k] = taken[k]
   BY RawAssumption DEF SimInv, RawIInv, KeepsNewest
 <2> QED
   BY <1>1, <2>1
<1>3. \A t : t \in ts <=> t \in StartTick .. StartTick + MaxTick /\ t >= first /\ t < first + Resolution
  BY <1>1, <1>2 DEF TicksOfFrame, max_tick
<1> HIDE DEF ts, first
<1>4. m \in ts /\ \A t \in ts : m >= t
 <2>1. PICK n \in ts : TRUE BY DEF ts
 <2>2. first <= StartTick + MaxTick BY <1>1, <1>2, <1>3, <2>1
 <2>3. \E n2 \in ts : \A t \in ts : n2 >= t
  <3>1. CASE first + Resolution - 1 <= StartTick + MaxTick
   <4>1. first + Resolution - 1 \in ts BY <1>1, <1>2, <1>3, <3>1 DEF first
   <4>2. \A t \in ts : first + Resolution - 1 >= t BY <1>1, <1>2, <1>3
   <4> QED
     BY <4>1, <4>2
  <3>2. CASE ~(first + Resolution - 1 <= StartTick + MaxTick)
   <4>1. StartTick + MaxTick \in ts BY <1>1, <1>2, <1>3, <2>2, <3>2
   <4>2. \A t \in ts : StartTick + MaxTick >= t BY <1>1, <1>3
   <4> QED
     BY <4>1, <4>2
  <3> QED
    BY <3>1, <3>2
 <2> QED
   BY <2>3 DEF Max
<1>5. m \in StartTick .. StartTick + MaxTick /\ m >= first /\ m < first + Resolution /\ m \in DOMAIN atEnd
  BY <1>3, <1>4 DEF ts
<1> HIDE DEF m
<1>6. tick_to_frame_index(m) = k BY <1>2, <1>5, TicksOfIndex DEF first
<1>7. ASSUME m + 1 < max_tick PROVE tick_to_frame_index(m + 1) # k
 <2>1. m + 1 \in StartTick .. StartTick + MaxTick /\ m + 1 \notin ts
   BY <1>1, <1>4, <1>5, <1>7 DEF max_tick
 <2> QED
   BY <1>2, <1>3, <2>1, TicksOfIndex DEF first
<1>8. taken[k] = atEnd[m] BY <1>2, <1>5, <1>6, <1>7 DEF ShownInv
<1> QED
  BY <1>2, <1>8 DEF m, ts

----------------------------------------------------------------------------
(* The statistics by frame.                                                *)

Counts == [events : Nat, recent : Nat]
Recents == [k \in DOMAIN taken |-> taken[k].recent]
Before(k) == {u \in DOMAIN taken : u < k}

(***************************************************************************)
(* What has been counted in the episode is what the snapshots of the       *)
(* frames before show and what the current frame has counted; a snapshot   *)
(* of the current frame, which a decision asked for, does not count yet.   *)
(***************************************************************************)
StatInv ==
  /\ frame \in Counts
  /\ \A k \in DOMAIN taken : taken[k] \in Counts
  /\ frame.events = IF pc = "end" THEN SumFunctionOnSet(Recents, DOMAIN taken)
                    ELSE SumFunctionOnSet(Recents, Before(frame_index)) + frame.recent

LEMMA FrameSets ==
  ASSUME SimInv
  PROVE  /\ IsFiniteSet(DOMAIN taken)
         /\ \A k : IsFiniteSet(Before(k)) /\ Before(k) \subseteq DOMAIN taken
         /\ DOMAIN taken \subseteq Nat
<1>1. DOMAIN taken \subseteq 0 .. total_frames - 1 BY FrameAssumption DEF SimInv, RawIInv
<1>2. total_frames - 1 \in Int BY TotalFrames
<1>3. IsFiniteSet(0 .. total_frames - 1)
 <2>1. 0 \in Int OBVIOUS
 <2> QED BY <1>2, <2>1, FS_Interval
<1>4. IsFiniteSet(DOMAIN taken) BY <1>1, <1>3, FS_Subset
<1>5. \A k : Before(k) \subseteq DOMAIN taken BY DEF Before
<1> QED BY <1>1, <1>4, <1>5, FS_Subset

\* In an aligned episode a new frame begins after every one that ended.
LEMMA NextFrame ==
  ASSUME Aligned, NEW t \in StartTick .. StartTick + MaxTick, t + 1 <= StartTick + MaxTick
  PROVE  tick_to_frame_index(t + 1) = IF EndsFrame(t) THEN tick_to_frame_index(t) + 1 ELSE tick_to_frame_index(t)
<1> DEFINE k == tick_to_frame_index(t)
<1>1. MaxTick \in Nat /\ Resolution \in Nat \ {0} /\ StartTick \in Nat
  BY SimulatorAssumption
<1>2. k \in Nat BY FrameIndexes
<1>3. t \in Nat /\ t + 1 \in StartTick .. StartTick + MaxTick BY <1>1
<1>4. t >= StartTick + k * Resolution /\ t < StartTick + k * Resolution + Resolution
  BY <1>2, TicksOfIndex
<1>5. CASE ~EndsFrame(t) BY <1>5, AlignedEnds
<1>6. CASE EndsFrame(t)
 <2> HIDE DEF k
 <2>1. PICK q \in Nat : t + 1 = Resolution * q
  <3>1. t + 1 \in Nat /\ (t + 1) % Resolution = 0 BY <1>3, <1>6 DEF EndsFrame
  <3> QED BY <1>1, <3>1, NoRestIsMultiple
 <2>2. PICK m \in 0 .. StartTick : StartTick = m * Resolution BY DEF Aligned
 <2>3. m \in Nat BY <1>1, <2>2
 <2>4. Resolution * (m + k) = StartTick + k * Resolution /\ Resolution * (m + k + 1) = StartTick + k * Resolution + Resolution
   BY <1>1, <1>2, <2>2, <2>3
 <2>5. q = m + k + 1
  <3>1. Resolution * q > Resolution * (m + k) /\ Resolution * q <= Resolution * (m + k + 1)
    BY <1>1, <1>2, <1>3, <1>4, <2>1, <2>3, <2>4
  <3>2. CASE q <= m + k
   <4>1. Resolution * q <= Resolution * (m + k) BY <1>1, <1>2, <2>3, <3>2
   <4>2. Resolution * q \in Int /\ Resolution * (m + k) \in Int BY <1>1, <1>2, <2>3
   <4> QED BY <3>1, <4>1, <4>2
  <3>3. CASE q >= m + k + 2
   <4>1. Resolution * q >= Resolution * (m + k + 2) /\ Resolution * (m + k + 2) = Resolution * (m + k + 1) + Resolution
     BY <1>1, <1>2, <2>3, <3>3
   <4>2. Resolution * q \in Int /\ Resolution * (m + k + 1) \in Int BY <1>1, <1>2, <2>3
   <4> QED BY <1>1, <3>1, <4>1, <4>2
  <3> QED BY <1>2, <2>3, <3>2, <3>3
 <2>6. (k + 1) * Resolution = k * Resolution + Resolution /\ k * Resolution \in Nat /\ k + 1 \in Nat
   BY <1>1, <1>2
 <2>7. t + 1 >= StartTick + (k + 1) * Resolution /\ t + 1 < StartTick + (k + 1) * Resolution + Resolution
   BY <1>1, <1>3, <2>1, <2>4, <2>5, <2>6
 <2>8. tick_to_frame_index(t + 1) = k + 1 BY <1>3, <2>6, <2>7, TicksOfIndex
 <2> QED BY <1>6, <2>8 DEF k
<1> QED BY <1>5, <1>6

\* Statistics stay while snapshots do.
LEMMA CountingOn ==
  ASSUME SimInv, StatInv, UNCHANGED <<now, taken>>, pc # "end", pc' # "end",
         \/ frame' = frame
         \/ frame' = [events |-> frame.events + 1, recent |-> frame.recent + 1]
  PROVE  StatInv'
<1>1. Recents' = Recents /\ Before(frame_index)' = Before(frame_index)
  BY DEF Recents, Before, frame_index, tick
<1> DEFINE s == SumFunctionOnSet(Recents, Before(frame_index))
<1>2. s \in Int
 <2>1. \A k \in Before(frame_index) : Recents[k] \in Int
   BY FrameSets DEF StatInv, Recents, Counts
 <2>2. IsFiniteSet(Before(frame_index)) BY FrameSets
 <2> QED BY <2>1, <2>2, SumRecursion
<1>3. frame \in Counts /\ frame.events = s + frame.recent BY DEF StatInv
<1>4. s' = s BY <1>1
<1> HIDE DEF s
<1>5. frame' \in Counts /\ frame'.events = s + frame'.recent BY <1>2, <1>3 DEF Counts
<1> QED BY <1>4, <1>5 DEF StatInv, s

NothingCounted == frame = NewFrame /\ DOMAIN taken = {} /\ pc # "end"

LEMMA CountsFrom == NothingCounted => StatInv
<1> SUFFICES ASSUME NothingCounted PROVE StatInv
  OBVIOUS
<1>1. Before(frame_index) = {} BY DEF Before, NothingCounted
<1>2. SumFunctionOnSet(Recents, {}) = 0
 <2>1. IsFiniteSet({}) /\ \A x \in {} : Recents[x] = 0 BY FS_EmptySet
 <2> QED BY <2>1, SumOfZeros
<1> QED BY <1>1, <1>2 DEF StatInv, NewFrame, Counts, NothingCounted

\* What the snapshots before the current frame show, when it is taken again.
LEMMA ShownBefore ==
  ASSUME SimInv, StatInv, StoreCopy(frame_index)
  PROVE  /\ \A k \in DOMAIN taken' : taken'[k] \in Counts
         /\ {u \in DOMAIN taken' : u < frame_index} = Before(frame_index)
         /\ DOMAIN taken' = Before(frame_index) \cup {frame_index} /\ frame_index \notin Before(frame_index)
         /\ SumFunctionOnSet(Recents', Before(frame_index)) = SumFunctionOnSet(Recents, Before(frame_index))
         /\ SumFunctionOnSet(Recents', DOMAIN taken')
              = SumFunctionOnSet(Recents, Before(frame_index)) + frame.recent
<1> DEFINE B == Before(frame_index)
<1>1. /\ DOMAIN taken' = DOMAIN taken \cup {frame_index}
      /\ \A k \in DOMAIN taken' : taken'[k] = IF k = frame_index THEN frame ELSE taken[k]
  BY DEF StoreCopy
<1>2. frame_index \in Nat /\ \A k \in DOMAIN taken : k \in Nat /\ k <= frame_index
  BY CurrentFrame, FrameSets, FrameIndexes DEF frame_index, SimInv, TakenInv
<1>3. B \subseteq DOMAIN taken /\ frame_index \notin B /\ DOMAIN taken \cup {frame_index} = B \cup {frame_index}
      /\ {u \in DOMAIN taken' : u < frame_index} = B
  BY <1>1, <1>2 DEF Before
<1>4. IsFiniteSet(B) BY FrameSets
<1>5. frame \in Counts /\ \A k \in DOMAIN taken : taken[k] \in Counts BY DEF StatInv
<1> HIDE DEF B
<1>6. \A k \in B : Recents[k] \in Int /\ Recents'[k] = Recents[k]
  BY <1>1, <1>3, <1>5 DEF Recents, Counts
<1>7. Recents'[frame_index] = frame.recent /\ frame.recent \in Int
  BY <1>1, <1>5 DEF Recents, Counts
<1>8. SumFunctionOnSet(Recents', B) = SumFunctionOnSet(Recents, B)
 <2> DEFINE f == Recents
            g == Recents'
 <2>1. \A k \in B : f[k] \in Int /\ g[k] = f[k] BY <1>6
 <2> HIDE DEF f, g
 <2>2. SumFunctionOnSet(g, B) = SumFunctionOnSet(f, B) BY <1>4, <2>1, SumSame
 <2> QED BY <2>2 DEF f, g
<1>9. SumFunctionOnSet(Recents', B \cup {frame_index}) = frame.recent + SumFunctionOnSet(Recents', B)
 <2> DEFINE g == Recents'
 <2>1. \A k \in B \cup {frame_index} : g[k] \in Int BY <1>6, <1>7
 <2>2. g[frame_index] = frame.recent BY <1>7
 <2> HIDE DEF g
 <2>3. SumFunctionOnSet(g, B \cup {frame_index}) = g[frame_index] + SumFunctionOnSet(g, B)
   BY <1>3, <1>4, <2>1, SumAdds
 <2> QED BY <2>2, <2>3 DEF g
<1>10. SumFunctionOnSet(Recents, B) \in Int BY <1>4, <1>6, SumRecursion
<1>11. \A k \in DOMAIN taken' : taken'[k] \in Counts BY <1>1, <1>5
<1>12. DOMAIN taken' = B \cup {frame_index} BY <1>1, <1>3
<1>13. SumFunctionOnSet(Recents', DOMAIN taken') = SumFunctionOnSet(Recents, B) + frame.recent
  BY <1>7, <1>8, <1>9, <1>10, <1>12
<1> QED BY <1>3, <1>8, <1>11, <1>12, <1>13 DEF B

LEMMA CountsKept ==
  ASSUME Aligned, SimInv, StatInv, [SimNext]_simVars PROVE StatInv'
<1>1. ASSUME NEW t \in AgendaTicks, NEW k \in {"atom", "decision"}, EngineInserts(t, k) PROVE StatInv'
  BY <1>1, CountingOn DEF EngineInserts, AInsert, rawVars
<1>2. CASE EngineStepped BY <1>2, CountingOn DEF EngineStepped, agendaVars, rawVars
<1>3. CASE RunEvent BY <1>3, CountingOn DEF RunEvent, AStart, SetAttr, rawVars
<1>4. CASE EventDone BY <1>4, CountingOn DEF EventDone, AFinish, rawVars
<1>5. ASSUME NEW g \in 0 .. MaxEvents, StepWithAction(g) PROVE StatInv'
  BY <1>5, CountingOn DEF StepWithAction, AAnswer, rawVars
<1>6. CASE UNCHANGED simVars
  BY <1>6 DEF simVars, agendaVars, rawVars, StatInv, Recents, Before, frame_index, tick
<1>7. CASE AskAgent
 <2>1. pc = "execute" /\ pc' = "yield" /\ frame' = frame /\ now' = now /\ StoreCopy(frame_index)
   BY <1>7 DEF AskAgent, TakeSnapshot, agendaVars
 <2>2. frame_index' = frame_index BY <2>1 DEF frame_index, tick
 <2>3. Before(frame_index)' = Before(frame_index) BY <2>1, <2>2, ShownBefore DEF Before
 <2>4. frame.events = SumFunctionOnSet(Recents, Before(frame_index)) + frame.recent
   BY <2>1 DEF StatInv
 <2>5. frame'.events = SumFunctionOnSet(Recents', Before(frame_index)') + frame'.recent
   BY <2>1, <2>3, <2>4, ShownBefore
 <2>6. \A k \in DOMAIN taken' : taken'[k] \in Counts BY <2>1, ShownBefore
 <2> QED BY <2>1, <2>5, <2>6 DEF StatInv
<1>8. CASE PostStep
 <2>1. /\ pc = "execute"
       /\ IF SnapshotDue THEN StoreCopy(frame_index) ELSE UNCHANGED taken
       /\ frame' = IF EndsFrame(tick) THEN [frame EXCEPT !.recent = 0] ELSE frame
       /\ IF now = MaxTick THEN pc' = "end" /\ now' = now ELSE pc' = "step" /\ now' = now + 1
   BY <1>8 DEF PostStep, AfterPostStep
 <2>2. frame \in Counts /\ frame' \in Counts /\ frame'.events = frame.events
       /\ frame'.recent = IF EndsFrame(tick) THEN 0 ELSE frame.recent
   BY <2>1 DEF StatInv, Counts
 <2>3. frame.events = SumFunctionOnSet(Recents, Before(frame_index)) + frame.recent
   BY <2>1 DEF StatInv
 <2>4. \A k \in DOMAIN taken' : taken'[k] \in Counts BY <2>1, ShownBefore DEF StatInv
 <2>5. CASE now = MaxTick
  <3>1. StoreCopy(frame_index) /\ pc' = "end" BY <2>1, <2>5 DEF SnapshotDue
  <3>2. frame'.events = SumFunctionOnSet(Recents', DOMAIN taken')
    BY <2>2, <2>3, <3>1, ShownBefore
  <3> QED BY <2>2, <2>4, <3>1, <3>2 DEF StatInv
 <2>6. CASE now # MaxTick
  <3>1. /\ tick \in StartTick .. StartTick + MaxTick /\ tick' = tick + 1 /\ tick + 1 <= StartTick + MaxTick
        /\ pc' = "step"
    BY <2>1, <2>6, CurrentFrame, SimulatorAssumption DEF tick, SimInv, LoopInv
  <3>2. frame_index' = IF EndsFrame(tick) THEN frame_index + 1 ELSE frame_index
   <4>1. frame_index' = tick_to_frame_index(tick') BY DEF frame_index, tick_to_frame_index
   <4>2. frame_index' = tick_to_frame_index(tick + 1) BY <3>1, <4>1
   <4> QED BY <3>1, <4>2, NextFrame DEF frame_index
  <3>3. CASE EndsFrame(tick)
   <4>1. StoreCopy(frame_index) BY <2>1, <3>3 DEF SnapshotDue
   <4>2. Before(frame_index)' = DOMAIN taken'
    <5>1. frame_index \in Nat BY <3>1, FrameIndexes DEF frame_index
    <5>2. \A k \in DOMAIN taken' : k = frame_index \/ k < frame_index
      BY <4>1, ShownBefore DEF Before
    <5>3. \A k \in DOMAIN taken' : k \in Nat
      BY <4>1, <5>1, ShownBefore, FrameSets DEF Before
    <5>4. \A k \in DOMAIN taken' : k < frame_index + 1 BY <5>1, <5>2, <5>3
    <5> QED BY <3>2, <3>3, <5>4 DEF Before
   <4>3. frame'.events = SumFunctionOnSet(Recents', DOMAIN taken') /\ frame'.recent = 0
     BY <2>2, <2>3, <3>3, <4>1, ShownBefore
   <4>4. frame'.events \in Nat BY <2>2 DEF Counts
   <4>5. frame'.events = SumFunctionOnSet(Recents', Before(frame_index)') + frame'.recent
     BY <4>2, <4>3, <4>4
   <4> QED BY <2>2, <2>4, <3>1, <4>5 DEF StatInv
  <3>4. CASE ~EndsFrame(tick)
   <4>1. UNCHANGED taken /\ frame' = frame /\ frame_index' = frame_index
     BY <2>1, <2>6, <3>2, <3>4 DEF SnapshotDue
   <4>2. Recents' = Recents /\ Before(frame_index)' = Before(frame_index)
     BY <4>1 DEF Recents, Before
   <4> QED BY <2>1, <2>2, <2>3, <2>4, <3>1, <4>1, <4>2 DEF StatInv
  <3> QED BY <3>3, <3>4
 <2> QED BY <2>5, <2>6
<1>9. CASE EnvReset
 <2>1. NothingCounted' BY <1>9 DEF EnvReset, NothingCounted
 <2> QED BY <2>1, CountsFrom, PTL
<1> QED BY <1>1, <1>2, <1>3, <1>4, <1>5, <1>6, <1>7, <1>8, <1>9 DEF SimNext

----------------------------------------------------------------------------
\* At the end of an episode the list has every frame it has room for, wherever
\* the episode starts (Env._simulate, total_frames, tick_to_frame_index).
THEOREM SimEpisodeIsCovered == SimSpec => []EpisodeIsCovered
BY SimInitially, SimStep, SimInvImplies, PTL DEF SimSpec

\* The composition keeps the promise of the snapshot list: the loop only ever
\* takes snapshots in the order of frame indices (Env._simulate).
THEOREM SimKeepsNewest == SimSpec => []KeepsNewest
<1>1. SimInv => KeepsNewest BY DEF SimInv, RawIInv
<1> QED
  BY <1>1, SimInitially, SimStep, PTL DEF SimSpec

\* In an aligned episode every snapshot of a frame that is over shows how the
\* frame ended, too, however often the agent was asked on the way
\* (Env._simulate and the engines' post_step).
THEOREM SimEpisodeIsShown ==
  ASSUME Aligned PROVE SimSpec => []EpisodeIsShown
<1>1. SimInit => SimInv /\ ShownInv BY SimInitially
<1>2. (SimInv /\ ShownInv) /\ [SimNext]_simVars => (SimInv /\ ShownInv)' BY SimStep
<1>3. SimInv /\ ShownInv => EpisodeIsShown
  BY SimInvImplies, ShownInvImplies DEF EpisodeIsShown
<1> QED
  BY <1>1, <1>2, <1>3, PTL DEF SimSpec

\* In an aligned episode the statistics that the snapshots show add up to all
\* that happened: each is counted in one frame, whatever was taken in between
\* (post_step of the engines, Env._simulate).
THEOREM SimStatisticsAddUp ==
  ASSUME Aligned PROVE SimSpec => []StatisticsAddUp
<1>1. SimInit => SimInv /\ StatInv
 <2>1. SimInit => NothingCounted BY FrameAssumption DEF SimInit, RawInit, NothingCounted
 <2> QED BY <2>1, SimInitially, CountsFrom
<1>2. (SimInv /\ StatInv) /\ [SimNext]_simVars => (SimInv /\ StatInv)'
  BY SimStep, CountsKept
<1>3. SimInv /\ StatInv => StatisticsAddUp BY DEF StatInv, StatisticsAddUp, Recents
<1> QED
  BY <1>1, <1>2, <1>3, PTL DEF SimSpec

-----------------------------------------------------------------------------
(* AnswersFitEnvironments holds for any number of environments, whenever   *)
(* each is done, however many commands are given and whichever             *)
(* environments die.                                                       *)

\* Vectorised environments by themselves.
VectorSpec == _start_environments /\ [][VectorNext]_vectorVars

----------------------------------------------------------------------------
(***************************************************************************)
(* The inductive invariant.  Answers carry no name of the environment they *)
(* come from, so what matters is that at most one command or answer is in  *)
(* a pipe, only in a pipe still to be read, and that nothing moves an      *)
(* environment between its answer and the return of the call.              *)
(***************************************************************************)

Commands == {"step", "is_done", "reset", "tick", "frame_index", "query"}
Queries == {"tick", "frame_index", "query"}

\* What environment i answers to cmd in the state it is in.
Answer(i, cmd) == [env |-> i, cmd |-> cmd, steps |-> env[i].steps, is_done |-> env[i].is_done]

\* The answers of the environments in S to cmd, in index order and not stale.
Fits(S, events, cmd) ==
  /\ S \subseteq Envs
  /\ events \in Seq([env : Envs, cmd : Commands, steps : Nat, is_done : BOOLEAN])
  /\ \A k \in DOMAIN events : events[k].env \in S
  /\ \A i \in S : \E k \in DOMAIN events : events[k].env = i
  /\ \A k, l \in DOMAIN events : k < l => events[k].env < events[l].env
  /\ \A k \in DOMAIN events : events[k] = Answer(events[k].env, cmd)

LastFits ==
  last # <<>> =>
    /\ Fits(last[1].sent, last[1].events, "step")
    /\ last[1].is_done <=> \A i \in Envs : env[i].is_done

\* No command or answer is under way.
FreeInv ==
  vec = Free =>
    /\ \A i \in Envs : down[i] = <<>> /\ up[i] = <<>>
    /\ LastFits

\* The call under way: what it has read, and what it read before (step asks twice).
CallInv ==
  vec.state = "waiting" =>
    /\ vec = [state |-> "waiting", cmd |-> vec.cmd, pipes |-> vec.pipes, sent |-> vec.sent,
              responses |-> vec.responses, step |-> vec.step]
    /\ vec.cmd \in Commands
    /\ vec.pipes \subseteq vec.sent
    /\ Fits(vec.sent \ vec.pipes, vec.responses, vec.cmd)
    /\ \A i \in vec.pipes : \A k \in DOMAIN vec.responses : vec.responses[k].env < i
    /\ vec.sent \subseteq Envs
    /\ vec.cmd = "is_done" => vec.sent = Envs /\ Fits(vec.step[1], vec.step[2], "step")
    /\ vec.cmd = "reset" => last = <<>>
    /\ vec.cmd \in Queries => LastFits

\* The command, the answer, or nothing because the environment died.
PipesInv ==
  vec.state = "waiting" =>
    \A i \in Envs :
      \/ down[i] = <<>> /\ up[i] = <<>>
      \/ i \in vec.pipes /\ down[i] = <<vec.cmd>> /\ up[i] = <<>>
      \/ i \in vec.pipes /\ down[i] = <<>> /\ up[i] = <<Answer(i, vec.cmd)>>

TypeInv ==
  /\ env \in [Envs -> [up : BOOLEAN, steps : Nat, is_done : BOOLEAN]]
  /\ vec.state \in {"idle", "waiting", "stopping", "stopped"}
  /\ vec.state = "idle" => vec = Free
  /\ DOMAIN down = Envs /\ DOMAIN up = Envs

VectorInv == TypeInv /\ FreeInv /\ CallInv /\ PipesInv

----------------------------------------------------------------------------
\* Answers stay true as long as the environments they are of do not move.
LEMMA FitsKept ==
  ASSUME NEW S, NEW events, NEW cmd, Fits(S, events, cmd),
         \A i \in S : env'[i].steps = env[i].steps /\ env'[i].is_done = env[i].is_done
  PROVE  Fits(S, events, cmd)'
<1>1. \A k \in DOMAIN events : events[k].env \in S BY DEF Fits
<1>2. \A k \in DOMAIN events : events[k] = Answer(events[k].env, cmd)'
  BY <1>1 DEF Fits, Answer
<1> QED
  BY <1>2 DEF Fits

\* Reading the answer of the next environment in index order.
LEMMA FitsExtended ==
  ASSUME NEW S, NEW events, NEW cmd \in Commands, Fits(S, events, cmd),
         env \in [Envs -> [up : BOOLEAN, steps : Nat, is_done : BOOLEAN]],
         NEW i \in Envs, \A k \in DOMAIN events : events[k].env < i
  PROVE  Fits(S \cup {i}, Append(events, Answer(i, cmd)), cmd)
<1> DEFINE all == Append(events, Answer(i, cmd))
<1>1. Answer(i, cmd) \in [env : Envs, cmd : Commands, steps : Nat, is_done : BOOLEAN]
  BY DEF Answer
<1>2. /\ all \in Seq([env : Envs, cmd : Commands, steps : Nat, is_done : BOOLEAN])
      /\ events \in Seq([env : Envs, cmd : Commands, steps : Nat, is_done : BOOLEAN])
      /\ DOMAIN all = 1 .. Len(events) + 1
      /\ DOMAIN events = 1 .. Len(events)
      /\ Len(events) \in Nat
      /\ \A k \in 1 .. Len(events) : all[k] = events[k]
      /\ all[Len(events) + 1] = Answer(i, cmd)
  BY <1>1 DEF Fits
<1> HIDE DEF all
<1>3. Answer(i, cmd).env = i BY DEF Answer
<1>4. \A k \in DOMAIN all : k \in DOMAIN events \/ k = Len(events) + 1 BY <1>2
<1>5. \A k \in DOMAIN all : all[k].env \in S \cup {i} /\ all[k] = Answer(all[k].env, cmd)
 <2> SUFFICES ASSUME NEW k \in DOMAIN all
              PROVE  all[k].env \in S \cup {i} /\ all[k] = Answer(all[k].env, cmd)
   OBVIOUS
 <2>1. CASE k \in DOMAIN events
  <3>1. all[k] = events[k] BY <1>2, <2>1
  <3> QED
    BY <2>1, <3>1 DEF Fits
 <2>2. CASE k = Len(events) + 1 BY <1>2, <1>3, <2>2
 <2> QED
   BY <1>4, <2>1, <2>2
<1>6. \A j \in S \cup {i} : \E k \in DOMAIN all : all[k].env = j
 <2>1. \A j \in S : \E k \in DOMAIN events : events[k].env = j BY DEF Fits
 <2>2. \A k \in DOMAIN events : k \in DOMAIN all /\ all[k] = events[k] BY <1>2
 <2>3. Len(events) + 1 \in DOMAIN all /\ all[Len(events) + 1].env = i BY <1>2, <1>3
 <2> QED
   BY <2>1, <2>2, <2>3
<1>7. \A k, l \in DOMAIN all : k < l => all[k].env < all[l].env
 <2> SUFFICES ASSUME NEW k \in DOMAIN all, NEW l \in DOMAIN all, k < l
              PROVE  all[k].env < all[l].env
   OBVIOUS
 <2>1. k \in DOMAIN events /\ all[k] = events[k]
  <3>1. k \in 1 .. Len(events) + 1 /\ l \in 1 .. Len(events) + 1 /\ Len(events) \in Nat
    BY <1>2
  <3>2. k \in 1 .. Len(events) BY <3>1
  <3> QED
    BY <1>2, <3>2
 <2>2. CASE l \in DOMAIN events
  <3>1. all[l] = events[l] BY <1>2, <2>2
  <3> QED
    BY <2>1, <2>2, <3>1 DEF Fits
 <2>3. CASE l = Len(events) + 1
  <3>1. all[l].env = i BY <1>2, <1>3, <2>3
  <3> QED
    BY <2>1, <3>1
 <2> QED
   BY <1>4, <2>2, <2>3
<1> QED
  BY <1>2, <1>5, <1>6, <1>7 DEF Fits, all

\* A pipe that holds one thing.
LEMMA AppendToNothing ==
  ASSUME NEW x PROVE Append(<<>>, x) = <<x>> /\ Head(<<x>>) = x /\ Tail(<<x>>) = <<>> /\ <<x>> # <<>>
OBVIOUS

\* Nothing read yet.
LEMMA FitsNothing ==
  ASSUME NEW cmd PROVE Fits({}, <<>>, cmd)
BY DEF Fits

\* What the property asks of the answers of a step.
LEMMA FitsImplies ==
  ASSUME NEW S, NEW events, Fits(S, events, "step")
  PROVE  /\ {events[k].env : k \in DOMAIN events} = S
         /\ \A k, l \in DOMAIN events : k < l => events[k].env < events[l].env
         /\ \A k \in DOMAIN events : events[k].cmd = "step" /\ events[k].steps = env[events[k].env].steps
<1>1. {events[k].env : k \in DOMAIN events} = S
 <2>1. \A j \in S : j \in {events[k].env : k \in DOMAIN events} BY DEF Fits
 <2>2. \A j \in {events[k].env : k \in DOMAIN events} : j \in S BY DEF Fits
 <2> QED
   BY <2>1, <2>2
<1>2. ASSUME NEW k \in DOMAIN events
      PROVE  events[k].cmd = "step" /\ events[k].steps = env[events[k].env].steps
 <2>1. events[k] = Answer(events[k].env, "step") BY DEF Fits
 <2>2. \A j : Answer(j, "step").cmd = "step" /\ Answer(j, "step").steps = env[j].steps
   BY DEF Answer
 <2> QED
   BY <2>1, <2>2
<1> QED
  BY <1>1, <1>2 DEF Fits

LEMMA VectorInvImplies == VectorInv => AnswersFitEnvironments
<1> SUFFICES ASSUME VectorInv, vec = Free, last # <<>>
             PROVE  AnswersFitEnvironments
  BY DEF AnswersFitEnvironments
<1>1. Fits(last[1].sent, last[1].events, "step") /\ (last[1].is_done <=> \A i \in Envs : env[i].is_done)
  BY DEF VectorInv, FreeInv, LastFits
<1> QED
  BY <1>1, FitsImplies DEF AnswersFitEnvironments

LEMMA VectorInitially == _start_environments => VectorInv
BY DEF _start_environments, VectorInv, TypeInv, FreeInv, CallInv, PipesInv, LastFits, Free

----------------------------------------------------------------------------
\* A call begins: the pipes are empty, and a command goes to those addressed.
LEMMA SendCommand ==
  ASSUME TypeInv, NEW cmd \in Commands, NEW S \in SUBSET Envs, NEW then,
         \A i \in Envs : down[i] = <<>> /\ up[i] = <<>>,
         _send_cmd(cmd, S, then), UNCHANGED <<env, up>>,
         cmd # "step" => S = Envs,
         cmd = "is_done" => Fits(then[1], then[2], "step"),
         cmd = "reset" => last' = <<>>,
         cmd \in Queries => LastFits'
  PROVE  VectorInv'
<1>1. vec' = [state |-> "waiting", cmd |-> cmd, pipes |-> S, sent |-> S, responses |-> <<>>, step |-> then]
  BY DEF _send_cmd
<1>2. TypeInv' BY <1>1 DEF TypeInv, _send_cmd
<1>3. FreeInv' BY <1>1 DEF FreeInv, Free
<1>4. PipesInv'
 <2> Append(<<>>, cmd) = <<cmd>>
   BY AppendToNothing
 <2>1. \A i \in Envs : up'[i] = <<>> /\ down'[i] = IF i \in S THEN <<cmd>> ELSE <<>>
   BY DEF _send_cmd
 <2> QED
   BY <1>1, <2>1 DEF PipesInv
<1>5. CallInv'
 <2>1. Fits(S \ S, <<>>, cmd)' BY FitsNothing, FitsKept DEF Fits
 <2>2. cmd = "is_done" => Fits(then[1], then[2], "step")' BY FitsKept
 <2> QED
   BY <1>1, <2>1, <2>2 DEF CallInv
<1> QED
  BY <1>2, <1>3, <1>4, <1>5 DEF VectorInv

----------------------------------------------------------------------------
\* The next answer is that of the environment in the first pipe, true as it is read.
LEMMA ReadAnswer == VectorInv /\ recv => VectorInv'
<1> SUFFICES ASSUME VectorInv, recv PROVE VectorInv'
  OBVIOUS
<1> USE DEF VectorInv
<1>1. PICK i \in vec.pipes :
        /\ \A j \in vec.pipes : i <= j
        /\ up[i] # <<>>
        /\ up' = [up EXCEPT ![i] = Tail(@)]
        /\ vec' = [vec EXCEPT !.pipes = @ \ {i}, !.responses = Append(@, Head(up[i]))]
  BY DEF recv
<1>2. vec.state = "waiting" /\ UNCHANGED <<env, down, last>> BY DEF recv
<1>3. i \in Envs /\ up[i] = <<Answer(i, vec.cmd)>> /\ down[i] = <<>>
  BY <1>1, <1>2 DEF CallInv, PipesInv
<1>4. Head(up[i]) = Answer(i, vec.cmd) /\ Tail(up[i]) = <<>> BY <1>3, AppendToNothing
<1>5. vec' = [state |-> "waiting", cmd |-> vec.cmd, pipes |-> vec.pipes \ {i}, sent |-> vec.sent,
              responses |-> Append(vec.responses, Answer(i, vec.cmd)), step |-> vec.step]
  BY <1>1, <1>2, <1>4 DEF CallInv
<1>6. TypeInv' /\ FreeInv' BY <1>1, <1>2, <1>5 DEF TypeInv, FreeInv, Free
<1>7. PipesInv'
 <2>1. \A j \in Envs : j # i => up'[j] = up[j] BY <1>1 DEF TypeInv
 <2>2. up'[i] = <<>> BY <1>1, <1>3, <1>4 DEF TypeInv
 <2>3. \A j : Answer(j, vec.cmd)' = Answer(j, vec.cmd) BY <1>2, <1>5 DEF Answer
 <2> QED
   BY <1>2, <1>3, <1>5, <2>1, <2>2, <2>3 DEF PipesInv
<1>8. Fits(vec.sent \ (vec.pipes \ {i}), Append(vec.responses, Answer(i, vec.cmd)), vec.cmd)
 <2>1. Fits((vec.sent \ vec.pipes) \cup {i}, Append(vec.responses, Answer(i, vec.cmd)), vec.cmd)
   BY <1>1, <1>2, <1>3, FitsExtended DEF CallInv, TypeInv
 <2>2. (vec.sent \ vec.pipes) \cup {i} = vec.sent \ (vec.pipes \ {i})
   BY <1>1, <1>2 DEF CallInv
 <2> QED
   BY <2>1, <2>2
<1>9. ASSUME NEW j \in vec.pipes \ {i}, NEW k \in DOMAIN Append(vec.responses, Answer(i, vec.cmd))
      PROVE  Append(vec.responses, Answer(i, vec.cmd))[k].env < j
 <2> DEFINE r == vec.responses
            a == Answer(i, vec.cmd)
 <2>1. Fits(vec.sent \ vec.pipes, r, vec.cmd) /\ \A l \in DOMAIN r : r[l].env < j
   BY <1>2, <1>9 DEF CallInv
 <2>2. i < j BY <1>1, <1>2, <1>3, <1>9, VectorAssumption DEF CallInv, Envs
 <2>3. a.env = i BY DEF Answer
 <2> HIDE DEF a, r
 <2>4. r \in Seq([env : Envs, cmd : Commands, steps : Nat, is_done : BOOLEAN])
   BY <2>1 DEF Fits
 <2>5. Append(r, a)[k] = a \/ (k \in DOMAIN r /\ Append(r, a)[k] = r[k])
   BY <2>4, <1>9 DEF a, r
 <2> QED
   BY <2>1, <2>2, <2>3, <2>5 DEF a, r
<1>10. CallInv'
 <2>1. vec'.step = vec.step BY <1>5
 <2>2. vec.cmd = "is_done" => Fits(vec.step[1], vec.step[2], "step")'
   BY <1>2, <2>1, FitsKept DEF CallInv
 <2>3. vec.cmd \in Queries => LastFits' BY <1>2, FitsKept DEF CallInv, LastFits
 <2> QED
   BY <1>2, <1>5, <1>8, <1>9, FitsKept, <2>2, <2>3 DEF CallInv
<1> QED
  BY <1>6, <1>7, <1>10

\* A call of the main process begins only when nothing is under way.
LEMMA CallBegins == VectorInv /\ (step \/ query \/ reset) => VectorInv'
<1> SUFFICES ASSUME VectorInv, step \/ query \/ reset PROVE VectorInv'
  OBVIOUS
<1>1. vec = Free /\ UNCHANGED <<env, up>> BY DEF step, query, reset
<1>2. TypeInv /\ LastFits /\ \A i \in Envs : down[i] = <<>> /\ up[i] = <<>>
  BY <1>1 DEF VectorInv, FreeInv
<1>3. CASE step
 <2>1. PICK S \in SUBSET Envs : _send_cmd("step", S, <<>>) BY <1>3 DEF step
 <2> QED
   BY <1>1, <1>2, <2>1, SendCommand DEF Commands, Queries
<1>4. CASE query
 <2>1. PICK cmd \in Queries : _send_cmd(cmd, Envs, <<>>) BY <1>4 DEF query, Queries
 <2>2. LastFits'
  <3>1. UNCHANGED last BY <1>4 DEF query
  <3> QED
    BY <1>1, <1>2, <3>1, FitsKept DEF LastFits
 <2>3. cmd \in Commands /\ cmd # "is_done" /\ cmd # "reset" /\ cmd # "step"
   BY DEF Queries, Commands
 <2> QED
   BY <1>1, <1>2, <2>1, <2>2, <2>3, SendCommand
<1>5. CASE reset
 <2>1. _send_cmd("reset", Envs, <<>>) /\ last' = <<>> BY <1>5 DEF reset
 <2> QED
   BY <1>1, <1>2, <2>1, SendCommand DEF Commands, Queries
<1> QED
  BY <1>3, <1>4, <1>5

\* All answers are in: step goes on to ask who is done, the others return.
LEMMA CallEnds == VectorInv /\ respond => VectorInv'
<1> SUFFICES ASSUME VectorInv, respond PROVE VectorInv'
  OBVIOUS
<1>1. vec.state = "waiting" /\ vec.pipes = {} /\ UNCHANGED <<env, up, commands>>
  BY DEF respond
<1>2. TypeInv /\ \A i \in Envs : down[i] = <<>> /\ up[i] = <<>>
  BY <1>1 DEF VectorInv, PipesInv
<1>3. vec.cmd \in Commands /\ Fits(vec.sent, vec.responses, vec.cmd)
 <2>1. vec.sent \ vec.pipes = vec.sent BY <1>1
 <2> QED
   BY <1>1, <2>1 DEF VectorInv, CallInv
<1>4. CASE vec.cmd = "step"
 <2>1. _send_cmd("is_done", Envs, <<vec.sent, vec.responses>>) BY <1>4 DEF respond
 <2> QED
   BY <1>1, <1>2, <1>3, <1>4, <2>1, SendCommand DEF Commands, Queries
<1>5. CASE vec.cmd # "step"
 <2>1. vec' = Free /\ UNCHANGED down BY <1>5 DEF respond
 <2>2. LastFits'
  <3>1. CASE vec.cmd = "is_done"
   <4> DEFINE r == [sent |-> vec.step[1], events |-> vec.step[2],
                    is_done |-> \A k \in DOMAIN vec.responses : vec.responses[k].is_done]
   <4>1. last' = <<r>> BY <3>1 DEF respond
   <4>2. Fits(vec.step[1], vec.step[2], "step") /\ vec.sent = Envs
     BY <1>1, <3>1 DEF VectorInv, CallInv
   <4>3. r.is_done <=> \A i \in Envs : env[i].is_done
    <5>1. \A k \in DOMAIN vec.responses :
            vec.responses[k].env \in Envs /\ vec.responses[k].is_done = env[vec.responses[k].env].is_done
     <6>1. \A k \in DOMAIN vec.responses :
             vec.responses[k].env \in Envs /\ vec.responses[k] = Answer(vec.responses[k].env, vec.cmd)
       BY <1>3, <4>2 DEF Fits
     <6>2. \A j : Answer(j, vec.cmd).is_done = env[j].is_done BY DEF Answer
     <6> QED
       BY <6>1, <6>2
    <5>2. \A i \in Envs : \E k \in DOMAIN vec.responses : vec.responses[k].env = i
      BY <1>3, <4>2 DEF Fits
    <5> QED
      BY <5>1, <5>2
   <4>4. last'[1].sent = vec.step[1] /\ last'[1].events = vec.step[2] /\ last'[1].is_done = r.is_done
     BY <4>1
   <4> HIDE DEF r
   <4> QED
     BY <1>1, <4>2, <4>3, <4>4, FitsKept DEF LastFits
  <3>2. CASE vec.cmd # "is_done"
   <4>1. UNCHANGED last BY <1>5, <3>2 DEF respond
   <4>2. LastFits
     BY <1>1, <1>3, <1>5, <3>2 DEF VectorInv, CallInv, Commands, Queries, LastFits
   <4> QED
     BY <1>1, <4>1, <4>2, FitsKept DEF LastFits
  <3> QED
    BY <3>1, <3>2
 <2> QED
   BY <1>1, <1>2, <2>1, <2>2 DEF VectorInv, TypeInv, FreeInv, CallInv, PipesInv, Free
<1> QED
  BY <1>4, <1>5

\* Once stop is called no answer is read any more.
LEMMA Stops == VectorInv /\ (stop \/ join) => VectorInv'
BY DEF stop, join, VectorInv, TypeInv, FreeInv, CallInv, PipesInv, Free

\* An environment moves only between a command to it and its answer, and none
\* of what the main process has read is about it.
LEMMA EnvironmentRuns ==
  ASSUME VectorInv, NEW i \in Envs, run(i) PROVE VectorInv'
<1> DEFINE moved == env'[i]
           cmd == Head(down[i])
<1>1. /\ down[i] # <<>> /\ UNCHANGED <<vec, last>>
      /\ env' = [env EXCEPT ![i] = moved]
      /\ up' = [up EXCEPT ![i] = Append(@, [env |-> i, cmd |-> cmd, steps |-> moved.steps,
                                            is_done |-> moved.is_done])]
      /\ down' = [down EXCEPT ![i] = Tail(@)]
      /\ moved \in [up : BOOLEAN, steps : Nat, is_done : BOOLEAN]
 <2>1. PICK m :
         /\ m = CASE cmd = "step" /\ ~env[i].is_done ->
                        [env[i] EXCEPT !.steps = @ + 1, !.is_done = env[i].steps + 1 >= Durations[i]]
                   [] cmd = "reset" -> [env[i] EXCEPT !.steps = 0, !.is_done = FALSE]
                   [] cmd = "stop" -> [env[i] EXCEPT !.up = FALSE]
                   [] OTHER -> env[i]
         /\ env' = [env EXCEPT ![i] = m]
         /\ up' = [up EXCEPT ![i] = Append(@, [env |-> i, cmd |-> cmd, steps |-> m.steps,
                                               is_done |-> m.is_done])]
   BY DEF run
 <2>2. m \in [up : BOOLEAN, steps : Nat, is_done : BOOLEAN]
  <3>1. env[i] \in [up : BOOLEAN, steps : Nat, is_done : BOOLEAN] BY DEF VectorInv, TypeInv
  <3>2. \A e \in [up : BOOLEAN, steps : Nat, is_done : BOOLEAN] : \A n \in Nat : \A b \in BOOLEAN :
          /\ [e EXCEPT !.steps = n, !.is_done = b] \in [up : BOOLEAN, steps : Nat, is_done : BOOLEAN]
          /\ [e EXCEPT !.up = FALSE] \in [up : BOOLEAN, steps : Nat, is_done : BOOLEAN]
    OBVIOUS
  <3>3. env[i].steps + 1 \in Nat /\ (env[i].steps + 1 >= Durations[i]) \in BOOLEAN BY <3>1
  <3>4. [env[i] EXCEPT !.steps = @ + 1, !.is_done = env[i].steps + 1 >= Durations[i]]
          \in [up : BOOLEAN, steps : Nat, is_done : BOOLEAN]
    BY <3>1, <3>2, <3>3, Zenon
  <3>5. [env[i] EXCEPT !.steps = 0, !.is_done = FALSE] \in [up : BOOLEAN, steps : Nat, is_done : BOOLEAN]
    BY <3>1, <3>2
  <3> QED
    BY <2>1, <3>1, <3>2, <3>4, <3>5
 <2>3. moved = m BY <2>1 DEF VectorInv, TypeInv
 <2> QED
   BY <2>1, <2>2, <2>3 DEF run
<1>2. TypeInv' BY <1>1 DEF VectorInv, TypeInv
<1>3. vec # Free BY <1>1 DEF VectorInv, FreeInv
<1>4. FreeInv' BY <1>1, <1>3 DEF FreeInv, Free
<1>5. CASE vec.state = "waiting"
 <2>1. i \in vec.pipes /\ down[i] = <<vec.cmd>> /\ up[i] = <<>>
   BY <1>1, <1>5 DEF VectorInv, PipesInv
 <2>2. cmd = vec.cmd /\ down'[i] = <<>> /\ up'[i] = <<Answer(i, vec.cmd)'>>
  <3>1. cmd = vec.cmd /\ Tail(down[i]) = <<>> BY <2>1, AppendToNothing
  <3>2. Answer(i, vec.cmd)' = [env |-> i, cmd |-> cmd, steps |-> moved.steps, is_done |-> moved.is_done]
    BY <1>1, <3>1 DEF Answer
  <3> HIDE DEF cmd, moved
  <3> QED
    BY <1>1, <2>1, <3>1, <3>2, AppendToNothing DEF VectorInv, TypeInv
 <2>3. \A j \in Envs : j # i => env'[j] = env[j] /\ up'[j] = up[j] /\ down'[j] = down[j]
   BY <1>1 DEF VectorInv, TypeInv
 <2>4. PipesInv'
  <3>1. \A j \in Envs : j # i => Answer(j, vec.cmd)' = Answer(j, vec.cmd)
    BY <1>1, <2>3 DEF Answer
  <3> QED
    BY <1>1, <1>5, <2>1, <2>2, <2>3, <3>1 DEF VectorInv, PipesInv
 <2>5. CallInv'
  <3>1. Fits(vec.sent \ vec.pipes, vec.responses, vec.cmd)'
   <4>1. \A j \in vec.sent \ vec.pipes : j \in Envs /\ j # i
     BY <1>5, <2>1 DEF VectorInv, CallInv
   <4> QED
     BY <1>1, <1>5, <2>3, <4>1, FitsKept DEF VectorInv, CallInv
  <3>2. vec.cmd \notin {"step", "reset"} => moved.steps = env[i].steps /\ moved.is_done = env[i].is_done
    BY <2>2 DEF run, VectorInv, TypeInv
  <3>3. vec.cmd \notin {"step", "reset"} =>
          \A j \in Envs : env'[j].steps = env[j].steps /\ env'[j].is_done = env[j].is_done
    BY <2>3, <3>2
  <3>4. vec.cmd = "is_done" => Fits(vec.step[1], vec.step[2], "step")'
   <4> SUFFICES ASSUME vec.cmd = "is_done" PROVE Fits(vec.step[1], vec.step[2], "step")'
     OBVIOUS
   <4>1. Fits(vec.step[1], vec.step[2], "step") /\ vec.step[1] \subseteq Envs
     BY <1>5 DEF VectorInv, CallInv, Fits
   <4> QED
     BY <1>1, <3>3, <4>1, FitsKept
  <3>5. vec.cmd \in Queries => LastFits'
   <4> SUFFICES ASSUME vec.cmd \in Queries, last # <<>> PROVE LastFits'
     BY <1>1 DEF LastFits
   <4>1. Fits(last[1].sent, last[1].events, "step") /\ last[1].sent \subseteq Envs
     BY <1>5 DEF VectorInv, CallInv, LastFits, Fits
   <4>2. Fits(last[1].sent, last[1].events, "step")'
     BY <1>1, <3>3, <4>1, FitsKept DEF Queries
   <4> QED
     BY <1>1, <1>5, <3>3, <4>2 DEF LastFits, VectorInv, CallInv, Queries
  <3> QED
    BY <1>1, <1>5, <3>1, <3>4, <3>5 DEF VectorInv, CallInv
 <2> QED
   BY <1>2, <1>4, <2>4, <2>5 DEF VectorInv
<1>6. CASE vec.state # "waiting" BY <1>1, <1>2, <1>4, <1>6 DEF VectorInv, CallInv, PipesInv
<1> QED
  BY <1>5, <1>6

\* An environment that dies leaves its pipe empty for good.
LEMMA EnvironmentFails ==
  ASSUME VectorInv, NEW i \in Envs, fail(i) PROVE VectorInv'
<1>1. /\ down[i] # <<>> /\ UNCHANGED <<vec, last, up>>
      /\ env' = [env EXCEPT ![i].up = FALSE]
      /\ down' = [down EXCEPT ![i] = <<>>]
  BY DEF fail
<1>2. TypeInv' BY <1>1 DEF VectorInv, TypeInv
<1>3. vec # Free BY <1>1 DEF VectorInv, FreeInv
<1>4. FreeInv' BY <1>1, <1>3 DEF FreeInv, Free
<1>5. \A j \in Envs : env'[j].steps = env[j].steps /\ env'[j].is_done = env[j].is_done
  BY <1>1 DEF VectorInv, TypeInv
<1>6. PipesInv'
 <2>1. \A j \in Envs : Answer(j, vec.cmd)' = Answer(j, vec.cmd) BY <1>1, <1>5 DEF Answer
 <2>2. \A j \in Envs : down'[j] = <<>> \/ down'[j] = down[j] BY <1>1 DEF VectorInv, TypeInv
 <2>3. vec.state = "waiting" => up[i] = <<>> /\ down'[i] = <<>>
   BY <1>1 DEF VectorInv, PipesInv, TypeInv
 <2>4. \A j \in Envs : j # i => down'[j] = down[j] BY <1>1 DEF VectorInv, TypeInv
 <2> QED
   BY <1>1, <2>1, <2>3, <2>4 DEF VectorInv, PipesInv
<1>7. CallInv'
 <2> SUFFICES ASSUME vec.state = "waiting" PROVE CallInv'
   BY <1>1 DEF CallInv
 <2>0. \A S, events, cmd : Fits(S, events, cmd) => S \subseteq Envs BY DEF Fits
 <2>1. Fits(vec.sent \ vec.pipes, vec.responses, vec.cmd)'
   BY <1>1, <1>5, <2>0, FitsKept DEF VectorInv, CallInv
 <2>2. vec.cmd = "is_done" => Fits(vec.step[1], vec.step[2], "step")'
   BY <1>1, <1>5, <2>0, FitsKept DEF VectorInv, CallInv
 <2>3. vec.cmd \in Queries => LastFits'
   BY <1>1, <1>5, <2>0, FitsKept DEF VectorInv, CallInv, LastFits
 <2> QED
   BY <1>1, <2>1, <2>2, <2>3 DEF VectorInv, CallInv
<1> QED
  BY <1>2, <1>4, <1>6, <1>7 DEF VectorInv

\* What a call of step returned is the state of the environments it
\* addressed, whatever processes die and however slow they are
\* (VectorEnv.step, EnvProcess.run).
THEOREM VectorAnswers == VectorSpec => []AnswersFitEnvironments
<1>1. VectorInv /\ [VectorNext]_vectorVars => VectorInv'
 <2>1. VectorInv /\ UNCHANGED vectorVars => VectorInv'
  <3> SUFFICES ASSUME VectorInv, UNCHANGED vectorVars PROVE VectorInv'
    OBVIOUS
  <3>1. UNCHANGED <<env, down, up, vec, last>> BY DEF vectorVars
  <3>2. LastFits => LastFits' BY <3>1, FitsKept DEF LastFits
  <3>3. TypeInv' /\ FreeInv' /\ PipesInv'
    BY <3>1, <3>2 DEF VectorInv, TypeInv, FreeInv, PipesInv, Answer
  <3>4. CallInv' BY <3>1, <3>2, FitsKept DEF VectorInv, CallInv
  <3> QED
    BY <3>3, <3>4 DEF VectorInv
 <2> QED
   BY <2>1, CallBegins, ReadAnswer, CallEnds, Stops, EnvironmentRuns, EnvironmentFails DEF VectorNext
<1> QED
  BY <1>1, VectorInitially, VectorInvImplies, PTL DEF VectorSpec

-----------------------------------------------------------------------------
(* GradientFitsRequest holds for any numbers of ops and workers, any       *)
(* parallelism each op asks for, and whenever workers start.               *)

\* A training job by itself.
TrainingSpec == Init /\ [][Next]_vars

----------------------------------------------------------------------------
(***************************************************************************)
(* The inductive invariant.  A request is split into the parts 1 .. k, and  *)
(* at any time every part is with one worker or in the cache; so k results  *)
(* in the cache are all the parts, and no worker holds one any more.        *)
(***************************************************************************)

TypeOK ==
  /\ available_workers \in Seq(Workers)
  /\ receiving \in BOOLEAN
  /\ op \in [Ops -> [state : {"idle", "waiting", "exited"}, version : Nat, left : Int]]
  /\ main.doing \in {"record", "train", "over"}
  /\ worker \in [Workers -> {"off", "up", "stopped"}]
  /\ DOMAIN requests = Ops /\ DOMAIN replies = Ops
  /\ DOMAIN result_cache = Ops /\ DOMAIN expected_num_results = Ops
  /\ DOMAIN tasks = Workers /\ DOMAIN results = Workers

\* The calls of a training step are over when the step is.
MainInv ==
  /\ main.doing = "record" => \A o \in Ops : op[o].state = "idle"
  /\ main.doing = "train" => \A o \in Ops : op[o].state # "exited"
  /\ main.doing = "over" => \A o \in Ops : op[o].state = "exited"

Tasks == [type : {"task"}, op : Ops, version : Nat, part : Nat, of : Nat]

Works(w) == \E t \in Tasks : tasks[w] = <<t>> /\ results[w] = <<>>
Returns(w) == \E t \in Tasks : tasks[w] = <<>> /\ results[w] = <<t>>
Starts(w) == tasks[w] = <<>> /\ results[w] = <<READY>>
Waits(w) == tasks[w] = <<>> /\ results[w] = <<>>
\* Only when training is over are there words of farewell, to workers that are free.
Leaves(w) ==
  /\ main.doing = "over"
  /\ tasks[w] \in Seq({EXIT}) /\ results[w] \in Seq({EXIT_ACK})

\* Where a worker may be.
WorkerInv(w) ==
  /\ worker[w] = "off" \/ w \in lost => FreeAt(w) = {} /\ Waits(w)
  /\ w \in lost => worker[w] # "off"
  /\ worker[w] # "off" /\ w \notin lost =>
       \/ FreeAt(w) = {} /\ (Works(w) \/ Returns(w) \/ Starts(w))
       \/ (\E i : FreeAt(w) = {i}) /\ (Waits(w) \/ Leaves(w))

\* The part of a request a worker holds.
Holds(w, o) ==
  \/ tasks[w] # <<>> /\ Head(tasks[w]).type = "task" /\ Head(tasks[w]).op = o
  \/ results[w] # <<>> /\ Head(results[w]).type = "task" /\ Head(results[w]).op = o
Busy(o) == {w \in Workers : Holds(w, o)}
Part(w) == IF tasks[w] # <<>> THEN Head(tasks[w]) ELSE Head(results[w])

IsPart(o, t) ==
  /\ t.part \in 1 .. expected_num_results[o]
  /\ t = SubBatch(o, op[o].version, t.part, expected_num_results[o])

\* No request of the op is under way.
Settled(o) == Busy(o) = {} /\ result_cache[o] = <<>>

\* Each part once, with a worker or in the cache, and at least one is missing.
Spread(o) ==
  /\ expected_num_results[o] \in Nat
  /\ result_cache[o] \in Seq(Tasks)
  /\ Len(result_cache[o]) < expected_num_results[o]
  /\ \A w \in Busy(o) : IsPart(o, Part(w))
  /\ \A n \in DOMAIN result_cache[o] : IsPart(o, result_cache[o][n])
  /\ \A w, x \in Busy(o) : Part(w).part = Part(x).part => w = x
  /\ \A m, n \in DOMAIN result_cache[o] : result_cache[o][m].part = result_cache[o][n].part => m = n
  /\ \A w \in Busy(o), n \in DOMAIN result_cache[o] : Part(w).part # result_cache[o][n].part

\* All parts of the version the op has.
Whole(o, parts) == ToSet(parts) = {SubBatch(o, op[o].version, i, Len(parts)) : i \in 1 .. Len(parts)}

\* A request that no worker was free for or that could not be split is not answered.
OpInv(o) ==
  /\ op[o].state = "idle" => requests[o] = <<>> /\ replies[o] = <<>> /\ Settled(o)
  /\ op[o].state = "exited" => requests[o] \in {<<>>, <<EXIT>>} /\ replies[o] = <<>> /\ Settled(o)
  /\ op[o].state = "waiting" =>
       \/ /\ requests[o] \in {<<>>, <<[type |-> "request", version |-> op[o].version]>>}
          /\ replies[o] = <<>> /\ Settled(o)
       \/ requests[o] = <<>> /\ replies[o] = <<>> /\ Spread(o)
       \/ /\ requests[o] = <<>> /\ Settled(o)
          /\ \E parts : replies[o] = <<parts>> /\ Whole(o, parts)

TrainingInv ==
  /\ TypeOK /\ MainInv
  /\ \A w \in Workers : WorkerInv(w)
  /\ \A o \in Ops : OpInv(o)

----------------------------------------------------------------------------
\* A channel that holds one message.
LEMMA OneMessage ==
  ASSUME NEW x
  PROVE  Append(<<>>, x) = <<x>> /\ Head(<<x>>) = x /\ Tail(<<x>>) = <<>> /\ <<x>> # <<>>
OBVIOUS

\* A channel that holds one word, any number of times.
LEMMA OneWord ==
  ASSUME NEW x, NEW s \in Seq({x})
  PROVE  /\ s # <<>> => Head(s) = x /\ Tail(s) \in Seq({x})
         /\ Append(s, x) \in Seq({x})
         /\ \A i \in DOMAIN s : s[i] = x
OBVIOUS

\* What a worker holds, from where it is.
LEMMA Holding ==
  ASSUME NEW w
  PROVE  /\ \A t \in Tasks : tasks[w] = <<t>> /\ results[w] = <<>> =>
              Part(w) = t /\ \A o : Holds(w, o) <=> o = t.op
         /\ \A t \in Tasks : tasks[w] = <<>> /\ results[w] = <<t>> =>
              Part(w) = t /\ \A o : Holds(w, o) <=> o = t.op
         /\ Starts(w) \/ Waits(w) \/ Leaves(w) => \A o : ~ Holds(w, o)
<1>1. ASSUME NEW t \in Tasks, tasks[w] = <<t>>, results[w] = <<>>
      PROVE  Part(w) = t /\ \A o : Holds(w, o) <=> o = t.op
  BY <1>1, OneMessage DEF Part, Holds, Tasks
<1>2. ASSUME NEW t \in Tasks, tasks[w] = <<>>, results[w] = <<t>>
      PROVE  Part(w) = t /\ \A o : Holds(w, o) <=> o = t.op
  BY <1>2, OneMessage DEF Part, Holds, Tasks
<1>3. ASSUME Starts(w) PROVE \A o : ~ Holds(w, o)
  BY <1>3, OneMessage DEF Starts, Holds, READY
<1>4. ASSUME Waits(w) PROVE \A o : ~ Holds(w, o) BY <1>4 DEF Waits, Holds
<1>5. ASSUME Leaves(w) PROVE \A o : ~ Holds(w, o)
 <2>1. tasks[w] # <<>> => Head(tasks[w]) = EXIT BY <1>5, OneWord DEF Leaves
 <2>2. results[w] # <<>> => Head(results[w]) = EXIT_ACK BY <1>5, OneWord DEF Leaves
 <2> QED
   BY <2>1, <2>2 DEF Holds, EXIT, EXIT_ACK
<1> QED
  BY <1>1, <1>2, <1>3, <1>4, <1>5

\* As many distinct parts as there are parts are all the parts.
LEMMA AllParts ==
  ASSUME NEW k \in Nat, NEW f \in [1 .. k -> 1 .. k],
         \A i, j \in 1 .. k : f[i] = f[j] => i = j
  PROVE  \A p \in 1 .. k : \E i \in 1 .. k : f[i] = p
<1>1. f \in Injection(1 .. k, 1 .. k) BY DEF Injection, IsInjective
<1>2. IsFiniteSet(1 .. k) BY FS_Interval
<1>3. f \in Surjection(1 .. k, 1 .. k) BY <1>1, <1>2, FS_Injection
<1> QED
  BY <1>3 DEF Surjection

----------------------------------------------------------------------------
\* What GradientFitsRequest asks follows.
LEMMA TrainingInvImplies == TrainingInv => GradientFitsRequest
<1> SUFFICES ASSUME TrainingInv PROVE GradientFitsRequest
  OBVIOUS
<1>1. ASSUME NEW w \in Workers
      PROVE  Cardinality(FreeAt(w)) + Cardinality(TaskAt(w)) + Cardinality(ResultAt(w))
               = IF worker[w] = "off" \/ w \in lost THEN 0 ELSE 1
 <2>1. WorkerInv(w) BY DEF TrainingInv
 <2>2. Cardinality({}) = 0 /\ \A i : Cardinality({i}) = 1 BY FS_EmptySet, FS_Singleton
 <2>3. Waits(w) \/ Starts(w) \/ Returns(w) \/ Leaves(w) => TaskAt(w) = {}
   BY OneWord DEF Waits, Starts, Returns, Leaves, TaskAt
 <2>4. Waits(w) \/ Works(w) \/ Leaves(w) => ResultAt(w) = {}
   BY OneWord DEF Waits, Works, Leaves, ResultAt
 <2>5. Works(w) => TaskAt(w) = {1} BY DEF Works, TaskAt, Tasks, EXIT
 <2>6. Starts(w) \/ Returns(w) => ResultAt(w) = {1}
   BY DEF Starts, Returns, ResultAt, Tasks, READY, EXIT_ACK
 <2>8. CASE worker[w] = "off" \/ w \in lost BY <2>1, <2>2, <2>3, <2>4, <2>8 DEF WorkerInv
 <2>9. CASE worker[w] # "off" /\ w \notin lost /\ FreeAt(w) = {}
  <3>1. Works(w) \/ Returns(w) \/ Starts(w) BY <2>1, <2>9 DEF WorkerInv
  <3> QED
   <4>0. Cardinality(FreeAt(w)) = 0 BY <2>2, <2>9
   <4>1. CASE Works(w)
    <5>1. Cardinality(TaskAt(w)) = 1 /\ Cardinality(ResultAt(w)) = 0
      BY <2>2, <2>4, <2>5, <4>1
    <5> QED
      BY <2>9, <4>0, <5>1
   <4>2. CASE Returns(w) \/ Starts(w)
    <5>1. Cardinality(TaskAt(w)) = 0 /\ Cardinality(ResultAt(w)) = 1
      BY <2>2, <2>3, <2>6, <4>2
    <5> QED
      BY <2>9, <4>0, <5>1
   <4> QED
     BY <3>1, <4>1, <4>2
 <2>10. CASE worker[w] # "off" /\ w \notin lost /\ FreeAt(w) # {}
  <3>1. (Waits(w) \/ Leaves(w)) /\ \E i : FreeAt(w) = {i} BY <2>1, <2>10 DEF WorkerInv
  <3> QED
    BY <2>2, <2>3, <2>4, <2>10, <3>1
 <2> QED
   BY <2>8, <2>9, <2>10
<1>2. ASSUME NEW o \in Ops, NEW n \in DOMAIN replies[o]
      PROVE  /\ op[o].state = "waiting" /\ Len(replies[o]) = 1
             /\ ToSet(replies[o][n]) = {SubBatch(o, op[o].version, i, Len(replies[o][n])) :
                                         i \in 1 .. Len(replies[o][n])}
 <2>1. OpInv(o) /\ op[o].state \in {"idle", "waiting", "exited"} /\ replies[o] # <<>>
   BY <1>2 DEF TrainingInv, TypeOK
 <2>2. op[o].state = "waiting" /\ \E parts : replies[o] = <<parts>> /\ Whole(o, parts)
   BY <2>1 DEF OpInv
 <2> QED
   BY <1>2, <2>2 DEF Whole
<1> QED
  BY <1>1, <1>2 DEF GradientFitsRequest, OneTaskAtATime

LEMMA TrainingInitially == Init => TrainingInv
<1> SUFFICES ASSUME Init PROVE TrainingInv
  OBVIOUS
<1>1. MainInv BY DEF Init, MainInv
<1>2. TypeOK
 <2>1. op \in [Ops -> [state : {"idle", "waiting", "exited"}, version : Nat, left : Int]]
   BY DEF Init
 <2>2. worker \in [Workers -> {"off", "up", "stopped"}] /\ available_workers \in Seq(Workers)
   BY DEF Init
 <2> QED
   BY <2>1, <2>2 DEF Init, TypeOK
<1>3. \A w \in Workers : WorkerInv(w) BY DEF Init, WorkerInv, FreeAt, Waits
<1>4. \A o \in Ops : OpInv(o) BY DEF Init, OpInv, Settled, Busy, Holds
<1> QED
  BY <1>1, <1>2, <1>3, <1>4 DEF TrainingInv

----------------------------------------------------------------------------
\* An op is not concerned by what leaves its request and the parts of it alone.
LEMMA OpKept ==
  ASSUME NEW o, OpInv(o),
         op'[o].state = op[o].state, op'[o].version = op[o].version,
         requests'[o] = requests[o], replies'[o] = replies[o],
         result_cache'[o] = result_cache[o], expected_num_results'[o] = expected_num_results[o],
         \A w \in Workers : Holds(w, o)' <=> Holds(w, o),
         \A w \in Workers : Holds(w, o) => Part(w)' = Part(w)
  PROVE  OpInv(o)'
<1>1. Busy(o)' = Busy(o) /\ \A w \in Busy(o) : Part(w)' = Part(w) BY DEF Busy
<1>2. Settled(o)' = Settled(o) BY <1>1 DEF Settled
<1>3. Spread(o) => Spread(o)'
 <2>1. \A t : IsPart(o, t) => IsPart(o, t)' BY DEF IsPart, SubBatch
 <2> QED
   BY <1>1, <2>1 DEF Spread
<1>4. \A parts : Whole(o, parts) => Whole(o, parts)' BY DEF Whole
<1> QED
  BY <1>2, <1>3, <1>4 DEF OpInv

\* A worker is not concerned by what leaves its channels and the deque alone.
LEMMA WorkerKept ==
  ASSUME NEW w, WorkerInv(w),
         tasks'[w] = tasks[w], results'[w] = results[w], worker'[w] = worker[w], lost' = lost,
         FreeAt(w)' = FreeAt(w), main.doing = "over" => main'.doing = "over"
  PROVE  WorkerInv(w)'
BY DEF WorkerInv, Works, Returns, Starts, Waits, Leaves

\* What a worker holds is in its channels.
LEMMA HoldingKept ==
  ASSUME NEW w, tasks'[w] = tasks[w], results'[w] = results[w]
  PROVE  Part(w)' = Part(w) /\ \A o : Holds(w, o)' <=> Holds(w, o)
BY DEF Part, Holds

\* A worker that holds nothing in the next state.
LEMMA FarewellHoldsNothing ==
  ASSUME NEW w, (Starts(w) \/ Waits(w) \/ Leaves(w))' PROVE \A o : ~ Holds(w, o)'
<1>1. ASSUME Starts(w)' PROVE \A o : ~ Holds(w, o)'
  BY <1>1, OneMessage DEF Starts, Holds, READY
<1>2. ASSUME Waits(w)' PROVE \A o : ~ Holds(w, o)' BY <1>2 DEF Waits, Holds
<1>3. ASSUME Leaves(w)' PROVE \A o : ~ Holds(w, o)'
 <2>1. tasks'[w] # <<>> => Head(tasks'[w]) = EXIT BY <1>3, OneWord DEF Leaves
 <2>2. results'[w] # <<>> => Head(results'[w]) = EXIT_ACK BY <1>3, OneWord DEF Leaves
 <2> QED
   BY <2>1, <2>2 DEF Holds, EXIT, EXIT_ACK
<1> QED
  BY <1>1, <1>2, <1>3

----------------------------------------------------------------------------
(***************************************************************************)
(* The main process.                                                         *)
(***************************************************************************)

LEMMA MainSteps == TrainingInv /\ (TrainStep \/ StepDone) => TrainingInv'
<1> SUFFICES ASSUME TrainingInv, TrainStep \/ StepDone PROVE TrainingInv'
  OBVIOUS
<1>1. /\ UNCHANGED <<available_workers, result_cache, expected_num_results, lost, receiving, requests,
                     replies, tasks, results, worker>>
      /\ main.doing # "over" /\ main'.doing \in {"record", "train"}
      /\ main'.doing = "record" => \A o \in Ops : op[o].state = "idle"
 <2>1. CASE TrainStep
  <3>1. main' = [main EXCEPT !.doing = "train"] /\ main.doing = "record"
    BY <2>1 DEF TrainStep
  <3>2. main'.doing \in {"train", main.doing} BY <3>1
  <3>3. \A o \in Ops : op[o].state = "idle" BY <3>1 DEF TrainingInv, MainInv
  <3> QED
    BY <2>1, <3>1, <3>2, <3>3 DEF TrainStep, proxyVars
 <2>2. CASE StepDone BY <2>2 DEF StepDone, proxyVars
 <2> QED
   BY <2>1, <2>2
<1>2. /\ op' \in [Ops -> [state : {"idle", "waiting", "exited"}, version : Nat, left : Int]]
      /\ \A o \in Ops : op'[o].state = op[o].state /\ op'[o].version = op[o].version
 <2>1. CASE TrainStep
  <3>1. PICK n \in [Ops -> 1 .. CallsPerStep] : op' = [o \in Ops |-> [op[o] EXCEPT !.left = n[o]]]
    BY <2>1 DEF TrainStep
  <3>2. \A o \in Ops : n[o] \in Int /\ op[o] \in [state : {"idle", "waiting", "exited"}, version : Nat, left : Int]
    BY DEF TrainingInv, TypeOK
  <3> QED
    BY <3>1, <3>2
 <2>2. CASE StepDone BY <2>2 DEF StepDone, TrainingInv, TypeOK
 <2> QED
   BY <2>1, <2>2
<1>3. TypeOK' BY <1>1, <1>2 DEF TrainingInv, TypeOK
<1>4. MainInv' BY <1>1, <1>2 DEF TrainingInv, TypeOK, MainInv
<1>5. \A w \in Workers : WorkerInv(w)' BY <1>1, WorkerKept DEF TrainingInv, FreeAt
<1>6. \A o \in Ops : OpInv(o)' BY <1>1, <1>2, OpKept, HoldingKept DEF TrainingInv
<1> QED
  BY <1>3, <1>4, <1>5, <1>6 DEF TrainingInv

\* The one call an op has under way is for the version it has.
LEMMA Calls ==
  ASSUME TrainingInv, NEW o \in Ops, RemoteCall(o) PROVE TrainingInv'
<1>1. /\ UNCHANGED <<available_workers, result_cache, expected_num_results, lost, receiving,
                     replies, tasks, results, worker, main>>
      /\ requests' = [requests EXCEPT ![o] = Append(@, [type |-> "request", version |-> op[o].version])]
      /\ op' = [op EXCEPT ![o].state = "waiting"]
      /\ op[o].state = "idle" /\ main.doing = "train"
  BY DEF RemoteCall, proxyVars
<1>2. TypeOK' BY <1>1 DEF TrainingInv, TypeOK
<1>3. \A x \in Ops : x # o => op'[x] = op[x] /\ requests'[x] = requests[x]
  BY <1>1 DEF TrainingInv, TypeOK
<1>4. op'[o].state = "waiting" /\ op'[o].version = op[o].version
  BY <1>1 DEF TrainingInv, TypeOK
<1>5. MainInv' BY <1>1, <1>3, <1>4 DEF TrainingInv, MainInv
<1>6. \A w \in Workers : WorkerInv(w)' BY <1>1, WorkerKept DEF TrainingInv, FreeAt
<1>7. \A x \in Ops : x # o => OpInv(x)' BY <1>1, <1>3, OpKept, HoldingKept DEF TrainingInv
<1>8. OpInv(o)'
 <2>1. requests[o] = <<>> /\ replies[o] = <<>> /\ Settled(o) BY <1>1 DEF TrainingInv, OpInv
 <2>2. Settled(o)' BY <1>1, <2>1, HoldingKept DEF Settled, Busy
 <2>3. requests'[o] = <<[type |-> "request", version |-> op'[o].version]>>
   BY <1>1, <1>4, <2>1, OneMessage DEF TrainingInv, TypeOK
 <2> QED
   BY <1>1, <1>4, <2>1, <2>2, <2>3 DEF OpInv
<1> QED
  BY <1>2, <1>5, <1>6, <1>7, <1>8 DEF TrainingInv

LEMMA Responses ==
  ASSUME TrainingInv, NEW o \in Ops, GetResponse(o) PROVE TrainingInv'
<1>1. /\ UNCHANGED <<available_workers, result_cache, expected_num_results, lost, receiving,
                     requests, tasks, results, worker, main>>
      /\ replies' = [replies EXCEPT ![o] = Tail(@)]
      /\ op' = [op EXCEPT ![o] = [state |-> "idle", version |-> @.version + 1, left |-> @.left - 1]]
      /\ op[o].state = "waiting" /\ replies[o] # <<>>
  BY DEF GetResponse, proxyVars
<1>2. TypeOK'
 <2>1. op[o].version + 1 \in Nat /\ op[o].left - 1 \in Int BY DEF TrainingInv, TypeOK
 <2> QED
   BY <1>1, <2>1 DEF TrainingInv, TypeOK
<1>3. \A x \in Ops : x # o => op'[x] = op[x] /\ replies'[x] = replies[x]
  BY <1>1 DEF TrainingInv, TypeOK
<1>4. op'[o].state = "idle" BY <1>1 DEF TrainingInv, TypeOK
<1>5. MainInv' BY <1>1, <1>3, <1>4 DEF TrainingInv, MainInv
<1>6. \A w \in Workers : WorkerInv(w)' BY <1>1, WorkerKept DEF TrainingInv, FreeAt
<1>7. \A x \in Ops : x # o => OpInv(x)' BY <1>1, <1>3, OpKept, HoldingKept DEF TrainingInv
<1>8. OpInv(o)'
 <2>1. requests[o] = <<>> /\ Settled(o) /\ \E parts : replies[o] = <<parts>>
   BY <1>1 DEF TrainingInv, OpInv
 <2>2. Settled(o)' BY <1>1, <2>1, HoldingKept DEF Settled, Busy
 <2>3. replies'[o] = <<>> BY <1>1, <2>1, OneMessage DEF TrainingInv, TypeOK
 <2> QED
   BY <1>1, <1>4, <2>1, <2>2, <2>3 DEF OpInv
<1> QED
  BY <1>2, <1>5, <1>6, <1>7, <1>8 DEF TrainingInv

LEMMA Exits == TrainingInv /\ Exit => TrainingInv'
<1> SUFFICES ASSUME TrainingInv, Exit PROVE TrainingInv'
  OBVIOUS
<1>1. /\ UNCHANGED <<available_workers, result_cache, expected_num_results, lost, receiving,
                     replies, tasks, results, worker>>
      /\ op' = [o \in Ops |-> [op[o] EXCEPT !.state = "exited"]]
      /\ main' = [main EXCEPT !.doing = "over"]
      /\ main.doing = "record"
  BY DEF Exit, proxyVars
<1>2. PICK sent \in SUBSET Ops :
        requests' = [o \in Ops |-> IF o \in sent THEN Append(requests[o], EXIT) ELSE requests[o]]
  BY DEF Exit
<1>3. main'.doing \in {"over", "record"} BY <1>1
<1>4. main'.doing = "over" BY <1>1 DEF Exit
<1>5. TypeOK' BY <1>1, <1>2, <1>4 DEF TrainingInv, TypeOK
<1>6. MainInv'
 <2>1. \A o \in Ops : op'[o].state = "exited" BY <1>1 DEF TrainingInv, TypeOK
 <2> QED
   BY <1>1, <1>4, <2>1 DEF TrainingInv, MainInv
<1>7. \A w \in Workers : WorkerInv(w)' BY <1>1, WorkerKept DEF TrainingInv, FreeAt
<1>8. ASSUME NEW o \in Ops PROVE OpInv(o)'
 <2>1. requests[o] = <<>> /\ replies[o] = <<>> /\ Settled(o)
   BY <1>1 DEF TrainingInv, MainInv, OpInv
 <2>2. Settled(o)' BY <1>1, <2>1, HoldingKept DEF Settled, Busy
 <2>3. requests'[o] \in {<<>>, <<EXIT>>} BY <1>2, <2>1, OneMessage
 <2>4. op'[o].state = "exited" BY <1>1 DEF TrainingInv, TypeOK
 <2> QED
   BY <1>1, <2>1, <2>2, <2>3, <2>4 DEF OpInv
<1> QED
  BY <1>5, <1>6, <1>7, <1>8 DEF TrainingInv

----------------------------------------------------------------------------
(***************************************************************************)
(* The workers.                                                              *)
(***************************************************************************)

LEMMA Starting ==
  ASSUME TrainingInv, NEW w \in Workers, WorkerStarts(w) PROVE TrainingInv'
<1>1. /\ UNCHANGED <<available_workers, result_cache, expected_num_results, lost, receiving,
                     requests, replies, tasks, op, main>>
      /\ results' = [results EXCEPT ![w] = Append(@, READY)]
      /\ worker' = [worker EXCEPT ![w] = "up"]
      /\ worker[w] = "off"
  BY DEF WorkerStarts, proxyVars
<1>2. TypeOK' /\ MainInv' BY <1>1 DEF TrainingInv, TypeOK, MainInv
<1>3. \A x \in Workers : x # w => tasks'[x] = tasks[x] /\ results'[x] = results[x] /\ worker'[x] = worker[x]
  BY <1>1 DEF TrainingInv, TypeOK
<1>4. \A x : FreeAt(x)' = FreeAt(x) BY <1>1 DEF FreeAt
<1>5. Waits(w) /\ FreeAt(w) = {} /\ w \notin lost BY <1>1 DEF TrainingInv, WorkerInv
<1>6. Starts(w)' /\ worker'[w] # "off"
  BY <1>1, <1>5, OneMessage DEF Waits, Starts, TrainingInv, TypeOK
<1>7. \A x \in Workers : WorkerInv(x)'
 <2>1. WorkerInv(w)' BY <1>1, <1>4, <1>5, <1>6 DEF WorkerInv
 <2> QED
   BY <1>1, <1>3, <1>4, <2>1, WorkerKept DEF TrainingInv
<1>8. \A o \in Ops : OpInv(o)'
 <2>1. \A o : ~ Holds(w, o) BY <1>5, Holding
 <2>2. \A o : ~ Holds(w, o)' BY <1>6, FarewellHoldsNothing
 <2>3. \A x \in Workers : x # w => Part(x)' = Part(x) /\ \A o : Holds(x, o)' <=> Holds(x, o)
   BY <1>3, HoldingKept
 <2> QED
   BY <1>1, <2>1, <2>2, <2>3, OpKept DEF TrainingInv
<1> QED
  BY <1>2, <1>7, <1>8 DEF TrainingInv

LEMMA Computing ==
  ASSUME TrainingInv, NEW w \in Workers, Compute(w) PROVE TrainingInv'
<1>1. /\ UNCHANGED <<available_workers, result_cache, expected_num_results, lost, receiving,
                     requests, replies, worker, op, main>>
      /\ tasks' = [tasks EXCEPT ![w] = Tail(@)]
      /\ results' = [results EXCEPT ![w] = Append(@, Head(tasks[w]))]
      /\ worker[w] = "up" /\ tasks[w] # <<>> /\ Head(tasks[w]) # EXIT
  BY DEF Compute, proxyVars
<1>2. TypeOK' /\ MainInv' BY <1>1 DEF TrainingInv, TypeOK, MainInv
<1>3. \A x \in Workers : x # w => tasks'[x] = tasks[x] /\ results'[x] = results[x] /\ worker'[x] = worker[x]
  BY <1>1 DEF TrainingInv, TypeOK
<1>4. \A x : FreeAt(x)' = FreeAt(x) BY <1>1 DEF FreeAt
<1>5. Works(w) /\ FreeAt(w) = {} /\ w \notin lost
 <2>1. ~ Leaves(w) BY <1>1, OneWord DEF Leaves
 <2> QED
   BY <1>1, <2>1 DEF TrainingInv, WorkerInv, Returns, Starts, Waits
<1>6. PICK t \in Tasks : tasks[w] = <<t>> /\ results[w] = <<>> BY <1>5 DEF Works
<1>7. tasks'[w] = <<>> /\ results'[w] = <<t>>
  BY <1>1, <1>6, OneMessage DEF TrainingInv, TypeOK
<1>8. \A x \in Workers : WorkerInv(x)'
 <2>1. WorkerInv(w)' BY <1>1, <1>4, <1>5, <1>7 DEF WorkerInv, Returns
 <2> QED
   BY <1>1, <1>3, <1>4, <2>1, WorkerKept DEF TrainingInv
<1>9. \A o \in Ops : OpInv(o)'
 <2>1. Part(w) = t /\ \A o : Holds(w, o) <=> o = t.op BY <1>6, Holding
 <2>2. Part(w)' = t /\ \A o : Holds(w, o)' <=> o = t.op
   BY <1>7, OneMessage DEF Part, Holds, Tasks
 <2>3. \A x \in Workers : x # w => Part(x)' = Part(x) /\ \A o : Holds(x, o)' <=> Holds(x, o)
   BY <1>3, HoldingKept
 <2> QED
   BY <1>1, <2>1, <2>2, <2>3, OpKept DEF TrainingInv
<1> QED
  BY <1>2, <1>8, <1>9 DEF TrainingInv

LEMMA Stopping ==
  ASSUME TrainingInv, NEW w \in Workers, WorkerStops(w) PROVE TrainingInv'
<1>1. /\ UNCHANGED <<available_workers, result_cache, expected_num_results, lost, receiving,
                     requests, replies, op, main>>
      /\ tasks' = [tasks EXCEPT ![w] = Tail(@)]
      /\ results' = [results EXCEPT ![w] = Append(@, EXIT_ACK)]
      /\ worker' = [worker EXCEPT ![w] = "stopped"]
      /\ worker[w] = "up" /\ tasks[w] # <<>> /\ Head(tasks[w]) = EXIT
  BY DEF WorkerStops, proxyVars
<1>2. TypeOK' /\ MainInv' BY <1>1 DEF TrainingInv, TypeOK, MainInv
<1>3. \A x \in Workers : x # w => tasks'[x] = tasks[x] /\ results'[x] = results[x] /\ worker'[x] = worker[x]
  BY <1>1 DEF TrainingInv, TypeOK
<1>4. \A x : FreeAt(x)' = FreeAt(x) BY <1>1 DEF FreeAt
<1>5. Leaves(w) /\ w \notin lost /\ \E i : FreeAt(w) = {i}
 <2>1. ~ Works(w) BY <1>1, OneMessage DEF Works, Tasks, EXIT
 <2> QED
   BY <1>1, <2>1 DEF TrainingInv, WorkerInv, Returns, Starts, Waits
<1>6. Leaves(w)' BY <1>1, <1>5, OneWord DEF Leaves, TrainingInv, TypeOK
<1>7. \A x \in Workers : WorkerInv(x)'
 <2>1. worker'[w] # "off" BY <1>1 DEF TrainingInv, TypeOK
 <2>2. WorkerInv(w)' BY <1>1, <1>4, <1>5, <1>6, <2>1 DEF WorkerInv
 <2> QED
   BY <1>1, <1>3, <1>4, <2>2, WorkerKept DEF TrainingInv
<1>8. \A o \in Ops : OpInv(o)'
 <2>1. \A o : ~ Holds(w, o) BY <1>5, Holding
 <2>2. \A o : ~ Holds(w, o)' BY <1>6, FarewellHoldsNothing
 <2>3. \A x \in Workers : x # w => Part(x)' = Part(x) /\ \A o : Holds(x, o)' <=> Holds(x, o)
   BY <1>3, HoldingKept
 <2> QED
   BY <1>1, <2>1, <2>2, <2>3, OpKept DEF TrainingInv
<1> QED
  BY <1>2, <1>7, <1>8 DEF TrainingInv

----------------------------------------------------------------------------
(***************************************************************************)
(* The proxy.                                                                *)
(***************************************************************************)

\* A worker that is freed goes to the end of the deque, once.
LEMMA FreedOnce ==
  ASSUME available_workers \in Seq(Workers), NEW w \in Workers, FreeAt(w) = {}, Freed(w)
  PROVE  /\ available_workers' \in Seq(Workers) /\ available_workers' # <<>> /\ receiving'
         /\ \E i : FreeAt(w)' = {i}
         /\ \A x \in Workers : x # w => FreeAt(x)' = FreeAt(x)
<1> DEFINE n == Len(available_workers)
<1>1. /\ available_workers' \in Seq(Workers) /\ available_workers' # <<>> /\ receiving'
      /\ n \in Nat /\ DOMAIN available_workers = 1 .. n
      /\ DOMAIN available_workers' = 1 .. n + 1
      /\ \A i \in 1 .. n : available_workers'[i] = available_workers[i]
      /\ available_workers'[n + 1] = w
  BY DEF Freed
<1> HIDE DEF n
<1>2. FreeAt(w)' = {n + 1}
 <2>1. \A i \in 1 .. n : available_workers[i] # w BY <1>1 DEF FreeAt
 <2>2. \A i \in DOMAIN available_workers' : available_workers'[i] = w <=> i = n + 1
   BY <1>1, <2>1
 <2>3. n + 1 \in DOMAIN available_workers' BY <1>1
 <2> QED
   BY <2>2, <2>3 DEF FreeAt
<1>3. ASSUME NEW x \in Workers, x # w PROVE FreeAt(x)' = FreeAt(x)
 <2>1. \A i : (i \in DOMAIN available_workers' /\ available_workers'[i] = x)
                <=> (i \in DOMAIN available_workers /\ available_workers[i] = x)
   BY <1>1, <1>3
 <2> QED
   BY <2>1 DEF FreeAt
<1> QED
  BY <1>1, <1>2, <1>3

LEMMA Readying ==
  ASSUME TrainingInv, NEW w \in Workers, WorkerReady(w) PROVE TrainingInv'
<1>1. /\ UNCHANGED <<result_cache, expected_num_results, lost, requests, replies, tasks, worker, op, main>>
      /\ results' = [results EXCEPT ![w] = Tail(@)]
      /\ results[w] # <<>> /\ Head(results[w]) = READY
      /\ Freed(w)
  BY DEF WorkerReady
<1>2. Starts(w) /\ FreeAt(w) = {} /\ worker[w] # "off" /\ w \notin lost
 <2>1. ~ Returns(w) BY <1>1, OneMessage DEF Returns, Tasks, READY
 <2>2. ~ Leaves(w) BY <1>1, OneWord DEF Leaves, READY, EXIT_ACK
 <2> QED
   BY <1>1, <2>1, <2>2 DEF TrainingInv, WorkerInv, Works, Waits
<1>3. /\ available_workers' \in Seq(Workers) /\ available_workers' # <<>> /\ receiving'
      /\ \E i : FreeAt(w)' = {i}
      /\ \A x \in Workers : x # w => FreeAt(x)' = FreeAt(x)
  BY <1>1, <1>2, FreedOnce DEF TrainingInv, TypeOK
<1>4. TypeOK' /\ MainInv'
 <2>1. receiving' \in BOOLEAN BY <1>1 DEF Freed
 <2> QED
   BY <1>1, <1>3, <2>1 DEF TrainingInv, TypeOK, MainInv
<1>5. \A x \in Workers : x # w => tasks'[x] = tasks[x] /\ results'[x] = results[x] /\ worker'[x] = worker[x]
  BY <1>1 DEF TrainingInv, TypeOK
<1>6. Waits(w)' BY <1>1, <1>2, OneMessage DEF Starts, Waits, TrainingInv, TypeOK
<1>7. \A x \in Workers : WorkerInv(x)'
 <2>1. WorkerInv(w)' BY <1>1, <1>2, <1>3, <1>6 DEF WorkerInv
 <2> QED
   BY <1>1, <1>3, <1>5, <2>1, WorkerKept DEF TrainingInv
<1>8. \A o \in Ops : OpInv(o)'
 <2>1. \A o : ~ Holds(w, o) BY <1>2, Holding
 <2>2. \A o : ~ Holds(w, o)' BY <1>6, FarewellHoldsNothing
 <2>3. \A x \in Workers : x # w => Part(x)' = Part(x) /\ \A o : Holds(x, o)' <=> Holds(x, o)
   BY <1>5, HoldingKept
 <2> QED
   BY <1>1, <2>1, <2>2, <2>3, OpKept DEF TrainingInv
<1> QED
  BY <1>4, <1>7, <1>8 DEF TrainingInv

LEMMA Halting ==
  ASSUME TrainingInv, NEW w \in Workers, ProxyStops(w) PROVE TrainingInv'
<1>1. /\ UNCHANGED <<available_workers, result_cache, expected_num_results, lost, receiving,
                     requests, replies, tasks, worker, op, main>>
      /\ results' = [results EXCEPT ![w] = Tail(@)]
      /\ results[w] # <<>> /\ Head(results[w]) = EXIT_ACK
  BY DEF ProxyStops
<1>2. Leaves(w) /\ (\E i : FreeAt(w) = {i}) /\ worker[w] # "off" /\ w \notin lost
 <2>1. ~ Returns(w) BY <1>1, OneMessage DEF Returns, Tasks, EXIT_ACK
 <2>2. ~ Starts(w) BY <1>1, OneMessage DEF Starts, READY, EXIT_ACK
 <2> QED
   BY <1>1, <2>1, <2>2 DEF TrainingInv, WorkerInv, Works, Waits
<1>3. TypeOK' /\ MainInv' BY <1>1 DEF TrainingInv, TypeOK, MainInv
<1>4. \A x \in Workers : x # w => tasks'[x] = tasks[x] /\ results'[x] = results[x] /\ worker'[x] = worker[x]
  BY <1>1 DEF TrainingInv, TypeOK
<1>5. \A x : FreeAt(x)' = FreeAt(x) BY <1>1 DEF FreeAt
<1>6. Leaves(w)' BY <1>1, <1>2, OneWord DEF Leaves, TrainingInv, TypeOK
<1>7. \A x \in Workers : WorkerInv(x)'
 <2>1. WorkerInv(w)' BY <1>1, <1>2, <1>5, <1>6 DEF WorkerInv
 <2> QED
   BY <1>1, <1>4, <1>5, <2>1, WorkerKept DEF TrainingInv
<1>8. \A o \in Ops : OpInv(o)'
 <2>1. \A o : ~ Holds(w, o) BY <1>2, Holding
 <2>2. \A o : ~ Holds(w, o)' BY <1>6, FarewellHoldsNothing
 <2>3. \A x \in Workers : x # w => Part(x)' = Part(x) /\ \A o : Holds(x, o)' <=> Holds(x, o)
   BY <1>4, HoldingKept
 <2> QED
   BY <1>1, <2>1, <2>2, <2>3, OpKept DEF TrainingInv
<1> QED
  BY <1>3, <1>7, <1>8 DEF TrainingInv

\* EXIT reaches only workers that are free, and only when training is over.
LEMMA RoutingExit ==
  ASSUME TrainingInv, NEW o \in Ops, RouteExit(o) PROVE TrainingInv'
<1>1. /\ UNCHANGED <<available_workers, result_cache, expected_num_results, lost, receiving,
                     replies, results, worker, op, main>>
      /\ requests' = [requests EXCEPT ![o] = Tail(@)]
      /\ requests[o] # <<>> /\ Head(requests[o]) = EXIT
      /\ tasks' = [w \in Workers |->
                     IF connected_ops = {o} /\ w \in ToSet(available_workers)
                     THEN Append(tasks[w], EXIT) ELSE tasks[w]]
  BY DEF RouteExit
<1>2. op[o].state = "exited" /\ requests[o] = <<EXIT>>
 <2>1. op[o].state \in {"idle", "waiting", "exited"} /\ OpInv(o) BY DEF TrainingInv, TypeOK
 <2>2. op[o].state # "waiting" BY <1>1, <2>1, OneMessage DEF OpInv, EXIT
 <2> QED
   BY <1>1, <2>1, <2>2 DEF OpInv
<1>3. main.doing = "over" BY <1>2 DEF TrainingInv, TypeOK, MainInv
<1>4. TypeOK' /\ MainInv' BY <1>1 DEF TrainingInv, TypeOK, MainInv
<1>5. \A w : FreeAt(w)' = FreeAt(w) BY <1>1 DEF FreeAt
<1>6. ASSUME NEW w \in Workers
      PROVE  \/ tasks'[w] = tasks[w]
             \/ Leaves(w)' /\ (Waits(w) \/ Leaves(w)) /\ (\E i : FreeAt(w) = {i}) /\ worker[w] # "off" /\ w \notin lost
 <2> SUFFICES ASSUME tasks'[w] # tasks[w]
              PROVE  Leaves(w)' /\ (Waits(w) \/ Leaves(w)) /\ (\E i : FreeAt(w) = {i}) /\ worker[w] # "off" /\ w \notin lost
   OBVIOUS
 <2>1. FreeAt(w) # {} /\ tasks'[w] = Append(tasks[w], EXIT) BY <1>1 DEF ToSet, FreeAt
 <2>2. (Waits(w) \/ Leaves(w)) /\ (\E i : FreeAt(w) = {i}) /\ worker[w] # "off" /\ w \notin lost
   BY <2>1 DEF TrainingInv, WorkerInv
 <2>3. tasks[w] \in Seq({EXIT}) /\ results[w] \in Seq({EXIT_ACK})
  <3>1. <<>> \in Seq({EXIT}) /\ <<>> \in Seq({EXIT_ACK}) OBVIOUS
  <3> QED
    BY <2>2, <3>1 DEF Waits, Leaves
 <2> QED
   BY <1>1, <1>3, <2>1, <2>2, <2>3, OneWord DEF Leaves
<1>7. \A w \in Workers : WorkerInv(w)'
 <2>1. ASSUME NEW w \in Workers, tasks'[w] = tasks[w] PROVE WorkerInv(w)'
   BY <1>1, <1>5, <2>1, WorkerKept DEF TrainingInv
 <2>2. ASSUME NEW w \in Workers, tasks'[w] # tasks[w] PROVE WorkerInv(w)'
   BY <1>1, <1>5, <1>6, <2>2 DEF WorkerInv
 <2> QED
   BY <2>1, <2>2
<1>8. ASSUME NEW w \in Workers
      PROVE  \A x : (Holds(w, x)' <=> Holds(w, x)) /\ (Holds(w, x) => Part(w)' = Part(w))
 <2>1. CASE tasks'[w] = tasks[w] BY <1>1, <2>1, HoldingKept
 <2>2. CASE tasks'[w] # tasks[w] BY <1>6, <2>2, Holding, FarewellHoldsNothing
 <2> QED
   BY <2>1, <2>2
<1>9. \A x \in Ops : x # o => OpInv(x)'
 <2>1. \A x \in Ops : x # o => requests'[x] = requests[x] BY <1>1 DEF TrainingInv, TypeOK
 <2> QED
   BY <1>1, <1>8, <2>1, OpKept DEF TrainingInv
<1>10. OpInv(o)'
 <2>1. replies[o] = <<>> /\ Settled(o) BY <1>2 DEF TrainingInv, OpInv
 <2>2. Settled(o)' BY <1>1, <1>8, <2>1 DEF Settled, Busy
 <2>3. requests'[o] = <<>> BY <1>1, <1>2, OneMessage DEF TrainingInv, TypeOK
 <2> QED
   BY <1>1, <1>2, <2>1, <2>2, <2>3 DEF OpInv
<1> QED
  BY <1>4, <1>7, <1>9, <1>10 DEF TrainingInv

\* The cache with one more result; k of them are all the parts.
LEMMA CachedParts ==
  ASSUME NEW o, Spread(o), NEW w \in Busy(o), NEW t \in Tasks, Part(w) = t
  PROVE  LET cached == Append(result_cache[o], t)
         IN  /\ cached \in Seq(Tasks) /\ Len(cached) = Len(result_cache[o]) + 1
             /\ \A n \in DOMAIN cached : IsPart(o, cached[n])
             /\ \A m, n \in DOMAIN cached : cached[m].part = cached[n].part => m = n
             /\ \A x \in Busy(o) \ {w}, n \in DOMAIN cached : Part(x).part # cached[n].part
<1> DEFINE cached == Append(result_cache[o], t)
           c == Len(result_cache[o])
<1>1. /\ cached \in Seq(Tasks) /\ Len(cached) = c + 1 /\ c \in Nat
      /\ DOMAIN cached = 1 .. c + 1 /\ DOMAIN result_cache[o] = 1 .. c
      /\ \A n \in 1 .. c : cached[n] = result_cache[o][n]
      /\ cached[c + 1] = t
  BY DEF Spread
<1>2. \A n \in DOMAIN cached : (n \in 1 .. c /\ cached[n] = result_cache[o][n]) \/ (n = c + 1 /\ cached[n] = t)
  BY <1>1
<1> HIDE DEF cached, c
<1>3. /\ IsPart(o, t)
      /\ \A n \in 1 .. c : IsPart(o, result_cache[o][n])
      /\ \A m, n \in 1 .. c : result_cache[o][m].part = result_cache[o][n].part => m = n
      /\ \A n \in 1 .. c : t.part # result_cache[o][n].part
      /\ \A x \in Busy(o) \ {w} : Part(x).part # t.part
      /\ \A x \in Busy(o), n \in 1 .. c : Part(x).part # result_cache[o][n].part
  BY <1>1 DEF Spread
<1>4. \A n \in DOMAIN cached : IsPart(o, cached[n]) BY <1>2, <1>3
<1>5. \A m, n \in DOMAIN cached : cached[m].part = cached[n].part => m = n BY <1>2, <1>3
<1>6. \A x \in Busy(o) \ {w}, n \in DOMAIN cached : Part(x).part # cached[n].part
  BY <1>2, <1>3
<1> QED
  BY <1>1, <1>4, <1>5, <1>6 DEF cached, c

\* All results expected are the whole request, and no worker has a part of it.
LEMMA CachedWhole ==
  ASSUME NEW o \in Ops, NEW parts \in Seq(Tasks), NEW k \in Nat, k = expected_num_results[o], Len(parts) = k,
         \A n \in DOMAIN parts : IsPart(o, parts[n]),
         \A m, n \in DOMAIN parts : parts[m].part = parts[n].part => m = n
  PROVE  /\ Whole(o, parts)
         /\ \A p \in 1 .. k : \E n \in DOMAIN parts : parts[n].part = p
<1> DEFINE f == [n \in 1 .. k |-> parts[n].part]
<1>1. DOMAIN parts = 1 .. k OBVIOUS
<1>2. f \in [1 .. k -> 1 .. k] /\ \A i, j \in 1 .. k : f[i] = f[j] => i = j
  BY <1>1 DEF IsPart
<1>3. \A p \in 1 .. k : \E n \in 1 .. k : f[n] = p
 <2> HIDE DEF f
 <2> QED
   BY <1>2, AllParts
<1>4. \A p \in 1 .. k : \E n \in DOMAIN parts : parts[n].part = p BY <1>1, <1>3
<1>5. \A n \in DOMAIN parts : parts[n] = SubBatch(o, op[o].version, parts[n].part, k) /\ parts[n].part \in 1 .. k
  BY DEF IsPart
<1>6. ToSet(parts) = {SubBatch(o, op[o].version, i, k) : i \in 1 .. k}
 <2> DEFINE B(i) == SubBatch(o, op[o].version, i, k)
 <2>1. \A n \in DOMAIN parts : \E i \in 1 .. k : parts[n] = B(i) BY <1>5
 <2>2. \A i \in 1 .. k : \E n \in DOMAIN parts : parts[n] = B(i) BY <1>4, <1>5
 <2> HIDE DEF B
 <2>3. ToSet(parts) = {B(i) : i \in 1 .. k}
  <3>1. ToSet(parts) \subseteq {B(i) : i \in 1 .. k} BY <2>1 DEF ToSet
  <3>2. \A i \in 1 .. k : B(i) \in ToSet(parts) BY <2>2 DEF ToSet
  <3> QED BY <3>1, <3>2
 <2> QED
   BY <2>3 DEF B
<1> QED
  BY <1>4, <1>6 DEF Whole

LEMMA Collecting ==
  ASSUME TrainingInv, NEW w \in Workers, SendResultToRequester(w) PROVE TrainingInv'
<1>1. results[w] # <<>> /\ Head(results[w]).type = "task" BY DEF SendResultToRequester
<1>2. Returns(w) /\ FreeAt(w) = {} /\ worker[w] # "off" /\ w \notin lost
 <2>1. ~ Starts(w) BY <1>1, OneMessage DEF Starts, READY
 <2>2. ~ Leaves(w) BY <1>1, OneWord DEF Leaves, EXIT_ACK
 <2> QED
   BY <1>1, <2>1, <2>2 DEF TrainingInv, WorkerInv, Works, Waits
<1>3. PICK t \in Tasks : tasks[w] = <<>> /\ results[w] = <<t>> BY <1>2 DEF Returns
<1> DEFINE o == t.op
           cached == Append(result_cache[o], t)
           complete == Len(cached) = expected_num_results[o]
<1>4. o \in Ops /\ Head(results[w]) = t /\ Tail(results[w]) = <<>>
  BY <1>3, OneMessage DEF Tasks
<1>5. /\ UNCHANGED <<connected_ops, expected_num_results, lost, proxyUp, requests, tasks, worker, op, main>>
      /\ results' = [results EXCEPT ![w] = <<>>]
      /\ result_cache' = [result_cache EXCEPT ![o] = IF complete THEN <<>> ELSE cached]
      /\ replies' = IF complete THEN [replies EXCEPT ![o] = Append(@, cached)] ELSE replies
      /\ Freed(w)
  BY <1>3, <1>4 DEF SendResultToRequester, ClearedCache, TrainingInv, TypeOK
<1>6. /\ available_workers' \in Seq(Workers) /\ available_workers' # <<>> /\ receiving'
      /\ \E i : FreeAt(w)' = {i}
      /\ \A x \in Workers : x # w => FreeAt(x)' = FreeAt(x)
  BY <1>2, <1>5, FreedOnce DEF TrainingInv, TypeOK
<1> HIDE DEF o, cached, complete
<1>7. TypeOK' /\ MainInv'
 <2>1. receiving' \in BOOLEAN BY <1>5 DEF Freed
 <2> QED
   BY <1>5, <1>6, <2>1 DEF TrainingInv, TypeOK, MainInv
<1>8. \A x \in Workers : x # w => tasks'[x] = tasks[x] /\ results'[x] = results[x] /\ worker'[x] = worker[x]
  BY <1>5 DEF TrainingInv, TypeOK
<1>9. Waits(w)' BY <1>3, <1>5 DEF Waits, TrainingInv, TypeOK
<1>10. \A x \in Workers : WorkerInv(x)'
 <2>1. WorkerInv(w)' BY <1>2, <1>5, <1>6, <1>9 DEF WorkerInv
 <2> QED
   BY <1>5, <1>6, <1>8, <2>1, WorkerKept DEF TrainingInv
<1>11. Part(w) = t /\ (\A x : Holds(w, x) <=> x = o) /\ \A x : ~ Holds(w, x)'
  BY <1>3, <1>9, Holding, FarewellHoldsNothing DEF o
<1>12. \A x \in Workers : x # w => Part(x)' = Part(x) /\ \A p : Holds(x, p)' <=> Holds(x, p)
  BY <1>8, HoldingKept
<1>13. \A x \in Ops : x # o => OpInv(x)'
 <2>1. \A x \in Ops : x # o => result_cache'[x] = result_cache[x] /\ replies'[x] = replies[x]
   BY <1>5 DEF TrainingInv, TypeOK
 <2> QED
   BY <1>5, <1>11, <1>12, <2>1, OpKept DEF TrainingInv
<1>14. w \in Busy(o) /\ Busy(o)' = Busy(o) \ {w} BY <1>11, <1>12 DEF Busy
<1>15. requests[o] = <<>> /\ replies[o] = <<>> /\ Spread(o) /\ op[o].state = "waiting"
 <2>1. OpInv(o) /\ op[o].state \in {"idle", "waiting", "exited"}
   BY <1>4 DEF TrainingInv, TypeOK
 <2>2. ~ Settled(o) BY <1>14 DEF Settled
 <2> QED
   BY <2>1, <2>2 DEF OpInv
<1>16. /\ cached \in Seq(Tasks) /\ Len(cached) = Len(result_cache[o]) + 1
       /\ \A n \in DOMAIN cached : IsPart(o, cached[n])
       /\ \A m, n \in DOMAIN cached : cached[m].part = cached[n].part => m = n
       /\ \A x \in Busy(o) \ {w}, n \in DOMAIN cached : Part(x).part # cached[n].part
  BY <1>11, <1>14, <1>15, CachedParts DEF cached
<1>17. \A p : IsPart(o, p)' = IsPart(o, p) BY <1>5 DEF IsPart, SubBatch
<1>18. CASE complete
 <2>1. Whole(o, cached) /\ \A p \in 1 .. expected_num_results[o] : \E n \in DOMAIN cached : cached[n].part = p
   BY <1>4, <1>15, <1>16, <1>18, CachedWhole DEF complete, Spread
 <2>2. Busy(o)' = {}
  <3>1. ASSUME NEW x \in Busy(o) \ {w} PROVE FALSE
   <4>1. Part(x).part \in 1 .. expected_num_results[o] BY <1>15, <3>1 DEF Spread, IsPart
   <4> QED
     BY <1>16, <2>1, <4>1
  <3> QED
    BY <1>14, <3>1
 <2>3. result_cache'[o] = <<>> /\ replies'[o] = <<cached>>
   BY <1>4, <1>5, <1>15, <1>18, OneMessage DEF TrainingInv, TypeOK
 <2>4. PICK parts : parts = cached OBVIOUS
 <2>5. replies'[o] = <<parts>> /\ Whole(o, parts)' BY <1>5, <2>1, <2>3, <2>4 DEF Whole
 <2>6. OpInv(o)'
  <3>1. requests'[o] = <<>> /\ op'[o].state = "waiting" /\ Settled(o)'
    BY <1>5, <1>15, <2>2, <2>3 DEF Settled
  <3> QED
    BY <2>5, <3>1 DEF OpInv
 <2> QED
   BY <1>7, <1>10, <1>13, <2>6 DEF TrainingInv
<1>19. CASE ~ complete
 <2>1. result_cache'[o] = cached /\ replies'[o] = <<>> /\ expected_num_results'[o] = expected_num_results[o]
   BY <1>4, <1>5, <1>15, <1>19 DEF TrainingInv, TypeOK
 <2>2. \A x \in Busy(o)' : x \in Busy(o) \ {w} /\ Part(x)' = Part(x)
   BY <1>12, <1>14 DEF Busy
 <2>3. Spread(o)'
  <3>1. Len(cached) < expected_num_results[o] BY <1>15, <1>16, <1>19 DEF complete, Spread
  <3>2. \A x \in Busy(o) \ {w} : IsPart(o, Part(x)) /\ \A y \in Busy(o) \ {w} : Part(x).part = Part(y).part => x = y
    BY <1>15 DEF Spread
  <3>3. expected_num_results[o] \in Nat BY <1>15 DEF Spread
  <3> QED
    BY <1>16, <1>17, <2>1, <2>2, <3>1, <3>2, <3>3 DEF Spread
 <2>4. OpInv(o)' BY <1>5, <1>15, <2>1, <2>3 DEF OpInv
 <2> QED
   BY <1>7, <1>10, <1>13, <2>4 DEF TrainingInv
<1> QED
  BY <1>18, <1>19

\* The first k free workers leave the deque.
LEMMA Popped ==
  ASSUME available_workers \in Seq(Workers), NEW k \in 0 .. Len(available_workers),
         \A w \in Workers : FreeAt(w) = {} \/ \E i : FreeAt(w) = {i},
         available_workers' = Remaining(k)
  PROVE  /\ available_workers' \in Seq(Workers)
         /\ \A i, j \in DOMAIN available_workers : available_workers[i] = available_workers[j] => i = j
         /\ \A w \in Workers : (\E i \in 1 .. k : available_workers[i] = w) => FreeAt(w)' = {}
         /\ \A w \in Workers : (\A i \in 1 .. k : available_workers[i] # w) =>
              (FreeAt(w) = {} => FreeAt(w)' = {}) /\ ((\E i : FreeAt(w) = {i}) => \E i : FreeAt(w)' = {i})
<1> DEFINE n == Len(available_workers)
<1>1. /\ n \in Nat /\ DOMAIN available_workers = 1 .. n /\ k \in 0 .. n
      /\ \A i \in 1 .. n : available_workers[i] \in Workers
      /\ available_workers' \in Seq(Workers)
      /\ DOMAIN available_workers' = 1 .. n - k
      /\ \A i \in 1 .. n - k : available_workers'[i] = available_workers[k + i]
  BY DEF Remaining
<1> HIDE DEF n
<1>2. \A i, j \in 1 .. n : available_workers[i] = available_workers[j] => i = j
 <2> SUFFICES ASSUME NEW i \in 1 .. n, NEW j \in 1 .. n, available_workers[i] = available_workers[j]
              PROVE  i = j
   OBVIOUS
 <2>1. i \in FreeAt(available_workers[i]) /\ j \in FreeAt(available_workers[i])
   BY <1>1 DEF FreeAt
 <2> QED
   BY <1>1, <2>1
<1>3. ASSUME NEW w \in Workers, NEW i \in 1 .. k, available_workers[i] = w PROVE FreeAt(w)' = {}
 <2>1. \A j \in 1 .. n - k : i \in 1 .. n /\ k + j \in 1 .. n /\ i # k + j BY <1>1
 <2>2. \A j \in 1 .. n - k : available_workers[k + j] # w BY <1>2, <1>3, <2>1
 <2> QED
   BY <1>1, <2>2 DEF FreeAt
<1>4. ASSUME NEW w \in Workers, \A i \in 1 .. k : available_workers[i] # w
      PROVE  (FreeAt(w) = {} => FreeAt(w)' = {}) /\ ((\E i : FreeAt(w) = {i}) => \E i : FreeAt(w)' = {i})
 <2>1. FreeAt(w)' = {j \in 1 .. n - k : available_workers[k + j] = w} BY <1>1 DEF FreeAt
 <2>2. \A j \in 1 .. n - k : k + j \in 1 .. n BY <1>1
 <2>3. FreeAt(w) = {} => FreeAt(w)' = {} BY <1>1, <2>1, <2>2 DEF FreeAt
 <2>4. ASSUME NEW i, FreeAt(w) = {i} PROVE FreeAt(w)' = {i - k}
  <3>1. i \in 1 .. n /\ available_workers[i] = w BY <1>1, <2>4 DEF FreeAt
  <3>2. i - k \in 1 .. n - k /\ k + (i - k) = i BY <1>1, <1>4, <3>1
  <3>3. \A j \in 1 .. n - k : available_workers[k + j] = w => k + j = i BY <1>2, <2>2, <3>1
  <3>4. \A j \in 1 .. n - k : k + j = i => j = i - k BY <1>1, <3>1
  <3> QED
    BY <2>1, <3>1, <3>2, <3>3, <3>4
 <2> QED
   BY <2>3, <2>4
<1> QED
  BY <1>1, <1>2, <1>3, <1>4

LEMMA Routing ==
  ASSUME TrainingInv, NEW o \in Ops, RouteRequest(o) PROVE TrainingInv'
<1> DEFINE k == NumChosen(o)
           version == Head(requests[o]).version
           free_workers == available_workers
           index(w) == CHOOSE i \in 1 .. k : free_workers[i] = w
<1>1. receiving /\ requests[o] # <<>> /\ Head(requests[o]).type = "request"
  BY DEF RouteRequest
<1>2. /\ op[o].state = "waiting" /\ requests[o] = <<[type |-> "request", version |-> op[o].version]>>
      /\ replies[o] = <<>> /\ Settled(o)
 <2>1. op[o].state \in {"idle", "waiting", "exited"} /\ OpInv(o) BY DEF TrainingInv, TypeOK
 <2>2. requests[o] # <<EXIT>> BY <1>1, OneMessage DEF EXIT
 <2> QED
   BY <1>1, <2>1, <2>2 DEF OpInv
<1>3. k \in 0 .. Len(free_workers) /\ k \in Nat /\ Len(free_workers) \in Nat /\ DOMAIN free_workers = 1 .. Len(free_workers)
 <2>1. free_workers \in Seq(Workers) BY DEF TrainingInv, TypeOK
 <2>2. Len(free_workers) \in Nat /\ Parallelism[o] \in Nat \ {0}
   BY <2>1, ParallelismAssumption
 <2> QED
   BY <2>1, <2>2 DEF NumChosen
<1>4. main.doing # "over" BY <1>2 DEF TrainingInv, MainInv
<1>5. version = op[o].version /\ Tail(requests[o]) = <<>> BY <1>2, OneMessage
<1> DEFINE chosen == SubSeq(free_workers, 1, k)
<1>6. DOMAIN chosen = 1 .. k /\ (\A i \in 1 .. k : chosen[i] = free_workers[i]) /\ ToSet(chosen) = {free_workers[i] : i \in 1 .. k}
 <2>1. free_workers \in Seq(Workers) BY DEF TrainingInv, TypeOK
 <2>2. DOMAIN chosen = 1 .. k /\ \A i \in 1 .. k : chosen[i] = free_workers[i] BY <1>3, <2>1
 <2> HIDE DEF chosen
 <2> QED
   BY <2>2 DEF ToSet
<1>7. /\ UNCHANGED <<result_cache, lost, replies, results, worker, op, main>>
      /\ requests' = [requests EXCEPT ![o] = <<>>]
      /\ available_workers' = Remaining(k)
      /\ expected_num_results' = [expected_num_results EXCEPT ![o] = k]
      /\ receiving' = (Remaining(k) # <<>>)
      /\ tasks' = [w \in Workers |->
                     IF w \in ToSet(chosen)
                     THEN Append(tasks[w], SubBatch(o, version, CHOOSE i \in 1 .. k : chosen[i] = w, k))
                     ELSE tasks[w]]
 <2>1. /\ UNCHANGED <<result_cache, lost, replies, results, worker, op, main>>
       /\ requests' = [requests EXCEPT ![o] = Tail(@)]
       /\ available_workers' = Remaining(k)
       /\ expected_num_results' = [expected_num_results EXCEPT ![o] = k]
       /\ receiving' = (Remaining(k) # <<>>)
   BY DEF RouteRequest, ExpectedResults, StillReceiving
 <2>2. tasks' = [w \in Workers |->
                  IF w \in ToSet(chosen)
                  THEN Append(tasks[w], SubBatch(o, version, CHOOSE i \in 1 .. k : chosen[i] = w, k))
                  ELSE tasks[w]]
   BY DEF RouteRequest
 <2>3. requests' = [requests EXCEPT ![o] = <<>>] BY <1>5, <2>1 DEF TrainingInv, TypeOK
 <2> HIDE DEF k, chosen, version
 <2> QED
   BY <2>1, <2>2, <2>3
<1> HIDE DEF k, free_workers, chosen
<1>8. \A w \in Workers : FreeAt(w) = {} \/ \E i : FreeAt(w) = {i}
  BY DEF TrainingInv, WorkerInv, TypeOK
<1>9. /\ available_workers' \in Seq(Workers)
      /\ \A i, j \in DOMAIN free_workers : free_workers[i] = free_workers[j] => i = j
      /\ \A w \in Workers : (\E i \in 1 .. k : free_workers[i] = w) => FreeAt(w)' = {}
      /\ \A w \in Workers : (\A i \in 1 .. k : free_workers[i] # w) =>
           (FreeAt(w) = {} => FreeAt(w)' = {}) /\ ((\E i : FreeAt(w) = {i}) => \E i : FreeAt(w)' = {i})
  BY <1>3, <1>7, <1>8, Popped DEF free_workers, TrainingInv, TypeOK
<1> DEFINE Chosen(w) == \E i \in 1 .. k : free_workers[i] = w
<1>10. ASSUME NEW w \in Workers, Chosen(w)
       PROVE  index(w) \in 1 .. k /\ free_workers[index(w)] = w
  BY <1>10
<1>11. ASSUME NEW w \in Workers, Chosen(w)
       PROVE  /\ Waits(w) /\ worker[w] # "off" /\ w \notin lost
              /\ tasks'[w] = <<SubBatch(o, version, index(w), k)>> /\ results'[w] = <<>>
              /\ SubBatch(o, version, index(w), k) \in Tasks
 <2>1. FreeAt(w) # {} BY <1>3, <1>11 DEF FreeAt, free_workers
 <2>2. Waits(w) /\ worker[w] # "off" /\ w \notin lost BY <1>4, <2>1 DEF TrainingInv, WorkerInv, Leaves
 <2>3. (CHOOSE i \in 1 .. k : chosen[i] = w) = index(w) BY <1>6
 <2>4. tasks'[w] = Append(tasks[w], SubBatch(o, version, index(w), k))
   BY <1>6, <1>7, <1>11, <2>3
 <2>5. version \in Nat /\ index(w) \in Nat
   BY <1>3, <1>5, <1>10, <1>11 DEF TrainingInv, TypeOK
 <2>6. SubBatch(o, version, index(w), k) \in Tasks BY <1>3, <2>5 DEF SubBatch, Tasks
 <2> QED
   BY <1>7, <2>2, <2>4, <2>6, OneMessage DEF Waits
<1>12. ASSUME NEW w \in Workers, ~ Chosen(w) PROVE tasks'[w] = tasks[w] /\ results'[w] = results[w]
  BY <1>6, <1>7, <1>12
<1> HIDE DEF version, index
<1>13. TypeOK' /\ MainInv' BY <1>7, <1>9 DEF TrainingInv, TypeOK, MainInv
<1>14. ASSUME NEW w \in Workers PROVE WorkerInv(w)'
 <2>1. CASE Chosen(w)
  <3>1. Works(w)' BY <1>11, <2>1 DEF Works
  <3> QED
    BY <1>7, <1>9, <1>11, <2>1, <3>1 DEF WorkerInv
 <2>2. CASE ~ Chosen(w)
  <3>1. /\ worker'[w] = worker[w] /\ tasks'[w] = tasks[w] /\ results'[w] = results[w]
        /\ main' = main /\ lost' = lost
    BY <1>7, <1>12, <2>2
  <3>2. (FreeAt(w) = {} => FreeAt(w)' = {}) /\ ((\E i : FreeAt(w) = {i}) => \E i : FreeAt(w)' = {i})
    BY <1>9, <2>2
  <3> QED
    BY <3>1, <3>2 DEF TrainingInv, WorkerInv, Works, Returns, Starts, Waits, Leaves
 <2> QED
   BY <2>1, <2>2
<1>15. ASSUME NEW w \in Workers, Chosen(w)
       PROVE  /\ \A x : ~ Holds(w, x)
              /\ \A x : Holds(w, x)' <=> x = o
              /\ Part(w)' = SubBatch(o, version, index(w), k)
 <2>1. \A x : ~ Holds(w, x) BY <1>11, <1>15, Holding
 <2>2. PICK t \in Tasks : t = SubBatch(o, version, index(w), k) /\ tasks'[w] = <<t>> /\ results'[w] = <<>>
   BY <1>11, <1>15
 <2>3. t.op = o /\ t.type = "task" BY <2>2 DEF SubBatch
 <2>4. Part(w)' = t /\ \A x : Holds(w, x)' <=> x = o
   BY <2>2, <2>3, OneMessage DEF Part, Holds
 <2> QED
   BY <2>1, <2>2, <2>4
<1>16. ASSUME NEW w \in Workers, ~ Chosen(w)
       PROVE  Part(w)' = Part(w) /\ \A x : Holds(w, x)' <=> Holds(w, x)
  BY <1>12, <1>16, HoldingKept
<1>17. \A x \in Ops : x # o => OpInv(x)'
 <2>1. \A x \in Ops : x # o => requests'[x] = requests[x] /\ expected_num_results'[x] = expected_num_results[x]
   BY <1>7 DEF TrainingInv, TypeOK
 <2> QED
   BY <1>7, <1>15, <1>16, <2>1, OpKept DEF TrainingInv
<1>18. OpInv(o)'
 <2>1. requests'[o] = <<>> /\ replies'[o] = <<>> /\ result_cache'[o] = <<>> /\ expected_num_results'[o] = k
   BY <1>2, <1>7 DEF Settled, TrainingInv, TypeOK
 <2>2. \A w \in Busy(o)' : w \in Workers /\ Chosen(w) BY <1>2, <1>16 DEF Settled, Busy
 <2>3. op'[o].version = version /\ op'[o].state = "waiting" BY <1>2, <1>5, <1>7
 <2>4. ASSUME NEW w \in Busy(o)' PROVE IsPart(o, Part(w))' /\ Part(w)'.part = index(w)
  <3>1. Part(w)' = SubBatch(o, version, index(w), k) /\ index(w) \in 1 .. k
    BY <1>10, <1>15, <2>2
  <3>2. Part(w)'.part = index(w) BY <3>1 DEF SubBatch
  <3> QED
    BY <2>1, <2>3, <3>1, <3>2 DEF IsPart, SubBatch
 <2>5. \A w, x \in Busy(o)' : index(w) = index(x) => w = x BY <1>10, <2>2
 <2>6. CASE k > 0
  <3>1. Spread(o)' BY <1>3, <2>1, <2>4, <2>5, <2>6 DEF Spread
  <3> QED
    BY <2>1, <2>3, <3>1 DEF OpInv
 <2>7. CASE k = 0
  <3>1. Busy(o)' = {} BY <2>2, <2>7
  <3> QED
    BY <2>1, <2>3, <3>1 DEF OpInv, Settled
 <2> QED
   BY <1>3, <2>6, <2>7
<1> QED
  BY <1>13, <1>14, <1>17, <1>18 DEF TrainingInv

\* A request that fails leaves the workers popped for it nowhere.
LEMMA RoutingFails ==
  ASSUME TrainingInv, NEW o \in Ops, RouteFails(o) PROVE TrainingInv'
<1> DEFINE k == NumChosen(o)
           popped == SubSeq(available_workers, 1, k)
<1>1. /\ UNCHANGED <<result_cache, receiving, replies, tasks, results, worker, op, main>>
      /\ requests' = [requests EXCEPT ![o] = Tail(@)]
      /\ available_workers' = Remaining(k) /\ lost' = lost \cup ToSet(popped)
      /\ expected_num_results' = [expected_num_results EXCEPT ![o] = k]
      /\ requests[o] # <<>> /\ Head(requests[o]).type = "request"
  BY DEF RouteFails
<1>2. /\ op[o].state = "waiting" /\ requests[o] = <<[type |-> "request", version |-> op[o].version]>>
      /\ replies[o] = <<>> /\ Settled(o)
 <2>1. op[o].state \in {"idle", "waiting", "exited"} /\ OpInv(o) BY DEF TrainingInv, TypeOK
 <2>2. requests[o] # <<EXIT>> BY <1>1, OneMessage DEF EXIT
 <2> QED
   BY <1>1, <2>1, <2>2 DEF OpInv
<1>3. main.doing # "over" BY <1>2 DEF TrainingInv, MainInv
<1>4. available_workers \in Seq(Workers) BY DEF TrainingInv, TypeOK
<1>5. k \in 0 .. Len(available_workers) /\ k \in Nat
 <2>1. Parallelism[o] \in Nat BY ParallelismAssumption
 <2> QED
   BY <1>4, <2>1 DEF NumChosen
<1> HIDE DEF k
<1>6. \A w \in Workers : w \in ToSet(popped) <=> \E i \in 1 .. k : available_workers[i] = w
 <2>1. DOMAIN popped = 1 .. k /\ \A i \in 1 .. k : popped[i] = available_workers[i]
   BY <1>4, <1>5
 <2> HIDE DEF popped
 <2> QED
   BY <2>1 DEF ToSet
<1> HIDE DEF popped
<1>7. \A w \in Workers : FreeAt(w) = {} \/ \E i : FreeAt(w) = {i}
  BY DEF TrainingInv, WorkerInv
<1>8. /\ available_workers' \in Seq(Workers)
      /\ \A w \in Workers : w \in ToSet(popped) => FreeAt(w)' = {}
      /\ \A w \in Workers : w \notin ToSet(popped) =>
           (FreeAt(w) = {} => FreeAt(w)' = {}) /\ ((\E i : FreeAt(w) = {i}) => \E i : FreeAt(w)' = {i})
  BY <1>1, <1>4, <1>5, <1>6, <1>7, Popped
<1>9. TypeOK' /\ MainInv' BY <1>1, <1>8 DEF TrainingInv, TypeOK, MainInv
<1>10. ASSUME NEW w \in Workers PROVE WorkerInv(w)'
 <2>1. CASE w \in ToSet(popped)
  <3>1. FreeAt(w) # {} BY <1>4, <1>5, <1>6, <2>1 DEF FreeAt
  <3>2. Waits(w) /\ worker[w] # "off" BY <1>3, <3>1 DEF TrainingInv, WorkerInv, Leaves
  <3> QED
    BY <1>1, <1>8, <2>1, <3>2 DEF WorkerInv, Waits
 <2>2. CASE w \notin ToSet(popped)
  <3>1. w \in lost' <=> w \in lost BY <1>1, <2>2
  <3> QED
    BY <1>1, <1>8, <2>2, <3>1 DEF TrainingInv, WorkerInv, Works, Returns, Starts, Waits, Leaves
 <2> QED
   BY <2>1, <2>2
<1>11. \A x \in Ops : x # o => OpInv(x)'
 <2>1. \A x \in Ops : x # o => requests'[x] = requests[x] /\ expected_num_results'[x] = expected_num_results[x]
   BY <1>1 DEF TrainingInv, TypeOK
 <2> QED
   BY <1>1, <2>1, OpKept, HoldingKept DEF TrainingInv
<1>12. OpInv(o)'
 <2>1. Settled(o)' BY <1>1, <1>2, HoldingKept DEF Settled, Busy
 <2>2. requests'[o] = <<>> BY <1>1, <1>2, OneMessage DEF TrainingInv, TypeOK
 <2> QED
   BY <1>1, <1>2, <2>1, <2>2 DEF OpInv
<1> QED
  BY <1>9, <1>10, <1>11, <1>12 DEF TrainingInv

----------------------------------------------------------------------------
\* Every op is answered with the gradient of its own current request, whole and
\* each part once, and no worker has two parts (TrainingProxy, TrainOpsWorker).
THEOREM TrainingGradients == TrainingSpec => []GradientFitsRequest
<1>1. TrainingInv /\ [Next]_vars => TrainingInv'
 <2>1. TrainingInv /\ UNCHANGED vars => TrainingInv'
  <3> SUFFICES ASSUME TrainingInv, UNCHANGED vars PROVE TrainingInv'
    OBVIOUS
  <3>1. UNCHANGED <<available_workers, result_cache, expected_num_results, lost, receiving, requests,
                    replies, tasks, results, worker, op, main>>
    BY DEF vars
  <3>2. TypeOK' /\ MainInv' BY <3>1 DEF TrainingInv, TypeOK, MainInv
  <3>3. \A w \in Workers : WorkerInv(w)' BY <3>1, WorkerKept DEF TrainingInv, FreeAt
  <3>4. \A o \in Ops : OpInv(o)' BY <3>1, OpKept, HoldingKept DEF TrainingInv
  <3> QED
    BY <3>2, <3>3, <3>4 DEF TrainingInv
 <2> QED
   BY <2>1, MainSteps, Exits, Calls, Responses, Routing, RoutingFails, RoutingExit, Readying, Collecting, Halting,
      Starting, Computing, Stopping DEF Next
<1> QED
  BY <1>1, TrainingInitially, TrainingInvImplies, PTL DEF TrainingSpec

-----------------------------------------------------------------------------
(* The communication proxy, for any peers, any numbers of messages, exits  *)
(* and rejoins, and every length of the cache.                             *)
(*                                                                         *)
(* MessagesOnceInOrder is inductive once it is said of what is still to be *)
(* sent, too: the messages kept for a peer are younger than all that was   *)
(* sent to it, those of the call at hand younger than the kept ones (or    *)
(* kept, and sent again), and no cached reply is of a session that a call  *)
(* waits for.                                                              *)

\* The messages and the replies.
Message == [id : Nat, dst : Peers]
Reply == [session : Nat, from : Peers, stage : {"RECEIVE", "COMPLETE"}, address : Nat, at : Nat]

\* A call whose messages are not all sent, with those that are left.
Sends == call.pc \in {"send", "ready", "waiting"}

\* What the component may be doing.
CallOK ==
  \/ call \in [pc : {"joining", "idle", "exited"}]
  \/ call \in [pc : {"connecting"}, names : SUBSET Peers]
  \/ call \in [pc : {"send"}, block : BOOLEAN, targets : Seq(Nat), todo : Seq(Message)]
  \/ call \in [pc : {"send", "ready", "waiting"}, block : BOOLEAN, targets : Seq(Nat),
               todo : Seq(Message), type : Types]
  \/ call \in [pc : {"receive"}, pending : Seq(Nat), received : Seq(Reply)]

\* The types.
ProxyTypeOK ==
  /\ redis \in [Peers -> Nat]
  /\ peer \in [Peers -> [up : BOOLEAN, address : Nat]]
  /\ wire \in [Channels -> [Peers -> Seq(Nat)]]
  /\ delivered \in [Channels -> [Peers -> Seq(Nat)]]
  /\ inbox \in Seq(Reply) /\ message_cache \in Seq(Reply) /\ handed \in Seq(Reply)
  /\ arrived \in Nat /\ created \in Nat /\ resent \in SUBSET Nat
  /\ onboard \in [Peers -> Nat] /\ disconnected \in SUBSET Peers /\ expired \in BOOLEAN
  /\ exited_cache \in [Peers -> Seq(Nat)]
  /\ outstanding \in Seq(Nat)
  /\ CallOK

\* The driver's sockets are those of the peers on board; whoever has messages
\* kept, or left to be sent, is on board or listed as disconnected.
ViewOK ==
  /\ sender = onboard
  /\ \A p \in Peers : p \in disconnected => onboard[p] = 0
  /\ \A p \in Peers : exited_cache[p] # << >> => p \in Known
  /\ Sends => \A i \in 1..Len(call.todo) : call.todo[i].dst \in Known
  /\ call.pc \in {"joining", "connecting"} =>
       /\ \A p \in Peers : onboard[p] = 0 /\ exited_cache[p] = << >>
       /\ disconnected = {}

\* Orders of message ids: those in again may come a second time.
Rising(s) == \A i, j \in 1..Len(s) : i < j => s[i] < s[j]
Ordered(s, again) ==
  /\ \A i, j \in 1..Len(s) : i < j => s[i] < s[j] \/ s[j] \in again
  /\ \A i, j, k \in 1..Len(s) : i < j /\ j < k => ~ (s[i] = s[j] /\ s[j] = s[k])
AtMost(s, n) == \A i \in 1..Len(s) : s[i] <= n
Below(s, n) == \A i \in 1..Len(s) : s[i] < n
AllBelow(s, t) == \A i \in 1..Len(s), j \in 1..Len(t) : s[i] < t[j]

\* What a peer name received on a channel and what is on its way to it.
Got(c, p) == delivered[c][p] \o wire[c][p]

\* They are in order, and created.
WireOK == \A c \in Channels, p \in Peers : Ordered(Got(c, p), resent) /\ AtMost(Got(c, p), created)

\* What is kept for a peer is in order and younger than all that was sent to it.
KeptOK ==
  \A p \in Peers :
    /\ Rising(exited_cache[p]) /\ AtMost(exited_cache[p], created)
    /\ AllBelow(Got("unicast", p), exited_cache[p])
    /\ ~ EnableCache => exited_cache[p] = << >>

\* The message m, not sent yet, is a new one or one that is kept for the peer.
MessageFits(m) ==
  \/ m.id \in resent /\ \E i \in 1..Len(exited_cache[m.dst]) : exited_cache[m.dst][i] = m.id
  \/ Below(Got("unicast", m.dst), m.id) /\ Below(exited_cache[m.dst], m.id)

\* The messages of a call fit, go to different peers, and a broadcast is the
\* newest message.
TodoOK ==
  Sends =>
    /\ \A i \in 1..Len(call.todo) : call.todo[i].id <= created /\ MessageFits(call.todo[i])
    /\ \A i, j \in 1..Len(call.todo) : i # j => call.todo[i].dst # call.todo[j].dst
    /\ call.pc # "send" /\ call.todo = << >> => \A p \in Peers : Below(Got("broadcast", p), created)

OrderOK == WireOK /\ KeptOK /\ TodoOK

\* The replies that the call at hand has received.
Received == IF call.pc = "receive" THEN call.received ELSE << >>

\* The n replies that arrived, those of one session in order.
Complete(all, n) ==
  /\ Len(all) = n
  /\ \A i \in 1..n : all[i].at \in 1..n
  /\ \A k \in 1..n : \E i \in 1..n : all[i].at = k
  /\ \A i, j \in 1..n : i < j /\ all[i].session = all[j].session => all[i].at < all[j].at

\* The replies in the order in which they are handed out: handed, received,
\* cached, and in the inbox.
Replies(h, r, m, b) == ((h \o r) \o m) \o b

\* None of the replies in m is of a pending session.
NoneOf(m, pending) == \A i \in 1..Len(m), j \in 1..Len(pending) : m[i].session # pending[j]

\* No reply is lost or doubled, those of a session are in order, and what a
\* call waits for is not in the cache.
RepliesOK ==
  /\ Complete(Replies(handed, Received, message_cache, inbox), arrived)
  /\ call.pc = "receive" => NoneOf(message_cache, call.pending)

\* The inductive invariant of the proxy.
ProxyInv == ProxyTypeOK /\ ViewOK /\ OrderOK /\ RepliesOK

\* What is kept, oldest first, goes after all that was sent before it.
LEMMA JoinedOrder ==
  ASSUME NEW s \in Seq(Nat), NEW t \in Seq(Nat), NEW again, Ordered(s, again), Rising(t), AllBelow(s, t)
  PROVE  Ordered(s \o t, again)
<1> DEFINE r == s \o t
           n == Len(s)
           m == Len(t)
<1>1. /\ n \in Nat /\ m \in Nat /\ r \in Seq(Nat) /\ Len(r) = n + m
      /\ \A i \in 1..n + m : r[i] = IF i <= n THEN s[i] ELSE t[i - n]
      /\ \A i \in 1..n : s[i] \in Nat
      /\ \A i \in 1..m : t[i] \in Nat
  BY ConcatProperties
<1>2. /\ \A i, j \in 1..n : i < j => s[i] < s[j] \/ s[j] \in again
      /\ \A i, j, k \in 1..n : i < j /\ j < k => ~ (s[i] = s[j] /\ s[j] = s[k])
      /\ \A i, j \in 1..m : i < j => t[i] < t[j]
      /\ \A i \in 1..n, j \in 1..m : s[i] < t[j]
  BY DEF Ordered, Rising, AllBelow
<1> HIDE DEF r, n, m
<1>3. \A i \in 1..n + m : \/ i \in 1..n /\ r[i] = s[i]
                          \/ i > n /\ i - n \in 1..m /\ r[i] = t[i - n]
  BY <1>1
<1>4. ASSUME NEW i \in 1..n + m, NEW j \in 1..n + m, i < j
      PROVE  r[i] < r[j] \/ j \in 1..n
 <2>1. CASE j \in 1..n BY <2>1
 <2>2. CASE j > n /\ j - n \in 1..m /\ r[j] = t[j - n]
  <3>1. CASE i \in 1..n /\ r[i] = s[i] BY <2>2, <3>1, <1>2
  <3>2. CASE i > n /\ i - n \in 1..m /\ r[i] = t[i - n]
   <4>1. i - n < j - n BY <1>1, <1>4
   <4> QED BY <2>2, <3>2, <4>1, <1>2
  <3> QED BY <3>1, <3>2, <1>3
 <2> QED BY <2>1, <2>2, <1>3
<1>5. ASSUME NEW i \in 1..n + m, NEW j \in 1..n + m, i < j, j \in 1..n
      PROVE  i \in 1..n /\ r[i] = s[i] /\ r[j] = s[j]
 <2>1. i \in 1..n /\ i <= n /\ j <= n BY <1>1, <1>5
 <2> QED BY <2>1, <1>1
<1>6. \A i, j \in 1..n + m : i < j => r[i] < r[j] \/ r[j] \in again BY <1>2, <1>4, <1>5
<1>7. ASSUME NEW i \in 1..n + m, NEW j \in 1..n + m, NEW k \in 1..n + m, i < j, j < k,
             r[i] = r[j], r[j] = r[k]
      PROVE  FALSE
 <2>1. r[i] \in Nat /\ r[j] \in Nat /\ r[k] \in Nat BY <1>1, <1>3
 <2>2. k \in 1..n /\ j \in 1..n BY <2>1, <1>4, <1>7
 <2>3. i \in 1..n /\ r[i] = s[i] /\ r[j] = s[j] /\ r[k] = s[k] BY <2>2, <1>5, <1>7
 <2> QED BY <2>2, <2>3, <1>2, <1>7
<1>8. Ordered(r, again) BY <1>1, <1>6, <1>7 DEF Ordered
<1> QED BY <1>8 DEF r

\* A sequence with one more element.
LEMMA AppendedProperties ==
  ASSUME NEW S, NEW s \in Seq(S), NEW x \in S
  PROVE  /\ Append(s, x) \in Seq(S) /\ Len(s) \in Nat /\ Len(Append(s, x)) = Len(s) + 1
         /\ \A i \in 1..Len(s) : Append(s, x)[i] = s[i] /\ s[i] \in S
         /\ Append(s, x)[Len(s) + 1] = x
         /\ \A i \in 1..Len(s) + 1 : i \in 1..Len(s) \/ i = Len(s) + 1
  OBVIOUS

\* A message that is sent again.
LEMMA SentAgain ==
  ASSUME NEW s \in Seq(Nat), NEW again, Ordered(s, again), NEW m \in again \cap Nat,
         \A i, j \in 1..Len(s) : i < j => ~ (s[i] = m /\ s[j] = m)
  PROVE  Ordered(Append(s, m), again)
<1> DEFINE r == Append(s, m)
           n == Len(s)
<1>1. /\ n \in Nat /\ Len(r) = n + 1 /\ r[n + 1] = m
      /\ \A i \in 1..n : r[i] = s[i]
      /\ \A i \in 1..n + 1 : i \in 1..n \/ i = n + 1
  BY AppendedProperties
<1> HIDE DEF r, n
<1>2. /\ \A i, j \in 1..n : i < j => s[i] < s[j] \/ s[j] \in again
      /\ \A i, j, k \in 1..n : i < j /\ j < k => ~ (s[i] = s[j] /\ s[j] = s[k])
  BY DEF Ordered, n
<1>3. \A i, j \in 1..n + 1 : i < j => i \in 1..n BY <1>1
<1>4. \A i, j \in 1..n + 1 : i < j => r[i] < r[j] \/ r[j] \in again BY <1>1, <1>2, <1>3
<1>5. ASSUME NEW i \in 1..n + 1, NEW j \in 1..n + 1, NEW k \in 1..n + 1, i < j, j < k,
             r[i] = r[j], r[j] = r[k]
      PROVE  FALSE
 <2>1. i \in 1..n /\ j \in 1..n /\ r[i] = s[i] /\ r[j] = s[j] BY <1>1, <1>3, <1>5
 <2>2. CASE k \in 1..n BY <2>1, <2>2, <1>1, <1>2, <1>5
 <2>3. CASE k = n + 1 BY <2>1, <2>3, <1>1, <1>5 DEF n
 <2> QED BY <2>2, <2>3, <1>1
<1>6. Ordered(r, again) BY <1>1, <1>4, <1>5 DEF Ordered
<1> QED BY <1>6 DEF r

\* A part of a sequence is ordered as well.
LEMMA OrderedParts ==
  ASSUME NEW s \in Seq(Nat), NEW t \in Seq(Nat), NEW again, Ordered(s \o t, again)
  PROVE  Ordered(s, again)
<1> DEFINE r == s \o t
           n == Len(s)
<1>1. /\ n \in Nat /\ Len(r) \in Nat /\ n <= Len(r) /\ \A i \in 1..n : r[i] = s[i]
  BY ConcatProperties
<1>2. Ordered(r, again) OBVIOUS
<1> HIDE DEF r, n
<1>3. \A i \in 1..n : i \in 1..Len(r) BY <1>1
<1>4. \A i, j \in 1..n : i < j => s[i] < s[j] \/ s[j] \in again
  BY <1>1, <1>2, <1>3 DEF Ordered
<1>5. \A i, j, k \in 1..n : i < j /\ j < k => ~ (s[i] = s[j] /\ s[j] = s[k])
  BY <1>1, <1>2, <1>3 DEF Ordered
<1> QED BY <1>4, <1>5 DEF Ordered, n

\* What is taken from the front of one sequence to the end of another.
LEMMA TakenOver ==
  ASSUME NEW S, NEW s \in Seq(S), NEW t \in Seq(S), t # << >>
  PROVE  /\ Append(s, Head(t)) \in Seq(S) /\ Tail(t) \in Seq(S)
         /\ Append(s, Head(t)) \o Tail(t) = s \o t
<1>1. /\ Head(t) \in S /\ Tail(t) \in Seq(S) /\ Len(t) \in Nat \ {0} /\ Len(Tail(t)) = Len(t) - 1
      /\ \A i \in 1..Len(t) - 1 : Tail(t)[i] = t[i + 1]
      /\ Head(t) = t[1]
  BY HeadTailProperties, EmptySeq
<1> DEFINE a == Append(s, Head(t))
           b == Tail(t)
           n == Len(s)
           m == Len(t)
<1>2. a \in Seq(S) /\ Len(a) = n + 1 /\ n \in Nat /\ a[n + 1] = t[1] /\ \A i \in 1..n : a[i] = s[i]
  BY <1>1, AppendedProperties
<1>3. b \in Seq(S) /\ Len(b) = m - 1 /\ m \in Nat \ {0} /\ \A i \in 1..m - 1 : b[i] = t[i + 1]
  BY <1>1
<1> HIDE DEF a, b, n, m
<1>4. /\ a \o b \in Seq(S) /\ Len(a \o b) = n + 1 + (m - 1)
      /\ \A i \in 1..n + 1 + (m - 1) : (a \o b)[i] = IF i <= n + 1 THEN a[i] ELSE b[i - (n + 1)]
 <2>1. a \in Seq(S) /\ b \in Seq(S) BY <1>2, <1>3
 <2>2. /\ a \o b \in Seq(S) /\ Len(a \o b) = Len(a) + Len(b)
       /\ \A i \in 1..Len(a) + Len(b) : (a \o b)[i] = IF i <= Len(a) THEN a[i] ELSE b[i - Len(a)]
   BY <2>1, ConcatProperties
 <2>3. Len(a) = n + 1 /\ Len(b) = m - 1 BY <1>2, <1>3
 <2> QED BY ONLY <2>2, <2>3
<1>5. /\ s \o t \in Seq(S) /\ Len(s \o t) = n + m
      /\ \A i \in 1..n + m : (s \o t)[i] = IF i <= n THEN s[i] ELSE t[i - n]
  BY ConcatProperties DEF n, m
<1>6. n + 1 + (m - 1) = n + m BY <1>2, <1>3
<1>7. ASSUME NEW i \in 1..n + m PROVE (a \o b)[i] = (s \o t)[i]
 <2>1. CASE i <= n
  <3>1. i \in 1..n /\ i <= n + 1 BY <2>1, <1>2, <1>3
  <3> QED BY <2>1, <3>1, <1>2, <1>4, <1>5, <1>6
 <2>2. CASE i = n + 1
  <3>1. i - n = 1 /\ ~(i <= n) /\ i <= n + 1 BY <2>2, <1>2
  <3> QED BY <2>2, <3>1, <1>2, <1>4, <1>5, <1>6
 <2>3. CASE i > n + 1
  <3>1. i - (n + 1) \in 1..m - 1 /\ i - (n + 1) + 1 = i - n /\ ~(i <= n) /\ ~(i <= n + 1)
    BY <2>3, <1>2, <1>3
  <3>2. b[i - (n + 1)] = t[i - n] BY <3>1, <1>3
  <3> QED BY <3>1, <3>2, <1>4, <1>5, <1>6
 <2>4. i <= n \/ i = n + 1 \/ i > n + 1 BY <1>2, <1>3
 <2> QED BY <2>1, <2>2, <2>3, <2>4
<1>8. a \o b = s \o t
 <2>1. Len(a \o b) = Len(s \o t) /\ \A i \in 1..Len(a \o b) : (a \o b)[i] = (s \o t)[i]
   BY <1>4, <1>5, <1>6, <1>7
 <2> QED BY <2>1, <1>4, <1>5, SeqEqual
<1> QED BY <1>2, <1>3, <1>8 DEF a, b

\* The elements of a concatenation, those of each part by their number in it.
LEMMA Joined ==
  ASSUME NEW S, NEW s \in Seq(S), NEW t \in Seq(S), NEW n, NEW m, Len(s) = n, Len(t) = m
  PROVE  /\ s \o t \in Seq(S) /\ n \in Nat /\ m \in Nat /\ Len(s \o t) = n + m
         /\ \A i \in 1..n : (s \o t)[i] = s[i]
         /\ \A i \in 1..m : (s \o t)[n + i] = t[i]
<1>1. n \in Nat /\ m \in Nat OBVIOUS
<1>2. /\ s \o t \in Seq(S) /\ Len(s \o t) = n + m
      /\ \A i \in 1..n + m : (s \o t)[i] = IF i <= n THEN s[i] ELSE t[i - n]
  BY ConcatProperties
<1>3. \A i \in 1..n : i \in 1..n + m /\ i <= n BY <1>1
<1>4. \A i \in 1..m : n + i \in 1..n + m /\ ~(n + i <= n) /\ n + i - n = i BY <1>1
<1> QED BY <1>1, <1>2, <1>3, <1>4

\* A reply that is taken out of its place, before replies of other sessions only.
LEMMA MovedForward ==
  ASSUME NEW n \in Nat, NEW s, NEW t, NEW P \in 1..n, NEW Q \in 1..n, P <= Q, Complete(s, n), Len(t) = n,
         \A i \in 1..n : t[i] = IF i = P THEN s[Q] ELSE IF P < i /\ i <= Q THEN s[i - 1] ELSE s[i],
         \A i \in 1..n : P <= i /\ i < Q => s[i].session # s[Q].session
  PROVE  Complete(t, n)
<1> DEFINE f == [i \in 1..n |-> IF i = P THEN Q ELSE IF P < i /\ i <= Q THEN i - 1 ELSE i]
<1>1. \A i \in 1..n : f[i] \in 1..n /\ t[i] = s[f[i]]
 <2> SUFFICES ASSUME NEW i \in 1..n PROVE f[i] \in 1..n /\ t[i] = s[f[i]]
   OBVIOUS
 <2>1. f[i] = IF i = P THEN Q ELSE IF P < i /\ i <= Q THEN i - 1 ELSE i OBVIOUS
 <2> HIDE DEF f
 <2>2. f[i] \in 1..n BY <2>1
 <2> QED BY <2>1, <2>2
<1>2. \A k \in 1..n : \E i \in 1..n : f[i] = k
 <2> SUFFICES ASSUME NEW k \in 1..n PROVE \E i \in 1..n : f[i] = k
   OBVIOUS
 <2>1. CASE k = Q
  <3>1. f[P] = k BY <2>1
  <3> QED BY <3>1
 <2>2. CASE P <= k /\ k < Q
  <3>1. k + 1 \in 1..n /\ f[k + 1] = k BY <2>2
  <3> QED BY <3>1
 <2>3. CASE k < P \/ k > Q
  <3>1. f[k] = k BY <2>3
  <3> QED BY <3>1
 <2> QED BY <2>1, <2>2, <2>3
<1>3. ASSUME NEW i \in 1..n, NEW j \in 1..n, i < j
      PROVE  f[i] < f[j] \/ (f[i] = Q /\ P <= f[j] /\ f[j] < Q)
 <2>1. /\ f[i] = IF i = P THEN Q ELSE IF P < i /\ i <= Q THEN i - 1 ELSE i
       /\ f[j] = IF j = P THEN Q ELSE IF P < j /\ j <= Q THEN j - 1 ELSE j
   OBVIOUS
 <2>2. P \in Nat /\ Q \in Nat /\ i \in Nat /\ j \in Nat /\ i < j /\ P <= Q BY <1>3
 <2> DEFINE x == f[i]
            y == f[j]
 <2>3. /\ x = IF i = P THEN Q ELSE IF P < i /\ i <= Q THEN i - 1 ELSE i
       /\ y = IF j = P THEN Q ELSE IF P < j /\ j <= Q THEN j - 1 ELSE j
   BY <2>1
 <2> HIDE DEF f, x, y
 <2>4. x < y \/ (x = Q /\ P <= y /\ y < Q) BY <2>2, <2>3
 <2> QED BY <2>4 DEF x, y
<1> HIDE DEF f
<1>4. /\ \A i \in 1..n : s[i].at \in 1..n
      /\ \A k \in 1..n : \E i \in 1..n : s[i].at = k
      /\ \A i, j \in 1..n : i < j /\ s[i].session = s[j].session => s[i].at < s[j].at
  BY DEF Complete
<1>5. \A i \in 1..n : t[i].at \in 1..n BY <1>1, <1>4, ZenonT(60)
<1>6. \A k \in 1..n : \E i \in 1..n : t[i].at = k
 <2> SUFFICES ASSUME NEW k \in 1..n PROVE \E i \in 1..n : t[i].at = k
   OBVIOUS
 <2>1. PICK l \in 1..n : s[l].at = k BY <1>4
 <2>2. PICK i \in 1..n : f[i] = l BY <1>2
 <2>3. t[i].at = k BY <2>1, <2>2, <1>1
 <2> QED BY <2>3
<1>7. ASSUME NEW i \in 1..n, NEW j \in 1..n, i < j, t[i].session = t[j].session PROVE t[i].at < t[j].at
 <2>1. f[i] < f[j] \/ (f[i] = Q /\ P <= f[j] /\ f[j] < Q) BY <1>3, <1>7
 <2>2. f[i] \in 1..n /\ f[j] \in 1..n /\ t[i] = s[f[i]] /\ t[j] = s[f[j]] BY <1>1
 <2>3. ~(f[i] = Q /\ P <= f[j] /\ f[j] < Q) BY <2>2, <1>7
 <2>4. f[i] < f[j] BY <2>1, <2>3
 <2>5. s[f[i]].session = s[f[j]].session BY <2>2, <1>7
 <2>6. s[f[i]].at < s[f[j]].at BY <2>2, <2>4, <2>5, <1>4
 <2> QED BY <2>2, <2>6
<1> QED BY <1>5, <1>6, <1>7 DEF Complete

\* The same for the parts of a sequence: x goes before mid.
LEMMA Moved ==
  ASSUME NEW S, NEW pre \in Seq(S), NEW mid \in Seq(S), NEW x \in S, NEW post \in Seq(S), NEW n \in Nat,
         Complete(pre \o ((mid \o <<x>>) \o post), n), \A i \in 1..Len(mid) : mid[i].session # x.session
  PROVE  Complete(Append(pre, x) \o (mid \o post), n)
<1> DEFINE one == <<x>>
           a == mid \o one
           b == a \o post
           s == pre \o b
           c == Append(pre, x)
           d == mid \o post
           t == c \o d
           u == Len(pre)
           v == Len(mid)
           w == Len(post)
<1>1. one \in Seq(S) /\ Len(one) = 1 /\ one[1] = x OBVIOUS
<1>2. u \in Nat /\ v \in Nat /\ w \in Nat OBVIOUS
<1> HIDE DEF one
<1>3. a \in Seq(S) /\ Len(a) = v + 1 /\ a[v + 1] = x /\ \A i \in 1..v : a[i] = mid[i]
 <2>1. /\ a \in Seq(S) /\ Len(a) = v + 1 /\ \A i \in 1..v : a[i] = mid[i]
       /\ \A i \in 1..1 : a[v + i] = one[i]
  <3> DEFINE l == Len(one)
  <3> HIDE DEF v, l
  <3>1. Len(mid) = v /\ Len(one) = l BY DEF v, l
  <3>2. /\ a \in Seq(S) /\ Len(a) = v + l /\ \A i \in 1..v : a[i] = mid[i]
        /\ \A i \in 1..l : a[v + i] = one[i]
    BY <1>1, <3>1, Joined
  <3>3. l = 1 BY <1>1 DEF l
  <3> HIDE DEF a
  <3> QED BY <3>2, <3>3
 <2> HIDE DEF a, v
 <2> QED BY <2>1, <1>1
<1>4. c \in Seq(S) /\ Len(c) = u + 1 /\ c[u + 1] = x /\ \A i \in 1..u : c[i] = pre[i]
  BY AppendedProperties
<1>5. /\ d \in Seq(S) /\ Len(d) = v + w
      /\ \A i \in 1..v : d[i] = mid[i]
      /\ \A i \in 1..w : d[v + i] = post[i]
  BY Joined
<1> HIDE DEF a, c, d
<1>6. /\ b \in Seq(S) /\ Len(b) = v + 1 + w
      /\ \A i \in 1..v + 1 : b[i] = a[i]
      /\ \A i \in 1..w : b[v + 1 + i] = post[i]
 <2> HIDE DEF v, w
 <2>1. Len(post) = w BY DEF w
 <2> QED BY <1>3, <2>1, Joined
<1> HIDE DEF b
<1>7. /\ Len(s) = u + (v + 1 + w)
      /\ \A i \in 1..u : s[i] = pre[i]
      /\ \A i \in 1..v + 1 + w : s[u + i] = b[i]
 <2> DEFINE l == v + 1 + w
 <2>1. Len(b) = l /\ b \in Seq(S) BY <1>6
 <2> HIDE DEF l, u
 <2>2. Len(pre) = u BY DEF u
 <2>3. /\ Len(s) = u + l
       /\ \A i \in 1..u : s[i] = pre[i]
       /\ \A i \in 1..l : s[u + i] = b[i]
   BY <2>1, <2>2, Joined
 <2> QED BY <2>3 DEF l
<1>8. /\ Len(t) = u + 1 + (v + w)
      /\ \A i \in 1..u + 1 : t[i] = c[i]
      /\ \A i \in 1..v + w : t[u + 1 + i] = d[i]
 <2> HIDE DEF u, v, w
 <2> QED BY <1>4, <1>5, Joined
<1>9. Complete(s, n) /\ \A i \in 1..v : mid[i].session # x.session BY DEF b, a, one
<1> HIDE DEF s, t, u, v, w
<1>10. n = u + v + w + 1 BY <1>2, <1>7, <1>9 DEF Complete
<1>11. \A i \in 1..u : s[i] = pre[i] /\ t[i] = pre[i] BY <1>2, <1>4, <1>7, <1>8
<1>12. ASSUME NEW i \in 1..v PROVE s[u + i] = mid[i] /\ t[u + 1 + i] = mid[i]
 <2>1. i \in 1..v + 1 + w /\ i \in 1..v + 1 /\ i \in 1..v + w BY <1>2
 <2> QED BY <2>1, <1>3, <1>5, <1>6, <1>7, <1>8
<1>13. ASSUME NEW i \in 1..w PROVE s[u + v + 1 + i] = post[i] /\ t[u + v + 1 + i] = post[i]
 <2>1. v + 1 + i \in 1..v + 1 + w /\ v + i \in 1..v + w BY <1>2
 <2>2. u + (v + 1 + i) = u + v + 1 + i /\ u + 1 + (v + i) = u + v + 1 + i BY <1>2
 <2>3. s[u + (v + 1 + i)] = post[i] BY <2>1, <1>6, <1>7
 <2>4. t[u + 1 + (v + i)] = post[i] BY <2>1, <1>5, <1>8
 <2> QED BY <2>2, <2>3, <2>4
<1>14. s[u + v + 1] = x /\ t[u + 1] = x
 <2>1. v + 1 \in 1..v + 1 + w /\ v + 1 \in 1..v + 1 /\ u + 1 \in 1..u + 1 /\ u + (v + 1) = u + v + 1
   BY <1>2
 <2>2. s[u + (v + 1)] = x BY <2>1, <1>3, <1>6, <1>7
 <2> QED BY <2>1, <2>2, <1>4, <1>8
<1> DEFINE P == u + 1
           Q == u + v + 1
<1>15. P \in 1..n /\ Q \in 1..n /\ P <= Q /\ s[Q] = x BY <1>2, <1>10, <1>14
<1>16. Len(t) = n BY <1>2, <1>8, <1>10
<1>17. \A i \in 1..n : t[i] = IF i = P THEN s[Q] ELSE IF P < i /\ i <= Q THEN s[i - 1] ELSE s[i]
 <2> SUFFICES ASSUME NEW i \in 1..n
              PROVE  t[i] = IF i = P THEN s[Q] ELSE IF P < i /\ i <= Q THEN s[i - 1] ELSE s[i]
   OBVIOUS
 <2>1. CASE i = P BY <2>1, <1>14
 <2>2. CASE i < P
  <3>1. i \in 1..u /\ i # P /\ ~(P < i /\ i <= Q) BY <2>2, <1>2
  <3> HIDE DEF P, Q
  <3> QED BY <3>1, <1>11
 <2>3. CASE P < i /\ i <= Q
  <3> DEFINE k == i - (u + 1)
  <3>1. k \in 1..v /\ u + 1 + k = i /\ u + k = i - 1 /\ i # P BY <2>3, <1>2
  <3> HIDE DEF P, Q, k
  <3>2. s[u + k] = t[u + 1 + k] BY <3>1, <1>12
  <3> QED BY <3>1, <3>2, <2>3
 <2>4. CASE Q < i
  <3> DEFINE k == i - (u + v + 1)
  <3>1. k \in 1..w /\ u + v + 1 + k = i /\ i # P /\ ~(P < i /\ i <= Q) BY <2>4, <1>2, <1>10
  <3> HIDE DEF P, Q, k
  <3>2. s[u + v + 1 + k] = t[u + v + 1 + k] BY <3>1, <1>13
  <3> QED BY <3>1, <3>2
 <2>5. i = P \/ i < P \/ (P < i /\ i <= Q) \/ Q < i BY <1>2
 <2> QED BY <2>1, <2>2, <2>3, <2>4, <2>5
<1>18. \A i \in 1..n : P <= i /\ i < Q => s[i].session # s[Q].session
 <2> SUFFICES ASSUME NEW i \in 1..n, P <= i, i < Q PROVE s[i].session # s[Q].session
   OBVIOUS
 <2> DEFINE k == i - u
 <2>1. k \in 1..v /\ u + k = i BY <1>2
 <2> HIDE DEF P, Q, k
 <2>2. s[i] = mid[k] BY <2>1, <1>12
 <2> QED BY <2>1, <2>2, <1>9, <1>15
<1> HIDE DEF P, Q
<1>19. Complete(t, n) BY <1>9, <1>15, <1>16, <1>17, <1>18, MovedForward
<1> QED BY <1>19 DEF t, c, d

\* The parts of the replies and the whole are sequences of them.
LEMMA RepliesAreReplies ==
  ASSUME NEW S, NEW h \in Seq(S), NEW r \in Seq(S), NEW m \in Seq(S), NEW b \in Seq(S)
  PROVE  Replies(h, r, m, b) \in Seq(S) /\ h \o r \in Seq(S) /\ (h \o r) \o m \in Seq(S)
BY ConcatProperties DEF Replies

\* Replies received by a call are handed out.
LEMMA ReplyHanded ==
  ASSUME NEW S, NEW h \in Seq(S), NEW r \in Seq(S), NEW m \in Seq(S), NEW b \in Seq(S)
  PROVE  Replies(h \o r, << >>, m, b) = Replies(h, r, m, b)
<1>1. h \o r \in Seq(S) BY ConcatProperties
<1> DEFINE a == h \o r
<1> HIDE DEF a
<1>2. a \in Seq(S) BY <1>1 DEF a
<1>3. a \o << >> = a BY <1>2, ConcatEmptySeq
<1> QED BY <1>3 DEF Replies, a

\* A sequence and one more element joined to another.
LEMMA AppendOfConcat ==
  ASSUME NEW S, NEW s \in Seq(S), NEW t \in Seq(S), NEW x \in S
  PROVE  s \o Append(t, x) = Append(s \o t, x)
<1> DEFINE one == <<x>>
<1>1. one \in Seq(S) /\ s \o t \in Seq(S) BY ConcatProperties
<1>2. Append(t, x) = t \o one /\ Append(s \o t, x) = (s \o t) \o one BY <1>1, AppendIsConcat
<1> HIDE DEF one
<1>3. (s \o t) \o one = s \o (t \o one) BY <1>1, ConcatAssociative
<1> QED BY <1>2, <1>3

\* A reply arrives.
LEMMA ReplyArrived ==
  ASSUME NEW h \in Seq(Reply), NEW r \in Seq(Reply), NEW m \in Seq(Reply), NEW b \in Seq(Reply),
         NEW n \in Nat, Complete(Replies(h, r, m, b), n), NEW x \in Reply, x.at = n + 1
  PROVE  Complete(Replies(h, r, m, Append(b, x)), n + 1)
<1> DEFINE s == Replies(h, r, m, b)
           t == Append(s, x)
<1>1. s \in Seq(Reply) /\ (h \o r) \o m \in Seq(Reply) BY RepliesAreReplies
<1>2. Replies(h, r, m, Append(b, x)) = t
 <2> DEFINE a == (h \o r) \o m
 <2>1. a \in Seq(Reply) BY <1>1
 <2> HIDE DEF a
 <2>2. a \o Append(b, x) = Append(a \o b, x) BY <2>1, AppendOfConcat, SMTT(30)
 <2> QED BY <2>2 DEF Replies, a
<1>3. Complete(s, n) OBVIOUS
<1> HIDE DEF s
<1>4. /\ Len(s) = n
      /\ \A i \in 1..n : s[i].at \in 1..n
      /\ \A k \in 1..n : \E i \in 1..n : s[i].at = k
      /\ \A i, j \in 1..n : i < j /\ s[i].session = s[j].session => s[i].at < s[j].at
  BY <1>3 DEF Complete
<1>5. /\ Len(t) = n + 1 /\ t[n + 1] = x /\ \A i \in 1..n : t[i] = s[i]
      /\ \A i \in 1..n + 1 : i \in 1..n \/ i = n + 1
  BY <1>1, <1>4, AppendedProperties
<1> HIDE DEF t
<1>6. \A i \in 1..n + 1 : t[i].at \in 1..n + 1
 <2>1. \A k \in 1..n : k \in 1..n + 1 OBVIOUS
 <2>2. n + 1 \in 1..n + 1 OBVIOUS
 <2> QED BY <1>4, <1>5, <2>1, <2>2
<1>7. \A k \in 1..n + 1 : \E i \in 1..n + 1 : t[i].at = k
 <2>1. \A i \in 1..n : i \in 1..n + 1 OBVIOUS
 <2>2. n + 1 \in 1..n + 1 OBVIOUS
 <2> SUFFICES ASSUME NEW k \in 1..n + 1 PROVE \E i \in 1..n + 1 : t[i].at = k
   OBVIOUS
 <2>3. CASE k \in 1..n BY <2>1, <2>3, <1>4, <1>5
 <2>4. CASE k = n + 1 BY <2>2, <2>4, <1>5
 <2> QED BY <2>3, <2>4, <1>5
<1>8. ASSUME NEW i \in 1..n + 1, NEW j \in 1..n + 1, i < j, t[i].session = t[j].session
      PROVE  t[i].at < t[j].at
 <2>1. i \in 1..n BY <1>8
 <2>2. CASE j \in 1..n BY <2>1, <2>2, <1>4, <1>5, <1>8
 <2>3. CASE j = n + 1
  <3>1. t[j].at = n + 1 /\ t[i].at \in 1..n BY <2>1, <2>3, <1>4, <1>5
  <3> QED BY <3>1
 <2> QED BY <2>2, <2>3, <1>5
<1>9. Complete(t, n + 1) BY <1>5, <1>6, <1>7, <1>8 DEF Complete
<1> QED BY <1>2, <1>9

\* The head of the inbox is kept for a later call.
LEMMA ReplyKept ==
  ASSUME NEW S, NEW h \in Seq(S), NEW r \in Seq(S), NEW m \in Seq(S), NEW b \in Seq(S), b # << >>
  PROVE  /\ Append(m, Head(b)) \in Seq(S) /\ Tail(b) \in Seq(S)
         /\ Replies(h, r, Append(m, Head(b)), Tail(b)) = Replies(h, r, m, b)
<1> DEFINE a == h \o r
           x == Head(b)
           c == Tail(b)
<1>1. a \in Seq(S) /\ x \in S /\ c \in Seq(S) BY ConcatProperties, HeadTailProperties
<1> HIDE DEF a
<1>2. a \o m \in Seq(S) /\ Append(m, x) \in Seq(S)
  BY <1>1, ConcatProperties, AppendedProperties
<1>3. a \o Append(m, x) = Append(a \o m, x) BY <1>1, AppendOfConcat
<1>4. Append(a \o m, x) \o c = (a \o m) \o b
 <2> DEFINE d == a \o m
 <2>1. d \in Seq(S) BY <1>2
 <2> HIDE DEF d
 <2>2. Append(d, Head(b)) \o Tail(b) = d \o b BY <2>1, TakenOver
 <2> QED BY <2>2 DEF d
<1> HIDE DEF x, c
<1>5. (a \o Append(m, x)) \o c = (a \o m) \o b BY <1>3, <1>4
<1> QED BY <1>1, <1>2, <1>5 DEF Replies, a, x, c

\* Concatenation of replies is associative.
LEMMA RepliesAssociate ==
  \A s, t, u \in Seq(Reply) : (s \o t) \o u = s \o (t \o u)
BY ConcatAssociative, SMTT(30)

\* The head of the inbox goes to the call that waits for it.
LEMMA ReplyReceived ==
  ASSUME NEW h \in Seq(Reply), NEW r \in Seq(Reply), NEW m \in Seq(Reply), NEW b \in Seq(Reply),
         NEW n \in Nat, Complete(Replies(h, r, m, b), n), b # << >>,
         \A i \in 1..Len(m) : m[i].session # Head(b).session
  PROVE  Complete(Replies(h, Append(r, Head(b)), m, Tail(b)), n)
<1> DEFINE a == h \o r
           x == Head(b)
           c == Tail(b)
           one == <<x>>
<1>1. a \in Seq(Reply) /\ x \in Reply /\ c \in Seq(Reply)
  BY ConcatProperties, HeadTailProperties
<1>2. h \o Append(r, x) = Append(a, x) /\ Append(a, x) \in Seq(Reply)
  BY <1>1, AppendOfConcat, AppendedProperties
<1>3. b = one \o c
 <2>1. Append(<< >>, x) \o c = << >> \o b
  <3>1. << >> \in Seq(Reply) OBVIOUS
  <3> QED BY <3>1, TakenOver
 <2>2. << >> \o b = b BY ConcatEmptySeq
 <2>3. Append(<< >>, x) = one
  <3> HIDE DEF x
  <3>1. x \in Reply BY <1>1
  <3>2. Append(<< >>, x) = << >> \o <<x>>
   <4>1. << >> \in Seq(Reply) OBVIOUS
   <4> QED BY <3>1, <4>1, AppendIsConcat
  <3>3. <<x>> \in Seq(Reply) BY <3>1
  <3>4. << >> \o <<x>> = <<x>> BY <3>3, ConcatEmptySeq
  <3> QED BY <3>2, <3>4 DEF one
 <2> QED BY <2>1, <2>2, <2>3
<1>4. one \in Seq(Reply) BY <1>1
<1> HIDE DEF one
<1>5. (a \o m) \o b = a \o ((m \o one) \o c)
 <2>1. (a \o m) \o b = a \o (m \o b)
  <3>1. a \in Seq(Reply) BY <1>1
  <3> HIDE DEF a
  <3> QED BY ONLY <3>1, m \in Seq(Reply), b \in Seq(Reply), RepliesAssociate
 <2>2. m \o b = (m \o one) \o c
  <3> HIDE DEF c
  <3>1. (m \o one) \o c = m \o (one \o c)
   <4>1. c \in Seq(Reply) BY <1>1
   <4> QED BY ONLY <4>1, <1>4, m \in Seq(Reply), RepliesAssociate, ZenonT(60)
  <3> QED BY <3>1, <1>3
 <2> QED BY <2>1, <2>2
<1>6. Complete(a \o ((m \o one) \o c), n) BY <1>5 DEF Replies
<1>7. Complete(Append(a, x) \o (m \o c), n)
 <2>1. Complete(a \o ((m \o <<x>>) \o c), n) BY <1>6 DEF one
 <2>2. \A i \in 1..Len(m) : m[i].session # x.session OBVIOUS
 <2> HIDE DEF a, c, x
 <2> QED BY <2>1, <2>2, <1>1, Moved
<1>8. Append(a, x) \o (m \o c) = (Append(a, x) \o m) \o c
 <2> DEFINE d == Append(a, x)
 <2>1. d \in Seq(Reply) BY <1>2
 <2> HIDE DEF a, x, c, d
 <2>2. (d \o m) \o c = d \o (m \o c)
  <3>1. c \in Seq(Reply) BY <1>1
  <3> QED BY ONLY <2>1, <3>1, m \in Seq(Reply), RepliesAssociate, ZenonT(60)
 <2> QED BY <2>2 DEF d
<1>9. Replies(h, Append(r, x), m, c) = (Append(a, x) \o m) \o c BY <1>2, Zenon DEF Replies
<1> QED BY <1>7, <1>8, <1>9

\* A sequence without one of its elements.
LEMMA TakenOut ==
  ASSUME NEW S, NEW m \in Seq(S), NEW q \in 1..Len(m)
  PROVE  /\ SubSeq(m, 1, q - 1) \in Seq(S) /\ SubSeq(m, q + 1, Len(m)) \in Seq(S) /\ m[q] \in S
         /\ \A i \in 1..Len(SubSeq(m, 1, q - 1)) : i \in 1..q - 1 /\ SubSeq(m, 1, q - 1)[i] = m[i]
         /\ m = (SubSeq(m, 1, q - 1) \o <<m[q]>>) \o SubSeq(m, q + 1, Len(m))
         /\ RemoveAt(m, q) = SubSeq(m, 1, q - 1) \o SubSeq(m, q + 1, Len(m))
         /\ RemoveAt(m, q) \in Seq(S)
         /\ \A i \in 1..Len(RemoveAt(m, q)) : \E j \in 1..Len(m) : RemoveAt(m, q)[i] = m[j]
<1> DEFINE n == Len(m)
           a == SubSeq(m, 1, q - 1)
           b == SubSeq(m, q + 1, n)
<1>0. n \in Nat /\ q \in Nat /\ q >= 1 /\ q <= n OBVIOUS
<1>1. /\ a \in Seq(S) /\ Len(a) = q - 1 /\ \A i \in 1..q - 1 : a[i] = m[i]
 <2>1. \A i \in 1..q - 1 : i \in 1..n /\ m[i] \in S BY <1>0
 <2>2. /\ a \in Seq(S) /\ Len(a) = IF 1 <= q - 1 THEN q - 1 - 1 + 1 ELSE 0
       /\ \A i \in 1..q - 1 - 1 + 1 : a[i] = m[1 + i - 1]
   BY <1>0, <2>1, SubSeqProperties
 <2> HIDE DEF a
 <2> QED BY <1>0, <2>2
<1>2. /\ b \in Seq(S) /\ Len(b) = n - q /\ \A i \in 1..n - q : b[i] = m[q + i]
 <2>1. \A i \in q + 1..n : i \in 1..n /\ m[i] \in S BY <1>0
 <2>2. q + 1 \in Int /\ n \in Int BY <1>0
 <2> HIDE DEF n
 <2>3. /\ b \in Seq(S) /\ Len(b) = IF q + 1 <= n THEN n - (q + 1) + 1 ELSE 0
       /\ \A i \in 1..n - (q + 1) + 1 : b[i] = m[q + 1 + i - 1]
   BY <2>1, <2>2, SubSeqProperties
 <2> HIDE DEF b
 <2>4. \A i \in 1..n - q : i \in 1..n - (q + 1) + 1 /\ q + 1 + i - 1 = q + i BY <1>0
 <2>5. (IF q + 1 <= n THEN n - (q + 1) + 1 ELSE 0) = n - q BY <1>0
 <2> QED BY <2>3, <2>4, <2>5
<1>3. m[q] \in S OBVIOUS
<1>4. m = (a \o <<m[q]>>) \o b
 <2>1. SubSeq(m, 1, q) = a \o <<m[q]>>
  <3>1. 1 \in 1..Len(m) /\ q \in 1..Len(m) BY <1>0
  <3> HIDE DEF n
  <3> QED BY <3>1, SubSeqRecursiveSecond
 <2>2. SubSeq(m, 1, q) \o SubSeq(m, q + 1, Len(m)) = SubSeq(m, 1, Len(m))
  <3>1. 1 \in 1..Len(m) + 1 /\ q \in 1 - 1..Len(m) /\ Len(m) \in q..Len(m) BY <1>0
  <3> QED BY <3>1, ConcatAdjacentSubSeq
 <2>3. SubSeq(m, 1, Len(m)) = m BY SubSeqFull
 <2> QED BY <2>1, <2>2, <2>3
<1>5. RemoveAt(m, q) = a \o b BY DEF RemoveAt
<1> HIDE DEF a, b, n
<1>6. /\ a \o b \in Seq(S) /\ Len(a \o b) = q - 1 + (n - q)
      /\ \A i \in 1..q - 1 : (a \o b)[i] = a[i]
      /\ \A i \in 1..n - q : (a \o b)[q - 1 + i] = b[i]
 <2> DEFINE u == q - 1
            v == n - q
 <2>1. Len(a) = u /\ Len(b) = v BY <1>1, <1>2
 <2> HIDE DEF u, v
 <2>2. /\ a \o b \in Seq(S) /\ Len(a \o b) = u + v
       /\ \A i \in 1..u : (a \o b)[i] = a[i]
       /\ \A i \in 1..v : (a \o b)[u + i] = b[i]
  <3>1. a \in Seq(S) /\ b \in Seq(S) BY <1>1, <1>2
  <3> QED BY ONLY <2>1, <3>1, Joined
 <2> QED BY <2>2 DEF u, v
<1>7. ASSUME NEW i \in 1..Len(a \o b) PROVE \E j \in 1..n : (a \o b)[i] = m[j]
 <2>1. i \in 1..q - 1 \/ i - (q - 1) \in 1..n - q BY <1>0, <1>6
 <2>2. CASE i \in 1..q - 1
  <3>1. i \in 1..n BY <1>0, <2>2
  <3> QED BY <2>2, <3>1, <1>1, <1>6
 <2>3. CASE i - (q - 1) \in 1..n - q
  <3> DEFINE k == i - (q - 1)
  <3>1. k \in 1..n - q /\ q - 1 + k = i /\ q + k \in 1..n BY <1>0, <1>6, <2>3
  <3> HIDE DEF k
  <3>2. (a \o b)[q - 1 + k] = m[q + k] BY <3>1, <1>2, <1>6
  <3> QED BY <3>1, <3>2
 <2> QED BY <2>1, <2>2, <2>3
<1> QED BY <1>1, <1>2, <1>3, <1>4, <1>5, <1>6, <1>7 DEF a, b, n


\* A reply found in the cache goes to the call that waits for it.
LEMMA ReplyFound ==
  ASSUME NEW h \in Seq(Reply), NEW r \in Seq(Reply), NEW m \in Seq(Reply), NEW b \in Seq(Reply),
         NEW n \in Nat, Complete(Replies(h, r, m, b), n), NEW q \in 1..Len(m),
         \A i \in 1..q - 1 : m[i].session # m[q].session
  PROVE  Complete(Replies(h, Append(r, m[q]), RemoveAt(m, q), b), n)
<1> DEFINE a == h \o r
           x == m[q]
           one == <<x>>
           mid == SubSeq(m, 1, q - 1)
           post == SubSeq(m, q + 1, Len(m))
           e == Append(a, x)
<1>1. mid \in Seq(Reply) /\ post \in Seq(Reply) /\ x \in Reply BY TakenOut
<1>2. /\ m = (mid \o one) \o post /\ RemoveAt(m, q) = mid \o post
      /\ \A i \in 1..Len(mid) : mid[i].session # x.session
  BY TakenOut
<1>3. a \in Seq(Reply) BY ConcatProperties
<1>4. one \in Seq(Reply) BY <1>1
<1>5. h \o Append(r, x) = e /\ e \in Seq(Reply)
  BY <1>1, <1>3, AppendOfConcat, AppendedProperties
<1>6. Complete((a \o m) \o b, n) BY DEF Replies
<1> HIDE DEF one, mid, post, a, x, e
<1>7. mid \o one \in Seq(Reply) /\ post \o b \in Seq(Reply) /\ mid \o post \in Seq(Reply)
  BY <1>1, <1>4, ConcatProperties
<1>8. (a \o m) \o b = a \o ((mid \o one) \o (post \o b))
 <2> DEFINE f == mid \o one
 <2>1. f \in Seq(Reply) /\ m = f \o post BY <1>2, <1>7
 <2>2. post \in Seq(Reply) BY <1>1
 <2> HIDE DEF f
 <2>3. (f \o post) \o b = f \o (post \o b)
   BY ONLY <2>1, <2>2, b \in Seq(Reply), RepliesAssociate, ZenonT(60)
 <2>4. (a \o m) \o b = a \o (m \o b)
  <3>1. a \in Seq(Reply) BY <1>3
  <3> QED BY ONLY <3>1, m \in Seq(Reply), b \in Seq(Reply), RepliesAssociate, ZenonT(60)
 <2>5. (a \o m) \o b = a \o (f \o (post \o b)) BY <2>1, <2>3, <2>4
 <2> QED BY <2>5 DEF f
<1>9. Complete(e \o (mid \o (post \o b)), n)
 <2>1. Complete(a \o ((mid \o <<x>>) \o (post \o b)), n) BY <1>6, <1>8 DEF one
 <2> DEFINE f == post \o b
 <2>2. f \in Seq(Reply) BY <1>7
 <2> HIDE DEF f
 <2>3. Complete(a \o ((mid \o <<x>>) \o f), n) BY <2>1 DEF f
 <2>4. Complete(Append(a, x) \o (mid \o f), n)
  <3>1. mid \in Seq(Reply) /\ x \in Reply /\ a \in Seq(Reply) BY <1>1, <1>3
  <3>2. \A i \in 1..Len(mid) : mid[i].session # x.session BY <1>2
  <3> QED BY ONLY <2>2, <2>3, <3>1, <3>2, n \in Nat, Moved
 <2> QED BY <2>4 DEF f, e
<1>10. e \o (mid \o (post \o b)) = (e \o (mid \o post)) \o b
 <2> DEFINE f == mid \o post
 <2>1. mid \in Seq(Reply) /\ post \in Seq(Reply) BY <1>1
 <2>2. e \in Seq(Reply) BY <1>5
 <2>3. (mid \o post) \o b = mid \o (post \o b)
  <3>1. mid \in Seq(Reply) BY <2>1
  <3>2. post \in Seq(Reply) BY <2>1
  <3> QED BY ONLY <3>1, <3>2, b \in Seq(Reply), RepliesAssociate, ZenonT(60)
 <2>4. f \in Seq(Reply) BY <1>7
 <2> HIDE DEF f
 <2>5. (e \o f) \o b = e \o (f \o b)
   BY ONLY <2>2, <2>4, b \in Seq(Reply), RepliesAssociate, ZenonT(60)
 <2> QED BY <2>3, <2>5 DEF f
<1>11. Complete((e \o (mid \o post)) \o b, n) BY <1>9, <1>10
<1>12. Replies(h, Append(r, m[q]), RemoveAt(m, q), b) = (e \o (mid \o post)) \o b
 <2>1. Replies(h, Append(r, x), mid \o post, b) = (e \o (mid \o post)) \o b
   BY <1>5, Zenon DEF Replies
 <2> QED BY <2>1, <1>2 DEF x
<1> QED BY <1>11, <1>12

\* What the look into the cache for one target gives, from what it gave so far.
Looked(x, t) ==
  LET hits == {i \in DOMAIN x.cache : x.cache[i].session = t}
  IN  IF hits = {} THEN [x EXCEPT !.pending = Append(@, t)]
      ELSE [x EXCEPT !.received = Append(@, x.cache[NextHit(hits)]),
                     !.cache = RemoveAt(@, NextHit(hits))]

\* What was found so far.
Found == [pending : Seq(Nat), received : Seq(Reply), cache : Seq(Reply)]
FoundOK(x) == Complete(Replies(handed, x.received, x.cache, inbox), arrived) /\ NoneOf(x.cache, x.pending)

\* One target looked up by receive_by_id leaves the replies complete.
LEMMA LookedKeeps ==
  ASSUME handed \in Seq(Reply), inbox \in Seq(Reply), arrived \in Nat,
         NEW x \in Found, FoundOK(x), NEW t \in Nat
  PROVE  Looked(x, t) \in Found /\ FoundOK(Looked(x, t))
<1> DEFINE m == x.cache
           r == x.received
           pending == x.pending
           hits == {i \in DOMAIN m : m[i].session = t}
<1>1. m \in Seq(Reply) /\ r \in Seq(Reply) /\ pending \in Seq(Nat)
      /\ x = [pending |-> pending, received |-> r, cache |-> m]
  BY DEF Found
<1>2. Complete(Replies(handed, r, m, inbox), arrived) /\ NoneOf(m, pending) BY DEF FoundOK
<1>3. DOMAIN m = 1..Len(m) /\ Len(m) \in Nat BY <1>1, LenProperties
<1>4. CASE hits = {}
 <2> DEFINE waits == Append(pending, t)
            y == [pending |-> waits, received |-> r, cache |-> m]
 <2>1. Looked(x, t) = y BY <1>1, <1>4 DEF Looked
 <2>2. waits \in Seq(Nat) /\ y \in Found BY <1>1 DEF Found
 <2>3. NoneOf(m, waits)
  <3>1. /\ Len(waits) = Len(pending) + 1 /\ waits[Len(pending) + 1] = t
        /\ \A i \in 1..Len(pending) : waits[i] = pending[i]
        /\ \A i \in 1..Len(pending) + 1 : i \in 1..Len(pending) \/ i = Len(pending) + 1
    BY <1>1, AppendedProperties
  <3>2. \A i \in 1..Len(m) : m[i].session # t BY <1>3, <1>4
  <3> HIDE DEF waits, m, pending
  <3> QED BY <3>1, <3>2, <1>2 DEF NoneOf
 <2>4. y.cache = m /\ y.received = r /\ y.pending = waits OBVIOUS
 <2> HIDE DEF y, waits, m, r
 <2> QED BY <2>1, <2>2, <2>3, <2>4, <1>2 DEF FoundOK
<1>5. CASE hits # {}
 <2> DEFINE q == NextHit(hits)
            rest == RemoveAt(m, q)
            got == Append(r, m[q])
            y == [pending |-> pending, received |-> got, cache |-> rest]
 <2>1. q \in hits /\ \A i \in hits : q <= i
  <3>1. IsFiniteSet(1..Len(m))
   <4> DEFINE n == Len(m)
   <4>1. 1 \in Int /\ n \in Int BY <1>3
   <4> HIDE DEF n
   <4>2. IsFiniteSet(1..n) BY ONLY <4>1, FS_Interval
   <4> QED BY <4>2 DEF n
  <3>2. IsFiniteSet(hits) /\ \A i \in hits : i \in Int BY <1>3, <3>1, FS_Subset
  <3> HIDE DEF hits
  <3> QED BY <3>2, <1>5, Extremes DEF NextHit
 <2>2. Looked(x, t) = y BY <1>1, <1>5 DEF Looked
 <2> HIDE DEF q
 <2>3. q \in 1..Len(m) /\ m[q].session = t /\ \A i \in 1..q - 1 : m[i].session # m[q].session
   BY <2>1, <1>3, SMTT(30)
 <2>4. rest \in Seq(Reply) /\ m[q] \in Reply /\ \A i \in 1..Len(rest) : \E j \in 1..Len(m) : rest[i] = m[j]
   BY <2>3, <1>1, TakenOut, ZenonT(60)
 <2>5. Complete(Replies(handed, got, rest, inbox), arrived) BY <2>3, <1>1, <1>2, ReplyFound
 <2>6. NoneOf(rest, pending)
  <3> HIDE DEF rest, m, pending
  <3>1. \A i \in 1..Len(m), j \in 1..Len(pending) : m[i].session # pending[j]
    BY <1>2 DEF NoneOf
  <3>2. ASSUME NEW i \in 1..Len(rest), NEW j \in 1..Len(pending) PROVE rest[i].session # pending[j]
   <4>1. PICK k \in 1..Len(m) : rest[i] = m[k] BY <2>4
   <4> QED BY <3>1, <4>1
  <3> QED BY <3>2 DEF NoneOf
 <2>7. got \in Seq(Reply) BY <2>4, <1>1, AppendedProperties
 <2> HIDE DEF got, rest
 <2>8. y \in Found /\ y.cache = rest /\ y.received = got /\ y.pending = pending
   BY <2>4, <2>7, <1>1 DEF Found
 <2> HIDE DEF y
 <2> QED BY <2>2, <2>5, <2>6, <2>8 DEF FoundOK
<1> QED BY <1>4, <1>5

\* What receive_by_id takes from the cache.
LEMMA FromCacheKeeps ==
  ASSUME handed \in Seq(Reply), inbox \in Seq(Reply), message_cache \in Seq(Reply), arrived \in Nat,
         Complete(Replies(handed, << >>, message_cache, inbox), arrived), NEW targets \in Seq(Nat)
  PROVE  FromCache(targets) \in Found /\ FoundOK(FromCache(targets))
<1> DEFINE n == Len(targets)
           start == [pending |-> << >>, received |-> << >>, cache |-> message_cache]
           Good == {x \in Found : FoundOK(x)}
           T == [k \in 0..n |-> Good]
           G == [p \in (1..n) \X Good |-> Looked(p[2], targets[p[1]])]
           found == CHOOSE f : f = [k \in 0..n |->
                      IF k = 0 THEN start
                      ELSE LET acc == f[k - 1]
                               hits == {i \in DOMAIN acc.cache : acc.cache[i].session = targets[k]}
                           IN  IF hits = {} THEN [acc EXCEPT !.pending = Append(@, targets[k])]
                               ELSE [acc EXCEPT !.received = Append(@, acc.cache[NextHit(hits)]),
                                                !.cache = RemoveAt(@, NextHit(hits))]]
<1>1. n \in Nat /\ \A k \in 1..n : targets[k] \in Nat OBVIOUS
<1>2. FromCache(targets) = found[n] BY DEF FromCache
<1>3. start \in Good
 <2>1. start \in Found BY DEF Found
 <2>2. NoneOf(message_cache, << >>) BY DEF NoneOf
 <2>3. start.cache = message_cache /\ start.received = << >> /\ start.pending = << >>
   OBVIOUS
 <2>4. FoundOK(start) BY <2>2, <2>3 DEF FoundOK
 <2> QED BY <2>1, <2>4
<1> HIDE DEF start, n
<1>4. \A k \in 1..n, x \in Good : Looked(x, targets[k]) \in Good BY <1>1, LookedKeeps
<1>5. PICK f : f = [k \in 0..n |-> IF k = 0 THEN start ELSE Looked(f[k - 1], targets[k])]
 <2> HIDE DEF Good
 <2>1. \A k \in 1..n : \A x \in T[k - 1] : G[<<k, x>>] = Looked(x, targets[k]) /\ G[<<k, x>>] \in T[k]
  <3> SUFFICES ASSUME NEW k \in 1..n, NEW x \in T[k - 1]
               PROVE  G[<<k, x>>] = Looked(x, targets[k]) /\ G[<<k, x>>] \in T[k]
    OBVIOUS
  <3>1. k - 1 \in 0..n /\ k \in 0..n BY <1>1
  <3>2. x \in Good BY <3>1
  <3>3. <<k, x>> \in (1..n) \X Good BY <3>2
  <3>4. G[<<k, x>>] = Looked(x, targets[k]) BY <3>3
  <3>5. Looked(x, targets[k]) \in Good BY <3>2, <1>4
  <3> QED BY <3>1, <3>4, <3>5
 <2>2. start \in T[0]
  <3>1. 0 \in 0..n BY <1>1
  <3> QED BY <3>1, <1>3
 <2> HIDE DEF T, G
 <2>3. PICK f : /\ f = [k \in 0..n |-> IF k = 0 THEN start ELSE G[<<k, f[k - 1]>>]]
                /\ \A k \in 0..n : f[k] \in T[k]
  <3>1. \A k \in 1..n : \A x \in T[k - 1] : G[<<k, x>>] \in T[k] BY <2>1
  <3>2. \E f : IsComputed(f, n, start, G, T) BY <1>1, <2>2, <3>1, IteratesExist
  <3> QED BY <3>2 DEF IsComputed
 <2>4. \A k \in 0..n : k # 0 => k \in 1..n /\ k - 1 \in 0..n BY <1>1
 <2>5. \A k \in 0..n : (IF k = 0 THEN start ELSE G[<<k, f[k - 1]>>])
                           = (IF k = 0 THEN start ELSE Looked(f[k - 1], targets[k]))
   BY <2>1, <2>3, <2>4
 <2>6. f = [k \in 0..n |-> IF k = 0 THEN start ELSE Looked(f[k - 1], targets[k])]
   BY <2>3, <2>5
 <2> QED BY <2>6
<1>6. found = [k \in 0..n |-> IF k = 0 THEN start ELSE Looked(found[k - 1], targets[k])]
 <2>1. \E f1 : f1 = [k \in 0..n |-> IF k = 0 THEN start ELSE Looked(f1[k - 1], targets[k])]
   BY <1>5
 <2>2. found = CHOOSE f1 : f1 = [k \in 0..n |-> IF k = 0 THEN start ELSE Looked(f1[k - 1], targets[k])]
   BY DEF Looked
 <2> HIDE DEF found
 <2> QED BY <2>1, <2>2
<1> HIDE DEF found
<1>7. \A k \in 0..n : found[k] \in T[k]
 <2>1. found[0] \in T[0]
  <3>1. 0 \in 0..n BY <1>1
  <3> HIDE DEF Good
  <3>2. found[0] = start /\ T[0] = Good BY <3>1, <1>6
  <3> QED BY <3>2, <1>3
 <2>2. ASSUME NEW k \in 1..n, found[k - 1] \in T[k - 1] PROVE found[k] \in T[k]
  <3>1. k \in 0..n /\ k - 1 \in 0..n /\ k # 0 BY <1>1
  <3> HIDE DEF Good
  <3>2. found[k] = Looked(found[k - 1], targets[k]) BY <3>1, <1>6
  <3>3. found[k - 1] \in Good BY <3>1, <2>2
  <3>4. found[k] \in Good BY <3>2, <3>3, <1>4
  <3> QED BY <3>1, <3>4
 <2> HIDE DEF T
 <2> QED BY <1>1, <2>1, <2>2, IteratesKeep
<1>8. found[n] \in Good
 <2>1. n \in 0..n BY <1>1
 <2> HIDE DEF Good
 <2> QED BY <2>1, <1>7
<1> QED BY <1>2, <1>8

\* The pending sessions without one.
LEMMA RemovedFirst ==
  ASSUME NEW S, NEW s \in Seq(S), NEW e
  PROVE  /\ RemoveFirst(s, e) \in Seq(S)
         /\ \A i \in 1..Len(RemoveFirst(s, e)) : \E j \in 1..Len(s) : RemoveFirst(s, e)[i] = s[j]
<1> DEFINE places == {i \in 1..Len(s) : s[i] = e}
<1>1. CASE places = {}
 <2>1. RemoveFirst(s, e) = s BY <1>1 DEF RemoveFirst
 <2> QED BY <2>1
<1>2. CASE places # {}
 <2> DEFINE q == Min(places)
 <2>1. RemoveFirst(s, e) = RemoveAt(s, q)
  <3>1. \E i \in 1..Len(s) : s[i] = e BY <1>2
  <3>2. RemoveFirst(s, e) = RemoveAt(s, SelectInSeq(s, LAMBDA v : v = e))
    BY <3>1 DEF RemoveFirst
  <3>3. SelectInSeq(s, LAMBDA v : v = e) = q BY <1>2 DEF SelectInSeq
  <3> QED BY <3>2, <3>3
 <2>2. q \in 1..Len(s)
  <3>1. Len(s) \in Nat OBVIOUS
  <3>2. IsFiniteSet(1..Len(s)) BY <3>1, FS_Interval
  <3>3. IsFiniteSet(places) /\ \A i \in places : i \in Int BY <3>1, <3>2, FS_Subset
  <3>4. places \subseteq 1..Len(s) OBVIOUS
  <3> HIDE DEF places
  <3>5. Min(places) \in places BY <3>3, <1>2, Extremes
  <3> QED BY <3>4, <3>5
 <2> HIDE DEF q
 <2>3. /\ RemoveAt(s, q) \in Seq(S)
       /\ \A i \in 1..Len(RemoveAt(s, q)) : \E j \in 1..Len(s) : RemoveAt(s, q)[i] = s[j]
   BY <2>2, TakenOut
 <2> QED BY <2>1, <2>3
<1> QED BY <1>1, <1>2

\* What a call is made of, by its program counter.
LEMMA CallFields ==
  ASSUME CallOK
  PROVE  /\ call.pc \in {"joining", "idle", "exited", "connecting", "send", "ready", "waiting", "receive"}
         /\ call.pc = "connecting" => call.names \in SUBSET Peers
         /\ Sends => /\ call.block \in BOOLEAN /\ call.targets \in Seq(Nat) /\ call.todo \in Seq(Message)
         /\ call.pc \in {"ready", "waiting"} =>
              /\ call.type \in Types
              /\ call = [pc |-> call.pc, block |-> call.block, targets |-> call.targets, todo |-> call.todo,
                         type |-> call.type]
         /\ call.pc = "receive" =>
              /\ call.pending \in Seq(Nat) /\ call.received \in Seq(Reply)
              /\ call = [pc |-> "receive", pending |-> call.pending, received |-> call.received]
<1>1. CASE call \in [pc : {"joining", "idle", "exited"}] BY <1>1 DEF Sends
<1>2. CASE call \in [pc : {"connecting"}, names : SUBSET Peers] BY <1>2 DEF Sends
<1>3. CASE call \in [pc : {"send"}, block : BOOLEAN, targets : Seq(Nat), todo : Seq(Message)]
  BY <1>3 DEF Sends
<1>4. CASE call \in [pc : {"send", "ready", "waiting"}, block : BOOLEAN, targets : Seq(Nat),
                     todo : Seq(Message), type : Types]
  BY <1>4 DEF Sends
<1>5. CASE call \in [pc : {"receive"}, pending : Seq(Nat), received : Seq(Reply)]
  BY <1>5 DEF Sends
<1> QED BY <1>1, <1>2, <1>3, <1>4, <1>5 DEF CallOK

\* The first of the messages that are left.
LEMMA FirstMessage ==
  ASSUME CallOK, Sends, call.todo # << >>
  PROVE  /\ Head(call.todo) \in Message /\ Head(call.todo) = call.todo[1] /\ 1 \in 1..Len(call.todo)
         /\ Head(call.todo).id \in Nat /\ Head(call.todo).dst \in Peers
         /\ TypeOf[Head(call.todo).dst] \in Types
         /\ Tail(call.todo) \in Seq(Message) /\ Len(Tail(call.todo)) = Len(call.todo) - 1
         /\ \A i \in 1..Len(Tail(call.todo)) : i + 1 \in 1..Len(call.todo) /\ Tail(call.todo)[i] = call.todo[i + 1]
<1> DEFINE t == call.todo
<1>1. t \in Seq(Message) /\ t # << >> BY CallFields
<1> HIDE DEF t
<1>2. Len(t) \in Nat \ {0} /\ Head(t) = t[1] /\ 1 \in 1..Len(t) /\ Head(t) \in Message
  BY <1>1, EmptySeq
<1>3. /\ Tail(t) \in Seq(Message) /\ Len(Tail(t)) = Len(t) - 1
      /\ \A i \in 1..Len(t) - 1 : Tail(t)[i] = t[i + 1]
  BY <1>1, HeadTailProperties
<1>4. \A i \in 1..Len(t) - 1 : i + 1 \in 1..Len(t) BY <1>2
<1>5. Head(t).id \in Nat /\ Head(t).dst \in Peers BY <1>2 DEF Message
<1>6. TypeOf[Head(t).dst] \in Types BY <1>5 DEF Types
<1> QED BY <1>2, <1>3, <1>4, <1>5, <1>6 DEF t

\* A message goes to the one peer it is for, after all that is on its way to it.
LEMMA TransmittedType ==
  ASSUME wire \in [Channels -> [Peers -> Seq(Nat)]], NEW p \in Peers, NEW ids \in Seq(Nat)
  PROVE  /\ Transmitted(p, ids) \in [Channels -> [Peers -> Seq(Nat)]]
         /\ \A q \in Peers : Transmitted(p, ids)["broadcast"][q] = wire["broadcast"][q]
         /\ \A q \in Peers \ {p} : Transmitted(p, ids)["unicast"][q] = wire["unicast"][q]
         /\ \/ Transmitted(p, ids)["unicast"][p] = wire["unicast"][p]
            \/ Transmitted(p, ids)["unicast"][p] = wire["unicast"][p] \o ids
<1> DEFINE w == [wire EXCEPT !["unicast"][p] = @ \o ids]
<1>1. "unicast" \in Channels /\ "broadcast" \in Channels BY DEF Channels
<1>2. wire["unicast"][p] \o ids \in Seq(Nat) BY <1>1, ConcatProperties
<1>3. w \in [Channels -> [Peers -> Seq(Nat)]] BY <1>1, <1>2
<1>4. /\ \A q \in Peers : w["broadcast"][q] = wire["broadcast"][q]
      /\ \A q \in Peers \ {p} : w["unicast"][q] = wire["unicast"][q]
      /\ w["unicast"][p] = wire["unicast"][p] \o ids
  BY <1>1
<1>5. Transmitted(p, ids) = IF peer[p].up /\ sender[p] = peer[p].address THEN w ELSE wire
  BY DEF Transmitted
<1> HIDE DEF w
<1> QED BY <1>3, <1>4, <1>5

\* _check_peers_update leaves no peer unknown that was known.
LEMMA ViewFollows ==
  ASSUME redis \in [Peers -> Nat], onboard \in [Peers -> Nat], disconnected \in SUBSET Peers,
         sender = onboard, \A p \in Peers : p \in disconnected => onboard[p] = 0,
         _check_peers_update
  PROVE  /\ onboard' \in [Peers -> Nat] /\ disconnected' \in SUBSET Peers
         /\ sender' = onboard' /\ \A p \in Peers : p \in disconnected' => onboard'[p] = 0
         /\ Known \subseteq Known'
<1> DEFINE new == {p \in Peers : redis[p] /= 0 /\ redis[p] /= onboard[p]}
           gone == {p \in Peers : onboard[p] /= 0 /\ redis[p] /= onboard[p]}
<1>1. /\ sender' = [p \in Peers |-> IF p \in new THEN redis[p] ELSE IF p \in gone THEN 0 ELSE sender[p]]
      /\ disconnected' = (disconnected \cup gone) \ new
      /\ onboard' = redis
  BY DEF _check_peers_update, disconnect_then_connect
<1>2. sender' = onboard'
 <2>1. \A p \in Peers : (IF p \in new THEN redis[p] ELSE IF p \in gone THEN 0 ELSE sender[p]) = redis[p]
   OBVIOUS
 <2>2. sender' = [p \in Peers |-> redis[p]] BY <1>1, <2>1
 <2> QED BY <2>2, <1>1
<1>3. \A p \in Peers : p \in disconnected' => onboard'[p] = 0 BY <1>1
<1>4. Known \subseteq Known' BY <1>1 DEF Known
<1> QED BY <1>1, <1>2, <1>3, <1>4

\* A step that leaves the addresses and what is kept leaves the view of the peers.
LEMMA SameView ==
  ASSUME ViewOK, UNCHANGED <<onboard, sender, disconnected, exited_cache>>,
         Sends' => \A i \in 1..Len(call'.todo) : call'.todo[i].dst \in Known,
         call'.pc \in {"joining", "connecting"} => call.pc \in {"joining", "connecting"}
  PROVE  ViewOK'
<1>1. Known' = Known BY DEF Known
<1> QED BY <1>1 DEF ViewOK

\* The steps of the peers.
LEMMA PeersType ==
  ASSUME ProxyAssumption, ProxyTypeOK, ViewOK, NEW p \in Peers,
         _register_redis(p) \/ _signal_handler(p) \/ Killed(p) \/ \E c \in Channels : reply(p, c)
  PROVE  ProxyTypeOK' /\ ViewOK'
<1> USE DEF peerVars, viewVars, cacheVars, userVars
<1>0. UNCHANGED <<onboard, sender, disconnected, exited_cache, call, expired, message_cache, outstanding,
                  created, resent, handed>>
  BY DEF _register_redis, _signal_handler, Killed, reply
<1>1. ViewOK'
 <2>1. Sends' => \A i \in 1..Len(call'.todo) : call'.todo[i].dst \in Known
   BY <1>0 DEF ViewOK, Sends
 <2> QED BY <1>0, <2>1, SameView
<1>2. /\ onboard' \in [Peers -> Nat] /\ disconnected' \in SUBSET Peers /\ expired' \in BOOLEAN
      /\ exited_cache' \in [Peers -> Seq(Nat)] /\ outstanding' \in Seq(Nat) /\ CallOK'
      /\ message_cache' \in Seq(Reply) /\ handed' \in Seq(Reply) /\ created' \in Nat /\ resent' \in SUBSET Nat
  BY <1>0 DEF ProxyTypeOK, CallOK
<1>3. ASSUME _register_redis(p)
      PROVE  /\ redis' \in [Peers -> Nat] /\ peer' \in [Peers -> [up : BOOLEAN, address : Nat]]
             /\ UNCHANGED <<wire, delivered, inbox, arrived>>
 <2>1. peer[p].address + 1 \in Nat BY DEF ProxyTypeOK
 <2>2. peer' = [peer EXCEPT ![p] = [up |-> TRUE, address |-> peer[p].address + 1]]
   BY <1>3 DEF _register_redis
 <2>3. peer' \in [Peers -> [up : BOOLEAN, address : Nat]] /\ peer'[p].address \in Nat
   BY <2>1, <2>2 DEF ProxyTypeOK
 <2>4. redis' = [redis EXCEPT ![p] = peer'[p].address] BY <1>3 DEF _register_redis
 <2>5. redis' \in [Peers -> Nat] BY <2>3, <2>4 DEF ProxyTypeOK
 <2> QED BY <1>3, <2>3, <2>5 DEF _register_redis
<1>4. ASSUME _signal_handler(p) \/ Killed(p)
      PROVE  /\ redis' \in [Peers -> Nat] /\ peer' \in [Peers -> [up : BOOLEAN, address : Nat]]
             /\ wire' \in [Channels -> [Peers -> Seq(Nat)]] /\ UNCHANGED <<delivered, inbox, arrived>>
 <2>1. peer' \in [Peers -> [up : BOOLEAN, address : Nat]]
  <3>1. peer' = [peer EXCEPT ![p].up = FALSE] BY <1>4 DEF _signal_handler, Killed
  <3> QED BY <3>1 DEF ProxyTypeOK
 <2>2. redis' \in [Peers -> Nat] BY <1>4 DEF _signal_handler, Killed, ProxyTypeOK
 <2>3. wire' \in [Channels -> [Peers -> Seq(Nat)]]
  <3>1. wire' = [c \in Channels |-> [wire[c] EXCEPT ![p] = << >>]]
    BY <1>4 DEF _signal_handler, Killed
  <3>2. << >> \in Seq(Nat) OBVIOUS
  <3> QED BY <3>1, <3>2 DEF ProxyTypeOK
 <2> QED BY <1>4, <2>1, <2>2, <2>3 DEF _signal_handler, Killed
<1>5. ASSUME NEW c \in Channels, reply(p, c)
      PROVE  /\ UNCHANGED <<redis, peer>> /\ wire' \in [Channels -> [Peers -> Seq(Nat)]]
             /\ delivered' \in [Channels -> [Peers -> Seq(Nat)]] /\ inbox' \in Seq(Reply) /\ arrived' \in Nat
 <2> DEFINE s == Head(wire[c][p])
 <2>1. wire[c][p] \in Seq(Nat) /\ wire[c][p] # << >> /\ s \in Nat /\ Tail(wire[c][p]) \in Seq(Nat)
  <3> DEFINE u == wire[c][p]
  <3>1. u \in Seq(Nat) BY DEF ProxyTypeOK
  <3>2. u # << >> BY <1>5 DEF reply
  <3> HIDE DEF u
  <3>3. Head(u) \in Nat /\ Tail(u) \in Seq(Nat) BY <3>1, <3>2, HeadTailProperties
  <3> QED BY <3>1, <3>2, <3>3 DEF u
 <2>2. wire' \in [Channels -> [Peers -> Seq(Nat)]] BY <1>5, <2>1 DEF reply, ProxyTypeOK
 <2>3. delivered' \in [Channels -> [Peers -> Seq(Nat)]]
  <3>1. delivered[c][p] \in Seq(Nat) BY DEF ProxyTypeOK
  <3>2. Append(delivered[c][p], s) \in Seq(Nat) BY <2>1, <3>1
  <3>3. delivered' = [delivered EXCEPT ![c][p] = Append(@, s)] BY <1>5 DEF reply
  <3> QED BY <3>2, <3>3 DEF ProxyTypeOK
 <2> DEFINE answer(stage, n) ==
              [session |-> s, from |-> p, stage |-> stage, address |-> peer[p].address, at |-> arrived + n]
            x == answer("COMPLETE", 1)
            y == answer("RECEIVE", 1)
            z == answer("COMPLETE", 2)
 <2>4. x \in Reply /\ y \in Reply /\ z \in Reply
  <3>1. peer[p].address \in Nat /\ arrived + 1 \in Nat /\ arrived + 2 \in Nat
    BY DEF ProxyTypeOK
  <3>2. s \in Nat BY <2>1
  <3> HIDE DEF s
  <3> QED BY <3>1, <3>2 DEF Reply
 <2>5. \/ inbox' = inbox \o <<y, z>> /\ arrived' = arrived + Len(<<y, z>>)
       \/ inbox' = inbox \o <<x>> /\ arrived' = arrived + Len(<<x>>)
   BY <1>5, Zenon DEF reply
 <2> HIDE DEF x, y, z
 <2>6. <<y, z>> \in Seq(Reply) /\ <<x>> \in Seq(Reply) /\ Len(<<y, z>>) = 2 /\ Len(<<x>>) = 1
   BY <2>4
 <2>7. inbox' \in Seq(Reply)
  <3>1. inbox \in Seq(Reply) BY DEF ProxyTypeOK
  <3>2. inbox \o <<y, z>> \in Seq(Reply) BY <2>6, <3>1, ConcatProperties
  <3>3. inbox \o <<x>> \in Seq(Reply) BY <2>6, <3>1, ConcatProperties
  <3> QED BY <2>5, <3>2, <3>3
 <2>8. arrived' \in Nat
  <3>1. arrived \in Nat BY DEF ProxyTypeOK
  <3> QED BY <2>5, <2>6, <3>1
 <2> QED BY <1>5, <2>2, <2>3, <2>7, <2>8 DEF reply
<1> QED BY <1>1, <1>2, <1>3, <1>4, <1>5 DEF ProxyTypeOK

\* The steps of joining: the driver connects to just the peers on board.
LEMMA JoiningType ==
  ASSUME ProxyAssumption, ProxyTypeOK, ViewOK,
         _get_peers_list \/ _get_peers_listFails \/ _build_connection
  PROVE  ProxyTypeOK' /\ ViewOK'
<1> USE DEF peerVars, viewVars, cacheVars, userVars
<1>1. CASE _get_peers_list
 <2>1. PICK names \in SUBSET Peers : call' = [pc |-> "connecting", names |-> names]
   BY <1>1 DEF _get_peers_list
 <2>2. call.pc = "joining" BY <1>1 DEF _get_peers_list
 <2>3. call'.pc = "connecting" /\ CallOK' BY <2>1 DEF CallOK
 <2>4. ~ Sends' BY <2>3 DEF Sends
 <2>5. ViewOK' BY <1>1, <2>2, <2>4, SameView DEF _get_peers_list
 <2> QED BY <1>1, <2>3, <2>5 DEF _get_peers_list, ProxyTypeOK
<1>2. CASE _get_peers_listFails
 <2>1. call' = [pc |-> "exited"] BY <1>2 DEF _get_peers_listFails
 <2>2. call'.pc = "exited" /\ CallOK' BY <2>1 DEF CallOK
 <2>3. ~ Sends' BY <2>2 DEF Sends
 <2>4. ViewOK' BY <1>2, <2>2, <2>3, SameView DEF _get_peers_listFails
 <2> QED BY <1>2, <2>2, <2>4 DEF _get_peers_listFails, ProxyTypeOK
<1>3. CASE _build_connection
 <2>1. call.pc = "connecting" /\ call.names \in SUBSET Peers
   BY <1>3, CallFields DEF _build_connection, ProxyTypeOK
 <2>2. CASE \E p \in call.names : redis[p] = 0
  <3>1. call' = [pc |-> "exited"] BY <1>3, <2>2 DEF _build_connection
  <3>2. call'.pc = "exited" /\ CallOK' BY <3>1 DEF CallOK
  <3>3. ~ Sends' BY <3>2 DEF Sends
  <3>4. ViewOK' BY <1>3, <2>2, <3>2, <3>3, SameView DEF _build_connection
  <3> QED BY <1>3, <2>2, <3>2, <3>4 DEF _build_connection, ProxyTypeOK
 <2>3. CASE ~ \E p \in call.names : redis[p] = 0
  <3>1. /\ onboard' = [p \in Peers |-> IF p \in call.names THEN redis[p] ELSE 0]
        /\ sender' = [p \in Peers |-> IF p \in call.names THEN redis[p] ELSE sender[p]]
        /\ disconnected' = disconnected \ call.names
        /\ call' = [pc |-> "idle"]
        /\ UNCHANGED <<expired, redis, peer, wire, delivered, inbox, arrived, exited_cache, message_cache,
                       outstanding, created, resent, handed>>
    BY <1>3, <2>3 DEF _build_connection, connect
  <3>2. call'.pc = "idle" /\ CallOK' /\ ~ Sends' BY <3>1 DEF CallOK, Sends
  <3>3. /\ \A p \in Peers : onboard[p] = 0 /\ exited_cache[p] = << >>
        /\ disconnected = {} /\ sender = onboard
    BY <2>1 DEF ViewOK
  <3>4. sender' = onboard' /\ disconnected' = {} /\ \A p \in Peers : exited_cache'[p] = << >>
    BY <3>1, <3>3
  <3>5. onboard' \in [Peers -> Nat] BY <3>1 DEF ProxyTypeOK
  <3>6. ViewOK' BY <3>2, <3>4 DEF ViewOK
  <3> QED BY <3>1, <3>2, <3>4, <3>5, <3>6 DEF ProxyTypeOK
 <2> QED BY <2>2, <2>3
<1> QED BY <1>1, <1>2, <1>3

\* The check of _rejoin leaves no peer unknown that was known.
LEMMA RejoinKeeps ==
  ASSUME ProxyTypeOK, ViewOK, NEW t, NEW b, NEW d, NEW o,
         _rejoin(t, [pc |-> "ready", block |-> b, targets |-> d, todo |-> o, type |-> t])
  PROVE  /\ onboard' \in [Peers -> Nat] /\ disconnected' \in SUBSET Peers /\ expired' \in BOOLEAN
         /\ sender' = onboard' /\ \A p \in Peers : p \in disconnected' => onboard'[p] = 0
         /\ Known \subseteq Known'
         /\ \E s \in {"ready", "waiting"} :
              call' = [pc |-> s, block |-> b, targets |-> d, todo |-> o, type |-> t]
<1>1. /\ onboard' \in [Peers -> Nat] /\ disconnected' \in SUBSET Peers /\ expired' \in BOOLEAN
      /\ sender' = onboard' /\ \A p \in Peers : p \in disconnected' => onboard'[p] = 0
      /\ Known \subseteq Known'
 <2>1. CASE expired
  <3>1. _check_peers_update /\ expired' = FALSE BY <2>1 DEF _rejoin
  <3> QED BY <3>1, ViewFollows DEF ProxyTypeOK, ViewOK
 <2>2. CASE ~ expired
  <3>1. UNCHANGED <<onboard, sender, disconnected, expired>> BY <2>2 DEF _rejoin, viewVars
  <3> QED BY <3>1 DEF ProxyTypeOK, ViewOK, Known
 <2> QED BY <2>1, <2>2
<1>2. \E s \in {"ready", "waiting"} :
        call' = [pc |-> s, block |-> b, targets |-> d, todo |-> o, type |-> t]
 <2> DEFINE next == [pc |-> "ready", block |-> b, targets |-> d, todo |-> o, type |-> t]
 <2>1. call' = [next EXCEPT !.pc = "waiting"] \/ call' = next BY DEF _rejoin
 <2>2. [next EXCEPT !.pc = "waiting"] = [pc |-> "waiting", block |-> b, targets |-> d, todo |-> o, type |-> t]
   OBVIOUS
 <2> QED BY <2>1, <2>2
<1> QED BY <1>1, <1>2

\* A call of these fields is a call that sends.
LEMMA SendingCall ==
  ASSUME NEW s \in {"ready", "waiting"}, NEW b \in BOOLEAN, NEW d \in Seq(Nat), NEW o \in Seq(Message),
         NEW t \in Types, call' = [pc |-> s, block |-> b, targets |-> d, todo |-> o, type |-> t]
  PROVE  /\ CallOK' /\ Sends' /\ call'.pc = s /\ call'.block = b /\ call'.targets = d /\ call'.todo = o
         /\ call'.type = t
<1>1. call' \in [pc : {"send", "ready", "waiting"}, block : BOOLEAN, targets : Seq(Nat),
                 todo : Seq(Message), type : Types]
  OBVIOUS
<1>2. CallOK' BY <1>1 DEF CallOK
<1> QED BY <1>2 DEF Sends

\* The steps of rejoining.
LEMMA RejoiningType ==
  ASSUME ProxyAssumption, ProxyTypeOK, ViewOK,
         Expire \/ _wait_for_minimal_peer_number \/ _send_rejoin \/ broadcast
  PROVE  ProxyTypeOK' /\ ViewOK'
<1> USE DEF peerVars, viewVars, cacheVars, userVars
<1>1. CASE Expire
 <2>1. UNCHANGED <<redis, peer, wire, delivered, inbox, arrived, onboard, sender, disconnected, exited_cache,
                   message_cache, call, outstanding, created, resent, handed>> /\ expired' = TRUE
   BY <1>1 DEF Expire
 <2>2. ViewOK'
  <3>1. Sends' => \A i \in 1..Len(call'.todo) : call'.todo[i].dst \in Known
    BY <2>1 DEF ViewOK, Sends
  <3> QED BY <2>1, <3>1, SameView
 <2>3. CallOK' BY <2>1 DEF ProxyTypeOK, CallOK
 <2> QED BY <2>1, <2>2, <2>3 DEF ProxyTypeOK
<1>2. CASE _wait_for_minimal_peer_number
 <2>1. /\ call.pc = "waiting" /\ Sends
       /\ UNCHANGED <<redis, peer, wire, delivered, inbox, arrived, exited_cache, message_cache,
                      outstanding, created, resent, handed>>
   BY <1>2 DEF _wait_for_minimal_peer_number, Sends
 <2>2. CASE call' = [pc |-> "exited"] /\ UNCHANGED <<onboard, sender, disconnected, expired>>
  <3>1. call'.pc = "exited" /\ CallOK' /\ ~ Sends' BY <2>2 DEF CallOK, Sends
  <3>2. ViewOK' BY <2>1, <2>2, <3>1, SameView
  <3> QED BY <2>1, <2>2, <3>1, <3>2 DEF ProxyTypeOK
 <2>3. CASE /\ _check_peers_update /\ UNCHANGED expired
            /\ call' = call \/ call' = [call EXCEPT !.pc = "ready"]
  <3>1. /\ onboard' \in [Peers -> Nat] /\ disconnected' \in SUBSET Peers
        /\ sender' = onboard' /\ \A p \in Peers : p \in disconnected' => onboard'[p] = 0
        /\ Known \subseteq Known'
    BY <2>3, ViewFollows DEF ProxyTypeOK, ViewOK
  <3>2. /\ call.block \in BOOLEAN /\ call.targets \in Seq(Nat) /\ call.todo \in Seq(Message)
        /\ call.type \in Types
        /\ call = [pc |-> "waiting", block |-> call.block, targets |-> call.targets, todo |-> call.todo,
                   type |-> call.type]
    BY <2>1, CallFields DEF ProxyTypeOK
  <3>3. PICK s \in {"ready", "waiting"} :
          call' = [pc |-> s, block |-> call.block, targets |-> call.targets, todo |-> call.todo,
                   type |-> call.type]
    BY <2>3, <3>2
  <3>4. CallOK' /\ call'.pc = s /\ call'.todo = call.todo BY <3>2, <3>3, SendingCall
  <3>5. /\ \A i \in 1..Len(call.todo) : call.todo[i].dst \in Known
        /\ \A p \in Peers : exited_cache[p] # << >> => p \in Known
    BY <2>1 DEF ViewOK
  <3>6. ViewOK' BY <2>1, <3>1, <3>4, <3>5 DEF ViewOK
  <3> QED BY <2>1, <2>3, <3>1, <3>4, <3>6 DEF ProxyTypeOK
 <2> QED BY <1>2, <2>2, <2>3 DEF _wait_for_minimal_peer_number
<1>3. CASE _send_rejoin
 <2> DEFINE t == TypeOf[Head(call.todo).dst]
 <2>1. /\ call.pc = "send" /\ Sends /\ call.todo # << >>
       /\ UNCHANGED <<redis, peer, wire, delivered, inbox, arrived, exited_cache, message_cache,
                      outstanding, created, resent, handed>>
       /\ _rejoin(t, [pc |-> "ready", block |-> call.block, targets |-> call.targets, todo |-> call.todo,
                      type |-> t])
   BY <1>3 DEF _send_rejoin, Sends
 <2>2. /\ call.block \in BOOLEAN /\ call.targets \in Seq(Nat) /\ call.todo \in Seq(Message) /\ t \in Types
   BY <2>1, CallFields, FirstMessage DEF ProxyTypeOK
 <2> HIDE DEF t
 <2>3. /\ onboard' \in [Peers -> Nat] /\ disconnected' \in SUBSET Peers /\ expired' \in BOOLEAN
       /\ sender' = onboard' /\ \A p \in Peers : p \in disconnected' => onboard'[p] = 0
       /\ Known \subseteq Known'
       /\ \E s \in {"ready", "waiting"} :
            call' = [pc |-> s, block |-> call.block, targets |-> call.targets, todo |-> call.todo, type |-> t]
   BY <2>1, RejoinKeeps
 <2>4. PICK s \in {"ready", "waiting"} :
            call' = [pc |-> s, block |-> call.block, targets |-> call.targets, todo |-> call.todo, type |-> t]
   BY <2>3
 <2>5. CallOK' /\ call'.pc = s /\ call'.todo = call.todo BY <2>2, <2>4, SendingCall
 <2>6. /\ \A i \in 1..Len(call.todo) : call.todo[i].dst \in Known
       /\ \A p \in Peers : exited_cache[p] # << >> => p \in Known
   BY <2>1 DEF ViewOK
 <2>7. ViewOK' BY <2>1, <2>3, <2>5, <2>6 DEF ViewOK
 <2> QED BY <2>1, <2>3, <2>5, <2>7 DEF ProxyTypeOK
<1>4. CASE broadcast
 <2>1. /\ call = [pc |-> "idle"] /\ created' = created + 1
       /\ UNCHANGED <<redis, peer, wire, delivered, inbox, arrived, exited_cache, message_cache,
                      outstanding, resent, handed>>
   BY <1>4 DEF broadcast, Idle
 <2>2. PICK t \in Types, block \in BOOLEAN :
         _rejoin(t, [pc |-> "ready", block |-> block, targets |-> << >>, todo |-> << >>, type |-> t])
   BY <1>4 DEF broadcast
 <2> DEFINE none == << >>
 <2>3. none \in Seq(Nat) /\ none \in Seq(Message) /\ Len(none) = 0 OBVIOUS
 <2>4. _rejoin(t, [pc |-> "ready", block |-> block, targets |-> none, todo |-> none, type |-> t])
   BY <2>2
 <2> HIDE DEF none
 <2>5. /\ onboard' \in [Peers -> Nat] /\ disconnected' \in SUBSET Peers /\ expired' \in BOOLEAN
       /\ sender' = onboard' /\ \A p \in Peers : p \in disconnected' => onboard'[p] = 0
       /\ Known \subseteq Known'
       /\ \E s \in {"ready", "waiting"} :
            call' = [pc |-> s, block |-> block, targets |-> none, todo |-> none, type |-> t]
   BY <2>4, RejoinKeeps
 <2>6. PICK s \in {"ready", "waiting"} :
            call' = [pc |-> s, block |-> block, targets |-> none, todo |-> none, type |-> t]
   BY <2>5
 <2>7. CallOK' /\ call'.pc = s /\ call'.todo = none BY <2>3, <2>6, SendingCall
 <2>8. \A p \in Peers : exited_cache[p] # << >> => p \in Known BY DEF ViewOK
 <2>9. \A i \in 1..Len(call'.todo) : call'.todo[i].dst \in Known' BY <2>3, <2>7
 <2>10. ViewOK' BY <2>1, <2>5, <2>7, <2>8, <2>9 DEF ViewOK
 <2>11. created' \in Nat BY <2>1 DEF ProxyTypeOK
 <2> QED BY <2>1, <2>5, <2>7, <2>10, <2>11 DEF ProxyTypeOK
<1> QED BY <1>1, <1>2, <1>3, <1>4

\* The messages kept for a peer, with one more.
LEMMA Pushed ==
  ASSUME ProxyAssumption, NEW s \in Seq(Nat), NEW m \in Nat
  PROVE  /\ _push_message_to_message_cache(s, m) \in Seq(Nat)
         /\ \A i \in 1..Len(_push_message_to_message_cache(s, m)) :
              \/ _push_message_to_message_cache(s, m)[i] = m
              \/ \E j \in 1..Len(s) : _push_message_to_message_cache(s, m)[i] = s[j]
         /\ Rising(s) /\ ((\E j \in 1..Len(s) : s[j] = m) \/ Below(s, m)) =>
              Rising(_push_message_to_message_cache(s, m))
<1> DEFINE r == _push_message_to_message_cache(s, m)
           longer == Append(s, m)
           n == Len(s)
<1>1. n \in Nat /\ DOMAIN s = 1..n BY LenProperties
<1>2. CASE m \in ToSet(s)
 <2>1. r = s BY <1>2 DEF _push_message_to_message_cache
 <2> QED BY <2>1
<1>3. CASE m \notin ToSet(s)
 <2>1. r = longer \/ r = Tail(longer) BY <1>3 DEF _push_message_to_message_cache
 <2>2. /\ longer \in Seq(Nat) /\ Len(longer) = n + 1 /\ longer[n + 1] = m
       /\ \A i \in 1..n : longer[i] = s[i] /\ s[i] \in Nat
       /\ \A i \in 1..n + 1 : i \in 1..n \/ i = n + 1
   BY ONLY s \in Seq(Nat), m \in Nat, AppendedProperties
 <2>3. ~ \E j \in 1..n : s[j] = m BY <1>1, <1>3 DEF ToSet
 <2> HIDE DEF longer, r
 <2>4. \A i \in 1..n + 1 : longer[i] = m \/ \E j \in 1..n : longer[i] = s[j] BY <2>2
 <2>5. Rising(s) /\ Below(s, m) => Rising(longer)
  <3> SUFFICES ASSUME Rising(s), Below(s, m), NEW i \in 1..n + 1, NEW j \in 1..n + 1, i < j
               PROVE  longer[i] < longer[j]
    BY <2>2 DEF Rising
  <3>1. i \in 1..n BY <1>1
  <3>2. CASE j \in 1..n BY <3>1, <3>2, <2>2 DEF Rising, n
  <3>3. CASE j = n + 1 BY <3>1, <3>3, <2>2 DEF Below, n
  <3> QED BY <3>2, <3>3, <2>2
 <2>6. /\ Tail(longer) \in Seq(Nat) /\ Len(Tail(longer)) = n
       /\ \A i \in 1..n : Tail(longer)[i] = longer[i + 1] /\ i + 1 \in 1..n + 1
  <3>1. longer # << >> /\ n + 1 - 1 = n BY <1>1, <2>2
  <3> HIDE DEF n
  <3> QED BY <1>1, <3>1, <2>2, HeadTailProperties
 <2>7. Rising(longer) => Rising(Tail(longer))
  <3> SUFFICES ASSUME Rising(longer), NEW i \in 1..n, NEW j \in 1..n, i < j
               PROVE  Tail(longer)[i] < Tail(longer)[j]
    BY <2>6 DEF Rising
  <3>1. i + 1 < j + 1 /\ i + 1 \in 1..n + 1 /\ j + 1 \in 1..n + 1 BY <1>1
  <3> QED BY <3>1, <2>2, <2>6 DEF Rising
 <2>8. r \in Seq(Nat) BY <2>1, <2>2, <2>6
 <2>9. \A i \in 1..Len(r) : r[i] = m \/ \E j \in 1..n : r[i] = s[j]
  <3>1. CASE r = longer BY <3>1, <2>2, <2>4
  <3>2. CASE r = Tail(longer)
   <4>1. \A i \in 1..n : Tail(longer)[i] = longer[i + 1] /\ i + 1 \in 1..n + 1 BY <2>6
   <4>2. \A i \in 1..n : Tail(longer)[i] = m \/ \E j \in 1..n : Tail(longer)[i] = s[j]
     BY <4>1, <2>4
   <4>3. Len(r) = n /\ r = Tail(longer) BY <3>2, <2>6
   <4> QED BY <4>2, <4>3
  <3> QED BY <3>1, <3>2, <2>1
 <2>10. Rising(s) /\ Below(s, m) => Rising(r) BY <2>1, <2>5, <2>7
 <2> QED BY <2>3, <2>8, <2>9, <2>10 DEF r, n
<1> QED BY <1>2, <1>3

\* A call of send or scatter has new messages, or one that is kept.
LEMMA ScatterType ==
  ASSUME ProxyAssumption, ProxyTypeOK, ViewOK, scatter \/ send_again
  PROVE  /\ ProxyTypeOK' /\ ViewOK' /\ call.pc = "idle" /\ call'.pc = "send" /\ Sends' /\ call'.todo \in Seq(Message)
         /\ created' \in Nat /\ created <= created' /\ resent \subseteq resent'
         /\ UNCHANGED <<redis, peer, wire, delivered, inbox, arrived, onboard, sender, disconnected, expired,
                        exited_cache, message_cache, outstanding, handed>>
         /\ \/ /\ resent' = resent
               /\ \A i \in 1..Len(call'.todo) : /\ call'.todo[i].id > created /\ call'.todo[i].id <= created'
               /\ \A i, j \in 1..Len(call'.todo) : i # j => call'.todo[i].dst # call'.todo[j].dst
            \/ /\ Len(call'.todo) = 1 /\ created' = created
               /\ LET m == call'.todo[1]
                  IN  m.id \in resent' /\ \E i \in 1..Len(exited_cache[m.dst]) : exited_cache[m.dst][i] = m.id
<1> USE DEF peerVars, viewVars, cacheVars, userVars
<1>1. CASE scatter
 <2>1. PICK ds \in {<<p>> : p \in Known} \cup {pq \in Known \X Known : pq[1] /= pq[2]}, block \in BOOLEAN :
         /\ created' = created + Len(ds)
         /\ call' = [pc |-> "send", block |-> block, targets |-> << >>,
                     todo |-> [i \in DOMAIN ds |-> [id |-> created + i, dst |-> ds[i]]]]
   BY <1>1 DEF scatter
 <2>2. Known \subseteq Peers BY DEF Known, ProxyTypeOK
 <2>3. /\ ds \in Seq(Known) /\ Len(ds) \in Nat /\ DOMAIN ds = 1..Len(ds)
       /\ \A i, j \in 1..Len(ds) : i # j => ds[i] # ds[j]
  <3>1. CASE ds \in {<<p>> : p \in Known}
   <4>1. PICK p \in Known : ds = <<p>> BY <3>1
   <4> QED BY <4>1
  <3>2. CASE ds \in {pq \in Known \X Known : pq[1] /= pq[2]}
   <4>1. PICK p \in Known, q \in Known : ds = <<p, q>> /\ p # q BY <3>2
   <4>2. ds \in Seq(Known) /\ Len(ds) = 2 /\ ds[1] = p /\ ds[2] = q BY <4>1
   <4>3. \A i \in 1..2 : i = 1 \/ i = 2 OBVIOUS
   <4>4. DOMAIN ds = 1..Len(ds) BY <4>2, LenProperties
   <4> HIDE <4>1
   <4>5. p # q BY <4>1
   <4> QED BY ONLY <4>2, <4>3, <4>4, <4>5
  <3> QED BY <3>1, <3>2
 <2> DEFINE todo == [i \in 1..Len(ds) |-> [id |-> created + i, dst |-> ds[i]]]
            n == Len(ds)
 <2>4. created \in Nat BY DEF ProxyTypeOK
 <2>5. /\ todo \in Seq(Message) /\ Len(todo) = n
       /\ \A i \in 1..n : todo[i].id = created + i /\ todo[i].dst = ds[i] /\ ds[i] \in Known
  <3>1. \A i \in 1..n : ds[i] \in Known /\ [id |-> created + i, dst |-> ds[i]] \in Message
   <4>1. \A i \in 1..n : ds[i] \in Known BY <2>3
   <4>2. \A i \in 1..n : ds[i] \in Peers /\ created + i \in Nat BY <4>1, <2>2, <2>4
   <4> QED BY <4>1, <4>2 DEF Message
  <3>2. todo \in [1..n -> Message] /\ n \in Nat BY <3>1, <2>3
  <3>3. todo \in Seq(Message) /\ DOMAIN todo = 1..n BY <3>2
  <3>4. Len(todo) = n BY <3>2, <3>3
  <3> QED BY <3>1, <3>3, <3>4
 <2>6. call' = [pc |-> "send", block |-> block, targets |-> << >>, todo |-> todo]
   BY <2>1, <2>3
 <2> HIDE DEF todo
 <2>7. << >> \in Seq(Nat) OBVIOUS
 <2>8. /\ call' \in [pc : {"send"}, block : BOOLEAN, targets : Seq(Nat), todo : Seq(Message)]
       /\ call'.pc = "send" /\ call'.todo = todo
   BY <2>5, <2>6, <2>7
 <2>9. CallOK' /\ Sends' BY <2>8 DEF CallOK, Sends
 <2>10. /\ call.pc = "idle"
        /\ UNCHANGED <<redis, peer, wire, delivered, inbox, arrived, onboard, sender, disconnected, expired,
                       exited_cache, message_cache, outstanding, resent, handed>>
   BY <1>1 DEF scatter, Idle
 <2>11. created' = created + n /\ n \in Nat BY <2>1, <2>3
 <2>12. ViewOK'
  <3>1. \A i \in 1..Len(call'.todo) : call'.todo[i].dst \in Known BY <2>5, <2>8
  <3> QED BY <2>8, <2>10, <3>1, SameView
 <2>13. created' \in Nat /\ created <= created' BY <2>4, <2>11
 <2>14. ProxyTypeOK' BY <2>9, <2>10, <2>13 DEF ProxyTypeOK
 <2>15. \A i \in 1..n : todo[i].id > created /\ todo[i].id <= created' BY <2>4, <2>5, <2>11
 <2>16. \A i, j \in 1..n : i # j => todo[i].dst # todo[j].dst BY <2>3, <2>5
 <2> HIDE DEF n
 <2> QED BY <2>5, <2>8, <2>9, <2>10, <2>12, <2>13, <2>14, <2>15, <2>16
<1>2. CASE send_again
 <2>a. PICK p \in Peers : \E i \in DOMAIN exited_cache[p] :
         /\ resent' = resent \cup {exited_cache[p][i]}
         /\ call' = [pc |-> "send", block |-> FALSE, targets |-> << >>,
                     todo |-> <<[id |-> exited_cache[p][i], dst |-> p]>>]
   BY <1>2 DEF send_again
 <2>1. PICK i \in DOMAIN exited_cache[p] :
         /\ resent' = resent \cup {exited_cache[p][i]}
         /\ call' = [pc |-> "send", block |-> FALSE, targets |-> << >>,
                     todo |-> <<[id |-> exited_cache[p][i], dst |-> p]>>]
   BY <2>a
 <2> DEFINE m == [id |-> exited_cache[p][i], dst |-> p]
            todo == <<m>>
 <2>2. exited_cache[p] \in Seq(Nat) BY DEF ProxyTypeOK
 <2>3. i \in 1..Len(exited_cache[p]) /\ exited_cache[p][i] \in Nat BY <2>2
 <2>4. m \in Message /\ m.id = exited_cache[p][i] /\ m.dst = p BY <2>3 DEF Message
 <2> HIDE DEF m
 <2>5. todo \in Seq(Message) /\ Len(todo) = 1 /\ todo[1] = m BY <2>4
 <2> DEFINE no == FALSE
 <2>6. call' = [pc |-> "send", block |-> no, targets |-> << >>, todo |-> todo] /\ no \in BOOLEAN
   BY <2>1 DEF m
 <2> HIDE DEF todo, no
 <2>7. << >> \in Seq(Nat) OBVIOUS
 <2>8. /\ call' \in [pc : {"send"}, block : BOOLEAN, targets : Seq(Nat), todo : Seq(Message)]
       /\ call'.pc = "send" /\ call'.todo = todo
   BY <2>5, <2>6, <2>7
 <2>9. CallOK' /\ Sends' BY <2>8 DEF CallOK, Sends
 <2>10. /\ call.pc = "idle"
        /\ UNCHANGED <<redis, peer, wire, delivered, inbox, arrived, onboard, sender, disconnected, expired,
                       exited_cache, message_cache, outstanding, created, handed>>
   BY <1>2 DEF send_again, Idle
 <2>11. exited_cache[p] # << >> BY <2>3
 <2>12. ViewOK'
  <3>1. p \in Known BY <2>11 DEF ViewOK
  <3>2. \A k \in 1..Len(call'.todo) : call'.todo[k].dst \in Known
   <4>1. \A k \in 1..1 : k = 1 OBVIOUS
   <4>2. Len(call'.todo) = 1 /\ call'.todo[1] = m /\ m.dst = p BY <2>4, <2>5, <2>8
   <4> QED BY <3>1, <4>1, <4>2
  <3> QED BY <2>8, <2>10, <3>2, SameView
 <2>13. resent' \in SUBSET Nat /\ resent \subseteq resent' /\ m.id \in resent'
   BY <2>1, <2>3, <2>4 DEF ProxyTypeOK
 <2>14. ProxyTypeOK' BY <2>9, <2>10, <2>13 DEF ProxyTypeOK
 <2>15. \E k \in 1..Len(exited_cache[m.dst]) : exited_cache[m.dst][k] = m.id BY <2>3, <2>4
 <2>16. created \in Nat BY DEF ProxyTypeOK
 <2>17. created' \in Nat /\ created <= created' BY <2>10, <2>16
 <2> QED BY <2>5, <2>8, <2>9, <2>10, <2>12, <2>13, <2>14, <2>15, <2>17
<1> QED BY <1>1, <1>2

\* The messages that go out before m.
PendingFor(m) == IF EnableCache THEN exited_cache[m.dst] ELSE << >>

\* _send, by whether the peer is on board or kept away.
LEMMA SendIs ==
  ASSUME ProxyAssumption, ProxyTypeOK, ViewOK, call.todo # << >>, _send,
         NEW m, m = Head(call.todo), NEW p, p = m.dst
  PROVE  /\ m \in Message /\ p \in Peers /\ call.pc = "ready" /\ Sends
         /\ CallOK' /\ call'.pc = "send" /\ Sends' /\ call'.todo = Tail(call.todo)
         /\ UNCHANGED <<redis, peer, delivered, inbox, arrived, onboard, sender, disconnected, expired,
                        message_cache, outstanding, created, resent, handed>>
         /\ PendingFor(m) \in Seq(Nat)
         /\ \/ /\ onboard[p] # 0
               /\ wire' = Transmitted(p, Append(PendingFor(m), m.id))
               /\ exited_cache' = [exited_cache EXCEPT ![p] = << >>]
            \/ /\ p \in disconnected /\ wire' = wire
               /\ exited_cache' = [exited_cache EXCEPT
                    ![p] = IF EnableCache THEN _push_message_to_message_cache(@, m.id) ELSE @]
<1> USE DEF viewVars, cacheVars, userVars
<1>1. call.pc = "ready" /\ Sends BY DEF _send, Sends
<1>2. m \in Message /\ p \in Peers /\ m.id \in Nat /\ Tail(call.todo) \in Seq(Message)
  BY <1>1, FirstMessage DEF ProxyTypeOK
<1>3. UNCHANGED <<redis, peer, delivered, inbox, arrived, onboard, sender, disconnected, expired,
                  message_cache, outstanding, created, resent, handed>>
  BY DEF _send
<1> DEFINE pending == IF EnableCache /\ onboard[p] /= 0 THEN exited_cache[p] ELSE << >>
           reachable == sender[p] /= 0
           again == [call EXCEPT !.pc = "send", !.todo = Tail(@)]
<1>4. /\ reachable \/ p \in disconnected
      /\ wire' = IF reachable THEN Transmitted(p, PendingFirst(pending, m.id)) ELSE wire
      /\ exited_cache' =
           [exited_cache EXCEPT ![p] =
              IF reachable THEN IF onboard[p] /= 0 THEN <<>> ELSE @
              ELSE IF EnableCache THEN _push_message_to_message_cache(@, m.id) ELSE @]
      /\ call' = IF reachable THEN [again EXCEPT !.targets = @ \o PendingFirst(pending, m.id)]
                 ELSE again
  BY Zenon DEF _send
<1>5. reachable <=> onboard[p] # 0 BY <1>2 DEF ViewOK
<1>6. pending \in Seq(Nat) /\ PendingFor(m) \in Seq(Nat) /\ (reachable => pending = PendingFor(m))
 <2>1. exited_cache[p] \in Seq(Nat) /\ << >> \in Seq(Nat) BY <1>2 DEF ProxyTypeOK
 <2> QED BY <1>5, <2>1 DEF PendingFor
<1>7. call.block \in BOOLEAN /\ call.targets \in Seq(Nat) /\ call.type \in Types
      /\ call = [pc |-> "ready", block |-> call.block, targets |-> call.targets, todo |-> call.todo,
                 type |-> call.type]
  BY <1>1, CallFields DEF ProxyTypeOK
<1> DEFINE more == call.targets \o PendingFirst(pending, m.id)
           rest == Tail(call.todo)
<1>8. more \in Seq(Nat)
 <2>1. Append(pending, m.id) \in Seq(Nat) BY <1>2, <1>6
 <2> HIDE DEF pending
 <2> QED BY <1>7, <2>1, ConcatProperties DEF PendingFirst
<1>9. again = [pc |-> "send", block |-> call.block, targets |-> call.targets, todo |-> rest, type |-> call.type]
 <2> HIDE DEF rest
 <2> DEFINE b == call.block
            t == call.targets
            d == call.todo
            y == call.type
 <2>1. call = [pc |-> "ready", block |-> b, targets |-> t, todo |-> d, type |-> y] BY <1>7
 <2>2. again = [call EXCEPT !.pc = "send", !.todo = rest] BY DEF rest
 <2> HIDE DEF b, t, d, y, again
 <2>3. again = [[pc |-> "ready", block |-> b, targets |-> t, todo |-> d, type |-> y]
                  EXCEPT !.pc = "send", !.todo = rest]
   BY <2>1, <2>2
 <2>4. again = [pc |-> "send", block |-> b, targets |-> t, todo |-> rest, type |-> y]
   BY <2>3
 <2> QED BY <2>4 DEF b, t, d, y
<1>10. \E t \in Seq(Nat) :
         call' = [pc |-> "send", block |-> call.block, targets |-> t, todo |-> rest, type |-> call.type]
 <2> HIDE DEF rest, reachable
 <2>1. CASE reachable
  <3>1. call' = [again EXCEPT !.targets = @ \o PendingFirst(pending, m.id)] BY <1>4, <2>1
  <3> HIDE DEF again, pending
  <3>2. call' = [pc |-> "send", block |-> call.block, targets |-> more, todo |-> rest, type |-> call.type]
    BY <3>1, <1>9
  <3> QED BY <3>2, <1>8
 <2>2. CASE ~ reachable
  <3>1. call' = again BY <1>4, <2>2
  <3> HIDE DEF again
  <3> QED BY <3>1, <1>7, <1>9
 <2> QED BY <2>1, <2>2
<1>11. CallOK' /\ call'.pc = "send" /\ Sends' /\ call'.todo = rest
 <2>1. rest \in Seq(Message) BY <1>2
 <2> HIDE DEF rest
 <2>2. PICK t \in Seq(Nat) :
        call' = [pc |-> "send", block |-> call.block, targets |-> t, todo |-> rest, type |-> call.type]
   BY <1>10
 <2>3. /\ call' \in [pc : {"send", "ready", "waiting"}, block : BOOLEAN, targets : Seq(Nat),
                     todo : Seq(Message), type : Types]
       /\ call'.pc = "send" /\ call'.todo = rest
   BY <1>7, <2>1, <2>2
 <2> QED BY <2>3 DEF CallOK, Sends
<1>12. \/ /\ onboard[p] # 0
          /\ wire' = Transmitted(p, Append(PendingFor(m), m.id))
          /\ exited_cache' = [exited_cache EXCEPT ![p] = << >>]
       \/ /\ p \in disconnected /\ wire' = wire
          /\ exited_cache' = [exited_cache EXCEPT
               ![p] = IF EnableCache THEN _push_message_to_message_cache(@, m.id) ELSE @]
 <2> HIDE DEF pending, reachable, again
 <2>1. CASE reachable BY <2>1, <1>4, <1>5, <1>6 DEF PendingFirst
 <2>2. CASE ~ reachable BY <2>2, <1>4
 <2> QED BY <2>1, <2>2
<1> QED BY <1>1, <1>2, <1>3, <1>6, <1>11, <1>12

\* _send leaves the view of the peers.
LEMMA SendType ==
  ASSUME ProxyAssumption, ProxyTypeOK, ViewOK, call.todo # << >>, _send
  PROVE  ProxyTypeOK' /\ ViewOK'
<1> DEFINE m == Head(call.todo)
           p == m.dst
<1>1. /\ m \in Message /\ p \in Peers /\ Sends /\ CallOK' /\ call'.pc = "send" /\ Sends'
      /\ call'.todo = Tail(call.todo)
      /\ UNCHANGED <<redis, peer, delivered, inbox, arrived, onboard, sender, disconnected, expired,
                     message_cache, outstanding, created, resent, handed>>
      /\ PendingFor(m) \in Seq(Nat)
      /\ \/ /\ onboard[p] # 0
            /\ wire' = Transmitted(p, Append(PendingFor(m), m.id))
            /\ exited_cache' = [exited_cache EXCEPT ![p] = << >>]
         \/ /\ p \in disconnected /\ wire' = wire
            /\ exited_cache' = [exited_cache EXCEPT
                 ![p] = IF EnableCache THEN _push_message_to_message_cache(@, m.id) ELSE @]
  BY SendIs
<1>2. m.id \in Nat BY <1>1 DEF Message
<1>3. /\ \A i \in 1..Len(Tail(call.todo)) : i + 1 \in 1..Len(call.todo) /\ Tail(call.todo)[i] = call.todo[i + 1]
  BY <1>1, FirstMessage DEF ProxyTypeOK
<1> HIDE DEF m, p
<1>4. wire' \in [Channels -> [Peers -> Seq(Nat)]]
 <2>1. Append(PendingFor(m), m.id) \in Seq(Nat) BY <1>1, <1>2
 <2>2. wire \in [Channels -> [Peers -> Seq(Nat)]] BY DEF ProxyTypeOK
 <2>3. Transmitted(p, Append(PendingFor(m), m.id)) \in [Channels -> [Peers -> Seq(Nat)]]
   BY <1>1, <2>1, <2>2, TransmittedType
 <2> QED BY <1>1, <2>2, <2>3
<1>5. /\ exited_cache' \in [Peers -> Seq(Nat)]
      /\ \A q \in Peers \ {p} : exited_cache'[q] = exited_cache[q]
      /\ exited_cache'[p] # << >> => p \in disconnected
 <2>1. exited_cache \in [Peers -> Seq(Nat)] /\ exited_cache[p] \in Seq(Nat) /\ << >> \in Seq(Nat)
   BY <1>1 DEF ProxyTypeOK
 <2>2. _push_message_to_message_cache(exited_cache[p], m.id) \in Seq(Nat)
   BY <1>2, <2>1, Pushed
 <2> QED BY <1>1, <2>1, <2>2
<1>6. Known' = Known BY <1>1 DEF Known
<1>7. ViewOK'
 <2>1. \A i \in 1..Len(call.todo) : call.todo[i].dst \in Known BY <1>1 DEF ViewOK
 <2>2. \A i \in 1..Len(call'.todo) : call'.todo[i].dst \in Known BY <1>1, <1>3, <2>1
 <2>3. \A q \in Peers : exited_cache'[q] # << >> => q \in Known
  <3>1. \A q \in Peers : exited_cache[q] # << >> => q \in Known BY DEF ViewOK
  <3>2. disconnected \subseteq Known BY DEF Known
  <3> QED BY <3>1, <3>2, <1>1, <1>5
 <2>4. sender' = onboard' /\ \A q \in Peers : q \in disconnected' => onboard'[q] = 0
   BY <1>1 DEF ViewOK
 <2>5. ~ call'.pc \in {"joining", "connecting"} BY <1>1
 <2> QED BY <1>6, <2>2, <2>3, <2>4, <2>5 DEF ViewOK
<1> QED BY <1>1, <1>4, <1>5, <1>7 DEF ProxyTypeOK

\* _broadcast puts one message on its socket and leaves all else.
LEMMA BroadcastType ==
  ASSUME ProxyAssumption, ProxyTypeOK, ViewOK, _broadcast
  PROVE  /\ ProxyTypeOK' /\ ViewOK'
         /\ call.pc = "ready" /\ call.todo = << >> /\ Sends /\ call'.pc = "send" /\ Sends' /\ call'.todo = << >>
         /\ UNCHANGED <<redis, peer, delivered, inbox, arrived, onboard, sender, disconnected, expired,
                        exited_cache, message_cache, outstanding, created, resent, handed>>
         /\ \A q \in Peers : /\ wire'["unicast"][q] = wire["unicast"][q]
                             /\ \/ wire'["broadcast"][q] = wire["broadcast"][q]
                                \/ wire'["broadcast"][q] = Append(wire["broadcast"][q], created)
<1> USE DEF viewVars, cacheVars, userVars
<1>1. /\ call.pc = "ready" /\ call.todo = << >> /\ Sends
      /\ UNCHANGED <<redis, peer, delivered, inbox, arrived, onboard, sender, disconnected, expired,
                     exited_cache, message_cache, outstanding, created, resent, handed>>
  BY DEF _broadcast, Sends
<1>2. call.block \in BOOLEAN /\ call.type \in Types BY <1>1, CallFields DEF ProxyTypeOK
<1> DEFINE n == Cardinality(OnboardOf(call.type))
           targets == [i \in 1..n |-> created]
           none == << >>
<1>3. n \in Nat
 <2>1. OnboardOf(call.type) \subseteq Peers BY DEF OnboardOf, OfType
 <2>2. IsFiniteSet(OnboardOf(call.type)) BY <2>1, FS_Subset DEF ProxyAssumption
 <2> QED BY <2>2, FS_CardinalityType
<1>4. call' = [pc |-> "send", block |-> call.block, todo |-> none, targets |-> targets]
  BY DEF _broadcast
<1>5. created \in Nat BY DEF ProxyTypeOK
<1> HIDE DEF n
<1>6. targets \in Seq(Nat) /\ none \in Seq(Message) /\ none = << >> /\ Len(none) = 0
  BY <1>3, <1>5
<1> HIDE DEF targets, none
<1>7. CallOK' /\ Sends' /\ call'.pc = "send" /\ call'.todo = none
 <2>1. /\ call' \in [pc : {"send"}, block : BOOLEAN, targets : Seq(Nat), todo : Seq(Message)]
       /\ call'.pc = "send" /\ call'.todo = none
   BY <1>2, <1>4, <1>6
 <2> QED BY <2>1 DEF CallOK, Sends
<1>8. ViewOK'
 <2>1. \A i \in 1..Len(call'.todo) : call'.todo[i].dst \in Known BY <1>6, <1>7
 <2> QED BY <1>1, <1>7, <2>1, SameView
<1>9. PICK S : wire' = [wire EXCEPT !["broadcast"] = [q \in Peers |-> IF q \in S THEN Append(@[q], created) ELSE @[q]]]
  BY DEF _broadcast
<1>10. /\ wire' \in [Channels -> [Peers -> Seq(Nat)]]
       /\ \A q \in Peers : /\ wire'["unicast"][q] = wire["unicast"][q]
                           /\ \/ wire'["broadcast"][q] = wire["broadcast"][q]
                              \/ wire'["broadcast"][q] = Append(wire["broadcast"][q], created)
 <2>1. "unicast" \in Channels /\ "broadcast" \in Channels BY DEF Channels
 <2> DEFINE w == wire["broadcast"]
            v == [q \in Peers |-> IF q \in S THEN Append(w[q], created) ELSE w[q]]
 <2>2. w \in [Peers -> Seq(Nat)] /\ wire \in [Channels -> [Peers -> Seq(Nat)]]
   BY <2>1 DEF ProxyTypeOK
 <2>3. wire' = [wire EXCEPT !["broadcast"] = v] BY <1>9
 <2>4. v \in [Peers -> Seq(Nat)] /\ \A q \in Peers : v[q] = w[q] \/ v[q] = Append(w[q], created)
  <3> HIDE DEF w
  <3> QED BY <2>2, <1>5
 <2> HIDE DEF v
 <2> QED BY <2>1, <2>2, <2>3, <2>4
<1> QED BY <1>1, <1>5, <1>6, <1>7, <1>8, <1>10 DEF ProxyTypeOK

\* receive_by_id, first part: the replies that are cached already.
LEMMA ReceiveById ==
  ASSUME ProxyTypeOK, RepliesOK, call.pc # "receive", NEW targets \in Seq(Nat), receive_by_id(targets),
         inbox' = inbox, arrived' = arrived
  PROVE  /\ CallOK' /\ ~ Sends' /\ call'.pc \in {"idle", "receive"}
         /\ message_cache' \in Seq(Reply) /\ handed' \in Seq(Reply) /\ RepliesOK'
<1> DEFINE got == FromCache(targets)
           h == handed
           none == << >>
<1>1. h \in Seq(Reply) /\ inbox \in Seq(Reply) /\ message_cache \in Seq(Reply) /\ arrived \in Nat
      /\ none \in Seq(Reply)
  BY DEF ProxyTypeOK
<1>2. Complete(Replies(handed, << >>, message_cache, inbox), arrived)
  BY DEF RepliesOK, Received
<1>3. got \in Found /\ FoundOK(got) BY <1>1, <1>2, FromCacheKeeps
<1>4. /\ message_cache' = got.cache
      /\ IF got.pending = <<>>
         THEN call' = [pc |-> "idle"] /\ handed' = handed \o got.received
         ELSE /\ call' = [pc |-> "receive", pending |-> got.pending, received |-> got.received]
              /\ UNCHANGED handed
  BY DEF receive_by_id
<1> HIDE DEF got
<1>5. /\ got.pending \in Seq(Nat) /\ got.received \in Seq(Reply) /\ got.cache \in Seq(Reply)
      /\ Complete(Replies(handed, got.received, got.cache, inbox), arrived) /\ NoneOf(got.cache, got.pending)
  BY <1>3 DEF Found, FoundOK
<1>6. CASE got.pending = <<>>
 <2>1. call' = [pc |-> "idle"] /\ handed' = handed \o got.received BY <1>4, <1>6
 <2>2. CallOK' /\ ~ Sends' /\ call'.pc = "idle" BY <2>1 DEF CallOK, Sends
 <2>3. handed \o got.received \in Seq(Reply) BY <1>1, <1>5, ConcatProperties
 <2>4. Complete(Replies(handed \o got.received, << >>, got.cache, inbox), arrived)
   BY <1>1, <1>5, ReplyHanded
 <2>5. RepliesOK' BY <1>4, <2>1, <2>2, <2>4 DEF RepliesOK, Received
 <2> QED BY <1>4, <1>5, <2>1, <2>2, <2>3, <2>5
<1>7. CASE got.pending # <<>>
 <2>1. call' = [pc |-> "receive", pending |-> got.pending, received |-> got.received] /\ handed' = handed
   BY <1>4, <1>7
 <2>2. /\ call' \in [pc : {"receive"}, pending : Seq(Nat), received : Seq(Reply)]
       /\ call'.pc = "receive" /\ call'.pending = got.pending /\ call'.received = got.received
   BY <1>5, <2>1
 <2>3. CallOK' /\ ~ Sends' BY <2>2 DEF CallOK, Sends
 <2>4. RepliesOK' BY <1>4, <1>5, <2>1, <2>2 DEF RepliesOK, Received
 <2> QED BY <1>1, <1>4, <1>5, <2>1, <2>2, <2>3, <2>4
<1> QED BY <1>6, <1>7

\* A step that leaves the replies where they are.
LEMMA SameReplies ==
  ASSUME RepliesOK, UNCHANGED <<inbox, arrived, message_cache, handed>>, call.pc # "receive", call'.pc # "receive"
  PROVE  RepliesOK'
BY DEF RepliesOK, Received

\* The steps that end a call that sends, or begin one that receives.
LEMMA SendEnds ==
  ASSUME ProxyTypeOK, ViewOK, RepliesOK, Sent \/ Await \/ _sendFails
  PROVE  ProxyTypeOK' /\ ViewOK' /\ RepliesOK'
         /\ ~ Sends' /\ UNCHANGED <<wire, delivered, exited_cache, created, resent>>
<1> USE DEF peerVars, viewVars, cacheVars, userVars
<1>1. CASE Sent
 <2>1. /\ call.pc = "send" /\ Sends
       /\ UNCHANGED <<redis, peer, wire, delivered, inbox, arrived, onboard, sender, disconnected, expired,
                      exited_cache, created, resent>>
   BY <1>1 DEF Sent, Sends
 <2>2. call.targets \in Seq(Nat) BY <2>1, CallFields DEF ProxyTypeOK
 <2>3. CASE receive_by_id(call.targets) /\ UNCHANGED outstanding
  <3>1. /\ CallOK' /\ ~ Sends' /\ call'.pc \in {"idle", "receive"}
        /\ message_cache' \in Seq(Reply) /\ handed' \in Seq(Reply) /\ RepliesOK'
    BY <2>1, <2>2, <2>3, ReceiveById
  <3>2. ViewOK' BY <2>1, <3>1, SameView
  <3> QED BY <2>1, <2>3, <3>1, <3>2 DEF ProxyTypeOK
 <2>4. CASE /\ call' = [pc |-> "idle"] /\ outstanding' = outstanding \o call.targets
            /\ UNCHANGED <<handed, message_cache>>
  <3>1. CallOK' /\ ~ Sends' /\ call'.pc = "idle" BY <2>4 DEF CallOK, Sends
  <3>2. ViewOK' BY <2>1, <3>1, SameView
  <3>3. outstanding' \in Seq(Nat) BY <2>2, <2>4, ConcatProperties DEF ProxyTypeOK
  <3>4. RepliesOK' BY <2>1, <2>4, <3>1, SameReplies
  <3> QED BY <2>1, <2>4, <3>1, <3>2, <3>3, <3>4 DEF ProxyTypeOK
 <2> QED BY <1>1, <2>3, <2>4 DEF Sent
<1>2. CASE Await
 <2>1. /\ call.pc = "idle"
       /\ UNCHANGED <<redis, peer, wire, delivered, inbox, arrived, onboard, sender, disconnected, expired,
                      exited_cache, created, resent>>
   BY <1>2 DEF Await, Idle
 <2>2. \E targets \in Seq(Nat) : receive_by_id(targets)
  <3>1. outstanding \in Seq(Nat) /\ handed \in Seq(Reply) BY DEF ProxyTypeOK
  <3>2. CASE receive_by_id(outstanding) BY <3>1, <3>2
  <3>3. CASE \E i \in DOMAIN handed : receive_by_id(<<handed[i].session>>)
   <4>1. PICK i \in DOMAIN handed : receive_by_id(<<handed[i].session>>) BY <3>3
   <4>2. handed[i] \in Reply BY <3>1
   <4>3. <<handed[i].session>> \in Seq(Nat) BY <4>2 DEF Reply
   <4> QED BY <4>1, <4>3
  <3> QED BY <1>2, <3>2, <3>3 DEF Await
 <2>3. PICK targets \in Seq(Nat) : receive_by_id(targets) BY <2>2
 <2>4. outstanding' \in Seq(Nat)
  <3>1. outstanding' = << >> \/ outstanding' = outstanding BY <1>2 DEF Await
  <3>2. << >> \in Seq(Nat) OBVIOUS
  <3> QED BY <3>1, <3>2 DEF ProxyTypeOK
 <2>5. /\ CallOK' /\ ~ Sends' /\ call'.pc \in {"idle", "receive"}
       /\ message_cache' \in Seq(Reply) /\ handed' \in Seq(Reply) /\ RepliesOK'
   BY <2>1, <2>3, ReceiveById
 <2>6. ViewOK' BY <2>1, <2>5, SameView
 <2> QED BY <2>1, <2>4, <2>5, <2>6 DEF ProxyTypeOK
<1>3. CASE _sendFails
 <2>1. /\ call.pc = "ready" /\ call' = [pc |-> "exited"]
       /\ UNCHANGED <<redis, peer, wire, delivered, inbox, arrived, onboard, sender, disconnected, expired,
                      exited_cache, message_cache, outstanding, created, resent, handed>>
   BY <1>3 DEF _sendFails
 <2>2. CallOK' /\ ~ Sends' /\ call'.pc = "exited" BY <2>1 DEF CallOK, Sends
 <2>3. ViewOK' /\ RepliesOK' BY <2>1, <2>2, SameView, SameReplies
 <2> QED BY <2>1, <2>2, <2>3 DEF ProxyTypeOK
<1> QED BY <1>1, <1>2, <1>3

\* The steps of receive_by_id, second part.
LEMMA ReceiveKeeps ==
  ASSUME ProxyTypeOK, ViewOK, RepliesOK, receive \/ receive_timeout
  PROVE  ProxyTypeOK' /\ ViewOK' /\ RepliesOK'
         /\ ~ Sends' /\ UNCHANGED <<wire, delivered, exited_cache, created, resent>>
<1> USE DEF peerVars, viewVars, cacheVars, userVars
<1> DEFINE h == handed
           r == call.received
           m == message_cache
           b == inbox
<1>1. call.pc = "receive" BY DEF receive, receive_timeout
<1>2. /\ call.pending \in Seq(Nat) /\ r \in Seq(Reply)
      /\ call = [pc |-> "receive", pending |-> call.pending, received |-> r]
      /\ h \in Seq(Reply) /\ m \in Seq(Reply) /\ b \in Seq(Reply) /\ arrived \in Nat
  BY <1>1, CallFields DEF ProxyTypeOK
<1>3. Complete(Replies(h, r, m, b), arrived) /\ NoneOf(m, call.pending)
  BY <1>1 DEF RepliesOK, Received
<1>4. /\ UNCHANGED <<redis, peer, wire, delivered, arrived, onboard, sender, disconnected, expired,
                     exited_cache, outstanding, created, resent>>
  BY DEF receive, receive_timeout
<1>5. CASE receive_timeout
 <2>1. call' = [pc |-> "idle"] /\ handed' = h \o r /\ UNCHANGED <<inbox, message_cache>>
   BY <1>5 DEF receive_timeout
 <2>2. CallOK' /\ ~ Sends' /\ call'.pc = "idle" BY <2>1 DEF CallOK, Sends
 <2>3. h \o r \in Seq(Reply) BY <1>2, ConcatProperties
 <2>4. Complete(Replies(h \o r, << >>, m, b), arrived) BY <1>2, <1>3, ReplyHanded
 <2>5. RepliesOK' BY <1>4, <2>1, <2>2, <2>4 DEF RepliesOK, Received
 <2>6. ViewOK' BY <1>4, <2>2, SameView
 <2> QED BY <1>2, <1>4, <2>1, <2>2, <2>3, <2>5, <2>6 DEF ProxyTypeOK
<1>6. CASE receive
 <2> DEFINE msg == Head(b)
            wanted == msg.session \in ToSet(call.pending)
            pending == IF wanted THEN RemoveFirst(call.pending, msg.session) ELSE call.pending
            received == IF wanted THEN Append(r, msg) ELSE r
            kept == IF wanted THEN m ELSE Append(m, msg)
            left == Tail(b)
 <2>1. /\ b # << >> /\ inbox' = left /\ message_cache' = kept
       /\ IF pending = <<>>
          THEN call' = [pc |-> "idle"] /\ handed' = handed \o received
          ELSE /\ call' = [call EXCEPT !.pending = pending, !.received = received]
               /\ UNCHANGED handed
   BY <1>6, Zenon DEF receive
 <2>2. msg \in Reply /\ left \in Seq(Reply) BY <2>1, <1>2, HeadTailProperties
 <2>3. pending \in Seq(Nat) /\ \A i \in 1..Len(pending) : \E j \in 1..Len(call.pending) : pending[i] = call.pending[j]
  <3> HIDE DEF msg, wanted
  <3>1. CASE wanted
   <4>1. pending = RemoveFirst(call.pending, msg.session) BY <3>1
   <4>2. call.pending \in Seq(Nat) BY <1>2
   <4> HIDE DEF pending
   <4>3. /\ RemoveFirst(call.pending, msg.session) \in Seq(Nat)
         /\ \A i \in 1..Len(RemoveFirst(call.pending, msg.session)) :
              \E j \in 1..Len(call.pending) : RemoveFirst(call.pending, msg.session)[i] = call.pending[j]
     BY <4>2, RemovedFirst
   <4> QED BY <4>1, <4>3
  <3>2. CASE ~ wanted BY <3>2, <1>2
  <3> QED BY <3>1, <3>2
 <2>4. /\ received \in Seq(Reply) /\ kept \in Seq(Reply)
       /\ Complete(Replies(h, received, kept, left), arrived) /\ NoneOf(kept, pending)
  <3>1. DOMAIN call.pending = 1..Len(call.pending) BY <1>2, LenProperties
  <3>2. \A i \in 1..Len(m), j \in 1..Len(call.pending) : m[i].session # call.pending[j]
    BY <1>3 DEF NoneOf
  <3>3. NoneOf(m, pending)
   <4> HIDE DEF pending, m
   <4>1. ASSUME NEW i \in 1..Len(m), NEW j \in 1..Len(pending) PROVE m[i].session # pending[j]
    <5>1. PICK k \in 1..Len(call.pending) : pending[j] = call.pending[k] BY <2>3
    <5> QED BY <3>2, <5>1
   <4> QED BY <4>1 DEF NoneOf
  <3>4. CASE wanted
   <4>1. PICK k \in 1..Len(call.pending) : call.pending[k] = msg.session
     BY <3>1, <3>4 DEF ToSet
   <4>2. \A i \in 1..Len(m) : m[i].session # Head(b).session BY <3>2, <4>1
   <4>3. Complete(Replies(h, Append(r, Head(b)), m, Tail(b)), arrived)
     BY <1>2, <1>3, <2>1, <4>2, ReplyReceived
   <4>4. Append(r, msg) \in Seq(Reply) BY <1>2, <2>2, AppendedProperties
   <4>5. received = Append(r, msg) /\ kept = m BY <3>4
   <4> HIDE DEF received, kept
   <4> QED BY <1>2, <3>3, <4>3, <4>4, <4>5
  <3>5. CASE ~ wanted
   <4>1. /\ Append(m, msg) \in Seq(Reply)
         /\ Replies(h, r, Append(m, msg), left) = Replies(h, r, m, b)
     BY <1>2, <2>1, ReplyKept
   <4>2. received = r /\ kept = Append(m, msg) /\ pending = call.pending BY <3>5
   <4>3. \A j \in 1..Len(call.pending) : call.pending[j] # msg.session
     BY <3>1, <3>5 DEF ToSet
   <4> HIDE DEF received, kept, msg, pending, m
   <4>4. NoneOf(kept, pending)
    <5>1. /\ Len(kept) = Len(m) + 1 /\ kept[Len(m) + 1] = msg /\ \A i \in 1..Len(m) : kept[i] = m[i]
          /\ \A i \in 1..Len(m) + 1 : i \in 1..Len(m) \/ i = Len(m) + 1
      BY <1>2, <2>2, <4>2, AppendedProperties
    <5>2. ASSUME NEW i \in 1..Len(m) + 1, NEW j \in 1..Len(call.pending) PROVE kept[i].session # call.pending[j]
      BY <3>2, <4>3, <5>1
    <5> QED BY <4>2, <5>1, <5>2 DEF NoneOf
   <4> QED BY <1>2, <1>3, <4>1, <4>2, <4>4
  <3> QED BY <3>4, <3>5
 <2> HIDE DEF pending, received, kept, left
 <2>5. CASE pending = << >>
  <3>1. call' = [pc |-> "idle"] /\ handed' = h \o received BY <2>1, <2>5
  <3>2. CallOK' /\ ~ Sends' /\ call'.pc = "idle" BY <3>1 DEF CallOK, Sends
  <3>3. h \o received \in Seq(Reply) BY <1>2, <2>4, ConcatProperties
  <3>4. Complete(Replies(h \o received, << >>, kept, left), arrived)
    BY <1>2, <2>2, <2>4, ReplyHanded
  <3>5. RepliesOK' BY <1>4, <2>1, <3>1, <3>2, <3>4 DEF RepliesOK, Received
  <3>6. ViewOK' BY <1>4, <3>2, SameView
  <3> QED BY <1>2, <1>4, <2>1, <2>2, <2>4, <3>1, <3>2, <3>3, <3>5, <3>6 DEF ProxyTypeOK
 <2>6. CASE pending # << >>
  <3>1. call' = [call EXCEPT !.pending = pending, !.received = received] /\ handed' = h
    BY <2>1, <2>6
  <3>2. /\ call' \in [pc : {"receive"}, pending : Seq(Nat), received : Seq(Reply)]
        /\ call'.pc = "receive" /\ call'.pending = pending /\ call'.received = received
   <4>2. call' = [pc |-> "receive", pending |-> pending, received |-> received]
    <5> DEFINE u == call.pending
               v == call.received
    <5>1. call = [pc |-> "receive", pending |-> u, received |-> v] BY <1>2
    <5> HIDE DEF u, v
    <5>2. call' = [[pc |-> "receive", pending |-> u, received |-> v]
                     EXCEPT !.pending = pending, !.received = received]
      BY <3>1, <5>1
    <5> QED BY <5>2
   <4>3. pending \in Seq(Nat) /\ received \in Seq(Reply) BY <2>3, <2>4
   <4> QED BY <4>2, <4>3
  <3>3. CallOK' /\ ~ Sends' BY <3>2 DEF CallOK, Sends
  <3>4. RepliesOK' BY <1>4, <2>1, <2>4, <3>1, <3>2 DEF RepliesOK, Received
  <3>5. ViewOK' BY <1>4, <3>2, <3>3, SameView
  <3> QED BY <1>2, <1>4, <2>1, <2>2, <2>4, <3>1, <3>3, <3>4, <3>5 DEF ProxyTypeOK
 <2> QED BY <2>5, <2>6
<1> QED BY <1>5, <1>6

\* Every element of s is one of t.
Within(s, t) == \A i \in 1..Len(s) : \E j \in 1..Len(t) : s[i] = t[j]

\* Its bounds hold for a part of it.
LEMMA WithinBounds ==
  ASSUME NEW s, NEW t, Within(s, t), NEW n
  PROVE  /\ AtMost(t, n) => AtMost(s, n)
         /\ Below(t, n) => Below(s, n)
BY DEF Within, AtMost, Below

\* And so do those between it and another sequence.
LEMMA WithinAllBelow ==
  ASSUME NEW s, NEW t, Within(s, t), NEW u, AllBelow(t, u)
  PROVE  AllBelow(s, u)
<1> SUFFICES ASSUME NEW i \in 1..Len(s), NEW j \in 1..Len(u) PROVE s[i] < u[j]
  BY DEF AllBelow
<1>1. PICK k \in 1..Len(t) : s[i] = t[k] BY DEF Within
<1> QED BY <1>1 DEF AllBelow

\* A message that is sent for the first time.
LEMMA SentNew ==
  ASSUME NEW s \in Seq(Nat), NEW again, Ordered(s, again), NEW m \in Nat, Below(s, m)
  PROVE  Ordered(Append(s, m), again)
<1> DEFINE one == <<m>>
<1>1. one \in Seq(Nat) /\ Len(one) = 1 /\ one[1] = m OBVIOUS
<1>2. Append(s, m) = s \o one BY AppendIsConcat
<1> HIDE DEF one
<1>3. Rising(one)
 <2>1. \A i, j \in 1..1 : ~ (i < j) OBVIOUS
 <2> QED BY <1>1, <2>1 DEF Rising
<1>4. AllBelow(s, one)
 <2>1. \A i \in 1..1 : i = 1 OBVIOUS
 <2> QED BY <1>1, <2>1 DEF AllBelow, Below
<1> QED BY <1>1, <1>2, <1>3, <1>4, JoinedOrder

\* More messages may be sent again.
LEMMA OrderedMore ==
  ASSUME NEW s, NEW again, NEW more, again \subseteq more, Ordered(s, again)
  PROVE  Ordered(s, more)
BY DEF Ordered

\* More messages have been created.
LEMMA MoreAtMost ==
  ASSUME NEW s \in Seq(Nat), NEW n \in Nat, NEW m \in Nat, n <= m, AtMost(s, n)
  PROVE  /\ AtMost(s, m)
         /\ n < m => Below(s, m)
<1>1. \A i \in 1..Len(s) : s[i] \in Nat OBVIOUS
<1> QED BY <1>1 DEF AtMost, Below

\* The elements of what is joined or appended.
LEMMA JoinedElements ==
  ASSUME NEW s \in Seq(Nat), NEW t \in Seq(Nat)
  PROVE  /\ s \o t \in Seq(Nat)
         /\ \A i \in 1..Len(s \o t) : \/ \E j \in 1..Len(s) : (s \o t)[i] = s[j]
                                      \/ \E j \in 1..Len(t) : (s \o t)[i] = t[j]
         /\ Within(s, s \o t)
<1> DEFINE n == Len(s)
           m == Len(t)
           r == s \o t
<1>1. /\ r \in Seq(Nat) /\ n \in Nat /\ m \in Nat /\ Len(r) = n + m
      /\ \A i \in 1..n : r[i] = s[i]
      /\ \A i \in 1..m : r[n + i] = t[i]
 <2> HIDE DEF n, m
 <2>1. Len(s) = n /\ Len(t) = m BY DEF n, m
 <2> QED BY <2>1, Joined
<1> HIDE DEF n, m, r
<1>2. ASSUME NEW i \in 1..n + m PROVE (\E j \in 1..n : r[i] = s[j]) \/ (\E j \in 1..m : r[i] = t[j])
 <2>1. CASE i <= n
  <3>1. i \in 1..n BY <1>1, <2>1
  <3> QED BY <3>1, <1>1
 <2>2. CASE i > n
  <3> DEFINE k == i - n
  <3>1. k \in 1..m /\ n + k = i BY <1>1, <2>2
  <3> HIDE DEF k
  <3> QED BY <3>1, <1>1
 <2> QED BY <2>1, <2>2, <1>1
<1>3. \A i \in 1..n : i \in 1..n + m BY <1>1
<1>4. Within(s, r)
 <2>1. \A i \in 1..n : \E j \in 1..n + m : s[i] = r[j] BY <1>1, <1>3
 <2> QED BY <2>1, <1>1 DEF Within, n
<1> QED BY <1>1, <1>2, <1>4 DEF n, m, r

\* What a peer received and what is on its way to it.
LEMMA GotType ==
  ASSUME ProxyTypeOK
  PROVE  \A c \in Channels, p \in Peers : /\ delivered[c][p] \in Seq(Nat) /\ wire[c][p] \in Seq(Nat)
                                          /\ Got(c, p) \in Seq(Nat)
<1> SUFFICES ASSUME NEW c \in Channels, NEW p \in Peers
             PROVE  delivered[c][p] \in Seq(Nat) /\ wire[c][p] \in Seq(Nat) /\ Got(c, p) \in Seq(Nat)
  OBVIOUS
<1>1. delivered[c][p] \in Seq(Nat) /\ wire[c][p] \in Seq(Nat) BY DEF ProxyTypeOK
<1> QED BY <1>1, ConcatProperties DEF Got

\* A step that leaves what was sent and what is kept.
LEMMA SameOrder ==
  ASSUME OrderOK, UNCHANGED <<wire, delivered, exited_cache, created, resent>>,
         \/ ~ Sends'
         \/ Sends /\ call'.todo = call.todo /\ (call'.pc # "send" /\ call.todo = << >> => call.pc # "send")
  PROVE  OrderOK'
<1>1. \A c, p : Got(c, p)' = Got(c, p) BY DEF Got
<1>2. WireOK' BY <1>1 DEF OrderOK, WireOK
<1>3. KeptOK' BY <1>1 DEF OrderOK, KeptOK
<1>4. TodoOK'
 <2>1. CASE ~ Sends' BY <2>1 DEF TodoOK
 <2>2. CASE Sends /\ call'.todo = call.todo /\ (call'.pc # "send" /\ call.todo = << >> => call.pc # "send")
  <3>1. \A m : MessageFits(m)' <=> MessageFits(m) BY <1>1 DEF MessageFits
  <3>2. /\ \A i \in 1..Len(call.todo) : call.todo[i].id <= created /\ MessageFits(call.todo[i])
        /\ \A i, j \in 1..Len(call.todo) : i # j => call.todo[i].dst # call.todo[j].dst
        /\ call.pc # "send" /\ call.todo = << >> => \A p \in Peers : Below(Got("broadcast", p), created)
    BY <2>2 DEF OrderOK, TodoOK
  <3> QED BY <1>1, <2>2, <3>1, <3>2 DEF TodoOK
 <2> QED BY <2>1, <2>2
<1> QED BY <1>2, <1>3, <1>4 DEF OrderOK

\* The steps of the peers leave the messages in order.
LEMMA PeersOrder ==
  ASSUME ProxyTypeOK, ProxyTypeOK', OrderOK, NEW p \in Peers,
         _register_redis(p) \/ _signal_handler(p) \/ Killed(p) \/ \E c \in Channels : reply(p, c)
  PROVE  OrderOK'
<1> USE DEF peerVars, viewVars, cacheVars, userVars
<1>1. UNCHANGED <<call, exited_cache, created, resent>>
  BY DEF _register_redis, _signal_handler, Killed, reply
<1>2. ASSUME NEW c \in Channels, NEW q \in Peers
      PROVE  Got(c, q)' = Got(c, q) \/ Got(c, q)' = delivered[c][q]
 <2>1. delivered[c][q] \in Seq(Nat) /\ wire[c][q] \in Seq(Nat) BY GotType
 <2>2. CASE _register_redis(p) BY <2>2 DEF _register_redis, Got
 <2>3. CASE _signal_handler(p) \/ Killed(p)
  <3>1. delivered' = delivered /\ wire' = [d \in Channels |-> [wire[d] EXCEPT ![p] = << >>]]
    BY <2>3 DEF _signal_handler, Killed
  <3>2. wire'[c] = [wire[c] EXCEPT ![p] = << >>] /\ wire[c] \in [Peers -> Seq(Nat)]
    BY <3>1 DEF ProxyTypeOK
  <3>3. wire'[c][q] = wire[c][q] \/ wire'[c][q] = << >> BY <3>2
  <3>4. delivered[c][q] \o << >> = delivered[c][q] BY <2>1, ConcatEmptySeq
  <3> QED BY <3>1, <3>3, <3>4 DEF Got
 <2>4. CASE \E d \in Channels : reply(p, d)
  <3>1. PICK d \in Channels : reply(p, d) BY <2>4
  <3>2. /\ wire[d][p] # << >> /\ wire' = [wire EXCEPT ![d][p] = Tail(@)]
        /\ delivered' = [delivered EXCEPT ![d][p] = Append(@, Head(wire[d][p]))]
    BY <3>1 DEF reply
  <3>3. CASE c = d /\ q = p
   <4>1. wire'[c][q] = Tail(wire[c][q]) /\ delivered'[c][q] = Append(delivered[c][q], Head(wire[c][q]))
     BY <3>2, <3>3 DEF ProxyTypeOK
   <4> DEFINE u == delivered[c][q]
              v == wire[c][q]
   <4>2. u \in Seq(Nat) /\ v \in Seq(Nat) /\ v # << >> BY <2>1, <3>2, <3>3
   <4> HIDE DEF u, v
   <4>3. Append(u, Head(v)) \o Tail(v) = u \o v BY <4>2, TakenOver
   <4> QED BY <4>1, <4>3 DEF Got, u, v
  <3>4. CASE ~(c = d /\ q = p)
   <4>1. wire'[c][q] = wire[c][q] /\ delivered'[c][q] = delivered[c][q]
     BY <3>2, <3>4 DEF ProxyTypeOK
   <4> QED BY <4>1 DEF Got
  <3> QED BY <3>3, <3>4
 <2> QED BY <2>2, <2>3, <2>4
<1>3. ASSUME NEW c \in Channels, NEW q \in Peers
      PROVE  Within(Got(c, q)', Got(c, q)) /\ Ordered(Got(c, q)', resent)
 <2> DEFINE u == delivered[c][q]
            v == wire[c][q]
            r == Got(c, q)
            s == Got(c, q)'
 <2>1. u \in Seq(Nat) /\ v \in Seq(Nat) /\ r = u \o v BY GotType DEF Got
 <2>2. Ordered(r, resent) BY DEF OrderOK, WireOK
 <2>3. s = r \/ s = u BY <1>2
 <2> HIDE DEF u, v, r, s
 <2>4. Within(r, r) BY DEF Within
 <2>5. Within(u, r) BY <2>1, JoinedElements
 <2>6. Ordered(u, resent) BY <2>1, <2>2, OrderedParts
 <2>7. Within(s, r) /\ Ordered(s, resent) BY <2>2, <2>3, <2>4, <2>5, <2>6
 <2> QED BY <2>7 DEF r, s
<1>4. WireOK'
 <2> SUFFICES ASSUME NEW c \in Channels, NEW q \in Peers
              PROVE  Ordered(Got(c, q)', resent') /\ AtMost(Got(c, q)', created')
   BY DEF WireOK
 <2>1. AtMost(Got(c, q), created) BY DEF OrderOK, WireOK
 <2>2. AtMost(Got(c, q)', created) BY <1>3, <2>1, WithinBounds
 <2> QED BY <1>1, <1>3, <2>2
<1>5. "unicast" \in Channels /\ "broadcast" \in Channels BY DEF Channels
<1>6. KeptOK'
 <2> SUFFICES ASSUME NEW q \in Peers
              PROVE  /\ Rising(exited_cache[q]) /\ AtMost(exited_cache[q], created)
                     /\ AllBelow(Got("unicast", q)', exited_cache[q])
                     /\ ~ EnableCache => exited_cache[q] = << >>
   BY <1>1 DEF KeptOK
 <2>1. /\ Rising(exited_cache[q]) /\ AtMost(exited_cache[q], created)
       /\ AllBelow(Got("unicast", q), exited_cache[q])
       /\ ~ EnableCache => exited_cache[q] = << >>
   BY DEF OrderOK, KeptOK
 <2>2. AllBelow(Got("unicast", q)', exited_cache[q]) BY <1>3, <1>5, <2>1, WithinAllBelow
 <2> QED BY <2>1, <2>2
<1>7. TodoOK'
 <2> SUFFICES ASSUME Sends
              PROVE  /\ \A i \in 1..Len(call.todo) : call.todo[i].id <= created /\ MessageFits(call.todo[i])'
                     /\ \A i, j \in 1..Len(call.todo) : i # j => call.todo[i].dst # call.todo[j].dst
                     /\ call.pc # "send" /\ call.todo = << >> => \A q \in Peers : Below(Got("broadcast", q)', created)
   BY <1>1 DEF TodoOK, Sends, MessageFits
 <2>1. /\ \A i \in 1..Len(call.todo) : call.todo[i].id <= created /\ MessageFits(call.todo[i])
       /\ \A i, j \in 1..Len(call.todo) : i # j => call.todo[i].dst # call.todo[j].dst
       /\ call.pc # "send" /\ call.todo = << >> => \A q \in Peers : Below(Got("broadcast", q), created)
   BY DEF OrderOK, TodoOK
 <2>2. ASSUME NEW i \in 1..Len(call.todo) PROVE MessageFits(call.todo[i])'
  <3> DEFINE m == call.todo[i]
  <3>1. call.todo \in Seq(Message) BY CallFields DEF ProxyTypeOK
  <3>2. m \in Message BY <3>1
  <3>3. m.dst \in Peers BY <3>2 DEF Message
  <3>4. MessageFits(m) /\ m' = m BY <1>1, <2>1
  <3>5. Below(Got("unicast", m.dst), m.id) => Below(Got("unicast", m.dst)', m.id)
    BY <1>1, <1>3, <1>5, <3>3, WithinBounds
  <3> HIDE DEF m
  <3>6. MessageFits(m)' BY <1>1, <3>4, <3>5 DEF MessageFits
  <3> QED BY <3>6 DEF m
 <2>3. call.pc # "send" /\ call.todo = << >> => \A q \in Peers : Below(Got("broadcast", q)', created)
   BY <1>3, <1>5, <2>1, WithinBounds
 <2> QED BY <2>1, <2>2, <2>3
<1> QED BY <1>4, <1>6, <1>7 DEF OrderOK

\* New messages, and one that is sent again, fit behind what was sent.
LEMMA ScatterOrder ==
  ASSUME ProxyAssumption, ProxyTypeOK, ViewOK, OrderOK, scatter \/ send_again
  PROVE  OrderOK'
<1>1. /\ call'.pc = "send" /\ Sends' /\ call'.todo \in Seq(Message)
      /\ created' \in Nat /\ created <= created' /\ resent \subseteq resent'
      /\ UNCHANGED <<redis, peer, wire, delivered, inbox, arrived, onboard, sender, disconnected, expired,
                     exited_cache, message_cache, outstanding, handed>>
      /\ \/ /\ resent' = resent
            /\ \A i \in 1..Len(call'.todo) : /\ call'.todo[i].id > created /\ call'.todo[i].id <= created'
            /\ \A i, j \in 1..Len(call'.todo) : i # j => call'.todo[i].dst # call'.todo[j].dst
         \/ /\ Len(call'.todo) = 1 /\ created' = created
            /\ LET m == call'.todo[1]
               IN  m.id \in resent' /\ \E i \in 1..Len(exited_cache[m.dst]) : exited_cache[m.dst][i] = m.id
  BY ScatterType
<1>2. \A c, p : Got(c, p)' = Got(c, p) BY <1>1 DEF Got
<1>3. created \in Nat /\ exited_cache \in [Peers -> Seq(Nat)] /\ "unicast" \in Channels
  BY DEF ProxyTypeOK, Channels
<1>4. WireOK'
 <2> SUFFICES ASSUME NEW c \in Channels, NEW p \in Peers
              PROVE  Ordered(Got(c, p), resent') /\ AtMost(Got(c, p), created')
   BY <1>2 DEF WireOK
 <2>1. Ordered(Got(c, p), resent) /\ AtMost(Got(c, p), created) /\ Got(c, p) \in Seq(Nat)
   BY GotType DEF OrderOK, WireOK
 <2> QED BY <1>1, <1>3, <2>1, OrderedMore, MoreAtMost
<1>5. KeptOK'
 <2> SUFFICES ASSUME NEW p \in Peers
              PROVE  /\ Rising(exited_cache[p]) /\ AtMost(exited_cache[p], created')
                     /\ AllBelow(Got("unicast", p), exited_cache[p])
                     /\ ~ EnableCache => exited_cache[p] = << >>
   BY <1>1, <1>2 DEF KeptOK
 <2>1. /\ Rising(exited_cache[p]) /\ AtMost(exited_cache[p], created)
       /\ AllBelow(Got("unicast", p), exited_cache[p])
       /\ ~ EnableCache => exited_cache[p] = << >>
   BY DEF OrderOK, KeptOK
 <2>2. exited_cache[p] \in Seq(Nat) BY <1>3
 <2> QED BY <1>1, <1>3, <2>1, <2>2, MoreAtMost
<1>6. TodoOK'
 <2> DEFINE t == call'.todo
 <2>1. ASSUME NEW i \in 1..Len(t) PROVE t[i].id \in Nat /\ t[i].dst \in Peers
  <3>1. t[i] \in Message BY <1>1
  <3> QED BY <3>1 DEF Message
 <2>2. CASE /\ resent' = resent
            /\ \A i \in 1..Len(t) : t[i].id > created /\ t[i].id <= created'
            /\ \A i, j \in 1..Len(t) : i # j => t[i].dst # t[j].dst
  <3>1. ASSUME NEW i \in 1..Len(t)
        PROVE  Below(Got("unicast", t[i].dst), t[i].id) /\ Below(exited_cache[t[i].dst], t[i].id)
   <4> DEFINE p == t[i].dst
              n == t[i].id
   <4>1. p \in Peers /\ n \in Nat /\ created <= n /\ created < n BY <2>1, <2>2, <1>3
   <4> HIDE DEF p, n
   <4>2. Got("unicast", p) \in Seq(Nat) /\ exited_cache[p] \in Seq(Nat)
     BY <4>1, <1>3, GotType
   <4>3. AtMost(Got("unicast", p), created) /\ AtMost(exited_cache[p], created)
     BY <4>1, <1>3 DEF OrderOK, WireOK, KeptOK
   <4>4. Below(Got("unicast", p), n) /\ Below(exited_cache[p], n)
     BY <4>1, <4>2, <4>3, <1>3, MoreAtMost
   <4> QED BY <4>4 DEF p, n
  <3> HIDE DEF t
  <3>2. \A i \in 1..Len(t) : t[i].id <= created' BY <2>2
  <3>3. \A i, j \in 1..Len(t) : i # j => t[i].dst # t[j].dst BY <2>2
  <3> QED BY <1>1, <1>2, <3>1, <3>2, <3>3 DEF TodoOK, MessageFits, t
 <2>3. CASE /\ Len(t) = 1 /\ created' = created
            /\ t[1].id \in resent'
            /\ \E i \in 1..Len(exited_cache[t[1].dst]) : exited_cache[t[1].dst][i] = t[1].id
  <3>1. \A i \in 1..Len(t) : i = 1 BY <2>3
  <3>2. t[1].id <= created'
   <4>1. 1 \in 1..Len(t) BY <2>3
   <4>2. t[1].dst \in Peers BY <4>1, <2>1
   <4>3. AtMost(exited_cache[t[1].dst], created) BY <4>2 DEF OrderOK, KeptOK
   <4> QED BY <4>3, <2>3 DEF AtMost
  <3> HIDE DEF t
  <3>3. \A i, j \in 1..Len(t) : ~ (i # j) BY <3>1
  <3> QED BY <1>1, <2>3, <3>1, <3>2, <3>3 DEF TodoOK, MessageFits, t
 <2> QED BY <1>1, <2>2, <2>3
<1> QED BY <1>4, <1>5, <1>6 DEF OrderOK

\* The steps of rejoining leave the messages in order.
LEMMA RejoinOrder ==
  ASSUME ProxyAssumption, ProxyTypeOK, ViewOK, OrderOK,
         Expire \/ _wait_for_minimal_peer_number \/ _send_rejoin \/ broadcast
  PROVE  OrderOK'
<1> USE DEF peerVars, viewVars, cacheVars, userVars
<1>1. CASE Expire
 <2>1. UNCHANGED <<wire, delivered, exited_cache, created, resent, call>> BY <1>1 DEF Expire
 <2>2. ~ Sends' \/ (Sends /\ call'.todo = call.todo /\ (call'.pc # "send" /\ call.todo = << >> => call.pc # "send"))
   BY <2>1 DEF Sends
 <2> QED BY <2>1, <2>2, SameOrder
<1>2. CASE _wait_for_minimal_peer_number
 <2>1. call.pc = "waiting" /\ UNCHANGED <<wire, delivered, exited_cache, created, resent>>
   BY <1>2 DEF _wait_for_minimal_peer_number
 <2>2. /\ call = [pc |-> "waiting", block |-> call.block, targets |-> call.targets, todo |-> call.todo,
                  type |-> call.type]
   BY <2>1, CallFields DEF ProxyTypeOK
 <2>3. call' = call \/ call' = [call EXCEPT !.pc = "ready"] \/ call' = [pc |-> "exited"]
   BY <1>2 DEF _wait_for_minimal_peer_number
 <2>4. call'.todo = call.todo \/ call' = [pc |-> "exited"] BY <2>2, <2>3
 <2>5. Sends /\ call.pc # "send" BY <2>1 DEF Sends
 <2>6. call' = [pc |-> "exited"] => ~ Sends' BY DEF Sends
 <2> QED BY <2>1, <2>4, <2>5, <2>6, SameOrder
<1>3. CASE _send_rejoin
 <2> DEFINE t == TypeOf[Head(call.todo).dst]
 <2>1. /\ call.pc = "send" /\ Sends /\ call.todo # << >>
       /\ UNCHANGED <<wire, delivered, exited_cache, created, resent>>
       /\ _rejoin(t, [pc |-> "ready", block |-> call.block, targets |-> call.targets, todo |-> call.todo,
                      type |-> t])
   BY <1>3 DEF _send_rejoin, Sends
 <2> HIDE DEF t
 <2>2. \E s \in {"ready", "waiting"} :
            call' = [pc |-> s, block |-> call.block, targets |-> call.targets, todo |-> call.todo, type |-> t]
   BY <2>1, RejoinKeeps
 <2>3. call'.todo = call.todo BY <2>2
 <2> QED BY <2>1, <2>3, SameOrder
<1>4. CASE broadcast
 <2>1. created' = created + 1 /\ UNCHANGED <<wire, delivered, exited_cache, resent>>
   BY <1>4 DEF broadcast
 <2>2. PICK t \in Types, block \in BOOLEAN :
         _rejoin(t, [pc |-> "ready", block |-> block, targets |-> << >>, todo |-> << >>, type |-> t])
   BY <1>4 DEF broadcast
 <2> DEFINE none == << >>
 <2>3. Len(none) = 0 OBVIOUS
 <2>4. _rejoin(t, [pc |-> "ready", block |-> block, targets |-> none, todo |-> none, type |-> t])
   BY <2>2
 <2> HIDE DEF none
 <2>5. \E s \in {"ready", "waiting"} :
            call' = [pc |-> s, block |-> block, targets |-> none, todo |-> none, type |-> t]
   BY <2>4, RejoinKeeps
 <2>6. call'.todo = none BY <2>5
 <2>7. created \in Nat /\ created + 1 \in Nat /\ created <= created + 1 /\ created < created + 1
   BY DEF ProxyTypeOK
 <2>8. \A c, p : Got(c, p)' = Got(c, p) BY <2>1 DEF Got
 <2>9. ASSUME NEW c \in Channels, NEW p \in Peers
       PROVE  /\ Ordered(Got(c, p), resent)
              /\ AtMost(Got(c, p), created') /\ Below(Got(c, p), created')
  <3>1. Ordered(Got(c, p), resent) /\ AtMost(Got(c, p), created) /\ Got(c, p) \in Seq(Nat)
    BY GotType DEF OrderOK, WireOK
  <3> QED BY <2>1, <2>7, <3>1, MoreAtMost
 <2>10. WireOK' BY <2>1, <2>8, <2>9 DEF WireOK
 <2>11. KeptOK'
  <3> SUFFICES ASSUME NEW p \in Peers
               PROVE  /\ Rising(exited_cache[p]) /\ AtMost(exited_cache[p], created')
                      /\ AllBelow(Got("unicast", p), exited_cache[p])
                      /\ ~ EnableCache => exited_cache[p] = << >>
    BY <2>1, <2>8 DEF KeptOK
  <3>1. /\ Rising(exited_cache[p]) /\ AtMost(exited_cache[p], created)
        /\ AllBelow(Got("unicast", p), exited_cache[p])
        /\ ~ EnableCache => exited_cache[p] = << >>
    BY DEF OrderOK, KeptOK
  <3>2. exited_cache[p] \in Seq(Nat) BY DEF ProxyTypeOK
  <3> QED BY <2>1, <2>7, <3>1, <3>2, MoreAtMost
 <2>12. TodoOK'
  <3>1. \A i \in 1..Len(call'.todo) : FALSE BY <2>3, <2>6
  <3>2. \A p \in Peers : Below(Got("broadcast", p), created') BY <2>9 DEF Channels
  <3> QED BY <2>8, <3>1, <3>2 DEF TodoOK
 <2> QED BY <2>10, <2>11, <2>12 DEF OrderOK
<1> QED BY <1>1, <1>2, <1>3, <1>4

\* A broadcast is the newest message on its socket.
LEMMA BroadcastOrder ==
  ASSUME ProxyAssumption, ProxyTypeOK, ViewOK, OrderOK, _broadcast
  PROVE  OrderOK'
<1>1. /\ call.pc = "ready" /\ call.todo = << >> /\ Sends /\ call'.pc = "send" /\ Sends' /\ call'.todo = << >>
      /\ UNCHANGED <<delivered, exited_cache, created, resent>>
      /\ \A q \in Peers : /\ wire'["unicast"][q] = wire["unicast"][q]
                          /\ \/ wire'["broadcast"][q] = wire["broadcast"][q]
                             \/ wire'["broadcast"][q] = Append(wire["broadcast"][q], created)
  BY BroadcastType
<1>2. "unicast" \in Channels /\ "broadcast" \in Channels /\ \A c \in Channels : c = "unicast" \/ c = "broadcast"
  BY DEF Channels
<1>3. created \in Nat BY DEF ProxyTypeOK
<1>4. \A q \in Peers : Got("unicast", q)' = Got("unicast", q) BY <1>1 DEF Got
<1>5. ASSUME NEW q \in Peers
      PROVE  Ordered(Got("broadcast", q)', resent) /\ AtMost(Got("broadcast", q)', created)
 <2> DEFINE u == delivered["broadcast"][q]
            v == wire["broadcast"][q]
            s == Got("broadcast", q)
            t == Got("broadcast", q)'
 <2>1. u \in Seq(Nat) /\ v \in Seq(Nat) /\ s \in Seq(Nat) /\ s = u \o v
   BY <1>2, GotType DEF Got
 <2>2. Ordered(s, resent) /\ AtMost(s, created) /\ Below(s, created)
   BY <1>1, <1>2 DEF OrderOK, WireOK, TodoOK
 <2>3. t = s \/ t = u \o Append(v, created) BY <1>1 DEF Got
 <2> HIDE DEF u, v, s, t
 <2>4. u \o Append(v, created) = Append(s, created) BY <2>1, <1>3, AppendOfConcat
 <2>5. Ordered(Append(s, created), resent) BY <2>1, <2>2, <1>3, SentNew
 <2>6. AtMost(Append(s, created), created)
  <3>1. /\ Len(Append(s, created)) = Len(s) + 1 /\ Append(s, created)[Len(s) + 1] = created
        /\ \A i \in 1..Len(s) : Append(s, created)[i] = s[i]
        /\ \A i \in 1..Len(s) + 1 : i \in 1..Len(s) \/ i = Len(s) + 1
   <4>1. s \in Seq(Nat) BY <2>1
   <4> QED BY ONLY <4>1, <1>3, AppendedProperties
  <3> QED BY <2>2, <3>1, <1>3 DEF AtMost
 <2>7. Ordered(t, resent) /\ AtMost(t, created) BY <2>2, <2>3, <2>4, <2>5, <2>6
 <2> QED BY <2>7 DEF t
<1>6. WireOK'
 <2> SUFFICES ASSUME NEW c \in Channels, NEW q \in Peers
              PROVE  Ordered(Got(c, q)', resent) /\ AtMost(Got(c, q)', created)
   BY <1>1 DEF WireOK
 <2>1. CASE c = "unicast" BY <1>4, <2>1 DEF OrderOK, WireOK
 <2>2. CASE c = "broadcast" BY <1>5, <2>2
 <2> QED BY <1>2, <2>1, <2>2
<1>7. KeptOK' BY <1>1, <1>4 DEF OrderOK, KeptOK
<1>8. TodoOK'
 <2>1. \A i \in 1..Len(call'.todo) : FALSE BY <1>1
 <2> QED BY <1>1, <2>1 DEF TodoOK
<1> QED BY <1>6, <1>7, <1>8 DEF OrderOK

\* All that is on its way, then what is kept, then the message.
LEMMA SentOrder ==
  ASSUME NEW d \in Seq(Nat), NEW k \in Seq(Nat), NEW again, NEW n \in Nat, NEW m \in Nat, m <= n,
         Ordered(d, again), AtMost(d, n), Rising(k), AtMost(k, n), AllBelow(d, k),
         \/ m \in again /\ \E j \in 1..Len(k) : k[j] = m
         \/ Below(d, m) /\ Below(k, m)
  PROVE  Ordered(d \o Append(k, m), again) /\ AtMost(d \o Append(k, m), n)
<1> DEFINE s == d \o k
           t == Append(s, m)
<1>1. d \o Append(k, m) = t BY AppendOfConcat
<1>2. /\ s \in Seq(Nat)
      /\ \A i \in 1..Len(s) : \/ \E j \in 1..Len(d) : s[i] = d[j]
                              \/ \E j \in 1..Len(k) : s[i] = k[j]
  BY JoinedElements
<1>3. Ordered(s, again) BY JoinedOrder
<1>4. AtMost(s, n) BY <1>2 DEF AtMost
<1>5. /\ Len(s) = Len(d) + Len(k) /\ Len(d) \in Nat /\ Len(k) \in Nat
      /\ \A i \in 1..Len(d) : s[i] = d[i]
      /\ \A i \in 1..Len(k) : s[Len(d) + i] = k[i]
 <2> DEFINE u == Len(d)
            v == Len(k)
 <2> HIDE DEF u, v
 <2>1. Len(d) = u /\ Len(k) = v BY DEF u, v
 <2>2. /\ Len(s) = u + v /\ u \in Nat /\ v \in Nat
       /\ \A i \in 1..u : s[i] = d[i]
       /\ \A i \in 1..v : s[u + i] = k[i]
   BY <2>1, Joined
 <2> QED BY <2>1, <2>2
<1> HIDE DEF s
<1>6. Ordered(t, again)
 <2>1. CASE m \in again /\ \E j \in 1..Len(k) : k[j] = m
  <3>1. PICK l \in 1..Len(k) : k[l] = m BY <2>1
  <3>2. \A i \in 1..Len(d) : d[i] < m BY <3>1 DEF AllBelow
  <3>3. ASSUME NEW i \in 1..Len(s), NEW j \in 1..Len(s), i < j, s[i] = m, s[j] = m PROVE FALSE
   <4> DEFINE u == i - Len(d)
              v == j - Len(d)
   <4>1. i > Len(d)
    <5>1. ASSUME i <= Len(d) PROVE FALSE
     <6>1. i \in 1..Len(d) BY <5>1, <1>5
     <6>2. s[i] = d[i] /\ d[i] < m BY <6>1, <1>5, <3>2
     <6> QED BY <6>2, <3>3
    <5> QED BY <5>1, <1>5
   <4>2. u \in 1..Len(k) /\ v \in 1..Len(k) /\ u < v /\ Len(d) + u = i /\ Len(d) + v = j
     BY <4>1, <1>5, <3>3
   <4> HIDE DEF u, v
   <4>3. k[u] = m /\ k[v] = m BY <4>2, <1>5, <3>3
   <4> QED BY <4>2, <4>3, SMTT(30) DEF Rising
  <3> QED BY <1>2, <1>3, <2>1, <3>3, SentAgain
 <2>2. CASE Below(d, m) /\ Below(k, m)
  <3>1. Below(s, m) BY <1>2, <2>2 DEF Below
  <3> QED BY <1>2, <1>3, <3>1, SentNew
 <2> QED BY <2>1, <2>2
<1>7. AtMost(t, n)
 <2>1. /\ Len(t) = Len(s) + 1 /\ t[Len(s) + 1] = m
       /\ \A i \in 1..Len(s) : t[i] = s[i]
       /\ \A i \in 1..Len(s) + 1 : i \in 1..Len(s) \/ i = Len(s) + 1
  <3>1. s \in Seq(Nat) BY <1>2
  <3> QED BY ONLY <3>1, m \in Nat, AppendedProperties
 <2> HIDE DEF t
 <2> QED BY <1>4, <2>1 DEF AtMost
<1> QED BY <1>1, <1>6, <1>7

\* What is kept, with the message.
LEMMA KeptOrder ==
  ASSUME ProxyAssumption, NEW d \in Seq(Nat), NEW k \in Seq(Nat), NEW again, NEW n \in Nat, NEW m \in Nat, m <= n,
         Rising(k), AtMost(k, n), AllBelow(d, k),
         \/ m \in again /\ \E j \in 1..Len(k) : k[j] = m
         \/ Below(d, m) /\ Below(k, m),
         NEW r, r = _push_message_to_message_cache(k, m)
  PROVE  Rising(r) /\ AtMost(r, n) /\ AllBelow(d, r)
<1>1. /\ r \in Seq(Nat) /\ Rising(r)
      /\ \A i \in 1..Len(r) : r[i] = m \/ \E j \in 1..Len(k) : r[i] = k[j]
  BY Pushed
<1>2. AtMost(r, n) BY <1>1 DEF AtMost
<1>3. ASSUME NEW i \in 1..Len(d) PROVE d[i] < m
 <2>1. CASE \E j \in 1..Len(k) : k[j] = m BY <2>1 DEF AllBelow
 <2>2. CASE Below(d, m) BY <2>2 DEF Below
 <2> QED BY <2>1, <2>2
<1>4. AllBelow(d, r)
 <2> SUFFICES ASSUME NEW i \in 1..Len(d), NEW j \in 1..Len(r) PROVE d[i] < r[j]
   BY DEF AllBelow
 <2>1. CASE r[j] = m BY <2>1, <1>3
 <2>2. CASE \E l \in 1..Len(k) : r[j] = k[l] BY <2>2 DEF AllBelow
 <2> QED BY <2>1, <2>2, <1>1
<1> QED BY <1>1, <1>2, <1>4

\* _send leaves the messages in order: what was kept goes first.
LEMMA SendOrder ==
  ASSUME ProxyAssumption, ProxyTypeOK, ViewOK, OrderOK, call.todo # << >>, _send
  PROVE  OrderOK'
<1>a. PICK m : m = Head(call.todo) OBVIOUS
<1>b. PICK p : p = m.dst OBVIOUS
<1> DEFINE d == Got("unicast", p)
           k == exited_cache[p]
<1>1. /\ m \in Message /\ p \in Peers /\ Sends /\ call'.pc = "send" /\ Sends'
      /\ call'.todo = Tail(call.todo)
      /\ UNCHANGED <<redis, peer, delivered, inbox, arrived, onboard, sender, disconnected, expired,
                     message_cache, outstanding, created, resent, handed>>
      /\ \/ /\ onboard[p] # 0
            /\ wire' = Transmitted(p, Append(PendingFor(m), m.id))
            /\ exited_cache' = [exited_cache EXCEPT ![p] = << >>]
         \/ /\ p \in disconnected /\ wire' = wire
            /\ exited_cache' = [exited_cache EXCEPT
                 ![p] = IF EnableCache THEN _push_message_to_message_cache(@, m.id) ELSE @]
  BY <1>a, <1>b, SendIs
<1>2. /\ m.id \in Nat /\ p = m.dst /\ m = call.todo[1] /\ 1 \in 1..Len(call.todo) /\ Len(call.todo) \in Nat
      /\ Len(Tail(call.todo)) = Len(call.todo) - 1
      /\ \A i \in 1..Len(Tail(call.todo)) : i + 1 \in 1..Len(call.todo) /\ Tail(call.todo)[i] = call.todo[i + 1]
  BY <1>1, <1>a, <1>b, CallFields, FirstMessage DEF ProxyTypeOK
<1>3. "unicast" \in Channels /\ "broadcast" \in Channels /\ \A c \in Channels : c = "unicast" \/ c = "broadcast"
  BY DEF Channels
<1>4. created \in Nat /\ k \in Seq(Nat) /\ d \in Seq(Nat) /\ exited_cache \in [Peers -> Seq(Nat)]
      /\ wire \in [Channels -> [Peers -> Seq(Nat)]]
  BY <1>1, <1>3, GotType DEF ProxyTypeOK
<1>5. /\ Ordered(d, resent) /\ AtMost(d, created) /\ Rising(k) /\ AtMost(k, created) /\ AllBelow(d, k)
      /\ ~ EnableCache => k = << >>
  BY <1>1, <1>3 DEF OrderOK, WireOK, KeptOK
<1>6. /\ \A i \in 1..Len(call.todo) : call.todo[i].id <= created /\ MessageFits(call.todo[i])
      /\ \A i, j \in 1..Len(call.todo) : i # j => call.todo[i].dst # call.todo[j].dst
  BY <1>1 DEF OrderOK, TodoOK
<1>7. /\ m.id <= created
      /\ \/ m.id \in resent /\ \E j \in 1..Len(k) : k[j] = m.id
         \/ Below(d, m.id) /\ Below(k, m.id)
 <2>1. MessageFits(m) /\ m.id <= created BY <1>2, <1>6
 <2> QED BY <2>1, <1>b DEF MessageFits
<1>8. PendingFor(m) = k BY <1>5, <1>b DEF PendingFor
<1> HIDE DEF d, k
<1>9. /\ \A q \in Peers : Got("broadcast", q)' = Got("broadcast", q)
      /\ \A q \in Peers \ {p} : /\ Got("unicast", q)' = Got("unicast", q)
                                /\ exited_cache'[q] = exited_cache[q]
      /\ \/ Got("unicast", p)' = d
         \/ Got("unicast", p)' = d \o Append(k, m.id) /\ exited_cache'[p] = << >>
      /\ \/ exited_cache'[p] = << >>
         \/ exited_cache'[p] = k
         \/ EnableCache /\ exited_cache'[p] = _push_message_to_message_cache(k, m.id) /\ Got("unicast", p)' = d
 <2> DEFINE ids == Append(k, m.id)
 <2>1. CASE /\ wire' = Transmitted(p, Append(PendingFor(m), m.id))
            /\ exited_cache' = [exited_cache EXCEPT ![p] = << >>]
  <3>1. ids \in Seq(Nat) BY <1>2, <1>4
  <3>2. wire' = Transmitted(p, ids) BY <1>8, <2>1
  <3> HIDE DEF ids
  <3>3. /\ \A q \in Peers : wire'["broadcast"][q] = wire["broadcast"][q]
        /\ \A q \in Peers \ {p} : wire'["unicast"][q] = wire["unicast"][q]
        /\ \/ wire'["unicast"][p] = wire["unicast"][p]
           \/ wire'["unicast"][p] = wire["unicast"][p] \o ids
   <4>1. /\ \A q \in Peers : Transmitted(p, ids)["broadcast"][q] = wire["broadcast"][q]
         /\ \A q \in Peers \ {p} : Transmitted(p, ids)["unicast"][q] = wire["unicast"][q]
         /\ \/ Transmitted(p, ids)["unicast"][p] = wire["unicast"][p]
            \/ Transmitted(p, ids)["unicast"][p] = wire["unicast"][p] \o ids
    <5>1. wire \in [Channels -> [Peers -> Seq(Nat)]] BY <1>4
    <5>2. p \in Peers BY <1>1
    <5> QED BY ONLY <3>1, <5>1, <5>2, TransmittedType
   <4> QED BY <3>2, <4>1
  <3>4. delivered' = delivered BY <1>1
  <3>5. Got("unicast", p)' = d \/ Got("unicast", p)' = d \o ids
   <4> DEFINE u == delivered["unicast"][p]
              v == wire["unicast"][p]
   <4>1. u \in Seq(Nat) /\ v \in Seq(Nat) /\ d = u \o v BY <1>1, <1>3, GotType DEF Got, d
   <4>2. Got("unicast", p)' = u \o v \/ Got("unicast", p)' = u \o (v \o ids)
     BY <3>3, <3>4 DEF Got
   <4> HIDE DEF u, v
   <4>3. (u \o v) \o ids = u \o (v \o ids)
    <5>1. u \in Seq(Nat) BY <4>1
    <5>2. v \in Seq(Nat) BY <4>1
    <5> QED BY ONLY <3>1, <5>1, <5>2, ConcatAssociative
   <4> QED BY <4>1, <4>2, <4>3
  <3>6. exited_cache'[p] = << >> /\ \A q \in Peers \ {p} : exited_cache'[q] = exited_cache[q]
    BY <1>1, <1>4, <2>1
  <3>7. /\ \A q \in Peers : Got("broadcast", q)' = Got("broadcast", q)
        /\ \A q \in Peers \ {p} : Got("unicast", q)' = Got("unicast", q)
    BY <3>3, <3>4 DEF Got
  <3> QED BY <3>5, <3>6, <3>7 DEF ids
 <2>2. CASE /\ wire' = wire
            /\ exited_cache' = [exited_cache EXCEPT
                 ![p] = IF EnableCache THEN _push_message_to_message_cache(@, m.id) ELSE @]
  <3>1. \A c, q : Got(c, q)' = Got(c, q) BY <1>1, <2>2 DEF Got
  <3>2. /\ exited_cache'[p] = IF EnableCache THEN _push_message_to_message_cache(k, m.id) ELSE k
        /\ \A q \in Peers \ {p} : exited_cache'[q] = exited_cache[q]
    BY <1>1, <1>4, <2>2 DEF k
  <3>3. Got("unicast", p)' = d BY <1>1, <2>2 DEF Got, d
  <3> QED BY <3>1, <3>2, <3>3
 <2> QED BY <1>1, <2>1, <2>2
<1> DEFINE e == Got("unicast", p)'
           l == exited_cache'[p]
<1>10. Ordered(e, resent) /\ AtMost(e, created)
 <2>1. e = d \/ e = d \o Append(k, m.id) BY <1>9
 <2> HIDE DEF e
 <2>2. Ordered(d \o Append(k, m.id), resent) /\ AtMost(d \o Append(k, m.id), created)
   BY <1>2, <1>4, <1>5, <1>7, SentOrder
 <2> QED BY <1>5, <2>1, <2>2
<1>11. /\ Rising(l) /\ AtMost(l, created) /\ AllBelow(e, l)
       /\ ~ EnableCache => l = << >>
 <2>1. \/ l = << >>
       \/ l = k /\ e = d
       \/ EnableCache /\ l = _push_message_to_message_cache(k, m.id) /\ e = d
   BY <1>9
 <2> HIDE DEF e, l
 <2>2. CASE l = << >> BY <2>2 DEF Rising, AtMost, AllBelow
 <2>3. CASE l = k /\ e = d BY <2>3, <1>5
 <2>4. CASE EnableCache /\ l = _push_message_to_message_cache(k, m.id) /\ e = d
   BY <2>4, <1>2, <1>4, <1>5, <1>7, KeptOrder
 <2> QED BY <2>1, <2>2, <2>3, <2>4
<1>12. WireOK'
 <2> SUFFICES ASSUME NEW c \in Channels, NEW q \in Peers
              PROVE  Ordered(Got(c, q)', resent) /\ AtMost(Got(c, q)', created)
   BY <1>1 DEF WireOK
 <2>1. Ordered(Got(c, q), resent) /\ AtMost(Got(c, q), created) BY DEF OrderOK, WireOK
 <2>2. CASE c = "broadcast" BY <1>9, <2>1, <2>2
 <2>3. CASE c = "unicast" /\ q # p BY <1>9, <2>1, <2>3
 <2>4. CASE c = "unicast" /\ q = p BY <1>10, <2>4
 <2> QED BY <1>3, <2>2, <2>3, <2>4
<1>13. KeptOK'
 <2> SUFFICES ASSUME NEW q \in Peers
              PROVE  /\ Rising(exited_cache'[q]) /\ AtMost(exited_cache'[q], created)
                     /\ AllBelow(Got("unicast", q)', exited_cache'[q])
                     /\ ~ EnableCache => exited_cache'[q] = << >>
   BY <1>1 DEF KeptOK
 <2>1. CASE q = p BY <1>11, <2>1
 <2>2. CASE q # p BY <1>9, <2>2 DEF OrderOK, KeptOK
 <2> QED BY <2>1, <2>2
<1>14. TodoOK'
 <2> DEFINE t == Tail(call.todo)
 <2>1. ASSUME NEW i \in 1..Len(t), NEW o, o = t[i] PROVE o.id <= created /\ MessageFits(o)'
  <3>1. o = call.todo[i + 1] /\ i + 1 \in 1..Len(call.todo) /\ i + 1 # 1 BY <1>2, <2>1
  <3>2. o.id <= created /\ MessageFits(o) BY <3>1, <1>6
  <3>3. o.dst # p BY <3>1, <1>2, <1>6
  <3>4. o.dst \in Peers
   <4>1. call.todo \in Seq(Message) BY <1>1, CallFields DEF ProxyTypeOK
   <4>2. o \in Message BY <4>1, <3>1
   <4> QED BY <4>2 DEF Message
  <3>5. PICK q : q = o.dst OBVIOUS
  <3>6. Got("unicast", q)' = Got("unicast", q) /\ exited_cache'[q] = exited_cache[q] /\ resent' = resent
    BY <1>1, <1>9, <3>3, <3>4, <3>5
  <3> QED BY <3>2, <3>5, <3>6 DEF MessageFits
 <2>2. \A i, j \in 1..Len(t) : i # j => t[i].dst # t[j].dst
  <3> SUFFICES ASSUME NEW i \in 1..Len(t), NEW j \in 1..Len(t), i # j PROVE t[i].dst # t[j].dst
    OBVIOUS
  <3>1. i + 1 # j + 1 BY <1>2
  <3> QED BY <3>1, <1>2, <1>6
 <2>3. call'.todo = t /\ created' = created /\ call'.pc = "send" BY <1>1
 <2>4. \A i \in 1..Len(t) : t[i].id <= created /\ \A o : o = t[i] => MessageFits(o)' BY <2>1
 <2> HIDE DEF t
 <2>5. \A i \in 1..Len(call'.todo) : call'.todo[i].id <= created' /\ MessageFits(call.todo[i])'
   BY <2>3, <2>4
 <2> QED BY <2>2, <2>3, <2>5 DEF TodoOK
<1> QED BY <1>12, <1>13, <1>14 DEF OrderOK

\* The peers' steps leave the replies in order.
LEMMA PeersReplies ==
  ASSUME ProxyTypeOK, RepliesOK, NEW p \in Peers,
         _register_redis(p) \/ _signal_handler(p) \/ Killed(p) \/ \E c \in Channels : reply(p, c)
  PROVE  RepliesOK'
<1> USE DEF peerVars, viewVars, cacheVars, userVars
<1>0. UNCHANGED <<call, message_cache, handed>>
  BY DEF _register_redis, _signal_handler, Killed, reply
<1>1. CASE _register_redis(p) \/ _signal_handler(p) \/ Killed(p)
 <2>1. UNCHANGED <<inbox, arrived>> BY <1>1 DEF _register_redis, _signal_handler, Killed
 <2> QED BY <1>0, <2>1 DEF RepliesOK, Received
<1>2. ASSUME NEW c \in Channels, reply(p, c)
      PROVE  RepliesOK'
 <2> DEFINE s == Head(wire[c][p])
            answer(stage, n) ==
              [session |-> s, from |-> p, stage |-> stage, address |-> peer[p].address, at |-> arrived + n]
            x == answer("COMPLETE", 1)
            y == answer("RECEIVE", 1)
            z == answer("COMPLETE", 2)
            b == inbox
            r == Received
            one == Append(b, x)
            two == Append(Append(b, y), z)
 <2>1. /\ handed \in Seq(Reply) /\ r \in Seq(Reply) /\ message_cache \in Seq(Reply) /\ b \in Seq(Reply)
       /\ arrived \in Nat /\ peer[p].address \in Nat
  <3>1. << >> \in Seq(Reply) OBVIOUS
  <3> QED BY <3>1, CallFields DEF ProxyTypeOK, Received
 <2>2. s \in Nat
  <3> DEFINE u == wire[c][p]
  <3>1. u \in Seq(Nat) BY DEF ProxyTypeOK
  <3>2. u # << >> BY <1>2 DEF reply
  <3> HIDE DEF u
  <3>3. Head(u) \in Nat BY <3>1, <3>2, HeadTailProperties
  <3> QED BY <3>3 DEF u
 <2>3. /\ x \in Reply /\ y \in Reply /\ z \in Reply
       /\ x.at = arrived + 1 /\ y.at = arrived + 1 /\ z.at = (arrived + 1) + 1
  <3> HIDE DEF s
  <3> QED BY <2>1, <2>2 DEF Reply
 <2>4. \/ inbox' = inbox \o <<y, z>> /\ arrived' = arrived + Len(<<y, z>>)
       \/ inbox' = inbox \o <<x>> /\ arrived' = arrived + Len(<<x>>)
   BY <1>2, Zenon DEF reply
 <2> HIDE DEF x, y, z
 <2>5. \/ inbox' = two /\ arrived' = (arrived + 1) + 1
       \/ inbox' = one /\ arrived' = arrived + 1
  <3>1. Append(b, x) = b \o <<x>> BY <2>1, <2>3
  <3>2. Append(Append(b, y), z) = b \o <<y, z>>
   <4>1. y \in Reply /\ z \in Reply /\ b \in Seq(Reply) BY <2>1, <2>3
   <4>2. <<y, z>> \in Seq(Reply) /\ <<y, z>> # << >> /\ Head(<<y, z>>) = y /\ Tail(<<y, z>>) = <<z>>
     BY ONLY <4>1
   <4>3. Append(b, y) \o <<z>> = b \o <<y, z>>
    <5>1. Append(b, Head(<<y, z>>)) \o Tail(<<y, z>>) = b \o <<y, z>>
      BY ONLY <4>1, <4>2, TakenOver
    <5> QED BY ONLY <4>2, <5>1
   <4>4. Append(b, y) \in Seq(Reply) BY ONLY <4>1
   <4>5. Append(Append(b, y), z) = Append(b, y) \o <<z>> BY ONLY <4>1, <4>4, AppendIsConcat
   <4> QED BY <4>3, <4>5
  <3>3. Len(<<x>>) = 1 /\ Len(<<y, z>>) = 2 OBVIOUS
  <3>4. (arrived + 1) + 1 = arrived + 2 BY <2>1
  <3> QED BY <2>4, <3>1, <3>2, <3>3, <3>4
 <2>6. Complete(Replies(handed, r, message_cache, b), arrived) BY DEF RepliesOK
 <2>7. Complete(Replies(handed, r, message_cache, one), arrived + 1)
   BY <2>1, <2>3, <2>6, ReplyArrived
 <2>8. Complete(Replies(handed, r, message_cache, Append(b, y)), arrived + 1)
   BY <2>1, <2>3, <2>6, ReplyArrived
 <2>9. Complete(Replies(handed, r, message_cache, two), (arrived + 1) + 1)
  <3>1. Append(b, y) \in Seq(Reply) /\ arrived + 1 \in Nat BY <2>1, <2>3
  <3> QED BY <2>1, <2>3, <2>8, <3>1, ReplyArrived
 <2>10. Received' = r BY <1>0 DEF Received
 <2> HIDE DEF one, two, r
 <2>11. Complete(Replies(handed, r, message_cache, inbox'), arrived') BY <2>5, <2>7, <2>9
 <2>12. Complete(Replies(handed, Received, message_cache, inbox), arrived)'
   BY <1>0, <2>10, <2>11
 <2> QED BY <1>0, <2>12 DEF RepliesOK
<1> QED BY <1>1, <1>2

\* The steps of joining leave the replies and the order of the messages.
LEMMA JoiningKeeps ==
  ASSUME OrderOK, RepliesOK, _get_peers_list \/ _get_peers_listFails \/ _build_connection
  PROVE  OrderOK' /\ RepliesOK'
<1> USE DEF peerVars, viewVars, cacheVars, userVars
<1>1. /\ UNCHANGED <<wire, delivered, inbox, arrived, exited_cache, message_cache, created, resent, handed>>
      /\ call.pc \in {"joining", "connecting"}
 <2>1. CASE _get_peers_list \/ _get_peers_listFails
   BY <2>1 DEF _get_peers_list, _get_peers_listFails
 <2>2. CASE _build_connection BY <2>2 DEF _build_connection
 <2> QED BY <2>1, <2>2
<1>2. call'.pc \in {"connecting", "exited", "idle"}
 <2>1. CASE _get_peers_list BY <2>1 DEF _get_peers_list
 <2>2. CASE _get_peers_listFails BY <2>2 DEF _get_peers_listFails
 <2>3. CASE _build_connection
  <3>1. call' = [pc |-> "exited"] \/ call' = [pc |-> "idle"] BY <2>3 DEF _build_connection
  <3> QED BY <3>1
 <2> QED BY <2>1, <2>2, <2>3
<1>3. ~ Sends' BY <1>2 DEF Sends
<1>4. OrderOK' BY <1>1, <1>3, SameOrder
<1>5. RepliesOK' BY <1>1, <1>2, SameReplies
<1> QED BY <1>4, <1>5

\* The steps of rejoining and sending leave the replies.
LEMMA SendingKeepsReplies ==
  ASSUME ProxyAssumption, ProxyTypeOK, ViewOK, RepliesOK,
         \/ Expire \/ _wait_for_minimal_peer_number \/ _send_rejoin \/ broadcast
         \/ scatter \/ send_again \/ _broadcast
         \/ call.todo # << >> /\ _send
  PROVE  RepliesOK'
<1> USE DEF peerVars, viewVars, cacheVars, userVars
<1>1. CASE Expire BY <1>1 DEF Expire, RepliesOK, Received
<1>2. CASE _wait_for_minimal_peer_number
 <2>1. call.pc = "waiting" /\ UNCHANGED <<inbox, arrived, message_cache, handed>>
   BY <1>2 DEF _wait_for_minimal_peer_number
 <2>2. call = [pc |-> "waiting", block |-> call.block, targets |-> call.targets, todo |-> call.todo,
               type |-> call.type]
   BY <2>1, CallFields DEF ProxyTypeOK
 <2>3. call' = call \/ call' = [call EXCEPT !.pc = "ready"] \/ call' = [pc |-> "exited"]
   BY <1>2 DEF _wait_for_minimal_peer_number
 <2>4. call'.pc # "receive"
  <3>1. CASE call' = call BY <2>1, <3>1
  <3>2. CASE call' = [call EXCEPT !.pc = "ready"]
   <4> DEFINE u == call.block
              v == call.targets
              w == call.todo
              t == call.type
   <4>1. call = [pc |-> "waiting", block |-> u, targets |-> v, todo |-> w, type |-> t]
     BY <2>2
   <4> HIDE DEF u, v, w, t
   <4> QED BY <3>2, <4>1
  <3>3. CASE call' = [pc |-> "exited"] BY <3>3
  <3> QED BY <2>3, <3>1, <3>2, <3>3
 <2> QED BY <2>1, <2>4, SameReplies
<1>3. CASE _send_rejoin
 <2>1. /\ call.pc = "send" /\ call.todo # << >> /\ UNCHANGED <<inbox, arrived, message_cache, handed>>
       /\ _rejoin(TypeOf[Head(call.todo).dst],
            [pc |-> "ready", block |-> call.block, targets |-> call.targets,
             todo |-> call.todo, type |-> TypeOf[Head(call.todo).dst]])
   BY <1>3 DEF _send_rejoin
 <2>2. PICK s \in {"ready", "waiting"} :
         call' = [pc |-> s, block |-> call.block, targets |-> call.targets, todo |-> call.todo,
                  type |-> TypeOf[Head(call.todo).dst]]
   BY <2>1, RejoinKeeps
 <2>3. call'.pc # "receive" BY <2>2
 <2> QED BY <2>1, <2>3, SameReplies
<1>4. CASE broadcast
 <2>1. PICK t \in Types, block \in BOOLEAN :
         _rejoin(t, [pc |-> "ready", block |-> block, targets |-> << >>, todo |-> << >>, type |-> t])
   BY <1>4 DEF broadcast
 <2>2. PICK s \in {"ready", "waiting"} :
         call' = [pc |-> s, block |-> block, targets |-> << >>, todo |-> << >>, type |-> t]
   BY <2>1, RejoinKeeps
 <2>3. call'.pc # "receive" /\ call.pc = "idle" /\ UNCHANGED <<inbox, arrived, message_cache, handed>>
   BY <1>4, <2>2 DEF broadcast, Idle
 <2> QED BY <2>3, SameReplies
<1>5. CASE scatter \/ send_again
 <2>1. call.pc = "idle" /\ call'.pc = "send" /\ UNCHANGED <<inbox, arrived, message_cache, handed>>
   BY <1>5, ScatterType
 <2> QED BY <2>1, SameReplies
<1>6. CASE _broadcast
 <2>1. call.pc = "ready" /\ call'.pc = "send" /\ UNCHANGED <<inbox, arrived, message_cache, handed>>
   BY <1>6, BroadcastType
 <2> QED BY <2>1, SameReplies
<1>7. CASE call.todo # << >> /\ _send
 <2>1. call.pc = "ready" /\ call'.pc = "send" /\ UNCHANGED <<inbox, arrived, message_cache, handed>>
   BY <1>7, SendIs
 <2> QED BY <2>1, SameReplies
<1> QED BY <1>1, <1>2, <1>3, <1>4, <1>5, <1>6, <1>7

\* The invariant holds when the component is created.
LEMMA ProxyStarts ==
  ASSUME ProxyInit
  PROVE  ProxyInv
<1> DEFINE none == << >>
<1>1. none \in Seq(Nat) /\ none \in Seq(Reply) /\ Len(none) = 0 OBVIOUS
<1>2. call.pc = "joining" /\ ~ Sends /\ CallOK BY DEF ProxyInit, Sends, CallOK
<1>3. ProxyTypeOK BY <1>1, <1>2 DEF ProxyInit, ProxyTypeOK
<1>4. ViewOK BY <1>2 DEF ProxyInit, ViewOK
<1>5. none \o none = none BY <1>1, ConcatEmptySeq
<1>6. OrderOK
 <2>1. /\ \A c \in Channels, p \in Peers : delivered[c][p] = none /\ wire[c][p] = none
       /\ \A p \in Peers : exited_cache[p] = none
       /\ "unicast" \in Channels
   BY DEF ProxyInit, Channels
 <2>2. \A c \in Channels, p \in Peers : Got(c, p) = none BY <1>5, <2>1 DEF Got
 <2>3. Ordered(none, resent) /\ AtMost(none, created) /\ Rising(none) /\ AllBelow(none, none)
   BY <1>1 DEF Ordered, AtMost, Rising, AllBelow
 <2> HIDE DEF none
 <2>4. WireOK BY <2>2, <2>3 DEF WireOK
 <2>5. KeptOK BY <2>1, <2>2, <2>3 DEF KeptOK, none
 <2> QED BY <1>2, <2>4, <2>5 DEF OrderOK, TodoOK
<1>7. RepliesOK
 <2>1. Replies(none, none, none, none) = none BY <1>5 DEF Replies
 <2>2. handed = none /\ message_cache = none /\ inbox = none /\ arrived = 0 /\ Received = none
   BY <1>2 DEF ProxyInit, Received
 <2>3. Complete(none, 0) BY <1>1 DEF Complete
 <2> QED BY <1>2, <2>1, <2>2, <2>3 DEF RepliesOK
<1> QED BY <1>3, <1>4, <1>6, <1>7 DEF ProxyInv

\* Every step keeps it.
LEMMA ProxySteps ==
  ASSUME ProxyAssumption, ProxyInv, [ProxyNext]_commVars
  PROVE  ProxyInv'
<1> USE DEF peerVars, viewVars, cacheVars, userVars
<1>0. ProxyTypeOK /\ ViewOK /\ OrderOK /\ RepliesOK BY DEF ProxyInv
<1>1. ASSUME NEW p \in Peers,
             _register_redis(p) \/ _signal_handler(p) \/ Killed(p) \/ \E c \in Channels : reply(p, c)
      PROVE  ProxyInv'
 <2>1. ProxyTypeOK' /\ ViewOK' BY <1>0, <1>1, PeersType
 <2>2. OrderOK' BY <1>0, <1>1, <2>1, PeersOrder
 <2>3. RepliesOK' BY <1>0, <1>1, PeersReplies
 <2> QED BY <2>1, <2>2, <2>3 DEF ProxyInv
<1>2. CASE _get_peers_list \/ _get_peers_listFails \/ _build_connection
  BY <1>0, <1>2, JoiningType, JoiningKeeps DEF ProxyInv
<1>3. CASE Expire \/ _wait_for_minimal_peer_number \/ _send_rejoin \/ broadcast
  BY <1>0, <1>3, RejoiningType, RejoinOrder, SendingKeepsReplies DEF ProxyInv
<1>4. CASE scatter \/ send_again
  BY <1>0, <1>4, ScatterType, ScatterOrder, SendingKeepsReplies DEF ProxyInv
<1>5. CASE call.todo # << >> /\ _send
  BY <1>0, <1>5, SendType, SendOrder, SendingKeepsReplies DEF ProxyInv
<1>6. CASE _broadcast
  BY <1>0, <1>6, BroadcastType, BroadcastOrder, SendingKeepsReplies DEF ProxyInv
<1>7. CASE Sent \/ Await \/ _sendFails BY <1>0, <1>7, SendEnds, SameOrder DEF ProxyInv
<1>8. CASE receive \/ receive_timeout BY <1>0, <1>8, ReceiveKeeps, SameOrder DEF ProxyInv
<1>9. CASE UNCHANGED commVars
 <2>1. UNCHANGED <<redis, peer, wire, delivered, inbox, arrived, onboard, sender, disconnected, expired,
                   exited_cache, message_cache, call, outstanding, created, resent, handed>>
   BY <1>9 DEF commVars
 <2>2. ProxyTypeOK' BY <1>0, <2>1 DEF ProxyTypeOK, CallOK
 <2>3. ViewOK' BY <1>0, <2>1 DEF ViewOK, Known, Sends
 <2>4. Sends' = Sends /\ OrderOK'
   BY <1>0, <2>1 DEF OrderOK, WireOK, KeptOK, TodoOK, Got, Sends, MessageFits
 <2>5. RepliesOK' BY <1>0, <2>1 DEF RepliesOK, Received
 <2> QED BY <2>2, <2>3, <2>4, <2>5 DEF ProxyInv
<1> QED BY <1>1, <1>2, <1>3, <1>4, <1>5, <1>6, <1>7, <1>8, <1>9 DEF ProxyNext

\* It says that messages and replies go their way once and in order.
LEMMA ProxyInvariant ==
  ASSUME ProxyInv
  PROVE  MessagesOnceInOrder
<1>0. ProxyTypeOK /\ ViewOK /\ OrderOK /\ RepliesOK BY DEF ProxyInv
<1>1. PendingInOrder
 <2>1. ASSUME NEW c \in Channels, NEW p \in Peers
       PROVE  LET all == delivered[c][p] \o wire[c][p]
              IN  /\ \A i, j \in DOMAIN all : i < j => all[i] < all[j] \/ all[j] \in resent
                  /\ \A i, j, k \in DOMAIN all : i < j /\ j < k => ~ (all[i] = all[j] /\ all[j] = all[k])
  <3> DEFINE all == delivered[c][p] \o wire[c][p]
  <3>1. all \in Seq(Nat) /\ Ordered(all, resent) BY <1>0, GotType DEF Got, OrderOK, WireOK
  <3> HIDE DEF all
  <3>2. DOMAIN all = 1..Len(all) BY <3>1, LenProperties
  <3>3. /\ \A i, j \in DOMAIN all : i < j => all[i] < all[j] \/ all[j] \in resent
        /\ \A i, j, k \in DOMAIN all : i < j /\ j < k => ~ (all[i] = all[j] /\ all[j] = all[k])
    BY <3>1, <3>2 DEF Ordered
  <3> QED BY <3>3 DEF all
 <2> QED BY <2>1 DEF PendingInOrder
<1>2. RepliesOnceInOrder
 <2> DEFINE received == IF call.pc = "receive" THEN call.received ELSE << >>
            all == handed \o received \o message_cache \o inbox
 <2>1. all = Replies(handed, Received, message_cache, inbox) BY DEF Replies, Received
 <2>2. /\ handed \in Seq(Reply) /\ Received \in Seq(Reply) /\ message_cache \in Seq(Reply) /\ inbox \in Seq(Reply)
  <3>1. << >> \in Seq(Reply) OBVIOUS
  <3> QED BY <1>0, <3>1, CallFields DEF ProxyTypeOK, Received
 <2>3. all \in Seq(Reply) /\ Complete(all, arrived)
  <3>1. Replies(handed, Received, message_cache, inbox) \in Seq(Reply)
    BY ONLY <2>2, RepliesAreReplies
  <3>2. Complete(Replies(handed, Received, message_cache, inbox), arrived)
    BY <1>0 DEF RepliesOK
  <3> QED BY <2>1, <3>1, <3>2
 <2> HIDE DEF all
 <2>4. DOMAIN all = 1..Len(all) BY <2>3, LenProperties
 <2>5. /\ Len(all) = arrived
       /\ \A n \in 1..arrived : \E i \in DOMAIN all : all[i].at = n
       /\ \A i, j \in DOMAIN all : i < j /\ all[i].session = all[j].session => all[i].at < all[j].at
   BY <2>3, <2>4 DEF Complete
 <2> QED BY <2>5 DEF RepliesOnceInOrder, all
<1>3. DriverFollowsPeers
 <2>1. call.pc = "ready" /\ call.todo # << >> => Head(call.todo).dst \in Known
  <3> SUFFICES ASSUME call.pc = "ready", call.todo # << >> PROVE Head(call.todo).dst \in Known
    OBVIOUS
  <3>1. Sends /\ CallOK BY <1>0 DEF Sends, ProxyTypeOK
  <3>2. Head(call.todo) = call.todo[1] /\ 1 \in 1..Len(call.todo) BY <3>1, FirstMessage
  <3> QED BY <1>0, <3>1, <3>2 DEF ViewOK
 <2>2. disconnected \cap {p \in Peers : onboard[p] # 0} = {} BY <1>0 DEF ViewOK
 <2> QED BY <1>0, <2>1, <2>2 DEF ViewOK, DriverFollowsPeers
<1> QED BY <1>1, <1>2, <1>3 DEF MessagesOnceInOrder

-----------------------------------------------------------------------------
\* Through every exit, kill and rejoin of the peers, a peer name receives what
\* is sent to it once and in the order it was created, what was kept for it
\* first; every reply is handed out once and in order; and the driver's sockets
\* are those of the peers on board, so that a send never ends the component
\* (Proxy._send, _rejoin, _check_peers_update, receive_by_id; ZmqDriver).
THEOREM ProxyMessages == ProxySpec => []MessagesOnceInOrder
<1>1. ProxyInit => ProxyInv BY ProxyStarts
<1>2. ProxyInv /\ [ProxyNext]_commVars => ProxyInv' BY ProxySteps, ProxyAssumption
<1>3. ProxyInv => MessagesOnceInOrder BY ProxyInvariant
<1> QED BY <1>1, <1>2, <1>3, PTL DEF ProxySpec
=============================================================================
