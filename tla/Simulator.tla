----------------------------- MODULE Simulator -----------------------------
(***************************************************************************)
(* Env._simulate (simulator/core.py) around a business engine: the loop over *)
(* ticks, the pauses for decisions, and the snapshots taken on the way.      *)
(*                                                                           *)
(* The composition of the event buffer, through what it promises             *)
(* (EventAgenda), and of the snapshot list of the dynamic backend            *)
(* (RawSnapshotList), whose keys are frame indices here.  Ticks are counted  *)
(* from the start tick: tick is StartTick + now.  The frame is reduced to    *)
(* two numbers: how many events have changed it in this episode, and how     *)
(* many since the statistics by frame (shortage, booking, trip_requirement,  *)
(* ...) were last set back to 0.                                             *)
(***************************************************************************)
EXTENDS EventAgenda, RawSnapshotList, FiniteSetsExt, Functions

CONSTANTS StartTick,     \* start_tick
          Resolution,    \* snapshot_resolution
          MaxSnapshots,  \* max_snapshots, or 0 for None
          Modes          \* the decision modes an Env may be created with

ASSUME SimulatorAssumption ==
  /\ MaxTick \in Nat /\ StartTick \in Nat
  /\ Resolution \in Nat \ {0}
  /\ MaxSnapshots \in Nat
  /\ Modes \subseteq {"Sequential", "Joint", "JointWithSequentialAction"}

VARIABLES mode,       \* decision_mode
          pc,         \* where the generator _simulate stands
          atEnd       \* history: tick -> the frame when the tick was over

simVars == <<agendaVars, rawVars, mode, pc, atEnd>>

NewFrame == [events |-> 0, recent |-> 0]

tick == StartTick + now
max_tick == StartTick + MaxTick + 1

\* utils/common.py: floor and ceil of the quotient.
tick_to_frame_index(t) == (t - StartTick) \div Resolution
total_frames == (max_tick - StartTick + Resolution - 1) \div Resolution

\* The ticks of a frame index, as in frame_index_to_ticks.
TicksOfFrame(k) ==
  {t \in StartTick .. max_tick - 1 :
     /\ t >= StartTick + k * Resolution
     /\ t < StartTick + k * Resolution + Resolution}

calc_max_snapshots == IF MaxSnapshots = 0 THEN total_frames ELSE MaxSnapshots

\* What the engine gives to its frame when it builds it.
ASSUME FrameAssumption ==
  /\ MaxSize = calc_max_snapshots
  /\ Ticks = 0 .. total_frames - 1
  /\ Zero = NewFrame

frame_index == tick_to_frame_index(tick)

SimInit ==
  /\ AInit
  /\ pc = "step"
  /\ RawInit
  /\ mode \in Modes
  /\ atEnd = [t \in {} |-> NewFrame]

----------------------------------------------------------------------------
\* business_engine.step inserts events for this or a later tick ...
EngineInserts(t, k) ==
  /\ pc = "step"
  /\ nextId <= MaxEvents
  /\ AInsert(t, k)
  /\ UNCHANGED <<rawVars, mode, pc, atEnd>>

\* ... and the loop goes on to execute them.
EngineStepped ==
  /\ pc = "step"
  /\ pc' = "execute"
  /\ UNCHANGED <<agendaVars, rawVars, mode, atEnd>>

\* execute runs an event whose handler changes the frame.  A decision that
\* was answered runs too, but it has no handler.
RunEvent ==
  /\ pc = "execute"
  /\ AStart
  /\ IF Head(agenda[now]).kind = "decision" THEN UNCHANGED rawVars
     ELSE SetAttr([events |-> frame.events + 1, recent |-> frame.recent + 1])
  /\ UNCHANGED <<mode, pc, atEnd>>

EventDone ==
  /\ pc = "execute"
  /\ AFinish
  /\ UNCHANGED <<rawVars, mode, pc, atEnd>>

\* execute returned decisions: a snapshot is taken before the agent is asked.
AskAgent ==
  /\ pc = "execute"
  /\ ~running
  /\ agenda[now] # <<>> /\ ~Head(agenda[now]).go
  /\ TakeSnapshot(frame_index)
  /\ pc' = "yield"
  /\ UNCHANGED <<agendaVars, mode, atEnd>>

\* Env.step(action): the generator goes on with the answer.
StepWithAction(g) ==
  /\ pc = "yield"
  /\ mode = "Sequential" => g = 1
  /\ AAnswer(g, mode = "Joint")
  /\ pc' = "execute"
  /\ UNCHANGED <<rawVars, mode, atEnd>>

\* post_step of a tick that ends on a multiple of the resolution takes the
\* snapshot and sets the statistics of the frame back.
EndsFrame(t) == (t + 1) % Resolution = 0

\* Mutant: statistics are set back after every tick.
AfterPostStepAlways == [frame EXCEPT !.recent = 0]
AfterPostStep == IF EndsFrame(tick) THEN [frame EXCEPT !.recent = 0] ELSE frame

\* Mutant: no last snapshot for a frame that is cut off by the end.
SnapshotDueNotLast == EndsFrame(tick)

\* The last tick always leaves a snapshot: post_step took it, or _simulate
\* does ("Make sure we have no missing data").
SnapshotDue == EndsFrame(tick) \/ now = MaxTick

\* The snapshot, then the statistics, then the next tick.
PostStep ==
  /\ pc = "execute"
  /\ ~running
  /\ agenda[now] = <<>>
  /\ IF SnapshotDue THEN StoreCopy(frame_index) ELSE UNCHANGED <<snapshots, taken>>
  /\ frame' = AfterPostStep
  /\ atEnd' = [t \in DOMAIN atEnd \cup {tick} |-> IF t = tick THEN frame ELSE atEnd[t]]
  /\ IF now = MaxTick
     THEN /\ pc' = "end"
          /\ UNCHANGED now
     ELSE /\ pc' = "step"
          /\ now' = now + 1
  /\ UNCHANGED <<agenda, running, log, nextId, resets, mode>>

\* Env.reset between two calls of step: a new generator, an empty event
\* buffer, and a business engine with a new frame and no snapshots.
EnvReset ==
  /\ pc \in {"yield", "end"}
  /\ resets < MaxResets
  /\ AReset
  /\ pc' = "step"
  /\ frame' = NewFrame
  /\ snapshots' = [k \in {} |-> NewFrame]
  /\ taken' = [k \in {} |-> NewFrame]
  /\ UNCHANGED mode
  /\ atEnd' = [t \in {} |-> NewFrame]

SimNext ==
  \/ \E t \in AgendaTicks, k \in {"atom", "decision"} : EngineInserts(t, k)
  \/ EngineStepped
  \/ RunEvent
  \/ EventDone
  \/ AskAgent
  \/ \E g \in 0 .. MaxEvents : StepWithAction(g)
  \/ PostStep
  \/ EnvReset

SimSpec == SimInit /\ [][SimNext]_simVars

----------------------------------------------------------------------------
(***************************************************************************)
(* The snapshot of a frame whose ticks are all over shows the state at the   *)
(* end of the last of them, however many decisions were taken on the way.    *)
(***************************************************************************)
SnapshotIsEndOfFrame ==
  \A k \in DOMAIN snapshots :
    LET ts == TicksOfFrame(k) IN
    (ts # {} /\ ts \subseteq DOMAIN atEnd) => snapshots[k] = atEnd[Max(ts)]

(***************************************************************************)
(* At the end of an episode the snapshot list holds the newest               *)
(* calc_max_snapshots of the total_frames frames, with no gap: the size that *)
(* total_frames computes is exactly what the loop fills.                     *)
(***************************************************************************)
EpisodeIsCovered ==
  pc = "end" =>
    DOMAIN snapshots = {k \in 0 .. total_frames - 1 :
                          k >= total_frames - calc_max_snapshots}

(***************************************************************************)
(* The statistics by frame add up: what the snapshots of a whole episode     *)
(* show, the ones given up included, is every event counted once, although   *)
(* a frame's snapshot may have been taken several times.                     *)
(***************************************************************************)
StatisticsAddUp ==
  pc = "end" =>
    SumFunctionOnSet([k \in DOMAIN taken |-> taken[k].recent], DOMAIN taken) = frame.events

(***************************************************************************)
(* At any time the list shows the ends of the frames it keeps, and at the  *)
(* end of an episode it has every frame it has room for: floor, ceil and   *)
(* modulo of ticks, computed in three places, agree, also for a last frame *)
(* that is cut off.                                                        *)
(***************************************************************************)
EpisodeIsShown == SnapshotIsEndOfFrame /\ EpisodeIsCovered

-----------------------------------------------------------------------------
(* An instance for TLC. An episode of five ticks in frames of two: the last frame is cut off, and
   only two of the three snapshots are kept. *)
ThreeFrames == {0, 1, 2}
FrameValues == [events : 0 .. MaxEvents, recent : 0 .. MaxEvents]
ZeroFrame == [events |-> 0, recent |-> 0]
=============================================================================
