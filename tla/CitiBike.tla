------------------------------ MODULE CitiBike ------------------------------
(***************************************************************************)
(* The business engine of the citi bike scenario                             *)
(* (simulator/scenarios/citi_bike/business_engine.py) with its decision      *)
(* strategy (decision_strategy.py): trips take bikes from stations and bring *)
(* them back, stations that are too full or too empty ask an agent, and the  *)
(* agent's transfers arrive after a random time.                             *)
(*                                                                           *)
(* The events of a tick run in FIFO order (see EventAgenda), with the one    *)
(* exception noted at TransferPlanned.  Decisions are answered one by one    *)
(* (Sequential mode); ticks begin at 0.  Left out: weather and holidays, the *)
(* costs and statistics that no handler reads, other than trip_requirement.  *)
(***************************************************************************)
EXTENDS Integers, Sequences, FiniteSets, SequencesExt, FiniteSetsExt, Functions

CONSTANTS Stations,            \* station indices
          Near,                \* station -> the others, nearest first
          Capacity, InitBikes,
          Durations,           \* how long a trip may take
          TransferTimes,       \* what rounding the normal distribution may give
          DecisionResolution,  \* resolution of the decision options
          SnapshotResolution,  \* snapshot_resolution of the Env
          SupplyMark, DemandMark,  \* water mark ratios, in percent
          ScopeLow, ScopeHigh,     \* action scope ratios, in percent
          DistanceNum, RequirementsNum, TripsNum,  \* sizes of the filters
          Windows,             \* windows of the trip filter
          MaxTick,             \* the last tick of an episode
          MaxTrips,            \* bound: trips of an episode
          MaxResets            \* bound: episodes after the first

ASSUME CitiBikeAssumption ==
  /\ Stations \subseteq Nat /\ IsFiniteSet(Stations)
  /\ \A s \in Stations : /\ Near[s] \in Seq(Stations) /\ IsInjective(Near[s])
                         /\ ToSet(Near[s]) = Stations \ {s}
  /\ Capacity \in [Stations -> Nat \ {0}]
  /\ InitBikes \in [Stations -> Nat] /\ \A s \in Stations : InitBikes[s] <= Capacity[s]
  /\ Durations \subseteq Nat /\ TransferTimes \subseteq Int
  /\ IsFiniteSet(Durations \cup TransferTimes) /\ Durations # {}
  /\ DecisionResolution \in Nat \ {0} /\ SnapshotResolution \in Nat \ {0}
  /\ {SupplyMark, DemandMark, ScopeLow, ScopeHigh} \subseteq Int
  /\ Windows \in Nat \ {0}
  /\ MaxTick \in Nat /\ MaxTrips \in Nat /\ MaxResets \in Nat

VARIABLES now, pc,
          agenda,     \* tick -> events waiting for it
          unlinked,   \* events that no list leads to any more
          bikes,      \* station -> bikes
          trips,      \* station -> trip_requirement of the current frame
          snapshots,  \* frame index -> trips, what the snapshot list shows
          cache,      \* _window_states_cache of the trip filter
          requested,  \* trips so far
          resets

vars == <<now, pc, agenda, unlinked, bikes, trips, snapshots, cache, requested, resets>>

LastPlanned == MaxTick + Max(Durations \cup TransferTimes)
AgendaTicks == Min({0} \cup TransferTimes) .. LastPlanned

NoTrips == [s \in Stations |-> 0]
Empty == [k \in {} |-> NoTrips]

Init ==
  /\ now = 0 /\ pc = "step" /\ requested = 0 /\ resets = 0
  /\ agenda = [t \in AgendaTicks |-> <<>>] /\ unlinked = <<>>
  /\ bikes = InitBikes
  /\ trips = NoTrips
  /\ snapshots = Empty
  /\ cache = Empty

----------------------------------------------------------------------------
\* step: the trips of this tick, and a check of the stations after them.
IsDecisionTick == (now + 1) % DecisionResolution = 0

Step(ts) ==
  /\ pc = "step"
  /\ requested + Len(ts) <= MaxTrips
  /\ requested' = requested + Len(ts)
  /\ agenda' = [agenda EXCEPT ![now] =
       @ \o ts \o (IF IsDecisionTick THEN <<[type |-> "RebalanceBike"]>> ELSE <<>>)]
  /\ pc' = "execute"
  /\ UNCHANGED <<now, unlinked, bikes, trips, snapshots, cache, resets>>

NextIs(type) ==
  /\ pc = "execute"
  /\ agenda[now] # <<>>
  /\ Head(agenda[now]).type = type

Handled == [agenda EXCEPT ![now] = Tail(@)]
Plan(t, e) == [Handled EXCEPT ![t] = Append(@, e)]

Taken(s) == [bikes EXCEPT ![s] = @ - 1]

\* A trip begins, or is counted as a shortage.
OnRequiredBike(duration) ==
  LET e == Head(agenda[now]) IN
  /\ NextIs("RequireBike")
  /\ trips' = [trips EXCEPT ![e.src] = @ + 1]
  /\ IF bikes[e.src] < 1
     THEN /\ agenda' = Handled
          /\ UNCHANGED bikes
     ELSE /\ bikes' = Taken(e.src)
          /\ agenda' = Plan(now + duration, [type |-> "ReturnBike", from |-> e.src,
                                             to |-> e.dest, n |-> 1])
  /\ UNCHANGED <<now, pc, unlinked, snapshots, cache, requested, resets>>

\* move_to_neighbor: n bikes go to the nearest stations with free docks, to
\* each what those before it have left.
MoveToNeighbor(b, s, n) ==
  LET free == [i \in DOMAIN Near[s] |-> Capacity[Near[s][i]] - b[Near[s][i]]]
      Left(i) == Max({n - SumFunctionOnSet(free, 1 .. i - 1), 0})
  IN [x \in Stations |->
        IF x = s THEN b[s]
        ELSE LET i == CHOOSE j \in DOMAIN Near[s] : Near[s][j] = x
             IN  b[x] + Min({free[i], Left(i)})]

\* Mutant: the station takes all of them.
AcceptedAll(s, n) == n
Accepted(s, n) == Min({Capacity[s] - bikes[s], n})

\* The bikes after n of them arrived at s: those that find no dock move on.
Arrived(s, n) ==
  LET k == Accepted(s, n)
      b == IF k < n THEN MoveToNeighbor(bikes, s, n - k) ELSE bikes
  IN [b EXCEPT ![s] = bikes[s] + k]

\* _on_bike_returned, _on_bike_deliver
OnArrival ==
  LET e == Head(agenda[now]) IN
  /\ NextIs("ReturnBike") \/ NextIs("DeliverBike")
  /\ bikes' = Arrived(e.to, e.n)
  /\ agenda' = Handled
  /\ UNCHANGED <<now, pc, unlinked, trips, snapshots, cache, requested, resets>>

\* get_stations_need_decision, in the order of the stations.
DecisionType(s) ==
  IF bikes[s] * 100 >= SupplyMark * Capacity[s] THEN "Supply"
  ELSE IF bikes[s] * 100 <= DemandMark * Capacity[s] THEN "Demand" ELSE "None"

OnRebalance ==
  LET asking == {s \in Stations : DecisionType(s) # "None"} IN
  /\ NextIs("RebalanceBike")
  /\ \E ss \in [1 .. Cardinality(asking) -> asking] :
       /\ \A i, j \in DOMAIN ss : i < j => ss[i] < ss[j]
       /\ agenda' = [agenda EXCEPT ![now] = Tail(@) \o
            [i \in DOMAIN ss |-> [type |-> "DECISION", s |-> ss[i], kind |-> DecisionType(ss[i])]]]
  /\ UNCHANGED <<now, pc, unlinked, bikes, trips, snapshots, cache, requested, resets>>

----------------------------------------------------------------------------
(* The action scope: candidates, and how many bikes each can take or give.   *)

FrameIndex == now \div SnapshotResolution
WithSnapshot ==
  [k \in DOMAIN snapshots \cup {FrameIndex} |-> IF k = FrameIndex THEN trips ELSE snapshots[k]]

NeighborScope(kind) ==
  [x \in Stations |-> IF kind = "Supply" THEN Capacity[x] - bikes[x]
                      ELSE (bikes[x] * ScopeHigh) \div 100]

\* The first n of a set in an order.
Best(set, n, Before(_, _)) == {x \in set : Cardinality({y \in set : Before(y, x)}) < n}

\* DistanceFilter: the nearest; RequirementsFilter: those with the most docks
\* or bikes, the higher index first among equals.
DistanceFilter(s) == {Near[s][i] : i \in {j \in DOMAIN Near[s] : j <= DistanceNum}}
RequirementsFilter(kind, cands) ==
  LET v == NeighborScope(kind)
  IN Best(cands, RequirementsNum, LAMBDA x, y : v[x] > v[y] \/ (v[x] = v[y] /\ x > y))

\* The frames of the latest windows, and the cache after a look at them: only
\* the latest frame is read again, the others as they were first read.
WindowFrames(snaps) ==
  {k \in DOMAIN snaps : Cardinality({j \in DOMAIN snaps : j > k}) < Windows}

LookedUp(snaps) ==
  [k \in DOMAIN cache \cup WindowFrames(snaps) |->
     IF k \in DOMAIN cache /\ k # Max(WindowFrames(snaps)) THEN cache[k] ELSE snaps[k]]

WindowTrips(snaps, x) ==
  MapThenSumSet(LAMBDA k : LookedUp(snaps)[k][x], WindowFrames(snaps))

\* TripsWindowFilter: few trips first for Supply, many first for Demand.
TripsWindowFilter(kind, snaps, cands) ==
  LET n == [x \in cands |-> WindowTrips(snaps, x)]
      Fewer(x, y) == n[x] < n[y] \/ (n[x] = n[y] /\ x < y)
  IN Best(cands, TripsNum, LAMBDA x, y : IF kind = "Supply" THEN Fewer(x, y) ELSE Fewer(y, x))

Candidates(s, kind, snaps) ==
  TripsWindowFilter(kind, snaps, RequirementsFilter(kind, DistanceFilter(s)))

OwnScope(s, kind) ==
  IF kind = "Supply" THEN (bikes[s] * (100 - ScopeLow)) \div 100 ELSE Capacity[s] - bikes[s]

----------------------------------------------------------------------------
\* The simulator stops for a decision: a snapshot, then the agent asks for
\* the action scope and answers inside it.
Decide ==
  LET d == Head(agenda[now])
      cands == Candidates(d.s, d.kind, WithSnapshot)
  IN
  /\ NextIs("DECISION")
  /\ snapshots' = WithSnapshot
  /\ cache' = LookedUp(WithSnapshot)
  /\ \E x \in cands : \E n \in 1 .. Min({OwnScope(d.s, d.kind), NeighborScope(d.kind)[x]}) :
       agenda' = [agenda EXCEPT ![now] = <<[type |-> "ACTION", n |-> n,
                    from |-> IF d.kind = "Supply" THEN d.s ELSE x,
                    to |-> IF d.kind = "Supply" THEN x ELSE d.s]>> \o Tail(@)]
  /\ UNCHANGED <<now, pc, unlinked, bikes, trips, requested, resets>>

\* The agent answers with nothing and never looks at the scope.
DecideNothing ==
  /\ NextIs("DECISION")
  /\ snapshots' = WithSnapshot
  /\ agenda' = Handled
  /\ UNCHANGED <<now, pc, unlinked, bikes, trips, cache, requested, resets>>

(***************************************************************************)
(* insert_event of a transfer from the handler of an action.  The action is  *)
(* an immediate event of its decision; when the decision was the last event  *)
(* of its tick, the list's tail still points at it, and an event inserted    *)
(* for the same tick is linked to an object that has left the list.          *)
(***************************************************************************)
TransferPlanned(t, e) ==
  IF t = now /\ Tail(agenda[now]) = <<>>
  THEN /\ unlinked' = Append(unlinked, e)
       /\ agenda' = Handled
  ELSE /\ agenda' = Plan(t, e)
       /\ UNCHANGED unlinked

Executed(a) == Min({bikes[a.from], a.n})

OnAction(transfer) ==
  LET a == Head(agenda[now])
      n == Executed(a)
  IN
  /\ NextIs("ACTION")
  /\ IF n > 0
     THEN /\ bikes' = [bikes EXCEPT ![a.from] = @ - n]
          /\ TransferPlanned(now + transfer, [type |-> "DeliverBike", from |-> a.from,
                                              to |-> a.to, n |-> n])
     ELSE /\ agenda' = Handled
          /\ UNCHANGED <<bikes, unlinked>>
  /\ UNCHANGED <<now, pc, trips, snapshots, cache, requested, resets>>

PostStep ==
  LET endsFrame == (now + 1) % SnapshotResolution = 0 IN
  /\ pc = "execute"
  /\ agenda[now] = <<>>
  /\ snapshots' = IF endsFrame \/ now = MaxTick THEN WithSnapshot ELSE snapshots
  /\ trips' = IF endsFrame THEN NoTrips ELSE trips
  /\ IF now = MaxTick THEN pc' = "end" /\ UNCHANGED now
                      ELSE pc' = "step" /\ now' = now + 1
  /\ UNCHANGED <<agenda, unlinked, bikes, cache, requested, resets>>

\* Mutant: the windows of the last episode stay.
ForgottenNot == cache
Forgotten == Empty

\* Env.reset: the filters forget their cache.
Reset ==
  /\ pc = "end" \/ NextIs("DECISION")
  /\ resets < MaxResets
  /\ now' = 0 /\ pc' = "step" /\ requested' = 0 /\ resets' = resets + 1
  /\ agenda' = [t \in AgendaTicks |-> <<>>] /\ unlinked' = <<>>
  /\ bikes' = InitBikes
  /\ trips' = NoTrips
  /\ snapshots' = Empty
  /\ cache' = Forgotten

Trips == [type : {"RequireBike"}, src : Stations, dest : Stations]

Next ==
  \/ \E ts \in {<<>>} \cup {<<t>> : t \in Trips} : Step(ts)
  \/ \E d \in Durations : OnRequiredBike(d)
  \/ OnArrival
  \/ OnRebalance
  \/ Decide
  \/ DecideNothing
  \/ \E t \in TransferTimes : now + t \in AgendaTicks /\ OnAction(t)
  \/ PostStep
  \/ Reset

Spec == Init /\ [][Next]_vars

----------------------------------------------------------------------------
\* The bikes that the events of a sequence carry.
Carried(e) == IF e.type \in {"ReturnBike", "DeliverBike"} THEN e.n ELSE 0
CarriedBy(es) == SumFunctionOnSet([i \in DOMAIN es |-> Carried(es[i])], DOMAIN es)

(***************************************************************************)
(* No bike is lost: the bikes at stations, on trips and on their way in      *)
(* transfers are always the ones there were at first.  In particular a full  *)
(* station always finds a neighbour for the bikes it cannot take.            *)
(***************************************************************************)
BikesConserved ==
  SumFunctionOnSet(bikes, Stations)
    + SumFunctionOnSet([t \in AgendaTicks |-> CarriedBy(agenda[t])], {t \in AgendaTicks : t >= now})
  = SumFunctionOnSet(InitBikes, Stations)

(***************************************************************************)
(* No station holds more bikes than docks, or fewer than none, however the   *)
(* returns, deliveries, overflows and transfers of a tick interleave.        *)
(***************************************************************************)
WithinCapacity == \A s \in Stations : bikes[s] \in 0 .. Capacity[s]

(***************************************************************************)
(* The trip filter decides on "trip requirement in latest N windows"         *)
(* (decision_strategy.py): what it has cached of a frame that is over is     *)
(* what the snapshot of that frame shows.                                    *)
(***************************************************************************)
CacheShowsFrames ==
  \A k \in DOMAIN cache : k < FrameIndex => cache[k] = snapshots[k]

(***************************************************************************)
(* citi_bike.rst: after an action "the destination station should wait for a *)
(* certain period to get the bikes available": no transfer gets lost.        *)
(***************************************************************************)
TransfersArrive ==
  /\ unlinked = <<>>
  /\ \A t \in AgendaTicks : t < now => agenda[t] = <<>>

(***************************************************************************)
(* Every bike is at a dock or on its way: none is lost or made, and no     *)
(* station has more bikes than docks, in whichever order returns,          *)
(* deliveries, overflows and transfers of a tick come.                     *)
(***************************************************************************)
BikesAccounted == BikesConserved /\ WithinCapacity

-----------------------------------------------------------------------------
(* An instance for TLC. Three stations in a row. *)
ThreeStations == {0, 1, 2}
NearOfThree == [s \in ThreeStations |-> CASE s = 0 -> <<1, 2>>
                                          [] s = 1 -> <<0, 2>>
                                          [] s = 2 -> <<1, 0>>]
TwoDocks == [s \in ThreeStations |-> IF s = 0 THEN 1 ELSE 2]
FourBikes == [s \in ThreeStations |-> IF s = 2 THEN 2 ELSE 1]

\* Rounding a normal distribution may also give zero or less.
AnyTransfer == {-1, 0, 1}
=============================================================================
