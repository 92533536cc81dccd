------------------------------ MODULE CimData ------------------------------
(***************************************************************************)
(* Synthetic CIM data.                                                       *)
(*                                                                           *)
(* How the CIM data generator unrolls a vessel's route into the stops of an  *)
(* episode (data_lib/cim/cim_data_generator.py, _extend_route), and the      *)
(* views of the stops that the business engine and agents use               *)
(* (vessel_future_stops_prediction.py, vessel_past_stops_wrapper.py,         *)
(* vessel_sailing_plan_wrapper.py).  Distances and speeds appear as the      *)
(* ticks they come to: Sail[i] without noise, any of SailTimes[i] with it.   *)
(* Positions on the route count from 1, stops from 0 as in the code.         *)
(*                                                                           *)
(* How the synthetic data container deals out the orders of a tick           *)
(* (data_lib/cim/cim_data_container.py, _gen_orders): a share for every      *)
(* source port, and of it a share for every target, rounded up and cut off   *)
(* so that the shares make up the total.  Proportions are integer weights:   *)
(* normalizing divides them by their sum.                                    *)
(***************************************************************************)
EXTENDS Integers, Sequences, SequencesExt, FiniteSetsExt

CONSTANTS Route,        \* the ports of the route, in order
          StartAt,      \* position of the vessel's start port
          Park, Sail,   \* parking time and sailing time of a leg, without noise
          ParkTimes, SailTimes,  \* what noise may make of them
          MaxTicks,     \* the episode lengths (max_tick) considered
          FutureStopNumbers,  \* the values of future_stop_number considered
          PastStopNumber      \* past_stop_number

ASSUME RoutesAssumption ==
  /\ Route # <<>> /\ StartAt \in DOMAIN Route
  /\ Park \in Nat \ {0} /\ Sail \in [DOMAIN Route -> Nat \ {0}]
  /\ ParkTimes \subseteq Nat \ {0}
  /\ \A p \in DOMAIN Route : SailTimes[p] \subseteq Nat \ {0}
  /\ MaxTicks \subseteq Nat
  /\ FutureStopNumbers \subseteq Nat \ {0} /\ PastStopNumber \in Nat

VARIABLES max_tick, future_stop_number,  \* the configuration
          stops,   \* the stops so far
          tick,    \* when the next one begins
          period,  \* period_no_noise
          extra,   \* extra_stop_counter
          loc      \* loc_idx_in_route

routeVars == <<max_tick, future_stop_number, stops, tick, period, extra, loc>>

RoutesInit ==
  /\ max_tick \in MaxTicks
  /\ future_stop_number \in FutureStopNumbers
  /\ stops = <<>>
  /\ tick = 0
  /\ period = 0
  /\ extra = 0
  /\ loc = StartAt

Follow(p) == (p % Len(Route)) + 1

\* Mutant: one stop less is kept after the end.
MoreStopsOneLess == extra < future_stop_number
MoreStops == extra <= future_stop_number

\* One turn of the loop: a stop, and the legs that lead on from it.
AddStop(park, sail) ==
  LET next == tick + park + sail IN
  /\ MoreStops
  /\ stops' = Append(stops, [port |-> Route[loc], arrive |-> tick, leave |-> tick + park])
  /\ tick' = next
  /\ period' = IF Len(stops) + 1 <= Len(Route) THEN period + Park + Sail[loc] ELSE period
  /\ loc' = Follow(loc)
  /\ extra' = IF next > max_tick THEN extra + 1 ELSE extra
  /\ UNCHANGED <<max_tick, future_stop_number>>

RoutesNext == \E park \in ParkTimes, sail \in SailTimes[loc] : AddStop(park, sail)

RoutesSpec == RoutesInit /\ [][RoutesNext]_routeVars

Unrolled == ~MoreStops
LastStop == Len(stops) - 1
Stop(k) == stops[k + 1]

----------------------------------------------------------------------------
(* _predict_future_stops: the plan without noise after stop k.               *)

LegBefore(p) == Sail[p]

\* The n-th predicted stop after stop k.
PlaceAfter(k, n) == ((StartAt - 1 + k + n) % Len(Route)) + 1

Prediction(k) ==
  LET P[n \in Nat] ==
        IF n = 0 THEN Stop(k).arrive
        ELSE P[n - 1] + Park + LegBefore(PlaceAfter(k, n - 1))
  IN [n \in 1 .. future_stop_number |->
        [port |-> Route[PlaceAfter(k, n)], arrive |-> P[n], leave |-> P[n] + Park]]

NoStop == [port |-> "none", arrive |-> -1, leave |-> -1]

\* Where the past stops begin (no negative index).
FirstPast(upto) == Max({upto - PastStopNumber + 1, 0})

\* VesselPastStopsWrapper for a vessel whose last and next stops are given:
\* the stops before the next one, filled up in front.
PastStops(last, next) ==
  LET upto == IF last = next THEN next ELSE next - 1
      past == SubSeq(stops, FirstPast(upto) + 1, next)
  IN [n \in 1 .. PastStopNumber - Len(past) |-> NoStop] \o past

----------------------------------------------------------------------------
(***************************************************************************)
(* Whatever stop of a vessel the business engine looks up exists: no vessel  *)
(* leaves the last stop of its list before the episode is over, and the      *)
(* wrapper finds exactly past_stop_number entries whenever a vessel is       *)
(* parking (last = next) or sailing (last = next - 1), the newest being the  *)
(* stop it left last (with a single entry, a parking vessel shows none).     *)
(***************************************************************************)
StopsSuffice ==
  Unrolled =>
    /\ Stop(LastStop).leave > max_tick - 1
    /\ \A next \in 1 .. LastStop : \A last \in {next - 1, next} :
         /\ Len(PastStops(last, next)) = PastStopNumber
         /\ PastStopNumber > 1 => Last(PastStops(last, next)) = Stop(next - 1)

(***************************************************************************)
(* The prediction names the ports the vessel will really call at, and when   *)
(* the noise happens to be zero also the ticks.                              *)
(***************************************************************************)
PredictionFollowsRoute ==
  Unrolled =>
    \A k \in 0 .. LastStop : \A n \in 1 .. future_stop_number :
      k + n <= LastStop =>
        /\ Prediction(k)[n].port = Stop(k + n).port
        /\ (\A m \in k .. k + n - 1 :
              Stop(m + 1).arrive - Stop(m).arrive = Park + Sail[PlaceAfter(m, 0)])
             => Prediction(k)[n].arrive = Stop(k + n).arrive

(***************************************************************************)
(* The unrolled stops serve every reader: lookups of past and next stops   *)
(* never leave the list, and what the wrapper predicts follows the same    *)
(* route.                                                                  *)
(***************************************************************************)
StopsServeReaders == StopsSuffice /\ PredictionFollowsRoute

----------------------------------------------------------------------------
(* The orders of a tick.                                                     *)

CONSTANTS PortNumber,       \* port_number
          Weights,          \* the values a noised proportion may have
          Proportions,      \* order_proportion of the tick
          TotalContainers,  \* total_containers
          Unfixed           \* is order_mode UNFIXED?

ASSUME OrdersAssumption ==
  /\ PortNumber \in Nat \ {0, 1}
  /\ Weights \subseteq Nat
  /\ Proportions \subseteq Nat
  /\ TotalContainers \in Nat
  /\ Unfixed \in BOOLEAN

VARIABLES wanted,     \* orders_to_gen
          source,     \* the source proportions of the ports
          turn,       \* the port whose turn it is
          remaining,  \* remaining_orders
          orders      \* the orders dealt out: sequence of [src, dest, n]

orderVars == <<wanted, source, turn, remaining, orders>>

SumSeq(s) == FoldLeft(LAMBDA a, b : a + b, 0, s)
SomePositive(w) == \E k \in DOMAIN w : w[k] > 0

\* In UNFIXED mode containers in use count against the orders of the tick.
OrdersToGen(proportion, empty) ==
  IF ~Unfixed THEN proportion
  ELSE LET delta == TotalContainers - empty IN
       IF proportion <= delta THEN 0 ELSE proportion - delta

OrdersInit ==
  /\ wanted = 0 /\ remaining = 0
  /\ source = [k \in 1 .. PortNumber |-> 1]
  /\ turn = PortNumber + 1
  /\ orders = <<>>

\* All ports have had their turn, or nothing was left for the others.
DealtOut == turn > PortNumber \/ remaining = 0

\* _gen_orders is called for a tick: the number wanted, and the noised and
\* normalized proportions of the source ports.
BeginTick(proportion, empty, w) ==
  /\ DealtOut
  /\ SomePositive(w)
  /\ wanted' = OrdersToGen(proportion, empty)
  /\ remaining' = wanted'
  /\ source' = w
  /\ turn' = 1
  /\ orders' = <<>>

\* Mutant: shares are rounded down.
ShareRoundedDown(n, w, k) == (n * w[k]) \div SumSeq(w)

\* ceil of the k-th normalized share of n.
Share(n, w, k) == (n * w[k] + SumSeq(w) - 1) \div SumSeq(w)

\* The targets of a port are the other ports.
Targets(p) == SelectSeq([k \in 1 .. PortNumber |-> k], LAMBDA k : k # p)

\* The number for each target, each limited by what is left.
Dealt(n, w) ==
  LET Give(acc, k) ==
        LET qty == Min({Share(n, w, k), acc.left}) IN
        [left |-> acc.left - qty, got |-> Append(acc.got, qty)]
  IN FoldLeft(Give, [left |-> n, got |-> <<>>], [k \in DOMAIN w |-> k]).got

\* One turn of the loop over ports, with the noise drawn for its targets.
PortTurn(w) ==
  LET n == Min({Share(wanted, source, turn), remaining})
      got == Dealt(n, w)
      ts == Targets(turn)
      new == SelectSeq([k \in DOMAIN ts |-> [src |-> turn, dest |-> ts[k], n |-> got[k]]],
                       LAMBDA o : o.n > 0)
  IN
  /\ ~DealtOut
  /\ remaining' = remaining - n
  /\ orders' = orders \o (IF n > 0 THEN new ELSE <<>>)
  /\ turn' = turn + 1
  /\ UNCHANGED <<wanted, source>>

OrdersNext ==
  \/ \E proportion \in Proportions, empty \in 0 .. TotalContainers,
        w \in [1 .. PortNumber -> Weights] : BeginTick(proportion, empty, w)
  \/ \E w \in {x \in [1 .. PortNumber - 1 -> Weights] : SomePositive(x)} : PortTurn(w)

----------------------------------------------------------------------------
(***************************************************************************)
(* When the loop ends, exactly the wanted number of orders has been dealt    *)
(* out (the assertion at the end of _gen_orders), in orders of at least one  *)
(* container, however the shares are rounded.                                *)
(***************************************************************************)
AllOrdersPlaced ==
  DealtOut =>
    /\ SumSeq([k \in DOMAIN orders |-> orders[k].n]) = wanted
    /\ \A k \in DOMAIN orders : orders[k].n >= 1
=============================================================================
