-------------------------------- MODULE Cim --------------------------------
(***************************************************************************)
(* The business engine of container inventory management                     *)
(* (simulator/scenarios/cim/business_engine.py): orders turn empty           *)
(* containers at a port into laden ones, vessels carry them along their      *)
(* routes, consignees give them back empty, and agents move empties between  *)
(* a port and a vessel that has arrived there.                               *)
(*                                                                           *)
(* Every quantity on its way is carried by an event; the events of a tick    *)
(* run in FIFO order, immediate events first (see EventAgenda).  Left out:   *)
(* what no handler reads back, that is the statistics of ports, the stop     *)
(* lists and the vessel plans shown to agents, and streaming.                *)
(***************************************************************************)
EXTENDS Integers, Sequences, SequencesExt, FiniteSetsExt, Functions

CONSTANTS Ports, Vessels,
          Schedules,    \* what the data container may generate:
                        \* functions vessel -> sequence of [port, arrive, leave]
          RouteLength,  \* vessel -> number of ports on its route
          PortEmpty,    \* port -> empty containers at the beginning
          VesselEmpty,  \* vessel -> empty containers at the beginning
          Capacity,     \* vessel -> capacity, in units of volume
          Volume,       \* container_volume
          Buffers,      \* ticks that containers may stay with a customer
          Quantities,   \* containers of one order
          JointModes,   \* the decision modes: are decisions answered together?
          MaxTick,      \* the last tick of an episode
          Horizon,      \* bound: the last tick an event can be planned for
          MaxOrders,    \* bound: orders of an episode
          MaxResets     \* bound: episodes after the first

ASSUME CimAssumption ==
  /\ MaxTick \in Nat /\ Horizon \in Nat /\ MaxTick <= Horizon
  /\ Volume \in Nat \ {0} /\ Buffers \subseteq Nat /\ Quantities \subseteq Nat
  /\ Capacity \in [Vessels -> Nat] /\ RouteLength \in [Vessels -> Nat \ {0}]
  /\ PortEmpty \in [Ports -> Nat] /\ VesselEmpty \in [Vessels -> Nat]
  /\ JointModes \subseteq BOOLEAN /\ IsFiniteSet(Ports) /\ IsFiniteSet(Vessels)
  /\ Schedules \subseteq [Vessels -> Seq([port : Ports, arrive : Nat, leave : Nat])]
  /\ \A s \in Schedules, v \in Vessels :
       /\ s[v] # <<>> /\ s[v][1].arrive = 0 /\ s[v][Len(s[v])].leave > MaxTick
       /\ \A n \in DOMAIN s[v] :
            /\ s[v][n].arrive < s[v][n].leave /\ s[v][n].leave <= Horizon
            /\ n > 1 => s[v][n - 1].leave < s[v][n].arrive

VARIABLES joint,            \* the decision mode of the environment
          stops,            \* vessel_stops of the data container
          now,              \* the tick
          pc,               \* where the simulation stands
          agenda,           \* tick -> events waiting for it
          port,             \* port -> [empty, full, on_shipper, on_consignee]
          vessel,           \* vessel -> [empty, full, last_loc, next_loc, parking, at]
          full_on_ports,    \* <<source, destination>> -> laden containers waiting
          full_on_vessels,  \* <<vessel, destination>> -> laden containers aboard
          orders,           \* orders so far
          resets            \* calls of Env.reset so far

vars == <<joint, stops, now, pc, agenda, port, vessel, full_on_ports, full_on_vessels,
          orders, resets>>

Ticks == 0 .. Horizon
AtSea == "at sea"

----------------------------------------------------------------------------
(* Stops are numbered from 0 in the code.                                    *)
Stop(v, loc) == stops[v][loc + 1]

\* VesselReachableStopsWrapper: the stops of one round after this one.
ReachableStops(v) ==
  SubSeq(stops[v], vessel[v].next_loc + 2,
         Min({Len(stops[v]), vessel[v].next_loc + 1 + RouteLength[v]}))

Departure(v, s) == [type |-> "VESSEL_DEPARTURE", v |-> v, p |-> s.port]

\* The departures are planned for the whole episode when it begins.
DeparturesAt(sch, t) ==
  LET Leaves(v, n) == n \in DOMAIN sch[v] /\ sch[v][n].leave = t
      vs == SetToSeq({v \in Vessels : \E n \in DOMAIN sch[v] : Leaves(v, n)})
  IN [i \in DOMAIN vs |-> Departure(vs[i], sch[vs[i]][CHOOSE n \in DOMAIN sch[vs[i]] : Leaves(vs[i], n)])]

\* The state after reset: a schedule, the containers as configured, and
\* every vessel parking at its first stop.
NewEpisode(sch) ==
  [stops |-> sch,
   agenda |-> [t \in Ticks |-> DeparturesAt(sch, t)],
   port |-> [p \in Ports |-> [empty |-> PortEmpty[p], full |-> 0,
                              on_shipper |-> 0, on_consignee |-> 0]],
   vessel |-> [v \in Vessels |-> [empty |-> VesselEmpty[v], full |-> 0,
                                  last_loc |-> 0, next_loc |-> 0,
                                  parking |-> TRUE, at |-> sch[v][1].port]],
   full_on_ports |-> [pq \in Ports \X Ports |-> 0],
   full_on_vessels |-> [vp \in Vessels \X Ports |-> 0]]

Init ==
  \E sch \in Schedules :
    LET e == NewEpisode(sch) IN
    /\ stops = e.stops /\ agenda = e.agenda /\ port = e.port /\ vessel = e.vessel
    /\ full_on_ports = e.full_on_ports /\ full_on_vessels = e.full_on_vessels
    /\ joint \in JointModes /\ now = 0 /\ pc = "step" /\ orders = 0 /\ resets = 0

----------------------------------------------------------------------------
(* step(tick): orders first, then for every vessel that arrives its arrival  *)
(* and loading, and the decisions after everything else.                     *)

\* Mutant: arrivals are noticed one tick late.
ArrivingLate ==
  {v \in Vessels : /\ vessel[v].next_loc > 0
                   /\ Stop(v, vessel[v].next_loc).arrive + 1 = now}

\* The vessels whose next stop is reached at this tick.
Arriving ==
  {v \in Vessels : /\ vessel[v].next_loc > 0
                   /\ Stop(v, vessel[v].next_loc).arrive = now}

EventsOfVessel(v) ==
  LET p == Stop(v, vessel[v].next_loc).port IN
  <<[type |-> "VESSEL_ARRIVAL", v |-> v, p |-> p],
    [type |-> "LOAD_FULL", v |-> v, p |-> p]>>

DecisionOfVessel(v) ==
  [type |-> "DECISION", v |-> v, p |-> Stop(v, vessel[v].next_loc).port]

Step(os) ==
  LET vs == SetToSeq(Arriving)
      arrivals == [i \in 1 .. 2 * Len(vs) |-> EventsOfVessel(vs[(i + 1) \div 2])[2 - (i % 2)]]
      decisions == [i \in DOMAIN vs |-> DecisionOfVessel(vs[i])]
  IN
  /\ pc = "step"
  /\ orders + Len(os) <= MaxOrders
  /\ agenda' = [agenda EXCEPT ![now] = @ \o os \o arrivals \o decisions]
  /\ orders' = orders + Len(os)
  /\ pc' = "execute"
  /\ UNCHANGED <<joint, stops, now, port, vessel, full_on_ports, full_on_vessels, resets>>

----------------------------------------------------------------------------
(* Handlers.  Each takes the event at the front of the tick away.            *)
NextIs(type) ==
  /\ pc = "execute"
  /\ agenda[now] # <<>>
  /\ Head(agenda[now]).type = type

\* Mutant: an event for this very tick is lost.
HandledDropsToday(e, t) ==
  IF t = now THEN [agenda EXCEPT ![now] = Tail(@)]
  ELSE [agenda EXCEPT ![now] = Tail(@), ![t] = Append(@, e)]

\* The agenda once the front is handled, with event e planned for tick t: as
\* an immediate event if that is this tick, else at the end of its tick.
Handled(e, t) ==
  IF t = now THEN [agenda EXCEPT ![now] = <<e>> \o Tail(@)]
  ELSE [agenda EXCEPT ![now] = Tail(@), ![t] = Append(@, e)]

HandledOnly == [agenda EXCEPT ![now] = Tail(@)]

OnOrder(buffer) ==
  LET o == Head(agenda[now])
      qty == Min({port[o.p].empty, o.n})
  IN
  /\ NextIs("ORDER")
  /\ now + buffer <= Horizon
  /\ port' = [port EXCEPT ![o.p].empty = @ - qty, ![o.p].on_shipper = @ + qty]
  /\ agenda' = Handled([type |-> "RETURN_FULL", p |-> o.p, q |-> o.q, n |-> qty],
                       now + buffer)
  /\ UNCHANGED <<joint, stops, now, pc, vessel, full_on_ports, full_on_vessels, orders, resets>>

OnFullReturn ==
  LET e == Head(agenda[now]) IN
  /\ NextIs("RETURN_FULL")
  /\ port' = [port EXCEPT ![e.p].on_shipper = @ - e.n, ![e.p].full = @ + e.n]
  /\ full_on_ports' = [full_on_ports EXCEPT ![<<e.p, e.q>>] = @ + e.n]
  /\ agenda' = HandledOnly
  /\ UNCHANGED <<joint, stops, now, pc, vessel, full_on_vessels, orders, resets>>

\* What vessel v loads at port p for its reachable stops, a set with one
\* element: the loads of a stop take from the waiting containers and from the
\* acceptable number what the stops before it have left.
Loads(v, p) ==
  LET rs == ReachableStops(v)
      accept == (Capacity[v] - vessel[v].full * Volume) \div Volume
      Left(loads, i) == accept - SumFunctionOnSet(loads, 1 .. i - 1)
      Waiting(loads, i) == full_on_ports[<<p, rs[i].port>>]
        - SumFunctionOnSet(loads, {j \in 1 .. i - 1 : rs[j].port = rs[i].port})
  IN {loads \in [DOMAIN rs -> 0 .. Max({0, accept})] :
        \A i \in DOMAIN rs :
          loads[i] = Max({0, Min({Left(loads, i), Waiting(loads, i)})})}

\* What of it goes to port q.
LoadedFor(v, loads, q) ==
  SumFunctionOnSet(loads, {i \in DOMAIN loads : ReachableStops(v)[i].port = q})

\* The discharges planned for tick t, one for every load; a vessel reaches
\* its stops one after the other.
Discharges(v, loads, t) ==
  LET rs == ReachableStops(v)
      is == {i \in DOMAIN loads : rs[i].arrive = t /\ loads[i] > 0}
  IN IF is = {} THEN <<>>
     ELSE LET i == CHOOSE i \in is : TRUE
          IN <<[type |-> "DISCHARGE_FULL", v |-> v, p |-> rs[i].port, n |-> loads[i]]>>

CeilDiv(a, b) == (a + b - 1) \div b

\* How many empties have to leave vessel v once it carries this many laden.
EarlyDischarge(v, full) ==
  LET total == full + vessel[v].empty IN
  IF total * Volume > Capacity[v] THEN total - CeilDiv(Capacity[v], Volume) ELSE 0

OnFullLoad ==
  LET e == Head(agenda[now]) IN
  /\ NextIs("LOAD_FULL")
  /\ \E loads \in Loads(e.v, e.p) :
       LET total == SumFunctionOnSet(loads, DOMAIN loads)
           early == EarlyDischarge(e.v, vessel[e.v].full + total)
       IN
       /\ vessel' = [vessel EXCEPT ![e.v].last_loc = vessel[e.v].next_loc,
                                   ![e.v].full = @ + total, ![e.v].empty = @ - early]
       /\ port' = [port EXCEPT ![e.p].full = @ - total, ![e.p].empty = @ + early]
       /\ full_on_ports' = [pq \in Ports \X Ports |->
            full_on_ports[pq] - (IF pq[1] = e.p THEN LoadedFor(e.v, loads, pq[2]) ELSE 0)]
       /\ full_on_vessels' = [vp \in Vessels \X Ports |->
            full_on_vessels[vp] + (IF vp[1] = e.v THEN LoadedFor(e.v, loads, vp[2]) ELSE 0)]
       /\ agenda' = [t \in Ticks |-> HandledOnly[t] \o Discharges(e.v, loads, t)]
  /\ UNCHANGED <<joint, stops, now, pc, orders, resets>>

OnArrival ==
  LET e == Head(agenda[now]) IN
  /\ NextIs("VESSEL_ARRIVAL")
  /\ vessel' = [vessel EXCEPT ![e.v].last_loc = vessel[e.v].next_loc,
                              ![e.v].parking = TRUE,
                              ![e.v].at = Stop(e.v, vessel[e.v].next_loc).port]
  /\ agenda' = HandledOnly
  /\ UNCHANGED <<joint, stops, now, pc, port, full_on_ports, full_on_vessels, orders, resets>>

OnDeparture ==
  LET e == Head(agenda[now]) IN
  /\ NextIs("VESSEL_DEPARTURE")
  /\ vessel' = [vessel EXCEPT ![e.v].next_loc = vessel[e.v].next_loc + 1,
                              ![e.v].parking = FALSE,
                              ![e.v].at = AtSea]
  /\ agenda' = HandledOnly
  /\ UNCHANGED <<joint, stops, now, pc, port, full_on_ports, full_on_vessels, orders, resets>>

OnDischarge(buffer) ==
  LET e == Head(agenda[now]) IN
  /\ NextIs("DISCHARGE_FULL")
  /\ now + buffer <= Horizon
  /\ vessel' = [vessel EXCEPT ![e.v].full = @ - e.n]
  /\ port' = [port EXCEPT ![e.p].on_consignee = @ + e.n]
  /\ full_on_vessels' = [full_on_vessels EXCEPT ![<<e.v, e.p>>] = @ - e.n]
  /\ agenda' = Handled([type |-> "RETURN_EMPTY", p |-> e.p, n |-> e.n], now + buffer)
  /\ UNCHANGED <<joint, stops, now, pc, full_on_ports, orders, resets>>

Returned(s, n) == [s EXCEPT !.on_consignee = @ - n, !.empty = @ + n]

OnEmptyReturn ==
  LET e == Head(agenda[now]) IN
  /\ NextIs("RETURN_EMPTY")
  /\ port' = [port EXCEPT ![e.p] = Returned(@, e.n)]
  /\ agenda' = HandledOnly
  /\ UNCHANGED <<joint, stops, now, pc, vessel, full_on_ports, full_on_vessels, orders, resets>>

----------------------------------------------------------------------------
(* Decisions and actions.                                                    *)

\* Vessel._update_remaining_space, called whenever full or empty changes.
RemainingSpace(v) == (Capacity[v] \div Volume) - vessel[v].full - vessel[v].empty

\* Mutant: the space left on the vessel is forgotten.
ActionScopeNoSpace(p, v) == [load |-> port[p].empty, discharge |-> vessel[v].empty]

\* action_scope; the scope of an event is fixed when it is first asked for.
ActionScope(p, v) ==
  [load |-> Min({port[p].empty, RemainingSpace(v)}), discharge |-> vessel[v].empty]

\* The answers an agent may give to a decision, staying inside its scope.
ActionsFor(d) ==
  LET scope == ActionScope(d.p, d.v) IN
  {[type |-> "LOAD_EMPTY", v |-> d.v, p |-> d.p, n |-> n] : n \in 0 .. scope.load}
    \cup
  {[type |-> "DISCHARGE_EMPTY", v |-> d.v, p |-> d.p, n |-> n] : n \in 1 .. scope.discharge}

\* How many decisions are asked together: those at the front of the tick.
Asked ==
  LET q == agenda[now] IN
  IF joint THEN CHOOSE n \in 1 .. Len(q) :
                  /\ \A m \in 1 .. n : q[m].type = "DECISION"
                  /\ n < Len(q) => q[n + 1].type # "DECISION"
  ELSE 1

\* The agent answers the first decision, or all at the front together; its
\* actions become immediate events of their decisions.
Decide ==
  /\ NextIs("DECISION")
  /\ \E as \in [1 .. Asked -> UNION {ActionsFor(agenda[now][i]) : i \in 1 .. Asked}] :
       /\ \A i \in 1 .. Asked : as[i] \in ActionsFor(agenda[now][i])
       /\ agenda' = [agenda EXCEPT ![now] = as \o SubSeq(@, Asked + 1, Len(@))]
  /\ UNCHANGED <<joint, stops, now, pc, port, vessel, full_on_ports, full_on_vessels, orders,
                 resets>>

\* An agent may also answer with no action.
DecideNothing ==
  /\ NextIs("DECISION")
  /\ agenda' = [agenda EXCEPT ![now] = SubSeq(@, Asked + 1, Len(@))]
  /\ UNCHANGED <<joint, stops, now, pc, port, vessel, full_on_ports, full_on_vessels, orders,
                 resets>>

\* The assertions of _on_action_received.
Accepted(a) ==
  IF a.type = "DISCHARGE_EMPTY" THEN a.n <= vessel[a.v].empty
  ELSE a.n <= Min({port[a.p].empty, RemainingSpace(a.v)})

OnAction ==
  LET a == Head(agenda[now])
      move == IF a.type = "DISCHARGE_EMPTY" THEN a.n ELSE - a.n
  IN
  /\ NextIs("DISCHARGE_EMPTY") \/ NextIs("LOAD_EMPTY")
  /\ Accepted(a)
  /\ port' = [port EXCEPT ![a.p].empty = @ + move]
  /\ vessel' = [vessel EXCEPT ![a.v].empty = @ - move]
  /\ agenda' = HandledOnly
  /\ UNCHANGED <<joint, stops, now, pc, full_on_ports, full_on_vessels, orders, resets>>

\* An assertion fails: the exception leaves Env.step.
OnActionFails ==
  /\ NextIs("DISCHARGE_EMPTY") \/ NextIs("LOAD_EMPTY")
  /\ ~Accepted(Head(agenda[now]))
  /\ pc' = "AssertionError"
  /\ UNCHANGED <<joint, stops, now, agenda, port, vessel, full_on_ports, full_on_vessels,
                 orders, resets>>

----------------------------------------------------------------------------
PostStep ==
  /\ pc = "execute"
  /\ agenda[now] = <<>>
  /\ IF now = MaxTick THEN pc' = "end" /\ UNCHANGED now
                      ELSE pc' = "step" /\ now' = now + 1
  /\ UNCHANGED <<joint, stops, agenda, port, vessel, full_on_ports, full_on_vessels, orders,
                 resets>>

Reset ==
  \E sch \in Schedules :
    LET e == NewEpisode(sch) IN
    /\ pc \in {"end", "AssertionError"} \/ NextIs("DECISION")
    /\ resets < MaxResets
    /\ stops' = e.stops /\ agenda' = e.agenda /\ port' = e.port /\ vessel' = e.vessel
    /\ full_on_ports' = e.full_on_ports /\ full_on_vessels' = e.full_on_vessels
    /\ now' = 0 /\ pc' = "step" /\ orders' = 0 /\ resets' = resets + 1
    /\ UNCHANGED joint

Orders == [type : {"ORDER"}, p : Ports, q : Ports, n : Quantities]

Next ==
  \/ \E os \in {<<>>} \cup {<<o>> : o \in Orders} : Step(os)
  \/ \E b \in Buffers : OnOrder(b) \/ OnDischarge(b)
  \/ OnFullReturn
  \/ OnFullLoad
  \/ OnArrival
  \/ OnDeparture
  \/ OnEmptyReturn
  \/ Decide
  \/ DecideNothing
  \/ OnAction
  \/ OnActionFails
  \/ PostStep
  \/ Reset

Spec == Init /\ [][Next]_vars

----------------------------------------------------------------------------
\* What an event of a type carries from a place: for a discharge, a vessel and
\* a port.
Place(e) == IF e.type = "DISCHARGE_FULL" THEN <<e.v, e.p>> ELSE e.p
Carried(e, type, place) == IF e.type = type /\ Place(e) = place THEN e.n ELSE 0

CarriedBy(es, type, place) ==
  SumFunctionOnSet([i \in DOMAIN es |-> Carried(es[i], type, place)], DOMAIN es)

\* What all events of an agenda carry.
Planned(ag, type, place) ==
  SumFunctionOnSet([t \in Ticks |-> CarriedBy(ag[t], type, place)], Ticks)

(***************************************************************************)
(* No container is lost or made: those at ports, with shippers and           *)
(* consignees and aboard vessels are always the ones there were at first.    *)
(***************************************************************************)
PortTotal(p) == port[p].empty + port[p].full + port[p].on_shipper + port[p].on_consignee
VesselTotal(v) == vessel[v].empty + vessel[v].full
ContainersConserved ==
  SumFunctionOnSet([p \in Ports |-> PortTotal(p)], Ports)
    + SumFunctionOnSet([v \in Vessels |-> VesselTotal(v)], Vessels)
  = SumFunctionOnSet(PortEmpty, Ports) + SumFunctionOnSet(VesselEmpty, Vessels)

(***************************************************************************)
(* Every container on its way is accounted for twice: the totals of ports    *)
(* and vessels agree with the matrices by destination, and with what the     *)
(* events still to come will move.  Otherwise containers would be stranded   *)
(* with a customer or aboard, or moved twice.                                *)
(***************************************************************************)
CargoAccounted ==
  /\ \A p \in Ports :
       /\ port[p].full = SumFunctionOnSet([q \in Ports |-> full_on_ports[<<p, q>>]], Ports)
       /\ port[p].on_shipper = Planned(agenda, "RETURN_FULL", p)
       /\ port[p].on_consignee = Planned(agenda, "RETURN_EMPTY", p)
  /\ \A v \in Vessels :
       /\ vessel[v].full = SumFunctionOnSet([p \in Ports |-> full_on_vessels[<<v, p>>]], Ports)
       /\ \A p \in Ports :
            full_on_vessels[<<v, p>>] = Planned(agenda, "DISCHARGE_FULL", <<v, p>>)

(***************************************************************************)
(* A vessel never carries more than its capacity once it has made room for   *)
(* the laden containers it took (container_inventory_management.rst: empties *)
(* are discharged early "to free the space").                                *)
(***************************************************************************)
CapacityRespected ==
  \A v \in Vessels :
    /\ (vessel[v].full + vessel[v].empty) * Volume <= Capacity[v]
    /\ vessel[v].empty >= 0

\* The tick of the next call of vessel v at the port where it is now, a set with
\* at most one element.
NextCall(v) ==
  LET Later(n) == vessel[v].next_loc + 2 .. n
      Here(n) == stops[v][n].port = vessel[v].at
  IN {stops[v][n].arrive : n \in {n \in Later(Len(stops[v])) :
                                    Here(n) /\ \A m \in Later(n - 1) : ~Here(m)}}

(***************************************************************************)
(* A vessel at a port has unloaded everything bound for this call: the       *)
(* discharges planned when the containers were loaded ran before the         *)
(* arrival.  What is aboard for the port is what it loaded here for its next *)
(* call, of orders that a port has to itself (global_trade topologies).      *)
(***************************************************************************)
DeliveredOnArrival ==
  \A v \in Vessels : vessel[v].parking =>
    LET aboard == [t \in Ticks |-> CarriedBy(agenda[t], "DISCHARGE_FULL", <<v, vessel[v].at>>)]
    IN full_on_vessels[<<v, vessel[v].at>>] = SumFunctionOnSet(aboard, NextCall(v))

(***************************************************************************)
(* When a tick is over, and when an agent is asked, every vessel is where    *)
(* its schedule says: the arrivals that step derives from next_loc and the   *)
(* departures planned at the beginning never get out of step.                *)
(***************************************************************************)
OnSchedule ==
  pc = "step" /\ now > 0 =>
    \A v \in Vessels :
      LET l == vessel[v].next_loc
          t == now - 1
      IN IF vessel[v].parking
         THEN Stop(v, l).arrive <= t /\ t < Stop(v, l).leave /\ vessel[v].at = Stop(v, l).port
         ELSE Stop(v, l - 1).leave <= t /\ t < Stop(v, l).arrive

(***************************************************************************)
(* An action inside the action scope that its decision event showed never    *)
(* fails the assertions of _on_action_received when decisions are answered   *)
(* one by one.                                                               *)
(***************************************************************************)
ScopeIsHonoured == ~joint => pc # "AssertionError"

(***************************************************************************)
(* Containers are where the books say: none is lost or made, the matrices, *)
(* the totals and the events still to come agree about each of them, and   *)
(* no vessel carries more than it can.                                     *)
(***************************************************************************)
ContainersAccounted == ContainersConserved /\ CargoAccounted /\ CapacityRespected

(***************************************************************************)
(* Vessels keep their schedule and have delivered what they carry for a    *)
(* call by the time they park for it.                                      *)
(***************************************************************************)
ServiceIsKept == OnSchedule /\ DeliveredOnArrival

-----------------------------------------------------------------------------
(* An instance for TLC. Two ports and two vessels. *)
TwoPorts == {"p0", "p1"}
TwoVessels == {"v0", "v1"}

\* A round trip that begins at port a, with sailing times s1 and s2.
RoundTrip(a, b, s1, s2) ==
  <<[port |-> a, arrive |-> 0, leave |-> 1],
    [port |-> b, arrive |-> 1 + s1, leave |-> 2 + s1],
    [port |-> a, arrive |-> 2 + s1 + s2, leave |-> 3 + s1 + s2],
    [port |-> b, arrive |-> 3 + s1 + s2 + s1, leave |-> 4 + s1 + s2 + s1]>>

\* The second vessel starts at the other port, or sails with the first.
TwoSchedules ==
  {[v \in TwoVessels |-> IF v = "v0" THEN RoundTrip("p0", "p1", 1, 1)
                         ELSE RoundTrip("p1", "p0", 1, 2)],
   [v \in TwoVessels |-> RoundTrip("p0", "p1", 1, 1)]}

RouteOfTwo == [v \in TwoVessels |-> 2]
EmptyAtPorts == [p \in TwoPorts |-> IF p = "p0" THEN 2 ELSE 0]
EmptyAboard == [v \in TwoVessels |-> IF v = "v0" THEN 1 ELSE 0]
CapacityTwo == [v \in TwoVessels |-> 4]
=============================================================================
