---------------------------- MODULE ScenarioData ----------------------------
(***************************************************************************)
(* Where the scenarios' input comes from: the stops the synthetic CIM data   *)
(* is built from and the orders it generates tick by tick (CimData), its     *)
(* configuration, seeds and dumps (CimSources), binary                       *)
(* files read tick by tick (BinaryFile) and the pipelines that make them     *)
(* (DataPipelines); and where data goes to, streaming (Streamit).  They      *)
(* share no state: in a behaviour one of them runs.                          *)
(***************************************************************************)
EXTENDS CimData, BinaryFile, CimSources, DataPipelines, Streamit

VARIABLE part

dataVars == <<routeVars, orderVars, fileVars, sourceVars, pipelineVars, streamVars, part>>

\* The parts that do not run stay at one of their initial states.
DataInit ==
  /\ part \in {"routes", "orders", "file", "source", "pipeline", "stream"}
  /\ RoutesInit /\ OrdersInit /\ FileInit /\ SourcesInit /\ PipelineInit /\ StreamInit
  /\ part # "routes" => max_tick = Max(MaxTicks) /\ future_stop_number = Max(FutureStopNumbers)
  /\ part # "file" => unit = Max(Units) /\ ~ conv.changed
  /\ part # "source" => kind = "config"
  /\ part # "pipeline" => scenario = "vm"

DataNext ==
  /\ UNCHANGED part
  /\ \/ /\ part = "routes" /\ RoutesNext
        /\ UNCHANGED <<orderVars, fileVars, sourceVars, pipelineVars, streamVars>>
     \/ /\ part = "orders" /\ OrdersNext
        /\ UNCHANGED <<routeVars, fileVars, sourceVars, pipelineVars, streamVars>>
     \/ /\ part = "file" /\ FileNext
        /\ UNCHANGED <<routeVars, orderVars, sourceVars, pipelineVars, streamVars>>
     \/ /\ part = "source" /\ SourcesNext
        /\ UNCHANGED <<routeVars, orderVars, fileVars, pipelineVars, streamVars>>
     \/ /\ part = "pipeline" /\ PipelineNext
        /\ UNCHANGED <<routeVars, orderVars, fileVars, sourceVars, streamVars>>
     \/ /\ part = "stream" /\ StreamNext
        /\ UNCHANGED <<routeVars, orderVars, fileVars, sourceVars, pipelineVars>>

DataSpec == DataInit /\ [][DataNext]_dataVars

----------------------------------------------------------------------------
(***************************************************************************)
(* For TLC: a route of three ports with unequal legs; rows on both sides of  *)
(* the start time, one of them with a bad column and one with a timestamp    *)
(* that cannot be parsed; configurations in which a port has no targets and  *)
(* a vessel no stops; trips of stations the station info does not know, and  *)
(* tables that change between two commands.                                  *)
(***************************************************************************)
ThreePorts == <<"p0", "p1", "p2">>
Legs == <<1, 2, 3>>
NoisyLegs == <<{1}, {2, 3}, {3}>>

SomeRows ==
  {[stamp |-> s, bad |-> "no"] : s \in -1 .. 4}
    \cup {[stamp |-> 4, bad |-> "column"], [stamp |-> 0, bad |-> "stamp"]}
EarlyStart == {-2}

Port(name, share, ticks, targets) ==
  [name |-> name, share |-> share, empty_return |-> ticks, full_return |-> ticks + 1,
   source |-> share, targets |-> targets]
SomeConfigs ==
  {[ports |-> ports,
    routes |-> <<[name |-> "r2", points |-> <<[port |-> "b", distance |-> 2], [port |-> "a", distance |-> 3]>>],
                 [name |-> "r1", points |-> <<[port |-> "a", distance |-> 1]>>]>>,
    vessels |-> <<[name |-> "v1", route |-> "r1", start |-> "a"], [name |-> "v2", route |-> "r2", start |-> "b"]>>,
    usage |-> [period |-> 3, nodes |-> nodes]] :
     ports \in {<<Port("b", 3, 1, <<[name |-> "a", proportion |-> 1]>>), Port("a", 1, 0, <<>>)>>,
                <<Port("a", 2, 0, <<>>), Port("b", 2, 2, <<[name |-> "b", proportion |-> 3], [name |-> "a", proportion |-> 1]>>)>>},
     nodes \in {<<[x |-> 0, y |-> 1], [x |-> 2, y |-> 4]>>, <<[x |-> 1, y |-> 2]>>}}
S(p, a, l) == [port |-> p, arrive |-> a, leave |-> l]
SomeStops ==
  {[stops |-> <<<<S(1, 0, 1)>>, <<S(2, 0, 2), S(1, 3, 4)>>>>, periods |-> <<5, 7>>],
   [stops |-> <<<<>>, <<S(1, 1, 2)>>>>, periods |-> <<7, 5>>]}
Noises == {-1, 0, 2}
TwoPorts == <<[index |-> 0, name |-> "a"], [index |-> 1, name |-> "b"]>>
Csv(t, q) == [tick |-> t, src |-> 0, dest |-> 1, quantity |-> q]
Bin(t, q) == [timestamp |-> t, src |-> 0, dest |-> 1, quantity |-> q]
SomeFolders ==
  {[ports |-> TwoPorts, csv |-> <<Csv(1, 5), Csv(0, 2), Csv(1, 3)>>, bin |-> <<"none">>, max_tick |-> 3],
   [ports |-> TwoPorts, csv |-> <<"none">>, bin |-> <<Bin(0, 4), Bin(1, 1), Bin(0, 2)>>, max_tick |-> 1]}
NoneThere == <<"none">>

Trip(from, to, b, v, in) == [start |-> from, end |-> to, bike |-> b, valid |-> v, inside |-> in]
SomeTrips ==
  <<<<Trip(7, 3, 1, TRUE, TRUE), Trip(9, 7, 2, TRUE, TRUE), Trip(1, 2, 3, FALSE, TRUE)>>,
    <<Trip(5, 3, 1, TRUE, TRUE), Trip(3, 1, 1, TRUE, TRUE), Trip(2, 2, 2, TRUE, FALSE)>>>>
StationInfo == <<[id |-> 7, capacity |-> 3], [id |-> 3, capacity |-> 2], [id |-> 5, capacity |-> 0]>>
TwoStations == <<0, 1>>
ThereAndBack == <<[start |-> 0, end |-> 1], [start |-> 1, end |-> 0]>>
Vm(v, c) == [vm |-> v, created |-> c]
SomeVms == <<<<Vm("a", 2), Vm("b", 1), Vm("c", 1)>>, <<Vm("c", 1), Vm("a", 3), Vm("d", 0)>>>>
Readings == <<"a", "c", "b", "a">>
=============================================================================
