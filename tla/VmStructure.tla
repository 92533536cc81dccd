---------------------------- MODULE VmStructure ----------------------------
(***************************************************************************)
(* The tree of regions, zones, data centers, clusters, racks and machines  *)
(* of the VM scheduling scenario: how _load_configs counts the nodes the   *)
(* frame needs, and how _init_structure builds them                        *)
(* (simulator/scenarios/vm_scheduling/business_engine.py, rack.py ..       *)
(* region.py).  Ids count from 0, each level with a counter of its own.    *)
(* The same type is named once in a list of the configuration.             *)
(***************************************************************************)
EXTENDS Integers, Sequences, SequencesExt, FiniteSetsExt

CONSTANTS
  PmConfig,       \* sequence of [cpu, memory]: the machine types, in order
  RackConfig,     \* rack type -> sequence of [type, amount] of machines
  ClusterConfig,  \* cluster type -> sequence of [type, amount] of racks
  Architecture    \* regions of zones of data centers of [type, amount] of clusters

ASSUME StructureAssumption ==
  /\ \A t \in DOMAIN RackConfig : \A k \in DOMAIN RackConfig[t] :
       RackConfig[t][k].type + 1 \in DOMAIN PmConfig
  /\ \A t \in DOMAIN ClusterConfig : \A k \in DOMAIN ClusterConfig[t] :
       ClusterConfig[t][k].type \in DOMAIN RackConfig
  /\ \A k \in DOMAIN PmConfig : /\ PmConfig[k].cpu \in Nat \ {0} /\ PmConfig[k].memory \in Nat \ {0}
                                /\ 100 % PmConfig[k].cpu = 0

(* _load_configs: amounts are multiplied from the clusters down.           *)
Zones == FlattenSeq(Architecture)
DataCenters == FlattenSeq(Zones)
Clusters == FlattenSeq(DataCenters)
AmountOf(list, type) == MapThenSumSet(LAMBDA k : list[k].amount, {k \in DOMAIN list : list[k].type = type})
RackAmount(type) ==
  MapThenSumSet(LAMBDA t : AmountOf(Clusters, t) * AmountOf(ClusterConfig[t], type), DOMAIN ClusterConfig)
PmAmount(type) ==
  MapThenSumSet(LAMBDA t : RackAmount(t) * AmountOf(RackConfig[t], type), DOMAIN RackConfig)
Amounts == [region |-> Len(Architecture), zone |-> Len(Zones), data_center |-> Len(DataCenters),
            cluster |-> MapThenSumSet(LAMBDA t : AmountOf(Clusters, t), DOMAIN ClusterConfig),
            rack |-> MapThenSumSet(RackAmount, DOMAIN RackConfig),
            pm |-> MapThenSumSet(PmAmount, {k - 1 : k \in DOMAIN PmConfig})]

----------------------------------------------------------------------------
VARIABLE nodes  \* every level of the tree, as _init_structure has built it

(* _init_structure: s holds the nodes made so far, so that the length of a *)
(* level is the id of its next node.  A machine notes the ids of the nodes *)
(* it is being built in.                                                   *)

Nothing == [region |-> <<>>, zone |-> <<>>, data_center |-> <<>>, cluster |-> <<>>, rack |-> <<>>, pm |-> <<>>]

(* As often as the amounts say.                                            *)
Copies(list) == FlattenSeq([k \in DOMAIN list |-> [n \in 1 .. list[k].amount |-> list[k].type]])

(* A node above the level `below', whose children were made between s and *)
(* t, with the ids of the nodes around it.                                 *)
Node(s, t, below) ==
  LET ids == Len(s[below]) .. Len(t[below]) - 1
  IN  [children |-> ids, region |-> Len(s.region), zone |-> Len(s.zone), data_center |-> Len(s.data_center),
       cluster |-> Len(s.cluster),
       total |-> IF below = "pm" THEN Cardinality(ids)
                 ELSE MapThenSumSet(LAMBDA c : t[below][c + 1].total, ids)]

_init_pms(s, rackType) ==
  FoldLeft(LAMBDA t, type : [t EXCEPT !.pm = Append(@,
             [type |-> type, region |-> Len(t.region), zone |-> Len(t.zone), data_center |-> Len(t.data_center),
              cluster |-> Len(t.cluster), rack |-> Len(t.rack)])],
           s, Copies(RackConfig[rackType]))

_init_racks(s, clusterType) ==
  FoldLeft(LAMBDA t, type : LET u == _init_pms(t, type)
                            IN  [u EXCEPT !.rack = Append(@, Node(t, u, "pm"))],
           s, Copies(ClusterConfig[clusterType]))

_init_clusters(s, list) ==
  FoldLeft(LAMBDA t, type : LET u == _init_racks(t, type)
                            IN  [u EXCEPT !.cluster = Append(@, Node(t, u, "rack"))],
           s, Copies(list))

(* The clusters of an earlier data center are listed again.                *)
_init_data_centersFromFirst(s, list) ==
  FoldLeft(LAMBDA t, clusters : LET u == _init_clusters(t, clusters)
                                IN  [u EXCEPT !.data_center = Append(@, Node(s, u, "cluster"))],
           s, list)

_init_data_centers(s, list) ==
  FoldLeft(LAMBDA t, clusters : LET u == _init_clusters(t, clusters)
                                IN  [u EXCEPT !.data_center = Append(@, Node(t, u, "cluster"))],
           s, list)

_init_zones(s, list) ==
  FoldLeft(LAMBDA t, centers : LET u == _init_data_centers(t, centers)
                               IN  [u EXCEPT !.zone = Append(@, Node(t, u, "data_center"))],
           s, list)

_init_regions ==
  FoldLeft(LAMBDA t, zones : LET u == _init_zones(t, zones)
                             IN  [u EXCEPT !.region = Append(@, Node(t, u, "zone"))],
           Nothing, Architecture)

Structure == _init_regions

(* Every machine that is built is of a type of the configuration: the      *)
(* loops above take types from the lists of RackConfig only.               *)
ASSUME MachineTypesAssumption ==
  \A p \in 0 .. Len(Structure.pm) - 1 : Structure.pm[p + 1].type + 1 \in DOMAIN PmConfig

StructureInit == nodes = Structure

Machines == 0 .. Len(nodes.pm) - 1
CpuCapacity(p) == PmConfig[nodes.pm[p + 1].type + 1].cpu
MemoryCapacity(p) == PmConfig[nodes.pm[p + 1].type + 1].memory

----------------------------------------------------------------------------
(* empty_machine_num of every node.                                        *)

(* After a reset every machine counts as empty.                            *)
AllEmpty == [level \in {"region", "zone", "data_center", "cluster", "rack"} |->
               [k \in DOMAIN nodes[level] |-> nodes[level][k].total]]

(* _update_rack_metrics, then every level from the one below it.           *)
UpperLevelMetrics(allocated) ==
  LET Up(level, below) == [k \in DOMAIN nodes[level] |->
                             MapThenSumSet(LAMBDA c : below[c + 1], nodes[level][k].children)]
      rack == [k \in DOMAIN nodes.rack |->
                 Cardinality({p \in nodes.rack[k].children : allocated[p] = 0})]
      cluster == Up("cluster", rack)
      center == Up("data_center", cluster)
      zone == Up("zone", center)
  IN  [rack |-> rack, cluster |-> cluster, data_center |-> center, zone |-> zone, region |-> Up("region", zone)]
=============================================================================
