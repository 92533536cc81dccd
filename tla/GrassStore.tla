----------------------------- MODULE GrassStore -----------------------------
(***************************************************************************)
(* What the processes of a grass cluster share: the Redis database of the *)
(* MARO master (cli/grass/lib/services/utils/redis_controller.py) and the *)
(* docker daemons of the nodes.                                            *)
(*                                                                         *)
(* A container is named <<job, index, serial>>: the code names it after    *)
(* the job id, the component and a fresh uuid, which is the serial here.   *)
(***************************************************************************)
EXTENDS Integers, Sequences, FiniteSets, SequencesExt, Functions

CONSTANTS Nodes,        \* names of the machines that may join
          Jobs,         \* names of jobs; each name is submitted at most once
          Metrics,      \* the kinds of resource
          Capacity,     \* Capacity[n] : what node n offers, per metric
          Demand,       \* Demand[j] : the requirement of each container of job j
          Components,   \* the component types of jobs
          Component,    \* Component[j] : the type of each container of job j
          MaxStarts     \* bound: containers ever created for one component index

ASSUME NodesAssumption == IsFiniteSet(Nodes) /\ Capacity \in [Nodes -> [Metrics -> Nat]]
ASSUME DemandAssumption == Demand \in [Jobs -> Seq([Metrics -> Nat])]

Indices(j) == 1..Len(Demand[j])

ASSUME ComponentAssumption == \A j \in Jobs : \A i \in Indices(j) : Component[j][i] \in Components

Running == "running"                      \* docker states: running, or the exit code
ExitStates == {"exit0", "exit1", "exit64", "exit65"}
NotRestarted == {"exit0", "exit64", "exit65"}

NoDetails == [kind |-> "none"]            \* hget found nothing
None == "None"
Nothing == << >>                          \* an entry that is not there yet

VARIABLES
  node_details,      \* [Nodes -> NoDetails or details]
  job_details,       \* [Jobs -> NoDetails or details]
  pending_tickets,   \* Seq(Jobs)
  killed_tickets,    \* Seq(Jobs)
  container_details, \* container -> [state, node], as last listed
  rejoin,            \* [Jobs -> [index -> container or Nothing]]
  restart_times,     \* [Jobs -> [Components -> Nat]], by job id and component id
  docker,            \* [Nodes -> container -> docker state]
  starts,            \* [Jobs -> [index -> Nat]]: serials handed out
  api_up             \* [Nodes -> BOOLEAN]: the node API server answers

store == << node_details, job_details, pending_tickets, killed_tickets,
            container_details, rejoin, restart_times >>
machines == << docker, starts, api_up >>

Exists(details) == details.kind # "none"

(* remove_pending_job_ticket and remove_killed_job_ticket: LREM with count
   0 takes every occurrence. *)
Without(queue, jobs) ==
  LET kept[k \in 0 .. Len(queue)] ==
        IF k = 0 THEN << >>
        ELSE IF queue[k] \in jobs THEN kept[k - 1]
        ELSE Append(kept[k - 1], queue[k])
  IN  kept[Len(queue)]

(* set_multiple_container_details: the key it deletes first is not the one
   it fills, so entries of containers that are gone stay listed. *)
set_multiple_container_details(listed) ==
  container_details' =
    [c \in (DOMAIN listed) \cup (DOMAIN container_details) |->
       IF c \in DOMAIN listed THEN listed[c] ELSE container_details[c]]

(* get_rejoin_container_name_to_component_name *)
get_rejoin_container_name_to_component_name(j) ==
  { rejoin[j][i] : i \in Indices(j) } \ {Nothing}

delete_rejoin_container_name_to_component_name(j) ==
  rejoin' = [rejoin EXCEPT ![j] = [i \in Indices(j) |-> Nothing]]

(* create_job of the API server: HSET of the details the command line
   completed (status pending, no containers), then RPUSH of the ticket. *)
SubmittedJob(status) == [kind |-> "job", status |-> status,
                         containers |-> << >>]

InitStore ==
  /\ job_details = [j \in Jobs |-> NoDetails]
  /\ pending_tickets = << >>
  /\ killed_tickets = << >>
  /\ container_details = << >>
  /\ rejoin = [j \in Jobs |-> [i \in Indices(j) |-> Nothing]]
  /\ restart_times = [j \in Jobs |-> [t \in Components |-> 0]]
  /\ docker = [n \in Nodes |-> << >>]
  /\ starts = [j \in Jobs |-> [i \in Indices(j) |-> 0]]

(***************************************************************************)
(* The node API server and its docker daemon.                              *)
(***************************************************************************)
NextName(j, i) == <<j, i, starts[j][i] + 1>>

WithContainer(containers, c) ==
  [x \in (DOMAIN containers) \cup {c} |-> IF x = c THEN Running ELSE containers[x]]

create_container(n, j, i) ==
  /\ docker' = [docker EXCEPT ![n] = WithContainer(@, NextName(j, i))]
  /\ starts' = [starts EXCEPT ![j][i] = @ + 1]

(* docker rm -f of a set of containers, wherever they are *)
RemoveAll(d, names) ==
  [n \in Nodes |-> [c \in (DOMAIN d[n]) \ names |-> d[n][c]]]

(* docker stop: a running container exits with the code of its signal *)
StopAll(d, names) ==
  [n \in Nodes |-> [c \in DOMAIN d[n] |->
     IF c \in names /\ d[n][c] = Running THEN "exit1" ELSE d[n][c]]]
=============================================================================
