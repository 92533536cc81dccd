----------------------------- MODULE GrassNode ------------------------------
(***************************************************************************)
(* A node of a grass cluster: the three processes of its agent service     *)
(* (node_agent/agent.py) and the scripts that join it, start and stop its  *)
(* services and take it out again (lib/scripts/node).                      *)
(*                                                                         *)
(* All of them write the node's entry in Redis under the Redis lock        *)
(* "lock:name_to_node_details:<node>", which has no time limit.  systemd   *)
(* ends the service with SIGTERM to every process; each of them runs       *)
(* gracefully_exit, and a process that is inside the lock at that moment   *)
(* waits for itself until systemd kills it.                                *)
(***************************************************************************)
EXTENDS GrassStore

CONSTANTS Images        \* names of image files that may be pushed

VARIABLES proc,           \* [Nodes -> [process -> what it is doing]]
          snapshot,       \* [Nodes -> containers the tracker inspected]
          seen_images,    \* [Nodes -> image files the image agent read]
          terminated,     \* [Nodes -> processes with a pending SIGTERM]
          lock,           \* [Nodes -> holder of the node's lock, or None]
          master_images   \* image files recorded in the master's details

node_vars == << proc, snapshot, seen_images, terminated, lock, master_images >>
others == << job_details, pending_tickets, killed_tickets, container_details,
             rejoin, restart_times, docker, starts >>

Processes == {"parent", "tracker", "images"}
AllOff == [p \in Processes |-> "off"]
ServiceOff(n) == proc[n] = AllOff


InitNode ==
  /\ snapshot = [n \in Nodes |-> << >>]
  /\ seen_images = [n \in Nodes |-> {}]
  /\ terminated = [n \in Nodes |-> {}]
  /\ lock = [n \in Nodes |-> None]
  /\ master_images = {}

(* NodeJoiner._init_node_details *)
init_node_details == [kind |-> "node", status |-> "Pending", free |-> Nothing,
                      containers |-> << >>, images |-> {}]

(* NodeJoiner, and create_node of the API server: a fresh entry, under the
   node's lock. *)
JoinCluster(n) ==
  /\ ~Exists(node_details[n])
  /\ ServiceOff(n)
  /\ lock[n] = None
  /\ node_details' = [node_details EXCEPT ![n] = init_node_details]
  /\ UNCHANGED << others, api_up, node_vars >>

(* start_node of the API server, and the end of joining: the agent service
   starts, then the API server, whose start may fail. *)
start_node_service(n) ==
  /\ Exists(node_details[n])
  /\ ServiceOff(n)
  /\ proc' = [proc EXCEPT ![n]["parent"] = "init"]
  /\ api_up' \in {api_up, [api_up EXCEPT ![n] = TRUE]}
  /\ UNCHANGED << node_details, others, snapshot, seen_images, terminated, lock,
                  master_images >>

(* NodeAgent._init_resources, then the agents are started (forked while a
   stop is under way, they are sent SIGTERM as well). *)
init_resources(n) ==
  /\ proc[n]["parent"] = "init"
  /\ lock[n] = None
  /\ proc' = [proc EXCEPT ![n] = [p \in Processes |-> "idle"]]
  /\ terminated' = [terminated EXCEPT ![n] = IF @ = {} THEN {} ELSE Processes]
  /\ UNCHANGED << node_details, others, api_up, snapshot, seen_images, lock,
                  master_images >>

(***************************************************************************)
(* NodeTrackingAgent._update_details                                       *)
(***************************************************************************)
ListContainers(n) ==
  /\ proc[n]["tracker"] = "idle"
  /\ proc' = [proc EXCEPT ![n]["tracker"] = "listed"]
  /\ snapshot' = [snapshot EXCEPT ![n] = docker[n]]
  /\ UNCHANGED << node_details, others, api_up, seen_images, terminated, lock,
                  master_images >>

(* docker inspect of each container listed: it raises for one that has been
   removed meanwhile, which ends the tracker. *)
InspectContainers(n) ==
  /\ proc[n]["tracker"] = "listed"
  /\ LET there == Restrict(docker[n], (DOMAIN snapshot[n]) \cap DOMAIN docker[n])
     IN  /\ snapshot' = [snapshot EXCEPT ![n] = there]
         /\ proc' = [proc EXCEPT ![n]["tracker"] =
              IF DOMAIN there = DOMAIN snapshot[n] THEN "read" ELSE "dead"]
  /\ UNCHANGED << node_details, others, api_up, seen_images, terminated, lock,
                  master_images >>

(* Enter the lock: tracker and image agent alike.  A process that has been
   sent SIGTERM goes on until its handler runs. *)
EnterLock(n, p) ==
  /\ proc[n][p] = "read"
  /\ lock[n] = None
  /\ proc' = [proc EXCEPT ![n][p] = "locked"]
  /\ lock' = [lock EXCEPT ![n] = p]
  /\ UNCHANGED << node_details, others, api_up, snapshot, seen_images, terminated,
                  master_images >>

(* _update_occupied_resources: the labels of the running containers. *)
TargetFree(n, containers) ==
  LET up == { c \in DOMAIN containers : containers[c] = Running }
      occupied(m) == SumFunctionOnSet([c \in up |-> Demand[c[1]][c[2]][m]], up)
  IN  [m \in Metrics |-> Capacity[n][m] - occupied(m)]

update_details(n) ==
  /\ proc[n]["tracker"] = "locked"
  /\ node_details' = [node_details EXCEPT
       ![n].containers = snapshot[n],
       ![n].free = TargetFree(n, snapshot[n]),
       ![n].status = "Running"]
  /\ proc' = [proc EXCEPT ![n]["tracker"] = "idle"]
  /\ lock' = [lock EXCEPT ![n] = None]
  /\ snapshot' = [snapshot EXCEPT ![n] = << >>]
  /\ UNCHANGED << others, api_up, seen_images, terminated, master_images >>

(***************************************************************************)
(* LoadImageAgent.load_images.  The path of a new image file is built from *)
(* a literal that is not a format string, so loading fails and the agent's *)
(* process ends whenever there is one.                                     *)
(***************************************************************************)
ReadImages(n) ==
  /\ proc[n]["images"] = "idle"
  /\ proc' = [proc EXCEPT ![n]["images"] =
       IF master_images \subseteq node_details[n].images THEN "read" ELSE "dead"]
  /\ seen_images' = [seen_images EXCEPT ![n] = master_images]
  /\ UNCHANGED << node_details, others, api_up, snapshot, terminated, lock,
                  master_images >>

load_images(n) ==
  /\ proc[n]["images"] = "locked"
  /\ node_details' = [node_details EXCEPT ![n].images = seen_images[n]]
  /\ proc' = [proc EXCEPT ![n]["images"] = "idle"]
  /\ lock' = [lock EXCEPT ![n] = None]
  /\ seen_images' = [seen_images EXCEPT ![n] = {}]
  /\ UNCHANGED << others, api_up, snapshot, terminated, master_images >>

(***************************************************************************)
(* Stopping and leaving.                                                   *)
(***************************************************************************)
(* stop_node: the API server stops, then the agent service is sent SIGTERM,
   unless that call fails. *)
stop_node_service(n) ==
  /\ ~ServiceOff(n)
  /\ terminated[n] = {}
  /\ \/ UNCHANGED terminated
     \/ terminated' = [terminated EXCEPT ![n] = { p \in Processes :
                                                  proc[n][p] \notin {"off", "dead"} }]
  /\ api_up' = [api_up EXCEPT ![n] = FALSE]
  /\ UNCHANGED << node_details, others, proc, snapshot, seen_images, lock,
                  master_images >>

(* Mutant: only the parent process handles SIGTERM. *)
gracefully_exit_parent_only(n, p) ==
  /\ p \in terminated[n]
  /\ lock[n] = None
  /\ node_details' = IF Exists(node_details[n]) /\ p = "parent"
                     THEN [node_details EXCEPT ![n].status = "Stopped"]
                     ELSE node_details
  /\ proc' = [proc EXCEPT ![n][p] = "off"]
  /\ terminated' = [terminated EXCEPT ![n] = @ \ {p}]
  /\ UNCHANGED << others, api_up, snapshot, seen_images, lock, master_images >>

(* NodeAgent.gracefully_exit, in every process: the forked agents inherit
   the handler.  It waits for the lock, also when its process holds it, and
   runs in a process that is about to end with an exception as well. *)
gracefully_exit(n, p) ==
  /\ p \in terminated[n]
  /\ lock[n] = None
  /\ node_details' = IF Exists(node_details[n])
                     THEN [node_details EXCEPT ![n].status = "Stopped"]
                     ELSE node_details
  /\ proc' = [proc EXCEPT ![n][p] = "off"]
  /\ terminated' = [terminated EXCEPT ![n] = @ \ {p}]
  /\ UNCHANGED << others, api_up, snapshot, seen_images, lock, master_images >>

(* systemd gives up waiting: SIGKILL to what is left.  The lock stays. *)
KillService(n) ==
  /\ terminated[n] # {}
  /\ lock[n] \in terminated[n]
  /\ proc' = [proc EXCEPT ![n] = AllOff]
  /\ terminated' = [terminated EXCEPT ![n] = {}]
  /\ UNCHANGED << node_details, others, api_up, snapshot, seen_images, lock,
                  master_images >>

(* Every process answered its signal: the unit is stopped. *)
ServiceStopped(n) ==
  /\ terminated[n] = {}
  /\ proc[n]["parent"] = "off"
  /\ ~ServiceOff(n)
  /\ proc' = [proc EXCEPT ![n] = AllOff]
  /\ UNCHANGED << node_details, others, api_up, snapshot, seen_images, terminated,
                  lock, master_images >>

(* delete_node, and activate_leave_cluster on the node: leave_cluster.py has stopped the
   services, then the entry is deleted (without the lock). *)
delete_node(n) ==
  /\ Exists(node_details[n])
  /\ ServiceOff(n)
  /\ ~api_up[n]
  /\ node_details' = [node_details EXCEPT ![n] = NoDetails]
  /\ UNCHANGED << others, api_up, node_vars >>

(* create_image_file of the API server (under the lock of the master's
   details, which nothing else takes). *)
PushImage(i) ==
  /\ master_images' = master_images \cup {i}
  /\ i \notin master_images
  /\ UNCHANGED << node_details, others, api_up, proc, snapshot, seen_images,
                  terminated, lock >>

NodeSteps(n) ==
  \/ init_resources(n) \/ ListContainers(n) \/ InspectContainers(n) \/ update_details(n)
  \/ load_images(n)
  \/ \E p \in {"tracker", "images"} : EnterLock(n, p)
  \/ \E p \in Processes : gracefully_exit(n, p)
  \/ KillService(n) \/ ServiceStopped(n)
=============================================================================
