------------------------ MODULE OrchestrationProofs -------------------------
(***************************************************************************)
(* What is proved about clusters and local jobs, for every number of nodes,*)
(* jobs, commands and failing calls: a grass node that has been stopped is *)
(* not offered for containers (GrassNode), the containers of a job are     *)
(* placed within what the nodes have free and started once, restarts aside *)
(* (GrassMaster, GrassCluster), the nodes that a master lists have a       *)
(* machine (GrassProvisioning), the jobs of a Kubernetes cluster are known *)
(* by their names (K8sCluster), and the local job manager keeps to its     *)
(* limit and lists what it runs (LocalJobs).                               *)
(***************************************************************************)
EXTENDS Orchestration, DataLemmas, FiniteSetTheorems, SequenceTheorems, TLAPS

-----------------------------------------------------------------------------
(* Grass nodes.  The processes of a node stop one after the other, and     *)
(* what the last of them writes about the node decides whether the master  *)
(* places containers on it.                                                *)

IsDetails(d) ==
  /\ DOMAIN d = {"kind", "status", "free", "containers", "images"}
  /\ d = [x \in DOMAIN d |-> d[x]]
  /\ d.kind = "node"

NodeTypeOK ==
  /\ node_details = [n \in Nodes |-> node_details[n]]
  /\ \A n \in Nodes : node_details[n] = NoDetails \/ IsDetails(node_details[n])
  /\ proc \in [Nodes -> [Processes -> {"off", "init", "idle", "listed", "read", "locked", "dead"}]]
  /\ \A n \in Nodes : proc[n]["tracker"] /= "init"
  /\ terminated \in [Nodes -> SUBSET Processes]
  /\ lock = [n \in Nodes |-> lock[n]]

Live(n, p) == proc[n][p] \notin {"off", "dead"}

(* A process with a pending SIGTERM has not ended; once one has been sent, *)
(* or the parent has gone, every process that runs has one pending.        *)
SignalsInv ==
  \A n \in Nodes :
    /\ \A p \in terminated[n] : proc[n][p] /= "off"
    /\ terminated[n] /= {} \/ proc[n]["parent"] = "off"
         => \A p \in Processes : Live(n, p) => p \in terminated[n]

(* Once the tracker has gone, or has died before it was sent SIGTERM and   *)
(* the parent has gone, nobody writes "Running" any more - unless it was   *)
(* killed inside the lock, which then is held for ever.                    *)
NoLateReport ==
  \A n \in Nodes :
    /\ \/ proc[n]["tracker"] = "off"
       \/ proc[n]["tracker"] = "dead" /\ proc[n]["parent"] = "off" /\ "tracker" \notin terminated[n]
    /\ Exists(node_details[n])
    /\ lock[n] = None \/ (lock[n] = "images" /\ proc[n]["images"] = "locked")
    => node_details[n].status /= "Running"

(* A process inside the lock holds it. *)
LockInv == \A n \in Nodes : \A p \in Processes : proc[n][p] = "locked" => lock[n] = p

NodesInv == NodeTypeOK /\ SignalsInv /\ LockInv /\ NoLateReport

(* The invariant at one node. *)
AtNode(nd, pr, te, lo) ==
  /\ nd = NoDetails \/ IsDetails(nd)
  /\ pr \in [Processes -> {"off", "init", "idle", "listed", "read", "locked", "dead"}]
  /\ pr["tracker"] /= "init"
  /\ te \subseteq Processes
  /\ \A p \in te : pr[p] /= "off"
  /\ te /= {} \/ pr["parent"] = "off"
       => \A p \in Processes : pr[p] \notin {"off", "dead"} => p \in te
  /\ \A p \in Processes : pr[p] = "locked" => lo = p
  /\ /\ \/ pr["tracker"] = "off"
        \/ pr["tracker"] = "dead" /\ pr["parent"] = "off" /\ "tracker" \notin te
     /\ Exists(nd)
     /\ lo = None \/ (lo = "images" /\ pr["images"] = "locked")
     => nd.status /= "Running"

(* The invariant holds when it holds at every node.                        *)
LEMMA NodeByNode ==
  NodesInv <=>
    /\ node_details = [n \in Nodes |-> node_details[n]]
    /\ proc = [n \in Nodes |-> proc[n]]
    /\ terminated = [n \in Nodes |-> terminated[n]]
    /\ lock = [n \in Nodes |-> lock[n]]
    /\ \A n \in Nodes : AtNode(node_details[n], proc[n], terminated[n], lock[n])
  BY DEF NodesInv, NodeTypeOK, SignalsInv, LockInv, NoLateReport, AtNode, Live
(* A step that leaves node n in this state, and the other nodes as they    *)
(* are.                                                                    *)
Becomes(n, nd, pr, te, lo) ==
  /\ node_details' = [node_details EXCEPT ![n] = nd]
  /\ proc' = [proc EXCEPT ![n] = pr]
  /\ terminated' = [terminated EXCEPT ![n] = te]
  /\ lock' = [lock EXCEPT ![n] = lo]

(* Such a step keeps the invariant when it holds at node n afterwards.     *)
LEMMA OneNodeChanges ==
  ASSUME NodesInv, NEW n \in Nodes, NEW nd, NEW pr, NEW te, NEW lo,
         Becomes(n, nd, pr, te, lo),
         AtNode(nd, pr, te, lo)
  PROVE  NodesInv'
<1> USE DEF Becomes
<1>1. /\ node_details = [m \in Nodes |-> node_details[m]]
      /\ proc = [m \in Nodes |-> proc[m]]
      /\ terminated = [m \in Nodes |-> terminated[m]]
      /\ lock = [m \in Nodes |-> lock[m]]
      /\ \A m \in Nodes : AtNode(node_details[m], proc[m], terminated[m], lock[m])
  BY NodeByNode
<1>2. /\ node_details' = [m \in Nodes |-> node_details'[m]]
      /\ proc' = [m \in Nodes |-> proc'[m]]
      /\ terminated' = [m \in Nodes |-> terminated'[m]]
      /\ lock' = [m \in Nodes |-> lock'[m]]
  BY <1>1
<1>3. ASSUME NEW m \in Nodes
      PROVE  AtNode(node_details'[m], proc'[m], terminated'[m], lock'[m])
 <2>1. CASE m = n BY <1>1, <2>1
 <2>2. CASE m /= n BY <1>1, <2>2
 <2> QED  BY <2>1, <2>2
<1> QED  BY <1>2, <1>3, NodeByNode, Zenon DEF NodesInv, NodeTypeOK, SignalsInv, LockInv, NoLateReport, AtNode, Live

(* The commands about a node: it joins, its services start and stop, it is
   deleted. *)
LEMMA NodeServiceKeeps ==
  ASSUME NodesInv, NEW n \in Nodes,
         \/ JoinCluster(n)
         \/ start_node_service(n)
         \/ stop_node_service(n)
         \/ delete_node(n)
  PROVE  NodesInv'
<1>1. /\ node_details = [m \in Nodes |-> node_details[m]]
      /\ proc = [m \in Nodes |-> proc[m]]
      /\ terminated = [m \in Nodes |-> terminated[m]]
      /\ lock = [m \in Nodes |-> lock[m]]
      /\ AtNode(node_details[n], proc[n], terminated[n], lock[n])
  BY NodeByNode
<1>2. CASE JoinCluster(n)
 <2> DEFINE nd == init_node_details
            pr == proc[n]
            te == terminated[n]
 <2>1. AtNode(nd, pr, te, lock[n])
   BY <1>1, <1>2 DEF JoinCluster, init_node_details, IsDetails, AtNode, Processes, AllOff, ServiceOff, Exists, NoDetails, None
 <2>2. Becomes(n, nd, pr, te, lock[n]) BY <1>1, <1>2 DEF JoinCluster, node_vars, Becomes
 <2> QED  BY <2>1, <2>2, OneNodeChanges
<1>3. CASE start_node_service(n)
 <2> DEFINE nd == node_details[n]
            pr == [proc[n] EXCEPT !["parent"] = "init"]
            te == terminated[n]
 <2>1. AtNode(nd, pr, te, lock[n])
   BY <1>1, <1>3 DEF start_node_service, AtNode, Processes, AllOff, ServiceOff, Exists, NoDetails, None
 <2>2. Becomes(n, nd, pr, te, lock[n]) BY <1>1, <1>3 DEF start_node_service, Becomes
 <2> QED  BY <2>1, <2>2, OneNodeChanges
<1>4. CASE stop_node_service(n)
 <2> DEFINE nd == node_details[n]
            pr == proc[n]
            te == terminated'[n]
 <2>0. te \in {terminated[n], {p \in Processes : proc[n][p] \notin {"off", "dead"}}}
   BY <1>1, <1>4 DEF stop_node_service
 <2> HIDE DEF te
 <2>1. AtNode(nd, pr, te, lock[n])
   BY <1>1, <1>4, <2>0 DEF stop_node_service, AtNode, Processes, AllOff, ServiceOff, Exists, NoDetails, None
 <2>2. Becomes(n, nd, pr, te, lock[n]) BY <1>1, <1>4 DEF stop_node_service, Becomes, te
 <2> QED  BY <2>1, <2>2, OneNodeChanges
<1>5. CASE delete_node(n)
 <2> DEFINE nd == NoDetails
            pr == proc[n]
            te == terminated[n]
 <2>1. AtNode(nd, pr, te, lock[n])
   BY <1>1, <1>5 DEF delete_node, AtNode, Processes, AllOff, ServiceOff, Exists, NoDetails, None
 <2>2. Becomes(n, nd, pr, te, lock[n]) BY <1>1, <1>5 DEF delete_node, node_vars, Becomes
 <2> QED  BY <2>1, <2>2, OneNodeChanges
<1> QED  BY <1>2, <1>3, <1>4, <1>5

(* Details that are rewritten stay details. *)
LEMMA DetailsUpdated ==
  ASSUME NEW d, NEW a, NEW b, NEW c, IsDetails(d)
  PROVE  IsDetails([d EXCEPT !.containers = a, !.free = b, !.status = c])
<1> DEFINE e == [d EXCEPT !.containers = a, !.free = b, !.status = c]
<1>1. DOMAIN e = DOMAIN d /\ e = [x \in DOMAIN e |-> e[x]] BY DEF IsDetails
<1>2. e.kind = "node" BY DEF IsDetails
<1> QED  BY <1>1, <1>2 DEF IsDetails

(* The processes of a node at work. *)
LEMMA NodeAgentKeeps ==
  ASSUME NodesInv, NEW n \in Nodes,
         \/ init_resources(n)
         \/ ListContainers(n)
         \/ InspectContainers(n)
         \/ update_details(n)
         \/ ReadImages(n)
         \/ load_images(n)
         \/ KillService(n)
         \/ ServiceStopped(n)
  PROVE  NodesInv'
<1>1. /\ node_details = [m \in Nodes |-> node_details[m]]
      /\ proc = [m \in Nodes |-> proc[m]]
      /\ terminated = [m \in Nodes |-> terminated[m]]
      /\ lock = [m \in Nodes |-> lock[m]]
      /\ AtNode(node_details[n], proc[n], terminated[n], lock[n])
  BY NodeByNode
<1>2. CASE init_resources(n)
 <2> DEFINE nd == node_details[n]
            pr == [p \in Processes |-> "idle"]
            te == IF terminated[n] = {} THEN {} ELSE Processes
 <2>1. AtNode(nd, pr, te, lock[n])
   BY <1>1, <1>2 DEF init_resources, AtNode, Processes, AllOff, ServiceOff, Exists, NoDetails, None
 <2>2. Becomes(n, nd, pr, te, lock[n]) BY <1>1, <1>2 DEF init_resources, Becomes
 <2> QED  BY <2>1, <2>2, OneNodeChanges
<1>3. CASE ListContainers(n) \/ InspectContainers(n)
 <2> DEFINE nd == node_details[n]
            te == terminated[n]
 <2>1. PICK at \in {"listed", "read", "dead"} :
          /\ proc[n]["tracker"] \in {"idle", "listed"}
          /\ proc' = [proc EXCEPT ![n]["tracker"] = at]
          /\ UNCHANGED <<node_details, terminated, lock>>
   BY <1>3 DEF ListContainers, InspectContainers
 <2> DEFINE pr == [proc[n] EXCEPT !["tracker"] = at]
 <2>2. AtNode(nd, pr, te, lock[n])
   BY <1>1, <2>1 DEF AtNode, Processes, AllOff, ServiceOff, Exists, NoDetails, None
 <2>3. Becomes(n, nd, pr, te, lock[n]) BY <1>1, <2>1 DEF Becomes
 <2> QED  BY <2>2, <2>3, OneNodeChanges
<1>4. CASE update_details(n)
 <2> DEFINE nd == [node_details[n] EXCEPT !.containers = snapshot[n], !.free = TargetFree(n, snapshot[n]), !.status = "Running"]
            pr == [proc[n] EXCEPT !["tracker"] = "idle"]
            te == terminated[n]
 <2>1. AtNode(nd, pr, te, None)
  <3>1. CASE node_details[n] = NoDetails
   <4>1. nd = NoDetails BY <3>1 DEF NoDetails
   <4> HIDE DEF nd
   <4> QED  BY <1>1, <1>4, <4>1 DEF update_details, AtNode, Processes, Exists, NoDetails, None
  <3>2. CASE IsDetails(node_details[n])
   <4>2. IsDetails(nd) BY <3>2, DetailsUpdated
   <4> HIDE DEF nd
   <4> QED  BY <1>1, <1>4, <3>2, <4>2 DEF update_details, AtNode, Processes, None
  <3> QED  BY <1>1, <3>1, <3>2 DEF AtNode
 <2>2. Becomes(n, nd, pr, te, None) BY <1>1, <1>4 DEF update_details, Becomes
 <2> QED  BY <2>1, <2>2, OneNodeChanges
<1>5. CASE ReadImages(n)
 <2> DEFINE nd == node_details[n]
            pr == [proc[n] EXCEPT !["images"] = IF master_images \subseteq node_details[n].images THEN "read" ELSE "dead"]
            te == terminated[n]
 <2>1. AtNode(nd, pr, te, lock[n])
   BY <1>1, <1>5 DEF ReadImages, AtNode, Processes, AllOff, ServiceOff, Exists, NoDetails, None
 <2>2. Becomes(n, nd, pr, te, lock[n]) BY <1>1, <1>5 DEF ReadImages, Becomes
 <2> QED  BY <2>1, <2>2, OneNodeChanges
<1>6. CASE load_images(n)
 <2> DEFINE nd == [node_details[n] EXCEPT !.images = seen_images[n]]
            pr == [proc[n] EXCEPT !["images"] = "idle"]
            te == terminated[n]
 <2>1. AtNode(nd, pr, te, None)
  <3>1. CASE node_details[n] = NoDetails
   <4>1. nd = NoDetails BY <3>1 DEF NoDetails
   <4> HIDE DEF nd
   <4> QED  BY <1>1, <1>6, <4>1 DEF load_images, AtNode, Processes, Exists, NoDetails, None
  <3>2. CASE IsDetails(node_details[n])
   <4>1. IsDetails(nd) /\ nd.status = node_details[n].status /\ Exists(nd) = Exists(node_details[n])
     BY <3>2 DEF IsDetails, Exists
   <4> HIDE DEF nd
   <4> QED  BY <1>1, <1>6, <3>2, <4>1 DEF load_images, AtNode, Processes, None
  <3> QED  BY <1>1, <3>1, <3>2 DEF AtNode
 <2>2. Becomes(n, nd, pr, te, None) BY <1>1, <1>6 DEF load_images, Becomes
 <2> QED  BY <2>1, <2>2, OneNodeChanges
<1>7. CASE KillService(n)
 <2> DEFINE nd == node_details[n]
            pr == AllOff
            te == {}
 <2>1. AtNode(nd, pr, te, lock[n])
   BY <1>1, <1>7 DEF KillService, AtNode, Processes, AllOff, ServiceOff, Exists, NoDetails, None
 <2>2. Becomes(n, nd, pr, te, lock[n]) BY <1>1, <1>7 DEF KillService, Becomes
 <2> QED  BY <2>1, <2>2, OneNodeChanges
<1>8. CASE ServiceStopped(n)
 <2> DEFINE nd == node_details[n]
            pr == AllOff
            te == terminated[n]
 <2>1. AtNode(nd, pr, te, lock[n])
   BY <1>1, <1>8 DEF ServiceStopped, AtNode, Processes, AllOff, ServiceOff, Exists, NoDetails, None
 <2>2. Becomes(n, nd, pr, te, lock[n]) BY <1>1, <1>8 DEF ServiceStopped, Becomes
 <2> QED  BY <2>1, <2>2, OneNodeChanges
<1> QED  BY <1>2, <1>3, <1>4, <1>5, <1>6, <1>7, <1>8
(* Entering the lock, and the end of a process by SIGTERM. *)
LEMMA NodeLockKeeps ==
  ASSUME NodesInv, NEW n \in Nodes, NEW p \in Processes,
         EnterLock(n, p) \/ gracefully_exit(n, p)
  PROVE  NodesInv'
<1>1. /\ node_details = [m \in Nodes |-> node_details[m]]
      /\ proc = [m \in Nodes |-> proc[m]]
      /\ terminated = [m \in Nodes |-> terminated[m]]
      /\ lock = [m \in Nodes |-> lock[m]]
      /\ AtNode(node_details[n], proc[n], terminated[n], lock[n])
  BY NodeByNode
<1>2. CASE EnterLock(n, p)
 <2> DEFINE pr == [proc[n] EXCEPT ![p] = "locked"]
 <2>1. AtNode(node_details[n], pr, terminated[n], p)
   BY <1>1, <1>2 DEF EnterLock, AtNode, Processes, None
 <2>2. Becomes(n, node_details[n], pr, terminated[n], p)
   BY <1>1, <1>2 DEF EnterLock, Becomes
 <2> QED  BY <2>1, <2>2, OneNodeChanges
<1>3. CASE gracefully_exit(n, p)
 <2> DEFINE nd == IF Exists(node_details[n]) THEN [node_details[n] EXCEPT !.status = "Stopped"]
                  ELSE node_details[n]
            pr == [proc[n] EXCEPT ![p] = "off"]
            te == terminated[n] \ {p}
 <2>1. (nd = NoDetails \/ IsDetails(nd)) /\ (Exists(nd) => nd.status = "Stopped")
   BY <1>1 DEF AtNode, IsDetails, Exists, NoDetails
 <2>2. AtNode(nd, pr, te, lock[n])
  <3> HIDE DEF nd
  <3> QED  BY <1>1, <1>3, <2>1 DEF gracefully_exit, AtNode, Processes, None
 <2>3. Becomes(n, nd, pr, te, lock[n]) BY <1>1, <1>3 DEF gracefully_exit, Becomes
 <2> HIDE DEF nd, pr, te
 <2> QED  BY <2>2, <2>3, OneNodeChanges
<1> QED  BY <1>2, <1>3

(* Everything else that happens in a grass cluster leaves the nodes'       *)
(* entries, processes, signals and locks alone.                            *)
LEMMA ServicesKeep ==
  ASSUME NodesInv, ServicesNext \/ UNCHANGED cluster_vars
  PROVE  NodesInv'
<1> USE DEF cluster_vars, node_vars, user_vars, store, machines, agents
<1>1. ASSUME UNCHANGED << node_details, proc, terminated, lock >>
      PROVE  NodesInv'
  BY <1>1 DEF NodesInv, NodeTypeOK, SignalsInv, LockInv, NoLateReport, Live
<1>2. CASE MasterSteps /\ UNCHANGED << node_vars, user_vars >>
  BY <1>1, <1>2 DEF MasterSteps, update_name_to_container_details, SaveJob, ReadPendingTickets,
     PlanJob, StartPlanned, FinishStart, ReadKilledTickets, ReadKilledJob, kill_job, ReadContainers, LookAt
<1>3. CASE ReadJobs /\ Spend("tracks") /\ UNCHANGED << node_vars, submitted, dropping >>
  BY <1>1, <1>3 DEF ReadJobs
<1>4. CASE (\E n \in Nodes : NodeSteps(n)) /\ UNCHANGED << agents, user_vars >>
  BY <1>4, NodeAgentKeeps, NodeLockKeeps DEF NodeSteps, Processes
<1>5. CASE (\E n \in Nodes : ReadImages(n)) /\ Spend("images") /\ UNCHANGED << agents, submitted, dropping >>
  BY <1>5, NodeAgentKeeps
<1>6. CASE (\E j \in Jobs : start_job(j) \/ StopJobCommand(j)) \/ delete_job
  BY <1>1, <1>6 DEF start_job, create_job, StopJobCommand, delete_job
<1>7. CASE start_schedule \/ stop_schedule \/ clean_jobs
  BY <1>1, <1>7 DEF start_schedule, create_schedule, stop_schedule, clean_jobs
<1>8. CASE NodeCommand BY <1>8, NodeServiceKeeps DEF NodeCommand
<1>9. CASE ImageCommand BY <1>1, <1>9 DEF ImageCommand, PushImage
<1>10. CASE \E n \in Nodes : \E c \in DOMAIN docker[n] :
              ContainerRegisters(n, c) \/ \E s \in ExitStates : ContainerExits(n, c, s)
  BY <1>1, <1>10 DEF ContainerRegisters, ContainerExits
<1>11. CASE UNCHANGED cluster_vars BY <1>1, <1>11
<1> QED  BY <1>2, <1>3, <1>4, <1>5, <1>6, <1>7, <1>8, <1>9, <1>10, <1>11 DEF ServicesNext

(* The cluster starts with idle processes. *)
LEMMA ServicesStart == ServicesInit => NodesInv
<1> SUFFICES ASSUME ServicesInit PROVE NodesInv
  OBVIOUS
<1> USE DEF ServicesInit, Joined, InitNode
<1>1. ASSUME NEW n \in Nodes
      PROVE  AtNode(node_details[n], proc[n], terminated[n], lock[n])
 <2> DEFINE nd == [init_node_details EXCEPT !.status = "Running", !.free = Capacity[n]]
 <2>1. IsDetails(init_node_details) BY DEF IsDetails, init_node_details
 <2>2. IsDetails(nd) BY <2>1 DEF IsDetails
 <2>3. node_details[n] = nd OBVIOUS
 <2> HIDE DEF nd
 <2> QED  BY <2>2, <2>3 DEF AtNode, Processes
<1> QED  BY <1>1, NodeByNode

LEMMA NodesInvSuffices == NodesInv => StoppedWhenGone
  BY DEF NodesInv, NoLateReport, StoppedWhenGone, ServiceOff, AllOff, Processes

(* A step of the orchestration is a step of one part. *)
LEMMA PartsTakeTurns ==
  ASSUME OrchestrationNext \/ UNCHANGED orchestrationVars
  PROVE  /\ ServicesNext \/ UNCHANGED cluster_vars
         /\ KubeNext \/ UNCHANGED kubeVars
         /\ LocalNext \/ UNCHANGED localVars
  BY DEF OrchestrationNext, orchestrationVars

(* A node whose service has ended in good order is not offered for new     *)
(* containers.                                                             *)
THEOREM OrchestrationStopsNodes == OrchestrationSpec => []StoppedWhenGone
<1>1. OrchestrationInit => NodesInv BY ServicesStart DEF OrchestrationInit
<1>2. NodesInv /\ [OrchestrationNext]_orchestrationVars => NodesInv'
  BY ServicesKeep, PartsTakeTurns
<1> QED  BY <1>1, <1>2, NodesInvSuffices, PTL DEF OrchestrationSpec

-----------------------------------------------------------------------------
(* Kubernetes clusters.                                                    *)

(* "maro aks init", which empties the folder when it fails, needs the      *)
(* second conjunct about aks: there is no job before the configuration.    *)
KubeInv ==
  /\ \A j \in kjobs : j.name \in DOMAIN kdetails /\ [name |-> j.name, id |-> kdetails[j.name].id] = j
  /\ aks.jobs \subseteq aks.dirs
  /\ ~ aks.conf => aks.jobs = {}
  /\ DOMAIN aks = {"conf", "group", "dirs", "jobs"}
  /\ aks = [x \in DOMAIN aks |-> aks[x]]

(* A job is started under a name that is free, so no other job loses its   *)
(* details.                                                                *)
LEMMA StartedJobIsKnown ==
  ASSUME KubeInv, NEW name, NEW tag, _start_job(name, tag), UNCHANGED aks
  PROVE  KubeInv'
<1>1. CASE UNCHANGED <<kdetails, kjobs>> BY <1>1 DEF KubeInv
<1>2. CASE /\ name \notin DOMAIN kdetails
           /\ kdetails' = Put(kdetails, name, [id |-> nextId, tag |-> tag])
           /\ kjobs' = kjobs \/ kjobs' = kjobs \cup {[name |-> name, id |-> nextId]}
 <2>1. DOMAIN kdetails' = DOMAIN kdetails \cup {name} BY <1>2 DEF Put
 <2>2. kdetails'[name].id = nextId BY <1>2 DEF Put
 <2>3. \A x \in DOMAIN kdetails : kdetails'[x] = kdetails[x] BY <1>2 DEF Put
 <2>4. ASSUME NEW j \in kjobs
       PROVE  j.name \in DOMAIN kdetails' /\ [name |-> j.name, id |-> kdetails'[j.name].id] = j
   BY <2>1, <2>3 DEF KubeInv
 <2> QED  BY <1>2, <2>1, <2>2, <2>4 DEF KubeInv
<1> QED  BY <1>1, <1>2 DEF _start_job, _create_k8s_job

(* Jobs are lost with the cluster that ran them.                           *)
LEMMA KubeKeeps ==
  ASSUME KubeInv, KubeNext \/ UNCHANGED kubeVars
  PROVE  KubeInv'
<1> USE DEF kubeVars, cluster, configMaps
<1>1. ASSUME kjobs' \subseteq kjobs, UNCHANGED <<kdetails, aks>>
      PROVE  KubeInv'
  BY <1>1 DEF KubeInv
<1>2. ASSUME kjobs' = {}, UNCHANGED aks
      PROVE  KubeInv'
  BY <1>2 DEF KubeInv
<1>3. CASE k8s_create \/ create_step \/ create_fails \/ k8s_data \/ job_finishes
  BY <1>1, <1>3 DEF k8s_create, create_step, create_fails, k8s_data, job_finishes
<1>4. CASE k8s_delete BY <1>1, <1>2, <1>4 DEF k8s_delete
<1>5. CASE \E s \in PoolSizes, r \in 0 .. MaxReplicas : k8s_scale_node(s, r)
  BY <1>1, <1>5 DEF k8s_scale_node
<1>6. CASE \E n \in JobNames : k8s_start_job(n) BY <1>6, StartedJobIsKnown DEF k8s_start_job
<1>7. CASE start_schedule_step BY <1>7, StartedJobIsKnown DEF start_schedule_step
<1>8. CASE \E n \in JobNames : k8s_stop_job(n) BY <1>1, <1>8 DEF k8s_stop_job
<1>9. CASE stop_schedule_step BY <1>1, <1>9 DEF stop_schedule_step
<1>10. CASE \E s \in ScheduleNames :
              \/ k8s_stop_schedule(s)
              \/ \E some \in SUBSET JobNames \ {{}} :
                    \E names \in SetToSeqs(some) : k8s_start_schedule(s, names)
  BY <1>1, <1>10 DEF k8s_stop_schedule, k8s_start_schedule
<1>11. CASE aks_init \/ aks_exit
 <2> USE DEF KubeInv
 <2>1. CASE UNCHANGED <<kjobs, kdetails>> /\ aks' = [aks EXCEPT !.conf = TRUE, !.group = TRUE]
   BY <2>1
 <2>2. CASE /\ ~ aks.conf /\ UNCHANGED <<kjobs, kdetails>>
            /\ \E group \in {aks.group, TRUE} : aks' = [aks EXCEPT !.group = group, !.dirs = {}]
   BY <2>2
 <2>3. CASE aks_exit BY <2>3 DEF aks_exit
 <2> QED  BY <1>11, <2>1, <2>2, <2>3 DEF aks_init
<1>12. CASE \E n \in JobNames : aks_add_job(n) \/ aks_remove_jobs(n)
 <2> USE DEF KubeInv
 <2>1. PICK n \in JobNames : aks_add_job(n) \/ aks_remove_jobs(n) BY <1>12
 <2>2. CASE aks_add_job(n)
  <3>1. PICK started \in SUBSET {n} :
           aks' = [aks EXCEPT !.dirs = @ \cup {n}, !.jobs = @ \cup started]
    BY <2>2 DEF aks_add_job
  <3> QED  BY <2>2, <3>1 DEF aks_add_job
 <2>3. CASE aks_remove_jobs(n)
  <3>1. aks' = aks \/ aks' = [aks EXCEPT !.jobs = @ \ {n}] BY <2>3 DEF aks_remove_jobs
  <3> QED  BY <2>3, <3>1 DEF aks_remove_jobs
 <2> QED  BY <2>1, <2>2, <2>3
<1>13. CASE UNCHANGED kubeVars BY <1>1, <1>13
<1> QED  BY <1>3, <1>4, <1>5, <1>6, <1>7, <1>8, <1>9, <1>10, <1>11, <1>12, <1>13 DEF KubeNext

(* Every job that runs on Kubernetes can be stopped by its name, whatever  *)
(* calls fail and however often a name is used.                            *)
THEOREM OrchestrationKnowsKubeJobs == OrchestrationSpec => []KubeJobsAreKnown
<1>1. OrchestrationInit => KubeInv BY DEF OrchestrationInit, KubeInit, KubeInv
<1>2. KubeInv /\ [OrchestrationNext]_orchestrationVars => KubeInv'
  BY KubeKeeps, PartsTakeTurns
<1>3. KubeInv => KubeJobsAreKnown BY DEF KubeInv, KubeJobsAreKnown, JobOf
<1> QED  BY <1>1, <1>2, <1>3, PTL DEF OrchestrationSpec

-----------------------------------------------------------------------------
(* Local jobs.                                                             *)

MonitorStates == {"off", "poll", "look_running", "look_done", "look_failed", "finished",
                  "error", "watch", "term", "hdel", "hdel_conf"}

LocalTypeOK ==
  /\ DOMAIN jobDetails \subseteq LocalJobNames /\ IsFiniteSet(DOMAIN jobDetails)
  /\ process \in [LocalJobNames -> {"none", "running", "done", "failed"}]
  /\ monitors \in [LocalJobNames -> MonitorStates]
  /\ loop \in [pc : {"off", "scan", "image", "start", "started", "dead"}, todo : Seq(LocalJobNames)]
  /\ user = UserIdle \/ user \in [op : {"add", "remove"}, job : LocalJobNames]
  /\ orphans \subseteq LocalJobNames

RunningJobs(d) == {j \in DOMAIN d : d[j] = "running"}

(* A monitor is active from its start until it has deleted the details.    *)
Active(j) == monitors[j] \notin {"off", "hdel_conf"}

Starting == loop.pc \in {"image", "start", "started"}

(* The jobs the loop is starting are listed, nobody monitors them, and     *)
(* there is room for all of them beside those that run.                    *)
LoopInv ==
  /\ Cardinality(RunningJobs(jobDetails)) <= MaxRunning
  /\ Starting => /\ loop.todo /= << >>
                 /\ Cardinality(RunningJobs(jobDetails)) + Len(loop.todo) <= MaxRunning
                 /\ \A i, k \in 1 .. Len(loop.todo) : loop.todo[i] = loop.todo[k] => i = k
                 /\ \A i \in 1 .. Len(loop.todo) :
                      loop.todo[i] \in DOMAIN jobDetails /\ ~ Active(loop.todo[i])

(* A monitored job is listed and not pending, the name that a user adds is *)
(* free, and only jobs with processes are polled.                          *)
MonitorsInv ==
  /\ \A j \in LocalJobNames :
       /\ Active(j) => j \in DOMAIN jobDetails /\ jobDetails[j] /= "pending"
       /\ monitors[j] \in {"poll", "look_running", "look_done", "look_failed", "finished", "error"}
            => process[j] /= "none"
  /\ user.op = "add" => user.job \notin DOMAIN jobDetails

(* What has been started is monitored until it was terminated, or is about *)
(* to be; what a failed start has left stays listed.                       *)
StartedInv ==
  /\ loop.pc = "started" => process[loop.todo[1]] /= "none"
  /\ \A j \in LocalJobNames \ orphans :
       process[j] /= "none" => \/ Active(j) /\ monitors[j] /= "hdel"
                               \/ loop.pc = "started" /\ loop.todo[1] = j
                               \/ loop.pc = "dead" /\ j \in DOMAIN jobDetails /\ ~ Active(j)

(* Without a session there is nothing.                                     *)
SessionInv ==
  ~ session => /\ loop.pc = "off" /\ user = UserIdle /\ DOMAIN jobDetails = {}
               /\ \A j \in LocalJobNames : monitors[j] = "off"

LocalInv == LocalTypeOK /\ LoopInv /\ MonitorsInv /\ StartedInv /\ SessionInv

LEMMA RunningAreCounted ==
  ASSUME NEW d, IsFiniteSet(DOMAIN d)
  PROVE  IsFiniteSet(RunningJobs(d)) /\ Cardinality(RunningJobs(d)) \in Nat
  BY FS_Subset, FS_CardinalityType DEF RunningJobs

(* Details without more jobs that run.                                     *)
LEMMA FewerRun ==
  ASSUME NEW d, NEW e, IsFiniteSet(DOMAIN d), IsFiniteSet(DOMAIN e),
         RunningJobs(e) \subseteq RunningJobs(d)
  PROVE  Cardinality(RunningJobs(e)) <= Cardinality(RunningJobs(d))
  BY RunningAreCounted, FS_Subset

(* What a write to the details changes: the status of one job; one more    *)
(* job runs when that is what is written.                                  *)
LEMMA StoreChangesOne ==
  ASSUME LocalTypeOK, NEW j \in LocalJobNames, NEW s, jobDetails' = Store(j, s)
  PROVE  /\ DOMAIN jobDetails' = DOMAIN jobDetails \cup {j} /\ IsFiniteSet(DOMAIN jobDetails')
         /\ jobDetails'[j] = s
         /\ \A x \in DOMAIN jobDetails : x /= j => jobDetails'[x] = jobDetails[x]
         /\ Cardinality(RunningJobs(jobDetails')) <=
              Cardinality(RunningJobs(jobDetails)) + (IF s = "running" THEN 1 ELSE 0)
<1>1. DOMAIN jobDetails' = DOMAIN jobDetails \cup {j} BY DEF Store
<1>2. jobDetails'[j] = s /\ \A x \in DOMAIN jobDetails : x /= j => jobDetails'[x] = jobDetails[x]
  BY DEF Store
<1>3. IsFiniteSet(DOMAIN jobDetails') BY <1>1, FS_AddElement DEF LocalTypeOK
<1>4. /\ IsFiniteSet(RunningJobs(jobDetails)) /\ Cardinality(RunningJobs(jobDetails)) \in Nat
      /\ IsFiniteSet(RunningJobs(jobDetails')) /\ Cardinality(RunningJobs(jobDetails')) \in Nat
  BY <1>3, RunningAreCounted DEF LocalTypeOK
<1>5. CASE s /= "running"
 <2>1. RunningJobs(jobDetails') \subseteq RunningJobs(jobDetails)
   BY <1>1, <1>2, <1>5 DEF RunningJobs
 <2> QED  BY <1>1, <1>2, <1>3, <1>4, <1>5, <2>1, FS_Subset
<1>6. CASE s = "running"
 <2>1. RunningJobs(jobDetails') \subseteq RunningJobs(jobDetails) \cup {j}
   BY <1>1, <1>2 DEF RunningJobs
 <2>2. /\ IsFiniteSet(RunningJobs(jobDetails) \cup {j})
       /\ Cardinality(RunningJobs(jobDetails) \cup {j}) <= Cardinality(RunningJobs(jobDetails)) + 1
  <3>1. Cardinality(RunningJobs(jobDetails) \cup {j})
          = IF j \in RunningJobs(jobDetails) THEN Cardinality(RunningJobs(jobDetails))
            ELSE Cardinality(RunningJobs(jobDetails)) + 1
    BY <1>4, FS_AddElement, Zenon
  <3> QED  BY <1>4, <3>1, FS_AddElement
 <2>3. Cardinality(RunningJobs(jobDetails')) <= Cardinality(RunningJobs(jobDetails) \cup {j})
   BY <2>1, <2>2, FS_Subset
 <2> QED  BY <1>1, <1>2, <1>3, <1>4, <1>6, <2>2, <2>3, FS_CardinalityType
<1> QED  BY <1>5, <1>6

LEMMA SameRoom ==
  ASSUME LocalTypeOK, LoopInv
  PROVE  /\ Cardinality(RunningJobs(jobDetails)) \in Nat
         /\ MaxRunning \in Nat \ {0}
         /\ Len(loop.todo) \in Nat
         /\ Starting => /\ Len(loop.todo) >= 1
                        /\ loop.todo[1] \in LocalJobNames
                        /\ Head(loop.todo) = loop.todo[1]
  BY RunningAreCounted, LocalAssumption DEF LocalTypeOK, LoopInv, Starting

(* The session starts and ends.                                            *)
LEMMA LocalSessionKeeps ==
  ASSUME LocalInv, local_init \/ local_exit
  PROVE  LocalInv'
<1> USE DEF LocalInv
<1>1. CASE local_init
 <2> USE <1>1 DEF local_init, Command
 <2>1. LocalTypeOK' BY DEF LocalTypeOK, Waiting
 <2>2. LoopInv' BY DEF LoopInv, Starting, Waiting, RunningJobs
 <2>3. MonitorsInv' BY DEF MonitorsInv, UserIdle, Active, SessionInv
 <2>4. StartedInv' BY DEF StartedInv, Active, SessionInv, Waiting
 <2> QED  BY <2>1, <2>2, <2>3, <2>4 DEF SessionInv
<1>2. CASE local_exit
 <2> USE <1>2 DEF local_exit, Command
 <2>1. DOMAIN jobDetails' = {} /\ RunningJobs(jobDetails') = {} BY DEF RunningJobs
 <2>2. LocalTypeOK' BY <2>1, FS_EmptySet DEF LocalTypeOK, MonitorStates
 <2>3. LoopInv'
  <3>1. Cardinality(RunningJobs(jobDetails')) = 0 BY <2>1, FS_EmptySet, Zenon
  <3> QED  BY <3>1, LocalAssumption DEF LoopInv, Starting
 <2>4. MonitorsInv' BY <2>1 DEF MonitorsInv, UserIdle, Active
 <2>5. StartedInv' BY DEF StartedInv
 <2> QED  BY <2>1, <2>2, <2>3, <2>4, <2>5 DEF SessionInv
<1> QED  BY <1>1, <1>2

(* The two calls of add and remove.                                        *)
LEMMA LocalUserKeeps ==
  ASSUME LocalInv,
         (\E j \in LocalJobNames : local_add_job(j) \/ local_remove_job(j)) \/ local_hset
  PROVE  LocalInv'
<1> USE DEF LocalInv
<1>1. CASE \E j \in LocalJobNames : local_add_job(j) \/ local_remove_job(j)
 <2>1. PICK j \in LocalJobNames :
         /\ session /\ UNCHANGED <<session, jobDetails, process, orphans, loop, monitors>>
         /\ \/ user' = [op |-> "add", job |-> j] /\ j \notin DOMAIN jobDetails
            \/ user' = [op |-> "remove", job |-> j]
   BY <1>1 DEF local_add_job, local_remove_job, Command
 <2>2. LocalTypeOK' BY <2>1 DEF LocalTypeOK
 <2>3. LoopInv' /\ StartedInv' /\ SessionInv'
   BY <2>1 DEF LoopInv, Starting, StartedInv, SessionInv, Active
 <2>4. MonitorsInv' BY <2>1 DEF MonitorsInv, Active
 <2> QED  BY <2>2, <2>3, <2>4
<1>2. CASE local_hset
 <2> USE <1>2 DEF local_hset
 <2>1. user.job \in LocalJobNames BY DEF LocalTypeOK, UserIdle
 <2>2. PICK s : jobDetails' = Store(user.job, s) /\ s = IF user.op = "add" THEN "pending" ELSE "removed"
   OBVIOUS
 <2>3. /\ DOMAIN jobDetails' = DOMAIN jobDetails \cup {user.job} /\ IsFiniteSet(DOMAIN jobDetails')
       /\ jobDetails'[user.job] = s
       /\ \A x \in DOMAIN jobDetails : x /= user.job => jobDetails'[x] = jobDetails[x]
       /\ Cardinality(RunningJobs(jobDetails')) <= Cardinality(RunningJobs(jobDetails))
  <3>1. Cardinality(RunningJobs(jobDetails')) <=
          Cardinality(RunningJobs(jobDetails)) + (IF s = "running" THEN 1 ELSE 0)
    BY <2>1, <2>2, StoreChangesOne
  <3>2. Cardinality(RunningJobs(jobDetails)) + (IF s = "running" THEN 1 ELSE 0)
          = Cardinality(RunningJobs(jobDetails))
    BY <2>2, SameRoom
  <3> QED  BY <2>1, <2>2, <3>1, <3>2, StoreChangesOne
 <2>4. LocalTypeOK' BY <2>1, <2>3 DEF LocalTypeOK
 <2>5. LoopInv'
  <3>1. Cardinality(RunningJobs(jobDetails')) \in Nat BY <2>3, RunningAreCounted
  <3> QED  BY <2>3, <3>1, SameRoom DEF LoopInv, Starting, Active
 <2>6. MonitorsInv' BY <2>1, <2>2, <2>3 DEF MonitorsInv, Active, UserIdle
 <2>7. StartedInv' BY <2>3 DEF StartedInv, Active
 <2>8. SessionInv' BY DEF SessionInv, UserIdle
 <2> QED  BY <2>4, <2>5, <2>6, <2>7, <2>8
<1> QED  BY <1>1, <1>2

(* The jobs picked by a pass of the main loop: pending ones, each once, and *)
(* no more than there is room for.                                         *)
LEMMA PassFits ==
  ASSUME LocalTypeOK, LoopInv, NEW order \in SetToSeqs(WithStatus("pending")),
         Startable(order) /= << >>
  PROVE  /\ Startable(order) \in Seq(LocalJobNames)
         /\ Cardinality(RunningJobs(jobDetails)) + Len(Startable(order)) <= MaxRunning
         /\ \A i, k \in 1 .. Len(Startable(order)) :
              Startable(order)[i] = Startable(order)[k] => i = k
         /\ \A i \in 1 .. Len(Startable(order)) : Startable(order)[i] \in WithStatus("pending")
<1> DEFINE P == WithStatus("pending")
           c == Cardinality(P)
           room == MaxRunning - Cardinality(RunningJobs(jobDetails))
           n == IF room < Len(order) THEN room ELSE Len(order)
           s == Startable(order)
<1>1. P \subseteq LocalJobNames /\ c \in Nat
 <2>1. P \subseteq DOMAIN jobDetails BY DEF WithStatus
 <2> QED  BY <2>1, FS_Subset, FS_CardinalityType DEF LocalTypeOK
<1>2. order \in [1 .. c -> P] /\ \A i, k \in 1 .. c : i /= k => order[i] /= order[k]
  BY DEF SetToSeqs
<1>3. order \in Seq(P) /\ Len(order) = c BY <1>1, <1>2
<1>4. room \in Nat /\ n \in Nat /\ n <= room /\ n <= c BY <1>1, <1>3, SameRoom DEF LoopInv
<1>5. s = SubSeq(order, 1, n) BY DEF Startable, FirstFew, WithStatus, RunningJobs
<1>6. s \in Seq(P) /\ Len(s) = n /\ \A i \in 1 .. n : s[i] = order[i]
 <2> HIDE DEF n, s, c
 <2>1. \A i \in 1 .. n : order[i] \in P BY <1>1, <1>2, <1>4
 <2>2. /\ SubSeq(order, 1, n) \in Seq(P)
       /\ Len(SubSeq(order, 1, n)) = IF 1 <= n THEN n - 1 + 1 ELSE 0
       /\ \A i \in 1 .. n - 1 + 1 : SubSeq(order, 1, n)[i] = order[1 + i - 1]
   BY <1>4, <2>1, SubSeqProperties
 <2> QED  BY <1>4, <1>5, <2>2
<1>7. s \in Seq(LocalJobNames)
 <2> HIDE DEF P, s
 <2> QED  BY <1>1, <1>6
<1> HIDE DEF n, s, c, P
<1>8. \A i, k \in 1 .. Len(s) : s[i] = s[k] => i = k BY <1>1, <1>2, <1>4, <1>6
<1>9. Cardinality(RunningJobs(jobDetails)) + Len(s) <= MaxRunning BY <1>4, <1>6, SameRoom
<1>10. \A i \in 1 .. Len(s) : s[i] \in P BY <1>6
<1> QED  BY <1>7, <1>8, <1>9, <1>10 DEF s, P

(* The main loop of the manager.                                           *)
LEMMA LocalLoopKeeps ==
  ASSUME LocalInv, scan_jobs \/ build_image \/ start_rl_job_in_containers
  PROVE  LocalInv'
<1> USE DEF LocalInv
<1>a. loop = [pc |-> loop.pc, todo |-> loop.todo] BY DEF LocalTypeOK
<1>1. CASE scan_jobs
 <2> USE <1>1 DEF scan_jobs
 <2>1. CASE loop' = [pc |-> "dead", todo |-> << >>]
  <3>1. LocalTypeOK' /\ LoopInv' BY <2>1 DEF LocalTypeOK, LoopInv, Starting
  <3>2. MonitorsInv' /\ StartedInv' /\ SessionInv'
    BY <2>1 DEF MonitorsInv, Active, StartedInv, SessionInv
  <3> QED  BY <3>1, <3>2
 <2>2. CASE /\ WithStatus("pending") \subseteq jobConf
            /\ \E order \in SetToSeqs(WithStatus("pending")) :
                 /\ Startable(order) /= << >>
                 /\ loop' = [pc |-> "image", todo |-> Startable(order)]
  <3>1. PICK order \in SetToSeqs(WithStatus("pending")) :
          Startable(order) /= << >> /\ loop' = [pc |-> "image", todo |-> Startable(order)]
    BY <2>2
  <3> DEFINE s == Startable(order)
  <3>2. /\ s \in Seq(LocalJobNames)
        /\ Cardinality(RunningJobs(jobDetails)) + Len(s) <= MaxRunning
        /\ \A i, k \in 1 .. Len(s) : s[i] = s[k] => i = k
        /\ \A i \in 1 .. Len(s) : s[i] \in WithStatus("pending")
    BY <3>1, PassFits
  <3>3. \A i \in 1 .. Len(s) : s[i] \in DOMAIN jobDetails /\ ~ Active(s[i])
    BY <3>2 DEF WithStatus, MonitorsInv, LocalTypeOK
  <3>4. s /= << >> /\ loop' = [pc |-> "image", todo |-> s] BY <3>1
  <3> HIDE DEF s
  <3>5. LocalTypeOK' BY <3>2, <3>4 DEF LocalTypeOK
  <3>6. LoopInv' BY <3>2, <3>3, <3>4 DEF LoopInv, Active, Starting
  <3>7. MonitorsInv' /\ StartedInv' /\ SessionInv'
    BY <3>4 DEF MonitorsInv, Active, StartedInv, SessionInv
  <3> QED  BY <3>5, <3>6, <3>7
 <2> QED  BY <2>1, <2>2
<1>2. CASE build_image
 <2> USE <1>2 DEF build_image
 <2>1. Starting /\ loop' = [pc |-> "start", todo |-> loop.todo] BY <1>a DEF Starting
 <2>2. CASE UNCHANGED jobDetails
  <3>1. LocalTypeOK' /\ LoopInv' BY <2>1, <2>2 DEF LocalTypeOK, LoopInv, Starting, Active
  <3>2. MonitorsInv' /\ StartedInv' /\ SessionInv'
    BY <2>1, <2>2 DEF MonitorsInv, Active, StartedInv, SessionInv
  <3> QED  BY <3>1, <3>2
 <2>3. CASE jobDetails' = Store(Head(loop.todo), "image_building")
  <3> DEFINE j == loop.todo[1]
  <3>1. j \in DOMAIN jobDetails /\ j \in LocalJobNames /\ ~ Active(j) /\ Head(loop.todo) = j
    BY <2>1, SameRoom DEF LoopInv
  <3>2. jobDetails' = Store(j, "image_building") BY <2>3, <3>1
  <3> HIDE DEF j
  <3>3. /\ DOMAIN jobDetails' = DOMAIN jobDetails
        /\ \A x \in DOMAIN jobDetails : x /= j => jobDetails'[x] = jobDetails[x]
        /\ jobDetails'[j] = "image_building"
        /\ Cardinality(RunningJobs(jobDetails')) <= Cardinality(RunningJobs(jobDetails)) + 0
    BY <3>1, <3>2, StoreChangesOne
  <3>4. Cardinality(RunningJobs(jobDetails')) \in Nat
    BY <3>3, RunningAreCounted DEF LocalTypeOK
  <3>5. LocalTypeOK' BY <2>1, <3>3 DEF LocalTypeOK
  <3>6. LoopInv' BY <2>1, <3>3, <3>4, SameRoom DEF LoopInv, Starting, Active
  <3>7. MonitorsInv' BY <3>3 DEF MonitorsInv, Active
  <3>8. StartedInv' /\ SessionInv' BY <2>1, <3>3 DEF StartedInv, Active, SessionInv
  <3> QED  BY <3>5, <3>6, <3>7, <3>8
 <2> QED  BY <2>2, <2>3
<1>3. CASE start_rl_job_in_containers
 <2> DEFINE j == loop.todo[1]
 <2> USE <1>3 DEF start_rl_job_in_containers
 <2>1. Starting /\ j \in LocalJobNames /\ Head(loop.todo) = j BY SameRoom DEF Starting
 <2> HIDE DEF j
 <2>2. CASE /\ loop' = [pc |-> "dead", todo |-> << >>]
            /\ process' = process \/ process' = [process EXCEPT ![j] = "running"]
  <3>1. j \in DOMAIN jobDetails /\ ~ Active(j)
   <4>1. 1 \in 1 .. Len(loop.todo) BY <2>1, SameRoom
   <4> QED  BY <2>1, <4>1 DEF LoopInv, j
  <3>2. /\ \A x \in LocalJobNames : x /= j => process'[x] = process[x]
        /\ process'[j] = "none" => process[j] = "none"
    BY <2>1, <2>2 DEF LocalTypeOK
  <3>3. LocalTypeOK' BY <2>1, <2>2 DEF LocalTypeOK
  <3>4. LoopInv' BY <2>2 DEF LoopInv, Starting
  <3>5. MonitorsInv' BY <2>1, <2>2, <3>2 DEF MonitorsInv, Active
  <3>6. StartedInv' BY <2>1, <2>2, <3>1, <3>2 DEF StartedInv, Active, Starting
  <3>7. SessionInv' BY <2>1 DEF SessionInv, Starting
  <3> QED  BY <3>3, <3>4, <3>5, <3>6, <3>7
 <2>3. CASE process[j] = "none" /\ process' = [process EXCEPT ![j] = "running"]
            /\ loop' = [pc |-> "started", todo |-> loop.todo]
  <3>1. LocalTypeOK' BY <2>3 DEF LocalTypeOK
  <3>2. LoopInv' BY <2>1, <2>3 DEF LoopInv, Starting, Active
  <3>3. MonitorsInv' BY <2>1, <2>3 DEF MonitorsInv, Active, LocalTypeOK
  <3>4. StartedInv' BY <2>1, <2>3 DEF StartedInv, Active, LocalTypeOK, j
  <3>5. SessionInv' BY DEF SessionInv
  <3> QED  BY <3>1, <3>2, <3>3, <3>4, <3>5
 <2>4. [loop EXCEPT !.pc = "started"] = [pc |-> "started", todo |-> loop.todo] BY <1>a
 <2> QED  BY <2>1, <2>2, <2>3, <2>4
<1> QED  BY <1>1, <1>2, <1>3

(* The job that was started is written down as running and gets a monitor. *)
LEMMA LocalStartKeeps ==
  ASSUME LocalInv, start_monitor
  PROVE  LocalInv'
<1> USE DEF LocalInv, start_monitor
<1> DEFINE j == loop.todo[1]
<1>1. /\ Starting /\ j \in LocalJobNames /\ Head(loop.todo) = j
      /\ j \in DOMAIN jobDetails /\ ~ Active(j) /\ process[j] /= "none"
  BY SameRoom DEF Starting, LoopInv, StartedInv
<1>2. jobDetails' = Store(j, "running") /\ monitors' = [monitors EXCEPT ![j] = "poll"]
  BY <1>1
<1>3. /\ loop' = [pc |-> loop'.pc, todo |-> loop'.todo] /\ loop'.pc \in {"scan", "image"}
      /\ loop'.todo \in Seq(LocalJobNames) /\ Len(loop'.todo) = Len(loop.todo) - 1
      /\ loop'.pc = "image" => loop'.todo /= << >>
      /\ \A i \in 1 .. Len(loop'.todo) : loop'.todo[i] = loop.todo[i + 1]
 <2>1. CASE Len(loop.todo) = 1 BY <2>1 DEF Waiting
 <2>2. CASE Len(loop.todo) /= 1
  <3>1. loop' = [pc |-> "image", todo |-> Tail(loop.todo)] BY <2>2
  <3>2. loop.todo \in Seq(LocalJobNames) /\ loop.todo /= << >>
    BY <1>1 DEF LocalTypeOK, LoopInv
  <3>3. PICK t : t = Tail(loop.todo) OBVIOUS
  <3>4. /\ t \in Seq(LocalJobNames) /\ Len(t) = Len(loop.todo) - 1
        /\ \A i \in 1 .. Len(t) : t[i] = loop.todo[i + 1]
    BY <3>2, <3>3, HeadTailProperties
  <3>5. Len(loop.todo) \in Nat /\ Len(loop.todo) >= 1 BY <1>1, SameRoom
  <3> HIDE DEF start_monitor, LocalInv, j
  <3>6. t /= << >>
   <4>1. Len(t) /= 0 BY <2>2, <3>4, <3>5
   <4> QED  BY <4>1
  <3>7. loop' = [pc |-> "image", todo |-> t] BY <3>1, <3>3
  <3> QED  BY <3>4, <3>6, <3>7
 <2> QED  BY <2>1, <2>2
<1> HIDE DEF start_monitor
<1>4. UNCHANGED <<session, process, orphans, user>> BY DEF start_monitor
<1>5. \A i \in 1 .. Len(loop'.todo) : loop'.todo[i] /= j
 <2>1. Len(loop.todo) \in Nat /\ Len(loop.todo) >= 1 BY <1>1, SameRoom
 <2>2. \A i \in 1 .. Len(loop'.todo) : i + 1 \in 1 .. Len(loop.todo) /\ i + 1 /= 1
   BY <1>3, <2>1
 <2>3. \A i \in 1 .. Len(loop'.todo) : loop.todo[i + 1] /= loop.todo[1]
   BY <1>1, <2>1, <2>2 DEF LoopInv
 <2> QED  BY <1>3, <2>3
<1>6. loop.pc = "started" BY DEF start_monitor
<1> HIDE DEF j
<1>7. /\ DOMAIN jobDetails' = DOMAIN jobDetails /\ jobDetails'[j] = "running"
      /\ \A x \in DOMAIN jobDetails : x /= j => jobDetails'[x] = jobDetails[x]
      /\ Cardinality(RunningJobs(jobDetails')) <= Cardinality(RunningJobs(jobDetails)) + 1
  BY <1>1, <1>2, StoreChangesOne
<1>8. Cardinality(RunningJobs(jobDetails')) \in Nat
  BY <1>7, RunningAreCounted DEF LocalTypeOK
<1>9. LocalTypeOK' BY <1>1, <1>2, <1>3, <1>4, <1>7 DEF LocalTypeOK, MonitorStates
<1>10. LoopInv'
 <2>1. \A x \in LocalJobNames : x /= j => monitors'[x] = monitors[x]
   BY <1>1, <1>2 DEF LocalTypeOK
 <2>2. Cardinality(RunningJobs(jobDetails')) + Len(loop'.todo) <= MaxRunning
   BY <1>1, <1>3, <1>7, <1>8, SameRoom DEF LoopInv
 <2>3. \A i \in 1 .. Len(loop'.todo) : i + 1 \in 1 .. Len(loop.todo) BY <1>1, <1>3, SameRoom
 <2>4. \A i, k \in 1 .. Len(loop'.todo) : loop'.todo[i] = loop'.todo[k] => i = k
   BY <1>1, <1>3, <2>3 DEF LoopInv
 <2>5. \A i \in 1 .. Len(loop'.todo) :
         loop'.todo[i] \in DOMAIN jobDetails' /\ monitors'[loop'.todo[i]] \in {"off", "hdel_conf"}
   BY <1>1, <1>3, <1>5, <1>7, <2>1, <2>3 DEF LoopInv, Active, LocalTypeOK
 <2>6. Cardinality(RunningJobs(jobDetails')) <= MaxRunning
   BY <1>1, <1>3, <1>8, <2>2, SameRoom
 <2> QED  BY <1>3, <2>2, <2>4, <2>5, <2>6 DEF LoopInv, Starting, Active
<1>11. MonitorsInv' BY <1>1, <1>2, <1>4, <1>7 DEF MonitorsInv, Active, LocalTypeOK
<1>12. StartedInv' BY <1>1, <1>2, <1>3, <1>4, <1>6 DEF StartedInv, Active, LocalTypeOK, j
<1>13. SessionInv' BY <1>4, <1>6 DEF SessionInv
<1> QED  BY <1>9, <1>10, <1>11, <1>12, <1>13

(* A job that is monitored is not one that the loop is starting.           *)
LEMMA MonitoredIsNotStarting ==
  ASSUME LocalInv, NEW j \in LocalJobNames, Active(j)
  PROVE  /\ j \in DOMAIN jobDetails
         /\ user.op = "add" => user.job /= j
         /\ Starting => \A i \in 1 .. Len(loop.todo) : loop.todo[i] /= j
         /\ Starting => loop.todo[1] /= j
<1>1. Starting => \A i \in 1 .. Len(loop.todo) : loop.todo[i] /= j BY DEF LocalInv, LoopInv
<1>2. Starting => 1 \in 1 .. Len(loop.todo) BY SameRoom DEF LocalInv
<1> QED  BY <1>1, <1>2 DEF LocalInv, MonitorsInv

(* A monitor that moves on and touches neither details nor processes.      *)
LEMMA MonitorMoves ==
  ASSUME LocalInv, NEW j \in LocalJobNames, NEW m \in MonitorStates \ {"hdel", "hdel_conf"},
         UNCHANGED <<session, jobDetails, process, orphans, loop, user>>,
         monitors' = [monitors EXCEPT ![j] = m],
         Active(j) \/ m = "off",
         m = "off" => monitors[j] = "hdel_conf",
         m \in {"poll", "look_running", "look_done", "look_failed", "finished", "error"}
           => process[j] /= "none"
  PROVE  LocalInv'
<1> USE DEF LocalInv
<1>1. monitors'[j] = m /\ \A x \in LocalJobNames : x /= j => monitors'[x] = monitors[x]
  BY DEF LocalTypeOK
<1>2. LocalTypeOK' BY DEF LocalTypeOK
<1>3. LoopInv'
 <2>1. \A x \in LocalJobNames : ~ Active(x) => ~ Active(x)' BY <1>1 DEF Active
 <2>2. Starting => \A i \in 1 .. Len(loop.todo) : loop.todo[i] \in LocalJobNames
   BY DEF LoopInv, LocalTypeOK
 <2> QED  BY <2>1, <2>2 DEF LoopInv, Starting
<1>4. MonitorsInv' BY <1>1 DEF MonitorsInv, Active
<1>5. StartedInv' BY <1>1 DEF StartedInv, Active
<1>6. SessionInv' BY <1>1 DEF SessionInv, Active
<1> QED  BY <1>2, <1>3, <1>4, <1>5, <1>6

(* The monitor thread of a job.                                            *)
LEMMA LocalMonitorKeeps ==
  ASSUME LocalInv, NEW j \in LocalJobNames,
         poll(j) \/ look(j) \/ job_ended(j) \/ watch(j) \/ remove_job(j)
  PROVE  LocalInv'
<1> USE DEF LocalInv
<1>1. CASE poll(j)
 <2>1. process[j] \in {"running", "done", "failed"} /\ Active(j)
   BY <1>1 DEF poll, MonitorsInv, LocalTypeOK, Active
 <2>2. Looking[process[j]] \in {"look_running", "look_done", "look_failed"}
   BY <2>1 DEF Looking
 <2>3. /\ UNCHANGED <<session, jobDetails, process, orphans, loop, user>>
       /\ monitors' = [monitors EXCEPT ![j] = Looking[process[j]]]
   BY <1>1 DEF poll
 <2> QED  BY <2>1, <2>2, <2>3, MonitorMoves DEF MonitorStates
<1>2. CASE look(j)
 <2>1. process[j] /= "none" /\ Active(j) BY <1>2 DEF look, MonitorsInv, Active
 <2>2. PICK m \in {"term", "poll", "finished", "error"} :
         /\ UNCHANGED <<session, jobDetails, process, orphans, loop, user>>
         /\ monitors' = [monitors EXCEPT ![j] = m]
   BY <1>2 DEF look
 <2> QED  BY <2>1, <2>2, MonitorMoves DEF MonitorStates
<1>3. CASE watch(j)
 <2>1. Active(j) BY <1>3 DEF watch, Active
 <2>2. /\ UNCHANGED <<session, jobDetails, process, orphans, loop, user>>
       /\ monitors' = [monitors EXCEPT ![j] = "term"]
   BY <1>3 DEF watch
 <2> QED  BY <2>1, <2>2, MonitorMoves DEF MonitorStates
<1>4. CASE job_ended(j)
 <2> USE <1>4 DEF job_ended
 <2>1. PICK s \in {"finished", "error"} :
         /\ s = monitors[j] /\ jobDetails' = Store(j, s)
         /\ process' = IF s = "error" THEN [process EXCEPT ![j] = "none"] ELSE process
   OBVIOUS
 <2>2. Active(j) /\ UNCHANGED <<session, orphans, loop, user>> BY DEF Active
 <2>3. /\ j \in DOMAIN jobDetails
       /\ user.op = "add" => user.job /= j
       /\ Starting => \A i \in 1 .. Len(loop.todo) : loop.todo[i] /= j
       /\ Starting => loop.todo[1] /= j
   BY <2>2, MonitoredIsNotStarting
 <2>4. /\ monitors'[j] = "watch" /\ \A x \in LocalJobNames : x /= j => monitors'[x] = monitors[x]
       /\ \A x \in LocalJobNames : x /= j => process'[x] = process[x]
   BY <2>1 DEF LocalTypeOK
 <2>5. /\ DOMAIN jobDetails' = DOMAIN jobDetails /\ jobDetails'[j] = s
       /\ \A x \in DOMAIN jobDetails : x /= j => jobDetails'[x] = jobDetails[x]
       /\ Cardinality(RunningJobs(jobDetails')) <= Cardinality(RunningJobs(jobDetails))
       /\ Cardinality(RunningJobs(jobDetails')) \in Nat
  <3>1. /\ DOMAIN jobDetails' = DOMAIN jobDetails /\ jobDetails'[j] = s
        /\ \A x \in DOMAIN jobDetails : x /= j => jobDetails'[x] = jobDetails[x]
        /\ IsFiniteSet(DOMAIN jobDetails')
    BY <2>1, <2>3, StoreChangesOne
  <3>2. RunningJobs(jobDetails') \subseteq RunningJobs(jobDetails)
    BY <2>1, <3>1 DEF RunningJobs
  <3> QED  BY <3>1, <3>2, FewerRun, RunningAreCounted DEF LocalTypeOK
 <2>6. LocalTypeOK' BY <2>1, <2>2, <2>5 DEF LocalTypeOK, MonitorStates
 <2>7. LoopInv'
  <3>1. Starting => \A i \in 1 .. Len(loop.todo) : loop.todo[i] \in LocalJobNames
    BY DEF LocalTypeOK
  <3>2. Starting' = Starting BY <2>2 DEF Starting
  <3> QED  BY <2>2, <2>3, <2>4, <2>5, <3>1, <3>2, SameRoom DEF LoopInv, Active
 <2>8. MonitorsInv' BY <2>1, <2>2, <2>3, <2>4, <2>5 DEF MonitorsInv, Active
 <2>9. StartedInv' BY <2>2, <2>3, <2>4, <2>5 DEF StartedInv, Active, Starting, LocalTypeOK
 <2>10. SessionInv' BY <2>2, <2>3 DEF SessionInv
 <2> QED  BY <2>6, <2>7, <2>8, <2>9, <2>10
<1>5. CASE remove_job(j)
 <2>1. CASE monitors[j] = "hdel_conf"
  <3>1. /\ UNCHANGED <<session, jobDetails, process, orphans, loop, user>>
        /\ monitors' = [monitors EXCEPT ![j] = "off"]
    BY <1>5, <2>1 DEF remove_job
  <3> QED  BY <2>1, <3>1, MonitorMoves DEF MonitorStates
 <2>2. CASE monitors[j] \in {"term", "hdel"}
  <3>1. Active(j) /\ UNCHANGED <<session, orphans, loop, user>>
    BY <1>5, <2>2 DEF remove_job, Active
  <3>2. /\ j \in DOMAIN jobDetails
        /\ user.op = "add" => user.job /= j
        /\ Starting => \A i \in 1 .. Len(loop.todo) : loop.todo[i] /= j
        /\ Starting => loop.todo[1] /= j
    BY <3>1, MonitoredIsNotStarting
  <3>3. PICK m \in {"hdel", "hdel_conf"} :
          /\ monitors' = [monitors EXCEPT ![j] = m]
          /\ m = "hdel" => process' = [process EXCEPT ![j] = "none"] /\ UNCHANGED jobDetails
          /\ m = "hdel_conf" => /\ monitors[j] = "hdel" /\ jobDetails' = Drop(j)
                                /\ UNCHANGED process
    BY <1>5, <2>2 DEF remove_job
  <3>4. /\ monitors'[j] = m /\ \A x \in LocalJobNames : x /= j => monitors'[x] = monitors[x]
        /\ \A x \in LocalJobNames : x /= j => process'[x] = process[x]
    BY <3>3 DEF LocalTypeOK
  <3>5. /\ DOMAIN jobDetails' \subseteq DOMAIN jobDetails
        /\ m = "hdel" => j \in DOMAIN jobDetails'
        /\ \A x \in DOMAIN jobDetails : x /= j => x \in DOMAIN jobDetails' /\ jobDetails'[x] = jobDetails[x]
        /\ RunningJobs(jobDetails') \subseteq RunningJobs(jobDetails)
    BY <3>2, <3>3 DEF Drop, RunningJobs
  <3>6. /\ Cardinality(RunningJobs(jobDetails')) <= Cardinality(RunningJobs(jobDetails))
        /\ Cardinality(RunningJobs(jobDetails')) \in Nat
        /\ IsFiniteSet(DOMAIN jobDetails')
    BY <3>5, FS_Subset, FewerRun, RunningAreCounted DEF LocalTypeOK
  <3>7. LocalTypeOK' BY <3>1, <3>3, <3>5, <3>6 DEF LocalTypeOK, MonitorStates
  <3>8. LoopInv'
   <4>1. Starting => \A i \in 1 .. Len(loop.todo) : loop.todo[i] \in LocalJobNames
     BY DEF LocalTypeOK
   <4>2. Starting' = Starting BY <3>1 DEF Starting
   <4> QED  BY <3>1, <3>2, <3>4, <3>5, <3>6, <4>1, <4>2, SameRoom DEF LoopInv, Active
  <3>9. MonitorsInv'
   <4>1. ASSUME NEW x \in LocalJobNames, Active(x)'
         PROVE  x \in DOMAIN jobDetails' /\ jobDetails'[x] /= "pending"
     BY <3>1, <3>3, <3>4, <3>5, <4>1 DEF MonitorsInv, Active
   <4>2. ASSUME NEW x \in LocalJobNames,
                monitors'[x] \in {"poll", "look_running", "look_done", "look_failed",
                                  "finished", "error"}
         PROVE  process'[x] /= "none"
     BY <3>3, <3>4, <4>2 DEF MonitorsInv
   <4>3. user'.op = "add" => user'.job \notin DOMAIN jobDetails'
     BY <3>1, <3>5 DEF MonitorsInv
   <4> QED  BY <4>1, <4>2, <4>3 DEF MonitorsInv
  <3>10. StartedInv'
   <4>1. loop'.pc = "started" => process'[loop'.todo[1]] /= "none"
     BY <3>1, <3>2, <3>4, SameRoom DEF StartedInv, Starting
   <4>2. ASSUME NEW x \in LocalJobNames \ orphans', process'[x] /= "none"
         PROVE  \/ Active(x)' /\ monitors'[x] /= "hdel"
                \/ loop'.pc = "started" /\ loop'.todo[1] = x
                \/ loop'.pc = "dead" /\ x \in DOMAIN jobDetails' /\ ~ Active(x)'
     BY <3>1, <3>2, <3>3, <3>4, <3>5, <4>2 DEF StartedInv, Active, Starting, LocalTypeOK
   <4> QED  BY <4>1, <4>2 DEF StartedInv, Active
  <3>11. SessionInv' BY <3>1, <3>2 DEF SessionInv
  <3> QED  BY <3>7, <3>8, <3>9, <3>10, <3>11
 <2> QED  BY <1>5, <2>1, <2>2 DEF remove_job
<1> QED  BY <1>1, <1>2, <1>3, <1>4, <1>5

LEMMA LocalKeeps ==
  ASSUME LocalInv, LocalNext \/ UNCHANGED localVars
  PROVE  LocalInv'
<1>1. CASE \E j \in LocalJobNames : job_processes(j)
 <2>1. PICK j \in LocalJobNames, end \in {"done", "failed"} :
         /\ process[j] = "running" /\ process' = [process EXCEPT ![j] = end]
         /\ UNCHANGED <<session, jobDetails, orphans, loop, monitors, user>>
   BY <1>1 DEF job_processes
 <2>2. LocalTypeOK' BY <2>1 DEF LocalInv, LocalTypeOK
 <2>3. \A x \in LocalJobNames : process'[x] = "none" <=> process[x] = "none"
   BY <2>1 DEF LocalInv, LocalTypeOK
 <2>4. LoopInv' /\ SessionInv' BY <2>1 DEF LocalInv, LoopInv, SessionInv, Starting, Active
 <2>5. MonitorsInv' BY <2>1, <2>3 DEF LocalInv, MonitorsInv, Active
 <2>6. StartedInv' BY <2>1, <2>3, SameRoom DEF LocalInv, StartedInv, Active, Starting
 <2> QED  BY <2>2, <2>4, <2>5, <2>6 DEF LocalInv
<1>2. CASE UNCHANGED localVars
  BY <1>2 DEF localVars, LocalInv, LocalTypeOK, LoopInv, MonitorsInv, StartedInv, SessionInv, Starting, Active
<1> QED  BY <1>1, <1>2, LocalSessionKeeps, LocalUserKeeps, LocalLoopKeeps, LocalStartKeeps,
            LocalMonitorKeeps DEF LocalNext

(* The local job manager never runs more jobs than it may, and whatever a  *)
(* session has started stays listed until it has been terminated.          *)
THEOREM OrchestrationAccountsLocalJobs == OrchestrationSpec => []LocalJobsAccounted
<1>1. OrchestrationInit => LocalInv
 <2> SUFFICES ASSUME OrchestrationInit PROVE LocalInv
   OBVIOUS
 <2> USE DEF OrchestrationInit, LocalInit
 <2>1. DOMAIN jobDetails = {} /\ RunningJobs(jobDetails) = {} BY DEF RunningJobs
 <2>2. LocalTypeOK BY <2>1, FS_EmptySet DEF LocalTypeOK, MonitorStates
 <2>3. Cardinality(RunningJobs(jobDetails)) = 0 BY <2>1, FS_EmptySet, Zenon
 <2>4. LoopInv BY <2>3, LocalAssumption DEF LoopInv, Starting
 <2>5. MonitorsInv /\ StartedInv /\ SessionInv
   BY <2>1 DEF MonitorsInv, StartedInv, SessionInv, Active, UserIdle
 <2> QED  BY <2>2, <2>4, <2>5 DEF LocalInv
<1>2. LocalInv /\ [OrchestrationNext]_orchestrationVars => LocalInv'
  BY LocalKeeps, PartsTakeTurns
<1>3. LocalInv => LocalJobsAccounted
 <2> SUFFICES ASSUME LocalInv PROVE LocalJobsAccounted
   OBVIOUS
 <2>1. Cardinality(WithStatus("running")) <= MaxRunning
   BY DEF LocalInv, LoopInv, WithStatus, RunningJobs
 <2>2. ASSUME NEW j \in LocalJobNames \ orphans, process[j] /= "none"
       PROVE  j \in DOMAIN jobDetails
  <3>1. CASE loop.pc = "started" /\ loop.todo[1] = j
    BY <3>1, SameRoom DEF LocalInv, LoopInv, Starting
  <3> QED  BY <2>2, <3>1 DEF LocalInv, StartedInv, MonitorsInv
 <2> QED  BY <2>1, <2>2 DEF LocalJobsAccounted
<1> QED  BY <1>1, <1>2, <1>3, PTL DEF OrchestrationSpec

-----------------------------------------------------------------------------
(* Grass clusters and their machines.                                      *)

ProvTypeOK ==
  /\ mode \in {"azure", "on_premises"}
  /\ DOMAIN listed \subseteq NodeNames
  /\ \A n \in DOMAIN listed : DOMAIN listed[n] = {"size", "status"}
  /\ DOMAIN task = Tasks
  /\ failures \in Nat

(* A node that joins has a machine, one whose resources go is not listed,  *)
(* and one that is switched off has no agent.                              *)
NodeTasksInv ==
  \A n \in NodeNames :
    /\ task[n] \in {"connect", "script"} => n \in cloud
    /\ task[n] \in {"resources", "files"} => n \notin DOMAIN listed
    /\ task[n] = "vm_off" => <<n, "agent">> \notin services

(* The units sv that run and en that are enabled on node n while its task  *)
(* is at at: agent and API server go together except in the middle of      *)
(* starting or stopping the two; what has begun that finds the scripts     *)
(* (sc) and, to stop, the machine (pw).                                    *)
UnitsOK(n, at, sv, en, pw, sc) ==
  /\ <<n, "server">> \in sv => <<n, "server">> \in en
  /\ at \in {"server", "server_on"} => <<n, "agent">> \in sv \cap en
  /\ at = "agent_off" => <<n, "server">> \notin sv
  /\ at = "leave_server" => <<n, "agent">> \notin sv \cup en
  /\ at \notin {"server", "server_on", "agent_off", "leave_server"}
       => (<<n, "agent">> \in sv <=> <<n, "server">> \in sv)
  /\ at \notin {"server", "server_on", "leave_server"}
       => (<<n, "agent">> \in en <=> <<n, "server">> \in en)
  /\ at \in {"agent_off", "leave_server"} => n \in pw \cap sc
  /\ at = "server_on" => n \in sc

UnitsInv ==
  failures = 0 => \A n \in NodeNames : UnitsOK(n, task[n], services, enabled, power, scripted)

(* What the command that runs has found or done.                           *)
CommandsInv ==
  /\ cmd.op \in {"idle", "create", "scale", "start", "stop", "join", "leave", "delete"}
  /\ cmd.op = "idle" => \A t \in Tasks : task[t] = "end"
  /\ cmd.op = "create" => \A n \in NodeNames : task[n] = "end"
  /\ cmd.op \in {"scale", "start", "stop"} => mode = "azure" /\ Executor
  /\ cmd.op \in {"join", "leave"} => mode = "on_premises"
  /\ cmd.op = "delete" =>
       /\ deleting
       /\ task["image"] = "end" /\ task["master"] = "end"
       /\ task["main"] \in {"resources", "files", "raise"}
       /\ mode = "on_premises" => task["main"] /= "resources"
       /\ mode = "azure" => Executor /\ \A n \in NodeNames : task[n] = "end"

(* On Azure nothing is listed before a cluster exists, and nothing exists  *)
(* once the resources of one are deleted; the folder goes last.  On        *)
(* premises the machines stay.                                             *)
FolderInv ==
  /\ mode = "azure" =>
       /\ cmd.op = "create" \/ folder = {} => DOMAIN listed = {}
       /\ cmd.op = "delete" /\ task["main"] = "files" => cloud = {} /\ DOMAIN listed = {}
       /\ cmd.op = "idle" /\ cloud /= {} => folder /= {}
  /\ mode = "on_premises" => NodeNames \subseteq cloud

ProvInv == ProvTypeOK /\ NodeTasksInv /\ CommandsInv /\ FolderInv /\ ListedNodesExist /\ UnitsInv

(* The names of nodes are apart.                                           *)
LEMMA NamesApart ==
  /\ Threads \subseteq Tasks /\ NodeNames \subseteq Tasks
  /\ \A n \in NodeNames : n \notin Threads /\ n \notin {"vnet", "image_vm", "details", "user"}
  BY NodeNamesAssumption DEF Tasks, Threads

(* A step of the threads of a create, which adds to the cloud and to the   *)
(* folder.                                                                 *)
LEMMA ThreadStepKeeps ==
  ASSUME ProvInv, NEW t \in Threads, NEW next, task[t] \notin {"end", "raise", "resources", "files"},
         task' \in {[task EXCEPT ![t] = next],
                   [task EXCEPT !["main"] = "join", !["image"] = "vm", !["master"] = "vm"]},
         UNCHANGED <<mode, listed, power, services, enabled, killed, scripted, cmd, deleting>>,
         failures' \in {failures, failures + 1},
         cloud \ {"image_vm"} \subseteq cloud', folder \subseteq folder'
  PROVE  ProvInv'
<1> USE NamesApart DEF ProvInv
<1>1. cmd.op /= "idle" /\ cmd.op /= "delete" BY DEF CommandsInv, Threads
<1>2. DOMAIN task' = Tasks /\ \A n \in NodeNames : task'[n] = task[n]
  BY DEF ProvTypeOK, Threads
<1>3. ProvTypeOK' /\ NodeTasksInv' BY <1>2 DEF ProvTypeOK, NodeTasksInv
<1>4. CommandsInv' BY <1>1, <1>2 DEF CommandsInv, Executor
<1>5. FolderInv' BY <1>1 DEF FolderInv
<1>6. ListedNodesExist' BY DEF ListedNodesExist, ProvTypeOK, Reporting
<1>7. UnitsInv' BY <1>2 DEF UnitsInv, ProvTypeOK
<1> QED  BY <1>3, <1>4, <1>5, <1>6, <1>7

LEMMA ThreadsKeep ==
  ASSUME ProvInv,
         \/ _create_resource_group \/ _create_vnet \/ _build_node_image
         \/ _create_master_vm \/ _init_master \/ _create_user \/ _create_and_init_master
  PROVE  ProvInv'
<1> USE DEF vms, Goto, Fails, Threads, ArmTemplateParameters, MasterInitializer, Unreported, UserCreator
<1>1. CASE _create_resource_group BY <1>1, ThreadStepKeeps DEF _create_resource_group
<1>2. CASE _create_vnet BY <1>2, ThreadStepKeeps DEF _create_vnet
<1>3. CASE _build_node_image
  BY <1>3, ThreadStepKeeps DEF _build_node_image, retry_connection
<1>4. CASE _create_master_vm BY <1>4, ThreadStepKeeps DEF _create_master_vm
<1>5. CASE _init_master BY <1>5, ThreadStepKeeps DEF _init_master
<1>6. CASE _create_user BY <1>6, ThreadStepKeeps DEF _create_user
<1>7. CASE _create_and_init_master BY <1>7, ThreadStepKeeps DEF _create_and_init_master
<1> QED  BY <1>1, <1>2, <1>3, <1>4, <1>5, <1>6, <1>7

(* A command starts: its tasks have done nothing yet.                      *)
LEMMA CommandStarts ==
  ASSUME ProvInv, cmd = NoCommand,
         UNCHANGED <<mode, cloud, folder, failures, vms>>,
         DOMAIN task' = Tasks,
         \A n \in NodeNames : task'[n] \in {"end", "vm", "leave", "vm_on", "server_off"}
                              \/ (mode = "on_premises" /\ task'[n] = "connect"),
         deleting => deleting',
         \/ cmd'.op = "create" /\ folder = {} /\ \A n \in NodeNames : task'[n] = "end"
         \/ cmd'.op \in {"scale", "start", "stop"} /\ mode = "azure" /\ Executor
         \/ cmd'.op \in {"join", "leave"} /\ mode = "on_premises"
         \/ cmd'.op = "delete" /\ CommandsInv' /\ (mode = "azure" => task'["main"] /= "files")
  PROVE  ProvInv'
<1> USE NamesApart DEF ProvInv
<1>1. cmd.op = "idle" BY DEF NoCommand
<1>2. ProvTypeOK' BY DEF ProvTypeOK, vms
<1>3. NodeTasksInv' BY DEF NodeTasksInv, FolderInv, vms
<1>4. CommandsInv' BY DEF CommandsInv, Executor
<1>5. FolderInv' BY <1>1 DEF FolderInv, Executor, vms
<1>6. ListedNodesExist' BY DEF ListedNodesExist, Reporting, vms
<1>7. UnitsInv'
 <2>1. \A n \in NodeNames : task[n] = "end" BY <1>1 DEF CommandsInv
 <2> QED  BY <2>1 DEF UnitsInv, UnitsOK, vms
<1> QED  BY <1>2, <1>3, <1>4, <1>5, <1>6, <1>7

LEMMA CommandsStart ==
  ASSUME ProvInv,
         \/ create \/ create_on_premises \/ delete \/ delete_on_premises
         \/ \E s, r : scale_node(s, r) \/ start_node(s, r) \/ stop_node(s, r)
         \/ \E n \in NodeNames : leave(n) \/ \E s : join_cluster(n, s)
  PROVE  ProvInv'
<1> USE NamesApart DEF Begin, Ended, Threads
<1>1. CASE create \/ create_on_premises
 <2>1. cmd'.op = "create" /\ DOMAIN task' = Tasks /\ \A n \in NodeNames : task'[n] = "end"
   BY <1>1 DEF create, create_on_premises
 <2> QED  BY <1>1, <2>1, CommandStarts DEF create, create_on_premises
<1>2. ASSUME NEW s, NEW r, scale_node(s, r)
      PROVE  ProvInv'
 <2>1. cmd'.op = "scale" /\ DOMAIN task' = Tasks
       /\ \A n \in NodeNames : task'[n] \in {"end", "vm", "leave"}
   BY <1>2 DEF scale_node, _create_nodes, _delete_nodes
 <2> QED  BY <1>2, <2>1, CommandStarts DEF scale_node
<1>3. ASSUME NEW s, NEW r, start_node(s, r) \/ stop_node(s, r)
      PROVE  ProvInv'
 <2>1. cmd'.op \in {"start", "stop"} /\ DOMAIN task' = Tasks
       /\ \A n \in NodeNames : task'[n] \in {"end", "vm_on", "server_off"}
   BY <1>3 DEF start_node, stop_node
 <2> QED  BY <1>3, <2>1, CommandStarts DEF start_node, stop_node
<1>4. ASSUME NEW n \in NodeNames, NEW s, leave(n) \/ join_cluster(n, s)
      PROVE  ProvInv'
 <2>1. /\ cmd'.op \in {"join", "leave"} /\ DOMAIN task' = Tasks
       /\ \A m \in NodeNames : task'[m] \in {"end", "leave", "connect"}
   BY <1>4 DEF leave, join_cluster
 <2> QED  BY <1>4, <2>1, CommandStarts DEF leave, join_cluster
<1>5. CASE delete
 <2>1. CommandsInv' /\ task'["main"] = "resources" BY <1>5 DEF delete, CommandsInv, Executor
 <2> QED  BY <1>5, <2>1, CommandStarts DEF delete
<1>6. CASE delete_on_premises
 <2>1. CommandsInv' BY <1>6 DEF delete_on_premises, CommandsInv, ProvInv, ProvTypeOK
 <2> QED  BY <1>6, <2>1, CommandStarts DEF delete_on_premises
<1> QED  BY <1>1, <1>2, <1>3, <1>4, <1>5, <1>6

(* A step of the task of node n: what else the command has done stays, and *)
(* what matters is what becomes of node n.                                 *)
LEMMA NodeStepKeeps ==
  ASSUME ProvInv, NEW n \in NodeNames, NEW next, task[n] /= "end",
         task' = [task EXCEPT ![n] = next],
         UNCHANGED <<mode, cmd, deleting>>,
         folder \ {n} \subseteq folder',
         \A m \in NodeNames \ {n} :
           /\ m \in cloud => m \in cloud'
           /\ m \in power => m \in power'
           /\ m \in killed => m \in killed'
           /\ m \in scripted => m \in scripted'
           /\ <<m, "agent">> \in services <=> <<m, "agent">> \in services'
           /\ <<m, "server">> \in services <=> <<m, "server">> \in services'
           /\ <<m, "agent">> \in enabled <=> <<m, "agent">> \in enabled'
           /\ <<m, "server">> \in enabled <=> <<m, "server">> \in enabled'
           /\ m \in DOMAIN listed' => m \in DOMAIN listed /\ listed'[m] = listed[m],
         DOMAIN listed' \subseteq NodeNames,
         n \in DOMAIN listed' =>
           /\ n \in DOMAIN listed \/ cmd.op \in {"scale", "join"}
           /\ DOMAIN listed'[n] = {"size", "status"}
           /\ ~ deleting => /\ n \in cloud'
                           /\ (listed'[n].status = "Running"
                                => (<<n, "agent">> \in services' /\ n \in power') \/ n \in killed'),
         failures' \in {failures, failures + 1},
         failures' = 0 => UnitsOK(n, next, services', enabled', power', scripted'),
         mode = "on_premises" => n \in cloud',
         next \in {"connect", "script"} => n \in cloud',
         next \in {"resources", "files"} => n \notin DOMAIN listed',
         next = "vm_off" => <<n, "agent">> \notin services'
  PROVE  ProvInv'
<1> USE NamesApart DEF ProvInv
<1>1. cmd.op /= "idle" /\ (cmd.op = "delete" => mode = "on_premises")
  BY DEF CommandsInv, ProvTypeOK
<1>2. /\ DOMAIN task' = Tasks /\ task'[n] = next
      /\ \A t \in Tasks : t /= n => task'[t] = task[t]
  BY DEF ProvTypeOK
<1>3. ProvTypeOK'
 <2>1. ASSUME NEW m \in DOMAIN listed'
       PROVE  DOMAIN listed'[m] = {"size", "status"}
   BY DEF ProvTypeOK
 <2> QED  BY <1>2, <2>1 DEF ProvTypeOK
<1>4. NodeTasksInv' BY <1>2 DEF NodeTasksInv
<1>5. CommandsInv' BY <1>1, <1>2 DEF CommandsInv, Executor, Threads
<1>6. FolderInv'
 <2>1. CASE mode = "azure"
  <3>1. cmd.op = "create" \/ folder' = {} => DOMAIN listed' = {}
   <4>1. CASE cmd.op = "create" BY <2>1, <4>1 DEF FolderInv
   <4>2. CASE cmd.op \in {"scale", "start", "stop"} BY <4>2 DEF CommandsInv, Executor
   <4> QED  BY <1>1, <2>1, <4>1, <4>2 DEF CommandsInv
  <3> QED  BY <1>1, <2>1, <3>1 DEF FolderInv
 <2>2. CASE mode = "on_premises" BY <2>2 DEF FolderInv
 <2> QED  BY <2>1, <2>2 DEF ProvTypeOK
<1>7. ListedNodesExist' BY DEF ListedNodesExist, Reporting
<1>8. UnitsInv'
 <2> SUFFICES ASSUME failures' = 0, NEW m \in NodeNames
              PROVE  UnitsOK(m, task'[m], services', enabled', power', scripted')
   BY DEF UnitsInv
 <2>1. failures = 0 BY DEF ProvTypeOK
 <2>2. CASE m = n BY <1>2, <2>2
 <2>3. CASE m /= n
  <3>1. UnitsOK(m, task'[m], services, enabled, power, scripted) BY <1>2, <2>1, <2>3 DEF UnitsInv
  <3> QED  BY <2>3, <3>1 DEF UnitsOK
 <2> QED  BY <2>2, <2>3
<1> QED  BY <1>3, <1>4, <1>5, <1>6, <1>7, <1>8

(* A unit stops: an entry that still says that the node runs is true, or   *)
(* its agent was killed.                                                   *)
LEMMA UnitStops ==
  ASSUME ProvInv, NEW n \in NodeNames, NEW kind \in {"agent", "server"}, StopUnit(n, kind)
  PROVE  /\ services' = services \ {<<n, kind>>}
         /\ DOMAIN listed' = DOMAIN listed
         /\ n \in DOMAIN listed => DOMAIN listed'[n] = {"size", "status"}
         /\ \A m \in NodeNames \ {n} : /\ m \in DOMAIN listed => listed'[m] = listed[m]
                                       /\ m \in killed => m \in killed'
         /\ ~ deleting /\ n \in DOMAIN listed /\ listed'[n].status = "Running"
              => (<<n, "agent">> \in services' /\ n \in power) \/ n \in killed'
<1>1. services' = services \ {<<n, kind>>} BY DEF StopUnit
<1>2. CASE listed' = listed /\ killed' = killed \cup {n}
  BY <1>1, <1>2 DEF ProvInv, ProvTypeOK
<1>3. CASE listed' = Stopped(n) /\ killed' = killed \ {n}
  BY <1>1, <1>3 DEF ProvInv, ProvTypeOK, Stopped
<1>4. CASE (kind /= "agent" \/ <<n, kind>> \notin services) /\ UNCHANGED <<listed, killed>>
  BY <1>1, <1>4 DEF ProvInv, ProvTypeOK, ListedNodesExist, Reporting
<1> QED  BY <1>2, <1>3, <1>4 DEF StopUnit

(* A node leaves, in both kinds of clusters.                               *)
LEMMA LeaveUnitKeeps ==
  ASSUME ProvInv, NEW n \in NodeNames, NEW kind, NEW next, LeaveUnit(n, kind, next),
         \/ task[n] = "leave" /\ kind = "agent" /\ next = "leave_server"
         \/ task[n] = "leave_server" /\ kind = "server" /\ next = "umount",
         UNCHANGED <<mode, cmd, deleting, cloud, power, scripted, folder>>
  PROVE  ProvInv'
<1>1. failures = 0 => UnitsOK(n, task[n], services, enabled, power, scripted)
  BY DEF ProvInv, UnitsInv
<1>2. failures \in Nat /\ DOMAIN listed \subseteq NodeNames /\ (mode = "on_premises" => n \in cloud)
  BY DEF ProvInv, ProvTypeOK, FolderInv
<1>3. CASE /\ StopUnit(n, kind) /\ enabled' = enabled \ {<<n, kind>>}
           /\ n \in power \cap scripted /\ Goto(n, next) /\ UNCHANGED failures
 <2>1. failures = 0 => UnitsOK(n, next, services \ {<<n, kind>>}, enabled', power, scripted)
   BY <1>1, <1>3 DEF UnitsOK
 <2> QED  BY <1>2, <1>3, <2>1, UnitStops, NodeStepKeeps DEF Goto, ProvInv, ListedNodesExist
<1>4. CASE /\ UNCHANGED <<services, enabled, listed, killed>> /\ Goto(n, "raise")
           /\ \/ failures' = failures + 1
              \/ failures' = failures /\ (n \notin power \cap scripted \/ <<n, kind>> \notin enabled)
 <2>1. failures' = 0 => UnitsOK(n, "raise", services, enabled, power, scripted)
   BY <1>1, <1>2, <1>4 DEF UnitsOK
 <2> QED  BY <1>2, <1>4, <2>1, NodeStepKeeps DEF Goto, ProvInv, ProvTypeOK, ListedNodesExist, Reporting
<1> QED  BY <1>3, <1>4 DEF LeaveUnit, Fails

LEMMA LeavingKeeps ==
  ASSUME ProvInv, NEW n \in NodeNames, leave_cluster(n, "unlist"),
         UNCHANGED <<mode, cmd, deleting, cloud, power, scripted, folder>>
  PROVE  ProvInv'
<1>1. CASE task[n] = "umount" /\ UNCHANGED <<services, enabled, listed, killed>>
 <2>1. PICK next \in {"unlist", "raise"} :
         task' = [task EXCEPT ![n] = next] /\ failures' \in {failures, failures + 1}
   BY <1>1 DEF leave_cluster, Goto, Fails
 <2>2. failures' = 0 => UnitsOK(n, next, services, enabled, power, scripted)
   BY <1>1, <2>1 DEF ProvInv, UnitsInv, UnitsOK, ProvTypeOK
 <2> QED
   BY <1>1, <2>1, <2>2, NodeStepKeeps DEF ProvInv, ProvTypeOK, ListedNodesExist, Reporting, FolderInv
<1> QED  BY <1>1, LeaveUnitKeeps DEF leave_cluster

(* A node is taken off the list.                                           *)
LEMMA UnlistingKeeps ==
  ASSUME ProvInv, NEW n \in NodeNames, task[n] = "unlist",
         NEW next \in {"resources", "end"}, Goto(n, next), listed' = Unlisted(listed, n),
         UNCHANGED <<mode, cmd, deleting, cloud, power, folder, services, enabled, killed,
                     scripted, failures>>
  PROVE  ProvInv'
<1>1. /\ DOMAIN listed' = DOMAIN listed \ {n}
      /\ \A m \in DOMAIN listed' : listed'[m] = listed[m]
  BY DEF Unlisted
<1>2. failures = 0 => UnitsOK(n, next, services, enabled, power, scripted)
  BY DEF ProvInv, UnitsInv, UnitsOK
<1> QED  BY <1>1, <1>2, NodeStepKeeps DEF Goto, ProvInv, ProvTypeOK, FolderInv

(* Nodes are created and join.                                             *)
LEMMA JoiningKeeps ==
  ASSUME ProvInv, NEW n \in NodeNames,
         \/ _create_vm(n) \/ _join_cluster(n) \/ setup_node(n)
         \/ (cmd.op \in {"scale", "join"} /\ NodeJoiner(n, cmd.size))
  PROVE  ProvInv'
<1> USE DEF UnitsInv
<1>0. /\ failures \in Nat
      /\ failures = 0 => UnitsOK(n, task[n], services, enabled, power, scripted)
  BY DEF ProvInv, ProvTypeOK
<1>1. CASE _create_vm(n)
 <2>1. PICK next \in {"connect", "raise"} :
         /\ task' = [task EXCEPT ![n] = next] /\ (next = "connect" => n \in cloud')
         /\ failures' \in {failures, failures + 1}
   BY <1>1 DEF _create_vm, Goto, Fails
 <2>2. /\ task[n] = "vm"
       /\ UNCHANGED <<mode, cmd, deleting, listed, services, enabled, killed, scripted>>
       /\ folder \subseteq folder' /\ cloud \subseteq cloud' /\ power \subseteq power'
   BY <1>1 DEF _create_vm, ArmTemplateParameters
 <2>3. failures' = 0 => UnitsOK(n, next, services, enabled, power', scripted)
   BY <1>0, <2>1, <2>2 DEF UnitsOK
 <2> QED
   BY <2>1, <2>2, <2>3, NodeStepKeeps DEF ProvInv, ProvTypeOK, ListedNodesExist, Reporting, FolderInv
<1>2. CASE _join_cluster(n)
 <2>1. PICK next \in {"script", "raise"} :
         task' = [task EXCEPT ![n] = next] /\ failures' \in {failures, failures + 1}
   BY <1>2 DEF _join_cluster, retry_connection, Goto, Fails
 <2>2. /\ task[n] = "connect" /\ n \in cloud
       /\ UNCHANGED <<mode, cmd, deleting, listed, services, enabled, killed, scripted, folder, cloud, power>>
   BY <1>2 DEF _join_cluster, vms, ProvInv, NodeTasksInv
 <2>3. failures' = 0 => UnitsOK(n, next, services, enabled, power, scripted)
   BY <1>0, <2>1, <2>2 DEF UnitsOK
 <2> QED
   BY <2>1, <2>2, <2>3, NodeStepKeeps DEF ProvInv, ProvTypeOK, ListedNodesExist, Reporting, FolderInv
<1>3. CASE setup_node(n)
 <2>1. PICK next \in {"agent", "server", "key", "end"} : task' = [task EXCEPT ![n] = next]
   BY <1>3 DEF setup_node, Goto
 <2>2. /\ task[n] \in {"mount", "agent", "server", "key"}
       /\ UNCHANGED <<mode, cmd, deleting, listed, killed, folder, cloud, power>>
       /\ \/ UNCHANGED <<services, enabled>>
          \/ StartUnit(n, "agent") \/ StartUnit(n, "server")
       /\ scripted \subseteq scripted' /\ failures' \in {failures, failures + 1}
   BY <1>3 DEF setup_node, Unreported
 <2>3. failures' = 0 => UnitsOK(n, task'[n], services', enabled', power, scripted')
   BY <1>0, <1>3 DEF setup_node, Goto, Unreported, UnitsOK, StartUnit, ProvInv, ProvTypeOK, Tasks
 <2>4. task'[n] = next BY <2>1 DEF ProvInv, ProvTypeOK, Tasks
 <2> QED
   BY <2>1, <2>2, <2>3, <2>4, NodeStepKeeps, ZenonT(60)
      DEF StartUnit, ProvInv, ProvTypeOK, ListedNodesExist, Reporting, FolderInv
<1>4. CASE cmd.op \in {"scale", "join"} /\ NodeJoiner(n, cmd.size)
 <2>1. PICK next \in {"mount", "end"} : task' = [task EXCEPT ![n] = next]
   BY <1>4 DEF NodeJoiner, Goto
 <2>2. /\ task[n] = "script" /\ n \in cloud
       /\ UNCHANGED <<mode, cmd, deleting, services, enabled, scripted, folder, cloud, power, failures>>
       /\ \A m \in NodeNames \ {n} : m \in killed => m \in killed'
   BY <1>4 DEF NodeJoiner, ProvInv, NodeTasksInv
 <2>3. failures' = 0 => UnitsOK(n, next, services, enabled, power, scripted)
   BY <1>0, <2>1, <2>2 DEF UnitsOK
 <2>4. CASE UNCHANGED <<listed, killed>>
   BY <2>1, <2>2, <2>3, <2>4, NodeStepKeeps DEF ProvInv, ProvTypeOK, ListedNodesExist, Reporting, FolderInv
 <2>5. CASE listed' = With(listed, n, [size |-> cmd.size, status |-> "Pending"])
  <3>1. /\ DOMAIN listed' = DOMAIN listed \cup {n}
        /\ DOMAIN listed'[n] = {"size", "status"} /\ listed'[n].status = "Pending"
        /\ \A m \in DOMAIN listed : m /= n => listed'[m] = listed[m]
    BY <2>5 DEF With
  <3> QED  BY <1>4, <2>1, <2>2, <2>3, <3>1, NodeStepKeeps DEF ProvInv, ProvTypeOK, FolderInv
 <2> QED  BY <1>4, <2>4, <2>5 DEF NodeJoiner
<1> QED  BY <1>1, <1>2, <1>3, <1>4

(* Nodes are deleted, start, stop and leave.                               *)
LEMMA NodeTasksKeep ==
  ASSUME ProvInv, NEW n \in NodeNames,
         _delete_node(n) \/ _start_node(n) \/ _stop_node(n) \/ activate_leave_cluster(n)
  PROVE  ProvInv'
<1> USE DEF UnitsInv
<1>0. /\ failures \in Nat /\ DOMAIN listed \subseteq NodeNames /\ (mode = "on_premises" => n \in cloud)
      /\ failures = 0 => UnitsOK(n, task[n], services, enabled, power, scripted)
  BY DEF ProvInv, ProvTypeOK, FolderInv
<1>1. CASE _delete_node(n)
 <2>0. mode = "azure" /\ UNCHANGED <<mode, cmd, deleting, scripted>>
   BY <1>1 DEF _delete_node, ProvInv, CommandsInv
 <2>1. CASE leave_cluster(n, "unlist") /\ UNCHANGED <<cloud, power, folder>>
   BY <2>0, <2>1, LeavingKeeps
 <2>2. CASE task[n] = "unlist" BY <1>1, <2>2, UnlistingKeeps DEF _delete_node, leave_cluster
 <2>3. CASE task[n] = "resources"
  <3>1. PICK next \in {"files", "raise"} :
           task' = [task EXCEPT ![n] = next] /\ failures' \in {failures, failures + 1}
    BY <1>1, <2>3 DEF _delete_node, leave_cluster, Goto, Fails
  <3>2. /\ UNCHANGED <<folder, listed, services, enabled, killed>> /\ n \notin DOMAIN listed
        /\ cloud \ {n} \subseteq cloud' /\ power \ {n} \subseteq power'
    BY <1>1, <2>3 DEF _delete_node, leave_cluster, ProvInv, NodeTasksInv
  <3>3. failures' = 0 => UnitsOK(n, next, services', enabled', power', scripted')
    BY <1>0, <2>0, <2>3, <3>1, <3>2 DEF UnitsOK
  <3> QED  BY <2>0, <2>3, <3>1, <3>2, <3>3, NodeStepKeeps DEF ProvInv, ProvTypeOK
 <2>4. CASE task[n] = "files"
  <3>1. PICK next \in {"end", "raise"} :
           task' = [task EXCEPT ![n] = next] /\ failures' \in {failures, failures + 1}
    BY <1>1, <2>4 DEF _delete_node, leave_cluster, Goto, Fails
  <3>2. UNCHANGED <<cloud, power, listed, services, enabled, killed>> /\ n \notin DOMAIN listed /\ folder \ {n} \subseteq folder'
    BY <1>1, <2>4 DEF _delete_node, leave_cluster, ProvInv, NodeTasksInv
  <3>3. failures' = 0 => UnitsOK(n, next, services', enabled', power', scripted')
    BY <1>0, <2>0, <2>4, <3>1, <3>2 DEF UnitsOK
  <3> QED  BY <2>0, <2>4, <3>1, <3>2, <3>3, NodeStepKeeps DEF ProvInv, ProvTypeOK
 <2> QED  BY <1>1, <2>1, <2>2, <2>3, <2>4 DEF _delete_node
<1>2. CASE _start_node(n)
 <2>0. UNCHANGED <<mode, cmd, deleting, cloud, folder, listed, killed, scripted>>
   BY <1>2 DEF _start_node
 <2>1. CASE task[n] = "vm_on"
  <3>1. PICK next \in {"agent_on", "raise"} :
          /\ task' = [task EXCEPT ![n] = next] /\ UNCHANGED enabled
          /\ \/ /\ next = "agent_on" /\ failures' = failures
                /\ power' = power \cup {n} /\ services' = services \cup {u \in enabled : u[1] = n}
             \/ failures' = failures + 1 /\ UNCHANGED <<power, services>>
    BY <1>2, <2>1 DEF _start_node, Goto, Fails
  <3>2. failures' = 0 => UnitsOK(n, next, services', enabled', power', scripted')
    BY <1>0, <2>0, <2>1, <3>1 DEF UnitsOK
  <3>3. power \subseteq power' /\ services \subseteq services'
        /\ \A m \in NodeNames \ {n} : \A k : <<m, k>> \in services' => <<m, k>> \in services
    BY <3>1
  <3> QED  BY <1>0, <2>0, <2>1, <3>1, <3>2, <3>3, NodeStepKeeps DEF ProvInv, ProvTypeOK, ListedNodesExist, Reporting
 <2>2. CASE \/ task[n] = "agent_on" /\ StartCall(n, "agent", "server_on") /\ UNCHANGED power
            \/ task[n] = "server_on" /\ StartCall(n, "server", "end") /\ UNCHANGED power
  <3>1. PICK next \in {"server_on", "end", "raise"} :
          task' = [task EXCEPT ![n] = next] /\ failures' \in {failures, failures + 1}
    BY <2>2 DEF StartCall, Goto, Fails
  <3>2. UNCHANGED <<services, enabled>> \/ StartUnit(n, "agent") \/ StartUnit(n, "server")
    BY <2>2 DEF StartCall
  <3>3. task'[n] = next BY <3>1 DEF ProvInv, ProvTypeOK, Tasks
  <3>4. failures' = 0 => UnitsOK(n, task'[n], services', enabled', power', scripted')
    BY <1>0, <2>0, <2>2 DEF StartCall, StartUnit, Goto, Fails, UnitsOK, ProvInv, ProvTypeOK, Tasks
  <3> QED
    BY <1>0, <2>0, <2>2, <3>1, <3>2, <3>3, <3>4, NodeStepKeeps
       DEF StartUnit, ProvInv, ProvTypeOK, ListedNodesExist, Reporting
 <2> QED  BY <1>2, <2>1, <2>2 DEF _start_node
<1>3. CASE _stop_node(n)
 <2>0. UNCHANGED <<mode, cmd, deleting, cloud, folder, enabled, scripted>> BY <1>3 DEF _stop_node
 <2>1. CASE UNCHANGED <<services, listed, killed, power>> /\ task' = [task EXCEPT ![n] = "raise"]
            /\ task[n] \in {"server_off", "agent_off", "vm_off"} /\ failures' \in {failures, failures + 1}
            /\ (failures' = failures => task[n] /= "agent_off" \/ n \notin scripted \cap power)
  <3>1. failures' = 0 => UnitsOK(n, "raise", services, enabled, power, scripted)
    BY <1>0, <2>1 DEF UnitsOK
  <3> QED
    BY <1>0, <2>0, <2>1, <3>1, NodeStepKeeps DEF ProvInv, ProvTypeOK, ListedNodesExist, Reporting
 <2>2. ASSUME NEW kind \in {"agent", "server"}, StopUnit(n, kind), UNCHANGED power,
              <<task[n], kind>> \in {<<"server_off", "server">>, <<"agent_off", "agent">>},
              NEW next, task' = [task EXCEPT ![n] = next],
              \/ failures' = failures + 1 /\ next = "raise"
              \/ /\ failures' = failures /\ n \in scripted \cap power
                 /\ next = IF kind = "server" THEN "agent_off" ELSE "vm_off"
       PROVE  ProvInv'
  <3>1. failures' = 0 => UnitsOK(n, next, services \ {<<n, kind>>}, enabled, power, scripted)
    BY <1>0, <2>2 DEF UnitsOK
  <3> QED  BY <1>0, <2>0, <2>2, <3>1, UnitStops, NodeStepKeeps DEF ProvInv, ListedNodesExist
 <2>3. CASE /\ task[n] = "vm_off" /\ UNCHANGED <<services, listed, killed>> /\ power' = power \ {n}
            /\ task' = [task EXCEPT ![n] = "end"] /\ UNCHANGED failures
  <3>1. failures' = 0 => UnitsOK(n, "end", services, enabled, power', scripted)
    BY <1>0, <2>3 DEF UnitsOK
  <3> QED
    BY <1>0, <2>0, <2>3, <3>1, NodeStepKeeps DEF ProvInv, ProvTypeOK, ListedNodesExist, Reporting, NodeTasksInv
 <2>4. CASE task[n] = "server_off" /\ StopCall(n, "server", "agent_off") /\ UNCHANGED power
   BY <1>0, <2>1, <2>2, <2>4 DEF StopCall, Goto, Fails
 <2>5. CASE task[n] = "agent_off" /\ StopCall(n, "agent", "vm_off") /\ UNCHANGED power
   BY <1>0, <2>1, <2>2, <2>5 DEF StopCall, Goto, Fails
 <2> QED  BY <1>0, <1>3, <2>1, <2>3, <2>4, <2>5 DEF _stop_node, Goto, Fails
<1>4. CASE activate_leave_cluster(n)
 <2>1. CASE leave_cluster(n, "unlist")
   BY <1>4, <2>1, LeavingKeeps DEF activate_leave_cluster
 <2>2. CASE task[n] = "unlist" /\ n \in DOMAIN listed
   BY <1>4, <2>2, UnlistingKeeps DEF activate_leave_cluster, leave_cluster
 <2>3. CASE task[n] = "unlist" /\ n \notin DOMAIN listed
  <3>1. /\ task' = [task EXCEPT ![n] = "end"]
        /\ UNCHANGED <<mode, cmd, deleting, cloud, power, folder, services, enabled, killed,
                       scripted, listed, failures>>
    BY <1>4, <2>3 DEF activate_leave_cluster, leave_cluster, Goto
  <3>2. failures = 0 => UnitsOK(n, "end", services, enabled, power, scripted)
    BY <1>0, <2>3 DEF UnitsOK
  <3> QED  BY <1>0, <2>3, <3>1, <3>2, NodeStepKeeps DEF ProvInv, ProvTypeOK
 <2> QED  BY <1>4, <2>1, <2>2, <2>3 DEF activate_leave_cluster
<1> QED  BY <1>1, <1>2, <1>3, <1>4

(* A node's agent reports, and containers come and go.                     *)
LEMMA ReportsKeep ==
  ASSUME ProvInv, NEW n \in NodeNames, agent_reports(n) \/ containers_change(n)
  PROVE  ProvInv'
<1> USE DEF ProvInv
<1>1. CASE agent_reports(n)
 <2>1. /\ n \in DOMAIN listed /\ Reporting(n)
       /\ listed' = [listed EXCEPT ![n].status = "Running"] /\ killed' = killed \ {n}
       /\ UNCHANGED <<mode, cloud, power, folder, services, enabled, scripted, cmd, task, deleting, failures>>
   BY <1>1 DEF agent_reports
 <2>2. /\ DOMAIN listed' = DOMAIN listed /\ DOMAIN listed'[n] = {"size", "status"}
       /\ \A m \in DOMAIN listed : m /= n => listed'[m] = listed[m]
   BY <2>1 DEF ProvTypeOK
 <2>3. ProvTypeOK' /\ NodeTasksInv' /\ CommandsInv' /\ FolderInv'
   BY <2>1, <2>2 DEF ProvTypeOK, NodeTasksInv, CommandsInv, FolderInv, Executor
 <2>4. ListedNodesExist' /\ UnitsInv'
   BY <2>1, <2>2 DEF ListedNodesExist, Reporting, UnitsInv, UnitsOK
 <2> QED  BY <2>3, <2>4
<1>2. CASE containers_change(n)
  BY <1>2 DEF containers_change, ProvTypeOK, NodeTasksInv, CommandsInv, FolderInv, Executor, ListedNodesExist,
     Reporting, UnitsInv, UnitsOK
<1> QED  BY <1>1, <1>2

(* The ends of commands, and the deletion of a cluster's resources.        *)
LEMMA CommandEndsKeep ==
  ASSUME ProvInv, create_ends \/ pool_ends \/ delete_resources \/ delete_ends
  PROVE  ProvInv'
<1> USE NamesApart DEF ProvInv
<1>0. ASSUME cmd' = NoCommand, task' = Ended, mode' = mode
      PROVE  NodeTasksInv' /\ CommandsInv' /\ cmd'.op = "idle" /\ DOMAIN task' = Tasks
  BY <1>0 DEF NodeTasksInv, CommandsInv, NoCommand, Ended
<1>u. ASSUME task' = Ended, UNCHANGED <<services, enabled, failures>>,
             \A n \in NodeNames : task[n] \in {"end", "raise"}
      PROVE  UnitsInv'
  BY <1>u DEF UnitsInv, UnitsOK, Ended
<1>1. CASE create_ends
 <2>1. /\ cmd' = NoCommand /\ task' = Ended /\ cmd.op = "create"
       /\ UNCHANGED <<mode, listed, power, services, enabled, killed, deleting, failures>>
   BY <1>1 DEF create_ends, vms
 <2> UnitsInv' BY <1>u, <2>1 DEF CommandsInv
 <2> USE DEF Reporting
 <2>2. CASE UNCHANGED cloud /\ folder' /= {}
   BY <1>0, <2>1, <2>2 DEF ProvTypeOK, FolderInv, ListedNodesExist
 <2>3. CASE mode = "azure" /\ cloud' = {}
   BY <1>0, <2>1, <2>3 DEF ProvTypeOK, FolderInv, ListedNodesExist
 <2>4. CASE mode = "on_premises" /\ UNCHANGED cloud
   BY <1>0, <2>1, <2>4 DEF ProvTypeOK, FolderInv, ListedNodesExist
 <2> QED  BY <1>1, <2>2, <2>3, <2>4 DEF create_ends, ProvTypeOK
<1>2. CASE pool_ends
 <2>1. /\ cmd' = NoCommand /\ task' = Ended
       /\ cmd.op \in {"scale", "start", "stop", "join", "leave"}
       /\ UNCHANGED <<mode, cloud, folder, vms, deleting, failures>>
   BY <1>2 DEF pool_ends
 <2>2. mode = "azure" => folder /= {} BY <2>1 DEF CommandsInv, Executor
 <2>3. ProvTypeOK' /\ ListedNodesExist' BY <1>0, <2>1 DEF ProvTypeOK, ListedNodesExist, Reporting, vms
 <2>4. FolderInv' BY <1>0, <2>1, <2>2 DEF FolderInv, vms
 <2>5. UnitsInv'
  <3>1. \A n \in NodeNames : task[n] \in {"end", "raise"} BY <1>2 DEF pool_ends
  <3> QED  BY <1>u, <2>1, <3>1 DEF vms
 <2> QED  BY <1>0, <2>1, <2>3, <2>4, <2>5
<1>3. CASE delete_resources
 <2> USE <1>3 DEF delete_resources, Goto, Fails
 <2>1. mode = "azure" /\ deleting /\ deleting' /\ UNCHANGED <<mode, folder, cmd>>
   BY DEF CommandsInv, ProvTypeOK
 <2>2. /\ DOMAIN task' = Tasks /\ \A t \in Tasks : t /= "main" => task'[t] = task[t]
       /\ task'["main"] \in {"files", "raise"}
       /\ task'["main"] = "files" => cloud' = {}
   BY DEF ProvTypeOK, Threads
 <2>3. listed' = listed \/ DOMAIN listed' = {} OBVIOUS
 <2>4. cloud' = {} => DOMAIN listed' = {} OBVIOUS
 <2> HIDE <1>3 DEF delete_resources
 <2>5. \A n \in NodeNames : task'[n] = "end"
   BY <1>3, <2>1, <2>2 DEF delete_resources, CommandsInv, Threads
 <2>6. ProvTypeOK' BY <1>3, <2>1, <2>2, <2>3 DEF delete_resources, Goto, Fails, ProvTypeOK
 <2>9. NodeTasksInv' /\ ListedNodesExist'
   BY <2>1, <2>2, <2>3, <2>5 DEF ProvTypeOK, NodeTasksInv, ListedNodesExist
 <2>7. CommandsInv'
   BY <1>3, <2>1, <2>2, <2>5 DEF delete_resources, CommandsInv, Executor, Threads
 <2>8. FolderInv' BY <1>3, <2>1, <2>2, <2>3, <2>4 DEF delete_resources, FolderInv
 <2>10. UnitsInv'
  <3> SUFFICES ASSUME failures' = 0, NEW n \in NodeNames
               PROVE  UnitsOK(n, task'[n], services', enabled', power', scripted')
    BY DEF UnitsInv
  <3>1. failures = 0 /\ task[n] = "end"
    BY <1>3, <2>1 DEF delete_resources, Goto, Fails, ProvTypeOK, CommandsInv
  <3>2. UnitsOK(n, "end", services, enabled, power, scripted) BY <3>1 DEF UnitsInv
  <3>3. /\ \A k : <<n, k>> \in services' <=> <<n, k>> \in services /\ n \in cloud'
        /\ \A k : <<n, k>> \in enabled' <=> <<n, k>> \in enabled /\ n \in cloud'
    BY <1>3 DEF delete_resources
  <3> QED  BY <2>5, <3>2, <3>3 DEF UnitsOK
 <2> QED  BY <2>6, <2>7, <2>8, <2>9, <2>10
<1>4. CASE delete_ends
 <2> USE <1>4 DEF delete_ends
 <2>1. /\ cmd' = NoCommand /\ task' = Ended /\ cmd.op = "delete"
       /\ UNCHANGED <<mode, cloud, power, services, enabled, killed, failures>>
   OBVIOUS
 <2> UnitsInv' BY <1>u, <2>1
 <2> USE DEF Reporting
 <2>2. CASE mode = "on_premises"
  <3>1. DOMAIN listed' = {} BY <2>2 DEF MasterReleaser
  <3> QED  BY <1>0, <2>1, <2>2, <3>1 DEF ProvTypeOK, FolderInv, ListedNodesExist
 <2>3. CASE mode = "azure" /\ task["main"] = "files"
   BY <1>0, <2>1, <2>3 DEF ProvTypeOK, FolderInv, ListedNodesExist
 <2>4. CASE mode = "azure" /\ task["main"] = "raise"
  <3>1. folder' = folder /\ folder /= {} /\ deleting' /\ listed' = listed
    BY <2>4 DEF CommandsInv, Executor
  <3> QED  BY <1>0, <2>1, <2>4, <3>1 DEF ProvTypeOK, FolderInv, ListedNodesExist
 <2> QED  BY <2>2, <2>3, <2>4 DEF ProvTypeOK
<1> QED  BY <1>1, <1>2, <1>3, <1>4

LEMMA ProvKeeps ==
  ASSUME ProvInv, ProvNext \/ UNCHANGED provVars
  PROVE  ProvInv'
<1>1. CASE UNCHANGED provVars
  BY <1>1 DEF provVars, ProvInv, ProvTypeOK, NodeTasksInv, CommandsInv, FolderInv, Executor, ListedNodesExist,
     Reporting, UnitsInv, UnitsOK
<1>2. CASE ProvNext
  BY <1>2, ThreadsKeep, CommandsStart, JoiningKeeps, NodeTasksKeep, ReportsKeep, CommandEndsKeep
     DEF ProvNext
<1> QED  BY <1>1, <1>2

(* What the master lists has a machine, and runs if it is listed as        *)
(* running; what a cluster leaves in the cloud can be found by its folder. *)
THEOREM OrchestrationKnowsClusters == OrchestrationSpec => []ClusterIsKnown
<1>1. OrchestrationInit => ProvInv
  BY NamesApart DEF OrchestrationInit, ProvInit, ProvInv, ProvTypeOK, NodeTasksInv, CommandsInv, FolderInv,
     ListedNodesExist, NoCommand, Ended, UnitsInv, UnitsOK
<1>2. ProvInv /\ [OrchestrationNext]_orchestrationVars => ProvInv'
 <2>1. ASSUME OrchestrationNext \/ UNCHANGED orchestrationVars
       PROVE  ProvNext \/ UNCHANGED provVars
   BY <2>1 DEF OrchestrationNext, orchestrationVars
 <2> QED  BY <2>1, ProvKeeps
<1>3. ProvInv => ClusterIsKnown
 <2> SUFFICES ASSUME ProvInv PROVE ServicesGoTogether /\ ResourcesAreReachable
   BY DEF ProvInv, ClusterIsKnown
 <2>1. cmd = NoCommand => cmd.op = "idle" BY DEF NoCommand
 <2>2. ServicesGoTogether
   BY <2>1, NamesApart DEF ProvInv, CommandsInv, UnitsInv, UnitsOK, ServicesGoTogether
 <2>3. ResourcesAreReachable BY <2>1 DEF ProvInv, FolderInv, ResourcesAreReachable
 <2> QED  BY <2>2, <2>3
<1> QED  BY <1>1, <1>2, <1>3, PTL DEF OrchestrationSpec

-----------------------------------------------------------------------------
(* Placement in a grass cluster.  What runs on the nodes, what the agents   *)
(* remember of it and what they are in the middle of stay about containers  *)
(* of jobs; a job is in the hands of the pending-job agent at most once, and*)
(* what that agent starts for it fits what the nodes were said to have free.*)

\* Without keeps the order and takes every occurrence out.
LEMMA WithoutRemoves ==
  ASSUME NEW S, NEW queue \in Seq(S), NEW jobs, IsInjective(queue)
  PROVE  /\ Without(queue, jobs) \in Seq(S) /\ IsInjective(Without(queue, jobs))
         /\ ToSet(Without(queue, jobs)) \subseteq ToSet(queue) \ jobs
<1> DEFINE n == Len(queue)
           Seen(k) == {queue[i] : i \in 1 .. k} \ jobs
           T == [k \in 0 .. n |-> {s \in Seq(S) : IsInjective(s) /\ ToSet(s) \subseteq Seen(k)}]
           Next(k, x) == IF queue[k] \in jobs THEN x ELSE Append(x, queue[k])
           G == [p \in (1 .. n) \X UNION {T[k] : k \in 0 .. n} |-> Next(p[1], p[2])]
           kept == CHOOSE f : f = [k \in 0 .. n |-> IF k = 0 THEN << >> ELSE Next(k, f[k - 1])]
<1>1. n \in Nat /\ DOMAIN queue = 1 .. n /\ \A i \in 1 .. n : queue[i] \in S OBVIOUS
<1>2. <<>> \in T[0] BY <1>1, SetOfEmpty
<1>3. ASSUME NEW k \in 1 .. n, NEW x \in T[k - 1]
      PROVE  Next(k, x) \in T[k]
 <2>1. k - 1 \in 0 .. n /\ k \in 0 .. n /\ x \in Seq(S) /\ IsInjective(x) /\ ToSet(x) \subseteq Seen(k - 1)
   BY <1>1, <1>3
 <2>2. Seen(k - 1) \subseteq Seen(k) BY <1>1
 <2>3. CASE queue[k] \in jobs BY <2>1, <2>2, <2>3
 <2>4. CASE queue[k] \notin jobs
  <3>1. queue[k] \notin ToSet(x)
   <4>1. \A i \in 1 .. k - 1 : queue[i] # queue[k] BY <1>1 DEF IsInjective
   <4> QED BY <4>1, <2>1
  <3>2. queue[k] \in Seen(k) /\ queue[k] \in S BY <2>4, <1>1
  <3> HIDE DEF Seen
  <3>3. /\ Append(x, queue[k]) \in Seq(S) /\ IsInjective(Append(x, queue[k]))
        /\ ToSet(Append(x, queue[k])) = ToSet(x) \cup {queue[k]}
    BY <2>1, <3>1, <3>2, SetOfAppend
  <3>4. ToSet(Append(x, queue[k])) \subseteq Seen(k) BY <3>3, <3>2, <2>1, <2>2
  <3>5. Next(k, x) = Append(x, queue[k]) BY <2>4
  <3> HIDE DEF Next
  <3>6. Next(k, x) \in Seq(S) /\ IsInjective(Next(k, x)) /\ ToSet(Next(k, x)) \subseteq Seen(k)
    BY <3>3, <3>4, <3>5
  <3> QED BY <2>1, <3>6
 <2> QED BY <2>3, <2>4
<1>4. \E f : f = [k \in 0 .. n |-> IF k = 0 THEN << >> ELSE Next(k, f[k - 1])]
 <2>1. \A k \in 1 .. n : \A x \in T[k - 1] : G[<<k, x>>] = Next(k, x) /\ G[<<k, x>>] \in T[k]
  <3> SUFFICES ASSUME NEW k \in 1 .. n, NEW x \in T[k - 1]
               PROVE  G[<<k, x>>] = Next(k, x) /\ G[<<k, x>>] \in T[k]
    OBVIOUS
  <3>1. k - 1 \in 0 .. n BY <1>1
  <3> HIDE DEF T, Next
  <3>2. <<k, x>> \in (1 .. n) \X UNION {T[l] : l \in 0 .. n} BY <3>1
  <3>3. G[<<k, x>>] = Next(k, x) BY <3>2
  <3> QED BY <3>3, <1>3
 <2> HIDE DEF T, G, Next
 <2>2. PICK f : /\ f = [k \in 0 .. n |-> IF k = 0 THEN << >> ELSE G[<<k, f[k - 1]>>]]
                /\ \A k \in 0 .. n : f[k] \in T[k]
  <3>1. \A k \in 1 .. n : \A x \in T[k - 1] : G[<<k, x>>] \in T[k] BY <2>1
  <3> DEFINE none == << >>
  <3>2. none \in T[0] BY <1>2
  <3> HIDE DEF none, n
  <3>0. n \in Nat BY <1>1
  <3>3. \E f : IsComputed(f, n, none, G, T) BY <3>0, <3>1, <3>2, IteratesExist
  <3> QED BY <3>3 DEF none, IsComputed
 <2>3. \A k \in 0 .. n : k # 0 => k \in 1 .. n /\ k - 1 \in 0 .. n BY <1>1
 <2>4. \A k \in 0 .. n : (IF k = 0 THEN << >> ELSE G[<<k, f[k - 1]>>])
                           = (IF k = 0 THEN << >> ELSE Next(k, f[k - 1]))
   BY <2>1, <2>2, <2>3
 <2>5. f = [k \in 0 .. n |-> IF k = 0 THEN << >> ELSE Next(k, f[k - 1])] BY <2>2, <2>4
 <2> QED BY <2>5
<1>5. kept = [k \in 0 .. n |-> IF k = 0 THEN << >> ELSE Next(k, kept[k - 1])] BY <1>4
<1>6. Without(queue, jobs) = kept[n] BY DEF Without
<1> HIDE DEF kept
<1>7. \A k \in 0 .. n : kept[k] \in T[k]
 <2>1. kept[0] \in T[0] BY <1>1, <1>2, <1>5
 <2>2. \A k \in 1 .. n : kept[k - 1] \in T[k - 1] => kept[k] \in T[k]
  <3> SUFFICES ASSUME NEW k \in 1 .. n, kept[k - 1] \in T[k - 1] PROVE kept[k] \in T[k]
    OBVIOUS
  <3>1. k \in 0 .. n /\ k # 0 BY <1>1
  <3> HIDE DEF T, Next
  <3>2. kept[k] = Next(k, kept[k - 1]) BY <3>1, <1>5
  <3> QED BY <3>2, <1>3
 <2> HIDE DEF T, Next
 <2> QED BY <1>1, <2>1, <2>2, IteratesKeep
<1>8. n \in 0 .. n /\ Seen(n) = ToSet(queue) \ jobs BY <1>1 DEF ToSet
<1> QED BY <1>6, <1>7, <1>8

-----------------------------------------------------------------------------
\* The allocation plan.

Resource == [Metrics -> Int]

\* A plan names each container once.
EachOnce(plan) == \A x, y \in 1 .. Len(plan) : plan[x][1] = plan[y][1] => x = y

\* What k rounds may have made of a list of free nodes D and n containers: as
\* long as all went well, the nodes chosen cover what they were chosen for.
Placements(D, n, k) ==
  { acc \in [ok : BOOLEAN, free : [D -> Resource], plan : Seq((1 .. n) \X D)] :
      /\ Len(acc.plan) <= k /\ EachOnce(acc.plan)
      /\ acc.ok => \A x \in 1 .. Len(acc.plan) : \A m \in Metrics :
                     acc.free[acc.plan[x][2]][m] >= 0 }

\* While a container waits, the next to be placed is one of those that wait.
LEMMA NextIsRequired ==
  ASSUME NEW metric \in Metrics, NEW required \in Seq([Metrics -> Nat]),
         NEW acc, NEW D, acc.plan \in Seq((1 .. Len(required)) \X D),
         Len(acc.plan) < Len(required)
  PROVE  /\ NextRequired(metric, required, acc) \in 1 .. Len(required)
         /\ \A x \in 1 .. Len(acc.plan) : acc.plan[x][1] # NextRequired(metric, required, acc)
<1> DEFINE n == Len(required)
           p == acc.plan
           placed == { p[k][1] : k \in DOMAIN p }
           waiting == (DOMAIN required) \ placed
           Size(i) == required[i][metric]
<1>1. n \in Nat /\ DOMAIN required = 1 .. n /\ Len(p) \in Nat /\ DOMAIN p = 1 .. Len(p) /\ Len(p) < n
      /\ \A k \in 1 .. Len(p) : p[k] \in (1 .. n) \X D
  OBVIOUS
<1>2. \A i \in 1 .. n : Size(i) \in Int BY <1>1
<1> HIDE DEF n, p, Size
<1>3. \A l \in Nat : IsFiniteSet(1 .. l) /\ Cardinality(1 .. l) = l
 <2> SUFFICES ASSUME NEW l \in Nat PROVE IsFiniteSet(1 .. l) /\ Cardinality(1 .. l) = l
   OBVIOUS
 <2>1. 1 \in Int /\ l \in Int OBVIOUS
 <2>2. IsFiniteSet(1 .. l) /\ Cardinality(1 .. l) = IF 1 > l THEN 0 ELSE l - 1 + 1
   BY <2>1, FS_Interval
 <2> QED BY <2>2
<1>4. IsFiniteSet(1 .. Len(p)) /\ Cardinality(1 .. Len(p)) = Len(p) BY <1>1, <1>3
<1>5. IsFiniteSet(placed) /\ Cardinality(placed) <= Len(p)
 <2> DEFINE f == [k \in 1 .. Len(p) |-> p[k][1]]
 <2>1. f \in Surjection(1 .. Len(p), placed) BY <1>1 DEF Surjection
 <2> HIDE DEF f, placed
 <2> QED BY <2>1, <1>4, FS_Surjection
<1>6. waiting # {}
 <2> SUFFICES ASSUME waiting = {} PROVE FALSE
   OBVIOUS
 <2>1. 1 .. n \subseteq placed BY <1>1
 <2> HIDE DEF placed, waiting
 <2>2. Cardinality(1 .. n) <= Cardinality(placed) /\ Cardinality(placed) \in Nat
   BY <2>1, <1>5, FS_Subset, FS_CardinalityType
 <2>3. Cardinality(1 .. n) = n BY <1>1, <1>3
 <2> QED BY <2>2, <2>3, <1>1, <1>5
<1>7. waiting \subseteq 1 .. n BY <1>1
<1> DEFINE sizes == { Size(i) : i \in waiting }
<1>8. IsFiniteSet(sizes) /\ sizes # {} /\ \A x \in sizes : x \in Int
 <2> HIDE DEF waiting
 <2>1. IsFiniteSet(waiting)
  <3>1. IsFiniteSet(1 .. n) BY <1>1, <1>3
  <3> QED BY <3>1, <1>7, FS_Subset
 <2>2. IsFiniteSet(sizes)
  <3> DEFINE f == [i \in waiting |-> Size(i)]
  <3>1. f \in Surjection(waiting, sizes) BY DEF Surjection
  <3> HIDE DEF f, sizes
  <3> QED BY <3>1, <2>1, FS_Surjection
 <2> QED BY <2>2, <1>2, <1>6, <1>7
<1>9. PICK i \in waiting : \A o \in waiting : Size(i) >= Size(o)
 <2>1. Max(sizes) \in sizes /\ \A y \in sizes : Max(sizes) >= y
  <3> HIDE DEF sizes
  <3> QED BY <1>8, Extremes
 <2> HIDE DEF waiting
 <2> QED BY <2>1
<1>10. NextRequired(metric, required, acc) =
         CHOOSE j \in waiting : \A o \in waiting : Size(j) >= Size(o)
  BY DEF NextRequired, p, Size
<1> HIDE DEF waiting
<1>11. NextRequired(metric, required, acc) \in waiting BY <1>9, <1>10
<1>12. \A x \in 1 .. Len(p) : p[x][1] \notin waiting BY <1>1 DEF waiting
<1> QED BY <1>7, <1>11, <1>12 DEF n, p

\* One round: the node that is chosen covers the container.
LEMMA AllocatePlaces ==
  ASSUME IsFiniteSet(Nodes), NEW strategy, NEW metric \in Metrics, NEW required \in Seq([Metrics -> Nat]),
         NEW D \in SUBSET Nodes, NEW k \in 1 .. Len(required),
         NEW acc \in Placements(D, Len(required), k - 1)
  PROVE  Allocate(strategy, metric, required, acc) \in Placements(D, Len(required), k)
<1> DEFINE n == Len(required)
           i == NextRequired(metric, required, acc)
           fits == { o \in DOMAIN acc.free : GreaterOrEqual(acc.free[o], required[i]) }
           best == IF strategy = "balanced" THEN MostFree(acc.free, fits, metric)
                                        ELSE LeastFree(acc.free, fits, metric)
           result == Allocate(strategy, metric, required, acc)
<1>1. /\ n \in Nat /\ k \in Int /\ k <= n
      /\ acc \in [ok : BOOLEAN, free : [D -> Resource], plan : Seq((1 .. n) \X D)]
      /\ Len(acc.plan) <= k - 1 /\ Len(acc.plan) \in Nat /\ EachOnce(acc.plan)
      /\ acc.ok => \A x \in 1 .. Len(acc.plan) : \A m \in Metrics :
                     acc.free[acc.plan[x][2]][m] >= 0
  BY DEF Placements
<1>2. /\ acc.free \in [D -> Resource] /\ acc.plan \in Seq((1 .. n) \X D) /\ acc.ok \in BOOLEAN
      /\ Len(acc.plan) < n
  BY <1>1
<1>3. i \in 1 .. n /\ \A x \in 1 .. Len(acc.plan) : acc.plan[x][1] # i BY <1>2, NextIsRequired
<1>4. required[i] \in [Metrics -> Nat] BY <1>3
<1>5. CASE ~acc.ok \/ fits = {}
 <2>1. result = [acc EXCEPT !.ok = FALSE] BY <1>5 DEF Allocate
 <2> HIDE DEF result, n
 <2>2. /\ result \in [ok : BOOLEAN, free : [D -> Resource], plan : Seq((1 .. n) \X D)]
       /\ result.ok = FALSE /\ result.plan = acc.plan
   BY <1>1, <2>1
 <2>3. Len(result.plan) <= k /\ EachOnce(result.plan) BY <1>1, <2>2
 <2>4. result \in Placements(D, n, k) BY <2>2, <2>3 DEF Placements
 <2> QED BY <2>4 DEF result, n
<1>6. CASE acc.ok /\ fits # {}
 <2>1. result = [ok   |-> TRUE,
                 free |-> [acc.free EXCEPT ![best] = Minus(@, required[i])],
                 plan |-> Append(acc.plan, <<i, best>>)]
   BY <1>6 DEF Allocate
 <2>2. fits \subseteq D /\ \A o \in fits : acc.free[o] \in Resource /\ acc.free[o][metric] \in Int
   BY <1>2 DEF Resource
 <2>3. \A o \in fits : \A m \in Metrics : acc.free[o][m] >= required[i][m]
   BY <1>2 DEF GreaterOrEqual
 <2> HIDE DEF i, fits, n
 <2>4. best \in fits
  <3> DEFINE Amount(o) == acc.free[o][metric]
             amounts == { Amount(o) : o \in fits }
  <3>1. IsFiniteSet(fits) BY <2>2, FS_Subset
  <3>2. IsFiniteSet(amounts) /\ amounts # {} /\ \A x \in amounts : x \in Int
   <4> DEFINE f == [o \in fits |-> Amount(o)]
   <4>1. f \in Surjection(fits, amounts) BY DEF Surjection
   <4>2. amounts # {} /\ \A x \in amounts : x \in Int BY <1>6, <2>2
   <4> HIDE DEF f, amounts
   <4> QED BY <4>1, <4>2, <3>1, FS_Surjection
  <3>3. /\ Max(amounts) \in amounts /\ \A y \in amounts : Max(amounts) >= y
        /\ Min(amounts) \in amounts /\ \A y \in amounts : Min(amounts) <= y
   <4> HIDE DEF amounts
   <4> QED BY <3>2, Extremes
  <3>4. \E o \in fits : \A u \in fits : Amount(o) >= Amount(u) BY <3>3
  <3>5. \E o \in fits : \A u \in fits : Amount(o) <= Amount(u) BY <3>3
  <3>6. MostFree(acc.free, fits, metric) \in fits BY <3>4 DEF MostFree
  <3>7. LeastFree(acc.free, fits, metric) \in fits BY <3>5 DEF LeastFree
  <3> QED BY <3>6, <3>7
 <2> HIDE DEF best
 <2> DEFINE rest == Minus(acc.free[best], required[i])
            free == [acc.free EXCEPT ![best] = rest]
            plan == Append(acc.plan, <<i, best>>)
 <2>5. best \in D BY <2>2, <2>4
 <2>6. rest \in Resource /\ \A m \in Metrics : rest[m] >= 0
  <3>1. \A m \in Metrics : acc.free[best][m] \in Int /\ required[i][m] \in Int
                            /\ acc.free[best][m] >= required[i][m]
    BY <2>2, <2>3, <2>4, <1>4 DEF Resource
  <3>2. rest = [m \in Metrics |-> acc.free[best][m] - required[i][m]] BY DEF Minus
  <3>3. \A m \in Metrics : rest[m] \in Int /\ rest[m] >= 0 BY <3>1, <3>2
  <3> QED BY <3>2, <3>3 DEF Resource
 <2>7. result = [ok |-> TRUE, free |-> free, plan |-> plan] BY <2>1
 <2> HIDE DEF rest
 <2>8. free \in [D -> Resource] /\ free[best] = rest /\ \A o \in D : o # best => free[o] = acc.free[o]
   BY <1>2, <2>5, <2>6
 <2>9. /\ plan \in Seq((1 .. n) \X D) /\ Len(plan) = Len(acc.plan) + 1
       /\ \A x \in 1 .. Len(acc.plan) : plan[x] = acc.plan[x] /\ acc.plan[x] \in (1 .. n) \X D
       /\ plan[Len(acc.plan) + 1] = <<i, best>>
  <3>1. <<i, best>> \in (1 .. n) \X D BY <1>3, <2>5 DEF i, n
  <3> QED BY <1>2, <3>1, AppendProperties
 <2> HIDE DEF free, plan
 <2>10. ASSUME NEW x \in 1 .. Len(plan), NEW m \in Metrics PROVE free[plan[x][2]][m] >= 0
  <3>1. CASE x = Len(acc.plan) + 1 BY <3>1, <2>6, <2>8, <2>9
  <3>2. CASE x # Len(acc.plan) + 1
   <4>1. x \in 1 .. Len(acc.plan) BY <3>2, <2>9, <1>1
   <4>2. plan[x] = acc.plan[x] /\ acc.plan[x][2] \in D BY <4>1, <2>9
   <4>3. acc.free[acc.plan[x][2]][m] >= 0 BY <4>1, <1>1, <1>6
   <4> QED BY <4>2, <4>3, <2>6, <2>8
  <3> QED BY <3>1, <3>2
 <2>11. Len(plan) <= k /\ EachOnce(plan)
  <3>1. ASSUME NEW x \in 1 .. Len(plan), NEW y \in 1 .. Len(plan), plan[x][1] = plan[y][1]
        PROVE  x = y
   <4>1. \A z \in 1 .. Len(plan) : z = Len(acc.plan) + 1 \/ z \in 1 .. Len(acc.plan) BY <2>9, <1>1
   <4>2. \A z \in 1 .. Len(acc.plan) : plan[z][1] = acc.plan[z][1] /\ plan[z][1] # i BY <1>3, <2>9 DEF i
   <4>3. plan[Len(acc.plan) + 1][1] = i BY <2>9
   <4> QED BY <3>1, <4>1, <4>2, <4>3, <1>1 DEF EachOnce
  <3> QED BY <3>1, <2>9, <1>1 DEF EachOnce
 <2> HIDE DEF result
 <2>12. /\ result \in [ok : BOOLEAN, free : [D -> Resource], plan : Seq((1 .. n) \X D)]
        /\ result.free = free /\ result.plan = plan
   BY <2>7, <2>8, <2>9
 <2>13. result \in Placements(D, n, k) BY <2>10, <2>11, <2>12 DEF Placements
 <2> QED BY <2>13 DEF result, n
<1> QED BY <1>5, <1>6, <1>2

\* A plan that is made fits into what was free, whatever was asked for.
LEMMA PlanIsPlacement ==
  ASSUME IsFiniteSet(Nodes), NEW strategy, NEW metric \in Metrics, NEW required \in Seq([Metrics -> Nat]),
         NEW D \in SUBSET Nodes, NEW free \in [D -> Resource]
  PROVE  get_allocation_plan(strategy, metric, required, free)
           \in Placements(D, Len(required), Len(required))
<1> DEFINE n == Len(required)
           first == [ok |-> TRUE, free |-> free, plan |-> << >>]
           T == [k \in 0 .. n |-> Placements(D, n, k)]
           Next(x) == Allocate(strategy, metric, required, x)
           G == [p \in (1 .. n) \X UNION {T[k] : k \in 0 .. n} |-> Next(p[2])]
           placed == CHOOSE f : f = [k \in 0 .. n |-> IF k = 0 THEN first ELSE Next(f[k - 1])]
<1>1. n \in Nat OBVIOUS
<1>2. first \in T[0]
 <2>1. << >> \in Seq((1 .. n) \X D) /\ Len(<< >>) = 0 /\ EachOnce(<< >>) BY DEF EachOnce
 <2> QED BY <1>1, <2>1 DEF Placements
<1>3. ASSUME NEW k \in 1 .. n, NEW x \in T[k - 1] PROVE Next(x) \in T[k]
 <2>1. k - 1 \in 0 .. n /\ k \in 0 .. n BY <1>1
 <2>2. x \in Placements(D, n, k - 1) BY <2>1
 <2>3. Next(x) \in Placements(D, n, k) BY <2>2, AllocatePlaces
 <2> QED BY <2>1, <2>3
<1>4. \E f : f = [k \in 0 .. n |-> IF k = 0 THEN first ELSE Next(f[k - 1])]
 <2>1. \A k \in 1 .. n : \A x \in T[k - 1] : G[<<k, x>>] = Next(x) /\ G[<<k, x>>] \in T[k]
  <3> SUFFICES ASSUME NEW k \in 1 .. n, NEW x \in T[k - 1]
               PROVE  G[<<k, x>>] = Next(x) /\ G[<<k, x>>] \in T[k]
    OBVIOUS
  <3>1. k - 1 \in 0 .. n BY <1>1
  <3> HIDE DEF T, Next
  <3>2. <<k, x>> \in (1 .. n) \X UNION {T[l] : l \in 0 .. n} BY <3>1
  <3>3. G[<<k, x>>] = Next(x) BY <3>2
  <3> QED BY <3>3, <1>3
 <2> HIDE DEF T, G, Next, first, n
 <2>2. \A k \in 1 .. n : \A x \in T[k - 1] : G[<<k, x>>] \in T[k] BY <2>1
 <2>3. PICK f : IsComputed(f, n, first, G, T) BY <1>1, <1>2, <2>2, IteratesExist
 <2>4. \A k \in 0 .. n : k # 0 => k \in 1 .. n /\ k - 1 \in 0 .. n BY <1>1
 <2>5. \A k \in 0 .. n : (IF k = 0 THEN first ELSE G[<<k, f[k - 1]>>])
                           = (IF k = 0 THEN first ELSE Next(f[k - 1]))
   BY <2>1, <2>3, <2>4 DEF IsComputed
 <2>6. f = [k \in 0 .. n |-> IF k = 0 THEN first ELSE Next(f[k - 1])]
   BY <2>3, <2>5 DEF IsComputed
 <2> QED BY <2>6
<1>5. placed = [k \in 0 .. n |-> IF k = 0 THEN first ELSE Next(placed[k - 1])] BY <1>4
<1>6. get_allocation_plan(strategy, metric, required, free) = placed[n]
  BY DEF get_allocation_plan
<1> HIDE DEF placed
<1>7. \A k \in 0 .. n : placed[k] \in T[k]
 <2>1. placed[0] \in T[0] BY <1>1, <1>2, <1>5
 <2>2. \A k \in 1 .. n : placed[k - 1] \in T[k - 1] => placed[k] \in T[k]
  <3> SUFFICES ASSUME NEW k \in 1 .. n, placed[k - 1] \in T[k - 1] PROVE placed[k] \in T[k]
    OBVIOUS
  <3>1. k \in 0 .. n /\ k # 0 BY <1>1
  <3> HIDE DEF T, Next
  <3>2. placed[k] = Next(placed[k - 1]) BY <3>1, <1>5
  <3> QED BY <3>2, <1>3
 <2> HIDE DEF T, Next
 <2> QED BY <1>1, <2>1, <2>2, IteratesKeep
<1>8. n \in 0 .. n BY <1>1
<1> QED BY <1>6, <1>7, <1>8

IsContainer(c) == c \in Jobs \X Nat \X Nat /\ c[2] \in Indices(c[1])

\* What runs on the nodes, or did when somebody looked.
Fleet(d) ==
  /\ d = [n \in Nodes |-> d[n]]
  /\ \A n \in Nodes : IsFiniteSet(DOMAIN d[n]) /\ \A c \in DOMAIN d[n] : IsContainer(c)

\* Whatever is known of containers is about containers of jobs, and what a node
\* reports as free is a number for each metric.
MachinesInv ==
  /\ Fleet(docker) /\ Fleet(snapshot)
  /\ \A n \in Nodes : Exists(node_details[n]) =>
       /\ node_details[n].free \in {Nothing} \cup Resource
       /\ \A c \in DOMAIN node_details[n].containers : IsContainer(c)
  /\ \A c \in DOMAIN container_details : IsContainer(c)
  /\ runtime_agent.pc = "look" => \A c \in DOMAIN runtime_agent.todo : IsContainer(c)

\* Containers are removed, stopped, exit or are created.
LEMMA FleetRemoves ==
  ASSUME NEW d, Fleet(d), NEW names
  PROVE  Fleet(RemoveAll(d, names)) /\ Fleet(StopAll(d, names))
<1>1. \A n \in Nodes : /\ DOMAIN RemoveAll(d, names)[n] = (DOMAIN d[n]) \ names
                       /\ DOMAIN StopAll(d, names)[n] = DOMAIN d[n]
  BY DEF RemoveAll, StopAll
<1>2. \A n \in Nodes : IsFiniteSet((DOMAIN d[n]) \ names) BY FS_Subset DEF Fleet
<1>3. /\ RemoveAll(d, names) = [n \in Nodes |-> RemoveAll(d, names)[n]]
      /\ StopAll(d, names) = [n \in Nodes |-> StopAll(d, names)[n]]
  BY DEF RemoveAll, StopAll
<1> QED BY <1>1, <1>2, <1>3 DEF Fleet

LEMMA FleetExits ==
  ASSUME NEW d, Fleet(d), NEW n \in Nodes, NEW c, NEW s
  PROVE  Fleet([d EXCEPT ![n][c] = s])
<1> DEFINE e == [d EXCEPT ![n][c] = s]
<1>1. \A m \in Nodes : DOMAIN e[m] = DOMAIN d[m] BY DEF Fleet
<1>2. e = [m \in Nodes |-> e[m]] BY DEF Fleet
<1> HIDE DEF e
<1> QED BY <1>1, <1>2 DEF Fleet, e

LEMMA FleetGrows ==
  ASSUME NEW d, Fleet(d), NEW n \in Nodes, NEW c, IsContainer(c)
  PROVE  Fleet([d EXCEPT ![n] = WithContainer(@, c)])
<1> DEFINE e == [d EXCEPT ![n] = WithContainer(@, c)]
<1>1. DOMAIN (WithContainer(d[n], c)) = (DOMAIN d[n]) \cup {c} BY DEF WithContainer
<1>2. IsFiniteSet((DOMAIN d[n]) \cup {c}) BY FS_AddElement DEF Fleet
<1>3. e = [m \in Nodes |-> e[m]] /\ e[n] = WithContainer(d[n], c)
      /\ \A m \in Nodes : m # n => e[m] = d[m]
  BY DEF Fleet
<1> HIDE DEF e
<1>4. ASSUME NEW m \in Nodes PROVE IsFiniteSet(DOMAIN e[m]) /\ \A x \in DOMAIN e[m] : IsContainer(x)
 <2>1. CASE m = n BY <2>1, <1>1, <1>2, <1>3 DEF Fleet
 <2>2. CASE m # n BY <2>2, <1>3 DEF Fleet
 <2> QED BY <2>1, <2>2
<1> QED BY <1>3, <1>4 DEF Fleet, e

\* What is free is a number for each metric.
LEMMA TargetFreeType ==
  ASSUME NEW n \in Nodes, NEW there, IsFiniteSet(DOMAIN there),
         \A c \in DOMAIN there : IsContainer(c)
  PROVE  TargetFree(n, there) \in Resource
<1> DEFINE up == { c \in DOMAIN there : there[c] = Running }
           Each(m) == [c \in up |-> Demand[c[1]][c[2]][m]]
<1>1. IsFiniteSet(up) BY FS_Subset
<1>2. ASSUME NEW m \in Metrics
      PROVE  Capacity[n][m] \in Int /\ SumFunctionOnSet(Each(m), up) \in Int
 <2>1. ASSUME NEW c \in up PROVE Each(m)[c] \in Int
  <3>1. c[1] \in Jobs /\ c[2] \in 1 .. Len(Demand[c[1]]) /\ Demand[c[1]] \in Seq([Metrics -> Nat])
    BY DemandAssumption DEF IsContainer, Indices
  <3>2. Demand[c[1]][c[2]] \in [Metrics -> Nat] BY <3>1, ElementOfSeq
  <3> QED BY <3>2
 <2> DEFINE f == Each(m)
 <2>2. \A c \in up : f[c] \in Int BY <2>1
 <2> HIDE DEF f, up
 <2>3. SumFunctionOnSet(f, up) \in Int BY <2>2, <1>1, SumRecursion
 <2> QED BY <2>3, NodesAssumption DEF f
<1>3. TargetFree(n, there) = [m \in Metrics |-> Capacity[n][m] - SumFunctionOnSet(Each(m), up)]
  BY DEF TargetFree
<1> HIDE DEF up, Each
<1>4. \A m \in Metrics : Capacity[n][m] - SumFunctionOnSet(Each(m), up) \in Int BY <1>2
<1> QED BY <1>3, <1>4 DEF Resource

-----------------------------------------------------------------------------
\* A list of jobs that were submitted, each once.
IsQueue(q, jobs) == q \in Seq(Jobs) /\ IsInjective(q) /\ ToSet(q) \subseteq jobs

IsFree(free) == DOMAIN free \subseteq Nodes /\ free \in [DOMAIN free -> Resource]

\* The pending-job agent in its pass; what it is about to start fits.
AgentOK(agent, jobs) ==
  /\ agent.pc \in {"idle", "dead", "pick", "start"}
  /\ agent.pc \in {"pick", "start"} =>
       IsQueue(agent.todo, jobs) /\ agent.todo # << >> /\ IsFree(agent.free)
  /\ agent.pc = "start" =>
       LET j == Head(agent.todo)
       IN  /\ agent = [pc |-> "start", todo |-> agent.todo, free |-> agent.free,
                       plan |-> agent.plan, details |-> agent.details]
           /\ agent.plan \in Seq(Indices(j) \X DOMAIN agent.free)
           /\ Len(agent.plan) <= Len(Demand[j]) /\ EachOnce(agent.plan)
           /\ \A k \in 1 .. Len(agent.plan) : \A m \in Metrics : agent.free[agent.plan[k][2]][m] >= 0

TicketsInv ==
  /\ submitted \subseteq Jobs
  /\ IsQueue(pending_tickets, submitted)
  /\ AgentOK(pending_agent, submitted)

\* The containers that the pending-job agent may have started for a job: none
\* while the job waits, then those that its plan has left behind, at last all.
Allowed(agent, tickets, jobs, j) ==
  IF agent.pc = "start" /\ j = Head(agent.todo)
  THEN Indices(j) \ {agent.plan[k][1] : k \in 1 .. Len(agent.plan)}
  ELSE IF \/ j \notin jobs
          \/ /\ agent.pc # "dead"
             /\ j \in ToSet(tickets) \/ (agent.pc \in {"pick", "start"} /\ j \in ToSet(agent.todo))
       THEN {}
  ELSE Indices(j)

\* The containers of a component, those that the agent may have started of it,
\* and those that were started.
Started(j, t) == SumFunctionOnSet(starts[j], OfComponent(j, t))

\* Every other container was started by the container-runtime agent, which
\* counts by component.
CountInv ==
  /\ starts = [j \in Jobs |-> starts[j]] /\ \A j \in Jobs : starts[j] \in [Indices(j) -> Nat]
  /\ restart_times \in [Jobs -> [Components -> Nat]]
  /\ \A j \in Jobs : \A t \in Components :
       /\ restart_times[j][t] <= MaxRestartTimes
       /\ Started(j, t) <= restart_times[j][t]
            + Cardinality(Allowed(pending_agent, pending_tickets, submitted, j) \cap OfComponent(j, t))

PlacementInv == MachinesInv /\ TicketsInv /\ CountInv

LEMMA NextNameIsContainer ==
  ASSUME CountInv, NEW j \in Jobs, NEW i \in Indices(j)
  PROVE  IsContainer(NextName(j, i))
<1>1. i \in Nat /\ starts[j][i] + 1 \in Nat
 <2>1. Len(Demand[j]) \in Nat BY DemandAssumption
 <2> QED BY <2>1 DEF CountInv, Indices
<1> QED BY <1>1 DEF IsContainer, NextName

\* The container that the pending-job agent starts next.
LEMMA PlannedIsContainer ==
  ASSUME TicketsInv, pending_agent.pc = "start", pending_agent.plan # << >>
  PROVE  /\ Head(pending_agent.todo) \in Jobs
         /\ Head(pending_agent.plan)[1] \in Indices(Head(pending_agent.todo))
         /\ Head(pending_agent.plan)[2] \in Nodes
<1> DEFINE todo == pending_agent.todo
           plan == pending_agent.plan
           free == pending_agent.free
           j == Head(todo)
<1>1. /\ todo \in Seq(Jobs) /\ todo # << >>
      /\ plan \in Seq(Indices(j) \X DOMAIN free) /\ plan # << >> /\ DOMAIN free \subseteq Nodes
  BY DEF TicketsInv, AgentOK, IsQueue, IsFree
<1> HIDE DEF todo, plan, free
<1>2. j \in Jobs BY <1>1
<1>3. Head(plan) \in Indices(j) \X DOMAIN free BY <1>1
<1> QED BY <1>1, <1>2, <1>3 DEF todo, plan

\* The pass of the container-runtime agent gets shorter.
LEMMA LookedKeeps ==
  ASSUME MachinesInv, runtime_agent.pc = "look", NEW c
  PROVE  /\ Dead.pc # "look"
         /\ Looked(c).pc = "look" => \A x \in DOMAIN Looked(c).todo : IsContainer(x)
<1> DEFINE rest == [k \in (DOMAIN runtime_agent.todo) \ {c} |-> runtime_agent.todo[k]]
<1>1. \A x \in DOMAIN rest : IsContainer(x) BY DEF MachinesInv
<1>2. Looked(c) = IF rest = << >> THEN Idle ELSE [pc |-> "look", todo |-> rest]
  BY DEF Looked
<1> HIDE DEF rest
<1> QED BY <1>1, <1>2 DEF Idle, Dead

\* What one look does to a container: it is removed, restarted, or its job stopped.
LEMMA LookAtKeepsMachines ==
  ASSUME PlacementInv, UNCHANGED node_vars, NEW c, LookAt(c)
  PROVE  MachinesInv'
<1> DEFINE state == runtime_agent.todo[c].state
           remove == is_remove_container(c, state)
           d == IF remove THEN RemoveAll(docker, {c}) ELSE docker
<1>1. /\ runtime_agent.pc = "look" /\ IsContainer(c)
      /\ UNCHANGED << snapshot, node_details, container_details >>
      /\ MachinesInv /\ CountInv /\ Fleet(docker)
  BY DEF LookAt, PlacementInv, MachinesInv, node_vars
<1>2. Fleet(d) BY <1>1, FleetRemoves
<1> HIDE DEF d, remove, state
<1>3. ASSUME NEW e, Fleet(e), docker' = e,
             runtime_agent'.pc = "look" => \A x \in DOMAIN runtime_agent'.todo : IsContainer(x)
      PROVE  MachinesInv'
  BY <1>1, <1>3 DEF MachinesInv, Fleet, IsContainer
<1>4. /\ runtime_agent' = Dead \/ runtime_agent' = Looked(c)
                => (runtime_agent'.pc = "look" => \A x \in DOMAIN runtime_agent'.todo : IsContainer(x))
  BY <1>1, LookedKeeps
<1>5. CASE runtime_agent' = Dead /\ UNCHANGED docker BY <1>1, <1>3, <1>4, <1>5
<1>6. CASE restart_container(c, d)
 <2>1. CASE docker' = d /\ (runtime_agent' = Dead \/ runtime_agent' = Looked(c))
   BY <1>2, <1>3, <1>4, <2>1
 <2>2. ASSUME NEW n, Exists(job_details[c[1]]), Reachable(n), start_replacement(d, n, c[1], c[2]), runtime_agent' = Looked(c)
       PROVE  MachinesInv'
  <3>1. docker' = [d EXCEPT ![n] = WithContainer(@, NextName(c[1], c[2]))]
    BY <2>2 DEF start_replacement
  <3>2. c[1] \in Jobs /\ c[2] \in Indices(c[1]) BY <1>1 DEF IsContainer
  <3>3. IsContainer(NextName(c[1], c[2])) BY <1>1, <3>2, NextNameIsContainer
  <3>4. Fleet(docker')
   <4> DEFINE name == NextName(c[1], c[2])
   <4>1. IsContainer(name) BY <3>3
   <4> HIDE DEF name
   <4>2. CASE n \in Nodes
    <5>1. Fleet([d EXCEPT ![n] = WithContainer(@, name)]) BY <1>2, <4>1, <4>2, FleetGrows
    <5> QED BY <5>1, <3>1 DEF name
   <4>3. CASE n \notin Nodes
    <5>1. docker' = d BY <1>2, <3>1, <4>3 DEF Fleet
    <5> QED BY <5>1, <1>2
   <4> QED BY <4>2, <4>3
  <3> QED BY <2>2, <3>4, <1>3, <1>4
 <2>3. \/ docker' = d /\ (runtime_agent' = Dead \/ runtime_agent' = Looked(c))
       \/ \E n : /\ Exists(job_details[c[1]]) /\ Reachable(n)
                 /\ start_replacement(d, n, c[1], c[2]) /\ runtime_agent' = Looked(c)
   BY <1>6, Zenon DEF restart_container
 <2> QED BY <2>1, <2>2, <2>3
<1>7. CASE stop_job(d, c[1], remove) /\ runtime_agent' = Looked(c)
 <2>1. Fleet(RemoveAll(d, Reported(c[1]))) /\ Fleet(StopAll(d, Reported(c[1])))
   BY <1>2, FleetRemoves
 <2> QED BY <1>3, <1>4, <1>7, <2>1 DEF stop_job
<1>8. CASE docker' = d /\ runtime_agent' = Looked(c) BY <1>2, <1>3, <1>4, <1>8
<1>9. \/ runtime_agent' = Dead /\ UNCHANGED docker
      \/ restart_container(c, d)
      \/ stop_job(d, c[1], remove) /\ runtime_agent' = Looked(c)
      \/ docker' = d /\ runtime_agent' = Looked(c)
  BY DEF LookAt, d, remove, state
<1> QED BY <1>5, <1>6, <1>7, <1>8, <1>9

\* What the master does: containers are listed, started, removed and replaced.
LEMMA MasterKeepsMachines ==
  ASSUME NodesInv, PlacementInv, MasterSteps, UNCHANGED node_vars
  PROVE  MachinesInv'
<1> USE DEF store, machines, agents, node_vars
<1>0. MachinesInv /\ TicketsInv /\ CountInv /\ Fleet(docker)
  BY DEF PlacementInv, MachinesInv
<1>1. ASSUME NEW d, Fleet(d), docker' = d, UNCHANGED << snapshot, node_details, container_details, runtime_agent >>
      PROVE  MachinesInv'
  BY <1>0, <1>1 DEF MachinesInv, Fleet, IsContainer
<1>2. CASE update_name_to_container_details
 <2> DEFINE reporting == { n \in Nodes : Exists(node_details[n]) }
            names == UNION { DOMAIN node_details[n].containers : n \in reporting }
 <2>1. \A c \in names : IsContainer(c) BY <1>0 DEF MachinesInv
 <2>2. DOMAIN container_details' = names \cup DOMAIN container_details
   BY <1>2 DEF update_name_to_container_details, set_multiple_container_details
 <2> HIDE DEF names
 <2>3. UNCHANGED << docker, snapshot, node_details, runtime_agent >>
   BY <1>2 DEF update_name_to_container_details
 <2> QED BY <1>0, <2>1, <2>2, <2>3 DEF MachinesInv, Fleet, IsContainer
<1>3. CASE \/ \E j \in Jobs : SaveJob(j)
           \/ ReadPendingTickets \/ PlanJob \/ FinishStart
           \/ ReadKilledTickets \/ ReadKilledJob
 <2>1. UNCHANGED << docker, snapshot, node_details, container_details, runtime_agent >>
   BY <1>3 DEF SaveJob, ReadPendingTickets, PlanJob, FinishStart, ReadKilledTickets, ReadKilledJob
 <2> QED BY <1>0, <1>1, <2>1
<1>4. CASE StartPlanned
 <2> DEFINE j == Head(pending_agent.todo)
            i == Head(pending_agent.plan)[1]
            n == Head(pending_agent.plan)[2]
 <2>1. j \in Jobs /\ i \in Indices(j) /\ n \in Nodes
   BY <1>0, <1>4, PlannedIsContainer DEF StartPlanned
 <2>2. /\ create_container(n, j, i) \/ UNCHANGED docker
       /\ UNCHANGED << snapshot, node_details, container_details, runtime_agent >>
   BY <1>4 DEF StartPlanned, start_container
 <2> HIDE DEF j, i, n
 <2>3. CASE create_container(n, j, i)
  <3> DEFINE name == NextName(j, i)
  <3>1. IsContainer(name) BY <1>0, <2>1, NextNameIsContainer
  <3>2. docker' = [docker EXCEPT ![n] = WithContainer(@, name)] BY <2>3 DEF create_container
  <3> HIDE DEF name
  <3>3. Fleet([docker EXCEPT ![n] = WithContainer(@, name)]) BY <1>0, <2>1, <3>1, FleetGrows
  <3> QED BY <1>1, <2>2, <3>2, <3>3
 <2> QED BY <1>0, <1>1, <2>2, <2>3
<1>5. CASE kill_job
 <2>1. /\ docker' = RemoveAll(docker, killed_agent.victims) \/ UNCHANGED docker
       /\ UNCHANGED << snapshot, node_details, container_details, runtime_agent >>
   BY <1>5 DEF kill_job
 <2>2. Fleet(RemoveAll(docker, killed_agent.victims)) BY <1>0, FleetRemoves
 <2> QED BY <1>0, <1>1, <2>1, <2>2
<1>6. CASE ReadContainers
 <2>1. /\ runtime_agent' = [pc |-> "look", todo |-> container_details]
       /\ UNCHANGED << docker, snapshot, node_details, container_details >>
   BY <1>6 DEF ReadContainers
 <2> QED BY <1>0, <2>1 DEF MachinesInv, Fleet, IsContainer
<1>7. CASE \E c \in DOMAIN container_details : LookAt(c) BY <1>7, LookAtKeepsMachines
<1> QED BY <1>2, <1>3, <1>4, <1>5, <1>6, <1>7 DEF MasterSteps

\* What the nodes do, and what is done to them.
LEMMA NodesKeepMachines ==
  ASSUME NodesInv, MachinesInv, NEW n \in Nodes,
         \/ NodeSteps(n) \/ ReadImages(n)
         \/ JoinCluster(n) \/ start_node_service(n) \/ stop_node_service(n) \/ delete_node(n),
         runtime_agent' = runtime_agent
  PROVE  MachinesInv'
<1> USE DEF others, node_vars
<1>0. /\ Fleet(docker) /\ Fleet(snapshot)
      /\ node_details = [m \in Nodes |-> node_details[m]]
      /\ \A m \in Nodes : node_details[m] = NoDetails \/ IsDetails(node_details[m])
  BY DEF MachinesInv, NodesInv, NodeTypeOK
<1>1. ASSUME NEW nd, UNCHANGED << docker, container_details >>, Fleet(snapshot'),
             node_details' = [node_details EXCEPT ![n] = nd],
             Exists(nd) => nd.free \in {Nothing} \cup Resource /\ \A c \in DOMAIN nd.containers : IsContainer(c)
      PROVE  MachinesInv'
 <2>1. \A m \in Nodes : node_details'[m] = IF m = n THEN nd ELSE node_details[m]
   BY <1>0, <1>1
 <2>2. ASSUME NEW m \in Nodes, Exists(node_details'[m])
       PROVE  /\ node_details'[m].free \in {Nothing} \cup Resource
              /\ \A c \in DOMAIN node_details'[m].containers : IsContainer(c)
  <3>1. CASE m = n BY <1>1, <2>1, <2>2, <3>1
  <3>2. CASE m # n BY <2>1, <2>2, <3>2 DEF MachinesInv
  <3> QED BY <3>1, <3>2
 <2>3. \A m \in Nodes : Exists(node_details'[m]) <=> Exists(node_details[m])' BY DEF Exists
 <2> QED BY <1>1, <2>2, <2>3 DEF MachinesInv, Fleet, IsContainer, Resource, Exists
<1>2. ASSUME UNCHANGED << docker, container_details, node_details >>, Fleet(snapshot')
      PROVE  MachinesInv'
  BY <1>2 DEF MachinesInv, Fleet, IsContainer, Resource, Exists
<1>3. CASE \/ init_resources(n) \/ ReadImages(n) \/ KillService(n) \/ ServiceStopped(n)
           \/ start_node_service(n) \/ stop_node_service(n)
           \/ \E p \in {"tracker", "images"} : EnterLock(n, p)
 <2>1. UNCHANGED << docker, container_details, node_details, snapshot >>
   BY <1>3 DEF init_resources, ReadImages, KillService, ServiceStopped, start_node_service, stop_node_service, EnterLock
 <2> QED BY <1>0, <1>2, <2>1
<1>4. CASE ListContainers(n) \/ InspectContainers(n)
 <2>1. PICK there : /\ UNCHANGED << docker, container_details, node_details >>
                    /\ snapshot' = [snapshot EXCEPT ![n] = there] /\ DOMAIN there \subseteq DOMAIN docker[n]
   BY <1>4 DEF ListContainers, InspectContainers, Restrict
 <2>2. IsFiniteSet(DOMAIN there) BY <1>0, <2>1, FS_Subset DEF Fleet
 <2>3. Fleet(snapshot') BY <1>0, <2>1, <2>2 DEF Fleet
 <2> QED BY <1>2, <2>1, <2>3
<1>5. CASE update_details(n)
 <2> DEFINE nd == [node_details[n] EXCEPT !.containers = snapshot[n],
                                          !.free = TargetFree(n, snapshot[n]),
                                          !.status = "Running"]
 <2>1. /\ UNCHANGED << docker, container_details >>
       /\ snapshot' = [snapshot EXCEPT ![n] = << >>]
       /\ node_details' = [node_details EXCEPT ![n] = nd]
   BY <1>0, <1>5 DEF update_details
 <2>2. Fleet(snapshot')
  <3>1. DOMAIN << >> = {} /\ IsFiniteSet({}) BY FS_EmptySet
  <3> QED BY <1>0, <2>1, <3>1 DEF Fleet
 <2>3. Exists(nd) => nd.free = TargetFree(n, snapshot[n]) /\ nd.containers = snapshot[n]
  <3>1. CASE node_details[n] = NoDetails BY <3>1 DEF NoDetails, Exists
  <3>2. CASE IsDetails(node_details[n]) BY <3>2 DEF IsDetails
  <3> QED BY <1>0, <3>1, <3>2
 <2>4. TargetFree(n, snapshot[n]) \in Resource BY <1>0, TargetFreeType DEF Fleet
 <2> HIDE DEF nd
 <2> QED BY <1>0, <1>1, <2>1, <2>2, <2>3, <2>4 DEF Fleet
<1>6. CASE load_images(n) \/ \E p \in Processes : gracefully_exit(n, p)
 <2>1. /\ UNCHANGED << docker, container_details, snapshot >>
       /\ \/ UNCHANGED node_details
          \/ node_details' = [node_details EXCEPT ![n].images = seen_images[n]]
          \/ node_details' = [node_details EXCEPT ![n].status = "Stopped"]
   BY <1>6 DEF load_images, gracefully_exit
 <2>2. PICK nd : /\ nd = node_details[n] \/ nd = [node_details[n] EXCEPT !.images = seen_images[n]]
                    \/ nd = [node_details[n] EXCEPT !.status = "Stopped"]
                 /\ node_details' = [node_details EXCEPT ![n] = nd]
   BY <1>0, <2>1
 <2>3. Exists(nd) => /\ Exists(node_details[n]) /\ nd.free = node_details[n].free
                     /\ nd.containers = node_details[n].containers
  <3>1. CASE node_details[n] = NoDetails BY <2>2, <3>1 DEF NoDetails, Exists
  <3>2. CASE IsDetails(node_details[n]) BY <2>2, <3>2 DEF IsDetails, Exists
  <3> QED BY <1>0, <3>1, <3>2
 <2>4. Exists(nd) => nd.free \in {Nothing} \cup Resource /\ \A c \in DOMAIN nd.containers : IsContainer(c)
   BY <2>3 DEF MachinesInv
 <2> QED BY <1>0, <1>1, <2>1, <2>2, <2>4
<1>7. CASE JoinCluster(n)
 <2>1. /\ UNCHANGED << docker, container_details, snapshot >>
       /\ node_details' = [node_details EXCEPT ![n] = init_node_details]
       /\ init_node_details.free = Nothing /\ DOMAIN init_node_details.containers = {}
   BY <1>7 DEF JoinCluster, init_node_details
 <2> QED BY <1>0, <1>1, <2>1
<1>8. CASE delete_node(n)
 <2>1. /\ UNCHANGED << docker, container_details, snapshot >>
       /\ node_details' = [node_details EXCEPT ![n] = NoDetails]
       /\ ~ Exists(NoDetails)
   BY <1>8 DEF delete_node, NoDetails, Exists
 <2> QED BY <1>0, <1>1, <2>1
<1> QED BY <1>3, <1>4, <1>5, <1>6, <1>7, <1>8 DEF NodeSteps

-----------------------------------------------------------------------------
LEMMA AllowedAreIndices ==
  ASSUME NEW agent, NEW tickets, NEW jobs, NEW j \in Jobs
  PROVE  /\ Allowed(agent, tickets, jobs, j) \subseteq Indices(j)
         /\ Len(Demand[j]) \in Nat /\ IsFiniteSet(Indices(j))
<1>1. Len(Demand[j]) \in Nat BY DemandAssumption
<1> DEFINE l == Len(Demand[j])
<1>2. 1 \in Int /\ l \in Int BY <1>1
<1> HIDE DEF l
<1>3. IsFiniteSet(1 .. l) BY <1>2, FS_Interval
<1> QED BY <1>1, <1>3 DEF l, Indices, Allowed

\* More containers of a component.
LEMMA MoreAllowed ==
  ASSUME NEW S, IsFiniteSet(S), NEW B, B \subseteq S, NEW A, A \subseteq B, NEW T
  PROVE  /\ IsFiniteSet(A \cap T) /\ Cardinality(A \cap T) \in Nat /\ Cardinality(B \cap T) \in Nat
         /\ Cardinality(A \cap T) <= Cardinality(B \cap T)
         /\ \A i \in (B \ A) \cap T : Cardinality(A \cap T) + 1 <= Cardinality(B \cap T)
<1>1. IsFiniteSet(B \cap T) /\ Cardinality(B \cap T) \in Nat
  BY FS_Subset, FS_CardinalityType
<1>2. A \cap T \subseteq B \cap T OBVIOUS
<1>3. /\ IsFiniteSet(A \cap T) /\ Cardinality(A \cap T) \in Nat
      /\ Cardinality(A \cap T) <= Cardinality(B \cap T)
  BY <1>1, <1>2, FS_Subset, FS_CardinalityType
<1>4. ASSUME NEW i \in (B \ A) \cap T
      PROVE  Cardinality(A \cap T) + 1 <= Cardinality(B \cap T)
 <2>1. (A \cap T) \cup {i} \subseteq B \cap T /\ i \notin A \cap T BY <1>4
 <2>2. Cardinality((A \cap T) \cup {i}) = Cardinality(A \cap T) + 1 BY <1>3, <2>1, FS_AddElement
 <2>3. Cardinality((A \cap T) \cup {i}) <= Cardinality(B \cap T) BY <1>1, <2>1, FS_Subset
 <2> QED BY <2>2, <2>3
<1> QED BY <1>1, <1>3, <1>4

\* What was started of a component is a number.
LEMMA StartedType ==
  ASSUME NEW j \in Jobs, NEW t, NEW f \in [Indices(j) -> Nat]
  PROVE  IsFiniteSet(OfComponent(j, t)) /\ SumFunctionOnSet(f, OfComponent(j, t)) \in Int
<1>1. IsFiniteSet(Indices(j)) BY AllowedAreIndices
<1>2. OfComponent(j, t) \subseteq Indices(j) BY DEF OfComponent
<1>3. IsFiniteSet(OfComponent(j, t)) /\ \A i \in OfComponent(j, t) : f[i] \in Int
  BY <1>1, <1>2, FS_Subset
<1> QED BY <1>3, SumRecursion

\* Nothing was started and no job is allowed less.
LEMMA CountKept ==
  ASSUME CountInv, UNCHANGED << starts, restart_times >>,
         \A j \in Jobs : Allowed(pending_agent, pending_tickets, submitted, j)
                           \subseteq Allowed(pending_agent', pending_tickets', submitted', j)
  PROVE  CountInv'
<1>1. ASSUME NEW j \in Jobs, NEW t \in Components
      PROVE  Started(j, t)' <= restart_times'[j][t]
               + Cardinality(Allowed(pending_agent', pending_tickets', submitted', j) \cap OfComponent(j, t))
 <2> DEFINE A == Allowed(pending_agent, pending_tickets, submitted, j)
            B == Allowed(pending_agent', pending_tickets', submitted', j)
            T == OfComponent(j, t)
 <2>1. IsFiniteSet(Indices(j)) /\ A \subseteq B /\ B \subseteq Indices(j) BY AllowedAreIndices
 <2>2. /\ Started(j, t) \in Int /\ Started(j, t)' = Started(j, t)
       /\ restart_times[j][t] \in Nat /\ restart_times'[j][t] = restart_times[j][t]
   BY StartedType DEF CountInv, Started
 <2>3. Started(j, t) <= restart_times[j][t] + Cardinality(A \cap T) BY DEF CountInv
 <2> HIDE DEF A, B, T
 <2>4. /\ Cardinality(A \cap T) \in Nat /\ Cardinality(B \cap T) \in Nat
       /\ Cardinality(A \cap T) <= Cardinality(B \cap T)
   BY <2>1, MoreAllowed
 <2>5. Started(j, t)' <= restart_times'[j][t] + Cardinality(B \cap T) BY <2>2, <2>3, <2>4
 <2> QED BY <2>5 DEF B, T
<1> QED BY <1>1 DEF CountInv

\* One more container: the pending-job agent takes it off its plan, or it is
\* counted as a restart of its component.
LEMMA CountGrows ==
  ASSUME CountInv, NEW j \in Jobs, NEW i \in Indices(j), NEW more \in 0 .. 1,
         starts' = [starts EXCEPT ![j][i] = @ + 1],
         restart_times' = [restart_times EXCEPT ![j][Component[j][i]] = @ + more],
         restart_times[j][Component[j][i]] + more <= MaxRestartTimes,
         \A k \in Jobs : Allowed(pending_agent, pending_tickets, submitted, k)
                           \subseteq Allowed(pending_agent', pending_tickets', submitted', k),
         more = 0 => i \in Allowed(pending_agent', pending_tickets', submitted', j)
                             \ Allowed(pending_agent, pending_tickets, submitted, j)
  PROVE  CountInv'
<1> DEFINE c == Component[j][i]
<1>0. c \in Components BY ComponentAssumption
<1>1. /\ starts' = [k \in Jobs |-> starts'[k]]
      /\ starts'[j] = [starts[j] EXCEPT ![i] = @ + 1]
      /\ \A k \in Jobs : k # j => starts'[k] = starts[k]
  BY DEF CountInv
<1>2. \A k \in Jobs : starts'[k] \in [Indices(k) -> Nat] BY <1>1 DEF CountInv
<1> DEFINE times == restart_times
<1>3. /\ times' \in [Jobs -> [Components -> Nat]] /\ times'[j][c] = times[j][c] + more
      /\ \A k \in Jobs : \A t \in Components : k # j \/ t # c => times'[k][t] = times[k][t]
 <2>1. times \in [Jobs -> [Components -> Nat]] /\ more \in Nat BY DEF CountInv
 <2>2. times' = [times EXCEPT ![j] = [times[j] EXCEPT ![c] = times[j][c] + more]] BY <2>1
 <2> HIDE DEF times, c
 <2>3. [times[j] EXCEPT ![c] = times[j][c] + more] \in [Components -> Nat] BY <1>0, <2>1
 <2> QED BY <1>0, <2>1, <2>2, <2>3
<1>4. ASSUME NEW k \in Jobs, NEW t \in Components
      PROVE  Started(k, t)' <= restart_times'[k][t]
               + Cardinality(Allowed(pending_agent', pending_tickets', submitted', k) \cap OfComponent(k, t))
 <2> DEFINE A == Allowed(pending_agent, pending_tickets, submitted, k)
            B == Allowed(pending_agent', pending_tickets', submitted', k)
            T == OfComponent(k, t)
            f == starts[k]
            g == starts'[k]
 <2>1. IsFiniteSet(Indices(k)) /\ A \subseteq B /\ B \subseteq Indices(k) BY AllowedAreIndices
 <2>2. /\ f \in [Indices(k) -> Nat] /\ g \in [Indices(k) -> Nat]
       /\ Started(k, t) = SumFunctionOnSet(f, T) /\ Started(k, t)' = SumFunctionOnSet(g, T)
   BY <1>2 DEF CountInv, Started
 <2>3. IsFiniteSet(T) /\ T \subseteq Indices(k) /\ SumFunctionOnSet(f, T) \in Int
   BY <2>2, StartedType DEF OfComponent
 <2>4. SumFunctionOnSet(f, T) <= times[k][t] + Cardinality(A \cap T) /\ times[k][t] \in Nat
   BY <2>2 DEF CountInv
 <2>5. k = j => g = [f EXCEPT ![i] = @ + 1] BY <1>1
 <2>6. k # j => g = f BY <1>1
 <2>7. k = j /\ t = c => i \in T /\ (more = 0 => i \in (B \ A) \cap T) BY DEF OfComponent
 <2>8. k = j /\ t # c => i \notin T BY DEF OfComponent
 <2>9. \A x \in T : f[x] \in Int /\ g[x] \in Int /\ (k # j \/ x # i => g[x] = f[x])
   BY <2>2, <2>3, <2>5, <2>6
 <2> HIDE DEF A, B, T, f, g, c, times
 <2>10. /\ Cardinality(A \cap T) \in Nat /\ Cardinality(B \cap T) \in Nat
        /\ Cardinality(A \cap T) <= Cardinality(B \cap T)
        /\ \A x \in (B \ A) \cap T : Cardinality(A \cap T) + 1 <= Cardinality(B \cap T)
   BY <2>1, MoreAllowed
 <2>11. CASE k = j /\ t = c
  <3>1. g[i] = f[i] + 1 /\ i \in T BY <2>2, <2>3, <2>5, <2>7, <2>11
  <3>2. SumFunctionOnSet(f, T) = f[i] + SumFunctionOnSet(f, T \ {i})
    BY <2>3, <2>9, <3>1, SumRemoves
  <3>3. SumFunctionOnSet(g, T) = g[i] + SumFunctionOnSet(g, T \ {i})
   <4>1. \A x \in T : g[x] \in Int BY <2>9
   <4> QED BY <2>3, <3>1, <4>1, SumRemoves
  <3>4. IsFiniteSet(T \ {i}) /\ \A x \in T \ {i} : f[x] \in Int /\ g[x] \in Int /\ f[x] = g[x]
    BY <2>3, <2>9, FS_Subset
  <3>5. SumFunctionOnSet(f, T \ {i}) = SumFunctionOnSet(g, T \ {i}) /\ SumFunctionOnSet(f, T \ {i}) \in Int
    BY <3>4, SumSame, SumRecursion
  <3>6. f[i] \in Int BY <2>9, <3>1
  <3>7. SumFunctionOnSet(g, T) = SumFunctionOnSet(f, T) + 1 BY <3>1, <3>2, <3>3, <3>5, <3>6
  <3>8. Cardinality(A \cap T) + 1 <= Cardinality(B \cap T) + more
   <4>1. CASE more = 0
    <5>1. i \in (B \ A) \cap T BY <2>7, <2>11, <4>1
    <5>2. Cardinality(A \cap T) + 1 <= Cardinality(B \cap T) BY <2>10, <5>1
    <5> QED BY <2>10, <4>1, <5>2
   <4>2. CASE more = 1 BY <2>10, <4>2
   <4>3. more = 0 \/ more = 1 OBVIOUS
   <4> QED BY <4>1, <4>2, <4>3
  <3> QED BY <1>3, <2>2, <2>3, <2>4, <2>10, <2>11, <3>7, <3>8 DEF B, T, times
 <2>12. CASE ~ (k = j /\ t = c)
  <3>1. \A x \in T : f[x] = g[x] BY <2>8, <2>9, <2>12
  <3>2. SumFunctionOnSet(g, T) = SumFunctionOnSet(f, T) BY <2>3, <2>9, <3>1, SumSame
  <3>3. times'[k][t] = times[k][t] BY <1>3, <2>12
  <3> QED BY <2>2, <2>3, <2>4, <2>10, <3>2, <3>3 DEF B, T, times
 <2> QED BY <2>11, <2>12
<1>5. \A k \in Jobs : \A t \in Components : restart_times'[k][t] <= MaxRestartTimes
  BY <1>0, <1>3 DEF CountInv
<1> QED BY <1>1, <1>2, <1>3, <1>4, <1>5 DEF CountInv

LEMMA FreeResources ==
  ASSUME NodesInv, MachinesInv
  PROVE  IsFree(get_free_resources)
<1> DEFINE usable == { n \in Nodes : /\ Exists(node_details[n])
                                     /\ node_details[n].free # Nothing
                                     /\ node_details[n].status = "Running" }
<1>1. get_free_resources = [n \in usable |-> node_details[n].free] BY DEF get_free_resources
<1>2. \A n \in usable : node_details[n].free \in Resource BY DEF MachinesInv
<1> HIDE DEF usable
<1>3. DOMAIN get_free_resources = usable /\ get_free_resources \in [usable -> Resource]
  BY <1>1, <1>2
<1>4. usable \subseteq Nodes BY DEF usable
<1> QED BY <1>3, <1>4 DEF IsFree

\* After a job comes the next one of the pass.
LEMMA NextTicketFollows ==
  ASSUME NEW jobs, AgentOK(pending_agent, jobs), pending_agent.pc \in {"pick", "start"},
         NEW free, IsFree(free)
  PROVE  /\ AgentOK(NextTicket(free), jobs)
         /\ NextTicket(free).pc \in {"idle", "pick"}
         /\ NextTicket(free).pc = "pick" =>
              ToSet(NextTicket(free).todo) = ToSet(pending_agent.todo) \ {Head(pending_agent.todo)}
<1> DEFINE todo == pending_agent.todo
           next == NextTicket(free)
<1>1. todo \in Seq(Jobs) /\ IsInjective(todo) /\ ToSet(todo) \subseteq jobs /\ todo # << >>
  BY DEF AgentOK, IsQueue
<1>2. CASE Len(todo) = 1 BY <1>2 DEF NextTicket, Idle, AgentOK
<1>3. CASE Len(todo) # 1
 <2>1. next = [pc |-> "pick", todo |-> Tail(todo), free |-> free] BY <1>3 DEF NextTicket
 <2> HIDE DEF todo, next
 <2>2. /\ Tail(todo) \in Seq(Jobs) /\ IsInjective(Tail(todo))
       /\ ToSet(Tail(todo)) = ToSet(todo) \ {Head(todo)}
   BY <1>1, SetOfTail
 <2>3. Tail(todo) # << >>
  <3>1. Len(todo) \in Nat /\ Len(todo) # 0 /\ Len(Tail(todo)) = Len(todo) - 1 BY <1>1
  <3>2. Len(Tail(todo)) # 0 BY <1>3, <3>1
  <3>3. Len(<< >>) = 0 OBVIOUS
  <3> QED BY <3>2, <3>3
 <2>4. AgentOK(next, jobs) BY <1>1, <2>1, <2>2, <2>3 DEF AgentOK, IsQueue
 <2> QED BY <2>1, <2>2, <2>4 DEF todo, next
<1> QED BY <1>2, <1>3

\* The plan for the job at the head.
LEMMA PlanFits ==
  ASSUME TicketsInv, pending_agent.pc = "pick"
  PROVE  LET j == Head(pending_agent.todo)
             result == get_allocation_plan(Mode[j], "cpu", get_required_resources(j), pending_agent.free)
         IN  /\ IsFree(result.free)
             /\ result.ok =>
                  AgentOK([pc |-> "start", todo |-> pending_agent.todo, free |-> result.free,
                           plan |-> result.plan, details |-> job_details[j]], submitted)
<1> DEFINE todo == pending_agent.todo
           free == pending_agent.free
           j == Head(todo)
           required == Demand[j]
           D == DOMAIN free
           result == get_allocation_plan(Mode[j], "cpu", required, free)
           agent == [pc |-> "start", todo |-> todo, free |-> result.free,
                     plan |-> result.plan, details |-> job_details[j]]
<1>1. /\ IsQueue(todo, submitted) /\ todo \in Seq(Jobs) /\ todo # << >>
      /\ D \subseteq Nodes /\ free \in [D -> Resource]
  BY DEF TicketsInv, AgentOK, IsQueue, IsFree
<1>2. j \in Jobs BY <1>1
<1>3. required \in Seq([Metrics -> Nat]) /\ required = get_required_resources(j)
  BY <1>2, DemandAssumption DEF get_required_resources
<1> HIDE DEF required, free, D, todo
<1>4. result \in Placements(D, Len(required), Len(required))
 <2>1. IsFiniteSet(Nodes) /\ "cpu" \in Metrics /\ D \in SUBSET Nodes
   BY <1>1, NodesAssumption, MetricAssumption
 <2> QED BY <1>1, <1>3, <2>1, PlanIsPlacement
<1> HIDE DEF result
<1>5. /\ result.free \in [D -> Resource] /\ DOMAIN result.free = D
      /\ result.plan \in Seq((1 .. Len(required)) \X D)
      /\ Len(result.plan) <= Len(required) /\ EachOnce(result.plan)
      /\ result.ok => \A x \in 1 .. Len(result.plan) : \A m \in Metrics :
                        result.free[result.plan[x][2]][m] >= 0
  BY <1>4 DEF Placements
<1>6. IsFree(result.free) BY <1>1, <1>5 DEF IsFree
<1>7. ASSUME result.ok PROVE AgentOK(agent, submitted)
 <2>1. /\ agent.pc = "start" /\ agent.todo = todo /\ agent.free = result.free /\ agent.plan = result.plan
       /\ agent = [pc |-> "start", todo |-> agent.todo, free |-> agent.free,
                   plan |-> agent.plan, details |-> agent.details]
   OBVIOUS
 <2> HIDE DEF agent
 <2>2. 1 .. Len(required) = Indices(Head(agent.todo)) /\ Len(required) = Len(Demand[Head(agent.todo)])
   BY <2>1 DEF Indices, required
 <2> QED BY <1>1, <1>5, <1>6, <1>7, <2>1, <2>2 DEF AgentOK
<1> QED BY <1>3, <1>6, <1>7 DEF result, todo, free, agent

\* The steps of the pending-job agent.
LEMMA PendingAgentKeeps ==
  ASSUME NodesInv, PlacementInv, UNCHANGED submitted,
         ReadPendingTickets \/ PlanJob \/ StartPlanned \/ FinishStart
  PROVE  TicketsInv' /\ CountInv'
<1> DEFINE todo == pending_agent.todo
           j == Head(todo)
           New(k) == Allowed(pending_agent', pending_tickets', submitted', k)
           Old(k) == Allowed(pending_agent, pending_tickets, submitted, k)
<1>0. /\ MachinesInv /\ TicketsInv /\ CountInv /\ submitted \subseteq Jobs /\ submitted' = submitted
      /\ IsQueue(pending_tickets, submitted) /\ AgentOK(pending_agent, submitted)
  BY DEF PlacementInv, TicketsInv
<1>1. \A k \in Jobs : Len(Demand[k]) \in Nat /\ Old(k) \subseteq Indices(k)
  BY AllowedAreIndices
<1>2. pending_agent.pc \in {"pick", "start"} => j \in ToSet(todo) /\ j \in submitted /\ j \in Jobs
 <2> SUFFICES ASSUME pending_agent.pc \in {"pick", "start"} PROVE j \in ToSet(todo) /\ j \in submitted /\ j \in Jobs
   OBVIOUS
 <2>1. todo \in Seq(Jobs) /\ IsInjective(todo) /\ todo # << >> /\ ToSet(todo) \subseteq submitted
   BY <1>0 DEF AgentOK, IsQueue
 <2> HIDE DEF todo
 <2> QED BY <2>1, SetOfTail
<1>3. ASSUME AgentOK(pending_agent', submitted), IsQueue(pending_tickets', submitted),
             UNCHANGED << starts, restart_times >>,
             \A k \in Jobs : Old(k) \subseteq New(k)
      PROVE  TicketsInv' /\ CountInv'
  BY <1>0, <1>3, CountKept DEF TicketsInv
<1> HIDE DEF New, Old
<1>4. CASE ReadPendingTickets
 <2>1. /\ pending_agent.pc = "idle" /\ pending_tickets # << >>
       /\ pending_agent' = [pc |-> "pick", todo |-> pending_tickets, free |-> get_free_resources]
       /\ UNCHANGED << starts, restart_times, pending_tickets >>
   BY <1>4 DEF ReadPendingTickets, store, machines
 <2>2. AgentOK(pending_agent', submitted) BY <1>0, <2>1, FreeResources DEF AgentOK
 <2>3. \A k \in Jobs : New(k) = Old(k) BY <1>0, <2>1 DEF New, Old, Allowed
 <2> QED BY <1>0, <1>1, <1>3, <2>1, <2>2, <2>3
<1>5. ASSUME pending_agent.pc \in {"pick", "start"}, pending_agent' = Dead,
             UNCHANGED << starts, restart_times, pending_tickets >>
      PROVE  TicketsInv' /\ CountInv'
 <2>1. AgentOK(pending_agent', submitted) BY <1>5 DEF AgentOK, Dead
 <2>2. ASSUME NEW k \in Jobs PROVE Old(k) \subseteq New(k)
  <3>1. k \in submitted => New(k) = Indices(k) BY <1>0, <1>5 DEF New, Allowed, Dead
  <3>2. k \notin submitted => Old(k) = {} BY <1>0, <1>2, <1>5 DEF Old, Allowed
  <3> QED BY <1>1, <3>1, <3>2
 <2> QED BY <1>0, <1>3, <1>5, <2>1, <2>2
<1>6. CASE PlanJob
 <2> DEFINE result == get_allocation_plan(Mode[j], "cpu", get_required_resources(j), pending_agent.free)
            agent == [pc |-> "start", todo |-> todo, free |-> result.free,
                      plan |-> result.plan, details |-> job_details[j]]
 <2>1. /\ pending_agent.pc = "pick" /\ UNCHANGED << starts, restart_times, pending_tickets >>
       /\ \/ pending_agent' = Dead
          \/ result.ok /\ pending_agent' = agent
          \/ pending_agent' = NextTicket(result.free)
   BY <1>6 DEF PlanJob, store, machines
 <2>2. IsFree(result.free) /\ (result.ok => AgentOK(agent, submitted))
   BY <1>0, <2>1, PlanFits
 <2> DEFINE free == result.free
            ok == result.ok
 <2>3. agent.pc = "start" /\ agent.todo = todo OBVIOUS
 <2> HIDE DEF agent
 <2>4. CASE ok /\ pending_agent' = agent
  <3>1. AgentOK(agent, submitted) BY <2>2, <2>4
  <3>2. ASSUME NEW k \in Jobs PROVE Old(k) \subseteq New(k)
   <4>1. CASE k = j
    <5>1. Old(k) = {} BY <1>2, <2>1, <4>1 DEF Old, Allowed
    <5> QED BY <5>1
   <4>2. CASE k # j
    <5>1. pending_agent'.pc = "start" /\ pending_agent'.todo = todo /\ pending_tickets' = pending_tickets
      BY <2>1, <2>3, <2>4
    <5>2. Old(k) = New(k) BY <1>0, <2>1, <4>2, <5>1 DEF Old, New, Allowed
    <5> QED BY <5>2
   <4> QED BY <4>1, <4>2
  <3> QED BY <1>0, <1>3, <2>1, <2>4, <3>1, <3>2
 <2>5. CASE pending_agent' = NextTicket(result.free)
  <3> HIDE DEF result
  <3>1. /\ AgentOK(pending_agent', submitted) /\ pending_agent'.pc \in {"idle", "pick"}
        /\ pending_agent'.pc = "pick" => ToSet(pending_agent'.todo) \subseteq ToSet(todo)
    BY <1>0, <2>1, <2>2, <2>5, NextTicketFollows
  <3>2. ASSUME NEW k \in Jobs PROVE Old(k) \subseteq New(k)
   <4>1. New(k) \in {{}, Indices(k)} BY <3>1 DEF New, Allowed
   <4>2. New(k) = {} => Old(k) = {} \/ Indices(k) = {}
     BY <1>0, <2>1, <3>1 DEF New, Old, Allowed
   <4> QED BY <1>1, <4>1, <4>2
  <3> QED BY <1>0, <1>3, <2>1, <3>1, <3>2
 <2> HIDE DEF result
 <2> QED BY <1>5, <2>1, <2>4, <2>5
<1>7. CASE StartPlanned
 <2> DEFINE plan == pending_agent.plan
            i == Head(plan)[1]
            n == Head(plan)[2]
 <2>1. /\ pending_agent.pc = "start" /\ plan # << >>
       /\ UNCHANGED << restart_times, pending_tickets >>
       /\ \/ start_container(n, j, i) /\ pending_agent' = [pending_agent EXCEPT !.plan = Tail(@)]
          \/ pending_agent' = Dead /\ UNCHANGED starts
   BY <1>7 DEF StartPlanned, store, machines
 <2>2. CASE start_container(n, j, i) /\ pending_agent' = [pending_agent EXCEPT !.plan = Tail(@)]
  <3>1. starts' = [starts EXCEPT ![j][i] = @ + 1]
    BY <2>2 DEF start_container, create_container
  <3>2. i \in Indices(j) /\ j \in Jobs BY <1>0, <2>1, PlannedIsContainer
  <3>3. /\ pending_agent' = [pc |-> "start", todo |-> todo, free |-> pending_agent.free,
                             plan |-> Tail(plan), details |-> pending_agent.details]
        /\ plan \in Seq(Indices(j) \X DOMAIN pending_agent.free)
        /\ Len(plan) <= Len(Demand[j]) /\ EachOnce(plan)
        /\ IsQueue(todo, submitted) /\ todo # << >> /\ IsFree(pending_agent.free)
        /\ \A k \in 1 .. Len(plan) : \A m \in Metrics : pending_agent.free[plan[k][2]][m] >= 0
    BY <1>0, <2>1, <2>2 DEF AgentOK
  <3> HIDE DEF plan, i, n
  <3>4. /\ Tail(plan) \in Seq(Indices(j) \X DOMAIN pending_agent.free)
        /\ Len(Tail(plan)) = Len(plan) - 1 /\ Len(plan) \in Nat /\ Len(plan) # 0
        /\ \A k \in 1 .. Len(Tail(plan)) : k + 1 \in 1 .. Len(plan) /\ Tail(plan)[k] = plan[k + 1]
    BY <2>1, <3>3
  <3>5. Len(Tail(plan)) <= Len(Demand[j]) /\ EachOnce(Tail(plan))
   <4>1. ASSUME NEW x \in 1 .. Len(Tail(plan)), NEW y \in 1 .. Len(Tail(plan)),
                Tail(plan)[x][1] = Tail(plan)[y][1]
         PROVE  x = y
    <5>1. x + 1 = y + 1 BY <3>3, <3>4, <4>1 DEF EachOnce
    <5> QED BY <3>4, <5>1
   <4> QED BY <1>1, <3>2, <3>3, <3>4, <4>1 DEF EachOnce
  <3>6. \A k \in 1 .. Len(Tail(plan)) : \A m \in Metrics : pending_agent.free[Tail(plan)[k][2]][m] >= 0
    BY <3>3, <3>4
  <3>7. /\ pending_agent'.pc = "start" /\ pending_agent'.todo = todo /\ pending_agent'.plan = Tail(plan)
        /\ pending_agent'.free = pending_agent.free
        /\ pending_agent' = [pc |-> "start", todo |-> pending_agent'.todo, free |-> pending_agent'.free,
                             plan |-> pending_agent'.plan, details |-> pending_agent'.details]
    BY <3>3
  <3>8. AgentOK(pending_agent', submitted) BY <3>3, <3>4, <3>5, <3>6, <3>7 DEF AgentOK
  <3>9. /\ \A k \in Jobs : Old(k) \subseteq New(k)
        /\ i \in New(j) \ Old(j)
   <4>1. /\ Old(j) = Indices(j) \ {plan[k][1] : k \in 1 .. Len(plan)}
         /\ New(j) = Indices(j) \ {Tail(plan)[k][1] : k \in 1 .. Len(Tail(plan))}
     BY <2>1, <3>7 DEF Old, New, Allowed, plan
   <4>2. Old(j) \subseteq New(j) BY <3>4, <4>1
   <4>3. plan[1][1] = i /\ 1 \in 1 .. Len(plan) BY <2>1, <3>3, <3>4 DEF i
   <4>4. i \notin Old(j) BY <4>1, <4>3
   <4>5. \A k \in 1 .. Len(Tail(plan)) : Tail(plan)[k][1] # i
    <5> SUFFICES ASSUME NEW k \in 1 .. Len(Tail(plan)), Tail(plan)[k][1] = i PROVE FALSE
      OBVIOUS
    <5>1. k + 1 \in 1 .. Len(plan) /\ plan[k + 1][1] = plan[1][1] BY <3>4, <4>3
    <5>2. k + 1 = 1 BY <3>3, <4>3, <5>1 DEF EachOnce
    <5> QED BY <3>4, <5>2
   <4>6. i \in New(j) BY <3>2, <4>1, <4>5
   <4>7. ASSUME NEW k \in Jobs, k # j PROVE Old(k) \subseteq New(k)
    <5>1. Old(k) = New(k) BY <1>0, <2>1, <3>7, <4>7 DEF Old, New, Allowed
    <5> QED BY <5>1
   <4> QED BY <4>2, <4>4, <4>6, <4>7
  <3>10. /\ restart_times' = [restart_times EXCEPT ![j][Component[j][i]] = @ + 0]
         /\ restart_times[j][Component[j][i]] + 0 <= MaxRestartTimes
   <4> DEFINE c == Component[j][i]
              times == restart_times
   <4>1. times \in [Jobs -> [Components -> Nat]] /\ times' = times BY <1>0, <2>1 DEF CountInv
   <4>2. c \in Components BY <3>2, ComponentAssumption
   <4>3. times[j][c] \in Nat /\ times[j][c] <= MaxRestartTimes BY <1>0, <3>2, <4>1, <4>2 DEF CountInv
   <4> HIDE DEF times, c
   <4>4. [times EXCEPT ![j][c] = @ + 0] = times BY <4>1, <4>2, <4>3, <3>2
   <4> QED BY <4>1, <4>3, <4>4 DEF times, c
  <3>11. CountInv'
   <4>1. 0 \in 0 .. 1 OBVIOUS
   <4> HIDE DEF i, j
   <4>2. /\ \A k \in Jobs : Allowed(pending_agent, pending_tickets, submitted, k)
                              \subseteq Allowed(pending_agent', pending_tickets', submitted', k)
         /\ i \in Allowed(pending_agent', pending_tickets', submitted', j)
                  \ Allowed(pending_agent, pending_tickets, submitted, j)
     BY <3>9 DEF Old, New
   <4> QED BY <1>0, <3>1, <3>2, <3>10, <4>1, <4>2, CountGrows
  <3> QED BY <1>0, <2>1, <3>8, <3>11 DEF TicketsInv
 <2> QED BY <1>5, <2>1, <2>2
<1>8. CASE FinishStart
 <2>1. /\ pending_agent.pc = "start" /\ pending_agent.plan = << >>
       /\ UNCHANGED << starts, restart_times >>
       /\ pending_tickets' = Without(pending_tickets, {j})
       /\ pending_agent' = NextTicket(pending_agent.free)
   BY <1>8 DEF FinishStart, machines
 <2>2. /\ AgentOK(pending_agent', submitted) /\ pending_agent'.pc \in {"idle", "pick"}
       /\ pending_agent'.pc = "pick" => ToSet(pending_agent'.todo) = ToSet(todo) \ {j}
  <3>1. IsFree(pending_agent.free) BY <1>0, <2>1 DEF AgentOK
  <3> QED BY <1>0, <2>1, <3>1, NextTicketFollows
 <2>3. /\ pending_tickets' \in Seq(Jobs) /\ IsInjective(pending_tickets')
       /\ ToSet(pending_tickets') \subseteq ToSet(pending_tickets) \ {j}
   BY <1>0, <2>1, WithoutRemoves DEF IsQueue
 <2>4. IsQueue(pending_tickets', submitted) BY <1>0, <2>3 DEF IsQueue
 <2>5. ASSUME NEW k \in Jobs PROVE Old(k) \subseteq New(k)
  <3>1. New(k) \in {{}, Indices(k)} BY <2>2 DEF New, Allowed
  <3>2. New(k) = {} => Old(k) = {} \/ Indices(k) = {}
   <4>1. CASE k = j BY <1>0, <1>2, <2>1, <2>2, <2>3, <4>1 DEF New, Allowed
   <4>2. CASE k # j BY <1>0, <2>1, <2>2, <2>3, <4>2 DEF New, Old, Allowed
   <4> QED BY <4>1, <4>2
  <3> QED BY <1>1, <3>1, <3>2
 <2> QED BY <1>0, <1>3, <2>1, <2>2, <2>4, <2>5
<1> QED BY <1>4, <1>6, <1>7, <1>8

\* A container that is restarted is counted.
LEMMA LookAtKeepsCount ==
  ASSUME PlacementInv, UNCHANGED submitted, NEW c, LookAt(c)
  PROVE  TicketsInv' /\ CountInv'
<1> DEFINE state == runtime_agent.todo[c].state
           remove == is_remove_container(c, state)
           d == IF remove THEN RemoveAll(docker, {c}) ELSE docker
           j == c[1]
<1>1. /\ IsContainer(c) /\ TicketsInv /\ CountInv
      /\ pending_agent' = pending_agent /\ pending_tickets' = pending_tickets /\ submitted' = submitted
  BY DEF LookAt, PlacementInv, MachinesInv
<1>2. TicketsInv' /\ AgentOK(pending_agent', submitted') BY <1>1 DEF TicketsInv
<1>3. j \in Jobs /\ c[2] \in Indices(j) BY <1>1 DEF IsContainer
<1>4. \A k \in Jobs : Allowed(pending_agent, pending_tickets, submitted, k)
                         \subseteq Allowed(pending_agent', pending_tickets', submitted', k)
  BY <1>1
<1>5. \/ UNCHANGED << starts, restart_times >>
      \/ /\ is_restart_container(c, state)
         /\ starts' = [starts EXCEPT ![j][c[2]] = @ + 1]
         /\ restart_times' = [restart_times EXCEPT ![j][Component[j][c[2]]] = @ + 1]
  BY DEF LookAt, restart_container, start_replacement
<1> HIDE DEF state, j
<1>6. CASE UNCHANGED << starts, restart_times >> BY <1>1, <1>2, <1>4, <1>6, CountKept
<1>7. CASE /\ is_restart_container(c, state)
           /\ starts' = [starts EXCEPT ![j][c[2]] = @ + 1]
           /\ restart_times' = [restart_times EXCEPT ![j][Component[j][c[2]]] = @ + 1]
 <2> DEFINE t == Component[j][c[2]]
 <2>1. t \in Components BY <1>3, ComponentAssumption
 <2>2. restart_times[j][t] < MaxRestartTimes BY <1>7 DEF is_restart_container, j
 <2>3. restart_times[j][t] + 1 <= MaxRestartTimes /\ 1 \in 0 .. 1
  <3>1. restart_times[j][t] \in Nat BY <1>1, <1>3, <2>1 DEF CountInv
  <3> QED BY <2>2, <3>1, MaxRestartTimesAssumption
 <2> DEFINE i == c[2]
            more == 1
 <2>4. /\ starts' = [starts EXCEPT ![j][i] = @ + 1]
       /\ restart_times' = [restart_times EXCEPT ![j][Component[j][i]] = @ + more]
       /\ restart_times[j][Component[j][i]] + more <= MaxRestartTimes
       /\ more \in 0 .. 1 /\ more # 0 /\ i \in Indices(j)
   BY <1>3, <1>7, <2>3
 <2> HIDE DEF i, more, t
 <2>5. CountInv' BY <1>1, <1>3, <1>4, <2>4, CountGrows
 <2> QED BY <1>2, <2>5
<1> QED BY <1>2, <1>5, <1>6, <1>7

\* More jobs are submitted, each of them for the first time.
LEMMA SubmitKeeps ==
  ASSUME TicketsInv, CountInv, NEW S, S \subseteq Jobs, S \cap submitted = {},
         NEW q \in Seq(S), IsInjective(q),
         submitted' = submitted \cup S, pending_tickets' = pending_tickets \o q,
         UNCHANGED << pending_agent, starts, restart_times >>
  PROVE  TicketsInv' /\ CountInv'
<1>1. /\ pending_tickets \in Seq(Jobs) /\ IsInjective(pending_tickets)
      /\ ToSet(pending_tickets) \subseteq submitted /\ submitted \subseteq Jobs
      /\ AgentOK(pending_agent, submitted)
  BY DEF TicketsInv, IsQueue
<1>2. q \in Seq(Jobs) /\ ToSet(q) \subseteq S
 <2>1. \A x \in DOMAIN q : q[x] \in S OBVIOUS
 <2>2. ToSet(q) \subseteq S BY <2>1 DEF ToSet
 <2> QED BY <2>2
<1>3. /\ pending_tickets' \in Seq(Jobs) /\ IsInjective(pending_tickets')
      /\ ToSet(pending_tickets') = ToSet(pending_tickets) \cup ToSet(q)
  BY <1>1, <1>2, SetOfConcat
<1>4. AgentOK(pending_agent', submitted')
 <2>1. pending_agent' = pending_agent /\ submitted \subseteq submitted' OBVIOUS
 <2> QED BY <1>1, <2>1 DEF AgentOK, IsQueue
<1>5. TicketsInv' BY <1>1, <1>2, <1>3, <1>4 DEF TicketsInv, IsQueue
<1>6. ASSUME NEW k \in Jobs
      PROVE  Allowed(pending_agent, pending_tickets, submitted, k)
               \subseteq Allowed(pending_agent', pending_tickets', submitted', k)
 <2>1. CASE k \in S
  <3>1. pending_agent.pc = "start" => Head(pending_agent.todo) \in submitted
   <4> SUFFICES ASSUME pending_agent.pc = "start" PROVE Head(pending_agent.todo) \in submitted
     OBVIOUS
   <4> DEFINE todo == pending_agent.todo
   <4>1. todo \in Seq(Jobs) /\ IsInjective(todo) /\ todo # << >> /\ ToSet(todo) \subseteq submitted
     BY <1>1 DEF AgentOK, IsQueue
   <4> HIDE DEF todo
   <4>2. Head(todo) \in submitted BY <4>1, SetOfTail
   <4> QED BY <4>2 DEF todo
  <3>2. Allowed(pending_agent, pending_tickets, submitted, k) = {} BY <2>1, <3>1 DEF Allowed
  <3> QED BY <3>2
 <2>2. CASE k \notin S
  <3>1. (k \in submitted' <=> k \in submitted) /\ (k \in ToSet(pending_tickets') <=> k \in ToSet(pending_tickets))
    BY <1>2, <1>3, <2>2
  <3> QED BY <3>1 DEF Allowed
 <2> QED BY <2>1, <2>2
<1>7. CountInv' BY <1>6, CountKept
<1> QED BY <1>5, <1>7

\* Tickets are withdrawn.
LEMMA WithdrawKeeps ==
  ASSUME TicketsInv, CountInv,
         pending_tickets' \in Seq(Jobs), IsInjective(pending_tickets'),
         ToSet(pending_tickets') \subseteq ToSet(pending_tickets),
         UNCHANGED << submitted, pending_agent, starts, restart_times >>
  PROVE  TicketsInv' /\ CountInv'
<1>1. TicketsInv' BY DEF TicketsInv, IsQueue
<1>2. \A k \in Jobs : Allowed(pending_agent, pending_tickets, submitted, k)
                         \subseteq Allowed(pending_agent', pending_tickets', submitted', k)
  BY DEF Allowed
<1> QED BY <1>1, <1>2, CountKept

-----------------------------------------------------------------------------
\* The commands about jobs.
LEMMA JobCommandsKeep ==
  ASSUME PlacementInv,
         \/ \E j \in Jobs : start_job(j) \/ StopJobCommand(j)
         \/ delete_job \/ start_schedule \/ stop_schedule \/ clean_jobs
  PROVE  PlacementInv'
<1> USE DEF store, machines, agents, node_vars
<1>0. /\ MachinesInv /\ TicketsInv /\ CountInv
      /\ pending_tickets \in Seq(Jobs) /\ IsInjective(pending_tickets)
  BY DEF PlacementInv, TicketsInv, IsQueue
<1>1. ASSUME UNCHANGED << docker, snapshot, node_details, container_details, runtime_agent >>,
             TicketsInv' /\ CountInv'
      PROVE  PlacementInv'
  BY <1>0, <1>1 DEF PlacementInv, MachinesInv, Fleet, IsContainer, Resource, Exists
<1>2. CASE \E j \in Jobs : start_job(j)
 <2>1. PICK j \in Jobs : start_job(j) BY <1>2
 <2>2. /\ j \notin submitted /\ submitted' = submitted \cup {j}
       /\ pending_tickets' = Append(pending_tickets, j)
       /\ UNCHANGED << docker, snapshot, node_details, container_details, runtime_agent,
                       pending_agent, starts, restart_times >>
   BY <2>1 DEF start_job, create_job
 <2> DEFINE S == {j}
            q == << j >>
 <2>3. pending_tickets' = pending_tickets \o q BY <1>0, <2>2, AppendIsConcat
 <2>4. /\ S \subseteq Jobs /\ S \cap submitted = {} /\ submitted' = submitted \cup S
       /\ q \in Seq(S) /\ IsInjective(q)
   BY <2>2 DEF IsInjective
 <2> HIDE DEF S, q
 <2>5. TicketsInv' /\ CountInv' BY <1>0, <2>2, <2>3, <2>4, SubmitKeeps
 <2> QED BY <1>1, <2>2, <2>5
<1>3. CASE start_schedule
 <2>1. /\ ScheduledJobs \cap submitted = {} /\ submitted' = submitted \cup ScheduledJobs
       /\ pending_tickets' = pending_tickets \o SetToSeq(ScheduledJobs)
       /\ UNCHANGED << docker, snapshot, node_details, container_details, runtime_agent,
                       pending_agent, starts, restart_times >>
   BY <1>3 DEF start_schedule, create_schedule
 <2>2. SetToSeq(ScheduledJobs) \in Seq(ScheduledJobs) /\ IsInjective(SetToSeq(ScheduledJobs))
   BY ScheduledAssumption, SetAsSeq
 <2> DEFINE q == SetToSeq(ScheduledJobs)
 <2>3. /\ q \in Seq(ScheduledJobs) /\ IsInjective(q) /\ pending_tickets' = pending_tickets \o q
       /\ ScheduledJobs \subseteq Jobs
   BY <2>1, <2>2, ScheduledAssumption
 <2> HIDE DEF q
 <2>4. TicketsInv' /\ CountInv' BY <1>0, <2>1, <2>3, SubmitKeeps
 <2> QED BY <1>1, <2>1, <2>4
<1>4. ASSUME NEW jobs, pending_tickets' = Without(pending_tickets, jobs),
             UNCHANGED << docker, snapshot, node_details, container_details, runtime_agent,
                          submitted, pending_agent, starts, restart_times >>
      PROVE  PlacementInv'
 <2>1. /\ pending_tickets' \in Seq(Jobs) /\ IsInjective(pending_tickets')
       /\ ToSet(pending_tickets') \subseteq ToSet(pending_tickets)
   BY <1>0, <1>4, WithoutRemoves
 <2>2. TicketsInv' /\ CountInv' BY <1>0, <1>4, <2>1, WithdrawKeeps
 <2> QED BY <1>1, <1>4, <2>2
<1>5. CASE \E j \in Jobs : StopJobCommand(j)
 <2>1. PICK j \in Jobs : StopJobCommand(j) BY <1>5
 <2>2. /\ pending_tickets' = Without(pending_tickets, {j})
       /\ UNCHANGED << docker, snapshot, node_details, container_details, runtime_agent,
                       submitted, pending_agent, starts, restart_times >>
   BY <2>1 DEF StopJobCommand
 <2> QED BY <1>4, <2>2
<1>6. CASE stop_schedule
 <2>1. /\ pending_tickets' = Without(pending_tickets, ScheduledJobs)
       /\ UNCHANGED << docker, snapshot, node_details, container_details, runtime_agent,
                       submitted, pending_agent, starts, restart_times >>
   BY <1>6 DEF stop_schedule
 <2> QED BY <1>4, <2>1
<1>7. CASE clean_jobs
 <2>1. /\ pending_tickets' = << >>
       /\ UNCHANGED << docker, snapshot, node_details, container_details, runtime_agent,
                       submitted, pending_agent, starts, restart_times >>
   BY <1>7 DEF clean_jobs
 <2>2. << >> \in Seq(Jobs) /\ IsInjective(<< >>) /\ ToSet(<< >>) = {} BY SetOfEmpty
 <2>3. TicketsInv' /\ CountInv' BY <1>0, <2>1, <2>2, WithdrawKeeps
 <2> QED BY <1>1, <2>1, <2>3
<1>8. CASE delete_job
 <2>1. UNCHANGED << docker, snapshot, node_details, container_details, runtime_agent,
                    submitted, pending_tickets, pending_agent, starts, restart_times >>
   BY <1>8 DEF delete_job
 <2>2. TicketsInv' /\ CountInv' BY <1>0, <2>1, WithdrawKeeps
 <2> QED BY <1>1, <2>1, <2>2
<1> QED BY <1>2, <1>3, <1>5, <1>6, <1>7, <1>8

\* Each step of the services of a grass cluster.
LEMMA PlacementKeeps ==
  ASSUME NodesInv, PlacementInv, ServicesNext \/ UNCHANGED cluster_vars
  PROVE  PlacementInv'
<1> USE DEF store, machines, agents, node_vars, user_vars, cluster_vars
<1>0. MachinesInv /\ TicketsInv /\ CountInv BY DEF PlacementInv
<1>1. ASSUME UNCHANGED << submitted, pending_tickets, pending_agent, starts, restart_times >>
      PROVE  TicketsInv' /\ CountInv'
 <2>1. TicketsInv' BY <1>0, <1>1 DEF TicketsInv
 <2>2. CountInv' BY <1>0, <1>1, CountKept
 <2> QED BY <2>1, <2>2
<1>2. ASSUME UNCHANGED << docker, snapshot, node_details, container_details, runtime_agent >>
      PROVE  MachinesInv'
  BY <1>0, <1>2 DEF MachinesInv, Fleet, IsContainer, Resource, Exists
<1>3. CASE MasterSteps /\ UNCHANGED << node_vars, user_vars >>
 <2>1. MachinesInv' BY <1>3, MasterKeepsMachines
 <2>2. CASE ReadPendingTickets \/ PlanJob \/ StartPlanned \/ FinishStart
   BY <1>3, <2>1, <2>2, PendingAgentKeeps DEF PlacementInv
 <2>3. CASE \E c \in DOMAIN container_details : LookAt(c)
   BY <1>3, <2>1, <2>3, LookAtKeepsCount DEF PlacementInv
 <2>4. CASE \/ update_name_to_container_details
            \/ \E j \in Jobs : SaveJob(j)
            \/ ReadKilledTickets \/ ReadKilledJob \/ kill_job \/ ReadContainers
  <3>1. UNCHANGED << submitted, pending_tickets, pending_agent, starts, restart_times >>
    BY <1>3, <2>4 DEF update_name_to_container_details, SaveJob, ReadKilledTickets, ReadKilledJob, kill_job, ReadContainers
  <3> QED BY <1>1, <2>1, <3>1 DEF PlacementInv
 <2> QED BY <1>3, <2>2, <2>3, <2>4 DEF MasterSteps
<1>4. CASE \/ ReadJobs /\ Spend("tracks") /\ UNCHANGED << node_vars, submitted, dropping >>
           \/ ImageCommand
           \/ \E n \in Nodes : \E c \in DOMAIN docker[n] : ContainerRegisters(n, c)
           \/ UNCHANGED cluster_vars
 <2>1. UNCHANGED << submitted, pending_tickets, pending_agent, starts, restart_times,
                    docker, snapshot, node_details, container_details, runtime_agent >>
   BY <1>4 DEF ReadJobs, ImageCommand, PushImage, others, ContainerRegisters
 <2> QED BY <1>1, <1>2, <2>1 DEF PlacementInv
<1>5. CASE \/ (\E n \in Nodes : NodeSteps(n)) /\ UNCHANGED << agents, user_vars >>
           \/ (\E n \in Nodes : ReadImages(n)) /\ Spend("images") /\ UNCHANGED << agents, submitted, dropping >>
           \/ NodeCommand
 <2>1. PICK n \in Nodes :
         /\ \/ NodeSteps(n) \/ ReadImages(n)
            \/ JoinCluster(n) \/ start_node_service(n) \/ stop_node_service(n) \/ delete_node(n)
         /\ UNCHANGED << agents, submitted >>
   BY <1>5 DEF NodeCommand
 <2>2. MachinesInv' BY <1>0, <2>1, NodesKeepMachines
 <2>3. UNCHANGED others => UNCHANGED << pending_tickets, starts, restart_times >>
   BY DEF others
 <2>4. UNCHANGED << pending_tickets, starts, restart_times >>
   BY <2>1, <2>3 DEF NodeSteps, init_resources, ListContainers, InspectContainers, update_details, load_images, EnterLock,
      gracefully_exit, KillService, ServiceStopped, ReadImages, JoinCluster, start_node_service,
      stop_node_service, delete_node
 <2> QED BY <1>1, <2>1, <2>2, <2>4 DEF PlacementInv
<1>6. CASE \/ \E j \in Jobs : start_job(j) \/ StopJobCommand(j)
           \/ delete_job \/ start_schedule \/ stop_schedule \/ clean_jobs
  BY <1>6, JobCommandsKeep
<1>7. CASE \E n \in Nodes : \E c \in DOMAIN docker[n] : \E s \in ExitStates : ContainerExits(n, c, s)
 <2>0. PICK n \in Nodes : \E c, s : ContainerExits(n, c, s) BY <1>7
 <2>1. PICK c, s : ContainerExits(n, c, s) BY <2>0
 <2>2. /\ docker' = [docker EXCEPT ![n][c] = s]
       /\ UNCHANGED << submitted, pending_tickets, pending_agent, starts, restart_times,
                       snapshot, node_details, container_details, runtime_agent >>
   BY <2>1 DEF ContainerExits
 <2>3. Fleet(docker')
  <3>1. Fleet([docker EXCEPT ![n][c] = s]) BY <1>0, <2>1, FleetExits DEF MachinesInv
  <3> QED BY <2>2, <3>1
 <2>4. MachinesInv'
   BY <1>0, <2>2, <2>3 DEF MachinesInv, Fleet, IsContainer, Resource, Exists
 <2> QED BY <1>1, <2>2, <2>4 DEF PlacementInv
<1> QED BY <1>3, <1>4, <1>5, <1>6, <1>7 DEF ServicesNext

LEMMA PlacementStarts == ServicesInit => PlacementInv
<1> SUFFICES ASSUME ServicesInit PROVE PlacementInv
  OBVIOUS
<1>0. /\ node_details = [n \in Nodes |-> [init_node_details EXCEPT
                                           !.status = "Running", !.free = Capacity[n]]]
      /\ docker = [n \in Nodes |-> << >>] /\ snapshot = [n \in Nodes |-> << >>]
      /\ container_details = << >> /\ pending_tickets = << >> /\ submitted = {}
      /\ pending_agent = Idle /\ runtime_agent = Idle
      /\ starts = [j \in Jobs |-> [i \in Indices(j) |-> 0]]
      /\ restart_times = [j \in Jobs |-> [t \in Components |-> 0]]
  BY DEF ServicesInit, Joined, InitStore, InitMaster, InitNode
<1>1. MachinesInv
 <2>1. DOMAIN << >> = {} OBVIOUS
 <2>2. IsFiniteSet({}) BY FS_EmptySet
 <2>3. Fleet(docker) /\ Fleet(snapshot) BY <1>0, <2>1, <2>2 DEF Fleet
 <2>4. ASSUME NEW n \in Nodes
       PROVE  node_details[n].free \in Resource /\ DOMAIN node_details[n].containers = {}
  <3>1. node_details[n] = [init_node_details EXCEPT !.status = "Running", !.free = Capacity[n]]
    BY <1>0
  <3>2. node_details[n].free = Capacity[n] /\ node_details[n].containers = << >>
    BY <3>1 DEF init_node_details
  <3> QED BY <2>1, <3>2, NodesAssumption DEF Resource
 <2>5. DOMAIN container_details = {} /\ runtime_agent.pc # "look" BY <1>0, <2>1 DEF Idle
 <2> QED BY <2>3, <2>4, <2>5 DEF MachinesInv
<1>2. TicketsInv
 <2>1. << >> \in Seq(Jobs) OBVIOUS
 <2>2. AgentOK(pending_agent, submitted) BY <1>0 DEF AgentOK, Idle
 <2> QED BY <1>0, <2>1, <2>2, SetOfEmpty DEF TicketsInv, IsQueue
<1>3. CountInv
 <2>1. \A j \in Jobs : /\ starts[j] = [i \in Indices(j) |-> 0]
                      /\ \A t \in Components : restart_times[j][t] = 0
   BY <1>0
 <2>2. ASSUME NEW j \in Jobs, NEW t \in Components
       PROVE  Started(j, t) <= restart_times[j][t]
                + Cardinality(Allowed(pending_agent, pending_tickets, submitted, j) \cap OfComponent(j, t))
  <3> DEFINE f == starts[j]
             S == OfComponent(j, t)
             A == Allowed(pending_agent, pending_tickets, submitted, j)
  <3>1. IsFiniteSet(Indices(j)) /\ A \subseteq Indices(j) BY AllowedAreIndices
  <3>2. S \subseteq Indices(j) BY DEF OfComponent
  <3>3. IsFiniteSet(S) /\ \A i \in S : f[i] = 0 BY <2>1, <3>1, <3>2, FS_Subset
  <3> HIDE DEF f, S, A
  <3>4. SumFunctionOnSet(f, S) = 0 BY <3>3, SumOfZeros
  <3>5. Cardinality(A \cap S) \in Nat BY <3>1, MoreAllowed
  <3>6. Started(j, t) = 0 BY <3>4 DEF f, S, Started
  <3>7. restart_times[j][t] = 0 BY <2>1
  <3>8. Started(j, t) <= restart_times[j][t] + Cardinality(A \cap S) BY <3>5, <3>6, <3>7
  <3> QED BY <3>8 DEF A, S
 <2>3. /\ starts = [j \in Jobs |-> starts[j]] /\ restart_times \in [Jobs -> [Components -> Nat]]
       /\ \A j \in Jobs : starts[j] \in [Indices(j) -> Nat]
   BY <1>0
 <2> QED BY <2>1, <2>2, <2>3, MaxRestartTimesAssumption DEF CountInv
<1> QED BY <1>1, <1>2, <1>3 DEF PlacementInv

\* What the invariant says of a pass and of restarts is PlacementIsBounded.
LEMMA PlacementInvSuffices == PlacementInv => PlacementIsBounded
<1> SUFFICES ASSUME PlacementInv PROVE PlacementIsBounded
  OBVIOUS
<1>1. PlansFit
 <2> SUFFICES ASSUME pending_agent.pc = "start",
                     NEW k \in 1 .. Len(pending_agent.plan), NEW m \in Metrics
              PROVE  pending_agent.free[pending_agent.plan[k][2]][m] >= 0
   BY DEF PlansFit
 <2> QED BY DEF PlacementInv, TicketsInv, AgentOK
<1>2. ASSUME NEW j \in Jobs, NEW t \in Components
      PROVE  SumFunctionOnSet(starts[j], OfComponent(j, t))
               <= Cardinality(OfComponent(j, t)) + MaxRestartTimes
 <2> DEFINE A == Allowed(pending_agent, pending_tickets, submitted, j)
            S == OfComponent(j, t)
            f == starts[j]
            I == Indices(j)
 <2>1. IsFiniteSet(I) /\ A \subseteq I /\ S \subseteq I BY AllowedAreIndices DEF OfComponent
 <2>2. restart_times[j][t] \in Nat /\ restart_times[j][t] <= MaxRestartTimes /\ f \in [I -> Nat]
   BY DEF PlacementInv, CountInv
 <2>3. SumFunctionOnSet(f, S) <= restart_times[j][t] + Cardinality(A \cap S)
   BY DEF PlacementInv, CountInv, Started
 <2>4. SumFunctionOnSet(f, S) \in Int BY <2>2, StartedType
 <2> HIDE DEF A, S, f, I
 <2>5. I \cap S = S BY <2>1
 <2>6. /\ Cardinality(A \cap S) \in Nat /\ Cardinality(S) \in Nat
       /\ Cardinality(A \cap S) <= Cardinality(S)
   BY <2>1, <2>5, MoreAllowed
 <2>7. SumFunctionOnSet(f, S) <= Cardinality(S) + MaxRestartTimes
   BY <2>2, <2>3, <2>4, <2>6, MaxRestartTimesAssumption
 <2> QED BY <2>7 DEF f, S
<1> QED BY <1>1, <1>2 DEF PlacementIsBounded, RestartsAreBounded

\* A pass of the pending-job agent gives away no more than it found free, and a
\* component of a job gets no more containers than its own and those of its
\* restarts, in whatever order agents, nodes, exits and commands come.
THEOREM OrchestrationPlacesWithinBounds == OrchestrationSpec => []PlacementIsBounded
<1>1. OrchestrationInit => NodesInv /\ PlacementInv
  BY ServicesStart, PlacementStarts DEF OrchestrationInit
<1>2. (NodesInv /\ PlacementInv) /\ [OrchestrationNext]_orchestrationVars => (NodesInv /\ PlacementInv)'
  BY ServicesKeep, PlacementKeeps, PartsTakeTurns
<1>3. PlacementInv => PlacementIsBounded BY PlacementInvSuffices
<1> QED BY <1>1, <1>2, <1>3, PTL DEF OrchestrationSpec
=============================================================================
