---------------------------- MODULE Orchestration ---------------------------
(***************************************************************************)
(* Clusters and local jobs: the services of a grass cluster that place and *)
(* restart containers (GrassCluster), what the command line does to grass  *)
(* clusters and their machines (GrassProvisioning) and to Kubernetes       *)
(* clusters (K8sCluster), and the local job manager (LocalJobs).  They     *)
(* share no state: in a behaviour one of them runs.                        *)
(***************************************************************************)
EXTENDS GrassCluster, GrassProvisioning, K8sCluster, LocalJobs

CONSTANT Parts    \* the parts to run

VARIABLE part

orchestrationVars == <<cluster_vars, provVars, kubeVars, localVars, part>>

(* The settings of the parts that do not run are any.                      *)
OrchestrationInit ==
  /\ part \in Parts
  /\ ServicesInit /\ ProvInit /\ KubeInit /\ LocalInit
  /\ part # "services" => left = CHOOSE b \in Budgets : TRUE
  /\ part # "grass" => mode = "azure"
  /\ part # "local" => image /\ containerize

OrchestrationNext ==
  /\ UNCHANGED part
  /\ \/ part = "services" /\ ServicesNext /\ UNCHANGED <<provVars, kubeVars, localVars>>
     \/ part = "grass" /\ ProvNext /\ UNCHANGED <<cluster_vars, kubeVars, localVars>>
     \/ part = "k8s" /\ KubeNext /\ UNCHANGED <<cluster_vars, provVars, localVars>>
     \/ part = "local" /\ LocalNext /\ UNCHANGED <<cluster_vars, provVars, kubeVars>>

OrchestrationSpec == OrchestrationInit /\ [][OrchestrationNext]_orchestrationVars

----------------------------------------------------------------------------
(* Services: one node with room for two of three containers: job "j" of two containers
   with different demands, and a schedule with one job "s". *)
MCCapacity == [n \in Nodes |-> [cpu |-> 3, memory |-> 2]]
MCDemand == [j |-> << [cpu |-> 1, memory |-> 1], [cpu |-> 2, memory |-> 1] >>,
             s |-> << [cpu |-> 1, memory |-> 2] >>]
MCComponent == [j |-> << "a", "b" >>, s |-> << "a" >>]
MCMode == [j |-> "balanced", s |-> "compacted"]
MCRemoveFailed == [j |-> FALSE, s |-> TRUE]
MCBudgets == {
  [jobs |-> 2, nodes |-> 0, exits |-> 1, images |-> 0, tracks |-> 0],
  [jobs |-> 1, nodes |-> 0, exits |-> 1, images |-> 0, tracks |-> 1],
  [jobs |-> 1, nodes |-> 0, exits |-> 2, images |-> 0, tracks |-> 0],
  [jobs |-> 1, nodes |-> 1, exits |-> 0, images |-> 0, tracks |-> 0],
  [jobs |-> 0, nodes |-> 4, exits |-> 0, images |-> 1, tracks |-> 0] }
=============================================================================
