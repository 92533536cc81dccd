---------------------------- MODULE K8sCluster -----------------------------
(***************************************************************************)
(* Clusters on Kubernetes: the executors of "maro k8s"                     *)
(* (maro/cli/k8s/executors/k8s_executor.py, k8s_aks_executor.py) and the   *)
(* commands of "maro aks" (maro/cli/k8s/aks/aks_commands.py).              *)
(*                                                                         *)
(* The operation lock lets no two commands run together that write the     *)
(* same state, so one command runs at a time.  Calls to the cloud and to   *)
(* the Kubernetes API may fail, MaxKubeFailures times in all.  Details of  *)
(* jobs and schedules are config maps, which can be created once: a name   *)
(* that was used stays used.                                               *)
(***************************************************************************)
EXTENDS Naturals, Sequences, FiniteSets, SequencesExt

CONSTANTS
  JobNames, ScheduleNames,
  PoolSizes,          \* node sizes of the location
  MasterSize,         \* master.node_size of the deployment
  MaxReplicas,        \* bound: nodes of a pool
  MaxKubeFailures,    \* bound: calls that fail
  MaxKubeCommands     \* bound: commands given

VARIABLES
  kcloud,       \* what exists in the cloud: <<cluster id, kind>>
  kfolder,      \* entries of ~/.maro/clusters/<name>
  kid,          \* id in the cluster's details, or of the create under way
  pools,        \* node pools of the cluster: size -> count
  kdetails,     \* config maps of jobs: name -> [id, tag]; tag "" without schedule
  kschedules,   \* config maps of schedules: name -> its jobs in order
  kjobs,        \* Kubernetes jobs: set of [name, id]
  sas,          \* the storage account's signature is in the cluster's details
  klock,        \* the lock file holds "delete"
  aks,          \* "maro aks": [conf, group, dirs, jobs]
  kcmd,         \* the command that runs
  nextId, kfailures, kcommands

cluster == <<kcloud, kfolder, kid, pools>>
configMaps == <<kdetails, kschedules>>
kubeVars == <<cluster, configMaps, kjobs, sas, klock, aks, kcmd, nextId, kfailures, kcommands>>

KIdle == [op |-> "idle"]
KFails == kfailures < MaxKubeFailures /\ kfailures' = kfailures + 1
KWorks == UNCHANGED kfailures
KBegin(c) == kcmd = KIdle /\ kcommands < MaxKubeCommands /\ kcommands' = kcommands + 1 /\ kcmd' = c
Put(f, k, v) == [x \in DOMAIN f \cup {k} |-> IF x = k THEN v ELSE f[x]]
NoEntries == [x \in {} |-> 0]

KubeInit ==
  /\ kcloud = {} /\ kfolder = {} /\ kid = 0 /\ pools = NoEntries
  /\ kdetails = NoEntries /\ kschedules = NoEntries /\ kjobs = {}
  /\ sas = FALSE /\ klock = FALSE
  /\ aks = [conf |-> FALSE, group |-> FALSE, dirs |-> {}, jobs |-> {}]
  /\ kcmd = KIdle /\ nextId = 1 /\ kfailures = 0 /\ kcommands = 0

----------------------------------------------------------------------------
(* maro k8s: the cluster.                                                  *)

CreateSteps == <<"group", "aks", "acr", "context", "redis", "nvidia", "secret", "details">>

(* What a step makes under the cluster's id; the deployment of "aks" makes *)
(* the Kubernetes cluster and the storage account, and is not atomic.      *)
InKubernetes == {"redis", "nvidia", "secret"}
Makes(step) == IF step = "aks" THEN {"aks", "storage"} ELSE {step} \cap InKubernetes

k8s_create ==
  /\ kfolder = {}
  /\ KBegin([op |-> "create", at |-> 1])
  /\ kid' = nextId /\ nextId' = nextId + 1
  /\ UNCHANGED <<kcloud, kfolder, pools, configMaps, kjobs, sas, klock, aks, kfailures>>

(* A step of create.  The parameter file of the deployment makes the       *)
(* folder; the last step saves the details.                                *)
create_step ==
  LET step == CreateSteps[kcmd.at]
  IN  /\ kcmd.op = "create"
      /\ KWorks
      /\ kfolder' = kfolder \cup (IF step = "aks" THEN {"parameters"} ELSE {step} \cap {"details"})
      /\ kcloud' = kcloud \cup ({kid} \X Makes(step))
      /\ pools' = IF step = "aks" THEN Put(pools, MasterSize, 1) ELSE pools
      /\ kcmd' = IF kcmd.at = Len(CreateSteps) THEN KIdle ELSE [kcmd EXCEPT !.at = @ + 1]
      /\ UNCHANGED <<kid, configMaps, kjobs, sas, klock, aks, nextId, kcommands>>

(* A failing step removes the folder and nothing else: what was deployed   *)
(* stays, under an id that no folder holds any more.                       *)
create_fails ==
  /\ kcmd.op = "create" /\ KFails
  /\ \E made \in SUBSET Makes(CreateSteps[kcmd.at]) : kcloud' = kcloud \cup ({kid} \X made)
  /\ kfolder' = {} /\ kid' = 0 /\ pools' = NoEntries
  /\ kcmd' = KIdle
  /\ UNCHANGED <<configMaps, kjobs, sas, klock, aks, nextId, kcommands>>

(* The executor's constructor reads the details and loads the context of   *)
(* the Kubernetes cluster; no command passes a lock that "delete" left.    *)
load_k8s_context == <<kid, "aks">> \in kcloud
K8sExecutor == "details" \in kfolder /\ load_k8s_context /\ ~ klock

(* Resources whose names start with the id, then the folder.  A deletion   *)
(* that fails may have deleted some, and leaves the lock.                  *)
k8s_delete ==
  LET own == {r \in kcloud : r[1] = kid}
      Lost == /\ pools' = NoEntries
              /\ kdetails' = NoEntries /\ kschedules' = NoEntries /\ kjobs' = {}
  IN  /\ K8sExecutor
      /\ KBegin(KIdle)
      /\ \/ /\ KWorks
            /\ kcloud' = kcloud \ own
            /\ kfolder' = {} /\ kid' = 0 /\ sas' = FALSE
            /\ Lost
            /\ UNCHANGED klock
         \/ /\ KFails /\ klock' = TRUE
            /\ \E gone \in SUBSET {"storage", "aks"} :
                  /\ kcloud' = kcloud \ ({kid} \X (gone \cup IF "aks" \in gone THEN InKubernetes ELSE {}))
                  /\ IF "aks" \in gone THEN Lost ELSE UNCHANGED <<pools, configMaps, kjobs>>
            /\ UNCHANGED <<kfolder, kid, sas>>
      /\ UNCHANGED <<aks, nextId>>

(* One pool a size: a request for a size that no pool has builds one, a    *)
(* later one resizes it; the size of the master names the first pool.      *)
k8s_scale_node(size, replicas) ==
  /\ K8sExecutor
  /\ KBegin(KIdle)
  /\ \/ KWorks /\ pools' = Put(pools, size, replicas)
     \/ KFails /\ UNCHANGED pools
  /\ UNCHANGED <<kcloud, kfolder, kid, configMaps, kjobs, sas, klock, aks, nextId>>

(* push_data, pull_data and remove_data: the signature is fetched once and *)
(* kept in the saved details.                                              *)
k8s_data ==
  /\ K8sExecutor
  /\ KBegin(KIdle)
  /\ \/ KWorks /\ sas' = TRUE
     \/ KFails /\ sas' \in {sas, TRUE}
  /\ UNCHANGED <<cluster, configMaps, kjobs, klock, aks, nextId>>

----------------------------------------------------------------------------
(* maro k8s: jobs.  _start_job saves the details under the job's name,     *)
(* which fails when the name was ever used, and creates the Kubernetes job *)
(* under a new id.                                                         *)

_create_k8s_job(name) == kjobs' = kjobs \cup {[name |-> name, id |-> nextId]}

_start_jobCreatesFirst(name, tag) ==
  /\ nextId' = nextId + 1
  /\ _create_k8s_job(name)
  /\ IF name \in DOMAIN kdetails
     THEN UNCHANGED <<kdetails, kfailures>>
     ELSE kdetails' = Put(kdetails, name, [id |-> nextId, tag |-> tag]) /\ KWorks

_start_job(name, tag) ==
  /\ nextId' = nextId + 1
  /\ \/ /\ name \in DOMAIN kdetails
        /\ UNCHANGED <<kdetails, kjobs, kfailures>>
     \/ KFails /\ UNCHANGED <<kdetails, kjobs>>
     \/ /\ name \notin DOMAIN kdetails
        /\ kdetails' = Put(kdetails, name, [id |-> nextId, tag |-> tag])
        /\ \/ KWorks /\ _create_k8s_job(name)
           \/ KFails /\ UNCHANGED kjobs

k8s_start_job(name) ==
  /\ K8sExecutor
  /\ KBegin(KIdle)
  /\ _start_job(name, "")
  /\ UNCHANGED <<cluster, kschedules, sas, klock, aks>>

JobOf(name) == [name |-> name, id |-> kdetails[name].id]

(* The details stay; without the Kubernetes job the request fails.         *)
k8s_stop_job(name) ==
  /\ K8sExecutor
  /\ name \in DOMAIN kdetails
  /\ JobOf(name) \in kjobs
  /\ KBegin(KIdle)
  /\ \/ KWorks /\ kjobs' = kjobs \ {JobOf(name)}
     \/ KFails /\ UNCHANGED kjobs
  /\ UNCHANGED <<cluster, configMaps, sas, klock, aks, nextId>>

(* External: a finished Kubernetes job is removed after its time to live.  *)
job_finishes ==
  /\ \E j \in kjobs : kjobs' = kjobs \ {j}
  /\ UNCHANGED <<cluster, configMaps, sas, klock, aks, kcmd, nextId, kfailures, kcommands>>

(* The schedule's details, then its jobs one after the other; the first    *)
(* that fails ends the command.                                            *)
k8s_start_schedule(sched, names) ==
  /\ K8sExecutor
  /\ sched \notin DOMAIN kschedules
  /\ KBegin([op |-> "start_schedule", schedule |-> sched, rest |-> names])
  /\ kschedules' = Put(kschedules, sched, names)
  /\ UNCHANGED <<cluster, kdetails, kjobs, sas, klock, aks, nextId, kfailures>>

Ends == kcmd' = KIdle
GoesOn == kcmd' = IF Len(kcmd.rest) = 1 THEN KIdle ELSE [kcmd EXCEPT !.rest = Tail(@)]

start_schedule_step ==
  /\ kcmd.op = "start_schedule"
  /\ _start_job(Head(kcmd.rest), kcmd.schedule)
  /\ IF \E j \in kjobs' : j = [name |-> Head(kcmd.rest), id |-> nextId] THEN GoesOn ELSE Ends
  /\ UNCHANGED <<cluster, kschedules, sas, klock, aks, kcommands>>

k8s_stop_schedule(sched) ==
  /\ K8sExecutor
  /\ sched \in DOMAIN kschedules
  /\ KBegin([op |-> "stop_schedule", schedule |-> sched, rest |-> kschedules[sched]])
  /\ UNCHANGED <<cluster, configMaps, kjobs, sas, klock, aks, nextId, kfailures>>

(* A job of another schedule is passed over; a job that never started, one *)
(* started by itself (it has no tags) and one that is gone raise.          *)
stop_schedule_step ==
  LET name == Head(kcmd.rest)
      known == name \in DOMAIN kdetails
      mine == known /\ kdetails[name].tag = kcmd.schedule
      other == known /\ kdetails[name].tag \notin {"", kcmd.schedule}
  IN  /\ kcmd.op = "stop_schedule"
      /\ \/ mine /\ JobOf(name) \in kjobs /\ kjobs' = kjobs \ {JobOf(name)} /\ KWorks /\ GoesOn
         \/ other /\ UNCHANGED kjobs /\ KWorks /\ GoesOn
         \/ ~ other /\ (mine => JobOf(name) \notin kjobs) /\ UNCHANGED kjobs /\ KWorks /\ Ends
         \/ KFails /\ UNCHANGED kjobs /\ Ends
      /\ UNCHANGED <<cluster, configMaps, sas, klock, aks, nextId, kcommands>>

----------------------------------------------------------------------------
(* maro aks.  A job's folder is never removed.  delete_resource_group of   *)
(* utils/azure takes one argument and is called with two: both the roll    *)
(* back of init and exit end there with a TypeError, the group stays.      *)

aks_init ==
  /\ ~ aks.conf
  /\ KBegin(KIdle)
  /\ \/ KWorks /\ aks' = [aks EXCEPT !.conf = TRUE, !.group = TRUE]
     \/ /\ KFails                             \* before or after the group was created
        /\ \E group \in {aks.group, TRUE} : aks' = [aks EXCEPT !.group = group, !.dirs = {}]
  /\ UNCHANGED <<cluster, configMaps, kjobs, sas, klock, nextId>>

(* Some of the components may run when a call fails.                       *)
aks_add_job(name) ==
  /\ aks.conf /\ name \notin aks.dirs
  /\ KBegin(KIdle)
  /\ \/ KWorks /\ aks' = [aks EXCEPT !.dirs = @ \cup {name}, !.jobs = @ \cup {name}]
     \/ /\ KFails
        /\ \E started \in SUBSET {name} :
              aks' = [aks EXCEPT !.dirs = @ \cup {name}, !.jobs = @ \cup started]
  /\ UNCHANGED <<cluster, configMaps, kjobs, sas, klock, nextId>>

(* delete_job deletes the jobs of the namespace, then the namespace.       *)
aks_remove_jobs(name) ==
  /\ aks.conf /\ name \in aks.dirs
  /\ KBegin(KIdle)
  /\ \/ KWorks /\ aks' = [aks EXCEPT !.jobs = @ \ {name}]
     \/ KFails /\ aks' \in {aks, [aks EXCEPT !.jobs = @ \ {name}]}
  /\ UNCHANGED <<cluster, configMaps, kjobs, sas, klock, nextId>>

aks_exit ==
  /\ aks.conf
  /\ KBegin(KIdle)
  /\ KWorks
  /\ UNCHANGED aks
  /\ UNCHANGED <<cluster, configMaps, kjobs, sas, klock, nextId>>

KubeNext ==
  \/ k8s_create \/ create_step \/ create_fails \/ k8s_delete \/ k8s_data
  \/ start_schedule_step \/ stop_schedule_step \/ job_finishes
  \/ \E s \in PoolSizes, r \in 0 .. MaxReplicas : k8s_scale_node(s, r)
  \/ \E n \in JobNames : k8s_start_job(n) \/ k8s_stop_job(n) \/ aks_add_job(n) \/ aks_remove_jobs(n)
  \/ \E s \in ScheduleNames :
        \/ k8s_stop_schedule(s)
        \/ \E some \in SUBSET JobNames \ {{}} :
              \E names \in SetToSeqs(some) : k8s_start_schedule(s, names)
  \/ aks_init \/ aks_exit

----------------------------------------------------------------------------
(* Every job that runs in the cluster can be stopped by its name: the      *)
(* details under that name hold its id ("maro k8s"), the job has its local *)
(* folder ("maro aks"), whatever failed on the way and however often a     *)
(* name was used.                                                          *)
KubeJobsAreKnown ==
  /\ \A j \in kjobs : j.name \in DOMAIN kdetails /\ JobOf(j.name) = j
  /\ aks.jobs \subseteq aks.dirs
=============================================================================
