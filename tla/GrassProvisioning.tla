-------------------------- MODULE GrassProvisioning -------------------------
(***************************************************************************)
(* Clusters of the "grass" orchestration and their virtual machines:       *)
(* maro/cli/grass/executors/grass_executor.py, grass_azure_executor.py and *)
(* grass_on_premises_executor.py with the scripts they run on the master   *)
(* and on the nodes (maro/cli/grass/lib/scripts) and the node requests of  *)
(* the master's API.                                                       *)
(*                                                                         *)
(* One command runs at a time.  Its threads interleave; every call to the  *)
(* cloud, to ssh or to the master may fail, MaxFailures times in all.  A   *)
(* script started with interactive_run reports no failure to its caller.   *)
(***************************************************************************)
EXTENDS Naturals, FiniteSets

CONSTANTS
  NodeNames,        \* names NameCreator hands out, or the on-premises vms
  Sizes,        \* node sizes of the location
  MaxFailures,  \* bound: calls that fail
  MaxCommands   \* bound: commands given

(* Nodes are not called what the threads, resources and files of a cluster *)
(* are called.                                                             *)
ASSUME NodeNamesAssumption ==
  NodeNames \cap {"main", "image", "master", "vnet", "image_vm", "details", "user"} = {}

VARIABLES
  mode,       \* "azure" or "on_premises"
  cloud,      \* resources that exist: "vnet", "image_vm", "image", "master", nodes
  power,      \* vms that are switched on
  folder,     \* entries of ~/.maro/clusters/<name>; empty: no such folder
  master,     \* "off", "init" (services run) or "ready" (details are in Redis)
  listed,     \* Redis name_to_node_details: node -> [size, status]
  containers, \* nodes that report containers
  services,   \* units that run: <<node, "agent">> and <<node, "server">>
  enabled,    \* units that are installed and come up with the machine
  killed,     \* nodes whose agent was killed before it could report Stopped
  mounted,    \* nodes on which the shared folder is mounted
  scripted,   \* nodes with the leave scripts and the master's key
  cmd,        \* the command that runs
  task,       \* thread or pool task -> where it is
  raised,     \* a task of the command raised
  deleting,   \* the folder's .lock holds "delete"
  lost,       \* resources a create that raised has left: no id leads to them
  failures,   \* calls that have failed
  commands    \* commands given

provVars == <<mode, cloud, power, folder, master, listed, containers, services,
              enabled, killed, mounted, scripted, cmd, task, raised, deleting, lost, failures,
              commands>>
vms == <<power, listed, containers, services, enabled, killed, mounted, scripted>>

Threads == {"main", "image", "master"}
Tasks == Threads \cup NodeNames
NoCommand == [op |-> "idle"]
Goto(t, s) == task' = [task EXCEPT ![t] = s]
Ended == [t \in Tasks |-> "end"]
Unlisted(f, n) == [m \in DOMAIN f \ {n} |-> f[m]]
With(f, n, v) == [m \in DOMAIN f \cup {n} |-> IF m = n THEN v ELSE f[m]]
Count(s) == Cardinality({n \in DOMAIN listed : listed[n].size = s})

(* A call of thread t fails; what the thread does then is raise.           *)
Fails(t) ==
  /\ failures < MaxFailures
  /\ failures' = failures + 1
  /\ Goto(t, "raise")

(* A script run over ssh fails; its caller does not hear of it.            *)
Unreported ==
  /\ failures < MaxFailures
  /\ failures' = failures + 1

Begin(op) ==
  /\ cmd = NoCommand
  /\ commands < MaxCommands
  /\ commands' = commands + 1
  /\ cmd' = op
  /\ raised' = FALSE

(* operation_lock lets nothing start beside a delete and never releases    *)
(* the lock of one; it goes with the folder.                               *)
Unlocked == ~ deleting

(* The files the constructor of an executor reads.                         *)
Executor == {"details", "user"} \subseteq folder

ProvInit ==
  /\ mode \in {"azure", "on_premises"}
  /\ cloud = IF mode = "azure" THEN {} ELSE NodeNames \cup {"master"}
  /\ power = IF mode = "azure" THEN {} ELSE NodeNames
  /\ folder = {} /\ master = "off"
  /\ listed = [n \in {} |-> <<>>] /\ containers = {}
  /\ services = {} /\ enabled = {} /\ killed = {} /\ mounted = {} /\ scripted = {}
  /\ cmd = NoCommand /\ task = Ended /\ raised = FALSE /\ deleting = FALSE /\ lost = {}
  /\ failures = 0 /\ commands = 0

----------------------------------------------------------------------------
(* Creating a cluster.                                                     *)

create ==
  /\ mode = "azure" /\ folder = {}
  /\ Begin([op |-> "create"])
  /\ task' = [Ended EXCEPT !["main"] = "group"]
  /\ UNCHANGED <<mode, cloud, folder, master, vms, deleting, lost, failures>>

create_on_premises ==
  /\ mode = "on_premises" /\ folder = {}
  /\ Begin([op |-> "create"])
  /\ task' = [Ended EXCEPT !["master"] = "init"]
  /\ UNCHANGED <<mode, cloud, folder, master, vms, deleting, lost, failures>>

(* The parameters of a deployment are written to a file of the folder.     *)
ArmTemplateParameters(resource) == folder' = folder \cup {resource}

(* Waits for ssh, a bounded number of times.                               *)
retry_connection(t, next) ==
  \/ Goto(t, next) /\ UNCHANGED failures
  \/ Fails(t)

_create_resource_group ==
  /\ task["main"] = "group"
  /\ \/ Goto("main", "vnet") /\ UNCHANGED failures
     \/ Fails("main")
  /\ UNCHANGED <<mode, cloud, folder, master, vms, cmd, raised, deleting, lost, commands>>

(* The parameter file makes the folder before the deployment starts; then  *)
(* the two threads of create start.                                        *)
_create_vnet ==
  /\ task["main"] = "vnet"
  /\ ArmTemplateParameters("vnet")
  /\ \/ /\ cloud' = cloud \cup {"vnet"}
        /\ task' = [task EXCEPT !["main"] = "join", !["image"] = "vm", !["master"] = "vm"]
        /\ UNCHANGED failures
     \/ Fails("main") /\ cloud' \in {cloud, cloud \cup {"vnet"}}
  /\ UNCHANGED <<mode, master, vms, cmd, raised, deleting, lost, commands>>

_build_node_image ==
  /\ \/ /\ task["image"] = "vm"
        /\ ArmTemplateParameters("image")
        /\ \/ cloud' = cloud \cup {"image_vm"} /\ Goto("image", "connect") /\ UNCHANGED failures
           \/ Fails("image") /\ cloud' \in {cloud, cloud \cup {"image_vm"}}
     \/ /\ task["image"] = "connect"
        /\ retry_connection("image", "capture")
        /\ UNCHANGED <<cloud, folder>>
     \/ /\ task["image"] = "capture"                    \* deallocate, generalize, create image
        /\ \/ cloud' = cloud \cup {"image"} /\ Goto("image", "clean") /\ UNCHANGED failures
           \/ Fails("image") /\ UNCHANGED cloud
        /\ UNCHANGED folder
     \/ /\ task["image"] = "clean"                      \* _delete_resources
        /\ \/ cloud' = cloud \ {"image_vm"} /\ Goto("image", "end") /\ UNCHANGED failures
           \/ Fails("image") /\ UNCHANGED cloud
        /\ UNCHANGED folder
  /\ UNCHANGED <<mode, master, vms, cmd, raised, deleting, lost, commands>>

_create_master_vm ==
  /\ task["master"] = "vm"
  /\ ArmTemplateParameters("master")
  /\ \/ cloud' = cloud \cup {"master"} /\ Goto("master", "init") /\ UNCHANGED failures
     \/ Fails("master") /\ cloud' \in {cloud, cloud \cup {"master"}}
  /\ UNCHANGED <<mode, master, vms, cmd, raised, deleting, lost, commands>>

(* init_master.py starts Redis, the agent and the API server; its own      *)
(* failures are not reported.                                              *)
MasterInitializer ==
  \/ master' = "init" /\ UNCHANGED failures
  \/ Unreported /\ UNCHANGED master

(* Connects, saves the cluster's details, copies lib and the details to    *)
(* the master and runs init_master.py there.                               *)
_init_master ==
  /\ task["master"] = "init"
  /\ \/ Fails("master") /\ folder' \in {folder, folder \cup {"details"}} /\ UNCHANGED master
     \/ /\ folder' = folder \cup {"details"}
        /\ Goto("master", "user")
        /\ MasterInitializer
  /\ UNCHANGED <<mode, cloud, vms, cmd, raised, deleting, lost, commands>>

(* create_user.py stores the user in the Redis that init_master.py started.*)
UserCreator == master /= "off"

_create_user ==
  /\ task["master"] = "user"
  /\ \/ UserCreator /\ folder' = folder \cup {"user"} /\ Goto("master", "api") /\ UNCHANGED failures
     \/ Fails("master") /\ UNCHANGED folder
     \/ ~ UserCreator /\ Goto("master", "raise") /\ UNCHANGED <<folder, failures>>
  /\ UNCHANGED <<mode, cloud, master, vms, cmd, raised, deleting, lost, commands>>

(* The requests create_master and create_cluster put the details in Redis. *)
_create_and_init_master ==
  /\ task["master"] = "api"
  /\ \/ master' = "ready" /\ Goto("master", "end") /\ UNCHANGED failures
     \/ Fails("master") /\ UNCHANGED master
  /\ UNCHANGED <<mode, cloud, folder, vms, cmd, raised, deleting, lost, commands>>

(* The threads are joined; their exceptions are not seen (on premises the  *)
(* steps run in create itself).  An exception removes the folder.          *)
create_ends ==
  /\ cmd.op = "create"
  /\ task["image"] \in {"end", "raise"} /\ task["master"] \in {"end", "raise"}
  /\ LET failed == IF mode = "azure" THEN task["main"] = "raise" ELSE task["master"] = "raise"
     IN  /\ task["main"] \in {"join", "raise", "end"}
         /\ folder' = IF failed THEN {} ELSE folder \cup {"details"}
         /\ raised' = failed
         /\ IF failed /\ mode = "azure"
            THEN lost' = lost \cup cloud /\ cloud' = {}
            ELSE UNCHANGED <<lost, cloud>>
  /\ cmd' = NoCommand /\ task' = Ended
  /\ UNCHANGED <<mode, master, vms, deleting, failures, commands>>

----------------------------------------------------------------------------
(* The nodes of an Azure cluster.                                          *)

Unused == {n \in NodeNames : n \notin cloud /\ n \notin folder /\ n \notin DOMAIN listed}

_create_nodes(num) ==
  \E new \in SUBSET Unused :
     /\ Cardinality(new) = num
     /\ task' = [t \in Tasks |-> IF t \in new THEN "vm" ELSE "end"]

(* Nodes without containers are deleted; too few of them: nothing happens. *)
_delete_nodes(size, num) ==
  LET deletable == {n \in DOMAIN listed : listed[n].size = size /\ n \notin containers}
  IN  IF Cardinality(deletable) >= num
      THEN \E del \in SUBSET deletable :
              /\ Cardinality(del) = num
              /\ task' = [t \in Tasks |-> IF t \in del THEN "leave" ELSE "end"]
      ELSE task' = Ended

(* scale_node counts what the master lists, of the requested size.         *)
scale_node(size, replicas) ==
  /\ mode = "azure" /\ Executor /\ Unlocked /\ master = "ready"
  /\ Begin([op |-> "scale", size |-> size, replicas |-> replicas])
  /\ \/ Count(size) < replicas /\ _create_nodes(replicas - Count(size))
     \/ Count(size) > replicas /\ _delete_nodes(size, Count(size) - replicas)
  /\ UNCHANGED <<mode, cloud, folder, master, vms, deleting, lost, failures>>

(* Parameter file and deployment; the image of the cluster must exist.     *)
_create_vm(n) ==
  /\ task[n] = "vm"
  /\ ArmTemplateParameters(n)
  /\ \/ /\ "image" \in cloud
        /\ cloud' = cloud \cup {n} /\ power' = power \cup {n}
        /\ Goto(n, "connect") /\ UNCHANGED failures
     \/ "image" \notin cloud /\ Goto(n, "raise") /\ UNCHANGED <<cloud, power, failures>>
     \/ Fails(n) /\ cloud' \in {cloud, cloud \cup {n}} /\ UNCHANGED power
  /\ UNCHANGED <<mode, master, listed, containers, services, enabled, killed, mounted,
                 scripted, cmd, raised, deleting, lost, commands>>

(* _join_cluster up to the script: connection, copy of the deployment.     *)
_join_cluster(n) ==
  /\ task[n] = "connect"
  /\ retry_connection(n, "script")
  /\ UNCHANGED <<mode, cloud, folder, master, vms, cmd, raised, deleting, lost, commands>>

(* join_cluster.py on the node, a step at a time; when a step fails the    *)
(* script stops and its caller goes on.                                    *)
NodeJoiner(n, size) ==
  /\ task[n] = "script"
  /\ \/ /\ master = "ready"
        /\ listed' = With(listed, n, [size |-> size, status |-> "Pending"])
        /\ killed' = killed \ {n}
        /\ Goto(n, "mount") /\ UNCHANGED failures
     \/ master /= "ready" /\ Goto(n, "end") /\ UNCHANGED <<listed, killed, failures>>
  /\ UNCHANGED <<mode, cloud, power, folder, master, containers, services, enabled, mounted,
                 scripted, cmd, raised, deleting, lost, commands>>

(* systemctl start and enable of one unit.                                 *)
StartUnit(n, kind) ==
  /\ services' = services \cup {<<n, kind>>}
  /\ enabled' = enabled \cup {<<n, kind>>}

setup_node(n) ==
  /\ \/ /\ task[n] = "mount" /\ Goto(n, "agent")
        /\ mounted' = mounted \cup {n}
        /\ UNCHANGED <<services, enabled, scripted, failures>>
     \/ /\ task[n] = "agent" /\ Goto(n, "server")
        /\ StartUnit(n, "agent") /\ UNCHANGED <<mounted, scripted, failures>>
     \/ /\ task[n] = "server" /\ Goto(n, "key")
        /\ StartUnit(n, "server") /\ UNCHANGED <<mounted, scripted, failures>>
     \/ /\ task[n] = "key" /\ Goto(n, "end")
        /\ scripted' = scripted \cup {n} /\ UNCHANGED <<mounted, services, enabled, failures>>
     \/ /\ task[n] \in {"mount", "agent", "server", "key"} /\ Goto(n, "end")
        /\ Unreported
        /\ UNCHANGED <<mounted, services, enabled, scripted>>
  /\ UNCHANGED <<mode, cloud, power, folder, master, listed, killed, containers, cmd,
                 raised, deleting, lost, commands>>

Reporting(n) == <<n, "agent">> \in services /\ n \in power

(* The node agent reports that the node runs.  Containers come and go on a *)
(* node that runs.                                                         *)
agent_reports(n) ==
  /\ Reporting(n) /\ n \in DOMAIN listed
  /\ listed[n].status /= "Running" \/ n \in killed
  /\ listed' = [listed EXCEPT ![n].status = "Running"]
  /\ killed' = killed \ {n}
  /\ UNCHANGED <<mode, cloud, power, folder, master, containers, services, enabled, mounted,
                 scripted, cmd, task, raised, deleting, lost, failures, commands>>

containers_change(n) ==
  /\ Reporting(n) /\ n \in DOMAIN listed
  /\ listed[n].status = "Running"
  /\ containers' = IF n \in containers THEN containers \ {n} ELSE containers \cup {n}
  /\ UNCHANGED <<mode, cloud, power, folder, master, listed, services, enabled, killed,
                 mounted, scripted, cmd, task, raised, deleting, lost, failures, commands>>

Stopped(n) == IF n \in DOMAIN listed THEN [listed EXCEPT ![n].status = "Stopped"] ELSE listed

(* systemctl stop of one unit.  An agent that runs reports Stopped, or is  *)
(* killed (it waits for a lock, say), and what the master lists stays.     *)
StopUnit(n, kind) ==
  /\ services' = services \ {<<n, kind>>}
  /\ \/ kind = "agent" /\ <<n, kind>> \in services
        /\ \/ listed' = Stopped(n) /\ killed' = killed \ {n}
           \/ listed' = listed /\ killed' = killed \cup {n}
     \/ (kind /= "agent" \/ <<n, kind>> \notin services) /\ UNCHANGED <<listed, killed>>

(* One step of leave_cluster.py: a unit is stopped and its file removed.   *)
(* It fails without a machine to run on, without the script, or without    *)
(* the unit.                                                               *)
LeaveUnit(n, kind, next) ==
  /\ \/ /\ n \in power \cap scripted
        /\ StopUnit(n, kind) /\ enabled' = enabled \ {<<n, kind>>}
        /\ Goto(n, next) /\ UNCHANGED failures
     \/ /\ n \notin power \cap scripted \/ <<n, kind>> \notin enabled
        /\ Goto(n, "raise") /\ UNCHANGED <<services, enabled, listed, killed, failures>>
     \/ Fails(n) /\ UNCHANGED <<services, enabled, listed, killed>>
  /\ UNCHANGED mounted

(* leave_cluster.py: stop the agent, then the API server, then unmount.    *)
leave_cluster(n, next) ==
  \/ task[n] = "leave" /\ LeaveUnit(n, "agent", "leave_server")
  \/ task[n] = "leave_server" /\ LeaveUnit(n, "server", "umount")
  \/ /\ task[n] = "umount"
     /\ \/ n \in mounted /\ mounted' = mounted \ {n} /\ Goto(n, next) /\ UNCHANGED failures
        \/ n \notin mounted /\ Goto(n, "raise") /\ UNCHANGED <<mounted, failures>>
        \/ Fails(n) /\ UNCHANGED mounted
     /\ UNCHANGED <<services, enabled, listed, killed>>

(* The same steps with the machine deleted before the node has left.       *)
_delete_nodeVmFirst(n) ==
  /\ cmd.op = "scale"
  /\ \/ /\ task[n] = "leave"
        /\ \/ cloud' = cloud \ {n} /\ power' = power \ {n} /\ Goto(n, "unlist") /\ UNCHANGED failures
           \/ Fails(n) /\ UNCHANGED <<cloud, power>>
        /\ UNCHANGED <<folder, listed, containers, services, enabled, killed, mounted>>
     \/ /\ task[n] = "unlist" /\ listed' = Unlisted(listed, n) /\ containers' = containers \ {n}
        /\ Goto(n, "end")
        /\ UNCHANGED <<cloud, power, folder, services, enabled, killed, mounted, failures>>
  /\ UNCHANGED <<mode, master, scripted, cmd, raised, deleting, lost, commands>>

(* The master's delete_node: the node leaves, then its details go; then    *)
(* the cloud's resources, the deployment and the local files.              *)
_delete_node(n) ==
  /\ cmd.op = "scale"
  /\ \/ /\ leave_cluster(n, "unlist")
        /\ UNCHANGED <<cloud, power, folder, containers>>
     \/ /\ task[n] = "unlist" /\ listed' = Unlisted(listed, n) /\ containers' = containers \ {n}
        /\ Goto(n, "resources")
        /\ UNCHANGED <<cloud, power, folder, services, enabled, killed, mounted, failures>>
     \/ /\ task[n] = "resources"
        /\ \/ cloud' = cloud \ {n} /\ power' = power \ {n} /\ Goto(n, "files") /\ UNCHANGED failures
           \/ Fails(n) /\ UNCHANGED <<cloud, power>>
        /\ UNCHANGED <<folder, listed, containers, services, enabled, killed, mounted>>
     \/ /\ task[n] = "files"
        /\ \/ folder' = folder \ {n} /\ Goto(n, "end") /\ UNCHANGED failures
           \/ Fails(n) /\ UNCHANGED folder
        /\ UNCHANGED <<cloud, power, listed, containers, services, enabled, killed, mounted>>
  /\ UNCHANGED <<mode, master, scripted, cmd, raised, deleting, lost, commands>>

ListedAs(size, status) == {n \in DOMAIN listed : listed[n] = [size |-> size, status |-> status]}

start_node(size, replicas) ==
  /\ mode = "azure" /\ Executor /\ Unlocked /\ master = "ready"
  /\ replicas <= Cardinality(ListedAs(size, "Stopped"))
  /\ Begin([op |-> "start", size |-> size, replicas |-> replicas])
  /\ \E some \in SUBSET ListedAs(size, "Stopped") :
        /\ Cardinality(some) = replicas
        /\ task' = [t \in Tasks |-> IF t \in some THEN "vm_on" ELSE "end"]
  /\ UNCHANGED <<mode, cloud, folder, master, vms, deleting, lost, failures>>

(* One call of the master's start_node over ssh; one that fails may have   *)
(* done its work.                                                          *)
StartCall(n, kind, next) ==
  \/ n \in scripted /\ StartUnit(n, kind) /\ Goto(n, next) /\ UNCHANGED failures
  \/ n \notin scripted /\ Goto(n, "raise") /\ UNCHANGED <<services, enabled, failures>>
  \/ Fails(n) /\ (StartUnit(n, kind) \/ UNCHANGED <<services, enabled>>)

(* The units that are enabled come up with the machine; then start_node    *)
(* starts the agent, then the API server.                                  *)
_start_node(n) ==
  /\ \/ /\ task[n] = "vm_on"
        /\ \/ /\ power' = power \cup {n}
              /\ services' = services \cup {u \in enabled : u[1] = n}
              /\ Goto(n, "agent_on") /\ UNCHANGED failures
           \/ Fails(n) /\ UNCHANGED <<power, services>>
        /\ UNCHANGED enabled
     \/ /\ \/ task[n] = "agent_on" /\ StartCall(n, "agent", "server_on")
           \/ task[n] = "server_on" /\ StartCall(n, "server", "end")
        /\ UNCHANGED power
  /\ UNCHANGED <<mode, cloud, folder, master, listed, killed, containers, mounted, scripted,
                 cmd, raised, deleting, lost, commands>>

(* _count_running_containers indexes the names of the containers: with one *)
(* container on a running node of the size the command raises.             *)
stop_node(size, replicas) ==
  /\ mode = "azure" /\ Executor /\ Unlocked /\ master = "ready"
  /\ ListedAs(size, "Running") \cap containers = {}
  /\ replicas <= Cardinality(ListedAs(size, "Running"))
  /\ Begin([op |-> "stop", size |-> size, replicas |-> replicas])
  /\ \E some \in SUBSET ListedAs(size, "Running") :
        /\ Cardinality(some) = replicas
        /\ task' = [t \in Tasks |-> IF t \in some THEN "server_off" ELSE "end"]
  /\ UNCHANGED <<mode, cloud, folder, master, vms, deleting, lost, failures>>

(* One call of the master's stop_node over ssh.                            *)
StopCall(n, kind, next) ==
  \/ n \in scripted \cap power /\ StopUnit(n, kind) /\ Goto(n, next) /\ UNCHANGED failures
  \/ /\ n \notin scripted \cap power /\ Goto(n, "raise")
     /\ UNCHANGED <<services, listed, killed, failures>>
  \/ Fails(n) /\ (StopUnit(n, kind) \/ UNCHANGED <<services, listed, killed>>)

(* stop_node stops the API server, then the agent; then the vm goes off.   *)
_stop_node(n) ==
  /\ \/ /\ \/ task[n] = "server_off" /\ StopCall(n, "server", "agent_off")
           \/ task[n] = "agent_off" /\ StopCall(n, "agent", "vm_off")
        /\ UNCHANGED power
     \/ /\ task[n] = "vm_off"
        /\ \/ power' = power \ {n} /\ Goto(n, "end") /\ UNCHANGED failures
           \/ Fails(n) /\ UNCHANGED power
        /\ UNCHANGED <<services, listed, killed>>
  /\ UNCHANGED <<mode, cloud, folder, master, containers, enabled, mounted, scripted, cmd,
                 raised, deleting, lost, commands>>

(* starmap returns when every task has ended and raises what one raised.   *)
pool_ends ==
  /\ cmd.op \in {"scale", "start", "stop", "join", "leave"}
  /\ \A t \in Tasks : task[t] \in {"end", "raise"}
  /\ raised' = (\E t \in Tasks : task[t] = "raise")
  /\ cmd' = NoCommand /\ task' = Ended
  /\ UNCHANGED <<mode, cloud, folder, master, vms, deleting, lost, failures, commands>>

----------------------------------------------------------------------------
(* On premises a machine joins and leaves by itself.                       *)

join_cluster(n, size) ==
  /\ mode = "on_premises"
  /\ task[n] = "end"
  /\ Begin([op |-> "join", size |-> size])
  /\ task' = [Ended EXCEPT ![n] = "connect"]
  /\ UNCHANGED <<mode, cloud, folder, master, vms, deleting, lost, failures>>

(* activate_leave_cluster.py needs what the node saved when it joined; its *)
(* failures are not reported either.                                       *)
leave(n) ==
  /\ mode = "on_premises"
  /\ Begin([op |-> "leave"])
  /\ task' = [Ended EXCEPT ![n] = "leave"]
  /\ UNCHANGED <<mode, cloud, folder, master, vms, deleting, lost, failures>>

activate_leave_cluster(n) ==
  /\ cmd.op \in {"leave", "delete"} /\ mode = "on_premises"
  /\ \A m \in NodeNames \ {n} : task[m] \notin {"leave_server", "umount", "unlist"}  \* one node after the other
  /\ \/ /\ leave_cluster(n, "unlist")
        /\ UNCHANGED containers
     \/ /\ task[n] = "unlist" /\ Goto(n, "end")
        /\ listed' = IF n \in DOMAIN listed THEN Unlisted(listed, n) ELSE listed
        /\ containers' = containers \ {n}
        /\ UNCHANGED <<services, enabled, killed, mounted, failures>>
  /\ UNCHANGED <<mode, cloud, power, folder, master, scripted, cmd, raised, deleting, lost, commands>>

----------------------------------------------------------------------------
(* Deleting a cluster: on Azure everything whose name starts with the      *)
(* cluster's id, and the folder last; on premises every listed node leaves *)
(* in turn and delete_master.py stops the master.                          *)

delete ==
  /\ mode = "azure" /\ Executor /\ Unlocked
  /\ Begin([op |-> "delete"])
  /\ deleting' = TRUE
  /\ task' = [Ended EXCEPT !["main"] = "resources"]
  /\ UNCHANGED <<mode, cloud, folder, master, vms, lost, failures>>

delete_on_premises ==
  /\ mode = "on_premises" /\ Executor /\ Unlocked
  /\ Begin([op |-> "delete"])
  /\ deleting' = TRUE
  /\ task' = [t \in Tasks |-> IF t \in DOMAIN listed THEN "leave"
                              ELSE IF t = "main" THEN "files" ELSE "end"]
  /\ UNCHANGED <<mode, cloud, folder, master, vms, lost, failures>>

(* A deletion that fails may have deleted some of the resources.           *)
delete_resources ==
  /\ cmd.op = "delete" /\ task["main"] = "resources"
  /\ \/ /\ cloud' = {} /\ Goto("main", "files") /\ UNCHANGED failures
     \/ /\ cloud' \in SUBSET cloud /\ Fails("main")
  /\ power' = power \cap cloud'
  /\ services' = {u \in services : u[1] \in cloud'}
  /\ enabled' = {u \in enabled : u[1] \in cloud'}
  /\ killed' = killed \cap cloud' /\ mounted' = mounted \cap cloud'
  /\ scripted' = scripted \cap cloud' /\ containers' = containers \cap cloud'
  /\ master' = IF "master" \in cloud' THEN master ELSE "off"
  /\ listed' = IF "master" \in cloud' THEN listed ELSE [n \in {} |-> <<>>]
  /\ UNCHANGED <<mode, folder, cmd, raised, deleting, lost, commands>>

(* delete_master.py stops the services and removes Redis.                  *)
MasterReleaser == master' = "off" /\ listed' = [n \in {} |-> <<>>]

delete_ends ==
  /\ cmd.op = "delete"
  /\ task["main"] \in {"files", "raise"}
  /\ \A n \in NodeNames : task[n] \in {"end", "raise"}
  /\ folder' = IF task["main"] = "files" THEN {} ELSE folder
  /\ raised' = (task["main"] = "raise")
  /\ IF mode = "on_premises"
     THEN MasterReleaser
     ELSE UNCHANGED <<master, listed>>
  /\ cmd' = NoCommand /\ task' = Ended
  /\ deleting' = (task["main"] = "raise")
  /\ UNCHANGED <<mode, cloud, power, containers, services, enabled, killed, mounted,
                 scripted, lost, failures, commands>>

ProvNext ==
  \/ create \/ create_on_premises \/ delete_on_premises \/ _create_resource_group \/ _create_vnet \/ _build_node_image
  \/ _create_master_vm \/ _init_master \/ _create_user \/ _create_and_init_master
  \/ create_ends \/ delete \/ delete_resources \/ delete_ends \/ pool_ends
  \/ \E s \in Sizes, r \in 0 .. Cardinality(NodeNames) :
        scale_node(s, r) \/ start_node(s, r) \/ stop_node(s, r)
  \/ \E n \in NodeNames :
        \/ _create_vm(n) \/ _join_cluster(n) \/ setup_node(n)
        \/ (cmd.op \in {"scale", "join"} /\ NodeJoiner(n, cmd.size))
        \/ agent_reports(n) \/ containers_change(n)
        \/ _delete_node(n) \/ _start_node(n) \/ _stop_node(n)
        \/ leave(n) \/ activate_leave_cluster(n)
        \/ \E s \in Sizes : join_cluster(n, s)

----------------------------------------------------------------------------
(* Until the cluster is deleted, a node the master lists has a machine,    *)
(* and a node it believes to run is switched on and its agent runs: jobs   *)
(* are placed on what is listed as running.  Only an agent that was killed *)
(* leaves "Running" behind.                                                *)
ListedNodesExist ==
  ~ deleting =>
    \A n \in DOMAIN listed :
       /\ n \in cloud
       /\ listed[n].status = "Running" => Reporting(n) \/ n \in killed

(* Agent and API server are started and stopped in turn, and no command    *)
(* ends between the two unless a call has failed: a node that reports to   *)
(* run can be reached.                                                     *)
ServicesGoTogether ==
  cmd = NoCommand /\ failures = 0 =>
    \A n \in NodeNames : <<n, "agent">> \in services <=> <<n, "server">> \in services

(* Between commands, the resources of a cluster never outlive the folder   *)
(* that holds their id: after a delete that failed they can still be found.*)
(* What a create that raised has left is in no folder (lost).              *)
ResourcesAreReachable ==
  mode = "azure" /\ cmd = NoCommand /\ cloud /= {} => folder /= {}

(* The books about a cluster's vms are true: listed vms exist and run with *)
(* both services, and what exists can be found and deleted.                *)
ClusterIsKnown == ListedNodesExist /\ ServicesGoTogether /\ ResourcesAreReachable
=============================================================================
