---------------------------- MODULE GrassCluster ----------------------------
(***************************************************************************)
(* A grass cluster: the master's agents, the nodes, the containers and the *)
(* commands that reach the master's API server (master_api_server and the  *)
(* grass executors of the command line).                                   *)
(***************************************************************************)
EXTENDS GrassMaster, GrassNode

CONSTANTS ScheduledJobs,   \* jobs that are submitted through a schedule
          Budgets          \* bounds, one of which a behaviour keeps to: the
                           \* commands about jobs and about nodes, the exits of
                           \* containers, and the passes of the image agents
                           \* and of the job tracker

ASSUME ScheduledAssumption == ScheduledJobs \subseteq Jobs /\ IsFiniteSet(ScheduledJobs)

VARIABLES left,            \* what is left of the budget
          submitted,       \* jobs submitted so far
          dropping         \* a job whose DELETE is under way: [job, at], or Nothing

user_vars == << left, submitted, dropping >>
cluster_vars == << store, machines, agents, node_vars, user_vars >>

Spend(kind) == left[kind] > 0 /\ left' = [left EXCEPT ![kind] = @ - 1]

(* create_job: details, then a ticket. *)
create_job(j) ==
  /\ job_details' = [job_details EXCEPT ![j] = SubmittedJob("pending")]
  /\ pending_tickets' = Append(pending_tickets, j)
  /\ UNCHANGED << node_details, killed_tickets, container_details, rejoin,
                  restart_times, machines, agents, node_vars >>

(* start_job of the executor sends the details with status pending. *)
start_job(j) ==
  /\ Spend("jobs")
  /\ j \notin submitted \cup ScheduledJobs
  /\ submitted' = submitted \cup {j}
  /\ create_job(j) /\ UNCHANGED dropping

(* create_schedule: the same for each job name, but the details built by
   _build_job_details carry no status. *)
create_schedule ==
  /\ job_details' = [j \in Jobs |-> IF j \in ScheduledJobs THEN SubmittedJob(None)
                                    ELSE job_details[j]]
  /\ pending_tickets' = pending_tickets \o SetToSeq(ScheduledJobs)
  /\ UNCHANGED << node_details, killed_tickets, container_details, rejoin,
                  restart_times, machines, agents, node_vars >>

start_schedule ==
  /\ Spend("jobs")
  /\ ScheduledJobs # {} /\ ScheduledJobs \cap submitted = {}
  /\ submitted' = submitted \cup ScheduledJobs
  /\ create_schedule /\ UNCHANGED dropping

(* stop_schedule (and the stop_job the API server offers) *)
stop_schedule ==
  /\ Spend("jobs")
  /\ ScheduledJobs # {} /\ ScheduledJobs \subseteq submitted
  /\ pending_tickets' = Without(pending_tickets, ScheduledJobs)
  /\ killed_tickets' = killed_tickets \o SetToSeq(ScheduledJobs)
  /\ UNCHANGED << node_details, job_details, container_details, rejoin,
                  restart_times, machines, agents, node_vars, submitted, dropping >>

(* delete_job, three calls of Redis: the pending ticket is taken back, the
   ticket for the killed-job agent is pushed, the details are deleted.
   "maro grass job stop" sends this DELETE. *)
StopJobCommand(j) ==
  /\ Spend("jobs")
  /\ dropping = Nothing
  /\ j \in submitted \ ScheduledJobs
  /\ pending_tickets' = Without(pending_tickets, {j})
  /\ dropping' = [job |-> j, at |-> "push"]
  /\ UNCHANGED << node_details, job_details, killed_tickets, container_details,
                  rejoin, restart_times, machines, agents, node_vars, submitted >>

delete_job ==
  /\ dropping # Nothing
  /\ IF dropping.at = "push"
     THEN /\ killed_tickets' = Append(killed_tickets, dropping.job)
          /\ dropping' = [dropping EXCEPT !.at = "delete"]
          /\ UNCHANGED job_details
     ELSE /\ job_details' = [job_details EXCEPT ![dropping.job] = NoDetails]
          /\ dropping' = Nothing
          /\ UNCHANGED killed_tickets
  /\ UNCHANGED << node_details, pending_tickets, container_details, rejoin,
                  restart_times, machines, agents, node_vars, left, submitted >>

(* clean_jobs: the queues go; the DELETEs to the nodes use a path without
   the /v1 prefix that no route has, and their answers are not read. *)
clean_jobs ==
  /\ Spend("jobs")
  /\ pending_tickets # << >> \/ killed_tickets # << >>
  /\ pending_tickets' = << >>
  /\ killed_tickets' = << >>
  /\ UNCHANGED << node_details, job_details, container_details, rejoin,
                  restart_times, machines, agents, node_vars, submitted, dropping >>

NodeCommand ==
  /\ Spend("nodes")
  /\ \E n \in Nodes : JoinCluster(n) \/ start_node_service(n) \/ stop_node_service(n)
                      \/ delete_node(n)
  /\ UNCHANGED << agents, submitted, dropping >>

ImageCommand ==
  /\ Spend("nodes")
  /\ \E i \in Images : PushImage(i)
  /\ UNCHANGED << agents, submitted, dropping >>

(* A component's proxy registers under its component name when it starts
   (communication/proxy.py); its container may exit with any code. *)
ContainerRegisters(n, c) ==
  /\ c \in DOMAIN docker[n] /\ docker[n][c] = Running
  /\ rejoin[c[1]][c[2]] # c
  /\ rejoin' = [rejoin EXCEPT ![c[1]][c[2]] = c]
  /\ UNCHANGED << node_details, job_details, pending_tickets, killed_tickets,
                  container_details, restart_times, machines, agents, node_vars,
                  user_vars >>

ContainerExits(n, c, state) ==
  /\ Spend("exits")
  /\ c \in DOMAIN docker[n] /\ docker[n][c] = Running
  /\ docker' = [docker EXCEPT ![n][c] = state]
  /\ UNCHANGED << store, starts, api_up, agents, node_vars, submitted, dropping >>

(* The cluster starts as "maro grass create" and "node scale" leave it: the
   nodes have joined, their services run and have reported once. *)
Joined ==
  /\ node_details = [n \in Nodes |-> [init_node_details EXCEPT
                                        !.status = "Running", !.free = Capacity[n]]]
  /\ api_up = [n \in Nodes |-> TRUE]
  /\ proc = [n \in Nodes |-> [p \in Processes |-> "idle"]]

ServicesInit ==
  /\ Joined /\ InitStore /\ InitMaster /\ InitNode
  /\ left \in Budgets /\ submitted = {} /\ dropping = Nothing

ServicesNext ==
  \/ MasterSteps /\ UNCHANGED << node_vars, user_vars >>
  \/ ReadJobs /\ Spend("tracks") /\ UNCHANGED << node_vars, submitted, dropping >>
  \/ (\E n \in Nodes : NodeSteps(n)) /\ UNCHANGED << agents, user_vars >>
  \/ (\E n \in Nodes : ReadImages(n)) /\ Spend("images")
       /\ UNCHANGED << agents, submitted, dropping >>
  \/ \E j \in Jobs : start_job(j) \/ StopJobCommand(j)
  \/ delete_job
  \/ start_schedule \/ stop_schedule \/ clean_jobs
  \/ NodeCommand \/ ImageCommand
  \/ \E n \in Nodes : \E c \in DOMAIN docker[n] :
       ContainerRegisters(n, c) \/ \E s \in ExitStates : ContainerExits(n, c, s)

(* The containers ever created for a component of a job: its own, and one for
   each restart that fault recovery allows a component id, whatever the order
   in which the runtime agent sees an exited container again, its replacement
   registers, the job is stopped or its tickets are read. *)
OfComponent(j, t) == { i \in Indices(j) : Component[j][i] = t }

RestartsAreBounded ==
  \A j \in Jobs : \A t \in Components :
    SumFunctionOnSet(starts[j], OfComponent(j, t))
      <= Cardinality(OfComponent(j, t)) + MaxRestartTimes

(* What the pending-job agent is about to start fits into what the nodes
   had reported free when its pass began, in every metric and together with
   the jobs planned before in the same pass. *)
PlansFit ==
  pending_agent.pc = "start" =>
    \A k \in 1..Len(pending_agent.plan) : \A m \in Metrics :
      pending_agent.free[pending_agent.plan[k][2]][m] >= 0

(* A node whose service has ended in good order is not offered for new
   containers: no process of it writes "Running" after the last
   gracefully_exit, in whichever order SIGTERM reaches them. *)
StoppedWhenGone ==
  \A n \in Nodes : ServiceOff(n) /\ lock[n] = None /\ Exists(node_details[n])
                     => node_details[n].status # "Running"

(* The master places containers within bounds: a pass gives away no more than
   it found free, and a component gets no more containers than its restarts allow. *)
PlacementIsBounded == PlansFit /\ RestartsAreBounded
=============================================================================
