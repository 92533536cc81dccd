---------------------------- MODULE GrassMaster -----------------------------
(***************************************************************************)
(* The five agents of the MARO master (master_agent/agent.py).  Each is a *)
(* process of its own that looks at Redis every five seconds; a pass reads *)
(* once at its beginning and acts on what it read.  An exception the agent *)
(* does not catch ends its process ("dead"), and nothing starts it again.  *)
(***************************************************************************)
EXTENDS GrassStore

CONSTANTS Mode,             \* Mode[j] : allocation mode of job j
          MaxRestartTimes,  \* rejoin:max_restart_times
          RemoveFailed      \* RemoveFailed[j] : is_remove_failed_container of job j

ASSUME MetricAssumption == "cpu" \in Metrics
ASSUME MaxRestartTimesAssumption == MaxRestartTimes \in Nat
ASSUME RemoveFailedAssumption == RemoveFailed \in [Jobs -> BOOLEAN]

VARIABLES pending_agent, killed_agent, runtime_agent, job_tracker

agents == << pending_agent, killed_agent, runtime_agent, job_tracker >>

Idle == [pc |-> "idle"]
Dead == [pc |-> "dead"]

(* Remote calls on containers of node n: they need the node's details for
   the address and its API server for the answer. *)
Reachable(n) == Exists(node_details[n]) /\ api_up[n]

(***************************************************************************)
(* ResourceController: which node each container of a job goes to.  A      *)
(* resource is a function from metrics to amounts.                         *)
(***************************************************************************)
(* BasicResource.__cmp__(other) >= 0 *)
GreaterOrEqual(a, b) == \A m \in Metrics : a[m] >= b[m]

Minus(a, b) == [m \in Metrics |-> a[m] - b[m]]

(* get_free_resources: what the running nodes last reported; a node whose
   details lack the target values is skipped (KeyError). *)
get_free_resources ==
  LET usable == { n \in Nodes : /\ Exists(node_details[n])
                                /\ node_details[n].free # Nothing
                                /\ node_details[n].status = "Running" }
  IN  [n \in usable |-> node_details[n].free]

(* get_required_resources *)
get_required_resources(j) == Demand[j]

(* The required resources leave their heap largest first: the next one,
   once those in the plan have left. *)
NextRequired(metric, required, acc) ==
  LET waiting == (DOMAIN required) \ { acc.plan[k][1] : k \in DOMAIN acc.plan }
  IN  CHOOSE i \in waiting : \A o \in waiting : required[i][metric] >= required[o][metric]

(* Mutant: a container is placed by the metric alone. *)
AllocateByMetricOnly(mode, metric, required, acc) ==
  LET i == NextRequired(metric, required, acc)
      fits == { n \in DOMAIN acc.free : acc.free[n][metric] >= required[i][metric] }
      best == CHOOSE n \in fits : TRUE
  IN  IF ~acc.ok \/ fits = {} THEN [acc EXCEPT !.ok = FALSE]
      ELSE [ok   |-> TRUE,
            free |-> [acc.free EXCEPT ![best] = Minus(@, required[i])],
            plan |-> Append(acc.plan, <<i, best>>)]

(* The free nodes leave their heap by the metric, the fullest first in a
   "balanced" plan and the emptiest first in a "compacted" one, until one
   covers the container; the others go back. *)
MostFree(free, fits, metric) ==
  CHOOSE n \in fits : \A o \in fits : free[n][metric] >= free[o][metric]

LeastFree(free, fits, metric) ==
  CHOOSE n \in fits : \A o \in fits : free[n][metric] <= free[o][metric]

Allocate(mode, metric, required, acc) ==
  LET i == NextRequired(metric, required, acc)
      fits == { n \in DOMAIN acc.free : GreaterOrEqual(acc.free[n], required[i]) }
      best == IF mode = "balanced" THEN MostFree(acc.free, fits, metric)
                                   ELSE LeastFree(acc.free, fits, metric)
  IN  IF ~acc.ok \/ fits = {} THEN [acc EXCEPT !.ok = FALSE]
      ELSE [ok   |-> TRUE,
            free |-> [acc.free EXCEPT ![best] = Minus(@, required[i])],
            plan |-> Append(acc.plan, <<i, best>>)]

(* The two allocation plans.  When a container cannot be placed the ones
   placed before it have already been taken off the caller's list. *)
get_allocation_plan(mode, metric, required, free) ==
  LET placed[k \in 0 .. Len(required)] ==
        IF k = 0 THEN [ok |-> TRUE, free |-> free, plan |-> << >>]
        ELSE Allocate(mode, metric, required, placed[k - 1])
  IN  placed[Len(required)]

(***************************************************************************)
(* ContainerTrackingAgent: merge what the nodes report.                    *)
(***************************************************************************)
update_name_to_container_details ==
  LET reporting == { n \in Nodes : Exists(node_details[n]) }
      names == UNION { DOMAIN node_details[n].containers : n \in reporting }
      Home(c) == CHOOSE n \in reporting : c \in DOMAIN node_details[n].containers
  IN  /\ set_multiple_container_details(
           [c \in names |-> [state |-> node_details[Home(c)].containers[c],
                             node  |-> Home(c)]])
      /\ UNCHANGED << node_details, job_details, pending_tickets,
                      killed_tickets, rejoin, restart_times, machines, agents >>

(***************************************************************************)
(* JobTrackingAgent: job statuses from container states.  The loop keeps   *)
(* the last state it saw and leaves at a running or a failed container; a  *)
(* container that crashed with another code leaves job_state as it was for *)
(* the job before (unbound for the first one: the agent ends).             *)
(***************************************************************************)
JobStates(states, previous) ==
  LET leave == (IF Running \in states THEN {"running"} ELSE {})
                 \cup (IF states \cap {"exit64", "exit65"} # {} THEN {"failed"} ELSE {})
  IN  CASE leave # {} -> leave
        [] leave = {} /\ "exit0" \in states -> {"finish"}
        [] OTHER -> {previous}

(* The reads at the beginning of update_name_to_job_details. *)
ReadJobs ==
  /\ job_tracker.pc = "idle"
  /\ \E j \in Jobs : Exists(job_details[j])
  /\ job_tracker' =
       [pc |-> "write", previous |-> None,
        jobs |-> [j \in { k \in Jobs : Exists(job_details[k]) } |->
          [job_details[j] EXCEPT !.containers =
             [c \in { x \in DOMAIN container_details : x[1] = j } |->
                container_details[c].state] @@ @]]]
  /\ UNCHANGED << store, machines, pending_agent, killed_agent, runtime_agent >>

(* One iteration of the loop that saves the details. *)
SaveJob(j) ==
  /\ job_tracker.pc = "write"
  /\ j \in DOMAIN job_tracker.jobs
  /\ LET details == job_tracker.jobs[j]
         states == Range(details.containers)
         rest == [k \in (DOMAIN job_tracker.jobs) \ {j} |-> job_tracker.jobs[k]]
         After(previous) == IF rest = << >> THEN Idle
                            ELSE [pc |-> "write", previous |-> previous, jobs |-> rest]
     IN  IF states = {}
         THEN /\ job_tracker' = After(job_tracker.previous)
              /\ UNCHANGED job_details
         ELSE \E s \in JobStates(states, job_tracker.previous) :
                IF s = None
                THEN job_tracker' = Dead /\ UNCHANGED job_details
                ELSE /\ job_details' = [job_details EXCEPT ![j] = [details EXCEPT !.status = s]]
                     /\ job_tracker' = After(s)
  /\ UNCHANGED << node_details, pending_tickets, killed_tickets, container_details,
                  rejoin, restart_times, machines, pending_agent, killed_agent,
                  runtime_agent >>

(***************************************************************************)
(* PendingJobAgent.schedule_pending_job_tickets                            *)
(***************************************************************************)
ReadPendingTickets ==
  /\ pending_agent.pc = "idle"
  /\ pending_tickets # << >>
  /\ pending_agent' = [pc |-> "pick", todo |-> pending_tickets,
                       free |-> get_free_resources]
  /\ UNCHANGED << store, machines, killed_agent, runtime_agent, job_tracker >>

NextTicket(free) ==
  IF Len(pending_agent.todo) = 1 THEN Idle
  ELSE [pc |-> "pick", todo |-> Tail(pending_agent.todo), free |-> free]

(* Read the job and plan; a deleted job has no "components" (KeyError). *)
PlanJob ==
  /\ pending_agent.pc = "pick"
  /\ LET j == Head(pending_agent.todo)
         result == get_allocation_plan(Mode[j], "cpu", get_required_resources(j),
                                       pending_agent.free)
     IN  pending_agent' =
           IF ~Exists(job_details[j]) THEN Dead
           ELSE IF result.ok
           THEN [pc |-> "start", todo |-> pending_agent.todo, free |-> result.free,
                 plan |-> result.plan, details |-> job_details[j]]
           ELSE NextTicket(result.free)
  /\ UNCHANGED << store, machines, killed_agent, runtime_agent, job_tracker >>

(* PendingJobAgent._start_container *)
start_container(n, j, i) ==
  /\ Reachable(n)
  /\ starts[j][i] < MaxStarts
  /\ create_container(n, j, i)

(* The containers of the plan, one call each.  The node API answers a start
   that failed with an error page, on which json() raises. *)
StartPlanned ==
  /\ pending_agent.pc = "start"
  /\ pending_agent.plan # << >>
  /\ LET j == Head(pending_agent.todo)
         i == Head(pending_agent.plan)[1]
         n == Head(pending_agent.plan)[2]
     IN  \/ /\ start_container(n, j, i)
            /\ pending_agent' = [pending_agent EXCEPT !.plan = Tail(@)]
         \/ /\ pending_agent' = Dead
            /\ UNCHANGED << docker, starts >>
  /\ UNCHANGED << store, api_up, killed_agent, runtime_agent, job_tracker >>

(* All containers started: drop the ticket, then save the details that
   were read when the job was planned. *)
FinishStart ==
  /\ pending_agent.pc = "start"
  /\ pending_agent.plan = << >>
  /\ LET j == Head(pending_agent.todo)
     IN  /\ pending_tickets' = Without(pending_tickets, {j})
         /\ job_details' = [job_details EXCEPT
              ![j] = [pending_agent.details EXCEPT !.status = "running"]]
  /\ pending_agent' = NextTicket(pending_agent.free)
  /\ UNCHANGED << node_details, killed_tickets, container_details, rejoin,
                  restart_times, machines, killed_agent, runtime_agent, job_tracker >>

(***************************************************************************)
(* KilledJobAgent.schedule_killed_job_tickets                              *)
(***************************************************************************)
ReadKilledTickets ==
  /\ killed_agent.pc = "idle"
  /\ killed_tickets # << >>
  /\ killed_agent' = [pc |-> "pick", todo |-> killed_tickets]
  /\ UNCHANGED << store, machines, pending_agent, runtime_agent, job_tracker >>

(* The containers of job j that the nodes have reported. *)
Reported(j) ==
  UNION { { c \in DOMAIN node_details[n].containers : c[1] = j } :
            n \in { m \in Nodes : Exists(node_details[m]) } }

(* get_job_details answers {} and never None for a job that was deleted,
   so the kill goes on and misses the "id". *)
ReadKilledJob ==
  /\ killed_agent.pc = "pick"
  /\ LET j == Head(killed_agent.todo)
     IN  IF ~Exists(job_details[j])
         THEN killed_agent' = Dead /\ UNCHANGED rejoin
         ELSE /\ delete_rejoin_container_name_to_component_name(j)
              /\ killed_agent' = [pc |-> "kill", todo |-> killed_agent.todo,
                                  details |-> job_details[j], victims |-> Reported(j)]
  /\ UNCHANGED << node_details, job_details, pending_tickets, killed_tickets,
                  container_details, restart_times, machines, pending_agent,
                  runtime_agent, job_tracker >>

(* The rest of _kill_job and of the iteration.  A job of a schedule that
   was never started has no status to look at. *)
kill_job ==
  /\ killed_agent.pc = "kill"
  /\ LET j == Head(killed_agent.todo)
         details == killed_agent.details
     IN  \/ /\ killed_agent.victims # {}
            /\ killed_agent' = Dead          \* a node did not answer
            /\ UNCHANGED << docker, job_details, killed_tickets >>
         \/ /\ docker' = RemoveAll(docker, killed_agent.victims)
            /\ IF details.status = None
               THEN killed_agent' = Dead /\ UNCHANGED << job_details, killed_tickets >>
               ELSE /\ job_details' =
                         IF details.status \in {"pending", "running"}
                         THEN [job_details EXCEPT ![j] = [details EXCEPT !.status = "killed"]]
                         ELSE job_details
                    /\ killed_tickets' = Without(killed_tickets, {j})
                    /\ killed_agent' = IF Len(killed_agent.todo) = 1 THEN Idle
                         ELSE [pc |-> "pick", todo |-> Tail(killed_agent.todo)]
  /\ UNCHANGED << node_details, pending_tickets, container_details, rejoin,
                  restart_times, starts, api_up, pending_agent, runtime_agent, job_tracker >>

(***************************************************************************)
(* ContainerRuntimeAgent.iterate_container_status                          *)
(***************************************************************************)
ReadContainers ==
  /\ runtime_agent.pc = "idle"
  /\ \E c \in DOMAIN container_details : container_details[c].state # Running
  /\ runtime_agent' = [pc |-> "look", todo |-> container_details]
  /\ UNCHANGED << store, machines, pending_agent, killed_agent, job_tracker >>

(* _is_restart_container *)
is_restart_container(c, state) ==
  /\ state \in ExitStates \ NotRestarted
  /\ restart_times[c[1]][Component[c[1]][c[2]]] < MaxRestartTimes

(* _is_remove_container *)
is_remove_container(c, state) == state \in ExitStates /\ RemoveFailed[c[1]]

Looked(c) ==
  LET rest == [k \in (DOMAIN runtime_agent.todo) \ {c} |-> runtime_agent.todo[k]]
  IN  IF rest = << >> THEN Idle ELSE [pc |-> "look", todo |-> rest]

(* ContainerRuntimeAgent._start_container, on top of what the pass has
   removed (d) *)
start_replacement(d, n, j, i) ==
  /\ starts[j][i] < MaxStarts
  /\ docker' = [d EXCEPT ![n] = WithContainer(@, NextName(j, i))]
  /\ starts' = [starts EXCEPT ![j][i] = @ + 1]

(* _restart_container: skipped for a container that is not registered for
   rejoining or that no node has room for. *)
restart_container(c, d) ==
  LET j == c[1]
      result == get_allocation_plan("balanced", "cpu", << Demand[j][c[2]] >>,
                                    get_free_resources)
      n == result.plan[1][2]
  IN  IF c \notin get_rejoin_container_name_to_component_name(j) \/ ~result.ok
      THEN /\ docker' = d
           /\ runtime_agent' = Looked(c)
           /\ UNCHANGED << starts, restart_times >>
      ELSE \/ /\ Exists(job_details[j])
              /\ Reachable(n)
              /\ start_replacement(d, n, j, c[2])
              /\ restart_times' = [restart_times EXCEPT ![j][Component[j][c[2]]] = @ + 1]
              /\ runtime_agent' = Looked(c)
           \/ /\ ~Exists(job_details[j]) \/ ~Reachable(n)
              /\ docker' = d
              /\ runtime_agent' = Dead
              /\ UNCHANGED << starts, restart_times >>

(* ContainerRuntimeAgent._stop_job *)
stop_job(d, j, remove) ==
  /\ delete_rejoin_container_name_to_component_name(j)
  /\ docker' = IF remove THEN RemoveAll(d, Reported(j)) ELSE StopAll(d, Reported(j))

(* One container of the pass: remove it, restart it, stop its job. *)
LookAt(c) ==
  /\ runtime_agent.pc = "look"
  /\ c \in DOMAIN runtime_agent.todo
  /\ LET state == runtime_agent.todo[c].state
         home == runtime_agent.todo[c].node
         remove == is_remove_container(c, state)
         d == IF remove THEN RemoveAll(docker, {c}) ELSE docker
     IN  \/ /\ \/ remove /\ (~Reachable(home) \/ c \notin DOMAIN docker[home])
               \/ state = "exit65" /\ Reported(c[1]) # {}
            /\ runtime_agent' = Dead         \* a node answered with an error
            /\ UNCHANGED << docker, starts, restart_times, rejoin >>
         \/ /\ remove => Reachable(home)
            /\ is_restart_container(c, state)
            /\ restart_container(c, d)
            /\ UNCHANGED rejoin
         \/ /\ remove => Reachable(home)
            /\ ~is_restart_container(c, state)
            /\ IF state = "exit65"
               THEN stop_job(d, c[1], remove)
               ELSE docker' = d /\ UNCHANGED rejoin
            /\ runtime_agent' = Looked(c)
            /\ UNCHANGED << starts, restart_times >>
  /\ UNCHANGED << node_details, job_details, pending_tickets, killed_tickets,
                  container_details, api_up, pending_agent, killed_agent, job_tracker >>

InitMaster ==
  /\ pending_agent = Idle
  /\ killed_agent = Idle
  /\ runtime_agent = Idle
  /\ job_tracker = Idle

MasterSteps ==
  \/ update_name_to_container_details
  \/ \E j \in Jobs : SaveJob(j)
  \/ ReadPendingTickets \/ PlanJob \/ StartPlanned \/ FinishStart
  \/ ReadKilledTickets \/ ReadKilledJob \/ kill_job
  \/ ReadContainers
  \/ \E c \in DOMAIN container_details : LookAt(c)
=============================================================================
