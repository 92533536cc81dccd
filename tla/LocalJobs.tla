----------------------------- MODULE LocalJobs ------------------------------
(***************************************************************************)
(* Jobs on the local machine: the commands of "maro local"                 *)
(* (maro/cli/local/commands.py) and the job manager they talk to through   *)
(* Redis (maro/cli/local/job_manager.py, utils.py).                        *)
(*                                                                         *)
(* Three kinds of actors interleave at their Redis calls: the user's       *)
(* commands (one at a time), the manager's main loop and one monitor       *)
(* thread for each started job.  Docker is external: its containers stop   *)
(* when asked to, and a name that is in use cannot be started again.       *)
(***************************************************************************)
EXTENDS Naturals, Sequences, FiniteSets, SequencesExt

CONSTANTS
  LocalJobNames,              \* job names
  Networked,         \* jobs whose configuration makes them create a network
  MaxRunning,        \* MAX_RUNNING
  MaxLocalCommands   \* bound: commands given

ASSUME LocalAssumption == Networked \subseteq LocalJobNames /\ MaxRunning \in Nat \ {0}

VARIABLES
  containerize,  \* CONTAINERIZE
  session,       \* the session file exists, Redis and the manager were started
  jobConf,       \* keys of the hash job_conf
  jobDetails,    \* the hash job_details: job -> status
  image,         \* the docker image exists
  process,       \* job -> "none", "running", "done" or "failed"
  orphans,       \* jobs whose containers an earlier session left
  loop,          \* main loop: [pc, todo]
  monitors,      \* job -> where its monitor thread is
  user,          \* the command that runs
  localCommands

localVars == <<containerize, session, jobConf, jobDetails, image, process, orphans,
               loop, monitors, user, localCommands>>

UserIdle == [op |-> "idle"]
Waiting == [pc |-> "scan", todo |-> <<>>]
Command(c) ==
  /\ user = UserIdle
  /\ localCommands < MaxLocalCommands
  /\ localCommands' = localCommands + 1
  /\ user' = c
Store(j, status) == [x \in DOMAIN jobDetails \cup {j} |-> IF x = j THEN status ELSE jobDetails[x]]
Drop(j) == [x \in DOMAIN jobDetails \ {j} |-> jobDetails[x]]
WithStatus(status) == {j \in DOMAIN jobDetails : jobDetails[j] = status}

LocalInit ==
  /\ containerize \in BOOLEAN
  /\ session = FALSE
  /\ jobConf = {} /\ jobDetails = [j \in {} |-> ""]
  /\ image \in BOOLEAN
  /\ process = [j \in LocalJobNames |-> "none"] /\ orphans = {}
  /\ loop = [pc |-> "off", todo |-> <<>>]
  /\ monitors = [j \in LocalJobNames |-> "off"]
  /\ user = UserIdle /\ localCommands = 0

----------------------------------------------------------------------------
(* Commands.                                                               *)

local_init ==
  /\ ~ session
  /\ Command(UserIdle)
  /\ session' = TRUE
  /\ loop' = Waiting
  /\ UNCHANGED <<containerize, jobConf, jobDetails, image, process, orphans, monitors>>

(* The name must be free; the configuration is written before the details. *)
local_add_job(j) ==
  /\ session
  /\ j \notin DOMAIN jobDetails
  /\ Command([op |-> "add", job |-> j])
  /\ jobConf' = jobConf \cup {j}
  /\ UNCHANGED <<containerize, session, jobDetails, image, process, orphans, loop, monitors>>

local_remove_job(j) ==
  /\ session
  /\ j \in DOMAIN jobDetails
  /\ Command([op |-> "remove", job |-> j])
  /\ UNCHANGED <<containerize, session, jobConf, jobDetails, image, process, orphans, loop, monitors>>

(* The second Redis call of add and remove.                                *)
local_hset ==
  /\ user.op \in {"add", "remove"}
  /\ jobDetails' = Store(user.job, IF user.op = "add" THEN "pending" ELSE "removed")
  /\ user' = UserIdle
  /\ UNCHANGED <<containerize, session, jobConf, image, process, orphans, loop, monitors,
                 localCommands>>

(* Jobs are marked and the manager, its monitors with it, is killed at     *)
(* once; Redis and its hashes go (a dump that its shutdown may leave in    *)
(* the working directory, and that a later init there would load, is not   *)
(* modelled).                                                              *)
local_exit ==
  /\ session
  /\ Command(UserIdle)
  /\ session' = FALSE
  /\ jobConf' = {} /\ jobDetails' = [j \in {} |-> ""]
  /\ orphans' = orphans \cup {j \in LocalJobNames : process[j] /= "none"}
  /\ loop' = [pc |-> "off", todo |-> <<>>]
  /\ monitors' = [j \in LocalJobNames |-> "off"]
  /\ UNCHANGED <<containerize, image, process>>

----------------------------------------------------------------------------
(* The manager's main loop.                                                *)

FirstFew(s, n) == SubSeq(s, 1, IF n < Len(s) THEN n ELSE Len(s))

Startable(pending) == FirstFew(pending, MaxRunning - Cardinality(WithStatus("running")))

(* Reads all details; a pending job without configuration ends the loop    *)
(* (json.loads of nothing).                                                *)
scan_jobs ==
  /\ loop.pc = "scan"
  /\ WithStatus("pending") /= {}
  /\ IF WithStatus("pending") \subseteq jobConf
     THEN \E order \in SetToSeqs(WithStatus("pending")) :
             /\ Startable(order) /= <<>>
             /\ loop' = [pc |-> "image", todo |-> Startable(order)]
     ELSE loop' = [pc |-> "dead", todo |-> <<>>]
  /\ UNCHANGED <<containerize, session, jobConf, jobDetails, image, process, orphans,
                 monitors, user, localCommands>>

build_image ==
  /\ loop.pc = "image"
  /\ IF containerize /\ ~ image
     THEN jobDetails' = Store(Head(loop.todo), "image_building") /\ image' = TRUE
     ELSE UNCHANGED <<jobDetails, image>>
  /\ loop' = [loop EXCEPT !.pc = "start"]
  /\ UNCHANGED <<containerize, session, jobConf, process, orphans, monitors, user, localCommands>>

(* start_rl_job lacks two arguments here; a container needs the network of *)
(* its job and a free name.  The containers start one by one, and docker   *)
(* may refuse any of them: some of the job may run then.  An exception     *)
(* ends the loop.                                                          *)
start_rl_job_in_containers ==
  LET j == Head(loop.todo)
      able == containerize /\ j \in Networked /\ process[j] = "none"
      running == [process EXCEPT ![j] = "running"]
  IN  /\ loop.pc = "start"
      /\ \/ able /\ process' = running /\ loop' = [loop EXCEPT !.pc = "started"]
         \/ /\ loop' = [pc |-> "dead", todo |-> <<>>]
            /\ \/ UNCHANGED process
               \/ able /\ process' = running
      /\ UNCHANGED <<containerize, session, jobConf, jobDetails, image, orphans, monitors,
                     user, localCommands>>

(* The status is written over whatever the details now say.                *)
start_monitor ==
  LET j == Head(loop.todo)
  IN  /\ loop.pc = "started"
      /\ jobDetails' = Store(j, "running")
      /\ monitors' = [monitors EXCEPT ![j] = "poll"]
      /\ loop' = IF Len(loop.todo) = 1 THEN Waiting
                 ELSE [pc |-> "image", todo |-> Tail(loop.todo)]
      /\ UNCHANGED <<containerize, session, jobConf, image, process, orphans, user, localCommands>>

----------------------------------------------------------------------------
(* The monitor thread of job j.                                            *)

Looking == [running |-> "look_running", done |-> "look_done", failed |-> "look_failed"]

poll(j) ==
  /\ monitors[j] = "poll"
  /\ monitors' = [monitors EXCEPT ![j] = Looking[process[j]]]
  /\ UNCHANGED <<containerize, session, jobConf, jobDetails, image, process, orphans, loop,
                 user, localCommands>>

(* The details are read after the poll and decide first.                   *)
look(j) ==
  /\ monitors[j] \in {"look_running", "look_done", "look_failed"}
  /\ j \in DOMAIN jobDetails
  /\ monitors' = [monitors EXCEPT ![j] =
        IF jobDetails[j] = "removed" THEN "term"
        ELSE CASE monitors[j] = "look_running" -> "poll"
               [] monitors[j] = "look_done" -> "finished"
               [] OTHER -> "error"]
  /\ UNCHANGED <<containerize, session, jobConf, jobDetails, image, process, orphans, loop,
                 user, localCommands>>

(* The job has ended: the details read before are written back.            *)
job_ended(j) ==
  /\ monitors[j] \in {"finished", "error"}
  /\ jobDetails' = Store(j, monitors[j])
  /\ process' = IF monitors[j] = "error" THEN [process EXCEPT ![j] = "none"] ELSE process
  /\ monitors' = [monitors EXCEPT ![j] = "watch"]
  /\ UNCHANGED <<containerize, session, jobConf, image, orphans, loop, user, localCommands>>

watch(j) ==
  /\ monitors[j] = "watch"
  /\ jobDetails[j] = "removed"
  /\ monitors' = [monitors EXCEPT ![j] = "term"]
  /\ UNCHANGED <<containerize, session, jobConf, jobDetails, image, process, orphans, loop,
                 user, localCommands>>

(* term, then the two deletions.                                           *)
remove_jobDeletesFirst(j) ==
  /\ \/ /\ monitors[j] = "term"
        /\ jobDetails' = Drop(j) /\ monitors' = [monitors EXCEPT ![j] = "hdel"]
        /\ UNCHANGED <<jobConf, process>>
     \/ /\ monitors[j] = "hdel"
        /\ process' = [process EXCEPT ![j] = "none"] /\ monitors' = [monitors EXCEPT ![j] = "off"]
        /\ jobConf' = jobConf \ {j} /\ UNCHANGED jobDetails
  /\ UNCHANGED <<containerize, session, image, orphans, loop, user, localCommands>>

remove_job(j) ==
  /\ \/ /\ monitors[j] = "term"
        /\ process' = [process EXCEPT ![j] = "none"] /\ monitors' = [monitors EXCEPT ![j] = "hdel"]
        /\ UNCHANGED <<jobConf, jobDetails>>
     \/ /\ monitors[j] = "hdel"
        /\ jobDetails' = Drop(j) /\ monitors' = [monitors EXCEPT ![j] = "hdel_conf"]
        /\ UNCHANGED <<jobConf, process>>
     \/ /\ monitors[j] = "hdel_conf"
        /\ jobConf' = jobConf \ {j} /\ monitors' = [monitors EXCEPT ![j] = "off"]
        /\ UNCHANGED <<jobDetails, process>>
  /\ UNCHANGED <<containerize, session, image, orphans, loop, user, localCommands>>

(* The job's processes end.                                                *)
job_processes(j) ==
  /\ process[j] = "running"
  /\ \E end \in {"done", "failed"} : process' = [process EXCEPT ![j] = end]
  /\ UNCHANGED <<containerize, session, jobConf, jobDetails, image, orphans, loop, monitors,
                 user, localCommands>>

LocalNext ==
  \/ local_init \/ local_hset \/ local_exit
  \/ scan_jobs \/ build_image \/ start_rl_job_in_containers \/ start_monitor
  \/ \E j \in LocalJobNames :
        \/ local_add_job(j) \/ local_remove_job(j)
        \/ poll(j) \/ look(j) \/ job_ended(j) \/ watch(j) \/ remove_job(j) \/ job_processes(j)

----------------------------------------------------------------------------
(* The manager keeps to MAX_RUNNING, and what a session has started is     *)
(* listed until it has been terminated: "maro local job rm" can reach it.  *)
LocalJobsAccounted ==
  /\ Cardinality(WithStatus("running")) <= MaxRunning
  /\ session => \A j \in LocalJobNames \ orphans : process[j] /= "none" => j \in DOMAIN jobDetails
=============================================================================
