--------------------------- MODULE BatchEnvSampler ---------------------------
(***************************************************************************)
(* rl/rollout/batch_env_sampler.py and worker.py: the main process sends   *)
(* identical tasks to rollout workers over a ROUTER socket and collects    *)
(* their replies.  The workers announce themselves with READY once, when   *)
(* they start, in any order.  The workflow on top is the evaluation-only   *)
(* one, or the first sampling of a training workflow.                      *)
(***************************************************************************)
EXTENDS RlConfig

CONSTANTS RolloutConfigs,        \* configurations with parallel rollout
          EvaluateOnly           \* evaluate_only_workflow: its requests, in order

(* rollout.parallelism holds numbers or is missing; main.py sets the policies
   if there are any to load, evaluates and post-processes. *)
ASSUME ParallelismAssumption ==
  \A c \in RolloutConfigs : c.sampling \in Int \cup {Unset} /\ c.eval \in Int \cup {Unset}
ASSUME EvaluateOnlyAssumption ==
  EvaluateOnly \subseteq { << "set_policy_state", "eval", "post_evaluate" >>, << "eval", "post_evaluate" >> }

VARIABLES
  rconfig,
  todo,        \* requests the workflow still makes
  stage,       \* of `collect`: "idle", "wait", "recv"; or "exited", "raised"
  known,       \* _workers, in the order in which list() gives them
  results,     \* replies accepted for the running request
  round,       \* requests made so far (history: names a request)
  worker,      \* [worker -> "off", "up" or "stopped"]
  tasks,       \* [worker -> messages on their way to it]
  replies,     \* [worker -> messages on their way to the controller]
  loaded       \* workers whose policies have been set

rollout_vars == << rconfig, todo, stage, known, results, round, worker, tasks, replies, loaded >>

Worker == 1..get_job_spec(rconfig).rollout_workers
READY == [type |-> "READY", round |-> 0, index |-> 0, from |-> 0]
EXIT == [type |-> "EXIT", round |-> 0, index |-> 0, from |-> 0]

(* What the controller is asked for: the evaluation-only workflow, or a sampling. *)
RolloutRequests == EvaluateOnly \cup {<< "sample" >>}

InitRollout ==
  /\ rconfig \in { c \in RolloutConfigs : _validate(c) /\ get_job_spec(c).rollout_workers > 0 }
  /\ todo \in RolloutRequests
  /\ stage = "idle" /\ known = << >> /\ results = {} /\ round = 0
  /\ worker = [w \in Worker |-> "off"] /\ loaded = {}
  /\ tasks = [w \in Worker |-> << >>]
  /\ replies = [w \in Worker |-> << >>]

(* AbsWorker.__init__ *)
RolloutWorkerStarts(w) ==
  /\ worker[w] = "off"
  /\ worker' = [worker EXCEPT ![w] = "up"]
  /\ replies' = [replies EXCEPT ![w] = Append(@, READY)]
  /\ UNCHANGED << rconfig, todo, stage, known, results, round, tasks, loaded >>

(* RolloutWorker._compute: one message at a time, answered in order. *)
ComputeRollout(w) ==
  /\ worker[w] = "up" /\ tasks[w] # << >>
  /\ LET req == Head(tasks[w])
     IN  /\ tasks' = [tasks EXCEPT ![w] = Tail(@)]
         /\ IF req.type = "EXIT"
            THEN worker' = [worker EXCEPT ![w] = "stopped"] /\ UNCHANGED << replies, loaded >>
            ELSE /\ replies' = [replies EXCEPT ![w] = Append(@, [req EXCEPT !.from = w])]
                 /\ loaded' = IF req.type = "set_policy_state" THEN loaded \cup {w} ELSE loaded
                 /\ UNCHANGED worker
  /\ UNCHANGED << rconfig, todo, stage, known, results, round >>

(* The number of workers a request goes to, and its index: the episode
   number, which stays 0 until a sampling, or what post_evaluate is given. *)
parallelism ==
  LET p == Parallelism(rconfig)
  IN  CASE Head(todo) \in {"sample", "set_policy_state"} -> p.sampling
        [] Head(todo) = "eval" -> p.eval
        [] OTHER -> 1
Index == CASE Head(todo) = "sample" -> 1 [] Head(todo) = "post_evaluate" -> -1 [] OTHER -> 0

(* Mutant: collect is content with one reply less. *)
min_repliesFewer == IF parallelism > 1 THEN parallelism - 1 ELSE 1

min_replies == parallelism

CollectBegins ==
  /\ stage = "idle" /\ todo # << >>
  /\ stage' = "wait" /\ results' = {} /\ round' = round + 1
  /\ UNCHANGED << rconfig, todo, known, worker, tasks, replies, loaded >>

(* _wait_for_workers_ready: whoever sends something is a worker.  A worker's
   place in list(_workers) depends on its hash. *)
WorkerIsReady(w) ==
  /\ stage = "wait" /\ Len(known) < parallelism /\ replies[w] # << >>
  /\ replies' = [replies EXCEPT ![w] = Tail(@)]
  /\ IF w \in ToSet(known) THEN UNCHANGED known
     ELSE \E i \in 1..(Len(known) + 1) : known' = InsertAt(known, i, w)
  /\ UNCHANGED << rconfig, todo, stage, results, round, worker, tasks, loaded >>

(* Mutant: one worker too few is addressed. *)
AddressedFewer == ToSet(SubSeq(known, 1, parallelism - 1))

(* The request goes to the first workers of the list. *)
Addressed == ToSet(SubSeq(known, 1, parallelism))
RequestsSent ==
  /\ stage = "wait" /\ Len(known) >= parallelism
  /\ tasks' = [w \in Worker |->
                 IF w \in Addressed
                 THEN Append(tasks[w], [type |-> Head(todo), round |-> round, index |-> Index, from |-> w])
                 ELSE tasks[w]]
  /\ stage' = "recv"
  /\ UNCHANGED << rconfig, todo, known, results, round, worker, replies, loaded >>

(* _recv_result_for_target_index: what is not a pickled reply raises, and a
   reply for another index is dropped. *)
ReplyTaken(w) ==
  /\ stage = "recv" /\ Cardinality(results) < min_replies /\ replies[w] # << >>
  /\ LET rep == Head(replies[w])
     IN  IF rep = READY
         THEN stage' = "raised" /\ UNCHANGED results
         ELSE /\ results' = IF rep.index = Index THEN results \cup {rep} ELSE results
              /\ UNCHANGED stage
  /\ replies' = [replies EXCEPT ![w] = Tail(@)]
  /\ UNCHANGED << rconfig, todo, known, round, worker, tasks, loaded >>

(* The end of collect; sample looks for a key that no reply has. *)
CollectEnds ==
  /\ stage = "recv" /\ Cardinality(results) >= min_replies
  /\ stage' = IF Head(todo) = "sample" THEN "raised" ELSE "idle"
  /\ todo' = Tail(todo)
  /\ UNCHANGED << rconfig, known, results, round, worker, tasks, replies, loaded >>

(* exit: the socket does not linger and is closed right after the sending, so
   any EXIT may be dropped. *)
ControllerExits ==
  /\ stage = "idle" /\ todo = << >>
  /\ stage' = "exited"
  /\ \E reached \in SUBSET ToSet(known) :
       tasks' = [w \in Worker |-> IF w \in reached THEN Append(tasks[w], EXIT) ELSE tasks[w]]
  /\ UNCHANGED << rconfig, todo, known, results, round, worker, replies, loaded >>

RolloutNext ==
  \/ \E w \in Worker :
       RolloutWorkerStarts(w) \/ ComputeRollout(w) \/ WorkerIsReady(w) \/ ReplyTaken(w)
  \/ CollectBegins \/ RequestsSent \/ CollectEnds \/ ControllerExits

(* A reply that is collected answers the request that was just sent, and an
   evaluation runs with the policies that were loaded before it: replies carry
   only the index of a request, which loading and evaluation share, so this
   rests on collecting every reply before the next request, and on loading to
   no fewer workers than evaluate.  Collecting raises only before all workers
   are known: the READY of a late worker is then taken for a reply. *)
RepliesFit ==
  /\ stage = "raised" /\ Len(known) = Cardinality(Worker) => todo = << >>
  /\ \A r \in results :
       /\ r.round = round
       /\ r.type = "eval" /\ round > 1 /\ Parallelism(rconfig).sampling >= Parallelism(rconfig).eval
            => r.from \in loaded
=============================================================================
