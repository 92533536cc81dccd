--------------------------- MODULE TrainingProxy ----------------------------
(***************************************************************************)
(* Distributed training (rl/training): the ops of the trainers, in the main *)
(* process, ask a proxy process for gradients; the proxy splits a request   *)
(* over the workers that are free, collects their results and answers with  *)
(* the average.  Processes talk over ZeroMQ sockets: every pair has a FIFO  *)
(* channel each way, which loses nothing while both ends live.              *)
(*                                                                         *)
(* A gradient is what it was computed from: the op, the version of its      *)
(* state, and which part of how many of the batch.                          *)
(***************************************************************************)
EXTENDS Naturals, Sequences, FiniteSets, SequencesExt

CONSTANTS
  Ops,          \* the train ops, one per trained policy
  Workers,      \* the training workers
  Parallelism,  \* AbsTrainOps.parallelism of every op
  BatchSizes,   \* numbers of transitions in the batches of every op
  MaxSteps,     \* bound: training steps of the workflow
  CallsPerStep  \* bound: remote calls of an op in a training step

ASSUME ParallelismAssumption == Parallelism \in [Ops -> Nat \ {0}]
ASSUME BatchAssumption == BatchSizes \in [Ops -> SUBSET (Nat \ {0})]

READY == [type |-> "READY"]
EXIT == [type |-> "EXIT"]
EXIT_ACK == [type |-> "EXIT_ACK"]

VARIABLES
  available_workers,    \* TrainingProxy: deque of workers
  connected_ops,        \* TrainingProxy: ops that have sent a request
  result_cache,         \* TrainingProxy: results so far, per op
  expected_num_results, \* TrainingProxy: results to wait for, per op
  receiving,            \* the front end of the proxy has its handler
  lost,                 \* workers popped for a batch that could not be split (history)
  proxyUp,              \* the event loop of the proxy runs
  requests,             \* channel from each op to the proxy
  replies,              \* channel from the proxy to each op
  tasks,                \* channel from the proxy to each worker
  results,              \* channel from each worker to the proxy
  worker,               \* "off", "up" or "stopped", per worker
  op,                   \* per op: state, version and calls left in this step
  main                  \* TrainingManager: what it does, and steps done

vars == <<available_workers, connected_ops, result_cache, expected_num_results, receiving,
          lost, proxyUp, requests, replies, tasks, results, worker, op, main>>

proxyVars == <<available_workers, connected_ops, result_cache, expected_num_results,
               receiving, lost, proxyUp>>

Init ==
  /\ available_workers = <<>>
  /\ connected_ops = {}
  /\ result_cache = [o \in Ops |-> <<>>]
  /\ expected_num_results = [o \in Ops |-> 0]
  /\ receiving = FALSE
  /\ lost = {}
  /\ proxyUp = TRUE
  /\ requests = [o \in Ops |-> <<>>]
  /\ replies = [o \in Ops |-> <<>>]
  /\ tasks = [w \in Workers |-> <<>>]
  /\ results = [w \in Workers |-> <<>>]
  /\ worker = [w \in Workers |-> "off"]
  /\ op = [o \in Ops |-> [state |-> "idle", version |-> 0, left |-> 0]]
  /\ main = [doing |-> "record", steps |-> 0]

----------------------------------------------------------------------------
(* TrainingManager and the trainers' train_step_as_task.                     *)

\* TrainingManager.train_step: all trainers start their tasks.
TrainStep ==
  /\ main.doing = "record"
  /\ main.steps < MaxSteps
  /\ main' = [main EXCEPT !.doing = "train"]
  /\ \E n \in [Ops -> 1 .. CallsPerStep] : op' = [o \in Ops |-> [op[o] EXCEPT !.left = n[o]]]
  /\ UNCHANGED <<proxyVars, requests, replies, tasks, results, worker>>

\* RemoteOps.remote_call: the state of the op is taken now and sent along.
RemoteCall(o) ==
  /\ main.doing = "train"
  /\ op[o].state = "idle" /\ op[o].left > 0
  /\ requests' = [requests EXCEPT ![o] = Append(@, [type |-> "request",
                                                    version |-> op[o].version])]
  /\ op' = [op EXCEPT ![o].state = "waiting"]
  /\ UNCHANGED <<proxyVars, replies, tasks, results, worker, main>>

\* AsyncClient.get_response, then the trainer's update_with_grad.
GetResponse(o) ==
  /\ op[o].state = "waiting"
  /\ replies[o] # <<>>
  /\ replies' = [replies EXCEPT ![o] = Tail(@)]
  /\ op' = [op EXCEPT ![o] = [state |-> "idle", version |-> @.version + 1,
                              left |-> @.left - 1]]
  /\ UNCHANGED <<proxyVars, requests, tasks, results, worker, main>>

\* asyncio.gather of all trainers' tasks returns.
StepDone ==
  /\ main.doing = "train"
  /\ \A o \in Ops : op[o].state = "idle" /\ op[o].left = 0
  /\ main' = [doing |-> "record", steps |-> main.steps + 1]
  /\ UNCHANGED <<proxyVars, requests, replies, tasks, results, worker, op>>

\* TrainingManager.exit after the last step: every client sends EXIT.  Their
\* sockets have LINGER 0 and the process ends, so some may never arrive.
Exit ==
  /\ main.doing = "record"
  /\ main.steps = MaxSteps
  /\ main' = [main EXCEPT !.doing = "over"]
  /\ \E sent \in SUBSET Ops :
       requests' = [o \in Ops |-> IF o \in sent THEN Append(requests[o], EXIT)
                                  ELSE requests[o]]
  /\ op' = [o \in Ops |-> [op[o] EXCEPT !.state = "exited"]]
  /\ UNCHANGED <<proxyVars, replies, tasks, results, worker>>

----------------------------------------------------------------------------
(* TrainingProxy.                                                            *)

\* How many workers take part: as many as desired, or all that are free.
NumChosen(o) == IF Parallelism[o] < Len(available_workers) THEN Parallelism[o]
                ELSE Len(available_workers)

\* The deque after the first k workers were popped.
Remaining(k) == SubSeq(available_workers, k + 1, Len(available_workers))

\* How many results the request of op o, sent to k workers, waits for.
ExpectedResultsDesired(o, k) == Parallelism[o]
ExpectedResults(o, k) == k

\* TransitionBatch.split: part i of k of the batch.  No part may be empty, so a
\* batch of fewer than k transitions fails an assertion.
SubBatch(o, version, i, k) ==
  [type |-> "task", op |-> o, version |-> version, part |-> i, of |-> k]

\* stop_on_recv when the last free worker was taken.
StillReceiving(left) == left # <<>>

Splits(o, k) == \E n \in BatchSizes[o] : n >= k
FailsToSplit(o, k) == \E n \in BatchSizes[o] : n < k

\* _route_request_to_compute_node: a request.
RouteRequest(o) ==
  LET k == NumChosen(o)
      chosen == SubSeq(available_workers, 1, k)
      left == Remaining(k)
      req == Head(requests[o])
  IN
  /\ proxyUp /\ receiving
  /\ requests[o] # <<>> /\ req.type = "request" /\ Splits(o, k)
  /\ requests' = [requests EXCEPT ![o] = Tail(@)]
  /\ connected_ops' = connected_ops \cup {o}
  /\ available_workers' = left
  /\ expected_num_results' = [expected_num_results EXCEPT ![o] = ExpectedResults(o, k)]
  /\ tasks' = [w \in Workers |->
                 IF w \in ToSet(chosen)
                 THEN Append(tasks[w], SubBatch(o, req.version,
                                                CHOOSE i \in 1 .. k : chosen[i] = w, k))
                 ELSE tasks[w]]
  /\ receiving' = StillReceiving(left)
  /\ UNCHANGED <<result_cache, lost, proxyUp, replies, results, worker, op, main>>

\* _route_request_to_compute_node: a request whose batch is smaller than the
\* workers that were popped for it.  The handler raises before anything is sent
\* and before it may be switched off; the event loop logs that and goes on.
RouteFails(o) ==
  LET k == NumChosen(o)
  IN
  /\ proxyUp /\ receiving
  /\ requests[o] # <<>> /\ Head(requests[o]).type = "request" /\ FailsToSplit(o, k)
  /\ requests' = [requests EXCEPT ![o] = Tail(@)]
  /\ connected_ops' = connected_ops \cup {o}
  /\ available_workers' = Remaining(k)
  /\ lost' = lost \cup ToSet(SubSeq(available_workers, 1, k))
  /\ expected_num_results' = [expected_num_results EXCEPT ![o] = k]
  /\ UNCHANGED <<result_cache, receiving, proxyUp, replies, tasks, results, worker, op, main>>

\* _route_request_to_compute_node: EXIT.  The last op to leave has the free
\* workers told.
RouteExit(o) ==
  /\ proxyUp /\ receiving
  /\ requests[o] # <<>> /\ Head(requests[o]) = EXIT
  /\ requests' = [requests EXCEPT ![o] = Tail(@)]
  /\ connected_ops' = connected_ops \ {o}
  /\ tasks' = [w \in Workers |->
                 IF connected_ops = {o} /\ w \in ToSet(available_workers)
                 THEN Append(tasks[w], EXIT) ELSE tasks[w]]
  /\ UNCHANGED <<available_workers, result_cache, expected_num_results, receiving, lost, proxyUp,
                 replies, results, worker, op, main>>

\* _send_result_to_requester ends with the worker free and the front end on.
Freed(w) ==
  /\ available_workers' = Append(available_workers, w)
  /\ receiving' = TRUE

\* Results of earlier requests are dropped when a request is answered.
ClearedCacheNot(seq) == seq
ClearedCache(seq) == <<>>

\* _send_result_to_requester: READY.
WorkerReady(w) ==
  /\ proxyUp
  /\ results[w] # <<>> /\ Head(results[w]) = READY
  /\ results' = [results EXCEPT ![w] = Tail(@)]
  /\ Freed(w)
  /\ UNCHANGED <<connected_ops, result_cache, expected_num_results, lost, proxyUp, requests,
                 replies, tasks, worker, op, main>>

\* _send_result_to_requester: a result; the last one expected is averaged
\* with the others and sent to the op.
SendResultToRequester(w) ==
  LET res == Head(results[w])
      cached == Append(result_cache[res.op], res)
      complete == Len(cached) = expected_num_results[res.op]
  IN
  /\ proxyUp
  /\ results[w] # <<>> /\ res.type = "task"
  /\ results' = [results EXCEPT ![w] = Tail(@)]
  /\ result_cache' = [result_cache EXCEPT
                        ![res.op] = IF complete THEN ClearedCache(cached) ELSE cached]
  /\ replies' = IF complete THEN [replies EXCEPT ![res.op] = Append(@, cached)] ELSE replies
  /\ Freed(w)
  /\ UNCHANGED <<connected_ops, expected_num_results, lost, proxyUp, requests, tasks, worker, op,
                 main>>

\* _send_result_to_requester: the first EXIT_ACK stops the event loop.
ProxyStops(w) ==
  /\ proxyUp
  /\ results[w] # <<>> /\ Head(results[w]) = EXIT_ACK
  /\ results' = [results EXCEPT ![w] = Tail(@)]
  /\ proxyUp' = FALSE
  /\ UNCHANGED <<available_workers, connected_ops, result_cache, expected_num_results,
                 receiving, lost, requests, replies, tasks, worker, op, main>>

----------------------------------------------------------------------------
(* TrainOpsWorker.                                                           *)

\* AbsWorker.__init__, whenever the process gets started.
WorkerStarts(w) ==
  /\ worker[w] = "off"
  /\ worker' = [worker EXCEPT ![w] = "up"]
  /\ results' = [results EXCEPT ![w] = Append(@, READY)]
  /\ UNCHANGED <<proxyVars, requests, replies, tasks, op, main>>

\* _compute: the state of the request is set, then the function is called.
Compute(w) ==
  /\ worker[w] = "up"
  /\ tasks[w] # <<>> /\ Head(tasks[w]) # EXIT
  /\ tasks' = [tasks EXCEPT ![w] = Tail(@)]
  /\ results' = [results EXCEPT ![w] = Append(@, Head(tasks[w]))]
  /\ UNCHANGED <<proxyVars, requests, replies, worker, op, main>>

\* _compute: EXIT.
WorkerStops(w) ==
  /\ worker[w] = "up"
  /\ tasks[w] # <<>> /\ Head(tasks[w]) = EXIT
  /\ tasks' = [tasks EXCEPT ![w] = Tail(@)]
  /\ results' = [results EXCEPT ![w] = Append(@, EXIT_ACK)]
  /\ worker' = [worker EXCEPT ![w] = "stopped"]
  /\ UNCHANGED <<proxyVars, requests, replies, op, main>>

Next ==
  \/ TrainStep
  \/ StepDone
  \/ Exit
  \/ \E o \in Ops : RemoteCall(o) \/ GetResponse(o)
                    \/ RouteRequest(o) \/ RouteFails(o) \/ RouteExit(o)
  \/ \E w \in Workers : \/ WorkerReady(w) \/ SendResultToRequester(w) \/ ProxyStops(w)
                        \/ WorkerStarts(w) \/ Compute(w) \/ WorkerStops(w)

(***************************************************************************)
(* Processes that were started keep running, and the proxy's front end,     *)
(* which is switched on and off all the time, takes turns among its clients *)
(* (a ROUTER socket reads its peers in turn).                               *)
(***************************************************************************)
Fairness ==
  /\ WF_vars(TrainStep) /\ WF_vars(StepDone) /\ WF_vars(Exit)
  /\ \A o \in Ops : WF_vars(RemoteCall(o)) /\ WF_vars(GetResponse(o))
                    /\ SF_vars(RouteRequest(o) \/ RouteFails(o))
  /\ \A w \in Workers : /\ WF_vars(WorkerReady(w)) /\ WF_vars(SendResultToRequester(w))
                        /\ WF_vars(WorkerStarts(w)) /\ WF_vars(Compute(w))

Spec == Init /\ [][Next]_vars /\ Fairness

----------------------------------------------------------------------------
(***************************************************************************)
(* A worker has one task at a time: it is free (in the deque, once), has a  *)
(* task, or has sent a result the proxy has not seen, and never two of      *)
(* these.  Only a worker that is being told to exit is also in the deque,   *)
(* and only one popped for a batch that could not be split is nowhere.      *)
(***************************************************************************)
FreeAt(w) == {i \in DOMAIN available_workers : available_workers[i] = w}
TaskAt(w) == {i \in DOMAIN tasks[w] : tasks[w][i] # EXIT}
ResultAt(w) == {i \in DOMAIN results[w] : results[w][i] # EXIT_ACK}

OneTaskAtATime ==
  \A w \in Workers :
    Cardinality(FreeAt(w)) + Cardinality(TaskAt(w)) + Cardinality(ResultAt(w))
      = IF worker[w] = "off" \/ w \in lost THEN 0 ELSE 1

(***************************************************************************)
(* The gradient an op is answered with is the average over its own current  *)
(* request: every part of the batch is in it once, no part of another       *)
(* request is, and all were computed from the version the op still has; and *)
(* no worker ever works on two parts.                                       *)
(***************************************************************************)
GradientFitsRequest ==
  OneTaskAtATime /\ \A o \in Ops : \A n \in DOMAIN replies[o] :
    LET parts == replies[o][n]
        k == Len(parts)
    IN /\ op[o].state = "waiting" /\ Len(replies[o]) = 1
       /\ ToSet(parts) = {SubBatch(o, op[o].version, i, k) : i \in 1 .. k}

(***************************************************************************)
(* Unless a batch is too small to be split, every training step gets all    *)
(* its gradients, whatever the order in which workers start, requests are   *)
(* read and results arrive, so the main process comes to its end.  That the *)
(* proxy and the workers stop is not said: an EXIT may be lost.             *)
(***************************************************************************)
TrainingEnds == [](lost = {}) => <>(main.doing = "over")
=============================================================================
