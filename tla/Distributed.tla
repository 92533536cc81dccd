---------------------------- MODULE Distributed -----------------------------
(***************************************************************************)
(* The parts of MARO that talk to other processes, side by side: the       *)
(* training proxy and its workers (maro/rl/training), the communication    *)
(* proxy with its driver (maro/communication), the conditional events of a *)
(* component that receives through such a proxy, and vectorised            *)
(* environments (maro/vector_env).  They share no state: in a behaviour    *)
(* one of them runs.                                                       *)
(***************************************************************************)
EXTENDS TrainingProxy, Proxy, RegisterTable, VectorEnv

CONSTANTS
  Parts,       \* the parts to run
  Pushed,      \* messages a component may receive
  MaxPushed    \* bound: messages pushed into the register table

VARIABLE part

allVars == <<vars, commVars, tableVars, vectorVars, part>>

(* A component registers its handlers, then pushes what it receives.       *)
TableNext ==
  \/ Len(table) < Len(Events) /\ register_event_handler(Events[Len(table) + 1])
  \/ /\ Len(table) = Len(Events)
     /\ Len(pushed) < MaxPushed
     /\ \E m \in Pushed : push(m)
  \/ pushed /= <<>> /\ clear

DistributedInit ==
  /\ part \in Parts
  /\ Init /\ ProxyInit /\ TableInit /\ _start_environments

DistributedNext ==
  /\ UNCHANGED part
  /\ \/ part = "training" /\ Next /\ UNCHANGED <<commVars, tableVars, vectorVars>>
     \/ part = "proxy" /\ ProxyNext /\ UNCHANGED <<vars, tableVars, vectorVars>>
     \/ part = "table" /\ TableNext /\ UNCHANGED <<vars, commVars, vectorVars>>
     \/ part = "vector" /\ VectorNext /\ UNCHANGED <<vars, commVars, tableVars>>

(* The processes of the training job keep running (TrainingProxy.Fairness);*)
(* nothing is assumed of the other parts.                                  *)
DistributedSpec ==
  /\ DistributedInit
  /\ [][DistributedNext]_allVars
  /\ part = "training" => Fairness

(* The main process of a training job ends, as every step gets all its     *)
(* gradients, unless the proxy was sent a batch too small to be split.     *)
TrainingJobEnds == part = "training" => TrainingEnds

----------------------------------------------------------------------------
(***************************************************************************)
(* Training: two ops, one that wants one worker, and one that wants two,   *)
(* and whose batch may hold one transition only.                           *)
(* Proxy: two peers of one type, of which one suffices.  Register table: a *)
(* unit event, an AND, an OR whose alternatives overlap, and a percentage  *)
(* that rounds down.  Vectorised environments: two, of different length.   *)
(***************************************************************************)
CONSTANTS opA, opB, a, b

MCOps == {opA, opB}
MCParallelism == [o \in {opA, opB} |-> IF o = opA THEN 1 ELSE 2]
MCBatchSizes == [o \in {opA, opB} |-> IF o = opA THEN {1} ELSE {1, 2}]

MCPeers == {a, b}
MCTypeOf == [p \in {a, b} |-> "actor"]
MCExpected == [t \in {"actor"} |-> 2]
MCMinimal == [t \in {"actor"} |-> 1]

Slot(source, tag, n, pct) == [unit |-> <<source, tag, [n |-> n, pct |-> pct]>>]
MCEvents ==
  <<Slot("actor", "rollout", 2, FALSE),
    [op |-> "AND", nodes |-> <<Slot("actor", "rollout", 1, FALSE), Slot("*", "update", 80, TRUE)>>],
    [op |-> "OR", nodes |-> <<Slot("learner", "*", 1, FALSE), Slot("*", "update", 3, FALSE)>>]>>
MCPeersNumber == [t \in {"actor", "learner"} |-> IF t = "actor" THEN 2 ELSE 1]
MCPushed == {[type |-> t, tag |-> g] : t \in {"actor", "learner"}, g \in {"rollout", "update"}}

MCDurations == <<1, 2>>
=============================================================================
