----------------------------- MODULE VectorEnv ------------------------------
(***************************************************************************)
(* Vectorised environments (maro/vector_env): a main process that drives   *)
(* BatchNum environment processes, each over a pipe of its own.  A command *)
(* goes to all of them, or to those a dictionary of actions names, and the *)
(* answers are read pipe by pipe in index order.                           *)
(*                                                                         *)
(* An environment is how many steps it has made; it is done after          *)
(* Durations[i] of them.  An answer is [env, cmd, steps, is_done].         *)
(***************************************************************************)
EXTENDS Naturals, Sequences, FiniteSets

CONSTANTS
  BatchNum,     \* batch_num
  Durations,    \* index -> steps until the environment is done
  MaxCommands,  \* bound: commands of the main process
  MaxFailures   \* bound: environments that die in a step

ASSUME VectorAssumption == BatchNum \in Nat \ {0} /\ Durations \in [1..BatchNum -> Nat \ {0}]

VARIABLES
  env,       \* index -> [up, steps, is_done]: the environment process
  down,      \* index -> commands in the pipe to the process
  up,        \* index -> answers in the pipe from it
  vec,       \* the main process: the environments it asked (sent), those it has
             \* still to hear of (pipes), and what it has read (responses)
  last,      \* what the last call of step returned
  commands   \* commands so far

vectorVars == <<env, down, up, vec, last, commands>>

Envs == 1..BatchNum
Free == [state |-> "idle"]

(* _send: the command into the pipes of the environments in S, whose       *)
(* answers are then read in index order.                                   *)
_send_cmd(cmd, S, then) ==
  /\ down' = [i \in Envs |-> IF i \in S THEN Append(down[i], cmd) ELSE down[i]]
  /\ vec' = [state |-> "waiting", cmd |-> cmd, pipes |-> S, sent |-> S,
             responses |-> <<>>, step |-> then]

(* step with one action, a list of actions (every environment) or a        *)
(* dictionary (the environments it names).                                 *)
step ==
  /\ vec = Free
  /\ commands < MaxCommands
  /\ commands' = commands + 1
  /\ \E S \in SUBSET Envs : _send_cmd("step", S, <<>>)
  /\ UNCHANGED <<env, up, last>>

(* tick, frame_index and a query of the snapshot list.                     *)
query ==
  /\ vec = Free
  /\ commands < MaxCommands
  /\ commands' = commands + 1
  /\ \E cmd \in {"tick", "frame_index", "query"} : _send_cmd(cmd, Envs, <<>>)
  /\ UNCHANGED <<env, up, last>>

(* Mutant: reset does not wait for the answers.                            *)
resetEager ==
  /\ vec = Free
  /\ commands < MaxCommands
  /\ commands' = commands + 1
  /\ down' = [i \in Envs |-> Append(down[i], "reset")]
  /\ last' = <<>>
  /\ UNCHANGED <<env, up, vec>>

reset ==
  /\ vec = Free
  /\ commands < MaxCommands
  /\ commands' = commands + 1
  /\ _send_cmd("reset", Envs, <<>>)
  /\ last' = <<>>
  /\ UNCHANGED <<env, up>>

(* Reading the next answer; a process that died never gives one, and the   *)
(* read does not fail because this process holds the other end open, too.  *)
recv ==
  /\ vec.state = "waiting"
  /\ \E i \in vec.pipes :
       /\ \A j \in vec.pipes : i <= j
       /\ up[i] /= <<>>
       /\ up' = [up EXCEPT ![i] = Tail(@)]
       /\ vec' = [vec EXCEPT !.pipes = @ \ {i}, !.responses = Append(@, Head(up[i]))]
  /\ UNCHANGED <<env, down, last, commands>>

(* All answers are in.  step asks every environment whether it is done     *)
(* before it returns; the other calls return.                              *)
respond ==
  /\ vec.state = "waiting"
  /\ vec.pipes = {}
  /\ CASE vec.cmd = "step" ->
            /\ _send_cmd("is_done", Envs, <<vec.sent, vec.responses>>)
            /\ UNCHANGED last
       [] vec.cmd = "is_done" ->
            /\ last' = <<[sent |-> vec.step[1], events |-> vec.step[2],
                          is_done |-> \A k \in DOMAIN vec.responses : vec.responses[k].is_done]>>
            /\ vec' = Free
            /\ UNCHANGED down
       [] OTHER -> vec' = Free /\ UNCHANGED <<down, last>>
  /\ UNCHANGED <<env, up, commands>>

(* stop: the command to every process without waiting for an answer; then  *)
(* the processes are joined and the pipes closed.                          *)
stop ==
  /\ vec = Free
  /\ vec' = [state |-> "stopping"]
  /\ down' = [i \in Envs |-> Append(down[i], "stop")]
  /\ UNCHANGED <<env, up, last, commands>>

join ==
  /\ vec.state = "stopping"
  /\ \A i \in Envs : ~env[i].up
  /\ vec' = [state |-> "stopped"]
  /\ down' = [i \in Envs |-> <<>>]
  /\ up' = [i \in Envs |-> <<>>]
  /\ UNCHANGED <<env, last, commands>>

-----------------------------------------------------------------------------
(* EnvProcess.run: one command.  A finished environment skips the step,    *)
(* and a reset starts it anew.                                             *)
run(i) ==
  /\ env[i].up
  /\ down[i] /= <<>>
  /\ LET cmd == Head(down[i])
         moved == CASE cmd = "step" /\ ~env[i].is_done ->
                         [env[i] EXCEPT !.steps = @ + 1, !.is_done = env[i].steps + 1 >= Durations[i]]
                    [] cmd = "reset" -> [env[i] EXCEPT !.steps = 0, !.is_done = FALSE]
                    [] cmd = "stop" -> [env[i] EXCEPT !.up = FALSE]
                    [] OTHER -> env[i]
     IN  /\ env' = [env EXCEPT ![i] = moved]
         /\ up' = [up EXCEPT ![i] = Append(@, [env |-> i, cmd |-> cmd, steps |-> moved.steps,
                                               is_done |-> moved.is_done])]
  /\ down' = [down EXCEPT ![i] = Tail(@)]
  /\ UNCHANGED <<vec, last, commands>>

(* Env.step raises and the process ends without an answer.                 *)
fail(i) ==
  /\ env[i].up
  /\ down[i] /= <<>> /\ Head(down[i]) = "step" /\ ~env[i].is_done
  /\ Cardinality({j \in Envs : ~env[j].up}) < MaxFailures
  /\ env' = [env EXCEPT ![i].up = FALSE]
  /\ down' = [down EXCEPT ![i] = <<>>]
  /\ UNCHANGED <<up, vec, last, commands>>

_start_environments ==
  /\ env = [i \in Envs |-> [up |-> TRUE, steps |-> 0, is_done |-> FALSE]]
  /\ down = [i \in Envs |-> <<>>]
  /\ up = [i \in Envs |-> <<>>]
  /\ vec = Free
  /\ last = <<>>
  /\ commands = 0

VectorNext ==
  \/ step \/ query \/ reset \/ recv \/ respond \/ stop \/ join
  \/ \E i \in Envs : run(i) \/ fail(i)

-----------------------------------------------------------------------------
(* When step has returned and nothing else was asked since, its answers    *)
(* are those of the environments it addressed, in index order, each the    *)
(* state that environment is in; and is_done says whether all of them,     *)
(* addressed or not, are done.                                             *)
AnswersFitEnvironments ==
  (vec = Free /\ last /= <<>>) =>
    LET r == last[1]
    IN  /\ {r.events[k].env : k \in DOMAIN r.events} = r.sent
        /\ \A k, l \in DOMAIN r.events : k < l => r.events[k].env < r.events[l].env
        /\ \A k \in DOMAIN r.events :
             r.events[k].cmd = "step" /\ r.events[k].steps = env[r.events[k].env].steps
        /\ r.is_done <=> \A i \in Envs : env[i].is_done
=============================================================================
