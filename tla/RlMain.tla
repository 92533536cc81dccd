------------------------------- MODULE RlMain -------------------------------
(***************************************************************************)
(* An RL job: the configuration decides whether the main process samples   *)
(* by itself (RlWorkflow) or through rollout workers (BatchEnvSampler).    *)
(* The replay memory of an off-policy trainer, of which the job needs only *)
(* how much is in it, runs by itself (ReplayMemory).                       *)
(***************************************************************************)
EXTENDS RlWorkflow, BatchEnvSampler, ReplayMemory

all_vars == << vars, rollout_vars, memoryVars >>

NoRollout ==
  /\ todo = << >> /\ stage = "exited" /\ known = << >> /\ results = {} /\ round = 0
  /\ worker = << >> /\ loaded = {} /\ tasks = << >> /\ replies = << >>

NoWorkflow ==
  /\ config = rconfig /\ num_steps = rconfig.num_steps
  /\ delay = Unset /\ max_length = Unset /\ max_tick = 0 /\ askable = {}
  /\ AlgorithmOf = << >>
  /\ InitSampler /\ build
  /\ at = "elsewhere" /\ ep = 0 /\ eval_point_index = 1
  /\ total = << >> /\ collected = 0
  /\ best = NoMetric /\ best_ep = -1 /\ early_stop = FALSE
  /\ metrics = [full |-> {}, valid |-> {}]
  /\ disk = << >> /\ crashes = 0 /\ trained = << >>

NoMemory ==
  /\ kind = "none" /\ slots = << >> /\ weighted = {} /\ ptr = 0 /\ size = 0 /\ head = 0 /\ tail = 0
  /\ items = 0 /\ handedOut = 0 /\ putWhenFull = FALSE /\ batch = << >>

(* _get_env_sampler *)
MainInit ==
  \/ Init /\ rconfig = config /\ NoRollout /\ NoMemory
  \/ InitRollout /\ NoWorkflow /\ NoMemory
  \/ rconfig = (CHOOSE c \in RolloutConfigs : TRUE) /\ NoWorkflow /\ NoRollout /\ MemoryInit

MainNext ==
  \/ at # "elsewhere" /\ Next /\ UNCHANGED << rollout_vars, memoryVars >>
  \/ RolloutNext /\ UNCHANGED << vars, memoryVars >>
  \/ kind # "none" /\ MemoryNext /\ UNCHANGED << vars, rollout_vars >>

(* Every process that has something to do does it: the rollout, and the
   workflow, which always has a next step until it is over. *)
Over == at \in {"done", "raised", "elsewhere"}

MainSpec ==
  /\ MainInit /\ [][MainNext]_all_vars
  /\ WF_all_vars(RolloutNext /\ UNCHANGED << vars, memoryVars >>)
  /\ []<>Over \/ []<><<~Over>>_vars

(* An RL job comes to an end.  In one process, sampling collects enough and
   every episode is trained, unless rewards wait for later ticks or an episode
   may be cut short without a number of steps (then sampling can return
   nothing for ever).  With rollout workers, evaluation comes to its end: each
   known worker has answered all it was asked, and it stops unless the EXIT for
   it was dropped (then it waits for a message that never comes). *)
JobEnds ==
  /\ delay = Unset /\ (num_steps # Unset \/ max_length = Unset) =>
       <>Over
  /\ Parallelism(rconfig).sampling >= Parallelism(rconfig).eval =>
       <>(\/ stage = "raised"
          \/ /\ stage = "exited"
             /\ \A w \in ToSet(known) : worker[w] = "stopped" \/ tasks[w] \o replies[w] = << >>)

----------------------------------------------------------------------------
(***************************************************************************)
(* For TLC: two agents with a trainer each, in five configurations that    *)
(* differ in the number of episodes, of samples and of steps per sampling, *)
(* evaluation, early stopping and algorithms, and one that the parser      *)
(* rejects; and one to three environments to sample from, with and without *)
(* a parallelism of evaluation.                                            *)
(***************************************************************************)
MCAgents == {"a", "b"}
MCTrainer == {"x", "y"}
MCAgent2Trainer == ("a" :> "x") @@ ("b" :> "y")

MCConfig(episodes, samples, steps, schedule, patience) ==
  [num_episodes |-> episodes, num_steps |-> steps, min_n_sample |-> samples,
   eval_schedule |-> schedule, early_stop_patience |-> patience,
   sampling |-> Unset, eval |-> Unset, min_env_samples |-> Unset,
   mode |-> "simple", num_workers |-> Unset]

MCSetup(c, d, l, x, y) ==
  [config |-> c, delay |-> d, max_length |-> l, max_tick |-> IF d # Unset /\ l = Unset THEN 2 ELSE 1,
   askable |-> IF d # Unset /\ l = Unset THEN {{"a"}} ELSE {{"a", "b"}, {"a"}},
   algorithms |-> ("x" :> x) @@ ("y" :> y)]

MCSetups ==
  { MCSetup(MCConfig(2, 1, Unset, NoSchedule, Unset), Unset, Unset, "ac", "dqn"),
    MCSetup(MCConfig(2, 1, 2, Every(1), 1), Unset, 2, "ppo_entropy", "ddpg"),
    MCSetup(MCConfig(1, 2, 2, NoSchedule, Unset), 1, Unset, "ppo", "sac"),
    MCSetup(MCConfig(2, 1, Unset, AtEpisodes(<< 1 >>), Unset), Unset, Unset, "ac", "maddpg"),
    MCSetup(MCConfig(2, 1, Unset, NoSchedule, Unset), 1, 2, "ac", "dqn"),
    MCSetup(MCConfig(2, 1, 0, NoSchedule, Unset), 1, 2, "ac", "dqn") }

MCRolloutConfigs ==
  { [MCConfig(1, 1, Unset, NoSchedule, Unset) EXCEPT !.sampling = s, !.eval = e] :
      s \in 1..3, e \in {Unset, 2} }

MCEvaluateOnly ==
  { << "set_policy_state", "eval", "post_evaluate" >>, << "eval", "post_evaluate" >> }
=============================================================================
