------------------------------ MODULE Trainers ------------------------------
(***************************************************************************)
(* The training manager and its trainers in one process (train mode        *)
(* "simple"): rl/training/training_manager.py, trainer.py and the          *)
(* train_step of every algorithm under rl/training/algorithms.             *)
(*                                                                         *)
(* A network is the number of updates applied to it.  A transition is      *)
(* what tells its neighbours apart: agent, decision, next state,  *)
(* flags, the version of the policy that acted and the version that its    *)
(* old log-probabilities were computed with.                               *)
(***************************************************************************)
EXTENDS Integers, Sequences, FiniteSets, SequencesExt, Functions

CONSTANTS Trainer,             \* names of the trainers
          agent2trainer,       \* [trained agents -> Trainer]
          GradIters,           \* grad_iters and num_epochs
          UpdateTargetEvery,
          NStartTrain,         \* n_start_train of DDPG and SAC
          BatchCapacity        \* replay_memory_capacity

VARIABLES AlgorithmOf,  \* [Trainer -> algorithm]
          nets,     \* [Trainer -> its networks and version counters]
          memory,   \* [Trainer -> transitions put since the last FIFO sample]
          n_sample  \* [Trainer -> transitions in its replay memory]

trainer_vars == << nets, memory, n_sample >>

OnPolicyAlgorithms == {"ac", "ppo", "ppo_entropy"}
Algorithms == OnPolicyAlgorithms \cup {"dqn", "ddpg", "sac", "maddpg"}

(* build: the ops with fresh networks, and an empty replay memory. *)
FreshNets == [actor |-> 0, critic |-> 0, old |-> 0, target |-> 0,
              version |-> 0, target_version |-> 0]

build ==
  /\ nets = [t \in Trainer |-> FreshNets]
  /\ memory = [t \in Trainer |-> {}]
  /\ n_sample = [t \in Trainer |-> 0]

AgentsOf(t) == { a \in DOMAIN agent2trainer : agent2trainer[a] = t }

(* split_contents_by_trainer: the agents of an element that trainer t sees. *)
OwnAgents(t, e) == e.agents \cap AgentsOf(t)

(* The transition of one agent in an element. *)
Transition(e, a, logps) ==
  [agent |-> a, id |-> e.id,
   next |-> IF a \in DOMAIN e.next THEN e.next[a] ELSE e.id,
   terminal |-> e.terminal[a], truncated |-> e.truncated,
   version |-> e.version[agent2trainer[a]], logps |-> logps]

(* The policy whose log-probabilities preprocess_batch stores. *)
LogpVersion(t) == IF AlgorithmOf[t] = "ppo_entropy" THEN nets[t].old ELSE nets[t].actor

(* DiscreteMADDPGTrainer.record_multiple takes elements of all its agents
   with one terminal flag, and raises for others. *)
JointElement(t, e) ==
  /\ OwnAgents(t, e) = AgentsOf(t)
  /\ Cardinality({ e.terminal[a] : a \in AgentsOf(t) }) = 1

RecordRaises(t, elements) ==
  /\ AlgorithmOf[t] = "maddpg"
  /\ \E i \in 1..Len(elements) : OwnAgents(t, elements[i]) # {} /\ ~JointElement(t, elements[i])

(* record_multiple: the transitions that come of a list of elements, as the
   place of the element and the agent.  One for each agent; for MADDPG one
   for all, under the name of one of them. *)
Recorded(t, elements) ==
  LET own(i) == OwnAgents(t, elements[i])
      places == { i \in 1..Len(elements) : own(i) # {} }
  IN  IF AlgorithmOf[t] = "maddpg"
      THEN { << i, CHOOSE a \in own(i) : TRUE >> : i \in places }
      ELSE { p \in places \X AgentsOf(t) : p[2] \in own(p[1]) }

(* record_experiences: each list of elements (one per sampling) is split by
   trainer and recorded trainer by trainer. *)
record_experiences(lists) ==
  LET Put(t, k) == { Transition(lists[k][p[1]], p[2], LogpVersion(t)) : p \in Recorded(t, lists[k]) }
      Added(t) == FoldLeft(LAMBDA n, elements : n + Cardinality(Recorded(t, elements)), 0, lists)
  IN  /\ memory' = [t \in Trainer |->
                      IF AlgorithmOf[t] \in OnPolicyAlgorithms
                      THEN memory[t] \cup UNION { Put(t, k) : k \in 1..Len(lists) } ELSE {}]
      /\ n_sample' = [t \in Trainer |->
                        IF n_sample[t] + Added(t) > BatchCapacity THEN BatchCapacity
                        ELSE n_sample[t] + Added(t)]
      /\ UNCHANGED nets

(* _try_soft_update_target.  The target follows the policy; for SAC the
   critics, which are updated as often. *)
SoftUpdated(n) ==
  IF n.version + 1 - n.target_version = UpdateTargetEvery
  THEN [n EXCEPT !.version = @ + 1, !.target_version = n.version + 1, !.target = n.actor]
  ELSE [n EXCEPT !.version = @ + 1]

(* The ops: gradient steps on a batch.  What a loss computes is left to the
   network libraries; a step counts as one update of its network. *)
ac_update_critic(n, steps) == [n EXCEPT !.critic = @ + steps]
ac_update_actor(n, steps) == [n EXCEPT !.actor = @ + steps]
ppo_update_critic(n, steps) == [n EXCEPT !.critic = @ + steps]
ppo_update_actor(n, steps) == [n EXCEPT !.actor = @ + steps]
dqn_update(n, steps) == [n EXCEPT !.actor = @ + steps]
ddpg_update_critic(n) == [n EXCEPT !.critic = @ + 1]
ddpg_update_actor(n) == [n EXCEPT !.actor = @ + 1]
sac_update_critic(n) == [n EXCEPT !.critic = @ + 1]
sac_update_actor(n) == [n EXCEPT !.actor = @ + 1]
maddpg_update_critic(n) == [n EXCEPT !.critic = @ + 1]
maddpg_update_actor(n) == [n EXCEPT !.actor = @ + 1]

Times(k, Op(_), n) == FoldLeft(LAMBDA m, i : Op(m), n, [i \in 1..k |-> i])

(* The train_step of each algorithm.  In ACBasedTrainer what update_actor
   returns, a pair, counts as an early stop: the actor is updated once. *)
train_ac(n) == ac_update_critic(ac_update_actor(n, 1), GradIters)
train_ppo_entropy(n) ==
  LET m == ppo_update_actor(ppo_update_critic(n, GradIters), GradIters)
  IN  [m EXCEPT !.old = m.actor]
train_dqn(n) == SoftUpdated(dqn_update(n, GradIters))
train_ddpg(n) ==
  Times(GradIters, LAMBDA k : SoftUpdated(ddpg_update_actor(ddpg_update_critic(k))), n)
train_sac(n) ==
  Times(GradIters, LAMBDA k : SoftUpdated(sac_update_actor(sac_update_critic(k))), n)
train_maddpg(n) ==
  Times(GradIters, LAMBDA k : SoftUpdated(maddpg_update_actor(maddpg_update_critic(k))), n)

Trained(t) ==
  LET n == nets[t]
  IN  CASE AlgorithmOf[t] \in {"ac", "ppo"} -> train_ac(n)
        [] AlgorithmOf[t] = "ppo_entropy" -> train_ppo_entropy(n)
        [] AlgorithmOf[t] = "dqn" -> train_dqn(n)
        [] AlgorithmOf[t] = "ddpg" -> IF n_sample[t] < NStartTrain THEN n ELSE train_ddpg(n)
        [] AlgorithmOf[t] = "sac" -> IF n_sample[t] < NStartTrain THEN n ELSE train_sac(n)
        [] OTHER -> train_maddpg(n)

(* train_step of the manager: every trainer in turn; the FIFO memories give
   out what was put since the last time. *)
train_step ==
  /\ nets' = [t \in Trainer |-> Trained(t)]
  /\ memory' = [t \in Trainer |-> {}]
  /\ UNCHANGED n_sample

(* get_state of the ops: what a checkpoint keeps besides the policy.  It is
   neither the version counters, nor the replay memory, nor the policy_old of
   PPO with entropy. *)
ac_non_policy(n) == [critic |-> n.critic]
dqn_non_policy(n) == [target |-> n.target]
ddpg_non_policy(n) == [critic |-> n.critic, target |-> n.target]
sac_non_policy(n) == [critic |-> n.critic, target |-> n.target]
maddpg_non_policy(n) == [critic |-> n.critic]

NonPolicyState(t, n) ==
  CASE AlgorithmOf[t] \in OnPolicyAlgorithms -> ac_non_policy(n)
    [] AlgorithmOf[t] = "dqn" -> dqn_non_policy(n)
    [] AlgorithmOf[t] = "ddpg" -> ddpg_non_policy(n)
    [] AlgorithmOf[t] = "sac" -> sac_non_policy(n)
    [] OTHER -> maddpg_non_policy(n)
PolicyState(n) == [actor |-> n.actor]

(* set_state of fresh ops; load of the multi-agent trainer merges a pair as a
   dictionary and raises. *)
LoadedNets(policy, rest) ==
  LET Kept(net) == IF net \in DOMAIN rest THEN rest[net] ELSE FreshNets[net]
  IN  [FreshNets EXCEPT !.actor = policy.actor, !.critic = Kept("critic"), !.target = Kept("target")]
LoadRaises(t) == AlgorithmOf[t] = "maddpg"
=============================================================================
