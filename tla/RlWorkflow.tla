----------------------------- MODULE RlWorkflow -----------------------------
(***************************************************************************)
(* rl/workflows/main.py: the training workflow of one process, with its    *)
(* sampler (EnvSampler), its trainers (Trainers), its callbacks and its    *)
(* checkpoints.  In one process the sampler acts with the very policies    *)
(* the trainers update.  The process may crash anywhere; it is started     *)
(* again, from nothing or from a checkpoint.                               *)
(***************************************************************************)
EXTENDS EnvSampler, Trainers, FiniteSetsExt

CONSTANTS Setups,             \* configuration, delay, max_episode_length and algorithms
          CheckpointInterval,
          Metrics,            \* values of monitor_metrics
          MaxCrashes          \* bound

(* Every trainer has one of the algorithms, and an episode a last tick. *)
ASSUME SetupsAssumption ==
  \A s \in Setups : s.algorithms \in [Trainer -> Algorithms] /\ s.max_tick \in Nat

VARIABLES
  config,
  at,             \* where `run` is
  ep, eval_point_index,
  total,          \* total_experiences, without empty lists
  collected,      \* its length (n_sample of `run`)
  disk,           \* [episode -> [file -> the state saved in it]]
  best, best_ep, early_stop,   \* EarlyStopping and workflow.early_stop
  metrics,        \* MetricsRecorder: episodes in its two tables
  crashes,
  trained         \* history: [episode -> the networks after each of its train
                  \* steps, in this process and in those before]

workflow_vars == << at, ep, eval_point_index, total, collected, disk, best, best_ep, early_stop,
                    metrics, crashes, trained >>
setup == << config, sampler_config, AlgorithmOf >>
vars == << setup, sampler_vars, trainer_vars, workflow_vars >>

NoMetric == -1                       \* float("-inf")

(* A fresh process. *)
InitProcess ==
  /\ InitSampler
  /\ build
  /\ at = "start" /\ ep = 0 /\ eval_point_index = 1
  /\ total = << >> /\ collected = 0
  /\ best = NoMetric /\ best_ep = -1 /\ early_stop = FALSE
  /\ metrics = [full |-> {}, valid |-> {}]

Init ==
  /\ \E s \in Setups :
       /\ _validate(s.config) /\ is_single_thread(s.config)
       /\ config = s.config /\ num_steps = s.config.num_steps
       /\ delay = s.delay /\ max_length = s.max_length 
       /\ max_tick = s.max_tick /\ askable = s.askable
       /\ AlgorithmOf = s.algorithms
  /\ InitProcess
  /\ disk = << >>
  /\ crashes = 0
  /\ trained = << >>

(***************************************************************************)
(* Checkpoints: a directory per episode with two files per trainer.        *)
(***************************************************************************)
Files == Trainer \X {"policy", "non_policy"}

TrainerOrder == SetToSeq(Trainer)

Place(f) ==
  2 * (CHOOSE i \in 1..Len(TrainerOrder) : TrainerOrder[i] = f[1]) + IF f[2] = "policy" THEN 0 ELSE 1

(* One torch.save of trainer.save, of the given networks. *)
Content(f, n) ==
  IF f[2] = "policy" THEN PolicyState(n[f[1]]) ELSE NonPolicyState(f[1], n[f[1]])

Complete(e) == DOMAIN disk[e] = Files

get_latest_ep == CHOOSE e \in DOMAIN disk : \A f \in DOMAIN disk : f <= e

NetsIn(e, t) == LoadedNets(disk[e][<< t, "policy" >>], disk[e][<< t, "non_policy" >>])

(***************************************************************************)
(* run                                                                     *)
(***************************************************************************)
StartsNew ==
  /\ at = "start"
  /\ at' = "loop" /\ ep' = 1
  /\ UNCHANGED << sampler_vars, trainer_vars, eval_point_index, total, collected, disk, best, best_ep,
                  early_stop, metrics, crashes, trained >>

(* Mutant: a resumed run repeats the episode of its checkpoint. *)
LoadsAgain(e) ==
  /\ at = "start" /\ e \in DOMAIN disk
  /\ IF Complete(e) /\ ~\E t \in Trainer : LoadRaises(t)
     THEN /\ nets' = [t \in Trainer |-> NetsIn(e, t)]
          /\ at' = "loop" /\ ep' = e
     ELSE /\ at' = "raised"
          /\ UNCHANGED << nets, ep >>
  /\ UNCHANGED << sampler_vars, memory, n_sample, eval_point_index, total, collected, disk, best, best_ep,
                  early_stop, metrics, crashes, trained >>

(* load_policy_state and load: the latest checkpoint, or the one that
   load_episode names; a missing file raises. *)
Loads(e) ==
  /\ at = "start" /\ e \in DOMAIN disk
  /\ IF Complete(e) /\ ~\E t \in Trainer : LoadRaises(t)
     THEN /\ nets' = [t \in Trainer |-> NetsIn(e, t)]
          /\ at' = "loop" /\ ep' = e + 1
     ELSE /\ at' = "raised"
          /\ UNCHANGED << nets, ep >>
  /\ UNCHANGED << sampler_vars, memory, n_sample, eval_point_index, total, collected, disk, best, best_ep,
                  early_stop, metrics, crashes, trained >>

EpisodeStarts ==
  /\ at = "loop"
  /\ at' = IF ep > config.num_episodes \/ early_stop THEN "done" ELSE "collect"
  /\ total' = << >> /\ collected' = 0
  /\ UNCHANGED << sampler_vars, trainer_vars, ep, eval_point_index, disk, best, best_ep,
                  early_stop, metrics, crashes, trained >>

Versions == [t \in Trainer |-> nets[t].actor]

Collects ==
  /\ at = "collect"
  /\ \/ /\ phase = "idle" /\ collected < config.min_n_sample
        /\ SampleBegins
        /\ UNCHANGED << total, collected >>
     \/ (RoundBegins \/ SampleSteps(Versions) \/ RoundCollected) /\ UNCHANGED << total, collected >>
     \/ /\ phase = "outer" /\ SampleDone
        /\ phase' = "idle"
        /\ total' = IF experiences = << >> THEN total ELSE Append(total, experiences)
        /\ collected' = collected + Len(experiences)
        /\ experiences' = << >>
        /\ UNCHANGED << env, tick, asked, end_of_episode, cache, last_index, length, exploring,
                        steps_to_go, earlier, acted >>
  /\ UNCHANGED << trainer_vars, at, ep, eval_point_index, disk, best, best_ep, early_stop,
                  metrics, crashes, trained >>

Records ==
  /\ at = "collect" /\ phase = "idle" /\ collected >= config.min_n_sample
  /\ IF \E t \in Trainer, k \in 1..Len(total) : RecordRaises(t, total[k])
     THEN at' = "raised" /\ UNCHANGED trainer_vars
     ELSE at' = "train" /\ record_experiences(total)
  /\ UNCHANGED << sampler_vars, ep, eval_point_index, total, collected, disk, best, best_ep, early_stop,
                  metrics, crashes, trained >>

TrainedIn(e) == IF e \in DOMAIN trained THEN trained[e] ELSE {}

(* train_step, then MetricsRecorder's on_training_end and the directory of
   Checkpoint's. *)
Trains ==
  /\ at = "train"
  /\ train_step
  /\ trained' = Assigned(trained, {ep}, TrainedIn(ep) \cup {nets'})
  /\ metrics' = [metrics EXCEPT !.full = @ \cup {ep}]
  /\ IF ep % CheckpointInterval = 0
     THEN /\ at' = "save"
          /\ disk' = IF ep \in DOMAIN disk THEN disk ELSE Assigned(disk, {ep}, << >>)
     ELSE at' = "validate" /\ UNCHANGED disk
  /\ total' = << >> /\ collected' = 0
  /\ UNCHANGED << sampler_vars, ep, eval_point_index, best, best_ep, early_stop, crashes >>

(* The files are written one after the other, trainer by trainer. *)
Saved(f) == f \in DOMAIN disk[ep] /\ disk[ep][f] = Content(f, nets)
SavesFile ==
  /\ at = "save"
  /\ LET missing == { f \in Files : ~Saved(f) }
     IN  \/ /\ missing = {}
            /\ at' = "validate" /\ UNCHANGED disk
         \/ /\ \E f \in missing :
                 /\ \A g \in missing : Place(f) <= Place(g)
                 /\ disk' = [disk EXCEPT ![ep] = Assigned(@, {f}, Content(f, nets))]
            /\ UNCHANGED at
  /\ UNCHANGED << sampler_vars, trainer_vars, ep, eval_point_index, total, collected, best, best_ep,
                  early_stop, metrics, crashes, trained >>

(* The evaluation, when the next entry of the schedule is this episode; the
   index is past the list when the last entry has been used. *)
Validates ==
  LET schedule == EvalSchedule(config)
  IN  /\ at = "validate"
      /\ IF schedule = << >>
         THEN at' = "loop" /\ ep' = ep + 1 /\ UNCHANGED << eval_point_index, sampler_vars >>
         ELSE IF eval_point_index > Len(schedule)
         THEN at' = "raised" /\ UNCHANGED << ep, eval_point_index, sampler_vars >>
         ELSE IF ep # schedule[eval_point_index]
         THEN at' = "loop" /\ ep' = ep + 1 /\ UNCHANGED << eval_point_index, sampler_vars >>
         ELSE /\ at' = "eval"
              /\ eval_point_index' = eval_point_index + 1
              /\ EvalBegins
              /\ UNCHANGED ep
      /\ UNCHANGED << trainer_vars, total, collected, disk, best, best_ep, early_stop, metrics, crashes,
                      trained >>

Evaluates ==
  /\ at = "eval"
  /\ EvalSteps(Versions) \/ EvalEnds
  /\ at' = IF phase' = "idle" THEN "validated" ELSE at
  /\ UNCHANGED << trainer_vars, ep, eval_point_index, total, collected, disk, best, best_ep, early_stop,
                  metrics, crashes, trained >>

(* on_validation_end of MetricsRecorder and of EarlyStopping *)
ValidationEnds ==
  /\ at = "validated"
  /\ \E m \in Metrics :
       LET better == m > best
           b == IF better THEN ep ELSE best_ep
       IN  /\ best' = IF better /\ config.early_stop_patience # Unset THEN m ELSE best
           /\ best_ep' = IF config.early_stop_patience # Unset THEN b ELSE best_ep
           /\ early_stop' = (early_stop \/ ( /\ config.early_stop_patience # Unset
                                             /\ ep - b > config.early_stop_patience))
  /\ metrics' = [full |-> metrics.full \cup {ep}, valid |-> metrics.valid \cup {ep}]
  /\ at' = "loop" /\ ep' = ep + 1
  /\ UNCHANGED << sampler_vars, trainer_vars, eval_point_index, total, collected, disk, crashes, trained >>

Crashes ==
  /\ at \notin {"start", "done", "raised"} /\ crashes < MaxCrashes
  /\ crashes' = crashes + 1
  /\ SamplerRestarts
  /\ nets' = [t \in Trainer |-> FreshNets]
  /\ memory' = [t \in Trainer |-> {}]
  /\ n_sample' = [t \in Trainer |-> 0]
  /\ at' = "start" /\ ep' = 0 /\ eval_point_index' = 1
  /\ total' = << >> /\ collected' = 0
  /\ best' = NoMetric /\ best_ep' = -1 /\ early_stop' = FALSE
  /\ metrics' = [full |-> {}, valid |-> {}]
  /\ UNCHANGED << disk, trained >>

Stopped == at \in {"done", "raised"} /\ UNCHANGED << sampler_vars, trainer_vars, workflow_vars >>

Runs ==
  \/ (DOMAIN disk = {} /\ StartsNew) \/ \E e \in DOMAIN disk : Loads(e)
  \/ EpisodeStarts \/ Collects \/ Records \/ Trains \/ SavesFile \/ Validates \/ Evaluates
  \/ ValidationEnds

Next == (Runs \/ Crashes \/ Stopped) /\ UNCHANGED setup


(***************************************************************************)
(* Properties                                                              *)
(***************************************************************************)

(* What a sampling returns is what was played: for every trained agent of an
   experience, the next state is the first one the same agent was asked for
   later in the episode, and its terminal flag is off; the last experience of
   an agent keeps its own state and takes the end-of-episode flag of the
   environment (_append_cache_element, with the index of the last experience
   of each agent moving along with the cache). *)
TransitionsAreTrue ==
  phase = "outer" =>
    /\ \A i \in 1..Len(experiences) : experiences[i].env = "learn"
    /\ \A i \in earlier + 1..Len(experiences) :
         LET e == experiences[i]
         IN  \A a \in e.agents :
               LET later == { k \in (e.id + 1)..Len(acted) : a \in acted[k] }
               IN  /\ a \in DOMAIN e.terminal /\ a \in DOMAIN e.next
                   /\ later = {} => e.terminal[a] = end_of_episode /\ e.next[a] = e.id
                   /\ later # {} => ~e.terminal[a] /\ e.next[a] = Min(later)

(* The trainers of actor-critic algorithms learn from the policy they are
   about to update: every transition in their memory at a train step was
   acted by the current version of the policy, and its old log-probabilities
   are those of that version.  (With a reward delay and a number of steps per
   sampling, decisions wait in the cache across a train step; the policy_old
   of PPO with entropy is not in a checkpoint.) *)
OnPolicy ==
  at = "train" /\ (delay = Unset \/ num_steps = Unset) =>
    \A t \in Trainer : \A transition \in memory[t] :
      /\ transition.version = nets[t].actor
      /\ AlgorithmOf[t] # "ppo_entropy" \/ crashes = 0 => transition.logps = nets[t].actor

(* A workflow that continues from a checkpoint continues from the episode
   after it: at the head of episode ep every trainer has networks that
   training of episode ep - 1 ended with, whether they were just loaded or not
   (load, save, start_ep).  Where an episode was trained more than once - it is
   trained again by a run that continues from an earlier one, and saved in the
   same directory, file over file - the policy and the rest of a trainer's
   networks may be of two of its trainings, when the second was cut short. *)
ResumeContinues ==
  at = "loop" /\ ep > 1 =>
    \A t \in Trainer : \E n, m \in TrainedIn(ep - 1) :
      /\ nets[t].actor = n[t].actor
      /\ nets[t].critic = m[t].critic
      /\ nets[t].target = m[t].target

(* What is learnt from is what was played, and for on-policy algorithms by
   the policy that is being updated. *)
ExperiencesAreTrue == TransitionsAreTrue /\ OnPolicy
=============================================================================
