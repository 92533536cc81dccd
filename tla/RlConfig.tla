------------------------------ MODULE RlConfig ------------------------------
(***************************************************************************)
(* rl/workflows/config/parser.py: what configurations the parser accepts,  *)
(* and the processes and settings it makes of one.  A configuration is a   *)
(* record of the fields that the workflow acts on; a missing field is      *)
(* Unset.  Types of fields, hosts and ports are left out: a field holds a  *)
(* number or is Unset.                                                     *)
(***************************************************************************)
EXTENDS Integers, Sequences, FiniteSets, SequencesExt

CONSTANT Unset                       \* Python's None

(* An evaluation schedule: none, one number, or a list of episodes. *)
NoSchedule == [kind |-> "none", every |-> Unset, at |-> << >>]
Every(n) == [kind |-> "every", every |-> n, at |-> << >>]
AtEpisodes(s) == [kind |-> "list", every |-> Unset, at |-> s]

PositiveOrUnset(x) == x # Unset => x > 0

_validate_main_section(c) ==
  /\ c.num_episodes >= 1
  /\ PositiveOrUnset(c.num_steps)
  /\ c.eval_schedule.kind = "every" => c.eval_schedule.every >= 1
  /\ \A i \in 1..Len(c.eval_schedule.at) : c.eval_schedule.at[i] >= 1
  /\ PositiveOrUnset(c.early_stop_patience)

(* rollout.parallelism; eval counts as 1 when it is missing *)
Parallelism(c) ==
  LET eval == IF c.eval = Unset THEN 1 ELSE c.eval
  IN  IF c.sampling = Unset THEN [sampling |-> 1, eval |-> 1]
      ELSE [sampling |-> c.sampling, eval |-> eval]
RolloutWorkers(c) ==
  LET p == Parallelism(c) IN IF p.sampling > p.eval THEN p.sampling ELSE p.eval

_validate_rollout_section(c) ==
  c.sampling # Unset =>
    /\ c.sampling > 0 /\ Parallelism(c).eval > 0
    /\ RolloutWorkers(c) > 1 /\ c.min_env_samples # Unset =>
         c.min_env_samples <= c.sampling

_validate_training_section(c) ==
  /\ c.mode \in {"simple", "parallel"}
  /\ c.mode = "parallel" => c.num_workers # Unset

_validate(c) ==
  /\ _validate_main_section(c)
  /\ _validate_rollout_section(c)
  /\ _validate_training_section(c)

(* EVAL_SCHEDULE of the main process *)
EvalSchedule(c) ==
  CASE c.eval_schedule.kind = "none" -> << >>
    [] c.eval_schedule.kind = "every" ->
         [i \in 1..(c.num_episodes \div c.eval_schedule.every) |-> c.eval_schedule.every * i]
    [] OTHER -> SortSeq(c.eval_schedule.at, LAMBDA a, b : a < b)

(* get_job_spec: the processes of the job.  min_env_samples and grace_factor
   are looked for one level above the section that is validated, so that
   they never reach the main process. *)
get_job_spec(c) ==
  [schedule |-> EvalSchedule(c),
   rollout_workers |-> IF RolloutWorkers(c) > 1 THEN RolloutWorkers(c) ELSE 0,
   min_env_samples |-> Unset,
   train_proxy |-> (c.mode = "parallel"),
   train_workers |-> IF c.mode = "parallel" THEN c.num_workers ELSE 0]

(* is_single_thread: sampler and trainers share their policies. *)
is_single_thread(c) == c.mode = "simple" /\ get_job_spec(c).rollout_workers = 0
=============================================================================
