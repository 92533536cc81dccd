----------------------------- MODULE EnvSampler -----------------------------
(***************************************************************************)
(* rl/rollout/env_sampler.py: the sampler that plays episodes of a         *)
(* learning and of a test environment, keeps the decisions in a cache until *)
(* their reward can be evaluated, and returns them as experiences.         *)
(*                                                                         *)
(* An agent's state is named by the decision it was observed at: the       *)
(* number of the decision in its episode.  The version of the policy that  *)
(* acted is kept with each decision.  One iteration of the loop of         *)
(* `sample` or `eval` is one step.                                         *)
(***************************************************************************)
EXTENDS RlConfig, Functions

CONSTANTS Agents,
          TrainableAgents,   \* agents whose policy is trained
          MaxDecisions       \* bound: decisions of one episode

VARIABLES
  delay, num_steps, max_length,  \* reward_eval_delay, num_steps, max_episode_length
  max_tick,           \* last tick of an episode
  askable,            \* sets of agents that a decision event may ask
  phase,              \* where sample or eval is: "idle", "outer", "inner", "eval"
  env,                \* "learn" or "test": the environment in use
  tick,               \* [environment -> its tick]
  asked,              \* agents of the pending decision event
  end_of_episode,
  cache,              \* _transition_cache
  last_index,         \* _agent_last_index
  length,             \* _current_episode_length
  exploring,          \* the policies are in exploration mode
  steps_to_go,        \* of the running sample
  experiences,        \* total_experiences of the running sample
  earlier, acted      \* history: experiences of the running sample that are of
                      \* earlier episodes than the one being played, and the
                      \* agents of each decision answered in this one

sampler_config == << delay, num_steps, max_length, max_tick, askable >>
sampler_vars == << phase, env, tick, asked, end_of_episode, cache, last_index, length,
                   exploring, steps_to_go, experiences, earlier, acted >>

Infinite == -1                       \* float("inf") as a number of steps

InitSampler ==
  /\ phase = "idle"
  /\ env = "learn"
  /\ tick = [e \in {"learn", "test"} |-> 0]
  /\ asked = {}
  /\ end_of_episode = TRUE
  /\ cache = << >> /\ last_index = << >>
  /\ length = 0
  /\ exploring = FALSE
  /\ steps_to_go = 0
  /\ experiences = << >>
  /\ earlier = 0 /\ acted = << >>

(* The sampler of a new process. *)
SamplerRestarts ==
  /\ phase' = "idle"
  /\ env' = "learn"
  /\ tick' = [e \in {"learn", "test"} |-> 0]
  /\ asked' = {}
  /\ end_of_episode' = TRUE
  /\ cache' = << >> /\ last_index' = << >>
  /\ length' = 0
  /\ exploring' = FALSE
  /\ steps_to_go' = 0
  /\ experiences' = << >>
  /\ earlier' = 0 /\ acted' = << >>

(* _step: the environment runs to its next decision event, at this tick or a
   later one, or to the end of the episode.  The first step of an episode
   meets a decision. *)
StepEnv(e, from, decisions) ==
  \/ /\ decisions < MaxDecisions
     /\ \E t \in from..max_tick : tick' = [tick EXCEPT ![e] = t]
     /\ \E s \in askable : asked' = s
     /\ end_of_episode' = FALSE
  \/ /\ decisions > 0
     /\ tick' = [tick EXCEPT ![e] = max_tick]
     /\ asked' = {}
     /\ end_of_episode' = TRUE

(* _reset *)
ResetEnv(e) ==
  /\ length' = 0
  /\ cache' = << >>
  /\ last_index' = << >>
  /\ acted' = << >>
  /\ StepEnv(e, 0, 0)

truncated == max_length = length

(* The CacheElement of a decision, with the agents that are trained. *)
CacheElement(version, len) ==
  [env |-> env, id |-> Len(acted) + 1, tick |-> tick[env],
   agents |-> asked \cap TrainableAgents, version |-> version,
   terminal |-> << >>, next |-> << >>, truncated |-> (max_length = len)]

(* A dictionary f with one value for each of the given keys. *)
Assigned(f, keys, value) ==
  [k \in keys \cup DOMAIN f |-> IF k \in keys THEN value ELSE f[k]]

(* _append_cache_element with an element: the last element of each of its
   agents learns its next state. *)
FollowedBy(elements, index, e) ==
  LET n == Len(elements) + 1
      last(i) == { a \in e.agents \cap DOMAIN index : index[a] = i }
      Filled(i) == [elements[i] EXCEPT !.terminal = Assigned(@, last(i), FALSE),
                                       !.next = Assigned(@, last(i), e.id)]
  IN  << Append([i \in 1..Len(elements) |-> Filled(i)], e),
         Assigned(index, e.agents, n) >>

(* _append_cache_element(None) at the end of a round: terminal flag and own
   state for the last element of each agent. *)
Closed(elements, index) ==
  [i \in 1..Len(elements) |->
     LET last == { a \in DOMAIN index : index[a] = i }
     IN  [elements[i] EXCEPT
            !.terminal = Assigned(@, last, end_of_episode),
            !.next = Assigned(@, last, elements[i].id)]]

(* Mutant: the index keeps its old places when elements leave the front. *)
ShiftedIndexNot(index, n) ==
  [a \in { b \in DOMAIN index : index[b] > n } |-> index[a]]

(* The index after n elements have been taken off the front. *)
ShiftedIndex(index, n) ==
  [a \in { b \in DOMAIN index : index[b] > n } |-> index[a] - n]

(* The elements whose reward can be evaluated: those at the front up to the
   first that is younger than the delay. *)
TickBound == tick[env] - (IF delay = Unset THEN 0 ELSE delay)
Ripe(elements) ==
  LET young == { i \in 1..Len(elements) : elements[i].tick > TickBound }
  IN  IF young = {} THEN Len(elements) ELSE (CHOOSE i \in young : \A j \in young : i <= j) - 1

(***************************************************************************)
(* sample                                                                  *)
(***************************************************************************)
SampleBegins ==
  /\ phase' = "outer"
  /\ env' = "learn"
  /\ exploring' = TRUE
  /\ steps_to_go' = IF num_steps = Unset THEN Infinite ELSE num_steps
  /\ experiences' = << >> /\ earlier' = 0
  /\ IF end_of_episode
     THEN ResetEnv("learn")
     ELSE UNCHANGED << length, cache, last_index, acted, tick, asked, end_of_episode >>

(* The tests of the outer and of the inner loop. *)
SampleDone == IF num_steps = Unset THEN end_of_episode \/ truncated ELSE steps_to_go = 0
RoundOver == end_of_episode \/ truncated \/ steps_to_go = 0

(* The head of the outer loop, with its reset between two episodes. *)
RoundBegins ==
  /\ phase = "outer" /\ ~SampleDone
  /\ phase' = "inner"
  /\ IF end_of_episode \/ truncated
     THEN ResetEnv(env) /\ earlier' = Len(experiences)
     ELSE UNCHANGED << length, cache, last_index, acted, earlier, tick, asked, end_of_episode >>
  /\ UNCHANGED << env, exploring, steps_to_go, experiences >>

(* One iteration of the inner loop, with a policy of the given version. *)
SampleSteps(version) ==
  /\ phase = "inner" /\ ~RoundOver
  /\ LET e == CacheElement(version, length + 1)
         r == FollowedBy(cache, last_index, e)
     IN  cache' = r[1] /\ last_index' = r[2]
  /\ length' = length + 1
  /\ steps_to_go' = IF steps_to_go = Infinite THEN Infinite ELSE steps_to_go - 1
  /\ acted' = Append(acted, asked \cap TrainableAgents)
  /\ StepEnv(env, tick[env], Len(acted) + 1)
  /\ UNCHANGED << phase, env, exploring, experiences, earlier >>

(* The end of a round: the cache is closed and its ripe elements returned. *)
RoundCollected ==
  /\ phase = "inner" /\ RoundOver
  /\ phase' = "outer"
  /\ LET closed == Closed(cache, last_index)
         n == Ripe(closed)
     IN  /\ experiences' = experiences \o SubSeq(closed, 1, n)
         /\ cache' = SubSeq(closed, n + 1, Len(closed))
         /\ last_index' = ShiftedIndex(last_index, n)
  /\ UNCHANGED << env, tick, asked, end_of_episode, length, exploring, steps_to_go,
                  earlier, acted >>

(***************************************************************************)
(* eval: a whole episode of the test environment, with nothing returned.   *)
(***************************************************************************)
EvalBegins ==
  /\ phase' = "eval"
  /\ env' = "test"
  /\ exploring' = FALSE
  /\ experiences' = << >> /\ earlier' = 0
  /\ ResetEnv("test")
  /\ UNCHANGED steps_to_go

EvalSteps(version) ==
  /\ phase = "eval"
  /\ ~end_of_episode
  /\ LET r == FollowedBy(cache, last_index, [CacheElement(version, 0) EXCEPT !.truncated = FALSE])
     IN  cache' = r[1] /\ last_index' = r[2]
  /\ acted' = Append(acted, asked \cap TrainableAgents)
  /\ StepEnv("test", tick["test"], Len(acted) + 1)
  /\ UNCHANGED << phase, env, exploring, experiences, earlier, length, steps_to_go >>

(* The end of an evaluation episode; the elements that are not ripe stay. *)
EvalEnds ==
  /\ phase = "eval" /\ end_of_episode
  /\ phase' = "idle"
  /\ LET closed == Closed(cache, last_index)
     IN  cache' = SubSeq(closed, Ripe(closed) + 1, Len(closed))
  /\ UNCHANGED << env, tick, asked, end_of_episode, last_index, length, exploring,
                  steps_to_go, experiences, earlier, acted >>
=============================================================================
