# A TLA+ model of MARO

MARO is a platform for multi-agent resource optimisation: a discrete-event
simulator with its event buffer, its frame and snapshot storage and three
scenarios; the data that feeds them; a reinforcement-learning workflow on top;
processes that talk to each other (training workers, rollout workers,
vectorised environments, a communication proxy); and clusters that run it all.
This directory models these parts in TLA+, checks the models with TLC and proves
most of their safety properties for every value of the constants with TLAPS
(section 4). Paths below are relative to `src/maro/`.

`PROJECT.json` lists the runs, the lines every definition stands for, the
hazards and the findings; this file explains them.

## 1. Inventory

| Component | State | Operations | What makes it correct |
|---|---|---|---|
| Event buffer (`event_buffer/`) | a linked list per tick (head, tail, counter), immediate events per cascade event, a pool of reused objects | gen, insert_event, add_immediate_event, execute, reset | every inserted event runs once, in FIFO order, its immediate events right after it; decisions wait for an answer; an object is in one place only |
| Env (`simulator/core.py`) | the generator `_simulate`, tick, frame index | step, reset, snapshots at decisions and after ticks | the snapshot of a frame is the state at its end; an episode leaves no gap; statistics per frame add up |
| Static backend (`backends/np_backend.pyx`) | rows used as a ring, two dictionaries, a history file | take_snapshot, query, enable_history, reset | a query shows the last snapshot of its tick or nothing; two ticks never share a row; same answers as the dynamic backend |
| Dynamic backend (`backends/raw/`, `backends/frame.pyx`) | blocks of cells, list store, masks of alive nodes, copies per tick | define, append, delete, resume, write, insert, remove, snapshot, query, reset | the newest snapshots are kept; nodes and lists read as written |
| CIM data (`data_lib/cim/`) | stops, orders, random streams, dumps | unroll, predict, deal out orders, seed, reset, dump, load | stops outlast the episode and its readers; all orders placed; equal seeds, equal episodes |
| Binary files (`data_lib/`) | file, buffer, history of offsets, picker | convert, read, pick, make events | every item in range becomes an event at its tick, once, again in later episodes |
| Data pipelines (`cli/data_pipeline/`) | downloaded, cleaned and built files | download, clean, build, remove | what a successful generate leaves agrees with what the site had |
| Streaming (`streamit/client/`) | queue, current episode and tick, connection | data, tick, episode, pause, complex, close | what arrives is a prefix of what was sent, tagged with when it was sent; all of it when close returns |
| CIM engine (`simulator/scenarios/cim/`) | containers at ports, on vessels, at shippers and consignees; schedule | order, returns, arrival, departure, load, discharge, action | containers conserved; cargo and its events agree; capacity and schedule kept; an action in its scope is accepted |
| Citi bike engine (`simulator/scenarios/citi_bike/`) | bikes and docks, bikes under way, cache of the trip filter | trip, return, overflow, decision, action, delivery | bikes conserved; docks kept; the cache shows the snapshots; transfers arrive |
| VM scheduling engine (`simulator/scenarios/vm_scheduling/`) | tree of regions to machines, live VMs, pending requests, metrics | request, allocate, postpone, finish, overload | resources and machine states follow the VMs; requests settled; lifetimes paid; levels of the tree agree |
| RL rollout (`rl/rollout`) | transition cache per agent, environments, versions of policies; requests and replies of rollout workers | sample, eval, collect | returned transitions are those that were played; replies answer their request |
| RL workflow (`rl/workflows`) | episode, collected experience, metrics, checkpoints | sample, record, train, evaluate, save, stop, load | a resumed run continues where the checkpoint ends; the job ends |
| RL trainers (`rl/training`) | networks, target networks, replay memories; request queue and workers when distributed | record, sample, update; route, compute, average | on-policy trainers train on their own data; a batch holds what was put; every request is answered with its gradient |
| Communication (`communication/`) | peers and addresses, cached messages, replies by session; registry of conditional events | join, send, scatter, broadcast, reply, receive_by_id, rejoin; register, push | messages arrive in order and once; a handler gets full combinations, each message once |
| Vectorised environments (`vector_env/`) | a pipe and a process per environment | step, reset, query, stop | answers belong to the command and to their environment |
| Grass services (`cli/grass/lib/services`) | jobs, nodes, containers and locks in Redis; five master agents; three processes per node | place, restart, stop, clean; join, leave, start, stop | a pass gives away only what it found free; bounded restarts; a stopped node is not offered |
| Grass provisioning (`cli/grass/executors`) | cloud resources, user files, lists of nodes | create, delete, scale, start, stop, join, leave | what is listed exists, what exists can be found and deleted |
| Kubernetes (`cli/k8s`) | node pools, jobs, schedules, config maps | create, delete, scale, start and stop jobs | details and jobs agree |
| Local mode (`cli/local`) | jobs, details and containers, session | init, exit, add, remove, stop; start, monitor | what runs is listed; no more than the limit runs |
| Grass local mode, RL models, command-line tables, dashboards, forecasting, examples | | | not modelled, see section 5 |

**Interaction.** `Env._simulate` is the only driver of a simulation. At each tick
it calls the engine's `step`, which inserts events; it runs the event buffer's
`execute`, which calls the engine's handlers, which insert events and add
immediate events; when decisions come to the front it takes a snapshot and yields
to the agent; at the end of the tick it calls `post_step`, and the frame is copied
into the snapshot list of whichever backend is in use. The input comes from the
data containers or from binary files that a pipeline made. All of this is one
Python thread: the hard part is order and reuse (insertion during execution,
events of one tick that change the same station or vessel, values computed at a
decision and used later, resets in the middle of an episode, and rings, caches and
counters at their limits).

The RL workflow samples from environments, in its own process or through rollout
workers, records what it gets with the trainers, trains them, in its own process
or through a training proxy and workers, evaluates and saves. Clusters start the
processes of such a job. Here the hard part is processes: messages on the way
while someone exits or comes back, state read from Redis and used after it
changed, crashes between two files, threads of the command line of which one fails.

## 2. Modules

An arrow says EXTENDS, unless a refinement is named.

    EventAgenda  <-- refined by --  EventBuffer
        ^
    Simulator  -->  RawSnapshotList  <-- refined by --  NPSnapshotList
                                                            ^
                                         Backends ----------+--> RawFrame --> RawNode

    ScenarioData --> CimData, CimSources, BinaryFile, DataPipelines, Streamit
    Cim    CitiBike    VmScheduling --> VmStructure

    RlMain --> RlWorkflow --> EnvSampler --> RlConfig
           |        `-------> Trainers
           |-> BatchEnvSampler --> RlConfig
           `-> ReplayMemory

    Distributed --> TrainingProxy, Proxy, RegisterTable, VectorEnv

    Orchestration --> GrassCluster --> GrassMaster, GrassNode --> GrassStore
                  `-> GrassProvisioning, K8sCluster, LocalJobs

The theorems of a module are in a module of proofs beside it:

    EnvironmentProofs      Simulator, RawSnapshotList, VectorEnv, TrainingProxy, with DataLemmas
    BackendProofs          NPSnapshotList, RawFrame over RawNode, with DataLemmas
    ScenarioDataProofs     Streamit, BinaryFile, CitiBike, with DataLemmas
    CimProofs              Cim, with DataLemmas
    VmSchedulingProofs     VmScheduling, with DataLemmas
    RlMainProofs           ReplayMemory, BatchEnvSampler, EnvSampler, RlWorkflow
    OrchestrationProofs    GrassNode, GrassMaster, GrassCluster, GrassProvisioning, K8sCluster,
                           LocalJobs, with DataLemmas

The values of constants that are not plain numbers are at the end of the module a run
checks, under "For TLC". Parts that share no state are composed by a choice:
`Init` picks the part that runs (`part` and `backend`; in RlMain, what else is
idle), and the others keep their initial state. Interleaving parts that never touch each other
would multiply the states and show nothing. Parts that do interact (sampler,
trainers and workflow; store, master and nodes) are composed step by step.

Configuration flags that change the control flow are variables chosen in `Init`
and never changed, so that one run covers all of them: `mode` (the decision mode)
in EventBuffer and Simulator, `joint` in Cim, `killAll` in VmScheduling, `kind` (the class of memory) in ReplayMemory, `mode` (cloud or on
premises) in GrassProvisioning.

### Simulator and storage

**EventAgenda** is the abstract specification of the buffer: a sequence of
entries per tick, each with the immediate events added to it so far. It has no
objects, pointers or pool.

**EventBuffer** is the code's data structure. `ev` is the set of event objects
with their `next` pointers and states, `lists` the head, tail and counter of each
tick, `pool` the recycled objects. `execute`'s loop is the steps `LoopTest`,
`FrontIsNone`, `FrontIsDecision`, `FrontIsEvent` and `HandlerReturns`; between the
last two, handlers insert events and add immediate events (`HandlerInserts`,
`HandlerAddsSub`). The refinement mapping reads the chain of objects from the head
of each list. Its environment is the tick loop of `core.py` (`StepInserts`,
`Answer`, `TickOver`, `Reset`). `SubsInsert` says whether handlers of immediate
events insert into the tick being executed; no shipped scenario does with its
default settings, and the run leaves it off (see Disagreements).

**Simulator** is `_simulate` with the buffer replaced by its promise
(`EventAgenda`) and the storage by `RawSnapshotList`. The frame is reduced to how
many events have changed it, in the episode and since the statistics were last set
back, which tells two snapshots apart. `EndsFrame` and `AfterPostStep` are the citi
bike engine's `post_step`; the other engines take the same decision.

**RawSnapshotList** is the dynamic backend's ordered map with eviction;
**NPSnapshotList** the static backend's ring with the dictionaries and the optional
history file. The contents of a frame are one value. `taken` is a history variable:
all snapshots since the last reset. **RawNode** and **RawFrame** are the dynamic
backend in detail: one block of cells for all nodes of a type, a list attribute's
cell with an index into a store of lists, the masks of nodes that are alive,
snapshots as copies, and queries with their padding. `value` and `shot` remember
what was written, by node and attribute, and are what the memory is compared with.

### Scenarios and their data

In the scenario modules an action is a whole handler: it takes the head of the
agenda, changes the state as the handler does, and leaves the agenda with the
handler's insertions.

**Cim**: containers are counted per port, per vessel and destination, at shippers
and at consignees. Orders and the ticks that follow from return buffers are chosen
freely from small sets. `Schedules` are the stops the data container hands to the
engine. The loop of `_on_full_load` over the stops of a round is the one solution of
what each stop takes given the stops before it (`Loads`). A port may order from itself, as in the
`global_trade.22p` topologies: the cargo goes round and is discharged at the vessel's next call. **CitiBike** has the decision strategy with its three filters and the trip
filter's cache of frames. **VmScheduling** has `step`, the request handler, the
answers (`Allocate`, `Postpone`, `Ignore`) and `post_step` with overload;
**VmStructure** is the tree above the machines, as `_load_configs` counts it for the
frame and as `_init_structure` builds it, with the counts of empty machines that
every level keeps.

**CimData** is `_extend_route` with the views of future and past stops, the noise
of sailing being a choice, and `_gen_orders` with the rounding of shares.
**CimSources** is the parsing of a configuration, the random streams (the n-th draw
of seed s is `<<s, n>>`), the two kinds of reset, dumps, loads and recorded orders.
**BinaryFile** is the converter, the reader with its buffer and its history of
offsets, the tick picker and the events made of items. **DataPipelines** is `maro env
data generate` for the citi bike, toy and VM topologies as steps of which any may
fail, and the temporary data of an environment. **Streamit** is the client, its
queue and the sender.

### Learning

**RlConfig** is the configuration parser: what it rejects, and the schedule and
processes it makes of what it accepts. **EnvSampler** is `sample` and `eval`, one
iteration of their loops a step; a state is named by the decision it was observed
at, and each transition remembers the version of the policy that acted; `acted`
keeps who was asked at each decision of the episode, `earlier` how many experiences of
a sampling are of episodes before it.
**Trainers** has the `train_step` of every algorithm, a network being the number of
its updates. **RlWorkflow** composes them with the callbacks and the checkpoint's
files; the process may crash between any two steps and is started again, from
nothing or from the latest checkpoint. **BatchEnvSampler** is the controller of
rollout workers and the workers; its socket has LINGER 0 and is closed at once, so any `EXIT` may be lost. **ReplayMemory** has the index schedulers and the
memory classes; transitions are numbered in the order they are put.

**TrainingProxy** has the three kinds of process of distributed training:
`TrainingManager` with the trainers' ops, the proxy's two socket handlers and the
workers. A handler of tornado's event loop runs to its end, so each is one action.
ZeroMQ is external: a FIFO channel each way between two processes; `EXIT` may be
lost, since the clients' sockets have LINGER 0. A gradient is what it was computed
from (op, version of its state, part of the batch). A batch may be too small to be split over the workers that were taken for it
(`BatchSizes`): the assertion in `split` fails after they were popped (`RouteFails`), and the
request is never answered (`lost`). How many remote calls an op
makes in a step (epochs, early stopping) is chosen freely.

### Communication

**Proxy** is one component that sends while its peers exit, are killed (which leaves
their addresses in Redis) and come back under a new address. What it knows of them
is stale until it looks again; every call to the driver uses the addresses known at
that moment. Messages to one peer and broadcasts travel on channels of their own, as they go
through sockets of their own (PUSH and PUB), and a peer polls both. `_broadcast` does not send what is
kept for a peer, so a broadcast may overtake a kept message; the order promised is that of each
channel. `delivered`, `arrived` and `handed` are history: what each peer received, how
many replies arrived, and which were handed out.
**RegisterTable** keeps the messages of each unit event and calls a handler with a
combination; the required number of a percentage depends on the number of peers.
**VectorEnv** is the main process with its pipes; an environment may die in a step.

### Orchestration

**GrassStore** is what is shared: Redis and the docker daemons. **GrassMaster** has
the five agent processes of the master, each pass split where it reads Redis, calls
a node and writes; an uncaught exception ends the agent for good. Restarts are counted per
job and component id. **GrassNode** has
the three processes of a node's service, the Redis lock they write under, SIGTERM in
any order and SIGKILL (after which the status stays "Running"), the tracker's `docker ps` and `docker
inspect` (it ends when a container has gone in between), and starting and stopping, whose second call may fail. **GrassCluster** adds the
requests of the command line; a DELETE of a job is its three calls of Redis. **GrassProvisioning** is the command line's side: each
call to the cloud, to ssh or to the master may fail, and threads that start nodes
interleave. A node's agent and API server are units of their own (`services`, `enabled`): joining and
starting a node start the agent, then the API server; stopping stops the server, then the agent; leaving
stops the agent, then the server, then unmounts. A call that fails may have done its work. An agent that
is stopped reports "Stopped" or is killed and leaves "Running" behind (`killed`).
**K8sCluster** has both families of Kubernetes commands; jobs are job objects, not their pods. **LocalJobs**
has the job manager's loop, a monitor thread per job and the user's commands,
interleaved at their Redis calls; a start that fails may leave containers running.

## 3. What the runs check

Every run passes except the two named in Findings. `CHECK_DEADLOCK FALSE` is
given where an episode, a job or a bounded sequence of commands ends and nothing
follows.

| Run | Property | What it says |
|---|---|---|
| event_buffer | `PoolIsFree` | no object is in the pool twice, or in the pool and in use |
| | `KeepsAgenda` | the buffer implements `EventAgenda` |
| | `EpisodeEnds` | every episode comes to its end |
| simulator | `KeepsNewest` | the newest snapshots are kept, with their last contents |
| | `EpisodeIsShown` | each snapshot shows the end of its frame; the episode has no gap |
| | `StatisticsAddUp` | the statistics of the frames add up to the episode's |
| backends | `DictsAgree`, `QueryReturnsLastTaken`, `SameAsRawBackend` | ring and dictionaries agree, queries are right, the static backend implements the dynamic one |
| | `ValuesAreKept` | the dynamic frame reads as written, its snapshots as taken |
| scenario_data | `StopsServeReaders`, `AllOrdersPlaced` | stops outlast their readers, predictions follow the route; orders add up |
| | `ItemsComeOnTime` | items in the episode become events of their tick, once |
| | `EqualDataEqualEpisodes` | equal seeds give equal episodes; dumps and recorded orders come back |
| | `DataIsWholeOrGone` | files of a successful generate agree; temporary data goes |
| | `StreamIsComplete` | what arrives is what was sent, in order and with its tags |
| cim | `ContainersAccounted`, `ServiceIsKept`, `ScopeIsHonoured` | conservation, cargo against events, capacity; schedule and delivery (what is aboard for the port where a vessel parks is what is planned for its next call there); actions within scope accepted |
| citi_bike | `BikesAccounted`, `CacheShowsFrames` | conservation and docks; the cache of frames that are over shows the snapshots |
| vm_scheduling | `ResourcesAccounted`, `RequestsSettled`, `LifetimesArePaid`, `HierarchyAddsUp` | resources and states follow the VMs; every request is settled in time; lifetimes and income; every level of the tree |
| rl_job | `ExperiencesAreTrue` | returned transitions were played; on-policy trainers train on their own policy's data |
| | `ResumeContinues` | after a crash, an episode starts with the networks the one before ended with |
| | `RepliesFit`, `SamplesAreWhatWasPut` | replies of rollout workers fit requests; a memory samples what was put, the newest of it |
| | `JobEnds` | jobs end; a worker that does not stop has lost its EXIT |
| distributed | `GradientFitsRequest`, `TrainingJobEnds` | one task per worker at a time, averages are of all parts of one request; the main process ends unless a batch was too small to be split |
| | `MessagesOnceInOrder`, `CombinationsAreComplete`, `AnswersFitEnvironments` | messages and replies in order and once; full combinations, nothing left over; answers belong to command and environment |
| orchestration | `PlacementIsBounded`, `StoppedWhenGone` | a pass gives away what it found free, restarts of a component are bounded; a stopped node is not offered |
| | `ClusterIsKnown`, `KubeJobsAreKnown`, `LocalJobsAccounted` | what is listed exists, "Running" means a running agent unless it was killed, agent and API server go together unless a call failed, what exists can be reached; the same for Kubernetes jobs and local jobs |

### Bounds

| Run | Instance |
|---|---|
| event_buffer | 2 ticks, 3 events, a reset, all decision modes |
| simulator | 5 ticks in frames of 2 (the last is cut off), start tick 2, 2 snapshots kept, all decision modes |
| backends | static: 2 rows, 4 ticks (the ring wraps twice), 3 contents, history files of 2 windows; dynamic: a node type with two lists, an attribute and a constant, up to 3 nodes, 5 operations |
| scenario_data | a route of 3 ports with unequal legs, 3 episode lengths; 3 ports with weights 0 to 2; 4 rows, 3 episodes of a file; 3 generates; 5 messages; 939,438 states in all |
| cim | 2 ports, 2 vessels that meet or cross, 7 ticks, buffers 0 and 1, 3 orders, a reset, joint and sequential decisions |
| citi_bike | 3 stations, 4 bikes, 5 ticks, 3 trips, a reset |
| vm_scheduling | 3 VMs, 2 machines in a tree of 2 clusters, 4 ticks, kill on and off, postponement by 0 and 1 steps; 1.1 million states |
| rl_job | 2 agents with a trainer each, 5 accepted configurations and a rejected one, 2 crashes, 1 to 3 rollout environments, a memory of 4 with 9 transitions; 110,455 states |
| distributed | 2 ops that want 1 and 2 of 3 workers, batches of 1 or 2 transitions; 2 peers, 2 messages, 3 starts, 2 exits; 6 pushed messages; 2 environments of length 1 and 2, 4 commands, 1 failure; 1,078,577 states in all |
| orchestration | 1 node, a job of 2 components and a scheduled job; 2 provisioned nodes, 5 commands, 1 failure; 2 Kubernetes jobs, 2 schedules, 5 commands, 1 failure; 3 local jobs of which 1 may run, 5 commands; 1,229,240 states in all |

They are chosen so that every structure passes its limit at least once: ring,
snapshot map, pool after a reset, cut-off frame, two vessels at one port, a full
station next to a full station, more VMs than fit, more workers wanted than free,
a message cache that overflows, a cache index that a removed transition moves, a
memory whose batch ends exactly at the end of its array, one failed call among
many. Where a property is proved (section 4), the proof covers longer episodes and
larger instances as well; the others are shown for these instances.

Each property is paired with a mutant, a version of one definition with a plausible
bug (dropped guard, off-by-one, forgotten reset, swapped order) that TLC must catch
with that property.

### Fairness

* `EpisodeEnds` (EventBuffer): weak fairness of the loop says that the single
  thread continues; there is no lock or wait that could stop it. Strong fairness of
  an answer with at least one action says that an agent that is asked again and again
  does not for ever answer with nothing; with empty answers in a joint mode the same
  decisions come back for ever, as in the code. Resets are bounded.
* `JobEnds` (RlMain): weak fairness of the rollout's processes. The workflow of one
  process always has a next step until it is over, so the specification says that it
  is over again and again or goes on for ever stepping. A worker whose `EXIT` was dropped waits for
ever, and the property allows that. The property is stated for
  configurations that can end: after a truncated episode, sampling without a number
  of steps returns nothing, and the workflow repeats it for ever.
* `TrainingJobEnds` (TrainingProxy): weak fairness of each process. The proxy's front end
  is switched off whenever no worker is free, so weak fairness would not do for
  `RouteRequest`; a ROUTER socket reads its peers in turn, which is strong fairness for
  each op. The property is about the main process only: the code does not ensure that
  workers and proxy stop.

The other parts have no liveness property. Grass agents may die for good, so that
nothing need ever be scheduled again; a pipe is read without a time limit, so a
dead environment blocks the main process.

### Findings

| Run | What it shows |
|---|---|
| event_buffer_recycling | with `disable_finished_events`, an event is recycled while it is still the head of its list, which cuts off the rest of the tick |
| citi_bike_transfer | a transfer time that rounds to zero or less plans a delivery for a place that is never executed: the bikes are lost |

### Disagreements met while translating

The models keep to the code. Where a property would fail because of one of these,
it is stated without the case, and its comment says so; the others lie outside a
model.

*Simulator and storage.* An event inserted for the current tick after its last
event has been unlinked never runs, since `_tail` is stale
(`event_linked_list.py`; `SubsInsert = TRUE` shows it, against the FIFO promise of
`docs/source/key_components/event_buffer.rst`). When the start tick is no multiple
of the resolution, an engine's test for the end of a frame and the frame index
disagree. Recording a history fails after a reset and after its first window
(`np_backend.pyx:569`, `:104`). In the dynamic backend, `Frame::dump` writes slot 0
for every slot, `SnapshotList::dump` passes a type as an index,
`SnapshotList::get_attr` is `noexcept` but its constant branch throws for a deleted
node, `Bitset.reset(true)` marks indices beyond the last node alive, a reset leaves
constants and stale node objects, and `append_to_list` has no limit of slots.

*CIM.* In joint mode the second action for a port, inside the scope that was handed
out, can fail an assertion (`business_engine.py:735`); early discharge rounds up and
overfills a vessel whose capacity is no multiple of the volume; with a start tick
after 0 departures before it never run; recorded orders name ports by the index
column, which must be the file's order; a `max_tick` in `misc.yml` smaller than the
episode silently ends the orders. Random streams belong to the process, so two
environments in it interfere.

*Citi bike.* The trip filter's cache keeps the count of a frame that was not over
(`decision_strategy.py:131`). It does so whenever the resolution of decisions is not a
multiple of that of snapshots: in the notebook `bike_repositioning/interact_with_environment`
it is 20 (`toy.3s_4t/config.yml`) against 30, and `CacheShowsFrames` is violated with 2
against 3. Neighbours are sorted the other way round than
`citi_bike.rst:78-81` says.

*VM scheduling.* VMs killed by an overload keep their resources
(`business_engine.py:668`, against `vm_scheduling.rst:138-139`); overloaded machines
are not counted when nothing is killed; a postponement by two steps lasts one; a
cluster type that the architecture does not use raises KeyError; a type listed twice
makes the counted amounts differ from what is built; an action may name another
pending VM than the one asked for (`:859`).

*Files, pipelines, streaming.* A reader remembers offsets by start time only, not
by time unit, and two live generators of one reader share its position; unsorted
items are dropped silently; a row dropped for a bad column still moves the file's
start and end. `_unzip_file` keeps a raw file that exists, also after a forced
download or when a crash cut it off; a failed download makes the pipeline wait for
ever; a toy topology without trips raises KeyError. A paused stream cannot be
un-paused (the call is itself guarded); a value of a type `parse_value` cannot
escape blocks every later send; a failed send keeps its metrics and skips the tick.

*Learning.* A FIFO memory that is exactly full, or empty, has head = tail, which a
put takes for empty and a sample for full (`replay_memory.py:171`, `:191`).
`average_grads` raises for the pairs the actor-critic ops return when more than one
worker took part, and the worker is lost (`proxy.py:84`); so are workers taken for a batch of fewer
transitions than workers (`transition_batch.py:40`), whose request is never answered. `MADDPGTrainer.exit` does
nothing; a worker that starts or is busy while the last op leaves is not told to
exit (`proxy.py:49`). In one process the actor-critic trainers take the pair
`update_actor` returns for a sign to stop early; remote variants index what they
should await. A crash while an older checkpoint is being overwritten leaves a directory
that mixes files, so a run resumed after a second crash may load the policy of one
training and the rest of another of the same episode; `ResumeContinues` says no more
than that. A partial checkpoint directory is what `get_latest_ep` picks. The schedule of evaluations is not resumed, and raises
IndexError after its last point. The parser looks for `min_env_samples` and
`grace_factor` in the wrong section. `BatchEnvSampler.sample` raises KeyError for
`end_of_episode` once its replies are in, and the READY of a late worker is read as
a reply. With rollout workers the warm-up of a policy starts again at every
sampling.

*Communication.* A percentage that rounds down to 0 never fires its handler; OR with
overlapping alternatives handles one message twice; messages to a peer whose address
is stale are lost; a broadcast arrives before messages kept for the peer that are older; re-sending a cached message duplicates it; a proxy without rejoin
lacks an attribute that its send reads. A finished environment of a vector answers
with one value more than the others.

*Grass.* A scheduled job has no "status", which ends an agent (`agent.py:751`); so
does a job stopped twice, where a message was meant (`:754`). A free-resource figure is
stale while another agent places, so machines can be oversubscribed across passes.
The Redis lock has no time limit, so a process killed inside it keeps it. Several
literals lack their `f` prefix or a key. `maro.cli.process` does not exist, so every
command that imports the local executor fails. A create whose thread fails is not
noticed; one that raises leaves its resources; the lock of a failed delete is never
released; a failure between the two calls that start or stop a node leaves its agent reporting without an
API server (`nodes.py:130-145`, `:171-186`); a node with containers cannot be stopped (TypeError), and a stopped one
cannot be scaled down.

*Kubernetes and local.* Config maps are never deleted, so a job's name can never
be used again; a cluster partly deleted cannot be opened to delete the rest; `maro
aks exit`, and the rollback of a failed init, call `delete_resource_group` with two
arguments where it takes one, so the TypeError leaves group and configuration behind
and a later init refuses; a failed create abandons what it deployed. A local job that does
not run in a container ends the manager by a TypeError (`job_manager.py:90`), as does a
job without network by a docker error; a status "removed" may be overwritten by the monitor;
`exit` says that the manager terminates the jobs, and kills the manager
(`local/commands.py`); Redis dumps its data when it is shut down, which a later init in the same directory would load (not
modelled). Deleting a Kubernetes job names no propagation policy, so its pods may stay.

## 4. What is proved

For every value of the constants:

* `RawKeepsNewest`: the dynamic backend's list is exactly the newest `MaxSize`
  snapshots with their last contents. Inductive as stated, with the type and the facts
  that the domain is finite and that whatever was evicted is older than everything
  kept (`KeptKeysFacts`, `OldestIsOne`). `InOrder`, part of the actions, is
  `core.py`'s: frame indices do not decrease within an episode.
* `NPTypeCorrect`, `NPQueryReturnsLastTaken`: by the inductive invariant `DataInv`:
  the dictionaries are injective on the kept ticks and every kept tick's row holds
  what was last taken. It includes the case that recording the history raises in the
  middle of `take_snapshot`; `index2tick` may then be behind, which is why `DictsAgree`
  is not part of it.
* `NPDictsAgree`, `NPSameAsRawBackend`: as long as recording has not raised, `RingInv`
  adds that the rows in use are the rows before `cur_index` in ring order, oldest first
  (`MappedTickCount`, `ReusedRowIsOldest`). So the row the ring reuses is the one the
  ordered map evicts, and every step of the static backend is a step of the dynamic
  one. The invariant that is inductive is `SafeInv`, which is `DataInv` and
  `NothingRaised => RingInv`; `DidNotRaise` says that a step after which nothing has
  raised starts where nothing had.
* `FrameKeepsValues`: for every layout of attributes, any number of nodes, slots and kept
  snapshots, and any sequence of writes, list operations, nodes appended, deleted and resumed,
  resets and snapshots. `ValuesAreKept` speaks of what is read only; the invariant `RawInv`
  is about the memory behind it. `MemoryOK`: the blocks are long enough for the nodes, each
  cell holds the value written to its slot, the cell of a list names a place of the store that
  holds the list and its length, no two lists name the same place (`Separate`), and cells beyond the
  nodes are zero, because `append_nodes` does not write the cells it hands out where a block is
  long enough already, as it is after a reset. `AliveOK`: the mask of a node and its node
  object agree. `CountsOK`: the count a node object keeps of a list is the memory's, or the list was emptied
  by a reset. `ShotsOK`: the copy that a snapshot is shows the values of its moment. The arithmetic
  is in `OffsetsFit` and `AddressesDiffer`, by which no two slots share a cell, and in
  `IndicesDiffer`, by which new lists get places of their own. TLC checked `RawInv` on all
  66,213 states of the run first.
* `SimEpisodeIsCovered`, `SimKeepsNewest`, `SimEpisodeIsShown`, `SimStatisticsAddUp`: the
  simulation loop, for every length of an episode, start tick, resolution and limit of snapshots. `SimInv` says
  where the loop stands (`LoopInv`: which ticks have ended) and what was taken (`TakenInv`:
  every frame with a tick that has ended, none after the current one), on top of the
  invariant of the snapshot list; the arithmetic is in `FrameIndexes` and `FrameHasEnd`.
  That no frame is missing and the newest are kept holds always. That a snapshot shows
  the end of its frame (`ShownInv`) is proved under `Aligned`, the start tick being a
  multiple of the resolution, because it is wrong otherwise and the code does not
  ensure it (see Disagreements). `StatInv` splits what has been counted between the
  snapshots of the frames that have ended and the frame that has not: what a decision's
  snapshot of the current frame shows does not count, since the one at the end of the frame
  replaces it. An unaligned episode takes the last snapshot of a frame after its statistics
  were reset, so this too is proved under `Aligned`.
* `StreamArrives`: for any number of messages, episodes and ticks and any size of the
  cache. `SenderInv` states that the messages in the queue lead from what the sender
  knows (count, episode, tick) to what the client announced last, so that each datum
  will be tagged as it was accepted; `ClosingInv` is the order in which client and sender
  end. Losing the connection is allowed for.
* `FileItemsAreOnTime`: for every file, buffer size, time unit and sequence of start
  offsets. `FileInv` relates the items read, those in the buffer and those the picker
  holds back to the lines of the file (`PagingInv`, `GeneratorInv`, `PickerInv`), and says
  that every remembered offset is a place before which nothing of its start time lies.
  That no item is missing needs the file to be sorted (`SortedInv`), as the property says.
* `CimTypeCorrect`, `CimContainersConserved`, `CimContainersAccounted`,
  `CimServiceIsKept`, `CimScopeIsHonoured`: for any ports, vessels, schedules, routes,
  return buffers, orders and actions. None of the properties is inductive. A container on its
  way is known only by the event that will move it, so the invariant `CimInv` counts events
  by weights: a handler takes the weight of its event out of the agenda and puts in that
  of the events it plans. `TypeInv` has the counts natural, which no test in the code
  ensures. `CountInv` has the totals, the matrices and the weights of the agenda agree.
  `SailInv` says for each vessel that the agenda has one departure for each stop still
  to leave, that it parks exactly from its arrival to its departure, and that an
  arrival event waits exactly when an arrival is due. `DueInv` says that each
  discharge is planned for the first stop to come at the port of its containers, and
  waits before the arrival of its vessel in that tick: so all that a parked vessel has
  for its port waits for its next call there. `TimeInv` has no tick before the current one keep an event; `FitInv` has
  the laden containers of a vessel within its capacity, hence a nonnegative number to load
  and no more empties put ashore than there are. `ActionInv` says that without joint
  decisions an action is at the front and acceptable, as nothing comes between it and its
  decision. TLC checked `CimInv` on all 148,998 states of the run first. That a
  vessel with its empties is never overfull is proved under `WholeContainers`,
  capacities being multiples of the volume and the first empties fitting, because early
  discharge rounds up otherwise (see Disagreements); each of the 326 vessels of the 39 configuration
  files in the repository satisfies it. The rest needs no such condition.
* `BikesAreConserved`, `BikesAreAccounted`, `LateTransfersArrive`, `CacheIsFaithful`: for any
  stations, capacities, trips, filters, water marks and actions. `BikeBook` counts the bikes
  at stations, in every event of the agenda, past ones included, and in transfers cut off
  from it; it holds whatever time transfers take. `BikeQueues` says that only arrivals wait
  for a later tick, and that once stations of a tick ask for decisions no trip of it is
  left, so that what they ask about is settled. That a transfer arrives
  and so is accounted for is proved under `Later`, every transfer taking a tick at least,
  which the code does not ensure (run `citi_bike_transfer`). `BikeCache` has the
  count cached for the current frame equal to its trips from the moment of the decision on,
  at the end of the frame, with no trip left to come; this needs decisions to be made at the ends of frames only (`Aligned`, the
  one resolution being a multiple of the other) and is wrong otherwise (see Disagreements).
* `VmRequestsSettled`, `VmResourcesAccounted`, `VmLifetimesArePaid`: for any VMs,
  machines, delays, budgets, prices and overloads. None of the three is inductive. `VmInv`
  adds that a request that is open is the one asked about or has exactly one event
  (`QueueInv`), that a VM that arrived is in one place (`PlaceInv`), that the time waited and
  the buffer time left add up to the budget (`BudgetInv`), that a machine hosts the live VMs
  that name it (`HostInv`), that what it gives away is what they require
  (`AmountInv`, where overloads do not kill), and that a VM lives from its creation to
  its deletion (`LifeInv`). TLC checked `VmInv` on all 1,099,860 states of the run first.
  What `step` and `post_step` do to many VMs at once changes sums over machines and over
  living VMs, which the facts on sums in DataLemmas follow.
* `MemorySamplesWhatWasPut`: for every capacity, number of agents and sequence of
  puts and samples, a replay memory samples transitions that were put, the newest
  when it does not overwrite at random, and a FIFO memory exactly what came since the
  last sample. `SamplesAreWhatWasPut` alone is not inductive: the invariant is
  `MemoryInv`, which adds that all agents' arrays hold the same (`SharedInv`), where the
  next transition goes (`CyclicInv`: slot i holds the newest number that is i modulo
  the capacity), that an overwriting memory keeps its newest batch (`OverwriteInv`), and
  that between head and tail lie the new ones in order (`FifoInv`).
* `RolloutRepliesFit`: for any number of rollout workers. `AnswerInv` says that a worker
  that was addressed has the request, or its answer is on the way, or it has been collected,
  and that nothing else is on its way; `ReadyInv` that an unknown worker has said READY at
  most; `LoadedInv` that those asked to evaluate were asked to load the policies before.
* `SampledTransitions`: for any agents, reward delay, number of steps and length of an
  episode, the experiences a sampling returns hold for each agent the state it was asked in
  next. `CacheInv` relates the cache of transitions and `last_index` to the history `acted`.
* `LearnedExperiences`, `ResumedWorkflow`: for any trainers, algorithms, schedules and
  number of crashes. `RunInv` adds what shape the networks of each algorithm have
  (`NetsInv`), that what a checkpoint's files hold are networks of trainings of their episode
  (`DiskInv`, one clause per file, since a crash may fall between two of them), which
  networks play (`FreshInv`) and that a memory is empty outside training (`RecordedInv`).
* `VectorAnswers`: for any number of environments, when each of them ends and which dies.
  `PipesInv`: at most one command or answer is in a pipe, and only in one still to be read.
* `TrainingGradients`: for any ops, workers and desired parallelism. `TrainingInv` says where
  a worker may be (`WorkerInv`: among the free, with a task, with a result, starting, taking
  leave, or lost, and only one of these), and that the parts of a request are spread over workers and
  cache, each once and at least one missing (`Spread`).
* `ProxyMessages`: for any finite set of peers, any types and limits, and any number of messages,
  exits, kills and rejoins. The order of what a peer received is inductive only together
  with what it is still to be sent, so `ProxyInv` has `KeptOK` (what is kept for a peer is in order and
  younger than all that was sent to it) and `TodoOK` (a message of the call at hand is younger
  than both, or it is a kept one that the component sends again; the messages of a call go to
  different peers). `RepliesOK` says that the handed, received, cached and
  arriving replies are all that arrived, those of a session in order, and that no cached
  reply is of a session that the call waits for: hence a reply that is received at once
  overtakes replies of other sessions only (`ReplyReceived`, `ReplyFound`). `ViewOK` says that whoever has a
  message kept or left to be sent is on board or listed as disconnected, and that before
  joining nobody is. TLC checked `ProxyInv` first, with 2 messages (989,479 states), without
  the cache (215,539) and with 3 messages and a cache of 2 (5,824,659).
* `OrchestrationStopsNodes`: `NoLateReport` says that once the tracker has gone nobody writes
  "Running" any more, for which signals (`SignalsInv`) and lock (`LockInv`) are needed. The
  exception, a tracker killed inside the lock, is in the property.
* `OrchestrationPlacesWithinBounds`: for any finite set of nodes, capacities, demands,
  allocation mode and restart limit, also when what the nodes report is out of date.
  `PlacementInv` adds that whatever anybody knows of containers is about containers of jobs
  and that free amounts are numbers (`MachinesInv`), that the tickets and the pass of the
  pending-job agent list each job once, and that the nodes of a plan cover it (`TicketsInv`,
  `AgentOK`), and that what was started of each component of a job is at most the restarts counted for
  its id and what that agent may have started (`CountInv`, `Allowance`: nothing while the job waits). A plan
  is a recursive function over the required resources, so that it covers what it gives away is
  shown place by place (`PlanIsPlacement`, from `AllocatePlaces`). TLC checked `PlacementInv`
  on all states of the run first.
* `OrchestrationKnowsClusters`, `OrchestrationKnowsKubeJobs`, `OrchestrationAccountsLocalJobs`:
  for any names, limits, commands and failing calls; `ProvInv`, `KubeInv` and `LocalInv` say
  what each thread or process may rely on between two of its calls. In `ProvInv`, `UnitsInv` says per
  node and step of its thread which of its two units run and are enabled while no call has failed.

DataLemmas holds what these proofs share: sums over finite sets (of `SumFunctionOnSet`,
by the theorems on finite sets), by parts, by classes, over joined sequences and over the
weights of events, extremes of finite sets, division, sequences as sets, and recursive
functions over places, which exist and keep what each step keeps (`IteratesExist`,
`IteratesKeep`).

Assumptions on constants are those the constructors enforce, the input has by its type, or
the formulas need: at least one row, ticks are natural numbers, a capacity and a parallelism
of at least one, node names that are not those of tasks, times that are whole numbers, and stops of a
vessel that follow each other in time and outlast the episode, as `_extend_route`
generates them (`CimData` is checked for that: `StopsServeReaders`). For grass clusters they are that the
nodes are finitely many, capacities and demands are whole numbers for each metric, "cpu" is
a metric (the one that plans go by), and what schedules submit are jobs. The peers of a
proxy are finitely many, at least one of each type is expected and enough, and the cache has
room for a message. For the dynamic
backend they are that attributes have natural numbers of slots and a constant is no list, and that NaN, by
which a snapshot says that a value is not there, is no value an accessor accepts
(`AccessorAssumption`; the comparison that accessors of floating-point attributes assert is
false of it, and the other types have none).
`MachineTypesAssumption` says that the machines that `_init_structure` builds are of
configured types; it follows from the loops that build the tree, is evaluated by TLC, and is
an assumption only because those loops are folds that the provers cannot unfold.

Only model-checked:

* the three liveness properties, which are out of the prover's reach;
* `PoolIsFree` and the refinement of `EventAgenda`, whose mapping follows pointers by a
  recursive function, and the results of recursive algorithms: `CombinationsAreComplete`,
  `AllOrdersPlaced`, `StopsServeReaders`, `EqualDataEqualEpisodes`, `HierarchyAddsUp`;
* `DataIsWholeOrGone`, over the steps of three pipelines with a failure anywhere.

## 5. Not modelled

* Grass local mode: its module imports `maro.cli.process`, which does not exist at
  this commit, so none of its commands can run.
* RL models and policies: tensors, losses, gradients, exploration and warm-up; a
  network is the number of its updates, and the version that acted is kept.
* Tables of arguments, templates, dashboards, plots, forecasting, notebooks and
  examples: no protocol.
* Within modelled components: costs, weather, energy and statistics that no handler
  reads; slots and slices inside one query, dumps to CSV; the packing of fields in
  binary files; manifests, images, logs, users and encryption of the cluster
  services; `forward` of the communication proxy; the grace period of parallel
  collection, which no configuration can set.
* Two hazards have no property or half of one: averaging pairs (`rl/training/proxy.py:84`),
  which is outside the model, and resources given away twice across passes of
  different agents, which the code does: `PlacementIsBounded` is about one pass.

`PROJECT.json` gives the reason per component.

## 6. Plan

Every component of section 1 but the last row is modelled, and what section 4 lists is proved.
Left: a proof of `DataIsWholeOrGone`, larger instances of the compositions, one part at a time
(their `Parts` constants choose), and replies of late rollout workers. Theorems live in modules of
their own, and the modules they speak of have no RECURSIVE operator.
