---------------------------- MODULE VmScheduling ----------------------------
(***************************************************************************)
(* The business engine of the VM scheduling scenario                         *)
(* (simulator/scenarios/vm_scheduling/business_engine.py) with its machines  *)
(* (physical_machine.py, virtual_machine.py): requests for virtual machines  *)
(* arrive, an agent places, postpones or ignores each one, machines may be   *)
(* oversubscribed and overload.                                              *)
(*                                                                           *)
(* Decisions are answered one by one (Sequential mode), about the VM that    *)
(* was asked for and with one of the machines that were offered.  A decision *)
(* is an immediate event of its request, so no other event comes between.    *)
(* The machines and the tree above them are those of VmStructure.  Left out: *)
(* the energy curve and the input files, which are any sequence of arrivals  *)
(* with CPU readings out of Profiles.                                        *)
(***************************************************************************)
EXTENDS VmStructure

CONSTANTS VMs,                 \* ids of the VMs in the input
          Cpu, Memory,         \* VM -> what it requires
          Lifetime, Category,  \* VM -> ticks it lives, VmCategory
          Profiles,            \* what the readings of a VM may be: tick -> percent, -1 missing
          MaxCpuRate, MaxMemoryRate, MaxUtilizationRate,  \* oversubscription, in percent
          CpuPrice, MemoryPrice,
          BufferTimeBudget, DelayDuration,
          KillModes,           \* the values of kill_all_vms_if_overload considered
          PostponeSteps,       \* what the agent may ask for
          LastTick             \* the last tick of an episode

\* A percentage of a capacity that divides 100 has two decimals at most, so
\* the rounding of update_cpu_utilization changes nothing here.
ASSUME VmAssumption ==
  /\ IsFiniteSet(VMs)
  /\ \A v \in VMs : /\ Cpu[v] \in Nat \ {0} /\ Memory[v] \in Nat
                    /\ Lifetime[v] \in Nat \ {0}
                    /\ Category[v] \in {"DELAY_INSENSITIVE", "INTERACTIVE", "UNKNOWN"}
  /\ \A f \in Profiles : f \in [0 .. LastTick -> -1 .. 100]
  /\ DelayDuration \in Nat \ {0} /\ BufferTimeBudget \in Nat
  /\ MaxCpuRate \in Nat /\ MaxMemoryRate \in Nat /\ CpuPrice \in Nat /\ MemoryPrice \in Nat
  /\ PostponeSteps \subseteq Nat
  /\ LastTick \in Nat
  /\ KillModes \subseteq BOOLEAN

VARIABLES killAll,    \* _kill_all_vms_if_overload
          now, pc,
          readings,   \* VM -> its CPU readings
          agenda,     \* tick -> VMs whose REQUEST event waits for it
          vm,         \* VM -> its VirtualMachine and payload
          pending,    \* keys of _pending_vm_request_payload
          live,       \* keys of _live_vms
          pm,         \* machine -> its PhysicalMachine
          metrics,
          emptyNum,   \* empty_machine_num of racks, clusters .. regions
          asked,      \* _pending_action_vm_id while a decision is open, as a set
          arrived,    \* history: VM -> tick of its request
          ignored, completed   \* history: VMs ignored by the agent, VMs that lived their life

vars == <<nodes, killAll, now, pc, readings, agenda, vm, pending, live, pm, metrics, emptyNum, asked, arrived,
          ignored, completed>>

Ticks == 0 .. LastTick + DelayDuration

\* A machine's load is its cpu_utilization times its capacity: percent of a core.
EmptyPm == [cpu |-> 0, memory |-> 0, state |-> "EMPTY", vms |-> {}, load |-> 0]
NewVm == [series |-> <<>>, remaining |-> BufferTimeBudget, host |-> -1, created |-> -1,
          deletion |-> -1, utilization |-> 0]
NoMetrics == [requests |-> 0, allocated |-> 0, completed |-> 0, failedAllocation |-> 0,
              failedCompletion |-> 0, incomes |-> 0, latencyResource |-> 0,
              latencyAgent |-> 0, oversubscriptions |-> 0, overloadPms |-> 0, overloadVms |-> 0]

NotArrived == [v \in {} |-> 0]

Init ==
  /\ StructureInit
  /\ now = 0 /\ pc = "step"
  /\ agenda = [t \in Ticks |-> <<>>]
  /\ vm = [v \in VMs |-> NewVm]
  /\ pending = {} /\ live = {} /\ asked = {}
  /\ pm = [p \in Machines |-> EmptyPm]
  /\ metrics = NoMetrics /\ emptyNum = AllEmpty
  /\ arrived = NotArrived /\ ignored = {} /\ completed = {}
  /\ readings \in [VMs -> Profiles] /\ killAll \in KillModes

----------------------------------------------------------------------------
(* step: VMs that finish, the readings of this tick, new requests.           *)

Finished == {v \in live : vm[v].deletion = now}

SumCpu(S) == SumFunctionOnSet(Cpu, S)
SumMemory(S) == SumFunctionOnSet(Memory, S)

\* Mutant: the memory of a finished VM is not given back.
ReleasedCpuOnly(p, S) ==
  LET rest == pm[p].vms \ S IN
  [pm[p] EXCEPT !.cpu = @ - SumCpu(pm[p].vms \cap S), !.vms = rest,
                !.state = IF S \cap pm[p].vms # {} /\ rest = {} THEN "EMPTY" ELSE @]
\* _process_finished_vm
Released(p, S) ==
  LET rest == pm[p].vms \ S IN
  [pm[p] EXCEPT !.cpu = @ - SumCpu(pm[p].vms \cap S),
                !.memory = @ - SumMemory(pm[p].vms \cap S),
                !.vms = rest,
                !.state = IF S \cap pm[p].vms # {} /\ rest = {} THEN "EMPTY" ELSE @]

\* add_utilization: the last reading stands in for a missing one.
AddUtilization(series, r) == Append(series, IF r < 0 THEN Last(series) ELSE r)

\* get_utilization: the series starts when the VM was requested and is played
\* from when it was created.
GetUtilization(series, created) == series[now - created + 1]

\* _update_vm_workload, for the VMs L still alive.
Workload(L) ==
  [v \in VMs |->
    LET r == readings[v][now]
        s == AddUtilization(vm[v].series, r)
    IN IF v \in L
       THEN [vm[v] EXCEPT !.series = s,
                          !.utilization = IF r < 0 THEN @ ELSE GetUtilization(s, vm[v].created)]
       ELSE IF v \in pending THEN [vm[v] EXCEPT !.series = s] ELSE vm[v]]

\* _update_pm_workload
LoadOf(S, w) == SumFunctionOnSet([v \in S |-> w[v].utilization * Cpu[v]], S)

\* The input never names a VM without a reading for its first tick (an error).
Step(new) ==
  /\ pc = "step"
  /\ \A v \in ToSet(new) : v \notin DOMAIN arrived /\ readings[v][now] >= 0
  /\ LET done == Finished
         w == Workload(live \ done)
     IN /\ live' = live \ done
        /\ pm' = [p \in Machines |->
                    LET q == Released(p, done) IN [q EXCEPT !.load = LoadOf(q.vms, w)]]
        /\ emptyNum' = UpperLevelMetrics([p \in Machines |-> pm'[p].cpu])
        /\ vm' = [v \in VMs |-> IF v \in ToSet(new)
                                THEN [NewVm EXCEPT !.series = <<readings[v][now]>>] ELSE w[v]]
        /\ metrics' = [metrics EXCEPT !.completed = @ + Cardinality(done),
                                      !.requests = @ + Len(new)]
        /\ completed' = completed \cup done
  /\ agenda' = [agenda EXCEPT ![now] = @ \o new]
  /\ arrived' = [v \in DOMAIN arrived \cup ToSet(new) |-> IF v \in ToSet(new) THEN now ELSE arrived[v]]
  /\ pc' = "execute"
  /\ UNCHANGED <<nodes, killAll, now, readings, pending, asked, ignored>>

----------------------------------------------------------------------------
(* _on_vm_required                                                           *)

Fits(p, v, cpuRate, memoryRate) ==
  /\ (pm[p].cpu + Cpu[v]) * 100 <= cpuRate * CpuCapacity(p)
  /\ (pm[p].memory + Memory[v]) * 100 <= memoryRate * MemoryCapacity(p)

ValidPms(v) ==
  IF Category[v] = "DELAY_INSENSITIVE"
  THEN {p \in Machines : /\ pm[p].state \in {"EMPTY", "OVERSUBSCRIBABLE"}
                         /\ Fits(p, v, MaxCpuRate, MaxMemoryRate)
                         /\ pm[p].load + 100 * Cpu[v] <= MaxUtilizationRate * CpuCapacity(p)}
  ELSE {p \in Machines : /\ pm[p].state \in {"EMPTY", "NON_OVERSUBSCRIBABLE"}
                         /\ Fits(p, v, 100, 100)}

\* Mutant: postponing costs no buffer time.
SpentNot(v) == vm
Spent(v) == [vm EXCEPT ![v].remaining = @ - DelayDuration]

GivenUp(v) == pending \ {v}

\* _postpone_vm_request.  q is the agenda without the event being handled.
PostponeVmRequest(v, remaining, latency, q) ==
  IF remaining >= DelayDuration
  THEN /\ metrics' = [metrics EXCEPT ![latency] = @ + DelayDuration]
       /\ vm' = Spent(v)
       /\ agenda' = [q EXCEPT ![now + DelayDuration] = Append(@, v)]
       /\ pending' = pending \cup {v}
  ELSE /\ pending' = GivenUp(v)
       /\ metrics' = [metrics EXCEPT !.failedAllocation = @ + 1]
       /\ agenda' = q
       /\ UNCHANGED vm

OnVmRequired ==
  /\ pc = "execute" /\ agenda[now] # <<>>
  /\ LET v == Head(agenda[now])
         q == [agenda EXCEPT ![now] = Tail(@)]
     IN IF ValidPms(v) # {}
        THEN /\ pending' = pending \cup {v}
             /\ asked' = {v}
             /\ pc' = "decide"
             /\ agenda' = q
             /\ UNCHANGED <<vm, metrics>>
        ELSE /\ PostponeVmRequest(v, vm[v].remaining, "latencyResource", q)
             /\ UNCHANGED <<pc, asked>>
  /\ UNCHANGED <<nodes, killAll, now, readings, emptyNum, live, pm, arrived, ignored, completed>>

----------------------------------------------------------------------------
(* _on_action_received, for the three answers of an agent.                   *)

Answered == pc = "decide" /\ pc' = "execute" /\ asked' = {}

Ignore ==
  /\ Answered
  /\ pending' = pending \ asked
  /\ ignored' = ignored \cup asked
  /\ UNCHANGED <<nodes, killAll, now, readings, emptyNum, agenda, vm, live, pm, metrics, arrived, completed>>

StateFor(v) == IF Category[v] = "DELAY_INSENSITIVE" THEN "OVERSUBSCRIBABLE"
               ELSE "NON_OVERSUBSCRIBABLE"

Allocate(v, p) ==
  LET u == GetUtilization(vm[v].series, now) IN
  /\ Answered /\ asked = {v} /\ p \in ValidPms(v)
  /\ vm' = [vm EXCEPT ![v].host = p, ![v].created = now, ![v].deletion = now + Lifetime[v],
                      ![v].utilization = u]
  /\ pending' = pending \ {v}
  /\ live' = live \cup {v}
  /\ pm' = [pm EXCEPT ![p] =
       [cpu |-> @.cpu + Cpu[v], memory |-> @.memory + Memory[v],
        state |-> IF @.state = "EMPTY" THEN StateFor(v) ELSE @.state,
        vms |-> @.vms \cup {v},
        load |-> @.load + Cpu[v] * u]]
  /\ metrics' = [metrics EXCEPT !.allocated = @ + 1]
  /\ UNCHANGED <<nodes, killAll, now, readings, emptyNum, agenda, arrived, ignored, completed>>

Postpone(v, step) ==
  /\ Answered /\ asked = {v}
  /\ PostponeVmRequest(v, vm[v].remaining - step * DelayDuration, "latencyAgent", agenda)
  /\ UNCHANGED <<nodes, killAll, now, readings, emptyNum, live, pm, arrived, ignored, completed>>

----------------------------------------------------------------------------
(* post_step: overloaded machines, then the incomes of the tick.             *)

Price(v) == CpuPrice * Cpu[v] + MemoryPrice * Memory[v]

\* Mutant: the tick that is not paid yet is refunded too.
IncomeTillNowInclusive(v) == Price(v) * (now + 1 - vm[v].created)
IncomeTillNow(v) == Price(v) * (now - vm[v].created)

Overloaded == {p \in Machines : pm[p].load > 100 * CpuCapacity(p)}

PostStep ==
  LET hit == UNION {pm[p].vms : p \in Overloaded}
      killed == IF killAll THEN hit ELSE {}
  IN
  /\ pc = "execute" /\ agenda[now] = <<>>
  /\ live' = live \ killed
  /\ pm' = [p \in Machines |-> [pm[p] EXCEPT !.vms = @ \ killed]]
  /\ metrics' = [metrics EXCEPT
       !.oversubscriptions = @ + Cardinality({p \in Machines : /\ pm[p].state # "EMPTY"
                                                               /\ pm[p].cpu > CpuCapacity(p)}),
       !.incomes = @ - SumFunctionOnSet([v \in killed |-> IncomeTillNow(v)], killed)
                   + SumFunctionOnSet([v \in live |-> Price(v)], live \ killed),
       !.failedCompletion = @ + Cardinality(killed),
       !.overloadVms = @ + Cardinality(hit)]
  /\ IF now = LastTick THEN pc' = "done" /\ now' = now ELSE pc' = "step" /\ now' = now + 1
  /\ UNCHANGED <<nodes, killAll, readings, emptyNum, agenda, vm, pending, asked, arrived, ignored, completed>>

\* Env.reset, between two steps of the environment: the event buffer is
\* cleared and the input starts again.
Reset ==
  /\ pc \in {"decide", "done"}
  /\ now' = 0 /\ pc' = "step"
  /\ agenda' = [t \in Ticks |-> <<>>]
  /\ vm' = [v \in VMs |-> NewVm]
  /\ pending' = {} /\ live' = {} /\ asked' = {}
  /\ pm' = [p \in Machines |-> EmptyPm]
  /\ metrics' = NoMetrics /\ emptyNum' = AllEmpty
  /\ arrived' = NotArrived /\ ignored' = {} /\ completed' = {}
  /\ UNCHANGED <<nodes, killAll, readings>>

----------------------------------------------------------------------------
Done == pc = "done" /\ UNCHANGED vars

Arrivals == {s \in UNION {[1 .. n -> VMs] : n \in 0 .. 2} : IsInjective(s)}

Next ==
  \/ \E new \in Arrivals : Step(new)
  \/ OnVmRequired
  \/ Ignore
  \/ \E v \in VMs, p \in Machines : Allocate(v, p)
  \/ \E v \in VMs, step \in PostponeSteps : Postpone(v, step)
  \/ PostStep
  \/ Reset
  \/ Done

Spec == Init /\ [][Next]_vars

----------------------------------------------------------------------------
(* Properties.                                                               *)

\* What a machine has given away is what its VMs require, and the machine, the
\* table of live VMs and the VMs themselves name the same host.  This is kept
\* by pieces of code that never look at one another: _on_action_received,
\* _process_finished_vm and, where overloads kill, _overload.
ResourcesFollowVms ==
  \A p \in Machines :
    /\ pm[p].vms = {v \in live : vm[v].host = p}
    /\ pm[p].cpu = SumCpu(pm[p].vms)
    /\ pm[p].memory = SumMemory(pm[p].vms)

\* A machine is EMPTY exactly when it has no VM; one that hosts interactive
\* VMs hosts nothing else and never more than it has; and no machine exceeds
\* the rates of oversubscription, whatever was placed, finished and placed
\* again since it was last empty (_get_valid_pms).
StateFollowsVms ==
  \A p \in Machines :
    /\ pm[p].state = "EMPTY" <=> pm[p].vms = {}
    /\ \A v \in pm[p].vms : pm[p].state = StateFor(v)
    /\ LET rate(r) == IF pm[p].state = "OVERSUBSCRIBABLE" THEN r ELSE 100 IN
       /\ pm[p].cpu * 100 <= rate(MaxCpuRate) * CpuCapacity(p)
       /\ pm[p].memory * 100 <= rate(MaxMemoryRate) * MemoryCapacity(p)

\* Where overloads do not kill, every allocation is given back when it ends,
\* and the machine is again what it was.
ResourcesAccounted == ~killAll => ResourcesFollowVms /\ StateFollowsVms

\* No request is lost or counted twice: every one is waiting for its event,
\* pending, ignored by the agent, failed, or was allocated, and every
\* allocated VM is alive, completed or was killed by an overload.
RequestsAccounted ==
  LET waiting == UNION {ToSet(agenda[t]) : t \in Ticks} IN
  /\ metrics.requests = Cardinality(pending \cup waiting) + Cardinality(ignored)
                        + metrics.failedAllocation + metrics.allocated
  /\ metrics.allocated = Cardinality(live) + metrics.completed + metrics.failedCompletion

\* A pending request is asked about now or has exactly one event ahead of it,
\* and the time from its arrival to that event plus the buffer time it has
\* left is the budget: the payload, which the event and the table share, never
\* runs out of step with the events, and no request waits past its budget.
BufferTimeKept ==
  pc # "done" =>
    \A v \in pending :
      \E t \in Ticks :
        /\ IF v \in asked THEN t = now ELSE v \in ToSet(agenda[t])
        /\ \A u \in Ticks \ {t} : v \notin ToSet(agenda[u])
        /\ t >= now
        /\ t - arrived[v] + vm[v].remaining = BufferTimeBudget
        /\ vm[v].remaining >= 0

\* Every request is settled, in time.
RequestsSettled == RequestsAccounted /\ BufferTimeKept

\* A VM lives for its lifetime and no longer: while the events of a tick run,
\* every live VM is between its creation and its deletion (a deletion tick is
\* compared for equality, so one that is missed is missed for ever).
LifetimesKept ==
  pc \in {"execute", "decide"} =>
    \A v \in live : vm[v].created <= now /\ now < vm[v].created + Lifetime[v]

\* The tree above the machines is one: the frame has as many nodes as were
\* built, every machine is in the rack it names and that rack in the cluster,
\* data center, zone and region the machine names, and the levels count the same
\* machines.  While the events of a tick run, what a region shows as empty
\* are its machines that had nothing allocated when the tick began, however
\* often they were filled and emptied before.
HierarchyAddsUp ==
  /\ \A level \in DOMAIN Amounts : Amounts[level] = Len(nodes[level])
  /\ \A p \in Machines :
       LET m == nodes.pm[p + 1]
           In(level, id, child) == {k \in DOMAIN nodes[level] : child \in nodes[level][k].children} = {id + 1}
       IN  /\ In("rack", m.rack, p) /\ In("cluster", m.cluster, m.rack)
           /\ In("data_center", m.data_center, m.cluster) /\ In("zone", m.zone, m.data_center)
           /\ In("region", m.region, m.zone)
  /\ pc \in {"execute", "decide"} =>
       \A k \in DOMAIN nodes.region :
         emptyNum.region[k] =
           Cardinality({p \in Machines : /\ nodes.pm[p + 1].region = k - 1
                                         /\ pm[p].cpu = SumCpu({v \in pm[p].vms : vm[v].created = now})})

\* The provider has earned its price for every tick of every VM that is alive
\* or completed, and nothing for a VM that an overload killed: the refund of
\* _overload and the payments of _update_incomes agree on the ticks counted.
IncomeIsEarned ==
  LET until == IF pc = "done" THEN now + 1 ELSE now IN
  metrics.incomes = SumFunctionOnSet([v \in live |-> Price(v) * (until - vm[v].created)], live)
                    + SumFunctionOnSet([v \in completed |-> Price(v) * Lifetime[v]], completed)

\* Every VM has its lifetime and is paid for exactly the ticks of it.
LifetimesArePaid == LifetimesKept /\ IncomeIsEarned

-----------------------------------------------------------------------------
(* An instance for TLC. Machines of two cores and three VMs, of which two or all may share a
   machine beyond its capacity. *)
\* Two regions, the second with two data centers, one without machines; two
\* types of machine, of which the second has more memory.
MCPmConfig == <<[cpu |-> 2, memory |-> 2], [cpu |-> 2, memory |-> 3]>>
MCRackConfig == "a" :> <<[type |-> 0, amount |-> 1]>> @@ "b" :> <<[type |-> 1, amount |-> 1], [type |-> 0, amount |-> 0]>>
MCClusterConfig == "j" :> <<[type |-> "a", amount |-> 1]>> @@ "k" :> <<[type |-> "b", amount |-> 1]>>
MCArchitecture ==
  << << << <<[type |-> "j", amount |-> 1]>> >> >>,
     << << <<[type |-> "k", amount |-> 1]>>, <<[type |-> "j", amount |-> 0]>> >> >> >>

MCCpu == 1 :> 2 @@ 2 :> 1 @@ 3 :> 1
MCMemory == 1 :> 1 @@ 2 :> 2 @@ 3 :> 1
MCLifetime == 1 :> 2 @@ 2 :> 1 @@ 3 :> 2
MCMixed == 1 :> "DELAY_INSENSITIVE" @@ 2 :> "DELAY_INSENSITIVE" @@ 3 :> "INTERACTIVE"
MCInsensitive == [v \in 1 .. 3 |-> "DELAY_INSENSITIVE"]

\* Idle at first and busy later, with a reading missing; busy throughout.
MCProfiles ==
  {[t \in 0 .. LastTick |-> IF t = 1 THEN -1 ELSE IF t = 0 THEN 0 ELSE 100],
   [t \in 0 .. LastTick |-> 100]}
MCRising == {[t \in 0 .. LastTick |-> IF t <= 1 THEN 0 ELSE 100]}
=============================================================================
