------------------------- MODULE VmSchedulingProofs -------------------------
(***************************************************************************)
(* Proofs about the VM scheduling engine: that requests are settled in     *)
(* time, that resources follow the VMs, and that lifetimes are paid.       *)
(***************************************************************************)
EXTENDS VmScheduling, DataLemmas

(* What the variables hold.  The records of VMs, machines and metrics are  *)
(* given by their fields; of some fields nothing need be known.            *)
IsVm(r) ==
  /\ r = [series |-> r.series, remaining |-> r.remaining, host |-> r.host, created |-> r.created,
          deletion |-> r.deletion, utilization |-> r.utilization]
  /\ r.remaining \in Int /\ r.created \in Int /\ r.deletion \in Int

IsMachine(m) ==
  /\ m = [cpu |-> m.cpu, memory |-> m.memory, state |-> m.state, vms |-> m.vms, load |-> m.load]
  /\ m.cpu \in Int /\ m.memory \in Int /\ m.vms \subseteq VMs

IsMetrics(m) ==
  /\ m = [requests |-> m.requests, allocated |-> m.allocated, completed |-> m.completed,
          failedAllocation |-> m.failedAllocation, failedCompletion |-> m.failedCompletion,
          incomes |-> m.incomes, latencyResource |-> m.latencyResource, latencyAgent |-> m.latencyAgent,
          oversubscriptions |-> m.oversubscriptions, overloadPms |-> m.overloadPms, overloadVms |-> m.overloadVms]
  /\ m.requests \in Int /\ m.allocated \in Int /\ m.completed \in Int
  /\ m.failedAllocation \in Int /\ m.failedCompletion \in Int /\ m.incomes \in Int

TypeInv ==
  /\ nodes = Structure
  /\ now \in 0 .. LastTick /\ pc \in {"step", "execute", "decide", "done"}
  /\ vm = [v \in VMs |-> vm[v]] /\ \A v \in VMs : IsVm(vm[v])
  /\ pm = [p \in Machines |-> pm[p]] /\ \A p \in Machines : IsMachine(pm[p])
  /\ IsMetrics(metrics)
  /\ pending \subseteq VMs /\ live \subseteq VMs /\ ignored \subseteq VMs /\ completed \subseteq VMs
  /\ arrived = [v \in DOMAIN arrived |-> arrived[v]]
  /\ DOMAIN arrived \subseteq VMs /\ \A v \in DOMAIN arrived : arrived[v] \in Int

(* The events that wait: at most one for each VM.                          *)
IsAgenda(a) ==
  /\ a \in [Ticks -> Seq(VMs)]
  /\ \A t \in Ticks : IsInjective(a[t])
  /\ \A t, u \in Ticks : t # u => ToSet(a[t]) \cap ToSet(a[u]) = {}

Waiting(a) == UNION {ToSet(a[t]) : t \in Ticks}

(* A request is open while it is pending or waits for its event; the one   *)
(* that is asked about is pending and has no event.                        *)
QueueInv ==
  /\ IsAgenda(agenda)
  /\ \A t \in Ticks : t < now => agenda[t] = <<>>
  /\ asked \subseteq pending /\ asked \cap Waiting(agenda) = {}
  /\ pending \subseteq asked \cup Waiting(agenda)
  /\ IF pc = "decide" THEN \E v \in VMs : asked = {v} ELSE asked = {}

(* A VM that has arrived is in one place only.                             *)
PlaceInv ==
  LET open == pending \cup Waiting(agenda) IN
  /\ open \subseteq DOMAIN arrived /\ live \subseteq DOMAIN arrived
  /\ ignored \subseteq DOMAIN arrived /\ completed \subseteq DOMAIN arrived
  /\ open \cap live = {} /\ open \cap ignored = {} /\ open \cap completed = {}
  /\ live \cap completed = {}

(* The time a request has waited and the buffer time it has left add up.   *)
InBudget(v, t) == t - arrived[v] + vm[v].remaining = BufferTimeBudget /\ vm[v].remaining >= 0

BudgetInv ==
  /\ \A t \in Ticks : \A v \in ToSet(agenda[t]) : InBudget(v, t)
  /\ \A v \in asked : InBudget(v, now)

(* Machines, live VMs and hosts.                                           *)
HostInv == \A p \in Machines : pm[p].vms = {v \in live : vm[v].host = p}

(* Where overloads do not kill, machines give away what their VMs require. *)
AmountInv ==
  ~killAll => \A p \in Machines : pm[p].cpu = SumCpu(pm[p].vms) /\ pm[p].memory = SumMemory(pm[p].vms)

StateInv == ~killAll => StateFollowsVms

(* A VM is deleted in its tick: before step in that tick, it is still there. *)
LifeInv ==
  \A v \in live :
    /\ vm[v].deletion = vm[v].created + Lifetime[v]
    /\ IF pc = "step" THEN vm[v].created < now /\ now <= vm[v].deletion
                      ELSE vm[v].created <= now /\ now < vm[v].deletion

VmInv ==
  TypeInv /\ QueueInv /\ PlaceInv /\ BudgetInv /\ RequestsAccounted
  /\ HostInv /\ AmountInv /\ StateInv /\ LifeInv /\ IncomeIsEarned

-----------------------------------------------------------------------------
(* The data of the input.                                                  *)

LEMMA VmFacts ==
  /\ IsFiniteSet(VMs)
  /\ \A v \in VMs : Cpu[v] \in Nat \ {0} /\ Memory[v] \in Nat /\ Lifetime[v] \in Nat \ {0}
  /\ DelayDuration \in Nat \ {0} /\ BufferTimeBudget \in Nat /\ LastTick \in Nat
  /\ PostponeSteps \subseteq Nat
  /\ MaxCpuRate \in Nat /\ MaxMemoryRate \in Nat /\ CpuPrice \in Nat /\ MemoryPrice \in Nat
BY VmAssumption

LEMMA CapacityType ==
  ASSUME nodes = Structure
  PROVE  \A p \in Machines : CpuCapacity(p) \in Nat \ {0} /\ MemoryCapacity(p) \in Nat \ {0}
BY MachineTypesAssumption, StructureAssumption DEF Machines, CpuCapacity, MemoryCapacity

LEMMA PriceType == \A v \in VMs : Price(v) \in Nat
BY VmFacts DEF Price

\* A set of VMs is finite, and its sums are numbers.
LEMMA SumOfVms ==
  ASSUME NEW S, S \subseteq VMs
  PROVE  IsFiniteSet(S) /\ SumCpu(S) \in Nat /\ SumMemory(S) \in Nat /\ Cardinality(S) \in Nat
<1>1. IsFiniteSet(S) BY VmFacts, FS_Subset
<1>2. \A v \in S : Cpu[v] \in Nat /\ Memory[v] \in Nat BY VmFacts
<1> QED BY <1>1, <1>2, SumIsNatural, FS_CardinalityType DEF SumCpu, SumMemory

-----------------------------------------------------------------------------
(* The agenda as sets of VMs.                                              *)

LEMMA WaitingVms ==
  ASSUME NEW a, IsAgenda(a)
  PROVE  Waiting(a) \subseteq VMs /\ \A t \in Ticks : ToSet(a[t]) \subseteq VMs
<1>1. ASSUME NEW t \in Ticks, NEW v \in ToSet(a[t]) PROVE v \in VMs
 <2>1. a[t] \in Seq(VMs) BY DEF IsAgenda
 <2>2. PICK i \in DOMAIN a[t] : v = a[t][i] BY <1>1 DEF ToSet
 <2> QED BY <2>1, <2>2
<1> QED BY <1>1 DEF Waiting

\* b is a, but for what happens in tick t.
ChangesAt(a, b, t) ==
  /\ DOMAIN b = Ticks /\ b = [u \in Ticks |-> b[u]]
  /\ \A u \in Ticks : u # t => b[u] = a[u]

\* The event at the front of a tick is taken out.
LEMMA HeadLeaves ==
  ASSUME NEW a, IsAgenda(a), NEW t \in Ticks, a[t] # <<>>,
         NEW b, ChangesAt(a, b, t), b[t] = Tail(a[t])
  PROVE  /\ IsAgenda(b) /\ Head(a[t]) \in VMs /\ Head(a[t]) \in ToSet(a[t])
         /\ ToSet(b[t]) = ToSet(a[t]) \ {Head(a[t])}
         /\ Waiting(b) = Waiting(a) \ {Head(a[t])}
<1>1. a[t] \in Seq(VMs) /\ IsInjective(a[t]) /\ a \in [Ticks -> Seq(VMs)] BY DEF IsAgenda
<1>2. /\ Tail(a[t]) \in Seq(VMs) /\ Head(a[t]) \in VMs /\ Head(a[t]) \in ToSet(a[t])
      /\ IsInjective(Tail(a[t])) /\ ToSet(Tail(a[t])) = ToSet(a[t]) \ {Head(a[t])}
  BY <1>1, SetOfTail
<1>3. b[t] = Tail(a[t]) /\ (\A u \in Ticks : u # t => b[u] = a[u]) /\ b \in [Ticks -> Seq(VMs)]
  BY <1>1, <1>2 DEF ChangesAt
<1>4. ToSet(b[t]) = ToSet(a[t]) \ {Head(a[t])} BY <1>2, <1>3
<1>5. IsAgenda(b)
 <2>1. \A u \in Ticks : IsInjective(b[u]) BY <1>2, <1>3 DEF IsAgenda
 <2>2. \A u, w \in Ticks : u # w => ToSet(b[u]) \cap ToSet(b[w]) = {}
   BY <1>3, <1>4 DEF IsAgenda
 <2> QED BY <1>3, <2>1, <2>2 DEF IsAgenda
<1>6. Waiting(b) = Waiting(a) \ {Head(a[t])}
 <2>1. \A u \in Ticks : u # t => Head(a[t]) \notin ToSet(a[u]) BY <1>2 DEF IsAgenda
 <2> QED BY <1>3, <1>4, <2>1 DEF Waiting
<1> QED BY <1>2, <1>3, <1>4, <1>5, <1>6

\* Requests that are not in the agenda join it in a tick.
LEMMA EventsJoin ==
  ASSUME NEW a, IsAgenda(a), NEW t \in Ticks, NEW s \in Seq(VMs), IsInjective(s),
         NEW N, ToSet(s) = ToSet(a[t]) \cup N, N \cap Waiting(a) = {},
         NEW b, ChangesAt(a, b, t), b[t] = s
  PROVE  /\ IsAgenda(b)
         /\ ToSet(b[t]) = ToSet(a[t]) \cup N
         /\ Waiting(b) = Waiting(a) \cup N
<1>1. b[t] = s /\ (\A u \in Ticks : u # t => b[u] = a[u]) /\ b \in [Ticks -> Seq(VMs)]
  BY DEF IsAgenda, ChangesAt
<1>2. ToSet(b[t]) = ToSet(a[t]) \cup N BY <1>1
<1>3. IsAgenda(b)
 <2>1. \A u \in Ticks : IsInjective(b[u]) BY <1>1 DEF IsAgenda
 <2>2. \A u \in Ticks : u # t => ToSet(a[u]) \cap N = {} /\ ToSet(a[u]) \cap ToSet(a[t]) = {}
   BY DEF IsAgenda, Waiting
 <2>3. \A u, w \in Ticks : u # w => ToSet(b[u]) \cap ToSet(b[w]) = {}
   BY <1>1, <1>2, <2>2 DEF IsAgenda
 <2> QED BY <1>1, <2>1, <2>3 DEF IsAgenda
<1>4. ASSUME NEW v \in Waiting(b) PROVE v \in Waiting(a) \cup N
 <2>1. PICK u \in Ticks : v \in ToSet(b[u]) BY <1>4 DEF Waiting
 <2> QED BY <1>1, <1>2, <2>1 DEF Waiting
<1>5. ASSUME NEW v \in Waiting(a) PROVE v \in Waiting(b)
 <2>1. PICK u \in Ticks : v \in ToSet(a[u]) BY <1>5 DEF Waiting
 <2> QED BY <1>1, <1>2, <2>1 DEF Waiting
<1>6. ASSUME NEW v \in N PROVE v \in Waiting(b) BY <1>2, <1>6 DEF Waiting
<1> QED BY <1>1, <1>2, <1>3, <1>4, <1>5, <1>6

\* The same for one request, at the end of the tick.
LEMMA EventJoins ==
  ASSUME NEW a, IsAgenda(a), NEW t \in Ticks, NEW v \in VMs, v \notin Waiting(a)
  PROVE  LET b == [a EXCEPT ![t] = Append(@, v)] IN
         /\ IsAgenda(b) /\ ToSet(b[t]) = ToSet(a[t]) \cup {v} /\ Waiting(b) = Waiting(a) \cup {v}
<1> DEFINE s == Append(a[t], v)
           N == {v}
           b == [a EXCEPT ![t] = s]
<1>1. a[t] \in Seq(VMs) /\ IsInjective(a[t]) /\ v \notin ToSet(a[t]) /\ a \in [Ticks -> Seq(VMs)]
  BY DEF IsAgenda, Waiting
<1>2. s \in Seq(VMs) /\ IsInjective(s) /\ ToSet(s) = ToSet(a[t]) \cup N BY <1>1, SetOfAppend
<1>3. N \cap Waiting(a) = {} OBVIOUS
<1> HIDE DEF s, N
<1>4. ChangesAt(a, b, t) /\ b[t] = s BY <1>1 DEF ChangesAt
<1> HIDE DEF b
<1>5. /\ IsAgenda(b) /\ ToSet(b[t]) = ToSet(a[t]) \cup N
      /\ Waiting(b) = Waiting(a) \cup N
  BY <1>2, <1>3, <1>4, EventsJoin
<1> QED BY <1>5 DEF N, b, s

-----------------------------------------------------------------------------
(* What each action does to the fields of the records.                     *)

\* What the other invariants need of a VM is unchanged.
Keeps(r, q) ==
  IsVm(q) /\ q.remaining = r.remaining /\ q.host = r.host /\ q.created = r.created /\ q.deletion = r.deletion

LEMMA KeepsSame == ASSUME NEW r, IsVm(r) PROVE Keeps(r, r)
BY DEF Keeps

\* Two fields of a VM change: the readings and what is shown of them.
LEMMA KeepsReadings ==
  ASSUME NEW r, IsVm(r), NEW s, NEW u
  PROVE  Keeps(r, [r EXCEPT !.series = s]) /\ Keeps(r, [r EXCEPT !.series = s, !.utilization = u])
<1> DEFINE q == [series |-> s, remaining |-> r.remaining, host |-> r.host, created |-> r.created,
                 deletion |-> r.deletion, utilization |-> r.utilization]
<1>1. [r EXCEPT !.series = s] = q BY DEF IsVm
<1>2. [r EXCEPT !.series = s, !.utilization = u] = [q EXCEPT !.utilization = u] BY <1>1
<1>3. Keeps(r, q) BY DEF IsVm, Keeps
<1>4. Keeps(r, [q EXCEPT !.utilization = u]) BY DEF IsVm, Keeps
<1> HIDE DEF q
<1> QED BY <1>1, <1>2, <1>3, <1>4

LEMMA StepVms ==
  ASSUME TypeInv, NEW new, Step(new)
  PROVE  /\ vm' = [v \in VMs |-> vm'[v]]
         /\ \A v \in VMs : IF v \in ToSet(new) THEN IsVm(vm'[v]) /\ vm'[v].remaining = BufferTimeBudget
                           ELSE Keeps(vm[v], vm'[v])
<1> DEFINE w == Workload(live \ Finished)
<1>1. vm' = [v \in VMs |-> IF v \in ToSet(new) THEN [NewVm EXCEPT !.series = <<readings[v][now]>>] ELSE w[v]]
  BY DEF Step
<1>2. ASSUME NEW v \in VMs PROVE Keeps(vm[v], w[v])
 <2>1. IsVm(vm[v]) BY DEF TypeInv
 <2> DEFINE r == readings[v][now]
            s == AddUtilization(vm[v].series, r)
            u == IF r < 0 THEN vm[v].utilization ELSE GetUtilization(s, vm[v].created)
 <2>2. w[v] = IF v \in live \ Finished THEN [vm[v] EXCEPT !.series = s, !.utilization = u]
              ELSE IF v \in pending THEN [vm[v] EXCEPT !.series = s] ELSE vm[v]
   BY Zenon DEF Workload
 <2> HIDE DEF s, u, r, w
 <2>3. Keeps(vm[v], [vm[v] EXCEPT !.series = s]) /\ Keeps(vm[v], [vm[v] EXCEPT !.series = s, !.utilization = u])
   BY <2>1, KeepsReadings
 <2> QED BY <2>1, <2>2, <2>3, KeepsSame, Zenon
<1>3. ASSUME NEW v \in VMs
      PROVE  /\ IsVm([NewVm EXCEPT !.series = <<readings[v][now]>>])
             /\ [NewVm EXCEPT !.series = <<readings[v][now]>>].remaining = BufferTimeBudget
  BY VmFacts DEF NewVm, IsVm
<1> HIDE DEF w
<1>4. \A v \in VMs : vm'[v] = IF v \in ToSet(new) THEN [NewVm EXCEPT !.series = <<readings[v][now]>>] ELSE w[v]
  BY <1>1, Zenon
<1>5. vm' = [v \in VMs |-> vm'[v]] BY <1>1
<1>6. ASSUME NEW v \in VMs
      PROVE  IF v \in ToSet(new) THEN IsVm(vm'[v]) /\ vm'[v].remaining = BufferTimeBudget ELSE Keeps(vm[v], vm'[v])
  BY <1>2, <1>3, <1>4, Zenon
<1> QED BY <1>5, <1>6

LEMMA StepMachines ==
  ASSUME TypeInv, NEW new, Step(new)
  PROVE  /\ pm' = [p \in Machines |-> pm'[p]]
         /\ \A p \in Machines :
              /\ IsMachine(pm'[p])
              /\ pm'[p].vms = pm[p].vms \ Finished
              /\ pm'[p].cpu = pm[p].cpu - SumCpu(pm[p].vms \cap Finished)
              /\ pm'[p].memory = pm[p].memory - SumMemory(pm[p].vms \cap Finished)
              /\ pm'[p].state = IF Finished \cap pm[p].vms # {} /\ pm[p].vms \ Finished = {}
                                THEN "EMPTY" ELSE pm[p].state
<1> DEFINE w == Workload(live \ Finished)
<1>1. pm' = [p \in Machines |-> LET q == Released(p, Finished) IN [q EXCEPT !.load = LoadOf(q.vms, w)]]
  BY DEF Step
<1> HIDE DEF w
<1>2. ASSUME NEW p \in Machines
      PROVE  /\ IsMachine(pm'[p])
             /\ pm'[p].vms = pm[p].vms \ Finished
             /\ pm'[p].cpu = pm[p].cpu - SumCpu(pm[p].vms \cap Finished)
             /\ pm'[p].memory = pm[p].memory - SumMemory(pm[p].vms \cap Finished)
             /\ pm'[p].state = IF Finished \cap pm[p].vms # {} /\ pm[p].vms \ Finished = {}
                               THEN "EMPTY" ELSE pm[p].state
 <2> DEFINE m == pm[p]
            c == SumCpu(m.vms \cap Finished)
            d == SumMemory(m.vms \cap Finished)
            rest == m.vms \ Finished
            st == IF Finished \cap m.vms # {} /\ rest = {} THEN "EMPTY" ELSE m.state
            q == [cpu |-> m.cpu - c, memory |-> m.memory - d, state |-> st, vms |-> rest, load |-> m.load]
 <2>1. IsMachine(m) BY DEF TypeInv
 <2>2. m.vms \cap Finished \subseteq VMs BY <2>1 DEF IsMachine
 <2>3. c \in Int /\ d \in Int BY <2>2, SumOfVms
 <2>4. Released(p, Finished) = [m EXCEPT !.cpu = @ - c, !.memory = @ - d, !.vms = rest, !.state = IF Finished \cap m.vms # {} /\ rest = {} THEN "EMPTY" ELSE @]
   BY DEF Released
 <2> HIDE DEF c, d, m, rest
 <2>5. Released(p, Finished) = q BY <2>1, <2>4 DEF IsMachine
 <2> DEFINE l == LoadOf(q.vms, w)
 <2>6. pm'[p] = [q EXCEPT !.load = l] BY <1>1, <2>5
 <2>7. pm'[p] = [cpu |-> m.cpu - c, memory |-> m.memory - d, state |-> st, vms |-> rest, load |-> l]
  <3> HIDE DEF l
  <3> QED BY <2>6
 <2>8. rest \subseteq VMs BY <2>1 DEF rest, IsMachine
 <2>9. m.cpu \in Int /\ m.memory \in Int BY <2>1 DEF IsMachine
 <2> HIDE DEF l, st
 <2>10. IsMachine(pm'[p]) BY <2>3, <2>7, <2>8, <2>9 DEF IsMachine
 <2>11. pm'[p].vms = rest /\ pm'[p].cpu = m.cpu - c /\ pm'[p].memory = m.memory - d /\ pm'[p].state = st
   BY <2>7
 <2> QED BY <2>10, <2>11 DEF rest, m, c, d, st
<1>3. pm' = [p \in Machines |-> pm'[p]] BY <1>1
<1> QED BY <1>2, <1>3

\* The counters of a tick's requests and of the VMs that end.
LEMMA StepMetrics ==
  ASSUME TypeInv, NEW new \in Seq(VMs), Step(new)
  PROVE  /\ IsMetrics(metrics')
         /\ metrics'.requests = metrics.requests + Len(new)
         /\ metrics'.completed = metrics.completed + Cardinality(Finished)
         /\ metrics'.allocated = metrics.allocated
         /\ metrics'.failedAllocation = metrics.failedAllocation
         /\ metrics'.failedCompletion = metrics.failedCompletion
         /\ metrics'.incomes = metrics.incomes
<1> DEFINE m == metrics
           c == Cardinality(Finished)
           n == Len(new)
<1>1. metrics' = [m EXCEPT !.completed = @ + c, !.requests = @ + n] BY DEF Step
<1>2. c \in Int /\ n \in Int
 <2>1. Finished \subseteq VMs BY DEF Finished, TypeInv
 <2> QED BY <2>1, SumOfVms
<1>3. IsMetrics(m) BY DEF TypeInv
<1> HIDE DEF c, n, m
<1>4. metrics' = [requests |-> m.requests + n, allocated |-> m.allocated, completed |-> m.completed + c,
          failedAllocation |-> m.failedAllocation, failedCompletion |-> m.failedCompletion,
          incomes |-> m.incomes, latencyResource |-> m.latencyResource, latencyAgent |-> m.latencyAgent,
          oversubscriptions |-> m.oversubscriptions, overloadPms |-> m.overloadPms, overloadVms |-> m.overloadVms]
  BY <1>1, <1>3 DEF IsMetrics
<1>5. IsMetrics(metrics') BY <1>2, <1>3, <1>4 DEF IsMetrics
<1> QED BY <1>4, <1>5 DEF m, c, n

LEMMA AllocateFields ==
  ASSUME TypeInv, NEW v \in VMs, NEW p \in Machines, Allocate(v, p)
  PROVE  /\ vm' = [x \in VMs |-> vm'[x]] /\ \A x \in VMs \ {v} : vm'[x] = vm[x]
         /\ IsVm(vm'[v]) /\ vm'[v].host = p /\ vm'[v].created = now /\ vm'[v].deletion = now + Lifetime[v]
         /\ pm' = [x \in Machines |-> pm'[x]] /\ \A x \in Machines \ {p} : pm'[x] = pm[x]
         /\ IsMachine(pm'[p]) /\ pm'[p].cpu = pm[p].cpu + Cpu[v] /\ pm'[p].memory = pm[p].memory + Memory[v]
         /\ pm'[p].state = IF pm[p].state = "EMPTY" THEN StateFor(v) ELSE pm[p].state
         /\ pm'[p].vms = pm[p].vms \cup {v}
<1>1. IsVm(vm[v]) /\ IsMachine(pm[p]) BY DEF TypeInv
<1> DEFINE r == vm[v]
           u == GetUtilization(vm[v].series, now)
           d == now + Lifetime[v]
<1>2. vm' = [vm EXCEPT ![v].host = p, ![v].created = now, ![v].deletion = d, ![v].utilization = u]
  BY DEF Allocate
<1>3. d \in Int /\ now \in Int BY VmFacts DEF TypeInv
<1>4. vm = [x \in VMs |-> vm[x]] BY DEF TypeInv
<1> HIDE DEF u, d
<1>5. vm'[v] = [series |-> r.series, remaining |-> r.remaining, host |-> p, created |-> now,
                deletion |-> d, utilization |-> u]
  BY <1>1, <1>2, <1>4 DEF IsVm
<1>6. IsVm(vm'[v]) /\ vm'[v].host = p /\ vm'[v].created = now /\ vm'[v].deletion = d
  BY <1>1, <1>3, <1>5 DEF IsVm
<1>7. vm' = [x \in VMs |-> vm'[x]] /\ \A x \in VMs \ {v} : vm'[x] = vm[x] BY <1>2, <1>4
<1> DEFINE st == IF pm[p].state = "EMPTY" THEN StateFor(v) ELSE pm[p].state
           new == [cpu |-> pm[p].cpu + Cpu[v], memory |-> pm[p].memory + Memory[v], state |-> st,
                   vms |-> pm[p].vms \cup {v}, load |-> pm[p].load + Cpu[v] * u]
<1>8. pm' = [pm EXCEPT ![p] = new] BY DEF Allocate, u
<1>9. pm = [x \in Machines |-> pm[x]] BY DEF TypeInv
<1>10. pm'[p] = new /\ pm' = [x \in Machines |-> pm'[x]] /\ \A x \in Machines \ {p} : pm'[x] = pm[x]
 <2> HIDE DEF new
 <2> QED BY <1>8, <1>9
<1>11. IsMachine(new)
 <2> DEFINE l == pm[p].load + Cpu[v] * u
 <2> HIDE DEF l, st
 <2> QED BY <1>1, VmFacts DEF IsMachine
<1>12. pm'[p].cpu = pm[p].cpu + Cpu[v] /\ pm'[p].memory = pm[p].memory + Memory[v]
       /\ pm'[p].state = st /\ pm'[p].vms = pm[p].vms \cup {v}
 <2> HIDE DEF st
 <2> QED BY <1>10
<1> QED BY <1>6, <1>7, <1>10, <1>11, <1>12 DEF d

\* A counter goes up by one, and nothing else of what the invariants read.
Counts(m, a, f, c, i) ==
  /\ IsMetrics(m)
  /\ m.requests = metrics.requests /\ m.completed = metrics.completed
  /\ m.allocated = metrics.allocated + a /\ m.failedAllocation = metrics.failedAllocation + f
  /\ m.failedCompletion = metrics.failedCompletion + c /\ m.incomes = metrics.incomes + i

LEMMA PlainMetrics ==
  ASSUME IsMetrics(metrics)
  PROVE  /\ Counts(metrics, 0, 0, 0, 0)
         /\ Counts([metrics EXCEPT !.allocated = @ + 1], 1, 0, 0, 0)
         /\ Counts([metrics EXCEPT !.failedAllocation = @ + 1], 0, 1, 0, 0)
         /\ Counts([metrics EXCEPT !.latencyResource = @ + DelayDuration], 0, 0, 0, 0)
         /\ Counts([metrics EXCEPT !.latencyAgent = @ + DelayDuration], 0, 0, 0, 0)
<1>1. Counts(metrics, 0, 0, 0, 0) BY DEF Counts, IsMetrics
<1>2. Counts([metrics EXCEPT !.allocated = @ + 1], 1, 0, 0, 0) BY DEF Counts, IsMetrics
<1>3. Counts([metrics EXCEPT !.failedAllocation = @ + 1], 0, 1, 0, 0)
  BY DEF Counts, IsMetrics
<1> DEFINE d == DelayDuration
<1> HIDE DEF d
<1>4. Counts([metrics EXCEPT !.latencyResource = @ + d], 0, 0, 0, 0)
  BY DEF Counts, IsMetrics
<1>5. Counts([metrics EXCEPT !.latencyAgent = @ + d], 0, 0, 0, 0) BY DEF Counts, IsMetrics
<1> QED BY <1>1, <1>2, <1>3, <1>4, <1>5 DEF d

\* _postpone_vm_request tries again later, or gives up.
LEMMA PostponeFields ==
  ASSUME TypeInv, NEW v \in VMs, NEW remaining \in Int, NEW latency \in {"latencyResource", "latencyAgent"}, NEW q,
         PostponeVmRequest(v, remaining, latency, q)
  PROVE  \/ /\ remaining >= DelayDuration
            /\ Counts(metrics', 0, 0, 0, 0)
            /\ vm' = [x \in VMs |-> vm'[x]] /\ \A x \in VMs \ {v} : vm'[x] = vm[x]
            /\ IsVm(vm'[v]) /\ vm'[v].remaining = vm[v].remaining - DelayDuration
            /\ agenda' = [q EXCEPT ![now + DelayDuration] = Append(@, v)]
            /\ pending' = pending \cup {v}
         \/ /\ Counts(metrics', 0, 1, 0, 0)
            /\ vm' = vm /\ agenda' = q /\ pending' = pending \ {v}
<1>1. IsMetrics(metrics) /\ IsVm(vm[v]) /\ vm = [x \in VMs |-> vm[x]] /\ DelayDuration \in Int
  BY VmFacts DEF TypeInv
<1>2. CASE remaining >= DelayDuration
 <2>1. /\ metrics' = [metrics EXCEPT ![latency] = @ + DelayDuration]
       /\ vm' = Spent(v)
       /\ agenda' = [q EXCEPT ![now + DelayDuration] = Append(@, v)]
       /\ pending' = pending \cup {v}
   BY <1>2 DEF PostponeVmRequest
 <2>2. Counts(metrics', 0, 0, 0, 0)
  <3>1. CASE latency = "latencyResource" BY <3>1, <2>1, <1>1, PlainMetrics
  <3>2. CASE latency = "latencyAgent" BY <3>2, <2>1, <1>1, PlainMetrics
  <3> QED BY <3>1, <3>2
 <2>3. vm' = [vm EXCEPT ![v].remaining = vm[v].remaining - DelayDuration] BY <2>1 DEF Spent
 <2>4. vm' = [x \in VMs |-> vm'[x]] /\ \A x \in VMs \ {v} : vm'[x] = vm[x] BY <1>1, <2>3
 <2> DEFINE r == vm[v]
            d == vm[v].remaining - DelayDuration
 <2>5. vm'[v] = [series |-> r.series, remaining |-> d, host |-> r.host,
                 created |-> r.created, deletion |-> r.deletion, utilization |-> r.utilization]
  <3>1. vm'[v] = [r EXCEPT !.remaining = d] BY <1>1, <2>3
  <3> HIDE DEF d
  <3> QED BY <3>1, <1>1 DEF IsVm
 <2>6. d \in Int BY <1>1 DEF IsVm
 <2>7. IsVm(vm'[v]) /\ vm'[v].remaining = d
  <3> HIDE DEF d
  <3> QED BY <1>1, <2>5, <2>6 DEF IsVm
 <2> QED BY <1>2, <2>1, <2>2, <2>4, <2>7
<1>3. CASE ~(remaining >= DelayDuration)
 <2>1. /\ metrics' = [metrics EXCEPT !.failedAllocation = @ + 1]
       /\ vm' = vm /\ agenda' = q /\ pending' = pending \ {v}
   BY <1>3 DEF PostponeVmRequest, GivenUp
 <2>2. Counts(metrics', 0, 1, 0, 0) BY <2>1, <1>1, PlainMetrics
 <2> QED BY <2>1, <2>2
<1> QED BY <1>2, <1>3

-----------------------------------------------------------------------------
(* Requests.                                                               *)

\* A request that is handled: b is what the agenda holds without it.
TakenUp(v, b) ==
  /\ IsAgenda(b) /\ v \in VMs /\ v \notin Waiting(b)
  /\ pending \cup Waiting(agenda) = Waiting(b) \cup {v}
  /\ pending \ {v} \subseteq Waiting(b)
  /\ \A t \in Ticks : ToSet(b[t]) \subseteq ToSet(agenda[t]) /\ (t < now => b[t] = <<>>)
  /\ InBudget(v, now)

LEMMA NowIsATick ==
  ASSUME TypeInv
  PROVE  now \in Ticks /\ now \in Int /\ now + DelayDuration \in Ticks /\ \A t \in Ticks : t \in Int
BY VmFacts DEF TypeInv, Ticks

LEMMA AskedIsTakenUp ==
  ASSUME TypeInv, QueueInv, BudgetInv, NEW v, asked = {v}
  PROVE  TakenUp(v, agenda)
BY DEF QueueInv, BudgetInv, TypeInv, TakenUp

LEMMA HeadIsTakenUp ==
  ASSUME TypeInv, QueueInv, BudgetInv, pc # "decide", agenda[now] # <<>>,
         NEW b, b = [agenda EXCEPT ![now] = Tail(@)]
  PROVE  TakenUp(Head(agenda[now]), b)
<1> DEFINE v == Head(agenda[now])
<1>1. IsAgenda(agenda) /\ agenda \in [Ticks -> Seq(VMs)] /\ now \in Ticks /\ asked = {}
  BY NowIsATick DEF QueueInv, IsAgenda
<1>2. ChangesAt(agenda, b, now) /\ b[now] = Tail(agenda[now]) BY <1>1 DEF ChangesAt
<1>3. /\ IsAgenda(b) /\ v \in VMs /\ v \in ToSet(agenda[now])
      /\ ToSet(b[now]) = ToSet(agenda[now]) \ {v}
      /\ Waiting(b) = Waiting(agenda) \ {v}
  BY <1>1, <1>2, HeadLeaves
<1> HIDE DEF v
<1>4. v \in Waiting(agenda) /\ pending \subseteq Waiting(agenda)
  BY <1>1, <1>3 DEF Waiting, QueueInv
<1>5. pending \cup Waiting(agenda) = Waiting(b) \cup {v} /\ pending \ {v} \subseteq Waiting(b)
  BY <1>3, <1>4
<1>6. \A t \in Ticks : ToSet(b[t]) \subseteq ToSet(agenda[t]) BY <1>2, <1>3 DEF ChangesAt
<1>7. \A t \in Ticks : t < now => b[t] = <<>>
 <2>1. \A t \in Ticks : t < now => t # now BY NowIsATick
 <2> QED BY <1>2, <2>1 DEF ChangesAt, QueueInv
<1>8. InBudget(v, now) BY <1>1, <1>3 DEF BudgetInv
<1>9. TakenUp(v, b) BY <1>3, <1>5, <1>6, <1>7, <1>8 DEF TakenUp
<1> QED BY <1>9 DEF v

\* The equations of RequestsAccounted, for any open requests.
Accounted(open, ign, alive, m) ==
  /\ m.requests = Cardinality(open) + Cardinality(ign) + m.failedAllocation + m.allocated
  /\ m.allocated = Cardinality(alive) + m.completed + m.failedCompletion

LEMMA AccountedIs ==
  /\ RequestsAccounted <=> Accounted(pending \cup Waiting(agenda), ignored, live, metrics)
  /\ RequestsAccounted' <=> Accounted(pending' \cup Waiting(agenda'), ignored', live', metrics')
BY DEF RequestsAccounted, Accounted, Waiting

\* A request that is handled leaves the open ones, for one of three reasons.
LEMMA AccountedFor ==
  ASSUME TypeInv, NEW v \in VMs, NEW open, open \subseteq VMs, v \notin open,
         Accounted(open \cup {v}, ignored, live, metrics), NEW m
  PROVE  /\ Counts(m, 0, 0, 0, 0) => Accounted(open \cup {v}, ignored, live, m)
         /\ Counts(m, 0, 1, 0, 0) => Accounted(open, ignored, live, m)
         /\ Counts(m, 0, 0, 0, 0) /\ v \notin ignored => Accounted(open, ignored \cup {v}, live, m)
         /\ Counts(m, 1, 0, 0, 0) /\ v \notin live => Accounted(open, ignored, live \cup {v}, m)
<1>1. IsFiniteSet(open) /\ IsFiniteSet(ignored) /\ IsFiniteSet(live)
      /\ Cardinality(open) \in Nat /\ Cardinality(ignored) \in Nat /\ Cardinality(live) \in Nat
  BY SumOfVms DEF TypeInv
<1>2. Cardinality(open \cup {v}) = Cardinality(open) + 1 BY <1>1, FS_AddElement
<1>3. v \notin ignored => Cardinality(ignored \cup {v}) = Cardinality(ignored) + 1
  BY <1>1, FS_AddElement
<1>4. v \notin live => Cardinality(live \cup {v}) = Cardinality(live) + 1
  BY <1>1, FS_AddElement
<1>5. IsMetrics(metrics) BY DEF TypeInv
<1> DEFINE o == Cardinality(open)
           i == Cardinality(ignored)
           l == Cardinality(live)
           M == metrics
<1>6. o \in Nat /\ i \in Nat /\ l \in Nat BY <1>1
<1>7. M.requests = o + 1 + i + M.failedAllocation + M.allocated /\ M.allocated = l + M.completed + M.failedCompletion
  BY <1>2 DEF Accounted
<1>8. /\ M.requests \in Int /\ M.allocated \in Int /\ M.completed \in Int
      /\ M.failedAllocation \in Int /\ M.failedCompletion \in Int
  BY <1>5 DEF IsMetrics
<1> HIDE DEF o, i, l, M
<1>9. Counts(m, 0, 0, 0, 0) => Accounted(open \cup {v}, ignored, live, m)
  BY <1>2, <1>6, <1>7, <1>8 DEF Counts, Accounted, o, i, l, M
<1>10. Counts(m, 0, 1, 0, 0) => Accounted(open, ignored, live, m)
  BY <1>6, <1>7, <1>8 DEF Counts, Accounted, o, i, l, M
<1>11. Counts(m, 0, 0, 0, 0) /\ v \notin ignored => Accounted(open, ignored \cup {v}, live, m)
  BY <1>3, <1>6, <1>7, <1>8 DEF Counts, Accounted, o, i, l, M
<1>12. Counts(m, 1, 0, 0, 0) /\ v \notin live => Accounted(open, ignored, live \cup {v}, m)
  BY <1>4, <1>6, <1>7, <1>8 DEF Counts, Accounted, o, i, l, M
<1> QED BY <1>9, <1>10, <1>11, <1>12

RequestInv == QueueInv /\ PlaceInv /\ BudgetInv /\ RequestsAccounted

\* A postponed request waits for a later tick.
LEMMA RequestReturns ==
  ASSUME TypeInv, RequestInv, NEW v, NEW b, TakenUp(v, b),
         agenda' = [b EXCEPT ![now + DelayDuration] = Append(@, v)],
         pending' = pending \cup {v}, asked' = {}, pc' = "execute", now' = now, arrived' = arrived,
         live' = live, ignored' = ignored, completed' = completed,
         \A x \in VMs \ {v} : vm'[x] = vm[x],
         vm[v].remaining >= DelayDuration, vm'[v].remaining = vm[v].remaining - DelayDuration,
         Counts(metrics', 0, 0, 0, 0)
  PROVE  RequestInv'
<1> DEFINE later == now + DelayDuration
<1>1. IsAgenda(b) /\ b \in [Ticks -> Seq(VMs)] /\ later \in Ticks /\ now \in Int /\ v \in VMs /\ v \notin Waiting(b)
  BY NowIsATick DEF TakenUp, IsAgenda
<1>2. ChangesAt(b, agenda', later) BY <1>1 DEF ChangesAt
<1>3. /\ IsAgenda(agenda') /\ ToSet(agenda'[later]) = ToSet(b[later]) \cup {v}
      /\ Waiting(agenda') = Waiting(b) \cup {v}
  BY <1>1, EventJoins
<1> HIDE DEF later
<1>4. later \in Int /\ later > now /\ DelayDuration \in Int /\ IsVm(vm[v]) /\ BufferTimeBudget \in Int
  BY <1>1, VmFacts DEF TypeInv, later
<1>5. later - arrived[v] + vm'[v].remaining = now - arrived[v] + vm[v].remaining /\ vm'[v].remaining >= 0
 <2>1. v \in DOMAIN arrived BY DEF RequestInv, PlaceInv, TakenUp
 <2>2. arrived[v] \in Int /\ vm[v].remaining \in Int BY <2>1, <1>4 DEF TypeInv, IsVm
 <2> DEFINE old == vm[v].remaining
            new == vm'[v].remaining
            came == arrived[v]
 <2>3. old \in Int /\ came \in Int /\ old >= DelayDuration /\ new = old - DelayDuration
   BY <2>2
 <2> HIDE DEF old, new, came
 <2>4. later - came + new = now - came + old /\ new >= 0 BY <2>3, <1>1, <1>4 DEF later
 <2> QED BY <2>4 DEF old, new, came
<1>6. pending' \cup Waiting(agenda') = pending \cup Waiting(agenda) BY <1>3 DEF TakenUp
<1>7. QueueInv'
 <2>1. \A t \in Ticks : t < now => agenda'[t] = <<>>
  <3>1. \A t \in Ticks : t < now => t # later BY <1>1, <1>4, NowIsATick
  <3> QED BY <3>1, <1>2 DEF ChangesAt, TakenUp
 <2>2. pending' \subseteq Waiting(agenda') BY <1>3 DEF TakenUp
 <2> QED BY <1>3, <2>1, <2>2 DEF QueueInv
<1>8. PlaceInv' BY <1>6 DEF PlaceInv, RequestInv
<1>9. BudgetInv'
 <2>1. ASSUME NEW t \in Ticks, NEW x \in ToSet(agenda'[t])
       PROVE  t - arrived'[x] + vm'[x].remaining = BufferTimeBudget /\ vm'[x].remaining >= 0
  <3>1. CASE x = v /\ t = later
   <4>1. InBudget(v, now) BY DEF TakenUp
   <4> QED BY <3>1, <4>1, <1>5 DEF InBudget, later
  <3>2. CASE x \in ToSet(b[t])
   <4>1. x # v BY <3>2, <1>1 DEF Waiting
   <4>2. x \in VMs /\ x \in ToSet(agenda[t]) BY <3>2, <1>1, WaitingVms DEF TakenUp
   <4>3. InBudget(x, t) BY <4>2 DEF BudgetInv, RequestInv
   <4>4. vm'[x] = vm[x] BY <4>1, <4>2
   <4> QED BY <4>3, <4>4 DEF InBudget
  <3>3. t # later => x \in ToSet(b[t]) BY <2>1, <1>2 DEF ChangesAt
  <3>4. t = later => x \in ToSet(b[t]) \/ x = v BY <2>1, <1>3
  <3> QED BY <3>1, <3>2, <3>3, <3>4
 <2> QED BY <2>1 DEF BudgetInv, InBudget
<1>10. RequestsAccounted'
 <2> DEFINE open == Waiting(b) \ {v}
 <2>1. open \subseteq VMs /\ v \notin open /\ open \cup {v} = pending \cup Waiting(agenda)
   BY <1>1, WaitingVms DEF TakenUp
 <2>2. Accounted(open \cup {v}, ignored, live, metrics) BY <2>1, AccountedIs DEF RequestInv
 <2>3. Accounted(open \cup {v}, ignored, live, metrics')
  <3> HIDE DEF open
  <3> QED BY <1>1, <2>1, <2>2, AccountedFor
 <2> QED BY <2>1, <2>3, <1>6, AccountedIs
<1> QED BY <1>7, <1>8, <1>9, <1>10 DEF RequestInv

\* A request that is given up, ignored or placed leaves for good.
LEMMA RequestLeaves ==
  ASSUME TypeInv, RequestInv, NEW v, NEW b, TakenUp(v, b),
         agenda' = b, pending' = pending \ {v}, asked' = {}, pc' = "execute", now' = now, arrived' = arrived,
         completed' = completed, \A x \in VMs \ {v} : vm'[x] = vm[x],
         \/ Counts(metrics', 0, 1, 0, 0) /\ ignored' = ignored /\ live' = live
         \/ Counts(metrics', 0, 0, 0, 0) /\ ignored' = ignored \cup {v} /\ live' = live
         \/ Counts(metrics', 1, 0, 0, 0) /\ ignored' = ignored /\ live' = live \cup {v}
  PROVE  RequestInv'
<1>1. IsAgenda(b) /\ b \in [Ticks -> Seq(VMs)] /\ now \in Int /\ v \in VMs /\ v \notin Waiting(b)
  BY NowIsATick DEF TakenUp, IsAgenda
<1>2. pending' \cup Waiting(agenda') = Waiting(b) /\ pending \cup Waiting(agenda) = Waiting(b) \cup {v}
  BY DEF TakenUp
<1>3. QueueInv'
 <2>1. pending' \subseteq Waiting(agenda') BY DEF TakenUp
 <2> QED BY <1>1, <2>1 DEF QueueInv, TakenUp
<1>4. PlaceInv'
 <2> DEFINE open == pending \cup Waiting(agenda)
            rest == Waiting(b)
 <2>1. /\ open \subseteq DOMAIN arrived /\ live \subseteq DOMAIN arrived
       /\ ignored \subseteq DOMAIN arrived /\ completed \subseteq DOMAIN arrived
       /\ open \cap live = {} /\ open \cap ignored = {} /\ open \cap completed = {}
       /\ live \cap completed = {}
   BY DEF RequestInv, PlaceInv
 <2>2. rest \subseteq open /\ v \in open /\ v \notin rest BY <1>1, <1>2
 <2>3. ignored' \subseteq ignored \cup {v} /\ live' \subseteq live \cup {v} /\ completed' = completed
   OBVIOUS
 <2> HIDE DEF open, rest
 <2>4. /\ rest \subseteq DOMAIN arrived' /\ live' \subseteq DOMAIN arrived'
       /\ ignored' \subseteq DOMAIN arrived' /\ completed' \subseteq DOMAIN arrived'
       /\ rest \cap live' = {} /\ rest \cap ignored' = {} /\ rest \cap completed' = {}
       /\ live' \cap completed' = {}
   BY <2>1, <2>2, <2>3
 <2> QED BY <2>4, <1>2 DEF PlaceInv, rest
<1>5. BudgetInv'
 <2>1. ASSUME NEW t \in Ticks, NEW x \in ToSet(agenda'[t])
       PROVE  t - arrived'[x] + vm'[x].remaining = BufferTimeBudget /\ vm'[x].remaining >= 0
  <3>1. x # v BY <2>1, <1>1 DEF Waiting
  <3>2. x \in VMs /\ x \in ToSet(agenda[t]) BY <2>1, <1>1, WaitingVms DEF TakenUp
  <3>3. InBudget(x, t) BY <3>2 DEF BudgetInv, RequestInv
  <3>4. vm'[x] = vm[x] BY <3>1, <3>2
  <3> QED BY <3>3, <3>4 DEF InBudget
 <2> QED BY <2>1 DEF BudgetInv, InBudget
<1>6. RequestsAccounted'
 <2> DEFINE open == Waiting(b)
 <2>1. open \subseteq VMs /\ v \notin open /\ open \cup {v} = pending \cup Waiting(agenda)
   BY <1>1, <1>2, WaitingVms
 <2>2. Accounted(open \cup {v}, ignored, live, metrics) BY <2>1, AccountedIs DEF RequestInv
 <2>3. v \notin ignored /\ v \notin live BY <2>1 DEF RequestInv, PlaceInv
 <2>4. Accounted(open, ignored', live', metrics')
  <3> HIDE DEF open
  <3>1. /\ Counts(metrics', 0, 1, 0, 0) => Accounted(open, ignored, live, metrics')
        /\ Counts(metrics', 0, 0, 0, 0) => Accounted(open, ignored \cup {v}, live, metrics')
        /\ Counts(metrics', 1, 0, 0, 0) => Accounted(open, ignored, live \cup {v}, metrics')
    BY <1>1, <2>1, <2>2, <2>3, AccountedFor
  <3> QED BY <3>1
 <2> QED BY <2>4, <1>2, AccountedIs
<1> QED BY <1>3, <1>4, <1>5, <1>6 DEF RequestInv

\* _on_vm_required: the agent is asked, or the request is postponed or given up.
LEMMA RequiredKeepsRequests ==
  ASSUME TypeInv, RequestInv, OnVmRequired
  PROVE  RequestInv'
<1> DEFINE v == Head(agenda[now])
           q == [agenda EXCEPT ![now] = Tail(@)]
<1>1. /\ pc = "execute" /\ agenda[now] # <<>> /\ now' = now /\ live' = live /\ arrived' = arrived
      /\ ignored' = ignored /\ completed' = completed
  BY DEF OnVmRequired
<1>2. TakenUp(v, q) /\ asked = {}
 <2>1. asked = {} BY <1>1 DEF RequestInv, QueueInv
 <2>2. pc # "decide" BY <1>1
 <2> QED BY <1>1, <2>1, <2>2, HeadIsTakenUp DEF RequestInv
<1>3. v \in VMs /\ vm[v].remaining \in Int BY <1>2 DEF TakenUp, TypeInv, IsVm
<1>4. CASE ValidPms(v) # {}
 <2>1. /\ pending' = pending \cup {v} /\ asked' = {v} /\ pc' = "decide" /\ agenda' = q
       /\ vm' = vm /\ metrics' = metrics
   BY <1>4 DEF OnVmRequired
 <2> HIDE DEF v, q
 <2>2. pending' \cup Waiting(agenda') = pending \cup Waiting(agenda)
   BY <1>2, <2>1 DEF TakenUp
 <2>3. QueueInv'
  <3>1. pending' \subseteq {v} \cup Waiting(q) /\ v \in pending' /\ v \notin Waiting(q)
    BY <1>2, <2>1 DEF TakenUp
  <3> QED BY <1>1, <1>2, <1>3, <2>1, <3>1 DEF QueueInv, TakenUp
 <2>4. PlaceInv' BY <1>1, <2>2 DEF PlaceInv, RequestInv
 <2>5. BudgetInv'
  <3>1. \A t \in Ticks : \A x \in ToSet(agenda'[t]) : InBudget(x, t)
    BY <1>2, <2>1 DEF TakenUp, RequestInv, BudgetInv
  <3>2. InBudget(v, now) BY <1>2 DEF TakenUp
  <3> QED BY <1>1, <2>1, <3>1, <3>2 DEF BudgetInv, InBudget
 <2>6. RequestsAccounted' BY <1>1, <2>1, <2>2, AccountedIs DEF RequestInv
 <2> QED BY <2>3, <2>4, <2>5, <2>6 DEF RequestInv
<1>5. CASE ValidPms(v) = {}
 <2>1. PostponeVmRequest(v, vm[v].remaining, "latencyResource", q) /\ pc' = pc /\ asked' = asked
   BY <1>5 DEF OnVmRequired
 <2> DEFINE r == vm[v].remaining
            l == "latencyResource"
 <2>2. PostponeVmRequest(v, r, l, q) /\ r \in Int /\ l \in {"latencyResource", "latencyAgent"}
   BY <1>3, <2>1
 <2> HIDE DEF v, q
 <2>3. \/ /\ r >= DelayDuration
          /\ Counts(metrics', 0, 0, 0, 0)
          /\ \A x \in VMs \ {v} : vm'[x] = vm[x]
          /\ vm'[v].remaining = vm[v].remaining - DelayDuration
          /\ agenda' = [q EXCEPT ![now + DelayDuration] = Append(@, v)]
          /\ pending' = pending \cup {v}
       \/ /\ Counts(metrics', 0, 1, 0, 0)
          /\ vm' = vm /\ agenda' = q /\ pending' = pending \ {v}
  <3> HIDE DEF r, l
  <3> QED BY <1>3, <2>2, PostponeFields
 <2>4. pc' = "execute" /\ asked' = {} BY <1>1, <1>2, <2>1
 <2>5. CASE /\ r >= DelayDuration
            /\ Counts(metrics', 0, 0, 0, 0)
            /\ \A x \in VMs \ {v} : vm'[x] = vm[x]
            /\ vm'[v].remaining = vm[v].remaining - DelayDuration
            /\ agenda' = [q EXCEPT ![now + DelayDuration] = Append(@, v)]
            /\ pending' = pending \cup {v}
   BY <1>1, <1>2, <2>4, <2>5, RequestReturns
 <2>6. CASE /\ Counts(metrics', 0, 1, 0, 0)
            /\ vm' = vm /\ agenda' = q /\ pending' = pending \ {v}
   BY <1>1, <1>2, <2>4, <2>6, RequestLeaves
 <2> QED BY <2>3, <2>5, <2>6
<1> QED BY <1>4, <1>5

\* The answers of the agent: ignore, allocate, postpone.
LEMMA IgnoreKeepsRequests ==
  ASSUME TypeInv, RequestInv, Ignore
  PROVE  RequestInv'
<1>1. /\ pc = "decide" /\ pc' = "execute" /\ asked' = {} /\ pending' = pending \ asked
      /\ ignored' = ignored \cup asked
      /\ now' = now /\ agenda' = agenda /\ vm' = vm /\ live' = live /\ metrics' = metrics
      /\ arrived' = arrived /\ completed' = completed
  BY DEF Ignore, Answered
<1>2. PICK v \in VMs : asked = {v} BY <1>1 DEF RequestInv, QueueInv
<1>3. TakenUp(v, agenda) BY <1>2, AskedIsTakenUp DEF RequestInv
<1>4. Counts(metrics', 0, 0, 0, 0) BY <1>1, PlainMetrics DEF TypeInv
<1>5. pending' = pending \ {v} /\ ignored' = ignored \cup {v} /\ \A x \in VMs \ {v} : vm'[x] = vm[x]
  BY <1>1, <1>2
<1> QED BY <1>1, <1>3, <1>4, <1>5, RequestLeaves

LEMMA AllocateKeepsRequests ==
  ASSUME TypeInv, RequestInv, NEW v \in VMs, NEW p \in Machines, Allocate(v, p)
  PROVE  RequestInv'
<1>1. /\ pc = "decide" /\ pc' = "execute" /\ asked = {v} /\ asked' = {} /\ pending' = pending \ {v}
      /\ live' = live \cup {v} /\ metrics' = [metrics EXCEPT !.allocated = @ + 1]
      /\ now' = now /\ agenda' = agenda /\ arrived' = arrived /\ ignored' = ignored /\ completed' = completed
  BY DEF Allocate, Answered
<1>2. TakenUp(v, agenda) BY <1>1, AskedIsTakenUp DEF RequestInv
<1>3. Counts(metrics', 1, 0, 0, 0) BY <1>1, PlainMetrics DEF TypeInv
<1>4. \A x \in VMs \ {v} : vm'[x] = vm[x] BY AllocateFields
<1> QED BY <1>1, <1>2, <1>3, <1>4, RequestLeaves

LEMMA PostponeKeepsRequests ==
  ASSUME TypeInv, RequestInv, NEW v \in VMs, NEW step \in PostponeSteps, Postpone(v, step)
  PROVE  RequestInv'
<1> DEFINE r == vm[v].remaining - step * DelayDuration
           l == "latencyAgent"
           q == agenda
<1>1. /\ pc = "decide" /\ pc' = "execute" /\ asked = {v} /\ asked' = {}
      /\ PostponeVmRequest(v, r, l, q)
      /\ now' = now /\ live' = live /\ arrived' = arrived /\ ignored' = ignored /\ completed' = completed
  BY DEF Postpone, Answered
<1>2. TakenUp(v, q) BY <1>1, AskedIsTakenUp DEF RequestInv
<1>3. r \in Int /\ (r >= DelayDuration => vm[v].remaining >= DelayDuration)
 <2>1. vm[v].remaining \in Int BY DEF TypeInv, IsVm
 <2>2. step \in Nat /\ DelayDuration \in Nat BY VmFacts
 <2>3. step * DelayDuration \in Nat BY <2>2
 <2> QED BY <2>1, <2>2, <2>3
<1>4. l \in {"latencyResource", "latencyAgent"} OBVIOUS
<1> HIDE DEF r, l, q
<1>5. \/ /\ r >= DelayDuration
         /\ Counts(metrics', 0, 0, 0, 0)
         /\ \A x \in VMs \ {v} : vm'[x] = vm[x]
         /\ vm'[v].remaining = vm[v].remaining - DelayDuration
         /\ agenda' = [q EXCEPT ![now + DelayDuration] = Append(@, v)]
         /\ pending' = pending \cup {v}
      \/ /\ Counts(metrics', 0, 1, 0, 0)
         /\ vm' = vm /\ agenda' = q /\ pending' = pending \ {v}
  BY <1>1, <1>3, <1>4, PostponeFields
<1>6. CASE /\ r >= DelayDuration
           /\ Counts(metrics', 0, 0, 0, 0)
           /\ \A x \in VMs \ {v} : vm'[x] = vm[x]
           /\ vm'[v].remaining = vm[v].remaining - DelayDuration
           /\ agenda' = [q EXCEPT ![now + DelayDuration] = Append(@, v)]
           /\ pending' = pending \cup {v}
  BY <1>1, <1>2, <1>3, <1>6, RequestReturns
<1>7. CASE /\ Counts(metrics', 0, 1, 0, 0)
           /\ vm' = vm /\ agenda' = q /\ pending' = pending \ {v}
  BY <1>1, <1>2, <1>7, RequestLeaves
<1> QED BY <1>5, <1>6, <1>7

LEMMA ArrivalsAreSequences == \A new \in Arrivals : new \in Seq(VMs) /\ IsInjective(new)
<1> TAKE new \in Arrivals
<1>1. PICK n \in 0 .. 2 : new \in [1 .. n -> VMs] BY DEF Arrivals
<1>2. n \in Nat OBVIOUS
<1>3. new \in Seq(VMs) BY <1>1, <1>2
<1> QED BY <1>3 DEF Arrivals

\* step: requests arrive, and VMs whose lifetime is over leave.
LEMMA StepKeepsRequests ==
  ASSUME TypeInv, RequestInv, NEW new \in Arrivals, Step(new)
  PROVE  RequestInv'
<1> DEFINE N == ToSet(new)
           done == Finished
           s == agenda[now] \o new
<1>1. /\ pc = "step" /\ pc' = "execute" /\ now' = now /\ pending' = pending /\ asked' = asked /\ ignored' = ignored
      /\ live' = live \ done /\ completed' = completed \cup done
      /\ agenda' = [agenda EXCEPT ![now] = s]
      /\ arrived' = [v \in DOMAIN arrived \cup N |-> IF v \in N THEN now ELSE arrived[v]]
      /\ N \cap DOMAIN arrived = {}
  BY DEF Step
<1>2. new \in Seq(VMs) /\ IsInjective(new) /\ done \subseteq live /\ now \in Ticks /\ now \in Int
  BY ArrivalsAreSequences, NowIsATick DEF Finished
<1>3. IsAgenda(agenda) /\ agenda \in [Ticks -> Seq(VMs)] /\ asked = {} /\ pending \subseteq Waiting(agenda)
  BY <1>1 DEF RequestInv, QueueInv, IsAgenda
<1>4. N \cap Waiting(agenda) = {} BY <1>1 DEF RequestInv, PlaceInv
<1>5. IsFiniteSet(N) /\ Cardinality(N) = Len(new) /\ N \subseteq VMs
 <2>1. IsFiniteSet(N) /\ Cardinality(N) = Len(new) BY <1>2, SizeOfSet
 <2>2. N \subseteq VMs BY <1>2 DEF ToSet
 <2> QED BY <2>1, <2>2
<1>6. s \in Seq(VMs) /\ IsInjective(s) /\ ToSet(s) = ToSet(agenda[now]) \cup N
 <2> DEFINE old == agenda[now]
 <2>1. old \in Seq(VMs) /\ IsInjective(old) /\ ToSet(old) \cap N = {}
   BY <1>2, <1>3, <1>4 DEF IsAgenda, Waiting
 <2> HIDE DEF old
 <2>2. old \o new \in Seq(VMs) /\ IsInjective(old \o new) BY <1>2, <2>1, SetOfConcat
 <2>3. ToSet(old \o new) = ToSet(old) \cup N BY <1>2, <2>1, SetOfConcat
 <2> QED BY <2>2, <2>3 DEF old
<1> HIDE DEF s, done, N
<1>7. /\ IsAgenda(agenda') /\ ToSet(agenda'[now]) = ToSet(agenda[now]) \cup N
      /\ \A t \in Ticks : t # now => agenda'[t] = agenda[t]
      /\ Waiting(agenda') = Waiting(agenda) \cup N
 <2>1. PICK c : c = agenda' OBVIOUS
 <2>2. c[now] = s /\ ChangesAt(agenda, c, now) BY <1>1, <1>2, <1>3, <1>6, <2>1 DEF ChangesAt
 <2>3. IsAgenda(c) /\ ToSet(c[now]) = ToSet(agenda[now]) \cup N /\ Waiting(c) = Waiting(agenda) \cup N
   BY <1>2, <1>3, <1>4, <1>6, <2>2, EventsJoin
 <2> QED BY <2>1, <2>2, <2>3 DEF ChangesAt
<1>8. DOMAIN arrived' = DOMAIN arrived \cup N /\ \A v \in N : arrived'[v] = now BY <1>1
<1>9. \A v \in DOMAIN arrived : arrived'[v] = arrived[v] /\ v \notin N BY <1>1
<1>10. QueueInv'
 <2>1. \A t \in Ticks : t < now => agenda'[t] = <<>>
   BY <1>7, <1>2, NowIsATick DEF RequestInv, QueueInv
 <2> QED BY <1>1, <1>3, <1>7, <2>1 DEF QueueInv
<1>11. PlaceInv' BY <1>1, <1>2, <1>7, <1>8 DEF PlaceInv, RequestInv
<1>12. BudgetInv'
 <2>1. ASSUME NEW t \in Ticks, NEW x \in ToSet(agenda'[t])
       PROVE  t - arrived'[x] + vm'[x].remaining = BufferTimeBudget /\ vm'[x].remaining >= 0
  <3>1. CASE x \in N /\ t = now
   <4>1. arrived'[x] = now /\ vm'[x].remaining = BufferTimeBudget
     BY <3>1, <1>5, <1>8, StepVms DEF N
   <4>2. BufferTimeBudget \in Nat BY VmFacts
   <4> QED BY <3>1, <4>1, <4>2, <1>2
  <3>2. CASE x \in ToSet(agenda[t])
   <4>1. x \in VMs /\ x \in Waiting(agenda) BY <3>2, <1>3, WaitingVms DEF Waiting
   <4>2. x \in DOMAIN arrived BY <4>1 DEF RequestInv, PlaceInv
   <4>3. arrived'[x] = arrived[x] /\ x \notin N BY <4>2, <1>9
   <4>4. vm'[x].remaining = vm[x].remaining BY <4>1, <4>3, StepVms DEF Keeps, N
   <4>5. InBudget(x, t) BY <3>2 DEF RequestInv, BudgetInv
   <4> QED BY <4>3, <4>4, <4>5 DEF InBudget
  <3> QED BY <3>1, <3>2, <2>1, <1>7
 <2> QED BY <2>1, <1>1, <1>3 DEF BudgetInv, InBudget
<1>13. RequestsAccounted'
 <2> DEFINE open == pending \cup Waiting(agenda)
 <2>1. open \subseteq VMs /\ open \cap N = {} /\ pending' \cup Waiting(agenda') = open \cup N
   BY <1>1, <1>3, <1>4, <1>7, WaitingVms
 <2>2. IsFiniteSet(open) /\ Cardinality(open) \in Nat /\ Cardinality(N) \in Nat
   BY <2>1, <1>5, SumOfVms
 <2>3. Cardinality(open \cup N) = Cardinality(open) + Cardinality(N)
  <3>1. Cardinality(open \cap N) = 0 BY <2>1, FS_EmptySet
  <3> HIDE DEF open
  <3>2. Cardinality(open \cup N) = Cardinality(open) + Cardinality(N) - Cardinality(open \cap N)
    BY <2>2, <1>5, FS_Union
  <3> QED BY <2>2, <3>1, <3>2
 <2>4. IsFiniteSet(live) /\ Cardinality(live) \in Nat /\ Cardinality(done) \in Nat /\ live \cap done = done
   BY <1>2, SumOfVms DEF TypeInv
 <2>5. Cardinality(live \ done) = Cardinality(live) - Cardinality(done)
   BY <2>4, FS_Difference
 <2>6. Accounted(open, ignored, live, metrics) BY AccountedIs DEF RequestInv
 <2>7. /\ metrics'.requests = metrics.requests + Cardinality(N)
       /\ metrics'.completed = metrics.completed + Cardinality(done)
       /\ metrics'.allocated = metrics.allocated
       /\ metrics'.failedAllocation = metrics.failedAllocation
       /\ metrics'.failedCompletion = metrics.failedCompletion
   BY <1>2, <1>5, StepMetrics DEF done
 <2>8. Cardinality(ignored) \in Nat /\ IsMetrics(metrics) BY SumOfVms DEF TypeInv
 <2> HIDE DEF open
 <2>9. Accounted(open \cup N, ignored, live \ done, metrics')
   BY <2>2, <2>3, <2>4, <2>5, <2>6, <2>7, <2>8 DEF Accounted, IsMetrics
 <2> QED BY <1>1, <2>1, <2>9, AccountedIs
<1> QED BY <1>10, <1>11, <1>12, <1>13 DEF RequestInv

-----------------------------------------------------------------------------
(* post_step.                                                              *)

Killed == IF killAll THEN UNION {pm[p].vms : p \in Overloaded} ELSE {}

LEMMA PostStepFields ==
  ASSUME TypeInv, HostInv, PostStep
  PROVE  /\ Killed \subseteq live /\ live' = live \ Killed /\ (~killAll => Killed = {})
         /\ pm' = [p \in Machines |-> pm'[p]]
         /\ \A p \in Machines :
              /\ IsMachine(pm'[p]) /\ pm'[p].vms = pm[p].vms \ Killed
              /\ pm'[p].cpu = pm[p].cpu /\ pm'[p].memory = pm[p].memory /\ pm'[p].state = pm[p].state
         /\ IsMetrics(metrics')
         /\ metrics'.requests = metrics.requests /\ metrics'.allocated = metrics.allocated
         /\ metrics'.completed = metrics.completed /\ metrics'.failedAllocation = metrics.failedAllocation
         /\ metrics'.failedCompletion = metrics.failedCompletion + Cardinality(Killed)
         /\ metrics'.incomes = metrics.incomes - SumFunctionOnSet([v \in Killed |-> IncomeTillNow(v)], Killed)
                               + SumFunctionOnSet([v \in live |-> Price(v)], live \ Killed)
<1>1. Killed \subseteq live BY DEF Killed, HostInv, Overloaded
<1>2. live' = live \ Killed /\ (~killAll => Killed = {}) BY DEF PostStep, Killed
<1>3. pm' = [p \in Machines |-> [pm[p] EXCEPT !.vms = @ \ Killed]] BY DEF PostStep, Killed
<1>4. ASSUME NEW p \in Machines
      PROVE  /\ IsMachine(pm'[p]) /\ pm'[p].vms = pm[p].vms \ Killed
             /\ pm'[p].cpu = pm[p].cpu /\ pm'[p].memory = pm[p].memory /\ pm'[p].state = pm[p].state
 <2> DEFINE m == pm[p]
            rest == m.vms \ Killed
 <2>1. IsMachine(m) BY DEF TypeInv
 <2>2. pm'[p] = [m EXCEPT !.vms = rest] BY <1>3
 <2>3. rest \subseteq VMs BY <2>1 DEF IsMachine
 <2> HIDE DEF rest, m
 <2>4. pm'[p] = [cpu |-> m.cpu, memory |-> m.memory, state |-> m.state, vms |-> rest, load |-> m.load]
   BY <2>1, <2>2 DEF IsMachine
 <2> QED BY <2>1, <2>3, <2>4 DEF IsMachine, rest, m
<1>5. pm' = [p \in Machines |-> pm'[p]] BY <1>3
<1> DEFINE m == metrics
           a == Cardinality({p \in Machines : pm[p].state # "EMPTY" /\ pm[p].cpu > CpuCapacity(p)})
           b == SumFunctionOnSet([v \in Killed |-> IncomeTillNow(v)], Killed)
           c == SumFunctionOnSet([v \in live |-> Price(v)], live \ Killed)
           d == Cardinality(Killed)
           e == Cardinality(UNION {pm[p].vms : p \in Overloaded})
<1>6. metrics' = [m EXCEPT !.oversubscriptions = @ + a, !.incomes = @ - b + c, !.failedCompletion = @ + d,
                           !.overloadVms = @ + e]
  BY DEF PostStep, Killed
<1>7. b \in Int /\ c \in Int /\ d \in Int
 <2>1. /\ IsFiniteSet(Killed) /\ d \in Int
       /\ IsFiniteSet(live \ Killed)
  <3>1. Killed \subseteq VMs /\ live \ Killed \subseteq VMs BY <1>1 DEF TypeInv
  <3> QED BY <3>1, SumOfVms
 <2>2. \A v \in Killed : v \in VMs /\ IncomeTillNow(v) \in Int
  <3>1. ASSUME NEW v \in Killed PROVE v \in VMs /\ IncomeTillNow(v) \in Int
   <4>1. v \in VMs BY <1>1 DEF TypeInv
   <4>2. vm[v].created \in Int /\ now \in Int /\ Price(v) \in Nat
     BY <4>1, NowIsATick, PriceType DEF TypeInv, IsVm
   <4> QED BY <4>1, <4>2 DEF IncomeTillNow
  <3> QED BY <3>1
 <2>3. \A v \in live : Price(v) \in Int BY PriceType DEF TypeInv
 <2> DEFINE f == [v \in Killed |-> IncomeTillNow(v)]
            g == [v \in live |-> Price(v)]
 <2>4. (\A v \in Killed : f[v] \in Int) /\ (\A v \in live \ Killed : g[v] \in Int)
   BY <2>2, <2>3
 <2> HIDE DEF f, g
 <2>5. SumFunctionOnSet(f, Killed) \in Int /\ SumFunctionOnSet(g, live \ Killed) \in Int
   BY <2>1, <2>4, SumRecursion
 <2> QED BY <2>1, <2>5 DEF f, g
<1>8. IsMetrics(m) BY DEF TypeInv
<1> HIDE DEF a, b, c, d, e, m
<1>9. metrics' = [requests |-> m.requests, allocated |-> m.allocated, completed |-> m.completed,
          failedAllocation |-> m.failedAllocation, failedCompletion |-> m.failedCompletion + d,
          incomes |-> m.incomes - b + c, latencyResource |-> m.latencyResource, latencyAgent |-> m.latencyAgent,
          oversubscriptions |-> m.oversubscriptions + a, overloadPms |-> m.overloadPms,
          overloadVms |-> m.overloadVms + e]
  BY <1>6, <1>8 DEF IsMetrics
<1>10. IsMetrics(metrics') BY <1>7, <1>8, <1>9 DEF IsMetrics
<1>11. /\ metrics'.requests = m.requests /\ metrics'.allocated = m.allocated
       /\ metrics'.completed = m.completed /\ metrics'.failedAllocation = m.failedAllocation
       /\ metrics'.failedCompletion = m.failedCompletion + d /\ metrics'.incomes = m.incomes - b + c
  BY <1>9
<1> QED BY <1>1, <1>2, <1>4, <1>5, <1>10, <1>11 DEF b, c, d, m

LEMMA PostStepKeepsRequests ==
  ASSUME TypeInv, RequestInv, HostInv, PostStep
  PROVE  RequestInv'
<1>1. /\ pc = "execute" /\ agenda[now] = <<>> /\ pc' \in {"done", "step"} /\ now' \in {now, now + 1}
      /\ agenda' = agenda /\ vm' = vm /\ pending' = pending /\ asked' = asked /\ arrived' = arrived
      /\ ignored' = ignored /\ completed' = completed
  BY DEF PostStep
<1>2. /\ Killed \subseteq live /\ live' = live \ Killed
      /\ IsMetrics(metrics')
      /\ metrics'.requests = metrics.requests /\ metrics'.allocated = metrics.allocated
      /\ metrics'.completed = metrics.completed /\ metrics'.failedAllocation = metrics.failedAllocation
      /\ metrics'.failedCompletion = metrics.failedCompletion + Cardinality(Killed)
  BY PostStepFields
<1>3. asked = {} BY <1>1 DEF RequestInv, QueueInv
<1>4. QueueInv'
 <2>1. \A t \in Ticks : t < now' => agenda'[t] = <<>>
  <3>1. \A t \in Ticks : t < now' => t < now \/ t = now BY <1>1, NowIsATick
  <3> QED BY <1>1, <3>1 DEF RequestInv, QueueInv
 <2> QED BY <1>1, <1>3, <2>1 DEF RequestInv, QueueInv
<1>5. PlaceInv' BY <1>1, <1>2 DEF RequestInv, PlaceInv
<1>6. BudgetInv' BY <1>1, <1>3 DEF RequestInv, BudgetInv, InBudget
<1>7. RequestsAccounted'
 <2> DEFINE open == pending \cup Waiting(agenda)
            K == Killed
 <2>1. IsFiniteSet(live) /\ Cardinality(live) \in Nat /\ Cardinality(K) \in Nat /\ live \cap K = K
   BY <1>2, SumOfVms DEF TypeInv
 <2>2. Cardinality(live \ K) = Cardinality(live) - Cardinality(K) BY <2>1, FS_Difference
 <2>3. Accounted(open, ignored, live, metrics) BY AccountedIs DEF RequestInv
 <2>4. IsMetrics(metrics) BY DEF TypeInv
 <2>5. /\ metrics'.requests = metrics.requests /\ metrics'.allocated = metrics.allocated
       /\ metrics'.completed = metrics.completed /\ metrics'.failedAllocation = metrics.failedAllocation
       /\ metrics'.failedCompletion = metrics.failedCompletion + Cardinality(K)
   BY <1>2
 <2> HIDE DEF open, K
 <2>6. Accounted(open, ignored, live \ K, metrics')
   BY <2>1, <2>2, <2>3, <2>4, <2>5 DEF Accounted, IsMetrics
 <2> QED BY <1>1, <1>2, <2>6, AccountedIs DEF open, K
<1> QED BY <1>4, <1>5, <1>6, <1>7 DEF RequestInv

-----------------------------------------------------------------------------
(* Machines and the VMs they host.                                         *)

MachineInv == HostInv /\ AmountInv /\ StateInv

\* Actions that touch neither machines nor live VMs nor their hosts.
LEMMA OthersKeepMachines ==
  ASSUME TypeInv, MachineInv, pm' = pm, live' = live, nodes' = nodes, killAll' = killAll,
         \A v \in live : vm'[v].host = vm[v].host
  PROVE  MachineInv'
<1>1. Machines' = Machines /\ \A p \in Machines : CpuCapacity(p)' = CpuCapacity(p) /\ MemoryCapacity(p)' = MemoryCapacity(p)
  BY DEF Machines, CpuCapacity, MemoryCapacity
<1>2. HostInv' BY <1>1 DEF MachineInv, HostInv
<1>3. AmountInv' BY <1>1 DEF MachineInv, AmountInv, SumCpu, SumMemory
<1>4. StateInv'
  BY <1>1 DEF MachineInv, StateInv, StateFollowsVms, StateFor, CpuCapacity, MemoryCapacity
<1> QED BY <1>2, <1>3, <1>4 DEF MachineInv

\* What StateFollowsVms says of one machine.
StateFollows(p, m) ==
  /\ m.state = "EMPTY" <=> m.vms = {}
  /\ \A v \in m.vms : m.state = StateFor(v)
  /\ m.cpu * 100 <= (IF m.state = "OVERSUBSCRIBABLE" THEN MaxCpuRate ELSE 100) * CpuCapacity(p)
  /\ m.memory * 100 <= (IF m.state = "OVERSUBSCRIBABLE" THEN MaxMemoryRate ELSE 100) * MemoryCapacity(p)

LEMMA StateFollowsIs ==
  ASSUME nodes' = nodes
  PROVE  /\ StateFollowsVms <=> \A p \in Machines : StateFollows(p, pm[p])
         /\ StateFollowsVms' <=> \A p \in Machines : StateFollows(p, pm'[p])
BY DEF StateFollowsVms, StateFollows, Machines, CpuCapacity, MemoryCapacity, StateFor

\* A machine whose VMs leave keeps what the others require, and is EMPTY when
\* none is left.
LEMMA MachineReleases ==
  ASSUME TypeInv, NEW p \in Machines, NEW m, IsMachine(m), NEW S,
         m.cpu = SumCpu(m.vms), m.memory = SumMemory(m.vms), StateFollows(p, m),
         NEW q, IsMachine(q), q.vms = m.vms \ S,
         q.cpu = m.cpu - SumCpu(m.vms \cap S), q.memory = m.memory - SumMemory(m.vms \cap S),
         q.state = IF S \cap m.vms # {} /\ m.vms \ S = {} THEN "EMPTY" ELSE m.state
  PROVE  q.cpu = SumCpu(q.vms) /\ q.memory = SumMemory(q.vms) /\ StateFollows(p, q)
<1>1. m.vms \subseteq VMs /\ m.vms \cap S \subseteq VMs /\ m.vms \ S \subseteq VMs
  BY DEF IsMachine
<1>2. /\ IsFiniteSet(m.vms) /\ \A v \in m.vms : Cpu[v] \in Int /\ Memory[v] \in Int
  BY <1>1, VmFacts, SumOfVms
<1>3. /\ SumCpu(m.vms) = SumCpu(m.vms \cap S) + SumCpu(m.vms \ S)
      /\ SumMemory(m.vms) = SumMemory(m.vms \cap S) + SumMemory(m.vms \ S)
 <2> DEFINE V == m.vms
 <2>1. IsFiniteSet(V) /\ (\A v \in V : Cpu[v] \in Int) /\ (\A v \in V : Memory[v] \in Int)
   BY <1>2
 <2> HIDE DEF V
 <2>2. SumFunctionOnSet(Cpu, V) = SumFunctionOnSet(Cpu, V \cap S) + SumFunctionOnSet(Cpu, V \ S)
   BY <2>1, SumParts
 <2>3. SumFunctionOnSet(Memory, V) = SumFunctionOnSet(Memory, V \cap S) + SumFunctionOnSet(Memory, V \ S)
  <3> DEFINE f == Memory
  <3>1. IsFiniteSet(V) /\ \A v \in V : f[v] \in Int BY <2>1
  <3> HIDE DEF f
  <3>2. SumFunctionOnSet(f, V) = SumFunctionOnSet(f, V \cap S) + SumFunctionOnSet(f, V \ S)
    BY <3>1, SumParts
  <3> QED BY <3>2 DEF f
 <2> QED BY <2>2, <2>3 DEF SumCpu, SumMemory, V
<1>4. /\ SumCpu(m.vms \cap S) \in Nat /\ SumCpu(m.vms \ S) \in Nat
      /\ SumMemory(m.vms \cap S) \in Nat /\ SumMemory(m.vms \ S) \in Nat
  BY <1>1, SumOfVms
<1>5. q.cpu = SumCpu(q.vms) /\ q.memory = SumMemory(q.vms) BY <1>3, <1>4
<1>6. q.cpu \in Nat /\ q.cpu <= m.cpu /\ m.cpu \in Nat /\ q.memory \in Nat /\ q.memory <= m.memory /\ m.memory \in Nat
  BY <1>3, <1>4
<1>7. CpuCapacity(p) \in Nat /\ MemoryCapacity(p) \in Nat /\ MaxCpuRate \in Nat /\ MaxMemoryRate \in Nat
  BY CapacityType, VmFacts DEF TypeInv
<1>8. \A v \in VMs : StateFor(v) # "EMPTY" BY DEF StateFor
<1>9. CASE m.vms \ S = {}
 <2>1. q.vms = {} /\ q.cpu = 0 /\ q.memory = 0
  <3>1. SumCpu({}) = 0 /\ SumMemory({}) = 0
    BY FS_EmptySet, SumRecursion DEF SumCpu, SumMemory
  <3> QED BY <1>5, <1>9, <3>1
 <2>2. q.state = "EMPTY"
  <3>1. CASE m.vms = {} BY <3>1 DEF StateFollows
  <3>2. CASE m.vms # {}
   <4>1. S \cap m.vms # {} BY <1>9, <3>2
   <4> QED BY <1>9, <4>1
  <3> QED BY <3>1, <3>2
 <2> DEFINE c == CpuCapacity(p)
            d == MemoryCapacity(p)
 <2>3. c \in Nat /\ d \in Nat BY <1>7
 <2> HIDE DEF c, d
 <2>4. 0 * 100 <= 100 * c /\ 0 * 100 <= 100 * d BY <2>3
 <2> QED BY <1>5, <2>1, <2>2, <2>4 DEF StateFollows, c, d
<1>10. CASE m.vms \ S # {}
 <2>1. q.state = m.state /\ m.state # "EMPTY" BY <1>10 DEF StateFollows
 <2> DEFINE c == (IF m.state = "OVERSUBSCRIBABLE" THEN MaxCpuRate ELSE 100) * CpuCapacity(p)
            d == (IF m.state = "OVERSUBSCRIBABLE" THEN MaxMemoryRate ELSE 100) * MemoryCapacity(p)
 <2>2. c \in Int /\ d \in Int
  <3>1. /\ 100 * CpuCapacity(p) \in Int /\ MaxCpuRate * CpuCapacity(p) \in Int
        /\ 100 * MemoryCapacity(p) \in Int /\ MaxMemoryRate * MemoryCapacity(p) \in Int
    BY <1>7
  <3> QED BY <3>1
 <2>3. m.cpu * 100 <= c /\ m.memory * 100 <= d BY DEF StateFollows
 <2> HIDE DEF c, d
 <2>4. q.cpu * 100 <= c /\ q.memory * 100 <= d BY <1>6, <2>2, <2>3
 <2>5. \A v \in q.vms : q.state = StateFor(v) BY <2>1 DEF StateFollows
 <2>6. StateFollows(p, q) BY <1>10, <2>1, <2>4, <2>5 DEF StateFollows, c, d
 <2> QED BY <1>5, <2>6
<1> QED BY <1>9, <1>10
\* step: finished VMs leave their machines.
LEMMA StepKeepsMachines ==
  ASSUME TypeInv, PlaceInv, MachineInv, NEW new \in Arrivals, Step(new)
  PROVE  MachineInv'
<1>1. /\ nodes' = nodes /\ killAll' = killAll /\ live' = live \ Finished /\ Machines' = Machines
      /\ \A v \in ToSet(new) : v \notin DOMAIN arrived
  BY DEF Step, Machines
<1>2. \A p \in Machines :
        /\ IsMachine(pm[p]) /\ IsMachine(pm'[p])
        /\ pm'[p].vms = pm[p].vms \ Finished
        /\ pm'[p].cpu = pm[p].cpu - SumCpu(pm[p].vms \cap Finished)
        /\ pm'[p].memory = pm[p].memory - SumMemory(pm[p].vms \cap Finished)
        /\ pm'[p].state = IF Finished \cap pm[p].vms # {} /\ pm[p].vms \ Finished = {}
                          THEN "EMPTY" ELSE pm[p].state
  BY StepMachines DEF TypeInv
<1>3. \A v \in live : vm'[v].host = vm[v].host
 <2>1. \A v \in live : v \in VMs /\ v \notin ToSet(new) BY <1>1 DEF TypeInv, PlaceInv
 <2> QED BY <2>1, StepVms DEF Keeps
<1>4. HostInv'
 <2>1. ASSUME NEW p \in Machines PROVE pm'[p].vms = {v \in live' : vm'[v].host = p}
  <3>1. pm[p].vms = {v \in live : vm[v].host = p} BY DEF MachineInv, HostInv
  <3> QED BY <1>1, <1>2, <1>3, <3>1
 <2> QED BY <1>1, <2>1 DEF HostInv
<1>5. ASSUME ~killAll, NEW p \in Machines
      PROVE  pm'[p].cpu = SumCpu(pm'[p].vms) /\ pm'[p].memory = SumMemory(pm'[p].vms) /\ StateFollows(p, pm'[p])
 <2>1. pm[p].cpu = SumCpu(pm[p].vms) /\ pm[p].memory = SumMemory(pm[p].vms)
   BY <1>5 DEF MachineInv, AmountInv
 <2>2. StateFollows(p, pm[p]) BY <1>1, <1>5, StateFollowsIs DEF MachineInv, StateInv
 <2> DEFINE m == pm[p]
            q == pm'[p]
            S == Finished
 <2>3. /\ IsMachine(m) /\ IsMachine(q) /\ m.cpu = SumCpu(m.vms) /\ m.memory = SumMemory(m.vms) /\ StateFollows(p, m)
       /\ q.vms = m.vms \ S
       /\ q.cpu = m.cpu - SumCpu(m.vms \cap S) /\ q.memory = m.memory - SumMemory(m.vms \cap S)
       /\ q.state = IF S \cap m.vms # {} /\ m.vms \ S = {} THEN "EMPTY" ELSE m.state
   BY <1>2, <2>1, <2>2
 <2> HIDE DEF m, q, S
 <2>4. q.cpu = SumCpu(q.vms) /\ q.memory = SumMemory(q.vms) /\ StateFollows(p, q)
   BY <2>3, MachineReleases
 <2> QED BY <2>4 DEF q
<1>6. AmountInv' BY <1>1, <1>5 DEF AmountInv, SumCpu, SumMemory
<1>7. StateInv' BY <1>1, <1>5, StateFollowsIs DEF StateInv
<1> QED BY <1>4, <1>6, <1>7 DEF MachineInv

\* A machine takes a VM that fits.
LEMMA MachineTakes ==
  ASSUME TypeInv, NEW p \in Machines, NEW v \in VMs, p \in ValidPms(v), v \notin pm[p].vms,
         pm[p].cpu = SumCpu(pm[p].vms), pm[p].memory = SumMemory(pm[p].vms), StateFollows(p, pm[p]),
         NEW q, q.vms = pm[p].vms \cup {v},
         q.cpu = pm[p].cpu + Cpu[v], q.memory = pm[p].memory + Memory[v],
         q.state = IF pm[p].state = "EMPTY" THEN StateFor(v) ELSE pm[p].state
  PROVE  q.cpu = SumCpu(q.vms) /\ q.memory = SumMemory(q.vms) /\ StateFollows(p, q)
<1> DEFINE V == pm[p].vms
<1>1. /\ IsFiniteSet(V) /\ v \notin V
      /\ (\A x \in V \cup {v} : Cpu[x] \in Int) /\ (\A x \in V \cup {v} : Memory[x] \in Int)
 <2>1. V \subseteq VMs BY DEF TypeInv, IsMachine
 <2> QED BY <2>1, VmFacts, SumOfVms
<1>2. /\ SumCpu(V) \in Nat /\ SumMemory(V) \in Nat BY SumOfVms DEF TypeInv, IsMachine
<1> HIDE DEF V
<1>3. SumFunctionOnSet(Cpu, V \cup {v}) = Cpu[v] + SumFunctionOnSet(Cpu, V) BY <1>1, SumAdds
<1>4. SumFunctionOnSet(Memory, V \cup {v}) = Memory[v] + SumFunctionOnSet(Memory, V)
  BY <1>1, SumAdds
<1>5. Cpu[v] \in Nat /\ Memory[v] \in Nat BY VmFacts
<1>6. q.cpu = SumCpu(q.vms) /\ q.memory = SumMemory(q.vms)
  BY <1>2, <1>3, <1>4, <1>5 DEF SumCpu, SumMemory, V
<1>7. CASE Category[v] = "DELAY_INSENSITIVE"
 <2>1. StateFor(v) = "OVERSUBSCRIBABLE" /\ pm[p].state \in {"EMPTY", "OVERSUBSCRIBABLE"}
       /\ Fits(p, v, MaxCpuRate, MaxMemoryRate)
   BY <1>7 DEF ValidPms, StateFor
 <2>2. q.state = "OVERSUBSCRIBABLE" BY <2>1
 <2>3. \A x \in q.vms : q.state = StateFor(x) BY <2>1, <2>2 DEF StateFollows
 <2>4. q.cpu * 100 <= MaxCpuRate * CpuCapacity(p) /\ q.memory * 100 <= MaxMemoryRate * MemoryCapacity(p)
   BY <2>1 DEF Fits
 <2> QED BY <1>6, <2>2, <2>3, <2>4 DEF StateFollows
<1>8. CASE Category[v] # "DELAY_INSENSITIVE"
 <2>1. StateFor(v) = "NON_OVERSUBSCRIBABLE" /\ pm[p].state \in {"EMPTY", "NON_OVERSUBSCRIBABLE"}
       /\ Fits(p, v, 100, 100)
   BY <1>8 DEF ValidPms, StateFor
 <2>2. q.state = "NON_OVERSUBSCRIBABLE" BY <2>1
 <2>3. \A x \in q.vms : q.state = StateFor(x) BY <2>1, <2>2 DEF StateFollows
 <2>4. q.cpu * 100 <= 100 * CpuCapacity(p) /\ q.memory * 100 <= 100 * MemoryCapacity(p)
   BY <2>1 DEF Fits
 <2> QED BY <1>6, <2>2, <2>3, <2>4 DEF StateFollows
<1> QED BY <1>7, <1>8

LEMMA AllocateKeepsMachines ==
  ASSUME TypeInv, QueueInv, PlaceInv, MachineInv, NEW v \in VMs, NEW p \in Machines, Allocate(v, p)
  PROVE  MachineInv'
<1>1. /\ nodes' = nodes /\ killAll' = killAll /\ live' = live \cup {v} /\ Machines' = Machines
      /\ asked = {v} /\ p \in ValidPms(v)
  BY DEF Allocate, Machines
<1>2. v \notin live BY <1>1 DEF QueueInv, PlaceInv
<1>3. /\ \A x \in VMs \ {v} : vm'[x] = vm[x]
      /\ vm'[v].host = p
      /\ \A x \in Machines \ {p} : pm'[x] = pm[x]
      /\ pm'[p].cpu = pm[p].cpu + Cpu[v] /\ pm'[p].memory = pm[p].memory + Memory[v]
      /\ pm'[p].state = IF pm[p].state = "EMPTY" THEN StateFor(v) ELSE pm[p].state
      /\ pm'[p].vms = pm[p].vms \cup {v}
  BY AllocateFields
<1>4. HostInv'
 <2>1. ASSUME NEW x \in Machines PROVE pm'[x].vms = {u \in live' : vm'[u].host = x}
  <3>1. pm[x].vms = {u \in live : vm[u].host = x} BY DEF MachineInv, HostInv
  <3>2. \A u \in live : vm'[u] = vm[u] BY <1>2, <1>3 DEF TypeInv
  <3>3. CASE x = p BY <1>1, <1>3, <3>1, <3>2, <3>3
  <3>4. CASE x # p BY <1>1, <1>3, <3>1, <3>2, <3>4
  <3> QED BY <3>3, <3>4
 <2> QED BY <1>1, <2>1 DEF HostInv
<1>5. ASSUME ~killAll, NEW x \in Machines
      PROVE  pm'[x].cpu = SumCpu(pm'[x].vms) /\ pm'[x].memory = SumMemory(pm'[x].vms) /\ StateFollows(x, pm'[x])
 <2>1. /\ pm[x].cpu = SumCpu(pm[x].vms) /\ pm[x].memory = SumMemory(pm[x].vms)
       /\ StateFollows(x, pm[x])
   BY <1>1, <1>5, StateFollowsIs DEF MachineInv, AmountInv, StateInv
 <2>2. CASE x = p
  <3>1. v \notin pm[p].vms BY <1>2 DEF MachineInv, HostInv
  <3> DEFINE q == pm'[p]
  <3>2. /\ q.vms = pm[p].vms \cup {v}
        /\ q.cpu = pm[p].cpu + Cpu[v] /\ q.memory = pm[p].memory + Memory[v]
        /\ q.state = IF pm[p].state = "EMPTY" THEN StateFor(v) ELSE pm[p].state
    BY <1>3
  <3> HIDE DEF q
  <3>3. q.cpu = SumCpu(q.vms) /\ q.memory = SumMemory(q.vms) /\ StateFollows(p, q)
    BY <1>1, <2>1, <2>2, <3>1, <3>2, MachineTakes
  <3> QED BY <2>2, <3>3 DEF q
 <2>3. CASE x # p BY <1>3, <2>1, <2>3
 <2> QED BY <2>2, <2>3
<1>6. AmountInv' BY <1>1, <1>5 DEF AmountInv, SumCpu, SumMemory
<1>7. StateInv' BY <1>1, <1>5, StateFollowsIs DEF StateInv
<1> QED BY <1>4, <1>6, <1>7 DEF MachineInv

LEMMA PostStepKeepsMachines ==
  ASSUME TypeInv, MachineInv, PostStep
  PROVE  MachineInv'
<1>1. /\ nodes' = nodes /\ killAll' = killAll /\ vm' = vm /\ Machines' = Machines
  BY DEF PostStep, Machines
<1>2. /\ live' = live \ Killed /\ (~killAll => Killed = {})
      /\ \A p \in Machines :
           /\ pm'[p].vms = pm[p].vms \ Killed
           /\ pm'[p].cpu = pm[p].cpu /\ pm'[p].memory = pm[p].memory /\ pm'[p].state = pm[p].state
  BY PostStepFields DEF MachineInv
<1>3. HostInv' BY <1>1, <1>2 DEF MachineInv, HostInv
<1>4. AmountInv' BY <1>1, <1>2 DEF MachineInv, AmountInv, SumCpu, SumMemory
<1>5. StateInv'
 <2>1. ASSUME ~killAll, NEW p \in Machines PROVE StateFollows(p, pm'[p])
  <3>1. StateFollows(p, pm[p]) BY <1>1, <2>1, StateFollowsIs DEF MachineInv, StateInv
  <3>2. pm'[p].vms = pm[p].vms BY <1>2, <2>1
  <3> QED BY <1>2, <3>1, <3>2 DEF StateFollows
 <2> QED BY <1>1, <2>1, StateFollowsIs DEF StateInv
<1> QED BY <1>3, <1>4, <1>5 DEF MachineInv
-----------------------------------------------------------------------------
(* Lifetimes and what is paid for them.                                    *)

LivesInv == LifeInv /\ IncomeIsEarned

\* What a VM has brought until a tick, what it brings in all and in one tick.
Brought(w, until) == [v \in VMs |-> Price(v) * (until - w[v].created)]
InAll == [v \in VMs |-> Price(v) * Lifetime[v]]
InOneTick == [v \in VMs |-> Price(v)]

LEMMA BroughtType ==
  ASSUME NEW w, \A v \in VMs : w[v].created \in Int, NEW u \in Int
  PROVE  \A v \in VMs : Brought(w, u)[v] \in Int /\ InAll[v] \in Int /\ InOneTick[v] \in Int
<1> TAKE v \in VMs
<1>1. Price(v) \in Int /\ u - w[v].created \in Int /\ Lifetime[v] \in Int
  BY PriceType, VmFacts
<1> QED BY <1>1 DEF Brought, InAll, InOneTick

\* The sums of the code range over the VMs concerned only.
LEMMA IncomeSums ==
  ASSUME NEW w, \A v \in VMs : w[v].created \in Int, NEW u \in Int, NEW L, L \subseteq VMs
  PROVE  /\ SumFunctionOnSet([v \in L |-> Price(v) * (u - w[v].created)], L) = SumFunctionOnSet(Brought(w, u), L)
         /\ SumFunctionOnSet([v \in L |-> Price(v) * Lifetime[v]], L) = SumFunctionOnSet(InAll, L)
         /\ SumFunctionOnSet(Brought(w, u), L) \in Int
         /\ SumFunctionOnSet(InAll, L) \in Int
         /\ SumFunctionOnSet(InOneTick, L) \in Int
<1>1. IsFiniteSet(L) BY SumOfVms
<1>2. \A v \in L : Brought(w, u)[v] \in Int /\ InAll[v] \in Int /\ InOneTick[v] \in Int
  BY BroughtType
<1> DEFINE f == [v \in L |-> Price(v) * (u - w[v].created)]
           g == [v \in L |-> Price(v) * Lifetime[v]]
           b == Brought(w, u)
           c == InAll
<1>3. \A v \in L : f[v] = b[v] BY DEF Brought
<1>4. \A v \in L : g[v] = c[v] BY DEF InAll
<1> HIDE DEF f, g, b, c
<1>5. SumFunctionOnSet(f, L) = SumFunctionOnSet(b, L) BY <1>1, <1>2, <1>3, SumSame DEF b
<1>6. SumFunctionOnSet(g, L) = SumFunctionOnSet(c, L) BY <1>1, <1>2, <1>4, SumSame DEF c
<1>7. SumFunctionOnSet(Brought(w, u), L) \in Int BY <1>1, <1>2, SumRecursion
<1>8. SumFunctionOnSet(InAll, L) \in Int BY <1>1, <1>2, SumRecursion
<1>9. SumFunctionOnSet(InOneTick, L) \in Int BY <1>1, <1>2, SumRecursion
<1> QED BY <1>5, <1>6, <1>7, <1>8, <1>9 DEF f, g, b, c

\* Sets of VMs that are taken apart and put together.
LEMMA IncomeSplits ==
  ASSUME NEW w, \A v \in VMs : w[v].created \in Int, NEW u \in Int, NEW L, L \subseteq VMs, NEW K, K \subseteq L,
         NEW rest, rest = L \ K
  PROVE  SumFunctionOnSet(Brought(w, u), L) = SumFunctionOnSet(Brought(w, u), K) + SumFunctionOnSet(Brought(w, u), rest)
<1> DEFINE b == Brought(w, u)
<1>1. \A v \in VMs : b[v] \in Int BY BroughtType
<1>2. IsFiniteSet(L) /\ \A v \in L : b[v] \in Int BY <1>1, SumOfVms
<1> HIDE DEF b
<1>3. SumFunctionOnSet(b, L) = SumFunctionOnSet(b, K) + SumFunctionOnSet(b, rest)
  BY <1>2, SumSplits
<1> QED BY <1>3 DEF b

LEMMA IncomeJoins ==
  ASSUME NEW L, L \subseteq VMs, NEW K, K \subseteq VMs, K \cap L = {}
  PROVE  SumFunctionOnSet(InAll, L \cup K) = SumFunctionOnSet(InAll, L) + SumFunctionOnSet(InAll, K)
<1> DEFINE c == InAll
<1>1. \A v \in VMs : c[v] \in Int BY PriceType, VmFacts DEF InAll
<1>2. L \cup K \subseteq VMs OBVIOUS
<1>3. IsFiniteSet(L \cup K) BY <1>2, SumOfVms
<1>4. \A v \in L \cup K : c[v] \in Int BY <1>1
<1>5. L \cap K = {} OBVIOUS
<1> HIDE DEF c
<1>6. SumFunctionOnSet(c, L \cup K) = SumFunctionOnSet(c, L) + SumFunctionOnSet(c, K)
  BY <1>3, <1>4, <1>5, SumJoins
<1> QED BY <1>6 DEF c

Until == IF pc = "done" THEN now + 1 ELSE now

LEMMA IncomeIs ==
  ASSUME TypeInv
  PROVE  IncomeIsEarned <=> metrics.incomes = SumFunctionOnSet(Brought(vm, Until), live)
                                              + SumFunctionOnSet(InAll, completed)
<1>1. (\A v \in VMs : vm[v].created \in Int) /\ Until \in Int /\ live \subseteq VMs /\ completed \subseteq VMs
  BY DEF TypeInv, IsVm, Until
<1> DEFINE u == Until
<1> HIDE DEF u
<1>2. SumFunctionOnSet([v \in live |-> Price(v) * (u - vm[v].created)], live) = SumFunctionOnSet(Brought(vm, u), live)
  BY <1>1, IncomeSums DEF u
<1>3. SumFunctionOnSet([v \in completed |-> Price(v) * Lifetime[v]], completed) = SumFunctionOnSet(InAll, completed)
  BY <1>1, IncomeSums
<1>4. IncomeIsEarned <=>
        metrics.incomes = SumFunctionOnSet([v \in live |-> Price(v) * (u - vm[v].created)], live)
                          + SumFunctionOnSet([v \in completed |-> Price(v) * Lifetime[v]], completed)
  BY DEF IncomeIsEarned, u, Until
<1> QED BY <1>2, <1>3, <1>4 DEF u

\* The same after a step.
LEMMA IncomeIsNext ==
  ASSUME TypeInv'
  PROVE  IncomeIsEarned' <=> metrics'.incomes = SumFunctionOnSet(Brought(vm', Until'), live')
                                                + SumFunctionOnSet(InAll, completed')
<1> DEFINE u == Until'
<1>1. PICK w, L, C : w = vm' /\ L = live' /\ C = completed' OBVIOUS
<1>2. (\A v \in VMs : w[v].created \in Int) /\ u \in Int /\ L \subseteq VMs /\ C \subseteq VMs
  BY <1>1 DEF TypeInv, IsVm, Until
<1> HIDE DEF u
<1>3. SumFunctionOnSet([v \in L |-> Price(v) * (u - w[v].created)], L) = SumFunctionOnSet(Brought(w, u), L)
  BY <1>2, IncomeSums
<1>4. SumFunctionOnSet([v \in C |-> Price(v) * Lifetime[v]], C) = SumFunctionOnSet(InAll, C)
  BY <1>2, IncomeSums
<1>5. IncomeIsEarned' <=>
        metrics'.incomes = SumFunctionOnSet([v \in L |-> Price(v) * (u - w[v].created)], L)
                           + SumFunctionOnSet([v \in C |-> Price(v) * Lifetime[v]], C)
  BY <1>1 DEF IncomeIsEarned, u, Until, Price
<1> QED BY <1>1, <1>3, <1>4, <1>5 DEF u

\* Actions that leave live VMs, completed ones and the incomes alone.
LEMMA OthersKeepLives ==
  ASSUME TypeInv, LivesInv, TypeInv', live' = live, completed' = completed, now' = now,
         pc \in {"execute", "decide"}, pc' \in {"execute", "decide"}, metrics'.incomes = metrics.incomes,
         \A v \in live : vm'[v].created = vm[v].created /\ vm'[v].deletion = vm[v].deletion
  PROVE  LivesInv'
<1>1. LifeInv' BY DEF LivesInv, LifeInv
<1>2. Until = now /\ Until' = now /\ now \in Int BY DEF Until, TypeInv
<1>3. IsFiniteSet(live) /\ live \subseteq VMs BY SumOfVms DEF TypeInv
<1>4. \A v \in VMs : vm[v].created \in Int /\ vm'[v].created \in Int BY DEF TypeInv, IsVm
<1> DEFINE b == Brought(vm, now)
           c == Brought(vm', now)
<1>5. \A v \in live : b[v] \in Int /\ c[v] = b[v]
 <2>1. \A v \in live : b[v] \in Int BY <1>2, <1>3, <1>4, BroughtType
 <2> QED BY <1>3, <2>1 DEF Brought
<1> HIDE DEF b, c
<1>6. SumFunctionOnSet(c, live) = SumFunctionOnSet(b, live) BY <1>3, <1>5, SumSame
<1>7. Brought(vm', Until') = c /\ Brought(vm, Until) = b BY <1>2 DEF b, c, Brought, Price
<1>8. IncomeIsEarned'
 <2>1. metrics.incomes = SumFunctionOnSet(b, live) + SumFunctionOnSet(InAll, completed)
   BY <1>7, IncomeIs DEF LivesInv
 <2>2. IncomeIsEarned' <=> metrics'.incomes = SumFunctionOnSet(Brought(vm', Until'), live') + SumFunctionOnSet(InAll, completed')
   BY IncomeIsNext
 <2> QED BY <1>6, <1>7, <2>1, <2>2
<1> QED BY <1>1, <1>8 DEF LivesInv
\* step: VMs that end are completed, and have brought all they should.
LEMMA StepKeepsLives ==
  ASSUME TypeInv, TypeInv', PlaceInv, LivesInv, NEW new \in Arrivals, Step(new)
  PROVE  LivesInv'
<1> DEFINE done == Finished
           rest == live \ Finished
<1>1. /\ pc = "step" /\ pc' = "execute" /\ now' = now /\ live' = rest /\ completed' = completed \cup done
      /\ \A v \in ToSet(new) : v \notin DOMAIN arrived
  BY DEF Step
<1>2. metrics'.incomes = metrics.incomes BY ArrivalsAreSequences, StepMetrics
<1>3. done \subseteq live /\ live \subseteq VMs /\ completed \subseteq VMs /\ now \in Int
  BY DEF Finished, TypeInv
<1>4. \A v \in live : vm'[v].created = vm[v].created /\ vm'[v].deletion = vm[v].deletion
 <2>1. \A v \in live : v \in VMs /\ v \notin ToSet(new) BY <1>1, <1>3 DEF PlaceInv
 <2> QED BY <2>1, StepVms DEF Keeps
<1>5. \A v \in live : /\ vm[v].deletion = vm[v].created + Lifetime[v]
                      /\ vm[v].created < now /\ now <= vm[v].deletion
                      /\ vm[v].deletion \in Int /\ vm[v].created \in Int
  BY <1>1, <1>3 DEF LivesInv, LifeInv, TypeInv, IsVm
<1>6. (\A v \in rest : vm[v].deletion # now) /\ \A v \in done : vm[v].deletion = now
  BY DEF Finished
<1> HIDE DEF done
<1>7. LifeInv'
 <2>1. ASSUME NEW v \in rest
       PROVE  vm'[v].deletion = vm'[v].created + Lifetime[v] /\ vm'[v].created <= now /\ now < vm'[v].deletion
   BY <1>3, <1>4, <1>5, <1>6
 <2> HIDE DEF rest
 <2> QED BY <1>1, <2>1 DEF LifeInv
<1>8. Until = now /\ Until' = now BY <1>1 DEF Until
<1>9. rest = live \ done /\ IsFiniteSet(rest) /\ IsFiniteSet(done) /\ rest \subseteq VMs /\ done \subseteq VMs
 <2>1. rest = live \ done /\ rest \subseteq VMs /\ done \subseteq VMs BY <1>3 DEF done
 <2> QED BY <2>1, SumOfVms
<1> HIDE DEF rest
<1> DEFINE b == Brought(vm, now)
           c == Brought(vm', now)
           a == InAll
<1>10. (\A v \in VMs : vm[v].created \in Int) /\ (\A v \in VMs : vm'[v].created \in Int)
  BY DEF TypeInv, IsVm
<1>11. \A v \in VMs : b[v] \in Int BY <1>3, <1>10, BroughtType
<1>12. \A v \in rest : b[v] \in Int /\ c[v] = b[v] BY <1>4, <1>9, <1>11 DEF Brought
<1>13. \A v \in done : b[v] \in Int /\ a[v] = b[v]
 <2>1. ASSUME NEW v \in done PROVE a[v] = b[v]
  <3>1. now - vm[v].created = Lifetime[v]
   <4>1. Lifetime[v] \in Int BY <1>9, VmFacts
   <4> QED BY <1>3, <1>5, <1>6, <4>1
  <3> QED BY <1>9, <3>1 DEF Brought, InAll
 <2> QED BY <1>9, <1>11, <2>1
<1>14. SumFunctionOnSet(b, live) = SumFunctionOnSet(b, done) + SumFunctionOnSet(b, rest)
  BY <1>3, <1>9, <1>10, IncomeSplits
<1>15. SumFunctionOnSet(a, completed \cup done) = SumFunctionOnSet(a, completed) + SumFunctionOnSet(a, done)
 <2>1. done \cap completed = {} BY <1>3 DEF PlaceInv
 <2> QED BY <1>3, <1>9, <2>1, IncomeJoins
<1>16. /\ SumFunctionOnSet(b, done) \in Int /\ SumFunctionOnSet(b, rest) \in Int
       /\ SumFunctionOnSet(a, completed) \in Int
  BY <1>3, <1>9, <1>10, IncomeSums
<1>17. metrics.incomes = SumFunctionOnSet(b, live) + SumFunctionOnSet(a, completed)
  BY <1>8, IncomeIs DEF LivesInv
<1>18. Brought(vm', Until') = c BY <1>8
<1>19. IncomeIsEarned' <=> metrics'.incomes = SumFunctionOnSet(Brought(vm', Until'), live') + SumFunctionOnSet(InAll, completed')
  BY IncomeIsNext
<1> HIDE DEF b, c, a
<1>20. SumFunctionOnSet(c, rest) = SumFunctionOnSet(b, rest) BY <1>9, <1>12, SumSame
<1>21. SumFunctionOnSet(a, done) = SumFunctionOnSet(b, done) BY <1>9, <1>13, SumSame
<1>22. metrics'.incomes = SumFunctionOnSet(c, rest) + SumFunctionOnSet(a, completed \cup done)
  BY <1>2, <1>14, <1>15, <1>16, <1>17, <1>20, <1>21
<1>23. IncomeIsEarned' BY <1>1, <1>18, <1>19, <1>22 DEF a
<1> QED BY <1>7, <1>23 DEF LivesInv

\* A VM that is placed has brought nothing yet.
LEMMA AllocateKeepsLives ==
  ASSUME TypeInv, TypeInv', QueueInv, PlaceInv, LivesInv, NEW v \in VMs, NEW p \in Machines, Allocate(v, p)
  PROVE  LivesInv'
<1>1. /\ pc = "decide" /\ pc' = "execute" /\ now' = now /\ live' = live \cup {v} /\ completed' = completed
      /\ asked = {v} /\ metrics' = [metrics EXCEPT !.allocated = @ + 1]
  BY DEF Allocate, Answered
<1>2. v \notin live BY <1>1 DEF QueueInv, PlaceInv
<1>3. /\ \A x \in VMs \ {v} : vm'[x] = vm[x]
      /\ vm'[v].created = now /\ vm'[v].deletion = now + Lifetime[v]
  BY AllocateFields
<1>4. Lifetime[v] \in Nat \ {0} /\ now \in Int /\ live \subseteq VMs /\ IsFiniteSet(live)
  BY VmFacts, SumOfVms DEF TypeInv
<1>5. \A x \in live : vm'[x] = vm[x] BY <1>2, <1>3, <1>4
<1>6. LifeInv' BY <1>1, <1>3, <1>4, <1>5 DEF LivesInv, LifeInv
<1>7. Until = now /\ Until' = now BY <1>1 DEF Until
<1>8. metrics'.incomes = metrics.incomes
  BY <1>1, PlainMetrics DEF TypeInv, Counts, IsMetrics
<1> DEFINE b == Brought(vm, now)
           c == Brought(vm', now)
<1>9. (\A x \in VMs : vm[x].created \in Int) /\ (\A x \in VMs : vm'[x].created \in Int)
  BY DEF TypeInv, IsVm
<1>10. (\A x \in VMs : b[x] \in Int) /\ (\A x \in live : b[x] \in Int /\ c[x] = b[x])
 <2>1. \A x \in VMs : b[x] \in Int BY <1>4, <1>9, BroughtType
 <2> QED BY <1>4, <1>5, <2>1 DEF Brought
<1>11. c[v] = 0
 <2>1. c[v] = Price(v) * (now - now) BY <1>3 DEF Brought
 <2>2. Price(v) \in Nat /\ now - now = 0 BY <1>4, PriceType
 <2> QED BY <2>1, <2>2
<1>12. metrics.incomes = SumFunctionOnSet(b, live) + SumFunctionOnSet(InAll, completed)
  BY <1>7, IncomeIs DEF LivesInv
<1>13. IncomeIsEarned' <=> metrics'.incomes = SumFunctionOnSet(Brought(vm', Until'), live') + SumFunctionOnSet(InAll, completed')
  BY IncomeIsNext
<1>14. Brought(vm', Until') = c BY <1>7
<1>15. SumFunctionOnSet(b, live) \in Int BY <1>4, <1>9, IncomeSums
<1> HIDE DEF b, c
<1>16. SumFunctionOnSet(c, live) = SumFunctionOnSet(b, live) BY <1>4, <1>10, SumSame
<1>17. \A x \in live \cup {v} : c[x] \in Int BY <1>10, <1>11
<1>18. SumFunctionOnSet(c, live \cup {v}) = c[v] + SumFunctionOnSet(c, live)
  BY <1>2, <1>4, <1>17, SumAdds
<1>19. SumFunctionOnSet(c, live \cup {v}) = SumFunctionOnSet(b, live)
  BY <1>11, <1>15, <1>16, <1>18
<1>20. IncomeIsEarned' BY <1>1, <1>8, <1>12, <1>13, <1>14, <1>19
<1> QED BY <1>6, <1>20 DEF LivesInv

\* post_step: the killed are refunded, the others pay for the tick.
LEMMA PostStepKeepsLives ==
  ASSUME TypeInv, TypeInv', HostInv, LivesInv, PostStep
  PROVE  LivesInv'
<1> DEFINE K == Killed
           rest == live \ Killed
<1>1. /\ pc = "execute" /\ pc' \in {"done", "step"} /\ vm' = vm /\ completed' = completed
      /\ now' = IF pc' = "done" THEN now ELSE now + 1
  BY DEF PostStep
<1>2. /\ K \subseteq live /\ live' = rest
      /\ metrics'.incomes = metrics.incomes - SumFunctionOnSet([v \in K |-> IncomeTillNow(v)], K)
                            + SumFunctionOnSet([v \in live |-> Price(v)], rest)
  BY PostStepFields
<1>3. now \in Int /\ live \subseteq VMs /\ completed \subseteq VMs BY DEF TypeInv
<1>4. /\ rest = live \ K /\ K \subseteq VMs /\ rest \subseteq VMs
      /\ IsFiniteSet(rest) /\ IsFiniteSet(K)
 <2>1. rest = live \ K /\ K \subseteq VMs /\ rest \subseteq VMs BY <1>2, <1>3
 <2> QED BY <2>1, SumOfVms
<1> HIDE DEF K, rest
<1>5. LifeInv'
 <2>1. ASSUME NEW v \in rest
       PROVE  /\ vm[v].deletion = vm[v].created + Lifetime[v]
              /\ vm[v].created <= now /\ now < vm[v].deletion
              /\ vm[v].deletion \in Int /\ vm[v].created \in Int
   BY <1>1, <1>3, <1>4 DEF LivesInv, LifeInv, TypeInv, IsVm
 <2>2. CASE pc' = "done" BY <1>1, <1>2, <2>1, <2>2 DEF LifeInv
 <2>3. CASE pc' = "step"
  <3>1. now' = now + 1 BY <1>1, <2>3
  <3> QED BY <1>1, <1>2, <1>3, <2>1, <2>3, <3>1 DEF LifeInv
 <2> QED BY <1>1, <2>2, <2>3
<1>6. Until = now /\ Until' = now + 1 /\ now + 1 \in Int BY <1>1, <1>3 DEF Until
<1> DEFINE b == Brought(vm, now)
           c == Brought(vm, now + 1)
           e == InOneTick
<1>7. (\A v \in VMs : vm[v].created \in Int) BY DEF TypeInv, IsVm
<1>8. \A v \in VMs : b[v] \in Int /\ c[v] \in Int /\ e[v] \in Int
 <2>1. \A v \in VMs : b[v] \in Int /\ e[v] \in Int BY <1>3, <1>7, BroughtType
 <2>2. \A v \in VMs : c[v] \in Int BY <1>6, <1>7, BroughtType
 <2> QED BY <2>1, <2>2
<1>9. \A v \in VMs : c[v] = b[v] + e[v]
 <2>1. ASSUME NEW v \in VMs PROVE c[v] = b[v] + e[v]
  <3> DEFINE n == now
             k == vm[v].created
             y == Price(v)
  <3>1. n \in Int /\ k \in Int /\ y \in Int BY <1>3, <1>7, PriceType
  <3>2. b[v] = y * (n - k) /\ e[v] = y BY DEF Brought, InOneTick
  <3>3. c[v] = y * ((n + 1) - k)
   <4> DEFINE t == now + 1
   <4>1. Brought(vm, t)[v] = Price(v) * (t - vm[v].created)
    <5> HIDE DEF t
    <5> QED BY DEF Brought
   <4> QED BY <4>1
  <3> HIDE DEF n, k, y, b, c, e
  <3>4. y * ((n + 1) - k) = y * (n - k) + y BY <3>1
  <3> QED BY <3>2, <3>3, <3>4
 <2> QED BY <2>1
<1>10. SumFunctionOnSet([v \in K |-> IncomeTillNow(v)], K) = SumFunctionOnSet(b, K)
 <2> DEFINE f == [v \in K |-> IncomeTillNow(v)]
 <2>1. \A v \in K : b[v] \in Int /\ f[v] = b[v] BY <1>4, <1>8 DEF Brought, IncomeTillNow
 <2> HIDE DEF f, b
 <2> QED BY <1>4, <2>1, SumSame DEF f
<1>11. SumFunctionOnSet([v \in live |-> Price(v)], rest) = SumFunctionOnSet(e, rest)
 <2> DEFINE f == [v \in live |-> Price(v)]
 <2>1. \A v \in rest : e[v] \in Int /\ f[v] = e[v] BY <1>4, <1>8 DEF InOneTick
 <2> HIDE DEF f, e
 <2> QED BY <1>4, <2>1, SumSame DEF f
<1>12. SumFunctionOnSet(b, live) = SumFunctionOnSet(b, K) + SumFunctionOnSet(b, rest)
  BY <1>2, <1>3, <1>4, <1>7, IncomeSplits
<1>13. /\ SumFunctionOnSet(b, K) \in Int /\ SumFunctionOnSet(b, rest) \in Int /\ SumFunctionOnSet(e, rest) \in Int
       /\ SumFunctionOnSet(InAll, completed) \in Int
  BY <1>3, <1>4, <1>7, IncomeSums
<1>14. metrics.incomes = SumFunctionOnSet(b, live) + SumFunctionOnSet(InAll, completed)
  BY <1>6, IncomeIs DEF LivesInv
<1>15. IncomeIsEarned' <=> metrics'.incomes = SumFunctionOnSet(Brought(vm', Until'), live') + SumFunctionOnSet(InAll, completed')
  BY IncomeIsNext
<1>16. Brought(vm', Until') = c BY <1>1, <1>6
<1> HIDE DEF b, c, e
<1>17. SumFunctionOnSet(c, rest) = SumFunctionOnSet(b, rest) + SumFunctionOnSet(e, rest)
 <2>1. \A v \in rest : b[v] \in Int /\ e[v] \in Int /\ c[v] \in Int /\ c[v] = b[v] + e[v]
   BY <1>4, <1>8, <1>9
 <2> QED BY <1>4, <2>1, SumOfSums
<1>18. IncomeIsEarned' BY <1>1, <1>2, <1>10, <1>11, <1>12, <1>13, <1>14, <1>15, <1>16, <1>17
<1> QED BY <1>5, <1>18 DEF LivesInv
-----------------------------------------------------------------------------
(* The types.                                                              *)

LEMMA StepKeepsTypes ==
  ASSUME TypeInv, NEW new \in Arrivals, Step(new)
  PROVE  TypeInv'
<1>1. /\ nodes' = nodes /\ now' = now /\ pc' = "execute" /\ pending' = pending /\ ignored' = ignored
      /\ live' = live \ Finished /\ completed' = completed \cup Finished
      /\ arrived' = [v \in DOMAIN arrived \cup ToSet(new) |-> IF v \in ToSet(new) THEN now ELSE arrived[v]]
  BY DEF Step
<1>2. Machines' = Machines /\ Finished \subseteq live BY <1>1 DEF Machines, Finished
<1>3. vm' = [v \in VMs |-> vm'[v]] /\ \A v \in VMs : IsVm(vm'[v]) BY StepVms DEF Keeps
<1>4. pm' = [p \in Machines |-> pm'[p]] /\ \A p \in Machines : IsMachine(pm'[p])
  BY StepMachines
<1>5. IsMetrics(metrics') BY ArrivalsAreSequences, StepMetrics
<1>6. /\ arrived' = [v \in DOMAIN arrived' |-> arrived'[v]]
      /\ DOMAIN arrived' \subseteq VMs /\ \A v \in DOMAIN arrived' : arrived'[v] \in Int
 <2>1. ToSet(new) \subseteq VMs
  <3>1. new \in Seq(VMs) BY ArrivalsAreSequences
  <3> QED BY <3>1 DEF ToSet
 <2>2. DOMAIN arrived' = DOMAIN arrived \cup ToSet(new) BY <1>1
 <2>3. \A v \in DOMAIN arrived' : arrived'[v] = IF v \in ToSet(new) THEN now ELSE arrived[v]
   BY <1>1
 <2>4. now \in Int BY NowIsATick
 <2>5. arrived' = [v \in DOMAIN arrived' |-> arrived'[v]] BY <1>1
 <2> QED BY <2>1, <2>2, <2>3, <2>4, <2>5 DEF TypeInv
<1> QED BY <1>1, <1>2, <1>3, <1>4, <1>5, <1>6 DEF TypeInv

\* Actions that leave machines, live VMs and the clock alone.
LEMMA OthersKeepTypes ==
  ASSUME TypeInv, nodes' = nodes, now' = now, pc' \in {"step", "execute", "decide", "done"},
         vm' = [v \in VMs |-> vm'[v]], \A v \in VMs : IsVm(vm'[v]), pm' = pm, IsMetrics(metrics'),
         pending' \subseteq VMs, live' = live, ignored' \subseteq VMs, completed' = completed, arrived' = arrived
  PROVE  TypeInv'
BY DEF TypeInv, Machines

\* Handling a request that is postponed or given up.
LEMMA PostponeKeepsTypes ==
  ASSUME TypeInv, NEW v \in VMs, NEW remaining \in Int, NEW latency \in {"latencyResource", "latencyAgent"}, NEW q,
         PostponeVmRequest(v, remaining, latency, q)
  PROVE  /\ vm' = [x \in VMs |-> vm'[x]] /\ \A x \in VMs : IsVm(vm'[x])
         /\ IsMetrics(metrics') /\ metrics'.incomes = metrics.incomes /\ pending' \subseteq VMs
         /\ \A x \in VMs \ {v} : vm'[x] = vm[x]
<1>1. /\ vm = [x \in VMs |-> vm[x]] /\ (\A x \in VMs : IsVm(vm[x]))
      /\ pending \subseteq VMs /\ metrics.incomes \in Int
  BY DEF TypeInv, IsMetrics
<1>2. CASE /\ Counts(metrics', 0, 0, 0, 0)
           /\ vm' = [x \in VMs |-> vm'[x]] /\ \A x \in VMs \ {v} : vm'[x] = vm[x]
           /\ IsVm(vm'[v])
           /\ pending' = pending \cup {v}
 <2>1. \A x \in VMs : IsVm(vm'[x]) BY <1>1, <1>2
 <2>2. IsMetrics(metrics') /\ metrics'.incomes = metrics.incomes BY <1>1, <1>2 DEF Counts
 <2>3. pending' \subseteq VMs BY <1>1, <1>2
 <2> QED BY <1>2, <2>1, <2>2, <2>3
<1>3. CASE Counts(metrics', 0, 1, 0, 0) /\ vm' = vm /\ pending' = pending \ {v}
 <2>2. IsMetrics(metrics') /\ metrics'.incomes = metrics.incomes BY <1>1, <1>3 DEF Counts
 <2> QED BY <1>1, <1>3, <2>2
<1> QED BY <1>2, <1>3, PostponeFields

-----------------------------------------------------------------------------
(* Every action keeps the invariant.                                       *)

LEMMA VmInvParts == VmInv <=> TypeInv /\ RequestInv /\ MachineInv /\ LivesInv
BY DEF VmInv, RequestInv, MachineInv, LivesInv

LEMMA StepKeepsAll ==
  ASSUME VmInv, NEW new \in Arrivals, Step(new)
  PROVE  TypeInv' /\ RequestInv' /\ MachineInv' /\ LivesInv'
<1>1. TypeInv /\ RequestInv /\ MachineInv /\ LivesInv /\ PlaceInv
  BY VmInvParts DEF RequestInv
<1>2. TypeInv' BY <1>1, StepKeepsTypes
<1> QED BY <1>1, <1>2, StepKeepsRequests, StepKeepsMachines, StepKeepsLives

LEMMA RequiredKeepsAll ==
  ASSUME VmInv, OnVmRequired
  PROVE  TypeInv' /\ RequestInv' /\ MachineInv' /\ LivesInv'
<1> DEFINE v == Head(agenda[now])
           q == [agenda EXCEPT ![now] = Tail(@)]
           r == vm[v].remaining
           l == "latencyResource"
<1>1. TypeInv /\ RequestInv /\ MachineInv /\ LivesInv BY VmInvParts
<1>2. /\ pc = "execute" /\ agenda[now] # <<>> /\ nodes' = nodes /\ killAll' = killAll /\ now' = now
      /\ live' = live /\ pm' = pm /\ arrived' = arrived /\ ignored' = ignored /\ completed' = completed
  BY DEF OnVmRequired
<1>3. v \in VMs /\ v \notin live /\ r \in Int /\ pc # "decide"
 <2>1. TakenUp(v, q) BY <1>1, <1>2, HeadIsTakenUp DEF RequestInv
 <2>2. v \in pending \cup Waiting(agenda) /\ v \in VMs BY <2>1 DEF TakenUp
 <2> HIDE DEF v, q
 <2>3. v \notin live BY <1>1, <2>2 DEF RequestInv, PlaceInv
 <2>4. vm[v].remaining \in Int BY <1>1, <2>2 DEF TypeInv, IsVm
 <2> QED BY <1>2, <2>2, <2>3, <2>4
<1>4. \/ /\ pending' = pending \cup {v} /\ pc' = "decide" /\ vm' = vm /\ metrics' = metrics
      \/ PostponeVmRequest(v, r, l, q) /\ pc' = pc
  BY DEF OnVmRequired
<1>5. l \in {"latencyResource", "latencyAgent"} OBVIOUS
<1> HIDE DEF v, q, r, l
<1>6. /\ vm' = [x \in VMs |-> vm'[x]] /\ (\A x \in VMs : IsVm(vm'[x]))
      /\ IsMetrics(metrics') /\ metrics'.incomes = metrics.incomes /\ pending' \subseteq VMs
      /\ \A x \in VMs \ {v} : vm'[x] = vm[x]
 <2>1. CASE pending' = pending \cup {v} /\ pc' = "decide" /\ vm' = vm /\ metrics' = metrics
   BY <1>1, <1>3, <2>1 DEF TypeInv
 <2>2. CASE PostponeVmRequest(v, r, l, q) BY <1>1, <1>3, <1>5, <2>2, PostponeKeepsTypes
 <2> QED BY <1>4, <2>1, <2>2
<1>7. pc' \in {"execute", "decide"} BY <1>2, <1>4
<1>8. TypeInv'
 <2>1. ignored' \subseteq VMs /\ pc' \in {"step", "execute", "decide", "done"}
   BY <1>1, <1>2, <1>7 DEF TypeInv
 <2> QED BY <1>1, <1>2, <1>6, <2>1, OthersKeepTypes
<1>9. \A x \in live : vm'[x] = vm[x] BY <1>1, <1>3, <1>6 DEF TypeInv
<1>10. MachineInv' BY <1>1, <1>2, <1>9, OthersKeepMachines
<1>11. LivesInv' BY <1>1, <1>2, <1>6, <1>7, <1>8, <1>9, OthersKeepLives
<1>12. RequestInv' BY <1>1, RequiredKeepsRequests
<1> QED BY <1>8, <1>10, <1>11, <1>12

LEMMA IgnoreKeepsAll ==
  ASSUME VmInv, Ignore
  PROVE  TypeInv' /\ RequestInv' /\ MachineInv' /\ LivesInv'
<1>1. TypeInv /\ RequestInv /\ MachineInv /\ LivesInv BY VmInvParts
<1>2. /\ pc = "decide" /\ pc' = "execute" /\ nodes' = nodes /\ killAll' = killAll /\ now' = now
      /\ live' = live /\ pm' = pm /\ arrived' = arrived /\ completed' = completed /\ vm' = vm
      /\ metrics' = metrics /\ pending' = pending \ asked /\ ignored' = ignored \cup asked
  BY DEF Ignore, Answered
<1>3. asked \subseteq VMs /\ ignored \subseteq VMs /\ pending \subseteq VMs
  BY <1>1 DEF RequestInv, QueueInv, TypeInv
<1>4. pending' \subseteq VMs /\ ignored' \subseteq VMs BY <1>2, <1>3
<1>5. TypeInv' BY <1>1, <1>2, <1>4 DEF TypeInv, Machines
<1>6. MachineInv' BY <1>1, <1>2, OthersKeepMachines
<1>7. LivesInv' BY <1>1, <1>2, <1>5, OthersKeepLives
<1>8. RequestInv' BY <1>1, IgnoreKeepsRequests
<1> QED BY <1>5, <1>6, <1>7, <1>8

LEMMA AllocateKeepsAll ==
  ASSUME VmInv, NEW v \in VMs, NEW p \in Machines, Allocate(v, p)
  PROVE  TypeInv' /\ RequestInv' /\ MachineInv' /\ LivesInv'
<1>1. TypeInv /\ RequestInv /\ MachineInv /\ LivesInv /\ QueueInv /\ PlaceInv
  BY VmInvParts DEF RequestInv
<1>2. /\ pc' = "execute" /\ nodes' = nodes /\ now' = now /\ live' = live \cup {v} /\ pending' = pending \ {v}
      /\ arrived' = arrived /\ completed' = completed /\ ignored' = ignored
      /\ metrics' = [metrics EXCEPT !.allocated = @ + 1]
  BY DEF Allocate, Answered
<1>3. /\ vm' = [x \in VMs |-> vm'[x]] /\ (\A x \in VMs \ {v} : vm'[x] = vm[x]) /\ IsVm(vm'[v])
      /\ pm' = [x \in Machines |-> pm'[x]] /\ (\A x \in Machines \ {p} : pm'[x] = pm[x]) /\ IsMachine(pm'[p])
  BY <1>1, AllocateFields
<1>4. (\A x \in VMs : IsVm(vm'[x])) /\ (\A x \in Machines : IsMachine(pm'[x])) /\ Machines' = Machines
  BY <1>1, <1>2, <1>3 DEF TypeInv, Machines
<1>5. IsMetrics(metrics') BY <1>1, <1>2, PlainMetrics DEF TypeInv, Counts
<1>6. TypeInv' BY <1>1, <1>2, <1>3, <1>4, <1>5 DEF TypeInv
<1> QED BY <1>1, <1>6, AllocateKeepsRequests, AllocateKeepsMachines, AllocateKeepsLives

LEMMA PostponeKeepsAll ==
  ASSUME VmInv, NEW v \in VMs, NEW step \in PostponeSteps, Postpone(v, step)
  PROVE  TypeInv' /\ RequestInv' /\ MachineInv' /\ LivesInv'
<1> DEFINE r == vm[v].remaining - step * DelayDuration
           l == "latencyAgent"
<1>1. TypeInv /\ RequestInv /\ MachineInv /\ LivesInv BY VmInvParts
<1>2. /\ pc = "decide" /\ asked = {v} /\ pc' = "execute" /\ nodes' = nodes /\ killAll' = killAll /\ now' = now
      /\ live' = live /\ pm' = pm /\ arrived' = arrived /\ completed' = completed /\ ignored' = ignored
      /\ PostponeVmRequest(v, r, l, agenda)
  BY DEF Postpone, Answered
<1>3. v \notin live BY <1>1, <1>2 DEF RequestInv, QueueInv, PlaceInv
<1>4. r \in Int /\ l \in {"latencyResource", "latencyAgent"}
 <2>1. vm[v].remaining \in Int /\ step \in Nat /\ DelayDuration \in Nat
   BY <1>1, VmFacts DEF TypeInv, IsVm
 <2>2. step * DelayDuration \in Nat BY <2>1
 <2> QED BY <2>1, <2>2
<1> HIDE DEF r, l
<1>5. /\ vm' = [x \in VMs |-> vm'[x]] /\ (\A x \in VMs : IsVm(vm'[x]))
      /\ IsMetrics(metrics') /\ metrics'.incomes = metrics.incomes /\ pending' \subseteq VMs
      /\ \A x \in VMs \ {v} : vm'[x] = vm[x]
  BY <1>1, <1>2, <1>4, PostponeKeepsTypes
<1>6. TypeInv'
 <2>1. ignored' \subseteq VMs /\ pc' \in {"step", "execute", "decide", "done"}
   BY <1>1, <1>2 DEF TypeInv
 <2> QED BY <1>1, <1>2, <1>5, <2>1, OthersKeepTypes
<1>7. \A x \in live : vm'[x] = vm[x] BY <1>1, <1>3, <1>5 DEF TypeInv
<1>8. MachineInv' BY <1>1, <1>2, <1>7, OthersKeepMachines
<1>9. LivesInv' BY <1>1, <1>2, <1>5, <1>6, <1>7, OthersKeepLives
<1>10. RequestInv' BY <1>1, PostponeKeepsRequests
<1> QED BY <1>6, <1>8, <1>9, <1>10

LEMMA PostStepKeepsAll ==
  ASSUME VmInv, PostStep
  PROVE  TypeInv' /\ RequestInv' /\ MachineInv' /\ LivesInv'
<1>1. TypeInv /\ RequestInv /\ MachineInv /\ LivesInv /\ HostInv
  BY VmInvParts DEF MachineInv
<1>2. /\ nodes' = nodes /\ vm' = vm /\ pending' = pending /\ ignored' = ignored /\ completed' = completed
      /\ arrived' = arrived /\ pc' \in {"done", "step"}
      /\ IF now = LastTick THEN now' = now ELSE now' = now + 1
  BY DEF PostStep
<1>3. now' \in 0 .. LastTick BY <1>1, <1>2, VmFacts DEF TypeInv
<1>4. /\ live' = live \ Killed /\ IsMetrics(metrics')
      /\ pm' = [p \in Machines |-> pm'[p]] /\ \A p \in Machines : IsMachine(pm'[p])
  BY <1>1, PostStepFields
<1>5. TypeInv' BY <1>1, <1>2, <1>3, <1>4 DEF TypeInv, Machines
<1> QED BY <1>1, <1>5, PostStepKeepsRequests, PostStepKeepsMachines, PostStepKeepsLives

-----------------------------------------------------------------------------
(* A fresh episode.                                                        *)

Fresh ==
  /\ nodes = Structure /\ now = 0 /\ pc = "step"
  /\ agenda = [t \in Ticks |-> <<>>]
  /\ vm = [v \in VMs |-> NewVm] /\ pm = [p \in Machines |-> EmptyPm]
  /\ pending = {} /\ live = {} /\ asked = {} /\ ignored = {} /\ completed = {}
  /\ metrics = NoMetrics /\ arrived = NotArrived

LEMMA FreshKeepsAll ==
  ASSUME Fresh
  PROVE  TypeInv /\ RequestInv /\ MachineInv /\ LivesInv
<1>1. TypeInv
 <2>1. IsVm(NewVm) BY VmFacts DEF NewVm, IsVm
 <2>2. IsMachine(EmptyPm) BY DEF EmptyPm, IsMachine
 <2>3. IsMetrics(NoMetrics) BY DEF NoMetrics, IsMetrics
 <2>4. vm = [v \in VMs |-> vm[v]] /\ \A v \in VMs : IsVm(vm[v]) BY <2>1 DEF Fresh
 <2>5. pm = [p \in Machines |-> pm[p]] /\ \A p \in Machines : IsMachine(pm[p])
   BY <2>2 DEF Fresh
 <2>6. arrived = [v \in DOMAIN arrived |-> arrived[v]] /\ DOMAIN arrived = {}
   BY DEF Fresh, NotArrived
 <2> QED BY <2>3, <2>4, <2>5, <2>6, VmFacts DEF Fresh, TypeInv
<1>2. \A t \in Ticks : agenda[t] = <<>> /\ ToSet(agenda[t]) = {} /\ IsInjective(agenda[t])
  BY SetOfEmpty DEF Fresh
<1>3. Waiting(agenda) = {} /\ IsAgenda(agenda)
 <2>1. agenda \in [Ticks -> Seq(VMs)] BY DEF Fresh
 <2> QED BY <1>2, <2>1 DEF Waiting, IsAgenda
<1>4. RequestInv
 <2>1. QueueInv BY <1>2, <1>3 DEF Fresh, QueueInv
 <2>2. PlaceInv BY <1>3 DEF Fresh, PlaceInv
 <2>3. BudgetInv BY <1>2 DEF Fresh, BudgetInv
 <2>4. Accounted({}, {}, {}, NoMetrics) BY FS_EmptySet DEF Accounted, NoMetrics
 <2>5. RequestsAccounted BY <1>3, <2>4, AccountedIs DEF Fresh
 <2> QED BY <2>1, <2>2, <2>3, <2>5 DEF RequestInv
<1>5. SumCpu({}) = 0 /\ SumMemory({}) = 0 BY FS_EmptySet, SumRecursion DEF SumCpu, SumMemory
<1>6. MachineInv
 <2>1. \A p \in Machines : pm[p].vms = {} /\ pm[p].cpu = 0 /\ pm[p].memory = 0 /\ pm[p].state = "EMPTY"
   BY DEF Fresh, EmptyPm
 <2>2. HostInv BY <2>1 DEF HostInv, Fresh
 <2>3. AmountInv BY <1>5, <2>1 DEF AmountInv
 <2>4. StateFollowsVms
  <3>1. ASSUME NEW p \in Machines PROVE 0 * 100 <= 100 * CpuCapacity(p) /\ 0 * 100 <= 100 * MemoryCapacity(p)
   <4>1. CpuCapacity(p) \in Nat /\ MemoryCapacity(p) \in Nat
     BY <1>1, CapacityType DEF TypeInv
   <4> HIDE DEF CpuCapacity
   <4> QED BY <4>1
  <3> QED BY <2>1, <3>1 DEF StateFollowsVms
 <2> QED BY <2>2, <2>3, <2>4 DEF MachineInv, StateInv
<1>7. LivesInv
 <2>1. LifeInv BY DEF LifeInv, Fresh
 <2>2. SumFunctionOnSet(Brought(vm, Until), {}) = 0 /\ SumFunctionOnSet(InAll, {}) = 0
   BY FS_EmptySet, SumRecursion
 <2>3. metrics.incomes = 0 /\ live = {} /\ completed = {} BY DEF Fresh, NoMetrics
 <2>4. IncomeIsEarned BY <1>1, <2>2, <2>3, IncomeIs
 <2> QED BY <2>1, <2>4 DEF LivesInv
<1> QED BY <1>1, <1>4, <1>6, <1>7

LEMMA NextKeepsAll ==
  ASSUME VmInv, [Next]_vars
  PROVE  VmInv' \/ Fresh'
<1>1. TypeInv /\ RequestInv /\ MachineInv /\ LivesInv BY VmInvParts
<1>2. TypeInv' /\ RequestInv' /\ MachineInv' /\ LivesInv' => VmInv'
  BY DEF VmInv, RequestInv, MachineInv, LivesInv
<1>3. ASSUME NEW new \in Arrivals, Step(new) PROVE VmInv' BY <1>2, <1>3, StepKeepsAll
<1>4. CASE OnVmRequired BY <1>2, <1>4, RequiredKeepsAll
<1>5. CASE Ignore BY <1>2, <1>5, IgnoreKeepsAll
<1>6. ASSUME NEW v \in VMs, NEW p \in Machines, Allocate(v, p) PROVE VmInv'
  BY <1>2, <1>6, AllocateKeepsAll
<1>7. ASSUME NEW v \in VMs, NEW step \in PostponeSteps, Postpone(v, step) PROVE VmInv'
  BY <1>2, <1>7, PostponeKeepsAll
<1>8. CASE PostStep BY <1>2, <1>8, PostStepKeepsAll
<1>9. CASE Reset BY <1>1, <1>9 DEF Reset, Fresh, TypeInv, Machines
<1>10. CASE Done \/ UNCHANGED vars
 <2>1. UNCHANGED vars BY <1>10 DEF Done
 <2>2. TypeInv' BY <1>1, <2>1 DEF TypeInv, Machines, vars
 <2>3. RequestInv'
   BY <1>1, <2>1 DEF RequestInv, QueueInv, PlaceInv, BudgetInv, InBudget, RequestsAccounted, vars
 <2>4. MachineInv' BY <1>1, <2>1, OthersKeepMachines DEF vars
 <2>5. LivesInv' BY <1>1, <2>1 DEF LivesInv, LifeInv, IncomeIsEarned, Price, vars
 <2> QED BY <1>2, <2>2, <2>3, <2>4, <2>5
<1> QED BY <1>3, <1>4, <1>5, <1>6, <1>7, <1>8, <1>9, <1>10 DEF Next

\* The invariant holds in every episode.
LEMMA VmSchedulingIsSound == Spec => []VmInv
<1>1. Init => Fresh BY DEF Init, StructureInit, Fresh
<1>2. Fresh => VmInv BY FreshKeepsAll, VmInvParts
<1>3. VmInv /\ [Next]_vars => VmInv' \/ Fresh' BY NextKeepsAll
<1> QED BY <1>1, <1>2, <1>3, PTL DEF Spec

-----------------------------------------------------------------------------
(* Theorems.                                                               *)

\* Every request is settled, in time (_on_vm_required, _postpone_vm_request,
\* _on_action_received), for any VMs, budgets and machines.
THEOREM VmRequestsSettled == Spec => []RequestsSettled
<1>1. VmInv => RequestsSettled
 <2> SUFFICES ASSUME VmInv PROVE RequestsSettled
   OBVIOUS
 <2>1. TypeInv /\ QueueInv /\ BudgetInv /\ RequestsAccounted BY DEF VmInv
 <2>2. BufferTimeKept
  <3> SUFFICES ASSUME NEW v \in pending
               PROVE  \E t \in Ticks :
                        /\ IF v \in asked THEN t = now ELSE v \in ToSet(agenda[t])
                        /\ \A u \in Ticks \ {t} : v \notin ToSet(agenda[u])
                        /\ t >= now
                        /\ t - arrived[v] + vm[v].remaining = BufferTimeBudget
                        /\ vm[v].remaining >= 0
    BY DEF BufferTimeKept
  <3>1. now \in Ticks /\ now \in Int /\ \A t \in Ticks : t \in Int BY <2>1, NowIsATick
  <3>2. CASE v \in asked
   <4>1. InBudget(v, now) BY <2>1, <3>2 DEF BudgetInv
   <4>2. \A u \in Ticks : v \notin ToSet(agenda[u]) BY <2>1, <3>2 DEF QueueInv, Waiting
   <4> QED BY <3>1, <3>2, <4>1, <4>2 DEF InBudget
  <3>3. CASE v \notin asked
   <4>1. PICK t \in Ticks : v \in ToSet(agenda[t]) BY <2>1, <3>3 DEF QueueInv, Waiting
   <4>2. \A u \in Ticks \ {t} : v \notin ToSet(agenda[u])
     BY <2>1, <4>1 DEF QueueInv, IsAgenda
   <4>3. InBudget(v, t) BY <2>1, <4>1 DEF BudgetInv
   <4>4. t >= now
    <5>1. agenda[t] # <<>> BY <4>1, SetOfEmpty
    <5>2. ~(t < now) BY <2>1, <5>1 DEF QueueInv
    <5> QED BY <3>1, <5>2
   <4> QED BY <3>3, <4>1, <4>2, <4>3, <4>4 DEF InBudget
  <3> QED BY <3>2, <3>3
 <2> QED BY <2>1, <2>2 DEF RequestsSettled
<1> QED BY <1>1, VmSchedulingIsSound, PTL

\* Where overloads do not kill, machines give away what their VMs require, and
\* their states and rates of oversubscription are kept (_on_action_received,
\* _process_finished_vm, _get_valid_pms).
THEOREM VmResourcesAccounted == Spec => []ResourcesAccounted
<1>1. VmInv => ResourcesAccounted
  BY DEF VmInv, HostInv, AmountInv, StateInv, ResourcesAccounted, ResourcesFollowVms
<1> QED BY <1>1, VmSchedulingIsSound, PTL

\* Every VM has its lifetime, and the incomes are what the ticks of the living
\* and of the completed VMs cost (_update_incomes, _overload).
THEOREM VmLifetimesArePaid == Spec => []LifetimesArePaid
<1>1. VmInv => LifetimesArePaid
 <2> SUFFICES ASSUME VmInv PROVE LifetimesArePaid
   OBVIOUS
 <2>1. LifeInv /\ IncomeIsEarned BY DEF VmInv
 <2>2. LifetimesKept BY <2>1 DEF LifeInv, LifetimesKept
 <2> QED BY <2>1, <2>2 DEF LifetimesArePaid
<1> QED BY <1>1, VmSchedulingIsSound, PTL
=============================================================================
