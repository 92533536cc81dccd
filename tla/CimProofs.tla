----------------------------- MODULE CimProofs ------------------------------
(***************************************************************************)
(* The container inventory management engine, for any ports, vessels,      *)
(* schedules, routes, buffers and orders: no container is lost, vessels    *)
(* keep their schedules and deliver on arrival, and an action inside the   *)
(* scope that an agent is shown is always accepted.                        *)
(***************************************************************************)
EXTENDS Cim, DataLemmas

-----------------------------------------------------------------------------
(* The inductive invariant.                                                *)

\* The events, by what they carry.
Customer == [type : {"ORDER", "RETURN_FULL"}, p : Ports, q : Ports, n : Nat]
Empties == [type : {"RETURN_EMPTY"}, p : Ports, n : Nat]
Cargo == [type : {"DISCHARGE_FULL", "LOAD_EMPTY", "DISCHARGE_EMPTY"}, v : Vessels, p : Ports, n : Nat]
Voyage == [type : {"VESSEL_ARRIVAL", "VESSEL_DEPARTURE", "LOAD_FULL", "DECISION"}, v : Vessels, p : Ports]
Event == Customer \cup Empties \cup Cargo \cup Voyage
Agenda == [Ticks -> Seq(Event)]

IsAction(e) == e.type \in {"LOAD_EMPTY", "DISCHARGE_EMPTY"}
OfToday == {"VESSEL_ARRIVAL", "LOAD_FULL", "DECISION", "LOAD_EMPTY", "DISCHARGE_EMPTY"}
CargoTypes == {"RETURN_FULL", "RETURN_EMPTY", "DISCHARGE_FULL"}

PortState == [empty : Nat, full : Nat, on_shipper : Nat, on_consignee : Nat]
VesselState == [empty : Nat, full : Nat, last_loc : Nat, next_loc : Nat,
                parking : BOOLEAN, at : Ports \cup {AtSea}]

(***************************************************************************)
(* What waits in the event buffer is counted with weights: a weight is a   *)
(* number for each event, a sequence of events weighs what they weigh      *)
(* together, an agenda what its ticks do.  Handling an event takes its     *)
(* weight out and adds the weights of the events that the handler plans.   *)
(***************************************************************************)
PlannedSum(w, ag) == SumFunctionOnSet([t \in Ticks |-> Sum(w, ag[t])], Ticks)

Leaving(v) == [e \in Event |-> IF e.type = "VESSEL_DEPARTURE" /\ e.v = v THEN 1 ELSE 0]
Coming(v) == [e \in Event |-> IF e.type = "VESSEL_ARRIVAL" /\ e.v = v THEN 1 ELSE 0]
Carrying(type, place) == [e \in Event |-> Carried(e, type, place)]

TypeInv ==
  /\ joint \in BOOLEAN /\ stops \in Schedules /\ now \in 0 .. MaxTick
  /\ pc \in {"step", "execute", "end", "AssertionError"}
  /\ agenda \in [Ticks -> Seq(Event)]
  /\ port \in [Ports -> [empty : Nat, full : Nat, on_shipper : Nat, on_consignee : Nat]]
  /\ vessel \in [Vessels -> [empty : Nat, full : Nat, last_loc : Nat, next_loc : Nat,
                             parking : BOOLEAN, at : Ports \cup {AtSea}]]
  /\ full_on_ports \in [Ports \X Ports -> Nat]
  /\ full_on_vessels \in [Vessels \X Ports -> Nat]

\* Nothing is planned for the past, and what step and the agents add is of this tick.
TimeInv ==
  /\ \A t \in Ticks : t < now => agenda[t] = <<>>
  /\ \A t \in Ticks : \A e \in ToSet(agenda[t]) :
       e.type \in {"VESSEL_ARRIVAL", "LOAD_FULL", "DECISION", "LOAD_EMPTY", "DISCHARGE_EMPTY"}
         => t = now /\ pc \in {"execute", "AssertionError"}

\* Laden containers alone never exceed the capacity.  With the empties vessels
\* are no fuller than they can be if capacities are whole numbers of containers:
\* else _on_full_load leaves one empty too many aboard, for it rounds up.
WholeContainers ==
  \A v \in Vessels : Capacity[v] % Volume = 0 /\ VesselEmpty[v] * Volume <= Capacity[v]
LadenFit == \A v \in Vessels : vessel[v].full * Volume <= Capacity[v]
FitInv == LadenFit /\ (WholeContainers => CapacityRespected)

\* A vessel has one departure planned for each stop that it is still to leave.
LeavesAt(v, t) == \E n \in vessel[v].next_loc + 1 .. Len(stops[v]) : stops[v][n].leave = t

\* It parks at its next stop from its arrival on; when its arrival is due and
\* it does not yet park there, the tick has one arrival event for it.
VoyageOf(v) ==
  LET loc == vessel[v].next_loc IN
  /\ loc < Len(stops[v])
  /\ \A t \in Ticks : Sum(Leaving(v), agenda[t]) = IF LeavesAt(v, t) THEN 1 ELSE 0
  /\ loc > 0 => stops[v][loc].leave <= now /\ (pc = "step" => stops[v][loc].leave < now)
  /\ IF vessel[v].parking
     THEN /\ vessel[v].at = stops[v][loc + 1].port
          /\ stops[v][loc + 1].arrive <= now
          /\ pc = "step" /\ loc > 0 => stops[v][loc + 1].arrive < now
     ELSE loc > 0 /\ stops[v][loc + 1].arrive >= now
  /\ Sum(Coming(v), agenda[now])
       = IF pc # "step" /\ ~vessel[v].parking /\ stops[v][loc + 1].arrive = now THEN 1 ELSE 0
SailInv == \A v \in Vessels : VoyageOf(v)

\* An action is answered at once when decisions are answered one by one.
ActionInv ==
  ~joint => /\ \A t \in Ticks : \A i \in DOMAIN agenda[t] :
                 IsAction(agenda[t][i]) => t = now /\ i = 1 /\ pc = "execute" /\ Accepted(agenda[t][i])
            /\ pc # "AssertionError"

\* No discharge of a vessel waits behind the vessel's arrival.
NoLate(s) ==
  \A i, j \in DOMAIN s : i < j /\ s[i].type = "VESSEL_ARRIVAL" /\ s[j].type = "DISCHARGE_FULL" => s[i].v # s[j].v

\* The stop that a vessel has come to.
AtHand(v, m) == m = vessel[v].next_loc + 1 /\ stops[v][m].arrive <= now

\* Laden containers are discharged when the vessel arrives at the first stop to
\* come at the port that they are for.
Due(e, t) ==
  \E n \in vessel[e.v].next_loc + 1 .. Len(stops[e.v]) :
    /\ stops[e.v][n].arrive = t /\ stops[e.v][n].port = e.p
    /\ \A m \in vessel[e.v].next_loc + 1 .. n - 1 : stops[e.v][m].port # e.p \/ AtHand(e.v, m)
    /\ vessel[e.v].parking => n > vessel[e.v].next_loc + 1

\* A vessel loads at the stop that it arrives at.
Loading(e) ==
  /\ vessel[e.v].next_loc > 0 /\ e.p = stops[e.v][vessel[e.v].next_loc + 1].port
  /\ stops[e.v][vessel[e.v].next_loc + 1].arrive = now
Expected(e, t) ==
  /\ e.type = "LOAD_FULL" => Loading(e)
  /\ e.type = "DISCHARGE_FULL" => Due(e, t)
DueInv ==
  /\ \A t \in Ticks : \A e \in ToSet(agenda[t]) : Expected(e, t)
  /\ NoLate(agenda[now])

\* The books: totals, matrices and planned events agree.
PortBooks(p) ==
  /\ port[p].full = SumFunctionOnSet([q \in Ports |-> full_on_ports[<<p, q>>]], Ports)
  /\ port[p].on_shipper = PlannedSum(Carrying("RETURN_FULL", p), agenda)
  /\ port[p].on_consignee = PlannedSum(Carrying("RETURN_EMPTY", p), agenda)
VesselBooks(v) ==
  /\ vessel[v].full = SumFunctionOnSet([q \in Ports |-> full_on_vessels[<<v, q>>]], Ports)
  /\ \A q \in Ports : full_on_vessels[<<v, q>>] = PlannedSum(Carrying("DISCHARGE_FULL", <<v, q>>), agenda)
BooksInv == (\A p \in Ports : PortBooks(p)) /\ (\A v \in Vessels : VesselBooks(v))
CountInv == BooksInv /\ ContainersConserved

CimInv == TypeInv /\ TimeInv /\ FitInv /\ SailInv /\ ActionInv /\ DueInv /\ CountInv

-----------------------------------------------------------------------------
(* How the events of an agenda change.                                     *)

\* The ticks are finitely many, those of an episode among them.
LEMMA TicksFinite == IsFiniteSet(Ticks) /\ Ticks \subseteq Nat /\ \A t \in 0 .. MaxTick : t \in Ticks
<1>1. Horizon \in Nat /\ MaxTick \in Nat /\ MaxTick <= Horizon BY CimAssumption
<1>2. IsFiniteSet(0 .. Horizon) BY <1>1, FS_Interval
<1> QED BY <1>1, <1>2 DEF Ticks

\* The events of new are added to those of a, before or after them.
Adds(a, new, b) == \A t \in Ticks : b[t] = a[t] \o new[t] \/ b[t] = new[t] \o a[t]

\* A tick to which events were added holds and weighs both.
LEMMA AddedEvents ==
  ASSUME NEW a \in Agenda, NEW new \in Agenda, NEW b, Adds(a, new, b), NEW t \in Ticks
  PROVE  /\ b[t] \in Seq(Event)
         /\ ToSet(b[t]) = ToSet(a[t]) \cup ToSet(new[t])
         /\ \A w \in [Event -> Int] : Sum(w, b[t]) = Sum(w, a[t]) + Sum(w, new[t])
<1>1. a[t] \in Seq(Event) /\ new[t] \in Seq(Event) BY DEF Agenda
<1> DEFINE s == a[t]
           r == new[t]
<1>2. s \in Seq(Event) /\ r \in Seq(Event) /\ (b[t] = s \o r \/ b[t] = r \o s)
  BY <1>1 DEF Adds
<1> HIDE DEF s, r
<1>3. ASSUME NEW x \in Seq(Event), NEW y \in Seq(Event)
      PROVE  /\ x \o y \in Seq(Event) /\ ToSet(x \o y) = ToSet(x) \cup ToSet(y)
             /\ \A w \in [Event -> Int] : Sum(w, x \o y) = Sum(w, x) + Sum(w, y) /\ Sum(w, x) \in Int /\ Sum(w, y) \in Int
 <2> DEFINE z == x \o y
            n == Len(x)
            m == Len(y)
 <2>1. /\ z \in Seq(Event) /\ n \in Nat /\ m \in Nat
       /\ DOMAIN x = 1 .. n /\ DOMAIN y = 1 .. m /\ DOMAIN z = 1 .. n + m
       /\ \A i \in 1 .. n : z[i] = x[i]
       /\ \A i \in 1 .. m : z[n + i] = y[i]
   OBVIOUS
 <2> HIDE DEF z, n, m
 <2>2. ToSet(z) \subseteq ToSet(x) \cup ToSet(y)
  <3> SUFFICES ASSUME NEW k \in 1 .. n + m PROVE z[k] \in ToSet(x) \cup ToSet(y)
    BY <2>1 DEF ToSet
  <3>1. CASE k \in 1 .. n BY <2>1, <3>1 DEF ToSet
  <3>2. CASE k \notin 1 .. n
   <4>1. k - n \in 1 .. m /\ n + (k - n) = k BY <2>1, <3>2
   <4>2. z[k] = y[k - n] BY <2>1, <4>1
   <4> QED BY <2>1, <4>1, <4>2 DEF ToSet
  <3> QED BY <3>1, <3>2
 <2>3. ToSet(x) \cup ToSet(y) \subseteq ToSet(z)
  <3>1. \A i \in 1 .. n : i \in DOMAIN z /\ z[i] = x[i] BY <2>1
  <3>2. \A i \in 1 .. m : n + i \in DOMAIN z /\ z[n + i] = y[i] BY <2>1
  <3>3. ToSet(x) \subseteq ToSet(z) BY <2>1, <3>1 DEF ToSet
  <3>4. ToSet(y) \subseteq ToSet(z) BY <2>1, <3>2 DEF ToSet
  <3> QED BY <3>3, <3>4
 <2>4. \A w \in [Event -> Int] : Sum(w, x \o y) = Sum(w, x) + Sum(w, y) /\ Sum(w, x) \in Int /\ Sum(w, y) \in Int
   BY SumOfConcat, SumType
 <2> QED BY <2>1, <2>2, <2>3, <2>4 DEF z
<1>4. CASE b[t] = s \o r
 <2>1. /\ b[t] \in Seq(Event) /\ ToSet(b[t]) = ToSet(s) \cup ToSet(r)
       /\ \A w \in [Event -> Int] : Sum(w, b[t]) = Sum(w, s) + Sum(w, r)
   BY <1>2, <1>3, <1>4
 <2> QED BY <2>1 DEF s, r
<1>5. CASE b[t] = r \o s
 <2>1. /\ b[t] \in Seq(Event) /\ ToSet(b[t]) = ToSet(r) \cup ToSet(s)
       /\ \A w \in [Event -> Int] : /\ Sum(w, b[t]) = Sum(w, r) + Sum(w, s)
                                    /\ Sum(w, r) \in Int /\ Sum(w, s) \in Int
   BY <1>2, <1>3, <1>5
 <2>2. ToSet(r) \cup ToSet(s) = ToSet(s) \cup ToSet(r) OBVIOUS
 <2>3. \A w \in [Event -> Int] : Sum(w, b[t]) = Sum(w, s) + Sum(w, r)
  <3> SUFFICES ASSUME NEW w \in [Event -> Int] PROVE Sum(w, b[t]) = Sum(w, s) + Sum(w, r)
    OBVIOUS
  <3>1. Sum(w, b[t]) = Sum(w, r) + Sum(w, s) /\ Sum(w, r) \in Int /\ Sum(w, s) \in Int
    BY <2>1
  <3> QED BY <3>1
 <2> QED BY <2>1, <2>2, <2>3 DEF s, r
<1> QED BY <1>2, <1>4, <1>5

\* What an agenda weighs is whole, and natural where the weights are.
LEMMA PlannedType ==
  ASSUME NEW ag \in Agenda, NEW w \in [Event -> Int]
  PROVE  /\ PlannedSum(w, ag) \in Int
         /\ w \in [Event -> Nat] => PlannedSum(w, ag) \in Nat
<1> DEFINE f == [t \in Ticks |-> Sum(w, ag[t])]
<1>1. \A t \in Ticks : ag[t] \in Seq(Event) BY DEF Agenda
<1>2. \A t \in Ticks : f[t] \in Int /\ (w \in [Event -> Nat] => f[t] \in Nat)
  BY <1>1, SumType
<1>3. PlannedSum(w, ag) = SumFunctionOnSet(f, Ticks) BY DEF PlannedSum
<1> HIDE DEF f
<1>4. SumFunctionOnSet(f, Ticks) \in Int BY <1>2, TicksFinite, SumRecursion
<1>5. ASSUME w \in [Event -> Nat] PROVE SumFunctionOnSet(f, Ticks) \in Nat
 <2>1. \A t \in Ticks : f[t] \in Nat BY <1>2, <1>5
 <2> QED BY <2>1, TicksFinite, SumIsNatural
<1> QED BY <1>3, <1>4, <1>5

\* An agenda to which events were added weighs what both weigh.
LEMMA PlannedAdds ==
  ASSUME NEW a \in Agenda, NEW new \in Agenda, NEW b, Adds(a, new, b), NEW w \in [Event -> Int]
  PROVE  PlannedSum(w, b) = PlannedSum(w, a) + PlannedSum(w, new)
<1> DEFINE f == [t \in Ticks |-> Sum(w, a[t])]
           g == [t \in Ticks |-> Sum(w, new[t])]
           h == [t \in Ticks |-> Sum(w, b[t])]
<1>1. \A t \in Ticks : f[t] \in Int /\ g[t] \in Int /\ h[t] \in Int /\ h[t] = f[t] + g[t]
 <2> SUFFICES ASSUME NEW t \in Ticks PROVE f[t] \in Int /\ g[t] \in Int /\ h[t] \in Int /\ h[t] = f[t] + g[t]
   OBVIOUS
 <2>1. Sum(w, b[t]) = Sum(w, a[t]) + Sum(w, new[t]) BY AddedEvents
 <2>2. a[t] \in Seq(Event) /\ new[t] \in Seq(Event) BY DEF Agenda
 <2>3. Sum(w, a[t]) \in Int /\ Sum(w, new[t]) \in Int BY <2>2, SumType
 <2> QED BY <2>1, <2>3
<1>2. /\ PlannedSum(w, b) = SumFunctionOnSet(h, Ticks) /\ PlannedSum(w, a) = SumFunctionOnSet(f, Ticks)
      /\ PlannedSum(w, new) = SumFunctionOnSet(g, Ticks)
  BY DEF PlannedSum
<1> HIDE DEF f, g, h
<1>3. SumFunctionOnSet(h, Ticks) = SumFunctionOnSet(f, Ticks) + SumFunctionOnSet(g, Ticks)
 <2>1. IsFiniteSet(Ticks) BY TicksFinite
 <2> QED BY <1>1, <2>1, SumOfSums
<1> QED BY <1>2, <1>3

\* One event is planned.
Single(e, u) == [t \in Ticks |-> IF t = u THEN << e >> ELSE << >>]

\* An agenda of a single event weighs what that event weighs.
LEMMA SingleEvent ==
  ASSUME NEW e \in Event, NEW u \in Ticks
  PROVE  /\ Single(e, u) \in Agenda
         /\ \A t \in Ticks : ToSet(Single(e, u)[t]) = IF t = u THEN {e} ELSE {}
         /\ \A w \in [Event -> Int] :
              /\ PlannedSum(w, Single(e, u)) = w[e]
              /\ \A t \in Ticks : Sum(w, Single(e, u)[t]) = IF t = u THEN w[e] ELSE 0
<1>1. Single(e, u) \in Agenda BY DEF Single, Agenda
<1>2. ToSet(<< e >>) = {e} /\ ToSet(<< >>) = {} BY DEF ToSet
<1>3. \A t \in Ticks : ToSet(Single(e, u)[t]) = IF t = u THEN {e} ELSE {} BY <1>2 DEF Single
<1>4. ASSUME NEW w \in [Event -> Int]
      PROVE  /\ PlannedSum(w, Single(e, u)) = w[e]
             /\ \A t \in Ticks : Sum(w, Single(e, u)[t]) = IF t = u THEN w[e] ELSE 0
 <2> DEFINE f == [t \in Ticks |-> Sum(w, Single(e, u)[t])]
            D == Ticks \ {u}
 <2>1. Sum(w, << e >>) = w[e] /\ Sum(w, << >>) = 0 /\ w[e] \in Int BY SumOfEvents
 <2>2. \A t \in Ticks : f[t] = IF t = u THEN w[e] ELSE 0 BY <2>1 DEF Single
 <2>3. PlannedSum(w, Single(e, u)) = SumFunctionOnSet(f, Ticks) BY DEF PlannedSum
 <2>4. \A t \in Ticks : Sum(w, Single(e, u)[t]) = IF t = u THEN w[e] ELSE 0
   BY <2>1 DEF Single
 <2>5. Ticks = D \cup {u} /\ u \notin D /\ IsFiniteSet(D) BY TicksFinite, FS_RemoveElement
 <2>6. \A t \in D : f[t] = 0 BY <2>2
 <2> HIDE DEF f, D
 <2>7. SumFunctionOnSet(f, D) = 0 BY <2>5, <2>6, SumOfZeros
 <2>8. \A t \in D \cup {u} : f[t] \in Int BY <2>1, <2>2, <2>5
 <2>9. SumFunctionOnSet(f, D \cup {u}) = f[u] + SumFunctionOnSet(f, D)
   BY <2>5, <2>8, SumAdds
 <2>10. f[u] = w[e] BY <2>2
 <2> QED BY <2>1, <2>3, <2>4, <2>5, <2>7, <2>9, <2>10
<1> QED BY <1>1, <1>3, <1>4

\* The first event of tick u is taken out.
Without(a, u) == [a EXCEPT ![u] = Tail(@)]

\* An agenda without the first event of a tick weighs as much less as that
\* event weighs.
LEMMA HeadTaken ==
  ASSUME NEW a \in Agenda, NEW u \in Ticks, a[u] # << >>
  PROVE  /\ Head(a[u]) \in Event /\ Head(a[u]) \in ToSet(a[u])
         /\ Without(a, u) \in Agenda
         /\ \A t \in Ticks : /\ ToSet(Without(a, u)[t]) \subseteq ToSet(a[t])
                             /\ t # u => Without(a, u)[t] = a[t]
         /\ Without(a, u)[u] = Tail(a[u])
         /\ \A w \in [Event -> Int] :
              /\ PlannedSum(w, a) = w[Head(a[u])] + PlannedSum(w, Without(a, u))
              /\ Sum(w, a[u]) = w[Head(a[u])] + Sum(w, Without(a, u)[u])
<1> DEFINE b == Without(a, u)
           s == a[u]
           r == Tail(s)
<1>1. s \in Seq(Event) /\ s # << >> BY DEF Agenda
<1>2. /\ Head(s) \in Event /\ r \in Seq(Event)
      /\ Head(s) = s[1] /\ 1 \in DOMAIN s
      /\ \A i \in DOMAIN r : i + 1 \in DOMAIN s /\ r[i] = s[i + 1]
 <2> HIDE DEF s
 <2> QED BY <1>1, HeadTailProperties, ElementOfSeq
<1>3. Head(s) \in ToSet(s) /\ ToSet(r) \subseteq ToSet(s)
 <2> HIDE DEF s, r
 <2> QED BY <1>2 DEF ToSet
<1>4. DOMAIN b = Ticks /\ b[u] = r /\ \A t \in Ticks : t # u => b[t] = a[t]
  BY DEF Agenda, Without
<1>5. b \in Agenda
 <2>1. b = [t \in Ticks |-> b[t]] BY DEF Agenda, Without
 <2>2. \A t \in Ticks : b[t] \in Seq(Event) BY <1>2, <1>4 DEF Agenda
 <2> HIDE DEF b
 <2> QED BY <2>1, <2>2 DEF Agenda
<1>6. \A t \in Ticks : ToSet(b[t]) \subseteq ToSet(a[t])
 <2> HIDE DEF b, r
 <2> QED BY <1>3, <1>4
<1>7. ASSUME NEW w \in [Event -> Int]
      PROVE  /\ PlannedSum(w, a) = w[Head(s)] + PlannedSum(w, b)
             /\ Sum(w, s) = w[Head(s)] + Sum(w, b[u])
 <2> DEFINE f == [t \in Ticks |-> Sum(w, a[t])]
            g == [t \in Ticks |-> Sum(w, b[t])]
 <2>1. Sum(w, s) = w[Head(s)] + Sum(w, r)
  <3> HIDE DEF s
  <3> QED BY <1>1, SumOfTail
 <2>2. PlannedSum(w, a) = SumFunctionOnSet(f, Ticks) /\ PlannedSum(w, b) = SumFunctionOnSet(g, Ticks)
   BY DEF PlannedSum
 <2>3. \A t \in Ticks : f[t] \in Int /\ g[t] \in Int
  <3>1. \A t \in Ticks : a[t] \in Seq(Event) /\ b[t] \in Seq(Event) BY <1>5 DEF Agenda
  <3> HIDE DEF b
  <3> QED BY <3>1, SumType
 <2>4. \A t \in Ticks \ {u} : g[t] = f[t] BY <1>4
 <2>5. f[u] = Sum(w, s) /\ g[u] = Sum(w, r) BY <1>4
 <2> HIDE DEF f, g, b, s, r
 <2>6. SumFunctionOnSet(g, Ticks) = SumFunctionOnSet(f, Ticks) - f[u] + g[u]
   BY <2>3, <2>4, TicksFinite, SumChanges
 <2>7. SumFunctionOnSet(f, Ticks) \in Int /\ SumFunctionOnSet(g, Ticks) \in Int
   BY <2>3, TicksFinite, SumRecursion
 <2>8. w[Head(s)] \in Int BY <1>2
 <2>9. f[u] \in Int /\ g[u] \in Int BY <2>3
 <2> QED BY <1>4, <2>1, <2>2, <2>5, <2>6, <2>7, <2>8, <2>9
<1> QED BY <1>2, <1>3, <1>4, <1>5, <1>6, <1>7

-----------------------------------------------------------------------------
-----------------------------------------------------------------------------
(* The stops of the vessels.                                               *)

\* What CimAssumption says of the stops of one vessel.
LEMMA ScheduleData ==
  ASSUME NEW sch \in Schedules, NEW v \in Vessels
  PROVE  /\ sch[v] \in Seq([port : Ports, arrive : Nat, leave : Nat])
         /\ Len(sch[v]) \in Nat \ {0} /\ DOMAIN sch[v] = 1 .. Len(sch[v])
         /\ \A n \in 1 .. Len(sch[v]) :
              /\ sch[v][n].port \in Ports /\ sch[v][n].arrive \in Ticks /\ sch[v][n].leave \in Ticks
              /\ sch[v][n].arrive \in Nat /\ sch[v][n].leave \in Nat
              /\ sch[v][n].arrive < sch[v][n].leave
              /\ n > 1 => sch[v][n - 1].leave < sch[v][n].arrive
         /\ sch[v][1].arrive = 0 /\ sch[v][Len(sch[v])].leave > MaxTick
<1> DEFINE s == sch[v]
<1>1. s \in Seq([port : Ports, arrive : Nat, leave : Nat]) BY CimAssumption
<1>2. s # << >> /\ s[1].arrive = 0 /\ s[Len(s)].leave > MaxTick BY CimAssumption
<1>3. \A n \in DOMAIN s : /\ s[n].arrive < s[n].leave /\ s[n].leave <= Horizon
                          /\ n > 1 => s[n - 1].leave < s[n].arrive
  BY CimAssumption
<1> HIDE DEF s
<1>4. Len(s) \in Nat \ {0} /\ DOMAIN s = 1 .. Len(s) BY <1>1, <1>2
<1>5. \A n \in 1 .. Len(s) : s[n].port \in Ports /\ s[n].arrive \in Nat /\ s[n].leave \in Nat
 <2>1. \A n \in 1 .. Len(s) : s[n] \in [port : Ports, arrive : Nat, leave : Nat]
   BY <1>1, ElementOfSeq
 <2> QED BY <2>1
<1>6. \A n \in 1 .. Len(s) : s[n].arrive \in Ticks /\ s[n].leave \in Ticks
 <2>1. Horizon \in Nat BY CimAssumption
 <2> SUFFICES ASSUME NEW n \in 1 .. Len(s) PROVE s[n].arrive \in 0 .. Horizon /\ s[n].leave \in 0 .. Horizon
   BY DEF Ticks
 <2>2. s[n].arrive < s[n].leave /\ s[n].leave <= Horizon BY <1>3, <1>4
 <2> QED BY <1>5, <2>1, <2>2
<1> QED BY <1>1, <1>2, <1>3, <1>4, <1>5, <1>6 DEF s

\* A vessel leaves every stop before it arrives at a later one.
LEMMA StopsInOrder ==
  ASSUME NEW sch \in Schedules, NEW v \in Vessels, NEW m \in 1 .. Len(sch[v]), NEW n \in m + 1 .. Len(sch[v])
  PROVE  /\ sch[v][m].leave < sch[v][n].arrive /\ sch[v][m].arrive < sch[v][n].arrive
         /\ sch[v][m].leave < sch[v][n].leave
<1> DEFINE s == sch[v]
           Bad == {k \in m + 1 .. Len(s) : ~ (s[m].leave < s[k].arrive)}
<1>1. /\ Len(s) \in Nat
      /\ \A k \in 1 .. Len(s) :
           /\ s[k].arrive \in Nat /\ s[k].leave \in Nat /\ s[k].arrive < s[k].leave
           /\ k > 1 => s[k - 1].leave < s[k].arrive
  BY ScheduleData
<1> HIDE DEF s
<1>2. Bad = {}
 <2> SUFFICES ASSUME Bad # {} PROVE FALSE
   OBVIOUS
 <2>1. PICK k \in Bad : \A u \in Bad : k <= u
  <3>1. Bad \subseteq Nat /\ Bad # {} BY <1>1
  <3> HIDE DEF Bad
  <3> QED BY <3>1, FirstOf
 <2>2. k \in m + 1 .. Len(s) /\ k - 1 \notin Bad /\ k \in 1 .. Len(s) /\ k - 1 \in 1 .. Len(s) /\ m \in 1 .. Len(s)
   BY <1>1, <2>1 DEF s
 <2>3. s[k - 1].leave < s[k].arrive BY <1>1, <2>2
 <2>4. CASE k = m + 1 BY <1>1, <2>1, <2>2, <2>3, <2>4
 <2>5. CASE k # m + 1
  <3>1. s[m].leave < s[k - 1].arrive BY <1>1, <2>2, <2>5
  <3>2. /\ s[m].leave \in Nat /\ s[k - 1].arrive \in Nat /\ s[k - 1].leave \in Nat /\ s[k].arrive \in Nat
        /\ s[k - 1].arrive < s[k - 1].leave
    BY <1>1, <2>2
  <3> DEFINE a == s[m].leave
             b == s[k - 1].arrive
             c == s[k - 1].leave
             d == s[k].arrive
  <3>3. a < d
   <4>1. a \in Nat /\ b \in Nat /\ c \in Nat /\ d \in Nat /\ a < b /\ b < c /\ c < d
     BY <2>3, <3>1, <3>2
   <4> HIDE DEF a, b, c, d
   <4> QED BY <4>1
  <3> QED BY <2>1, <3>3
 <2> QED BY <2>4, <2>5
<1>3. m \in 1 .. Len(s) /\ n \in m + 1 .. Len(s) BY DEF s
<1>4. s[m].leave < s[n].arrive /\ n \in 1 .. Len(s) BY <1>1, <1>2, <1>3
<1>5. /\ s[m].arrive \in Nat /\ s[m].leave \in Nat /\ s[n].arrive \in Nat /\ s[n].leave \in Nat
      /\ s[m].arrive < s[m].leave /\ s[n].arrive < s[n].leave
  BY <1>1, <1>3, <1>4
<1>6. s[m].leave < s[n].arrive /\ s[m].arrive < s[n].arrive /\ s[m].leave < s[n].leave
  BY <1>4, <1>5
<1> QED BY <1>6 DEF s

-----------------------------------------------------------------------------
(* What the weights are.                                                   *)

\* The fields of an event.
LEMMA EventFields ==
  ASSUME NEW e \in Event
  PROVE  /\ e.type \in {"ORDER", "RETURN_FULL", "RETURN_EMPTY", "DISCHARGE_FULL", "LOAD_EMPTY", "DISCHARGE_EMPTY",
                        "VESSEL_ARRIVAL", "VESSEL_DEPARTURE", "LOAD_FULL", "DECISION"}
         /\ e.p \in Ports
         /\ e.type \in {"ORDER", "RETURN_FULL"} => e.q \in Ports /\ e.n \in Nat
         /\ e.type = "RETURN_EMPTY" => e.n \in Nat
         /\ e.type \in {"DISCHARGE_FULL", "LOAD_EMPTY", "DISCHARGE_EMPTY"} => e.v \in Vessels /\ e.n \in Nat
         /\ e.type \in {"VESSEL_ARRIVAL", "VESSEL_DEPARTURE", "LOAD_FULL", "DECISION"} => e.v \in Vessels
BY DEF Event, Customer, Empties, Cargo, Voyage

\* The weights are natural numbers.
LEMMA WeightTypes ==
  /\ \A v : Leaving(v) \in [Event -> Nat] /\ Coming(v) \in [Event -> Nat]
  /\ \A type \in CargoTypes : \A place : Carrying(type, place) \in [Event -> Nat]
<1>1. ASSUME NEW type \in CargoTypes, NEW place, NEW e \in Event PROVE Carried(e, type, place) \in Nat
  BY EventFields DEF Carried, CargoTypes
<1> QED BY <1>1 DEF Leaving, Coming, Carrying

\* Natural weights are whole ones.
LEMMA WeightsAreWhole ==
  ASSUME NEW w \in [Event -> Nat]
  PROVE  w \in [Event -> Int]
OBVIOUS

\* What a sequence of events carries is a sum of weights.
LEMMA CarriedIsSum ==
  ASSUME NEW es \in Seq(Event), NEW type, NEW place
  PROVE  CarriedBy(es, type, place) = Sum(Carrying(type, place), es)
<1>1. DOMAIN es = 1 .. Len(es) /\ \A i \in DOMAIN es : es[i] \in Event OBVIOUS
<1>2. [i \in DOMAIN es |-> Carried(es[i], type, place)] = [i \in DOMAIN es |-> Carrying(type, place)[es[i]]]
  BY <1>1 DEF Carrying
<1> QED BY <1>2 DEF CarriedBy, Sum

\* What an agenda carries is a sum of weights.
LEMMA PlannedIsSum ==
  ASSUME NEW ag \in Agenda, NEW type, NEW place
  PROVE  Planned(ag, type, place) = PlannedSum(Carrying(type, place), ag)
<1>1. \A t \in Ticks : ag[t] \in Seq(Event) BY DEF Agenda
<1>2. [t \in Ticks |-> CarriedBy(ag[t], type, place)] = [t \in Ticks |-> Sum(Carrying(type, place), ag[t])]
  BY <1>1, CarriedIsSum
<1> QED BY <1>2 DEF Planned, PlannedSum

-----------------------------------------------------------------------------
(* The departures of an episode.                                           *)

\* One departure for each vessel that leaves a stop in tick t.
LEMMA FirstDepartures ==
  ASSUME NEW sch \in Schedules, NEW t \in Ticks
  PROVE  /\ DeparturesAt(sch, t) \in Seq(Event)
         /\ \A e \in ToSet(DeparturesAt(sch, t)) : e.type = "VESSEL_DEPARTURE"
         /\ \A v \in Vessels : Sum(Leaving(v), DeparturesAt(sch, t))
              = IF \E n \in 1 .. Len(sch[v]) : sch[v][n].leave = t THEN 1 ELSE 0
<1> DEFINE Leaves(v, n) == n \in DOMAIN sch[v] /\ sch[v][n].leave = t
           S == {v \in Vessels : \E n \in DOMAIN sch[v] : Leaves(v, n)}
           vs == SetToSeq(S)
           At(v) == CHOOSE n \in DOMAIN sch[v] : Leaves(v, n)
           d == DeparturesAt(sch, t)
<1>1. IsFiniteSet(S) BY CimAssumption, FS_Subset
<1>2. vs \in Seq(S) /\ IsInjective(vs) /\ ToSet(vs) = S
 <2> HIDE DEF S
 <2> QED BY <1>1, SetAsSeq
<1>3. \A v \in S : v \in Vessels /\ At(v) \in DOMAIN sch[v] /\ Leaves(v, At(v)) OBVIOUS
<1>4. d = [i \in DOMAIN vs |-> Departure(vs[i], sch[vs[i]][At(vs[i])])] BY DEF DeparturesAt
<1> HIDE DEF vs, At
<1>5. DOMAIN vs = 1 .. Len(vs) /\ Len(vs) \in Nat /\ \A i \in DOMAIN vs : vs[i] \in S
  BY <1>2
<1>6. \A i \in DOMAIN vs : d[i] \in Event /\ d[i].type = "VESSEL_DEPARTURE" /\ d[i].v = vs[i]
 <2> SUFFICES ASSUME NEW i \in DOMAIN vs
              PROVE  d[i] \in Event /\ d[i].type = "VESSEL_DEPARTURE" /\ d[i].v = vs[i]
   OBVIOUS
 <2>1. vs[i] \in Vessels /\ At(vs[i]) \in DOMAIN sch[vs[i]] BY <1>3, <1>5
 <2>2. sch[vs[i]][At(vs[i])].port \in Ports BY <2>1, ScheduleData
 <2>3. d[i] = [type |-> "VESSEL_DEPARTURE", v |-> vs[i], p |-> sch[vs[i]][At(vs[i])].port]
   BY <1>4 DEF Departure
 <2> QED BY <2>1, <2>2, <2>3 DEF Event, Voyage
<1>7. DOMAIN d = DOMAIN vs BY <1>4
<1> HIDE DEF d
<1>8. d \in Seq(Event)
 <2>1. d = [i \in 1 .. Len(vs) |-> d[i]] BY <1>4, <1>5
 <2> QED BY <1>5, <1>6, <1>7, <2>1
<1>9. \A e \in ToSet(d) : e.type = "VESSEL_DEPARTURE" BY <1>6, <1>7 DEF ToSet
<1>10. ASSUME NEW v \in Vessels
       PROVE  Sum(Leaving(v), d) = IF \E n \in 1 .. Len(sch[v]) : sch[v][n].leave = t THEN 1 ELSE 0
 <2>1. Leaving(v) \in [Event -> Int] BY WeightTypes, WeightsAreWhole
 <2>2. \A i \in DOMAIN d : Leaving(v)[d[i]] = IF vs[i] = v THEN 1 ELSE 0
   BY <1>6, <1>7 DEF Leaving
 <2>3. DOMAIN sch[v] = 1 .. Len(sch[v]) BY ScheduleData
 <2>4. CASE v \in S
  <3>1. PICK k \in DOMAIN vs : vs[k] = v BY <1>2, <2>4 DEF ToSet
  <3>2. \A i \in DOMAIN d : i # k => Leaving(v)[d[i]] = 0
    BY <1>2, <1>7, <2>2, <3>1 DEF IsInjective
  <3>3. Sum(Leaving(v), d) = Leaving(v)[d[k]] /\ k \in DOMAIN d
    BY <1>7, <1>8, <2>1, <3>2, SumOfOne
  <3>4. Leaving(v)[d[k]] = 1 BY <1>7, <2>2, <3>1
  <3>5. \E n \in 1 .. Len(sch[v]) : sch[v][n].leave = t BY <2>3, <2>4
  <3> QED BY <3>3, <3>4, <3>5
 <2>5. CASE v \notin S
  <3>1. \A i \in DOMAIN d : Leaving(v)[d[i]] = 0 BY <1>5, <1>7, <2>2, <2>5
  <3>2. Sum(Leaving(v), d) = 0 BY <1>8, <2>1, <3>1, SumOfNone
  <3>3. ~ \E n \in 1 .. Len(sch[v]) : sch[v][n].leave = t BY <2>3, <2>5
  <3> QED BY <3>2, <3>3
 <2> QED BY <2>4, <2>5
<1> QED BY <1>8, <1>9, <1>10 DEF d

-----------------------------------------------------------------------------
(* Loading: sums of what the first stops of a round take.                  *)

\* What Min and Max of two numbers are, both defined by a choice.
LEMMA LesserGreater ==
  ASSUME NEW a \in Int, NEW b \in Int
  PROVE  /\ Min({a, b}) = IF a <= b THEN a ELSE b
         /\ Max({a, b}) = IF a >= b THEN a ELSE b
<1>1. Min({a, b}) = IF a <= b THEN a ELSE b
 <2> DEFINE m == IF a <= b THEN a ELSE b
 <2>1. m \in {a, b} /\ \A y \in {a, b} : m =< y OBVIOUS
 <2>2. \A x \in {a, b} : (\A y \in {a, b} : x =< y) => x = m OBVIOUS
 <2> HIDE DEF m
 <2>3. Min({a, b}) = m BY <2>1, <2>2 DEF Min
 <2> QED BY <2>3 DEF m
<1>2. Max({a, b}) = IF a >= b THEN a ELSE b
 <2> DEFINE m == IF a >= b THEN a ELSE b
 <2>1. m \in {a, b} /\ \A y \in {a, b} : m >= y OBVIOUS
 <2>2. \A x \in {a, b} : (\A y \in {a, b} : x >= y) => x = m OBVIOUS
 <2> HIDE DEF m
 <2>3. Max({a, b}) = m BY <2>1, <2>2 DEF Max
 <2> QED BY <2>3 DEF m
<1> QED BY <1>1, <1>2

\* What a division yields.
LEMMA Quotients ==
  ASSUME NEW x \in Nat, NEW y \in Nat \ {0}
  PROVE  x \div y \in Nat /\ (x \div y) * y <= x /\ x < (x \div y) * y + y
OBVIOUS

PartSum(f, P, i) == SumFunctionOnSet(f, P \cap (1 .. i))

\* Sums over the places of P up to i grow place by place, from 0 to the whole.
LEMMA PartSums ==
  ASSUME NEW n \in Nat, NEW f \in [1 .. n -> Nat], NEW P, P \subseteq 1 .. n
  PROVE  /\ PartSum(f, P, 0) = 0 /\ PartSum(f, P, n) = SumFunctionOnSet(f, P)
         /\ \A i \in 0 .. n : PartSum(f, P, i) \in Nat
         /\ \A i \in 1 .. n : /\ i \in P => PartSum(f, P, i) = PartSum(f, P, i - 1) + f[i]
                              /\ i \notin P => PartSum(f, P, i) = PartSum(f, P, i - 1)
         /\ \A i, j \in 0 .. n : i <= j => PartSum(f, P, i) <= PartSum(f, P, j)
<1>1. \A i \in 0 .. n : IsFiniteSet(P \cap (1 .. i)) /\ \A x \in P \cap (1 .. i) : f[x] \in Nat
 <2> SUFFICES ASSUME NEW i \in 0 .. n
              PROVE  IsFiniteSet(P \cap (1 .. i)) /\ \A x \in P \cap (1 .. i) : f[x] \in Nat
   OBVIOUS
 <2>1. IsFiniteSet(1 .. i) BY FS_Interval
 <2>2. IsFiniteSet(P \cap (1 .. i)) BY <2>1, FS_Intersection
 <2>3. \A x \in P \cap (1 .. i) : f[x] \in Nat OBVIOUS
 <2> QED BY <2>2, <2>3
<1>2. PartSum(f, P, 0) = 0
 <2>1. P \cap (1 .. 0) = {} /\ IsFiniteSet({}) BY FS_EmptySet
 <2> QED BY <2>1, SumOfZeros DEF PartSum
<1>3. PartSum(f, P, n) = SumFunctionOnSet(f, P)
 <2>1. P \cap (1 .. n) = P OBVIOUS
 <2> QED BY <2>1 DEF PartSum
<1>4. ASSUME NEW i \in 0 .. n PROVE PartSum(f, P, i) \in Nat
 <2> DEFINE S == P \cap (1 .. i)
 <2>1. IsFiniteSet(S) /\ \A x \in S : f[x] \in Nat BY <1>1
 <2>2. PartSum(f, P, i) = SumFunctionOnSet(f, S) BY DEF PartSum
 <2> HIDE DEF S
 <2> QED BY <2>1, <2>2, SumIsNatural
<1>5. ASSUME NEW i \in 1 .. n
      PROVE  /\ i \in P => PartSum(f, P, i) = PartSum(f, P, i - 1) + f[i]
             /\ i \notin P => PartSum(f, P, i) = PartSum(f, P, i - 1)
 <2> DEFINE S == P \cap (1 .. i)
            R == P \cap (1 .. i - 1)
 <2>1. i - 1 \in 0 .. n /\ i \in 0 .. n OBVIOUS
 <2>2. IsFiniteSet(R) /\ \A x \in S : f[x] \in Nat BY <1>1, <2>1
 <2>3. PartSum(f, P, i) = SumFunctionOnSet(f, S) /\ PartSum(f, P, i - 1) = SumFunctionOnSet(f, R)
   BY DEF PartSum
 <2>4. CASE i \in P
  <3>1. S = R \cup {i} /\ i \notin R BY <2>4
  <3> HIDE DEF S, R
  <3>2. \A x \in R \cup {i} : f[x] \in Int BY <2>2, <3>1
  <3>3. SumFunctionOnSet(f, R \cup {i}) = f[i] + SumFunctionOnSet(f, R)
    BY <2>2, <3>1, <3>2, SumAdds
  <3>4. f[i] \in Nat /\ PartSum(f, P, i - 1) \in Nat BY <1>4, <2>1
  <3> QED BY <2>3, <2>4, <3>1, <3>3, <3>4
 <2>5. CASE i \notin P
  <3>1. S = R BY <2>5
  <3>2. PartSum(f, P, i - 1) \in Nat BY <1>4, <2>1
  <3> HIDE DEF S, R
  <3>3. PartSum(f, P, i) = PartSum(f, P, i - 1) BY <2>3, <3>1
  <3> QED BY <2>5, <3>2, <3>3
 <2> QED BY <2>4, <2>5
<1>6. ASSUME NEW i \in 0 .. n, NEW j \in 0 .. n, i <= j
      PROVE  PartSum(f, P, i) <= PartSum(f, P, j)
 <2> DEFINE S == P \cap (1 .. i)
            R == P \cap (i + 1 .. j)
 <2>1. P \cap (1 .. j) = S \cup R /\ S \cap R = {} /\ IsFiniteSet(P \cap (1 .. j)) /\ R \subseteq P \cap (1 .. j)
   BY <1>1, <1>6
 <2>2. \A x \in S \cup R : f[x] \in Nat OBVIOUS
 <2>3. PartSum(f, P, i) = SumFunctionOnSet(f, S) BY DEF PartSum
 <2>4. PartSum(f, P, j) = SumFunctionOnSet(f, S \cup R) BY <2>1 DEF PartSum
 <2>5. IsFiniteSet(R) BY <2>1, FS_Subset
 <2> HIDE DEF S, R
 <2>6. SumFunctionOnSet(f, S \cup R) = SumFunctionOnSet(f, S) + SumFunctionOnSet(f, R)
  <3>1. S \cap R = {} /\ IsFiniteSet(S \cup R) BY <2>1
  <3>2. \A x \in S \cup R : f[x] \in Int BY <2>2
  <3> QED BY <3>1, <3>2, SumJoins
 <2>7. SumFunctionOnSet(f, R) \in Nat
  <3>1. \A x \in R : f[x] \in Nat BY <2>2
  <3> QED BY <2>5, <3>1, SumIsNatural
 <2>8. PartSum(f, P, i) \in Nat BY <1>4
 <2> QED BY <2>3, <2>4, <2>6, <2>7, <2>8
<1> QED BY <1>2, <1>3, <1>4, <1>5, <1>6

\* Each takes what is left at most: so do all together.
LEMMA GreedySums ==
  ASSUME NEW n \in Nat, NEW f \in [1 .. n -> Nat], NEW P, P \subseteq 1 .. n, NEW cap \in Nat,
         \A i \in P : f[i] <= cap - PartSum(f, P, i - 1) \/ f[i] = 0
  PROVE  \A i \in 0 .. n : PartSum(f, P, i) <= cap
<1> DEFINE Bad == {i \in 0 .. n : ~ (PartSum(f, P, i) <= cap)}
<1> SUFFICES ASSUME Bad # {} PROVE FALSE
  OBVIOUS
<1>1. PICK i \in Bad : \A u \in Bad : i <= u
 <2>1. Bad \subseteq Nat /\ Bad # {} OBVIOUS
 <2> HIDE DEF Bad
 <2> QED BY <2>1, FirstOf
<1>2. PartSum(f, P, 0) = 0 BY PartSums
<1>3. i \in 1 .. n /\ i - 1 \in 0 .. n /\ i - 1 \notin Bad /\ i \in 0 .. n BY <1>1, <1>2
<1>a. /\ \A k \in 0 .. n : PartSum(f, P, k) \in Nat
      /\ \A k \in 1 .. n : /\ k \in P => PartSum(f, P, k) = PartSum(f, P, k - 1) + f[k]
                           /\ k \notin P => PartSum(f, P, k) = PartSum(f, P, k - 1)
 <2>1. n \in Nat /\ f \in [1 .. n -> Nat] /\ P \subseteq 1 .. n OBVIOUS
 <2> HIDE DEF Bad
 <2>2. \A k \in 0 .. n : PartSum(f, P, k) \in Nat BY <2>1, PartSums, Zenon
 <2>3. \A k \in 1 .. n : /\ k \in P => PartSum(f, P, k) = PartSum(f, P, k - 1) + f[k]
                         /\ k \notin P => PartSum(f, P, k) = PartSum(f, P, k - 1)
   BY <2>1, PartSums, ZenonT(60)
 <2> QED BY <2>2, <2>3
<1>4. /\ i \in P => PartSum(f, P, i) = PartSum(f, P, i - 1) + f[i]
      /\ i \notin P => PartSum(f, P, i) = PartSum(f, P, i - 1)
  BY <1>3, <1>a
<1>5. PartSum(f, P, i - 1) \in Nat /\ PartSum(f, P, i) \in Nat BY <1>3, <1>a
<1>6. PartSum(f, P, i - 1) <= cap BY <1>3
<1>7. f[i] \in Nat BY <1>3
<1>8. PartSum(f, P, i) <= cap
 <2>1. CASE i \in P
  <3>1. f[i] <= cap - PartSum(f, P, i - 1) \/ f[i] = 0 BY <2>1
  <3>2. PartSum(f, P, i) = PartSum(f, P, i - 1) + f[i] BY <1>4, <2>1
  <3> QED BY <1>5, <1>6, <1>7, <3>1, <3>2
 <2>2. CASE i \notin P BY <1>4, <1>5, <1>6, <2>2
 <2> QED BY <2>1, <2>2
<1> QED BY <1>1, <1>8

-----------------------------------------------------------------------------
(* What a vessel reaches and loads.                                        *)

\* The stops a vessel reaches are those after its next one, in its schedule's
\* order.
LEMMA ReachableFacts ==
  ASSUME TypeInv, NEW v \in Vessels, vessel[v].next_loc < Len(stops[v])
  PROVE  LET rs == ReachableStops(v)
             loc == vessel[v].next_loc
         IN /\ Len(rs) \in Nat /\ DOMAIN rs = 1 .. Len(rs)
            /\ \A i \in 1 .. Len(rs) : /\ loc + 1 + i \in loc + 2 .. Len(stops[v])
                                       /\ rs[i] = stops[v][loc + 1 + i]
                                       /\ rs[i].port \in Ports /\ rs[i].arrive \in Ticks
            /\ \A i, j \in 1 .. Len(rs) : i < j => rs[i].arrive < rs[j].arrive
<1> DEFINE rs == ReachableStops(v)
           loc == vessel[v].next_loc
           s == stops[v]
           R == RouteLength[v]
           hi == Min({Len(s), loc + 1 + R})
<1>1. stops \in Schedules /\ loc \in Nat /\ R \in Nat \ {0} BY CimAssumption DEF TypeInv
<1>2. /\ s \in Seq([port : Ports, arrive : Nat, leave : Nat]) /\ Len(s) \in Nat \ {0}
      /\ \A k \in 1 .. Len(s) : s[k].port \in Ports /\ s[k].arrive \in Ticks /\ s[k].arrive \in Nat
  BY <1>1, ScheduleData
<1>3. \A j \in 1 .. Len(s), k \in 1 .. Len(s) : j < k => s[j].arrive < s[k].arrive
 <2> SUFFICES ASSUME NEW j \in 1 .. Len(s), NEW k \in 1 .. Len(s), j < k PROVE s[j].arrive < s[k].arrive
   OBVIOUS
 <2>1. k \in j + 1 .. Len(s) BY <1>2
 <2> QED BY <1>1, <2>1, StopsInOrder
<1>4. rs = SubSeq(s, loc + 2, hi)
 <2>1. rs = SubSeq(stops[v], vessel[v].next_loc + 2, Min({Len(stops[v]), vessel[v].next_loc + 1 + RouteLength[v]}))
   BY DEF ReachableStops
 <2> QED BY <2>1
<1>5. loc < Len(s) OBVIOUS
<1>6. hi = IF Len(s) <= loc + 1 + R THEN Len(s) ELSE loc + 1 + R
 <2>1. Len(s) \in Int /\ loc + 1 + R \in Int BY <1>1, <1>2
 <2> QED BY <2>1, LesserGreater
<1> HIDE DEF rs, loc, s, R, hi
<1>7. hi \in Nat /\ hi >= loc + 1 /\ hi <= Len(s) BY <1>1, <1>2, <1>5, <1>6
<1>8. /\ Len(rs) = hi - loc - 1 /\ DOMAIN rs = 1 .. Len(rs)
      /\ \A i \in 1 .. hi - loc - 1 : rs[i] = s[loc + 1 + i]
 <2>1. /\ rs \in Seq([port : Ports, arrive : Nat, leave : Nat])
       /\ Len(rs) = IF loc + 2 <= hi THEN hi - (loc + 2) + 1 ELSE 0
       /\ \A i \in 1 .. hi - (loc + 2) + 1 : rs[i] = s[loc + 2 + i - 1]
  <3>1. loc + 2 \in 1 .. Len(s) + 1 /\ hi \in loc + 2 - 1 .. Len(s)
    BY <1>1, <1>2, <1>5, <1>7
  <3>2. loc + 2 \in Int /\ hi \in Int BY <1>1, <1>7
  <3>3. \A i \in loc + 2 .. hi : s[i] \in [port : Ports, arrive : Nat, leave : Nat]
   <4>1. \A i \in loc + 2 .. hi : i \in 1 .. Len(s) BY <1>1, <1>2, <1>7
   <4> QED BY <1>2, <4>1, ElementOfSeq
  <3> QED BY <1>4, <3>2, <3>3, SubSeqProperties
 <2>2. Len(rs) = hi - loc - 1 BY <1>1, <1>7, <2>1
 <2>3. \A i \in 1 .. hi - loc - 1 : i \in 1 .. hi - (loc + 2) + 1 /\ loc + 2 + i - 1 = loc + 1 + i
   BY <1>1, <1>7
 <2> QED BY <2>1, <2>2, <2>3
<1>9. \A i \in 1 .. Len(rs) : loc + 1 + i \in loc + 2 .. Len(s) /\ loc + 1 + i \in 1 .. Len(s) /\ rs[i] = s[loc + 1 + i]
 <2> SUFFICES ASSUME NEW i \in 1 .. Len(rs)
              PROVE  loc + 1 + i \in loc + 2 .. Len(s) /\ loc + 1 + i \in 1 .. Len(s) /\ rs[i] = s[loc + 1 + i]
   OBVIOUS
 <2>1. i \in 1 .. hi - loc - 1 BY <1>8
 <2>2. loc + 1 + i \in loc + 2 .. Len(s) /\ loc + 1 + i \in 1 .. Len(s)
   BY <1>1, <1>2, <1>7, <2>1
 <2> QED BY <1>8, <2>1, <2>2
<1>10. \A i \in 1 .. Len(rs) : rs[i].port \in Ports /\ rs[i].arrive \in Ticks BY <1>2, <1>9
<1>11. \A i, j \in 1 .. Len(rs) : i < j => rs[i].arrive < rs[j].arrive
 <2> SUFFICES ASSUME NEW i \in 1 .. Len(rs), NEW j \in 1 .. Len(rs), i < j PROVE rs[i].arrive < rs[j].arrive
   OBVIOUS
 <2>1. loc + 1 + i < loc + 1 + j BY <1>1
 <2> QED BY <1>3, <1>9, <2>1
<1>12. Len(rs) \in Nat BY <1>1, <1>7, <1>8
<1> QED BY <1>8, <1>9, <1>10, <1>11, <1>12 DEF rs, loc, s

\* The stops of a round at port q.
StopsAt(v, q) == {i \in DOMAIN ReachableStops(v) : ReachableStops(v)[i].port = q}
Accept(v) == (Capacity[v] - vessel[v].full * Volume) \div Volume

\* A round of loads takes at each stop the lesser of what is still accepted
\* and what still waits for that port, if anything.
LEMMA LoadFacts ==
  ASSUME TypeInv, LadenFit, NEW v \in Vessels, vessel[v].next_loc < Len(stops[v]), NEW p \in Ports,
         NEW loads \in Loads(v, p)
  PROVE  LET n == Len(ReachableStops(v)) IN
         /\ Accept(v) \in Nat
         /\ loads \in [1 .. n -> Nat]
         /\ \A i \in 1 .. n :
              \/ loads[i] = 0
              \/ /\ loads[i] <= Accept(v) - PartSum(loads, 1 .. n, i - 1)
                 /\ loads[i] <= full_on_ports[<<p, ReachableStops(v)[i].port>>]
                                  - PartSum(loads, StopsAt(v, ReachableStops(v)[i].port), i - 1)
         /\ \A i \in 1 .. n :
              \/ loads[i] >= Accept(v) - PartSum(loads, 1 .. n, i - 1)
              \/ loads[i] >= full_on_ports[<<p, ReachableStops(v)[i].port>>]
                               - PartSum(loads, StopsAt(v, ReachableStops(v)[i].port), i - 1)
<1> DEFINE rs == ReachableStops(v)
           n == Len(rs)
           accept == Accept(v)
           Left(i) == accept - PartSum(loads, 1 .. n, i - 1)
           Wait(i) == full_on_ports[<<p, rs[i].port>>] - PartSum(loads, StopsAt(v, rs[i].port), i - 1)
<1>1. n \in Nat /\ DOMAIN rs = 1 .. n /\ \A i \in 1 .. n : rs[i].port \in Ports
  BY ReachableFacts
<1>2. accept \in Nat
 <2>1. Capacity[v] \in Nat /\ vessel[v].full \in Nat /\ Volume \in Nat \ {0} /\ vessel[v].full * Volume <= Capacity[v]
   BY CimAssumption DEF TypeInv, LadenFit
 <2>2. vessel[v].full * Volume \in Nat BY <2>1
 <2>3. Capacity[v] - vessel[v].full * Volume \in Nat BY <2>1, <2>2
 <2> DEFINE a == Capacity[v] - vessel[v].full * Volume
 <2>4. a \in Nat /\ Accept(v) = a \div Volume /\ Volume \in Nat \ {0}
   BY <2>1, <2>3 DEF Accept
 <2> HIDE DEF a
 <2> QED BY <2>4, Quotients
<1>3. loads \in [1 .. n -> 0 .. Max({0, accept})] BY <1>1 DEF Loads, Accept
<1>4. Max({0, accept}) \in Nat
 <2>1. 0 \in Int /\ accept \in Int BY <1>2
 <2> HIDE DEF accept
 <2>2. Max({0, accept}) = IF 0 >= accept THEN 0 ELSE accept BY <2>1, LesserGreater
 <2> QED BY <1>2, <2>2
<1>5. loads \in [1 .. n -> Nat] BY <1>3, <1>4
<1>6. ASSUME NEW i \in 1 .. n
      PROVE  loads[i] = Max({0, Min({Left(i), Wait(i)})}) /\ Left(i) \in Int /\ Wait(i) \in Int
 <2>1. loads[i] = Max({0, Min({accept - SumFunctionOnSet(loads, 1 .. i - 1),
                               full_on_ports[<<p, rs[i].port>>]
                                 - SumFunctionOnSet(loads, {j \in 1 .. i - 1 : rs[j].port = rs[i].port})})})
   BY <1>1 DEF Loads, Accept
 <2>2. (1 .. n) \cap (1 .. i - 1) = 1 .. i - 1 BY <1>1
 <2>3. StopsAt(v, rs[i].port) \cap (1 .. i - 1) = {j \in 1 .. i - 1 : rs[j].port = rs[i].port}
   BY <1>1 DEF StopsAt
 <2>4. Left(i) = accept - SumFunctionOnSet(loads, 1 .. i - 1) BY <2>2 DEF PartSum
 <2>5. Wait(i) = full_on_ports[<<p, rs[i].port>>]
                   - SumFunctionOnSet(loads, {j \in 1 .. i - 1 : rs[j].port = rs[i].port})
   BY <2>3 DEF PartSum
 <2>6. StopsAt(v, rs[i].port) \subseteq 1 .. n /\ i - 1 \in 0 .. n BY <1>1 DEF StopsAt
 <2>7. PartSum(loads, StopsAt(v, rs[i].port), i - 1) \in Nat
  <3> DEFINE P == StopsAt(v, rs[i].port)
  <3>1. P \subseteq 1 .. n /\ n \in Nat /\ loads \in [1 .. n -> Nat] BY <1>1, <1>5, <2>6
  <3> HIDE DEF P, n
  <3>2. PartSum(loads, P, i - 1) \in Nat BY <2>6, <3>1, PartSums, Zenon
  <3> QED BY <3>2 DEF P
 <2>8. PartSum(loads, 1 .. n, i - 1) \in Nat
  <3> DEFINE P == 1 .. n
  <3>1. P \subseteq 1 .. n /\ n \in Nat /\ loads \in [1 .. n -> Nat] BY <1>1, <1>5
  <3> HIDE DEF P, n
  <3>2. PartSum(loads, P, i - 1) \in Nat BY <2>6, <3>1, PartSums, Zenon
  <3> QED BY <3>2 DEF P
 <2>9. full_on_ports[<<p, rs[i].port>>] \in Nat BY <1>1 DEF TypeInv
 <2>10. loads[i] = Max({0, Min({Left(i), Wait(i)})}) BY <2>1, <2>4, <2>5, Zenon
 <2> HIDE DEF accept, rs
 <2>11. Left(i) \in Int /\ Wait(i) \in Int BY <1>2, <2>7, <2>8, <2>9
 <2> QED BY <2>10, <2>11
<1>7. ASSUME NEW i \in 1 .. n
      PROVE  /\ loads[i] = 0 \/ (loads[i] <= Left(i) /\ loads[i] <= Wait(i))
             /\ loads[i] >= Left(i) \/ loads[i] >= Wait(i)
 <2>1. loads[i] = Max({0, Min({Left(i), Wait(i)})}) /\ Left(i) \in Int /\ Wait(i) \in Int
   BY <1>6
 <2> HIDE DEF Left, Wait, n
 <2>2. Min({Left(i), Wait(i)}) = IF Left(i) <= Wait(i) THEN Left(i) ELSE Wait(i)
   BY <2>1, LesserGreater
 <2> DEFINE m == Min({Left(i), Wait(i)})
 <2>3. m \in Int /\ m = IF Left(i) <= Wait(i) THEN Left(i) ELSE Wait(i) BY <2>1, <2>2
 <2>4. loads[i] = Max({0, m}) BY <2>1
 <2> HIDE DEF m
 <2>6. 0 \in Int /\ m \in Int BY <2>3
 <2>5. Max({0, m}) = IF 0 >= m THEN 0 ELSE m BY <2>6, LesserGreater
 <2> QED BY <2>1, <2>3, <2>4, <2>5
<1> QED BY <1>2, <1>5, <1>7

\* Products of a greater factor are not lesser.
LEMMA Products ==
  ASSUME NEW a \in Nat, NEW b \in Nat, NEW c \in Nat, a <= b
  PROVE  a * c <= b * c /\ a * c \in Nat
OBVIOUS

\* A vessel takes no more than fits.
LEMMA LoadsFit ==
  ASSUME TypeInv, LadenFit, NEW v \in Vessels, vessel[v].next_loc < Len(stops[v]), NEW p \in Ports,
         NEW loads \in Loads(v, p)
  PROVE  LET total == SumFunctionOnSet(loads, DOMAIN loads)
         IN total \in Nat /\ (vessel[v].full + total) * Volume <= Capacity[v]
<1> DEFINE n == Len(ReachableStops(v))
           P == 1 .. n
           total == SumFunctionOnSet(loads, DOMAIN loads)
           cap == Accept(v)
<1>1. n \in Nat /\ P \subseteq 1 .. n BY ReachableFacts
<1>2. cap \in Nat /\ loads \in [1 .. n -> Nat] BY LoadFacts
<1>3. \A i \in 1 .. n : loads[i] = 0 \/ loads[i] <= cap - PartSum(loads, P, i - 1)
  BY LoadFacts
<1>4. \A i \in P : loads[i] <= cap - PartSum(loads, P, i - 1) \/ loads[i] = 0 BY <1>3
<1>5. total = SumFunctionOnSet(loads, P) BY <1>2
<1> HIDE DEF n, P, cap, total
<1>6. \A i \in 0 .. n : PartSum(loads, P, i) <= cap BY <1>1, <1>2, <1>4, GreedySums
<1>7. PartSum(loads, P, n) = SumFunctionOnSet(loads, P) BY <1>1, <1>2, PartSums, Zenon
<1>8. \A i \in 0 .. n : PartSum(loads, P, i) \in Nat BY <1>1, <1>2, PartSums, Zenon
<1>9. n \in 0 .. n BY <1>1
<1>10. total \in Nat /\ total <= cap BY <1>5, <1>6, <1>7, <1>8, <1>9
<1>11. Capacity[v] \in Nat /\ vessel[v].full \in Nat /\ Volume \in Nat \ {0} /\ vessel[v].full * Volume <= Capacity[v]
  BY CimAssumption DEF TypeInv, LadenFit
<1> DEFINE full == vessel[v].full
           room == Capacity[v] - full * Volume
<1>12. room \in Nat /\ full * Volume \in Nat BY <1>11
<1>13. cap = room \div Volume BY DEF Accept, cap
<1> HIDE DEF full, room
<1>14. cap * Volume <= room BY <1>11, <1>12, <1>13, Quotients
<1>15. total * Volume <= cap * Volume BY <1>2, <1>10, <1>11, Products
<1>16. (full + total) * Volume = full * Volume + total * Volume BY <1>10, <1>11 DEF full
<1>17. total * Volume \in Nat /\ cap * Volume \in Nat BY <1>2, <1>10, <1>11
<1>18. (full + total) * Volume <= Capacity[v]
  BY <1>11, <1>12, <1>14, <1>15, <1>16, <1>17 DEF room
<1> QED BY <1>10, <1>18 DEF full, total

\* Nor more for a port than waits for it.
LEMMA LoadsWait ==
  ASSUME TypeInv, LadenFit, NEW v \in Vessels, vessel[v].next_loc < Len(stops[v]), NEW p \in Ports,
         NEW loads \in Loads(v, p), NEW q \in Ports
  PROVE  /\ LoadedFor(v, loads, q) \in Nat /\ LoadedFor(v, loads, q) <= full_on_ports[<<p, q>>]
         /\ LoadedFor(v, loads, q) = SumFunctionOnSet(loads, StopsAt(v, q))
<1> DEFINE n == Len(ReachableStops(v))
           P == StopsAt(v, q)
           cap == full_on_ports[<<p, q>>]
<1>1. n \in Nat /\ DOMAIN ReachableStops(v) = 1 .. n BY ReachableFacts
<1>2. cap \in Nat BY DEF TypeInv
<1>3. loads \in [1 .. n -> Nat] BY LoadFacts
<1>4. P \subseteq 1 .. n /\ \A i \in P : ReachableStops(v)[i].port = q BY <1>1 DEF StopsAt
<1>5. \A i \in 1 .. n : \/ loads[i] = 0
                        \/ loads[i] <= full_on_ports[<<p, ReachableStops(v)[i].port>>]
                                  - PartSum(loads, StopsAt(v, ReachableStops(v)[i].port), i - 1)
  BY LoadFacts
<1>6. \A i \in P : loads[i] <= cap - PartSum(loads, P, i - 1) \/ loads[i] = 0 BY <1>4, <1>5
<1>7. LoadedFor(v, loads, q) = SumFunctionOnSet(loads, P)
 <2>1. {i \in DOMAIN loads : ReachableStops(v)[i].port = q} = P BY <1>1, <1>3 DEF StopsAt
 <2> QED BY <2>1 DEF LoadedFor
<1> HIDE DEF n, P, cap
<1>8. \A i \in 0 .. n : PartSum(loads, P, i) <= cap
  BY <1>1, <1>2, <1>3, <1>4, <1>6, GreedySums
<1>9. PartSum(loads, P, n) = SumFunctionOnSet(loads, P) BY <1>1, <1>3, <1>4, PartSums, Zenon
<1>10. \A i \in 0 .. n : PartSum(loads, P, i) \in Nat BY <1>1, <1>3, <1>4, PartSums, Zenon
<1>11. n \in 0 .. n BY <1>1
<1> QED BY <1>7, <1>8, <1>9, <1>10, <1>11 DEF P, cap

\* What is loaded is loaded for some port.
LEMMA LoadsAddUp ==
  ASSUME TypeInv, LadenFit, NEW v \in Vessels, vessel[v].next_loc < Len(stops[v]), NEW p \in Ports,
         NEW loads \in Loads(v, p)
  PROVE  SumFunctionOnSet([q \in Ports |-> LoadedFor(v, loads, q)], Ports)
           = SumFunctionOnSet(loads, DOMAIN loads)
<1> DEFINE n == Len(ReachableStops(v))
           S == 1 .. n
           C == [q \in Ports |-> StopsAt(v, q)]
           g == [q \in Ports |-> LoadedFor(v, loads, q)]
<1>1. n \in Nat /\ DOMAIN ReachableStops(v) = 1 .. n /\ \A i \in 1 .. n : ReachableStops(v)[i].port \in Ports
  BY ReachableFacts
<1>2. loads \in [1 .. n -> Nat] BY LoadFacts
<1>3. IsFiniteSet(S) /\ IsFiniteSet(Ports) BY <1>1, FS_Interval, CimAssumption
<1>4. \A i \in S : loads[i] \in Int BY <1>2
<1>5. \A q \in Ports : C[q] \subseteq S BY <1>1 DEF StopsAt
<1>6. \A i \in S : \E q \in Ports : i \in C[q] BY <1>1 DEF StopsAt
<1>7. \A q, r \in Ports : \A i \in S : i \in C[q] /\ i \in C[r] => q = r BY DEF StopsAt
<1>8. \A q \in Ports : g[q] = SumFunctionOnSet(loads, C[q]) BY LoadsWait
<1>9. DOMAIN loads = S BY <1>2
<1> HIDE DEF S, C, g
<1>10. SumFunctionOnSet(g, Ports) = SumFunctionOnSet(loads, S)
  BY <1>3, <1>4, <1>5, <1>6, <1>7, <1>8, SumByClass
<1> QED BY <1>9, <1>10 DEF g

\* When one load took all that was left, a later one takes nothing.
LEMMA NothingLeft ==
  ASSUME NEW a \in Nat, NEW x \in Nat, NEW y \in Nat, NEW s \in Nat, NEW t \in Nat, NEW u \in Nat,
         x >= a - s, t = s + x, t <= u, y <= a - u
  PROVE  ~ (y > 0)
OBVIOUS

\* Containers for a port leave at the first stop there.
LEMMA LoadsGoFirst ==
  ASSUME TypeInv, LadenFit, NEW v \in Vessels, vessel[v].next_loc < Len(stops[v]), NEW p \in Ports,
         NEW loads \in Loads(v, p), NEW i \in 1 .. Len(ReachableStops(v)), loads[i] > 0
  PROVE  /\ full_on_ports[<<p, ReachableStops(v)[i].port>>] > 0
         /\ \A j \in 1 .. i - 1 : ReachableStops(v)[j].port # ReachableStops(v)[i].port
<1> DEFINE rs == ReachableStops(v)
           n == Len(rs)
           q == rs[i].port
           cap == full_on_ports[<<p, q>>]
           P == StopsAt(v, q)
           A == 1 .. n
<1>1. n \in Nat /\ DOMAIN rs = 1 .. n /\ \A k \in 1 .. n : rs[k].port \in Ports
  BY ReachableFacts
<1>2. Accept(v) \in Nat /\ loads \in [1 .. n -> Nat] BY LoadFacts
<1>3. cap \in Nat BY <1>1 DEF TypeInv
<1>4. loads[i] <= Accept(v) - PartSum(loads, A, i - 1) /\ loads[i] <= cap - PartSum(loads, P, i - 1)
 <2>1. loads[i] # 0 BY <1>2
 <2> QED BY <2>1, LoadFacts
<1>5. P \subseteq 1 .. n /\ A \subseteq 1 .. n BY <1>1 DEF StopsAt
<1>6. ASSUME NEW j \in 1 .. i - 1, rs[j].port = q PROVE FALSE
 <2>1. j \in 1 .. n /\ j \in P /\ j \in A /\ j - 1 \in 0 .. n /\ j \in 0 .. n /\ i - 1 \in 0 .. n /\ j <= i - 1
   BY <1>1, <1>6 DEF StopsAt
 <2>2. loads[j] >= Accept(v) - PartSum(loads, A, j - 1) \/ loads[j] >= cap - PartSum(loads, P, j - 1)
   BY <1>6, <2>1, LoadFacts
 <2> HIDE DEF rs, n, q, cap, P, A
 <2>3. /\ PartSum(loads, P, j - 1) \in Nat /\ PartSum(loads, P, j) \in Nat /\ PartSum(loads, P, i - 1) \in Nat
       /\ PartSum(loads, A, j - 1) \in Nat /\ PartSum(loads, A, j) \in Nat /\ PartSum(loads, A, i - 1) \in Nat
  <3>1. \A R : R \subseteq 1 .. n => \A k \in 0 .. n : PartSum(loads, R, k) \in Nat
    BY <1>1, <1>2, PartSums, Zenon
  <3> QED BY <1>5, <2>1, <3>1
 <2>4. /\ PartSum(loads, P, j) = PartSum(loads, P, j - 1) + loads[j]
       /\ PartSum(loads, A, j) = PartSum(loads, A, j - 1) + loads[j]
  <3>1. \A R : R \subseteq 1 .. n => \A k \in 1 .. n : k \in R => PartSum(loads, R, k) = PartSum(loads, R, k - 1) + loads[k]
    BY <1>1, <1>2, PartSums, Zenon
  <3> QED BY <1>5, <2>1, <3>1
 <2>5. PartSum(loads, P, j) <= PartSum(loads, P, i - 1) /\ PartSum(loads, A, j) <= PartSum(loads, A, i - 1)
  <3>1. \A R : R \subseteq 1 .. n => \A k, l \in 0 .. n : k <= l => PartSum(loads, R, k) <= PartSum(loads, R, l)
    BY <1>1, <1>2, PartSums, Zenon
  <3> QED BY <1>5, <2>1, <3>1
 <2>6. loads[j] \in Nat /\ loads[i] \in Nat BY <1>1, <1>2, <2>1 DEF n, rs
 <2>7. CASE loads[j] >= Accept(v) - PartSum(loads, A, j - 1)
   BY <1>2, <1>4, <2>3, <2>4, <2>5, <2>6, <2>7, NothingLeft
 <2>8. CASE loads[j] >= cap - PartSum(loads, P, j - 1)
   BY <1>3, <1>4, <2>3, <2>4, <2>5, <2>6, <2>8, NothingLeft
 <2> QED BY <2>2, <2>7, <2>8
<1>7. PartSum(loads, P, i - 1) \in Nat
 <2>1. i - 1 \in 0 .. n BY <1>1
 <2> HIDE DEF rs, n, q, cap, P, A
 <2>2. \A R : R \subseteq 1 .. n => \A k \in 0 .. n : PartSum(loads, R, k) \in Nat
   BY <1>1, <1>2, PartSums, Zenon
 <2> QED BY <1>5, <2>1, <2>2
<1>8. loads[i] \in Nat BY <1>2
<1>9. cap > 0
 <2> HIDE DEF cap, P
 <2> QED BY <1>3, <1>4, <1>7, <1>8
<1> QED BY <1>6, <1>9

\* An agenda without weight.
LEMMA PlannedOfNone ==
  ASSUME NEW ag \in Agenda, NEW w \in [Event -> Int], \A t \in Ticks : \A e \in ToSet(ag[t]) : w[e] = 0
  PROVE  PlannedSum(w, ag) = 0 /\ \A t \in Ticks : Sum(w, ag[t]) = 0
<1> DEFINE f == [t \in Ticks |-> Sum(w, ag[t])]
<1>1. ASSUME NEW t \in Ticks PROVE Sum(w, ag[t]) = 0
 <2> DEFINE es == ag[t]
 <2>1. es \in Seq(Event) BY DEF Agenda
 <2>2. \A i \in DOMAIN es : w[es[i]] = 0 BY DEF ToSet
 <2> HIDE DEF es
 <2>3. Sum(w, es) = 0 BY <2>1, <2>2, SumOfNone
 <2> QED BY <2>3 DEF es
<1>2. \A t \in Ticks : f[t] = 0 BY <1>1
<1>3. PlannedSum(w, ag) = SumFunctionOnSet(f, Ticks) BY DEF PlannedSum
<1> HIDE DEF f
<1>4. SumFunctionOnSet(f, Ticks) = 0 BY <1>2, TicksFinite, SumOfZeros
<1> QED BY <1>1, <1>3, <1>4

Nothing == [t \in Ticks |-> << >>]

\* An empty agenda holds and weighs nothing.
LEMMA NothingPlanned ==
  /\ Nothing \in Agenda /\ \A t \in Ticks : ToSet(Nothing[t]) = {}
  /\ \A w \in [Event -> Int] : PlannedSum(w, Nothing) = 0 /\ \A t \in Ticks : Sum(w, Nothing[t]) = 0
<1>1. Nothing \in Agenda BY DEF Nothing, Agenda
<1>2. \A t \in Ticks : ToSet(Nothing[t]) = {} BY DEF Nothing, ToSet
<1>3. ASSUME NEW w \in [Event -> Int]
      PROVE PlannedSum(w, Nothing) = 0 /\ \A t \in Ticks : Sum(w, Nothing[t]) = 0
 <2>1. \A t \in Ticks : \A e \in ToSet(Nothing[t]) : w[e] = 0 BY <1>2
 <2> QED BY <1>1, <2>1, PlannedOfNone
<1> QED BY <1>1, <1>2, <1>3

\* One event is handled, and the events of new are planned.
Handles(a, u, new, b) ==
  /\ a \in Agenda /\ u \in Ticks /\ a[u] # << >> /\ new \in Agenda
  /\ b = [t \in Ticks |-> b[t]] /\ Adds(Without(a, u), new, b)

\* When an event is handled its weight goes and the weight of what it plans
\* comes.
LEMMA Handling ==
  ASSUME NEW a, NEW u, NEW new, NEW b, Handles(a, u, new, b)
  PROVE  /\ b \in Agenda
         /\ Head(a[u]) \in Event /\ Head(a[u]) \in ToSet(a[u])
         /\ \A t \in Ticks : ToSet(b[t]) \subseteq ToSet(a[t]) \cup ToSet(new[t])
         /\ \A w \in [Event -> Int] :
              /\ PlannedSum(w, a) = w[Head(a[u])] + PlannedSum(w, Without(a, u))
              /\ PlannedSum(w, b) = PlannedSum(w, Without(a, u)) + PlannedSum(w, new)
              /\ PlannedSum(w, Without(a, u)) \in Int /\ PlannedSum(w, new) \in Int
              /\ w[Head(a[u])] \in Int
              /\ w \in [Event -> Nat] => PlannedSum(w, Without(a, u)) \in Nat
         /\ \A w \in [Event -> Int] : \A t \in Ticks :
              /\ Sum(w, a[t]) = (IF t = u THEN w[Head(a[u])] ELSE 0) + Sum(w, Without(a, u)[t])
              /\ Sum(w, b[t]) = Sum(w, Without(a, u)[t]) + Sum(w, new[t])
              /\ Sum(w, Without(a, u)[t]) \in Int /\ Sum(w, new[t]) \in Int
<1> DEFINE c == Without(a, u)
           h == Head(a[u])
<1>1. a \in Agenda /\ u \in Ticks /\ a[u] # << >> /\ new \in Agenda /\ Adds(c, new, b)
      /\ b = [t \in Ticks |-> b[t]]
  BY DEF Handles
<1>2. /\ h \in Event /\ h \in ToSet(a[u]) /\ c \in Agenda
      /\ \A t \in Ticks : /\ ToSet(c[t]) \subseteq ToSet(a[t])
                          /\ t # u => c[t] = a[t]
      /\ \A w \in [Event -> Int] :
              /\ PlannedSum(w, a) = w[h] + PlannedSum(w, c)
              /\ Sum(w, a[u]) = w[h] + Sum(w, c[u])
  BY <1>1, HeadTaken
<1> HIDE DEF c, h
<1>3. \A t \in Ticks :
        /\ b[t] \in Seq(Event)
        /\ ToSet(b[t]) = ToSet(c[t]) \cup ToSet(new[t])
        /\ \A w \in [Event -> Int] : Sum(w, b[t]) = Sum(w, c[t]) + Sum(w, new[t])
 <2>1. c \in Agenda /\ new \in Agenda /\ Adds(c, new, b) BY <1>1, <1>2
 <2> SUFFICES ASSUME NEW t \in Ticks
              PROVE  /\ b[t] \in Seq(Event)
                     /\ ToSet(b[t]) = ToSet(c[t]) \cup ToSet(new[t])
                     /\ \A w \in [Event -> Int] : Sum(w, b[t]) = Sum(w, c[t]) + Sum(w, new[t])
   OBVIOUS
 <2> QED BY <2>1, AddedEvents
<1>4. b \in Agenda BY <1>1, <1>3 DEF Agenda
<1>5. \A w \in [Event -> Int] : PlannedSum(w, b) = PlannedSum(w, c) + PlannedSum(w, new)
  BY <1>1, <1>2, PlannedAdds
<1>6. \A w \in [Event -> Int] : /\ PlannedSum(w, c) \in Int /\ PlannedSum(w, new) \in Int
                                /\ w \in [Event -> Nat] => PlannedSum(w, c) \in Nat
  BY <1>1, <1>2, PlannedType
<1>7. \A t \in Ticks : c[t] \in Seq(Event) /\ new[t] \in Seq(Event) BY <1>1, <1>2 DEF Agenda
<1>8. \A w \in [Event -> Int] : \A t \in Ticks : Sum(w, c[t]) \in Int /\ Sum(w, new[t]) \in Int
  BY <1>7, SumType
<1>9. \A w \in [Event -> Int] : w[h] \in Int BY <1>2
<1>10. ASSUME NEW w \in [Event -> Int], NEW t \in Ticks
       PROVE  Sum(w, a[t]) = (IF t = u THEN w[h] ELSE 0) + Sum(w, c[t])
 <2>1. Sum(w, c[t]) \in Int BY <1>8
 <2>2. CASE t = u BY <1>2, <2>2
 <2>3. CASE t # u
  <3>1. c[t] = a[t] BY <1>2, <2>3
  <3> QED BY <2>1, <2>3, <3>1
 <2> QED BY <2>2, <2>3
<1>11. \A t \in Ticks : ToSet(b[t]) \subseteq ToSet(a[t]) \cup ToSet(new[t]) BY <1>2, <1>3
<1> QED BY <1>2, <1>3, <1>4, <1>5, <1>6, <1>8, <1>9, <1>10, <1>11 DEF c, h

-----------------------------------------------------------------------------
(* The agendas that the handlers leave.                                    *)

\* HandledOnly handles the first event of the tick and plans nothing.
LEMMA HandledOnlyHandles ==
  ASSUME agenda \in Agenda, now \in Ticks, agenda[now] # << >>
  PROVE  Handles(agenda, now, Nothing, HandledOnly) /\ HandledOnly[now] = Tail(agenda[now])
<1> DEFINE c == Without(agenda, now)
<1>1. c \in Agenda /\ c[now] = Tail(agenda[now]) BY HeadTaken
<1>2. HandledOnly = c BY DEF HandledOnly, Without
<1> HIDE DEF c
<1>3. Adds(c, Nothing, c)
 <2> SUFFICES ASSUME NEW t \in Ticks PROVE c[t] = c[t] \o << >>
   BY DEF Adds, Nothing
 <2>1. c[t] \in Seq(Event) BY <1>1 DEF Agenda
 <2> QED BY <2>1
<1>4. c = [t \in Ticks |-> c[t]] BY <1>1 DEF Agenda
<1> QED BY <1>1, <1>2, <1>3, <1>4, NothingPlanned DEF Handles, c

\* Handled handles the first event of the tick and plans one event.
LEMMA HandledHandles ==
  ASSUME agenda \in Agenda, now \in Ticks, agenda[now] # << >>, NEW e \in Event, NEW u \in Ticks
  PROVE  /\ Handles(agenda, now, Single(e, u), Handled(e, u))
         /\ Handled(e, u)[now] = IF u = now THEN << e >> \o Tail(agenda[now]) ELSE Tail(agenda[now])
<1> DEFINE c == Without(agenda, now)
           b == Handled(e, u)
<1>1. c \in Agenda /\ c[now] = Tail(agenda[now]) /\ \A t \in Ticks : t # now => c[t] = agenda[t]
  BY HeadTaken
<1>2. DOMAIN agenda = Ticks BY DEF Agenda
<1>3. b[now] = IF u = now THEN << e >> \o Tail(agenda[now]) ELSE Tail(agenda[now])
  BY <1>2 DEF Handled
<1>4. b = [t \in Ticks |-> b[t]] BY <1>2 DEF Handled
<1>5. \A t \in Ticks : t # now => b[t] = IF t = u THEN Append(agenda[t], e) ELSE agenda[t]
  BY <1>2 DEF Handled
<1> HIDE DEF c, b
<1>6. ASSUME NEW t \in Ticks PROVE b[t] = c[t] \o Single(e, u)[t] \/ b[t] = Single(e, u)[t] \o c[t]
 <2>1. c[t] \in Seq(Event) /\ agenda[t] \in Seq(Event) BY <1>1 DEF Agenda
 <2>2. Append(agenda[t], e) = agenda[t] \o << e >> /\ c[t] = c[t] \o << >> BY <2>1
 <2>3. Single(e, u)[t] = IF t = u THEN << e >> ELSE << >> BY DEF Single
 <2>4. CASE t = now /\ t = u BY <1>1, <1>3, <2>3, <2>4
 <2>5. CASE t = now /\ t # u BY <1>1, <1>3, <2>2, <2>3, <2>5
 <2>6. CASE t # now /\ t = u BY <1>1, <1>5, <2>2, <2>3, <2>6
 <2>7. CASE t # now /\ t # u BY <1>1, <1>5, <2>2, <2>3, <2>7
 <2> QED BY <2>4, <2>5, <2>6, <2>7
<1>7. Single(e, u) \in Agenda BY SingleEvent
<1>8. Adds(c, Single(e, u), b) BY <1>6 DEF Adds
<1> QED BY <1>3, <1>4, <1>7, <1>8 DEF Handles, c, b

\* A handler that adds events at the end of their ticks handles the first
\* event of the tick and plans these.
LEMMA PlanHandles ==
  ASSUME agenda \in Agenda, now \in Ticks, agenda[now] # << >>, NEW new \in Agenda
  PROVE  Handles(agenda, now, new, [t \in Ticks |-> HandledOnly[t] \o new[t]])
<1> DEFINE c == Without(agenda, now)
           b == [t \in Ticks |-> HandledOnly[t] \o new[t]]
<1>1. HandledOnly = c BY DEF HandledOnly, Without
<1>2. \A t \in Ticks : b[t] = c[t] \o new[t] BY <1>1
<1>3. b = [t \in Ticks |-> b[t]] OBVIOUS
<1> HIDE DEF b, c
<1>4. Adds(c, new, b) BY <1>2 DEF Adds
<1>5. Handles(agenda, now, new, b) BY <1>3, <1>4 DEF Handles, c
<1> QED BY <1>5 DEF b

-----------------------------------------------------------------------------
(* The discharges planned for a load.                                      *)

DischargeAt(v, loads, i) ==
  [type |-> "DISCHARGE_FULL", v |-> v, p |-> ReachableStops(v)[i].port, n |-> loads[i]]
PlannedDischarges(v, loads) == [t \in Ticks |-> Discharges(v, loads, t)]

\* A tick gets the discharge of the one stop that the vessel arrives at then,
\* if it loads for it.
LEMMA DischargesAt ==
  ASSUME TypeInv, LadenFit, NEW v \in Vessels, vessel[v].next_loc < Len(stops[v]), NEW p \in Ports,
         NEW loads \in Loads(v, p), NEW t \in Ticks
  PROVE  \/ \E i \in 1 .. Len(ReachableStops(v)) :
              /\ ReachableStops(v)[i].arrive = t /\ loads[i] > 0
              /\ \A j \in 1 .. Len(ReachableStops(v)) : ReachableStops(v)[j].arrive = t => j = i
              /\ Discharges(v, loads, t) = << DischargeAt(v, loads, i) >>
              /\ DischargeAt(v, loads, i) \in Event
         \/ /\ \A i \in 1 .. Len(ReachableStops(v)) : ReachableStops(v)[i].arrive = t => loads[i] = 0
            /\ Discharges(v, loads, t) = << >>
<1> DEFINE rs == ReachableStops(v)
           n == Len(rs)
           is == {i \in DOMAIN loads : rs[i].arrive = t /\ loads[i] > 0}
           i == CHOOSE i \in is : TRUE
<1>1. loads \in [1 .. n -> Nat] BY LoadFacts
<1>2. /\ n \in Nat /\ \A k \in 1 .. n : rs[k].port \in Ports /\ rs[k].arrive \in Ticks
      /\ \A k, l \in 1 .. n : k < l => rs[k].arrive < rs[l].arrive
  BY ReachableFacts
<1>3. Discharges(v, loads, t) = IF is = {} THEN << >> ELSE << DischargeAt(v, loads, i) >>
  BY DEF Discharges, DischargeAt
<1>4. CASE is = {}
 <2>1. \A k \in 1 .. n : rs[k].arrive = t => loads[k] = 0
  <3> SUFFICES ASSUME NEW k \in 1 .. n, rs[k].arrive = t, loads[k] # 0 PROVE FALSE
    OBVIOUS
  <3>1. loads[k] \in Nat /\ k \in DOMAIN loads BY <1>1
  <3>2. loads[k] > 0 BY <3>1
  <3> QED BY <1>4, <3>1, <3>2
 <2> QED BY <1>3, <1>4, <2>1
<1>5. CASE is # {}
 <2>1. i \in is BY <1>5
 <2>2. i \in 1 .. n /\ rs[i].arrive = t /\ loads[i] > 0 BY <1>1, <2>1
 <2> HIDE DEF i
 <2>3. \A j \in 1 .. n : rs[j].arrive = t => j = i
  <3> SUFFICES ASSUME NEW j \in 1 .. n, rs[j].arrive = t, j # i PROVE FALSE
    OBVIOUS
  <3>1. rs[i].arrive < rs[j].arrive \/ rs[j].arrive < rs[i].arrive
   <4>1. i < j \/ j < i BY <1>2, <2>2
   <4> QED BY <1>2, <2>2, <4>1
  <3>2. t \in Nat BY TicksFinite
  <3> QED BY <2>2, <3>1, <3>2
 <2>4. DischargeAt(v, loads, i) \in Event
  <3>1. rs[i].port \in Ports /\ loads[i] \in Nat BY <1>1, <1>2, <2>2
  <3> QED BY <3>1 DEF DischargeAt, Event, Cargo
 <2>5. Discharges(v, loads, t) = << DischargeAt(v, loads, i) >> BY <1>3, <1>5
 <2> QED BY <2>2, <2>3, <2>4, <2>5
<1> QED BY <1>4, <1>5

\* The planned discharges are an agenda, of discharges of this vessel alone.
LEMMA DischargesPlanned ==
  ASSUME TypeInv, LadenFit, NEW v \in Vessels, vessel[v].next_loc < Len(stops[v]), NEW p \in Ports,
         NEW loads \in Loads(v, p)
  PROVE  /\ PlannedDischarges(v, loads) \in Agenda
         /\ \A t \in Ticks : \A e \in ToSet(PlannedDischarges(v, loads)[t]) :
              \E i \in 1 .. Len(ReachableStops(v)) :
                 ReachableStops(v)[i].arrive = t /\ loads[i] > 0 /\ e = DischargeAt(v, loads, i)
<1>1. ASSUME NEW t \in Ticks
      PROVE  /\ Discharges(v, loads, t) \in Seq(Event)
             /\ \A e \in ToSet(Discharges(v, loads, t)) :
                 \E i \in 1 .. Len(ReachableStops(v)) :
                   ReachableStops(v)[i].arrive = t /\ loads[i] > 0 /\ e = DischargeAt(v, loads, i)
 <2>1. CASE Discharges(v, loads, t) = << >> BY <2>1 DEF ToSet
 <2>2. CASE Discharges(v, loads, t) # << >>
  <3>1. PICK i \in 1 .. Len(ReachableStops(v)) :
            /\ ReachableStops(v)[i].arrive = t /\ loads[i] > 0
            /\ Discharges(v, loads, t) = << DischargeAt(v, loads, i) >>
            /\ DischargeAt(v, loads, i) \in Event
    BY <2>2, DischargesAt
  <3> DEFINE d == DischargeAt(v, loads, i)
  <3>2. d \in Event /\ Discharges(v, loads, t) = << d >> BY <3>1
  <3> HIDE DEF d
  <3>3. ToSet(<< d >>) = {d} /\ << d >> \in Seq(Event) BY <3>2 DEF ToSet
  <3> QED BY <3>1, <3>2, <3>3 DEF d
 <2> QED BY <2>1, <2>2
<1> QED BY <1>1 DEF PlannedDischarges, Agenda

\* What is discharged at a port is what was loaded for it.
LEMMA DischargesAddUp ==
  ASSUME TypeInv, LadenFit, NEW v \in Vessels, vessel[v].next_loc < Len(stops[v]), NEW p \in Ports,
         NEW loads \in Loads(v, p), NEW q \in Ports
  PROVE  PlannedSum(Carrying("DISCHARGE_FULL", <<v, q>>), PlannedDischarges(v, loads)) = LoadedFor(v, loads, q)
<1> DEFINE rs == ReachableStops(v)
           n == Len(rs)
           S == StopsAt(v, q)
           C == [t \in Ticks |-> {i \in S : rs[i].arrive = t}]
           w == Carrying("DISCHARGE_FULL", <<v, q>>)
           g == [t \in Ticks |-> Sum(w, PlannedDischarges(v, loads)[t])]
<1>1. loads \in [1 .. n -> Nat] BY LoadFacts
<1>2. /\ n \in Nat /\ DOMAIN rs = 1 .. n
      /\ \A k \in 1 .. n : rs[k].port \in Ports /\ rs[k].arrive \in Ticks
  BY ReachableFacts
<1>3. S \subseteq 1 .. n /\ \A i \in 1 .. n : i \in S <=> rs[i].port = q BY <1>2 DEF StopsAt
<1>4. IsFiniteSet(S)
 <2>1. IsFiniteSet(1 .. n) BY <1>2, FS_Interval
 <2> QED BY <1>3, <2>1, FS_Subset
<1>5. w \in [Event -> Int] BY WeightTypes, WeightsAreWhole DEF CargoTypes
<1>6. \A i \in 1 .. n : /\ DischargeAt(v, loads, i) \in Event
                        /\ w[DischargeAt(v, loads, i)] = IF i \in S THEN loads[i] ELSE 0
 <2> SUFFICES ASSUME NEW i \in 1 .. n
              PROVE  /\ DischargeAt(v, loads, i) \in Event
                     /\ w[DischargeAt(v, loads, i)] = IF i \in S THEN loads[i] ELSE 0
   OBVIOUS
 <2>1. rs[i].port \in Ports /\ loads[i] \in Nat BY <1>1, <1>2
 <2>2. DischargeAt(v, loads, i) \in Event BY <2>1 DEF DischargeAt, Event, Cargo
 <2>3. w[DischargeAt(v, loads, i)] = Carried(DischargeAt(v, loads, i), "DISCHARGE_FULL", <<v, q>>)
   BY <2>2 DEF Carrying
 <2>4. Carried(DischargeAt(v, loads, i), "DISCHARGE_FULL", <<v, q>>) = IF rs[i].port = q THEN loads[i] ELSE 0
   BY DEF DischargeAt, Carried, Place
 <2> QED BY <1>3, <2>2, <2>3, <2>4
<1>7. ASSUME NEW t \in Ticks PROVE g[t] = SumFunctionOnSet(loads, C[t])
 <2>0. g[t] = Sum(w, Discharges(v, loads, t)) BY DEF PlannedDischarges
 <2>a. IsFiniteSet(C[t]) /\ C[t] \subseteq S
  <3>1. C[t] \subseteq S OBVIOUS
  <3> QED BY <1>4, <3>1, FS_Subset
 <2>1. CASE Discharges(v, loads, t) # << >>
  <3>1. PICK i \in 1 .. n :
            /\ rs[i].arrive = t /\ loads[i] > 0
            /\ \A j \in 1 .. n : rs[j].arrive = t => j = i
            /\ Discharges(v, loads, t) = << DischargeAt(v, loads, i) >>
    BY <2>1, DischargesAt
  <3>2. g[t] = IF i \in S THEN loads[i] ELSE 0
   <4> DEFINE e == DischargeAt(v, loads, i)
   <4>1. e \in Event /\ w[e] = IF i \in S THEN loads[i] ELSE 0 BY <1>6
   <4>2. g[t] = Sum(w, << e >>) BY <2>0, <3>1
   <4> HIDE DEF e, w, g, S
   <4>3. Sum(w, << e >>) = w[e] BY <1>5, <4>1, SumOfEvents
   <4> QED BY <4>1, <4>2, <4>3
  <3>3. CASE i \in S
   <4>1. C[t] = {} \cup {i} BY <1>3, <3>1, <3>3
   <4>2. SumFunctionOnSet(loads, {} \cup {i}) = loads[i] + SumFunctionOnSet(loads, {})
    <5> DEFINE E == {}
    <5>1. IsFiniteSet(E) /\ i \notin E BY FS_EmptySet
    <5>2. \A x \in E \cup {i} : loads[x] \in Int BY <1>1
    <5> HIDE DEF E
    <5>3. SumFunctionOnSet(loads, E \cup {i}) = loads[i] + SumFunctionOnSet(loads, E)
      BY <5>1, <5>2, SumAdds
    <5> QED BY <5>3 DEF E
   <4>3. SumFunctionOnSet(loads, {}) = 0
    <5>1. IsFiniteSet({}) /\ \A x \in {} : loads[x] = 0 BY FS_EmptySet
    <5> QED BY <5>1, SumOfZeros
   <4>4. loads[i] \in Nat BY <1>1
   <4> HIDE DEF C, g
   <4> QED BY <3>2, <3>3, <4>1, <4>2, <4>3, <4>4
  <3>4. CASE i \notin S
   <4>1. C[t] = {} BY <1>3, <3>1, <3>4
   <4>2. \A x \in C[t] : loads[x] = 0 BY <4>1
   <4> HIDE DEF C, g
   <4> QED BY <2>a, <3>2, <3>4, <4>2, SumOfZeros
  <3> QED BY <3>3, <3>4
 <2>2. CASE Discharges(v, loads, t) = << >>
  <3>1. \A i \in 1 .. n : rs[i].arrive = t => loads[i] = 0
   <4>1. ASSUME NEW e PROVE << e >> # << >>
     OBVIOUS
   <4> QED BY <2>2, <4>1, DischargesAt
  <3>2. \A x \in C[t] : loads[x] = 0 BY <1>3, <3>1
  <3>3. g[t] = 0 BY <1>5, <2>0, <2>2, SumOfEvents
  <3> HIDE DEF C, g
  <3> QED BY <2>a, <3>2, <3>3, SumOfZeros
 <2> QED BY <2>1, <2>2
<1>8. \A x \in S : loads[x] \in Int BY <1>1, <1>3
<1>9. \A t \in Ticks : C[t] \subseteq S OBVIOUS
<1>10. \A x \in S : \E t \in Ticks : x \in C[t] BY <1>2, <1>3
<1>11. \A t, u \in Ticks : \A x \in S : x \in C[t] /\ x \in C[u] => t = u OBVIOUS
<1>12. IsFiniteSet(Ticks) BY TicksFinite
<1>13. PlannedSum(w, PlannedDischarges(v, loads)) = SumFunctionOnSet(g, Ticks)
  BY DEF PlannedSum
<1> HIDE DEF S, C, w, g
<1>14. SumFunctionOnSet(g, Ticks) = SumFunctionOnSet(loads, S)
  BY <1>4, <1>7, <1>8, <1>9, <1>10, <1>11, <1>12, SumByClass
<1>15. LoadedFor(v, loads, q) = SumFunctionOnSet(loads, S) BY LoadsWait DEF S
<1> QED BY <1>13, <1>14, <1>15 DEF w

-----------------------------------------------------------------------------
(* What every handler does.                                                *)

\* The first event of the tick is handled and those of new are planned; the
\* handlers leave the schedules and the simulation's state alone.
Handler(new) ==
  /\ Handles(agenda, now, new, agenda')
  /\ pc = "execute"
  /\ joint' = joint /\ stops' = stops /\ now' = now /\ pc' = pc

\* What the type invariant says of the variables that lemmas speak of.
LEMMA Types ==
  ASSUME TypeInv
  PROVE  agenda \in Agenda /\ now \in Ticks /\ now \in Nat /\ \A t \in Ticks : agenda[t] \in Seq(Event)
<1>1. now \in Ticks BY TicksFinite DEF TypeInv
<1> QED BY <1>1, TicksFinite DEF TypeInv, Agenda

\* The event that a handler is called for.
LEMMA FrontEvent ==
  ASSUME TypeInv, NEW type, NextIs(type)
  PROVE  /\ agenda \in Agenda /\ now \in Ticks /\ agenda[now] # << >> /\ pc = "execute"
         /\ Head(agenda[now]) \in Event /\ Head(agenda[now]).type = type
         /\ Head(agenda[now]) \in ToSet(agenda[now])
<1>1. agenda \in Agenda /\ now \in Ticks BY Types
<1>2. agenda[now] # << >> /\ pc = "execute" /\ Head(agenda[now]).type = type BY DEF NextIs
<1> QED BY <1>1, <1>2, HeadTaken

\* What the weights are of an event, by its fields.
LEMMA WeightOf ==
  ASSUME NEW e \in Event
  PROVE  /\ \A v : /\ Leaving(v)[e] = IF e.type = "VESSEL_DEPARTURE" /\ e.v = v THEN 1 ELSE 0
                   /\ Coming(v)[e] = IF e.type = "VESSEL_ARRIVAL" /\ e.v = v THEN 1 ELSE 0
         /\ \A type, place : Carrying(type, place)[e] = IF e.type = type /\ Place(e) = place THEN e.n ELSE 0
BY DEF Leaving, Coming, Carrying, Carried

-----------------------------------------------------------------------------
(* The order in a tick.                                                    *)

\* What may happen to the events of a tick while no discharge comes after the
\* arrival of its vessel: the first ones go, events that are no arrivals come
\* before the others, events that are no discharges after them.
LEMMA NoLateKept ==
  ASSUME NEW s \in Seq(Event), NoLate(s)
  PROVE  /\ s # << >> => NoLate(Tail(s))
         /\ \A k \in 0 .. Len(s) : NoLate(SubSeq(s, k + 1, Len(s)))
         /\ \A x \in Seq(Event) : (\A e \in ToSet(x) : e.type # "VESSEL_ARRIVAL") => NoLate(x \o s)
         /\ \A x \in Seq(Event) : (\A e \in ToSet(x) : e.type # "DISCHARGE_FULL") => NoLate(s \o x)
<1>1. ASSUME NEW k \in 0 .. Len(s) PROVE NoLate(SubSeq(s, k + 1, Len(s)))
 <2> DEFINE r == SubSeq(s, k + 1, Len(s))
 <2>1. DOMAIN s = 1 .. Len(s) /\ Len(s) \in Nat OBVIOUS
 <2>2. DOMAIN r = 1 .. Len(s) - k /\ \A i \in 1 .. Len(s) - k : r[i] = s[i + k] OBVIOUS
 <2> HIDE DEF r
 <2>3. \A i \in DOMAIN r : i + k \in DOMAIN s /\ r[i] = s[i + k] BY <2>1, <2>2
 <2>4. \A i, j \in DOMAIN r : i < j => i + k < j + k BY <2>1, <2>2
 <2>5. NoLate(r)
  <3> SUFFICES ASSUME NEW i \in DOMAIN r, NEW j \in DOMAIN r, i < j, r[i].type = "VESSEL_ARRIVAL",
                      r[j].type = "DISCHARGE_FULL"
               PROVE  r[i].v # r[j].v
    BY DEF NoLate
  <3>1. i + k \in DOMAIN s /\ j + k \in DOMAIN s /\ i + k < j + k /\ r[i] = s[i + k] /\ r[j] = s[j + k]
    BY <2>3, <2>4
  <3> QED BY <3>1 DEF NoLate
 <2> QED BY <2>5 DEF r
<1>2. ASSUME s # << >> PROVE NoLate(Tail(s))
 <2>1. Tail(s) = SubSeq(s, 1 + 1, Len(s)) /\ 1 \in 0 .. Len(s) BY <1>2
 <2> QED BY <1>1, <2>1
<1>3. ASSUME NEW x \in Seq(Event), \A e \in ToSet(x) : e.type # "VESSEL_ARRIVAL" PROVE NoLate(x \o s)
 <2> DEFINE r == x \o s
            n == Len(x)
 <2>1. /\ n \in Nat /\ DOMAIN r = 1 .. n + Len(s) /\ Len(s) \in Nat /\ DOMAIN s = 1 .. Len(s)
       /\ \A i \in 1 .. n : r[i] = x[i] /\ x[i] \in ToSet(x)
       /\ \A i \in 1 .. Len(s) : r[n + i] = s[i]
   BY DEF ToSet
 <2> HIDE DEF r, n
 <2>2. NoLate(r)
  <3> SUFFICES ASSUME NEW i \in DOMAIN r, NEW j \in DOMAIN r, i < j, r[i].type = "VESSEL_ARRIVAL",
                      r[j].type = "DISCHARGE_FULL"
               PROVE  r[i].v # r[j].v
    BY DEF NoLate
  <3>1. i \notin 1 .. n BY <1>3, <2>1
  <3>2. i - n \in 1 .. Len(s) /\ j - n \in 1 .. Len(s) /\ i - n < j - n /\ n + (i - n) = i /\ n + (j - n) = j
    BY <2>1, <3>1
  <3>3. r[i] = s[i - n] /\ r[j] = s[j - n] BY <2>1, <3>2
  <3> QED BY <2>1, <3>2, <3>3 DEF NoLate
 <2> QED BY <2>2 DEF r
<1>4. ASSUME NEW x \in Seq(Event), \A e \in ToSet(x) : e.type # "DISCHARGE_FULL" PROVE NoLate(s \o x)
 <2> DEFINE r == s \o x
            n == Len(s)
 <2>1. /\ n \in Nat /\ DOMAIN r = 1 .. n + Len(x) /\ Len(x) \in Nat /\ DOMAIN s = 1 .. n
       /\ \A i \in 1 .. n : r[i] = s[i]
       /\ \A i \in 1 .. Len(x) : r[n + i] = x[i] /\ x[i] \in ToSet(x)
   BY DEF ToSet
 <2> HIDE DEF r, n
 <2>2. NoLate(r)
  <3> SUFFICES ASSUME NEW i \in DOMAIN r, NEW j \in DOMAIN r, i < j, r[i].type = "VESSEL_ARRIVAL",
                      r[j].type = "DISCHARGE_FULL"
               PROVE  r[i].v # r[j].v
    BY DEF NoLate
  <3>1. j \in 1 .. n
   <4> SUFFICES ASSUME j \notin 1 .. n PROVE FALSE
     OBVIOUS
   <4>1. j - n \in 1 .. Len(x) /\ n + (j - n) = j BY <2>1
   <4>2. r[j] = x[j - n] /\ x[j - n] \in ToSet(x) BY <2>1, <4>1
   <4> QED BY <1>4, <4>2
  <3>2. i \in 1 .. n BY <2>1, <3>1
  <3>3. r[i] = s[i] /\ r[j] = s[j] BY <2>1, <3>1, <3>2
  <3> QED BY <2>1, <3>1, <3>2, <3>3 DEF NoLate
 <2> QED BY <2>2 DEF r
<1> QED BY <1>1, <1>2, <1>3, <1>4

-----------------------------------------------------------------------------
(* What every handler keeps.                                               *)

\* A handler keeps events to their time when what it plans is not for the past
\* and of the types that may wait.
LEMMA TimeKept ==
  ASSUME TypeInv, TimeInv, NEW new, Handler(new),
         \A t \in Ticks : t < now => new[t] = << >>,
         \A t \in Ticks : \A e \in ToSet(new[t]) : e.type \notin OfToday
  PROVE  TimeInv'
<1>1. Handles(agenda, now, new, agenda') /\ now' = now /\ pc' = "execute" BY DEF Handler
<1>2. \A t \in Ticks : ToSet(agenda'[t]) \subseteq ToSet(agenda[t]) \cup ToSet(new[t])
  BY <1>1, Handling
<1>3. agenda' \in Agenda BY <1>1, Handling
<1>4. ASSUME NEW t \in Ticks, t < now PROVE agenda'[t] = << >>
 <2>1. agenda[t] = << >> /\ new[t] = << >> BY <1>4 DEF TimeInv
 <2>2. ToSet(agenda'[t]) = {} BY <1>2, <2>1 DEF ToSet
 <2> DEFINE es == agenda'[t]
 <2>3. es \in Seq(Event) BY <1>3 DEF Agenda
 <2>4. ToSet(es) = {} BY <2>2
 <2> HIDE DEF es
 <2>5. es = << >>
  <3>1. es # << >> => 1 \in DOMAIN es BY <2>3
  <3>2. \A i \in DOMAIN es : es[i] \in ToSet(es) BY DEF ToSet
  <3> QED BY <2>4, <3>1, <3>2
 <2> QED BY <2>5 DEF es
<1>5. ASSUME NEW t \in Ticks, NEW e \in ToSet(agenda'[t]), e.type \in OfToday
      PROVE  t = now'
 <2>1. e \in ToSet(agenda[t]) BY <1>2, <1>5
 <2> QED BY <1>1, <1>5, <2>1 DEF TimeInv, OfToday
<1> QED BY <1>1, <1>4, <1>5 DEF TimeInv, OfToday

\* A handler that plans no action keeps what is known of actions.
LEMMA ActionsKept ==
  ASSUME TypeInv, ActionInv, NEW new, Handler(new),
         \A t \in Ticks : \A e \in ToSet(new[t]) : ~IsAction(e)
  PROVE  ActionInv'
<1>1. Handles(agenda, now, new, agenda') /\ joint' = joint /\ pc' = "execute" /\ now' = now
  BY DEF Handler
<1> SUFFICES ASSUME ~joint
             PROVE  \A t \in Ticks : \A i \in DOMAIN agenda'[t] : ~IsAction(agenda'[t][i])
  BY <1>1 DEF ActionInv
<1> SUFFICES ASSUME NEW t \in Ticks, NEW i \in DOMAIN agenda'[t], IsAction(agenda'[t][i])
             PROVE  FALSE
  OBVIOUS
<1> DEFINE c == Without(agenda, now)
           e == agenda'[t][i]
<1>2. e \in ToSet(agenda'[t]) BY DEF ToSet
<1>3. agenda \in Agenda /\ now \in Ticks /\ new \in Agenda /\ agenda[now] # << >> /\ Adds(c, new, agenda')
  BY <1>1 DEF Handles
<1>4. c \in Agenda /\ c[now] = Tail(agenda[now]) /\ \A u \in Ticks : u # now => c[u] = agenda[u]
  BY <1>3, HeadTaken
<1> HIDE DEF c
<1>5. PICK b : b = agenda' OBVIOUS
<1>6. ToSet(agenda'[t]) = ToSet(c[t]) \cup ToSet(new[t])
 <2>1. ToSet(b[t]) = ToSet(c[t]) \cup ToSet(new[t])
  <3>1. Adds(c, new, b) BY <1>3, <1>5
  <3>2. c \in Agenda /\ new \in Agenda /\ t \in Ticks BY <1>3, <1>4
  <3> HIDE DEF e
  <3> QED BY <3>1, <3>2, AddedEvents
 <2> QED BY <1>5, <2>1
<1>7. e \in ToSet(c[t]) BY <1>2, <1>6
<1>8. PICK k \in DOMAIN c[t] : c[t][k] = e BY <1>7 DEF ToSet
<1>9. CASE t # now
 <2>1. k \in DOMAIN agenda[t] /\ agenda[t][k] = e BY <1>4, <1>8, <1>9
 <2> QED BY <1>9, <2>1 DEF ActionInv
<1>10. CASE t = now
 <2> DEFINE s == agenda[now]
 <2>1. s \in Seq(Event) /\ s # << >> BY <1>3 DEF Agenda
 <2> HIDE DEF s
 <2>2. k \in DOMAIN Tail(s) /\ Tail(s)[k] = e BY <1>4, <1>8, <1>10 DEF s
 <2> HIDE DEF e
 <2>3. k + 1 \in DOMAIN s /\ s[k + 1] = e /\ k \in Nat \ {0} BY <2>1, <2>2
 <2>4. k + 1 # 1 BY <2>3
 <2>5. \A j \in DOMAIN agenda[now] : IsAction(agenda[now][j]) => j = 1 BY <1>3 DEF ActionInv
 <2>6. IsAction(e) BY DEF e
 <2> QED BY <2>3, <2>4, <2>5, <2>6 DEF s
<1> QED BY <1>9, <1>10

\* How the weight of an agenda changes when an event is handled.
LEMMA PlannedChange ==
  ASSUME NEW new, Handler(new), NEW w \in [Event -> Int]
  PROVE  /\ PlannedSum(w, agenda') = (PlannedSum(w, agenda) - w[Head(agenda[now])]) + PlannedSum(w, new)
         /\ PlannedSum(w, agenda) \in Int /\ PlannedSum(w, new) \in Int /\ w[Head(agenda[now])] \in Int
         /\ w \in [Event -> Nat] => w[Head(agenda[now])] <= PlannedSum(w, agenda)
<1> DEFINE h == w[Head(agenda[now])]
           c == PlannedSum(w, Without(agenda, now))
           d == PlannedSum(w, new)
<1>1. Handles(agenda, now, new, agenda') BY DEF Handler
<1>2. PICK b : b = agenda' OBVIOUS
<1>3. Handles(agenda, now, new, b) BY <1>1, <1>2
<1>4. /\ PlannedSum(w, agenda) = h + c /\ PlannedSum(w, b) = c + d
      /\ c \in Int /\ d \in Int /\ h \in Int
      /\ w \in [Event -> Nat] => c \in Nat
  BY <1>3, Handling
<1> HIDE DEF h, c, d
<1>5. PlannedSum(w, b) = (PlannedSum(w, agenda) - h) + d /\ PlannedSum(w, agenda) \in Int
  BY <1>4
<1>6. w \in [Event -> Nat] => h <= PlannedSum(w, agenda) BY <1>4
<1> QED BY <1>2, <1>4, <1>5, <1>6 DEF h, d

\* Where neither the handled event nor what it plans has weight, every tick
\* weighs what it did.
LEMMA SumsKept ==
  ASSUME NEW new, Handler(new), NEW w \in [Event -> Int], w[Head(agenda[now])] = 0,
         \A t \in Ticks : \A e \in ToSet(new[t]) : w[e] = 0
  PROVE  \A t \in Ticks : Sum(w, agenda'[t]) = Sum(w, agenda[t])
<1>1. Handles(agenda, now, new, agenda') BY DEF Handler
<1>2. PICK b : b = agenda' OBVIOUS
<1>3. Handles(agenda, now, new, b) BY <1>1, <1>2
<1>4. new \in Agenda BY <1>1 DEF Handles
<1>5. \A t \in Ticks : Sum(w, new[t]) = 0 BY <1>4, PlannedOfNone
<1> SUFFICES ASSUME NEW t \in Ticks PROVE Sum(w, b[t]) = Sum(w, agenda[t])
  BY <1>2
<1> DEFINE h == w[Head(agenda[now])]
           c == Sum(w, Without(agenda, now)[t])
<1>6. /\ Sum(w, agenda[t]) = (IF t = now THEN h ELSE 0) + c
      /\ Sum(w, b[t]) = c + Sum(w, new[t])
      /\ c \in Int
  BY <1>3, Handling
<1>7. h = 0 OBVIOUS
<1> HIDE DEF h, c
<1> QED BY <1>5, <1>6, <1>7

Moves == {"VESSEL_ARRIVAL", "VESSEL_DEPARTURE"}

\* Handling an event other than an arrival or a departure keeps every voyage
\* that stays as it is.
LEMMA SailKept ==
  ASSUME TypeInv, NEW v \in Vessels, VoyageOf(v), NEW new, Handler(new),
         \A t \in Ticks : \A e \in ToSet(new[t]) : e.type \notin Moves,
         Leaving(v)[Head(agenda[now])] = 0, Coming(v)[Head(agenda[now])] = 0,
         vessel'[v].next_loc = vessel[v].next_loc, vessel'[v].parking = vessel[v].parking,
         vessel'[v].at = vessel[v].at
  PROVE  VoyageOf(v)'
<1>1. stops' = stops /\ now' = now /\ pc' = pc /\ new \in Agenda BY DEF Handler, Handles
<1>2. Leaving(v) \in [Event -> Int] /\ Coming(v) \in [Event -> Int]
  BY WeightTypes, WeightsAreWhole
<1>3. \A t \in Ticks : \A e \in ToSet(new[t]) : Leaving(v)[e] = 0 /\ Coming(v)[e] = 0
 <2> SUFFICES ASSUME NEW t \in Ticks, NEW e \in ToSet(new[t]) PROVE Leaving(v)[e] = 0 /\ Coming(v)[e] = 0
   OBVIOUS
 <2>1. new[t] \in Seq(Event) BY <1>1 DEF Agenda
 <2>2. e \in Event BY <2>1 DEF ToSet
 <2>3. e.type \notin Moves OBVIOUS
 <2> QED BY <2>2, <2>3, WeightOf DEF Moves
<1>4. \A t \in Ticks : Sum(Leaving(v), agenda'[t]) = Sum(Leaving(v), agenda[t])
  BY <1>2, <1>3, SumsKept
<1>5. \A t \in Ticks : Sum(Coming(v), agenda'[t]) = Sum(Coming(v), agenda[t])
  BY <1>2, <1>3, SumsKept
<1>6. now \in Ticks BY Types
<1>7. \A t \in Ticks : LeavesAt(v, t)' = LeavesAt(v, t) BY <1>1 DEF LeavesAt
<1>8. \A t \in Ticks : Sum(Leaving(v), agenda'[t]) = IF LeavesAt(v, t)' THEN 1 ELSE 0
 <2>1. \A t \in Ticks : Sum(Leaving(v), agenda[t]) = IF LeavesAt(v, t) THEN 1 ELSE 0
   BY DEF VoyageOf
 <2> QED BY <1>4, <1>7, <2>1
<1>9. Sum(Coming(v), agenda'[now]) = Sum(Coming(v), agenda[now]) BY <1>5, <1>6
<1> QED BY <1>1, <1>8, <1>9 DEF VoyageOf

\* A handler keeps every event expected when the voyages stay and what it
\* plans is expected.
LEMMA DueKept ==
  ASSUME TypeInv, DueInv, NEW new, Handler(new),
         \A t \in Ticks : \A e \in ToSet(new[t]) : Expected(e, t),
         \A v \in Vessels : vessel'[v].next_loc = vessel[v].next_loc /\ vessel'[v].parking = vessel[v].parking,
         NoLate(agenda'[now])
  PROVE  DueInv'
<1>1. stops' = stops /\ now' = now /\ new \in Agenda /\ Handles(agenda, now, new, agenda')
  BY DEF Handler, Handles
<1>2. \A t \in Ticks : ToSet(agenda'[t]) \subseteq ToSet(agenda[t]) \cup ToSet(new[t])
  BY <1>1, Handling
<1>3. ASSUME NEW t \in Ticks, NEW e \in ToSet(agenda'[t]) PROVE Expected(e, t)'
 <2>1. e \in ToSet(agenda[t]) \cup ToSet(new[t]) BY <1>2
 <2>2. Expected(e, t) BY <2>1 DEF DueInv
 <2>3. agenda[t] \in Seq(Event) /\ new[t] \in Seq(Event) BY <1>1 DEF Handles, Agenda
 <2>4. e \in Event BY <2>1, <2>3 DEF ToSet
 <2>5. e.type \in {"LOAD_FULL", "DISCHARGE_FULL"} => e.v \in Vessels BY <2>4, EventFields
 <2>6. e.type = "LOAD_FULL" => Loading(e)' BY <1>1, <2>2, <2>5 DEF Expected, Loading
 <2>7. ASSUME e.type = "DISCHARGE_FULL" PROVE Due(e, t)'
  <3>1. Due(e, t) /\ e.v \in Vessels BY <2>2, <2>5, <2>7 DEF Expected
  <3>2. vessel'[e.v].next_loc = vessel[e.v].next_loc /\ vessel'[e.v].parking = vessel[e.v].parking
    BY <3>1
  <3> QED BY <1>1, <3>1, <3>2 DEF Due, AtHand
 <2> QED BY <2>2, <2>6, <2>7 DEF Expected
<1> QED BY <1>1, <1>3 DEF DueInv

-----------------------------------------------------------------------------
(* The books.                                                              *)

\* The books say what CargoAccounted says, with weights for events.
LEMMA BooksAreCargo ==
  ASSUME agenda \in Agenda
  PROVE  BooksInv <=> CargoAccounted
<1>1. \A type, place : Planned(agenda, type, place) = PlannedSum(Carrying(type, place), agenda)
  BY PlannedIsSum
<1> QED BY <1>1 DEF BooksInv, PortBooks, VesselBooks, CargoAccounted

\* A row of a matrix.
LEMMA RowSums ==
  ASSUME NEW m, NEW x, \A q \in Ports : m[<<x, q>>] \in Nat
  PROVE  /\ SumFunctionOnSet([q \in Ports |-> m[<<x, q>>]], Ports) \in Nat
         /\ \A q \in Ports : m[<<x, q>>] <= SumFunctionOnSet([r \in Ports |-> m[<<x, r>>]], Ports)
<1> DEFINE f == [q \in Ports |-> m[<<x, q>>]]
<1>1. IsFiniteSet(Ports) /\ \A q \in Ports : f[q] \in Nat BY CimAssumption
<1>2. \A q \in Ports : f[q] = m[<<x, q>>] OBVIOUS
<1> HIDE DEF f
<1>3. SumFunctionOnSet(f, Ports) \in Nat BY <1>1, SumIsNatural
<1>4. ASSUME NEW q \in Ports PROVE f[q] <= SumFunctionOnSet(f, Ports)
 <2>1. \A r \in Ports : f[r] \in Int BY <1>1
 <2>2. SumFunctionOnSet(f, Ports) = f[q] + SumFunctionOnSet(f, Ports \ {q})
   BY <1>1, <2>1, SumRemoves
 <2>3. IsFiniteSet(Ports \ {q}) BY <1>1, FS_RemoveElement
 <2>4. SumFunctionOnSet(f, Ports \ {q}) \in Nat
  <3> DEFINE S == Ports \ {q}
  <3>1. IsFiniteSet(S) /\ \A r \in S : f[r] \in Nat BY <1>1, <2>3
  <3> HIDE DEF S
  <3>2. SumFunctionOnSet(f, S) \in Nat BY <3>1, SumIsNatural
  <3> QED BY <3>2 DEF S
 <2>5. f[q] \in Nat BY <1>1
 <2> QED BY <2>2, <2>4, <2>5
<1> QED BY <1>2, <1>3, <1>4 DEF f

\* The entry of a row for p grows by d.
RowChanged(f, g, p, d) == \A q \in Ports : f[q] \in Int /\ g[q] = f[q] + IF q = p THEN d ELSE 0

\* Where one entry of a row grows by d, its sum does.
LEMMA RowChanges ==
  ASSUME NEW f, NEW g, NEW p \in Ports, NEW d \in Int, RowChanged(f, g, p, d)
  PROVE  SumFunctionOnSet(g, Ports) = SumFunctionOnSet(f, Ports) + d
<1>1. IsFiniteSet(Ports) BY CimAssumption
<1>a. \A q \in Ports : f[q] \in Int /\ g[q] = f[q] + IF q = p THEN d ELSE 0
  BY DEF RowChanged
<1>2. \A q \in Ports : g[q] \in Int /\ (q # p => g[q] = f[q])
 <2>1. \A q \in Ports : f[q] + d \in Int /\ f[q] + 0 = f[q] BY <1>a
 <2> QED BY <1>a, <2>1
<1>3. g[p] = f[p] + d BY <1>a
<1>4. \A q \in Ports \ {p} : g[q] = f[q] BY <1>2
<1>5. SumFunctionOnSet(g, Ports) = SumFunctionOnSet(f, Ports) - f[p] + g[p]
 <2>1. \A q \in Ports : f[q] \in Int /\ g[q] \in Int BY <1>a, <1>2
 <2> QED BY <1>1, <1>4, <2>1, SumChanges
<1>6. SumFunctionOnSet(f, Ports) \in Int
 <2>1. \A q \in Ports : f[q] \in Int BY <1>a
 <2> QED BY <1>1, <2>1, SumRecursion
<1>7. f[p] \in Int BY <1>a
<1> QED BY <1>3, <1>5, <1>6, <1>7

\* Rows that agree, and rows that add up.
LEMMA RowsAgree ==
  ASSUME NEW f, NEW g, \A q \in Ports : f[q] \in Int, \A q \in Ports : g[q] = f[q]
  PROVE  SumFunctionOnSet(g, Ports) = SumFunctionOnSet(f, Ports)
BY CimAssumption, SumSame

\* Rows that are sums of two rows add up to both.
LEMMA RowsAdd ==
  ASSUME NEW f, NEW g, NEW h, \A q \in Ports : f[q] \in Int /\ g[q] \in Int /\ h[q] = f[q] + g[q]
  PROVE  SumFunctionOnSet(h, Ports) = SumFunctionOnSet(f, Ports) + SumFunctionOnSet(g, Ports)
<1>1. \A q \in Ports : f[q] \in Int /\ g[q] \in Int /\ h[q] \in Int /\ h[q] = f[q] + g[q]
  OBVIOUS
<1>2. IsFiniteSet(Ports) BY CimAssumption
<1> QED BY <1>1, <1>2, SumOfSums

-----------------------------------------------------------------------------
(* Nothing but one event is planned.                                       *)

\* A handler that plans one event.
LEMMA PlansOne ==
  ASSUME TypeInv, agenda[now] # << >>, pc = "execute", NEW r \in Event, NEW u \in Ticks, now <= u,
         agenda' = Handled(r, u), joint' = joint, stops' = stops, now' = now, pc' = pc
  PROVE  /\ Handler(Single(r, u))
         /\ \A t \in Ticks : t < now => Single(r, u)[t] = << >>
         /\ \A t \in Ticks : \A e \in ToSet(Single(r, u)[t]) : e = r /\ t = u
         /\ \A w \in [Event -> Int] : PlannedSum(w, Single(r, u)) = w[r]
         /\ NoLate(agenda[now]) /\ r.type # "VESSEL_ARRIVAL" => NoLate(agenda'[now])
<1>1. agenda \in Agenda /\ now \in Ticks /\ now \in Nat /\ u \in Nat BY Types, TicksFinite
<1>2. /\ Handles(agenda, now, Single(r, u), Handled(r, u))
      /\ Handled(r, u)[now] = IF u = now THEN << r >> \o Tail(agenda[now]) ELSE Tail(agenda[now])
  BY <1>1, HandledHandles
<1>3. Handler(Single(r, u)) BY <1>2 DEF Handler
<1>4. \A t \in Ticks : t < now => Single(r, u)[t] = << >>
 <2> SUFFICES ASSUME NEW t \in Ticks, t < now PROVE t # u
   BY DEF Single
 <2>1. t \in Nat BY TicksFinite
 <2> QED BY <1>1, <2>1
<1>5. \A t \in Ticks : \A e \in ToSet(Single(r, u)[t]) : e = r /\ t = u
 <2>1. \A t \in Ticks : ToSet(Single(r, u)[t]) = IF t = u THEN {r} ELSE {} BY SingleEvent
 <2> QED BY <2>1
<1>6. \A w \in [Event -> Int] : PlannedSum(w, Single(r, u)) = w[r] BY SingleEvent
<1>7. ASSUME NoLate(agenda[now]), r.type # "VESSEL_ARRIVAL" PROVE NoLate(agenda'[now])
 <2> DEFINE s == agenda[now]
            x == << r >>
 <2>1. s \in Seq(Event) /\ NoLate(s) /\ s # << >> BY <1>1, <1>7 DEF Agenda
 <2>2. x \in Seq(Event) /\ \A e \in ToSet(x) : e.type # "VESSEL_ARRIVAL" BY <1>7 DEF ToSet
 <2>3. agenda'[now] = IF u = now THEN x \o Tail(s) ELSE Tail(s) BY <1>2
 <2> HIDE DEF s, x
 <2>4. NoLate(Tail(s)) /\ Tail(s) \in Seq(Event) BY <2>1, NoLateKept
 <2>5. NoLate(x \o Tail(s)) BY <2>2, <2>4, NoLateKept
 <2> QED BY <2>3, <2>4, <2>5
<1> QED BY <1>3, <1>4, <1>5, <1>6, <1>7

\* A handler that plans none.
LEMMA PlansNone ==
  ASSUME TypeInv, agenda[now] # << >>, pc = "execute",
         agenda' = HandledOnly, joint' = joint, stops' = stops, now' = now, pc' = pc
  PROVE  /\ Handler(Nothing)
         /\ \A t \in Ticks : Nothing[t] = << >> /\ ToSet(Nothing[t]) = {}
         /\ \A w \in [Event -> Int] : PlannedSum(w, Nothing) = 0
         /\ agenda'[now] = Tail(agenda[now])
         /\ NoLate(agenda[now]) => NoLate(agenda'[now])
<1>1. agenda \in Agenda /\ now \in Ticks BY Types
<1>2. Handles(agenda, now, Nothing, HandledOnly) /\ HandledOnly[now] = Tail(agenda[now])
  BY <1>1, HandledOnlyHandles
<1>3. Handler(Nothing) BY <1>2 DEF Handler
<1>4. \A t \in Ticks : Nothing[t] = << >> /\ ToSet(Nothing[t]) = {}
  BY NothingPlanned DEF Nothing
<1>5. agenda[now] \in Seq(Event) BY <1>1 DEF Agenda
<1>6. NoLate(agenda[now]) => NoLate(Tail(agenda[now])) BY <1>5, NoLateKept
<1> QED BY <1>2, <1>3, <1>4, <1>6, NothingPlanned

\* The counts of containers where nothing but two places change.
LEMMA TotalsKept ==
  ASSUME TypeInv, ContainersConserved, NEW p \in Ports, NEW v \in Vessels, NEW d \in Int,
         \A q \in Ports : PortTotal(q)' = PortTotal(q) + IF q = p THEN d ELSE 0,
         \A u \in Vessels : VesselTotal(u)' = VesselTotal(u) + IF u = v THEN 0 - d ELSE 0
  PROVE  ContainersConserved'
<1> DEFINE f == [q \in Ports |-> PortTotal(q)]
           g == [q \in Ports |-> PortTotal(q)']
           h == [u \in Vessels |-> VesselTotal(u)]
           k == [u \in Vessels |-> VesselTotal(u)']
<1>1. (\A q \in Ports : PortTotal(q) \in Int) /\ (\A u \in Vessels : VesselTotal(u) \in Int)
 <2>1. ASSUME NEW q \in Ports PROVE PortTotal(q) \in Int
  <3>1. /\ port[q].empty \in Nat /\ port[q].full \in Nat
        /\ port[q].on_shipper \in Nat /\ port[q].on_consignee \in Nat
    BY DEF TypeInv
  <3> QED BY <3>1 DEF PortTotal
 <2>2. ASSUME NEW u \in Vessels PROVE VesselTotal(u) \in Int
  <3>1. vessel[u].empty \in Nat /\ vessel[u].full \in Nat BY DEF TypeInv
  <3> QED BY <3>1 DEF VesselTotal
 <2> QED BY <2>1, <2>2
<1>2. \A q \in Ports : f[q] \in Int /\ g[q] = f[q] + IF q = p THEN d ELSE 0 BY <1>1
<1>3. \A u \in Vessels : h[u] \in Int /\ k[u] = h[u] + IF u = v THEN 0 - d ELSE 0 BY <1>1
<1>4. /\ ContainersConserved <=> SumFunctionOnSet(f, Ports) + SumFunctionOnSet(h, Vessels)
                                   = SumFunctionOnSet(PortEmpty, Ports) + SumFunctionOnSet(VesselEmpty, Vessels)
      /\ ContainersConserved' <=> SumFunctionOnSet(g, Ports) + SumFunctionOnSet(k, Vessels)
                                   = SumFunctionOnSet(PortEmpty, Ports) + SumFunctionOnSet(VesselEmpty, Vessels)
  BY DEF ContainersConserved
<1> HIDE DEF f, g, h, k
<1>5. SumFunctionOnSet(g, Ports) = SumFunctionOnSet(f, Ports) + d
 <2>1. RowChanged(f, g, p, d) BY <1>2 DEF RowChanged
 <2> QED BY <2>1, RowChanges
<1>6. SumFunctionOnSet(k, Vessels) = (SumFunctionOnSet(h, Vessels) - h[v]) + k[v]
 <2>1. IsFiniteSet(Vessels) BY CimAssumption
 <2>2. \A u \in Vessels : h[u] \in Int /\ k[u] \in Int BY <1>3
 <2>3. \A u \in Vessels \ {v} : k[u] = h[u] BY <1>3
 <2> QED BY <2>1, <2>2, <2>3, SumChanges
<1>7. SumFunctionOnSet(f, Ports) \in Int /\ SumFunctionOnSet(h, Vessels) \in Int
  BY <1>2, <1>3, CimAssumption, SumRecursion
<1>8. h[v] \in Int /\ k[v] = h[v] - d BY <1>3
<1>9. SumFunctionOnSet(k, Vessels) = SumFunctionOnSet(h, Vessels) - d BY <1>6, <1>7, <1>8
<1>10. SumFunctionOnSet(g, Ports) + SumFunctionOnSet(k, Vessels)
         = SumFunctionOnSet(f, Ports) + SumFunctionOnSet(h, Vessels)
  BY <1>5, <1>7, <1>9
<1> QED BY <1>4, <1>10

\* The counts of containers where every place keeps its total.
LEMMA TotalsSame ==
  ASSUME TypeInv, ContainersConserved,
         \A q \in Ports : PortTotal(q)' = PortTotal(q),
         \A u \in Vessels : VesselTotal(u)' = VesselTotal(u)
  PROVE  ContainersConserved'
<1>1. [q \in Ports |-> PortTotal(q)'] = [q \in Ports |-> PortTotal(q)] OBVIOUS
<1>2. [u \in Vessels |-> VesselTotal(u)'] = [u \in Vessels |-> VesselTotal(u)] OBVIOUS
<1> QED BY <1>1, <1>2 DEF ContainersConserved

\* The vessels as they were.
LEMMA VesselsSame ==
  ASSUME vessel' = vessel
  PROVE  /\ LadenFit => LadenFit'
         /\ CapacityRespected => CapacityRespected'
         /\ \A v \in Vessels : VesselTotal(v)' = VesselTotal(v)
BY DEF LadenFit, CapacityRespected, VesselTotal

-----------------------------------------------------------------------------
(* An order takes empty containers away.                                   *)

\* Generating an order keeps the invariant: what leaves the port's empties is
\* on its shipper, with its return planned.
LEMMA OrderKeeps ==
  ASSUME CimInv, NEW buffer \in Buffers, OnOrder(buffer)
  PROVE  CimInv'
<1> DEFINE o == Head(agenda[now])
           qty == Min({port[o.p].empty, o.n})
           u == now + buffer
           r == [type |-> "RETURN_FULL", p |-> o.p, q |-> o.q, n |-> qty]
           new == Single(r, u)
<1>1. TypeInv /\ TimeInv /\ FitInv /\ SailInv /\ ActionInv /\ DueInv /\ CountInv
  BY DEF CimInv
<1>2. /\ NextIs("ORDER") /\ u <= Horizon
      /\ port' = [port EXCEPT ![o.p].empty = @ - qty, ![o.p].on_shipper = @ + qty]
      /\ agenda' = Handled(r, u)
      /\ joint' = joint /\ stops' = stops /\ now' = now /\ pc' = pc /\ vessel' = vessel
      /\ full_on_ports' = full_on_ports /\ full_on_vessels' = full_on_vessels
  BY DEF OnOrder
<1>3. /\ agenda[now] # << >> /\ pc = "execute" /\ o \in Event /\ o.type = "ORDER" /\ o \in ToSet(agenda[now])
      /\ now \in Ticks
  BY <1>1, <1>2, FrontEvent
<1>4. o.p \in Ports /\ o.q \in Ports /\ o.n \in Nat BY <1>3, EventFields
<1>5. /\ port \in [Ports -> PortState] /\ now \in Nat /\ u \in Nat /\ now <= u /\ u \in Ticks
 <2>1. buffer \in Nat /\ Horizon \in Nat BY CimAssumption
 <2>2. now \in Nat BY <1>1, Types
 <2> QED BY <1>1, <1>2, <2>1, <2>2 DEF TypeInv, PortState, Ticks
<1>6. qty \in Nat /\ qty <= port[o.p].empty
 <2>1. port[o.p].empty \in Nat /\ port[o.p].empty \in Int /\ o.n \in Int
   BY <1>4, <1>5 DEF PortState
 <2>2. qty = IF port[o.p].empty <= o.n THEN port[o.p].empty ELSE o.n BY <2>1, LesserGreater
 <2> QED BY <1>4, <2>1, <2>2
<1>7. r \in Event /\ r.type = "RETURN_FULL" /\ r.p = o.p /\ r.q = o.q /\ r.n = qty
  BY <1>4, <1>6 DEF Event, Customer
<1> HIDE DEF o, qty, u, r
<1>8. /\ Handler(new)
      /\ \A t \in Ticks : t < now => new[t] = << >>
      /\ \A t \in Ticks : \A e \in ToSet(new[t]) : e = r /\ t = u
      /\ \A w \in [Event -> Int] : PlannedSum(w, new) = w[r]
      /\ NoLate(agenda[now]) /\ r.type # "VESSEL_ARRIVAL" => NoLate(agenda'[now])
  BY <1>1, <1>2, <1>3, <1>5, <1>7, PlansOne
<1> HIDE DEF new
<1>9. \A x \in Ports :
        /\ port'[x].empty = port[x].empty - (IF x = o.p THEN qty ELSE 0)
        /\ port'[x].on_shipper = port[x].on_shipper + (IF x = o.p THEN qty ELSE 0)
        /\ port'[x].full = port[x].full /\ port'[x].on_consignee = port[x].on_consignee
        /\ port'[x] \in PortState
  BY <1>2, <1>4, <1>5, <1>6 DEF PortState
<1>10. TypeInv'
 <2>1. agenda' \in [Ticks -> Seq(Event)] BY <1>8, Handling DEF Handler, Agenda
 <2>2. port' \in [Ports -> PortState] BY <1>2, <1>5, <1>9
 <2> QED BY <1>1, <1>2, <2>1, <2>2 DEF TypeInv, PortState
<1>11. TimeInv'
 <2>1. \A t \in Ticks : \A e \in ToSet(new[t]) : e.type \notin OfToday
   BY <1>7, <1>8 DEF OfToday
 <2> QED BY <1>1, <1>8, <2>1, TimeKept
<1>12. FitInv' BY <1>1, <1>2, VesselsSame DEF FitInv
<1>13. SailInv'
 <2> SUFFICES ASSUME NEW v \in Vessels PROVE VoyageOf(v)'
   BY DEF SailInv
 <2>1. \A t \in Ticks : \A e \in ToSet(new[t]) : e.type \notin Moves BY <1>7, <1>8 DEF Moves
 <2>2. Leaving(v)[o] = 0 /\ Coming(v)[o] = 0 BY <1>3, WeightOf
 <2>3. VoyageOf(v) BY <1>1 DEF SailInv
 <2> QED BY <1>1, <1>2, <1>8, <2>1, <2>2, <2>3, SailKept DEF o
<1>14. ActionInv'
 <2>1. \A t \in Ticks : \A e \in ToSet(new[t]) : ~IsAction(e) BY <1>7, <1>8 DEF IsAction
 <2> QED BY <1>1, <1>8, <2>1, ActionsKept
<1>15. DueInv'
 <2>2. \A t \in Ticks : \A e \in ToSet(new[t]) : Expected(e, t)
   BY <1>3, <1>7, <1>8 DEF Expected
 <2>3. NoLate(agenda'[now]) BY <1>1, <1>7, <1>8 DEF DueInv
 <2>5. \A v \in Vessels : vessel'[v].next_loc = vessel[v].next_loc /\ vessel'[v].parking = vessel[v].parking
   BY <1>2
 <2> QED BY <1>1, <1>8, <2>2, <2>3, <2>5, DueKept
<1>16. CountInv'
 <2>1. ASSUME NEW type \in CargoTypes, NEW place
       PROVE  PlannedSum(Carrying(type, place), agenda')
                = PlannedSum(Carrying(type, place), agenda)
                    + (IF type = "RETURN_FULL" /\ place = o.p THEN qty ELSE 0)
  <3> DEFINE w == Carrying(type, place)
  <3>1. w \in [Event -> Int] BY WeightTypes, WeightsAreWhole
  <3>2. w[o] = 0 BY <1>3, WeightOf DEF CargoTypes
  <3>3. w[r] = IF type = "RETURN_FULL" /\ place = o.p THEN qty ELSE 0
    BY <1>7, WeightOf DEF Place
  <3> HIDE DEF w
  <3>4. /\ PlannedSum(w, agenda') = (PlannedSum(w, agenda) - w[o]) + PlannedSum(w, new)
        /\ PlannedSum(w, agenda) \in Int
    BY <1>8, <3>1, PlannedChange DEF o
  <3>5. PlannedSum(w, new) = w[r] BY <1>8, <3>1
  <3>6. PlannedSum(w, agenda') = PlannedSum(w, agenda) + w[r]
    BY <1>6, <3>2, <3>3, <3>4, <3>5
  <3> QED BY <3>3, <3>6 DEF w
 <2>2. ASSUME NEW p \in Ports PROVE PortBooks(p)'
  <3>1. PortBooks(p) BY <1>1 DEF CountInv, BooksInv
  <3>2. port[p].on_consignee \in Nat BY <1>5 DEF PortState
  <3>3. PlannedSum(Carrying("RETURN_FULL", p), agenda')
          = PlannedSum(Carrying("RETURN_FULL", p), agenda) + (IF p = o.p THEN qty ELSE 0)
    BY <2>1 DEF CargoTypes
  <3>4. PlannedSum(Carrying("RETURN_EMPTY", p), agenda') = PlannedSum(Carrying("RETURN_EMPTY", p), agenda) + 0
    BY <2>1 DEF CargoTypes
  <3>5. port'[p].full = SumFunctionOnSet([q \in Ports |-> full_on_ports'[<<p, q>>]], Ports)
    BY <1>2, <1>9, <3>1 DEF PortBooks
  <3>6. port'[p].on_shipper = PlannedSum(Carrying("RETURN_FULL", p), agenda')
    BY <1>9, <3>1, <3>3 DEF PortBooks
  <3>7. port'[p].on_consignee = PlannedSum(Carrying("RETURN_EMPTY", p), agenda')
    BY <1>9, <3>1, <3>2, <3>4 DEF PortBooks
  <3> QED BY <3>5, <3>6, <3>7 DEF PortBooks
 <2>3. ASSUME NEW v \in Vessels PROVE VesselBooks(v)'
  <3>1. VesselBooks(v) BY <1>1 DEF CountInv, BooksInv
  <3>2. \A q \in Ports : full_on_vessels[<<v, q>>] \in Nat BY <1>1 DEF TypeInv
  <3>3. \A q \in Ports : PlannedSum(Carrying("DISCHARGE_FULL", <<v, q>>), agenda')
          = PlannedSum(Carrying("DISCHARGE_FULL", <<v, q>>), agenda) + 0
    BY <2>1 DEF CargoTypes
  <3> QED BY <1>2, <3>1, <3>2, <3>3 DEF VesselBooks
 <2>4. \A q \in Ports : PortTotal(q)' = PortTotal(q)
  <3> SUFFICES ASSUME NEW x \in Ports PROVE PortTotal(x)' = PortTotal(x)
    OBVIOUS
  <3>1. port[x] \in PortState BY <1>5
  <3> QED BY <1>6, <1>9, <3>1 DEF PortTotal, PortState
 <2>5. ContainersConserved' BY <1>1, <1>2, <2>4, TotalsSame, VesselsSame DEF CountInv
 <2> QED BY <2>2, <2>3, <2>5 DEF CountInv, BooksInv
<1> QED BY <1>10, <1>11, <1>12, <1>13, <1>14, <1>15, <1>16 DEF CimInv

\* What a handler keeps that plans cargo at most and moves no vessel.
LEMMA HandlerKeeps ==
  ASSUME TypeInv, TimeInv, SailInv, ActionInv, NEW new, Handler(new),
         \A t \in Ticks : t < now => new[t] = << >>,
         \A t \in Ticks : \A e \in ToSet(new[t]) : e.type \in CargoTypes,
         Head(agenda[now]).type \notin Moves,
         \A v \in Vessels : /\ vessel'[v].next_loc = vessel[v].next_loc
                            /\ vessel'[v].parking = vessel[v].parking /\ vessel'[v].at = vessel[v].at
  PROVE  TimeInv' /\ SailInv' /\ ActionInv' /\ agenda' \in [Ticks -> Seq(Event)]
<1>1. Handles(agenda, now, new, agenda') BY DEF Handler
<1>2. agenda' \in [Ticks -> Seq(Event)] /\ Head(agenda[now]) \in Event
  BY <1>1, Handling DEF Agenda
<1>3. TimeInv'
 <2>1. \A t \in Ticks : \A e \in ToSet(new[t]) : e.type \notin OfToday
   BY DEF OfToday, CargoTypes
 <2> QED BY <2>1, TimeKept
<1>4. SailInv'
 <2> SUFFICES ASSUME NEW v \in Vessels PROVE VoyageOf(v)'
   BY DEF SailInv
 <2>1. \A t \in Ticks : \A e \in ToSet(new[t]) : e.type \notin Moves
   BY DEF Moves, CargoTypes
 <2>2. Leaving(v)[Head(agenda[now])] = 0 /\ Coming(v)[Head(agenda[now])] = 0
   BY <1>2, WeightOf DEF Moves
 <2>3. VoyageOf(v) BY DEF SailInv
 <2> QED BY <2>1, <2>2, <2>3, SailKept
<1>5. ActionInv'
 <2>1. \A t \in Ticks : \A e \in ToSet(new[t]) : ~IsAction(e) BY DEF IsAction, CargoTypes
 <2> QED BY <2>1, ActionsKept
<1> QED BY <1>2, <1>3, <1>4, <1>5

\* How the planned cargo changes.
LEMMA CargoChange ==
  ASSUME NEW new, Handler(new), NEW type \in CargoTypes, NEW place
  PROVE  LET w == Carrying(type, place)
             e == Head(agenda[now])
         IN /\ PlannedSum(w, agenda')
                 = (PlannedSum(w, agenda) - (IF e.type = type /\ Place(e) = place THEN e.n ELSE 0)) + PlannedSum(w, new)
            /\ PlannedSum(w, agenda) \in Nat /\ PlannedSum(w, new) \in Int /\ w \in [Event -> Int]
            /\ e.type = type /\ Place(e) = place => e.n \in Int /\ e.n <= PlannedSum(w, agenda)
<1> DEFINE w == Carrying(type, place)
           e == Head(agenda[now])
<1>1. w \in [Event -> Nat] /\ w \in [Event -> Int] BY WeightTypes, WeightsAreWhole
<1>2. e \in Event /\ agenda \in Agenda BY Handling DEF Handler, Handles
<1>3. w[e] = IF e.type = type /\ Place(e) = place THEN e.n ELSE 0 BY <1>2, WeightOf
<1> HIDE DEF w, e
<1>4. /\ PlannedSum(w, agenda') = (PlannedSum(w, agenda) - w[e]) + PlannedSum(w, new)
      /\ PlannedSum(w, agenda) \in Int /\ PlannedSum(w, new) \in Int /\ w[e] \in Int
      /\ w[e] <= PlannedSum(w, agenda)
  BY <1>1, PlannedChange DEF e
<1>5. PlannedSum(w, agenda) \in Nat BY <1>1, <1>2, PlannedType
<1> QED BY <1>1, <1>3, <1>4, <1>5 DEF w, e

-----------------------------------------------------------------------------
(* Containers come back full.                                              *)

\* The return of full containers keeps the invariant: what leaves the shipper
\* waits at the port for its destination.
LEMMA FullReturnKeeps ==
  ASSUME CimInv, OnFullReturn
  PROVE  CimInv'
<1> DEFINE e == Head(agenda[now])
           new == Nothing
<1>1. TypeInv /\ TimeInv /\ FitInv /\ SailInv /\ ActionInv /\ DueInv /\ CountInv
  BY DEF CimInv
<1>2. /\ NextIs("RETURN_FULL")
      /\ port' = [port EXCEPT ![e.p].on_shipper = @ - e.n, ![e.p].full = @ + e.n]
      /\ full_on_ports' = [full_on_ports EXCEPT ![<<e.p, e.q>>] = @ + e.n]
      /\ agenda' = HandledOnly
      /\ joint' = joint /\ stops' = stops /\ now' = now /\ pc' = pc /\ vessel' = vessel
      /\ full_on_vessels' = full_on_vessels
  BY DEF OnFullReturn
<1>3. /\ agenda[now] # << >> /\ pc = "execute" /\ e \in Event /\ e.type = "RETURN_FULL" /\ e \in ToSet(agenda[now])
      /\ now \in Ticks
  BY <1>1, <1>2, FrontEvent
<1>4. e.p \in Ports /\ e.q \in Ports /\ e.n \in Nat BY <1>3, EventFields
<1>5. port \in [Ports -> PortState] /\ full_on_ports \in [Ports \X Ports -> Nat]
  BY <1>1 DEF TypeInv, PortState
<1>6. /\ Handler(new)
      /\ \A t \in Ticks : new[t] = << >> /\ ToSet(new[t]) = {}
      /\ \A w \in [Event -> Int] : PlannedSum(w, new) = 0
      /\ NoLate(agenda[now]) => NoLate(agenda'[now])
  BY <1>1, <1>2, <1>3, PlansNone
<1> HIDE DEF new, e
<1>8. ASSUME NEW type \in CargoTypes, NEW place
      PROVE  PlannedSum(Carrying(type, place), agenda')
               = PlannedSum(Carrying(type, place), agenda)
                   - (IF type = "RETURN_FULL" /\ place = e.p THEN e.n ELSE 0)
 <2> DEFINE w == Carrying(type, place)
 <2>1. /\ PlannedSum(w, agenda')
            = (PlannedSum(w, agenda) - (IF e.type = type /\ Place(e) = place THEN e.n ELSE 0)) + PlannedSum(w, new)
       /\ PlannedSum(w, agenda) \in Nat /\ w \in [Event -> Int]
   BY <1>6, CargoChange DEF e
 <2>2. Place(e) = e.p BY <1>3 DEF Place
 <2> HIDE DEF w
 <2>3. PlannedSum(w, new) = 0 BY <1>6, <2>1
 <2> QED BY <1>3, <1>4, <2>1, <2>2, <2>3 DEF w
<1>9. e.n <= port[e.p].on_shipper
 <2>1. e.n <= PlannedSum(Carrying("RETURN_FULL", e.p), agenda)
  <3>1. "RETURN_FULL" \in CargoTypes /\ Place(e) = e.p BY <1>3 DEF CargoTypes, Place
  <3> QED BY <1>3, <1>6, <3>1, CargoChange DEF e
 <2> QED BY <1>1, <1>4, <2>1 DEF CountInv, BooksInv, PortBooks
<1>10. \A x \in Ports :
        /\ port'[x].on_shipper = port[x].on_shipper - (IF x = e.p THEN e.n ELSE 0)
        /\ port'[x].full = port[x].full + (IF x = e.p THEN e.n ELSE 0)
        /\ port'[x].empty = port[x].empty /\ port'[x].on_consignee = port[x].on_consignee
        /\ port'[x] \in PortState
  BY <1>2, <1>4, <1>5, <1>9 DEF PortState
<1>11. /\ \A x, y \in Ports : full_on_ports'[<<x, y>>]
                                = full_on_ports[<<x, y>>] + (IF x = e.p /\ y = e.q THEN e.n ELSE 0)
       /\ full_on_ports' \in [Ports \X Ports -> Nat]
  BY <1>2, <1>4, <1>5
<1>12. TimeInv' /\ SailInv' /\ ActionInv' /\ agenda' \in [Ticks -> Seq(Event)]
 <2>1. e.type \notin Moves BY <1>3 DEF Moves
 <2> QED BY <1>1, <1>2, <1>6, <2>1, HandlerKeeps DEF e
<1>13. TypeInv'
 <2>1. port' \in [Ports -> PortState] BY <1>2, <1>5, <1>10
 <2> QED BY <1>1, <1>2, <1>11, <1>12, <2>1 DEF TypeInv, PortState
<1>14. FitInv' BY <1>1, <1>2, VesselsSame DEF FitInv
<1>15. DueInv'
 <2>1. \A t \in Ticks : \A r \in ToSet(new[t]) : Expected(r, t) BY <1>6
 <2>2. NoLate(agenda'[now]) BY <1>1, <1>6 DEF DueInv
 <2>4. \A v \in Vessels : vessel'[v].next_loc = vessel[v].next_loc /\ vessel'[v].parking = vessel[v].parking
   BY <1>2
 <2> QED BY <1>1, <1>6, <2>1, <2>2, <2>4, DueKept
<1>16. CountInv'
 <2>1. ASSUME NEW p \in Ports PROVE PortBooks(p)'
  <3>1. PortBooks(p) BY <1>1 DEF CountInv, BooksInv
  <3>2. port[p].on_consignee \in Nat /\ port[p].on_shipper \in Nat /\ port[p].full \in Nat
    BY <1>5 DEF PortState
  <3>3. PlannedSum(Carrying("RETURN_FULL", p), agenda')
          = PlannedSum(Carrying("RETURN_FULL", p), agenda) - (IF p = e.p THEN e.n ELSE 0)
    BY <1>8 DEF CargoTypes
  <3>4. PlannedSum(Carrying("RETURN_EMPTY", p), agenda') = PlannedSum(Carrying("RETURN_EMPTY", p), agenda) - 0
    BY <1>8 DEF CargoTypes
  <3>5. port'[p].full = SumFunctionOnSet([q \in Ports |-> full_on_ports'[<<p, q>>]], Ports)
   <4> DEFINE f == [q \in Ports |-> full_on_ports[<<p, q>>]]
              g == [q \in Ports |-> full_on_ports'[<<p, q>>]]
              d == IF p = e.p THEN e.n ELSE 0
   <4>1. \A q \in Ports : f[q] \in Int /\ g[q] = f[q] + IF q = e.q THEN d ELSE 0
     BY <1>5, <1>11
   <4>2. d \in Int /\ e.q \in Ports BY <1>4
   <4>3. port[p].full = SumFunctionOnSet(f, Ports) /\ port'[p].full = port[p].full + d
     BY <1>10, <3>1 DEF PortBooks
   <4> HIDE DEF f, g, d
   <4>4. SumFunctionOnSet(g, Ports) = SumFunctionOnSet(f, Ports) + d
    <5>1. RowChanged(f, g, e.q, d) BY <4>1 DEF RowChanged
    <5> QED BY <4>2, <5>1, RowChanges
   <4> QED BY <4>3, <4>4 DEF g
  <3>6. port'[p].on_shipper = PlannedSum(Carrying("RETURN_FULL", p), agenda')
    BY <1>10, <3>1, <3>3 DEF PortBooks
  <3>7. port'[p].on_consignee = PlannedSum(Carrying("RETURN_EMPTY", p), agenda')
    BY <1>10, <3>1, <3>2, <3>4 DEF PortBooks
  <3> QED BY <3>5, <3>6, <3>7 DEF PortBooks
 <2>2. ASSUME NEW v \in Vessels PROVE VesselBooks(v)'
  <3>1. VesselBooks(v) BY <1>1 DEF CountInv, BooksInv
  <3>2. \A q \in Ports : full_on_vessels[<<v, q>>] \in Nat BY <1>1 DEF TypeInv
  <3>3. \A q \in Ports : PlannedSum(Carrying("DISCHARGE_FULL", <<v, q>>), agenda')
          = PlannedSum(Carrying("DISCHARGE_FULL", <<v, q>>), agenda) - 0
    BY <1>8 DEF CargoTypes
  <3> QED BY <1>2, <3>1, <3>2, <3>3 DEF VesselBooks
 <2>3. \A q \in Ports : PortTotal(q)' = PortTotal(q)
  <3> SUFFICES ASSUME NEW x \in Ports PROVE PortTotal(x)' = PortTotal(x)
    OBVIOUS
  <3>1. port[x] \in PortState BY <1>5
  <3> QED BY <1>4, <1>10, <3>1 DEF PortTotal, PortState
 <2>4. ContainersConserved' BY <1>1, <1>2, <2>3, TotalsSame, VesselsSame DEF CountInv
 <2> QED BY <2>1, <2>2, <2>4 DEF CountInv, BooksInv
<1> QED BY <1>1, <1>12, <1>13, <1>14, <1>15, <1>16 DEF CimInv

\* What a port is after empties came back.
LEMMA ReturnedFields ==
  ASSUME NEW s \in PortState, NEW n \in Nat, n <= s.on_consignee
  PROVE  LET t == Returned(s, n)
         IN /\ t.on_consignee = s.on_consignee - n /\ t.empty = s.empty + n
            /\ t.full = s.full /\ t.on_shipper = s.on_shipper /\ t \in PortState
<1>1. s.on_consignee - n \in Nat /\ s.empty + n \in Nat BY DEF PortState
<1> QED BY <1>1, Zenon DEF PortState, Returned

\* What a vessel is after laden containers left it.
LEMMA VesselFields ==
  ASSUME NEW s \in VesselState
  PROVE  /\ s.full \in Nat /\ s.empty \in Nat /\ s.next_loc \in Nat /\ s.last_loc \in Nat
         /\ s.parking \in BOOLEAN /\ s.at \in Ports \cup {AtSea}
         /\ \A f \in Nat : /\ [s EXCEPT !.full = f] \in VesselState
                           /\ [s EXCEPT !.full = f].full = f /\ [s EXCEPT !.full = f].empty = s.empty
                           /\ [s EXCEPT !.full = f].next_loc = s.next_loc
                           /\ [s EXCEPT !.full = f].parking = s.parking /\ [s EXCEPT !.full = f].at = s.at
BY Zenon DEF VesselState

-----------------------------------------------------------------------------
(* Containers come back empty.                                             *)

\* The return of empties keeps the invariant: what leaves the consignee is
\* among the port's empties.
LEMMA EmptyReturnKeeps ==
  ASSUME CimInv, OnEmptyReturn
  PROVE  CimInv'
<1> DEFINE e == Head(agenda[now])
           new == Nothing
<1>1. TypeInv /\ TimeInv /\ FitInv /\ SailInv /\ ActionInv /\ DueInv /\ CountInv
  BY DEF CimInv
<1>2. /\ NextIs("RETURN_EMPTY")
      /\ port' = [port EXCEPT ![e.p] = Returned(@, e.n)]
      /\ full_on_ports' = full_on_ports
      /\ agenda' = HandledOnly
      /\ joint' = joint /\ stops' = stops /\ now' = now /\ pc' = pc /\ vessel' = vessel
      /\ full_on_vessels' = full_on_vessels
  BY DEF OnEmptyReturn
<1>3. /\ agenda[now] # << >> /\ pc = "execute" /\ e \in Event /\ e.type = "RETURN_EMPTY" /\ e \in ToSet(agenda[now])
      /\ now \in Ticks
  BY <1>1, <1>2, FrontEvent
<1>4. e.p \in Ports /\ e.n \in Nat BY <1>3, EventFields
<1>5. port \in [Ports -> PortState] BY <1>1 DEF TypeInv, PortState
<1>6. /\ Handler(new)
      /\ \A t \in Ticks : new[t] = << >> /\ ToSet(new[t]) = {}
      /\ \A w \in [Event -> Int] : PlannedSum(w, new) = 0
      /\ NoLate(agenda[now]) => NoLate(agenda'[now])
  BY <1>1, <1>2, <1>3, PlansNone
<1> HIDE DEF new, e
<1>8. ASSUME NEW type \in CargoTypes, NEW place
      PROVE  PlannedSum(Carrying(type, place), agenda')
               = PlannedSum(Carrying(type, place), agenda)
                   - (IF type = "RETURN_EMPTY" /\ place = e.p THEN e.n ELSE 0)
 <2> DEFINE w == Carrying(type, place)
 <2>1. /\ PlannedSum(w, agenda')
            = (PlannedSum(w, agenda) - (IF e.type = type /\ Place(e) = place THEN e.n ELSE 0)) + PlannedSum(w, new)
       /\ PlannedSum(w, agenda) \in Nat /\ w \in [Event -> Int]
   BY <1>6, CargoChange DEF e
 <2>2. Place(e) = e.p BY <1>3 DEF Place
 <2> HIDE DEF w
 <2>3. PlannedSum(w, new) = 0 BY <1>6, <2>1
 <2> QED BY <1>3, <1>4, <2>1, <2>2, <2>3 DEF w
<1>9. e.n <= port[e.p].on_consignee
 <2>1. e.n <= PlannedSum(Carrying("RETURN_EMPTY", e.p), agenda)
  <3>1. "RETURN_EMPTY" \in CargoTypes /\ Place(e) = e.p BY <1>3 DEF CargoTypes, Place
  <3> QED BY <1>3, <1>6, <3>1, CargoChange DEF e
 <2> QED BY <1>1, <1>4, <2>1 DEF CountInv, BooksInv, PortBooks
<1>10. \A x \in Ports :
        /\ port'[x].on_consignee = port[x].on_consignee - (IF x = e.p THEN e.n ELSE 0)
        /\ port'[x].empty = port[x].empty + (IF x = e.p THEN e.n ELSE 0)
        /\ port'[x].full = port[x].full /\ port'[x].on_shipper = port[x].on_shipper
        /\ port'[x] \in PortState
 <2>1. \A x \in Ports : port'[x] = IF x = e.p THEN Returned(port[x], e.n) ELSE port[x]
   BY <1>2, <1>5
 <2> SUFFICES ASSUME NEW x \in Ports
              PROVE  /\ port'[x].on_consignee = port[x].on_consignee - (IF x = e.p THEN e.n ELSE 0)
                     /\ port'[x].empty = port[x].empty + (IF x = e.p THEN e.n ELSE 0)
                     /\ port'[x].full = port[x].full /\ port'[x].on_shipper = port[x].on_shipper
                     /\ port'[x] \in PortState
   OBVIOUS
 <2>2. port[x] \in PortState BY <1>5
 <2>3. CASE x = e.p
  <3>1. /\ Returned(port[x], e.n).on_consignee = port[x].on_consignee - e.n
        /\ Returned(port[x], e.n).empty = port[x].empty + e.n
        /\ Returned(port[x], e.n).full = port[x].full /\ Returned(port[x], e.n).on_shipper = port[x].on_shipper
        /\ Returned(port[x], e.n) \in PortState
    BY <1>4, <1>9, <2>2, <2>3, ReturnedFields
  <3> QED BY <2>1, <2>3, <3>1
 <2>4. CASE x # e.p BY <2>1, <2>2, <2>4 DEF PortState
 <2> QED BY <2>3, <2>4
<1>12. TimeInv' /\ SailInv' /\ ActionInv' /\ agenda' \in [Ticks -> Seq(Event)]
 <2>1. e.type \notin Moves BY <1>3 DEF Moves
 <2> QED BY <1>1, <1>2, <1>6, <2>1, HandlerKeeps DEF e
<1>13. TypeInv'
 <2>1. port' \in [Ports -> PortState] BY <1>2, <1>5, <1>10
 <2> QED BY <1>1, <1>2, <1>12, <2>1 DEF TypeInv, PortState
<1>14. FitInv' BY <1>1, <1>2, VesselsSame DEF FitInv
<1>15. DueInv'
 <2>1. \A t \in Ticks : \A r \in ToSet(new[t]) : Expected(r, t) BY <1>6
 <2>2. NoLate(agenda'[now]) BY <1>1, <1>6 DEF DueInv
 <2>4. \A v \in Vessels : vessel'[v].next_loc = vessel[v].next_loc /\ vessel'[v].parking = vessel[v].parking
   BY <1>2
 <2> QED BY <1>1, <1>6, <2>1, <2>2, <2>4, DueKept
<1>16. CountInv'
 <2>1. ASSUME NEW p \in Ports PROVE PortBooks(p)'
  <3>1. PortBooks(p) BY <1>1 DEF CountInv, BooksInv
  <3>2. port[p].on_consignee \in Nat /\ port[p].on_shipper \in Nat /\ port[p].full \in Nat
    BY <1>5 DEF PortState
  <3>3. PlannedSum(Carrying("RETURN_EMPTY", p), agenda')
          = PlannedSum(Carrying("RETURN_EMPTY", p), agenda) - (IF p = e.p THEN e.n ELSE 0)
    BY <1>8 DEF CargoTypes
  <3>4. PlannedSum(Carrying("RETURN_FULL", p), agenda') = PlannedSum(Carrying("RETURN_FULL", p), agenda) - 0
    BY <1>8 DEF CargoTypes
  <3>5. port'[p].full = SumFunctionOnSet([q \in Ports |-> full_on_ports'[<<p, q>>]], Ports)
    BY <1>2, <1>10, <3>1 DEF PortBooks
  <3>6. port'[p].on_shipper = PlannedSum(Carrying("RETURN_FULL", p), agenda')
    BY <1>10, <3>1, <3>2, <3>4 DEF PortBooks
  <3>7. port'[p].on_consignee = PlannedSum(Carrying("RETURN_EMPTY", p), agenda')
    BY <1>10, <3>1, <3>3 DEF PortBooks
  <3> QED BY <3>5, <3>6, <3>7 DEF PortBooks
 <2>2. ASSUME NEW v \in Vessels PROVE VesselBooks(v)'
  <3>1. VesselBooks(v) BY <1>1 DEF CountInv, BooksInv
  <3>2. \A q \in Ports : full_on_vessels[<<v, q>>] \in Nat BY <1>1 DEF TypeInv
  <3>3. \A q \in Ports : PlannedSum(Carrying("DISCHARGE_FULL", <<v, q>>), agenda')
          = PlannedSum(Carrying("DISCHARGE_FULL", <<v, q>>), agenda) - 0
    BY <1>8 DEF CargoTypes
  <3> QED BY <1>2, <3>1, <3>2, <3>3 DEF VesselBooks
 <2>3. \A q \in Ports : PortTotal(q)' = PortTotal(q)
  <3> SUFFICES ASSUME NEW x \in Ports PROVE PortTotal(x)' = PortTotal(x)
    OBVIOUS
  <3>1. port[x] \in PortState BY <1>5
  <3> QED BY <1>4, <1>10, <3>1 DEF PortTotal, PortState
 <2>4. ContainersConserved' BY <1>1, <1>2, <2>3, TotalsSame, VesselsSame DEF CountInv
 <2> QED BY <2>1, <2>2, <2>4 DEF CountInv, BooksInv
<1> QED BY <1>1, <1>12, <1>13, <1>14, <1>15, <1>16 DEF CimInv

-----------------------------------------------------------------------------
(* Laden containers leave a vessel.                                        *)

\* A discharge keeps the invariant: what leaves the vessel is with the
\* consignee, with its return planned, and the vessel has it aboard.
LEMMA DischargeKeeps ==
  ASSUME CimInv, NEW buffer \in Buffers, OnDischarge(buffer)
  PROVE  CimInv'
<1> DEFINE e == Head(agenda[now])
           u == now + buffer
           r == [type |-> "RETURN_EMPTY", p |-> e.p, n |-> e.n]
           new == Single(r, u)
<1>1. TypeInv /\ TimeInv /\ FitInv /\ SailInv /\ ActionInv /\ DueInv /\ CountInv
  BY DEF CimInv
<1>2. /\ NextIs("DISCHARGE_FULL") /\ u <= Horizon
      /\ vessel' = [vessel EXCEPT ![e.v].full = @ - e.n]
      /\ port' = [port EXCEPT ![e.p].on_consignee = @ + e.n]
      /\ full_on_vessels' = [full_on_vessels EXCEPT ![<<e.v, e.p>>] = @ - e.n]
      /\ agenda' = Handled(r, u)
      /\ full_on_ports' = full_on_ports
      /\ joint' = joint /\ stops' = stops /\ now' = now /\ pc' = pc
  BY DEF OnDischarge
<1>3. /\ agenda[now] # << >> /\ pc = "execute" /\ e \in Event /\ e.type = "DISCHARGE_FULL" /\ e \in ToSet(agenda[now])
      /\ now \in Ticks
  BY <1>1, <1>2, FrontEvent
<1>4. e.p \in Ports /\ e.v \in Vessels /\ e.n \in Nat BY <1>3, EventFields
<1>5. /\ port \in [Ports -> PortState] /\ now \in Nat /\ u \in Nat /\ now <= u /\ u \in Ticks
      /\ vessel \in [Vessels -> VesselState] /\ full_on_vessels \in [Vessels \X Ports -> Nat]
 <2>1. buffer \in Nat /\ Horizon \in Nat BY CimAssumption
 <2>2. now \in Nat BY <1>1, Types
 <2> QED BY <1>1, <1>2, <2>1, <2>2 DEF TypeInv, PortState, VesselState, Ticks
<1>6. r \in Event /\ r.type = "RETURN_EMPTY" /\ r.p = e.p /\ r.n = e.n /\ Place(r) = e.p
  BY <1>4 DEF Event, Empties, Place
<1> HIDE DEF e, u, r
<1>7. /\ Handler(new)
      /\ \A t \in Ticks : t < now => new[t] = << >>
      /\ \A t \in Ticks : \A x \in ToSet(new[t]) : x = r /\ t = u
      /\ \A w \in [Event -> Int] : PlannedSum(w, new) = w[r]
      /\ NoLate(agenda[now]) /\ r.type # "VESSEL_ARRIVAL" => NoLate(agenda'[now])
  BY <1>1, <1>2, <1>3, <1>5, <1>6, PlansOne
<1> HIDE DEF new
<1>8. ASSUME NEW type \in CargoTypes, NEW place
      PROVE  PlannedSum(Carrying(type, place), agenda')
               = (PlannedSum(Carrying(type, place), agenda)
                   - (IF type = "DISCHARGE_FULL" /\ place = <<e.v, e.p>> THEN e.n ELSE 0))
                   + (IF type = "RETURN_EMPTY" /\ place = e.p THEN e.n ELSE 0)
 <2> DEFINE w == Carrying(type, place)
 <2>1. /\ PlannedSum(w, agenda')
            = (PlannedSum(w, agenda) - (IF e.type = type /\ Place(e) = place THEN e.n ELSE 0)) + PlannedSum(w, new)
       /\ PlannedSum(w, agenda) \in Nat /\ w \in [Event -> Int]
   BY <1>7, CargoChange DEF e
 <2>2. Place(e) = <<e.v, e.p>> BY <1>3 DEF Place
 <2>4. w[r] = IF type = "RETURN_EMPTY" /\ place = e.p THEN e.n ELSE 0 BY <1>6, WeightOf
 <2> HIDE DEF w
 <2>3. PlannedSum(w, new) = w[r] BY <1>7, <2>1
 <2> QED BY <1>3, <1>4, <2>1, <2>2, <2>3, <2>4 DEF w
<1>9. e.n <= full_on_vessels[<<e.v, e.p>>] /\ e.n <= vessel[e.v].full
 <2>1. e.n <= PlannedSum(Carrying("DISCHARGE_FULL", <<e.v, e.p>>), agenda)
  <3>1. "DISCHARGE_FULL" \in CargoTypes /\ Place(e) = <<e.v, e.p>>
    BY <1>3 DEF CargoTypes, Place
  <3> QED BY <1>3, <1>7, <3>1, CargoChange DEF e
 <2>2. VesselBooks(e.v) BY <1>1, <1>4 DEF CountInv, BooksInv
 <2>3. e.n <= full_on_vessels[<<e.v, e.p>>] BY <1>4, <2>1, <2>2 DEF VesselBooks
 <2>4. \A q \in Ports : full_on_vessels[<<e.v, q>>] \in Nat BY <1>4, <1>5
 <2>5. full_on_vessels[<<e.v, e.p>>] <= vessel[e.v].full
   BY <1>4, <2>2, <2>4, RowSums DEF VesselBooks
 <2>6. vessel[e.v].full \in Nat BY <1>4, <1>5 DEF VesselState
 <2> QED BY <1>4, <2>3, <2>4, <2>5, <2>6
<1>10. \A x \in Ports :
        /\ port'[x].on_consignee = port[x].on_consignee + (IF x = e.p THEN e.n ELSE 0)
        /\ port'[x].empty = port[x].empty
        /\ port'[x].full = port[x].full /\ port'[x].on_shipper = port[x].on_shipper
        /\ port'[x] \in PortState
  BY <1>2, <1>4, <1>5 DEF PortState
<1>11. \A x \in Vessels :
        /\ vessel'[x].full = vessel[x].full - (IF x = e.v THEN e.n ELSE 0)
        /\ vessel'[x].empty = vessel[x].empty /\ vessel'[x].next_loc = vessel[x].next_loc
        /\ vessel'[x].parking = vessel[x].parking /\ vessel'[x].at = vessel[x].at
        /\ vessel'[x] \in VesselState
 <2>1. \A x \in Vessels : vessel'[x] = IF x = e.v THEN [vessel[x] EXCEPT !.full = @ - e.n] ELSE vessel[x]
   BY <1>2, <1>5
 <2> SUFFICES ASSUME NEW x \in Vessels
              PROVE  /\ vessel'[x].full = vessel[x].full - (IF x = e.v THEN e.n ELSE 0)
                     /\ vessel'[x].empty = vessel[x].empty /\ vessel'[x].next_loc = vessel[x].next_loc
                     /\ vessel'[x].parking = vessel[x].parking /\ vessel'[x].at = vessel[x].at
                     /\ vessel'[x] \in VesselState
   OBVIOUS
 <2>2. vessel[x] \in VesselState BY <1>5
 <2>3. CASE x = e.v
  <3> DEFINE s == vessel[x]
             f == s.full - e.n
             t == [s EXCEPT !.full = f]
  <3>1. s \in VesselState /\ s.full \in Nat /\ e.n <= s.full
    BY <1>9, <2>2, <2>3, VesselFields
  <3>2. f \in Nat BY <1>4, <3>1
  <3>3. vessel'[x] = t BY <2>1, <2>3
  <3> HIDE DEF s, f
  <3>4. /\ t \in VesselState /\ t.full = f /\ t.empty = s.empty /\ t.next_loc = s.next_loc
        /\ t.parking = s.parking /\ t.at = s.at
    BY <3>1, <3>2, VesselFields
  <3> HIDE DEF t
  <3> QED BY <2>3, <3>3, <3>4 DEF s, f
 <2>4. CASE x # e.v
  <3>1. vessel'[x] = vessel[x] BY <2>1, <2>4
  <3>2. vessel[x].full \in Nat BY <2>2, VesselFields
  <3> QED BY <2>2, <2>4, <3>1, <3>2
 <2> QED BY <2>3, <2>4
<1>a. /\ \A x \in Vessels, y \in Ports : full_on_vessels'[<<x, y>>]
                                = full_on_vessels[<<x, y>>] - (IF x = e.v /\ y = e.p THEN e.n ELSE 0)
      /\ full_on_vessels' \in [Vessels \X Ports -> Nat]
  BY <1>2, <1>4, <1>5, <1>9
<1>12. TimeInv' /\ SailInv' /\ ActionInv' /\ agenda' \in [Ticks -> Seq(Event)]
 <2>1. e.type \notin Moves BY <1>3 DEF Moves
 <2>2. \A t \in Ticks : \A x \in ToSet(new[t]) : x.type \in CargoTypes
   BY <1>6, <1>7 DEF CargoTypes
 <2> QED BY <1>1, <1>7, <1>11, <2>1, <2>2, HandlerKeeps DEF e
<1>13. TypeInv'
 <2>1. port' \in [Ports -> PortState] BY <1>2, <1>5, <1>10
 <2>2. vessel' \in [Vessels -> VesselState] BY <1>2, <1>5, <1>11
 <2> QED BY <1>1, <1>2, <1>a, <1>12, <2>1, <2>2 DEF TypeInv, PortState, VesselState
<1>14. FitInv'
 <2>1. ASSUME NEW v \in Vessels, NEW b \in Nat, (vessel[v].full + b) * Volume <= Capacity[v]
       PROVE  (vessel'[v].full + b) * Volume <= Capacity[v]
  <3>1. vessel[v].full \in Nat /\ vessel'[v].full \in Nat /\ Volume \in Nat /\ Capacity[v] \in Nat
    BY <1>5, <1>11, CimAssumption DEF VesselState
  <3>2. vessel'[v].full <= vessel[v].full BY <1>4, <1>11, <3>1
  <3> DEFINE x == vessel'[v].full + b
             y == vessel[v].full + b
  <3>3. x \in Nat /\ y \in Nat /\ x <= y /\ y * Volume <= Capacity[v] BY <2>1, <3>1, <3>2
  <3> HIDE DEF x, y
  <3>4. x * Volume <= y * Volume /\ x * Volume \in Nat BY <3>1, <3>3, Products
  <3>5. y * Volume \in Nat BY <3>1, <3>3
  <3>6. x * Volume <= Capacity[v] BY <3>1, <3>3, <3>4, <3>5
  <3> QED BY <3>6 DEF x
 <2>2. \A v \in Vessels : vessel[v].full \in Nat /\ vessel'[v].full \in Nat /\ vessel[v].empty \in Nat
   BY <1>5, <1>11 DEF VesselState
 <2>3. LadenFit'
  <3> SUFFICES ASSUME NEW v \in Vessels PROVE vessel'[v].full * Volume <= Capacity[v]
    BY DEF LadenFit
  <3>1. vessel[v].full * Volume <= Capacity[v] BY <1>1 DEF FitInv, LadenFit
  <3>2. vessel[v].full + 0 = vessel[v].full /\ vessel'[v].full + 0 = vessel'[v].full BY <2>2
  <3> QED BY <2>1, <3>1, <3>2
 <2>4. CapacityRespected => CapacityRespected'
  <3> SUFFICES ASSUME CapacityRespected, NEW v \in Vessels
               PROVE  (vessel'[v].full + vessel'[v].empty) * Volume <= Capacity[v] /\ vessel'[v].empty >= 0
    BY DEF CapacityRespected
  <3>1. (vessel[v].full + vessel[v].empty) * Volume <= Capacity[v] /\ vessel[v].empty >= 0
    BY DEF CapacityRespected
  <3>2. (vessel'[v].full + vessel[v].empty) * Volume <= Capacity[v] BY <2>1, <2>2, <3>1
  <3> QED BY <1>11, <3>1, <3>2
 <2> QED BY <1>1, <2>3, <2>4 DEF FitInv
<1>15. DueInv'
 <2>1. \A t \in Ticks : \A x \in ToSet(new[t]) : Expected(x, t) BY <1>6, <1>7 DEF Expected
 <2>2. NoLate(agenda'[now]) BY <1>1, <1>6, <1>7 DEF DueInv
 <2> QED BY <1>1, <1>7, <1>11, <2>1, <2>2, DueKept
<1>16. CountInv'
 <2>1. ASSUME NEW p \in Ports PROVE PortBooks(p)'
  <3>1. PortBooks(p) BY <1>1 DEF CountInv, BooksInv
  <3>2. port[p].on_consignee \in Nat /\ port[p].on_shipper \in Nat /\ port[p].full \in Nat
    BY <1>5 DEF PortState
  <3>3. PlannedSum(Carrying("RETURN_EMPTY", p), agenda')
          = (PlannedSum(Carrying("RETURN_EMPTY", p), agenda) - 0) + (IF p = e.p THEN e.n ELSE 0)
    BY <1>8 DEF CargoTypes
  <3>4. PlannedSum(Carrying("RETURN_FULL", p), agenda') = (PlannedSum(Carrying("RETURN_FULL", p), agenda) - 0) + 0
    BY <1>8 DEF CargoTypes
  <3>5. port'[p].full = SumFunctionOnSet([q \in Ports |-> full_on_ports'[<<p, q>>]], Ports)
    BY <1>2, <1>10, <3>1 DEF PortBooks
  <3>6. port'[p].on_shipper = PlannedSum(Carrying("RETURN_FULL", p), agenda')
    BY <1>10, <3>1, <3>2, <3>4 DEF PortBooks
  <3>7. port'[p].on_consignee = PlannedSum(Carrying("RETURN_EMPTY", p), agenda')
    BY <1>4, <1>10, <3>1, <3>2, <3>3 DEF PortBooks
  <3> QED BY <3>5, <3>6, <3>7 DEF PortBooks
 <2>2. ASSUME NEW v \in Vessels PROVE VesselBooks(v)'
  <3>1. VesselBooks(v) BY <1>1 DEF CountInv, BooksInv
  <3>2. \A q \in Ports : full_on_vessels[<<v, q>>] \in Nat BY <1>5
  <3>3. \A q \in Ports : full_on_vessels'[<<v, q>>] = PlannedSum(Carrying("DISCHARGE_FULL", <<v, q>>), agenda')
   <4> SUFFICES ASSUME NEW q \in Ports
                PROVE  full_on_vessels'[<<v, q>>] = PlannedSum(Carrying("DISCHARGE_FULL", <<v, q>>), agenda')
     OBVIOUS
   <4>1. PlannedSum(Carrying("DISCHARGE_FULL", <<v, q>>), agenda')
         = (PlannedSum(Carrying("DISCHARGE_FULL", <<v, q>>), agenda)
              - (IF <<v, q>> = <<e.v, e.p>> THEN e.n ELSE 0)) + 0
     BY <1>8 DEF CargoTypes
   <4>2. <<v, q>> = <<e.v, e.p>> <=> v = e.v /\ q = e.p OBVIOUS
   <4>3. full_on_vessels[<<v, q>>] = PlannedSum(Carrying("DISCHARGE_FULL", <<v, q>>), agenda)
     BY <3>1 DEF VesselBooks
   <4> QED BY <1>4, <1>a, <3>2, <4>1, <4>2, <4>3
  <3>4. vessel'[v].full = SumFunctionOnSet([q \in Ports |-> full_on_vessels'[<<v, q>>]], Ports)
   <4> DEFINE f == [q \in Ports |-> full_on_vessels[<<v, q>>]]
              g == [q \in Ports |-> full_on_vessels'[<<v, q>>]]
              d == IF v = e.v THEN 0 - e.n ELSE 0
   <4>1. \A q \in Ports : f[q] \in Int BY <3>2
   <4>2. \A q \in Ports : g[q] = f[q] + IF q = e.p THEN d ELSE 0 BY <1>4, <1>a, <3>2
   <4>3. d \in Int /\ e.p \in Ports BY <1>4
   <4>4. vessel[v].full = SumFunctionOnSet(f, Ports) /\ vessel'[v].full = vessel[v].full + d
    <5>1. vessel[v].full \in Nat BY <1>5 DEF VesselState
    <5> QED BY <1>4, <1>11, <3>1, <5>1 DEF VesselBooks
   <4> HIDE DEF f, g, d
   <4>5. SumFunctionOnSet(g, Ports) = SumFunctionOnSet(f, Ports) + d
    <5>1. RowChanged(f, g, e.p, d) BY <4>1, <4>2 DEF RowChanged
    <5> QED BY <4>3, <5>1, RowChanges
   <4> QED BY <4>4, <4>5 DEF g
  <3> QED BY <3>3, <3>4 DEF VesselBooks
 <2>3. \A q \in Ports : PortTotal(q)' = PortTotal(q) + IF q = e.p THEN e.n ELSE 0
  <3> SUFFICES ASSUME NEW x \in Ports PROVE PortTotal(x)' = PortTotal(x) + IF x = e.p THEN e.n ELSE 0
    OBVIOUS
  <3>1. port[x] \in PortState BY <1>5
  <3> QED BY <1>4, <1>10, <3>1 DEF PortTotal, PortState
 <2>4. \A x \in Vessels : VesselTotal(x)' = VesselTotal(x) + IF x = e.v THEN 0 - e.n ELSE 0
  <3> SUFFICES ASSUME NEW x \in Vessels PROVE VesselTotal(x)' = VesselTotal(x) + IF x = e.v THEN 0 - e.n ELSE 0
    OBVIOUS
  <3>1. vessel[x] \in VesselState BY <1>5
  <3> QED BY <1>4, <1>11, <3>1 DEF VesselTotal, VesselState
 <2>5. e.n \in Int BY <1>4
 <2>6. ContainersConserved' BY <1>1, <1>4, <2>3, <2>4, <2>5, TotalsKept DEF CountInv
 <2> QED BY <2>1, <2>2, <2>6 DEF CountInv, BooksInv
<1> QED BY <1>1, <1>12, <1>13, <1>14, <1>15, <1>16 DEF CimInv

\* What is less than something that fits, fits.
LEMMA LessFits ==
  ASSUME NEW x \in Nat, NEW y \in Nat, x <= y, NEW v \in Vessels, y * Volume <= Capacity[v]
  PROVE  x * Volume <= Capacity[v]
<1>1. Volume \in Nat /\ Capacity[v] \in Nat BY CimAssumption
<1>2. x * Volume <= y * Volume /\ x * Volume \in Nat BY <1>1, Products
<1>3. y * Volume \in Nat BY <1>1
<1> QED BY <1>1, <1>2, <1>3

\* Empties change; the books of laden containers do not.
LEMMA EmptiesMove ==
  ASSUME TypeInv, CountInv, NEW new, Handler(new), \A w \in [Event -> Int] : PlannedSum(w, new) = 0,
         Head(agenda[now]).type \notin CargoTypes,
         full_on_ports' = full_on_ports, full_on_vessels' = full_on_vessels,
         \A x \in Ports : /\ port'[x].full = port[x].full /\ port'[x].on_shipper = port[x].on_shipper
                          /\ port'[x].on_consignee = port[x].on_consignee,
         \A x \in Vessels : vessel'[x].full = vessel[x].full
  PROVE  BooksInv'
<1> DEFINE e == Head(agenda[now])
<1>1. ASSUME NEW type \in CargoTypes, NEW place
      PROVE  PlannedSum(Carrying(type, place), agenda') = PlannedSum(Carrying(type, place), agenda)
 <2> DEFINE w == Carrying(type, place)
 <2>1. /\ PlannedSum(w, agenda')
            = (PlannedSum(w, agenda) - (IF e.type = type /\ Place(e) = place THEN e.n ELSE 0)) + PlannedSum(w, new)
       /\ PlannedSum(w, agenda) \in Nat /\ w \in [Event -> Int]
   BY CargoChange
 <2>2. e.type # type OBVIOUS
 <2> HIDE DEF w, e
 <2>3. PlannedSum(w, new) = 0 BY <2>1
 <2> QED BY <2>1, <2>2, <2>3 DEF w
<1>2. ASSUME NEW p \in Ports PROVE PortBooks(p)'
 <2>1. PortBooks(p) BY DEF CountInv, BooksInv
 <2>2. PlannedSum(Carrying("RETURN_FULL", p), agenda') = PlannedSum(Carrying("RETURN_FULL", p), agenda)
   BY <1>1 DEF CargoTypes
 <2>3. PlannedSum(Carrying("RETURN_EMPTY", p), agenda') = PlannedSum(Carrying("RETURN_EMPTY", p), agenda)
   BY <1>1 DEF CargoTypes
 <2> QED BY <2>1, <2>2, <2>3 DEF PortBooks
<1>3. ASSUME NEW v \in Vessels PROVE VesselBooks(v)'
 <2>1. VesselBooks(v) BY DEF CountInv, BooksInv
 <2>2. \A q \in Ports : PlannedSum(Carrying("DISCHARGE_FULL", <<v, q>>), agenda')
                          = PlannedSum(Carrying("DISCHARGE_FULL", <<v, q>>), agenda)
   BY <1>1 DEF CargoTypes
 <2> QED BY <2>1, <2>2 DEF VesselBooks
<1> QED BY <1>2, <1>3 DEF BooksInv

\* What a vessel is after its empties changed.
LEMMA VesselEmptied ==
  ASSUME NEW s \in VesselState, NEW f \in Nat
  PROVE  /\ [s EXCEPT !.empty = f] \in VesselState
         /\ [s EXCEPT !.empty = f].empty = f /\ [s EXCEPT !.empty = f].full = s.full
         /\ [s EXCEPT !.empty = f].next_loc = s.next_loc
         /\ [s EXCEPT !.empty = f].parking = s.parking /\ [s EXCEPT !.empty = f].at = s.at
BY Zenon DEF VesselState

-----------------------------------------------------------------------------
(* Agents move empties.                                                    *)

\* What an accepted action moves is there, and fits.
LEMMA AcceptedFits ==
  ASSUME TypeInv, NEW a \in Event, IsAction(a), Accepted(a)
  PROVE  /\ a.v \in Vessels /\ a.p \in Ports /\ a.n \in Nat
         /\ a.type = "DISCHARGE_EMPTY" => a.n <= vessel[a.v].empty
         /\ a.type = "LOAD_EMPTY" =>
              /\ a.n <= port[a.p].empty
              /\ (vessel[a.v].full + (vessel[a.v].empty + a.n)) * Volume <= Capacity[a.v]
<1>1. a.v \in Vessels /\ a.p \in Ports /\ a.n \in Nat BY EventFields DEF IsAction
<1>2. vessel[a.v].full \in Nat /\ vessel[a.v].empty \in Nat /\ port[a.p].empty \in Nat
  BY <1>1 DEF TypeInv
<1>3. Capacity[a.v] \in Nat /\ Volume \in Nat \ {0} BY <1>1, CimAssumption
<1> DEFINE q == Capacity[a.v] \div Volume
           space == RemainingSpace(a.v)
           b == port[a.p].empty
<1>4. q \in Nat /\ q * Volume <= Capacity[a.v] BY <1>3, Quotients
<1>5. space = (q - vessel[a.v].full) - vessel[a.v].empty BY DEF RemainingSpace
<1> HIDE DEF q
<1>6. space \in Int /\ b \in Int BY <1>2, <1>4, <1>5
<1>7. ASSUME a.type = "LOAD_EMPTY"
      PROVE  /\ a.n <= port[a.p].empty
             /\ (vessel[a.v].full + (vessel[a.v].empty + a.n)) * Volume <= Capacity[a.v]
 <2>1. a.n <= Min({b, space}) BY <1>7 DEF Accepted
 <2> HIDE DEF b, space
 <2>2. Min({b, space}) = IF b <= space THEN b ELSE space BY <1>6, LesserGreater
 <2>3. a.n <= b /\ a.n <= space BY <1>1, <1>6, <2>1, <2>2
 <2> DEFINE x == vessel[a.v].full + (vessel[a.v].empty + a.n)
 <2>4. x \in Nat /\ x <= q BY <1>1, <1>2, <1>4, <1>5, <2>3
 <2> HIDE DEF x
 <2>5. x * Volume <= Capacity[a.v] BY <1>1, <1>4, <2>4, LessFits
 <2> QED BY <2>3, <2>5 DEF x, b
<1>8. a.type = "DISCHARGE_EMPTY" => a.n <= vessel[a.v].empty BY DEF Accepted
<1> QED BY <1>1, <1>7, <1>8

\* An action keeps the invariant: the port and the vessel have what it moves,
\* and it fits.
LEMMA ActionKeeps ==
  ASSUME CimInv, OnAction
  PROVE  CimInv'
<1> DEFINE a == Head(agenda[now])
           move == IF a.type = "DISCHARGE_EMPTY" THEN a.n ELSE - a.n
           new == Nothing
<1>1. TypeInv /\ TimeInv /\ FitInv /\ SailInv /\ ActionInv /\ DueInv /\ CountInv
  BY DEF CimInv
<1>2. /\ NextIs("DISCHARGE_EMPTY") \/ NextIs("LOAD_EMPTY")
      /\ Accepted(a)
      /\ port' = [port EXCEPT ![a.p].empty = @ + move]
      /\ vessel' = [vessel EXCEPT ![a.v].empty = @ - move]
      /\ agenda' = HandledOnly
      /\ joint' = joint /\ stops' = stops /\ now' = now /\ pc' = pc
      /\ full_on_ports' = full_on_ports /\ full_on_vessels' = full_on_vessels
  BY DEF OnAction
<1>3. /\ agenda[now] # << >> /\ pc = "execute" /\ a \in Event /\ a \in ToSet(agenda[now])
      /\ now \in Ticks /\ a.type \in {"DISCHARGE_EMPTY", "LOAD_EMPTY"}
  BY <1>1, <1>2, FrontEvent
<1>4. IsAction(a) BY <1>3 DEF IsAction
<1>5. /\ a.v \in Vessels /\ a.p \in Ports /\ a.n \in Nat
      /\ a.type = "DISCHARGE_EMPTY" => a.n <= vessel[a.v].empty
      /\ a.type = "LOAD_EMPTY" =>
              /\ a.n <= port[a.p].empty
              /\ (vessel[a.v].full + (vessel[a.v].empty + a.n)) * Volume <= Capacity[a.v]
  BY <1>1, <1>2, <1>3, <1>4, AcceptedFits
<1>6. port \in [Ports -> PortState] /\ vessel \in [Vessels -> VesselState]
  BY <1>1 DEF TypeInv, PortState, VesselState
<1>7. /\ Handler(new)
      /\ \A t \in Ticks : new[t] = << >> /\ ToSet(new[t]) = {}
      /\ \A w \in [Event -> Int] : PlannedSum(w, new) = 0
      /\ NoLate(agenda[now]) => NoLate(agenda'[now])
  BY <1>1, <1>2, <1>3, PlansNone
<1>8. move \in Int /\ port[a.p].empty + move \in Nat /\ vessel[a.v].empty - move \in Nat
 <2>1. port[a.p].empty \in Nat /\ vessel[a.v].empty \in Nat
   BY <1>5, <1>6 DEF PortState, VesselState
 <2>2. CASE a.type = "DISCHARGE_EMPTY" BY <1>5, <2>1, <2>2
 <2>3. CASE a.type = "LOAD_EMPTY"
  <3>1. move = - a.n BY <2>3
  <3> QED BY <1>5, <2>1, <2>3, <3>1
 <2> QED BY <1>3, <2>2, <2>3
<1>9. a.type = "LOAD_EMPTY" => move = - a.n OBVIOUS
<1>a. a.type = "DISCHARGE_EMPTY" => move = a.n OBVIOUS
<1> HIDE DEF new, a, move
<1>10. \A x \in Ports :
        /\ port'[x].empty = port[x].empty + (IF x = a.p THEN move ELSE 0)
        /\ port'[x].full = port[x].full /\ port'[x].on_shipper = port[x].on_shipper
        /\ port'[x].on_consignee = port[x].on_consignee
        /\ port'[x] \in PortState
  BY <1>2, <1>5, <1>6, <1>8 DEF PortState
<1>11. \A x \in Vessels :
        /\ vessel'[x].empty = vessel[x].empty - (IF x = a.v THEN move ELSE 0)
        /\ vessel'[x].full = vessel[x].full /\ vessel'[x].next_loc = vessel[x].next_loc
        /\ vessel'[x].parking = vessel[x].parking /\ vessel'[x].at = vessel[x].at
        /\ vessel'[x] \in VesselState
 <2>1. \A x \in Vessels : vessel'[x] = IF x = a.v THEN [vessel[x] EXCEPT !.empty = @ - move] ELSE vessel[x]
   BY <1>2, <1>6
 <2> SUFFICES ASSUME NEW x \in Vessels
              PROVE  /\ vessel'[x].empty = vessel[x].empty - (IF x = a.v THEN move ELSE 0)
                     /\ vessel'[x].full = vessel[x].full /\ vessel'[x].next_loc = vessel[x].next_loc
                     /\ vessel'[x].parking = vessel[x].parking /\ vessel'[x].at = vessel[x].at
                     /\ vessel'[x] \in VesselState
   OBVIOUS
 <2>2. vessel[x] \in VesselState BY <1>6
 <2>3. CASE x = a.v
  <3> DEFINE s == vessel[x]
             f == s.empty - move
             t == [s EXCEPT !.empty = f]
  <3>1. s \in VesselState /\ f \in Nat BY <1>8, <2>2, <2>3
  <3>3. vessel'[x] = t BY <2>1, <2>3
  <3> HIDE DEF s, f
  <3>4. /\ t \in VesselState /\ t.empty = f /\ t.full = s.full /\ t.next_loc = s.next_loc
        /\ t.parking = s.parking /\ t.at = s.at
    BY <3>1, VesselEmptied
  <3> HIDE DEF t
  <3> QED BY <2>3, <3>3, <3>4 DEF s, f
 <2>4. CASE x # a.v
  <3>1. vessel'[x] = vessel[x] BY <2>1, <2>4
  <3>2. vessel[x].empty \in Nat BY <2>2, VesselFields
  <3> QED BY <2>2, <2>4, <3>1, <3>2
 <2> QED BY <2>3, <2>4
<1>12. TimeInv' /\ SailInv' /\ ActionInv' /\ agenda' \in [Ticks -> Seq(Event)]
 <2>1. a.type \notin Moves BY <1>3 DEF Moves
 <2> QED BY <1>1, <1>7, <1>11, <2>1, HandlerKeeps DEF a
<1>13. TypeInv'
 <2>1. port' \in [Ports -> PortState] BY <1>2, <1>6, <1>10
 <2>2. vessel' \in [Vessels -> VesselState] BY <1>2, <1>6, <1>11
 <2> QED BY <1>1, <1>2, <1>12, <2>1, <2>2 DEF TypeInv, PortState, VesselState
<1>14. FitInv'
 <2>1. LadenFit' BY <1>1, <1>11 DEF FitInv, LadenFit
 <2>2. ASSUME CapacityRespected, NEW v \in Vessels
       PROVE  (vessel'[v].full + vessel'[v].empty) * Volume <= Capacity[v] /\ vessel'[v].empty >= 0
  <3>1. (vessel[v].full + vessel[v].empty) * Volume <= Capacity[v]
    BY <2>2 DEF CapacityRespected
  <3>2. /\ vessel[v].full \in Nat /\ vessel[v].empty \in Nat
        /\ vessel'[v].full = vessel[v].full /\ vessel'[v].empty \in Nat
    BY <1>6, <1>11, VesselFields
  <3> DEFINE x == vessel'[v].full + vessel'[v].empty
  <3>3. CASE v = a.v /\ a.type = "LOAD_EMPTY"
   <4>1. vessel'[v].empty = vessel[v].empty + a.n BY <1>5, <1>9, <1>11, <3>2, <3>3
   <4> QED BY <1>5, <3>2, <3>3, <4>1
  <3>4. CASE v = a.v /\ a.type = "DISCHARGE_EMPTY"
   <4>1. vessel'[v].empty = vessel[v].empty - a.n BY <1>a, <1>11, <3>4
   <4> DEFINE y == vessel[v].full + vessel[v].empty
   <4>2. x \in Nat /\ y \in Nat /\ x <= y /\ y * Volume <= Capacity[v]
     BY <1>5, <3>1, <3>2, <4>1
   <4> HIDE DEF x, y
   <4>3. x * Volume <= Capacity[v] BY <4>2, LessFits
   <4> QED BY <3>2, <4>3 DEF x
  <3>5. CASE v # a.v
   <4>1. vessel'[v].empty = vessel[v].empty BY <1>11, <3>2, <3>5
   <4> QED BY <3>1, <3>2, <4>1
  <3> QED BY <1>3, <3>3, <3>4, <3>5
 <2> QED BY <1>1, <2>1, <2>2 DEF FitInv, CapacityRespected
<1>15. DueInv'
 <2>1. \A t \in Ticks : \A x \in ToSet(new[t]) : Expected(x, t) BY <1>7
 <2>2. NoLate(agenda'[now]) BY <1>1, <1>7 DEF DueInv
 <2> QED BY <1>1, <1>7, <1>11, <2>1, <2>2, DueKept
<1>16. CountInv'
 <2>1. BooksInv'
  <3>1. a.type \notin CargoTypes BY <1>3 DEF CargoTypes
  <3> QED BY <1>1, <1>2, <1>7, <1>10, <1>11, <3>1, EmptiesMove DEF a
 <2>3. \A q \in Ports : PortTotal(q)' = PortTotal(q) + IF q = a.p THEN move ELSE 0
  <3> SUFFICES ASSUME NEW x \in Ports PROVE PortTotal(x)' = PortTotal(x) + IF x = a.p THEN move ELSE 0
    OBVIOUS
  <3>1. port[x] \in PortState BY <1>6
  <3> QED BY <1>8, <1>10, <3>1 DEF PortTotal, PortState
 <2>4. \A x \in Vessels : VesselTotal(x)' = VesselTotal(x) + IF x = a.v THEN 0 - move ELSE 0
  <3> SUFFICES ASSUME NEW x \in Vessels PROVE VesselTotal(x)' = VesselTotal(x) + IF x = a.v THEN 0 - move ELSE 0
    OBVIOUS
  <3>1. vessel[x].full \in Nat /\ vessel[x].empty \in Nat BY <1>6, VesselFields
  <3> QED BY <1>8, <1>11, <3>1 DEF VesselTotal
 <2>5. ContainersConserved' BY <1>1, <1>5, <1>8, <2>3, <2>4, TotalsKept DEF CountInv
 <2> QED BY <2>1, <2>5 DEF CountInv
<1> QED BY <1>1, <1>12, <1>13, <1>14, <1>15, <1>16 DEF CimInv

\* An assertion fails only where decisions are answered together.
LEMMA ActionFailsKeeps ==
  ASSUME CimInv, OnActionFails
  PROVE  CimInv'
<1> DEFINE a == Head(agenda[now])
<1>1. TypeInv /\ TimeInv /\ FitInv /\ SailInv /\ ActionInv /\ DueInv /\ CountInv
  BY DEF CimInv
<1>2. /\ NextIs("DISCHARGE_EMPTY") \/ NextIs("LOAD_EMPTY")
      /\ ~Accepted(a) /\ pc' = "AssertionError" /\ agenda' = agenda
      /\ joint' = joint /\ stops' = stops /\ now' = now /\ port' = port /\ vessel' = vessel
      /\ full_on_ports' = full_on_ports /\ full_on_vessels' = full_on_vessels
  BY DEF OnActionFails
<1>3. /\ agenda[now] # << >> /\ pc = "execute" /\ a \in Event
      /\ now \in Ticks /\ a.type \in {"DISCHARGE_EMPTY", "LOAD_EMPTY"} /\ agenda \in Agenda
  BY <1>1, <1>2, FrontEvent
<1>4. joint
 <2>1. IsAction(a) BY <1>3 DEF IsAction
 <2> DEFINE s == agenda[now]
 <2>2. s \in Seq(Event) /\ s # << >> BY <1>3 DEF Agenda
 <2> HIDE DEF s
 <2>3. 1 \in DOMAIN s /\ s[1] = Head(s) BY <2>2
 <2>4. 1 \in DOMAIN agenda[now] /\ agenda[now][1] = a BY <2>3 DEF s
 <2> QED BY <1>1, <1>2, <1>3, <2>1, <2>4 DEF ActionInv
<1>5. TypeInv' BY <1>1, <1>2 DEF TypeInv
<1>6. TimeInv' BY <1>1, <1>2, <1>3 DEF TimeInv
<1>7. FitInv' BY <1>1, <1>2, VesselsSame DEF FitInv
<1>8. SailInv' BY <1>1, <1>2, <1>3 DEF SailInv, VoyageOf, LeavesAt
<1>9. ActionInv' BY <1>2, <1>4 DEF ActionInv
<1>10. DueInv' BY <1>1, <1>2 DEF DueInv, Expected, Due, AtHand, Loading
<1>11. CountInv'
  BY <1>1, <1>2 DEF CountInv, BooksInv, PortBooks, VesselBooks, ContainersConserved, PortTotal, VesselTotal
<1> QED BY <1>5, <1>6, <1>7, <1>8, <1>9, <1>10, <1>11 DEF CimInv

\* How the sums of a tick change where new has no weight.
LEMMA SumsChange ==
  ASSUME NEW new, Handler(new), NEW w \in [Event -> Int],
         \A t \in Ticks : \A e \in ToSet(new[t]) : w[e] = 0
  PROVE  \A t \in Ticks : /\ Sum(w, agenda'[t]) = Sum(w, agenda[t]) - (IF t = now THEN w[Head(agenda[now])] ELSE 0)
                          /\ Sum(w, agenda[t]) \in Int
<1>1. Handles(agenda, now, new, agenda') BY DEF Handler
<1>2. PICK b : b = agenda' OBVIOUS
<1>3. Handles(agenda, now, new, b) BY <1>1, <1>2
<1>4. new \in Agenda BY <1>1 DEF Handles
<1>5. \A t \in Ticks : Sum(w, new[t]) = 0 BY <1>4, PlannedOfNone
<1> SUFFICES ASSUME NEW t \in Ticks
             PROVE  /\ Sum(w, b[t]) = Sum(w, agenda[t]) - (IF t = now THEN w[Head(agenda[now])] ELSE 0)
                    /\ Sum(w, agenda[t]) \in Int
  BY <1>2
<1> DEFINE h == w[Head(agenda[now])]
           c == Sum(w, Without(agenda, now)[t])
<1>6. /\ Sum(w, agenda[t]) = (IF t = now THEN h ELSE 0) + c
      /\ Sum(w, b[t]) = c + Sum(w, new[t])
      /\ c \in Int /\ h \in Int
  BY <1>3, Handling
<1> HIDE DEF h, c
<1>7. /\ Sum(w, b[t]) = Sum(w, agenda[t]) - (IF t = now THEN h ELSE 0)
      /\ Sum(w, agenda[t]) \in Int
  BY <1>5, <1>6
<1> QED BY <1>7 DEF h

\* Where a vessel arrives or departs, its voyage changes and nothing else.
VesselSails(s, l, n, b, a) == [s EXCEPT !.last_loc = l, !.next_loc = n, !.parking = b, !.at = a]

\* What a vessel is after it sailed.
LEMMA VesselSailed ==
  ASSUME NEW s \in VesselState, NEW l \in Nat, NEW n \in Nat, NEW b \in BOOLEAN, NEW a \in Ports \cup {AtSea}
  PROVE  LET r == VesselSails(s, l, n, b, a)
         IN /\ r \in VesselState /\ r.full = s.full /\ r.empty = s.empty
            /\ r.next_loc = n /\ r.parking = b /\ r.at = a
BY Zenon DEF VesselSails, VesselState

\* An arrival writes three fields of a vessel.
LEMMA ArrivedIsSailed ==
  ASSUME NEW s \in VesselState, NEW l, NEW a
  PROVE  [[[s EXCEPT !.last_loc = l] EXCEPT !.parking = TRUE] EXCEPT !.at = a] = VesselSails(s, l, s.next_loc, TRUE, a)
BY DEF VesselSails, VesselState

\* A departure writes three fields of a vessel.
LEMMA DepartedIsSailed ==
  ASSUME NEW s \in VesselState, NEW n, NEW a
  PROVE  [[[s EXCEPT !.next_loc = n] EXCEPT !.parking = FALSE] EXCEPT !.at = a] = VesselSails(s, s.last_loc, n, FALSE, a)
BY DEF VesselSails, VesselState

\* The three assignments of an arrival as one.
LEMMA UpdatesOfArrival ==
  ASSUME NEW f \in [Vessels -> VesselState], NEW v \in Vessels, NEW a, NEW c
  PROVE  [f EXCEPT ![v].last_loc = a, ![v].parking = TRUE, ![v].at = c]
            = [f EXCEPT ![v] = [[[f[v] EXCEPT !.last_loc = a] EXCEPT !.parking = TRUE] EXCEPT !.at = c]]
OBVIOUS

\* The three assignments of a departure as one.
LEMMA UpdatesOfDeparture ==
  ASSUME NEW f \in [Vessels -> VesselState], NEW v \in Vessels, NEW a, NEW c
  PROVE  [f EXCEPT ![v].next_loc = a, ![v].parking = FALSE, ![v].at = c]
            = [f EXCEPT ![v] = [[[f[v] EXCEPT !.next_loc = a] EXCEPT !.parking = FALSE] EXCEPT !.at = c]]
OBVIOUS

\* A vessel sails: the others and the counts of containers are as before.
VesselSailsOnly(v, r) ==
  /\ vessel' = [vessel EXCEPT ![v] = r]
  /\ agenda' = HandledOnly /\ port' = port
  /\ joint' = joint /\ stops' = stops /\ now' = now /\ pc' = pc
  /\ full_on_ports' = full_on_ports /\ full_on_vessels' = full_on_vessels

\* An event that sails a vessel and moves no container keeps every part of the
\* invariant but the voyage of that vessel and what is due to it.
LEMMA SailingKeeps ==
  ASSUME CimInv, NEW type \in Moves, NextIs(type), NEW r \in VesselState,
         VesselSailsOnly(Head(agenda[now]).v, r),
         r.full = vessel[Head(agenda[now]).v].full, r.empty = vessel[Head(agenda[now]).v].empty
  PROVE  /\ TypeInv' /\ TimeInv' /\ FitInv' /\ ActionInv' /\ CountInv'
         /\ Handler(Nothing) /\ NoLate(agenda'[now])
         /\ \A v \in Vessels : v # Head(agenda[now]).v => VoyageOf(v)'
         /\ \A v \in Vessels : vessel'[v] = IF v = Head(agenda[now]).v THEN r ELSE vessel[v]
<1> DEFINE e == Head(agenda[now])
           new == Nothing
<1>1. TypeInv /\ TimeInv /\ FitInv /\ SailInv /\ ActionInv /\ DueInv /\ CountInv
  BY DEF CimInv
<1>2. /\ vessel' = [vessel EXCEPT ![e.v] = r]
      /\ agenda' = HandledOnly /\ port' = port
      /\ joint' = joint /\ stops' = stops /\ now' = now /\ pc' = pc
      /\ full_on_ports' = full_on_ports /\ full_on_vessels' = full_on_vessels
  BY DEF VesselSailsOnly
<1>3. /\ agenda[now] # << >> /\ pc = "execute" /\ e \in Event /\ e.type = type /\ e \in ToSet(agenda[now])
      /\ now \in Ticks
  BY <1>1, FrontEvent
<1>4. e.v \in Vessels BY <1>3, EventFields DEF Moves
<1>5. vessel \in [Vessels -> VesselState] BY <1>1 DEF TypeInv, VesselState
<1>6. r.full = vessel[e.v].full /\ r.empty = vessel[e.v].empty OBVIOUS
<1>7. /\ Handler(new)
      /\ \A t \in Ticks : new[t] = << >> /\ ToSet(new[t]) = {}
      /\ \A w \in [Event -> Int] : PlannedSum(w, new) = 0
      /\ NoLate(agenda[now]) => NoLate(agenda'[now])
  BY <1>1, <1>2, <1>3, PlansNone
<1> HIDE DEF new, e
<1>8. \A v \in Vessels : vessel'[v] = IF v = e.v THEN r ELSE vessel[v] BY <1>2, <1>4, <1>5
<1>9. \A v \in Vessels : vessel'[v].full = vessel[v].full /\ vessel'[v].empty = vessel[v].empty
  BY <1>6, <1>8
<1>10. agenda' \in [Ticks -> Seq(Event)] BY <1>7, Handling DEF Handler, Agenda
<1>11. TypeInv'
 <2>1. vessel' \in [Vessels -> VesselState] BY <1>2, <1>5, <1>8
 <2> QED BY <1>1, <1>2, <1>10, <2>1 DEF TypeInv, VesselState
<1>12. TimeInv' BY <1>1, <1>7, TimeKept
<1>13. FitInv' BY <1>1, <1>9 DEF FitInv, LadenFit, CapacityRespected
<1>14. ActionInv' BY <1>1, <1>7, ActionsKept
<1>15. CountInv'
 <2>1. BooksInv'
  <3>1. type \notin CargoTypes BY DEF CargoTypes, Moves
  <3> QED BY <1>1, <1>2, <1>3, <1>7, <1>9, <3>1, EmptiesMove DEF e
 <2>2. \A u \in Vessels : VesselTotal(u)' = VesselTotal(u) BY <1>9 DEF VesselTotal
 <2>3. \A q \in Ports : PortTotal(q)' = PortTotal(q) BY <1>2 DEF PortTotal
 <2> QED BY <1>1, <2>1, <2>2, <2>3, TotalsSame DEF CountInv
<1>16. ASSUME NEW v \in Vessels, v # e.v PROVE VoyageOf(v)'
 <2>1. VoyageOf(v) BY <1>1 DEF SailInv
 <2>2. Leaving(v)[e] = 0 /\ Coming(v)[e] = 0 BY <1>3, <1>16, WeightOf
 <2>3. vessel'[v] = vessel[v] BY <1>8, <1>16
 <2> QED BY <1>1, <1>7, <2>1, <2>2, <2>3, SailKept DEF e
<1>17. NoLate(agenda'[now]) BY <1>1, <1>7 DEF DueInv
<1> QED BY <1>7, <1>8, <1>11, <1>12, <1>13, <1>14, <1>15, <1>16, <1>17 DEF e, new

-----------------------------------------------------------------------------
(* A vessel arrives.                                                       *)

\* An arrival keeps the invariant: the vessel was under way to this stop, and
\* everything for it was discharged.
LEMMA ArrivalKeeps ==
  ASSUME CimInv, OnArrival
  PROVE  CimInv'
<1> DEFINE e == Head(agenda[now])
<1>1. TypeInv /\ TimeInv /\ FitInv /\ SailInv /\ ActionInv /\ DueInv /\ CountInv
  BY DEF CimInv
<1>3. /\ agenda[now] # << >> /\ pc = "execute" /\ e \in Event /\ e.type = "VESSEL_ARRIVAL" /\ e \in ToSet(agenda[now])
      /\ now \in Ticks /\ agenda \in Agenda
  BY <1>1, FrontEvent DEF OnArrival
<1>4. PICK v \in Vessels : v = e.v BY <1>3, EventFields
<1> DEFINE loc == vessel[v].next_loc
           q == stops[v][loc + 1].port
           r == VesselSails(vessel[v], loc, loc, TRUE, q)
<1>2. /\ NextIs("VESSEL_ARRIVAL")
      /\ vessel' = [vessel EXCEPT ![v].last_loc = loc, ![v].parking = TRUE, ![v].at = q]
      /\ agenda' = HandledOnly /\ port' = port
      /\ joint' = joint /\ stops' = stops /\ now' = now /\ pc' = pc
      /\ full_on_ports' = full_on_ports /\ full_on_vessels' = full_on_vessels
  BY <1>4 DEF OnArrival, Stop
<1>5. vessel \in [Vessels -> VesselState] /\ stops \in Schedules
  BY <1>1 DEF TypeInv, VesselState
<1>6. vessel[v] \in VesselState /\ loc \in Nat /\ VoyageOf(v) /\ vessel[v].next_loc = loc
  BY <1>1, <1>4, <1>5, VesselFields DEF SailInv
<1>7. q \in Ports /\ loc < Len(stops[v]) /\ loc + 1 \in 1 .. Len(stops[v])
 <2>1. loc < Len(stops[v]) /\ Len(stops[v]) \in Nat
   BY <1>4, <1>5, <1>6, ScheduleData DEF VoyageOf
 <2>2. loc + 1 \in 1 .. Len(stops[v]) BY <1>6, <2>1
 <2> QED BY <1>4, <1>5, <2>1, <2>2, ScheduleData
<1>8. /\ r \in VesselState /\ r.full = vessel[v].full /\ r.empty = vessel[v].empty
      /\ r.next_loc = loc /\ r.parking = TRUE /\ r.at = q
 <2>1. TRUE \in BOOLEAN /\ q \in Ports \cup {AtSea} BY <1>7
 <2> HIDE DEF loc, q
 <2>2. vessel[v] \in VesselState /\ loc \in Nat BY <1>6
 <2>3. \A b \in BOOLEAN : LET x == VesselSails(vessel[v], loc, loc, b, q)
                          IN /\ x \in VesselState /\ x.full = vessel[v].full /\ x.empty = vessel[v].empty
                             /\ x.next_loc = loc /\ x.parking = b /\ x.at = q
   BY <2>1, <2>2, VesselSailed
 <2> QED BY <2>1, <2>3, Zenon
<1> HIDE DEF e, loc, q
<1>9. vessel' = [vessel EXCEPT ![v] = r]
 <2>1. [vessel EXCEPT ![v].last_loc = loc, ![v].parking = TRUE, ![v].at = q]
         = [vessel EXCEPT ![v] = [[[vessel[v] EXCEPT !.last_loc = loc] EXCEPT !.parking = TRUE] EXCEPT !.at = q]]
   BY <1>4, <1>5, UpdatesOfArrival, Zenon
 <2>2. [[[vessel[v] EXCEPT !.last_loc = loc] EXCEPT !.parking = TRUE] EXCEPT !.at = q]
         = VesselSails(vessel[v], loc, vessel[v].next_loc, TRUE, q)
   BY <1>6, ArrivedIsSailed, Zenon
 <2> QED BY <1>2, <1>6, <2>1, <2>2, Zenon
<1> HIDE DEF r
<1>10. VesselSailsOnly(Head(agenda[now]).v, r) BY <1>2, <1>4, <1>9 DEF VesselSailsOnly, e
<1>11. /\ TypeInv' /\ TimeInv' /\ FitInv' /\ ActionInv' /\ CountInv'
       /\ Handler(Nothing) /\ NoLate(agenda'[now])
       /\ \A u \in Vessels : u # v => VoyageOf(u)'
       /\ \A u \in Vessels : vessel'[u] = IF u = v THEN r ELSE vessel[u]
  BY <1>2, <1>4, <1>8, <1>10, SailingKeeps DEF Moves, e
<1>12. vessel'[v] = r BY <1>4, <1>11
<1>13. Sum(Coming(v), agenda[now]) = 1 /\ ~vessel[v].parking /\ stops[v][loc + 1].arrive = now
 <2> DEFINE s == agenda[now]
            w == Coming(v)
 <2>1. s \in Seq(Event) /\ s # << >> /\ w \in [Event -> Nat] BY <1>3, WeightTypes DEF Agenda
 <2>2. w[e] = 1 BY <1>3, <1>4, WeightOf
 <2> HIDE DEF s, w
 <2>3. 1 \in DOMAIN s /\ s[1] = Head(s) BY <2>1
 <2>4. w[s[1]] <= Sum(w, s) BY <2>1, <2>3, SumIsPositive
 <2>5. Sum(w, s) >= 1 BY <2>2, <2>3, <2>4 DEF s, e
 <2>6. Sum(w, s) # 0 BY <2>5
 <2> QED BY <1>6, <2>6 DEF VoyageOf, s, w
<1>14. VoyageOf(v)'
 <2>1. Leaving(v) \in [Event -> Int] /\ Coming(v) \in [Event -> Int] /\ Leaving(v)[e] = 0 /\ Coming(v)[e] = 1
   BY <1>3, <1>4, WeightTypes, WeightsAreWhole, WeightOf
 <2>2. \A t \in Ticks : ToSet(Nothing[t]) = {} BY NothingPlanned
 <2>3. \A t \in Ticks : Sum(Leaving(v), agenda'[t]) = Sum(Leaving(v), agenda[t])
  <3>1. \A t \in Ticks : \A x \in ToSet(Nothing[t]) : Leaving(v)[x] = 0 BY <2>2
  <3> QED BY <1>11, <2>1, <3>1, SumsKept DEF e
 <2>4. Sum(Coming(v), agenda'[now]) = 0
  <3>1. \A t \in Ticks : \A x \in ToSet(Nothing[t]) : Coming(v)[x] = 0 BY <2>2
  <3>2. Sum(Coming(v), agenda'[now]) = Sum(Coming(v), agenda[now]) - 1
    BY <1>3, <1>11, <2>1, <3>1, SumsChange DEF e
  <3> QED BY <1>13, <3>2
 <2>a. /\ vessel'[v].next_loc = loc /\ vessel[v].next_loc = loc
       /\ vessel'[v].parking /\ vessel'[v].at = q /\ stops' = stops /\ now' = now /\ pc' = "execute"
   BY <1>2, <1>3, <1>6, <1>8, <1>12
 <2>5. \A t \in Ticks : LeavesAt(v, t)' = LeavesAt(v, t) BY <2>a DEF LeavesAt
 <2>6. \A t \in Ticks : Sum(Leaving(v), agenda'[t]) = IF LeavesAt(v, t)' THEN 1 ELSE 0
   BY <1>6, <2>3, <2>5 DEF VoyageOf
 <2>7. now \in Nat BY <1>1, Types
 <2>8. loc > 0 => stops[v][loc].leave <= now BY <1>6 DEF VoyageOf
 <2>9. stops'[v][loc + 1].port = q /\ stops'[v][loc + 1].arrive <= now'
   BY <1>2, <1>13, <2>7 DEF q
 <2> QED BY <1>7, <2>a, <2>4, <2>6, <2>8, <2>9 DEF VoyageOf
<1>15. SailInv'
 <2> SUFFICES ASSUME NEW u \in Vessels PROVE VoyageOf(u)'
   BY DEF SailInv
 <2>1. CASE u = v BY <1>14, <2>1
 <2>2. CASE u # v BY <1>11, <2>2
 <2> QED BY <2>1, <2>2
<1>16. DueInv'
 <2>2. ASSUME NEW t \in Ticks, NEW x \in ToSet(agenda'[t]) PROVE Expected(x, t)'
  <3>1. x \in ToSet(agenda[t])
   <4>1. Handles(agenda, now, Nothing, agenda') BY <1>11 DEF Handler
   <4>2. ToSet(agenda'[t]) \subseteq ToSet(agenda[t]) \cup ToSet(Nothing[t])
     BY <4>1, Handling
   <4> QED BY <2>2, <4>2, NothingPlanned
  <3>2. Expected(x, t) /\ x \in Event
   <4>1. agenda[t] \in Seq(Event) BY <1>3 DEF Agenda
   <4> QED BY <1>1, <3>1, <4>1 DEF DueInv, ToSet
  <3>3. x.type \in {"LOAD_FULL", "DISCHARGE_FULL"} => x.v \in Vessels BY <3>2, EventFields
  <3>4. \A u \in Vessels : vessel'[u].next_loc = vessel[u].next_loc BY <1>6, <1>8, <1>11
  <3>5. x.type = "LOAD_FULL" => Loading(x)' BY <1>2, <3>2, <3>3, <3>4 DEF Expected, Loading
  <3>6. ASSUME x.type = "DISCHARGE_FULL", x.v # v PROVE Due(x, t)'
   <4>1. vessel'[x.v] = vessel[x.v] BY <1>11, <3>3, <3>6
   <4> QED BY <1>2, <3>2, <3>6, <4>1 DEF Expected, Due, AtHand
  <3>7. ASSUME x.type = "DISCHARGE_FULL", x.v = v PROVE Due(x, t)'
   <4>1. PICK n \in loc + 1 .. Len(stops[v]) :
           /\ stops[v][n].arrive = t /\ stops[v][n].port = x.p
           /\ \A m \in loc + 1 .. n - 1 : stops[v][m].port # x.p \/ AtHand(v, m)
     BY <1>6, <3>2, <3>7 DEF Expected, Due
   <4>2. n # loc + 1
    <5> SUFFICES ASSUME n = loc + 1 PROVE FALSE
      OBVIOUS
    <5>1. t = now BY <1>13, <4>1
    <5> DEFINE s == agenda[now]
    <5>2. s \in Seq(Event) /\ s # << >> /\ NoLate(s) BY <1>1, <1>3 DEF Agenda, DueInv
    <5>3. agenda'[now] = Tail(s) BY <1>1, <1>2, <1>3, PlansNone
    <5> HIDE DEF s
    <5>4. PICK k \in DOMAIN Tail(s) : Tail(s)[k] = x BY <2>2, <5>1, <5>3 DEF ToSet
    <5>5. 1 \in DOMAIN s /\ k + 1 \in DOMAIN s /\ 1 < k + 1 /\ s[1] = Head(s) /\ s[k + 1] = x
      BY <5>2, <5>4
    <5>6. s[1].type = "VESSEL_ARRIVAL" /\ s[1].v = v BY <1>3, <1>4, <5>5 DEF s, e
    <5> QED BY <3>7, <5>2, <5>5, <5>6 DEF NoLate
   <4>3. n > loc + 1 BY <1>6, <4>1, <4>2
   <4>4. \A m : AtHand(v, m)' <=> AtHand(v, m) BY <1>2, <1>6, <1>8, <1>12 DEF AtHand
   <4> QED BY <1>2, <1>8, <1>12, <3>7, <4>1, <4>3, <4>4 DEF Due
  <3> QED BY <3>2, <3>5, <3>6, <3>7 DEF Expected
 <2> QED BY <1>2, <1>11, <2>2 DEF DueInv
<1> QED BY <1>11, <1>15, <1>16 DEF CimInv

-----------------------------------------------------------------------------
(* A vessel departs.                                                       *)

\* It departs from the stop where it parks, and there is a stop to come.
LEMMA DepartureIsDue ==
  ASSUME TypeInv, TimeInv, SailInv, NextIs("VESSEL_DEPARTURE"), NEW v \in Vessels, v = Head(agenda[now]).v
  PROVE  LET loc == vessel[v].next_loc
         IN /\ vessel[v].parking /\ loc \in Nat /\ Sum(Leaving(v), agenda[now]) = 1
            /\ loc + 1 \in 1 .. Len(stops[v]) - 1 /\ Len(stops[v]) \in Nat
            /\ stops[v][loc + 1].leave = now
            /\ stops[v][loc + 1].arrive < now
            /\ \A n \in loc + 2 .. Len(stops[v]) : stops[v][n].arrive > now /\ stops[v][n].leave > now
<1> DEFINE e == Head(agenda[now])
           loc == vessel[v].next_loc
           s == stops[v]
<1>1. /\ agenda[now] # << >> /\ e \in Event /\ e.type = "VESSEL_DEPARTURE"
      /\ now \in Ticks /\ agenda \in Agenda /\ now \in Nat /\ now <= MaxTick /\ MaxTick \in Nat
 <2>1. agenda[now] # << >> /\ e \in Event /\ e.type = "VESSEL_DEPARTURE" /\ now \in Ticks /\ agenda \in Agenda
   BY FrontEvent
 <2>2. now \in 0 .. MaxTick /\ MaxTick \in Nat BY CimAssumption DEF TypeInv
 <2> QED BY <2>1, <2>2
<1>2. VoyageOf(v) /\ loc \in Nat /\ stops \in Schedules /\ vessel[v].parking \in BOOLEAN
  BY DEF SailInv, TypeInv
<1>3. /\ Len(s) \in Nat
      /\ \A n \in 1 .. Len(s) : s[n].arrive \in Nat /\ s[n].leave \in Nat /\ s[n].leave \in Ticks /\ s[n].arrive < s[n].leave
      /\ s[Len(s)].leave > MaxTick
  BY <1>2, ScheduleData
<1>4. \A m \in 1 .. Len(s) : \A n \in m + 1 .. Len(s) :
         s[m].leave < s[n].arrive /\ s[m].arrive < s[n].arrive /\ s[m].leave < s[n].leave
  BY <1>2, StopsInOrder
<1>5. /\ loc < Len(s)
      /\ \A t \in Ticks : Sum(Leaving(v), agenda[t]) = IF LeavesAt(v, t) THEN 1 ELSE 0
      /\ ~vessel[v].parking => loc > 0 /\ s[loc + 1].arrive >= now
  BY <1>2 DEF VoyageOf
<1>6. \A t : LeavesAt(v, t) <=> \E n \in loc + 1 .. Len(s) : s[n].leave = t BY DEF LeavesAt
<1>7. Sum(Leaving(v), agenda[now]) = 1
 <2> DEFINE q == agenda[now]
            w == Leaving(v)
 <2>1. q \in Seq(Event) /\ q # << >> /\ w \in [Event -> Nat] BY <1>1, WeightTypes DEF Agenda
 <2>2. w[e] = 1 BY <1>1, WeightOf
 <2> HIDE DEF q, w
 <2>3. 1 \in DOMAIN q /\ q[1] = Head(q) BY <2>1
 <2>4. w[q[1]] <= Sum(w, q) BY <2>1, <2>3, SumIsPositive
 <2>5. Sum(w, q) # 0 BY <2>2, <2>3, <2>4 DEF q
 <2> QED BY <1>1, <1>5, <2>5 DEF q, w
<1>8. LeavesAt(v, now) BY <1>1, <1>5, <1>7
<1> HIDE DEF e, loc, s
<1>9. PICK n \in loc + 1 .. Len(s) : s[n].leave = now BY <1>6, <1>8
<1>10. loc + 1 \in 1 .. Len(s) /\ n \in 1 .. Len(s) /\ (n # loc + 1 => n \in (loc + 1) + 1 .. Len(s))
  BY <1>2, <1>3, <1>5, <1>9
<1>11. n = loc + 1
 <2> SUFFICES ASSUME n # loc + 1 PROVE FALSE
   OBVIOUS
 <2> DEFINE t == s[loc + 1].leave
 <2>1. t < now /\ t \in Ticks BY <1>3, <1>4, <1>9, <1>10
 <2>2. Sum(Leaving(v), agenda[t]) = 1
  <3>1. loc + 1 \in loc + 1 .. Len(s) BY <1>2, <1>3, <1>10
  <3>2. LeavesAt(v, t) BY <1>6, <3>1
  <3> QED BY <1>5, <2>1, <3>2
 <2>3. agenda[t] = << >> BY <2>1 DEF TimeInv
 <2>4. Sum(Leaving(v), << >>) = 0 BY WeightTypes, WeightsAreWhole, SumOfEvents
 <2> QED BY <2>2, <2>3, <2>4
<1>12. loc + 1 # Len(s) BY <1>1, <1>3, <1>9, <1>11
<1>13. vessel[v].parking BY <1>1, <1>3, <1>5, <1>9, <1>10, <1>11
<1>14. ASSUME NEW k \in loc + 2 .. Len(s) PROVE s[k].arrive > now /\ s[k].leave > now
 <2>1. k \in (loc + 1) + 1 .. Len(s) /\ k \in 1 .. Len(s) BY <1>2, <1>3
 <2>2. s[loc + 1].leave < s[k].arrive /\ s[loc + 1].leave < s[k].leave BY <1>4, <1>10, <2>1
 <2> QED BY <1>1, <1>3, <1>9, <1>11, <2>1, <2>2
<1>15. s[loc + 1].leave = now /\ s[loc + 1].arrive < now /\ loc + 1 \in 1 .. Len(s) - 1
  BY <1>2, <1>3, <1>9, <1>10, <1>11, <1>12
<1> QED BY <1>2, <1>3, <1>7, <1>13, <1>14, <1>15 DEF loc, s

\* A departure keeps the invariant: the vessel parks at this stop, and has
\* nothing aboard that was to leave here.
LEMMA DepartureKeeps ==
  ASSUME CimInv, OnDeparture
  PROVE  CimInv'
<1> DEFINE e == Head(agenda[now])
<1>1. TypeInv /\ TimeInv /\ FitInv /\ SailInv /\ ActionInv /\ DueInv /\ CountInv
  BY DEF CimInv
<1>3. /\ agenda[now] # << >> /\ pc = "execute" /\ e \in Event /\ e.type = "VESSEL_DEPARTURE" /\ e \in ToSet(agenda[now])
      /\ now \in Ticks /\ agenda \in Agenda
  BY <1>1, FrontEvent DEF OnDeparture
<1>4. PICK v \in Vessels : v = e.v BY <1>3, EventFields
<1> DEFINE loc == vessel[v].next_loc
           last == vessel[v].last_loc
           r == VesselSails(vessel[v], last, loc + 1, FALSE, AtSea)
<1>2. /\ NextIs("VESSEL_DEPARTURE")
      /\ vessel' = [vessel EXCEPT ![v].next_loc = loc + 1, ![v].parking = FALSE, ![v].at = AtSea]
      /\ agenda' = HandledOnly /\ port' = port
      /\ joint' = joint /\ stops' = stops /\ now' = now /\ pc' = pc
      /\ full_on_ports' = full_on_ports /\ full_on_vessels' = full_on_vessels
  BY <1>4 DEF OnDeparture
<1>5. vessel \in [Vessels -> VesselState] /\ stops \in Schedules
  BY <1>1 DEF TypeInv, VesselState
<1>6. vessel[v] \in VesselState /\ VoyageOf(v) /\ vessel[v].next_loc = loc /\ last \in Nat
  BY <1>1, <1>4, <1>5, VesselFields DEF SailInv
<1>7. /\ vessel[v].parking /\ loc \in Nat /\ Sum(Leaving(v), agenda[now]) = 1
      /\ loc + 1 \in 1 .. Len(stops[v]) - 1 /\ Len(stops[v]) \in Nat
      /\ stops[v][loc + 1].leave = now
      /\ stops[v][loc + 1].arrive < now
      /\ \A n \in loc + 2 .. Len(stops[v]) : stops[v][n].arrive > now /\ stops[v][n].leave > now
  BY <1>1, <1>2, <1>4, DepartureIsDue
<1> HIDE DEF e, loc, last
<1>8. /\ r \in VesselState /\ r.full = vessel[v].full /\ r.empty = vessel[v].empty
      /\ r.next_loc = loc + 1 /\ r.parking = FALSE /\ r.at = AtSea
 <2>1. FALSE \in BOOLEAN /\ AtSea \in Ports \cup {AtSea} /\ loc + 1 \in Nat BY <1>7
 <2>2. vessel[v] \in VesselState /\ last \in Nat BY <1>6
 <2>3. \A b \in BOOLEAN : LET x == VesselSails(vessel[v], last, loc + 1, b, AtSea)
                          IN /\ x \in VesselState /\ x.full = vessel[v].full /\ x.empty = vessel[v].empty
                             /\ x.next_loc = loc + 1 /\ x.parking = b /\ x.at = AtSea
   BY <2>1, <2>2, VesselSailed
 <2> QED BY <2>1, <2>3, Zenon
<1>9. vessel' = [vessel EXCEPT ![v] = r]
 <2>1. [vessel EXCEPT ![v].next_loc = loc + 1, ![v].parking = FALSE, ![v].at = AtSea]
         = [vessel EXCEPT ![v] = [[[vessel[v] EXCEPT !.next_loc = loc + 1] EXCEPT !.parking = FALSE] EXCEPT !.at = AtSea]]
   BY <1>4, <1>5, UpdatesOfDeparture, Zenon
 <2>2. [[[vessel[v] EXCEPT !.next_loc = loc + 1] EXCEPT !.parking = FALSE] EXCEPT !.at = AtSea]
         = VesselSails(vessel[v], vessel[v].last_loc, loc + 1, FALSE, AtSea)
   BY <1>6, DepartedIsSailed, Zenon
 <2> QED BY <1>2, <2>1, <2>2, Zenon DEF last
<1> HIDE DEF r
<1>10. VesselSailsOnly(Head(agenda[now]).v, r) BY <1>2, <1>4, <1>9 DEF VesselSailsOnly, e
<1>11. /\ TypeInv' /\ TimeInv' /\ FitInv' /\ ActionInv' /\ CountInv'
       /\ Handler(Nothing) /\ NoLate(agenda'[now])
       /\ \A u \in Vessels : u # v => VoyageOf(u)'
       /\ \A u \in Vessels : vessel'[u] = IF u = v THEN r ELSE vessel[u]
  BY <1>2, <1>4, <1>8, <1>10, SailingKeeps DEF Moves, e
<1>12. vessel'[v] = r BY <1>4, <1>11
<1>13. now \in Nat BY <1>1, Types
<1>14. VoyageOf(v)'
 <2>1. Leaving(v) \in [Event -> Int] /\ Coming(v) \in [Event -> Int] /\ Leaving(v)[e] = 1 /\ Coming(v)[e] = 0
   BY <1>3, <1>4, WeightTypes, WeightsAreWhole, WeightOf
 <2>2. \A t \in Ticks : ToSet(Nothing[t]) = {} BY NothingPlanned
 <2>3. \A t \in Ticks : Sum(Coming(v), agenda'[t]) = Sum(Coming(v), agenda[t])
  <3>1. \A t \in Ticks : \A x \in ToSet(Nothing[t]) : Coming(v)[x] = 0 BY <2>2
  <3> QED BY <1>11, <2>1, <3>1, SumsKept DEF e
 <2>4. \A t \in Ticks : /\ Sum(Leaving(v), agenda'[t]) = Sum(Leaving(v), agenda[t]) - (IF t = now THEN 1 ELSE 0)
                        /\ Sum(Leaving(v), agenda[t]) \in Int
  <3>1. \A t \in Ticks : \A x \in ToSet(Nothing[t]) : Leaving(v)[x] = 0 BY <2>2
  <3> QED BY <1>11, <2>1, <3>1, SumsChange DEF e
 <2>5. /\ vessel'[v].next_loc = loc + 1 /\ ~vessel'[v].parking /\ stops' = stops /\ now' = now /\ pc' = "execute"
   BY <1>2, <1>3, <1>8, <1>12
 <2>6. ASSUME NEW t \in Ticks PROVE Sum(Leaving(v), agenda'[t]) = IF LeavesAt(v, t)' THEN 1 ELSE 0
  <3>1. LeavesAt(v, t)' <=> \E n \in (loc + 1) + 1 .. Len(stops[v]) : stops[v][n].leave = t
    BY <2>5 DEF LeavesAt
  <3>2. Sum(Leaving(v), agenda[t]) = IF \E n \in loc + 1 .. Len(stops[v]) : stops[v][n].leave = t THEN 1 ELSE 0
    BY <1>6 DEF VoyageOf, LeavesAt
  <3>3. CASE t = now
   <4>1. Sum(Leaving(v), agenda'[t]) = 0 BY <1>7, <2>4, <3>3
   <4>2. ~ \E n \in (loc + 1) + 1 .. Len(stops[v]) : stops[v][n].leave = t
    <5> SUFFICES ASSUME NEW n \in (loc + 1) + 1 .. Len(stops[v]), stops[v][n].leave = now PROVE FALSE
      BY <3>3
    <5>1. n \in loc + 2 .. Len(stops[v]) BY <1>7
    <5> QED BY <1>7, <1>13, <5>1
   <4> QED BY <3>1, <4>1, <4>2
  <3>4. CASE t # now
   <4>1. Sum(Leaving(v), agenda'[t]) = Sum(Leaving(v), agenda[t]) BY <2>4, <3>4
   <4>2. ASSUME NEW n \in loc + 1 .. Len(stops[v]), stops[v][n].leave = t
         PROVE  n \in (loc + 1) + 1 .. Len(stops[v])
     BY <1>7, <3>4, <4>2
   <4>3. ASSUME NEW n \in (loc + 1) + 1 .. Len(stops[v]) PROVE n \in loc + 1 .. Len(stops[v])
     BY <1>7
   <4>4. (\E n \in loc + 1 .. Len(stops[v]) : stops[v][n].leave = t)
           <=> \E n \in (loc + 1) + 1 .. Len(stops[v]) : stops[v][n].leave = t
     BY <4>2, <4>3
   <4> QED BY <3>1, <3>2, <4>1, <4>4
  <3> QED BY <3>3, <3>4
 <2>7. stops[v][(loc + 1) + 1].arrive > now
  <3>1. (loc + 1) + 1 \in loc + 2 .. Len(stops[v]) BY <1>7
  <3> QED BY <1>7, <3>1
 <2>8. Sum(Coming(v), agenda'[now]) = 0 BY <1>3, <1>6, <1>7, <2>3 DEF VoyageOf
 <2>9. loc + 1 < Len(stops[v]) /\ loc + 1 > 0 BY <1>7
 <2>a. stops[v][(loc + 1) + 1].arrive \in Nat
  <3>1. (loc + 1) + 1 \in 1 .. Len(stops[v]) BY <1>7
  <3> QED BY <1>5, <3>1, ScheduleData
 <2>10. stops[v][(loc + 1) + 1].arrive # now /\ stops[v][(loc + 1) + 1].arrive >= now /\ stops[v][loc + 1].leave <= now
   BY <1>7, <1>13, <2>7, <2>a
 <2> QED BY <2>5, <2>6, <2>8, <2>9, <2>10 DEF VoyageOf
<1>15. SailInv'
 <2> SUFFICES ASSUME NEW u \in Vessels PROVE VoyageOf(u)'
   BY DEF SailInv
 <2>1. CASE u = v BY <1>14, <2>1
 <2>2. CASE u # v BY <1>11, <2>2
 <2> QED BY <2>1, <2>2
<1>16. DueInv'
 <2>2. ASSUME NEW t \in Ticks, NEW x \in ToSet(agenda'[t]) PROVE Expected(x, t)'
  <3>1. x \in ToSet(agenda[t])
   <4>1. Handles(agenda, now, Nothing, agenda') BY <1>11 DEF Handler
   <4>2. ToSet(agenda'[t]) \subseteq ToSet(agenda[t]) \cup ToSet(Nothing[t])
     BY <4>1, Handling
   <4> QED BY <2>2, <4>2, NothingPlanned
  <3>2. Expected(x, t) /\ x \in Event
   <4>1. agenda[t] \in Seq(Event) BY <1>3 DEF Agenda
   <4> QED BY <1>1, <3>1, <4>1 DEF DueInv, ToSet
  <3>3. x.type \in {"LOAD_FULL", "DISCHARGE_FULL"} => x.v \in Vessels BY <3>2, EventFields
  <3>4. \A u \in Vessels : u # v => vessel'[u] = vessel[u] BY <1>11
  <3>5. ASSUME x.type = "LOAD_FULL" PROVE Loading(x)'
   <4>1. Loading(x) BY <3>2, <3>5 DEF Expected
   <4>2. x.v # v
    <5> SUFFICES ASSUME x.v = v PROVE FALSE
      OBVIOUS
    <5>1. stops[v][loc + 1].arrive = now BY <1>6, <4>1 DEF Loading
    <5> QED BY <1>7, <1>13, <5>1
   <4> QED BY <1>2, <3>3, <3>4, <3>5, <4>1, <4>2 DEF Loading
  <3>6. ASSUME x.type = "DISCHARGE_FULL", x.v # v PROVE Due(x, t)'
   <4>1. vessel'[x.v] = vessel[x.v] BY <1>11, <3>3, <3>6
   <4> QED BY <1>2, <3>2, <3>6, <4>1 DEF Expected, Due, AtHand
  <3>7. ASSUME x.type = "DISCHARGE_FULL", x.v = v PROVE Due(x, t)'
   <4>1. PICK n \in loc + 1 .. Len(stops[v]) :
           /\ stops[v][n].arrive = t /\ stops[v][n].port = x.p
           /\ \A m \in loc + 1 .. n - 1 : stops[v][m].port # x.p \/ AtHand(v, m)
           /\ n > loc + 1
     BY <1>6, <1>7, <3>2, <3>7 DEF Expected, Due
   <4>a. \A m \in (loc + 1) + 1 .. n - 1 : m \in loc + 1 .. n - 1 /\ m # loc + 1 BY <1>7, <4>1
   <4>b. \A m : AtHand(v, m) => m = loc + 1 BY <1>6 DEF AtHand
   <4>2. n \in (loc + 1) + 1 .. Len(stops[v]) /\ \A m \in (loc + 1) + 1 .. n - 1 : stops[v][m].port # x.p
     BY <1>7, <4>1, <4>a, <4>b
   <4>3. vessel'[v].next_loc = loc + 1 /\ ~vessel'[v].parking /\ stops' = stops
     BY <1>2, <1>8, <1>12
   <4> QED BY <3>7, <4>1, <4>2, <4>3 DEF Due
  <3> QED BY <3>2, <3>5, <3>6, <3>7 DEF Expected
 <2> QED BY <1>2, <1>11, <2>2 DEF DueInv
<1> QED BY <1>11, <1>15, <1>16 DEF CimInv

-----------------------------------------------------------------------------
(* A vessel loads laden containers.                                        *)

\* A lesser product with the same factor has the lesser other factor.
LEMMA StrictProducts ==
  ASSUME NEW a \in Nat, NEW b \in Nat, NEW c \in Nat, a * c < b * c
  PROVE  a < b
<1> SUFFICES ASSUME b <= a PROVE FALSE
  OBVIOUS
<1>1. b * c <= a * c BY Products
<1>2. a * c \in Nat /\ b * c \in Nat OBVIOUS
<1> HIDE DEF Products
<1> QED BY <1>1, <1>2

\* A multiple is its quotient times the divisor.
LEMMA Multiples ==
  ASSUME NEW x \in Nat, NEW y \in Nat \ {0}, x % y = 0
  PROVE  x = (x \div y) * y
OBVIOUS

\* The containers that need not leave are as many as fit.
LEMMA EarlyFacts ==
  ASSUME NEW cap \in Nat, NEW vol \in Nat \ {0}, NEW f \in Nat, NEW e \in Nat, f * vol <= cap,
         NEW y, (f + e) * vol > cap => y = (f + e) - CeilDiv(cap, vol),
         ~ ((f + e) * vol > cap) => y = 0
  PROVE  y \in Nat /\ y <= e /\ (cap % vol = 0 => (f + (e - y)) * vol <= cap)
<1> DEFINE c == CeilDiv(cap, vol)
           g == f + e
<1>1. c \in Nat /\ c * vol <= cap + vol - 1 /\ cap + vol - 1 < c * vol + vol
 <2> DEFINE a == cap + vol - 1
 <2>1. a \in Nat /\ c = a \div vol BY DEF CeilDiv
 <2> HIDE DEF a, c
 <2>2. c \in Nat /\ c * vol <= a /\ a < c * vol + vol BY <2>1, Quotients
 <2> QED BY <2>2 DEF a
<1>2. g \in Nat OBVIOUS
<1>3. CASE ~ (g * vol > cap)
 <2>1. y = 0 /\ f + (e - 0) = g BY <1>3
 <2>2. g * vol \in Nat BY <1>2
 <2>3. g * vol <= cap BY <1>3, <2>2
 <2> QED BY <2>1, <2>3
<1>4. CASE g * vol > cap
 <2>1. y = g - c BY <1>4
 <2> HIDE DEF c, g
 <2>2. c * vol \in Nat /\ g * vol \in Nat /\ f * vol \in Nat /\ (g + 1) * vol = g * vol + vol
       /\ (c + 1) * vol = c * vol + vol /\ (c + 1) * vol \in Nat /\ (g + 1) * vol \in Nat
   BY <1>1, <1>2
 <2>3. c < g + 1
  <3>1. c * vol < (g + 1) * vol BY <1>1, <1>4, <2>2
  <3> QED BY <1>1, <1>2, <3>1, StrictProducts
 <2>4. f < c + 1
  <3>1. f * vol < (c + 1) * vol BY <1>1, <2>2
  <3> QED BY <1>1, <3>1, StrictProducts
 <2>5. y \in Nat /\ y <= e /\ f + (e - y) = c BY <1>1, <1>2, <2>1, <2>3, <2>4 DEF g
 <2>6. ASSUME cap % vol = 0 PROVE c * vol <= cap
  <3> DEFINE k == cap \div vol
  <3>1. k \in Nat BY Quotients
  <3>2. cap = k * vol BY <2>6, Multiples
  <3> HIDE DEF k
  <3>3. (k + 1) * vol = k * vol + vol /\ (k + 1) * vol \in Nat BY <3>1
  <3>4. c * vol < (k + 1) * vol BY <1>1, <2>2, <3>2, <3>3
  <3>5. c < k + 1 BY <1>1, <3>1, <3>4, StrictProducts
  <3>6. c <= k BY <1>1, <3>1, <3>5
  <3>7. c * vol <= k * vol BY <1>1, <3>1, <3>6, Products
  <3> QED BY <3>2, <3>7
 <2> QED BY <2>5, <2>6
<1> QED BY <1>3, <1>4

\* What is planned for a vessel's loads: later discharges, as its stops come.
LEMMA LoadPlan ==
  ASSUME TypeInv, FitInv, SailInv, DueInv, NextIs("LOAD_FULL"), NEW v \in Vessels, v = Head(agenda[now]).v,
         NEW p \in Ports, p = Head(agenda[now]).p, NEW loads \in Loads(v, p)
  PROVE  LET new == PlannedDischarges(v, loads)
         IN /\ vessel[v].next_loc < Len(stops[v]) /\ new \in Agenda
            /\ \A t \in Ticks : t <= now => new[t] = << >>
            /\ \A t \in Ticks : \A x \in ToSet(new[t]) :
                 x.type = "DISCHARGE_FULL" /\ x.v = v /\ Due(x, t)
<1> DEFINE new == PlannedDischarges(v, loads)
           e == Head(agenda[now])
           rs == ReachableStops(v)
           loc == vessel[v].next_loc
           s == stops[v]
<1>1. /\ agenda[now] # << >> /\ e \in Event /\ e.type = "LOAD_FULL" /\ e \in ToSet(agenda[now])
      /\ now \in Ticks /\ now \in Nat
  BY FrontEvent, Types
<1>2. Loading(e) BY <1>1 DEF DueInv, Expected
<1>3. loc \in Nat /\ loc < Len(s) /\ stops \in Schedules BY DEF SailInv, VoyageOf, TypeInv
<1>4. loc > 0 /\ p = s[loc + 1].port /\ s[loc + 1].arrive = now BY <1>2 DEF Loading
<1>5. Len(s) \in Nat BY <1>3, ScheduleData
<1>6. LadenFit BY DEF FitInv
<1>7. /\ new \in Agenda
      /\ \A t \in Ticks : \A x \in ToSet(new[t]) :
           \E i \in 1 .. Len(rs) : rs[i].arrive = t /\ loads[i] > 0 /\ x = DischargeAt(v, loads, i)
  BY <1>3, <1>6, DischargesPlanned
<1>8. \A i \in 1 .. Len(rs) : /\ loc + 1 + i \in loc + 2 .. Len(s)
                              /\ rs[i] = s[loc + 1 + i]
  BY <1>3, ReachableFacts
<1>9. Len(rs) \in Nat BY <1>3, ReachableFacts
<1> HIDE DEF new
<1>10. \A i \in 1 .. Len(rs) : rs[i].arrive > now
 <2> SUFFICES ASSUME NEW i \in 1 .. Len(rs) PROVE s[loc + 1 + i].arrive > now
   BY <1>8
 <2>1. loc + 1 \in 1 .. Len(s) /\ loc + 1 + i \in (loc + 1) + 1 .. Len(s)
  <3> HIDE DEF rs, loc, s
  <3>1. loc + 1 + i \in loc + 2 .. Len(s) /\ i \in Nat BY <1>8, <1>9
  <3> QED BY <1>3, <1>5, <3>1
 <2>2. s[loc + 1].arrive < s[loc + 1 + i].arrive BY <1>3, <2>1, StopsInOrder
 <2> QED BY <1>4, <2>2
<1>11. ASSUME NEW t \in Ticks, t <= now PROVE new[t] = << >>
 <2> DEFINE q == new[t]
 <2>1. q \in Seq(Event) BY <1>7 DEF Agenda
 <2>2. ToSet(q) = {}
  <3> SUFFICES ASSUME NEW x \in ToSet(q) PROVE FALSE
    OBVIOUS
  <3>1. PICK i \in 1 .. Len(rs) : rs[i].arrive = t BY <1>7
  <3>2. t > now /\ t \in Nat BY <1>10, <3>1, TicksFinite
  <3> QED BY <1>1, <1>11, <3>2
 <2> HIDE DEF q
 <2>3. q = << >>
  <3>1. q # << >> => 1 \in DOMAIN q BY <2>1
  <3>2. \A i \in DOMAIN q : q[i] \in ToSet(q) BY DEF ToSet
  <3> QED BY <2>2, <3>1, <3>2
 <2> QED BY <2>3 DEF q
<1>12. ASSUME NEW t \in Ticks, NEW x \in ToSet(new[t])
       PROVE  x.type = "DISCHARGE_FULL" /\ x.v = v /\ Due(x, t)
 <2>1. PICK i \in 1 .. Len(rs) : rs[i].arrive = t /\ loads[i] > 0 /\ x = DischargeAt(v, loads, i)
   BY <1>7
 <2>2. x.type = "DISCHARGE_FULL" /\ x.v = v /\ x.p = rs[i].port BY <2>1 DEF DischargeAt
 <2>3. \A j \in 1 .. i - 1 : rs[j].port # rs[i].port BY <1>3, <1>6, <2>1, LoadsGoFirst
 <2> DEFINE n == loc + 1 + i
 <2>4. n \in loc + 1 .. Len(s) /\ s[n].arrive = t /\ s[n].port = x.p /\ n > loc + 1
  <3>1. n \in loc + 2 .. Len(s) /\ rs[i] = s[n] BY <1>8
  <3>2. n \in loc + 1 .. Len(s) /\ n > loc + 1
   <4> HIDE DEF rs, loc, s, n
   <4> QED BY <1>3, <1>5, <3>1
  <3> QED BY <2>1, <2>2, <3>1, <3>2
 <2>5. ASSUME NEW m \in loc + 1 .. n - 1 PROVE s[m].port # x.p \/ AtHand(v, m)
  <3>1. CASE m = loc + 1
   <4>1. s[m].arrive = now BY <1>4, <3>1
   <4>2. now <= now BY <1>1
   <4> QED BY <3>1, <4>1, <4>2 DEF AtHand
  <3>2. CASE m # loc + 1
   <4> DEFINE j == m - (loc + 1)
   <4>1. j \in 1 .. i - 1 /\ loc + 1 + j = m /\ j \in 1 .. Len(rs)
    <5> HIDE DEF rs, loc, s
    <5> QED BY <1>3, <1>9, <3>2
   <4> HIDE DEF j
   <4>2. rs[j].port # rs[i].port /\ rs[j] = s[m] BY <1>8, <2>3, <4>1
   <4> QED BY <2>2, <4>2
  <3> QED BY <3>1, <3>2
 <2> HIDE DEF n
 <2>6. Due(x, t) BY <2>2, <2>4, <2>5 DEF Due
 <2> QED BY <2>2, <2>6
<1> QED BY <1>3, <1>7, <1>11, <1>12 DEF new

VesselLoads(s, l, f, m) == [[[s EXCEPT !.last_loc = l] EXCEPT !.full = f] EXCEPT !.empty = m]

\* What a vessel is after a load.
LEMMA VesselLoaded ==
  ASSUME NEW s \in VesselState, NEW l \in Nat, NEW f \in Nat, NEW m \in Nat
  PROVE  LET r == VesselLoads(s, l, f, m)
         IN /\ r \in VesselState /\ r.full = f /\ r.empty = m
            /\ r.next_loc = s.next_loc /\ r.parking = s.parking /\ r.at = s.at
BY Zenon DEF VesselState, VesselLoads

\* The three assignments of a load to the vessel as one.
LEMMA UpdatesOfLoad ==
  ASSUME NEW f \in [Vessels -> VesselState], NEW v \in Vessels, NEW l, NEW a, NEW b
  PROVE  [f EXCEPT ![v].last_loc = l, ![v].full = @ + a, ![v].empty = @ - b]
            = [f EXCEPT ![v] = [[[f[v] EXCEPT !.last_loc = l] EXCEPT !.full = f[v].full + a]
                                   EXCEPT !.empty = f[v].empty - b]]
BY DEF VesselState

\* The books after a load.
LEMMA LoadBooks ==
  ASSUME CimInv, NEW v \in Vessels, NEW p \in Ports, NEW loads \in Loads(v, p), NEW new, Handler(new),
         new = PlannedDischarges(v, loads), vessel[v].next_loc < Len(stops[v]),
         Head(agenda[now]).type \notin CargoTypes,
         \A t \in Ticks : \A x \in ToSet(new[t]) : x.type = "DISCHARGE_FULL" /\ x.v = v,
         NEW total, total = SumFunctionOnSet(loads, DOMAIN loads),
         \A x \in Ports : /\ port'[x].full = port[x].full - (IF x = p THEN total ELSE 0)
                          /\ port'[x].on_shipper = port[x].on_shipper
                          /\ port'[x].on_consignee = port[x].on_consignee,
         \A x \in Vessels : vessel'[x].full = vessel[x].full + (IF x = v THEN total ELSE 0),
         \A x, y \in Ports : full_on_ports'[<<x, y>>]
                                = full_on_ports[<<x, y>>] - (IF x = p THEN LoadedFor(v, loads, y) ELSE 0),
         \A x \in Vessels, y \in Ports : full_on_vessels'[<<x, y>>]
                                = full_on_vessels[<<x, y>>] + (IF x = v THEN LoadedFor(v, loads, y) ELSE 0)
  PROVE  BooksInv' /\ port'[p].full \in Nat /\ total \in Nat
<1> DEFINE e == Head(agenda[now])
           g == [q \in Ports |-> LoadedFor(v, loads, q)]
<1>1. TypeInv /\ FitInv /\ CountInv /\ LadenFit BY DEF CimInv, FitInv
<1>2. \A q \in Ports : LoadedFor(v, loads, q) \in Nat /\ LoadedFor(v, loads, q) <= full_on_ports[<<p, q>>]
  BY <1>1, LoadsWait
<1>3. SumFunctionOnSet(g, Ports) = total BY <1>1, LoadsAddUp
<1>4. total \in Nat BY <1>1, LoadsFit
<1>5. ASSUME NEW type \in CargoTypes, NEW place
      PROVE  /\ PlannedSum(Carrying(type, place), agenda')
                  = PlannedSum(Carrying(type, place), agenda) + PlannedSum(Carrying(type, place), new)
             /\ PlannedSum(Carrying(type, place), agenda) \in Nat
             /\ PlannedSum(Carrying(type, place), new) \in Int
             /\ Carrying(type, place) \in [Event -> Int]
 <2> DEFINE w == Carrying(type, place)
 <2>1. /\ PlannedSum(w, agenda')
            = (PlannedSum(w, agenda) - (IF e.type = type /\ Place(e) = place THEN e.n ELSE 0)) + PlannedSum(w, new)
       /\ PlannedSum(w, agenda) \in Nat /\ PlannedSum(w, new) \in Int /\ w \in [Event -> Int]
   BY CargoChange
 <2>2. e.type # type OBVIOUS
 <2> HIDE DEF w, e
 <2> QED BY <2>1, <2>2 DEF w
<1>6. new \in Agenda BY DEF Handler, Handles
<1>7. ASSUME NEW type \in CargoTypes, NEW place, type # "DISCHARGE_FULL" \/ \A q : place # <<v, q>>
      PROVE  PlannedSum(Carrying(type, place), new) = 0
 <2> DEFINE w == Carrying(type, place)
 <2>1. ASSUME NEW t \in Ticks, NEW x \in ToSet(new[t]) PROVE w[x] = 0
  <3>1. x.type = "DISCHARGE_FULL" /\ x.v = v OBVIOUS
  <3>2. new[t] \in Seq(Event) BY <1>6 DEF Agenda
  <3>3. x \in Event BY <2>1, <3>2 DEF ToSet
  <3>4. w[x] = IF x.type = type /\ Place(x) = place THEN x.n ELSE 0 BY <3>3, WeightOf
  <3>5. Place(x) = <<v, x.p>> BY <3>1 DEF Place
  <3> QED BY <1>7, <3>1, <3>4, <3>5
 <2>2. w \in [Event -> Int] BY <1>5
 <2> HIDE DEF w
 <2> QED BY <1>6, <2>1, <2>2, PlannedOfNone DEF w
<1> HIDE DEF e
<1>8. ASSUME NEW x \in Ports PROVE PortBooks(x)' /\ (x = p => port'[p].full \in Nat)
 <2>1. PortBooks(x) BY <1>1 DEF CountInv, BooksInv
 <2>2. PlannedSum(Carrying("RETURN_FULL", x), agenda') = PlannedSum(Carrying("RETURN_FULL", x), agenda)
  <3>1. "RETURN_FULL" \in CargoTypes /\ "RETURN_FULL" # "DISCHARGE_FULL" BY DEF CargoTypes
  <3> QED BY <1>5, <1>7, <3>1
 <2>3. PlannedSum(Carrying("RETURN_EMPTY", x), agenda') = PlannedSum(Carrying("RETURN_EMPTY", x), agenda)
  <3>1. "RETURN_EMPTY" \in CargoTypes /\ "RETURN_EMPTY" # "DISCHARGE_FULL" BY DEF CargoTypes
  <3> QED BY <1>5, <1>7, <3>1
 <2>4. \A q \in Ports : full_on_ports[<<x, q>>] \in Nat BY <1>1 DEF TypeInv
 <2>5. port'[x].full = SumFunctionOnSet([q \in Ports |-> full_on_ports'[<<x, q>>]], Ports)
       /\ (x = p => port'[x].full \in Nat)
  <3> DEFINE f == [q \in Ports |-> full_on_ports[<<x, q>>]]
             h == [q \in Ports |-> full_on_ports'[<<x, q>>]]
  <3>1. port[x].full = SumFunctionOnSet(f, Ports) BY <2>1 DEF PortBooks
  <3>2. CASE x = p
   <4>1. \A q \in Ports : f[q] \in Int /\ g[q] \in Int /\ h[q] \in Nat /\ f[q] = h[q] + g[q]
     BY <1>2, <2>4, <3>2
   <4>2. port'[x].full = port[x].full - total BY <3>2
   <4> HIDE DEF f, g, h
   <4>3. \A q \in Ports : h[q] \in Int /\ g[q] \in Int /\ f[q] = h[q] + g[q] BY <4>1
   <4>4. SumFunctionOnSet(f, Ports) = SumFunctionOnSet(h, Ports) + SumFunctionOnSet(g, Ports)
     BY <4>3, RowsAdd
   <4>5. IsFiniteSet(Ports) /\ \A q \in Ports : h[q] \in Nat BY <4>1, CimAssumption
   <4>6. SumFunctionOnSet(h, Ports) \in Nat BY <4>5, SumIsNatural
   <4>7. port'[x].full = SumFunctionOnSet(h, Ports) BY <1>3, <1>4, <3>1, <4>2, <4>4, <4>6
   <4> QED BY <4>6, <4>7 DEF h
  <3>3. CASE x # p
   <4>1. \A q \in Ports : f[q] \in Int /\ h[q] = f[q] BY <2>4, <3>3
   <4>2. port'[x].full = port[x].full
    <5>1. port[x].full \in Nat BY <1>1 DEF TypeInv
    <5> QED BY <3>3, <5>1
   <4> HIDE DEF f, h
   <4>3. (\A q \in Ports : f[q] \in Int) /\ (\A q \in Ports : h[q] = f[q]) BY <4>1
   <4>4. SumFunctionOnSet(h, Ports) = SumFunctionOnSet(f, Ports) BY <4>3, RowsAgree
   <4> QED BY <3>1, <3>3, <4>2, <4>4 DEF h
  <3> QED BY <3>2, <3>3
 <2> QED BY <2>1, <2>2, <2>3, <2>5 DEF PortBooks
<1>9. ASSUME NEW x \in Vessels PROVE VesselBooks(x)'
 <2>1. VesselBooks(x) BY <1>1 DEF CountInv, BooksInv
 <2>2. \A q \in Ports : full_on_vessels[<<x, q>>] \in Nat BY <1>1 DEF TypeInv
 <2>3. \A q \in Ports : full_on_vessels'[<<x, q>>] = PlannedSum(Carrying("DISCHARGE_FULL", <<x, q>>), agenda')
  <3> SUFFICES ASSUME NEW q \in Ports
               PROVE  full_on_vessels'[<<x, q>>] = PlannedSum(Carrying("DISCHARGE_FULL", <<x, q>>), agenda')
    OBVIOUS
  <3> DEFINE w == Carrying("DISCHARGE_FULL", <<x, q>>)
  <3>1. PlannedSum(w, agenda') = PlannedSum(w, agenda) + PlannedSum(w, new) /\ PlannedSum(w, agenda) \in Nat
    BY <1>5 DEF CargoTypes
  <3>2. full_on_vessels[<<x, q>>] = PlannedSum(w, agenda) BY <2>1 DEF VesselBooks
  <3>3. CASE x = v
   <4>1. PlannedSum(w, new) = LoadedFor(v, loads, q) BY <1>1, <3>3, DischargesAddUp
   <4>2. full_on_vessels'[<<x, q>>] = full_on_vessels[<<x, q>>] + LoadedFor(v, loads, q)
     BY <3>3
   <4> HIDE DEF w
   <4> QED BY <3>1, <3>2, <4>1, <4>2 DEF w
  <3>4. CASE x # v
   <4>1. PlannedSum(w, new) = 0
    <5>1. "DISCHARGE_FULL" \in CargoTypes /\ \A y : <<x, q>> # <<v, y>>
      BY <3>4 DEF CargoTypes
    <5> QED BY <1>7, <5>1
   <4>2. full_on_vessels'[<<x, q>>] = full_on_vessels[<<x, q>>] BY <2>2, <3>4
   <4> HIDE DEF w
   <4> QED BY <3>1, <3>2, <4>1, <4>2 DEF w
  <3> QED BY <3>3, <3>4
 <2>4. vessel'[x].full = SumFunctionOnSet([q \in Ports |-> full_on_vessels'[<<x, q>>]], Ports)
  <3> DEFINE f == [q \in Ports |-> full_on_vessels[<<x, q>>]]
             h == [q \in Ports |-> full_on_vessels'[<<x, q>>]]
  <3>1. vessel[x].full = SumFunctionOnSet(f, Ports) BY <2>1 DEF VesselBooks
  <3>a. vessel[x].full \in Nat BY <1>1 DEF TypeInv
  <3>2. CASE x = v
   <4>1. ASSUME NEW q \in Ports PROVE f[q] \in Int /\ g[q] \in Int /\ h[q] = f[q] + g[q]
    <5>1. full_on_vessels'[<<x, q>>] = full_on_vessels[<<x, q>>] + LoadedFor(v, loads, q)
      BY <3>2
    <5>2. full_on_vessels[<<x, q>>] \in Int BY <2>2
    <5>a. LoadedFor(v, loads, q) \in Nat BY <1>2, Zenon
    <5>3. LoadedFor(v, loads, q) \in Int BY <5>a
    <5> QED BY <5>1, <5>2, <5>3
   <4>2. vessel'[x].full = vessel[x].full + total BY <3>2
   <4> HIDE DEF f, g, h
   <4>3. SumFunctionOnSet(h, Ports) = SumFunctionOnSet(f, Ports) + SumFunctionOnSet(g, Ports)
     BY <4>1, RowsAdd
   <4> QED BY <1>3, <3>1, <4>2, <4>3 DEF h
  <3>3. CASE x # v
   <4>1. \A q \in Ports : f[q] \in Int /\ h[q] = f[q] BY <2>2, <3>3
   <4>2. vessel'[x].full = vessel[x].full BY <3>a, <3>3
   <4> HIDE DEF f, h
   <4>3. (\A q \in Ports : f[q] \in Int) /\ (\A q \in Ports : h[q] = f[q]) BY <4>1
   <4>4. SumFunctionOnSet(h, Ports) = SumFunctionOnSet(f, Ports) BY <4>3, RowsAgree
   <4> QED BY <3>1, <4>2, <4>4 DEF h
  <3> QED BY <3>2, <3>3
 <2> QED BY <2>3, <2>4 DEF VesselBooks
<1> QED BY <1>4, <1>8, <1>9 DEF BooksInv

\* What a port keeps of a load, and what it gets of the empties put ashore.
LEMMA PortLoaded ==
  ASSUME NEW s \in PortState, NEW f \in Nat, NEW m \in Nat
  PROVE  LET r == [[s EXCEPT !.full = f] EXCEPT !.empty = m]
         IN /\ r \in PortState /\ r.full = f /\ r.empty = m
            /\ r.on_shipper = s.on_shipper /\ r.on_consignee = s.on_consignee
BY Zenon DEF PortState

\* The two assignments of a load to the port as one.
LEMMA UpdatesOfPort ==
  ASSUME NEW f \in [Ports -> PortState], NEW p \in Ports, NEW a, NEW b
  PROVE  [f EXCEPT ![p].full = @ - a, ![p].empty = @ + b]
            = [f EXCEPT ![p] = [[f[p] EXCEPT !.full = f[p].full - a] EXCEPT !.empty = f[p].empty + b]]
BY DEF PortState

\* What _on_full_load does once it has its event.
LoadsAndPlans(v, p) ==
  \E loads \in Loads(v, p) :
       LET total == SumFunctionOnSet(loads, DOMAIN loads)
           early == EarlyDischarge(v, vessel[v].full + total)
       IN
       /\ vessel' = [vessel EXCEPT ![v].last_loc = vessel[v].next_loc,
                                   ![v].full = @ + total, ![v].empty = @ - early]
       /\ port' = [port EXCEPT ![p].full = @ - total, ![p].empty = @ + early]
       /\ full_on_ports' = [pq \in Ports \X Ports |->
            full_on_ports[pq] - (IF pq[1] = p THEN LoadedFor(v, loads, pq[2]) ELSE 0)]
       /\ full_on_vessels' = [vp \in Vessels \X Ports |->
            full_on_vessels[vp] + (IF vp[1] = v THEN LoadedFor(v, loads, vp[2]) ELSE 0)]
       /\ agenda' = [t \in Ticks |-> HandledOnly[t] \o Discharges(v, loads, t)]

\* Loading keeps the invariant: what is taken from the port is aboard, has a
\* discharge planned at the stop it is bound for, and makes room for itself.
LEMMA FullLoadKeeps ==
  ASSUME CimInv, OnFullLoad
  PROVE  CimInv'
<1> DEFINE e == Head(agenda[now])
<1>1. TypeInv /\ TimeInv /\ FitInv /\ SailInv /\ ActionInv /\ DueInv /\ CountInv /\ LadenFit
  BY DEF CimInv, FitInv
<1>2. NextIs("LOAD_FULL") /\ joint' = joint /\ stops' = stops /\ now' = now /\ pc' = pc
  BY DEF OnFullLoad
<1>3. /\ agenda[now] # << >> /\ pc = "execute" /\ e \in Event /\ e.type = "LOAD_FULL" /\ e \in ToSet(agenda[now])
      /\ now \in Ticks /\ agenda \in Agenda
  BY <1>1, <1>2, FrontEvent
<1>4. PICK v \in Vessels : v = e.v BY <1>3, EventFields
<1>5. PICK p \in Ports : p = e.p BY <1>3, EventFields
<1>6. PICK loads \in Loads(v, p) :
       LET total == SumFunctionOnSet(loads, DOMAIN loads)
           early == EarlyDischarge(v, vessel[v].full + total)
       IN
       /\ vessel' = [vessel EXCEPT ![v].last_loc = vessel[v].next_loc,
                                   ![v].full = @ + total, ![v].empty = @ - early]
       /\ port' = [port EXCEPT ![p].full = @ - total, ![p].empty = @ + early]
       /\ full_on_ports' = [pq \in Ports \X Ports |->
            full_on_ports[pq] - (IF pq[1] = p THEN LoadedFor(v, loads, pq[2]) ELSE 0)]
       /\ full_on_vessels' = [vp \in Vessels \X Ports |->
            full_on_vessels[vp] + (IF vp[1] = v THEN LoadedFor(v, loads, vp[2]) ELSE 0)]
       /\ agenda' = [t \in Ticks |-> HandledOnly[t] \o Discharges(v, loads, t)]
 <2>1. LoadsAndPlans(e.v, e.p) BY DEF OnFullLoad, LoadsAndPlans
 <2> HIDE DEF e
 <2>2. LoadsAndPlans(v, p) BY <1>4, <1>5, <2>1, Zenon
 <2> QED BY <2>2 DEF LoadsAndPlans
<1>7. PICK total : total = SumFunctionOnSet(loads, DOMAIN loads) OBVIOUS
<1>8. PICK early : early = EarlyDischarge(v, vessel[v].full + total) OBVIOUS
<1>9. PICK loc : loc = vessel[v].next_loc OBVIOUS
<1>10. PICK new : new = PlannedDischarges(v, loads) OBVIOUS
<1>11. /\ vessel' = [vessel EXCEPT ![v].last_loc = loc, ![v].full = @ + total, ![v].empty = @ - early]
       /\ port' = [port EXCEPT ![p].full = @ - total, ![p].empty = @ + early]
       /\ full_on_ports' = [pq \in Ports \X Ports |->
            full_on_ports[pq] - (IF pq[1] = p THEN LoadedFor(v, loads, pq[2]) ELSE 0)]
       /\ full_on_vessels' = [vp \in Vessels \X Ports |->
            full_on_vessels[vp] + (IF vp[1] = v THEN LoadedFor(v, loads, vp[2]) ELSE 0)]
       /\ agenda' = [t \in Ticks |-> HandledOnly[t] \o Discharges(v, loads, t)]
  BY <1>6, <1>7, <1>8, <1>9
<1>12. /\ vessel[v].next_loc < Len(stops[v]) /\ new \in Agenda
       /\ \A t \in Ticks : t <= now => new[t] = << >>
       /\ \A t \in Ticks : \A x \in ToSet(new[t]) :
                 x.type = "DISCHARGE_FULL" /\ x.v = v /\ Due(x, t)
  BY <1>1, <1>2, <1>4, <1>5, <1>10, LoadPlan
<1>13. Handler(new)
 <2>1. \A t \in Ticks : Discharges(v, loads, t) = new[t] BY <1>10 DEF PlannedDischarges
 <2>2. agenda' = [t \in Ticks |-> HandledOnly[t] \o new[t]] BY <1>11, <2>1
 <2>3. Handles(agenda, now, new, [t \in Ticks |-> HandledOnly[t] \o new[t]])
   BY <1>3, <1>12, PlanHandles
 <2>4. Handles(agenda, now, new, agenda') BY <2>2, <2>3, Zenon
 <2> QED BY <1>2, <1>3, <2>4 DEF Handler
<1>14. vessel \in [Vessels -> VesselState] /\ port \in [Ports -> PortState] /\ loc \in Nat
  BY <1>1, <1>9 DEF TypeInv, VesselState, PortState
<1>15. vessel[v].full \in Nat /\ vessel[v].empty \in Nat /\ port[p].full \in Nat /\ port[p].empty \in Nat
  BY <1>14, VesselFields DEF PortState
<1>16. total \in Nat /\ (vessel[v].full + total) * Volume <= Capacity[v]
  BY <1>1, <1>7, <1>12, LoadsFit
<1>17. early \in Nat /\ early <= vessel[v].empty
       /\ (Capacity[v] % Volume = 0 => ((vessel[v].full + total) + (vessel[v].empty - early)) * Volume <= Capacity[v])
 <2> DEFINE f == vessel[v].full + total
            m == vessel[v].empty
 <2>1. Capacity[v] \in Nat /\ Volume \in Nat \ {0} BY CimAssumption
 <2>2. f \in Nat /\ m \in Nat /\ f * Volume <= Capacity[v] BY <1>15, <1>16
 <2>3. early = IF (f + m) * Volume > Capacity[v] THEN (f + m) - CeilDiv(Capacity[v], Volume) ELSE 0
   BY <1>8 DEF EarlyDischarge
 <2> HIDE DEF f, m
 <2>4. (f + m) * Volume > Capacity[v] => early = (f + m) - CeilDiv(Capacity[v], Volume)
   BY <2>3
 <2>5. ~((f + m) * Volume > Capacity[v]) => early = 0 BY <2>3
 <2>6. early \in Nat /\ early <= m /\ (Capacity[v] % Volume = 0 => (f + (m - early)) * Volume <= Capacity[v])
   BY <2>1, <2>2, <2>4, <2>5, EarlyFacts
 <2> QED BY <2>6 DEF f, m
<1> HIDE DEF e
<1>18. \A x \in Vessels :
        /\ vessel'[x].empty = vessel[x].empty - (IF x = v THEN early ELSE 0)
        /\ vessel'[x].full = vessel[x].full + (IF x = v THEN total ELSE 0)
        /\ vessel'[x].next_loc = vessel[x].next_loc
        /\ vessel'[x].parking = vessel[x].parking /\ vessel'[x].at = vessel[x].at
        /\ vessel'[x] \in VesselState
 <2> DEFINE f == vessel[v].full + total
            m == vessel[v].empty - early
            r == VesselLoads(vessel[v], loc, f, m)
 <2>1. vessel' = [vessel EXCEPT ![v] = r]
  <3>1. [vessel EXCEPT ![v].last_loc = loc, ![v].full = @ + total, ![v].empty = @ - early]
           = [vessel EXCEPT ![v] = [[[vessel[v] EXCEPT !.last_loc = loc] EXCEPT !.full = vessel[v].full + total]
                                 EXCEPT !.empty = vessel[v].empty - early]]
    BY <1>14, UpdatesOfLoad, Zenon
  <3>2. r = [[[vessel[v] EXCEPT !.last_loc = loc] EXCEPT !.full = vessel[v].full + total]
                                 EXCEPT !.empty = vessel[v].empty - early]
    BY DEF VesselLoads
  <3> HIDE DEF r
  <3> QED BY <1>11, <3>1, <3>2, Zenon
 <2>2. f \in Nat /\ m \in Nat /\ vessel[v] \in VesselState BY <1>14, <1>15, <1>16, <1>17
 <2>3. /\ r \in VesselState /\ r.full = f /\ r.empty = m
       /\ r.next_loc = vessel[v].next_loc /\ r.parking = vessel[v].parking /\ r.at = vessel[v].at
  <3> HIDE DEF f, m
  <3> QED BY <1>14, <2>2, VesselLoaded
 <2>4. \A x \in Vessels : vessel'[x] = IF x = v THEN r ELSE vessel[x]
  <3> HIDE DEF r
  <3> QED BY <1>14, <2>1
 <2> HIDE DEF r
 <2> SUFFICES ASSUME NEW x \in Vessels
              PROVE  /\ vessel'[x].empty = vessel[x].empty - (IF x = v THEN early ELSE 0)
                     /\ vessel'[x].full = vessel[x].full + (IF x = v THEN total ELSE 0)
                     /\ vessel'[x].next_loc = vessel[x].next_loc
                     /\ vessel'[x].parking = vessel[x].parking /\ vessel'[x].at = vessel[x].at
                     /\ vessel'[x] \in VesselState
   OBVIOUS
 <2>5. CASE x = v BY <2>3, <2>4, <2>5
 <2>6. CASE x # v
  <3>1. vessel'[x] = vessel[x] /\ vessel[x] \in VesselState BY <1>14, <2>4, <2>6
  <3>2. vessel[x].empty \in Nat /\ vessel[x].full \in Nat BY <3>1, VesselFields
  <3> QED BY <2>6, <3>1, <3>2
 <2> QED BY <2>5, <2>6
<1>19. \A x \in Ports : port'[x] = IF x = p THEN [[port[p] EXCEPT !.full = port[p].full - total] EXCEPT !.empty = port[p].empty + early]
                                   ELSE port[x]
 <2> DEFINE r == [[port[p] EXCEPT !.full = port[p].full - total] EXCEPT !.empty = port[p].empty + early]
 <2>1. [port EXCEPT ![p].full = @ - total, ![p].empty = @ + early] = [port EXCEPT ![p] = r]
   BY <1>14, UpdatesOfPort, Zenon
 <2>2. port' = [port EXCEPT ![p] = r] BY <1>11, <2>1, Zenon
 <2> HIDE DEF r
 <2>3. \A x \in Ports : port'[x] = IF x = p THEN r ELSE port[x] BY <1>14, <2>2
 <2> QED BY <2>3 DEF r
<1>20. \A x \in Ports :
        /\ port'[x].full = port[x].full - (IF x = p THEN total ELSE 0)
        /\ port'[x].empty = port[x].empty + (IF x = p THEN early ELSE 0)
        /\ port'[x].on_shipper = port[x].on_shipper
        /\ port'[x].on_consignee = port[x].on_consignee
 <2> SUFFICES ASSUME NEW x \in Ports
              PROVE  /\ port'[x].full = port[x].full - (IF x = p THEN total ELSE 0)
                     /\ port'[x].empty = port[x].empty + (IF x = p THEN early ELSE 0)
                     /\ port'[x].on_shipper = port[x].on_shipper
                     /\ port'[x].on_consignee = port[x].on_consignee
   OBVIOUS
 <2>1. port[x] \in PortState BY <1>14
 <2>2. CASE x = p
  <3> DEFINE f == port[p].full - total
             m == port[p].empty + early
  <3>1. port'[x] = [[port[p] EXCEPT !.full = f] EXCEPT !.empty = m] /\ port[p] \in PortState
    BY <1>14, <1>19, <2>2
  <3> HIDE DEF f, m
  <3>2. /\ port'[x].full = f /\ port'[x].empty = m
        /\ port'[x].on_shipper = port[p].on_shipper /\ port'[x].on_consignee = port[p].on_consignee
    BY <3>1 DEF PortState
  <3> QED BY <2>2, <3>2 DEF f, m
 <2>3. CASE x # p BY <1>19, <2>1, <2>3 DEF PortState
 <2> QED BY <2>2, <2>3
<1>21. /\ \A x, y \in Ports : full_on_ports'[<<x, y>>]
                                = full_on_ports[<<x, y>>] - (IF x = p THEN LoadedFor(v, loads, y) ELSE 0)
       /\ \A x \in Vessels, y \in Ports : full_on_vessels'[<<x, y>>]
                                = full_on_vessels[<<x, y>>] + (IF x = v THEN LoadedFor(v, loads, y) ELSE 0)
  BY <1>11
<1>22. BooksInv' /\ port'[p].full \in Nat
 <2>1. e.type \notin CargoTypes BY <1>3 DEF CargoTypes
 <2>2. \A t \in Ticks : \A x \in ToSet(new[t]) : x.type = "DISCHARGE_FULL" /\ x.v = v
   BY <1>12
 <2>3. \A x \in Ports : /\ port'[x].full = port[x].full - (IF x = p THEN total ELSE 0)
                        /\ port'[x].on_shipper = port[x].on_shipper
                        /\ port'[x].on_consignee = port[x].on_consignee
   BY <1>20
 <2>4. \A x \in Vessels : vessel'[x].full = vessel[x].full + (IF x = v THEN total ELSE 0)
   BY <1>18
 <2> QED BY <1>7, <1>10, <1>12, <1>13, <1>21, <2>1, <2>2, <2>3, <2>4, LoadBooks DEF e
<1>23. TimeInv' /\ SailInv' /\ ActionInv' /\ agenda' \in [Ticks -> Seq(Event)]
 <2>1. e.type \notin Moves BY <1>3 DEF Moves
 <2>2. \A t \in Ticks : \A x \in ToSet(new[t]) : x.type \in CargoTypes
   BY <1>12 DEF CargoTypes
 <2>3. \A t \in Ticks : t < now => new[t] = << >>
  <3> SUFFICES ASSUME NEW t \in Ticks, t < now PROVE new[t] = << >>
    OBVIOUS
  <3>1. t <= now BY <1>3, TicksFinite
  <3> QED BY <1>12, <3>1
 <2>4. \A x \in Vessels : /\ vessel'[x].next_loc = vessel[x].next_loc
                          /\ vessel'[x].parking = vessel[x].parking /\ vessel'[x].at = vessel[x].at
   BY <1>18
 <2> QED BY <1>1, <1>13, <2>1, <2>2, <2>3, <2>4, HandlerKeeps DEF e
<1>24. TypeInv'
 <2>1. port' \in [Ports -> PortState]
  <3>1. \A x \in Ports : port'[x] \in PortState
   <4> SUFFICES ASSUME NEW x \in Ports PROVE port'[x] \in PortState
     OBVIOUS
   <4>1. CASE x = p
    <5> DEFINE f == port[p].full - total
               m == port[p].empty + early
    <5>1. f \in Nat /\ m \in Nat BY <1>15, <1>17, <1>20, <1>22
    <5>2. port'[x] = [[port[p] EXCEPT !.full = f] EXCEPT !.empty = m] /\ port[p] \in PortState
      BY <1>14, <1>19, <4>1
    <5> HIDE DEF f, m
    <5>3. [[port[p] EXCEPT !.full = f] EXCEPT !.empty = m] \in PortState
      BY <5>1, <5>2, PortLoaded, Zenon
    <5> QED BY <5>2, <5>3, Zenon
   <4>2. CASE x # p BY <1>14, <1>19, <4>2
   <4> QED BY <4>1, <4>2
  <3>2. port' = [x \in Ports |-> port'[x]]
   <4>1. port' = [port EXCEPT ![p].full = @ - total, ![p].empty = @ + early] BY <1>11
   <4>2. DOMAIN port = Ports BY <1>14
   <4> QED BY <4>1, <4>2
  <3> QED BY <3>1, <3>2
 <2>2. vessel' \in [Vessels -> VesselState]
  <3>1. vessel' = [x \in Vessels |-> vessel'[x]]
   <4>1. vessel' = [vessel EXCEPT ![v].last_loc = loc, ![v].full = @ + total, ![v].empty = @ - early]
     BY <1>11
   <4>2. DOMAIN vessel = Vessels BY <1>14
   <4> QED BY <4>1, <4>2
  <3> QED BY <1>18, <3>1
 <2>3. \A y \in Ports : /\ LoadedFor(v, loads, y) \in Nat /\ LoadedFor(v, loads, y) <= full_on_ports[<<p, y>>]
   BY <1>1, <1>12, LoadsWait
 <2>4. full_on_ports' \in [Ports \X Ports -> Nat]
  <3>1. \A x, y \in Ports : full_on_ports[<<x, y>>] \in Nat BY <1>1 DEF TypeInv
  <3>2. \A x, y \in Ports : full_on_ports'[<<x, y>>] \in Nat
   <4> SUFFICES ASSUME NEW x \in Ports, NEW y \in Ports PROVE full_on_ports'[<<x, y>>] \in Nat
     OBVIOUS
   <4>1. full_on_ports'[<<x, y>>] = full_on_ports[<<x, y>>] - (IF x = p THEN LoadedFor(v, loads, y) ELSE 0)
     BY <1>21
   <4>2. LoadedFor(v, loads, y) \in Nat /\ LoadedFor(v, loads, y) <= full_on_ports[<<p, y>>]
     BY <2>3, Zenon
   <4>3. full_on_ports[<<x, y>>] \in Nat BY <3>1
   <4> QED BY <4>1, <4>2, <4>3
  <3>3. full_on_ports' = [pq \in Ports \X Ports |-> full_on_ports'[pq]] BY <1>11
  <3> QED BY <3>2, <3>3
 <2>5. full_on_vessels' \in [Vessels \X Ports -> Nat]
  <3>1. \A x \in Vessels, y \in Ports : full_on_vessels[<<x, y>>] \in Nat
    BY <1>1 DEF TypeInv
  <3>2. \A x \in Vessels, y \in Ports : full_on_vessels'[<<x, y>>] \in Nat
   <4> SUFFICES ASSUME NEW x \in Vessels, NEW y \in Ports PROVE full_on_vessels'[<<x, y>>] \in Nat
     OBVIOUS
   <4>1. full_on_vessels'[<<x, y>>] = full_on_vessels[<<x, y>>] + (IF x = v THEN LoadedFor(v, loads, y) ELSE 0)
     BY <1>21
   <4>2. LoadedFor(v, loads, y) \in Nat BY <2>3, Zenon
   <4>3. full_on_vessels[<<x, y>>] \in Nat BY <3>1
   <4> QED BY <4>1, <4>2, <4>3
  <3>3. full_on_vessels' = [vp \in Vessels \X Ports |-> full_on_vessels'[vp]] BY <1>11
  <3> QED BY <3>2, <3>3
 <2> QED BY <1>1, <1>2, <1>23, <2>1, <2>2, <2>4, <2>5 DEF TypeInv, PortState, VesselState
<1>25. FitInv'
 <2>1. LadenFit'
  <3> SUFFICES ASSUME NEW x \in Vessels PROVE vessel'[x].full * Volume <= Capacity[x]
    BY DEF LadenFit
  <3>1. CASE x = v
   <4>1. vessel'[x].full = vessel[v].full + total BY <1>18, <3>1
   <4> QED BY <1>16, <3>1, <4>1
  <3>2. CASE x # v
   <4>1. vessel'[x].full = vessel[x].full
    <5>1. vessel[x].full \in Nat BY <1>14, VesselFields
    <5> QED BY <1>18, <3>2, <5>1
   <4> QED BY <1>1, <4>1 DEF LadenFit
  <3> QED BY <3>1, <3>2
 <2>2. ASSUME WholeContainers, CapacityRespected, NEW x \in Vessels
       PROVE  (vessel'[x].full + vessel'[x].empty) * Volume <= Capacity[x] /\ vessel'[x].empty >= 0
  <3>1. vessel[x].full \in Nat /\ vessel[x].empty \in Nat /\ vessel'[x].empty \in Nat
    BY <1>14, <1>18, VesselFields
  <3>2. CASE x = v
   <4>1. vessel'[x].full = vessel[v].full + total /\ vessel'[x].empty = vessel[v].empty - early
     BY <1>18, <3>2
   <4>2. Capacity[v] % Volume = 0 BY <2>2 DEF WholeContainers
   <4> QED BY <1>17, <3>1, <3>2, <4>1, <4>2
  <3>3. CASE x # v
   <4>1. vessel'[x].full = vessel[x].full /\ vessel'[x].empty = vessel[x].empty
     BY <1>18, <3>1, <3>3
   <4>2. (vessel[x].full + vessel[x].empty) * Volume <= Capacity[x]
     BY <2>2 DEF CapacityRespected
   <4> QED BY <3>1, <4>1, <4>2
  <3> QED BY <3>2, <3>3
 <2> QED BY <1>1, <2>1, <2>2 DEF FitInv, CapacityRespected
<1>26. DueInv'
 <2>1. \A t \in Ticks : \A x \in ToSet(new[t]) : Expected(x, t)
  <3> SUFFICES ASSUME NEW t \in Ticks, NEW x \in ToSet(new[t]) PROVE Expected(x, t)
    OBVIOUS
  <3>1. x.type = "DISCHARGE_FULL" /\ Due(x, t) BY <1>12
  <3> QED BY <3>1 DEF Expected
 <2>2. NoLate(agenda'[now])
  <3>1. agenda'[now] = Tail(agenda[now])
   <4>1. new[now] = << >>
    <5>1. now <= now BY <1>3, TicksFinite
    <5> QED BY <1>3, <1>12, <5>1
   <4>2. HandledOnly[now] = Tail(agenda[now]) BY <1>3, HandledOnlyHandles
   <4>3. Discharges(v, loads, now) = new[now] BY <1>3, <1>10 DEF PlannedDischarges
   <4>4. agenda'[now] = Tail(agenda[now]) \o << >> BY <1>3, <1>11, <4>1, <4>2, <4>3
   <4>5. agenda[now] \in Seq(Event) BY <1>3 DEF Agenda
   <4> QED BY <1>3, <4>4, <4>5
  <3>2. NoLate(agenda[now]) /\ agenda[now] \in Seq(Event) BY <1>1, <1>3 DEF DueInv, Agenda
  <3> QED BY <1>3, <3>1, <3>2, NoLateKept
 <2>4. \A x \in Vessels : /\ vessel'[x].next_loc = vessel[x].next_loc
                          /\ vessel'[x].parking = vessel[x].parking
   BY <1>18
 <2> QED BY <1>1, <1>13, <2>1, <2>2, <2>4, DueKept
<1>27. CountInv'
 <2> DEFINE d == early - total
 <2>1. \A q \in Ports : PortTotal(q)' = PortTotal(q) + IF q = p THEN d ELSE 0
  <3> SUFFICES ASSUME NEW x \in Ports PROVE PortTotal(x)' = PortTotal(x) + IF x = p THEN d ELSE 0
    OBVIOUS
  <3>1. port[x] \in PortState BY <1>14
  <3> QED BY <1>16, <1>17, <1>20, <3>1 DEF PortTotal, PortState
 <2>2. \A x \in Vessels : VesselTotal(x)' = VesselTotal(x) + IF x = v THEN 0 - d ELSE 0
  <3> SUFFICES ASSUME NEW x \in Vessels PROVE VesselTotal(x)' = VesselTotal(x) + IF x = v THEN 0 - d ELSE 0
    OBVIOUS
  <3>1. vessel[x].full \in Nat /\ vessel[x].empty \in Nat BY <1>14, VesselFields
  <3> QED BY <1>16, <1>17, <1>18, <3>1 DEF VesselTotal
 <2>3. d \in Int BY <1>16, <1>17
 <2> HIDE DEF d
 <2>4. ContainersConserved' BY <1>1, <2>1, <2>2, <2>3, TotalsKept DEF CountInv
 <2> QED BY <1>22, <2>4 DEF CountInv
<1> QED BY <1>23, <1>24, <1>25, <1>26, <1>27 DEF CimInv

\* Nothing of the current tick waits in another tick.
LEMMA OnlyNow ==
  ASSUME TypeInv, TimeInv, NEW t \in Ticks, t # now, NEW i \in DOMAIN agenda[t]
  PROVE  agenda[t][i] \in Event /\ agenda[t][i].type \notin OfToday
<1>1. agenda[t] \in Seq(Event) BY Types
<1>2. agenda[t][i] \in Event /\ agenda[t][i] \in ToSet(agenda[t])
 <2> DEFINE s == agenda[t]
 <2>1. s \in Seq(Event) /\ i \in DOMAIN s BY <1>1
 <2> HIDE DEF s
 <2>2. s[i] \in Event /\ s[i] \in ToSet(s) BY <2>1 DEF ToSet
 <2> QED BY <2>2 DEF s
<1> QED BY <1>2 DEF TimeInv, OfToday

\* The books and the capacities do not change while containers stay put.
LEMMA BooksStay ==
  ASSUME TypeInv, CountInv, FitInv, port' = port, vessel' = vessel,
         full_on_ports' = full_on_ports, full_on_vessels' = full_on_vessels,
         \A type \in CargoTypes : \A place :
           PlannedSum(Carrying(type, place), agenda') = PlannedSum(Carrying(type, place), agenda)
  PROVE  CountInv' /\ FitInv'
<1>1. BooksInv'
 <2>1. "RETURN_FULL" \in CargoTypes /\ "RETURN_EMPTY" \in CargoTypes /\ "DISCHARGE_FULL" \in CargoTypes
   BY DEF CargoTypes
 <2>2. ASSUME NEW p \in Ports PROVE PortBooks(p)'
  <3>1. PortBooks(p) BY DEF CountInv, BooksInv
  <3> QED BY <2>1, <3>1 DEF PortBooks
 <2>3. ASSUME NEW v \in Vessels PROVE VesselBooks(v)'
  <3>1. VesselBooks(v) BY DEF CountInv, BooksInv
  <3> QED BY <2>1, <3>1 DEF VesselBooks
 <2> QED BY <2>2, <2>3 DEF BooksInv
<1>2. ContainersConserved'
 <2>1. \A q \in Ports : PortTotal(q)' = PortTotal(q) BY DEF PortTotal
 <2>2. \A u \in Vessels : VesselTotal(u)' = VesselTotal(u) BY DEF VesselTotal
 <2> QED BY <2>1, <2>2, TotalsSame DEF CountInv
<1>3. FitInv'
 <2>1. (LadenFit => LadenFit') /\ (CapacityRespected => CapacityRespected') BY VesselsSame
 <2> QED BY <2>1 DEF FitInv
<1> QED BY <1>1, <1>2, <1>3 DEF CountInv

\* When a tick is over every arrival of it has been handled.
LEMMA PostStepKeeps ==
  ASSUME CimInv, PostStep
  PROVE  CimInv'
<1>1. TypeInv /\ TimeInv /\ FitInv /\ SailInv /\ ActionInv /\ DueInv /\ CountInv
  BY DEF CimInv
<1>2. /\ pc = "execute" /\ agenda[now] = << >>
      /\ joint' = joint /\ stops' = stops /\ agenda' = agenda /\ port' = port /\ vessel' = vessel
      /\ full_on_ports' = full_on_ports /\ full_on_vessels' = full_on_vessels
      /\ (now = MaxTick /\ pc' = "end" /\ now' = now) \/ (now # MaxTick /\ pc' = "step" /\ now' = now + 1)
  BY DEF PostStep
<1>3. agenda \in Agenda /\ now \in Ticks /\ now \in Nat /\ \A t \in Ticks : agenda[t] \in Seq(Event)
  BY <1>1, Types
<1>4. now' \in 0 .. MaxTick
 <2>1. now \in 0 .. MaxTick /\ MaxTick \in Nat BY <1>1, CimAssumption DEF TypeInv
 <2> QED BY <1>2, <2>1
<1>5. now' \in Ticks /\ now' \in Nat /\ now <= now' /\ (now' # now => now' = now + 1 /\ pc' = "step")
  BY <1>2, <1>3, <1>4, TicksFinite
<1>6. pc' \in {"step", "end"} /\ (pc' = "step" => now' = now + 1) /\ (pc' = "end" => now' = now)
  BY <1>2
<1>7. ASSUME NEW t \in Ticks, NEW i \in DOMAIN agenda[t]
      PROVE  agenda[t][i] \in Event /\ agenda[t][i].type \notin OfToday /\ t # now
 <2>1. t # now
  <3>1. DOMAIN << >> = {} OBVIOUS
  <3> QED BY <1>2, <3>1
 <2> QED BY <1>1, <2>1, OnlyNow
<1>8. ASSUME NEW t \in Ticks, NEW e \in ToSet(agenda[t])
      PROVE  e \in Event /\ e.type \notin OfToday
  BY <1>7 DEF ToSet
<1>9. TypeInv' BY <1>1, <1>2, <1>4, <1>6 DEF TypeInv
<1>10. TimeInv'
 <2>1. \A t \in Ticks : t < now' => agenda'[t] = << >>
  <3> SUFFICES ASSUME NEW t \in Ticks, t < now' PROVE agenda[t] = << >>
    BY <1>2
  <3>1. t < now \/ t = now BY <1>3, <1>5, TicksFinite
  <3> QED BY <1>1, <1>2, <3>1 DEF TimeInv
 <2>2. \A t \in Ticks : \A e \in ToSet(agenda'[t]) : e.type \notin OfToday BY <1>2, <1>8
 <2> QED BY <2>1, <2>2 DEF TimeInv, OfToday
<1>11. CountInv' /\ FitInv'
 <2>1. \A type \in CargoTypes : \A place :
          PlannedSum(Carrying(type, place), agenda') = PlannedSum(Carrying(type, place), agenda)
   BY <1>2
 <2> QED BY <1>1, <1>2, <2>1, BooksStay
<1>12. ActionInv'
 <2>1. \A t \in Ticks : \A i \in DOMAIN agenda'[t] : ~IsAction(agenda'[t][i])
   BY <1>2, <1>7 DEF IsAction, OfToday
 <2>2. pc' # "AssertionError" BY <1>6
 <2> QED BY <2>1, <2>2 DEF ActionInv
<1>13. DueInv'
 <2>2. ASSUME NEW t \in Ticks, NEW e \in ToSet(agenda'[t]) PROVE Expected(e, t)'
  <3>1. e \in ToSet(agenda[t]) /\ e.type # "LOAD_FULL" BY <1>2, <1>8, <2>2 DEF OfToday
  <3>2. Expected(e, t) BY <1>1, <3>1 DEF DueInv
  <3>3. ASSUME e.type = "DISCHARGE_FULL" PROVE Due(e, t)'
   <4> DEFINE v == e.v
              loc == vessel[v].next_loc
   <4>1. e \in Event BY <1>3, <3>1 DEF ToSet
   <4>2. Due(e, t) /\ v \in Vessels BY <3>2, <3>3, <4>1, EventFields DEF Expected
   <4>3. loc \in Nat /\ loc < Len(stops[v]) /\ stops \in Schedules
     BY <1>1, <4>2 DEF SailInv, VoyageOf, TypeInv
   <4>4. stops[v][loc + 1].arrive \in Nat
    <5> HIDE DEF loc, v
    <5>1. loc + 1 \in 1 .. Len(stops[v]) BY <4>2, <4>3, ScheduleData
    <5> QED BY <4>2, <4>3, <5>1, ScheduleData
   <4>5. \A m : AtHand(v, m) => AtHand(v, m)' BY <1>2, <1>3, <1>5, <4>4 DEF AtHand
   <4> QED BY <1>2, <4>2, <4>5 DEF Due
  <3> QED BY <3>1, <3>2, <3>3 DEF Expected
 <2>3. NoLate(agenda'[now'])
  <3>1. \A i \in DOMAIN agenda[now'] : agenda[now'][i].type # "VESSEL_ARRIVAL"
    BY <1>5, <1>7 DEF OfToday
  <3> QED BY <1>2, <3>1 DEF NoLate
 <2> QED BY <2>2, <2>3 DEF DueInv
<1>14. SailInv'
 <2> SUFFICES ASSUME NEW v \in Vessels PROVE VoyageOf(v)'
   BY DEF SailInv
 <2> DEFINE loc == vessel[v].next_loc
            s == stops[v]
 <2>1. VoyageOf(v) /\ loc \in Nat BY <1>1 DEF SailInv, TypeInv
 <2>2. loc < Len(s) /\ Len(s) \in Nat /\ loc + 1 \in 1 .. Len(s)
  <3>1. Len(s) \in Nat BY <1>1, ScheduleData DEF TypeInv
  <3>2. loc < Len(s) BY <2>1 DEF VoyageOf
  <3> HIDE DEF s, loc
  <3> QED BY <2>1, <3>1, <3>2
 <2>3. s[loc + 1].arrive \in Nat BY <1>1, <2>2, ScheduleData DEF TypeInv
 <2>4. loc > 0 => s[loc].leave \in Nat
  <3>1. loc > 0 => loc \in 1 .. Len(s)
   <4> HIDE DEF s, loc
   <4> QED BY <2>1, <2>2
  <3> QED BY <1>1, <3>1, ScheduleData DEF TypeInv
 <2>5. Coming(v) \in [Event -> Int] BY WeightTypes, WeightsAreWhole
 <2>6. ~vessel[v].parking => s[loc + 1].arrive # now
  <3>1. Sum(Coming(v), << >>) = 0 BY <2>5, SumOfEvents
  <3> QED BY <1>2, <2>1, <3>1 DEF VoyageOf
 <2>7. Sum(Coming(v), agenda[now']) = 0
  <3> DEFINE q == agenda[now']
  <3>1. q \in Seq(Event) BY <1>3, <1>5
  <3>2. \A i \in DOMAIN q : Coming(v)[q[i]] = 0
   <4> SUFFICES ASSUME NEW i \in DOMAIN q PROVE Coming(v)[q[i]] = 0
     OBVIOUS
   <4>1. q[i] \in Event /\ q[i].type # "VESSEL_ARRIVAL" BY <1>5, <1>7 DEF OfToday
   <4> QED BY <4>1, WeightOf
  <3> HIDE DEF q
  <3>3. Sum(Coming(v), q) = 0 BY <2>5, <3>1, <3>2, SumOfNone
  <3> QED BY <3>3 DEF q
 <2>8. \A t \in Ticks : Sum(Leaving(v), agenda'[t]) = IF LeavesAt(v, t)' THEN 1 ELSE 0
  <3> SUFFICES ASSUME NEW t \in Ticks PROVE Sum(Leaving(v), agenda'[t]) = IF LeavesAt(v, t)' THEN 1 ELSE 0
    OBVIOUS
  <3>1. LeavesAt(v, t)' <=> LeavesAt(v, t) BY <1>2 DEF LeavesAt
  <3> QED BY <1>2, <2>1, <3>1 DEF VoyageOf
 <2>9. loc > 0 => s[loc].leave <= now' /\ (pc' = "step" => s[loc].leave < now')
  <3>1. loc > 0 => s[loc].leave <= now BY <2>1 DEF VoyageOf
  <3> HIDE DEF s, loc
  <3> QED BY <1>3, <1>5, <1>6, <2>4, <3>1
 <2>10. vessel[v].parking => /\ vessel[v].at = s[loc + 1].port /\ s[loc + 1].arrive <= now'
                             /\ pc' = "step" /\ loc > 0 => s[loc + 1].arrive < now'
  <3>1. vessel[v].parking => vessel[v].at = s[loc + 1].port /\ s[loc + 1].arrive <= now
    BY <2>1 DEF VoyageOf
  <3> HIDE DEF s, loc
  <3> QED BY <1>3, <1>5, <1>6, <2>3, <3>1
 <2>11. ~vessel[v].parking => /\ loc > 0 /\ s[loc + 1].arrive >= now'
                              /\ pc' # "step" => s[loc + 1].arrive # now'
  <3>1. ~vessel[v].parking => loc > 0 /\ s[loc + 1].arrive >= now BY <2>1 DEF VoyageOf
  <3> HIDE DEF s, loc
  <3> QED BY <1>3, <1>5, <1>6, <2>3, <2>6, <3>1
 <2>12. vessel'[v] = vessel[v] /\ stops'[v] = s /\ Sum(Coming(v), agenda'[now']) = 0
   BY <1>2, <2>7
 <2> QED BY <2>2, <2>8, <2>9, <2>10, <2>11, <2>12 DEF VoyageOf
<1> QED BY <1>9, <1>10, <1>11, <1>12, <1>13, <1>14 DEF CimInv

\* A sequence is its front and the rest.
LEMMA FrontAndRest ==
  ASSUME NEW s \in Seq(Event), NEW k \in 0 .. Len(s)
  PROVE  /\ SubSeq(s, 1, k) \in Seq(Event) /\ SubSeq(s, k + 1, Len(s)) \in Seq(Event)
         /\ Len(SubSeq(s, 1, k)) = k /\ Len(SubSeq(s, k + 1, Len(s))) = Len(s) - k
         /\ \A i \in 1 .. k : SubSeq(s, 1, k)[i] = s[i]
         /\ \A i \in 1 .. Len(s) - k : SubSeq(s, k + 1, Len(s))[i] = s[k + i]
         /\ s = SubSeq(s, 1, k) \o SubSeq(s, k + 1, Len(s))
<1> DEFINE a == SubSeq(s, 1, k)
           b == SubSeq(s, k + 1, Len(s))
           n == Len(s)
           c == a \o b
<1>1. n \in Nat /\ DOMAIN s = 1 .. n /\ k \in Nat /\ k <= n /\ s = [i \in 1 .. n |-> s[i]]
  OBVIOUS
<1>2. a \in Seq(Event) /\ Len(a) = k /\ DOMAIN a = 1 .. k /\ \A i \in 1 .. k : a[i] = s[i]
  OBVIOUS
<1>3. b \in Seq(Event) /\ Len(b) = n - k /\ DOMAIN b = 1 .. n - k /\ \A i \in 1 .. n - k : b[i] = s[k + i]
 <2>1. \A i \in k + 1 .. n : s[i] \in Event BY <1>1
 <2> QED BY <1>1, <2>1, SMTT(30)
<1>4. SubSeq(s, 1, k) \o SubSeq(s, k + 1, n) = SubSeq(s, 1, n)
 <2>1. 1 \in 1 .. Len(s) + 1 /\ k \in 1 - 1 .. Len(s) /\ Len(s) \in k .. Len(s) BY <1>1
 <2> QED BY <2>1, ConcatAdjacentSubSeq
<1>5. SubSeq(s, 1, n) = s BY SubSeqFull
<1>6. c = s BY <1>4, <1>5
<1> QED BY <1>2, <1>3, <1>6 DEF a, b, n

\* How many decisions an agent is asked.
LEMMA AskedFacts ==
  ASSUME TypeInv, NextIs("DECISION")
  PROVE  /\ Asked \in 1 .. Len(agenda[now]) /\ (~joint => Asked = 1)
         /\ \A m \in 1 .. Asked : agenda[now][m].type = "DECISION"
<1> DEFINE q == agenda[now]
<1>1. q \in Seq(Event) /\ q # << >> /\ Head(q).type = "DECISION" BY Types DEF NextIs
<1>2. Len(q) \in Nat /\ Len(q) >= 1 /\ q[1].type = "DECISION"
 <2> HIDE DEF q
 <2> QED BY <1>1
<1>3. CASE ~joint
 <2>1. Asked = 1 BY <1>3 DEF Asked
 <2>2. 1 \in 1 .. Len(q) /\ \A m \in 1 .. 1 : q[m].type = "DECISION" BY <1>2
 <2> QED BY <2>1, <2>2
<1>4. CASE joint
 <2> DEFINE Bad == {m \in 1 .. Len(q) : q[m].type # "DECISION"}
            P(n) == /\ \A m \in 1 .. n : q[m].type = "DECISION"
                    /\ n < Len(q) => q[n + 1].type # "DECISION"
 <2>1. \E n \in 1 .. Len(q) : P(n)
  <3>1. CASE Bad = {}
   <4>1. P(Len(q)) /\ Len(q) \in 1 .. Len(q) BY <1>2, <3>1
   <4> QED BY <4>1
  <3>2. CASE Bad # {}
   <4>1. PICK m \in Bad : \A u \in Bad : m <= u
    <5>1. Bad \subseteq Nat /\ Bad # {} BY <1>2, <3>2
    <5> HIDE DEF Bad
    <5> QED BY <5>1, FirstOf
   <4>2. m \in 1 .. Len(q) /\ m # 1 /\ q[m].type # "DECISION" BY <1>2, <4>1
   <4>3. m - 1 \in 1 .. Len(q) /\ (m - 1) + 1 = m BY <1>2, <4>2
   <4>4. \A u \in 1 .. m - 1 : q[u].type = "DECISION"
    <5> SUFFICES ASSUME NEW u \in 1 .. m - 1, q[u].type # "DECISION" PROVE FALSE
      OBVIOUS
    <5>1. u \in Bad /\ u < m BY <1>2, <4>2
    <5> QED BY <4>1, <5>1
   <4> QED BY <4>2, <4>3, <4>4
  <3> QED BY <3>1, <3>2
 <2>2. Asked = CHOOSE n \in 1 .. Len(q) : P(n) BY <1>4 DEF Asked
 <2> HIDE DEF P
 <2>3. Asked \in 1 .. Len(q) /\ P(Asked) BY <2>1, <2>2, Zenon
 <2> QED BY <1>4, <2>3 DEF P
<1> QED BY <1>3, <1>4

\* Every answer inside its action scope is accepted.
LEMMA AnswersFit ==
  ASSUME TypeInv, NEW d \in Event, d.type = "DECISION", NEW a \in ActionsFor(d)
  PROVE  a \in Event /\ IsAction(a) /\ Accepted(a)
<1> DEFINE scope == ActionScope(d.p, d.v)
<1>1. d.v \in Vessels /\ d.p \in Ports BY EventFields
<1>2. port[d.p].empty \in Nat /\ vessel[d.v].empty \in Nat /\ vessel[d.v].full \in Nat
  BY <1>1 DEF TypeInv
<1>3. RemainingSpace(d.v) \in Int
 <2>1. Capacity[d.v] \in Nat /\ Volume \in Nat \ {0} BY <1>1, CimAssumption
 <2>2. Capacity[d.v] \div Volume \in Nat BY <2>1, Quotients
 <2> QED BY <1>2, <2>2 DEF RemainingSpace
<1>4. Min({port[d.p].empty, RemainingSpace(d.v)}) \in Int
 <2>1. port[d.p].empty \in Int BY <1>2
 <2> QED BY <1>3, <2>1, LesserGreater
<1>5. scope.load = Min({port[d.p].empty, RemainingSpace(d.v)}) /\ scope.discharge = vessel[d.v].empty
  BY DEF ActionScope
<1>6. \/ \E n \in 0 .. scope.load : a = [type |-> "LOAD_EMPTY", v |-> d.v, p |-> d.p, n |-> n]
      \/ \E n \in 1 .. scope.discharge : a = [type |-> "DISCHARGE_EMPTY", v |-> d.v, p |-> d.p, n |-> n]
  BY DEF ActionsFor
<1> HIDE DEF scope
<1>7. CASE \E n \in 0 .. scope.load : a = [type |-> "LOAD_EMPTY", v |-> d.v, p |-> d.p, n |-> n]
 <2>1. PICK n \in 0 .. scope.load : a = [type |-> "LOAD_EMPTY", v |-> d.v, p |-> d.p, n |-> n]
   BY <1>7
 <2>2. n \in Nat /\ n <= Min({port[d.p].empty, RemainingSpace(d.v)}) BY <1>4, <1>5, <2>1
 <2>3. a.type = "LOAD_EMPTY" /\ a.v = d.v /\ a.p = d.p /\ a.n = n BY <2>1
 <2>4. a \in Cargo BY <1>1, <2>1, <2>2 DEF Cargo
 <2> QED BY <2>2, <2>3, <2>4 DEF Accepted, IsAction, Event
<1>8. CASE \E n \in 1 .. scope.discharge : a = [type |-> "DISCHARGE_EMPTY", v |-> d.v, p |-> d.p, n |-> n]
 <2>1. PICK n \in 1 .. scope.discharge : a = [type |-> "DISCHARGE_EMPTY", v |-> d.v, p |-> d.p, n |-> n]
   BY <1>8
 <2>2. n \in Nat /\ n <= vessel[d.v].empty BY <1>2, <1>5, <2>1
 <2>3. a.type = "DISCHARGE_EMPTY" /\ a.v = d.v /\ a.p = d.p /\ a.n = n BY <2>1
 <2>4. a \in Cargo BY <1>1, <2>1, <2>2 DEF Cargo
 <2> QED BY <2>2, <2>3, <2>4 DEF Accepted, IsAction, Event
<1> QED BY <1>6, <1>7, <1>8

\* The weights that answers to decisions do not change.
Light(w) == \A e \in Event : e.type \in {"DECISION", "LOAD_EMPTY", "DISCHARGE_EMPTY"} => w[e] = 0

\* The weights that the invariant counts do not change.
LEMMA LightWeights ==
  /\ \A v : Light(Leaving(v)) /\ Light(Coming(v))
  /\ \A type \in CargoTypes : \A place : Light(Carrying(type, place))
<1>1. \A v : Light(Leaving(v)) BY WeightOf DEF Light
<1>2. \A v : Light(Coming(v)) BY WeightOf DEF Light
<1>3. ASSUME NEW type \in CargoTypes, NEW place, NEW e \in Event,
             e.type \in {"DECISION", "LOAD_EMPTY", "DISCHARGE_EMPTY"}
      PROVE  Carrying(type, place)[e] = 0
 <2>1. Carrying(type, place)[e] = IF e.type = type /\ Place(e) = place THEN e.n ELSE 0
   BY WeightOf
 <2>2. e.type # type BY <1>3 DEF CargoTypes
 <2> QED BY <2>1, <2>2
<1> QED BY <1>1, <1>2, <1>3 DEF Light

\* Answers in the place of decisions weigh the same.
LEMMA AnswersWeighNothing ==
  ASSUME NEW s \in Seq(Event), NEW k \in 0 .. Len(s), \A m \in 1 .. k : s[m].type = "DECISION",
         NEW x \in Seq(Event), \A i \in DOMAIN x : IsAction(x[i]), NEW w \in [Event -> Int], Light(w)
  PROVE  Sum(w, x \o SubSeq(s, k + 1, Len(s))) = Sum(w, s)
<1> DEFINE a == SubSeq(s, 1, k)
           b == SubSeq(s, k + 1, Len(s))
<1>1. /\ a \in Seq(Event) /\ b \in Seq(Event) /\ Len(a) = k /\ \A i \in 1 .. k : a[i] = s[i]
      /\ s = a \o b
  BY FrontAndRest
<1> HIDE DEF a, b
<1>2. Sum(w, a) = 0
 <2>1. \A i \in DOMAIN a : w[a[i]] = 0
  <3> SUFFICES ASSUME NEW i \in DOMAIN a PROVE w[a[i]] = 0
    OBVIOUS
  <3>1. i \in 1 .. k /\ a[i] \in Event BY <1>1
  <3>2. a[i].type = "DECISION" BY <1>1, <3>1
  <3> QED BY <3>1, <3>2 DEF Light
 <2> QED BY <1>1, <2>1, SumOfNone
<1>3. Sum(w, x) = 0
 <2>1. \A i \in DOMAIN x : w[x[i]] = 0
  <3> SUFFICES ASSUME NEW i \in DOMAIN x PROVE w[x[i]] = 0
    OBVIOUS
  <3>1. x[i] \in Event /\ IsAction(x[i]) OBVIOUS
  <3> QED BY <3>1 DEF Light, IsAction
 <2> QED BY <2>1, SumOfNone
<1>4. Sum(w, a \o b) = Sum(w, a) + Sum(w, b) BY <1>1, SumOfConcat
<1>5. Sum(w, x \o b) = Sum(w, x) + Sum(w, b) BY <1>1, SumOfConcat
<1> QED BY <1>1, <1>2, <1>3, <1>4, <1>5 DEF b

\* An agenda whose ticks weigh the same weighs the same.
LEMMA PlannedSame ==
  ASSUME NEW a \in Agenda, NEW b, NEW w \in [Event -> Int], \A t \in Ticks : Sum(w, b[t]) = Sum(w, a[t])
  PROVE  PlannedSum(w, b) = PlannedSum(w, a)
<1>1. [t \in Ticks |-> Sum(w, b[t])] = [t \in Ticks |-> Sum(w, a[t])] OBVIOUS
<1> QED BY <1>1 DEF PlannedSum

\* The front decisions are replaced by actions that are accepted.
LEMMA AnswersKeep ==
  ASSUME CimInv, NextIs("DECISION"), NEW k \in 1 .. Len(agenda[now]),
         \A m \in 1 .. k : agenda[now][m].type = "DECISION",
         NEW x \in Seq(Event), \A i \in DOMAIN x : IsAction(x[i]),
         ~joint => \A i \in DOMAIN x : i = 1 /\ Accepted(x[i]),
         agenda' = [agenda EXCEPT ![now] = x \o SubSeq(agenda[now], k + 1, Len(agenda[now]))],
         UNCHANGED <<joint, stops, now, pc, port, vessel, full_on_ports, full_on_vessels>>
  PROVE  CimInv'
<1>1. TypeInv /\ TimeInv /\ FitInv /\ SailInv /\ ActionInv /\ DueInv /\ CountInv
  BY DEF CimInv
<1>2. /\ joint' = joint /\ stops' = stops /\ now' = now /\ pc' = pc /\ port' = port /\ vessel' = vessel
      /\ full_on_ports' = full_on_ports /\ full_on_vessels' = full_on_vessels
  OBVIOUS
<1>3. agenda \in Agenda /\ now \in Ticks /\ now \in Nat /\ \A t \in Ticks : agenda[t] \in Seq(Event)
  BY <1>1, Types
<1>4. PICK s \in Seq(Event) : s = agenda[now] BY <1>3
<1>5. PICK b : b = SubSeq(s, k + 1, Len(s)) OBVIOUS
<1>6. k \in 0 .. Len(s) /\ k \in Nat /\ k >= 1 /\ \A m \in 1 .. k : s[m].type = "DECISION"
  BY <1>4
<1>7. b \in Seq(Event) /\ Len(b) = Len(s) - k /\ \A i \in 1 .. Len(b) : b[i] = s[k + i]
  BY <1>5, <1>6, FrontAndRest
<1>8. PICK c : c = x \o b OBVIOUS
<1>9. c \in Seq(Event) /\ Len(c) = Len(x) + Len(b)
      /\ \A i \in 1 .. Len(x) + Len(b) : c[i] = IF i <= Len(x) THEN x[i] ELSE b[i - Len(x)]
  BY <1>7, <1>8, ConcatProperties
<1>10. agenda' = [agenda EXCEPT ![now] = c] BY <1>4, <1>5, <1>8
<1>11. agenda'[now] = c /\ agenda' \in Agenda /\ \A t \in Ticks : t # now => agenda'[t] = agenda[t]
  BY <1>3, <1>9, <1>10 DEF Agenda
<1>12. ASSUME NEW i \in DOMAIN c
       PROVE  \/ i \in DOMAIN x /\ c[i] = x[i]
              \/ \E j \in DOMAIN s : j > 1 /\ c[i] = s[j]
 <2>1. i \in 1 .. Len(x) + Len(b) /\ Len(x) \in Nat /\ Len(b) \in Nat /\ Len(s) \in Nat
   BY <1>7, <1>9
 <2>2. CASE i <= Len(x)
  <3>1. i \in DOMAIN x BY <2>1, <2>2
  <3> QED BY <1>9, <2>1, <2>2, <3>1
 <2>3. CASE ~(i <= Len(x))
  <3>1. i - Len(x) \in 1 .. Len(b) BY <2>1, <2>3
  <3>2. c[i] = s[k + (i - Len(x))] BY <1>7, <1>9, <2>1, <2>3, <3>1
  <3>3. k + (i - Len(x)) \in 1 .. Len(s) /\ k + (i - Len(x)) > 1 BY <1>6, <1>7, <2>1, <3>1
  <3> QED BY <3>2, <3>3
 <2> QED BY <2>2, <2>3
<1>13. \A e \in ToSet(agenda'[now]) : IsAction(e) \/ e \in ToSet(agenda[now])
 <2> SUFFICES ASSUME NEW i \in DOMAIN c PROVE IsAction(c[i]) \/ c[i] \in ToSet(s)
   BY <1>4, <1>11 DEF ToSet
 <2> QED BY <1>12 DEF ToSet
<1>14. ASSUME NEW w \in [Event -> Int], Light(w), NEW t \in Ticks
       PROVE  Sum(w, agenda'[t]) = Sum(w, agenda[t])
 <2>1. Sum(w, x \o SubSeq(s, k + 1, Len(s))) = Sum(w, s) BY <1>6, <1>14, AnswersWeighNothing
 <2>2. Sum(w, c) = Sum(w, s) BY <1>5, <1>8, <2>1
 <2> QED BY <1>4, <1>11, <2>2
<1>15. TypeInv' BY <1>1, <1>2, <1>11 DEF TypeInv, Agenda
<1>16. pc = "execute" BY DEF NextIs
<1>17. TimeInv'
 <2>1. \A t \in Ticks : t < now' => agenda'[t] = << >>
  <3> SUFFICES ASSUME NEW t \in Ticks, t < now PROVE agenda'[t] = << >>
    BY <1>2
  <3>1. t # now BY <1>3, TicksFinite
  <3> QED BY <1>1, <1>11, <3>1 DEF TimeInv
 <2>2. ASSUME NEW t \in Ticks, NEW e \in ToSet(agenda'[t]), e.type \in OfToday
       PROVE  t = now
  <3> SUFFICES ASSUME t # now PROVE FALSE
    OBVIOUS
  <3>1. e \in ToSet(agenda[t]) BY <1>11, <2>2
  <3> QED BY <1>1, <2>2, <3>1 DEF TimeInv, OfToday
 <2> QED BY <1>2, <1>16, <2>1, <2>2 DEF TimeInv, OfToday
<1>18. CountInv' /\ FitInv'
 <2>1. ASSUME NEW type \in CargoTypes, NEW place
       PROVE  PlannedSum(Carrying(type, place), agenda') = PlannedSum(Carrying(type, place), agenda)
  <3> DEFINE w == Carrying(type, place)
  <3>1. w \in [Event -> Int] /\ Light(w) BY WeightTypes, WeightsAreWhole, LightWeights
  <3>2. \A t \in Ticks : Sum(w, agenda'[t]) = Sum(w, agenda[t]) BY <1>14, <3>1
  <3>3. PICK z : z = agenda' OBVIOUS
  <3> HIDE DEF w
  <3>4. PlannedSum(w, z) = PlannedSum(w, agenda) BY <1>3, <3>1, <3>2, <3>3, PlannedSame
  <3> QED BY <3>3, <3>4 DEF w
 <2> QED BY <1>1, <1>2, <2>1, BooksStay
<1>19. ActionInv'
 <2>1. ASSUME ~joint, NEW t \in Ticks, NEW i \in DOMAIN agenda'[t], IsAction(agenda'[t][i])
       PROVE  t = now /\ i = 1 /\ Accepted(agenda'[t][i])
  <3>1. t = now
   <4> SUFFICES ASSUME t # now PROVE FALSE
     OBVIOUS
   <4>1. agenda'[t] = agenda[t] BY <1>11
   <4> QED BY <1>1, <2>1, <4>1 DEF ActionInv
  <3>2. i \in DOMAIN c /\ IsAction(c[i]) BY <1>11, <2>1, <3>1
  <3>3. CASE i \in DOMAIN x /\ c[i] = x[i] BY <1>11, <2>1, <3>1, <3>3
  <3>4. CASE \E j \in DOMAIN s : j > 1 /\ c[i] = s[j]
   <4>1. PICK j \in DOMAIN s : j > 1 /\ c[i] = s[j] BY <3>4
   <4>2. j = 1 BY <1>1, <1>3, <1>4, <2>1, <3>2, <4>1 DEF ActionInv
   <4> QED BY <4>1, <4>2
  <3> QED BY <1>12, <3>2, <3>3, <3>4
 <2>2. \A e : Accepted(e)' <=> Accepted(e) BY <1>2 DEF Accepted, RemainingSpace
 <2>3. pc' = "execute" BY <1>2, <1>16
 <2>4. ASSUME ~joint', NEW t \in Ticks, NEW i \in DOMAIN agenda'[t], IsAction(agenda'[t][i])
       PROVE  t = now' /\ i = 1 /\ pc' = "execute" /\ Accepted(agenda[t][i])'
  <3>0. ~joint BY <1>2, <2>4
  <3>1. t = now /\ i = 1 /\ Accepted(agenda'[t][i]) BY <2>1, <2>4, <3>0, Zenon
  <3>2. Accepted(agenda[t][i])' BY <1>2, <3>1 DEF Accepted, RemainingSpace
  <3> QED BY <1>2, <2>3, <3>1, <3>2
 <2> QED BY <2>3, <2>4 DEF ActionInv
<1>20. DueInv'
 <2>2. ASSUME NEW t \in Ticks, NEW e \in ToSet(agenda'[t]) PROVE Expected(e, t)'
  <3>1. IsAction(e) \/ e \in ToSet(agenda[t]) BY <1>11, <1>13
  <3>2. CASE IsAction(e) BY <3>2 DEF IsAction, Expected
  <3>3. CASE e \in ToSet(agenda[t])
   <4>1. Expected(e, t) BY <1>1, <3>3 DEF DueInv
   <4>2. Due(e, t) => Due(e, t)' BY <1>2 DEF Due, AtHand
   <4>3. Loading(e) => Loading(e)' BY <1>2 DEF Loading
   <4> QED BY <4>1, <4>2, <4>3 DEF Expected
  <3> QED BY <3>1, <3>2, <3>3
 <2>3. NoLate(c)
  <3>1. NoLate(s) BY <1>1, <1>4 DEF DueInv
  <3>2. NoLate(b) BY <1>5, <1>6, <3>1, NoLateKept
  <3>3. \A e \in ToSet(x) : e.type # "VESSEL_ARRIVAL" BY DEF ToSet, IsAction
  <3> QED BY <1>7, <1>8, <3>2, <3>3, NoLateKept
 <2> QED BY <1>2, <1>11, <2>2, <2>3 DEF DueInv
<1>21. SailInv'
 <2> SUFFICES ASSUME NEW v \in Vessels PROVE VoyageOf(v)'
   BY DEF SailInv
 <2>1. VoyageOf(v) BY <1>1 DEF SailInv
 <2>2. \A t \in Ticks : /\ Sum(Leaving(v), agenda'[t]) = Sum(Leaving(v), agenda[t])
                        /\ Sum(Coming(v), agenda'[t]) = Sum(Coming(v), agenda[t])
  <3>1. Leaving(v) \in [Event -> Int] /\ Light(Leaving(v)) /\ Coming(v) \in [Event -> Int] /\ Light(Coming(v))
    BY WeightTypes, WeightsAreWhole, LightWeights
  <3> QED BY <1>14, <3>1
 <2>3. \A t \in Ticks : LeavesAt(v, t)' <=> LeavesAt(v, t) BY <1>2 DEF LeavesAt
 <2> QED BY <1>2, <1>3, <2>1, <2>2, <2>3 DEF VoyageOf
<1> QED BY <1>15, <1>17, <1>18, <1>19, <1>20, <1>21 DEF CimInv

\* An agent that answers keeps the invariant.
LEMMA DecideKeeps ==
  ASSUME CimInv, Decide
  PROVE  CimInv'
<1>1. TypeInv BY DEF CimInv
<1>2. PICK k : k = Asked OBVIOUS
<1>3. NextIs("DECISION") BY DEF Decide
<1>4. /\ k \in 1 .. Len(agenda[now]) /\ (~joint => k = 1)
      /\ \A m \in 1 .. k : agenda[now][m].type = "DECISION"
  BY <1>1, <1>2, <1>3, AskedFacts
<1>5. PICK x \in [1 .. k -> UNION {ActionsFor(agenda[now][i]) : i \in 1 .. k}] :
        /\ \A i \in 1 .. k : x[i] \in ActionsFor(agenda[now][i])
        /\ agenda' = [agenda EXCEPT ![now] = x \o SubSeq(agenda[now], k + 1, Len(agenda[now]))]
  BY <1>2 DEF Decide
<1>6. agenda[now] \in Seq(Event) /\ k \in Nat BY <1>1, <1>4, Types
<1>7. \A i \in 1 .. k : x[i] \in Event /\ IsAction(x[i]) /\ Accepted(x[i])
 <2> SUFFICES ASSUME NEW i \in 1 .. k PROVE x[i] \in Event /\ IsAction(x[i]) /\ Accepted(x[i])
   OBVIOUS
 <2>1. i \in 1 .. Len(agenda[now]) BY <1>4, <1>6
 <2>2. agenda[now][i] \in Event /\ agenda[now][i].type = "DECISION"
   BY <1>4, <1>6, <2>1, ElementOfSeq
 <2> QED BY <1>1, <1>5, <2>2, AnswersFit
<1>8. x \in Seq(Event) /\ DOMAIN x = 1 .. k
 <2>1. DOMAIN x = 1 .. k /\ x = [i \in 1 .. k |-> x[i]] BY <1>5
 <2>2. x \in [1 .. k -> Event] BY <1>7, <2>1
 <2> QED BY <1>6, <2>1, <2>2
<1>9. ~joint => \A i \in DOMAIN x : i = 1 /\ Accepted(x[i]) BY <1>4, <1>7, <1>8
<1>10. UNCHANGED <<joint, stops, now, pc, port, vessel, full_on_ports, full_on_vessels>>
  BY DEF Decide
<1> QED BY <1>3, <1>4, <1>5, <1>7, <1>8, <1>9, <1>10, AnswersKeep

\* An agent that answers with no action keeps the invariant.
LEMMA DecideNothingKeeps ==
  ASSUME CimInv, DecideNothing
  PROVE  CimInv'
<1>1. TypeInv BY DEF CimInv
<1>2. PICK k : k = Asked OBVIOUS
<1>3. NextIs("DECISION") BY DEF DecideNothing
<1>4. /\ k \in 1 .. Len(agenda[now])
      /\ \A m \in 1 .. k : agenda[now][m].type = "DECISION"
  BY <1>1, <1>2, <1>3, AskedFacts
<1>5. agenda[now] \in Seq(Event) BY <1>1, Types
<1>6. PICK x : x = << >> OBVIOUS
<1>7. x \in Seq(Event) /\ DOMAIN x = {} BY <1>6
<1>8. agenda' = [agenda EXCEPT ![now] = SubSeq(agenda[now], k + 1, Len(agenda[now]))]
  BY <1>2 DEF DecideNothing
<1>9. x \o SubSeq(agenda[now], k + 1, Len(agenda[now])) = SubSeq(agenda[now], k + 1, Len(agenda[now]))
 <2>1. k \in 0 .. Len(agenda[now]) BY <1>4
 <2>2. SubSeq(agenda[now], k + 1, Len(agenda[now])) \in Seq(Event)
   BY <1>5, <2>1, FrontAndRest
 <2> QED BY <1>6, <2>2, ConcatEmptySeq
<1>10. UNCHANGED <<joint, stops, now, pc, port, vessel, full_on_ports, full_on_vessels>>
  BY DEF DecideNothing
<1> QED BY <1>3, <1>4, <1>7, <1>8, <1>9, <1>10, AnswersKeep

\* The arrival of a vessel and its loading take turns.
LEMMA Halves ==
  ASSUME NEW n \in Nat
  PROVE  /\ \A i \in 1 .. 2 * n : /\ (i + 1) \div 2 \in 1 .. n /\ i % 2 \in {0, 1}
                                  /\ i % 2 = 1 => i = 2 * ((i + 1) \div 2) - 1
         /\ \A k \in 1 .. n : /\ 2 * k - 1 \in 1 .. 2 * n
                              /\ ((2 * k - 1) + 1) \div 2 = k /\ (2 * k - 1) % 2 = 1
OBVIOUS

\* The events of an arriving vessel.
LEMMA VesselEvents ==
  ASSUME TypeInv, SailInv, NEW v \in Vessels
  PROVE  LET p == Stop(v, vessel[v].next_loc).port
         IN /\ p \in Ports
            /\ EventsOfVessel(v)[1] = [type |-> "VESSEL_ARRIVAL", v |-> v, p |-> p]
            /\ EventsOfVessel(v)[2] = [type |-> "LOAD_FULL", v |-> v, p |-> p]
            /\ DecisionOfVessel(v) = [type |-> "DECISION", v |-> v, p |-> p]
            /\ EventsOfVessel(v)[1] \in Event /\ EventsOfVessel(v)[2] \in Event /\ DecisionOfVessel(v) \in Event
<1> DEFINE loc == vessel[v].next_loc
           s == stops[v]
           p == Stop(v, loc).port
<1>1. loc \in Nat /\ loc < Len(s) /\ stops \in Schedules BY DEF SailInv, VoyageOf, TypeInv
<1>2. Len(s) \in Nat BY <1>1, ScheduleData
<1>3. loc + 1 \in 1 .. Len(s)
 <2> HIDE DEF loc, s
 <2> QED BY <1>1, <1>2
<1>4. p \in Ports BY <1>1, <1>3, ScheduleData DEF Stop
<1> HIDE DEF p
<1>5. /\ EventsOfVessel(v)[1] = [type |-> "VESSEL_ARRIVAL", v |-> v, p |-> p]
      /\ EventsOfVessel(v)[2] = [type |-> "LOAD_FULL", v |-> v, p |-> p]
      /\ DecisionOfVessel(v) = [type |-> "DECISION", v |-> v, p |-> p]
  BY DEF EventsOfVessel, DecisionOfVessel, p
<1>6. /\ [type |-> "VESSEL_ARRIVAL", v |-> v, p |-> p] \in Event
      /\ [type |-> "LOAD_FULL", v |-> v, p |-> p] \in Event
      /\ [type |-> "DECISION", v |-> v, p |-> p] \in Event
  BY <1>4 DEF Event, Voyage
<1> QED BY <1>4, <1>5, <1>6 DEF p

ArrivalsOf(vs) == [i \in 1 .. 2 * Len(vs) |-> EventsOfVessel(vs[(i + 1) \div 2])[2 - (i % 2)]]
DecisionsOf(vs) == [i \in DOMAIN vs |-> DecisionOfVessel(vs[i])]

\* One arrival, one loading and one decision for every vessel that arrives.
LEMMA ArrivalEvents ==
  ASSUME TypeInv, SailInv, NEW vs \in Seq(Vessels), IsInjective(vs)
  PROVE  /\ ArrivalsOf(vs) \in Seq(Event) /\ DecisionsOf(vs) \in Seq(Event)
         /\ \A e \in ToSet(ArrivalsOf(vs)) \cup ToSet(DecisionsOf(vs)) :
              \E v \in ToSet(vs) :
                /\ e.type \in {"VESSEL_ARRIVAL", "LOAD_FULL", "DECISION"} /\ e.v = v
                /\ e.p = Stop(v, vessel[v].next_loc).port
         /\ \A v \in Vessels : /\ Sum(Coming(v), ArrivalsOf(vs)) = IF v \in ToSet(vs) THEN 1 ELSE 0
                               /\ Sum(Coming(v), DecisionsOf(vs)) = 0
<1> DEFINE a == ArrivalsOf(vs)
           d == DecisionsOf(vs)
           n == Len(vs)
<1>1. n \in Nat /\ DOMAIN vs = 1 .. n OBVIOUS
<1>2. \A i \in 1 .. n : vs[i] \in Vessels /\ vs[i] \in ToSet(vs)
  BY <1>1, ElementOfSeq DEF ToSet
<1>3. DOMAIN a = 1 .. 2 * n /\ DOMAIN d = 1 .. n BY <1>1 DEF ArrivalsOf, DecisionsOf
<1>4. ASSUME NEW i \in 1 .. 2 * n
      PROVE  LET v == vs[(i + 1) \div 2]
             IN /\ v \in Vessels /\ v \in ToSet(vs) /\ (i + 1) \div 2 \in 1 .. n
                /\ a[i] \in Event /\ a[i].v = v /\ a[i].p = Stop(v, vessel[v].next_loc).port
                /\ a[i].type = (IF i % 2 = 1 THEN "VESSEL_ARRIVAL" ELSE "LOAD_FULL")
                /\ i % 2 = 1 => i = 2 * ((i + 1) \div 2) - 1
 <2> DEFINE k == (i + 1) \div 2
            v == vs[k]
 <2>1. k \in 1 .. n /\ i % 2 \in {0, 1} /\ (i % 2 = 1 => i = 2 * k - 1) BY <1>1, Halves
 <2>2. v \in Vessels /\ v \in ToSet(vs) BY <1>2, <2>1
 <2>3. a[i] = EventsOfVessel(v)[2 - (i % 2)] BY DEF ArrivalsOf
 <2> HIDE DEF a, v, k
 <2>4. CASE i % 2 = 1
  <3>1. a[i] = EventsOfVessel(v)[1] BY <2>3, <2>4
  <3>2. a[i] \in Event /\ a[i] = [type |-> "VESSEL_ARRIVAL", v |-> v, p |-> Stop(v, vessel[v].next_loc).port]
    BY <2>2, <3>1, VesselEvents
  <3> QED BY <2>1, <2>2, <2>4, <3>2 DEF v, k
 <2>5. CASE i % 2 = 0
  <3>1. a[i] = EventsOfVessel(v)[2] BY <2>3, <2>5
  <3>2. a[i] \in Event /\ a[i] = [type |-> "LOAD_FULL", v |-> v, p |-> Stop(v, vessel[v].next_loc).port]
    BY <2>2, <3>1, VesselEvents
  <3> QED BY <2>1, <2>2, <2>5, <3>2 DEF v, k
 <2> QED BY <2>1, <2>4, <2>5
<1>5. ASSUME NEW i \in 1 .. n
      PROVE  d[i] \in Event /\ d[i].type = "DECISION" /\ d[i].v = vs[i]
             /\ d[i].p = Stop(vs[i], vessel[vs[i]].next_loc).port
 <2>1. d[i] = DecisionOfVessel(vs[i]) BY <1>1 DEF DecisionsOf
 <2>2. d[i] \in Event /\ d[i] = [type |-> "DECISION", v |-> vs[i], p |-> Stop(vs[i], vessel[vs[i]].next_loc).port]
   BY <1>2, <2>1, VesselEvents
 <2> QED BY <2>2
<1>6. a = [i \in 1 .. 2 * n |-> a[i]] /\ d = [i \in 1 .. n |-> d[i]]
  BY <1>1 DEF ArrivalsOf, DecisionsOf
<1> HIDE DEF a, d
<1>7. a \in Seq(Event) /\ d \in Seq(Event)
 <2>1. a \in [1 .. 2 * n -> Event] /\ d \in [1 .. n -> Event] BY <1>4, <1>5, <1>6
 <2>2. 2 * n \in Nat BY <1>1
 <2> QED BY <1>1, <2>1, <2>2
<1>8. ASSUME NEW e \in ToSet(a) \cup ToSet(d)
      PROVE  \E v \in ToSet(vs) :
                /\ e.type \in {"VESSEL_ARRIVAL", "LOAD_FULL", "DECISION"} /\ e.v = v
                /\ e.p = Stop(v, vessel[v].next_loc).port
 <2>1. CASE e \in ToSet(a)
  <3>1. PICK i \in 1 .. 2 * n : e = a[i] BY <1>3, <2>1 DEF ToSet
  <3>2. PICK v \in ToSet(vs) : v = vs[(i + 1) \div 2] BY <1>4
  <3>3. e.v = v /\ e.p = Stop(v, vessel[v].next_loc).port /\ e.type \in {"VESSEL_ARRIVAL", "LOAD_FULL"}
    BY <1>4, <3>1, <3>2
  <3> QED BY <3>2, <3>3
 <2>2. CASE e \in ToSet(d)
  <3>1. PICK i \in 1 .. n : e = d[i] BY <1>3, <2>2 DEF ToSet
  <3> QED BY <1>2, <1>5, <3>1
 <2> QED BY <2>1, <2>2
<1>9. ASSUME NEW v \in Vessels PROVE Sum(Coming(v), a) = IF v \in ToSet(vs) THEN 1 ELSE 0
 <2>1. Coming(v) \in [Event -> Int] BY WeightTypes, WeightsAreWhole
 <2>2. \A i \in 1 .. 2 * n : Coming(v)[a[i]] = IF i % 2 = 1 /\ vs[(i + 1) \div 2] = v THEN 1 ELSE 0
  <3> SUFFICES ASSUME NEW i \in 1 .. 2 * n
               PROVE  Coming(v)[a[i]] = IF i % 2 = 1 /\ vs[(i + 1) \div 2] = v THEN 1 ELSE 0
    OBVIOUS
  <3>1. a[i] \in Event /\ a[i].v = vs[(i + 1) \div 2]
        /\ a[i].type = (IF i % 2 = 1 THEN "VESSEL_ARRIVAL" ELSE "LOAD_FULL")
    BY <1>4
  <3>2. Coming(v)[a[i]] = IF a[i].type = "VESSEL_ARRIVAL" /\ a[i].v = v THEN 1 ELSE 0
    BY <3>1, WeightOf
  <3> QED BY <3>1, <3>2
 <2>3. CASE v \in ToSet(vs)
  <3>1. PICK k \in 1 .. n : vs[k] = v BY <1>1, <2>3 DEF ToSet
  <3>2. 2 * k - 1 \in 1 .. 2 * n /\ ((2 * k - 1) + 1) \div 2 = k /\ (2 * k - 1) % 2 = 1
    BY <1>1, Halves
  <3>3. PICK j \in 1 .. 2 * n : j = 2 * k - 1 BY <3>2
  <3>4. Coming(v)[a[j]] = 1 BY <2>2, <3>1, <3>2, <3>3
  <3>5. \A i \in DOMAIN a : i # j => Coming(v)[a[i]] = 0
   <4> SUFFICES ASSUME NEW i \in 1 .. 2 * n, i # j PROVE Coming(v)[a[i]] = 0
     BY <1>3
   <4>1. (i + 1) \div 2 \in 1 .. n /\ (i % 2 = 1 => i = 2 * ((i + 1) \div 2) - 1) BY <1>4
   <4>2. i % 2 = 1 => vs[(i + 1) \div 2] # v
    <5> SUFFICES ASSUME i % 2 = 1, vs[(i + 1) \div 2] = v PROVE FALSE
      OBVIOUS
    <5>1. PICK m \in 1 .. n : m = (i + 1) \div 2 BY <4>1
    <5>2. m = k BY <1>1, <3>1, <5>1 DEF IsInjective
    <5> QED BY <3>3, <4>1, <5>1, <5>2
   <4> QED BY <2>2, <4>2
  <3>6. j \in DOMAIN a BY <1>3
  <3>7. Sum(Coming(v), a) = Coming(v)[a[j]] BY <1>7, <2>1, <3>5, <3>6, SumOfOne
  <3> QED BY <2>3, <3>4, <3>7
 <2>4. CASE v \notin ToSet(vs)
  <3>1. \A i \in DOMAIN a : Coming(v)[a[i]] = 0
   <4> SUFFICES ASSUME NEW i \in 1 .. 2 * n PROVE Coming(v)[a[i]] = 0
     BY <1>3
   <4>1. vs[(i + 1) \div 2] \in ToSet(vs) BY <1>4
   <4> QED BY <2>2, <2>4, <4>1
  <3>2. Sum(Coming(v), a) = 0 BY <1>7, <2>1, <3>1, SumOfNone
  <3> QED BY <2>4, <3>2
 <2> QED BY <2>3, <2>4
<1>10. ASSUME NEW v \in Vessels PROVE Sum(Coming(v), d) = 0
 <2>1. Coming(v) \in [Event -> Int] BY WeightTypes, WeightsAreWhole
 <2>2. \A i \in DOMAIN d : Coming(v)[d[i]] = 0
  <3> SUFFICES ASSUME NEW i \in 1 .. n PROVE Coming(v)[d[i]] = 0
    BY <1>3
  <3>1. d[i] \in Event /\ d[i].type = "DECISION" BY <1>5
  <3> QED BY <3>1, WeightOf
 <2> QED BY <1>7, <2>1, <2>2, SumOfNone
<1> QED BY <1>7, <1>8, <1>9, <1>10 DEF a, d

\* What step adds to its tick.
StepAdds(x) ==
  /\ x \in Seq(Event)
  /\ \A e \in ToSet(x) : \/ e.type = "ORDER"
                         \/ \E v \in Arriving :
                              /\ e.type \in {"VESSEL_ARRIVAL", "LOAD_FULL", "DECISION"} /\ e.v = v
                              /\ e.p = Stop(v, vessel[v].next_loc).port
  /\ \A v \in Vessels : Sum(Coming(v), x) = IF v \in Arriving THEN 1 ELSE 0
  /\ agenda' = [agenda EXCEPT ![now] = agenda[now] \o x]

\* What step adds: an order, and arrivals, loadings and decisions of the
\* vessels that arrive.
LEMMA StepIsAdding ==
  ASSUME TypeInv, SailInv, NEW os \in {<< >>} \cup {<<o>> : o \in Orders}, Step(os)
  PROVE  \E x : StepAdds(x)
<1> DEFINE vs == SetToSeq(Arriving)
           a == ArrivalsOf(vs)
           d == DecisionsOf(vs)
           x == (os \o a) \o d
<1>1. os \in Seq(Event) /\ \A e \in ToSet(os) : e.type = "ORDER"
 <2>1. CASE os = << >> BY <2>1 DEF ToSet
 <2>2. CASE os # << >>
  <3>1. PICK o \in Orders : os = <<o>> BY <2>2
  <3>2. o.type = "ORDER" /\ o \in Event BY <3>1, CimAssumption DEF Orders, Event, Customer
  <3>3. os \in Seq(Event) /\ DOMAIN os = {1} /\ os[1] = o BY <3>1, <3>2
  <3> QED BY <3>1, <3>2, <3>3 DEF ToSet
 <2> QED BY <2>1, <2>2
<1>2. IsFiniteSet(Arriving) /\ Arriving \subseteq Vessels
  BY CimAssumption, FS_Subset DEF Arriving
<1>3. vs \in Seq(Arriving) /\ IsInjective(vs) /\ ToSet(vs) = Arriving BY <1>2, SetAsSeq
<1>4. vs \in Seq(Vessels)
 <2> HIDE DEF vs
 <2> QED BY <1>2, <1>3
<1>5. agenda' = [agenda EXCEPT ![now] = ((agenda[now] \o os) \o a) \o d]
  BY DEF Step, ArrivalsOf, DecisionsOf
<1> HIDE DEF vs
<1>6. /\ a \in Seq(Event) /\ d \in Seq(Event)
      /\ \A e \in ToSet(a) \cup ToSet(d) :
              \E v \in ToSet(vs) :
                /\ e.type \in {"VESSEL_ARRIVAL", "LOAD_FULL", "DECISION"} /\ e.v = v
                /\ e.p = Stop(v, vessel[v].next_loc).port
      /\ \A v \in Vessels : /\ Sum(Coming(v), a) = IF v \in ToSet(vs) THEN 1 ELSE 0
                            /\ Sum(Coming(v), d) = 0
  BY <1>3, <1>4, ArrivalEvents
<1> HIDE DEF a, d
<1>7. os \o a \in Seq(Event) /\ x \in Seq(Event)
 <2>1. os \o a \in Seq(Event) BY <1>1, <1>6, ConcatProperties
 <2> QED BY <1>6, <2>1, ConcatProperties
<1>8. agenda' = [agenda EXCEPT ![now] = agenda[now] \o x]
 <2>1. agenda[now] \in Seq(Event) BY Types
 <2>2. PICK q \in Seq(Event) : q = agenda[now] BY <2>1
 <2>3. ((q \o os) \o a) \o d = q \o ((os \o a) \o d)
  <3>1. os \in Seq(Event) /\ a \in Seq(Event) /\ d \in Seq(Event) BY <1>1, <1>6
  <3>2. PICK os1, a1, d1 : os1 = os /\ a1 = a /\ d1 = d OBVIOUS
  <3>3. os1 \in Seq(Event) /\ a1 \in Seq(Event) /\ d1 \in Seq(Event) BY <3>1, <3>2
  <3>4. ((q \o os1) \o a1) \o d1 = q \o ((os1 \o a1) \o d1)
   <4>1. q \in Seq(Event) BY <2>2
   <4>2. (q \o os1) \o a1 = q \o (os1 \o a1) BY <3>3, <4>1
   <4>a. os1 \o a1 \in Seq(Event) BY <3>3, ConcatProperties
   <4>3. PICK z \in Seq(Event) : z = os1 \o a1 BY <4>a
   <4>4. (q \o z) \o d1 = q \o (z \o d1) BY <3>3, <4>1, <4>3
   <4>5. (q \o (os1 \o a1)) \o d1 = q \o ((os1 \o a1) \o d1) BY <4>3, <4>4
   <4> QED BY <4>2, <4>5
  <3> QED BY <3>2, <3>4
 <2>4. ((agenda[now] \o os) \o a) \o d = agenda[now] \o x BY <2>2, <2>3
 <2> HIDE DEF x
 <2> QED BY <1>5, <2>4, Zenon
<1>9. ToSet(x) = ToSet(os) \cup ToSet(a) \cup ToSet(d)
 <2>1. ASSUME NEW s \in Seq(Event), NEW r \in Seq(Event) PROVE ToSet(s \o r) = ToSet(s) \cup ToSet(r)
  <3> DEFINE t == s \o r
  <3>1. /\ t \in Seq(Event) /\ Len(t) = Len(s) + Len(r) /\ Len(s) \in Nat /\ Len(r) \in Nat
        /\ \A i \in 1 .. Len(s) + Len(r) : t[i] = IF i <= Len(s) THEN s[i] ELSE r[i - Len(s)]
    BY ConcatProperties
  <3>2. DOMAIN t = 1 .. Len(s) + Len(r) /\ DOMAIN s = 1 .. Len(s) /\ DOMAIN r = 1 .. Len(r)
    BY <3>1
  <3> HIDE DEF t
  <3>3. ASSUME NEW y \in ToSet(t) PROVE y \in ToSet(s) \cup ToSet(r)
   <4>1. PICK i \in 1 .. Len(s) + Len(r) : y = t[i] BY <3>2 DEF ToSet
   <4>2. CASE i <= Len(s)
    <5>1. i \in 1 .. Len(s) /\ y = s[i] BY <3>1, <4>1, <4>2
    <5> QED BY <3>2, <5>1 DEF ToSet
   <4>3. CASE ~(i <= Len(s))
    <5>1. i - Len(s) \in 1 .. Len(r) /\ y = r[i - Len(s)] BY <3>1, <4>1, <4>3
    <5> QED BY <3>2, <5>1 DEF ToSet
   <4> QED BY <4>2, <4>3
  <3>4. ASSUME NEW y \in ToSet(s) PROVE y \in ToSet(t)
   <4>1. PICK i \in 1 .. Len(s) : y = s[i] BY <3>2 DEF ToSet
   <4>2. i \in 1 .. Len(s) + Len(r) /\ y = t[i] BY <3>1, <4>1
   <4> QED BY <3>2, <4>2 DEF ToSet
  <3>5. ASSUME NEW y \in ToSet(r) PROVE y \in ToSet(t)
   <4>1. PICK i \in 1 .. Len(r) : y = r[i] BY <3>2 DEF ToSet
   <4>2. PICK j \in 1 .. Len(s) + Len(r) : j = i + Len(s) BY <3>1
   <4>3. ~(j <= Len(s)) /\ j - Len(s) = i BY <3>1, <4>2
   <4>4. y = t[j] BY <3>1, <4>1, <4>3
   <4> QED BY <3>2, <4>4 DEF ToSet
  <3> QED BY <3>3, <3>4, <3>5 DEF t
 <2>2. ToSet(os \o a) = ToSet(os) \cup ToSet(a) BY <1>1, <1>6, <2>1
 <2>3. ToSet(x) = ToSet(os \o a) \cup ToSet(d) BY <1>6, <1>7, <2>1
 <2> QED BY <2>2, <2>3, Zenon
<1>10. \A v \in Vessels : Sum(Coming(v), x) = IF v \in Arriving THEN 1 ELSE 0
 <2> SUFFICES ASSUME NEW v \in Vessels PROVE Sum(Coming(v), x) = IF v \in Arriving THEN 1 ELSE 0
   OBVIOUS
 <2> DEFINE w == Coming(v)
 <2>1. w \in [Event -> Int] BY WeightTypes, WeightsAreWhole
 <2>2. \A i \in DOMAIN os : w[os[i]] = 0
  <3> SUFFICES ASSUME NEW i \in DOMAIN os PROVE w[os[i]] = 0
    OBVIOUS
  <3>1. os[i] \in ToSet(os) /\ os[i] \in Event BY <1>1 DEF ToSet
  <3>2. os[i].type = "ORDER" BY <1>1, <3>1
  <3> QED BY <3>1, <3>2, WeightOf
 <2> HIDE DEF w
 <2>3. Sum(w, os) = 0 BY <1>1, <2>1, <2>2, SumOfNone
 <2>4. Sum(w, os \o a) = Sum(w, os) + Sum(w, a) BY <1>1, <1>6, <2>1, SumOfConcat
 <2>5. Sum(w, x) = Sum(w, os \o a) + Sum(w, d)
  <3>1. os \o a \in Seq(Event) /\ d \in Seq(Event) /\ x = (os \o a) \o d BY <1>1, <1>6, <1>7
  <3> QED BY <2>1, <3>1, SumOfConcat
 <2>6. Sum(w, a) = (IF v \in Arriving THEN 1 ELSE 0) /\ Sum(w, d) = 0 BY <1>3, <1>6 DEF w
 <2> HIDE DEF x
 <2>7. Sum(w, x) = IF v \in Arriving THEN 1 ELSE 0 BY <2>3, <2>4, <2>5, <2>6
 <2> QED BY <2>7 DEF w
<1>11. \A e \in ToSet(x) : \/ e.type = "ORDER"
                           \/ \E v \in Arriving :
                                /\ e.type \in {"VESSEL_ARRIVAL", "LOAD_FULL", "DECISION"} /\ e.v = v
                                /\ e.p = Stop(v, vessel[v].next_loc).port
  BY <1>1, <1>3, <1>6, <1>9
<1> HIDE DEF x
<1>12. StepAdds(x) BY <1>7, <1>8, <1>10, <1>11 DEF StepAdds
<1> QED BY <1>12

\* The orders and arrivals of a tick keep the invariant.
LEMMA StepKeeps ==
  ASSUME CimInv, NEW os \in {<< >>} \cup {<<o>> : o \in Orders}, Step(os)
  PROVE  CimInv'
<1>1. TypeInv /\ TimeInv /\ FitInv /\ SailInv /\ ActionInv /\ DueInv /\ CountInv
  BY DEF CimInv
<1>2. /\ pc = "step" /\ pc' = "execute"
      /\ joint' = joint /\ stops' = stops /\ now' = now /\ port' = port /\ vessel' = vessel
      /\ full_on_ports' = full_on_ports /\ full_on_vessels' = full_on_vessels
  BY DEF Step
<1>3. agenda \in Agenda /\ now \in Ticks /\ now \in Nat /\ \A t \in Ticks : agenda[t] \in Seq(Event)
  BY <1>1, Types
<1>4. PICK x : StepAdds(x) BY <1>1, StepIsAdding
<1>5. PICK s \in Seq(Event) : s = agenda[now] BY <1>3
<1>6. PICK c : c = s \o x OBVIOUS
<1>7. x \in Seq(Event) /\ agenda' = [agenda EXCEPT ![now] = c]
  BY <1>4, <1>5, <1>6 DEF StepAdds
<1>8. c \in Seq(Event) /\ Len(c) = Len(s) + Len(x)
      /\ \A i \in 1 .. Len(s) + Len(x) : c[i] = IF i <= Len(s) THEN s[i] ELSE x[i - Len(s)]
  BY <1>6, <1>7, ConcatProperties
<1>9. agenda'[now] = c /\ agenda' \in Agenda /\ \A t \in Ticks : t # now => agenda'[t] = agenda[t]
  BY <1>3, <1>7, <1>8 DEF Agenda
<1>10. \A e \in ToSet(x) : e.type \in {"ORDER", "VESSEL_ARRIVAL", "LOAD_FULL", "DECISION"} /\ Expected(e, now)
 <2> SUFFICES ASSUME NEW e \in ToSet(x)
              PROVE  e.type \in {"ORDER", "VESSEL_ARRIVAL", "LOAD_FULL", "DECISION"} /\ Expected(e, now)
   OBVIOUS
 <2>1. CASE e.type = "ORDER" BY <2>1 DEF Expected
 <2>2. CASE \E v \in Arriving :
              /\ e.type \in {"VESSEL_ARRIVAL", "LOAD_FULL", "DECISION"} /\ e.v = v
              /\ e.p = Stop(v, vessel[v].next_loc).port
  <3>1. PICK v \in Arriving :
             /\ e.type \in {"VESSEL_ARRIVAL", "LOAD_FULL", "DECISION"} /\ e.v = v
             /\ e.p = Stop(v, vessel[v].next_loc).port
    BY <2>2
  <3>2. Loading(e) BY <3>1 DEF Loading, Arriving, Stop
  <3> QED BY <3>1, <3>2 DEF Expected
 <2> QED BY <1>4, <2>1, <2>2 DEF StepAdds
<1>11. ASSUME NEW i \in DOMAIN c
       PROVE  (i \in DOMAIN s /\ c[i] = s[i]) \/ c[i] \in ToSet(x)
 <2>1. i \in 1 .. Len(s) + Len(x) /\ Len(s) \in Nat /\ Len(x) \in Nat BY <1>7, <1>8
 <2>2. CASE i <= Len(s) BY <1>8, <2>1, <2>2
 <2>3. CASE ~(i <= Len(s))
  <3>1. i - Len(s) \in 1 .. Len(x) BY <2>1, <2>3
  <3>2. i - Len(s) \in DOMAIN x BY <1>7, <3>1
  <3> QED BY <1>8, <2>1, <2>3, <3>2 DEF ToSet
 <2> QED BY <2>2, <2>3
<1>12. \A e \in ToSet(agenda'[now]) : e \in ToSet(x) \/ e \in ToSet(agenda[now])
 <2> SUFFICES ASSUME NEW i \in DOMAIN c PROVE c[i] \in ToSet(x) \/ c[i] \in ToSet(s)
   BY <1>5, <1>9 DEF ToSet
 <2> QED BY <1>11 DEF ToSet
<1>13. ASSUME NEW w \in [Event -> Int], \A e \in ToSet(x) : w[e] = 0, NEW t \in Ticks
       PROVE  Sum(w, agenda'[t]) = Sum(w, agenda[t])
 <2>1. \A i \in DOMAIN x : w[x[i]] = 0 BY <1>13 DEF ToSet
 <2>2. Sum(w, x) = 0 BY <1>7, <2>1, SumOfNone
 <2>3. Sum(w, c) = Sum(w, s) + Sum(w, x) BY <1>6, <1>7, SumOfConcat
 <2>4. Sum(w, s) \in Int BY SumType
 <2>5. Sum(w, c) = Sum(w, s) BY <2>2, <2>3, <2>4
 <2> QED BY <1>5, <1>9, <2>5
<1>14. \A e \in ToSet(x) : e \in Event BY <1>7 DEF ToSet
<1>15. TypeInv' BY <1>1, <1>2, <1>9 DEF TypeInv, Agenda
<1>16. TimeInv'
 <2>1. \A t \in Ticks : t < now' => agenda'[t] = << >>
  <3> SUFFICES ASSUME NEW t \in Ticks, t < now PROVE agenda'[t] = << >>
    BY <1>2
  <3>1. t # now BY <1>3, TicksFinite
  <3> QED BY <1>1, <1>9, <3>1 DEF TimeInv
 <2>2. ASSUME NEW t \in Ticks, NEW e \in ToSet(agenda'[t]), e.type \in OfToday
       PROVE  t = now
  <3> SUFFICES ASSUME t # now PROVE FALSE
    OBVIOUS
  <3>1. e \in ToSet(agenda[t]) BY <1>9, <2>2
  <3> QED BY <1>1, <2>2, <3>1 DEF TimeInv, OfToday
 <2> QED BY <1>2, <2>1, <2>2 DEF TimeInv, OfToday
<1>17. CountInv' /\ FitInv'
 <2>1. ASSUME NEW type \in CargoTypes, NEW place
       PROVE  PlannedSum(Carrying(type, place), agenda') = PlannedSum(Carrying(type, place), agenda)
  <3> DEFINE w == Carrying(type, place)
  <3>1. w \in [Event -> Int] BY WeightTypes, WeightsAreWhole
  <3>2. \A e \in ToSet(x) : w[e] = 0
   <4> SUFFICES ASSUME NEW e \in ToSet(x) PROVE w[e] = 0
     OBVIOUS
   <4>1. e.type # type /\ e \in Event BY <1>10, <1>14 DEF CargoTypes
   <4>2. w[e] = IF e.type = type /\ Place(e) = place THEN e.n ELSE 0 BY <4>1, WeightOf
   <4> QED BY <4>1, <4>2
  <3> HIDE DEF w
  <3>3. \A t \in Ticks : Sum(w, agenda'[t]) = Sum(w, agenda[t]) BY <1>13, <3>1, <3>2
  <3>4. PICK z : z = agenda' OBVIOUS
  <3>5. PlannedSum(w, z) = PlannedSum(w, agenda) BY <1>3, <3>1, <3>3, <3>4, PlannedSame
  <3> QED BY <3>4, <3>5 DEF w
 <2> QED BY <1>1, <1>2, <2>1, BooksStay
<1>18. ActionInv'
 <2>1. ASSUME ~joint, NEW t \in Ticks, NEW i \in DOMAIN agenda'[t] PROVE ~IsAction(agenda'[t][i])
  <3>1. \A j \in DOMAIN agenda[t] : ~IsAction(agenda[t][j])
    BY <1>1, <1>2, <2>1 DEF ActionInv
  <3>2. CASE t = now
   <4>1. i \in DOMAIN c /\ agenda'[t][i] = c[i] BY <1>9, <2>1, <3>2
   <4>2. CASE i \in DOMAIN s /\ c[i] = s[i] BY <1>5, <3>1, <3>2, <4>1, <4>2
   <4>3. CASE c[i] \in ToSet(x) BY <1>10, <4>1, <4>3 DEF IsAction
   <4> QED BY <1>11, <4>1, <4>2, <4>3
  <3>3. CASE t # now BY <1>9, <2>1, <3>1, <3>3
  <3> QED BY <3>2, <3>3
 <2> QED BY <1>2, <2>1 DEF ActionInv
<1>19. DueInv'
 <2>2. ASSUME NEW t \in Ticks, NEW e \in ToSet(agenda'[t]) PROVE Expected(e, t)'
  <3>1. Expected(e, t)
   <4>1. CASE e \in ToSet(agenda[t]) BY <1>1, <4>1 DEF DueInv
   <4>2. CASE e \notin ToSet(agenda[t])
    <5>1. t = now /\ e \in ToSet(x) BY <1>9, <1>12, <2>2, <4>2
    <5> QED BY <1>10, <5>1
   <4> QED BY <4>1, <4>2
  <3>2. Due(e, t) => Due(e, t)' BY <1>2 DEF Due, AtHand
  <3>3. Loading(e) => Loading(e)' BY <1>2 DEF Loading
  <3> QED BY <3>1, <3>2, <3>3 DEF Expected
 <2>3. NoLate(c)
  <3>1. NoLate(s) BY <1>1, <1>5 DEF DueInv
  <3>2. \A e \in ToSet(x) : e.type # "DISCHARGE_FULL" BY <1>10
  <3> QED BY <1>6, <1>7, <3>1, <3>2, NoLateKept
 <2> QED BY <1>2, <1>9, <2>2, <2>3 DEF DueInv
<1>20. SailInv'
 <2> SUFFICES ASSUME NEW v \in Vessels PROVE VoyageOf(v)'
   BY DEF SailInv
 <2> DEFINE loc == vessel[v].next_loc
            s1 == stops[v]
 <2>1. VoyageOf(v) /\ loc \in Nat BY <1>1 DEF SailInv, TypeInv
 <2>2. \A t \in Ticks : Sum(Leaving(v), agenda'[t]) = Sum(Leaving(v), agenda[t])
  <3>1. Leaving(v) \in [Event -> Int] BY WeightTypes, WeightsAreWhole
  <3>2. \A e \in ToSet(x) : Leaving(v)[e] = 0
   <4> SUFFICES ASSUME NEW e \in ToSet(x) PROVE Leaving(v)[e] = 0
     OBVIOUS
   <4>1. e.type # "VESSEL_DEPARTURE" /\ e \in Event BY <1>10, <1>14
   <4> QED BY <4>1, WeightOf
  <3> QED BY <1>13, <3>1, <3>2
 <2>3. \A t \in Ticks : LeavesAt(v, t)' <=> LeavesAt(v, t) BY <1>2 DEF LeavesAt
 <2>4. v \in Arriving <=> loc > 0 /\ s1[loc + 1].arrive = now BY DEF Arriving, Stop
 <2>5. vessel[v].parking /\ loc > 0 => s1[loc + 1].arrive < now BY <1>2, <2>1 DEF VoyageOf
 <2>6. ~vessel[v].parking => loc > 0 BY <2>1 DEF VoyageOf
 <2>7. v \in Arriving <=> ~vessel[v].parking /\ s1[loc + 1].arrive = now
  <3> HIDE DEF loc, s1
  <3> QED BY <1>3, <2>4, <2>5, <2>6
 <2>8. Sum(Coming(v), agenda'[now]) = IF v \in Arriving THEN 1 ELSE 0
  <3>1. Sum(Coming(v), s) = 0 BY <1>2, <1>5, <2>1 DEF VoyageOf
  <3>2. Sum(Coming(v), x) = IF v \in Arriving THEN 1 ELSE 0 BY <1>4 DEF StepAdds
  <3>3. Sum(Coming(v), c) = Sum(Coming(v), s) + Sum(Coming(v), x)
   <4>1. Coming(v) \in [Event -> Int] BY WeightTypes, WeightsAreWhole
   <4> QED BY <1>6, <1>7, <4>1, SumOfConcat
  <3> QED BY <1>9, <3>1, <3>2, <3>3
 <2>9. vessel'[v] = vessel[v] /\ stops'[v] = stops[v] /\ now' = now /\ pc' = "execute"
   BY <1>2
 <2> QED BY <2>1, <2>2, <2>3, <2>7, <2>8, <2>9 DEF VoyageOf
<1> QED BY <1>15, <1>16, <1>17, <1>18, <1>19, <1>20 DEF CimInv

\* The state of a new episode.
FreshWith(sch) ==
  /\ joint \in BOOLEAN /\ now = 0 /\ pc = "step" /\ stops = sch
  /\ agenda = [t \in Ticks |-> DeparturesAt(sch, t)]
  /\ port = [p \in Ports |-> [empty |-> PortEmpty[p], full |-> 0, on_shipper |-> 0, on_consignee |-> 0]]
  /\ vessel = [v \in Vessels |-> [empty |-> VesselEmpty[v], full |-> 0, last_loc |-> 0, next_loc |-> 0,
                                  parking |-> TRUE, at |-> sch[v][1].port]]
  /\ full_on_ports = [pq \in Ports \X Ports |-> 0]
  /\ full_on_vessels = [vp \in Vessels \X Ports |-> 0]
Fresh == \E sch \in Schedules : FreshWith(sch)

\* A new episode has the invariant.
LEMMA FreshIsFine == Fresh => CimInv
<1> SUFFICES ASSUME NEW sch \in Schedules, FreshWith(sch) PROVE CimInv
  BY DEF Fresh
<1>1. /\ now = 0 /\ pc = "step" /\ stops = sch
      /\ \A p \in Ports : /\ port[p].empty = PortEmpty[p] /\ port[p].full = 0
                          /\ port[p].on_shipper = 0 /\ port[p].on_consignee = 0
      /\ \A v \in Vessels : /\ vessel[v].empty = VesselEmpty[v] /\ vessel[v].full = 0 /\ vessel[v].next_loc = 0
                            /\ vessel[v].parking /\ vessel[v].at = sch[v][1].port
      /\ \A p, q \in Ports : full_on_ports[<<p, q>>] = 0
      /\ \A v \in Vessels, p \in Ports : full_on_vessels[<<v, p>>] = 0
  BY DEF FreshWith
<1>2. \A t \in Ticks : agenda[t] = DeparturesAt(sch, t) BY DEF FreshWith
<1>3. agenda \in Agenda /\ \A t \in Ticks : \A e \in ToSet(agenda[t]) : e \in Event /\ e.type = "VESSEL_DEPARTURE"
 <2>1. \A t \in Ticks : agenda[t] \in Seq(Event) BY <1>2, FirstDepartures
 <2>2. agenda = [t \in Ticks |-> agenda[t]] BY DEF FreshWith
 <2>3. agenda \in Agenda BY <2>1, <2>2 DEF Agenda
 <2>4. ASSUME NEW t \in Ticks, NEW e \in ToSet(agenda[t]) PROVE e \in Event /\ e.type = "VESSEL_DEPARTURE"
  <3>1. e \in ToSet(DeparturesAt(sch, t)) BY <1>2
  <3>2. DeparturesAt(sch, t) \in Seq(Event) BY FirstDepartures
  <3>3. e \in Event BY <3>1, <3>2 DEF ToSet
  <3> QED BY <3>1, <3>3, FirstDepartures
 <2> QED BY <2>3, <2>4
<1>4. PortEmpty \in [Ports -> Nat] /\ VesselEmpty \in [Vessels -> Nat] /\ IsFiniteSet(Ports) /\ IsFiniteSet(Vessels)
  BY CimAssumption
<1>5. ASSUME NEW v \in Vessels
      PROVE  /\ Len(sch[v]) \in Nat \ {0} /\ sch[v][1].port \in Ports /\ sch[v][1].arrive = 0
 <2>1. Len(sch[v]) \in Nat \ {0} /\ sch[v][1].arrive = 0 BY ScheduleData
 <2>2. 1 \in 1 .. Len(sch[v]) BY <2>1
 <2> QED BY <2>1, <2>2, ScheduleData
<1>6. TypeInv
 <2>1. now \in 0 .. MaxTick BY <1>1, CimAssumption
 <2>2. port \in [Ports -> [empty : Nat, full : Nat, on_shipper : Nat, on_consignee : Nat]]
   BY <1>4 DEF FreshWith
 <2>3. vessel \in [Vessels -> [empty : Nat, full : Nat, last_loc : Nat, next_loc : Nat,
                            parking : BOOLEAN, at : Ports \cup {AtSea}]]
  <3>1. \A v \in Vessels : vessel[v] = [empty |-> VesselEmpty[v], full |-> 0, last_loc |-> 0, next_loc |-> 0,
                                parking |-> TRUE, at |-> sch[v][1].port]
    BY DEF FreshWith
  <3>2. \A v \in Vessels : \A b \in BOOLEAN :
           [empty |-> VesselEmpty[v], full |-> 0, last_loc |-> 0, next_loc |-> 0,
                                parking |-> b, at |-> sch[v][1].port]
             \in [empty : Nat, full : Nat, last_loc : Nat, next_loc : Nat,
                           parking : BOOLEAN, at : Ports \cup {AtSea}]
    BY <1>4, <1>5
  <3>3. \A v \in Vessels : vessel[v] \in [empty : Nat, full : Nat, last_loc : Nat, next_loc : Nat,
                           parking : BOOLEAN, at : Ports \cup {AtSea}]
   <4> SUFFICES ASSUME NEW v \in Vessels
                PROVE  vessel[v] \in [empty : Nat, full : Nat, last_loc : Nat, next_loc : Nat,
                          parking : BOOLEAN, at : Ports \cup {AtSea}]
     OBVIOUS
   <4>1. TRUE \in BOOLEAN OBVIOUS
   <4> QED BY <3>1, <3>2, <4>1, Zenon
  <3>4. vessel = [v \in Vessels |-> vessel[v]] BY DEF FreshWith
  <3> QED BY <3>3, <3>4
 <2>4. full_on_ports \in [Ports \X Ports -> Nat] /\ full_on_vessels \in [Vessels \X Ports -> Nat]
   BY DEF FreshWith
 <2>5. joint \in BOOLEAN BY DEF FreshWith
 <2> QED BY <1>1, <1>3, <2>1, <2>2, <2>3, <2>4, <2>5 DEF TypeInv, Agenda
<1>7. TimeInv
 <2>1. ASSUME NEW t \in Ticks PROVE ~(t < now)
  <3>1. t \in Nat BY TicksFinite
  <3> QED BY <1>1, <3>1
 <2>2. \A t \in Ticks : \A e \in ToSet(agenda[t]) : e.type \notin OfToday
   BY <1>3 DEF OfToday
 <2> QED BY <2>1, <2>2 DEF TimeInv, OfToday
<1>8. FitInv
 <2>1. Volume \in Nat /\ \A v \in Vessels : Capacity[v] \in Nat BY CimAssumption
 <2>2. LadenFit BY <1>1, <2>1 DEF LadenFit
 <2>3. ASSUME WholeContainers, NEW v \in Vessels
       PROVE  (vessel[v].full + vessel[v].empty) * Volume <= Capacity[v] /\ vessel[v].empty >= 0
  <3>1. VesselEmpty[v] * Volume <= Capacity[v] /\ VesselEmpty[v] \in Nat
    BY <1>4, <2>3 DEF WholeContainers
  <3>2. vessel[v].full + vessel[v].empty = VesselEmpty[v] /\ vessel[v].empty = VesselEmpty[v]
    BY <1>1, <3>1
  <3> QED BY <3>1, <3>2
 <2> QED BY <2>2, <2>3 DEF FitInv, CapacityRespected
<1>9. SailInv
 <2> SUFFICES ASSUME NEW v \in Vessels PROVE VoyageOf(v)
   BY DEF SailInv
 <2>1. ASSUME NEW t \in Ticks PROVE Sum(Leaving(v), agenda[t]) = IF LeavesAt(v, t) THEN 1 ELSE 0
  <3>1. Sum(Leaving(v), agenda[t]) = IF \E n \in 1 .. Len(sch[v]) : sch[v][n].leave = t THEN 1 ELSE 0
    BY <1>2, FirstDepartures
  <3>2. LeavesAt(v, t) <=> \E n \in 0 + 1 .. Len(sch[v]) : sch[v][n].leave = t
    BY <1>1 DEF LeavesAt
  <3> QED BY <3>1, <3>2
 <2>2. Sum(Coming(v), agenda[now]) = 0
  <3>1. now \in Ticks /\ agenda[now] \in Seq(Event) BY <1>6, Types
  <3>2. Coming(v) \in [Event -> Int] BY WeightTypes, WeightsAreWhole
  <3>3. \A i \in DOMAIN agenda[now] : Coming(v)[agenda[now][i]] = 0
   <4> SUFFICES ASSUME NEW i \in DOMAIN agenda[now] PROVE Coming(v)[agenda[now][i]] = 0
     OBVIOUS
   <4>1. agenda[now][i] \in ToSet(agenda[now]) BY DEF ToSet
   <4>2. agenda[now][i] \in Event /\ agenda[now][i].type = "VESSEL_DEPARTURE"
     BY <1>3, <3>1, <4>1
   <4> QED BY <4>2, WeightOf
  <3> QED BY <3>1, <3>2, <3>3, SumOfNone
 <2>3. 0 < Len(stops[v]) /\ ~(0 > 0) /\ stops[v][0 + 1].arrive <= now /\ vessel[v].at = stops[v][0 + 1].port
   BY <1>1, <1>5
 <2> QED BY <1>1, <2>1, <2>2, <2>3 DEF VoyageOf
<1>10. ActionInv
 <2>1. ASSUME NEW t \in Ticks, NEW i \in DOMAIN agenda[t] PROVE ~IsAction(agenda[t][i])
  <3>1. agenda[t][i] \in ToSet(agenda[t]) BY DEF ToSet
  <3> QED BY <1>3, <3>1 DEF IsAction
 <2> QED BY <1>1, <2>1 DEF ActionInv
<1>11. DueInv
 <2>1. \A t \in Ticks : \A e \in ToSet(agenda[t]) : Expected(e, t) BY <1>3 DEF Expected
 <2>2. NoLate(agenda[now])
  <3>1. now \in Ticks BY <1>6, Types
  <3>2. \A i \in DOMAIN agenda[now] : agenda[now][i].type # "VESSEL_ARRIVAL"
   <4> SUFFICES ASSUME NEW i \in DOMAIN agenda[now] PROVE agenda[now][i].type # "VESSEL_ARRIVAL"
     OBVIOUS
   <4>1. agenda[now][i] \in ToSet(agenda[now]) BY DEF ToSet
   <4> QED BY <1>3, <3>1, <4>1
  <3> QED BY <3>2 DEF NoLate
 <2> QED BY <1>1, <2>1, <2>2 DEF DueInv
<1>12. BooksInv
 <2>1. ASSUME NEW type \in CargoTypes, NEW place PROVE PlannedSum(Carrying(type, place), agenda) = 0
  <3> DEFINE w == Carrying(type, place)
  <3>1. w \in [Event -> Int] BY WeightTypes, WeightsAreWhole
  <3>2. \A t \in Ticks : \A e \in ToSet(agenda[t]) : w[e] = 0
   <4> SUFFICES ASSUME NEW t \in Ticks, NEW e \in ToSet(agenda[t]) PROVE w[e] = 0
     OBVIOUS
   <4>1. e \in Event /\ e.type # type BY <1>3 DEF CargoTypes
   <4>2. w[e] = IF e.type = type /\ Place(e) = place THEN e.n ELSE 0 BY <4>1, WeightOf
   <4> QED BY <4>1, <4>2
  <3> HIDE DEF w
  <3>3. PlannedSum(w, agenda) = 0 BY <1>3, <3>1, <3>2, PlannedOfNone
  <3> QED BY <3>3 DEF w
 <2>2. "RETURN_FULL" \in CargoTypes /\ "RETURN_EMPTY" \in CargoTypes /\ "DISCHARGE_FULL" \in CargoTypes
   BY DEF CargoTypes
 <2>3. ASSUME NEW p \in Ports PROVE PortBooks(p)
  <3> DEFINE f == [q \in Ports |-> full_on_ports[<<p, q>>]]
  <3>1. \A q \in Ports : f[q] = 0 BY <1>1
  <3> HIDE DEF f
  <3>2. SumFunctionOnSet(f, Ports) = 0 BY <1>4, <3>1, SumOfZeros
  <3> QED BY <1>1, <2>1, <2>2, <3>2 DEF PortBooks, f
 <2>4. ASSUME NEW v \in Vessels PROVE VesselBooks(v)
  <3> DEFINE f == [q \in Ports |-> full_on_vessels[<<v, q>>]]
  <3>1. \A q \in Ports : f[q] = 0 BY <1>1
  <3> HIDE DEF f
  <3>2. SumFunctionOnSet(f, Ports) = 0 BY <1>4, <3>1, SumOfZeros
  <3> QED BY <1>1, <2>1, <2>2, <3>2 DEF VesselBooks, f
 <2> QED BY <2>3, <2>4 DEF BooksInv
<1>13. ContainersConserved
 <2> DEFINE f == [p \in Ports |-> PortTotal(p)]
            g == [v \in Vessels |-> VesselTotal(v)]
 <2>1. \A p \in Ports : f[p] = PortEmpty[p] /\ PortEmpty[p] \in Int
  <3> SUFFICES ASSUME NEW p \in Ports PROVE f[p] = PortEmpty[p] /\ PortEmpty[p] \in Int
    OBVIOUS
  <3>1. PortEmpty[p] \in Nat BY <1>4
  <3> QED BY <1>1, <3>1 DEF PortTotal
 <2>2. \A v \in Vessels : g[v] = VesselEmpty[v] /\ VesselEmpty[v] \in Int
  <3> SUFFICES ASSUME NEW v \in Vessels PROVE g[v] = VesselEmpty[v] /\ VesselEmpty[v] \in Int
    OBVIOUS
  <3>1. VesselEmpty[v] \in Nat BY <1>4
  <3> QED BY <1>1, <3>1 DEF VesselTotal
 <2> HIDE DEF f, g
 <2>3. SumFunctionOnSet(f, Ports) = SumFunctionOnSet(PortEmpty, Ports)
   BY <1>4, <2>1, SumSame
 <2>4. SumFunctionOnSet(g, Vessels) = SumFunctionOnSet(VesselEmpty, Vessels)
   BY <1>4, <2>2, SumSame
 <2>5. SumFunctionOnSet(f, Ports) + SumFunctionOnSet(g, Vessels)
         = SumFunctionOnSet(PortEmpty, Ports) + SumFunctionOnSet(VesselEmpty, Vessels)
   BY <2>3, <2>4
 <2> QED BY <2>5 DEF ContainersConserved, f, g
<1> QED BY <1>6, <1>7, <1>8, <1>9, <1>10, <1>11, <1>12, <1>13 DEF CimInv, CountInv

\* The simulation begins with a new episode.
LEMMA InitIsFresh == Init => Fresh
<1> SUFFICES ASSUME Init PROVE Fresh
  OBVIOUS
<1>1. PICK sch \in Schedules :
        LET e == NewEpisode(sch) IN
        /\ stops = e.stops /\ agenda = e.agenda /\ port = e.port /\ vessel = e.vessel
        /\ full_on_ports = e.full_on_ports /\ full_on_vessels = e.full_on_vessels
        /\ joint \in JointModes /\ now = 0 /\ pc = "step"
  BY DEF Init
<1>2. FreshWith(sch) BY <1>1, CimAssumption DEF FreshWith, NewEpisode
<1> QED BY <1>2 DEF Fresh

\* Env.reset begins a new episode.
LEMMA ResetIsFresh ==
  ASSUME TypeInv, Reset
  PROVE  Fresh'
<1>1. PICK sch \in Schedules :
        LET e == NewEpisode(sch) IN
        /\ stops' = e.stops /\ agenda' = e.agenda /\ port' = e.port /\ vessel' = e.vessel
        /\ full_on_ports' = e.full_on_ports /\ full_on_vessels' = e.full_on_vessels
        /\ now' = 0 /\ pc' = "step" /\ joint' = joint
  BY DEF Reset
<1>2. FreshWith(sch)' BY <1>1 DEF FreshWith, NewEpisode, TypeInv
<1> QED BY <1>2 DEF Fresh

\* Nothing changes.
LEMMA StutterKeeps ==
  ASSUME CimInv, UNCHANGED vars
  PROVE  CimInv'
<1>1. TypeInv /\ TimeInv /\ FitInv /\ SailInv /\ ActionInv /\ DueInv /\ CountInv
  BY DEF CimInv
<1>2. /\ joint' = joint /\ stops' = stops /\ now' = now /\ pc' = pc /\ agenda' = agenda
      /\ port' = port /\ vessel' = vessel
      /\ full_on_ports' = full_on_ports /\ full_on_vessels' = full_on_vessels
  BY DEF vars
<1>3. TypeInv' BY <1>1, <1>2 DEF TypeInv
<1>4. TimeInv' BY <1>1, <1>2 DEF TimeInv
<1>5. FitInv' /\ CountInv' BY <1>1, <1>2, BooksStay
<1>6. SailInv' BY <1>1, <1>2 DEF SailInv, VoyageOf, LeavesAt
<1>7. ActionInv' BY <1>1, <1>2 DEF ActionInv, Accepted, RemainingSpace
<1>8. DueInv' BY <1>1, <1>2 DEF DueInv, NoLate, Expected, Due, AtHand, Loading
<1> QED BY <1>3, <1>4, <1>5, <1>6, <1>7, <1>8 DEF CimInv

\* Every step keeps the invariant or begins a new episode.
LEMMA NextKeeps == CimInv /\ [Next]_vars => CimInv' \/ Fresh'
<1> SUFFICES ASSUME CimInv, [Next]_vars PROVE CimInv' \/ Fresh'
  OBVIOUS
<1>1. CASE \E os \in {<<>>} \cup {<<o>> : o \in Orders} : Step(os) BY <1>1, StepKeeps
<1>2. CASE \E b \in Buffers : OnOrder(b) \/ OnDischarge(b)
  BY <1>2, OrderKeeps, DischargeKeeps
<1>3. CASE OnFullReturn BY <1>3, FullReturnKeeps
<1>4. CASE OnFullLoad BY <1>4, FullLoadKeeps
<1>5. CASE OnArrival BY <1>5, ArrivalKeeps
<1>6. CASE OnDeparture BY <1>6, DepartureKeeps
<1>7. CASE OnEmptyReturn BY <1>7, EmptyReturnKeeps
<1>8. CASE Decide BY <1>8, DecideKeeps
<1>9. CASE DecideNothing BY <1>9, DecideNothingKeeps
<1>10. CASE OnAction BY <1>10, ActionKeeps
<1>11. CASE OnActionFails BY <1>11, ActionFailsKeeps
<1>12. CASE PostStep BY <1>12, PostStepKeeps
<1>13. CASE Reset BY <1>13, ResetIsFresh DEF CimInv
<1>14. CASE UNCHANGED vars BY <1>14, StutterKeeps
<1> QED BY <1>1, <1>2, <1>3, <1>4, <1>5, <1>6, <1>7, <1>8, <1>9, <1>10, <1>11, <1>12, <1>13, <1>14 DEF Next

\* The invariant holds of every state: a new episode has it, every handler,
\* step, answer and end of a tick keeps it, and Env.reset begins a new
\* episode.
THEOREM CimInvariant == Spec => []CimInv
<1>1. Fresh => CimInv BY FreshIsFine
<1>2. Init => Fresh BY InitIsFresh
<1>3. CimInv /\ [Next]_vars => CimInv' \/ Fresh' BY NextKeeps
<1> QED BY <1>1, <1>2, <1>3, PTL DEF Spec

\* A vessel at a port has not yet come to the time it leaves.
LEMMA StillParking ==
  ASSUME TypeInv, TimeInv, SailInv, NEW v \in Vessels, vessel[v].parking
  PROVE  stops[v][vessel[v].next_loc + 1].leave >= now
<1> DEFINE loc == vessel[v].next_loc
           s == stops[v]
<1>1. loc \in Nat /\ loc < Len(s) /\ stops \in Schedules /\ VoyageOf(v)
  BY DEF SailInv, VoyageOf, TypeInv
<1>2. Len(s) \in Nat BY <1>1, ScheduleData
<1>3. loc + 1 \in 1 .. Len(s) /\ loc + 1 \in loc + 1 .. Len(s)
 <2> HIDE DEF loc, s
 <2> QED BY <1>1, <1>2
<1>4. s[loc + 1].leave \in Ticks /\ s[loc + 1].leave \in Nat BY <1>1, <1>3, ScheduleData
<1>5. now \in Nat BY Types
<1> SUFFICES ASSUME s[loc + 1].leave < now PROVE FALSE
  BY <1>4, <1>5
<1> DEFINE t == s[loc + 1].leave
<1>6. agenda[t] = << >> BY <1>4 DEF TimeInv
<1>7. LeavesAt(v, t) BY <1>3 DEF LeavesAt
<1>8. Sum(Leaving(v), agenda[t]) = 1 BY <1>1, <1>4, <1>7 DEF VoyageOf
<1>9. Sum(Leaving(v), << >>) = 0 BY WeightTypes, WeightsAreWhole, SumOfEvents
<1> QED BY <1>6, <1>8, <1>9

\* The invariant has the vessels where their schedules say.
LEMMA VesselsOnSchedule ==
  ASSUME CimInv
  PROVE  OnSchedule
<1>1. TypeInv /\ TimeInv /\ SailInv BY DEF CimInv
<1> SUFFICES ASSUME pc = "step", now > 0, NEW v \in Vessels
             PROVE  LET l == vessel[v].next_loc
                        t == now - 1
                    IN IF vessel[v].parking
                       THEN Stop(v, l).arrive <= t /\ t < Stop(v, l).leave /\ vessel[v].at = Stop(v, l).port
                       ELSE Stop(v, l - 1).leave <= t /\ t < Stop(v, l).arrive
  BY DEF OnSchedule
<1> DEFINE loc == vessel[v].next_loc
           s == stops[v]
<1>2. loc \in Nat /\ loc < Len(s) /\ stops \in Schedules /\ VoyageOf(v) /\ now \in Nat
  BY <1>1, Types DEF SailInv, VoyageOf, TypeInv
<1>3. Len(s) \in Nat BY <1>2, ScheduleData
<1>4. loc + 1 \in 1 .. Len(s) /\ (loc > 0 => loc \in 1 .. Len(s))
 <2> HIDE DEF loc, s
 <2> QED BY <1>2, <1>3
<1>5. s[loc + 1].leave \in Nat /\ s[loc + 1].arrive \in Nat /\ (loc > 0 => s[loc].leave \in Nat) /\ s[1].arrive = 0
  BY <1>2, <1>4, ScheduleData
<1>6. CASE vessel[v].parking
 <2>1. vessel[v].at = s[loc + 1].port /\ (loc > 0 => s[loc + 1].arrive < now)
   BY <1>2, <1>6 DEF VoyageOf
 <2>2. s[loc + 1].leave >= now BY <1>1, <1>6, StillParking
 <2>3. s[loc + 1].arrive < now
  <3>1. CASE loc > 0 BY <2>1, <3>1
  <3>2. CASE loc = 0
   <4>1. s[loc + 1].arrive = 0 BY <1>5, <3>2
   <4> QED BY <4>1
  <3> QED BY <1>2, <3>1, <3>2
 <2>4. s[loc + 1].arrive <= now - 1 /\ now - 1 < s[loc + 1].leave
  <3> HIDE DEF loc, s
  <3> QED BY <1>2, <1>5, <2>2, <2>3
 <2> QED BY <1>6, <2>1, <2>4 DEF Stop
<1>7. CASE ~vessel[v].parking
 <2>1. loc > 0 /\ s[loc + 1].arrive >= now /\ s[loc].leave < now BY <1>2, <1>7 DEF VoyageOf
 <2>2. s[loc].leave <= now - 1 /\ now - 1 < s[loc + 1].arrive
  <3> HIDE DEF loc, s
  <3> QED BY <1>2, <1>5, <2>1
 <2>3. (loc - 1) + 1 = loc BY <1>2
 <2> QED BY <1>7, <2>2, <2>3 DEF Stop
<1> QED BY <1>6, <1>7

\* A sum is that of the part outside of which nothing is added.
LEMMA SumOfPart ==
  ASSUME NEW f, NEW S, IsFiniteSet(S), \A x \in S : f[x] \in Int, NEW P, P \subseteq S,
         \A x \in S \ P : f[x] = 0
  PROVE  SumFunctionOnSet(f, S) = SumFunctionOnSet(f, P)
<1> DEFINE rest == S \ P
<1>1. IsFiniteSet(rest) /\ IsFiniteSet(P) BY FS_Subset
<1>2. SumFunctionOnSet(f, S) = SumFunctionOnSet(f, P) + SumFunctionOnSet(f, rest) BY SumSplits
<1>3. \A x \in rest : f[x] = 0 OBVIOUS
<1>4. SumFunctionOnSet(f, P) \in Int BY <1>1, SumRecursion
<1> HIDE DEF rest
<1>5. SumFunctionOnSet(f, rest) = 0 BY <1>1, <1>3, SumOfZeros
<1> QED BY <1>2, <1>4, <1>5

\* What is aboard for the port where a vessel parks is discharged at its next
\* call there.
LEMMA NothingLeftAboard ==
  ASSUME CimInv
  PROVE  DeliveredOnArrival
<1>1. TypeInv /\ SailInv /\ DueInv /\ CountInv BY DEF CimInv
<1> SUFFICES ASSUME NEW v \in Vessels, vessel[v].parking
             PROVE  LET aboard == [t \in Ticks |-> CarriedBy(agenda[t], "DISCHARGE_FULL", <<v, vessel[v].at>>)]
                    IN full_on_vessels[<<v, vessel[v].at>>] = SumFunctionOnSet(aboard, NextCall(v))
  BY DEF DeliveredOnArrival
<1> DEFINE loc == vessel[v].next_loc
           s == stops[v]
           p == vessel[v].at
           w == Carrying("DISCHARGE_FULL", <<v, p>>)
           aboard == [t \in Ticks |-> CarriedBy(agenda[t], "DISCHARGE_FULL", <<v, p>>)]
           call == NextCall(v)
<1>2. loc \in Nat /\ loc < Len(s) /\ stops \in Schedules /\ VoyageOf(v)
  BY <1>1 DEF SailInv, VoyageOf, TypeInv
<1>3. Len(s) \in Nat /\ \A n \in 1 .. Len(s) : s[n].arrive \in Ticks BY <1>2, ScheduleData
<1>4. loc + 1 \in 1 .. Len(s) /\ p = s[loc + 1].port
 <2>1. p = s[loc + 1].port BY <1>2 DEF VoyageOf
 <2> HIDE DEF loc, s, p
 <2> QED BY <1>2, <1>3, <2>1
<1>5. p \in Ports BY <1>2, <1>4, ScheduleData
<1>6. agenda \in Agenda /\ \A t \in Ticks : agenda[t] \in Seq(Event) BY <1>1, Types
<1>7. \A n \in loc + 2 .. Len(s) :
        s[n].port = p /\ (\A m \in loc + 2 .. n - 1 : s[m].port # p) => s[n].arrive \in call
  BY DEF NextCall
<1>8. call \subseteq Ticks
 <2> SUFFICES ASSUME NEW n \in loc + 2 .. Len(s) PROVE s[n].arrive \in Ticks
   BY DEF NextCall
 <2>1. n \in 1 .. Len(s)
  <3> HIDE DEF loc, s
  <3> QED BY <1>2, <1>3
 <2> QED BY <1>3, <2>1
<1> HIDE DEF call
<1>9. ASSUME NEW t \in Ticks \ call, NEW e \in ToSet(agenda[t]) PROVE w[e] = 0
 <2>1. e \in Event /\ Expected(e, t) BY <1>1, <1>6 DEF DueInv, ToSet
 <2>2. w[e] = IF e.type = "DISCHARGE_FULL" /\ Place(e) = <<v, p>> THEN e.n ELSE 0
   BY <2>1, WeightOf
 <2> SUFFICES ASSUME e.type = "DISCHARGE_FULL", e.v = v, e.p = p PROVE FALSE
   BY <2>2 DEF Place
 <2>3. Due(e, t) BY <2>1 DEF Expected
 <2>4. PICK n \in loc + 1 .. Len(s) :
         /\ n > loc + 1 /\ s[n].arrive = t /\ s[n].port = p
         /\ \A m \in loc + 1 .. n - 1 : s[m].port # p \/ AtHand(v, m)
   BY <2>3 DEF Due
 <2>5. \A m \in loc + 2 .. n - 1 : m \in loc + 1 .. n - 1 /\ m # loc + 1
  <3> HIDE DEF loc, s, p
  <3> QED BY <1>2, <1>3, <2>4
 <2>6. \A m : AtHand(v, m) => m = loc + 1 BY DEF AtHand
 <2>7. n \in loc + 2 .. Len(s)
  <3> HIDE DEF loc, s, p
  <3> QED BY <1>2, <1>3, <2>4
 <2> QED BY <1>7, <2>4, <2>5, <2>6, <2>7
<1>10. w \in [Event -> Int] BY WeightTypes, WeightsAreWhole DEF CargoTypes
<1>11. full_on_vessels[<<v, p>>] = SumFunctionOnSet(aboard, Ticks)
 <2>1. full_on_vessels[<<v, p>>] = PlannedSum(w, agenda)
   BY <1>1, <1>5 DEF CountInv, BooksInv, VesselBooks
 <2>2. Planned(agenda, "DISCHARGE_FULL", <<v, p>>) = PlannedSum(w, agenda)
   BY <1>6, PlannedIsSum
 <2> QED BY <2>1, <2>2 DEF Planned
<1>12. \A t \in Ticks : aboard[t] = Sum(w, agenda[t]) BY <1>6, CarriedIsSum
<1> HIDE DEF w, aboard, p
<1>13. \A t \in Ticks : aboard[t] \in Int BY <1>6, <1>10, <1>12, SumType
<1>14. ASSUME NEW t \in Ticks \ call PROVE aboard[t] = 0
 <2>1. \A i \in DOMAIN agenda[t] : w[agenda[t][i]] = 0 BY <1>9 DEF ToSet
 <2>2. agenda[t] \in Seq(Event) BY <1>6
 <2>3. Sum(w, agenda[t]) = 0 BY <1>10, <2>1, <2>2, SumOfNone
 <2> QED BY <1>12, <2>3
<1>15. SumFunctionOnSet(aboard, Ticks) = SumFunctionOnSet(aboard, call)
 <2>1. IsFiniteSet(Ticks) BY TicksFinite
 <2> QED BY <1>8, <1>13, <1>14, <2>1, SumOfPart, Zenon
<1> QED BY <1>11, <1>15 DEF aboard, call, p

\* No count of containers ever becomes negative, and every event carries what
\* its handler reads: business_engine.py subtracts from the counts of ports,
\* vessels and customers and from the matrices without a test.
THEOREM CimTypeCorrect == Spec => []TypeInv
<1>1. CimInv => TypeInv BY DEF CimInv
<1> QED BY <1>1, CimInvariant, PTL

\* No handler loses or makes a container, and the two matrices, the totals of
\* ports and vessels and the events of the buffer tell the same of all
\* containers, for any capacities and volumes.
THEOREM CimContainersConserved == Spec => [](ContainersConserved /\ CargoAccounted)
<1>1. CimInv => ContainersConserved /\ CargoAccounted
  BY Types, BooksAreCargo DEF CimInv, CountInv
<1> QED BY <1>1, CimInvariant, PTL

\* ContainersAccounted, the property that the run checks: where capacities are
\* whole numbers of containers and the initial empties fit, as in the
\* topologies of the repository, no vessel carries more than its capacity
\* either, once _on_full_load has made room.
THEOREM CimContainersAccounted ==
  ASSUME WholeContainers
  PROVE  Spec => []ContainersAccounted
<1>1. CimInv => ContainersAccounted
  BY Types, BooksAreCargo DEF CimInv, CountInv, FitInv, ContainersAccounted
<1> QED BY <1>1, CimInvariant, PTL

\* ServiceIsKept: arrivals that step derives from next_loc_idx and departures
\* that reset planned for the whole episode keep to the schedule together, and
\* the discharges planned by _on_full_load are over when a vessel arrives.
THEOREM CimServiceIsKept == Spec => []ServiceIsKept
<1>1. CimInv => ServiceIsKept BY VesselsOnSchedule, NothingLeftAboard DEF ServiceIsKept
<1> QED BY <1>1, CimInvariant, PTL

\* ScopeIsHonoured: with decisions answered one by one, an action in the scope
\* that its decision event offered never fails the assertions of
\* _on_action_received.
THEOREM CimScopeIsHonoured == Spec => []ScopeIsHonoured
<1>1. CimInv => ScopeIsHonoured BY DEF CimInv, ActionInv, ScopeIsHonoured
<1> QED BY <1>1, CimInvariant, PTL
=============================================================================
