---------------------------- MODULE EventAgenda ----------------------------
(***************************************************************************)
(* What EventBuffer promises its clients, without objects, pointers and     *)
(* pools: every tick has an agenda of events, run in FIFO order; the        *)
(* immediate events of an event run right after it, before the rest of the  *)
(* tick; decision events wait at the front for the agent's answer           *)
(* (docs/source/key_components/event_buffer.rst, event.py, core.py).        *)
(*                                                                          *)
(* An entry is [id, kind, go, subs]: a number given out once, the kind of   *)
(* event, whether it may run (a decision may once it has been answered) and *)
(* the immediate events added to it so far, as <<id, kind>> pairs.          *)
(***************************************************************************)
EXTENDS Naturals, Sequences

CONSTANTS MaxTick,    \* the last tick of an episode
          MaxEvents,  \* bound: how many events are ever generated
          MaxResets   \* bound: how many times the environment is reset

VARIABLES now,      \* the tick being simulated
          agenda,   \* tick -> sequence of entries still to be run
          running,  \* is the first entry of agenda[now] being handled?
          log,      \* ids of the events run in this episode, in order
          nextId,   \* the next id
          resets    \* how often the environment was reset

agendaVars == <<now, agenda, running, log, nextId, resets>>

AgendaTicks == 0 .. MaxTick

Entry(i, k, s) == [id |-> i, kind |-> k, go |-> (k # "decision"), subs |-> s]

\* The entries that immediate events become once their parent has run.
SubEntries(s) == [n \in DOMAIN s |-> Entry(s[n][1], s[n][2], <<>>)]

AInit ==
  /\ now = 0
  /\ agenda = [t \in AgendaTicks |-> <<>>]
  /\ running = FALSE
  /\ log = <<>>
  /\ nextId = 1
  /\ resets = 0

\* A client inserts an event for this or a later tick.
AInsert(t, k) ==
  /\ t >= now
  /\ agenda' = [agenda EXCEPT ![t] = Append(@, Entry(nextId, k, <<>>))]
  /\ nextId' = nextId + 1
  /\ UNCHANGED <<now, running, log, resets>>

\* The handler of the running event adds an immediate event to it.
AAddSub(k) ==
  /\ running
  /\ agenda' = [agenda EXCEPT ![now][1].subs = Append(@, <<nextId, k>>)]
  /\ nextId' = nextId + 1
  /\ UNCHANGED <<now, running, log, resets>>

\* The first entry of the tick runs.
AStart ==
  /\ ~running
  /\ agenda[now] # <<>>
  /\ Head(agenda[now]).go
  /\ running' = TRUE
  /\ log' = Append(log, Head(agenda[now]).id)
  /\ UNCHANGED <<now, agenda, nextId, resets>>

\* Its immediate events take its place.
AFinish ==
  /\ running
  /\ running' = FALSE
  /\ agenda' = [agenda EXCEPT ![now] = SubEntries(Head(@).subs) \o Tail(@)]
  /\ UNCHANGED <<now, log, nextId, resets>>

\* How many decision events stand at the front of a sequence of entries.
Decisions(q) ==
  CHOOSE n \in 0 .. Len(q) :
    /\ \A m \in 1 .. n : q[m].kind = "decision"
    /\ n < Len(q) => q[n + 1].kind # "decision"

\* The agent answers the first g decisions at the front of the tick, each
\* answer becoming an immediate event of its decision; if the decision mode
\* says so, the other decisions at the front are dropped.
AAnswer(g, dropOthers) ==
  LET q == agenda[now]
      d == Decisions(q)
      answered == [n \in 1 .. g |->
                     [q[n] EXCEPT !.go = TRUE,
                                  !.subs = <<<<nextId + n - 1, "action">>>> \o @]]
      others == IF dropOthers THEN <<>> ELSE SubSeq(q, g + 1, d)
  IN
  /\ ~running
  /\ d > 0 /\ ~Head(q).go
  /\ g <= d
  /\ agenda' = [agenda EXCEPT ![now] = answered \o others \o SubSeq(q, d + 1, Len(q))]
  /\ nextId' = nextId + g
  /\ UNCHANGED <<now, running, log, resets>>

\* The tick is over when its agenda is empty.
ANextTick ==
  /\ ~running
  /\ agenda[now] = <<>>
  /\ now < MaxTick
  /\ now' = now + 1
  /\ UNCHANGED <<agenda, running, log, nextId, resets>>

\* Env.reset between two steps: nothing of the episode is left.
AReset ==
  /\ ~running
  /\ now' = 0
  /\ agenda' = [t \in AgendaTicks |-> <<>>]
  /\ log' = <<>>
  /\ resets' = resets + 1
  /\ UNCHANGED <<running, nextId>>

ANext ==
  \/ \E t \in AgendaTicks, k \in {"atom", "cascade", "decision"} : AInsert(t, k)
  \/ \E k \in {"atom", "decision"} : AAddSub(k)
  \/ AStart
  \/ AFinish
  \/ \E g \in 0 .. MaxEvents, b \in BOOLEAN : AAnswer(g, b)
  \/ ANextTick
  \/ AReset

AgendaSpec == AInit /\ [][ANext]_agendaVars
=============================================================================
