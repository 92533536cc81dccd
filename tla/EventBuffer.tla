---------------------------- MODULE EventBuffer ----------------------------
(***************************************************************************)
(* The event buffer (maro/event_buffer) at the level of its objects: one    *)
(* singly linked list per tick with a dummy head, a tail pointer and a      *)
(* counter; cascade events with a second list of immediate events; a pool   *)
(* that reuses event objects; and the execute loop that runs a tick.        *)
(*                                                                          *)
(* The clients are the Env generator (core.py: it calls step, execute and   *)
(* post_step of a tick in turn, and answers decisions) and the handlers of  *)
(* the business engine, which may insert events and add immediate events.   *)
(* Everything runs in one thread, so a loop may take several steps.         *)
(***************************************************************************)
EXTENDS Naturals, Sequences, SequencesExt

CONSTANTS MaxTick,          \* the last tick of an episode
          MaxEvents,        \* bound: how many events are ever generated
          MaxResets,        \* bound: how many times Env.reset is called
          DisableFinished,  \* disable_finished_events
          Modes,            \* decision modes an Env may be created with
          SubsInsert        \* may handlers of immediate events insert into
                            \* the tick that is being executed?

ASSUME BufferAssumption ==
  /\ MaxTick \in Nat /\ MaxEvents \in Nat /\ MaxResets \in Nat
  /\ DisableFinished \in BOOLEAN /\ SubsInsert \in BOOLEAN
  /\ Modes \subseteq {"Sequential", "Joint", "JointWithSequentialAction"}

VARIABLES
  mode,      \* Env._decision_mode
  ev,        \* the event objects, 1 .. Len(ev)
  pool,      \* EventPool: the recycled atom and cascade objects
  lists,     \* _pending_events: tick -> [head, tail, count]
  finished,  \* _finished_events
  nextId,    \* EventPool._event_count
  now,       \* Env._tick
  pc,        \* where the single thread is
  cur,       \* the object execute is handling
  pending,   \* the decision events execute returned
  log,       \* history: ids handled in this episode, in order
  subIds,    \* history: ids of events added as immediate events
  resets     \* how often Env.reset was called

vars == <<mode, ev, pool, lists, finished, nextId, now, pc, cur, pending, log,
          subIds, resets>>

None == 0
Ticks == 0 .. MaxTick
Class(kind) == IF kind = "atom" THEN "atom" ELSE "cascade"
IsFinished(o) == ev[o].state \in {"FINISHED", "RECYCLING"}

EmptyLists == [t \in Ticks |-> [head |-> None, tail |-> None, count |-> 0]]

Init ==
  /\ mode \in Modes
  /\ ev = <<>>
  /\ pool = [c \in {"atom", "cascade"} |-> <<>>]
  /\ lists = EmptyLists
  /\ finished = <<>>
  /\ nextId = 1
  /\ now = 0
  /\ pc = "step"
  /\ cur = None
  /\ pending = <<>>
  /\ log = <<>>
  /\ subIds = {}
  /\ resets = 0

----------------------------------------------------------------------------
(* EventPool.gen: an object of the pool, or a new one.  reset_value gives it *)
(* its values; the links of a reused object are left as they are.  H is the  *)
(* heap [ev, pool, id].                                                      *)
Heap == [ev |-> ev, pool |-> pool, id |-> nextId]

GenObject(H, kind) ==
  IF H.pool[Class(kind)] # <<>> THEN Last(H.pool[Class(kind)]) ELSE Len(H.ev) + 1

Gen(H, kind, t) ==
  LET o == GenObject(H, kind)
      c == Class(kind)
      new == [id |-> H.id, tick |-> t, kind |-> kind, state |-> "PENDING",
              next |-> None, subHead |-> None, subTail |-> None, subCount |-> 0]
  IN [ev   |-> IF o > Len(H.ev) THEN Append(H.ev, new)
               ELSE [H.ev EXCEPT ![o] = [@ EXCEPT !.id = H.id, !.tick = t,
                                                   !.kind = kind,
                                                   !.state = "PENDING"]],
      pool |-> IF o > Len(H.ev) THEN H.pool
               ELSE [H.pool EXCEPT ![c] = Front(@)],
      id   |-> H.id + 1]

\* A wrong add_immediate_event that forgets to move the tail.
AddImmediateKeepsTail(E, p, o, isHead) ==
  IF E[p].subCount = 0
  THEN [E EXCEPT ![p].subHead = o, ![p].subTail = o, ![p].subCount = 1]
  ELSE IF isHead
       THEN [E EXCEPT ![o].next = E[p].subHead, ![p].subHead = o,
                      ![p].subCount = @ + 1]
       ELSE [E EXCEPT ![E[p].subTail].next = o, ![p].subCount = @ + 1]

\* CascadeEvent.add_immediate_event of object o to p (their ticks agree).
AddImmediate(E, p, o, isHead) ==
  IF E[p].subCount = 0
  THEN [E EXCEPT ![p].subHead = o, ![p].subTail = o, ![p].subCount = 1]
  ELSE IF isHead
       THEN [E EXCEPT ![o].next = E[p].subHead, ![p].subHead = o,
                      ![p].subCount = @ + 1]
       ELSE [E EXCEPT ![E[p].subTail].next = o, ![p].subTail = o,
                      ![p].subCount = @ + 1]

\* EventLinkedList.append_tail: the heap's half and the list's half.
LinkTail(E, L, o) == IF L.tail = None THEN E ELSE [E EXCEPT ![L.tail].next = o]
AppendTail(L, o) ==
  [head |-> IF L.tail = None THEN o ELSE L.head, tail |-> o, count |-> L.count + 1]

\* EventPool._append: payload and link are detached, immediate events are not.
Recycle(E, o) == [E EXCEPT ![o].next = None, ![o].state = "RECYCLING"]
PoolAppend(P, E, o) == [P EXCEPT ![Class(E[o].kind)] = Append(@, o)]

----------------------------------------------------------------------------
(* Clients of insert_event and add_immediate_event.                          *)

\* gen_atom_event / gen_cascade_event / gen_decision_event and insert_event.
InsertEvent(t, kind) ==
  LET o == GenObject(Heap, kind)
      H == Gen(Heap, kind, t)
  IN
  /\ nextId <= MaxEvents
  /\ ev' = LinkTail(H.ev, lists[t], o)
  /\ pool' = H.pool
  /\ nextId' = H.id
  /\ lists' = [lists EXCEPT ![t] = AppendTail(@, o)]
  /\ UNCHANGED <<mode, finished, now, pc, cur, pending, log, subIds, resets>>

\* business_engine.step inserts events for this or a later tick.
StepInserts(t, kind) ==
  /\ pc = "step"
  /\ t >= now
  /\ InsertEvent(t, kind)

\* A handler inserts an event for this or a later tick.
HandlerInserts(t, kind) ==
  /\ pc = "handler"
  /\ t >= now
  /\ t = now /\ ev[cur].id \in subIds => SubsInsert
  /\ InsertEvent(t, kind)

\* A handler adds an immediate event to the cascade event it handles.
HandlerAddsSub(kind) ==
  LET o == GenObject(Heap, kind)
      H == Gen(Heap, kind, now)
  IN
  /\ pc = "handler"
  /\ ev[cur].kind = "cascade"
  /\ nextId <= MaxEvents
  /\ ev' = AddImmediate(H.ev, cur, o, FALSE)
  /\ pool' = H.pool
  /\ nextId' = H.id
  /\ subIds' = subIds \cup {nextId}
  /\ UNCHANGED <<mode, lists, finished, now, pc, cur, pending, log, resets>>

----------------------------------------------------------------------------
(* EventBuffer.execute(now).                                                 *)

Execute ==
  /\ pc = "step"
  /\ pc' = "loop"
  /\ UNCHANGED <<mode, ev, pool, lists, finished, nextId, now, cur, pending, log, subIds,
                 resets>>

\* while len(cur_events_list): clear_finished_and_get_front()
LoopTest ==
  /\ pc = "loop"
  /\ pc' = IF lists[now].count = 0 THEN "return" ELSE "clear"
  /\ UNCHANGED <<mode, ev, pool, lists, finished, nextId, now, cur, pending, log, subIds,
                 resets>>

\* CascadeEvent.clear: an event without immediate events.
Cleared(e) == [e EXCEPT !.subHead = None, !.subTail = None, !.subCount = 0]

\* The counter after event e, with its immediate events, left the list.
CountAfter(L, e) == L.count - 1 + e.subCount

\* One turn of _clear_finished_events: the finished head is unlinked and its
\* immediate events (_extract_sub_events) become the head of the list.
ClearFinished ==
  LET o == lists[now].head
      rest == ev[o].next
  IN
  /\ pc = "clear"
  /\ o # None /\ IsFinished(o)
  /\ lists' = [lists EXCEPT ![now].count = CountAfter(lists[now], ev[o]),
                            ![now].head = IF ev[o].subCount = 0 THEN rest
                                          ELSE ev[o].subHead]
  /\ ev' = IF ev[o].subCount = 0 THEN ev
           ELSE [ev EXCEPT ![ev[o].subTail].next = rest, ![o] = Cleared(@)]
  /\ UNCHANGED <<mode, pool, finished, nextId, now, pc, cur, pending, log, subIds, resets>>

\* _collect_pending_decision_events: the decision events at the front.
DecisionRun[o \in 0 .. Len(ev)] ==
  IF o = None \/ ev[o].kind # "decision" THEN <<>>
  ELSE <<o>> \o DecisionRun[ev[o].next]

\* The front of the list is nothing: execute returns no decision.
FrontIsNone ==
  /\ pc = "clear"
  /\ lists[now].head = None
  /\ pc' = "return"
  /\ UNCHANGED <<mode, ev, pool, lists, finished, nextId, now, cur, pending, log, subIds,
                 resets>>

\* The front of the list is a decision nobody has answered: execute returns
\* it with the decisions that follow it.
FrontIsDecision ==
  LET o == lists[now].head IN
  /\ pc = "clear"
  /\ o # None
  /\ ev[o].state = "PENDING" /\ ev[o].kind = "decision"
  /\ pc' = "deciding"
  /\ pending' = DecisionRun[o]
  /\ UNCHANGED <<mode, ev, pool, lists, finished, nextId, now, cur, log, subIds, resets>>

\* The front of the list is an event to run: it becomes EXECUTING and is
\* handed to its handlers.
FrontIsEvent ==
  LET o == lists[now].head IN
  /\ pc = "clear"
  /\ o # None
  /\ ev[o].state = "EXECUTING" \/ (ev[o].state = "PENDING" /\ ev[o].kind # "decision")
  /\ pc' = "handler"
  /\ cur' = o
  /\ ev' = [ev EXCEPT ![o].state = "EXECUTING"]
  /\ log' = Append(log, ev[o].id)
  /\ UNCHANGED <<mode, pool, lists, finished, nextId, now, pending, subIds, resets>>

\* next_events.state = EventState.FINISHED
MarkFinished(E, o) == [E EXCEPT ![o].state = "FINISHED"]

\* The handlers have returned: FINISHED, then recycled or kept.
HandlerReturns ==
  LET E == MarkFinished(ev, cur) IN
  /\ pc = "handler"
  /\ pc' = "loop"
  /\ cur' = None
  /\ IF DisableFinished
     THEN /\ ev' = Recycle(E, cur)
          /\ pool' = PoolAppend(pool, E, cur)
          /\ UNCHANGED finished
     ELSE /\ ev' = E
          /\ finished' = Append(finished, cur)
          /\ UNCHANGED pool
  /\ UNCHANGED <<mode, lists, nextId, now, pending, log, subIds, resets>>

----------------------------------------------------------------------------
(* Env._simulate after execute returned, and Env.reset.                      *)

\* Env._assign_action for the events of a sequence, one after the other.
AssignActions(os) ==
  LET Assign(H, o) ==
        LET a == GenObject(H, "action")
            G == Gen(H, "action", now)
        IN [G EXCEPT !.ev = AddImmediate([G.ev EXCEPT ![o].state = "EXECUTING"],
                                         o, a, TRUE)]
  IN FoldLeft(Assign, Heap, os)

\* The agent's answer: in Sequential mode one action (possibly empty) for the
\* first event; otherwise a list, matched with the first g events; in Joint
\* mode the other events are finished without an action.
Answer(g) ==
  LET H == AssignActions(SubSeq(pending, 1, g))
      others == ToSet(SubSeq(pending, g + 1, Len(pending)))
  IN
  /\ pc = "deciding"
  /\ g <= Len(pending)
  /\ mode = "Sequential" => g = 1
  /\ ev' = [o \in 1 .. Len(H.ev) |->
              IF mode = "Joint" /\ o \in others
              THEN [H.ev[o] EXCEPT !.state = "FINISHED"] ELSE H.ev[o]]
  /\ pool' = H.pool
  /\ nextId' = H.id
  /\ subIds' = subIds \cup (nextId .. H.id - 1)
  /\ pending' = <<>>
  /\ pc' = "loop"
  /\ UNCHANGED <<mode, lists, finished, now, cur, log, resets>>

\* execute returned no decision: post_step, then the next tick or the end.
TickOverSameTick ==
  /\ pc = "return"
  /\ pc' = IF now < MaxTick THEN "step" ELSE "done"
  /\ UNCHANGED <<mode, ev, pool, lists, finished, nextId, now, cur, pending, log, subIds,
                 resets>>
TickOver ==
  /\ pc = "return"
  /\ pc' = IF now < MaxTick THEN "step" ELSE "done"
  /\ now' = IF now < MaxTick THEN now + 1 ELSE now
  /\ UNCHANGED <<mode, ev, pool, lists, finished, nextId, cur, pending, log, subIds, resets>>

\* EventLinkedList.clear of every pending list.
ClearedListsKept == lists
ClearedLists == EmptyLists

\* EventBuffer.reset: the finished events go to the pool; of every pending
\* list only the first event does, because recycling it cuts the chain the
\* iteration follows; then the lists are cleared.
Reset ==
  LET heads == SelectSeq([n \in 1 .. MaxTick + 1 |-> lists[n - 1].head],
                         LAMBDA o : o # None)
      reused == finished \o heads
  IN
  /\ pc \in {"deciding", "done"}
  /\ resets < MaxResets
  /\ ev' = FoldLeft(Recycle, ev, reused)
  /\ pool' = FoldLeft(LAMBDA P, o : PoolAppend(P, ev, o), pool, reused)
  /\ finished' = <<>>
  /\ lists' = ClearedLists
  /\ now' = 0
  /\ pc' = "step"
  /\ pending' = <<>>
  /\ log' = <<>>
  /\ resets' = resets + 1
  /\ UNCHANGED <<mode, nextId, cur, subIds>>

Loop ==
  \/ Execute
  \/ LoopTest
  \/ ClearFinished
  \/ FrontIsNone
  \/ FrontIsDecision
  \/ FrontIsEvent
  \/ HandlerReturns
  \/ TickOver

Next ==
  \/ \E t \in Ticks, k \in {"atom", "cascade", "decision"} :
        \/ StepInserts(t, k)
        \/ HandlerInserts(t, k)
  \/ \E k \in {"atom", "decision"} : HandlerAddsSub(k)
  \/ Loop
  \/ \E g \in 0 .. MaxEvents : Answer(g)
  \/ Reset

(***************************************************************************)
(* The thread never stops inside a tick, and an agent that is asked again   *)
(* and again does not forever answer with an empty list of actions (which   *)
(* JointWithSequentialAction would ask about forever).                      *)
(***************************************************************************)
Fairness ==
  /\ WF_vars(Loop)
  /\ SF_vars(\E g \in 1 .. MaxEvents : Answer(g))

Spec == Init /\ [][Next]_vars /\ Fairness

----------------------------------------------------------------------------
\* The objects of a chain, following next.
Chain[o \in 0 .. Len(ev)] == IF o = None THEN <<>> ELSE <<o>> \o Chain[ev[o].next]

\* The immediate events of object o.
SubChain(o) == IF ev[o].subCount = 0 THEN <<>> ELSE Chain[ev[o].subHead]

EntryOf(o) ==
  [id |-> ev[o].id, kind |-> ev[o].kind,
   go |-> (ev[o].kind # "decision" \/ ev[o].state # "PENDING"),
   subs |-> [n \in DOMAIN SubChain(o) |->
               <<ev[SubChain(o)[n]].id, ev[SubChain(o)[n]].kind>>]]

\* The agenda a list stands for: an event that is finished but not yet
\* unlinked is already replaced by its immediate events.
AgendaOf(t) ==
  LET os == Chain[lists[t].head] IN
  FlattenSeq([n \in DOMAIN os |->
     IF IsFinished(os[n])
     THEN [m \in DOMAIN SubChain(os[n]) |-> EntryOf(SubChain(os[n])[m])]
     ELSE <<EntryOf(os[n])>>])

Agenda == INSTANCE EventAgenda WITH
            agenda <- [t \in Ticks |-> AgendaOf(t)],
            running <- (cur # None)

(***************************************************************************)
(* The buffer keeps its promise: the events of a tick run in FIFO order,    *)
(* immediate events right after their parent, each exactly once, and a tick *)
(* is left only when none of its events is waiting.                         *)
(***************************************************************************)
KeepsAgenda == Agenda!AgendaSpec

\* The objects the buffer or its clients can still reach.
InUse ==
  UNION {ToSet(Chain[lists[t].head]) : t \in Ticks}
    \cup UNION {UNION {ToSet(SubChain(o)) : o \in ToSet(Chain[lists[t].head])} :
                 t \in Ticks}
    \cup ToSet(finished)

(***************************************************************************)
(* An object is reused only when nothing refers to it any more: the pool   *)
(* holds every object at most once and none that a list, an immediate list *)
(* or the finished events still hold. gen does not clear the links of a    *)
(* reused object, so an object also enters the pool without immediate      *)
(* events: otherwise events of an earlier episode would run in a later     *)
(* one.                                                                    *)
(***************************************************************************)
PoolIsFree ==
  \A c \in DOMAIN pool :
    /\ IsInjective(pool[c])
    /\ ToSet(pool[c]) \cap InUse = {}
    /\ \A n \in DOMAIN pool[c] : ev[pool[c][n]].subCount = 0 /\ ev[pool[c][n]].next = None

(***************************************************************************)
(* Every episode comes to its end: no tick keeps the execute loop busy      *)
(* forever once its handlers stop inserting events.                         *)
(***************************************************************************)
EpisodeEnds == <>[](pc = "done")
=============================================================================
