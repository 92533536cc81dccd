--------------------------- MODULE RegisterTable ---------------------------
(***************************************************************************)
(* Conditional events (maro/communication/registry_table.py).  A unit      *)
(* event "source:type:number" names messages by the type of their sender   *)
(* and by their tag and asks for a number of them, or for a percentage of  *)
(* the senders that exist.  A conditional event joins unit events by AND   *)
(* and OR.  The register table keeps, for every unit event of every        *)
(* registered event, the messages that match it, and calls the event's     *)
(* handler with as many as were asked for once the event is satisfied.     *)
(*                                                                         *)
(* A unit event is the tuple of its slots, <<source, type, number>> with   *)
(* number = [n |-> ..., pct |-> BOOLEAN]; an event is [unit |-> u] or      *)
(* [op |-> "AND" or "OR", nodes |-> a sequence of events].                 *)
(***************************************************************************)
EXTENDS Naturals, Sequences, SequencesExt, FiniteSetsExt

CONSTANTS
  Events,        \* the events the component registers, in order
  PeersNumber    \* sender type -> how many of them the peers dictionary lists

VARIABLES
  table,         \* registered events: [event, messages], messages by unit event
  handled,       \* what the handlers were called with: <<index, messages>>
  pushed         \* every message pushed so far

tableVars == <<table, handled, pushed>>

(* The slots of a unit event: three of them, the last one a number.        *)
_unit_event_syntax_check(u) == Len(u) = 3 /\ DOMAIN u[3] = {"n", "pct"}

(* The unit events of an event; an event with another operation, or with a *)
(* malformed unit event, raises ConditionalEventSyntaxError.               *)
RECURSIVE units(_)
units(event) ==
  IF "unit" \in DOMAIN event THEN {event.unit}
  ELSE UNION {units(event.nodes[i]) : i \in DOMAIN event.nodes}

RECURSIVE _decomposer(_)
_decomposer(event) ==
  \/ "unit" \in DOMAIN event /\ _unit_event_syntax_check(event.unit)
  \/ /\ "op" \in DOMAIN event
     /\ event.op \in {"AND", "OR"}
     /\ \A i \in DOMAIN event.nodes : _decomposer(event.nodes[i])

AllPeers == MapThenSumSet(LAMBDA t : PeersNumber[t], DOMAIN PeersNumber)

(* How many messages a unit event asks for: never more than there are      *)
(* senders, and the percentage of them rounded down.                       *)
_get_request_message_number(u) ==
  LET peers_number == IF u[1] = "*" THEN AllPeers ELSE PeersNumber[u[1]]
      wanted == IF u[3].pct THEN (u[3].n * peers_number) \div 100 ELSE u[3].n
  IN  Min({wanted, peers_number})

_unit_event_satisfied(messages, u) ==
  IF _get_request_message_number(u) <= Len(messages[u]) THEN <<u>> ELSE <<>>

(* The unit events whose messages satisfy an event: those of every node of *)
(* an AND, those of the first satisfied node of an OR.                     *)
RECURSIVE _conditional_event_satisfied(_, _)
_conditional_event_satisfied(messages, event) ==
  IF "unit" \in DOMAIN event THEN _unit_event_satisfied(messages, event.unit)
  ELSE LET result == [i \in DOMAIN event.nodes |->
                        _conditional_event_satisfied(messages, event.nodes[i])]
           satisfied == {i \in DOMAIN result : result[i] /= <<>>}
       IN  IF event.op = "AND"
           THEN IF satisfied = DOMAIN result THEN FlattenSeq(result) ELSE <<>>
           ELSE IF satisfied = {} THEN <<>> ELSE result[Min(satisfied)]

Matches(u, message) ==
  /\ u[1] \in {"*", message.type}
  /\ u[2] \in {"*", message.tag}

push_message(messages, message) ==
  [u \in DOMAIN messages |->
     IF Matches(u, message) THEN Append(messages[u], message) ELSE messages[u]]

(* Mutant: the slice deleted is one message short.                         *)
get_qualified_messageOne(entry) ==
  LET satisfied == _conditional_event_satisfied(entry.messages, entry.event)
      take(acc, u) ==
        LET n == _get_request_message_number(u)
        IN  [given |-> acc.given \o SubSeq(acc.messages[u], 1, Min({n, Len(acc.messages[u])})),
             messages |-> [acc.messages EXCEPT ![u] = SubSeq(@, n, Len(@))]]
  IN  FoldLeft(take, [given |-> <<>>, messages |-> entry.messages], satisfied)

(* The messages handed to the handler and what stays behind.  A unit event *)
(* that occurs twice among the satisfied ones gives twice.                 *)
get_qualified_message(entry) ==
  LET satisfied == _conditional_event_satisfied(entry.messages, entry.event)
      take(acc, u) ==
        LET n == _get_request_message_number(u)
        IN  [given |-> acc.given \o SubSeq(acc.messages[u], 1, Min({n, Len(acc.messages[u])})),
             messages |-> [acc.messages EXCEPT ![u] = SubSeq(@, n + 1, Len(@))]]
  IN  FoldLeft(take, [given |-> <<>>, messages |-> entry.messages], satisfied)

-----------------------------------------------------------------------------
(* register_event_handler: the next event of the component, if it parses.  *)
register_event_handler(event) ==
  /\ _decomposer(event)
  /\ table' = Append(table, [event |-> event, messages |-> [u \in units(event) |-> <<>>]])
  /\ UNCHANGED <<handled, pushed>>

(* push with auto_trigger: the message goes to every event, then the       *)
(* satisfied events give their messages to their handlers.                 *)
push(message) ==
  LET entries == [i \in DOMAIN table |->
                    [table[i] EXCEPT !.messages = push_message(@, message)]]
      got == [i \in DOMAIN entries |-> get_qualified_message(entries[i])]
      fired == SelectSeq([i \in DOMAIN got |-> <<i, got[i].given>>], LAMBDA c : c[2] /= <<>>)
  IN  /\ table' = [i \in DOMAIN entries |-> [entries[i] EXCEPT !.messages = got[i].messages]]
      /\ handled' = handled \o fired
      /\ pushed' = Append(pushed, message)

(* clear empties the caches of every event.                                *)
clear ==
  /\ table' = [i \in DOMAIN table |->
                 [table[i] EXCEPT !.messages = [u \in DOMAIN @ |-> <<>>]]]
  /\ handled' = <<>>
  /\ pushed' = <<>>

TableInit == table = <<>> /\ handled = <<>> /\ pushed = <<>>

-----------------------------------------------------------------------------
(* What a conditional event promises, for the events whose unit events are *)
(* all joined by AND: its handler gets complete combinations and nothing   *)
(* else.  The k-th call of the handler has, for every unit event, the next *)
(* requested number of matching messages in the order they were received;  *)
(* and after a push no event is left satisfied.                            *)
CombinationsAreComplete ==
  \A i \in DOMAIN table :
    LET event == table[i].event
        calls == SelectSeq(handled, LAMBDA c : c[1] = i)
        given(u) == SelectSeq(FlattenSeq([k \in DOMAIN calls |-> calls[k][2]]),
                              LAMBDA m : Matches(u, m))
        matching(u) == SelectSeq(pushed, LAMBDA m : Matches(u, m))
        disjoint == \A u, v \in units(event) : u /= v => u[2] /= v[2] /\ "*" \notin {u[2], v[2]}
    IN  (("unit" \in DOMAIN event \/ event.op = "AND") /\ disjoint) =>
          /\ \A u \in units(event) :
               /\ given(u) \o table[i].messages[u] = matching(u)
               /\ Len(given(u)) = Len(calls) * _get_request_message_number(u)
          /\ (\E u \in units(event) : _get_request_message_number(u) > 0) =>
               \E u \in units(event) :
                 Len(table[i].messages[u]) < _get_request_message_number(u)
=============================================================================
