------------------------------ MODULE Streamit ------------------------------
(***************************************************************************)
(* Streaming of experiment data (maro/streamit/client/client.py,           *)
(* sender.py, metric.py): the client puts messages on a queue, a sender    *)
(* process takes them off, tags the data with the episode and tick it      *)
(* knows, and sends them in batches over a connection.                     *)
(*                                                                         *)
(* Data is a number; its values are of types parse_value knows.  The       *)
(* client is started once.                                                 *)
(***************************************************************************)
EXTENDS Naturals, Sequences, SequencesExt

CONSTANTS
  Episodes, Ticks,        \* numbers the simulation announces
  MaxDataCacheNumber,     \* MAX_DATA_CACHE_NUMBER
  MaxMessages             \* bound: messages put

ASSUME StreamAssumption == MaxDataCacheNumber \in Nat

VARIABLES
  user,        \* "new", "started", "paused", "joining" or "closed"
  queue,       \* _data_queue
  announced,   \* [episode, tick] the client announced last
  accepted,    \* data the client took, with what was announced: [data, episode, tick]
  messages,    \* messages put
  link,        \* connection: "none", "up" or "down"
  sender,      \* [pc, episode, tick, metrics, is_stopping]; pc: "off", "run" or "ended"
  received     \* data that arrived

streamVars == <<user, queue, announced, accepted, messages, link, sender, received>>

StreamInit ==
  /\ user = "new" /\ queue = <<>> /\ announced = [episode |-> 0, tick |-> 0]
  /\ accepted = <<>> /\ messages = 0 /\ link = "none" /\ received = <<>>
  /\ sender = [pc |-> "off", episode |-> 0, tick |-> 0, metrics |-> <<>>, is_stopping |-> FALSE]

----------------------------------------------------------------------------
(* The client.                                                             *)

start ==
  /\ user = "new" /\ user' = "started"
  /\ sender' = [sender EXCEPT !.pc = "connect"]
  /\ UNCHANGED <<queue, announced, accepted, messages, link, received>>

(* ensure_state: calls of a client that is not started or paused do        *)
(* nothing, pause itself included.                                         *)
ensure_state == user = "started"

pause ==
  /\ ensure_state /\ user' = "paused"
  /\ UNCHANGED <<queue, announced, accepted, messages, link, sender, received>>

_put(msgs) ==
  /\ messages + Len(msgs) <= MaxMessages /\ messages' = messages + Len(msgs)
  /\ queue' = queue \o msgs
  /\ UNCHANGED <<link, sender, received>>

info ==
  /\ ensure_state /\ _put(<<[type |-> "Experiment", value |-> 0]>>)
  /\ UNCHANGED <<user, announced, accepted>>

tick_(t) ==
  /\ ensure_state /\ _put(<<[type |-> "Tick", value |-> t]>>)
  /\ announced' = [announced EXCEPT !.tick = t]
  /\ UNCHANGED <<user, accepted>>

episode_(e) ==
  /\ ensure_state /\ _put(<<[type |-> "Episode", value |-> e]>>)
  /\ announced' = [announced EXCEPT !.episode = e]
  /\ UNCHANGED <<user, accepted>>

(* data puts one item, complex the items a nested value is made of.        *)
data_(n) ==
  /\ ensure_state
  /\ _put([k \in 1 .. n |-> [type |-> "Data", value |-> Len(accepted) + k]])
  /\ accepted' = accepted \o [k \in 1 .. n |->
                                [data |-> Len(accepted) + k, episode |-> announced.episode, tick |-> announced.tick]]
  /\ UNCHANGED <<user, announced>>

(* close waits for the sender if it is alive; a sender that could not      *)
(* connect is not waited for.                                              *)
close ==
  /\ user \in {"started", "paused"}
  /\ IF sender.pc = "ended"
     THEN user' = "closed" /\ UNCHANGED queue
     ELSE user' = "joining" /\ queue' = Append(queue, [type |-> "Close", value |-> 0])
  /\ UNCHANGED <<announced, accepted, messages, link, sender, received>>

join ==
  /\ user = "joining" /\ sender.pc = "ended" /\ user' = "closed"
  /\ UNCHANGED <<queue, announced, accepted, messages, link, sender, received>>

----------------------------------------------------------------------------
(* The sender.                                                             *)

open_connection ==
  /\ sender.pc = "connect"
  /\ \/ link' = "up" /\ sender' = [sender EXCEPT !.pc = "run"]
     \/ sender' = [sender EXCEPT !.pc = "ended"] /\ UNCHANGED link
  /\ UNCHANGED <<user, queue, announced, accepted, messages, received>>

(* What is written arrives while the connection is up.  Otherwise drain    *)
(* raises; the loop goes on and keeps what it had.                         *)
_send(metrics) == received' = IF link = "up" THEN received \o metrics ELSE received
Flushed(metrics) == IF link = "up" THEN <<>> ELSE metrics

Took(type) == sender.pc = "run" /\ queue # <<>> /\ Head(queue).type = type /\ queue' = Tail(queue)
Announced == Head(queue).value
ClientWaits == UNCHANGED <<user, announced, accepted, messages, link>>

handle_experiment == Took("Experiment") /\ UNCHANGED <<sender, received>> /\ ClientWaits

handle_episode ==
  /\ Took("Episode") /\ sender' = [sender EXCEPT !.episode = Announced]
  /\ UNCHANGED received /\ ClientWaits

(* A tick sends the data of the tick before.  When that raises, the tick   *)
(* is not taken over.                                                      *)
handle_tick ==
  /\ Took("Tick") /\ ClientWaits
  /\ _send(sender.metrics)
  /\ sender' = [sender EXCEPT !.metrics = Flushed(@),
                              !.tick = IF link = "up" \/ sender.metrics = <<>> THEN Announced ELSE @]

handle_data ==
  LET metrics == Append(sender.metrics, [data |-> Announced, episode |-> sender.episode, tick |-> sender.tick])
  IN  /\ Took("Data") /\ ClientWaits
      /\ IF Len(metrics) > MaxDataCacheNumber
         THEN _send(metrics) /\ sender' = [sender EXCEPT !.metrics = Flushed(metrics)]
         ELSE UNCHANGED received /\ sender' = [sender EXCEPT !.metrics = metrics]

handle_close ==
  /\ Took("Close") /\ sender' = [sender EXCEPT !.is_stopping = TRUE]
  /\ UNCHANGED received /\ ClientWaits

(* The data of the last tick is left behind.                               *)
sender_endsAtOnce ==
  /\ sender.pc = "run" /\ queue = <<>> /\ sender.is_stopping
  /\ sender' = [sender EXCEPT !.pc = "ended"]
  /\ UNCHANGED <<queue, received>> /\ ClientWaits

(* After a second without a message, once stopping.                        *)
sender_ends ==
  /\ sender.pc = "run" /\ queue = <<>> /\ sender.is_stopping
  /\ _send(sender.metrics)
  /\ sender' = [sender EXCEPT !.pc = "ended"]
  /\ UNCHANGED queue /\ ClientWaits

(* The server goes away.                                                   *)
connection_lost ==
  /\ link = "up" /\ link' = "down"
  /\ UNCHANGED <<user, queue, announced, accepted, messages, sender, received>>

SenderNext ==
  \/ open_connection \/ handle_experiment \/ handle_episode \/ handle_tick \/ handle_data
  \/ handle_close \/ sender_ends

StreamNext ==
  \/ start \/ pause \/ info \/ close \/ join \/ connection_lost \/ SenderNext
  \/ \E t \in Ticks : tick_(t)
  \/ \E e \in Episodes : episode_(e)
  \/ \E n \in 1 .. 2 : data_(n)

----------------------------------------------------------------------------
(* What arrives is what the simulation streamed, each item once, in order, *)
(* under the episode and tick that were announced when it was streamed,    *)
(* however far the sender lags behind; and unless the connection was lost, *)
(* all of it has arrived when close returns.                               *)
StreamIsComplete ==
  /\ IsPrefix(received, accepted)
  /\ user = "closed" /\ link = "up" => received = accepted
=============================================================================
