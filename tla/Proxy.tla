------------------------------- MODULE Proxy --------------------------------
(***************************************************************************)
(* The communication proxy (maro/communication/proxy.py) over its ZeroMQ   *)
(* driver (driver/zmq_driver.py): one component that sends to its peers,   *)
(* with peer rejoin and the message cache for exited peers.  Peers publish *)
(* their addresses in a Redis hash, exit, are killed (which leaves their   *)
(* address behind) and come back under a new address; the proxy looks at   *)
(* Redis again only when what it knows is older than peers_catch_lifetime. *)
(*                                                                         *)
(* An address is the incarnation of the peer it belongs to, 0 for none.    *)
(* A message is [id, dst]; its id is also its session id, as for the       *)
(* message that opens a session.  A reply is [session, from, stage,        *)
(* address, at], where at is its number among the replies that arrived     *)
(* (history).  Messages to one peer and broadcasts go through sockets of   *)
(* their own, and a peer polls both.                                       *)
(***************************************************************************)
EXTENDS Naturals, Sequences, FiniteSets, SequencesExt, FiniteSetsExt

CONSTANTS
  Peers,           \* component names of the peers
  TypeOf,          \* peer -> its component type
  Expected,        \* expected_peers: type -> number
  Minimal,         \* minimal_peers: type -> number
  EnableCache,     \* enable_message_cache_for_rejoin
  MaxCached,       \* max_length_for_message_cache
  MaxMessages,     \* bound: messages the component creates
  MaxStarts,       \* bound: times the peers start, all together
  MaxExits,        \* bound: times a peer's process ends
  MaxAcked,        \* bound: sessions whose replies may be preceded by an acknowledgement
  MaxResends       \* bound: messages sent a second time by the component

ASSUME ProxyAssumption ==
  /\ IsFiniteSet(Peers)
  /\ Expected \in [{TypeOf[p] : p \in Peers} -> Nat \ {0}]
  /\ Minimal \in [{TypeOf[p] : p \in Peers} -> Nat \ {0}]
  /\ MaxCached \in Nat \ {0}

VARIABLES
  redis,        \* peer -> published address
  peer,         \* peer -> [up, address] of its process
  wire,         \* channel -> peer -> messages on their way to its process
  inbox,        \* replies that reached the proxy's PULL socket
  onboard,      \* _onboard_peer_dict: peer -> address, 0 when absent
  sender,       \* ZmqDriver._unicast_sender_dict: peer -> address, 0 when absent
  disconnected, \* ZmqDriver._disconnected_peer_name_list
  expired,      \* the onboard peers are older than peers_catch_lifetime
  exited_cache, \* _message_cache_for_exited_peers: peer -> messages
  message_cache,\* _message_cache: replies nobody waited for, in order of arrival
  call,         \* what the component asked of the proxy and how far it got
  outstanding,  \* session ids returned to the component and not yet awaited
  created,      \* messages the component has created
  resent,       \* messages sent a second time
  delivered,    \* history: channel -> peer -> ids its processes received
  arrived,      \* history: number of the replies that arrived at the inbox
  handed        \* history: replies given to the component by receive_by_id

peerVars == <<redis, peer, wire, delivered>>
viewVars == <<onboard, sender, disconnected, expired>>
cacheVars == <<exited_cache, message_cache>>
userVars == <<outstanding, created, resent, handed>>
commVars == <<redis, peer, wire, delivered, inbox, arrived, onboard, sender, disconnected, expired,
               exited_cache, message_cache, call, outstanding, created, resent, handed>>

Channels == {"unicast", "broadcast"}
Types == {TypeOf[p] : p \in Peers}
OfType(t) == {p \in Peers : TypeOf[p] = t}
OnboardOf(t) == {p \in OfType(t) : onboard[p] /= 0}
Idle == call = [pc |-> "idle"]
StartsOfPeers == MapThenSumSet(LAMBDA q : peer[q].address, Peers)

-----------------------------------------------------------------------------
(* The peers' side.                                                        *)

(* A peer's process starts, or is restarted by the cluster: it binds fresh *)
(* ports and overwrites its entry in Redis.                                *)
_register_redis(p) ==
  /\ ~peer[p].up
  /\ StartsOfPeers < MaxStarts
  /\ peer' = [peer EXCEPT ![p] = [up |-> TRUE, address |-> @.address + 1]]
  /\ redis' = [redis EXCEPT ![p] = peer'[p].address]
  /\ UNCHANGED <<wire, delivered, inbox, arrived, viewVars, cacheVars, call, userVars>>

(* A peer that exits, by a signal or by close, takes its entry along; what *)
(* was on the way to it is gone.                                           *)
_signal_handler(p) ==
  /\ peer[p].up
  /\ StartsOfPeers - Cardinality({q \in Peers : peer[q].up}) < MaxExits
  /\ peer' = [peer EXCEPT ![p].up = FALSE]
  /\ redis' = [redis EXCEPT ![p] = 0]
  /\ wire' = [c \in Channels |-> [wire[c] EXCEPT ![p] = <<>>]]
  /\ UNCHANGED <<delivered, inbox, arrived, viewVars, cacheVars, call, userVars>>

(* A peer that is killed leaves its entry in Redis.                        *)
Killed(p) ==
  /\ peer[p].up
  /\ StartsOfPeers - Cardinality({q \in Peers : peer[q].up}) < MaxExits
  /\ peer' = [peer EXCEPT ![p].up = FALSE]
  /\ wire' = [c \in Channels |-> [wire[c] EXCEPT ![p] = <<>>]]
  /\ UNCHANGED <<redis, delivered, inbox, arrived, viewVars, cacheVars, call, userVars>>

(* A peer takes the next message of a socket and replies to its session:   *)
(* at once, or with an acknowledgement (ack_reply) first.                  *)
reply(p, c) ==
  /\ peer[p].up
  /\ wire[c][p] /= <<>>
  /\ LET s == Head(wire[c][p])
         answer(stage, n) ==
           [session |-> s, from |-> p, stage |-> stage, address |-> peer[p].address, at |-> arrived + n]
     IN  /\ delivered' = [delivered EXCEPT ![c][p] = Append(@, s)]
         /\ \E ack_reply \in {FALSE, s <= MaxAcked} :
              LET answers == IF ack_reply THEN <<answer("RECEIVE", 1), answer("COMPLETE", 2)>>
                             ELSE <<answer("COMPLETE", 1)>>
              IN  inbox' = inbox \o answers /\ arrived' = arrived + Len(answers)
  /\ wire' = [wire EXCEPT ![c][p] = Tail(@)]
  /\ UNCHANGED <<redis, peer, viewVars, cacheVars, call, userVars>>

-----------------------------------------------------------------------------
(* The driver.                                                             *)

(* send_pyobj hands a message to the address the socket is connected to;   *)
(* it reaches a process only while one listens there.                      *)
Transmitted(p, ids) ==
  IF peer[p].up /\ sender[p] = peer[p].address THEN [wire EXCEPT !["unicast"][p] = @ \o ids] ELSE wire

(* connect: a PUSH socket for the address, and the peer is no longer       *)
(* listed as disconnected.                                                 *)
connect(ps, address) ==
  /\ sender' = [p \in Peers |-> IF p \in ps THEN address[p] ELSE sender[p]]
  /\ disconnected' = disconnected \ ps

(* disconnect followed by connect, for the peers gone and for those whose  *)
(* address is new.                                                         *)
disconnect_then_connect(gone, ps, address) ==
  /\ sender' = [p \in Peers |-> IF p \in ps THEN address[p]
                                ELSE IF p \in gone THEN 0 ELSE sender[p]]
  /\ disconnected' = (disconnected \cup gone) \ ps

-----------------------------------------------------------------------------
(* Joining and following the peers.                                        *)

(* _get_peers_list waits until enough peers of every type are registered   *)
(* and takes the first of them.                                            *)
_get_peers_list ==
  /\ call = [pc |-> "joining"]
  /\ \E chosen \in SUBSET Peers :
       /\ \A t \in Types : Cardinality(chosen \cap OfType(t)) = Expected[t]
       /\ \A p \in chosen : redis[p] /= 0
       /\ call' = [pc |-> "connecting", names |-> chosen]
  /\ UNCHANGED <<peerVars, inbox, arrived, viewVars, cacheVars, userVars>>

(* The retries are used up: InformationUncompletedError.                   *)
_get_peers_listFails ==
  /\ call = [pc |-> "joining"]
  /\ \E t \in Types : Cardinality({p \in OfType(t) : redis[p] /= 0}) < Expected[t]
  /\ call' = [pc |-> "exited"]
  /\ UNCHANGED <<peerVars, inbox, arrived, viewVars, cacheVars, userVars>>

(* _build_connection reads the addresses of the chosen names; a name that  *)
(* has left Redis since raises InformationUncompletedError.                *)
_build_connection ==
  /\ call.pc = "connecting"
  /\ IF \E p \in call.names : redis[p] = 0
     THEN call' = [pc |-> "exited"] /\ UNCHANGED <<onboard, sender, disconnected, expired>>
     ELSE /\ onboard' = [p \in Peers |-> IF p \in call.names THEN redis[p] ELSE 0]
          /\ connect(call.names, redis)
          /\ call' = [pc |-> "idle"]
          /\ UNCHANGED expired
  /\ UNCHANGED <<peerVars, inbox, arrived, cacheVars, userVars>>

(* peers_catch_lifetime passes.                                            *)
Expire ==
  /\ ~expired
  /\ call.pc \notin {"joining", "connecting", "exited"}
  /\ expired' = TRUE
  /\ UNCHANGED <<peerVars, inbox, arrived, onboard, sender, disconnected, cacheVars, call, userVars>>

(* _check_peers_update: connect to the names only Redis has, disconnect    *)
(* from those only the proxy has, reconnect where the address differs.     *)
_check_peers_update ==
  LET new == {p \in Peers : redis[p] /= 0 /\ redis[p] /= onboard[p]}
      gone == {p \in Peers : onboard[p] /= 0 /\ redis[p] /= onboard[p]}
  IN  /\ disconnect_then_connect(gone, new, redis)
      /\ onboard' = redis

(* _rejoin before a message is sent: look at Redis when the onboard peers  *)
(* have expired, then wait unless there are enough of the type.            *)
_rejoin(t, next) ==
  /\ IF expired THEN _check_peers_update /\ expired' = FALSE
     ELSE UNCHANGED viewVars
  /\ call' = IF Cardinality({p \in OfType(t) : onboard'[p] /= 0}) < Minimal[t]
             THEN [next EXCEPT !.pc = "waiting"] ELSE next

(* _wait_for_minimal_peer_number looks at Redis until enough peers are     *)
(* there, or gives up and takes every component down.                      *)
_wait_for_minimal_peer_number ==
  /\ call.pc = "waiting"
  /\ \/ /\ _check_peers_update
        /\ call' = IF Cardinality({p \in OfType(call.type) : onboard'[p] /= 0}) < Minimal[call.type]
                   THEN call ELSE [call EXCEPT !.pc = "ready"]
        /\ UNCHANGED expired
     \/ call' = [pc |-> "exited"] /\ UNCHANGED viewVars
  /\ UNCHANGED <<peerVars, inbox, arrived, cacheVars, userVars>>

-----------------------------------------------------------------------------
(* Sending.                                                                *)

Known == {p \in Peers : onboard[p] /= 0} \cup disconnected

(* The component calls send, isend, scatter or iscatter with new messages, *)
(* one per destination in turn; send and scatter then wait for replies.    *)
scatter ==
  /\ Idle
  /\ \E ds \in {<<p>> : p \in Known} \cup {pq \in Known \X Known : pq[1] /= pq[2]}, block \in BOOLEAN :
       /\ created + Len(ds) <= MaxMessages
       /\ created' = created + Len(ds)
       /\ call' = [pc |-> "send", block |-> block, targets |-> <<>>,
                   todo |-> [i \in DOMAIN ds |-> [id |-> created + i, dst |-> ds[i]]]]
  /\ UNCHANGED <<peerVars, inbox, arrived, viewVars, cacheVars, outstanding, resent, handed>>

(* The component sends a message again whose first send returned None.     *)
send_again ==
  /\ Idle
  /\ Cardinality(resent) < MaxResends
  /\ \E p \in Peers : \E i \in DOMAIN exited_cache[p] :
       /\ resent' = resent \cup {exited_cache[p][i]}
       /\ call' = [pc |-> "send", block |-> FALSE, targets |-> <<>>,
                   todo |-> <<[id |-> exited_cache[p][i], dst |-> p]>>]
  /\ UNCHANGED <<peerVars, inbox, arrived, viewVars, cacheVars, outstanding, created, handed>>

(* _send, first part: the rejoin check for the destination's type.         *)
_send_rejoin ==
  /\ call.pc = "send"
  /\ call.todo /= <<>>
  /\ _rejoin(TypeOf[Head(call.todo).dst],
             [pc |-> "ready", block |-> call.block, targets |-> call.targets,
              todo |-> call.todo, type |-> TypeOf[Head(call.todo).dst]])
  /\ UNCHANGED <<peerVars, inbox, arrived, cacheVars, userVars>>

(* _push_message_to_message_cache: a message id once, the oldest messages  *)
(* dropped when the deque is full.                                         *)
_push_message_to_message_cache(messages, m) ==
  IF m \in ToSet(messages) THEN messages
  ELSE LET longer == Append(messages, m)
       IN  IF Len(longer) > MaxCached THEN Tail(longer) ELSE longer

(* The messages kept for a peer go out before the new one.                 *)
NewFirst(pending, m) == <<m>> \o pending
PendingFirst(pending, m) == Append(pending, m)

(* _send, second part: the messages cached for a peer that is on board     *)
(* again go first, then the message; a peer the driver has disconnected    *)
(* from has it cached and the call returns None.                           *)
_send ==
  /\ call.pc = "ready"
  /\ LET m == Head(call.todo)
         p == m.dst
         pending == IF EnableCache /\ onboard[p] /= 0 THEN exited_cache[p] ELSE <<>>
         reachable == sender[p] /= 0
         again == [call EXCEPT !.pc = "send", !.todo = Tail(@)]
     IN  /\ reachable \/ p \in disconnected
         /\ wire' = IF reachable THEN Transmitted(p, PendingFirst(pending, m.id)) ELSE wire
         /\ exited_cache' =
              [exited_cache EXCEPT ![p] =
                 IF reachable THEN IF onboard[p] /= 0 THEN <<>> ELSE @
                 ELSE IF EnableCache THEN _push_message_to_message_cache(@, m.id) ELSE @]
         /\ call' = IF reachable THEN [again EXCEPT !.targets = @ \o PendingFirst(pending, m.id)]
                    ELSE again
  /\ UNCHANGED <<redis, peer, delivered, inbox, arrived, viewVars, message_cache, userVars>>

(* The driver knows no socket for a peer it never disconnected from:       *)
(* KeyError, and the process exits with NON_RESTART_EXIT_CODE.             *)
_sendFails ==
  /\ call.pc = "ready"
  /\ sender[Head(call.todo).dst] = 0
  /\ Head(call.todo).dst \notin disconnected
  /\ call' = [pc |-> "exited"]
  /\ UNCHANGED <<peerVars, inbox, arrived, viewVars, cacheVars, userVars>>

(* _broadcast to a component type: the rejoin check, then one message on   *)
(* the PUB socket, and a session id for every onboard peer.                *)
broadcast ==
  /\ Idle
  /\ created < MaxMessages
  /\ \E t \in Types, block \in BOOLEAN :
       _rejoin(t, [pc |-> "ready", block |-> block, targets |-> <<>>,
                   todo |-> <<>>, type |-> t])
  /\ created' = created + 1
  /\ UNCHANGED <<peerVars, inbox, arrived, cacheVars, outstanding, resent, handed>>

_broadcast ==
  /\ call.pc = "ready" /\ call.todo = <<>>
  /\ LET reached == {p \in OfType(call.type) : peer[p].up /\ sender[p] = peer[p].address}
     IN  wire' = [wire EXCEPT !["broadcast"] =
                    [p \in Peers |-> IF p \in reached THEN Append(@[p], created) ELSE @[p]]]
  /\ call' = [pc |-> "send", block |-> call.block, todo |-> <<>>,
              targets |-> [i \in 1..Cardinality(OnboardOf(call.type)) |-> created]]
  /\ UNCHANGED <<redis, peer, delivered, inbox, arrived, viewVars, cacheVars, userVars>>

-----------------------------------------------------------------------------
(* Receiving.                                                              *)

(* The list of a session's cached replies is read from its front.          *)
NextHit(hits) == Min(hits)

(* receive_by_id, first part: replies in the cache, one per target; the    *)
(* targets without one are pending.                                        *)
FromCache(targets) ==
  LET look[k \in 0..Len(targets)] ==
        IF k = 0 THEN [pending |-> <<>>, received |-> <<>>, cache |-> message_cache]
        ELSE LET acc == look[k - 1]
                 hits == {i \in DOMAIN acc.cache : acc.cache[i].session = targets[k]}
             IN  IF hits = {} THEN [acc EXCEPT !.pending = Append(@, targets[k])]
                 ELSE [acc EXCEPT !.received = Append(@, acc.cache[NextHit(hits)]),
                                  !.cache = RemoveAt(@, NextHit(hits))]
  IN  look[Len(targets)]

receive_by_id(targets) ==
  LET got == FromCache(targets)
  IN  /\ message_cache' = got.cache
      /\ IF got.pending = <<>>
         THEN call' = [pc |-> "idle"] /\ handed' = handed \o got.received
         ELSE /\ call' = [pc |-> "receive", pending |-> got.pending, received |-> got.received]
              /\ UNCHANGED handed

(* The end of a send: a blocking call waits for its sessions, another one  *)
(* returns their ids.                                                      *)
Sent ==
  /\ call.pc = "send" /\ call.todo = <<>>
  /\ IF call.block
     THEN receive_by_id(call.targets) /\ UNCHANGED outstanding
     ELSE /\ call' = [pc |-> "idle"]
          /\ outstanding' = outstanding \o call.targets
          /\ UNCHANGED <<handed, message_cache>>
  /\ UNCHANGED <<peerVars, inbox, arrived, viewVars, exited_cache, created, resent>>

(* The component awaits sessions it was given, or one again whose reply    *)
(* was only an acknowledgement.                                            *)
Await ==
  /\ Idle
  /\ \/ outstanding /= <<>> /\ receive_by_id(outstanding) /\ outstanding' = <<>>
     \/ /\ \E i \in DOMAIN handed : /\ handed[i].stage = "RECEIVE"
                                    /\ i = Len(handed)
                                    /\ receive_by_id(<<handed[i].session>>)
        /\ UNCHANGED outstanding
  /\ UNCHANGED <<peerVars, inbox, arrived, viewVars, exited_cache, created, resent>>

(* receive_by_id, second part: the driver yields the next message; it is   *)
(* wanted, or cached for a later call.                                     *)
receive ==
  /\ call.pc = "receive"
  /\ inbox /= <<>>
  /\ inbox' = Tail(inbox)
  /\ LET msg == Head(inbox)
         wanted == msg.session \in ToSet(call.pending)
         pending == IF wanted THEN RemoveFirst(call.pending, msg.session) ELSE call.pending
         received == IF wanted THEN Append(call.received, msg) ELSE call.received
     IN  /\ message_cache' = IF wanted THEN message_cache ELSE Append(message_cache, msg)
         /\ IF pending = <<>>
            THEN call' = [pc |-> "idle"] /\ handed' = handed \o received
            ELSE /\ call' = [call EXCEPT !.pending = pending, !.received = received]
                 /\ UNCHANGED handed
  /\ UNCHANGED <<peerVars, arrived, viewVars, exited_cache, outstanding, created, resent>>

(* The poll times out: the call returns what it has.                       *)
receive_timeout ==
  /\ call.pc = "receive"
  /\ inbox = <<>>
  /\ call' = [pc |-> "idle"]
  /\ handed' = handed \o call.received
  /\ UNCHANGED <<peerVars, inbox, arrived, viewVars, cacheVars, outstanding, created, resent>>

-----------------------------------------------------------------------------
ProxyInit ==
  /\ redis = [p \in Peers |-> 0]
  /\ peer = [p \in Peers |-> [up |-> FALSE, address |-> 0]]
  /\ wire = [c \in Channels |-> [p \in Peers |-> <<>>]]
  /\ delivered = [c \in Channels |-> [p \in Peers |-> <<>>]]
  /\ inbox = <<>> /\ arrived = 0 /\ handed = <<>>
  /\ onboard = [p \in Peers |-> 0]
  /\ sender = [p \in Peers |-> 0]
  /\ disconnected = {}
  /\ expired = FALSE
  /\ exited_cache = [p \in Peers |-> <<>>]
  /\ message_cache = <<>>
  /\ call = [pc |-> "joining"]
  /\ outstanding = <<>> /\ created = 0 /\ resent = {}

ProxyNext ==
  \/ \E p \in Peers : _register_redis(p) \/ _signal_handler(p) \/ Killed(p)
  \/ \E p \in Peers, c \in Channels : reply(p, c)
  \/ _get_peers_list \/ _get_peers_listFails \/ _build_connection \/ Expire
  \/ _wait_for_minimal_peer_number
  \/ scatter \/ send_again \/ _send_rejoin
  \/ (call.pc = "ready" /\ call.todo /= <<>> /\ (_send \/ _sendFails))
  \/ broadcast \/ _broadcast
  \/ Sent \/ Await \/ receive \/ receive_timeout

ProxySpec == ProxyInit /\ [][ProxyNext]_commVars

-----------------------------------------------------------------------------
(* A peer name, over all its incarnations, receives what is sent to it     *)
(* alone in the order it was created, and so the broadcasts, and nothing   *)
(* twice, unless the component itself sent it again: what was cached while *)
(* the peer was away comes before what is sent when it is back.  (It does  *)
(* not come before a broadcast.)                                           *)
PendingInOrder ==
  \A c \in Channels, p \in Peers :
    LET all == delivered[c][p] \o wire[c][p]
    IN  /\ \A i, j \in DOMAIN all : i < j => all[i] < all[j] \/ all[j] \in resent
        /\ \A i, j, k \in DOMAIN all : i < j /\ j < k => ~ (all[i] = all[j] /\ all[j] = all[k])

(* Every reply that reaches the proxy is handed out exactly once, and the  *)
(* replies of a session are handed out in the order they arrived,          *)
(* whichever calls they were received by.                                  *)
RepliesOnceInOrder ==
  LET received == IF call.pc = "receive" THEN call.received ELSE <<>>
      all == handed \o received \o message_cache \o inbox
  IN  /\ Len(all) = arrived
      /\ \A n \in 1..arrived : \E i \in DOMAIN all : all[i].at = n
      /\ \A i, j \in DOMAIN all : i < j /\ all[i].session = all[j].session => all[i].at < all[j].at

(* The driver's sockets follow the onboard peers, and a peer that was on   *)
(* board once is either on board or listed as disconnected, so that a      *)
(* message to it is sent or kept and never ends the component.             *)
DriverFollowsPeers ==
  /\ sender = onboard
  /\ disconnected \cap {p \in Peers : onboard[p] /= 0} = {}
  /\ \A p \in Peers : exited_cache[p] /= <<>> => p \in Known
  /\ call.pc = "ready" /\ call.todo /= <<>> => Head(call.todo).dst \in Known

(* A message goes to its peer once and in order through every exit and     *)
(* rejoin, a reply goes to the call that waits for it, and the driver's    *)
(* sockets are those of the peers on board.                                *)
MessagesOnceInOrder == PendingInOrder /\ RepliesOnceInOrder /\ DriverFollowsPeers
=============================================================================
