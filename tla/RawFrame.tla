------------------------------ MODULE RawFrame ------------------------------
(***************************************************************************)
(* The frame of the dynamic backend: node objects (backends/frame.pyx),    *)
(* the Cython backend (raw_backend.pyx) and Frame (raw/frame.cpp) over the *)
(* memory of RawNode, and the snapshots of raw/snapshotlist.cpp.           *)
(*                                                                         *)
(* Nodes can be appended, deleted and resumed; a reset goes back to the    *)
(* nodes that were defined.  `value' and `shot' are history variables:     *)
(* what was written, by node and attribute, now and when a snapshot was    *)
(* taken.                                                                  *)
(***************************************************************************)
EXTENDS RawNode

CONSTANTS
  MaxSnapshots, \* _max_size
  InRange,      \* the values an accessor accepts, 0 included
  Values,       \* the values callers write
  ShotTicks,    \* frame indices snapshots are taken at
  MaxNodes,     \* bound: nodes of the type
  MaxList,      \* bound: slots of a list
  MaxOps        \* bound: operations

ASSUME BoundAssumption == MaxNodes \in Nat /\ MaxList \in Nat

VARIABLES
  node,       \* the Node
  objects,    \* the node objects: [deleted, slot_number by list attribute]
  shots,      \* _snapshots: tick -> copied Node
  value,      \* history: node index -> attribute -> sequence of slot values
  shot,       \* history: tick -> [value, alive] when the snapshot was taken
  ops

frameVars == <<node, objects, shots, value, shot, ops>>

-----------------------------------------------------------------------------
(* Node objects.  They refuse access to a deleted node, and the accessor   *)
(* of an attribute asserts that a value is in the range of its type.       *)

Step == ops < MaxOps /\ ops' = ops + 1
Usable(i) == i < node.max /\ ~objects[i + 1].deleted
Accepted(v) == v \in InRange

Fresh == [a \in DOMAIN Attrs |-> IF Attrs[a].is_list THEN <<>> ELSE [s \in 1..Attrs[a].slots |-> 0]]
NewObject == [deleted |-> FALSE, slot_number |-> [a \in Lists |-> 0]]

(* The slots a[:] stands for: the count the node object keeps.             *)
AllSlots(i, a) ==
  IF Attrs[a].is_list THEN objects[i + 1].slot_number[a] ELSE Attrs[a].slots

(* One slot: __setattr__ or attr[slot] = v.  A value out of range or a     *)
(* slot that is not there raises and changes nothing.                      *)
set_value(i, a, slot, v) ==
  /\ Step
  /\ Usable(i)
  /\ Accepted(v) /\ slot < get_slot_number(node, i, a)
  /\ node' = assigned(node, i, a, {slot}, v)
  /\ value' = [value EXCEPT ![i + 1][a][slot + 1] = v]
  /\ UNCHANGED <<objects, shots, shot>>

(* attr[:] = v, slot by slot; what is assigned before one raises stays.    *)
set_attr_values(i, a, v) ==
  /\ Step
  /\ Usable(i) /\ Accepted(v)
  /\ LET last == Min({AllSlots(i, a), get_slot_number(node, i, a)})
     IN  /\ last > 1
         /\ node' = assigned(node, i, a, 0..last - 1, v)
         /\ value' = [value EXCEPT ![i + 1][a] = [s \in DOMAIN @ |-> IF s <= last THEN v ELSE @[s]]]
  /\ UNCHANGED <<objects, shots, shot>>

(* Those of the numbers from 1 to n that are in places, in order.          *)
Ascending(n, places) ==
  LET found[k \in 0..n] ==
        IF k = 0 THEN <<>>
        ELSE IF k \in places THEN Append(found[k - 1], k) ELSE found[k - 1]
  IN  found[n]

(* The slots whose value is one of these, in order.                       *)
where(i, a, values) ==
  LET n == get_slot_number(node, i, a)
      found == Ascending(n, {s \in 1..n : get_attr(node, i, a, s - 1) \in values})
  IN  [k \in DOMAIN found |-> found[k] - 1]

(* After an operation on a list the node object reads its length back.     *)
ListStep(i, a, n, l) ==
  /\ Step
  /\ Usable(i)
  /\ node' = n
  /\ objects' = [objects EXCEPT ![i + 1].slot_number[a] = get_slot_number(n, i, a)]
  /\ value' = [value EXCEPT ![i + 1][a] = l]
  /\ UNCHANGED <<shots, shot>>

append(i, a, v) ==
  /\ Accepted(v) /\ get_slot_number(node, i, a) < MaxList
  /\ ListStep(i, a, append_to_list(node, i, a, v), Append(value[i + 1][a], v))

insert(i, a, slot, v) ==
  /\ Accepted(v) /\ get_slot_number(node, i, a) < MaxList
  /\ slot <= Len(get_attribute_list(node, i, a))
  /\ ListStep(i, a, insert_to_list(node, i, a, slot, v), InsertAt(value[i + 1][a], slot + 1, v))

remove(i, a, slot) ==
  /\ slot < Len(get_attribute_list(node, i, a))
  /\ ListStep(i, a, remove_from_list(node, i, a, slot), RemoveAt(value[i + 1][a], slot + 1))

resize(i, a, new_size) ==
  ListStep(i, a, resize_list(node, i, a, new_size), Resized(value[i + 1][a], new_size, 0))

clear(i, a) == ListStep(i, a, clear_list(node, i, a), <<>>)

-----------------------------------------------------------------------------
(* Operations of the frame.                                                *)

(* New nodes and node objects for them.  A constant keeps what the memory  *)
(* has at its place.                                                       *)
append_node(number) ==
  /\ Step
  /\ node.max + number <= MaxNodes
  /\ node' = append_nodes(node, number)
  /\ objects' = objects \o [k \in 1..number |-> NewObject]
  /\ value' = value \o [k \in 1..number |->
                 [a \in DOMAIN Attrs |-> IF Attrs[a].is_const
                    THEN [s \in 1..Attrs[a].slots |->
                            get_attr(node', node.max + k - 1, a, s - 1)] ELSE Fresh[a]]]
  /\ UNCHANGED <<shots, shot>>

delete_node(i) ==
  /\ Step
  /\ Usable(i)
  /\ node' = remove_node(node, i)
  /\ objects' = [objects EXCEPT ![i + 1].deleted = TRUE]
  /\ UNCHANGED <<shots, value, shot>>

resume_node(i) ==
  /\ Step
  /\ i < node.max /\ objects[i + 1].deleted
  /\ node' = resume(node, i)
  /\ objects' = [objects EXCEPT ![i + 1].deleted = FALSE]
  /\ UNCHANGED <<shots, value, shot>>

(* The backend's reset; appended node objects are dropped, the others live *)
(* and keep the counts of their lists.                                     *)
reset ==
  /\ Step
  /\ node' = reset_node(node)
  /\ objects' = [k \in 1..Defined |-> [objects[k] EXCEPT !.deleted = FALSE]]
  /\ value' = [k \in 1..Defined |->
                 [a \in DOMAIN Attrs |-> IF Attrs[a].is_const THEN value[k][a] ELSE Fresh[a]]]
  /\ UNCHANGED <<shots, shot>>

-----------------------------------------------------------------------------
(* Snapshots.                                                              *)

(* The tick's old snapshot goes, then, at the limit, the oldest one.       *)
take_snapshot(t) ==
  /\ Step
  /\ LET rest == DOMAIN shots \ {t}
         kept == IF Cardinality(rest) >= MaxSnapshots THEN rest \ {Min(rest)} ELSE rest
         alive == {i \in 0..node.max - 1 : ~objects[i + 1].deleted}
     IN  /\ shots' = [u \in kept \cup {t} |-> IF u = t THEN copy_from(node) ELSE shots[u]]
         /\ shot' = [u \in kept \cup {t} |->
                       IF u = t THEN [value |-> value, alive |-> alive] ELSE shot[u]]
  /\ UNCHANGED <<node, objects, value>>

snapshots_reset ==
  /\ Step
  /\ DOMAIN shots /= {}
  /\ shots' = [t \in {} |-> node]
  /\ shot' = [t \in {} |-> node]
  /\ UNCHANGED <<node, objects, value>>

(* NaN, which a query shows as the default 0, when the tick, the node or   *)
(* the slot is not there.                                                  *)
NaN == -1

(* abs(n_val - value) < 1, which the accessors assert, is false of it.     *)
ASSUME AccessorAssumption == NaN \notin InRange

SnapshotAttr(t, i, a, slot) ==
  IF ~Attrs[a].is_list /\ slot >= Attrs[a].slots THEN NaN
  ELSE IF Attrs[a].is_const THEN get_attr(node, i, a, slot)
  ELSE IF t \notin DOMAIN shots THEN NaN
  ELSE IF i >= shots[t].max \/ ~is_node_alive(shots[t], i) THEN NaN
  ELSE IF Attrs[a].is_list /\ slot >= Len(get_attribute_list(shots[t], i, a)) THEN NaN
  ELSE get_attr(shots[t], i, a, slot)

Shown(x) == IF x = NaN THEN 0 ELSE x

(* prepare: the width of the answer.  A list is asked for one node of one  *)
(* snapshot, which must have both; the first attribute decides the form.   *)
ListQueryValid(t, i) == t \in DOMAIN shots /\ is_node_alive(shots[t], i)
max_slot_number(attributes) ==
  Max({Attrs[a].slots : a \in {b \in Range(attributes) : b \notin Lists}})

query_for_list(t, i, a) ==
  [s \in 1..get_slot_number(shots[t], i, a) |-> Shown(SnapshotAttr(t, i, a, s - 1))]

(* One row of slots for each tick, node and attribute asked for.           *)
query_for_normal(ticks, nodes, attributes) ==
  [p \in ticks \X nodes \X (DOMAIN attributes) |->
     [s \in 1..max_slot_number(attributes) |->
        Shown(SnapshotAttr(p[1], p[2], attributes[p[3]], s - 1))]]

(* SnapshotNode.__getitem__ without ticks or nodes asks for all of them.   *)
Plain == Ascending(Len(Attrs), {a \in DOMAIN Attrs : ~Attrs[a].is_list /\ ~Attrs[a].is_const})
QueryAll == query_for_normal(DOMAIN shots, 0..node.max - 1, Plain)

-----------------------------------------------------------------------------
FrameInit ==
  /\ node = setup
  /\ objects = [k \in 1..Defined |-> NewObject]
  /\ shots = [t \in {} |-> node]
  /\ value = [k \in 1..Defined |-> Fresh]
  /\ shot = [t \in {} |-> node]
  /\ ops = 0

FrameNext ==
  \/ \E i \in 0..node.max - 1, a \in DOMAIN Attrs, v \in Values :
       \/ \E slot \in 0..get_slot_number(node, i, a) - 1 : set_value(i, a, slot, v)
       \/ set_attr_values(i, a, v)
  \/ \E i \in 0..node.max - 1, a \in Lists, v \in Values \ {0} :
       \/ append(i, a, v)
       \/ insert(i, a, 0, v)
  \/ \E i \in 0..node.max - 1, a \in Lists :
       \/ remove(i, a, 0)
       \/ \E n \in 0..MaxList : resize(i, a, n)
       \/ clear(i, a)
  \/ append_node(1)
  \/ \E i \in 0..node.max - 1 : delete_node(i) \/ resume_node(i)
  \/ reset
  \/ \E t \in ShotTicks : (\A u \in DOMAIN shots : u <= t) /\ take_snapshot(t)
  \/ snapshots_reset

-----------------------------------------------------------------------------
(* The memory holds what was written.  Whatever was appended, deleted,     *)
(* resumed, resized and reset before, reading an attribute of a node gives *)
(* the last value written to it (0 for a new node), no two lists share     *)
(* their storage, and a list has as many slots as it counts.  The count a  *)
(* node object keeps is the same, or the list was emptied by a reset.      *)
MemoryHoldsValues ==
  \A i \in 0..node.max - 1, a \in DOMAIN Attrs :
    LET l == value[i + 1][a]
    IN  /\ get_slot_number(node, i, a) = Len(l)
        /\ \A s \in DOMAIN l : get_attr(node, i, a, s - 1) = l[s]
        /\ a \in Lists =>
             /\ Len(get_attribute_list(node, i, a)) = Len(l)
             /\ AllSlots(i, a) /= Len(l) => l = <<>>
        /\ is_node_alive(node, i) <=> ~objects[i + 1].deleted
        /\ Usable(i) => Range(where(i, a, {1})) = {s - 1 : s \in {u \in DOMAIN l : l[u] = 1}}

(* A query of a snapshot shows the values of the moment it was taken, for  *)
(* the nodes that were alive then, whatever has happened to the frame, the *)
(* nodes and the lists since; other nodes and other ticks read as absent,  *)
(* and an answer has the same shape for every node.                        *)
SnapshotsAreFrozen ==
  /\ \A t \in ShotTicks, a \in Lists, i \in 0..MaxNodes - 1 :
       IF t \in DOMAIN shot /\ i \in shot[t].alive
       THEN ListQueryValid(t, i) /\ query_for_list(t, i, a) = shot[t].value[i + 1][a]
       ELSE SnapshotAttr(t, i, a, 0) = NaN
  /\ DOMAIN shots = DOMAIN shot
  /\ LET all == QueryAll  attributes == Plain
     IN  \A k \in DOMAIN all, s \in 1..max_slot_number(attributes) :
           LET t == k[1]  i == k[2]  a == attributes[k[3]]
           IN  all[k][s] = IF i \in shot[t].alive /\ s <= Attrs[a].slots
                           THEN shot[t].value[i + 1][a][s] ELSE 0

(* The frame reads as it was written and its snapshots as they were taken. *)
ValuesAreKept == MemoryHoldsValues /\ SnapshotsAreFrozen
=============================================================================
