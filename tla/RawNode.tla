------------------------------- MODULE RawNode ------------------------------
(***************************************************************************)
(* The memory of one node type of the dynamic backend                      *)
(* (backends/raw/node.cpp, bitset.cpp, attribute.cpp).                     *)
(*                                                                         *)
(* All nodes of a type share one block of cells.  A list attribute takes   *)
(* one cell, which holds the index of its list in a store and the number   *)
(* of its slots.  A node n is a record: max, the nodes there are; const    *)
(* and dynamic, the blocks; lists, the store; bits and masks, which nodes  *)
(* are alive.                                                              *)
(***************************************************************************)
EXTENDS Integers, Sequences, SequencesExt, FiniteSets, FiniteSetsExt

CONSTANTS
  Attrs,        \* the attributes in order: [is_list, is_const, slots]
  Defined,      \* _defined_node_number
  MaskBits      \* BITS_PER_MASK

ASSUME NodeAssumption ==
  /\ Defined \in Nat \ {0} /\ MaskBits \in Nat \ {0}
  /\ Attrs \in Seq([is_list : BOOLEAN, is_const : BOOLEAN, slots : Nat])
  /\ \A a \in DOMAIN Attrs : ~(Attrs[a].is_const /\ Attrs[a].is_list)

(* The layout, as add_attr builds it.                                      *)
Lists == {a \in DOMAIN Attrs : Attrs[a].is_list}
slot_number(a) == IF Attrs[a].is_list THEN 1 ELSE Attrs[a].slots
InBlock(const) == {a \in DOMAIN Attrs : Attrs[a].is_const = const}
Width == [a \in DOMAIN Attrs |-> slot_number(a)]
size_per_node == [const \in BOOLEAN |-> SumFunctionOnSet(Width, InBlock(const))]
offset == [a \in DOMAIN Attrs |->
             SumFunctionOnSet(Width, {b \in InBlock(Attrs[a].is_const) : b < a})]

Cell == [v |-> 0, slots |-> 0]
compose_attr_offset_in_node(i, a, slot) ==
  i * size_per_node[Attrs[a].is_const] + offset[a] + slot + 1

(* vector::resize keeps the front and fills with zero cells.               *)
Resized(s, n, filler) == [k \in 1..n |-> IF k <= Len(s) THEN s[k] ELSE filler]

(* The bits of whole masks that cover n of them.                           *)
ceil_to_times(n) == ((n + MaskBits - 1) \div MaskBits) * MaskBits

(* Cells of list attributes, for the nodes from..to-1, get the indices     *)
(* next, next + 1, ... : attribute by attribute, node by node.             *)
ListCells(block, from, to, next) ==
  LET count == to - from
      rank(a) == Cardinality({b \in Lists : b < a})
      owner(k) == {o \in Lists \X (from..to - 1) :
                     k = compose_attr_offset_in_node(o[2], o[1], 0)}
  IN  [k \in DOMAIN block |->
         IF owner(k) = {} THEN block[k]
         ELSE LET o == CHOOSE o \in owner(k) : TRUE
              IN  [block[k] EXCEPT !.v = next + rank(o[1]) * count + (o[2] - from)]]

setup ==
  [max |-> Defined,
   const |-> [k \in 1..Defined * size_per_node[TRUE] |-> Cell],
   dynamic |-> ListCells([k \in 1..Defined * size_per_node[FALSE] |-> Cell], 0, Defined, 1),
   lists |-> [k \in 1..Defined * Cardinality(Lists) |-> <<>>],
   bits |-> ceil_to_times(Defined),
   masks |-> 0..ceil_to_times(Defined) - 1]

(* Back to the nodes that were defined: all cells 0, lists emptied and     *)
(* numbered anew, every bit set.  No memory is given back, and constants   *)
(* stay.                                                                   *)
reset_node(n) ==
  [n EXCEPT !.max = Defined,
            !.dynamic = ListCells([k \in DOMAIN @ |-> Cell], 0, Defined, 1),
            !.lists = [k \in DOMAIN @ |-> <<>>],
            !.bits = ceil_to_times(Defined),
            !.masks = 0..ceil_to_times(Defined) - 1]

(* Mutant: the lists of appended nodes are numbered after those of the     *)
(* defined nodes instead of after the whole store.                         *)
NewListsFromDefined(n) == Defined * Cardinality(Lists)
NewListsFrom(n) == Len(n.lists)

(* Memory where the blocks are not long enough already, new lists, bits.   *)
append_nodes(n, number) ==
  LET max == n.max + number
      longer(block, const) == Resized(block, Max({Len(block), max * size_per_node[const]}), Cell)
  IN  [max |-> max,
       const |-> longer(n.const, TRUE),
       dynamic |-> ListCells(longer(n.dynamic, FALSE), n.max, max, NewListsFrom(n) + 1),
       lists |-> Resized(n.lists, Len(n.lists) + number * Cardinality(Lists), <<>>),
       bits |-> ceil_to_times(max),
       masks |-> (n.masks \cap (0..ceil_to_times(max) - 1)) \cup (n.max..max - 1)]

is_node_alive(n, i) == i < n.bits /\ i \in n.masks
remove_node(n, i) == [n EXCEPT !.masks = @ \ {i}]
resume(n, i) == IF i < n.max THEN [n EXCEPT !.masks = @ \cup {i}] ELSE n

(* The cells of the nodes that exist, the lists, the masks; the constant   *)
(* block stays with the current frame.                                     *)
copy_from(n) ==
  [n EXCEPT !.dynamic = SubSeq(@, 1, n.max * size_per_node[FALSE]), !.const = <<>>]

(* The cell of a list attribute and its list.                              *)
get_list_attribute(n, i, a) == n.dynamic[compose_attr_offset_in_node(i, a, 0)]
get_attribute_list(n, i, a) == n.lists[get_list_attribute(n, i, a).v]

get_slot_number(n, i, a) ==
  IF Attrs[a].is_list THEN get_list_attribute(n, i, a).slots ELSE Attrs[a].slots

get_attr(n, i, a, slot) ==
  IF Attrs[a].is_list THEN get_attribute_list(n, i, a)[slot + 1]
  ELSE LET k == compose_attr_offset_in_node(i, a, slot)
       IN  IF Attrs[a].is_const THEN n.const[k].v ELSE n.dynamic[k].v

(* The attributes get_attr returns for these slots are assigned.           *)
Filled(block, cells, v) == [k \in DOMAIN block |-> IF k \in cells THEN [block[k] EXCEPT !.v = v] ELSE block[k]]

assigned(n, i, a, slots, v) ==
  LET cells == {compose_attr_offset_in_node(i, a, slot) : slot \in slots}
  IN  IF Attrs[a].is_list
      THEN [n EXCEPT !.lists[get_list_attribute(n, i, a).v] =
                       [s \in DOMAIN @ |-> IF s - 1 \in slots THEN v ELSE @[s]]]
      ELSE IF Attrs[a].is_const THEN [n EXCEPT !.const = Filled(@, cells, v)]
      ELSE [n EXCEPT !.dynamic = Filled(@, cells, v)]

(* A list and the number of its slots.                                     *)
WithList(n, i, a, l, slots) ==
  [n EXCEPT !.lists[get_list_attribute(n, i, a).v] = l,
            !.dynamic[compose_attr_offset_in_node(i, a, 0)].slots = slots]

clear_list(n, i, a) == WithList(n, i, a, <<>>, 0)
resize_list(n, i, a, new_size) ==
  WithList(n, i, a, Resized(get_attribute_list(n, i, a), new_size, 0), new_size)
append_to_list(n, i, a, v) ==
  WithList(n, i, a, Append(get_attribute_list(n, i, a), v), get_slot_number(n, i, a) + 1)
remove_from_list(n, i, a, slot) ==
  WithList(n, i, a, RemoveAt(get_attribute_list(n, i, a), slot + 1), get_slot_number(n, i, a) - 1)
insert_to_list(n, i, a, slot, v) ==
  WithList(n, i, a, InsertAt(get_attribute_list(n, i, a), slot + 1, v), get_slot_number(n, i, a) + 1)
=============================================================================
