------------------------------ MODULE Backends ------------------------------
(***************************************************************************)
(* The two backends of a frame.  FrameBase creates one of them: the static *)
(* one, of which NPSnapshotList has the ring of snapshots, or the dynamic  *)
(* one, of which RawFrame has nodes that come and go and lists.            *)
(***************************************************************************)
EXTENDS NPSnapshotList, RawFrame

VARIABLE backend

backendVars == <<vars, frameVars, backend>>

BackendInit == backend \in {"static", "dynamic"} /\ Init /\ FrameInit

BackendNext ==
  /\ UNCHANGED backend
  /\ \/ backend = "static" /\ Next /\ UNCHANGED frameVars
     \/ backend = "dynamic" /\ FrameNext /\ UNCHANGED vars

BackendSpec == BackendInit /\ [][BackendNext]_backendVars

----------------------------------------------------------------------------
(***************************************************************************)
(* A node type with two list attributes around a plain one, whose cells    *)
(* interleave in the block, and a constant in the other block.             *)
(***************************************************************************)
Attribute(is_list, is_const, slots) == [is_list |-> is_list, is_const |-> is_const, slots |-> slots]
MCAttrs ==
  <<Attribute(TRUE, FALSE, 1), Attribute(FALSE, FALSE, 2),
    Attribute(TRUE, FALSE, 1), Attribute(FALSE, TRUE, 1)>>
=============================================================================
