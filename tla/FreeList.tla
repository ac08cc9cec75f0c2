------------------------------ MODULE FreeList ------------------------------
(***************************************************************************)
(* What the fusenode freelist promises its users (make_fusenode,           *)
(* sn_hashfind, fusefs_node_reclaim, fusefs_destroy_table): a queue of     *)
(* distinct nodes, appended at the tail by fusefs_addfree, from which any  *)
(* member can be unlinked; the head is the oldest entry, the victim that   *)
(* make_fusenode and reclaim take.                                         *)
(***************************************************************************)
EXTENDS Sequences, SequencesExt

CONSTANT Nodes

VARIABLE list

Init == list = <<>>

\* fusefs_addfree, lines 578-589: the node goes to the tail.
Add(n) ==
    /\ n \notin ToSet(list)
    /\ list' = Append(list, n)

\* sn_rmfree: the node leaves the list, the others keep their order.
Rm(n) ==
    /\ n \in ToSet(list)
    /\ list' = Remove(list, n)

Next == \E n \in Nodes : Add(n) \/ Rm(n)

Spec == Init /\ [][Next]_list
=============================================================================
