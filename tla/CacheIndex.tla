----------------------------- MODULE CacheIndex -----------------------------
(***************************************************************************)
(* What the fusenode cache promises its callers, with every operation     *)
(* atomic: each mount maps a remote path to at most one node; a lookup    *)
(* returns the node the path maps to at that moment; a create either      *)
(* finds that node or links a node that no path of any mount maps to and  *)
(* that no caller holds; a mapping may disappear at any time (rmhash,     *)
(* recycling, reclaim, destroy); a caller eventually puts its node back.  *)
(***************************************************************************)
CONSTANTS Mounts, Paths, Nodes, Threads, NoNode

VARIABLES
    index,  \* index[m][p]: the node of path p in mount m, or NoNode
    got     \* got[t]: the node the last lookup of t returned, until put back

vars == <<index, got>>

Linked == {index[m][p] : m \in Mounts, p \in Paths} \ {NoNode}

Held == {got[t] : t \in Threads} \ {NoNode}

Init ==
    /\ index = [m \in Mounts |-> [p \in Paths |-> NoNode]]
    /\ got = [t \in Threads |-> NoNode]

\* A lookup that hits.
Find(t, m, p) ==
    /\ got[t] = NoNode
    /\ index[m][p] # NoNode
    /\ got' = [got EXCEPT ![t] = index[m][p]]
    /\ UNCHANGED index

\* A create that misses links a fresh or fully recycled node.
Create(t, m, p, n) ==
    /\ got[t] = NoNode
    /\ index[m][p] = NoNode
    /\ n \notin Linked \cup Held
    /\ index' = [index EXCEPT ![m][p] = n]
    /\ got' = [got EXCEPT ![t] = n]

\* A node leaves the index; whoever holds it keeps holding it.
Unlink(m, p) ==
    /\ index[m][p] # NoNode
    /\ index' = [index EXCEPT ![m][p] = NoNode]
    /\ UNCHANGED got

\* The caller drops its reference.
Put(t) ==
    /\ got[t] # NoNode
    /\ got' = [got EXCEPT ![t] = NoNode]
    /\ UNCHANGED index

Next ==
    \/ \E t \in Threads, m \in Mounts, p \in Paths :
          \/ Find(t, m, p)
          \/ \E n \in Nodes : Create(t, m, p, n)
    \/ \E m \in Mounts, p \in Paths : Unlink(m, p)
    \/ \E t \in Threads : Put(t)

Spec == Init /\ [][Next]_vars
=============================================================================
