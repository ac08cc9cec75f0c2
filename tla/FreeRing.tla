------------------------------ MODULE FreeRing ------------------------------
(***************************************************************************)
(* The fusenode freelist as the code keeps it: the head pointer            *)
(* fusefreelist and the r_freef / r_freeb links of each node, forming a    *)
(* circular doubly linked list.  Both operations run under                 *)
(* fusefreelist_lock, so each is one atomic step; the model checks the     *)
(* pointer code itself against the queue of FreeList.                      *)
(***************************************************************************)
EXTENDS Naturals, Sequences, SequencesExt, FiniteSets

CONSTANTS Nodes, NULL

ASSUME NULL \notin Nodes

VARIABLES
    head,   \* fusefreelist
    freef,  \* freef[n]: n->r_freef
    freeb   \* freeb[n]: n->r_freeb

vars == <<head, freef, freeb>>

\* r_freef != NULL: the test callers use for "on the freelist".
OnRing(n) == freef[n] # NULL

Init ==
    /\ head = NULL
    /\ freef = [n \in Nodes |-> NULL]
    /\ freeb = [n \in Nodes |-> NULL]

\* Mutant: the node is linked in as the new fusefreelist (LIFO).
AddTailAtHead(n) ==
    /\ ~OnRing(n) /\ freeb[n] = NULL
    /\ IF head = NULL
       THEN /\ freef' = [freef EXCEPT ![n] = n]
            /\ freeb' = [freeb EXCEPT ![n] = n]
            /\ head' = n
       ELSE /\ freef' = [freef EXCEPT ![n] = head, ![freeb[head]] = n]
            /\ freeb' = [freeb EXCEPT ![n] = freeb[head], ![head] = n]
            /\ head' = n

\* Lines 578-588 of fusefs_addfree for a node not on the list (ASSERT at
\* line 481): start the ring, or link the node in before the head, i.e.
\* after the tail.
AddTail(n) ==
    /\ ~OnRing(n) /\ freeb[n] = NULL
    /\ IF head = NULL
       THEN /\ freef' = [freef EXCEPT ![n] = n]
            /\ freeb' = [freeb EXCEPT ![n] = n]
            /\ head' = n
       ELSE /\ freef' = [freef EXCEPT ![n] = head, ![freeb[head]] = n]
            /\ freeb' = [freeb EXCEPT ![n] = freeb[head], ![head] = n]
            /\ UNCHANGED head

\* Mutant: line 618 clears r_freef only.
SnRmFreeKeepBack(n) ==
    LET f1 == [freef EXCEPT ![freeb[n]] = freef[n]]
        b1 == [freeb EXCEPT ![f1[n]] = freeb[n]]
    IN
    /\ OnRing(n) /\ freeb[n] # NULL
    /\ head' = IF n = head THEN IF freef[n] = n THEN NULL ELSE freef[n] ELSE head
    /\ freef' = [f1 EXCEPT ![n] = NULL]
    /\ freeb' = b1

\* Mutant: line 616 not done, the successor keeps its back link.
SnRmFreeNoBackLink(n) ==
    LET f1 == [freef EXCEPT ![freeb[n]] = freef[n]]
    IN
    /\ OnRing(n) /\ freeb[n] # NULL
    /\ head' = IF n = head THEN IF freef[n] = n THEN NULL ELSE freef[n] ELSE head
    /\ freef' = [f1 EXCEPT ![n] = NULL]
    /\ freeb' = [freeb EXCEPT ![n] = NULL]

\* sn_rmfree (lines 602-619), statement by statement: advance the head if
\* n is the head (empty list if n was alone), unlink n from its
\* predecessor (615), then from its successor (616, seeing 615's store),
\* and clear n's links (618).
SnRmFree(n) ==
    LET f1 == [freef EXCEPT ![freeb[n]] = freef[n]]
        b1 == [freeb EXCEPT ![f1[n]] = freeb[n]]
    IN
    /\ OnRing(n) /\ freeb[n] # NULL
    /\ head' = IF n = head THEN IF freef[n] = n THEN NULL ELSE freef[n] ELSE head
    /\ freef' = [f1 EXCEPT ![n] = NULL]
    /\ freeb' = [b1 EXCEPT ![n] = NULL]

Next == \E n \in Nodes : AddTail(n) \/ SnRmFree(n)

Spec == Init /\ [][Next]_vars

-----------------------------------------------------------------------------
\* The list read from the ring: from fusefreelist along r_freef until the
\* walk comes back to the head (at most |Nodes| nodes).
RECURSIVE Walk(_, _)
Walk(x, k) ==
    IF x = head \/ x = NULL \/ k = 0 THEN <<>> ELSE <<x>> \o Walk(freef[x], k - 1)

RingSeq == IF head = NULL THEN <<>> ELSE <<head>> \o Walk(freef[head], Cardinality(Nodes))

Abstract == INSTANCE FreeList WITH list <- RingSeq

TypeOK ==
    /\ head \in Nodes \cup {NULL}
    /\ freef \in [Nodes -> Nodes \cup {NULL}]
    /\ freeb \in [Nodes -> Nodes \cup {NULL}]
    /\ \A n \in Nodes : (freef[n] = NULL) <=> (freeb[n] = NULL)

\* Spec P3 and the ring shape sn_rmfree relies on: every linked node has
\* freeb[freef[n]] = n = freef[freeb[n]], the walk from fusefreelist comes
\* back to it, and the nodes met on the walk are exactly those with
\* r_freef != NULL, so the "r_freef != NULL" test of sn_hashfind and
\* fusefs_destroy_table means "on the list".
RingWellFormed ==
    /\ \A n \in Nodes : OnRing(n) => freeb[freef[n]] = n /\ freef[freeb[n]] = n
    /\ head # NULL => OnRing(head)
    /\ ToSet(RingSeq) = {n \in Nodes : OnRing(n)}

\* The pointer code implements the queue: every step of the ring is an
\* append at the tail or an unlink of the FreeList specification, read
\* through RingSeq.
ImplementsFreeList == Abstract!Spec
=============================================================================
