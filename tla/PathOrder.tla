----------------------------- MODULE PathOrder -----------------------------
(***************************************************************************)
(* The per-mount path index of fusefs_node.c seen as an ordered set of    *)
(* remote paths: the AVL comparator fusefs_node_cmp, the index updates     *)
(* sn_addhash_locked / sn_rmhash_locked, and the subtree walk of          *)
(* fusefs_attrcache_prune, one loop iteration per step.                   *)
(*                                                                         *)
(* A remote path n_rpath is a byte string of n_rplen bytes followed by a  *)
(* NUL; it is modelled as a sequence of byte values drawn from Chars,     *)
(* none of which is 0.  The walk runs under fmi_hash_lk as READER, so no  *)
(* index update interleaves with it: AddHash and RmHash are enabled only  *)
(* while no walk is in progress.                                          *)
(***************************************************************************)
EXTENDS Integers, Sequences, FiniteSets, SequencesExt

CONSTANTS
    Chars,      \* byte values a path may contain (1..255)
    MaxLen,     \* longest n_rplen considered
    MaxTree     \* most nodes in one mount's index

ASSUME Chars \subseteq 1..255 /\ MaxLen \in Nat /\ MaxTree \in Nat

SLASH == 47     \* '/'
COLON == 58     \* ':'

Paths == SeqOf(Chars, MaxLen)

NoPath == <<0>>    \* avl_walk returned NULL (no real path contains a NUL)

VARIABLES
    tree,       \* fmi_hash_avl: the set of n_rpath values in the index
    top,        \* the top_np argument of fusefs_attrcache_prune
    np,         \* the loop cursor np
    removed,    \* fusefs_attrcache_remove calls made, in order
    phase       \* "idle", "walk" (in the for loop) or "done" (returned)

vars == <<tree, top, np, removed, phase>>

(***************************************************************************)
(* strncmp(a, b, n) on NUL-terminated strings, unsigned bytes: only the    *)
(* sign of the result is used by the callers.                              *)
(***************************************************************************)
Byte(s, i) == IF i <= Len(s) THEN s[i] ELSE 0

StrNCmp(a, b, n) ==
    LET RECURSIVE Go(_)
        Go(i) == IF i > n THEN 0
                 ELSE IF Byte(a, i) # Byte(b, i) THEN Byte(a, i) - Byte(b, i)
                 ELSE IF Byte(a, i) = 0 THEN 0
                 ELSE Go(i + 1)
    IN Go(1)

\* fusefs_node_cmp, with the length tie-break dropped for the shorter b.
NodeCmpNoLenTie(a, b) ==
    LET clen == IF Len(a) < Len(b) THEN Len(a) ELSE Len(b)
        diff == StrNCmp(a, b, clen)
    IN CASE diff < 0      -> -1
         [] diff > 0      -> 1
         [] Len(a) > clen -> 1
         [] OTHER         -> 0

\* fusefs_node_cmp: strcmp order on (n_rpath, n_rplen) without relying on
\* the terminating NUL.
NodeCmp(a, b) ==
    LET clen == IF Len(a) < Len(b) THEN Len(a) ELSE Len(b)
        diff == StrNCmp(a, b, clen)
    IN CASE diff < 0      -> -1
         [] diff > 0      -> 1
         [] Len(b) > clen -> -1
         [] Len(a) > clen -> 1
         [] OTHER         -> 0

\* avl_walk(AVL_AFTER): the next path of the index in comparator order.
Succ(x) ==
    LET later == {y \in tree : NodeCmp(x, y) = -1}
        first == {y \in later : \A z \in later : z = y \/ NodeCmp(y, z) = -1}
    IN IF first = {} THEN NoPath ELSE CHOOSE y \in first : TRUE

-----------------------------------------------------------------------------
Init ==
    /\ tree = {}
    /\ top = NoPath
    /\ np = NoPath
    /\ removed = <<>>
    /\ phase = "idle"

\* sn_addhash_locked: avl_insert of a path not yet in the index (its
\* caller, make_fusenode, has just failed sn_hashfind under the writer lock).
AddHash(p) ==
    /\ phase = "idle"
    /\ p \notin tree
    /\ Cardinality(tree) < MaxTree
    /\ tree' = tree \cup {p}
    /\ UNCHANGED <<top, np, removed, phase>>

\* sn_rmhash_locked while a prune walk runs without fmi_hash_lk.
RmHashNoLock(p) ==
    /\ p \in tree
    /\ tree' = tree \ {p}
    /\ UNCHANGED <<top, np, removed, phase>>

\* sn_rmhash_locked: avl_remove under the writer lock.
RmHash(p) ==
    /\ phase = "idle"
    /\ p \in tree
    /\ tree' = tree \ {p}
    /\ UNCHANGED <<top, np, removed, phase>>

\* fusefs_attrcache_prune entry: rw_enter READER; np = top_np.  avl_walk
\* steps from a node of the tree, so its callers (outside this file) pass
\* an indexed top_np; the walk from top_np is what is modelled.
PruneStart(t) ==
    /\ phase = "idle"
    /\ t \in tree
    /\ top' = t
    /\ np' = t
    /\ removed' = <<>>
    /\ phase' = "walk"
    /\ UNCHANGED tree

\* One iteration of the loop, breaking instead of skipping a node that
\* shares top's prefix without a separator.
PruneStepBreakOnSkip ==
    LET n == Succ(np)
        rplen == Len(top)
        desc == Len(n) > rplen /\ Byte(n, rplen + 1) \in {COLON, SLASH}
    IN
    /\ phase = "walk"
    /\ np' = n
    /\ IF n = NoPath \/ Len(n) < rplen \/ StrNCmp(n, top, rplen) # 0 \/ ~desc
       THEN phase' = "done" /\ UNCHANGED removed
       ELSE removed' = Append(removed, n) /\ UNCHANGED phase
    /\ UNCHANGED <<tree, top>>

\* One iteration of the for loop: step to the successor; break at the end
\* of the index or at the first path not prefixed by top's path; call
\* fusefs_attrcache_remove when the byte after the prefix is ':' or '/'.
PruneStep ==
    LET n == Succ(np)
        rplen == Len(top)
    IN
    /\ phase = "walk"
    /\ np' = n
    /\ IF n = NoPath \/ Len(n) < rplen \/ StrNCmp(n, top, rplen) # 0
       THEN phase' = "done" /\ UNCHANGED removed
       ELSE /\ removed' = IF Len(n) > rplen /\ Byte(n, rplen + 1) \in {COLON, SLASH}
                          THEN Append(removed, n) ELSE removed
            /\ UNCHANGED phase
    /\ UNCHANGED <<tree, top>>

\* rw_exit and return.
PruneEnd ==
    /\ phase = "done"
    /\ phase' = "idle"
    /\ top' = NoPath
    /\ np' = NoPath
    /\ removed' = <<>>
    /\ UNCHANGED tree

Next ==
    \/ \E p \in Paths : AddHash(p) \/ RmHash(p)
    \/ \E t \in tree : PruneStart(t)
    \/ PruneStep
    \/ PruneEnd

Spec == Init /\ [][Next]_vars

-----------------------------------------------------------------------------
TypeOK ==
    /\ tree \subseteq Paths
    /\ Cardinality(tree) <= MaxTree
    /\ top \in tree \cup {NoPath}
    /\ np \in tree \cup {NoPath}
    /\ removed \in Seq(tree)
    /\ phase \in {"idle", "walk", "done"}

(***************************************************************************)
(* Reference order: a proper prefix sorts first, otherwise the first      *)
(* differing byte decides.                                                 *)
(***************************************************************************)
RefCmp(a, b) ==
    IF a = b THEN 0
    ELSE IF IsStrictPrefix(a, b) THEN -1
    ELSE IF IsStrictPrefix(b, a) THEN 1
    ELSE LET i == CHOOSE k \in 1..Len(a) : a[k] # b[k] /\ \A j \in 1..k-1 : a[j] = b[j]
         IN IF a[i] < b[i] THEN -1 ELSE 1

\* The descendants of t: paths extending t by a '/' or ':' separator.
Descendants(t) ==
    {n \in tree : IsStrictPrefix(t, n) /\ n[Len(t) + 1] \in {SLASH, COLON}}

(***************************************************************************)
(* Index order (spec P5, and what makes avl_find in sn_hashfind return    *)
(* the node with exactly the wanted path): fusefs_node_cmp agrees with    *)
(* the reference string order on every pair of paths in the index, so it  *)
(* is a strict total order in which only equal paths compare 0.           *)
(***************************************************************************)
CmpIsStrOrder == \A a, b \in tree : NodeCmp(a, b) = RefCmp(a, b)

(***************************************************************************)
(* Prune correctness (spec P8): when fusefs_attrcache_prune leaves its    *)
(* loop, fusefs_attrcache_remove has been called exactly once on every    *)
(* descendant of top and on nothing else, even when a sibling such as     *)
(* "top name" sorts between top and "top/name".                           *)
(***************************************************************************)
PruneCorrect ==
    phase = "done" =>
        /\ ToSet(removed) = Descendants(top)
        /\ Len(removed) = Cardinality(ToSet(removed))
=============================================================================
