---------------------------- MODULE MCNodeCache ----------------------------
(* Model-checking instance of NodeCache: finite sets of model values for   *)
(* mounts, paths, kmem slots and threads, and symmetry over them.         *)
EXTENDS NodeCache, TLC

CONSTANTS m1, m2, p1, p2, n1, n2, n3, w1, w2, v1

MCMounts1  == {m1}
MCMounts2  == {m1, m2}
MCPaths    == {p1, p2}
MCPaths1   == {p1}
MCNodes    == {n1, n2, n3}
MCNodes2   == {n1, n2}
MCWorkers  == {w1, w2}
MCPagers   == {v1}
MCNoPagers == {}
MCWorkers1 == {w1}
MCNoRmHash == {}
MCRmHash   == {w1, w2}
MCNoCheckers == {}

Symmetry == Permutations(MCNodes) \cup Permutations(MCPaths) \cup Permutations(MCWorkers)

\* The same over two kmem slots.
SymmetryN2 == Permutations(MCNodes2) \cup Permutations(MCPaths) \cup Permutations(MCWorkers)

\* Two mounts are interchangeable too when both can be looked up and unmounted.
Symmetry2 == Symmetry \cup Permutations(MCMounts2)
=============================================================================
