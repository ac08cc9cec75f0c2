\* NodeCache refines CacheIndex while both workers also unhash nodes they
\* hold with fusefs_rmhash: one mount, two paths, two kmem slots with
\* nfusenode = 1 (recycle at 1 node, destroy above it), two workers and
\* the VM thread.  The stale RHASHED race of MC_RmHashAsserts.cfg is
\* reachable here; the model lets its avl_remove of a node already out of
\* the tree change nothing.
CONSTANTS
    m1 = m1  m2 = m2  p1 = p1  p2 = p2
    n1 = n1  n2 = n2  n3 = n3  w1 = w1  w2 = w2  v1 = v1
    Mounts <- MCMounts1
    Paths <- MCPaths
    Nodes <- MCNodes2
    Workers <- MCWorkers
    Pagers <- MCPagers
    RmHashers <- MCRmHash
    Checkers <- MCNoCheckers
    NFuseNode = 1
    NoNode = NoNode  NoPath = NoPath  NoMount = NoMount  NoThread = NoThread
SYMMETRY SymmetryN2
SPECIFICATION Spec
PROPERTY ImplementsCacheIndex
