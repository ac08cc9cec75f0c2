\* Two mounts sharing the process-wide freelist, one path in each, three
\* kmem slots, two workers and one VM thread; nfusenode = 2.  Recycling
\* moves nodes between the mounts.
CONSTANTS
    m1 = m1  m2 = m2  p1 = p1  p2 = p2
    n1 = n1  n2 = n2  n3 = n3  w1 = w1  w2 = w2  v1 = v1
    Mounts <- MCMounts2
    Paths <- MCPaths1
    Nodes <- MCNodes
    Workers <- MCWorkers
    Pagers <- MCPagers
    RmHashers <- MCNoRmHash
    Checkers <- MCWorkers
    NFuseNode = 2
    NoNode = NoNode  NoPath = NoPath  NoMount = NoMount  NoThread = NoThread
SYMMETRY Symmetry2
SPECIFICATION Spec
INVARIANTS TypeOK RefCountExact NoStaleNode IndexUnique FreeNodesCached ResourceAccounting DestroyAsserts CheckTableSnapshot
