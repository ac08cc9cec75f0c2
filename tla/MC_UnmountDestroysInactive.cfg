\* One mount, two paths, three kmem slots, two workers and one VM thread;
\* nfusenode = 2 so that both recycling (at 2) and destroy-on-addfree (at 3)
\* are reached.
CONSTANTS
    m1 = m1  m2 = m2  p1 = p1  p2 = p2
    n1 = n1  n2 = n2  n3 = n3  w1 = w1  w2 = w2  v1 = v1
    Mounts <- MCMounts1
    Paths <- MCPaths
    Nodes <- MCNodes
    Workers <- MCWorkers
    Pagers <- MCPagers
    RmHashers <- MCNoRmHash
    Checkers <- MCNoCheckers
    NFuseNode = 2
    NoNode = NoNode  NoPath = NoPath  NoMount = NoMount  NoThread = NoThread
SYMMETRY Symmetry
SPECIFICATION Spec
INVARIANT UnmountDestroysInactive
