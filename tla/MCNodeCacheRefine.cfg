\* NodeCache refines the atomic cache CacheIndex, on the two-mount
\* instance of MCNodeCache2.cfg (cross-mount recycling) without the VM
\* thread, whose holds cache_refinement_rmhash covers.
\* check_table only reads, so it is a stuttering step of CacheIndex and is
\* left out here.
CONSTANTS
    m1 = m1  m2 = m2  p1 = p1  p2 = p2
    n1 = n1  n2 = n2  n3 = n3  w1 = w1  w2 = w2  v1 = v1
    Mounts <- MCMounts2
    Paths <- MCPaths1
    Nodes <- MCNodes
    Workers <- MCWorkers
    Pagers <- MCNoPagers
    RmHashers <- MCNoRmHash
    Checkers <- MCNoCheckers
    NFuseNode = 2
    NoNode = NoNode  NoPath = NoPath  NoMount = NoMount  NoThread = NoThread
SYMMETRY Symmetry2
SPECIFICATION Spec
PROPERTY ImplementsCacheIndex
