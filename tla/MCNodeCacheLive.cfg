\* Liveness of the cache protocol under the fairness of FairSpec: one
\* mount, two paths, two node slots with nfusenode = 2 (recycling starts
\* once both slots are in use), two workers whose lookups make a
\* recycler back off.  No VM thread and no symmetry: TLC does not combine
\* symmetry with liveness checking, and the VM's holds would grow the
\* graph past what the liveness check can explore.
CONSTANTS
    m1 = m1  m2 = m2  p1 = p1  p2 = p2
    n1 = n1  n2 = n2  n3 = n3  w1 = w1  w2 = w2  v1 = v1
    Mounts <- MCMounts1
    Paths <- MCPaths
    Nodes <- MCNodes2
    Workers <- MCWorkers
    Pagers <- MCNoPagers
    RmHashers <- MCNoRmHash
    Checkers <- MCWorkers
    NFuseNode = 2
    NoNode = NoNode  NoPath = NoPath  NoMount = NoMount  NoThread = NoThread
SPECIFICATION FairSpec
PROPERTY OperationsComplete
