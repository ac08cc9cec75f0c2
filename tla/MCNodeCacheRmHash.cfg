\* One mount, two paths, three kmem slots, two workers and no VM thread
\* (cache_refinement_rmhash runs rmhash with it), nfusenode = 2; both workers may also call fusefs_rmhash on a
\* node they hold (VOP_REMOVE / VOP_RENAME), racing the unlocked RHASHED
\* reads of make_fusenode, fusefs_addfree and fusefs_node_reclaim.
\* FreeNodesCached is left out: the stale RHASHED read in fusefs_addfree
\* breaks it, see MC_RmHashAsserts.cfg.
CONSTANTS
    m1 = m1  m2 = m2  p1 = p1  p2 = p2
    n1 = n1  n2 = n2  n3 = n3  w1 = w1  w2 = w2  v1 = v1
    Mounts <- MCMounts1
    Paths <- MCPaths
    Nodes <- MCNodes
    Workers <- MCWorkers
    Pagers <- MCNoPagers
    RmHashers <- MCRmHash
    Checkers <- MCNoCheckers
    NFuseNode = 2
    NoNode = NoNode  NoPath = NoPath  NoMount = NoMount  NoThread = NoThread
SYMMETRY Symmetry
SPECIFICATION Spec
INVARIANTS TypeOK RefCountExact IndexUnique ResourceAccounting DestroyAsserts
