\* Five nodes: every list of up to five distinct nodes in every order
\* (326 lists), so removal from the head, the tail, the middle and the
\* only node, and insertion into an empty and a full ring, all occur.
CONSTANTS
    Nodes = {n1, n2, n3, n4, n5}
    NULL = NULL
SPECIFICATION Spec
INVARIANTS TypeOK RingWellFormed
PROPERTY ImplementsFreeList
