\* fusefs_subrinit sizing, 16-bit long / ulong_t and 8-bit int, over the
\* boundary inputs of MCSubrInit.  fusefs_subrinit runs once, at module
\* load, so the model stops after it: deadlock is not a failure here.
CONSTANTS
    LongBits = 16
    IntBits = 8
    Tunables <- MCTunables
    NcSizes <- MCNcSizes
    MaxAvails <- MCMaxAvails
    NodeSize = 8
SPECIFICATION Spec
INVARIANT NFuseNodeSized
CHECK_DEADLOCK FALSE
