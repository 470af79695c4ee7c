SPECIFICATION MCSpec
CONSTANTS
    Undef = Undef
    Zero = 0
    Value = {0, 10, 11, 12, 13, 14}
    Edges <- MCEdges
    PtxValue <- MCPtxValue
    Generic <- MCGeneric
    PtxEdges <- MCPtxEdges
INVARIANTS
    ParallelMeaning
    SimultaneousSoFar
PROPERTIES
    CopiesComplete
    ImplementsBlockArguments
CHECK_DEADLOCK FALSE
