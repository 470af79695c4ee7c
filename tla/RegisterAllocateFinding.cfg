SPECIFICATION AllocateSpec
CONSTANTS
    Programs <- MCOpeningCall
    Inputs = {}
    CallerPool <- MCCallerPool
    CalleePool <- MCCalleePool
    Values = {0, 1}
INVARIANT LiveAcrossCallsIsPreserved
CHECK_DEADLOCK FALSE
