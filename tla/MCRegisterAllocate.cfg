SPECIFICATION MCSpec
CONSTANTS
    Programs <- MCPrograms
    Inputs <- MCInputs
    CallerPool <- MCCallerPool
    CalleePool <- MCCalleePool
    Values = {0, 1}
INVARIANTS
    NoSharedRegister
    CallsPreserveRegisters
    SlotsDisjoint
    UsesReadTheirValue
    LiveAcrossCallsIsPreserved
    CallerStateIsKept
CHECK_DEADLOCK FALSE
