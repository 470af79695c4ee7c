SPECIFICATION Spec
CONSTANTS
    Alloca = {"A", "B"}
    Pointer = {"P"}
    Outside = "outside"
    Home <- MCHome
    Value = {0, 1}
    NoKey = "none"
    Programs <- MCNarrowStore
INVARIANT LoadsReadTheSame
CHECK_DEADLOCK FALSE
