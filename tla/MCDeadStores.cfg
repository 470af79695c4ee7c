SPECIFICATION Spec
CONSTANTS
    Alloca = {"A", "B"}
    Pointer = {"P"}
    Outside = "outside"
    Home <- MCHome
    Value = {0, 1}
    NoKey = "none"
    Programs <- MCPrograms
INVARIANTS
    LoadsReadTheSame
    OthersReadTheSame
    EquationsHold
PROPERTY
    AnalysisEnds
CHECK_DEADLOCK FALSE
