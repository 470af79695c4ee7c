CONSTANTS
    rustmain = rustmain
    upstream = upstream
    local = local
    external = external
    table = table
    shim = shim
    Importable = {rustmain, upstream, local}
    Outside = {external}
    Allocs = {table}
    Thunk <- MCThunk
    Locals <- MCLocals
    RustMain = rustmain
    CMain = cmain
    Programs <- MCPrograms
    MaxCalleeOps = 2
    MaxGrowth = 4
    NBlocks = 3
    Functions <- MCFunctions
    OpCounts <- MCOpCounts
    Base = 8
    OpLen = 3
    BBits = 4
    CondBits = 3
    RelBits = 5
    Passes = 2
SPECIFICATION MCSpec
INVARIANTS CountsSafe UpstreamNeverStrong RelocationsResolve MeaningKept InStep
