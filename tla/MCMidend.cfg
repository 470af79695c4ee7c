CONSTANTS
  Programs <- MCMidendPrograms
  Memory0 <- MCMidendMemory
  MaxPasses = 2
  MaxChain = 3
  MaxTrip = 5
  MaxChainOps = 8
  MaxLoopOps = 12
  MaxUnrollGrowth = 40
  MaxFuncGrowth = 60
SPECIFICATION Spec
INVARIANT StaysInSsa
INVARIANT MeaningKept
INVARIANT PostDominatorsExact
