CONSTANTS
  Before <- MCBefore
  Source <- MCSource
  Main = "f"
  Callee = "g"
  MaxPasses = 2
  Lines <- MCLines
  Period = 720
  ByteLen <- MCByteLen
  Kinds <- MCKinds
  Labels <- MCLabels
SPECIFICATION Spec
INVARIANT CyclesConserved
INVARIANT CostStaysWithItsSource
INVARIANT BoundaryIdsUnique
INVARIANT ReachedIsEarliest
PROPERTY EveryFunctionStops
CHECK_DEADLOCK FALSE
