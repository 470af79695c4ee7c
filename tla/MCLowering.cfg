CONSTANTS
  Types <- TypeUniverse
  Transmutes <- TransmutePairs
  RustcReturned <- NoFloatResult
  Encodings <- EncodingUniverse
  DiscrBits = 5
  MaxStack = 40
  SplitPairs = FALSE
  NarrowZero = FALSE
  BorrowingLanes = FALSE
  WideTrunc = FALSE
  WideFloatBits = FALSE
  X86Signed = FALSE
SPECIFICATION MCSpec
INVARIANTS
  RegistersHoldTheValue BranchFollowsCondition ExpansionsMeanRust
  ValueSurvives StoresStayInBounds ArgumentsArrive DiscriminantReadsBack
CHECK_DEADLOCK FALSE
