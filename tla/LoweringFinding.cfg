CONSTANTS
  Types <- TypeUniverse
  Transmutes <- TransmutePairs
  RustcReturned <- NoFloatResult
  Encodings <- EncodingUniverse
  DiscrBits = 5
  MaxStack = 40
  SplitPairs = FALSE
  NarrowZero = TRUE
  BorrowingLanes = FALSE
  WideTrunc = FALSE
  WideFloatBits = FALSE
  X86Signed = FALSE
SPECIFICATION MCSpec
INVARIANT ExpansionsMeanRust
CHECK_DEADLOCK FALSE
