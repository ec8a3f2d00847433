CONSTANTS
  MaxDim = 3
  MaxN = 3
  MaxM = 5
  MaxValue = 2
SPECIFICATION MCSpec
INVARIANTS
  MldivideInv
  WrongOnlyAsKnown
  OneAnswerUnlessZeros
  ProbeIsExact
  ShortCyclesGoHome
  UIsUpperTriangle
  FactInv
  WrongIsPrintedOrKnown
  NonFiniteIsRefused
  AnswerHasTheShape
PROPERTIES
  FallbacksGoDown
  RejectionEscapes
  Ends
CHECK_DEADLOCK FALSE
