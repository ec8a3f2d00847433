SPECIFICATION Spec
CONSTANTS
  MaxSteps = 2
  Terminals <- MCTerminals
CHECK_DEADLOCK FALSE
INVARIANTS
  DispatchInv
  ValueIsDenoted
  RealStaysReal
  ViewsAgree
  EqualityIsSound
