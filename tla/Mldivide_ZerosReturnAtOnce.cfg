CONSTANT MaxDim = 3
SPECIFICATION Spec
INVARIANT ZerosReturnAtOnce
CHECK_DEADLOCK FALSE
