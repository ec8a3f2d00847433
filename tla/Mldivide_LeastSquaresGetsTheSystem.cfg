CONSTANT MaxDim = 3
SPECIFICATION Spec
INVARIANT LeastSquaresGetsTheSystem
CHECK_DEADLOCK FALSE
