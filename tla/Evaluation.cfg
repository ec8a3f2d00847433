CONSTANTS
  N = 5
  ExprKinds = {"UNARY", "BINARY", "LU", "SVD", "SELECTRESULT", "COPY"}
  Node <- MCNode
  Tree <- MCTree
  Value <- MCValue
  NoValue = NoValue
  Leaf <- MCLeaf
  Results <- MCResults
  MaxCalls = 2
SPECIFICATION MCSpec
INVARIANTS
  EvalInv
  ListIsPostOrder
  ReadsAreDefined
  EvaluationIsPure
PROPERTIES
  EveryCallEnds
  ImplementsDataflow
CHECK_DEADLOCK FALSE
