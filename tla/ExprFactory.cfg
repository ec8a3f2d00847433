CONSTANTS
  N = 5
  ExprKinds = {"UNARY", "BINARY", "LU", "SELECTRESULT"}
  Node <- MCNode
  Tree <- MCTree
SPECIFICATION Spec
INVARIANTS
  FactoryInv
  FaithfulTree
  StackDiscipline
  BackingRefsLive
PROPERTIES
  Ends
CHECK_DEADLOCK FALSE
