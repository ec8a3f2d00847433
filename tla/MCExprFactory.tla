--------------------------- MODULE MCExprFactory ---------------------------
(* ExprFactory over all the graphs of MCTrees.                             *)
EXTENDS ExprFactory, MCTrees
=============================================================================
