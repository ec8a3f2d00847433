------------------------------ MODULE ExprTree ------------------------------
(***************************************************************************)
(* The expression graphs librdag evaluates, as they are after construction *)
(* (expressionbase.cc): every node is either a terminal, which has no      *)
(* arguments, or an expression, whose arguments were fixed, non-null, when *)
(* it was built.  A node may be an argument of several expressions.        *)
(*                                                                         *)
(* A tree is a record of two functions on Node: kind, which stands for     *)
(* getType(), and args, which stands for getArgs(); and of index, the      *)
(* value of an OGIntegerScalar (it means nothing at the other nodes).      *)
(***************************************************************************)
EXTENDS Naturals, Sequences

CONSTANTS Node,   \* the nodes a tree may use
          Tree    \* the expression graphs of interest

TerminalKind == {"TERMINAL", "INTEGER"}   \* IS_NODE_MASK is clear
UnaryKind    == {"UNARY", "LU", "SVD"}    \* built by OGUnaryExpr
ExprKind     == UnaryKind \cup {"BINARY", "SELECTRESULT", "COPY"}
Kind         == TerminalKind \cup ExprKind

(***************************************************************************)
(* How many registers one run of a node's runner pushes at least: U, S and *)
(* VT for SVD, L and U for LU, one for every other node.  (mldivide pushes *)
(* two for a matrix of zeros.)                                             *)
(***************************************************************************)
NResults(k) == IF k = "SVD" THEN 3 ELSE IF k = "LU" THEN 2 ELSE 1

NArgs(k) == IF k \in TerminalKind THEN 0
            ELSE IF k \in {"BINARY", "SELECTRESULT"} THEN 2 ELSE 1

(***************************************************************************)
(* A constructor takes arguments that exist already and never changes      *)
(* them, so that no walk along arguments comes back: of any nodes there is *)
(* one whose arguments are not among them.                                 *)
(***************************************************************************)
Acyclic(t) ==
  \A S \in SUBSET Node :
    S # {} => \E n \in S : \A a \in 1..Len(t.args[n]) : t.args[n][a] \notin S

TreeShape == [kind : [Node -> Kind], args : [Node -> Seq(Node)],
              index : [Node -> Nat]]

(***************************************************************************)
(* What the constructors enforce (number of arguments, an integer as the   *)
(* second argument of SELECTRESULT) and what every caller of SELECTRESULT  *)
(* does (SVD.java, LU.java, pinvrunner.cc: it selects one of the results   *)
(* of the expression it wraps).                                            *)
(***************************************************************************)
WellFormed(t) ==
  /\ t \in TreeShape
  /\ Acyclic(t)
  /\ \A n \in Node : Len(t.args[n]) = NArgs(t.kind[n])
  /\ \A n \in Node : t.kind[n] = "SELECTRESULT" =>
        /\ t.kind[t.args[n][1]] \in ExprKind
        /\ t.kind[t.args[n][2]] = "INTEGER"
        /\ t.index[t.args[n][2]] < NResults(t.kind[t.args[n][1]])

ASSUME TreeAssumption == \A t \in Tree : WellFormed(t)
=============================================================================
