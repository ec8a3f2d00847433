---------------------------- MODULE DataflowEval ----------------------------
(***************************************************************************)
(* What evaluation promises, with no list, no stacks and no registers: an  *)
(* expression node gets its results once, at any time after its arguments  *)
(* have theirs, and keeps them; a call on a node ends with that node's     *)
(* first result, or with an error.                                         *)
(***************************************************************************)
EXTENDS ExprTree

CONSTANTS Value, NoValue, Leaf, Results(_, _)

VARIABLES tree, val, busy, mode, root, status, result

dfVars == <<tree, val, busy, mode, root, status, result>>

Terminal(n) == tree.kind[n] \in TerminalKind
Known(n)    == Terminal(n) \/ val[n] # <<>>
First(n)    == IF Terminal(n) THEN Leaf[n] ELSE val[n][1]

Init ==
  /\ WellFormed(tree)
  /\ val = [n \in Node |-> <<>>]
  /\ busy = FALSE
  /\ mode = "entrypt"
  /\ root \in Node
  /\ status = "none"
  /\ result = NoValue

Begin(m, r) ==
  /\ ~busy
  /\ busy' = TRUE
  /\ mode' = m
  /\ root' = r
  /\ status' = "none"
  /\ result' = NoValue
  /\ UNCHANGED <<tree, val>>

ReturnTerminal(r) ==
  /\ ~busy
  /\ Terminal(r)
  /\ mode' = "entrypt"
  /\ root' = r
  /\ status' = "value"
  /\ result' = Leaf[r]
  /\ UNCHANGED <<tree, val, busy>>

(* The results of node n once its arguments have theirs.                   *)
Outcome(n) ==
  IF tree.kind[n] = "SELECTRESULT"
  THEN <<val[tree.args[n][1]][tree.index[tree.args[n][2]] + 1]>>
  ELSE Results(tree.kind[n],
               [i \in 1..Len(tree.args[n]) |-> First(tree.args[n][i])])

Compute(n) ==
  /\ busy
  /\ tree.kind[n] \in ExprKind \ {"COPY"}
  /\ val[n] = <<>>
  /\ \A i \in 1..Len(tree.args[n]) : Known(tree.args[n][i])
  /\ val' = [val EXCEPT ![n] = Outcome(n)]
  /\ UNCHANGED <<tree, busy, mode, root, status, result>>

Finish ==
  /\ busy
  /\ Known(root)
  /\ busy' = FALSE
  /\ \/ mode = "entrypt" /\ status' = "value" /\ result' = First(root)
     \/ mode = "runtree" /\ status' = "done" /\ result' = NoValue
  /\ UNCHANGED <<tree, val, mode, root>>

Fail ==
  /\ busy
  /\ busy' = FALSE
  /\ status' = "error"
  /\ result' = NoValue
  /\ UNCHANGED <<tree, val, mode, root>>

Next == \/ \E m \in {"entrypt", "runtree"}, r \in Node : Begin(m, r)
        \/ \E r \in Node : ReturnTerminal(r)
        \/ \E n \in Node : Compute(n)
        \/ Finish
        \/ Fail

Spec == Init /\ [][Next]_dfVars
=============================================================================
