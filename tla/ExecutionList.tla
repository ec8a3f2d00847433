--------------------------- MODULE ExecutionList ---------------------------
(***************************************************************************)
(* The linearisation of an expression graph (execution.cc): a depth-first  *)
(* traversal driven by two stacks, one of the nodes being visited and one  *)
(* of how far each of them got through its arguments.  One action is one   *)
(* iteration of the constructor's loop.                                    *)
(***************************************************************************)
EXTENDS ExprTree, SequencesExt

VARIABLES tree,      \* the expression graph being worked on
          treePos,   \* stack of nodes visited but not finished with
          argPos,    \* stack of argument positions, counted from 0
          dir,       \* direction of the traversal
          execList   \* the list under construction

listVars == <<treePos, argPos, dir, execList>>

IsTerminal(n) == tree.kind[n] \in TerminalKind
IsExpr(n)     == tree.kind[n] \in ExprKind
Args(n)       == tree.args[n]

ListTypeOK ==
  /\ WellFormed(tree)
  /\ treePos \in Seq(Node)
  /\ argPos \in Seq(Nat)
  /\ Len(argPos) = Len(treePos)
  /\ dir \in {"UP", "DOWN"}
  /\ execList \in Seq(Node)

EmptyList ==
  /\ treePos = <<>> /\ argPos = <<>> /\ dir = "DOWN" /\ execList = <<>>

(* The stacks before the first iteration.                                  *)
StartList(root) ==
  /\ treePos' = <<root>>
  /\ argPos' = <<0>>
  /\ dir' = "DOWN"
  /\ execList' = <<>>

Current == treePos[Len(treePos)]

(* Mutant: positions counted from 1.                                        *)
PushFromOne(node) == treePos' = Append(treePos, node) /\ argPos' = Append(argPos, 1)

Push(node) == /\ treePos' = Append(treePos, node)
              /\ argPos' = Append(argPos, 0)

PopBoth == /\ treePos' = Front(treePos)
           /\ argPos' = Front(argPos)

Emit == execList' = Append(execList, Current)

(* A terminal: it is next to execute, and the traversal turns upwards.     *)
ListTerminal ==
  /\ treePos # <<>>
  /\ IsTerminal(Current)
  /\ Emit
  /\ PopBoth
  /\ dir' = "UP"

(* An expression met on the way down: visit its first argument.            *)
DescendFirstArg ==
  /\ treePos # <<>>
  /\ ~IsTerminal(Current)
  /\ dir = "DOWN"
  /\ Push(Args(Current)[1])
  /\ UNCHANGED <<dir, execList>>

NextPos  == argPos[Len(argPos)] + 1

ArgsLeft == NextPos < Len(Args(Current))

(* Mutant: the next argument is entered as if it had been visited.          *)
DescendStillUp ==
  /\ treePos # <<>> /\ ~IsTerminal(Current) /\ dir = "UP" /\ ArgsLeft
  /\ treePos' = Append(treePos, Args(Current)[NextPos + 1])
  /\ argPos' = Append([argPos EXCEPT ![Len(argPos)] = NextPos], 0)
  /\ UNCHANGED <<dir, execList>>

(* Back at an expression with arguments left: go down the next one.        *)
DescendNextArg ==
  /\ treePos # <<>>
  /\ ~IsTerminal(Current)
  /\ dir = "UP"
  /\ ArgsLeft
  /\ treePos' = Append(treePos, Args(Current)[NextPos + 1])
  /\ argPos' = Append([argPos EXCEPT ![Len(argPos)] = NextPos], 0)
  /\ dir' = "DOWN"
  /\ UNCHANGED execList

(* Back at an expression whose last argument is done: it is next to        *)
(* execute, and the traversal carries on upwards.                          *)
ListExpr ==
  /\ treePos # <<>>
  /\ ~IsTerminal(Current)
  /\ dir = "UP"
  /\ ~ArgsLeft
  /\ Emit
  /\ PopBoth
  /\ UNCHANGED dir

Linearise == ListTerminal \/ DescendFirstArg \/ DescendNextArg \/ ListExpr

(***************************************************************************)
(* The promise of execution.hh: no node has inputs that are computed by a  *)
(* node further down the list.                                             *)
(***************************************************************************)
InputsFirst ==
  \A i \in 1..Len(execList) : \A a \in 1..Len(Args(execList[i])) :
     \E j \in 1..(i - 1) : execList[j] = Args(execList[i])[a]

(***************************************************************************)
(* Why it holds: the stack is a path of expressions, each below the        *)
(* argument its position points at; the arguments to the left of every     *)
(* position are on the list; and a traversal going up has just listed the  *)
(* argument the top of the stack points at.                                *)
(***************************************************************************)
Listed == {execList[i] : i \in 1..Len(execList)}

Pointed(i) == Args(treePos[i])[argPos[i] + 1]

IsPath ==
  \A i \in 1..(Len(treePos) - 1) :
     /\ ~IsTerminal(treePos[i])
     /\ argPos[i] < Len(Args(treePos[i]))
     /\ treePos[i + 1] = Pointed(i)

LeftIsListed ==
  \A i \in 1..Len(treePos) : \A a \in 1..argPos[i] :
     /\ a <= Len(Args(treePos[i]))
     /\ Args(treePos[i])[a] \in Listed

TopIsConsistent ==
  treePos # <<>> =>
    LET top == Len(treePos) IN
    \/ dir = "DOWN" /\ argPos[top] = 0
    \/ /\ dir = "UP"
       /\ ~IsTerminal(Current)
       /\ argPos[top] < Len(Args(Current))
       /\ Pointed(top) \in Listed

StackInv == IsPath /\ LeftIsListed /\ TopIsConsistent

(* The traversal starts and ends at r.                                     *)
Rooted(r) == IF treePos = <<>> THEN r \in Listed ELSE treePos[1] = r
=============================================================================
