---------------------------- MODULE ExprFactory ----------------------------
(***************************************************************************)
(* createExpression (exprfactory.cc): the expression a Java caller built   *)
(* is translated node by node into librdag nodes.  The traversal is the    *)
(* one of execution.cc; what is under construction is kept on a stack of   *)
(* operands, as in the evaluation of reverse Polish notation.              *)
(*                                                                         *)
(* The traversal holds a JNI local reference to every Java object it is    *)
(* visiting.  It deletes the references to expressions when it is done     *)
(* with them; those to terminals have to outlive it, because the terminals *)
(* made from them (jterminals.cc) unbind their data through them.          *)
(***************************************************************************)
EXTENDS ExprTree, SequencesExt

VARIABLES tree,        \* the Java graph
          workJexprs,  \* stack of [obj, ref]: objects visited, through which reference
          argPos,      \* stack of argument positions, counted from 0
          dir,         \* direction of the traversal
          built,       \* the librdag nodes made so far
          exprStack,   \* those waiting for their operator, by index in built
          live,        \* the local references not deleted
          lastRef,     \* the reference handed out last
          outcome      \* "working", "returned" or "convert_error"

vars == <<tree, workJexprs, argPos, dir, built, exprStack, live, lastRef,
          outcome>>

(* A librdag node made from the Java object obj.  A terminal keeps the     *)
(* reference it was made through, an expression its operands.              *)
Made(obj, ref, args) == [obj |-> obj, ref |-> ref, args |-> args]

Visit(obj, ref) == [obj |-> obj, ref |-> ref]

TypeOK ==
  /\ WellFormed(tree)
  /\ lastRef \in Nat
  /\ workJexprs \in Seq([obj : Node, ref : 0..lastRef])
  /\ argPos \in Seq(Nat) /\ Len(argPos) = Len(workJexprs)
  /\ dir \in {"UP", "DOWN"}
  /\ built \in Seq([obj : Node, ref : 0..lastRef, args : Seq(1..Len(built))])
  /\ exprStack \in Seq(1..Len(built))
  /\ live \subseteq 0..lastRef
  /\ outcome \in {"working", "returned", "convert_error"}

(* The caller's own reference to the root is number 0.                     *)
Init ==
  /\ tree \in Tree
  /\ \E root \in Node : workJexprs = <<Visit(root, 0)>>
  /\ argPos = <<0>>
  /\ dir = "DOWN"
  /\ built = <<>> /\ exprStack = <<>>
  /\ live = {0}
  /\ lastRef = 0
  /\ outcome = "working"

Working    == outcome = "working" /\ workJexprs # <<>>
Current    == Last(workJexprs)
AtTerminal == tree.kind[Current.obj] \in TerminalKind
Args       == tree.args[Current.obj]
NextPos    == Last(argPos) + 1
ArgsLeft   == NextPos < Len(Args)

(* Mutant: the position of a finished object is left on its stack.          *)
PopKeepsPos == workJexprs' = Front(workJexprs) /\ argPos' = argPos

Pop == workJexprs' = Front(workJexprs) /\ argPos' = Front(argPos)

(* Going down to an argument takes a new reference to it.                  *)
Down(pos, positions) ==
  /\ lastRef' = lastRef + 1
  /\ live' = live \cup {lastRef'}
  /\ workJexprs' = Append(workJexprs, Visit(Args[pos + 1], lastRef'))
  /\ argPos' = Append(positions, 0)
  /\ dir' = "DOWN"
  /\ UNCHANGED <<tree, built, exprStack, outcome>>

Make(node, waiting) ==
  /\ built' = Append(built, node)
  /\ exprStack' = Append(waiting, Len(built'))

(* Mutant: the reference to a terminal is deleted, as those to expressions. *)
TranslateAndDelete ==
  /\ Working /\ AtTerminal
  /\ Make(Made(Current.obj, Current.ref, <<>>), exprStack)
  /\ Pop
  /\ dir' = "UP"
  /\ live' = live \ {Current.ref}
  /\ UNCHANGED <<tree, lastRef, outcome>>

TranslateTerminal ==
  /\ Working
  /\ AtTerminal
  /\ Make(Made(Current.obj, Current.ref, <<>>), exprStack)
  /\ Pop
  /\ dir' = "UP"
  /\ UNCHANGED <<tree, live, lastRef, outcome>>

DescendFirstArg == Working /\ ~AtTerminal /\ dir = "DOWN" /\ Down(0, argPos)

DescendNextArg ==
  /\ Working /\ ~AtTerminal /\ dir = "UP"
  /\ ArgsLeft
  /\ Down(NextPos, [argPos EXCEPT ![Len(argPos)] = NextPos])

(* Mutant: the operand popped first becomes the first argument.             *)
OperandsAsPopped ==
  Reverse(SubSeq(exprStack, Len(exprStack) - Len(Args) + 1, Len(exprStack)))

(* The operands come off the stack last argument first.                    *)
Operands == SubSeq(exprStack, Len(exprStack) - Len(Args) + 1, Len(exprStack))

(* Mutant: one operand is popped whatever the operator.                     *)
WithoutOne == Front(exprStack)

WithoutOperands == SubSeq(exprStack, 1, Len(exprStack) - Len(Args))

TranslateExpr ==
  /\ Working /\ ~AtTerminal /\ dir = "UP"
  /\ ~ArgsLeft
  /\ Make(Made(Current.obj, 0, Operands), WithoutOperands)
  /\ Pop
  /\ live' = live \ {Current.ref}
  /\ UNCHANGED <<tree, dir, lastRef, outcome>>

(* Mutant: a translation that failed is tried again from the root.         *)
FailsAndRetries ==
  /\ Working
  /\ workJexprs' = <<Head(workJexprs)>> /\ argPos' = <<0>> /\ dir' = "DOWN"
  /\ built' = <<>> /\ exprStack' = <<>>
  /\ live' = {0} /\ lastRef' = 0
  /\ UNCHANGED <<tree, outcome>>

(* A Java exception, an unknown type or a terminal that cannot be bound.   *)
Fails ==
  /\ Working
  /\ outcome' = "convert_error"
  /\ built' = <<>> /\ exprStack' = <<>> /\ workJexprs' = <<>> /\ argPos' = <<>>
  /\ UNCHANGED <<tree, dir, live, lastRef>>

Finish ==
  /\ outcome = "working" /\ workJexprs = <<>>
  /\ outcome' = IF Len(exprStack) = 1 THEN "returned" ELSE "convert_error"
  /\ UNCHANGED <<tree, workJexprs, argPos, dir, built, exprStack, live, lastRef>>

Next == \/ TranslateTerminal \/ DescendFirstArg \/ DescendNextArg
        \/ TranslateExpr \/ Fails \/ Finish

Spec == Init /\ [][Next]_vars /\ WF_vars(Next)

-----------------------------------------------------------------------------
Objs(indexes) == [i \in 1..Len(indexes) |-> built[indexes[i]].obj]

(***************************************************************************)
(* Every node made is the translation of its Java object: it has the same  *)
(* operands in the same order.  A swapped pair would go unnoticed by the   *)
(* types.                                                                  *)
(***************************************************************************)
Faithful ==
  \A t \in 1..Len(built) : Objs(built[t].args) = tree.args[built[t].obj]

(***************************************************************************)
(* The operands of the expressions being visited, and only those, are on   *)
(* the stack, so the operator finds its own on top (exprfactory.cc 95-98). *)
(***************************************************************************)
ArgsDone(i) == IF i = Len(workJexprs) /\ dir = "UP" THEN argPos[i] + 1 ELSE argPos[i]

OperandsOnTop ==
  Working =>
    Objs(exprStack) =
      FlattenSeq([i \in 1..Len(workJexprs) |->
                    SubSeq(tree.args[workJexprs[i].obj], 1, ArgsDone(i))])

(***************************************************************************)
(* Nothing is shared: a node is the operand of one node or waiting on the  *)
(* stack once, and never both, even where the Java graph shares.           *)
(***************************************************************************)
Uses(t)  == 1..Len(built[t].args)
Users(t) == {p \in (1..Len(built)) \X (1..2) :
               p[2] \in Uses(p[1]) /\ built[p[1]].args[p[2]] = t}
Places(t) == {i \in 1..Len(exprStack) : exprStack[i] = t}

IsForest == \A t \in 1..Len(built) : Cardinality(Users(t)) + Cardinality(Places(t)) = 1

(* Both: the nodes made are a faithful copy of the graph, as a tree.       *)
FaithfulTree == Faithful /\ IsForest

(***************************************************************************)
(* The reference a translated terminal will unbind its data through has    *)
(* not been deleted, and is nobody else's.                                 *)
(***************************************************************************)
Terminals == {t \in 1..Len(built) : built[t].args = <<>>}

BackingRefsLive ==
  /\ \A t \in Terminals : built[t].ref \in live
  /\ \A t, u \in Terminals : built[t].ref = built[u].ref => t = u

(* A translation that goes through never fails the check for one root, and *)
(* leaves no reference to an expression behind.                            *)
OneRoot ==
  /\ outcome = "working" /\ workJexprs = <<>> => Len(exprStack) = 1
  /\ outcome = "returned" => live = {built[t].ref : t \in Terminals}

(* Both: the operand stack is right on the way and in the end.             *)
StackDiscipline == OperandsOnTop /\ OneRoot

(***************************************************************************)
(* The inductive invariant behind the three.  The objects visited are a    *)
(* path down the graph along the argument positions.                       *)
(***************************************************************************)
VisitsArePath ==
  \A k \in 1..Len(workJexprs) - 1 :
    LET obj == workJexprs[k].obj
    IN  /\ tree.kind[obj] \notin TerminalKind
        /\ argPos[k] < Len(tree.args[obj])
        /\ workJexprs[k + 1].obj = tree.args[obj][argPos[k] + 1]

TopIsConsistent ==
  workJexprs # <<>> =>
    IF dir = "UP" THEN ~AtTerminal /\ Last(argPos) < Len(Args)
    ELSE Last(argPos) = 0

(* The references held are those of the objects visited and of the         *)
(* terminals made, all different.                                          *)
RefsHeld ==
  /\ outcome = "working" =>
       live = {workJexprs[k].ref : k \in 1..Len(workJexprs)}
                \cup {built[t].ref : t \in Terminals}
  /\ \A k, l \in 1..Len(workJexprs) :
       workJexprs[k].ref = workJexprs[l].ref => k = l
  /\ \A k \in 1..Len(workJexprs) : \A t \in Terminals :
       workJexprs[k].ref # built[t].ref

(* Every node made waits on the stack or has been used, nothing twice.     *)
Owned ==
  /\ \A k, l \in 1..Len(exprStack) : exprStack[k] = exprStack[l] => k = l
  /\ \A u \in 1..Len(built) : \A a \in Uses(u) : \A k \in 1..Len(exprStack) :
       built[u].args[a] # exprStack[k]
  /\ \A u, v \in 1..Len(built) : \A a \in Uses(u) : \A b \in Uses(v) :
       built[u].args[a] = built[v].args[b] => u = v /\ a = b
  /\ \A t \in 1..Len(built) :
       \/ \E k \in 1..Len(exprStack) : exprStack[k] = t
       \/ \E u \in 1..Len(built) : \E a \in Uses(u) : built[u].args[a] = t

FactoryInv ==
  /\ TypeOK /\ VisitsArePath /\ TopIsConsistent /\ RefsHeld /\ Owned
  /\ outcome # "working" => workJexprs = <<>>

(* Every translation ends.                                                 *)
Ends == <>(outcome # "working")
=============================================================================
