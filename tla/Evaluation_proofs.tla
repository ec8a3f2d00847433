------------------------- MODULE Evaluation_proofs -------------------------
(***************************************************************************)
(* Proofs about Evaluation, for every set of nodes, every set of           *)
(* well-formed graphs over them (shared nodes, any depth), every runner    *)
(* and any number of calls.                                                *)
(***************************************************************************)
EXTENDS Evaluation, SequenceTheorems, TLAPS

(***************************************************************************)
(* Facts about the stacks, stated once over any set.                       *)
(***************************************************************************)
LEMMA FrontFacts ==
  ASSUME NEW S, NEW s \in Seq(S), s # <<>>
  PROVE  /\ Front(s) \in Seq(S)
         /\ Len(s) \in Nat \ {0}
         /\ Len(Front(s)) = Len(s) - 1
         /\ \A i \in 1..(Len(s) - 1) : Front(s)[i] = s[i]
<1>1. Len(s) \in Nat \ {0}
  BY EmptySeq
<1>2. \A i \in 1..(Len(s) - 1) : s[i] \in S
  BY <1>1, ElementOfSeq
<1> DEFINE m == Len(s) - 1
<1>3. m \in Int /\ 1 \in Int /\ m - 1 + 1 = m
  BY <1>1
<1>4. /\ SubSeq(s, 1, m) \in Seq(S)
      /\ Len(SubSeq(s, 1, m)) = IF 1 <= m THEN m - 1 + 1 ELSE 0
      /\ \A i \in 1..(m - 1 + 1) : SubSeq(s, 1, m)[i] = s[1 + i - 1]
  <2> HIDE DEF m
  <2>1. \A i \in 1..m : s[i] \in S
    BY <1>2 DEF m
  <2>2. QED
    BY <1>3, <2>1, SubSeqProperties
<1>5. QED
  BY <1>1, <1>3, <1>4 DEF Front

(***************************************************************************)
(* Nodes are either terminals, without arguments, or expressions, with one *)
(* or two.                                                                 *)
(***************************************************************************)
LEMMA NodeFacts ==
  ASSUME WellFormed(tree), NEW n \in Node
  PROVE  /\ Args(n) \in Seq(Node)
         /\ tree.kind[n] \in Kind
         /\ IsTerminal(n) => Len(Args(n)) = 0
         /\ ~IsTerminal(n) => IsExpr(n) /\ Len(Args(n)) \in 1..2
<1>1. /\ tree.args[n] \in Seq(Node)
      /\ tree.kind[n] \in Kind
      /\ Len(tree.args[n]) = NArgs(tree.kind[n])
  BY DEF WellFormed, TreeShape
<1>2. IsTerminal(n) => NArgs(tree.kind[n]) = 0
  BY DEF IsTerminal, NArgs
<1>3. ~IsTerminal(n) => IsExpr(n)
  BY <1>1 DEF IsTerminal, IsExpr, Kind
<1>4. ASSUME IsExpr(n) PROVE NArgs(tree.kind[n]) \in 1..2
  BY <1>4 DEF IsExpr, NArgs, TerminalKind, ExprKind, UnaryKind
<1>5. QED
  BY <1>1, <1>2, <1>3, <1>4 DEF Args

(***************************************************************************)
(* What the two kinds of step do to the stacks and the list.               *)
(***************************************************************************)
LEMMA CurrentFacts ==
  ASSUME ListTypeOK, treePos # <<>>
  PROVE  /\ Len(treePos) \in Nat \ {0}
         /\ Len(argPos) = Len(treePos)
         /\ argPos # <<>>
         /\ Current \in Node
         /\ argPos[Len(treePos)] \in Nat
<1>1. Len(treePos) \in Nat \ {0} /\ Len(argPos) = Len(treePos)
  BY EmptySeq DEF ListTypeOK
<1>2. argPos # <<>>
  BY <1>1, EmptySeq DEF ListTypeOK
<1>3. QED
  BY <1>1, <1>2, ElementOfSeq DEF ListTypeOK, Current

LEMMA PopStep ==
  ASSUME ListTypeOK, treePos # <<>>, PopBoth, Emit, UNCHANGED tree,
         dir' \in {"UP", "DOWN"}
  PROVE  /\ ListTypeOK'
         /\ Len(treePos') = Len(treePos) - 1
         /\ \A i \in 1..Len(treePos') : treePos'[i] = treePos[i]
         /\ \A i \in 1..Len(treePos') : argPos'[i] = argPos[i]
         /\ Len(execList') = Len(execList) + 1
         /\ execList'[Len(execList) + 1] = Current
         /\ \A i \in 1..Len(execList) : execList'[i] = execList[i]
         /\ Listed' = Listed \cup {Current}
<1>1. /\ treePos \in Seq(Node) /\ argPos \in Seq(Nat) /\ execList \in Seq(Node)
      /\ Len(argPos) = Len(treePos)
      /\ WellFormed(tree)
  BY DEF ListTypeOK
<1>2. /\ treePos' \in Seq(Node)
      /\ Len(treePos') = Len(treePos) - 1
      /\ \A i \in 1..(Len(treePos) - 1) : treePos'[i] = treePos[i]
  BY <1>1, FrontFacts DEF PopBoth
<1>3. /\ argPos' \in Seq(Nat)
      /\ Len(argPos') = Len(argPos) - 1
      /\ \A i \in 1..(Len(argPos) - 1) : argPos'[i] = argPos[i]
  BY <1>1, FrontFacts, CurrentFacts DEF PopBoth
<1>4. /\ execList' \in Seq(Node)
      /\ Len(execList') = Len(execList) + 1
      /\ execList'[Len(execList) + 1] = Current
      /\ \A i \in 1..Len(execList) : execList'[i] = execList[i]
  BY <1>1, CurrentFacts, AppendProperties DEF Emit
<1>5. Listed' = Listed \cup {Current}
  <2>1. Len(execList) \in Nat
    BY <1>1, LenProperties
  <2>2. ASSUME NEW x \in Listed' PROVE x \in Listed \cup {Current}
    <3>1. PICK i \in 1..(Len(execList) + 1) : x = execList'[i]
      BY <1>4, <2>2 DEF Listed
    <3>2. CASE i \in 1..Len(execList)
      BY <1>4, <3>1, <3>2 DEF Listed
    <3>3. CASE i = Len(execList) + 1
      BY <1>4, <3>1, <3>3
    <3>4. QED
      BY <2>1, <3>2, <3>3
  <2>3. ASSUME NEW i \in 1..Len(execList) PROVE execList[i] \in Listed'
    BY <1>4, <2>1, <2>3 DEF Listed
  <2>4. Current \in Listed'
    BY <1>4, <2>1 DEF Listed
  <2>5. QED
    BY <2>2, <2>3, <2>4 DEF Listed
<1>6. ListTypeOK'
  BY <1>1, <1>2, <1>3, <1>4 DEF ListTypeOK
<1>7. QED
  BY <1>1, <1>2, <1>3, <1>4, <1>5, <1>6

(***************************************************************************)
(* The stack invariant and the order of the list survive every iteration   *)
(* of the loop.                                                            *)
(***************************************************************************)
LEMMA PopKeepsStack ==
  ASSUME ListTypeOK, StackInv, InputsFirst, NEW r \in Node, Rooted(r),
         treePos # <<>>, PopBoth, Emit, UNCHANGED tree, dir' = "UP",
         \A a \in 1..Len(Args(Current)) : Args(Current)[a] \in Listed
  PROVE  /\ ListTypeOK'
         /\ StackInv'
         /\ InputsFirst'
         /\ Rooted(r)'
<1> DEFINE len == Len(treePos)
<1>1. /\ ListTypeOK'
      /\ Len(treePos') = len - 1
      /\ \A i \in 1..Len(treePos') : treePos'[i] = treePos[i]
      /\ \A i \in 1..Len(treePos') : argPos'[i] = argPos[i]
      /\ Len(execList') = Len(execList) + 1
      /\ execList'[Len(execList) + 1] = Current
      /\ \A i \in 1..Len(execList) : execList'[i] = execList[i]
      /\ Listed' = Listed \cup {Current}
  BY PopStep
<1>2. len \in Nat \ {0}
  BY CurrentFacts
<1>3. \A n : Args(n)' = Args(n) /\ IsTerminal(n)' = IsTerminal(n)
  BY DEF Args, IsTerminal
<1>4. IsPath'
  <2>1. SUFFICES ASSUME NEW i \in 1..(len - 2)
                 PROVE  /\ ~IsTerminal(treePos'[i])
                        /\ argPos'[i] < Len(Args(treePos'[i]))
                        /\ treePos'[i + 1] = Pointed(i)'
    BY <1>1, <1>2, <1>3 DEF IsPath
  <2>2. /\ i \in 1..(len - 1) /\ i \in 1..Len(treePos') /\ i + 1 \in 1..Len(treePos')
    BY <1>1, <1>2
  <2>3. /\ treePos'[i] = treePos[i] /\ treePos'[i + 1] = treePos[i + 1]
        /\ argPos'[i] = argPos[i]
    BY <1>1, <2>2
  <2>4. Pointed(i)' = Pointed(i)
    BY <2>3 DEF Pointed, Args
  <2>5. QED
    BY <2>2, <2>3, <2>4 DEF StackInv, IsPath
<1>5. LeftIsListed'
  <2>1. SUFFICES ASSUME NEW i \in 1..(len - 1), NEW a \in 1..(argPos'[i])
                 PROVE  /\ a <= Len(Args(treePos'[i]))
                        /\ Args(treePos'[i])[a] \in Listed'
    BY <1>1, <1>3 DEF LeftIsListed
  <2>2. i \in 1..Len(treePos') /\ i \in 1..len
    BY <1>1, <1>2
  <2>3. treePos'[i] = treePos[i] /\ argPos'[i] = argPos[i]
    BY <1>1, <2>2
  <2>4. a <= Len(Args(treePos[i])) /\ Args(treePos[i])[a] \in Listed
    BY <2>2, <2>3 DEF StackInv, LeftIsListed
  <2>5. QED
    BY <1>1, <2>3, <2>4
<1>6. TopIsConsistent'
  <2>1. SUFFICES ASSUME treePos' # <<>>
                 PROVE  /\ ~IsTerminal(Current)'
                        /\ (argPos[Len(treePos)] < Len(Args(Current)))'
                        /\ Pointed(Len(treePos))' \in Listed'
    BY DEF TopIsConsistent
  <2>2. len - 1 \in 1..(len - 1)
    BY <1>1, <1>2, <2>1, EmptySeq DEF ListTypeOK
  <2>3. Current' = treePos[len - 1] /\ argPos'[Len(treePos')] = argPos[len - 1]
    BY <1>1, <2>2 DEF Current
  <2>4. /\ ~IsTerminal(treePos[len - 1])
        /\ argPos[len - 1] < Len(Args(treePos[len - 1]))
        /\ treePos[len - 1 + 1] = Pointed(len - 1)
    BY <2>2 DEF StackInv, IsPath
  <2>5. Pointed(Len(treePos))' = Current
    BY <1>1, <1>2, <2>2, <2>3, <2>4 DEF Pointed, Args, Current
  <2>6. QED
    BY <1>1, <2>3, <2>4, <2>5 DEF IsTerminal, Args
<1>7. InputsFirst'
  <2>1. execList \in Seq(Node) /\ Len(execList) \in Nat
    BY DEF ListTypeOK
  <2>2. ASSUME NEW i \in 1..Len(execList), NEW a \in 1..Len(Args(execList[i]))
        PROVE  \E j \in 1..(i - 1) : execList'[j] = Args(execList[i])[a]
    <3>1. PICK j \in 1..(i - 1) : execList[j] = Args(execList[i])[a]
      BY DEF InputsFirst
    <3>2. j \in 1..Len(execList)
      BY <2>1
    <3>3. QED
      BY <1>1, <3>1, <3>2
  <2>3. ASSUME NEW a \in 1..Len(Args(Current))
        PROVE  \E j \in 1..Len(execList) : execList'[j] = Args(Current)[a]
    BY <1>1, <2>1, <2>3 DEF Listed
  <2>4. ASSUME NEW i \in 1..Len(execList'), NEW a \in 1..Len(Args(execList'[i]))
        PROVE  \E j \in 1..(i - 1) : execList'[j] = Args(execList'[i])[a]
    <3>1. CASE i \in 1..Len(execList)
      <4>1. execList'[i] = execList[i]
        BY <1>1, <3>1
      <4>2. a \in 1..Len(Args(execList[i]))
        BY <4>1
      <4>3. QED
        BY <2>2, <3>1, <4>1, <4>2
    <3>2. CASE i = Len(execList) + 1
      BY <3>2, <1>1, <2>1, <2>3
    <3>3. QED
      BY <1>1, <2>1, <3>1, <3>2
  <2>5. QED
    BY <1>3, <2>4 DEF InputsFirst
<1>8. Rooted(r)'
  <2>1. CASE len = 1
    <3>1. treePos' = <<>>
      BY <1>1, <2>1, EmptySeq DEF ListTypeOK
    <3>2. Current = r
      BY <2>1 DEF Rooted, Current
    <3>3. QED
      BY <1>1, <3>1, <3>2 DEF Rooted
  <2>2. CASE len > 1
    <3>1. 1 \in 1..Len(treePos') /\ Len(treePos') # 0
      BY <1>1, <1>2, <2>2
    <3>2. treePos' # <<>> /\ treePos'[1] = treePos[1]
      BY <1>1, <3>1, EmptySeq
    <3>3. QED
      BY <3>2 DEF Rooted
  <2>3. QED
    BY <1>2, <2>1, <2>2
<1>9. QED
  BY <1>1, <1>4, <1>5, <1>6, <1>7, <1>8 DEF StackInv

(* Going down: the argument the top frame now points at becomes the top.   *)
LEMMA PushKeepsStack ==
  ASSUME ListTypeOK, StackInv, InputsFirst, NEW r \in Node, Rooted(r),
         treePos # <<>>, ~IsTerminal(Current), NEW pos \in Nat,
         NEW moved \in Seq(Nat), Len(moved) = Len(argPos),
         \A i \in 1..(Len(argPos) - 1) : moved[i] = argPos[i],
         moved[Len(argPos)] = pos,
         pos < Len(Args(Current)),
         \A a \in 1..pos : Args(Current)[a] \in Listed,
         treePos' = Append(treePos, Args(Current)[pos + 1]),
         argPos' = Append(moved, 0),
         dir' = "DOWN", UNCHANGED <<tree, execList>>
  PROVE  /\ ListTypeOK'
         /\ StackInv'
         /\ InputsFirst'
         /\ Rooted(r)'
<1> DEFINE len == Len(treePos)
<1>1. /\ len \in Nat \ {0} /\ Len(argPos) = len /\ Current \in Node
      /\ treePos \in Seq(Node) /\ WellFormed(tree) /\ execList \in Seq(Node)
  BY CurrentFacts DEF ListTypeOK
<1>2. Args(Current)[pos + 1] \in Node
  BY <1>1, NodeFacts, ElementOfSeq
<1>3. /\ treePos' \in Seq(Node)
      /\ treePos' # <<>>
      /\ Len(treePos') = len + 1
      /\ \A i \in 1..len : treePos'[i] = treePos[i]
      /\ treePos'[len + 1] = Args(Current)[pos + 1]
  BY <1>1, <1>2, AppendProperties
<1>4. /\ argPos' \in Seq(Nat)
      /\ Len(argPos') = len + 1
      /\ \A i \in 1..len : argPos'[i] = moved[i]
      /\ argPos'[len + 1] = 0
  BY <1>1, AppendProperties
<1>5. ListTypeOK'
  BY <1>1, <1>3, <1>4 DEF ListTypeOK
<1>6. \A n : Args(n)' = Args(n) /\ IsTerminal(n)' = IsTerminal(n)
  BY DEF Args, IsTerminal
<1>7. Listed' = Listed
  BY DEF Listed
<1>8. treePos'[len] = Current /\ argPos'[len] = pos
  BY <1>1, <1>3, <1>4 DEF Current
<1>9. ASSUME NEW i \in 1..(len - 1)
      PROVE  treePos'[i] = treePos[i] /\ argPos'[i] = argPos[i]
  BY <1>1, <1>3, <1>4
<1>10. IsPath'
  <2>1. SUFFICES ASSUME NEW i \in 1..len
                 PROVE  /\ ~IsTerminal(treePos'[i])
                        /\ argPos'[i] < Len(Args(treePos'[i]))
                        /\ treePos'[i + 1] = Args(treePos'[i])[argPos'[i] + 1]
    BY <1>1, <1>3, <1>6 DEF IsPath, Pointed
  <2>2. CASE i = len
    BY <2>2, <1>3, <1>8
  <2>3. CASE i \in 1..(len - 1)
    <3>1. treePos'[i + 1] = treePos[i + 1]
      BY <1>1, <1>3, <2>3
    <3>2. treePos'[i] = treePos[i] /\ argPos'[i] = argPos[i]
      BY <1>9, <2>3
    <3>3. QED
      BY <2>3, <3>1, <3>2 DEF StackInv, IsPath, Pointed
  <2>4. QED
    BY <1>1, <2>2, <2>3
<1>11. LeftIsListed'
  <2>1. SUFFICES ASSUME NEW i \in 1..(len + 1), NEW a \in 1..(argPos'[i])
                 PROVE  /\ a <= Len(Args(treePos'[i]))
                        /\ Args(treePos'[i])[a] \in Listed
    BY <1>3, <1>6, <1>7 DEF LeftIsListed
  <2>2. CASE i = len + 1
    BY <2>2, <1>4
  <2>3. CASE i = len
    <3>1. a \in 1..pos
      BY <2>3, <1>8
    <3>2. Len(Args(Current)) \in Nat
      BY <1>1, NodeFacts, LenProperties
    <3>3. QED
      BY <2>3, <3>1, <3>2, <1>8
  <2>4. CASE i \in 1..(len - 1)
    <3>1. treePos'[i] = treePos[i] /\ argPos'[i] = argPos[i]
      BY <1>9, <2>4
    <3>2. i \in 1..Len(treePos) /\ a \in 1..argPos[i]
      BY <1>1, <2>4, <3>1
    <3>3. QED
      BY <3>1, <3>2 DEF StackInv, LeftIsListed
  <2>5. QED
    BY <1>1, <2>2, <2>3, <2>4
<1>12. TopIsConsistent'
  BY <1>3, <1>4 DEF TopIsConsistent
<1>13. InputsFirst'
  BY <1>6 DEF InputsFirst
<1>14. Rooted(r)'
  BY <1>1, <1>3 DEF Rooted
<1>15. QED
  BY <1>5, <1>10, <1>11, <1>12, <1>13, <1>14 DEF StackInv

LEMMA LineariseKeepsOrder ==
  ASSUME ListTypeOK, StackInv, InputsFirst, NEW r \in Node, Rooted(r),
         Linearise, UNCHANGED tree
  PROVE  /\ ListTypeOK'
         /\ StackInv'
         /\ InputsFirst'
         /\ Rooted(r)'
<1>1. treePos # <<>>
  BY DEF Linearise, ListTerminal, DescendFirstArg, DescendNextArg, ListExpr
<1> DEFINE len == Len(treePos)
           pos == argPos[len]
<1>2. /\ len \in Nat \ {0} /\ Len(argPos) = len /\ Current \in Node /\ pos \in Nat
      /\ argPos \in Seq(Nat)
      /\ Args(Current) \in Seq(Node)
      /\ Len(Args(Current)) \in Nat
      /\ IsTerminal(Current) => Len(Args(Current)) = 0
      /\ ~IsTerminal(Current) => Len(Args(Current)) \in 1..2
  BY <1>1, CurrentFacts, NodeFacts, LenProperties DEF ListTypeOK
<1>3. \A a \in 1..pos : Args(Current)[a] \in Listed
  BY <1>2 DEF StackInv, LeftIsListed, Current
<1>4. CASE ListTerminal
  <2>1. \A a \in 1..Len(Args(Current)) : Args(Current)[a] \in Listed
    BY <1>2, <1>4 DEF ListTerminal
  <2>2. QED
    BY <1>1, <1>4, <2>1, PopKeepsStack DEF ListTerminal
<1>5. CASE DescendFirstArg
  <2>1. pos = 0
    BY <1>1, <1>5 DEF DescendFirstArg, StackInv, TopIsConsistent
  <2>2. /\ treePos' = Append(treePos, Args(Current)[pos + 1])
        /\ argPos' = Append(argPos, 0)
        /\ dir' = "DOWN" /\ execList' = execList /\ ~IsTerminal(Current)
    BY <1>5, <2>1 DEF DescendFirstArg, Push
  <2>3. pos < Len(Args(Current))
    BY <1>2, <2>1, <2>2
  <2>4. QED
    BY <1>1, <1>2, <1>3, <2>2, <2>3, PushKeepsStack
<1>6. ASSUME dir = "UP"
      PROVE  \A a \in 1..(pos + 1) : Args(Current)[a] \in Listed
  <2>1. Args(Current)[pos + 1] \in Listed
    BY <1>1, <1>6 DEF StackInv, TopIsConsistent, Pointed, Current
  <2>2. QED
    BY <1>2, <1>3, <2>1
<1>7. CASE DescendNextArg
  <2> DEFINE moved == [argPos EXCEPT ![len] = pos + 1]
  <2>1. /\ moved \in Seq(Nat)
        /\ Len(moved) = len
        /\ \A i \in 1..len : moved[i] = IF i = len THEN pos + 1 ELSE argPos[i]
    BY <1>2, ExceptSeq
  <2>2. NextPos = pos + 1
    BY <1>2 DEF NextPos
  <2>3. /\ treePos' = Append(treePos, Args(Current)[pos + 1 + 1])
        /\ argPos' = Append(moved, 0)
        /\ dir' = "DOWN" /\ execList' = execList /\ ~IsTerminal(Current)
        /\ pos + 1 < Len(Args(Current))
    BY <1>2, <1>7, <2>2 DEF DescendNextArg, ArgsLeft
  <2>4. \A a \in 1..(pos + 1) : Args(Current)[a] \in Listed
    BY <1>6, <1>7 DEF DescendNextArg
  <2>5. \A i \in 1..(len - 1) : moved[i] = argPos[i]
    BY <1>2, <2>1
  <2>6. moved[len] = pos + 1 /\ pos + 1 \in Nat
    BY <1>2, <2>1
  <2> HIDE DEF moved
  <2>7. QED
    BY <1>1, <1>2, <2>1, <2>3, <2>4, <2>5, <2>6, PushKeepsStack
<1>8. CASE ListExpr
  <2>1. \A a \in 1..Len(Args(Current)) : Args(Current)[a] \in Listed
    BY <1>2, <1>6, <1>8 DEF ListExpr, ArgsLeft, NextPos
  <2>2. QED
    BY <1>1, <1>8, <2>1, PopKeepsStack DEF ListExpr
<1>9. QED
  BY <1>4, <1>5, <1>7, <1>8 DEF Linearise

-----------------------------------------------------------------------------
(***************************************************************************)
(* The reads of the dispatcher.                                            *)
(***************************************************************************)
LEMMA OperandsReady ==
  ASSUME EvalInv, Dispatching, NEW a \in 1..Len(Args(Dispatched))
  PROVE  HasOperand(Args(Dispatched)[a])
<1>1. next \in 1..Len(execList)
  BY DEF EvalInv, TypeOK, ListTypeOK, Dispatching
<1>2. PICK j \in 1..(next - 1) : execList[j] = Args(execList[next])[a]
  BY <1>1 DEF EvalInv, InputsFirst, Dispatched
<1>3. HasOperand(execList[j])
  BY DEF EvalInv, PassedAreReady, Dispatching
<1>4. QED
  BY <1>2, <1>3 DEF Dispatched

LEMMA DispatchedFacts ==
  ASSUME EvalInv, Dispatching
  PROVE  /\ next \in 1..Len(execList)
         /\ Dispatched \in Node
         /\ Args(Dispatched) \in Seq(Node)
         /\ Len(Args(Dispatched)) = NArgs(tree.kind[Dispatched])
<1>1. next \in 1..Len(execList) /\ execList \in Seq(Node) /\ WellFormed(tree)
  BY DEF EvalInv, TypeOK, ListTypeOK, Dispatching
<1>2. Dispatched \in Node
  BY <1>1, ElementOfSeq DEF Dispatched
<1>3. QED
  BY <1>1, <1>2, NodeFacts DEF WellFormed, Args

LEMMA SelectReady ==
  ASSUME EvalInv, Dispatching, tree.kind[Dispatched] = "SELECTRESULT"
  PROVE  /\ Args(Dispatched)[1] \in Node
         /\ Selected(Dispatched) \in 1..Len(regs[Args(Dispatched)[1]])
<1> DEFINE from == Args(Dispatched)[1]
           idx  == tree.index[Args(Dispatched)[2]]
<1>1. /\ Dispatched \in Node /\ WellFormed(tree)
      /\ Args(Dispatched) \in Seq(Node) /\ Len(Args(Dispatched)) = 2
  BY DispatchedFacts DEF EvalInv, TypeOK, ListTypeOK, NArgs, TerminalKind
<1>2. from \in Node /\ Args(Dispatched)[2] \in Node
  <2>1. \A i \in 1..2 : Args(Dispatched)[i] \in Node
    BY <1>1, ElementOfSeq
  <2>2. QED
    BY <2>1
<1>3. /\ tree.kind[from] \in ExprKind
      /\ idx < NResults(tree.kind[from])
      /\ idx \in Nat
  BY <1>1, <1>2 DEF WellFormed, TreeShape, Args
<1>4. HasOperand(from)
  BY <1>1, OperandsReady
<1>5. regs[from] # <<>>
  BY <1>3, <1>4 DEF HasOperand, IsTerminal, ExprKind, UnaryKind, TerminalKind
<1>6. Len(regs[from]) >= NResults(tree.kind[from]) /\ Len(regs[from]) \in Nat
  BY <1>2, <1>5, LenProperties DEF EvalInv, WholeBlocks, TypeOK
<1>7. NResults(tree.kind[from]) \in Nat
  BY DEF NResults
<1>8. QED
  BY <1>2, <1>3, <1>6, <1>7 DEF Selected

LEMMA RootReady ==
  ASSUME EvalInv, phase = "dispatch", next > Len(execList), mode = "entrypt"
  PROVE  regs[root] # <<>>
<1>1. root \in Listed /\ IsExpr(root)
  BY DEF EvalInv, Rooted
<1>2. PICK j \in 1..Len(execList) : execList[j] = root
  BY <1>1 DEF Listed
<1>3. j \in 1..(next - 1)
  BY <1>2, LenProperties DEF EvalInv, TypeOK, ListTypeOK
<1>4. HasOperand(root)
  BY <1>2, <1>3 DEF EvalInv, PassedAreReady
<1>5. QED
  BY <1>1, <1>4 DEF HasOperand, IsTerminal, IsExpr, ExprKind, UnaryKind,
                    TerminalKind

LEMMA InvImpliesReads == EvalInv => ReadsAreDefined
<1> SUFFICES ASSUME EvalInv PROVE ReadsAreDefined
  OBVIOUS
<1>1. ASSUME Dispatching, tree.kind[Dispatched] = "SELECTRESULT"
      PROVE  Selected(Dispatched) <= Len(regs[Args(Dispatched)[1]])
  BY <1>1, SelectReady
<1>2. QED
  BY <1>1, OperandsReady, RootReady DEF ReadsAreDefined

(***************************************************************************)
(* What the dispatched node pushes.                                        *)
(***************************************************************************)
LEMMA RunnerPushes ==
  ASSUME EvalInv, Dispatching, tree.kind[Dispatched] \in RunnerKind
  PROVE  /\ Results(tree.kind[Dispatched], Operands(Dispatched)) \in Seq(Value)
         /\ Len(Results(tree.kind[Dispatched], Operands(Dispatched)))
               >= NResults(tree.kind[Dispatched])
<1>1. ASSUME NEW a \in 1..Len(Args(Dispatched))
      PROVE  Operand(Args(Dispatched)[a]) \in Value
  <2>1. Args(Dispatched)[a] \in Node
    BY DispatchedFacts, ElementOfSeq
  <2>2. HasOperand(Args(Dispatched)[a])
    BY OperandsReady
  <2>3. CASE IsTerminal(Args(Dispatched)[a])
    BY <2>1, <2>3, ValueAssumption DEF Operand
  <2>4. CASE regs[Args(Dispatched)[a]] # <<>> /\ ~IsTerminal(Args(Dispatched)[a])
    BY <2>1, <2>4, EmptySeq, ElementOfSeq DEF Operand, EvalInv, TypeOK
  <2>5. QED
    BY <2>2, <2>3, <2>4 DEF HasOperand
<1>2. Operands(Dispatched) \in [1..NArgs(tree.kind[Dispatched]) -> Value]
  BY <1>1, DispatchedFacts DEF Operands
<1>3. QED
  BY <1>2, ResultsAssumption

LEMMA RanKeepsInv ==
  ASSUME EvalInv, Dispatching, NEW pushed \in Seq(Value),
         Len(pushed) >= NResults(tree.kind[Dispatched]), Ran(pushed)
  PROVE  EvalInv'
<1>1. /\ next \in 1..Len(execList) /\ Dispatched \in Node
      /\ regs \in [Node -> Seq(Value)]
      /\ execList \in Seq(Node) /\ phase = "dispatch"
  BY DispatchedFacts DEF EvalInv, TypeOK, ListTypeOK, Dispatching
<1>2. /\ next' = next + 1
      /\ regs' = [regs EXCEPT ![Dispatched] = regs[Dispatched] \o pushed]
      /\ UNCHANGED <<tree, treePos, argPos, dir, execList, phase, mode, root,
                     status, result, calls>>
  BY DEF Ran, listVars
<1>3. /\ regs[Dispatched] \o pushed \in Seq(Value)
      /\ Len(regs[Dispatched] \o pushed) = Len(regs[Dispatched]) + Len(pushed)
      /\ Len(regs[Dispatched]) \in Nat /\ Len(pushed) \in Nat
  BY <1>1, ConcatProperties, LenProperties
<1>4. NResults(tree.kind[Dispatched]) \in Nat \ {0}
  BY DEF NResults
<1>5. regs[Dispatched] \o pushed # <<>>
  BY <1>3, <1>4, EmptySeq
<1>6. TypeOK'
  BY <1>1, <1>2, <1>3 DEF EvalInv, TypeOK, ListTypeOK
<1>7. /\ StackInv' /\ InputsFirst' /\ Rooted(root)'
      /\ (mode = "entrypt" => IsExpr(root))' /\ (treePos = <<>>)'
  BY <1>1, <1>2 DEF EvalInv, StackInv, IsPath, LeftIsListed, TopIsConsistent,
                    InputsFirst, Rooted, Pointed, Listed, Current, Args,
                    IsTerminal, IsExpr
<1>8. PassedAreReady'
  <2>1. SUFFICES ASSUME NEW j \in 1..next PROVE HasOperand(execList[j])'
    BY <1>1, <1>2 DEF PassedAreReady
  <2>2. execList[j] \in Node
    BY <1>1, ElementOfSeq
  <2>3. CASE j = next
    BY <1>1, <1>2, <1>5, <2>3 DEF HasOperand, Dispatched
  <2>4. CASE j \in 1..(next - 1)
    <3>1. HasOperand(execList[j])
      BY <1>1, <2>4 DEF EvalInv, PassedAreReady
    <3>2. CASE IsTerminal(execList[j])
      BY <1>2, <3>2 DEF HasOperand, IsTerminal
    <3>3. CASE regs[execList[j]] # <<>>
      BY <1>1, <1>2, <1>5, <2>2, <3>3 DEF HasOperand
    <3>4. QED
      BY <3>1, <3>2, <3>3 DEF HasOperand
  <2>5. QED
    BY <1>1, <2>3, <2>4
<1>9. WholeBlocks'
  <2>1. SUFFICES ASSUME NEW n \in Node, regs'[n] # <<>>
                 PROVE  Len(regs'[n]) >= NResults(tree.kind[n])
    BY <1>2 DEF WholeBlocks
  <2>2. CASE n = Dispatched
    BY <1>1, <1>2, <1>3, <1>4, <2>2
  <2>3. CASE n # Dispatched
    BY <1>1, <1>2, <2>1, <2>3 DEF EvalInv, WholeBlocks
  <2>4. QED
    BY <2>2, <2>3
<1>10. QED
  BY <1>6, <1>7, <1>8, <1>9 DEF EvalInv

-----------------------------------------------------------------------------
LEMMA InitInv == Init => EvalInv
<1> SUFFICES ASSUME Init PROVE EvalInv
  OBVIOUS
<1>1. /\ treePos = <<>> /\ argPos = <<>> /\ execList = <<>> /\ dir = "DOWN"
      /\ phase = "idle" /\ WellFormed(tree)
      /\ regs \in [Node -> Seq(Value)] /\ \A n \in Node : regs[n] = <<>>
  BY TreeAssumption, EmptySeq DEF Init, EmptyList
<1>2. Len(treePos) = 0 /\ Len(argPos) = 0 /\ Len(execList) = 0
  BY <1>1
<1>3. TypeOK
  BY <1>1, <1>2, ValueAssumption, EmptySeq DEF Init, TypeOK, ListTypeOK
<1>4. StackInv /\ InputsFirst
  BY <1>1, <1>2 DEF StackInv, IsPath, LeftIsListed, TopIsConsistent, InputsFirst
<1>5. QED
  BY <1>1, <1>3, <1>4 DEF EvalInv, PassedAreReady, WholeBlocks

LEMMA CallKeepsInv ==
  ASSUME EvalInv, NEW m \in {"entrypt", "runtree"}, NEW r \in Node, Call(m, r)
  PROVE  EvalInv'
<1>1. /\ treePos' = <<r>> /\ argPos' = <<0>> /\ dir' = "DOWN" /\ execList' = <<>>
      /\ phase' = "list" /\ mode' = m /\ root' = r /\ (m = "entrypt" => IsExpr(r))
      /\ calls' = calls + 1 /\ calls < MaxCalls
      /\ status' = "none" /\ result' = NoValue
      /\ UNCHANGED <<tree, next, regs>>
  BY DEF Call, StartList
<1>2. /\ Len(treePos') = 1 /\ treePos'[1] = r /\ Len(argPos') = 1
      /\ argPos'[1] = 0 /\ treePos' # <<>> /\ Len(execList') = 0
      /\ treePos' \in Seq(Node) /\ argPos' \in Seq(Nat) /\ execList' \in Seq(Node)
  BY <1>1
<1>3. TypeOK'
  BY <1>1, <1>2, ValueAssumption DEF EvalInv, TypeOK, ListTypeOK
<1>4. StackInv' /\ InputsFirst' /\ Rooted(root)'
  BY <1>1, <1>2 DEF StackInv, IsPath, LeftIsListed, TopIsConsistent,
                    InputsFirst, Rooted
<1>5. WholeBlocks' /\ PassedAreReady' /\ (mode = "entrypt" => IsExpr(root))'
  BY <1>1 DEF EvalInv, WholeBlocks, PassedAreReady, IsExpr
<1>6. QED
  BY <1>1, <1>3, <1>4, <1>5 DEF EvalInv

(* A step that leaves the stacks, the list and the registers alone.        *)
LEMMA FrameKeepsInv ==
  ASSUME EvalInv, TypeOK', UNCHANGED <<tree, listVars, regs>>,
         \/ phase' = "idle"
         \/ /\ UNCHANGED <<root, mode>>
            /\ phase # "idle"
            /\ phase' = "dispatch"
            /\ treePos = <<>>
            /\ PassedAreReady'
  PROVE  EvalInv'
<1>1. UNCHANGED <<tree, treePos, argPos, dir, execList, regs>>
  BY DEF listVars
<1>2. StackInv' /\ InputsFirst' /\ WholeBlocks'
  BY <1>1 DEF EvalInv, StackInv, IsPath, LeftIsListed, TopIsConsistent,
              InputsFirst, WholeBlocks, Pointed, Listed, Current, Args, IsTerminal
<1>3. CASE phase' = "idle"
  BY <1>2, <1>3 DEF EvalInv, PassedAreReady
<1>4. CASE /\ UNCHANGED <<root, mode>> /\ phase # "idle"
           /\ phase' = "dispatch" /\ treePos = <<>> /\ PassedAreReady'
  BY <1>1, <1>2, <1>4 DEF EvalInv, Rooted, Listed, IsExpr
<1>5. QED
  BY <1>3, <1>4

LEMMA NextKeepsInv == EvalInv /\ [Next]_vars => EvalInv'
<1> SUFFICES ASSUME EvalInv, [Next]_vars PROVE EvalInv'
  OBVIOUS
<1>1. TypeOK /\ ListTypeOK /\ root \in Node
  BY DEF EvalInv, TypeOK
<1>2. ASSUME NEW m \in {"entrypt", "runtree"}, NEW r \in Node, Call(m, r)
      PROVE  EvalInv'
  BY <1>2, CallKeepsInv
<1>3. ASSUME NEW r \in Node, CallOnTerminal(r)
      PROVE  EvalInv'
  <2>1. TypeOK'
    BY <1>1, <1>3, ValueAssumption DEF CallOnTerminal, TypeOK, ListTypeOK, listVars
  <2>2. QED
    BY <1>3, <2>1, FrameKeepsInv DEF CallOnTerminal
<1>4. CASE BuildList
  <2>1. /\ phase = "list" /\ Linearise
        /\ UNCHANGED <<tree, phase, mode, root, next, regs, status, result, calls>>
    BY <1>4 DEF BuildList
  <2>2. StackInv /\ InputsFirst /\ Rooted(root) /\ (mode = "entrypt" => IsExpr(root))
    BY <2>1 DEF EvalInv
  <2>3. ListTypeOK' /\ StackInv' /\ InputsFirst' /\ Rooted(root)'
    <3>1. \A r \in Node : Rooted(r) => ListTypeOK' /\ StackInv' /\ InputsFirst' /\ Rooted(r)'
      BY <1>1, <2>1, <2>2, LineariseKeepsOrder
    <3>2. QED
      BY <1>1, <2>1, <2>2, <3>1 DEF Rooted, Listed
  <2>4. TypeOK'
    BY <1>1, <2>1, <2>3 DEF TypeOK
  <2>5. WholeBlocks' /\ PassedAreReady' /\ (mode = "entrypt" => IsExpr(root))'
    BY <2>1, <2>2 DEF EvalInv, WholeBlocks, PassedAreReady, IsExpr
  <2>6. QED
    BY <2>1, <2>3, <2>4, <2>5 DEF EvalInv
<1>5. CASE StartDispatch
  <2>1. TypeOK'
    BY <1>1, <1>5 DEF StartDispatch, TypeOK, ListTypeOK, listVars
  <2>2. PassedAreReady'
    <3>1. next' = 1 /\ execList' = execList
      BY <1>5 DEF StartDispatch, listVars
    <3>2. 1 <= Len(execList) + 1 /\ 1..(1 - 1) = {}
      BY <1>1, LenProperties DEF ListTypeOK
    <3>3. QED
      BY <3>1, <3>2 DEF PassedAreReady
  <2>3. QED
    BY <1>5, <2>1, <2>2, FrameKeepsInv DEF StartDispatch
<1>6. CASE PassTerminal
  <2>1. /\ Dispatching /\ IsTerminal(Dispatched) /\ next' = next + 1
        /\ UNCHANGED <<tree, treePos, argPos, dir, execList, phase, mode, root, regs,
                       status, result, calls>>
    BY <1>6 DEF PassTerminal, listVars
  <2>2. TypeOK'
    BY <1>1, <2>1 DEF TypeOK, ListTypeOK
  <2>3. phase = "dispatch" /\ treePos = <<>> /\ next \in 1..Len(execList)
    BY <2>1, DispatchedFacts DEF EvalInv, Dispatching
  <2>4. PassedAreReady'
    <3>1. SUFFICES ASSUME NEW j \in 1..next PROVE HasOperand(execList[j])'
      BY <2>1, <2>3 DEF PassedAreReady
    <3>2. HasOperand(execList[j])
      BY <2>1, <2>3 DEF EvalInv, PassedAreReady, HasOperand, Dispatched
    <3>3. QED
      BY <2>1, <3>2 DEF HasOperand, IsTerminal
  <2>5. QED
    BY <2>1, <2>2, <2>3, <2>4, FrameKeepsInv DEF listVars
<1>7. CASE DispatchRunner
  BY <1>7, RunnerPushes, RanKeepsInv DEF DispatchRunner
<1>8. CASE DispatchSelect
  <2> DEFINE v == regs[Args(Dispatched)[1]][Selected(Dispatched)]
  <2>1. v \in Value
    BY <1>1, <1>8, SelectReady, ElementOfSeq DEF DispatchSelect, TypeOK
  <2>2. <<v>> \in Seq(Value) /\ Len(<<v>>) >= NResults(tree.kind[Dispatched])
    BY <1>8, <2>1 DEF DispatchSelect, NResults
  <2>3. QED
    BY <1>8, <2>2, RanKeepsInv DEF DispatchSelect
<1>9. CASE DispatchThrows
  <2>1. TypeOK'
    BY <1>1, <1>9 DEF DispatchThrows, Leave, TypeOK, ListTypeOK, listVars
  <2>2. QED
    BY <1>9, <2>1, FrameKeepsInv DEF DispatchThrows, Leave
<1>10. CASE Return
  <2>1. mode = "entrypt" => regs[root][1] \in Value
    BY <1>1, <1>10, RootReady, EmptySeq, ElementOfSeq DEF Return, TypeOK
  <2>2. TypeOK'
    BY <1>1, <1>10, <2>1 DEF Return, Leave, TypeOK, ListTypeOK, listVars
  <2>3. QED
    BY <1>10, <2>2, FrameKeepsInv DEF Return, Leave
<1>11. CASE UNCHANGED vars
  <2>1. UNCHANGED <<tree, treePos, argPos, dir, execList, phase, mode, root, next,
                    regs, status, result, calls>>
    BY <1>11 DEF vars, listVars
  <2>2. TypeOK'
    BY <1>1, <2>1 DEF TypeOK, ListTypeOK
  <2>3. StackInv' /\ InputsFirst' /\ WholeBlocks'
    <3>1. UNCHANGED <<tree, treePos, argPos, dir, execList, regs>>
      BY <2>1
    <3>2. StackInv'
      BY <3>1 DEF EvalInv, StackInv, IsPath, LeftIsListed, TopIsConsistent,
                  Pointed, Listed, Current, Args, IsTerminal
    <3>3. InputsFirst' /\ WholeBlocks'
      BY <3>1 DEF EvalInv, InputsFirst, WholeBlocks, Args
    <3>4. QED
      BY <3>2, <3>3
  <2>4. (phase # "idle" => Rooted(root) /\ (mode = "entrypt" => IsExpr(root)))'
    BY <2>1 DEF EvalInv, Rooted, Listed, IsExpr
  <2>5. PassedAreReady' /\ (phase = "dispatch" => treePos = <<>>)'
    BY <2>1 DEF EvalInv, PassedAreReady, HasOperand, IsTerminal
  <2>6. QED
    BY <2>2, <2>3, <2>4, <2>5 DEF EvalInv
<1>12. QED
  BY <1>2, <1>3, <1>4, <1>5, <1>6, <1>7, <1>8, <1>9, <1>10, <1>11 DEF Next, Run

(* EvalInv holds in every reachable state.                                 *)
THEOREM InvariantHolds == Spec => []EvalInv
<1>1. QED
  BY InitInv, NextKeepsInv, PTL DEF Spec

(* Every variable keeps its type: in particular every register holds a     *)
(* terminal and entrypt returns one.                                       *)
THEOREM TypeCorrect == Spec => []TypeOK
<1>1. EvalInv => TypeOK
  BY DEF EvalInv
<1>2. QED
  BY <1>1, InvariantHolds, PTL

(* The promise of execution.hh: inputs precede the nodes that use them.    *)
THEOREM ListIsInOrder == Spec => []InputsFirst
<1>1. EvalInv => InputsFirst
  BY DEF EvalInv
<1>2. QED
  BY <1>1, InvariantHolds, PTL

(* The dispatcher and entrypt never read a register nobody pushed.         *)
THEOREM NoUndefinedRead == Spec => []ReadsAreDefined
<1>1. QED
  BY InvImpliesReads, InvariantHolds, PTL
-----------------------------------------------------------------------------
(***************************************************************************)
(* Recursion over the graph.  D gives what a node stands for in terms of   *)
(* what its arguments stand for; because the graph is acyclic there is a   *)
(* function on the nodes that D gives everywhere.  It is put together from *)
(* those that are right on a set of nodes closed under arguments.          *)
(***************************************************************************)
Inputs(f, n) == [a \in 1..Len(Args(n)) |-> f[Args(n)[a]]]

Solves(f, A, D) ==
  \A n \in A : /\ \A a \in 1..Len(Args(n)) : Args(n)[a] \in A
               /\ f[n] = D[n][Inputs(f, n)]

LEMMA ArgInNode ==
  ASSUME WellFormed(tree), NEW n \in Node, NEW a \in 1..Len(Args(n))
  PROVE  Args(n)[a] \in Node
BY NodeFacts, ElementOfSeq

LEMMA InputsType ==
  ASSUME WellFormed(tree), NEW V, NEW A \in SUBSET Node, NEW f \in [A -> V],
         NEW n \in Node, \A a \in 1..Len(Args(n)) : Args(n)[a] \in A
  PROVE  Inputs(f, n) \in Seq(V) /\ Len(Inputs(f, n)) = Len(Args(n))
<1>1. Len(Args(n)) \in Nat
  BY NodeFacts
<1>2. \A a \in 1..Len(Args(n)) : f[Args(n)[a]] \in V
  OBVIOUS
<1>3. Inputs(f, n) \in [1..Len(Args(n)) -> V]
  BY <1>2 DEF Inputs
<1>4. QED
  BY <1>1, <1>3

(* Two of them agree where both are defined.                               *)
LEMMA SolutionsAgree ==
  ASSUME WellFormed(tree), NEW D, NEW f, NEW g,
         NEW A \in SUBSET Node, NEW B \in SUBSET Node,
         Solves(f, A, D), Solves(g, B, D), NEW m \in A \cap B
  PROVE  f[m] = g[m]
<1> DEFINE Differ == {n \in A \cap B : f[n] # g[n]}
<1>1. SUFFICES ASSUME Differ # {} PROVE FALSE
  OBVIOUS
<1>2. PICK n \in Differ : \A a \in 1..Len(Args(n)) : Args(n)[a] \notin Differ
  BY <1>1 DEF WellFormed, Acyclic, Args
<1>3. \A a \in 1..Len(Args(n)) : f[Args(n)[a]] = g[Args(n)[a]]
  BY <1>2 DEF Solves
<1>4. Inputs(f, n) = Inputs(g, n)
  BY <1>3 DEF Inputs
<1>5. QED
  BY <1>2, <1>4 DEF Solves

LEMMA GraphRecursion ==
  ASSUME WellFormed(tree), NEW V, NEW D \in [Node -> [Seq(V) -> V]]
  PROVE  \E f \in [Node -> V] : \A n \in Node : f[n] = D[n][Inputs(f, n)]
<1> DEFINE Right(A) == \E f \in [A -> V] : Solves(f, A, D)
           All      == UNION {A \in SUBSET Node : Right(A)}
           Takes(n, v) == \E A \in SUBSET Node : \E f \in [A -> V] :
                            Solves(f, A, D) /\ n \in A /\ v = f[n]
           F == [n \in All |-> CHOOSE v \in V : Takes(n, v)]
<1>1. ASSUME NEW A \in SUBSET Node, NEW f \in [A -> V], Solves(f, A, D), NEW n \in A
      PROVE  n \in All /\ F[n] = f[n]
  <2>1. n \in All
    BY <1>1
  <2>2. f[n] \in V /\ Takes(n, f[n])
    BY <1>1
  <2>3. ASSUME NEW v \in V, Takes(n, v) PROVE v = f[n]
    <3>1. PICK B \in SUBSET Node : \E g \in [B -> V] :
                 Solves(g, B, D) /\ n \in B /\ v = g[n]
      BY <2>3
    <3>2. PICK g \in [B -> V] : Solves(g, B, D) /\ n \in B /\ v = g[n]
      BY <3>1
    <3>3. QED
      BY <1>1, <3>2, SolutionsAgree
  <2>4. (CHOOSE v \in V : Takes(n, v)) = f[n]
    <3> HIDE DEF Takes
    <3>1. QED
      BY <2>2, <2>3
  <2>5. QED
    <3> HIDE DEF Takes
    <3>1. QED
      BY <2>1, <2>4
<1>2. /\ All \in SUBSET Node
      /\ \A n \in All : \E A \in SUBSET Node : Right(A) /\ n \in A
      /\ F = [n \in All |-> F[n]]
  OBVIOUS
<1> HIDE DEF All, F, Takes
<1>3. F \in [All -> V] /\ Solves(F, All, D)
  <2>1. SUFFICES ASSUME NEW n \in All
                 PROVE  /\ F[n] \in V
                        /\ \A a \in 1..Len(Args(n)) : Args(n)[a] \in All
                        /\ F[n] = D[n][Inputs(F, n)]
    BY <1>2 DEF Solves
  <2>2. PICK A \in SUBSET Node : Right(A) /\ n \in A
    BY <1>2
  <2>3. PICK f \in [A -> V] : Solves(f, A, D)
    BY <2>2
  <2>4. F[n] = f[n]
    BY <1>1, <2>2, <2>3
  <2>5. ASSUME NEW a \in 1..Len(Args(n))
        PROVE  Args(n)[a] \in All /\ F[Args(n)[a]] = f[Args(n)[a]]
    <3>1. Args(n)[a] \in A
      BY <2>2, <2>3 DEF Solves
    <3>2. QED
      BY <1>1, <2>3, <3>1
  <2>6. Inputs(F, n) = Inputs(f, n)
    BY <2>5 DEF Inputs
  <2>7. QED
    BY <2>2, <2>3, <2>4, <2>5, <2>6 DEF Solves
<1>4. All = Node
  <2>1. SUFFICES ASSUME Node \ All # {} PROVE FALSE
    BY <1>2
  <2>2. PICK n \in Node \ All : \A a \in 1..Len(Args(n)) : Args(n)[a] \notin Node \ All
    BY <2>1 DEF WellFormed, Acyclic, Args
  <2>3. \A a \in 1..Len(Args(n)) : Args(n)[a] \in All
    BY <2>2, ArgInNode
  <2> DEFINE G == [k \in All \cup {n} |-> IF k = n THEN D[n][Inputs(F, n)] ELSE F[k]]
  <2>4. D[n][Inputs(F, n)] \in V
    <3>1. Inputs(F, n) \in Seq(V)
      BY <1>2, <1>3, <2>3, InputsType
    <3>2. QED
      BY <3>1
  <2>5. G \in [All \cup {n} -> V] /\ All \cup {n} \in SUBSET Node
    BY <1>2, <1>3, <2>4
  <2>6. ASSUME NEW k \in All \cup {n}
        PROVE  /\ \A a \in 1..Len(Args(k)) : Args(k)[a] \in All
               /\ G[k] = D[k][Inputs(G, k)]
    <3>1. \A a \in 1..Len(Args(k)) : Args(k)[a] \in All
      BY <1>3, <2>3 DEF Solves
    <3>2. \A a \in 1..Len(Args(k)) : G[Args(k)[a]] = F[Args(k)[a]]
      BY <2>2, <3>1
    <3>3. Inputs(G, k) = Inputs(F, k)
      <4> HIDE DEF G
      <4>1. QED
        BY <3>2 DEF Inputs
    <3>4. G[k] = D[k][Inputs(F, k)]
      BY <1>3, <2>2 DEF Solves
    <3>5. QED
      BY <3>1, <3>3, <3>4
  <2>7. Solves(G, All \cup {n}, D)
    BY <2>6 DEF Solves
  <2> HIDE DEF G
  <2>8. n \in All
    BY <1>1, <2>5, <2>7
  <2>9. QED
    BY <2>2, <2>8
<1>5. QED
  BY <1>3, <1>4 DEF Solves
(* A set that holds a node as soon as it holds its arguments holds all.    *)
LEMMA GraphInduction ==
  ASSUME WellFormed(tree), NEW S \in SUBSET Node,
         \A n \in Node : (\A a \in 1..Len(Args(n)) : Args(n)[a] \in S) => n \in S
  PROVE  S = Node
<1>1. SUFFICES ASSUME Node \ S # {} PROVE FALSE
  OBVIOUS
<1>2. PICK n \in Node \ S : \A a \in 1..Len(Args(n)) : Args(n)[a] \notin Node \ S
  BY <1>1 DEF WellFormed, Acyclic, Args
<1>3. QED
  BY <1>2, ArgInNode

(***************************************************************************)
(* The recursive definition of the list does define it.                    *)
(***************************************************************************)
LEMMA PostOrderIsDefined ==
  ASSUME WellFormed(tree)
  PROVE  /\ PostOrder \in [Node -> Seq(Node)]
         /\ \A n \in Node : PostOrder[n] = OrderFrom(n, Inputs(PostOrder, n))
<1> DEFINE D == [n \in Node |-> [lists \in Seq(Seq(Node)) |-> OrderFrom(n, lists)]]
           Defines(f) == f = [n \in Node |-> OrderFrom(n, Inputs(f, n))]
<1>1. ASSUME NEW n \in Node, NEW lists \in Seq(Seq(Node))
      PROVE  OrderFrom(n, lists) \in Seq(Node)
  <2>1. Len(lists) \in Nat /\ \A i \in 1..Len(lists) : lists[i] \in Seq(Node)
    OBVIOUS
  <2>2. CASE Len(lists) = 0
    BY <2>2 DEF OrderFrom
  <2>3. CASE Len(lists) = 1
    BY <2>1, <2>3, AppendProperties DEF OrderFrom
  <2>4. CASE Len(lists) > 1
    <3>1. lists[1] \o lists[2] \in Seq(Node)
      BY <2>1, <2>4, ConcatProperties
    <3>2. QED
      BY <2>4, <3>1, AppendProperties DEF OrderFrom
  <2>5. \A k \in Nat : k = 0 \/ k = 1 \/ k > 1
    OBVIOUS
  <2>6. QED
    BY <2>1, <2>2, <2>3, <2>4, <2>5, Zenon
<1>2. D \in [Node -> [Seq(Seq(Node)) -> Seq(Node)]]
  BY <1>1
<1>3. PICK f \in [Node -> Seq(Node)] : \A n \in Node : f[n] = D[n][Inputs(f, n)]
  <2> HIDE DEF D
  <2>1. QED
    BY <1>2, GraphRecursion
<1>4. \A n \in Node : f[n] = OrderFrom(n, Inputs(f, n))
  BY <1>3, ArgInNode, InputsType
<1>5. Defines(f)
  BY <1>3, <1>4
<1>6. PostOrder = CHOOSE g : Defines(g)
  BY DEF PostOrder, Inputs
<1>7. Defines(PostOrder)
  <2> HIDE DEF Defines
  <2>1. QED
    BY <1>5, <1>6
<1>8. \A n \in Node : PostOrder[n] = OrderFrom(n, Inputs(PostOrder, n))
  BY <1>7
<1>9. \A n \in Node : PostOrder[n] \in Seq(Node)
  <2> DEFINE Typed == {n \in Node : PostOrder[n] \in Seq(Node)}
  <2>1. ASSUME NEW n \in Node, \A a \in 1..Len(Args(n)) : Args(n)[a] \in Typed
        PROVE  n \in Typed
    <3>1. Inputs(PostOrder, n) \in Seq(Seq(Node))
      <4>1. Len(Args(n)) \in Nat
        BY NodeFacts
      <4>2. Inputs(PostOrder, n) \in [1..Len(Args(n)) -> Seq(Node)]
        BY <2>1 DEF Inputs
      <4>3. QED
        BY <4>1, <4>2
    <3>2. QED
      BY <1>1, <1>8, <3>1
  <2>2. Typed = Node
    <3> HIDE DEF Typed
    <3>1. Typed \in SUBSET Node
      BY DEF Typed
    <3>2. QED
      BY <2>1, <3>1, GraphInduction
  <2>3. QED
    BY <2>2
<1>10. QED
  <2> HIDE DEF D
  <2>1. PostOrder = [n \in Node |-> OrderFrom(n, Inputs(PostOrder, n))]
    BY <1>7
  <2>2. QED
    BY <1>8, <1>9, <2>1

-----------------------------------------------------------------------------
(***************************************************************************)
(* The block of results a node stands for is defined too, and is whole     *)
(* when there is one.                                                      *)
(***************************************************************************)
WholeBlock(n, block) ==
  /\ block \in Seq(Value)
  /\ block # <<>> => Len(block) >= NResults(tree.kind[n])

LEMMA FirstOfBlock ==
  ASSUME NEW block \in Seq(Value), block # <<>>
  PROVE  Len(block) \in Nat \ {0} /\ block[1] \in Value
<1>1. Len(block) \in Nat \ {0}
  BY EmptySeq
<1>2. QED
  BY <1>1, ElementOfSeq

LEMMA BlockFromIsWhole ==
  ASSUME WellFormed(tree), NEW n \in Node, NEW f,
         \A a \in 1..Len(Args(n)) : WholeBlock(Args(n)[a], f[Args(n)[a]])
  PROVE  WholeBlock(n, BlockFrom(n, Inputs(f, n)))
<1> DEFINE blocks == Inputs(f, n)
<1>1. /\ Len(Args(n)) \in Nat /\ Len(Args(n)) = NArgs(tree.kind[n])
      /\ tree.kind[n] \in Kind
  BY NodeFacts DEF WellFormed, Args
<1>2. ASSUME NEW a \in 1..Len(Args(n))
      PROVE  blocks[a] = f[Args(n)[a]] /\ WholeBlock(Args(n)[a], blocks[a])
  BY <1>2 DEF Inputs
<1>3. <<>> \in Seq(Value) /\ \A v \in Value : <<v>> \in Seq(Value) /\ Len(<<v>>) = 1
  OBVIOUS
<1> HIDE DEF blocks
<1>4. CASE IsTerminal(n)
  BY <1>3, <1>4, ValueAssumption DEF BlockFrom, WholeBlock, NResults, IsTerminal, TerminalKind
<1>5. CASE ~IsTerminal(n) /\ (tree.kind[n] = "COPY" \/ \E a \in 1..Len(Args(n)) : blocks[a] = <<>>)
  BY <1>3, <1>5 DEF BlockFrom, WholeBlock, blocks
<1> DEFINE Computes == /\ ~IsTerminal(n) /\ tree.kind[n] # "COPY"
                       /\ \A a \in 1..Len(Args(n)) : blocks[a] # <<>>
<1>6. CASE Computes /\ tree.kind[n] = "SELECTRESULT"
  <2> DEFINE from == Args(n)[1]
             idx  == tree.index[Args(n)[2]]
  <2>1. Len(Args(n)) = 2
    BY <1>1, <1>6 DEF NArgs, TerminalKind
  <2>2. from \in Node /\ Args(n)[2] \in Node
    BY <2>1, ArgInNode
  <2>3. tree.kind[from] \in ExprKind /\ idx < NResults(tree.kind[from]) /\ idx \in Nat
    BY <1>6, <2>2 DEF WellFormed, TreeShape, Args
  <2>4. Len(blocks[1]) >= NResults(tree.kind[from]) /\ blocks[1] \in Seq(Value)
    BY <1>2, <1>6, <2>1 DEF WholeBlock
  <2>5. NResults(tree.kind[from]) \in Nat /\ Len(blocks[1]) \in Nat
    BY <2>4 DEF NResults
  <2>6. Selected(n) \in 1..Len(blocks[1])
    BY <2>3, <2>4, <2>5 DEF Selected
  <2>7. blocks[1][Selected(n)] \in Value
    BY <2>4, <2>6, ElementOfSeq
  <2>8. BlockFrom(n, blocks) = <<blocks[1][Selected(n)]>>
    BY <1>6 DEF BlockFrom
  <2>9. NResults(tree.kind[n]) = 1
    BY <1>6 DEF NResults
  <2>10. QED
    BY <1>3, <2>7, <2>8, <2>9 DEF WholeBlock, blocks
<1>7. CASE Computes /\ tree.kind[n] # "SELECTRESULT"
  <2> DEFINE in == [a \in 1..Len(Args(n)) |-> blocks[a][1]]
  <2>1. tree.kind[n] \in RunnerKind
    BY <1>1, <1>7 DEF Kind, IsTerminal, RunnerKind, ExprKind
  <2>2. ASSUME NEW a \in 1..Len(Args(n)) PROVE blocks[a][1] \in Value
    BY <1>2, <1>7, FirstOfBlock DEF WholeBlock
  <2>3. in \in [1..NArgs(tree.kind[n]) -> Value]
    BY <1>1, <2>2
  <2>4. /\ Results(tree.kind[n], in) \in Seq(Value)
        /\ Len(Results(tree.kind[n], in)) >= NResults(tree.kind[n])
    BY <2>1, <2>3, ResultsAssumption
  <2>5. BlockFrom(n, blocks) = Results(tree.kind[n], in)
    BY <1>7 DEF BlockFrom
  <2>6. QED
    BY <2>4, <2>5 DEF WholeBlock, blocks
<1>8. QED
  BY <1>4, <1>5, <1>6, <1>7

LEMMA DenotationIsDefined ==
  ASSUME WellFormed(tree)
  PROVE  \A n \in Node : /\ Denotation[n] = BlockFrom(n, Inputs(Denotation, n))
                         /\ WholeBlock(n, Denotation[n])
<1> DEFINE Block(n, blocks) == IF BlockFrom(n, blocks) \in Seq(Value)
                               THEN BlockFrom(n, blocks) ELSE <<>>
           D == [n \in Node |-> [blocks \in Seq(Seq(Value)) |-> Block(n, blocks)]]
           Defines(f) == f = [n \in Node |-> BlockFrom(n, Inputs(f, n))]
<1>1. D \in [Node -> [Seq(Seq(Value)) -> Seq(Value)]]
  OBVIOUS
<1>2. PICK f \in [Node -> Seq(Value)] : \A n \in Node : f[n] = D[n][Inputs(f, n)]
  <2> HIDE DEF D
  <2>1. QED
    BY <1>1, GraphRecursion
<1>3. \A n \in Node : f[n] = Block(n, Inputs(f, n))
  <2> HIDE DEF Block
  <2>1. QED
    BY <1>2, ArgInNode, InputsType
<1>4. ASSUME NEW g, \A n \in Node : WholeBlock(n, BlockFrom(n, Inputs(g, n))) => WholeBlock(n, g[n])
      PROVE  \A n \in Node : WholeBlock(n, g[n])
  <2> DEFINE Whole == {n \in Node : WholeBlock(n, g[n])}
  <2>1. ASSUME NEW n \in Node, \A a \in 1..Len(Args(n)) : Args(n)[a] \in Whole
        PROVE  n \in Whole
    BY <1>4, <2>1, BlockFromIsWhole
  <2>2. Whole \in SUBSET Node
    OBVIOUS
  <2>3. Whole = Node
    <3> HIDE DEF Whole
    <3>1. QED
      BY <2>1, <2>2, GraphInduction
  <2>4. QED
    BY <2>3
<1>5. \A n \in Node : WholeBlock(n, f[n])
  <2>1. \A n \in Node : WholeBlock(n, BlockFrom(n, Inputs(f, n))) => WholeBlock(n, f[n])
    BY <1>3 DEF WholeBlock
  <2>2. QED
    BY <1>4, <2>1
<1>6. \A n \in Node : f[n] = BlockFrom(n, Inputs(f, n))
  <2>1. \A n \in Node : WholeBlock(n, BlockFrom(n, Inputs(f, n)))
    BY <1>5, ArgInNode, BlockFromIsWhole
  <2>2. QED
    BY <1>3, <2>1 DEF WholeBlock
<1>7. Defines(f)
  BY <1>2, <1>6
<1>8. Denotation = CHOOSE g : Defines(g)
  BY DEF Denotation, Inputs
<1>9. Defines(Denotation)
  <2> HIDE DEF Defines
  <2>1. QED
    BY <1>7, <1>8
<1>10. \A n \in Node : Denotation[n] = BlockFrom(n, Inputs(Denotation, n))
  BY <1>9
<1>11. \A n \in Node : WholeBlock(n, Denotation[n])
  BY <1>4, <1>10
<1>12. QED
  BY <1>10, <1>11
(***************************************************************************)
(* The list under construction.  Every frame of the stack has contributed  *)
(* the lists of the arguments it has finished with, bottom frame first.    *)
(***************************************************************************)
Part(n, k) == IF k = 0 THEN <<>>
              ELSE IF k = 1 THEN PostOrder[Args(n)[1]]
              ELSE PostOrder[Args(n)[1]] \o PostOrder[Args(n)[2]]

Done(i) == IF i = Len(treePos) /\ dir = "UP" THEN argPos[i] + 1 ELSE argPos[i]

Parts == [i \in 1..Len(treePos) |-> Part(treePos[i], Done(i))]

(* The concatenation of the first len parts is s.                          *)
Extends(f, parts, i) == f[i] = f[i - 1] \o parts[i]

Flattens(parts, len, s) ==
  \E f \in [0..len -> Seq(Node)] :
     /\ f[0] = <<>> /\ f[len] = s
     /\ \A i \in 1..len : Extends(f, parts, i)

OrderSoFar(r) ==
  IF treePos = <<>> THEN execList = PostOrder[r]
  ELSE Flattens(Parts, Len(treePos), execList)

OrderInv == phase # "idle" => OrderSoFar(root)

LEMMA FlattenNone ==
  ASSUME NEW parts
  PROVE  Flattens(parts, 0, <<>>)
<1> DEFINE f == [i \in 0..0 |-> <<>>]
<1>1. f \in [0..0 -> Seq(Node)] /\ f[0] = <<>>
  BY EmptySeq
<1>2. 1..0 = {}
  OBVIOUS
<1> HIDE DEF f
<1>3. QED
  BY <1>1, <1>2 DEF Flattens

LEMMA FlattenShorter ==
  ASSUME NEW parts, NEW len \in Nat, len > 0, NEW s, Flattens(parts, len, s)
  PROVE  \E front \in Seq(Node) :
            Flattens(parts, len - 1, front) /\ s = front \o parts[len]
<1>1. PICK f \in [0..len -> Seq(Node)] :
        /\ f[0] = <<>> /\ f[len] = s
        /\ \A i \in 1..len : Extends(f, parts, i)
  BY DEF Flattens
<1> DEFINE g == [i \in 0..(len - 1) |-> f[i]]
<1>2. /\ g \in [0..(len - 1) -> Seq(Node)]
      /\ g[0] = <<>>
      /\ g[len - 1] = f[len - 1]
      /\ \A i \in 0..(len - 1) : g[i] = f[i]
  BY <1>1
<1> HIDE DEF g
<1>3. ASSUME NEW i \in 1..(len - 1) PROVE Extends(g, parts, i)
  <2>1. Extends(f, parts, i) /\ g[i] = f[i] /\ g[i - 1] = f[i - 1]
    BY <1>1, <1>2
  <2>2. QED
    BY <2>1 DEF Extends
<1>4. Flattens(parts, len - 1, f[len - 1])
  BY <1>2, <1>3 DEF Flattens
<1>5. Extends(f, parts, len)
  BY <1>1
<1>6. f[len - 1] \in Seq(Node)
  BY <1>1
<1>7. s = f[len - 1] \o parts[len]
  BY <1>1, <1>5 DEF Extends
<1>8. QED
  BY <1>4, <1>6, <1>7

LEMMA FlattenLonger ==
  ASSUME NEW parts, NEW more, NEW len \in Nat, NEW s, Flattens(parts, len, s),
         \A i \in 1..len : more[i] = parts[i], more[len + 1] \in Seq(Node)
  PROVE  Flattens(more, len + 1, s \o more[len + 1])
<1>1. PICK f \in [0..len -> Seq(Node)] :
        /\ f[0] = <<>> /\ f[len] = s
        /\ \A i \in 1..len : Extends(f, parts, i)
  BY DEF Flattens
<1> DEFINE longer == s \o more[len + 1]
           g == [i \in 0..(len + 1) |-> IF i = len + 1 THEN longer ELSE f[i]]
<1>2. longer \in Seq(Node)
  BY <1>1, ConcatProperties
<1> HIDE DEF longer
<1>3. /\ g \in [0..(len + 1) -> Seq(Node)]
      /\ g[0] = <<>>
      /\ g[len + 1] = longer
      /\ \A i \in 0..len : g[i] = f[i]
  BY <1>1, <1>2
<1> HIDE DEF g
<1>4. ASSUME NEW i \in 1..(len + 1) PROVE Extends(g, more, i)
  <2>1. CASE i = len + 1
    <3>1. g[i - 1] = s /\ g[i] = longer
      BY <1>1, <1>3, <2>1
    <3>2. QED
      BY <2>1, <3>1 DEF Extends, longer
  <2>2. CASE i # len + 1
    <3>1. i \in 1..len
      BY <2>2
    <3>2. g[i] = f[i] /\ g[i - 1] = f[i - 1] /\ Extends(f, parts, i) /\ more[i] = parts[i]
      BY <1>1, <1>3, <3>1
    <3>3. QED
      BY <3>2 DEF Extends
  <2>3. QED
    BY <2>1, <2>2
<1>5. Flattens(more, len + 1, longer)
  BY <1>3, <1>4 DEF Flattens
<1>6. QED
  BY <1>5 DEF longer

LEMMA ArgCount ==
  ASSUME WellFormed(tree), NEW n \in Node
  PROVE  Len(Args(n)) \in Nat /\ Len(Args(n)) <= 2
<1>1. CASE IsTerminal(n)
  BY <1>1, NodeFacts
<1>2. CASE ~IsTerminal(n)
  <2>1. Len(Args(n)) \in 1..2
    BY <1>2, NodeFacts
  <2>2. \A m \in 1..2 : m \in Nat /\ m <= 2
    OBVIOUS
  <2>3. QED
    BY <2>1, <2>2, Zenon
<1>3. QED
  BY <1>1, <1>2

LEMMA PartFacts ==
  ASSUME WellFormed(tree), NEW n \in Node, NEW k \in Nat, k <= Len(Args(n))
  PROVE  /\ Part(n, k) \in Seq(Node)
         /\ k < Len(Args(n)) =>
              Part(n, k + 1) = Part(n, k) \o PostOrder[Args(n)[k + 1]]
<1>1. Len(Args(n)) \in Nat /\ Len(Args(n)) <= 2
  BY ArgCount
<1>2. \A a \in 1..Len(Args(n)) : PostOrder[Args(n)[a]] \in Seq(Node)
  BY ArgInNode, PostOrderIsDefined
<1>3. k = 0 \/ k = 1 \/ k = 2
  BY <1>1
<1>4. CASE k = 0
  <2>1. k < Len(Args(n)) => <<>> \o PostOrder[Args(n)[1]] = PostOrder[Args(n)[1]]
    BY <1>1, <1>2, <1>4, ConcatEmptySeq
  <2>2. QED
    BY <1>4, <2>1 DEF Part
<1>5. CASE k = 1
  BY <1>1, <1>2, <1>5 DEF Part
<1>6. CASE k = 2
  <2>1. Part(n, k) = PostOrder[Args(n)[1]] \o PostOrder[Args(n)[2]]
    BY <1>6 DEF Part
  <2>2. ~(k < Len(Args(n))) /\ 1 \in 1..Len(Args(n)) /\ 2 \in 1..Len(Args(n))
    BY <1>1, <1>6
  <2>3. PostOrder[Args(n)[1]] \in Seq(Node) /\ PostOrder[Args(n)[2]] \in Seq(Node)
    BY <1>2, <2>2
  <2>4. Part(n, k) \in Seq(Node)
    BY <2>1, <2>3, ConcatProperties
  <2>5. QED
    BY <2>2, <2>4
<1>7. QED
  BY <1>3, <1>4, <1>5, <1>6

LEMMA PostOrderParts ==
  ASSUME WellFormed(tree), NEW n \in Node
  PROVE  PostOrder[n] = Append(Part(n, Len(Args(n))), n)
<1>1. Len(Args(n)) = 0 \/ Len(Args(n)) = 1 \/ Len(Args(n)) = 2
  BY NodeFacts
<1>2. /\ Len(Inputs(PostOrder, n)) = Len(Args(n))
      /\ \A a \in 1..Len(Args(n)) : Inputs(PostOrder, n)[a] = PostOrder[Args(n)[a]]
  BY <1>1 DEF Inputs
<1>3. PostOrder[n] = OrderFrom(n, Inputs(PostOrder, n))
  BY PostOrderIsDefined
<1>4. CASE Len(Args(n)) = 0
  BY <1>2, <1>3, <1>4 DEF OrderFrom, Part
<1>5. CASE Len(Args(n)) = 1
  BY <1>2, <1>3, <1>5 DEF OrderFrom, Part
<1>6. CASE Len(Args(n)) = 2
  <2>1. /\ Inputs(PostOrder, n)[1] = PostOrder[Args(n)[1]]
        /\ Inputs(PostOrder, n)[2] = PostOrder[Args(n)[2]]
        /\ Len(Inputs(PostOrder, n)) = 2
    BY <1>2, <1>6
  <2>2. PostOrder[n] = Append(PostOrder[Args(n)[1]] \o PostOrder[Args(n)[2]], n)
    BY <1>3, <2>1 DEF OrderFrom
  <2>3. QED
    BY <1>6, <2>2 DEF Part
<1>7. QED
  BY <1>1, <1>4, <1>5, <1>6

LEMMA AppendAfter ==
  \A s, t \in Seq(Node), x \in Node : Append(s \o t, x) = s \o Append(t, x)
<1> SUFFICES ASSUME NEW s \in Seq(Node), NEW t \in Seq(Node), NEW x \in Node
             PROVE  Append(s \o t, x) = s \o Append(t, x)
  OBVIOUS
<1>1. Append(s \o t, x) = (s \o t) \o <<x>>
  BY ConcatProperties, AppendIsConcat
<1>2. Append(t, x) = t \o <<x>>
  BY AppendIsConcat
<1>3. <<x>> \in Seq(Node)
  OBVIOUS
<1>4. QED
  BY <1>1, <1>2, <1>3, ConcatAssociative

LEMMA ConcatAfter ==
  \A s, t, u \in Seq(Node) : (s \o t) \o u = s \o (t \o u)
BY ConcatAssociative

(* The top frame is finished with: its list is complete.                   *)
LEMMA PopKeepsOrder ==
  ASSUME ListTypeOK, StackInv, NEW r \in Node, Rooted(r), OrderSoFar(r),
         treePos # <<>>, PopBoth, Emit, UNCHANGED tree, dir' = "UP",
         Done(Len(treePos)) = Len(Args(Current))
  PROVE  OrderSoFar(r)'
<1> DEFINE len == Len(treePos)
<1>1. /\ Len(treePos') = len - 1
      /\ \A i \in 1..(len - 1) : treePos'[i] = treePos[i] /\ argPos'[i] = argPos[i]
      /\ execList' = Append(execList, Current)
      /\ treePos' \in Seq(Node)
  BY PopStep DEF Emit, ListTypeOK
<1>2. /\ len \in Nat \ {0} /\ Current \in Node /\ WellFormed(tree)
      /\ treePos \in Seq(Node) /\ argPos \in Seq(Nat) /\ Len(argPos) = len
  BY CurrentFacts DEF ListTypeOK
<1>3. len \in Nat /\ len > 0
  BY <1>2
<1>4. PostOrder' = PostOrder /\ \A n, k : Part(n, k)' = Part(n, k)
  <2>1. PostOrder' = PostOrder
    BY DEF PostOrder, OrderFrom, Args
  <2>2. QED
    BY <2>1 DEF Part, Args
<1>5. \A i \in 1..len : Parts[i] = Part(treePos[i], Done(i))
  BY DEF Parts
<1>6. \A i \in 1..(len - 1) : Parts'[i] = Part(treePos[i], Done(i)')
  BY <1>1, <1>4 DEF Parts
<1>7. PICK front \in Seq(Node) :
         Flattens(Parts, len - 1, front) /\ execList = front \o Parts[len]
  BY <1>3, FlattenShorter DEF OrderSoFar
<1>8. execList' = front \o PostOrder[Current]
  <2>1. Parts[len] = Part(Current, Len(Args(Current)))
    BY <1>3, <1>5 DEF Current
  <2>2. Part(Current, Len(Args(Current))) \in Seq(Node)
    <3>1. Len(Args(Current)) \in Nat /\ Len(Args(Current)) <= Len(Args(Current))
      BY <1>2, NodeFacts
    <3>2. QED
      BY <1>2, <3>1, PartFacts
  <2>3. execList' = front \o Append(Part(Current, Len(Args(Current))), Current)
    <3>1. execList' = Append(front \o Part(Current, Len(Args(Current))), Current)
      BY <1>1, <1>7, <2>1, Zenon
    <3>2. Current \in Node
      BY <1>2
    <3>3. QED
      <4>1. Append(front \o Part(Current, Len(Args(Current))), Current)
              = front \o Append(Part(Current, Len(Args(Current))), Current)
        BY <2>2, <3>2, AppendAfter, Zenon
      <4>2. QED
        BY <3>1, <4>1, Zenon
  <2>4. QED
    BY <1>2, <2>3, PostOrderParts
<1>9. PostOrder[Current] \in Seq(Node)
  BY <1>2, PostOrderIsDefined
<1>10. CASE len = 1
  <2>1. treePos' = <<>> /\ Current = r
    BY <1>1, <1>10, EmptySeq DEF Rooted, Current
  <2>2. front = <<>>
    BY <1>7, <1>10 DEF Flattens
  <2>3. execList' = PostOrder[r]
    BY <1>8, <1>9, <2>1, <2>2, ConcatEmptySeq
  <2>4. QED
    BY <1>4, <2>1, <2>3 DEF OrderSoFar
<1>11. CASE len # 1
  <2> HIDE DEF len
  <2>1. PICK m \in Nat : m > 0 /\ m \in 1..(len - 1) /\ m \in 1..len /\ m + 1 = len /\ m = len - 1
    <3>1. len - 1 \in Nat /\ len - 1 > 0 /\ len - 1 + 1 = len
      BY <1>3, <1>11
    <3>2. QED
      BY <1>3, <3>1
  <2> USE DEF len
  <2> DEFINE up  == treePos[m]
             pos == argPos[m]
  <2>2. up \in Node /\ pos \in Nat
    BY <1>2, <2>1, ElementOfSeq
  <2>3. pos < Len(Args(up)) /\ Current = Args(up)[pos + 1]
    BY <2>1 DEF StackInv, IsPath, Pointed, Current
  <2>4. PICK below \in Seq(Node) :
           Flattens(Parts, m - 1, below) /\ front = below \o Parts[m]
    <3>1. Flattens(Parts, m, front)
      BY <1>7, <2>1
    <3>2. m \in Nat /\ m > 0
      BY <2>1
    <3>3. QED
      BY <3>1, <3>2, FlattenShorter
  <2>5. Done(m) = pos /\ Done(m)' = pos + 1
    <3>1. m # Len(treePos) /\ Len(treePos') = m /\ argPos'[m] = argPos[m]
      BY <1>1, <1>3, <2>1
    <3>2. Done(m) = argPos[m]
      BY <3>1 DEF Done
    <3>3. Done(m)' = argPos'[m] + 1
      BY <3>1 DEF Done
    <3>4. QED
      BY <3>1, <3>2, <3>3
  <2>6. /\ Part(up, pos) \in Seq(Node)
        /\ Part(up, pos + 1) = Part(up, pos) \o PostOrder[Current]
        /\ Part(up, pos + 1) \in Seq(Node)
    <3>1. Len(Args(up)) \in Nat
      BY <1>2, <2>2, NodeFacts
    <3>2. pos <= Len(Args(up)) /\ pos + 1 <= Len(Args(up)) /\ pos + 1 \in Nat
      BY <2>2, <2>3, <3>1
    <3>3. QED
      BY <1>2, <2>2, <2>3, <3>2, PartFacts
  <2>7. Parts[m] = Part(up, pos) /\ Parts'[m] = Part(up, pos + 1)
    <3>1. Parts[m] = Part(up, Done(m))
      BY <1>5, <2>1
    <3>2. Parts'[m] = Part(up, Done(m)')
      BY <1>6, <2>1
    <3>3. QED
      BY <2>5, <3>1, <3>2
  <2>8. execList' = below \o Parts'[m]
    <3>1. execList' = (below \o Part(up, pos)) \o PostOrder[Current]
      BY <1>8, <2>4, <2>7, Zenon
    <3>2. execList' = below \o (Part(up, pos) \o PostOrder[Current])
      <4>1. (below \o Part(up, pos)) \o PostOrder[Current]
              = below \o (Part(up, pos) \o PostOrder[Current])
        BY <1>9, <2>6, ConcatAfter, Zenon
      <4>2. QED
        BY <3>1, <4>1, Zenon
    <3>3. QED
      BY <2>6, <2>7, <3>2, Zenon
  <2>9. \A i \in 1..(m - 1) : Parts'[i] = Parts[i]
    <3>1. SUFFICES ASSUME NEW i \in 1..(m - 1) PROVE Parts'[i] = Parts[i]
      OBVIOUS
    <3>2. i \in 1..len /\ i \in 1..(len - 1) /\ i # len /\ i # len - 1
      <4> HIDE DEF len
      <4>1. QED
        BY <2>1
    <3>3. Done(i) = argPos[i] /\ Done(i)' = argPos[i]
      BY <1>1, <3>2 DEF Done
    <3>4. QED
      BY <1>5, <1>6, <3>2, <3>3
  <2>10. Flattens(Parts', m - 1 + 1, below \o Parts'[m - 1 + 1])
    <3>1. m - 1 \in Nat /\ m - 1 + 1 = m
      BY <2>1
    <3>2. QED
      BY <2>4, <2>6, <2>7, <2>9, <3>1, FlattenLonger
  <2>11. Flattens(Parts', m, execList')
    <3>1. m - 1 + 1 = m
      BY <2>1
    <3>2. QED
      BY <2>8, <2>10, <3>1
  <2>12. treePos' # <<>> /\ Len(treePos') = m
    BY <1>1, <2>1, EmptySeq
  <2>13. QED
    BY <2>11, <2>12 DEF OrderSoFar, Flattens
<1>12. QED
  BY <1>10, <1>11

(* A new frame has contributed nothing yet.                                *)
LEMMA PushKeepsListed ==
  ASSUME ListTypeOK, NEW r \in Node, OrderSoFar(r), treePos # <<>>,
         ListTypeOK', Len(treePos') = Len(treePos) + 1,
         \A i \in 1..Len(treePos) : treePos'[i] = treePos[i],
         \A i \in 1..(Len(treePos) - 1) : argPos'[i] = argPos[i],
         argPos'[Len(treePos)] = Done(Len(treePos)),
         argPos'[Len(treePos) + 1] = 0,
         dir' = "DOWN", UNCHANGED <<tree, execList>>
  PROVE  OrderSoFar(r)'
<1> DEFINE len == Len(treePos)
<1>1. len \in Nat \ {0} /\ len \in Nat /\ treePos' # <<>>
  BY CurrentFacts, EmptySeq DEF ListTypeOK
<1>2. \A n, k : Part(n, k)' = Part(n, k)
  BY DEF Part, PostOrder, OrderFrom, Args
<1>3. \A i \in 1..len : Parts[i] = Part(treePos[i], Done(i))
  BY DEF Parts
<1>4. \A i \in 1..(len + 1) : Parts'[i] = Part(treePos'[i], argPos'[i])
  BY <1>2 DEF Parts, Done
<1>5. ASSUME NEW i \in 1..len PROVE Parts'[i] = Parts[i]
  <2>1. i \in 1..(len + 1) /\ treePos'[i] = treePos[i]
    BY <1>1
  <2>2. argPos'[i] = Done(i)
    <3>1. CASE i = len
      BY <3>1
    <3>2. CASE i # len
      BY <1>1, <3>2 DEF Done
    <3>3. QED
      BY <3>1, <3>2
  <2>3. QED
    BY <1>3, <1>4, <2>1, <2>2
<1>6. Parts'[len + 1] = <<>>
  <2>1. len + 1 \in 1..(len + 1)
    BY <1>1
  <2>2. QED
    BY <1>4, <2>1 DEF Part
<1>7. Flattens(Parts, len, execList) /\ <<>> \in Seq(Node)
  BY EmptySeq DEF OrderSoFar
<1>8. Flattens(Parts', len + 1, execList \o <<>>)
  BY <1>1, <1>5, <1>6, <1>7, FlattenLonger
<1>9. execList \o <<>> = execList
  BY ConcatEmptySeq DEF ListTypeOK
<1>10. Flattens(Parts', Len(treePos'), execList')
  BY <1>8, <1>9
<1>11. QED
  BY <1>1, <1>10 DEF OrderSoFar, Flattens

LEMMA LineariseKeepsListed ==
  ASSUME ListTypeOK, StackInv, InputsFirst, NEW r \in Node, Rooted(r), OrderSoFar(r),
         Linearise, UNCHANGED tree
  PROVE  OrderSoFar(r)'
<1>1. treePos # <<>>
  BY DEF Linearise, ListTerminal, DescendFirstArg, DescendNextArg, ListExpr
<1> DEFINE len == Len(treePos)
           pos == argPos[len]
<1>2. /\ len \in Nat \ {0} /\ Len(argPos) = len /\ Current \in Node /\ pos \in Nat
      /\ argPos \in Seq(Nat) /\ treePos \in Seq(Node)
      /\ Args(Current) \in Seq(Node)
      /\ Len(Args(Current)) \in Nat
      /\ IsTerminal(Current) => Len(Args(Current)) = 0
  BY <1>1, CurrentFacts, NodeFacts, LenProperties DEF ListTypeOK
<1>3. \A a \in 1..pos : a <= Len(Args(Current))
  BY <1>2 DEF StackInv, LeftIsListed, Current
<1>4. ListTypeOK'
  BY LineariseKeepsOrder
<1>5. CASE ListTerminal
  <2>1. dir = "DOWN"
    BY <1>1, <1>5 DEF ListTerminal, StackInv, TopIsConsistent
  <2>2. pos = 0
    BY <1>2, <1>3, <1>5 DEF ListTerminal
  <2>3. Done(len) = Len(Args(Current))
    BY <1>2, <1>5, <2>1, <2>2 DEF ListTerminal, Done
  <2>4. QED
    BY <1>1, <1>5, <2>3, PopKeepsOrder DEF ListTerminal
<1>6. CASE DescendFirstArg
  <2>1. /\ treePos' = Append(treePos, Args(Current)[1]) /\ argPos' = Append(argPos, 0)
        /\ dir = "DOWN" /\ dir' = "DOWN" /\ execList' = execList /\ ~IsTerminal(Current)
    BY <1>6 DEF DescendFirstArg, Push
  <2>2. Args(Current)[1] \in Node
    <3>1. Len(Args(Current)) \in 1..2
      BY <1>2, <2>1, NodeFacts DEF ListTypeOK
    <3>2. QED
      BY <1>2, <3>1, ElementOfSeq
  <2>3. /\ Len(treePos') = len + 1
        /\ \A i \in 1..len : treePos'[i] = treePos[i] /\ argPos'[i] = argPos[i]
        /\ argPos'[len + 1] = 0
    BY <1>2, <2>1, <2>2, AppendProperties
  <2>4. argPos'[len] = Done(len)
    BY <1>2, <2>1, <2>3 DEF Done
  <2>5. ASSUME NEW i \in 1..(len - 1) PROVE argPos'[i] = argPos[i]
    <3>1. i \in 1..len
      BY <1>2
    <3>2. QED
      BY <2>3, <3>1
  <2>6. QED
    BY <1>1, <1>2, <1>4, <2>1, <2>3, <2>4, <2>5, PushKeepsListed
<1>7. CASE DescendNextArg
  <2> DEFINE moved == [argPos EXCEPT ![len] = pos + 1]
  <2>1. /\ moved \in Seq(Nat)
        /\ Len(moved) = len
        /\ \A i \in 1..len : moved[i] = IF i = len THEN pos + 1 ELSE argPos[i]
    BY <1>2, ExceptSeq
  <2>2. NextPos = pos + 1
    BY <1>2 DEF NextPos
  <2>3. /\ treePos' = Append(treePos, Args(Current)[pos + 1 + 1])
        /\ argPos' = Append(moved, 0)
        /\ dir = "UP" /\ dir' = "DOWN" /\ execList' = execList
        /\ pos + 1 < Len(Args(Current))
    BY <1>2, <1>7, <2>2 DEF DescendNextArg, ArgsLeft
  <2>4. Args(Current)[pos + 1 + 1] \in Node
    <3>1. pos + 1 + 1 \in 1..Len(Args(Current))
      BY <1>2, <2>3
    <3>2. QED
      BY <1>2, <3>1, ElementOfSeq
  <2> HIDE DEF moved
  <2>5. /\ Len(treePos') = len + 1
        /\ \A i \in 1..len : treePos'[i] = treePos[i] /\ argPos'[i] = moved[i]
        /\ argPos'[len + 1] = 0
    BY <1>2, <2>1, <2>3, <2>4, AppendProperties
  <2>6. argPos'[len] = Done(len)
    BY <1>2, <2>1, <2>3, <2>5 DEF Done
  <2>8. ASSUME NEW i \in 1..(len - 1) PROVE argPos'[i] = argPos[i]
    <3>1. i \in 1..len /\ i # len
      BY <1>2
    <3>2. QED
      BY <2>1, <2>5, <3>1
  <2>7. QED
    BY <1>1, <1>2, <1>4, <2>3, <2>5, <2>6, <2>8, PushKeepsListed
<1>8. CASE ListExpr
  <2>1. dir = "UP" /\ pos < Len(Args(Current)) /\ ~(pos + 1 < Len(Args(Current)))
    BY <1>1, <1>2, <1>8 DEF ListExpr, StackInv, TopIsConsistent, ArgsLeft, NextPos
  <2>2. Done(len) = Len(Args(Current))
    BY <1>2, <2>1 DEF Done
  <2>3. QED
    BY <1>1, <1>8, <2>1, <2>2, PopKeepsOrder DEF ListExpr
<1>9. QED
  BY <1>5, <1>6, <1>7, <1>8 DEF Linearise

LEMMA NextKeepsOrder == EvalInv /\ OrderInv /\ [Next]_vars => OrderInv'
<1> SUFFICES ASSUME EvalInv, OrderInv, [Next]_vars PROVE OrderInv'
  OBVIOUS
<1>1. ListTypeOK /\ root \in Node
  BY DEF EvalInv, TypeOK
<1>2. ASSUME UNCHANGED <<tree, listVars, root>>, phase' # "idle" => phase # "idle"
      PROVE  OrderInv'
  <2>1. UNCHANGED <<tree, treePos, argPos, dir, execList, root>>
    BY <1>2 DEF listVars
  <2>2. OrderSoFar(root)' = OrderSoFar(root)
    BY <2>1 DEF OrderSoFar, Flattens, Extends, Parts, Part, Done, PostOrder, OrderFrom, Args
  <2>3. QED
    BY <1>2, <2>2 DEF OrderInv
<1>3. ASSUME NEW m \in {"entrypt", "runtree"}, NEW r \in Node, Call(m, r)
      PROVE  OrderInv'
  <2>1. /\ treePos' = <<r>> /\ argPos' = <<0>> /\ dir' = "DOWN" /\ execList' = <<>>
        /\ tree' = tree
    BY <1>3 DEF Call, StartList
  <2>2. Len(treePos') = 1 /\ treePos' # <<>> /\ <<>> \in Seq(Node)
    BY <2>1
  <2>3. Parts'[1] = <<>>
    BY <2>1, <2>2 DEF Parts, Done, Part
  <2>4. Flattens(Parts', 0 + 1, <<>> \o <<>>)
    <3>1. Flattens(Parts', 0, <<>>)
      BY FlattenNone
    <3>2. 0 \in Nat /\ \A i \in 1..0 : Parts'[i] = Parts'[i]
      OBVIOUS
    <3>3. 0 + 1 = 1 /\ Parts'[0 + 1] = <<>>
      BY <2>3
    <3>4. QED
      <4>1. Flattens(Parts', 0 + 1, <<>> \o Parts'[0 + 1])
        BY <2>2, <3>1, <3>2, <3>3, FlattenLonger
      <4>2. QED
        BY <3>3, <4>1
  <2>5. Flattens(Parts', 1, execList')
    <3>1. <<>> \o <<>> = <<>>
      BY <2>2, ConcatEmptySeq
    <3>2. QED
      BY <2>1, <2>4, <3>1
  <2>6. QED
    BY <2>2, <2>5 DEF OrderInv, OrderSoFar, Flattens
<1>4. ASSUME NEW r \in Node, CallOnTerminal(r) PROVE OrderInv'
  BY <1>4 DEF CallOnTerminal, OrderInv
<1>5. CASE BuildList
  <2>1. /\ phase = "list" /\ Linearise
        /\ UNCHANGED <<tree, phase, root>>
    BY <1>5 DEF BuildList
  <2>2. StackInv /\ InputsFirst /\ Rooted(root) /\ OrderSoFar(root)
    BY <2>1 DEF EvalInv, OrderInv
  <2>3. \A r \in Node : Rooted(r) /\ OrderSoFar(r) => OrderSoFar(r)'
    BY <1>1, <2>1, <2>2, LineariseKeepsListed
  <2>4. QED
    BY <1>1, <2>1, <2>2, <2>3 DEF OrderInv, OrderSoFar
<1>6. CASE StartDispatch
  BY <1>2, <1>6 DEF StartDispatch
<1>7. CASE PassTerminal
  BY <1>2, <1>7 DEF PassTerminal
<1>8. CASE DispatchRunner
  BY <1>2, <1>8 DEF DispatchRunner, Ran
<1>9. CASE DispatchSelect
  BY <1>2, <1>9 DEF DispatchSelect, Ran
<1>10. CASE DispatchThrows
  BY <1>2, <1>10 DEF DispatchThrows, Leave
<1>11. CASE Return
  BY <1>2, <1>11 DEF Return, Leave
<1>12. CASE UNCHANGED vars
  BY <1>2, <1>12 DEF vars
<1>13. QED
  BY <1>3, <1>4, <1>5, <1>6, <1>7, <1>8, <1>9, <1>10, <1>11, <1>12 DEF Next, Run

(* The stack machine of execution.cc lists the nodes in the order of the   *)
(* recursive depth-first walk, left to right, each node after its          *)
(* arguments and as often as it is reached.                                *)
THEOREM ListIsTheWalk == Spec => []ListIsPostOrder
<1>1. Init => OrderInv
  BY DEF Init, OrderInv
<1>2. EvalInv /\ OrderInv => ListIsPostOrder
  BY DEF EvalInv, OrderInv, OrderSoFar, ListIsPostOrder
<1>3. QED
  BY <1>1, <1>2, InvariantHolds, NextKeepsOrder, PTL DEF Spec

-----------------------------------------------------------------------------
(***************************************************************************)
(* The registers of a node repeat the block it stands for.                 *)
(***************************************************************************)
Repeats(s, block) ==
  /\ Len(s) % Len(block) = 0
  /\ \A i \in 1..Len(s) : s[i] = block[((i - 1) % Len(block)) + 1]

PureInv ==
  /\ \A n \in Node : regs[n] # <<>> =>
        Denotation[n] # <<>> /\ Repeats(regs[n], Denotation[n])
  /\ ResultIsDenotation

LEMMA SameDenotation == tree' = tree => Denotation' = Denotation
BY DEF Denotation, BlockFrom, Args, IsTerminal, Selected

LEMMA ModFacts ==
  ASSUME NEW a \in Nat, NEW L \in Nat \ {0}, a % L = 0
  PROVE  /\ (a + L) % L = 0
         /\ \A x \in Nat : x < L => (a + x) % L = x
<1>1. PICK q \in Nat : a = L * q
  OBVIOUS
<1>2. L * q + L = L * (q + 1) /\ (L * (q + 1)) % L = 0
  OBVIOUS
<1>3. (a + L) % L = 0
  BY <1>1, <1>2
<1>4. ASSUME NEW x \in Nat, x < L PROVE (a + x) % L = x
  BY <1>4
<1>5. QED
  BY <1>3, <1>4

LEMMA RepeatOnce ==
  ASSUME NEW s \in Seq(Value), NEW block \in Seq(Value), block # <<>>,
         s = <<>> \/ Repeats(s, block)
  PROVE  Repeats(s \o block, block)
<1> DEFINE a == Len(s)
           L == Len(block)
<1>1. a \in Nat /\ L \in Nat \ {0}
  BY EmptySeq, LenProperties
<1>2. /\ Len(s \o block) = a + L
      /\ \A i \in 1..(a + L) : (s \o block)[i] = IF i <= a THEN s[i] ELSE block[i - a]
  BY ConcatProperties
<1>3. a % L = 0 /\ \A i \in 1..a : s[i] = block[((i - 1) % L) + 1]
  <2>1. CASE s = <<>>
    <3>1. a = 0 /\ 0 % L = 0
      BY <1>1, <2>1
    <3>2. QED
      BY <3>1
  <2>2. CASE Repeats(s, block)
    BY <2>2 DEF Repeats
  <2>3. QED
    BY <2>1, <2>2
<1> DEFINE both == s \o block
<1> HIDE DEF a, L, both
<1>4. (a + L) % L = 0 /\ \A x \in Nat : x < L => (a + x) % L = x
  BY <1>1, <1>3, ModFacts
<1>5. ASSUME NEW i \in 1..(a + L)
      PROVE  both[i] = block[((i - 1) % L) + 1]
  <2>1. CASE i <= a
    <3>1. i \in 1..a
      BY <1>1, <2>1
    <3>2. both[i] = s[i]
      BY <1>2, <2>1 DEF both, a, L
    <3>3. QED
      BY <1>3, <3>1, <3>2
  <2>2. CASE ~(i <= a)
    <3>1. PICK x \in Nat : x = i - 1 - a
      BY <1>1, <2>2
    <3>2. x < L /\ a + x = i - 1 /\ x + 1 = i - a
      BY <1>1, <2>2, <3>1
    <3>3. (i - 1) % L = x
      BY <1>4, <3>2
    <3>4. both[i] = block[i - a]
      BY <1>2, <2>2 DEF both, a, L
    <3>5. QED
      BY <3>2, <3>3, <3>4
  <2>3. QED
    BY <2>1, <2>2
<1>6. QED
  <2>1. Len(both) = a + L
    BY <1>2 DEF both, a, L
  <2>2. Repeats(both, block)
    BY <1>4, <1>5, <2>1 DEF Repeats, L
  <2>3. QED
    BY <2>2 DEF both

(* The register of an operand that the dispatcher reads.                   *)
LEMMA RegisterFacts ==
  ASSUME EvalInv, PureInv, NEW n \in Node, regs[n] # <<>>
  PROVE  /\ Denotation[n] \in Seq(Value)
         /\ Denotation[n] # <<>>
         /\ Len(Denotation[n]) \in Nat \ {0}
         /\ Len(Denotation[n]) >= NResults(tree.kind[n])
         /\ Len(regs[n]) \in Nat \ {0}
         /\ Len(regs[n]) % Len(Denotation[n]) = 0
         /\ \A i \in 1..Len(regs[n]) :
              regs[n][i] = Denotation[n][((i - 1) % Len(Denotation[n])) + 1]
<1>1. WholeBlock(n, Denotation[n]) /\ regs[n] \in Seq(Value)
  BY DenotationIsDefined DEF EvalInv, TypeOK, ListTypeOK
<1>2. Denotation[n] # <<>> /\ Repeats(regs[n], Denotation[n])
  BY DEF PureInv
<1>3. Len(regs[n]) \in Nat \ {0} /\ Len(Denotation[n]) \in Nat \ {0}
  BY <1>1, <1>2, EmptySeq DEF WholeBlock
<1>4. QED
  BY <1>1, <1>2, <1>3 DEF WholeBlock, Repeats

LEMMA FirstRegister ==
  ASSUME EvalInv, PureInv, NEW n \in Node, regs[n] # <<>>
  PROVE  regs[n][1] = Denotation[n][1]
<1>1. Len(Denotation[n]) \in Nat \ {0} /\ Len(regs[n]) \in Nat \ {0}
  BY RegisterFacts
<1>2. 1 \in 1..Len(regs[n])
  BY <1>1
<1>3. regs[n][1] = Denotation[n][((1 - 1) % Len(Denotation[n])) + 1]
  BY <1>2, RegisterFacts
<1>4. \A L \in Nat \ {0} : ((1 - 1) % L) + 1 = 1
  OBVIOUS
<1>5. QED
  BY <1>1, <1>3, <1>4

LEMMA TerminalBlock ==
  ASSUME WellFormed(tree), NEW n \in Node, IsTerminal(n)
  PROVE  Denotation[n] = <<Leaf[n]>>
BY DenotationIsDefined DEF BlockFrom

LEMMA OperandIsFirst ==
  ASSUME EvalInv, PureInv, NEW n \in Node, HasOperand(n)
  PROVE  Denotation[n] # <<>> /\ Operand(n) = Denotation[n][1]
<1>1. CASE IsTerminal(n)
  BY <1>1, TerminalBlock DEF Operand, EvalInv, TypeOK, ListTypeOK
<1>2. CASE ~IsTerminal(n)
  <2>1. regs[n] # <<>>
    BY <1>2 DEF HasOperand
  <2>2. QED
    BY <1>2, <2>1, FirstRegister, RegisterFacts DEF Operand
<1>3. QED
  BY <1>1, <1>2

(* What the dispatched node pushes is its block.                           *)
LEMMA BlockOfDispatched ==
  ASSUME EvalInv, PureInv, Dispatching
  PROVE  /\ Denotation[Dispatched] = BlockFrom(Dispatched, Inputs(Denotation, Dispatched))
         /\ \A a \in 1..Len(Args(Dispatched)) :
              /\ Inputs(Denotation, Dispatched)[a] = Denotation[Args(Dispatched)[a]]
              /\ Inputs(Denotation, Dispatched)[a] # <<>>
              /\ Inputs(Denotation, Dispatched)[a][1] = Operand(Args(Dispatched)[a])
<1>1. Dispatched \in Node /\ WellFormed(tree)
  BY DispatchedFacts DEF EvalInv, TypeOK, ListTypeOK
<1>2. ASSUME NEW a \in 1..Len(Args(Dispatched))
      PROVE  /\ Inputs(Denotation, Dispatched)[a] = Denotation[Args(Dispatched)[a]]
             /\ Inputs(Denotation, Dispatched)[a] # <<>>
             /\ Inputs(Denotation, Dispatched)[a][1] = Operand(Args(Dispatched)[a])
  <2>1. Inputs(Denotation, Dispatched)[a] = Denotation[Args(Dispatched)[a]]
    BY DEF Inputs
  <2>2. Args(Dispatched)[a] \in Node
    BY <1>1, ArgInNode
  <2>3. HasOperand(Args(Dispatched)[a])
    BY OperandsReady
  <2>4. QED
    BY <2>1, <2>2, <2>3, OperandIsFirst
<1>3. QED
  BY <1>1, <1>2, DenotationIsDefined

LEMMA RunnerPushesBlock ==
  ASSUME EvalInv, PureInv, Dispatching, tree.kind[Dispatched] \in RunnerKind
  PROVE  Results(tree.kind[Dispatched], Operands(Dispatched)) = Denotation[Dispatched]
<1> DEFINE blocks == Inputs(Denotation, Dispatched)
<1>1. /\ ~IsTerminal(Dispatched) /\ tree.kind[Dispatched] # "COPY"
      /\ tree.kind[Dispatched] # "SELECTRESULT"
  BY DEF RunnerKind, UnaryKind, IsTerminal, TerminalKind
<1>2. /\ Denotation[Dispatched] = BlockFrom(Dispatched, blocks)
      /\ \A a \in 1..Len(Args(Dispatched)) :
           blocks[a] # <<>> /\ blocks[a][1] = Operand(Args(Dispatched)[a])
  BY BlockOfDispatched
<1> HIDE DEF blocks
<1>3. Operands(Dispatched) = [a \in 1..Len(Args(Dispatched)) |-> blocks[a][1]]
  BY <1>2 DEF Operands
<1>4. QED
  BY <1>1, <1>2, <1>3 DEF BlockFrom

LEMMA RunnerBlockIsNotEmpty ==
  ASSUME EvalInv, PureInv, Dispatching, tree.kind[Dispatched] \in RunnerKind
  PROVE  Denotation[Dispatched] # <<>>
<1>1. /\ Len(Denotation[Dispatched]) >= NResults(tree.kind[Dispatched])
      /\ Len(<<>>) = 0
  BY RunnerPushesBlock, RunnerPushes
<1>2. NResults(tree.kind[Dispatched]) \in Nat \ {0}
  BY DEF NResults
<1>3. QED
  BY <1>1, <1>2

LEMMA SelectedRegister ==
  ASSUME EvalInv, PureInv, Dispatching, tree.kind[Dispatched] = "SELECTRESULT"
  PROVE  regs[Args(Dispatched)[1]][Selected(Dispatched)]
           = Denotation[Args(Dispatched)[1]][Selected(Dispatched)]
<1> DEFINE from == Args(Dispatched)[1]
           sel  == Selected(Dispatched)
<1>1. from \in Node /\ sel \in 1..Len(regs[from])
  BY SelectReady
<1>2. sel - 1 \in Nat /\ sel - 1 < NResults(tree.kind[from])
  <2>1. Dispatched \in Node /\ WellFormed(tree) /\ 2 \in 1..Len(Args(Dispatched))
    <3>1. Len(Args(Dispatched)) = 2
      BY DispatchedFacts DEF NArgs, TerminalKind
    <3>2. QED
      BY <3>1, DispatchedFacts DEF EvalInv, TypeOK, ListTypeOK
  <2>2. Args(Dispatched)[2] \in Node
    BY <2>1, ArgInNode
  <2>3. /\ tree.index[Args(Dispatched)[2]] \in Nat
        /\ tree.index[Args(Dispatched)[2]] < NResults(tree.kind[from])
    BY <2>1, <2>2 DEF WellFormed, TreeShape, Args
  <2>4. QED
    BY <2>3 DEF Selected
<1>3. regs[from] # <<>>
  BY <1>1
<1>4. regs[from][sel] = Denotation[from][sel]
  <2> DEFINE L == Len(Denotation[from])
  <2>1. /\ L \in Nat \ {0} /\ L >= NResults(tree.kind[from])
        /\ regs[from][sel] = Denotation[from][((sel - 1) % L) + 1]
    BY <1>1, <1>3, RegisterFacts
  <2>2. NResults(tree.kind[from]) \in Nat
    BY DEF NResults
  <2> HIDE DEF L, sel
  <2>3. sel - 1 < L
    BY <1>2, <2>1, <2>2
  <2>4. (sel - 1) % L = sel - 1
    BY <1>2, <2>1, <2>3
  <2>5. sel - 1 + 1 = sel
    BY <1>1
  <2>6. QED
    BY <2>1, <2>4, <2>5
<1>5. QED
  BY <1>4

LEMMA SelectPushesBlock ==
  ASSUME EvalInv, PureInv, Dispatching, tree.kind[Dispatched] = "SELECTRESULT"
  PROVE  <<regs[Args(Dispatched)[1]][Selected(Dispatched)]>> = Denotation[Dispatched]
<1> DEFINE blocks == Inputs(Denotation, Dispatched)
           from == Args(Dispatched)[1]
           sel  == Selected(Dispatched)
<1>1. ~IsTerminal(Dispatched) /\ Len(Args(Dispatched)) = 2
  BY DispatchedFacts DEF IsTerminal, TerminalKind, NArgs
<1>2. /\ Denotation[Dispatched] = BlockFrom(Dispatched, blocks)
      /\ \A a \in 1..Len(Args(Dispatched)) :
           blocks[a] # <<>> /\ blocks[a] = Denotation[Args(Dispatched)[a]]
  BY BlockOfDispatched
<1>3. Denotation[Dispatched] = <<blocks[1][sel]>>
  BY <1>1, <1>2 DEF BlockFrom
<1>4. blocks[1] = Denotation[from]
  BY <1>1, <1>2
<1>5. QED
  BY <1>3, <1>4, SelectedRegister

LEMMA SelectedBlockIsNotEmpty ==
  ASSUME EvalInv, PureInv, Dispatching, tree.kind[Dispatched] = "SELECTRESULT"
  PROVE  Denotation[Dispatched] # <<>>
<1>1. \A v : <<v>> # <<>>
  OBVIOUS
<1>2. QED
  BY <1>1, SelectPushesBlock

LEMMA RanKeepsPure ==
  ASSUME EvalInv, PureInv, Dispatching, Ran(Denotation[Dispatched]),
         Denotation[Dispatched] # <<>>
  PROVE  PureInv'
<1>1. /\ Dispatched \in Node /\ WellFormed(tree) /\ regs \in [Node -> Seq(Value)]
  BY DispatchedFacts DEF EvalInv, TypeOK, ListTypeOK
<1>2. /\ regs' = [regs EXCEPT ![Dispatched] = regs[Dispatched] \o Denotation[Dispatched]]
      /\ UNCHANGED <<tree, root, status, result>>
  BY DEF Ran
<1>3. Denotation' = Denotation
  BY <1>2, SameDenotation
<1>4. ASSUME NEW n \in Node, regs'[n] # <<>>
      PROVE  Denotation[n] # <<>> /\ Repeats(regs'[n], Denotation[n])
  <2>1. CASE n = Dispatched
    <3>1. regs[n] \in Seq(Value) /\ Denotation[n] \in Seq(Value)
      BY <1>1, DenotationIsDefined DEF WholeBlock
    <3>2. regs[n] = <<>> \/ Repeats(regs[n], Denotation[n])
      BY DEF PureInv
    <3>3. Repeats(regs[n] \o Denotation[n], Denotation[n])
      BY <2>1, <3>1, <3>2, RepeatOnce
    <3>4. QED
      BY <1>1, <1>2, <2>1, <3>3
  <2>2. CASE n # Dispatched
    <3>1. regs'[n] = regs[n]
      BY <1>1, <1>2, <2>2
    <3>2. QED
      BY <1>4, <3>1 DEF PureInv
  <2>3. QED
    BY <2>1, <2>2
<1>5. ResultIsDenotation'
  BY <1>2, <1>3 DEF PureInv, ResultIsDenotation
<1>6. QED
  BY <1>3, <1>4, <1>5 DEF PureInv, Repeats

LEMMA NextKeepsPure == EvalInv /\ PureInv /\ [Next]_vars => PureInv'
<1> SUFFICES ASSUME EvalInv, PureInv, [Next]_vars PROVE PureInv'
  OBVIOUS
<1>1. WellFormed(tree)
  BY DEF EvalInv, TypeOK, ListTypeOK
<1>2. ASSUME UNCHANGED <<tree, regs>>, ResultIsDenotation'
      PROVE  PureInv'
  <2>1. Denotation' = Denotation
    BY <1>2, SameDenotation
  <2>2. QED
    BY <1>2, <2>1 DEF PureInv, Repeats
<1>3. ASSUME UNCHANGED <<tree, regs, root, status, result>>
      PROVE  PureInv'
  <2>1. Denotation' = Denotation
    BY <1>3, SameDenotation
  <2>2. ResultIsDenotation'
    BY <1>3, <2>1 DEF PureInv, ResultIsDenotation
  <2>3. QED
    BY <1>2, <1>3, <2>2
<1>4. ASSUME NEW m \in {"entrypt", "runtree"}, NEW r \in Node, Call(m, r)
      PROVE  PureInv'
  BY <1>2, <1>4 DEF Call, ResultIsDenotation
<1>5. ASSUME NEW r \in Node, CallOnTerminal(r)
      PROVE  PureInv'
  <2>1. /\ UNCHANGED <<tree, regs>> /\ root' = r /\ result' = Leaf[r] /\ IsTerminal(r)
    BY <1>5 DEF CallOnTerminal
  <2>2. Denotation' = Denotation
    BY <2>1, SameDenotation
  <2>3. result' = Denotation[r][1]
    BY <1>1, <2>1, TerminalBlock
  <2>4. QED
    BY <1>2, <2>1, <2>2, <2>3 DEF ResultIsDenotation
<1>6. CASE BuildList
  BY <1>3, <1>6 DEF BuildList
<1>7. CASE StartDispatch
  BY <1>3, <1>7 DEF StartDispatch
<1>8. CASE PassTerminal
  BY <1>3, <1>8 DEF PassTerminal
<1>9. CASE DispatchRunner
  <2>1. /\ Dispatching /\ tree.kind[Dispatched] \in RunnerKind
        /\ Ran(Results(tree.kind[Dispatched], Operands(Dispatched)))
    BY <1>9 DEF DispatchRunner
  <2>2. Results(tree.kind[Dispatched], Operands(Dispatched)) = Denotation[Dispatched]
    BY <2>1, RunnerPushesBlock
  <2>3. Denotation[Dispatched] # <<>>
    BY <2>1, RunnerBlockIsNotEmpty
  <2>4. QED
    BY <2>1, <2>2, <2>3, RanKeepsPure
<1>10. CASE DispatchSelect
  <2>1. /\ Dispatching /\ tree.kind[Dispatched] = "SELECTRESULT"
        /\ Ran(<<regs[Args(Dispatched)[1]][Selected(Dispatched)]>>)
    BY <1>10 DEF DispatchSelect
  <2>2. <<regs[Args(Dispatched)[1]][Selected(Dispatched)]>> = Denotation[Dispatched]
    BY <2>1, SelectPushesBlock
  <2>3. Denotation[Dispatched] # <<>>
    BY <2>2
  <2>4. QED
    BY <2>1, <2>2, <2>3, RanKeepsPure
<1>11. CASE DispatchThrows
  BY <1>2, <1>11 DEF DispatchThrows, Leave, ResultIsDenotation
<1>12. CASE Return
  <2>1. UNCHANGED <<tree, regs, root>> /\ phase = "dispatch" /\ next > Len(execList)
    BY <1>12 DEF Return, Leave
  <2>2. Denotation' = Denotation
    BY <2>1, SameDenotation
  <2>3. CASE mode = "entrypt" /\ Leave("value", regs[root][1])
    <3>1. regs[root] # <<>> /\ root \in Node
      BY <2>1, <2>3, RootReady DEF EvalInv, TypeOK
    <3>2. result' = Denotation[root][1]
      BY <2>3, <3>1, FirstRegister DEF Leave
    <3>3. QED
      BY <1>2, <2>1, <2>2, <3>2 DEF ResultIsDenotation
  <2>4. CASE mode = "runtree" /\ Leave("done", NoValue)
    BY <1>2, <2>1, <2>4 DEF Leave, ResultIsDenotation
  <2>5. QED
    BY <1>12, <2>3, <2>4 DEF Return
<1>13. CASE UNCHANGED vars
  BY <1>3, <1>13 DEF vars
<1>14. QED
  BY <1>4, <1>5, <1>6, <1>7, <1>8, <1>9, <1>10, <1>11, <1>12, <1>13 DEF Next, Run

LEMMA PureHolds == Spec => [](EvalInv /\ PureInv)
<1>1. Init => PureInv
  BY DEF Init, PureInv, ResultIsDenotation
<1>2. QED
  BY <1>1, InitInv, NextKeepsInv, NextKeepsPure, PTL DEF Spec

(* Evaluation is a function of the expression: the registers of a node are *)
(* copies of the block it stands for and entrypt answers with the value of *)
(* its argument, whatever was shared, listed twice, evaluated before or    *)
(* left half evaluated by an exception.                                    *)
THEOREM EvaluationIsAFunction == Spec => []EvaluationIsPure
<1>1. EvalInv /\ PureInv => EvaluationIsPure
  BY DEF PureInv, Repeats, EvaluationIsPure, RegistersRepeat
<1>2. QED
  BY <1>1, PureHolds, PTL

-----------------------------------------------------------------------------
(***************************************************************************)
(* The refinement.  What DataflowEval calls the value of a node is its     *)
(* block, once it has been run.                                            *)
(***************************************************************************)
LEMMA FirstBlockIs ==
  ASSUME EvalInv, PureInv, NEW n \in Node
  PROVE  FirstBlock[n] = IF regs[n] = <<>> THEN <<>> ELSE Denotation[n]
<1>1. regs[n] \in Seq(Value)
  BY DEF EvalInv, TypeOK
<1>2. CASE regs[n] = <<>>
  <2>1. FirstBlock[n] = SubSeq(regs[n], 1, 0)
    BY <1>2 DEF FirstBlock
  <2>2. SubSeq(regs[n], 1, 0) = <<>>
    BY SubSeqEmpty
  <2>3. QED
    BY <1>2, <2>1, <2>2
<1>3. CASE regs[n] # <<>>
  <2> DEFINE L == Len(Denotation[n])
             s == SubSeq(regs[n], 1, L)
  <2>1. /\ Denotation[n] \in Seq(Value)
        /\ L \in Nat \ {0}
        /\ Len(regs[n]) \in Nat \ {0}
        /\ Len(regs[n]) % L = 0
        /\ \A i \in 1..Len(regs[n]) :
             regs[n][i] = Denotation[n][((i - 1) % L) + 1]
    BY <1>3, RegisterFacts
  <2> HIDE DEF L
  <2>2. L <= Len(regs[n])
    <3>1. \A a \in Nat \ {0} : \A b \in Nat \ {0} : a % b = 0 => b <= a
      OBVIOUS
    <3>2. QED
      BY <2>1, <3>1
  <2>3. L \in Int /\ 1 \in Int /\ L - 1 + 1 = L
    BY <2>1
  <2>4. \A i \in 1..L : regs[n][i] \in Value
    BY <1>1, <2>1, <2>2, ElementOfSeq
  <2>5. /\ s \in Seq(Value)
        /\ Len(s) = IF 1 <= L THEN L - 1 + 1 ELSE 0
        /\ \A i \in 1..(L - 1 + 1) : s[i] = regs[n][1 + i - 1]
    BY <2>3, <2>4, SubSeqProperties
  <2>6. Len(s) = L
    BY <2>1, <2>5
  <2>7. ASSUME NEW i \in 1..L PROVE s[i] = Denotation[n][i]
    <3>1. i \in 1..Len(regs[n])
      BY <2>1, <2>2
    <3>2. (i - 1) % L = i - 1
      <4>1. i - 1 \in Nat /\ i - 1 < L
        BY <2>1
      <4>2. \A a \in Nat : \A b \in Nat \ {0} : a < b => a % b = a
        OBVIOUS
      <4>3. QED
        BY <2>1, <4>1, <4>2
    <3>3. i - 1 + 1 = i /\ 1 + i - 1 = i
      BY <2>1
    <3>4. regs[n][i] = Denotation[n][i]
      BY <2>1, <3>1, <3>2, <3>3
    <3>5. s[i] = regs[n][i]
      BY <2>3, <2>5, <3>3
    <3>6. QED
      BY <3>4, <3>5
  <2> HIDE DEF s
  <2>8. s = Denotation[n]
    BY <2>1, <2>5, <2>6, <2>7, SeqEqual DEF L
  <2>9. FirstBlock[n] = s
    BY <1>3 DEF FirstBlock, s, L
  <2>10. QED
    BY <1>3, <2>8, <2>9
<1>4. QED
  BY <1>2, <1>3

FirstBlocks ==
  \A n \in Node : FirstBlock[n] = IF regs[n] = <<>> THEN <<>> ELSE Denotation[n]

LEMMA FirstBlockShape ==
  FirstBlock = [n \in Node |-> FirstBlock[n]]
BY DEF FirstBlock

LEMMA SameFirstBlock ==
  tree' = tree /\ regs' = regs => FirstBlock' = FirstBlock
<1> SUFFICES ASSUME tree' = tree, regs' = regs PROVE FirstBlock' = FirstBlock
  OBVIOUS
<1>1. Denotation' = Denotation
  BY SameDenotation
<1>2. QED
  BY <1>1 DEF FirstBlock

(* An operand the dispatcher can read is known, with the same value.       *)
LEMMA OperandIsKnown ==
  ASSUME EvalInv, PureInv, NEW n \in Node, HasOperand(n)
  PROVE  Promise!Known(n) /\ Promise!First(n) = Operand(n)
<1>1. Promise!Terminal(n) <=> IsTerminal(n)
  BY DEF Promise!Terminal, Promise!TerminalKind, IsTerminal, TerminalKind
<1>2. CASE IsTerminal(n)
  BY <1>1, <1>2 DEF Promise!Known, Promise!First, Operand
<1>3. CASE ~IsTerminal(n)
  <2>1. regs[n] # <<>>
    BY <1>3 DEF HasOperand
  <2>2. FirstBlock[n] = Denotation[n] /\ Denotation[n] # <<>>
    BY <2>1, FirstBlockIs, RegisterFacts
  <2>3. FirstBlock[n][1] = regs[n][1]
    BY <2>1, <2>2, FirstRegister
  <2>4. QED
    BY <1>1, <1>3, <2>2, <2>3 DEF Promise!Known, Promise!First, Operand
<1>4. QED
  BY <1>2, <1>3

(* Running a node computes its value the first time and nothing after.     *)
LEMMA RanRefines ==
  ASSUME EvalInv, PureInv, FirstBlocks', Dispatching,
         Ran(Denotation[Dispatched]), Denotation[Dispatched] # <<>>,
         Promise!Outcome(Dispatched) = Denotation[Dispatched],
         tree.kind[Dispatched] \in RunnerKind \cup {"SELECTRESULT"}
  PROVE  [Promise!Next]_Promise!dfVars
<1>1. /\ Dispatched \in Node /\ WellFormed(tree) /\ regs \in [Node -> Seq(Value)]
      /\ phase = "dispatch"
  BY DispatchedFacts DEF EvalInv, TypeOK, ListTypeOK, Dispatching
<1>2. /\ regs' = [regs EXCEPT ![Dispatched] = regs[Dispatched] \o Denotation[Dispatched]]
      /\ UNCHANGED <<tree, mode, root, status, result, phase>>
  BY DEF Ran
<1>3. Denotation' = Denotation
  BY <1>2, SameDenotation
<1>4. \A n \in Node : /\ FirstBlock[n] = IF regs[n] = <<>> THEN <<>> ELSE Denotation[n]
                      /\ FirstBlock'[n] = IF regs'[n] = <<>> THEN <<>> ELSE Denotation[n]
  BY <1>3, FirstBlockIs DEF FirstBlocks
<1>5. regs'[Dispatched] # <<>>
  <2>1. regs[Dispatched] \in Seq(Value) /\ Denotation[Dispatched] \in Seq(Value)
    BY <1>1, DenotationIsDefined DEF WholeBlock
  <2>2. regs[Dispatched] \o Denotation[Dispatched] # <<>>
    BY <2>1, ConcatEqualIffEmpty
  <2>3. QED
    BY <1>1, <1>2, <2>2
<1>6. \A n \in Node : n # Dispatched => regs'[n] = regs[n]
  BY <1>1, <1>2
<1>7. FirstBlock' = [n \in Node |-> IF n = Dispatched THEN Denotation[n] ELSE FirstBlock[n]]
  <2>1. FirstBlock' = [n \in Node |-> FirstBlock'[n]]
    BY DEF FirstBlock
  <2>2. \A n \in Node : FirstBlock'[n] = IF n = Dispatched THEN Denotation[n] ELSE FirstBlock[n]
    BY <1>1, <1>4, <1>5, <1>6
  <2>3. QED
    BY <2>1, <2>2
<1>8. CASE regs[Dispatched] = <<>>
  <2>1. FirstBlock[Dispatched] = <<>>
    BY <1>1, <1>4, <1>8
  <2>2. \A i \in 1..Len(tree.args[Dispatched]) : Promise!Known(tree.args[Dispatched][i])
    <3>1. ASSUME NEW i \in 1..Len(Args(Dispatched))
          PROVE  Promise!Known(Args(Dispatched)[i])
      BY <1>1, ArgInNode, OperandsReady, OperandIsKnown
    <3>2. QED
      BY <3>1 DEF Args
  <2>3. tree.kind[Dispatched] \in Promise!ExprKind \ {"COPY"}
    BY DEF RunnerKind, UnaryKind, Promise!ExprKind, Promise!UnaryKind
  <2>4. FirstBlock' = [FirstBlock EXCEPT ![Dispatched] = Promise!Outcome(Dispatched)]
    BY <1>7, FirstBlockShape
  <2>5. Promise!Compute(Dispatched)
    BY <1>1, <1>2, <2>1, <2>2, <2>3, <2>4 DEF Promise!Compute
  <2>6. QED
    BY <1>1, <2>5 DEF Promise!Next
<1>9. CASE regs[Dispatched] # <<>>
  <2>1. FirstBlock[Dispatched] = Denotation[Dispatched]
    BY <1>1, <1>4, <1>9
  <2>2. FirstBlock' = FirstBlock
    BY <1>7, <2>1, FirstBlockShape
  <2>3. QED
    BY <1>2, <2>2 DEF Promise!dfVars
<1>10. QED
  BY <1>8, <1>9

LEMMA NextRefines ==
  EvalInv /\ PureInv /\ FirstBlocks' /\ [Next]_vars
    => [Promise!Next]_Promise!dfVars
<1> SUFFICES ASSUME EvalInv, PureInv, FirstBlocks', [Next]_vars
             PROVE  [Promise!Next]_Promise!dfVars
  OBVIOUS
<1>1. WellFormed(tree) /\ root \in Node
  BY DEF EvalInv, TypeOK, ListTypeOK
<1>2. ASSUME UNCHANGED <<tree, regs, phase, mode, root, status, result>>
      PROVE  [Promise!Next]_Promise!dfVars
  BY <1>2, SameFirstBlock DEF Promise!dfVars
<1>3. ASSUME NEW m \in {"entrypt", "runtree"}, NEW r \in Node, Call(m, r)
      PROVE  Promise!Next
  <2>1. Promise!Begin(m, r)
    BY <1>3, SameFirstBlock DEF Call, Promise!Begin
  <2>2. QED
    BY <2>1 DEF Promise!Next
<1>4. ASSUME NEW r \in Node, CallOnTerminal(r)
      PROVE  Promise!Next
  <2>1. Promise!ReturnTerminal(r)
    BY <1>4, SameFirstBlock DEF CallOnTerminal, Promise!ReturnTerminal,
       Promise!Terminal, IsTerminal, Promise!TerminalKind, TerminalKind
  <2>2. QED
    BY <2>1 DEF Promise!Next
<1>5. CASE BuildList
  BY <1>2, <1>5 DEF BuildList
<1>6. CASE StartDispatch
  <2>1. /\ phase = "list" /\ phase' = "dispatch"
        /\ UNCHANGED <<tree, mode, root, regs, status, result>>
    BY <1>6 DEF StartDispatch
  <2>2. QED
    BY <2>1, SameFirstBlock DEF Promise!dfVars
<1>7. CASE PassTerminal
  BY <1>2, <1>7 DEF PassTerminal
<1>8. CASE DispatchRunner
  <2>1. /\ Dispatching /\ tree.kind[Dispatched] \in RunnerKind
        /\ Ran(Results(tree.kind[Dispatched], Operands(Dispatched)))
    BY <1>8 DEF DispatchRunner
  <2>2. Results(tree.kind[Dispatched], Operands(Dispatched)) = Denotation[Dispatched]
    BY <2>1, RunnerPushesBlock
  <2>3. Denotation[Dispatched] # <<>>
    BY <2>1, <2>2, RunnerBlockIsNotEmpty
  <2>4. Operands(Dispatched)
          = [i \in 1..Len(tree.args[Dispatched]) |-> Promise!First(tree.args[Dispatched][i])]
    <3>1. ASSUME NEW i \in 1..Len(Args(Dispatched))
          PROVE  Promise!First(Args(Dispatched)[i]) = Operand(Args(Dispatched)[i])
      <4>1. Dispatched \in Node
        BY <2>1, DispatchedFacts
      <4>2. QED
        BY <1>1, <2>1, <4>1, ArgInNode, OperandsReady, OperandIsKnown
    <3>2. QED
      BY <3>1 DEF Operands, Args
  <2>5. Promise!Outcome(Dispatched) = Denotation[Dispatched]
    <3>1. tree.kind[Dispatched] # "SELECTRESULT"
      BY <2>1 DEF RunnerKind, UnaryKind
    <3>2. QED
      BY <2>2, <2>4, <3>1 DEF Promise!Outcome
  <2>6. Ran(Denotation[Dispatched])
    BY <2>1, <2>2
  <2>7. QED
    BY <2>1, <2>3, <2>5, <2>6, RanRefines
<1>9. CASE DispatchSelect
  <2>1. /\ Dispatching /\ tree.kind[Dispatched] = "SELECTRESULT"
        /\ Ran(<<regs[Args(Dispatched)[1]][Selected(Dispatched)]>>)
    BY <1>9 DEF DispatchSelect
  <2>2. <<regs[Args(Dispatched)[1]][Selected(Dispatched)]>> = Denotation[Dispatched]
    BY <2>1, SelectPushesBlock
  <2>3. Denotation[Dispatched] # <<>>
    BY <2>1, SelectedBlockIsNotEmpty
  <2>4. regs[Args(Dispatched)[1]][Selected(Dispatched)]
          = FirstBlock[Args(Dispatched)[1]][Selected(Dispatched)]
    <3>1. /\ Args(Dispatched)[1] \in Node
          /\ Selected(Dispatched) \in 1..Len(regs[Args(Dispatched)[1]])
      BY <2>1, SelectReady
    <3>2. regs[Args(Dispatched)[1]] # <<>>
      BY <3>1
    <3>3. FirstBlock[Args(Dispatched)[1]] = Denotation[Args(Dispatched)[1]]
      BY <3>1, <3>2, FirstBlockIs
    <3>4. QED
      BY <2>1, <3>3, SelectedRegister
  <2>5. Promise!Outcome(Dispatched) = Denotation[Dispatched]
    BY <2>1, <2>2, <2>4 DEF Promise!Outcome, Selected, Args
  <2>6. Ran(Denotation[Dispatched])
    BY <2>1, <2>2
  <2>7. QED
    BY <2>1, <2>3, <2>5, <2>6, RanRefines
<1>10. CASE DispatchThrows
  <2>1. Promise!Fail
    BY <1>10, SameFirstBlock DEF DispatchThrows, Leave, Dispatching, Promise!Fail
  <2>2. QED
    BY <2>1 DEF Promise!Next
<1>11. CASE Return
  <2>1. /\ UNCHANGED <<tree, regs, root, mode>> /\ phase = "dispatch" /\ phase' = "idle"
        /\ next > Len(execList)
    BY <1>11 DEF Return, Leave
  <2>2. HasOperand(root)
    <3>1. root \in Listed
      BY <2>1 DEF EvalInv, Rooted
    <3>2. PICK j \in 1..Len(execList) : execList[j] = root
      BY <3>1 DEF Listed
    <3>3. j \in 1..(next - 1)
      BY <2>1, <3>2, LenProperties DEF EvalInv, TypeOK, ListTypeOK
    <3>4. QED
      BY <2>1, <3>2, <3>3 DEF EvalInv, PassedAreReady
  <2>3. Promise!Known(root) /\ Promise!First(root) = Operand(root)
    BY <1>1, <2>2, OperandIsKnown
  <2>4. mode = "entrypt" => regs[root][1] = Promise!First(root)
    <3>1. mode = "entrypt" => ~IsTerminal(root)
      BY <2>1 DEF EvalInv, IsExpr, IsTerminal, ExprKind, UnaryKind, TerminalKind
    <3>2. QED
      BY <2>3, <3>1 DEF Operand
  <2>5. FirstBlock' = FirstBlock
    BY <2>1, SameFirstBlock
  <2>6. Promise!Finish
    BY <1>11, <2>1, <2>3, <2>4, <2>5 DEF Return, Leave, Promise!Finish
  <2>7. QED
    BY <2>6 DEF Promise!Next
<1>12. CASE UNCHANGED vars
  BY <1>2, <1>12 DEF vars
<1>13. QED
  BY <1>3, <1>4, <1>5, <1>6, <1>7, <1>8, <1>9, <1>10, <1>11, <1>12 DEF Next, Run

LEMMA InitRefines == Init => Promise!Init
<1> SUFFICES ASSUME Init PROVE Promise!Init
  OBVIOUS
<1>1. WellFormed(tree) /\ \A n \in Node : regs[n] = <<>>
  BY TreeAssumption DEF Init
<1>2. Promise!WellFormed(tree)
  BY <1>1 DEF WellFormed, TreeShape, Acyclic, NArgs, NResults, Kind, ExprKind, UnaryKind,
     TerminalKind, Promise!WellFormed, Promise!TreeShape, Promise!Acyclic, Promise!NArgs,
     Promise!NResults, Promise!Kind, Promise!ExprKind, Promise!UnaryKind, Promise!TerminalKind
<1>3. FirstBlock = [n \in Node |-> <<>>]
  <2>1. ASSUME NEW n \in Node PROVE FirstBlock[n] = <<>>
    BY <1>1, SubSeqEmpty DEF FirstBlock
  <2>2. QED
    BY <2>1, FirstBlockShape
<1>4. QED
  BY <1>2, <1>3 DEF Init, Promise!Init

(* Evaluation implements DataflowEval: every value is computed once, out   *)
(* of values already there, and a call answers with it, however the list   *)
(* repeats nodes and whatever earlier calls left in the registers.         *)
THEOREM EvaluationRefinesDataflow == Spec => ImplementsDataflow
<1>1. Init => Promise!Init
  BY InitRefines
<1>2. EvalInv /\ PureInv => FirstBlocks
  BY FirstBlockIs DEF FirstBlocks
<1>3. QED
  BY <1>1, <1>2, NextRefines, PureHolds, PTL DEF Spec, ImplementsDataflow, Promise!Spec
=============================================================================
