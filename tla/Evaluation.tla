----------------------------- MODULE Evaluation -----------------------------
(***************************************************************************)
(* Evaluation of an expression graph: entrypt (entrypt.cc) and runtree     *)
(* (runtree.cc), which linearise the graph and then hand every entry of    *)
(* the list, in order, to the generated Dispatcher (dispatchtemplates.py). *)
(* The dispatcher takes each operand from the first register of the        *)
(* argument that produced it and appends what the node's runner returns to *)
(* the node's own registers.  Nothing ever clears a register, so a node    *)
(* that is listed twice, or evaluated by two calls, is run again and its   *)
(* registers grow.                                                         *)
(***************************************************************************)
EXTENDS ExecutionList

CONSTANTS Value,         \* what a register can hold (terminals)
          NoValue,       \* entrypt has not returned a value
          Leaf,          \* the value of each terminal node
          Results(_, _), \* what a runner pushes, a function of its operands
          MaxCalls       \* bound on the number of calls explored

ASSUME ValueAssumption ==
  /\ NoValue \notin Value
  /\ Leaf \in [Node -> Value]
  /\ MaxCalls \in Nat

RunnerKind == UnaryKind \cup {"BINARY"}

ASSUME ResultsAssumption ==
  \A k \in RunnerKind : \A in \in [1..NArgs(k) -> Value] :
     /\ Results(k, in) \in Seq(Value)
     /\ Len(Results(k, in)) >= NResults(k)

VARIABLES phase,   \* "idle", "list" or "dispatch"
          mode,    \* which function was called
          root,    \* its argument
          next,    \* the iterator over the execution list
          regs,    \* the registers of every node
          status,  \* how the last call ended
          result,  \* what entrypt returned
          calls    \* calls made so far

vars == <<tree, listVars, phase, mode, root, next, regs, status, result, calls>>

TypeOK ==
  /\ ListTypeOK
  /\ phase \in {"idle", "list", "dispatch"}
  /\ mode \in {"entrypt", "runtree"}
  /\ root \in Node
  /\ next \in Nat \ {0}
  /\ regs \in [Node -> Seq(Value)]
  /\ status \in {"none", "value", "done", "error"}
  /\ result \in Value \cup {NoValue}
  /\ calls \in 0..MaxCalls

Init ==
  /\ tree \in Tree
  /\ EmptyList
  /\ phase = "idle"
  /\ mode = "entrypt"
  /\ root \in Node
  /\ next = 1
  /\ regs = [n \in Node |-> <<>>]
  /\ status = "none"
  /\ result = NoValue
  /\ calls = 0

-----------------------------------------------------------------------------
(* entrypt(expr) and runtree(expr) build the execution list first ...      *)
Call(m, r) ==
  /\ phase = "idle"
  /\ calls < MaxCalls
  /\ m = "entrypt" => IsExpr(r)
  /\ calls' = calls + 1
  /\ mode' = m
  /\ root' = r
  /\ StartList(r)
  /\ phase' = "list"
  /\ status' = "none"
  /\ result' = NoValue
  /\ UNCHANGED <<tree, next, regs>>

(* ... except that entrypt hands a terminal straight back.                 *)
CallOnTerminal(r) ==
  /\ phase = "idle"
  /\ calls < MaxCalls
  /\ IsTerminal(r)
  /\ calls' = calls + 1
  /\ mode' = "entrypt"
  /\ root' = r
  /\ status' = "value"
  /\ result' = Leaf[r]
  /\ UNCHANGED <<tree, listVars, phase, next, regs>>

BuildList ==
  /\ phase = "list"
  /\ Linearise
  /\ UNCHANGED <<tree, phase, mode, root, next, regs, status, result, calls>>

StartDispatch ==
  /\ phase = "list"
  /\ treePos = <<>>
  /\ phase' = "dispatch"
  /\ next' = 1
  /\ UNCHANGED <<tree, listVars, mode, root, regs, status, result, calls>>

-----------------------------------------------------------------------------
(* The dispatcher reads register 0 of an expression, the node itself when  *)
(* it is a terminal.  Reading a register nobody pushed is undefined        *)
(* behaviour, and nothing in the code looks before it reads:               *)
(* ReadsAreDefined, below, is what keeps the reads of this module defined. *)
HasOperand(n) == IsTerminal(n) \/ regs[n] # <<>>

Operand(n)    == IF IsTerminal(n) THEN Leaf[n] ELSE regs[n][1]

Dispatched == execList[next]

Dispatching == phase = "dispatch" /\ next <= Len(execList)

(* Mutant: the iterator stays on a terminal.                                *)
StayOnTerminal == Dispatching /\ IsTerminal(Dispatched) /\ UNCHANGED vars

(* entrypt skips terminals; dispatching one from runtree does nothing.     *)
PassTerminal ==
  /\ Dispatching
  /\ IsTerminal(Dispatched)
  /\ next' = next + 1
  /\ UNCHANGED <<tree, listVars, phase, mode, root, regs, status, result, calls>>

(* The dispatched node's runner pushes its results and the loop moves on.  *)
Ran(pushed) ==
  /\ regs' = [regs EXCEPT ![Dispatched] = @ \o pushed]
  /\ next' = next + 1
  /\ UNCHANGED <<tree, listVars, phase, mode, root, status, result, calls>>

Operands(n) == [i \in 1..Len(Args(n)) |-> Operand(Args(n)[i])]

(* Mutants: only the first result is kept; only a first run keeps them all. *)
RunnerKeepsFirst ==
  /\ Dispatching /\ tree.kind[Dispatched] \in RunnerKind
  /\ Ran(<<Results(tree.kind[Dispatched], Operands(Dispatched))[1]>>)

RerunKeepsFirst ==
  /\ Dispatching /\ tree.kind[Dispatched] \in RunnerKind
  /\ LET out == Results(tree.kind[Dispatched], Operands(Dispatched))
     IN  Ran(IF regs[Dispatched] = <<>> THEN out ELSE <<out[1]>>)

DispatchRunner ==
  /\ Dispatching
  /\ tree.kind[Dispatched] \in RunnerKind
  /\ Ran(Results(tree.kind[Dispatched], Operands(Dispatched)))

(* SELECTRESULT indexes the registers of its first argument, unchecked.    *)
Selected(n) == tree.index[Args(n)[2]] + 1

DispatchSelect ==
  /\ Dispatching
  /\ tree.kind[Dispatched] = "SELECTRESULT"
  /\ Ran(<<regs[Args(Dispatched)[1]][Selected(Dispatched)]>>)

Leave(s, v) ==
  /\ phase' = "idle"
  /\ status' = s
  /\ result' = v
  /\ UNCHANGED <<tree, listVars, mode, root, next, regs, calls>>

(* A runner may throw an rdag_error (dimensions, input check, LAPACK), and *)
(* COPY is not a type the dispatcher knows: the call unwinds and the       *)
(* registers already filled keep their contents.                           *)
DispatchThrows ==
  /\ Dispatching
  /\ tree.kind[Dispatched] \in RunnerKind \cup {"COPY"}
  /\ Leave("error", NoValue)

(* Mutant: the register pushed last is the answer.                          *)
ReturnLast ==
  /\ phase = "dispatch"
  /\ next > Len(execList)
  /\ \/ mode = "entrypt" /\ Leave("value", Last(regs[root]))
     \/ mode = "runtree" /\ Leave("done", NoValue)

(* The list is exhausted: entrypt returns register 0 of its argument.      *)
Return ==
  /\ phase = "dispatch"
  /\ next > Len(execList)
  /\ \/ mode = "entrypt" /\ Leave("value", regs[root][1])
     \/ mode = "runtree" /\ Leave("done", NoValue)

Run == \/ BuildList \/ StartDispatch \/ PassTerminal \/ DispatchRunner
       \/ DispatchSelect \/ DispatchThrows \/ Return

Next == \/ \E m \in {"entrypt", "runtree"}, r \in Node : Call(m, r)
        \/ \E r \in Node : CallOnTerminal(r)
        \/ Run

Spec == Init /\ [][Next]_vars

(* A call runs on its caller's thread and nothing blocks it.               *)
FairSpec == Spec /\ WF_vars(Run)

-----------------------------------------------------------------------------
(***************************************************************************)
(* Every register the dispatcher or entrypt is about to read has been      *)
(* pushed: the operands of a runner, the selected result of SELECTRESULT   *)
(* and register 0 of the expression entrypt was called on.  The dispatcher *)
(* never looks (dispatchtemplates.py), so only the order of the list and   *)
(* the runners' register counts stand between a call and undefined         *)
(* behaviour.                                                              *)
(***************************************************************************)
ReadsAreDefined ==
  /\ Dispatching /\ tree.kind[Dispatched] \in RunnerKind =>
        \A i \in 1..Len(Args(Dispatched)) : HasOperand(Args(Dispatched)[i])
  /\ Dispatching /\ tree.kind[Dispatched] = "SELECTRESULT" =>
        Selected(Dispatched) <= Len(regs[Args(Dispatched)[1]])
  /\ phase = "dispatch" /\ next > Len(execList) /\ mode = "entrypt" =>
        regs[root] # <<>>

(***************************************************************************)
(* The inductive invariant behind ReadsAreDefined: the list being          *)
(* dispatched came from the root and is in order, what the iterator has    *)
(* passed has registers, and nothing is ever left with some of them only.   *)
(***************************************************************************)
PassedAreReady ==
  phase = "dispatch" =>
    /\ next <= Len(execList) + 1
    /\ \A j \in 1..(next - 1) : HasOperand(execList[j])

WholeBlocks ==
  \A n \in Node : regs[n] # <<>> => Len(regs[n]) >= NResults(tree.kind[n])

EvalInv ==
  /\ TypeOK
  /\ StackInv
  /\ InputsFirst
  /\ phase # "idle" => Rooted(root) /\ (mode = "entrypt" => IsExpr(root))
  /\ phase = "dispatch" => treePos = <<>>
  /\ PassedAreReady
  /\ WholeBlocks

(***************************************************************************)
(* The list a depth-first walk of the arguments, left to right, gives.     *)
(* OrderFrom puts a node after the lists of its arguments.                 *)
(***************************************************************************)
OrderFrom(n, lists) ==
  Append(IF Len(lists) = 0 THEN <<>>
         ELSE IF Len(lists) = 1 THEN lists[1] ELSE lists[1] \o lists[2], n)

PostOrder ==
  LET po[n \in Node] == OrderFrom(n, [a \in 1..Len(Args(n)) |-> po[Args(n)[a]]])
  IN  po

(* The stack machine of execution.cc computes the recursive definition.    *)
ListIsPostOrder == phase = "dispatch" => execList = PostOrder[root]

(***************************************************************************)
(* The block of results an expression stands for, whatever runs it.  A     *)
(* COPY has none, and neither has an expression over one.                  *)
(***************************************************************************)
BlockFrom(n, blocks) ==
  IF IsTerminal(n) THEN <<Leaf[n]>>
  ELSE IF tree.kind[n] = "COPY" \/ \E a \in 1..Len(Args(n)) : blocks[a] = <<>>
       THEN <<>>
  ELSE IF tree.kind[n] = "SELECTRESULT" THEN <<blocks[1][Selected(n)]>>
  ELSE Results(tree.kind[n], [a \in 1..Len(Args(n)) |-> blocks[a][1]])

Denotation ==
  LET d[n \in Node] == BlockFrom(n, [a \in 1..Len(Args(n)) |-> d[Args(n)[a]]])
  IN  d

(***************************************************************************)
(* The registers of a node are copies of one block, the results it stands  *)
(* for: whatever was shared, listed twice, evaluated by an earlier call or *)
(* left half evaluated by an exception, running a node again pushes what   *)
(* its first run pushed.                                                   *)
(***************************************************************************)
RegistersRepeat ==
  \A n \in Node : regs[n] # <<>> =>
    LET block == Denotation[n] IN
    /\ Len(regs[n]) % Len(block) = 0
    /\ \A i \in 1..Len(regs[n]) :
         regs[n][i] = block[((i - 1) % Len(block)) + 1]

(* entrypt returns the value of its argument, in spite of the registers    *)
(* earlier calls and failed calls left behind.                             *)
ResultIsDenotation == status = "value" => result = Denotation[root][1]

(* Both: evaluation is a function of the expression, whatever was run      *)
(* before.                                                                 *)
EvaluationIsPure == RegistersRepeat /\ ResultIsDenotation

(***************************************************************************)
(* Evaluation implements DataflowEval: the value of an expression is the   *)
(* first block of its registers, and a call is busy while it lists or      *)
(* dispatches.  So calls compute each value once and for all, out of       *)
(* values already there, and answer with it: re-running shared nodes       *)
(* changes nothing.                                                        *)
(***************************************************************************)
FirstBlock ==
  [n \in Node |-> SubSeq(regs[n], 1,
                    IF regs[n] = <<>> THEN 0 ELSE Len(Denotation[n]))]

Promise == INSTANCE DataflowEval WITH val <- FirstBlock, busy <- phase # "idle"

ImplementsDataflow == Promise!Spec

(* Every call ends, with a value or with an exception.                     *)
EveryCallEnds == (phase # "idle") ~> (phase = "idle")
=============================================================================
