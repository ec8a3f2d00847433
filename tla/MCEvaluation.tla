---------------------------- MODULE MCEvaluation ----------------------------
(***************************************************************************)
(* Instances of Evaluation for TLC: a runner is an arithmetic hash of its  *)
(* operands that tells the values of the graphs' nodes apart.              *)
(***************************************************************************)
EXTENDS Evaluation, MCTrees

Modulus == 211
MCValue == 0..(Modulus - 1)
MCLeaf  == [n \in MCNode |-> n]

KindCode(k) == CASE k = "UNARY" -> 11 [] k = "BINARY" -> 23
                 [] k = "LU" -> 37 [] k = "SVD" -> 41 [] OTHER -> 53

MCResults(k, in) ==
  LET mix == IF Len(in) = 2 THEN 131 * in[1] + 977 * in[2] ELSE 131 * in[1]
      \* now and then a binary node pushes a result nobody asked for
      count == IF k = "BINARY" /\ mix % 3 = 0 THEN 2 ELSE NResults(k)
  IN  [i \in 1..count |-> (mix + KindCode(k) * (i + 6)) % Modulus]

(* calls is the bound's counter and nothing else: graphs with a unary node *)
(* or an SVD are given one call fewer than the others.                     *)
FewerCalls == \E n \in Node : tree.kind[n] \in {"UNARY", "SVD"}

MCInit ==
  /\ tree \in Tree
  /\ EmptyList
  /\ phase = "idle"
  /\ mode = "entrypt"
  /\ root = 1
  /\ next = 1
  /\ regs = [n \in Node |-> <<>>]
  /\ status = "none"
  /\ result = NoValue
  /\ calls = IF FewerCalls THEN 1 ELSE 0

MCSpec == MCInit /\ [][Next]_vars /\ WF_vars(Run)
=============================================================================
