------------------------------ MODULE MCTrees ------------------------------
(***************************************************************************)
(* The expression graphs TLC explores: all those over N nodes, numbered in *)
(* construction order, whose last node is the only one nobody uses.        *)
(***************************************************************************)
EXTENDS ExprTree, SequencesExt

CONSTANTS N,         \* number of nodes; 1 is a matrix, 2 an integer scalar
          ExprKinds  \* kinds of expression to use

MCNode == 1..N

(* An argument exists before the expression that takes it; the integer     *)
(* scalar is only used to select.                                          *)
ArgsBelow(n) == 1..(n - 1) \ {2}

Shapes(n) ==
  UNION { CASE k \in UnaryKind \cup {"COPY"} ->
                 {[kind |-> k, args |-> <<a>>] : a \in ArgsBelow(n)}
            [] k = "BINARY" ->
                 {[kind |-> k, args |-> <<a, b>>] :
                    a \in ArgsBelow(n), b \in ArgsBelow(n)}
            [] k = "SELECTRESULT" ->
                 {[kind |-> k, args |-> <<a, 2>>] : a \in ArgsBelow(n) \ {1}}
          : k \in ExprKinds }

ShapeChoices == { f \in [3..N -> Shapes(N)] : \A n \in 3..N : f[n] \in Shapes(n) }

TreeOf(f, i) ==
  [kind  |-> [n \in MCNode |-> CASE n = 1 -> "TERMINAL" [] n = 2 -> "INTEGER"
                                 [] OTHER -> f[n].kind],
   args  |-> [n \in MCNode |-> IF n <= 2 THEN <<>> ELSE f[n].args],
   index |-> [n \in MCNode |-> IF n = 2 THEN i ELSE 0]]

(* Only the last node is a root nobody uses; calls are made on every node, *)
(* so smaller graphs are explored too.                                     *)
AllUsed(t) == \A n \in 3..(N - 1) : \E m \in (n + 1)..N :
                 n \in ToSet(t.args[m])

MCTree == { t \in {TreeOf(f, i) : f \in ShapeChoices, i \in 0..2} :
              WellFormed(t) /\ AllUsed(t) }
=============================================================================
