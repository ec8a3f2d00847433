-------------------------- MODULE TriangularProbe --------------------------
(***************************************************************************)
(* isTriangular (mldividerunner.cc): is a square matrix lower triangular,  *)
(* upper triangular, or a row permutation of an upper triangular matrix;   *)
(* and is its diagonal made of ones, in which case LAPACK will not look at *)
(* it.  Entries are compared up to the machine precision, so what matters  *)
(* of an entry is whether it is close to 0, close to 1 or neither.         *)
(***************************************************************************)
EXTENDS Naturals, FiniteSetsExt

CONSTANT MaxN   \* bound on the order of the matrices probed

ASSUME OrderAssumption == MaxN \in Nat

Entry == {"zero", "one", "other"}

Matrices == UNION {[1..n -> [1..n -> Entry]] : n \in 1..MaxN}

VARIABLES data,   \* the matrix, as data[row][column]
          probe   \* what isTriangular said of it

Order(m) == DOMAIN m
IsZero(m, i, j) == m[i][j] = "zero"

UpperIsEmpty(m) == \A j \in Order(m) : \A i \in 1..(j - 1) : IsZero(m, i, j)

AllOnes(m) == \A i \in Order(m) : m[i][i] = "one"

Unit(b) == IF b THEN "UNIT" ELSE "NONUNIT"

(* checkIfLowerTriangular, when the upper part is empty.                   *)
LowerTriangle(m) == [uplo |-> "LOWER", diag |-> Unit(AllOnes(m)),
                     permuted |-> FALSE, perm |-> [i \in Order(m) |-> i]]

(* The columns a row is not zero in; a row of zeros has no start.          *)
NonZeros(m, i) == {j \in Order(m) : ~IsZero(m, i, j)}
HasStart(m, i) == NonZeros(m, i) # {}
RowStart(m, i) == Min(NonZeros(m, i))

StartsCoverColumns(m) ==
  \A j \in Order(m) : \E i \in Order(m) : RowStart(m, i) = j

(* Mutant: a matrix that is not lower triangular is told apart by its rows *)
(* in place, without looking for a permutation.                            *)
UpperInPlace(m) ==
  LET inPlace == \A i \in Order(m) : HasStart(m, i) /\ RowStart(m, i) = i
  IN  [uplo |-> IF inPlace THEN "UPPER" ELSE "NEITHER", diag |-> "NONUNIT",
       permuted |-> FALSE, perm |-> [i \in Order(m) |-> i]]

(* checkIfUpperTriangularPermuteRows.  The diagonal is judged by the first *)
(* non-zero entry of every row, which is where the permutation puts it.    *)
UpperTriangle(m) ==
  LET starts == [i \in Order(m) |-> RowStart(m, i)]
      ones   == \A i \in Order(m) : HasStart(m, i) => m[i][RowStart(m, i)] = "one"
  IN  IF (\A i \in Order(m) : HasStart(m, i)) /\ StartsCoverColumns(m)
      THEN [uplo |-> "UPPER", diag |-> Unit(ones), perm |-> starts,
            permuted |-> \E i \in Order(m) : starts[i] # i]
      ELSE [uplo |-> "NEITHER", diag |-> Unit(ones), permuted |-> FALSE,
            perm |-> [i \in Order(m) |-> i]]

IsTriangular(m) == IF UpperIsEmpty(m) THEN LowerTriangle(m) ELSE UpperTriangle(m)

(* The rewritten matrix the triangular solver is given: row i of the data  *)
(* becomes row perm[i] (mldivide_dense_runner).                            *)
Rewritten(m, p) ==
  [r \in Order(m) |-> m[CHOOSE i \in Order(m) : p.perm[i] = r]]

NotProbed == [uplo |-> "none"]

ProbeInit == data \in Matrices /\ probe = NotProbed

Probe == probe = NotProbed /\ probe' = IsTriangular(data) /\ UNCHANGED data

ProbeSpec == ProbeInit /\ [][Probe]_<<data, probe>>

-----------------------------------------------------------------------------
Probed == probe # NotProbed

LowerIsEmpty(m) == \A i \in Order(m) : \A j \in 1..(i - 1) : IsZero(m, i, j)
NoZeroPivot(m)  == \A i \in Order(m) : ~IsZero(m, i, i)

Permutations(n) == {p \in [n -> n] : \A i, j \in n : i # j => p[i] # p[j]}

(***************************************************************************)
(* The system handed to the triangular solver is triangular, an upper one  *)
(* has no zero on its diagonal, the rewriting loses no row, and the solver *)
(* is told to ignore the diagonal exactly when it is all ones.             *)
(***************************************************************************)
SolverGetsATriangle ==
  Probed /\ probe.uplo # "NEITHER" =>
    LET t == Rewritten(data, probe) IN
    /\ probe.perm \in Permutations(Order(data))
    /\ probe.uplo = "LOWER" => UpperIsEmpty(t) /\ t = data
    /\ probe.uplo = "UPPER" => LowerIsEmpty(t) /\ NoZeroPivot(t)
    /\ probe.diag = "UNIT" <=> \A i \in Order(t) : t[i][i] = "one"
    /\ ~probe.permuted => t = data

(***************************************************************************)
(* Nothing is missed: a matrix declared neither has something in its upper *)
(* part, and no order of its rows makes it upper triangular with a         *)
(* diagonal that can be solved.                                            *)
(***************************************************************************)
NoTriangleIsMissed ==
  Probed /\ probe.uplo = "NEITHER" =>
    /\ ~UpperIsEmpty(data)
    /\ \A p \in Permutations(Order(data)) :
         LET t == Rewritten(data, [perm |-> p])
         IN  ~(LowerIsEmpty(t) /\ NoZeroPivot(t))

(* Both: the probe is sound and complete.                                  *)
ProbeIsExact == SolverGetsATriangle /\ NoTriangleIsMissed
=============================================================================
