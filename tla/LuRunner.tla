------------------------------ MODULE LuRunner ------------------------------
(***************************************************************************)
(* lu_dense_runner (lurunner.cc) after LAPACK's xgetrf: from the factored  *)
(* matrix A, with both triangles in it, and the row interchanges ipiv, the *)
(* runner makes U and an L with its rows put back where they came from, so *)
(* that the product of its two results is the argument.                    *)
(*                                                                         *)
(* Entries of A are named by where they are: <<row, column>>, from 0.      *)
(***************************************************************************)
EXTENDS Integers

CONSTANT MaxM   \* bound on the rows and columns of the argument

ASSUME SizeAssumption == MaxM \in Nat

VARIABLES m, n, ipiv,   \* the dimensions, and the interchanges xgetrf made
          i,            \* the next interchange to apply
          perm          \* perm[k]: the row of the argument at row k

luVars == <<m, n, ipiv, i, perm>>

Minmn == IF m > n THEN n ELSE m
Rows  == 0..(m - 1)
Pivots == 0..(Minmn - 1)

(* Interchange i swaps row i with a row that is not above it.              *)
Interchanges(rows, steps) ==
  {p \in [0..(steps - 1) -> 0..(rows - 1)] : \A k \in 0..(steps - 1) : p[k] >= k}

LuInit ==
  /\ m \in 1..MaxM
  /\ n \in 1..MaxM
  /\ ipiv \in Interchanges(m, Minmn)
  /\ i = 0
  /\ perm = [k \in Rows |-> k]

ApplyPivot ==
  /\ i \in Pivots
  /\ perm' = [perm EXCEPT ![ipiv[i]] = perm[i], ![i] = perm[ipiv[i]]]
  /\ i' = i + 1
  /\ UNCHANGED <<m, n, ipiv>>

LuNext == ApplyPivot

LuSpec == LuInit /\ [][LuNext]_luVars

-----------------------------------------------------------------------------
(* Mutant: every row is looked up once.                                    *)
LRowOnce(r) == perm[r]

(* The row of A that becomes row r of L.                                   *)
LRow(r) == IF perm[perm[r]] = r THEN perm[r] ELSE perm[perm[r]]

(* An entry of L or U is a constant or <<row, column>>, the entry it is    *)
(* copied from.                                                            *)
zero == <<>>
one  == <<"one">>

(* A is made unit lower trapezoidal in place, then its rows are picked.    *)
LEntry(r, c) == LET k == LRow(r)
                IN  IF k = c THEN one ELSE IF k < c THEN zero ELSE <<k, c>>

(* Mutant: the strict upper triangle.                                      *)
UEntryStrict(r, c) == IF r < c \/ c >= Minmn THEN <<r, c>> ELSE zero

(* Columns up to the last of the square part get their first c + 1         *)
(* entries, the others all of them; U starts as zeros.                     *)
UEntry(r, c) == IF c < Minmn - 1 /\ r > c THEN zero ELSE <<r, c>>

-----------------------------------------------------------------------------
Done == i = Minmn

(* Following the interchanges from row r leads back to it in three moves.  *)
ShortCycle(r) == r \in {perm[r], perm[perm[r]], perm[perm[perm[r]]]}

(***************************************************************************)
(* L U is the argument: row r of L is the row of the unit lower triangle   *)
(* that the interchanges brought there from row r, and U is the upper      *)
(* triangle.                                                               *)
(***************************************************************************)
RowIsHome(r) ==
  \A c \in Pivots :
    LET k == CHOOSE q \in Rows : perm[q] = r
    IN  LEntry(r, c) = (IF k = c THEN one ELSE IF k < c THEN zero ELSE <<k, c>>)

UIsUpperTriangle ==
  Done => \A r \in Pivots, c \in 0..(n - 1) :
            UEntry(r, c) = IF r <= c THEN <<r, c>> ELSE zero

(* What check_lu.cc checks of the matrices it has: "check L*U == A".       *)
LTimesUIsA == Done => UIsUpperTriangle /\ \A r \in Rows : RowIsHome(r)

(* No row of the argument is lost or doubled, whatever xgetrf swapped.     *)
RowsArePermuted ==
  /\ \A k \in Rows : perm[k] \in Rows
  /\ \A k, q \in Rows : perm[k] = perm[q] => k = q

(* L is right in every row whose interchanges close after three rows or    *)
(* fewer, so for every argument of up to three rows.                       *)
ShortCyclesGoHome ==
  Done => \A r \in Rows : ShortCycle(r) => RowIsHome(r)
=============================================================================
