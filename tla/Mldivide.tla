------------------------------ MODULE Mldivide ------------------------------
(***************************************************************************)
(* mldivide_dense_runner (mldividerunner.cc): solve A X = B by the         *)
(* cheapest method the system allows, falling back to slower ones when a   *)
(* factorisation fails or the matrix is too close to singular.  LAPACK     *)
(* works in place, so what is modelled is what the two work buffers hold   *)
(* at each call: the matrix or the right-hand side, a row permutation of   *)
(* it, a factorisation, or the leavings of a failed attempt.               *)
(*                                                                         *)
(* What LAPACK answers is a nondeterministic choice over what it may       *)
(* answer for such a system; how its wrappers (module Lapack) pass it on,  *)
(* and what the runner's handlers make of it, is translated.               *)
(***************************************************************************)
EXTENDS Lapack, Sequences, FiniteSetsExt

VARIABLES system,     \* the arguments and what the probes find in them
          pc,         \* the attempt under way
          data1,      \* what the buffer for A holds
          data2,      \* what the buffer for B holds
          data2Rows,  \* the leading dimension data2 has room for
          info,       \* what the last call of LAPACK reported
          rcond,      \* reciprocal condition number: adding it to 1 is lost?
          anorm,      \* whose norm it was estimated with
          singular, attemptQR, choleskyMangledData,
          reg0        \* registers pushed

buffers == <<data1, data2, data2Rows>>
flags   == <<rcond, anorm, singular, attemptQR, choleskyMangledData>>
vars    == <<system, pc, buffers, info, flags, reg0>>

(* tri: no triangle, a lower or upper one, or a row permutation of an      *)
(* upper one (isTriangular).  A zero matrix is finite, lower triangular    *)
(* and, when square, Hermitian.                                            *)
System ==
  { s \in [rows1 : Dim, cols1 : Dim, rows2 : Dim, cols2 : Dim,
           finite : BOOLEAN, zero : BOOLEAN, hermitian : BOOLEAN,
           tri : {"NEITHER", "STANDARD", "ROW"}] :
      /\ s.rows1 # s.cols1 => s.tri = "NEITHER" /\ ~s.hermitian
      /\ s.rows1 = 1 /\ s.cols1 = 1 => s.tri = "STANDARD"
      /\ s.zero => s.finite
      /\ s.zero /\ s.rows1 = s.cols1 => s.tri = "STANDARD" /\ s.hermitian }

Attempt == {"start", "probe", "tricon", "trisolve", "cholesky", "cholcon",
            "cholsolve", "lup", "lupcon", "lupsolve", "singular",
            "leastSquares", "qr", "svd"}

Value == {"X", "Inf", "wrong"}
Register == [rows : Dim, cols : Dim, value : Value]

TypeOK ==
  /\ system \in System
  /\ pc \in Attempt \cup Ended
  /\ data1 \in {"A", "PA", "chol", "lu", "spoiled"}
  /\ data2 \in {"B", "PB", "spoiled"}
  /\ data2Rows \in Dim
  /\ info \in {-1, 0, 1}
  /\ rcond \in {"tiny", "ok"}
  /\ anorm \in {"none", "A", "PA", "chol", "lu", "spoiled"}
  /\ singular \in BOOLEAN /\ attemptQR \in BOOLEAN
  /\ choleskyMangledData \in BOOLEAN
  /\ reg0 \in Seq(Register) /\ Len(reg0) <= 2

Init ==
  /\ system \in System
  /\ pc = "start"
  /\ data1 = "A" /\ data2 = "B"
  /\ data2Rows = system.rows2
  /\ info = 0
  /\ rcond = "tiny" /\ anorm = "none"
  /\ singular = FALSE
  /\ attemptQR = TRUE
  /\ choleskyMangledData = FALSE
  /\ reg0 = <<>>

Square == system.rows1 = system.cols1
Wide   == system.rows1 < system.cols1
Ldb    == Max({system.rows1, system.cols1})

(* What solving with this matrix or factorisation, for this right-hand     *)
(* side, gives.                                                            *)
Solved(m, b) ==
  IF <<m, b>> \in {<<"A", "B">>, <<"PA", "PB">>, <<"chol", "B">>, <<"lu", "B">>}
  THEN "X" ELSE "wrong"

Pushed(r, c, v) == reg0' = Append(reg0, [rows |-> r, cols |-> c, value |-> v])

(* The direct solvers hand data2 over as the answer.                       *)
ReturnData2 ==
  /\ Pushed(system.rows2, system.cols2, Solved(data1, data2))
  /\ pc' = "returned"

(* Mutant: as many rows as B had.                                          *)
ReturnCopyOfB ==
  /\ Pushed(system.rows2, system.cols2, Solved(data1, data2))
  /\ pc' = "returned"

(* The least squares solvers copy the first cols1 rows of every column.    *)
ReturnCopy ==
  /\ Pushed(system.cols1, system.cols2, Solved(data1, data2))
  /\ pc' = "returned"

-----------------------------------------------------------------------------
(* The call an attempt makes, how its wrapper leaves, and the clause of    *)
(* the handler around it.                                                  *)
Routine == [tricon |-> "xtrcon", trisolve |-> "xtrtrs", cholesky |-> "xpotrf",
            cholcon |-> "xpocon", cholsolve |-> "xpotrs", lup |-> "xgetrf",
            lupcon |-> "xgecon", lupsolve |-> "xgetrs", qr |-> "xgels",
            svd |-> "xgelsd"]

How(routine, a) ==
  CASE routine = "xtrcon" -> xtrcon(system.rows1, a)
    [] routine = "xtrtrs" -> xtrtrs(a)
    [] routine = "xpotrf" -> xpotrf(a)
    [] routine = "xpocon" -> xpocon(system.rows1, a)
    [] routine = "xpotrs" -> xpotrs(a)
    [] routine = "xgetrf" -> xgetrf(system.finite, a)
    [] routine = "xgecon" -> xgecon(system.rows1, a)
    [] routine = "xgetrs" -> xgetrs(a)
    [] routine = "xgels"  -> xgels(a)
    [] routine = "xgelsd" -> xgelsd(a)

Handler(routine) ==
  CASE routine \in {"xtrtrs", "xpotrf", "xgels", "xgelsd"} -> "rdag_error"
    [] routine = "xgetrf" -> "rdag_recoverable_error"
    [] OTHER -> "none"

(* Mutant: what reports an illegal argument is not thrown again.           *)
EscapesUncaughtOnly(routine, a) ==
  LET how == How(routine, a)
  IN  how # "returns" /\ ~Catches(Handler(routine), how)

(* What the clause does not catch leaves the runner, and so does what      *)
(* reports an illegal argument, which the handlers throw again.            *)
Escapes(routine, a) ==
  LET how == How(routine, a)
  IN  how # "returns" /\ (~Catches(Handler(routine), how) \/ Info(a) < 0)

(* The attempt's call is made, and the runner goes on after it.            *)
Calls(attempt) ==
  /\ pc = attempt
  /\ \E a \in Answers(Routine[attempt]) :
       ~Escapes(Routine[attempt], a) /\ info' = Info(a)

-----------------------------------------------------------------------------
Rejected == system.rows1 # system.rows2 \/ ~system.finite

RejectSystem ==
  /\ pc = "start"
  /\ Rejected
  /\ pc' = "thrown"
  /\ UNCHANGED <<system, buffers, info, flags, reg0>>

(* A matrix of zeros has its answer pushed, and goes on like the others.   *)
AcceptSystem ==
  /\ pc = "start"
  /\ ~Rejected
  /\ IF system.zero THEN Pushed(system.rows2, system.cols2, "Inf")
                    ELSE UNCHANGED reg0
  /\ pc' = IF Square THEN "probe" ELSE "leastSquares"
  /\ UNCHANGED <<system, buffers, info, flags>>

(* A permuted triangle is rewritten as one, in new buffers; the originals  *)
(* are kept aside.                                                         *)
ProbeTriangular ==
  /\ pc = "probe"
  /\ IF system.tri = "ROW" THEN data1' = "PA" /\ data2' = "PB"
                           ELSE UNCHANGED <<data1, data2>>
  /\ pc' = IF system.tri = "NEITHER" THEN "cholesky" ELSE "tricon"
  /\ UNCHANGED <<system, data2Rows, info, flags, reg0>>

(* A condition number came back; a bad one marks the system singular.      *)
Condition(solve) ==
  /\ rcond' \in IF system.zero THEN {"tiny"} ELSE {"tiny", "ok"}
  /\ singular' = (singular \/ rcond' = "tiny")
  /\ pc' = IF rcond' = "ok" THEN solve ELSE "singular"

TriangularCondition ==
  /\ Calls("tricon")
  /\ Condition("trisolve")
  /\ UNCHANGED <<system, buffers, anorm, attemptQR, choleskyMangledData, reg0>>

TriangularSolve ==
  /\ Calls("trisolve")
  /\ info' = 0
  /\ ReturnData2
  /\ UNCHANGED <<system, buffers, flags>>

(* A zero on the diagonal: nothing is solved and the kept buffers, if any, *)
(* are swapped back.                                                       *)
TriangularSolveFails ==
  /\ Calls("trisolve")
  /\ info' # 0
  /\ singular' = TRUE
  /\ data1' = "A" /\ data2' = "B"
  /\ pc' = "singular"
  /\ UNCHANGED <<system, data2Rows, rcond, anorm, attemptQR,
                 choleskyMangledData, reg0>>

-----------------------------------------------------------------------------
NotHermitian ==
  /\ pc = "cholesky"
  /\ ~system.hermitian
  /\ pc' = "lup"
  /\ UNCHANGED <<system, buffers, info, flags, reg0>>

(* The factorisation fails when the matrix is not positive definite.       *)
Cholesky ==
  /\ system.hermitian
  /\ Calls("cholesky")
  /\ choleskyMangledData' = TRUE
  /\ IF info' = 0 THEN data1' = "chol" /\ pc' = "cholcon"
                  ELSE data1' = "spoiled" /\ pc' = "lup"
  /\ UNCHANGED <<system, data2, data2Rows, rcond, anorm, singular, attemptQR,
                 reg0>>

(* Mutant: LUP is tried in spite of the bad condition number.              *)
CholeskyConditionGoesOn ==
  /\ Calls("cholcon")
  /\ anorm' = data1
  /\ rcond' \in {"tiny", "ok"}
  /\ singular' = (rcond' = "tiny")
  /\ pc' = IF singular' THEN "lup" ELSE "cholsolve"
  /\ UNCHANGED <<system, buffers, attemptQR, choleskyMangledData, reg0>>

(* The norm is taken of what the buffer holds.                             *)
CholeskyCondition ==
  /\ Calls("cholcon")
  /\ anorm' = data1
  /\ Condition("cholsolve")
  /\ UNCHANGED <<system, buffers, attemptQR, choleskyMangledData, reg0>>

CholeskySolve ==
  /\ Calls("cholsolve")
  /\ ReturnData2
  /\ UNCHANGED <<system, buffers, flags>>

(* Mutant: what Cholesky left is factorised.                               *)
NotRecopied == data1

Recopied == IF choleskyMangledData THEN "A" ELSE data1

(* A zero pivot makes the system singular.                                 *)
LupDecomposition ==
  /\ Calls("lup")
  /\ IF info' = 0
     THEN /\ data1' = IF Recopied = "A" THEN "lu" ELSE "spoiled"
          /\ pc' = "lupcon"
          /\ UNCHANGED singular
     ELSE data1' = "spoiled" /\ pc' = "singular" /\ singular' = TRUE
  /\ UNCHANGED <<system, data2, data2Rows, rcond, anorm, attemptQR,
                 choleskyMangledData, reg0>>

(* The norm is taken of the argument.                                      *)
LupCondition ==
  /\ Calls("lupcon")
  /\ anorm' = "A"
  /\ Condition("lupsolve")
  /\ UNCHANGED <<system, buffers, attemptQR, choleskyMangledData, reg0>>

LupSolve ==
  /\ Calls("lupsolve")
  /\ ReturnData2
  /\ UNCHANGED <<system, buffers, flags>>

-----------------------------------------------------------------------------
(* Mutant: the matrix is not taken from the argument again.                *)
SingularKeepsData ==
  /\ pc = "singular"
  /\ attemptQR' = (rcond = "ok")
  /\ pc' = "leastSquares"
  /\ UNCHANGED <<system, buffers, info, rcond, anorm, singular,
                 choleskyMangledData, reg0>>

(* A singular system: QR is pointless when the condition number is lost,   *)
(* and the matrix is taken from the argument again.                        *)
SingularSystem ==
  /\ pc = "singular"
  /\ attemptQR' = (rcond = "ok")
  /\ data1' = "A"
  /\ pc' = "leastSquares"
  /\ UNCHANGED <<system, data2, data2Rows, info, rcond, anorm, singular,
                 choleskyMangledData, reg0>>

(* Underdetermined: X is longer than B, so B is moved to a longer buffer.  *)
PrepareLeastSquares ==
  /\ pc = "leastSquares"
  /\ data2Rows' = IF Wide THEN Ldb ELSE data2Rows
  /\ pc' = IF attemptQR THEN "qr" ELSE "svd"
  /\ UNCHANGED <<system, data1, data2, info, flags, reg0>>

QRSolve ==
  /\ Calls("qr")
  /\ info' <= 0
  /\ ReturnCopy
  /\ UNCHANGED <<system, buffers, flags>>

(* Rank deficient, which xgels does not say of zeros, nor of a single row  *)
(* or column, whose triangular factor is its norm.  It has applied the     *)
(* transpose of Q to B by then if there are at least as many rows as       *)
(* columns.  A is copied back, B only where it was moved.                  *)
QRFails ==
  /\ Calls("qr")
  /\ info' > 0
  /\ ~system.zero /\ Min({system.rows1, system.cols1}) > 1
  /\ data1' = "A"
  /\ data2' = IF Wide THEN data2 ELSE "spoiled"
  /\ pc' = "svd"
  /\ UNCHANGED <<system, data2Rows, flags, reg0>>

SVDSolve ==
  /\ Calls("svd")
  /\ info' = 0
  /\ ReturnCopy
  /\ UNCHANGED <<system, buffers, flags>>

(* No convergence: the runner throws an error of its own.                  *)
SVDFails ==
  /\ Calls("svd")
  /\ info' # 0
  /\ pc' = "thrown"
  /\ UNCHANGED <<system, buffers, flags, reg0>>

(* The exception of an attempt's call leaves the runner.                   *)
Throws ==
  /\ pc \in DOMAIN Routine
  /\ pc = "cholesky" => system.hermitian
  /\ \E a \in Answers(Routine[pc]) : Escapes(Routine[pc], a) /\ info' = Info(a)
  /\ pc' = "thrown"
  /\ UNCHANGED <<system, buffers, flags, reg0>>

Next ==
  \/ RejectSystem \/ AcceptSystem \/ ProbeTriangular
  \/ TriangularCondition \/ TriangularSolve \/ TriangularSolveFails
  \/ NotHermitian \/ Cholesky \/ CholeskyCondition \/ CholeskySolve
  \/ LupDecomposition \/ LupCondition \/ LupSolve
  \/ SingularSystem \/ PrepareLeastSquares \/ QRSolve \/ QRFails
  \/ SVDSolve \/ SVDFails \/ Throws

Spec == Init /\ [][Next]_vars /\ WF_vars(Next)

-----------------------------------------------------------------------------
(* The system is solved, except in two cases that the comments quoted below*)
(* rule out: an ill-conditioned permuted triangle, and a rank-deficient    *)
(* system with as many rows as columns or more that QR was tried on.       *)
WrongOnlyAsKnown ==
  \A i \in 1..Len(reg0) : reg0[i].value = "wrong" =>
     \/ system.tri = "ROW" /\ rcond = "tiny"
     \/ ~Wide /\ attemptQR /\ data2 = "spoiled"

(* What reads an answer reads register 0.  Of a system that is not zeros   *)
(* it is the only one, and an X for which A X = B makes sense; a call that *)
(* throws has pushed none.  Of zeros it is always the infinite one, which  *)
(* has the shape of X when the system is square.                           *)
OneAnswerUnlessZeros ==
  /\ ~system.zero /\ pc = "thrown" => reg0 = <<>>
  /\ pc = "returned" =>
       /\ IF system.zero THEN reg0[1].value = "Inf" ELSE Len(reg0) = 1
       /\ ~system.zero \/ Square =>
            reg0[1].rows = system.cols1 /\ reg0[1].cols = system.cols2

(* How far down the list of methods in the runner's comment an attempt is. *)
Rank == [a \in Attempt \cup Ended |->
  CASE a \in {"start", "probe"} -> 0 [] a \in {"tricon", "trisolve"} -> 1
    [] a \in {"cholesky", "cholcon", "cholsolve"} -> 2
    [] a \in {"lup", "lupcon", "lupsolve"} -> 3
    [] a \in {"singular", "leastSquares"} -> 4 [] a = "qr" -> 5
    [] a = "svd" -> 6 [] OTHER -> 7]

(* The fallbacks only ever go down the list in the runner's comment: once  *)
(* singular, no direct solver is run; after SVD, nothing is.               *)
FallbacksGoDown ==
  [][Rank[pc'] >= Rank[pc] /\ (singular => Rank[pc'] >= 4)]_vars

(* An illegal argument that LAPACK reports is never answered with a        *)
(* result, whatever handlers stand around the call.                        *)
RejectionEscapes == [][info' < 0 => pc' = "thrown"]_vars

(* The inductive invariant.  What the buffers hold follows from the        *)
(* attempt under way, whatever was tried before.                           *)
Direct == {"probe", "tricon", "trisolve", "cholesky", "cholcon", "cholsolve",
           "lup", "lupcon", "lupsolve", "singular"}

(* A right-hand side that is not B comes from one of two cases.            *)
RightHandSide ==
  \/ data2 = "B"
  \/ data2 = "PB" /\ system.tri = "ROW" /\ rcond = "tiny"
  \/ data2 = "spoiled" /\ pc = "svd" /\ ~Wide /\ attemptQR

BuffersFit ==
  /\ pc \in {"start", "probe", "cholesky"} => data1 = "A" /\ data2 = "B"
  /\ pc \in {"tricon", "trisolve"} =>
       \/ data1 = "A" /\ data2 = "B"
       \/ data1 = "PA" /\ data2 = "PB" /\ system.tri = "ROW"
  /\ pc \in {"cholcon", "cholsolve"} =>
       data1 = "chol" /\ data2 = "B" /\ choleskyMangledData
  /\ pc = "lup" => data2 = "B" /\ Recopied = "A"
  /\ pc \in {"lupcon", "lupsolve"} => data1 = "lu" /\ data2 = "B"
  /\ pc \in {"singular", "leastSquares", "qr", "svd"} => RightHandSide

(* A least squares solver works on A itself, and on a right-hand side as   *)
(* long as its leading dimension says.                                     *)
LeastSquaresOnA ==
  /\ pc \in {"leastSquares", "qr", "svd"} => data1 = "A"
  /\ pc \in {"qr", "svd"} => data2Rows = Ldb

(* The condition number that decides what is tried next is estimated with  *)
(* the norm of A, however the buffer was overwritten before; all but       *)
(* Cholesky's, which takes the norm of its own factor.                     *)
ConditionIsOfA ==
  anorm \in {"none", "A"} \/ (choleskyMangledData /\ anorm = "chol")

(* An accepted system, the flags and what was pushed before the answer.    *)
Progress ==
  /\ pc \notin {"start", "thrown"} => ~Rejected
  /\ pc \in Direct => Square
  /\ pc \notin {"qr", "svd"} \cup Ended => data2Rows = system.rows2
  /\ pc = "qr" => attemptQR
  /\ singular => pc \in {"singular", "leastSquares", "qr", "svd"} \cup Ended
  /\ info < 0 => pc = "thrown"
  /\ pc = "start" => reg0 = <<>>
  /\ pc \notin {"start", "returned"} /\ ~system.zero => reg0 = <<>>
  /\ pc \notin {"start", "returned", "thrown"} /\ system.zero =>
       reg0 = <<[rows |-> system.rows2, cols |-> system.cols2, value |-> "Inf"]>>
  /\ pc = "thrown" => \A k \in 1..Len(reg0) : reg0[k].value = "Inf"

MldivideInv ==
  /\ TypeOK
  /\ BuffersFit
  /\ LeastSquaresOnA
  /\ ConditionIsOfA
  /\ Progress
  /\ WrongOnlyAsKnown
  /\ OneAnswerUnlessZeros

-----------------------------------------------------------------------------
(* What two comments of the runner say, and it does not do.  "given we are *)
(* in the realm of least squares solutions, we need to reset the           *)
(* permutation back to the original data", and "copy back in data1 and     *)
(* strips of data2, both will be needed for svd": whatever was tried       *)
(* before, least squares starts from the system the caller gave.           *)
LeastSquaresGetsTheSystem ==
  pc \in {"qr", "svd"} => data1 = "A" /\ data2 = "B"

(* "check for all zeros system matrix, quick return if so": what is pushed *)
(* for zeros is all that is.                                               *)
ZerosReturnAtOnce == system.zero /\ pc = "returned" => Len(reg0) = 1
=============================================================================
