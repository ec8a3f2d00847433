--------------------------- MODULE Runners_proofs ---------------------------
(***************************************************************************)
(* Proofs about the matrix runners: the attempts of mldivide, for systems  *)
(* of any dimensions; the probe for triangles it starts with, for matrices *)
(* of every order; and the row bookkeeping of lu, for arguments of every   *)
(* size and every sequence of interchanges.                                *)
(***************************************************************************)
EXTENDS Mldivide, TriangularProbe, LuRunner, FiniteSetTheorems, TLAPS

-----------------------------------------------------------------------------
(* Mldivide.                                                               *)

(* Which of two numbers is the leading dimension.                          *)
LEMMA LdbIs ==
  ASSUME TypeOK
  PROVE  /\ Ldb \in Dim
         /\ Ldb = IF Wide THEN system.cols1 ELSE system.rows1
<1>1. /\ system.rows1 \in Dim /\ system.cols1 \in Dim
      /\ system.rows1 \in Nat /\ system.cols1 \in Nat
  BY DimAssumption DEF TypeOK, System, Dim
<1>2. \A a, b \in Nat : a >= b => Max({a, b}) = a
  BY DEF Max
<1>3. \A a, b \in Nat : Max({a, b}) = Max({b, a})
  <2>1. \A a, b \in Nat : {a, b} = {b, a}
    OBVIOUS
  <2>2. QED
    BY <2>1
<1>4. CASE Wide
  <2>1. Max({system.cols1, system.rows1}) = system.cols1
    <3>1. /\ system.cols1 \in Nat /\ system.rows1 \in Nat
          /\ system.cols1 >= system.rows1
      BY <1>1, <1>4 DEF Wide
    <3>2. QED
      BY <1>2, <3>1
  <2>2. Ldb = system.cols1
    BY <1>1, <1>3, <2>1 DEF Ldb
  <2>3. QED
    BY <1>1, <1>4, <2>2 DEF Wide
<1>5. CASE ~Wide
  <2>1. Max({system.rows1, system.cols1}) = system.rows1
    <3>1. /\ system.cols1 \in Nat /\ system.rows1 \in Nat
          /\ system.rows1 >= system.cols1
      BY <1>1, <1>5 DEF Wide
    <3>2. QED
      BY <1>2, <3>1
  <2>2. Ldb = system.rows1
    BY <2>1 DEF Ldb
  <2>3. QED
    BY <1>1, <1>5, <2>2 DEF Wide
<1>6. QED
  BY <1>4, <1>5

(* No wrapper returns after LAPACK rejected an argument.                   *)
LEMMA IllegalThrows ==
  ASSUME NEW attempt \in DOMAIN Routine, NEW a \in Answers(Routine[attempt]),
         Info(a) < 0
  PROVE  How(Routine[attempt], a) # "returns"
<1>1. /\ a.query \in {-1, 0} /\ a.final \in {-1, 0, 1}
      /\ a.query < 0 \/ a.final < 0
  BY DEF Answers, Info
<1>2. Routine[attempt] \notin MakesQuery => a.query = 0
  BY DEF Answers
<1>3. attempt \in {"tricon", "trisolve", "cholesky", "cholcon", "cholsolve",
                  "lup", "lupcon", "lupsolve", "qr", "svd"}
  BY DEF Routine
<1>4. CASE attempt \in {"qr", "svd"}
  BY <1>1, <1>4 DEF Routine, How, xgels, xgelsd, ThrowsUnless, Info
<1>5. CASE attempt = "lup"
  <2>1. a.final < 0
    BY <1>1, <1>2, <1>5 DEF Routine, MakesQuery
  <2>2. QED
    BY <1>1, <1>5, <2>1 DEF Routine, How, xgetrf, checkData
<1>6. CASE attempt \in {"tricon", "trisolve", "cholesky", "cholcon", "cholsolve",
                       "lupcon", "lupsolve"}
  <2>1. a.final < 0
    BY <1>1, <1>2, <1>6 DEF Routine, MakesQuery
  <2>2. QED
    BY <1>1, <1>6, <2>1
       DEF Routine, How, xtrcon, xtrtrs, xpotrf, xpocon, xpotrs, xgecon, xgetrs,
           ThrowsUnless
<1>7. QED
  BY <1>3, <1>4, <1>5, <1>6

(* What a call that the runner goes on after has reported: nothing illegal.*)
LEMMA GoingOn ==
  ASSUME NEW attempt \in DOMAIN Routine, Calls(attempt)
  PROVE  /\ pc = attempt
         /\ info' \in {0, 1}
         /\ info' = 1 => attempt \in {"cholesky", "trisolve", "lup", "qr", "svd"}
<1>1. PICK a \in Answers(Routine[attempt]) :
        ~Escapes(Routine[attempt], a) /\ info' = Info(a)
  BY DEF Calls
<1>2. Info(a) \in {-1, 0, 1}
  BY <1>1 DEF Answers, Info
<1>3. Info(a) # 1 \/ attempt \in {"cholesky", "trisolve", "lup", "qr", "svd"}
  BY <1>1 DEF Answers, Info, MakesQuery, MayFail, Routine
<1>4. ~(Info(a) < 0)
  BY <1>1, IllegalThrows DEF Escapes
<1>5. QED
  BY <1>1, <1>2, <1>3, <1>4 DEF Calls

LEMMA InitInv == Init => MldivideInv
<1>1. SUFFICES ASSUME Init PROVE MldivideInv
  OBVIOUS
<1>2. TypeOK
  <2>1. system \in System /\ system.rows2 \in Dim
    BY <1>1 DEF Init, System
  <2>2. reg0 \in Seq(Register) /\ Len(reg0) = 0
    BY <1>1 DEF Init
  <2>3. /\ pc \in Attempt \cup Ended /\ data2Rows \in Dim
        /\ singular \in BOOLEAN /\ attemptQR \in BOOLEAN
        /\ choleskyMangledData \in BOOLEAN
    BY <1>1, <2>1 DEF Init, Attempt
  <2>4. Len(reg0) <= 2
    BY <2>2
  <2>5. QED
    BY <1>1, <2>1, <2>2, <2>3, <2>4 DEF Init, TypeOK
<1>3. QED
  BY <1>1, <1>2
     DEF Init, MldivideInv, BuffersFit, LeastSquaresOnA, ConditionIsOfA,
     Progress, WrongOnlyAsKnown, OneAnswerUnlessZeros, Direct, Ended

(* A step that answers nothing.                                            *)
LEMMA Unanswered ==
  ASSUME MldivideInv, UNCHANGED <<system, reg0>>, TypeOK', BuffersFit',
         LeastSquaresOnA', ConditionIsOfA', Progress', pc' # "returned",
         pc # "returned"
  PROVE  MldivideInv'
<1>1. \A k \in 1..Len(reg0') : reg0'[k].value # "wrong"
  BY DEF MldivideInv, Progress, TypeOK
<1>2. WrongOnlyAsKnown'
  BY <1>1 DEF WrongOnlyAsKnown
<1>3. OneAnswerUnlessZeros'
  BY DEF OneAnswerUnlessZeros, Progress, Ended
<1>4. QED
  BY <1>2, <1>3 DEF MldivideInv

(* The steps that only decide what is tried next.                          *)
LEMMA Decisions ==
  ASSUME MldivideInv, ProbeTriangular \/ NotHermitian \/ SingularSystem
  PROVE  MldivideInv'
<1> USE DEF buffers, flags
<1>1. CASE ProbeTriangular
  <2>1. TypeOK'
    BY <1>1 DEF MldivideInv, ProbeTriangular, TypeOK, Attempt, Ended
  <2>2. BuffersFit'
    BY <1>1
       DEF MldivideInv, ProbeTriangular, BuffersFit, RightHandSide, Progress,
           TypeOK, System, Recopied, Wide, Square, Direct
  <2>3. LeastSquaresOnA'
    BY <1>1
       DEF MldivideInv, ProbeTriangular, LeastSquaresOnA, BuffersFit, Progress,
           Ended, Ldb
  <2>4. ConditionIsOfA'
    BY <1>1 DEF MldivideInv, ProbeTriangular, ConditionIsOfA, BuffersFit, TypeOK
  <2>5. Progress'
    BY <1>1
       DEF MldivideInv, ProbeTriangular, Progress, TypeOK, System, Square,
           Rejected, Direct, Ended
  <2>6. QED
    BY <1>1, <2>1, <2>2, <2>3, <2>4, <2>5, Unanswered DEF ProbeTriangular
<1>2. CASE NotHermitian
  <2>1. TypeOK'
    BY <1>2 DEF MldivideInv, NotHermitian, TypeOK, Attempt, Ended
  <2>2. BuffersFit'
    BY <1>2
       DEF MldivideInv, NotHermitian, BuffersFit, RightHandSide, Progress,
           TypeOK, System, Recopied, Wide, Square, Direct
  <2>3. LeastSquaresOnA'
    BY <1>2
       DEF MldivideInv, NotHermitian, LeastSquaresOnA, BuffersFit, Progress,
           Ended, Ldb
  <2>4. ConditionIsOfA'
    BY <1>2 DEF MldivideInv, NotHermitian, ConditionIsOfA, BuffersFit, TypeOK
  <2>5. Progress'
    BY <1>2
       DEF MldivideInv, NotHermitian, Progress, TypeOK, System, Square,
           Rejected, Direct, Ended
  <2>6. QED
    BY <1>2, <2>1, <2>2, <2>3, <2>4, <2>5, Unanswered DEF NotHermitian
<1>3. CASE SingularSystem
  <2>1. TypeOK'
    BY <1>3 DEF MldivideInv, SingularSystem, TypeOK, Attempt, Ended
  <2>2. BuffersFit'
    BY <1>3
       DEF MldivideInv, SingularSystem, BuffersFit, RightHandSide, Progress,
           TypeOK, System, Recopied, Wide, Square, Direct
  <2>3. LeastSquaresOnA'
    BY <1>3
       DEF MldivideInv, SingularSystem, LeastSquaresOnA, BuffersFit, Progress,
           Ended, Ldb
  <2>4. ConditionIsOfA'
    BY <1>3 DEF MldivideInv, SingularSystem, ConditionIsOfA, BuffersFit, TypeOK
  <2>5. Progress'
    BY <1>3
       DEF MldivideInv, SingularSystem, Progress, TypeOK, System, Square,
           Rejected, Direct, Ended
  <2>6. QED
    BY <1>3, <2>1, <2>2, <2>3, <2>4, <2>5, Unanswered DEF SingularSystem
<1>4. QED
  BY <1>1, <1>2, <1>3

(* The estimates of condition numbers.                                     *)
LEMMA Conditions ==
  ASSUME MldivideInv, TriangularCondition \/ CholeskyCondition \/ LupCondition
  PROVE  MldivideInv'
<1> USE DEF buffers, flags
<1>1. CASE TriangularCondition
  <2>1. /\ pc = "tricon" /\ info' \in {0, 1}
    BY <1>1, GoingOn DEF TriangularCondition, Routine
  <2>2. TypeOK'
    BY <2>1, <1>1
       DEF MldivideInv, TriangularCondition, Condition, TypeOK, Attempt, Ended
  <2>3. BuffersFit'
    BY <2>1, <1>1
       DEF MldivideInv, TriangularCondition, Condition, BuffersFit,
           RightHandSide, Progress, TypeOK, System, Recopied, Wide, Square,
           Direct
  <2>4. LeastSquaresOnA'
    BY <2>1, <1>1
       DEF MldivideInv, TriangularCondition, Condition, LeastSquaresOnA,
           BuffersFit, Progress, Ended, Ldb
  <2>5. ConditionIsOfA'
    BY <2>1, <1>1
       DEF MldivideInv, TriangularCondition, Condition, ConditionIsOfA,
           BuffersFit, TypeOK
  <2>6. Progress'
    BY <2>1, <1>1
       DEF MldivideInv, TriangularCondition, Condition, Progress, TypeOK,
           System, Square, Rejected, Direct, Ended
  <2>7. QED
    BY <2>1, <1>1, <2>2, <2>3, <2>4, <2>5, <2>6, Unanswered
       DEF TriangularCondition, Condition
<1>2. CASE CholeskyCondition
  <2>1. /\ pc = "cholcon" /\ info' \in {0, 1}
    BY <1>2, GoingOn DEF CholeskyCondition, Routine
  <2>2. TypeOK'
    BY <2>1, <1>2
       DEF MldivideInv, CholeskyCondition, Condition, TypeOK, Attempt, Ended
  <2>3. BuffersFit'
    BY <2>1, <1>2
       DEF MldivideInv, CholeskyCondition, Condition, BuffersFit,
           RightHandSide, Progress, TypeOK, System, Recopied, Wide, Square,
           Direct
  <2>4. LeastSquaresOnA'
    BY <2>1, <1>2
       DEF MldivideInv, CholeskyCondition, Condition, LeastSquaresOnA,
           BuffersFit, Progress, Ended, Ldb
  <2>5. ConditionIsOfA'
    BY <2>1, <1>2
       DEF MldivideInv, CholeskyCondition, Condition, ConditionIsOfA,
           BuffersFit, TypeOK
  <2>6. Progress'
    BY <2>1, <1>2
       DEF MldivideInv, CholeskyCondition, Condition, Progress, TypeOK, System,
           Square, Rejected, Direct, Ended
  <2>7. QED
    BY <2>1, <1>2, <2>2, <2>3, <2>4, <2>5, <2>6, Unanswered
       DEF CholeskyCondition, Condition
<1>3. CASE LupCondition
  <2>1. /\ pc = "lupcon" /\ info' \in {0, 1}
    BY <1>3, GoingOn DEF LupCondition, Routine
  <2>2. TypeOK'
    BY <2>1, <1>3
       DEF MldivideInv, LupCondition, Condition, TypeOK, Attempt, Ended
  <2>3. BuffersFit'
    BY <2>1, <1>3
       DEF MldivideInv, LupCondition, Condition, BuffersFit, RightHandSide,
           Progress, TypeOK, System, Recopied, Wide, Square, Direct
  <2>4. LeastSquaresOnA'
    BY <2>1, <1>3
       DEF MldivideInv, LupCondition, Condition, LeastSquaresOnA, BuffersFit,
           Progress, Ended, Ldb
  <2>5. ConditionIsOfA'
    BY <2>1, <1>3
       DEF MldivideInv, LupCondition, Condition, ConditionIsOfA, BuffersFit,
           TypeOK
  <2>6. Progress'
    BY <2>1, <1>3
       DEF MldivideInv, LupCondition, Condition, Progress, TypeOK, System,
           Square, Rejected, Direct, Ended
  <2>7. QED
    BY <2>1, <1>3, <2>2, <2>3, <2>4, <2>5, <2>6, Unanswered
       DEF LupCondition, Condition
<1>4. QED
  BY <1>1, <1>2, <1>3

(* Factorisations, and solvers that fail.                                  *)
LEMMA Attempts ==
  ASSUME MldivideInv,
         TriangularSolveFails \/ Cholesky \/ LupDecomposition \/ QRFails
  PROVE  MldivideInv'
<1> USE DEF buffers, flags
<1>1. CASE TriangularSolveFails
  <2>1. /\ pc = "trisolve" /\ info' \in {0, 1}
    BY <1>1, GoingOn DEF TriangularSolveFails, Routine
  <2>2. TypeOK'
    BY <2>1, <1>1 DEF MldivideInv, TriangularSolveFails, TypeOK, Attempt, Ended
  <2>3. BuffersFit'
    BY <2>1, <1>1
       DEF MldivideInv, TriangularSolveFails, BuffersFit, RightHandSide,
           Progress, TypeOK, System, Recopied, Wide, Square, Direct
  <2>4. LeastSquaresOnA'
    BY <2>1, <1>1
       DEF MldivideInv, TriangularSolveFails, LeastSquaresOnA, BuffersFit,
           Progress, Ended, Ldb
  <2>5. ConditionIsOfA'
    BY <2>1, <1>1
       DEF MldivideInv, TriangularSolveFails, ConditionIsOfA, BuffersFit,
           TypeOK
  <2>6. Progress'
    BY <2>1, <1>1
       DEF MldivideInv, TriangularSolveFails, Progress, TypeOK, System, Square,
           Rejected, Direct, Ended
  <2>7. QED
    BY <2>1, <1>1, <2>2, <2>3, <2>4, <2>5, <2>6, Unanswered
       DEF TriangularSolveFails
<1>2. CASE Cholesky
  <2>1. /\ pc = "cholesky" /\ info' \in {0, 1}
    BY <1>2, GoingOn DEF Cholesky, Routine
  <2>2. TypeOK'
    BY <2>1, <1>2 DEF MldivideInv, Cholesky, TypeOK, Attempt, Ended
  <2>3. BuffersFit'
    BY <2>1, <1>2
       DEF MldivideInv, Cholesky, BuffersFit, RightHandSide, Progress, TypeOK,
           System, Recopied, Wide, Square, Direct
  <2>4. LeastSquaresOnA'
    BY <2>1, <1>2
       DEF MldivideInv, Cholesky, LeastSquaresOnA, BuffersFit, Progress, Ended,
           Ldb
  <2>5. ConditionIsOfA'
    BY <2>1, <1>2 DEF MldivideInv, Cholesky, ConditionIsOfA, BuffersFit, TypeOK
  <2>6. Progress'
    BY <2>1, <1>2
       DEF MldivideInv, Cholesky, Progress, TypeOK, System, Square, Rejected,
           Direct, Ended
  <2>7. QED
    BY <2>1, <1>2, <2>2, <2>3, <2>4, <2>5, <2>6, Unanswered DEF Cholesky
<1>3. CASE LupDecomposition
  <2>1. /\ pc = "lup" /\ info' \in {0, 1}
    BY <1>3, GoingOn DEF LupDecomposition, Routine
  <2>2. TypeOK'
    BY <2>1, <1>3
       DEF MldivideInv, LupDecomposition, Recopied, TypeOK, Attempt, Ended
  <2>3. BuffersFit'
    BY <2>1, <1>3
       DEF MldivideInv, LupDecomposition, BuffersFit, RightHandSide,
           Progress, TypeOK, System, Recopied, Wide, Square, Direct
  <2>4. LeastSquaresOnA'
    BY <2>1, <1>3
       DEF MldivideInv, LupDecomposition, Recopied, LeastSquaresOnA,
           BuffersFit, Progress, Ended, Ldb
  <2>5. ConditionIsOfA'
    BY <2>1, <1>3
       DEF MldivideInv, LupDecomposition, Recopied, ConditionIsOfA, BuffersFit,
           TypeOK
  <2>6. Progress'
    BY <2>1, <1>3
       DEF MldivideInv, LupDecomposition, Recopied, Progress, TypeOK, System,
           Square, Rejected, Direct, Ended
  <2>7. QED
    BY <2>1, <1>3, <2>2, <2>3, <2>4, <2>5, <2>6, Unanswered
       DEF LupDecomposition, Recopied
<1>4. CASE QRFails
  <2>1. /\ pc = "qr" /\ info' \in {0, 1}
    BY <1>4, GoingOn DEF QRFails, Routine
  <2>2. TypeOK'
    BY <2>1, <1>4 DEF MldivideInv, QRFails, TypeOK, Attempt, Ended
  <2>3. BuffersFit'
    BY <2>1, <1>4
       DEF MldivideInv, QRFails, BuffersFit, RightHandSide, Progress, TypeOK,
           System, Recopied, Wide, Square, Direct
  <2>4. LeastSquaresOnA'
    BY <2>1, <1>4
       DEF MldivideInv, QRFails, LeastSquaresOnA, BuffersFit, Progress, Ended,
           Ldb
  <2>5. ConditionIsOfA'
    BY <2>1, <1>4 DEF MldivideInv, QRFails, ConditionIsOfA, BuffersFit, TypeOK
  <2>6. Progress'
    BY <2>1, <1>4
       DEF MldivideInv, QRFails, Progress, TypeOK, System, Square, Rejected,
           Direct, Ended
  <2>7. QED
    BY <2>1, <1>4, <2>2, <2>3, <2>4, <2>5, <2>6, Unanswered DEF QRFails
<1>5. QED
  BY <1>1, <1>2, <1>3, <1>4

(* The steps that accept or reject the system, move B, or throw.           *)
LEMMA Accepted ==
  ASSUME MldivideInv,
         \/ RejectSystem \/ AcceptSystem \/ PrepareLeastSquares \/ SVDFails
         \/ Throws
  PROVE  MldivideInv'
<1> USE DEF buffers, flags
<1>1. CASE RejectSystem
  BY <1>1, Unanswered
     DEF RejectSystem, MldivideInv, TypeOK, Attempt, Ended, BuffersFit,
         LeastSquaresOnA, ConditionIsOfA, Progress, Direct
<1>2. CASE PrepareLeastSquares
  <2>1. data2Rows' = Ldb
    <3>1. system.rows1 = system.rows2 /\ data2Rows = system.rows2
      BY <1>2 DEF PrepareLeastSquares, MldivideInv, Progress, Rejected, Ended
    <3>2. QED
      BY <1>2, <3>1, LdbIs DEF PrepareLeastSquares, MldivideInv
  <2>2. TypeOK'
    BY <1>2, <2>1, LdbIs DEF PrepareLeastSquares, MldivideInv, TypeOK, Attempt
  <2>3. BuffersFit'
    BY <1>2
       DEF PrepareLeastSquares, MldivideInv, BuffersFit, RightHandSide, Wide
  <2>4. LeastSquaresOnA'
    BY <1>2, <2>1 DEF PrepareLeastSquares, MldivideInv, LeastSquaresOnA, Ldb
  <2>5. ConditionIsOfA'
    BY <1>2 DEF PrepareLeastSquares, MldivideInv, ConditionIsOfA
  <2>6. Progress'
    BY <1>2 DEF PrepareLeastSquares, MldivideInv, Progress, TypeOK, Rejected,
                Direct, Ended
  <2>7. QED
    BY <1>2, <2>2, <2>3, <2>4, <2>5, <2>6, Unanswered DEF PrepareLeastSquares
<1>3. CASE SVDFails
  <2>1. pc = "svd" /\ info' \in {0, 1}
    BY <1>3, GoingOn DEF SVDFails, Routine
  <2>2. QED
    BY <1>3, <2>1, Unanswered
       DEF SVDFails, MldivideInv, TypeOK, Attempt, Ended, BuffersFit,
           LeastSquaresOnA, ConditionIsOfA, Progress, Direct
<1>4. CASE Throws
  <2>1. info' \in {-1, 0, 1}
    BY <1>4 DEF Throws, Answers, Info
  <2>2. pc \notin Ended \cup {"start"}
    BY <1>4 DEF Throws, Routine, Ended
  <2>3. QED
    BY <1>4, <2>1, <2>2, Unanswered
       DEF Throws, MldivideInv, TypeOK, Attempt, Ended, BuffersFit,
           LeastSquaresOnA, ConditionIsOfA, Progress, Direct
<1>5. CASE AcceptSystem
  <2>1. TypeOK'
    <3>1. [rows |-> system.rows2, cols |-> system.cols2, value |-> "Inf"]
            \in Register
      BY DEF MldivideInv, TypeOK, System, Register, Value
    <3>2. reg0 = <<>>
      BY <1>5 DEF AcceptSystem, MldivideInv, Progress
    <3>3. reg0 \in Seq(Register) /\ Len(reg0) = 0
      BY <3>2 DEF MldivideInv, TypeOK
    <3>4. reg0' \in Seq(Register) /\ Len(reg0') <= 2
      <4>1. CASE system.zero
        <5>1. reg0' = Append(reg0, [rows |-> system.rows2, cols |-> system.cols2,
                                    value |-> "Inf"])
          BY <1>5, <4>1 DEF AcceptSystem, Pushed
        <5>2. QED
          BY <3>1, <3>3, <5>1
      <4>2. CASE ~system.zero
        BY <1>5, <3>3, <4>2 DEF AcceptSystem
      <4>3. QED
        BY <4>1, <4>2
    <3>5. QED
      BY <1>5, <3>4 DEF AcceptSystem, MldivideInv, TypeOK, Attempt
  <2>2. BuffersFit' /\ LeastSquaresOnA' /\ ConditionIsOfA'
    BY <1>5 DEF AcceptSystem, MldivideInv, BuffersFit, LeastSquaresOnA,
                ConditionIsOfA, RightHandSide
  <2>3. Progress'
    BY <1>5 DEF AcceptSystem, MldivideInv, Progress, Pushed, Rejected, Square,
                Direct, Ended
  <2>4. WrongOnlyAsKnown'
    BY <1>5, <2>1, <2>3
       DEF AcceptSystem, TypeOK, Progress, WrongOnlyAsKnown, Ended
  <2>5. OneAnswerUnlessZeros'
    BY <1>5 DEF AcceptSystem, OneAnswerUnlessZeros
  <2>6. QED
    BY <2>1, <2>2, <2>3, <2>4, <2>5 DEF MldivideInv
<1>6. QED
  BY <1>1, <1>2, <1>3, <1>4, <1>5

(* The answer: one register, or one more after that for zeros.             *)
LEMMA Answered ==
  ASSUME MldivideInv, pc \notin Ended \cup {"start"},
         pc' = "returned", UNCHANGED <<system, buffers, flags>>, info' \in {0, 1},
         Pushed(system.cols1, system.cols2, Solved(data1, data2)),
         Solved(data1, data2) = "wrong" =>
           \/ system.tri = "ROW" /\ rcond = "tiny"
           \/ ~Wide /\ attemptQR /\ data2 = "spoiled"
  PROVE  MldivideInv'
<1> USE DEF buffers, flags
<1> DEFINE x == [rows |-> system.cols1, cols |-> system.cols2,
                 value |-> Solved(data1, data2)]
           before == [rows |-> system.rows2, cols |-> system.cols2,
                      value |-> "Inf"]
<1>1. x \in Register /\ reg0 \in Seq(Register) /\ reg0' = Append(reg0, x)
  BY DEF MldivideInv, TypeOK, System, Register, Value, Solved, Pushed
<1>2. reg0 = IF system.zero THEN <<before>> ELSE <<>>
  BY DEF MldivideInv, Progress, TypeOK, System, Ended
<1>3. Len(reg0) = IF system.zero THEN 1 ELSE 0
  BY <1>2
<1>4. /\ Len(reg0') = Len(reg0) + 1
      /\ reg0'[Len(reg0')] = x
      /\ \A k \in 1..Len(reg0) : reg0'[k] = before
  BY <1>1, <1>2, <1>3
<1>5. TypeOK'
  BY <1>1, <1>3, <1>4 DEF MldivideInv, TypeOK, Ended
<1>6. BuffersFit' /\ LeastSquaresOnA' /\ ConditionIsOfA'
  BY DEF MldivideInv, BuffersFit, LeastSquaresOnA, ConditionIsOfA
<1>7. Progress'
  BY DEF MldivideInv, Progress, Rejected, Direct, Ended
<1>8. WrongOnlyAsKnown'
  BY <1>3, <1>4 DEF WrongOnlyAsKnown, Wide
<1>9. OneAnswerUnlessZeros'
  <2>1. CASE system.zero
    <3>1. reg0'[1] = before
      BY <1>3, <1>4, <2>1
    <3>2. Square => system.rows2 = system.cols1
      BY DEF MldivideInv, Progress, Rejected, Square, Ended
    <3>3. QED
      BY <2>1, <3>1, <3>2 DEF OneAnswerUnlessZeros, Square
  <2>2. CASE ~system.zero
    <3>1. Len(reg0') = 1 /\ reg0'[1] = x
      BY <1>3, <1>4, <2>2
    <3>2. QED
      BY <2>2, <3>1 DEF OneAnswerUnlessZeros
  <2>3. QED
    BY <2>1, <2>2
<1>10. QED
  BY <1>5, <1>6, <1>7, <1>8, <1>9 DEF MldivideInv

(* What each solver is given, by the buffers.                              *)
LEMMA SolversAnswer ==
  ASSUME MldivideInv,
         TriangularSolve \/ CholeskySolve \/ LupSolve \/ QRSolve \/ SVDSolve
  PROVE  MldivideInv'
<1> USE DEF buffers, flags
<1>1. CASE TriangularSolve \/ CholeskySolve \/ LupSolve
  <2>1. /\ pc \in {"trisolve", "cholsolve", "lupsolve"} /\ info' \in {0, 1}
        /\ ReturnData2 /\ UNCHANGED <<system, buffers, flags>>
    BY <1>1, GoingOn DEF TriangularSolve, CholeskySolve, LupSolve, Routine
  <2>2. system.rows2 = system.cols1
    BY <2>1 DEF MldivideInv, Progress, Rejected, Square, Direct, Ended
  <2>3. Solved(data1, data2) = "X"
    BY <2>1 DEF MldivideInv, BuffersFit, Solved
  <2>4. QED
    BY <2>1, <2>2, <2>3, Answered DEF ReturnData2, Ended
<1>2. CASE QRSolve \/ SVDSolve
  <2>1. /\ pc \in {"qr", "svd"} /\ info' \in {0, 1}
        /\ ReturnCopy /\ UNCHANGED <<system, buffers, flags>>
    BY <1>2, GoingOn DEF QRSolve, SVDSolve, Routine
  <2>2. data1 = "A" /\ RightHandSide
    BY <2>1 DEF MldivideInv, BuffersFit, LeastSquaresOnA
  <2>3. Solved(data1, data2) = "wrong" =>
          \/ system.tri = "ROW" /\ rcond = "tiny"
          \/ ~Wide /\ attemptQR /\ data2 = "spoiled"
    BY <2>2 DEF RightHandSide, Solved
  <2>4. QED
    BY <2>1, <2>3, Answered DEF ReturnCopy, Ended
<1>3. QED
  BY <1>1, <1>2

LEMMA NextKeepsInv == MldivideInv /\ [Next]_vars => MldivideInv'
<1>1. SUFFICES ASSUME MldivideInv, [Next]_vars PROVE MldivideInv'
  OBVIOUS
<1>2. CASE Next
  BY <1>1, <1>2, Decisions, Conditions, Attempts, Accepted, SolversAnswer
     DEF Next
<1>3. CASE UNCHANGED vars
  BY <1>1, <1>3
     DEF vars, buffers, flags, MldivideInv, TypeOK, BuffersFit, RightHandSide,
         LeastSquaresOnA, ConditionIsOfA, Progress, WrongOnlyAsKnown,
         OneAnswerUnlessZeros, Wide, Square, Ldb, Rejected, Recopied
<1>4. QED
  BY <1>1, <1>2, <1>3

(***************************************************************************)
(* For systems of any dimensions and whatever LAPACK answers: each attempt *)
(* finds in the buffers what it needs, whatever failed before it, and      *)
(* least squares always starts from A (mldivide_dense_runner).             *)
(***************************************************************************)
THEOREM InvariantHolds == Spec => []MldivideInv
<1>1. QED
  BY InitInv, NextKeepsInv, PTL DEF Spec

(* A wrong answer comes from one of the two cases only, for systems of any *)
(* dimensions (mldividerunner.cc:647 and 917).                             *)
THEOREM OnlyTwoWrongs == Spec => []WrongOnlyAsKnown
<1>1. MldivideInv => WrongOnlyAsKnown
  BY DEF MldivideInv
<1>2. QED
  BY <1>1, InvariantHolds, PTL

(* What is read of the answer to a system that is not zeros is the only    *)
(* register, with the shape of X, and an exception leaves none; of zeros   *)
(* it is the infinite one pushed first (mldividerunner.cc:492).            *)
THEOREM AnswersOnce == Spec => []OneAnswerUnlessZeros
<1>1. MldivideInv => OneAnswerUnlessZeros
  BY DEF MldivideInv
<1>2. QED
  BY <1>1, InvariantHolds, PTL

-----------------------------------------------------------------------------
(* What an action does to the attempt under way, and to INFO: nothing      *)
(* illegal was reported but by the call that throws.                       *)
LEMMA Moves ==
  ASSUME MldivideInv, Next
  PROVE  /\ pc \in Attempt
         /\ info' < 0 => pc' = "thrown"
         /\ \/ pc' \in Ended
            \/ pc = "start" /\ pc' \in {"probe", "leastSquares"}
            \/ pc = "probe" /\ pc' \in {"tricon", "cholesky"}
            \/ pc = "tricon" /\ pc' \in {"trisolve", "singular"}
            \/ pc = "trisolve" /\ pc' = "singular"
            \/ pc = "cholesky" /\ pc' \in {"cholcon", "lup"}
            \/ pc = "cholcon" /\ pc' \in {"cholsolve", "singular"}
            \/ pc = "lup" /\ pc' \in {"lupcon", "singular"}
            \/ pc = "lupcon" /\ pc' \in {"lupsolve", "singular"}
            \/ pc = "singular" /\ pc' = "leastSquares"
            \/ pc = "leastSquares" /\ pc' \in {"qr", "svd"}
            \/ pc = "qr" /\ pc' = "svd"
<1>1. pc \in Attempt \cup Ended /\ (info < 0 => pc = "thrown")
  BY DEF MldivideInv, TypeOK, Progress
<1>2. CASE RejectSystem \/ AcceptSystem \/ ProbeTriangular \/ NotHermitian
           \/ SingularSystem \/ PrepareLeastSquares
  BY <1>1, <1>2 DEF RejectSystem, AcceptSystem, ProbeTriangular, NotHermitian,
                    SingularSystem, PrepareLeastSquares, Attempt, Ended
<1>3. CASE TriangularCondition \/ CholeskyCondition \/ LupCondition
  BY <1>3, GoingOn DEF TriangularCondition, CholeskyCondition, LupCondition,
                       Condition, Routine, Attempt
<1>4. CASE TriangularSolveFails \/ Cholesky \/ LupDecomposition \/ QRFails
  BY <1>4, GoingOn
     DEF TriangularSolveFails, Cholesky, LupDecomposition, QRFails,
                       Routine, Attempt
<1>5. CASE TriangularSolve \/ CholeskySolve \/ LupSolve
  BY <1>5, GoingOn DEF TriangularSolve, CholeskySolve, LupSolve, ReturnData2,
                       Routine, Attempt, Ended
<1>6. CASE QRSolve \/ SVDSolve \/ SVDFails
  BY <1>6, GoingOn
     DEF QRSolve, SVDSolve, SVDFails, ReturnCopy, Routine, Attempt,
                       Ended
<1>7. CASE Throws
  BY <1>7 DEF Throws, Routine, Attempt, Ended
<1>8. QED
  BY <1>2, <1>3, <1>4, <1>5, <1>6, <1>7 DEF Next

LEMMA RankIs ==
  /\ \A a \in {"start", "probe"} : Rank[a] = 0
  /\ \A a \in {"tricon", "trisolve"} : Rank[a] = 1
  /\ \A a \in {"cholesky", "cholcon", "cholsolve"} : Rank[a] = 2
  /\ \A a \in {"lup", "lupcon", "lupsolve"} : Rank[a] = 3
  /\ \A a \in {"singular", "leastSquares"} : Rank[a] = 4
  /\ Rank["qr"] = 5 /\ Rank["svd"] = 6
  /\ \A a \in Ended : Rank[a] = 7
BY DEF Rank, Attempt, Ended

(***************************************************************************)
(* The fallbacks end: whatever LAPACK answers, no attempt leads back up    *)
(* the list of methods, and a system found singular sees no direct solver  *)
(* (mldividerunner.cc:836).                                                *)
(***************************************************************************)
THEOREM FallbacksEnd == Spec => FallbacksGoDown
<1>1. ASSUME MldivideInv, [Next]_vars
      PROVE  [Rank[pc'] >= Rank[pc] /\ (singular => Rank[pc'] >= 4)]_vars
  <2>1. SUFFICES ASSUME Next
                 PROVE  Rank[pc'] >= Rank[pc] /\ (singular => Rank[pc'] >= 4)
    BY <1>1
  <2>2. singular => pc \in {"singular", "leastSquares", "qr", "svd"} \cup Ended
    BY <1>1 DEF MldivideInv, Progress
  <2>3. pc \notin Ended
    BY <1>1, <2>1, Moves DEF Attempt, Ended
  <2>4. CASE pc' \in Ended
    BY <1>1, <2>1, <2>4, Moves, RankIs DEF Attempt
  <2>5. CASE pc' \notin Ended
    BY <1>1, <2>1, <2>2, <2>3, <2>5, Moves, RankIs
  <2>6. QED
    BY <2>4, <2>5
<1>2. QED
  BY <1>1, InvariantHolds, PTL DEF Spec, FallbacksGoDown

(* An argument that LAPACK calls illegal always leaves the runner as an    *)
(* exception, through every handler (mldividerunner.cc:899).               *)
THEOREM IllegalEscapes == Spec => RejectionEscapes
<1>1. ASSUME MldivideInv, [Next]_vars
      PROVE  [info' < 0 => pc' = "thrown"]_vars
  BY <1>1, Moves
<1>2. QED
  BY <1>1, InvariantHolds, PTL DEF Spec, RejectionEscapes

-----------------------------------------------------------------------------
(* LuRunner.                                                               *)

(***************************************************************************)
(* The inductive invariant: perm is a permutation of the rows, and the     *)
(* interchanges stay within them.                                          *)
(***************************************************************************)
LuInv ==
  /\ m \in Nat \ {0} /\ n \in Nat \ {0}
  /\ ipiv \in [Pivots -> Rows]
  /\ i \in 0..Minmn
  /\ perm \in [Rows -> Rows]
  /\ RowsArePermuted

LEMMA LuInitInv == LuInit => LuInv
<1>1. SUFFICES ASSUME LuInit PROVE LuInv
  OBVIOUS
<1>2. m \in Nat \ {0} /\ n \in Nat \ {0}
  BY <1>1, SizeAssumption DEF LuInit
<1>3. ipiv \in [Pivots -> Rows] /\ i \in 0..Minmn
  BY <1>1, <1>2 DEF LuInit, Interchanges, Pivots, Rows, Minmn
<1>4. perm \in [Rows -> Rows] /\ RowsArePermuted
  BY <1>1 DEF LuInit, RowsArePermuted, Rows
<1>5. QED
  BY <1>2, <1>3, <1>4 DEF LuInv

LEMMA LuStepKeepsInv == LuInv /\ [LuNext]_luVars => LuInv'
<1>1. SUFFICES ASSUME LuInv, [LuNext]_luVars PROVE LuInv'
  OBVIOUS
<1>2. CASE UNCHANGED luVars
  BY <1>1, <1>2 DEF LuInv, luVars, Pivots, Rows, Minmn, RowsArePermuted
<1>3. CASE ApplyPivot
  <2>1. /\ UNCHANGED <<m, n, ipiv>> /\ i' = i + 1 /\ i \in Pivots
        /\ Rows' = Rows /\ Pivots' = Pivots /\ Minmn' = Minmn
    BY <1>3 DEF ApplyPivot, Rows, Pivots, Minmn
  <2>2. i \in Rows /\ ipiv[i] \in Rows
    <3>1. i \in Rows
      BY <1>1, <2>1 DEF LuInv, Pivots, Rows, Minmn
    <3>2. ipiv[i] \in Rows
      BY <1>1, <2>1 DEF LuInv
    <3>3. QED
      BY <3>1, <3>2
  <2>3. perm' = [k \in Rows |-> IF k = i THEN perm[ipiv[i]]
                                ELSE IF k = ipiv[i] THEN perm[i] ELSE perm[k]]
    BY <1>1, <1>3, <2>2 DEF ApplyPivot, LuInv
  <2>4. perm' \in [Rows -> Rows]
    BY <1>1, <2>2, <2>3 DEF LuInv
  <2>5. ASSUME NEW k \in Rows, NEW q \in Rows, perm'[k] = perm'[q]
        PROVE  k = q
    BY <1>1, <2>2, <2>3, <2>5 DEF LuInv, RowsArePermuted
  <2>6. RowsArePermuted'
    BY <2>1, <2>4, <2>5 DEF RowsArePermuted
  <2>7. i' \in 0..Minmn
    BY <1>1, <2>1 DEF LuInv, Pivots, Minmn
  <2>8. QED
    BY <1>1, <2>1, <2>4, <2>6, <2>7 DEF LuInv
<1>4. QED
  BY <1>1, <1>2, <1>3 DEF LuNext

THEOREM LuInvariantHolds == LuSpec => []LuInv
<1>1. QED
  BY LuInitInv, LuStepKeepsInv, PTL DEF LuSpec

(***************************************************************************)
(* No row is lost or doubled by the interchanges (lurunner.cc 97-114).     *)
(***************************************************************************)
THEOREM NoRowIsLost == LuSpec => []RowsArePermuted
<1>1. LuInv => RowsArePermuted
  BY DEF LuInv
<1>2. QED
  BY <1>1, LuInvariantHolds, PTL

(***************************************************************************)
(* Where the short cycles end: the row LRow picks is the one the           *)
(* interchanges moved r to.                                                *)
(***************************************************************************)
LEMMA LRowIsInverse ==
  ASSUME LuInv, NEW r \in Rows, ShortCycle(r)
  PROVE  LRow(r) \in Rows /\ perm[LRow(r)] = r
<1>1. perm[r] \in Rows /\ perm[perm[r]] \in Rows
  BY DEF LuInv
<1>2. CASE perm[perm[r]] = r
  BY <1>1, <1>2 DEF LRow
<1>3. CASE perm[r] = r
  BY <1>3 DEF LRow
<1>4. CASE perm[perm[perm[r]]] = r /\ perm[perm[r]] # r
  BY <1>1, <1>4 DEF LRow
<1>5. QED
  BY <1>2, <1>3, <1>4 DEF ShortCycle

(***************************************************************************)
(* L has the right rows wherever the interchanges close within three rows  *)
(* (lurunner.cc 127-148), whatever the size of the argument.               *)
(***************************************************************************)
THEOREM ShortCyclesAreRight == LuSpec => []ShortCyclesGoHome
<1>1. LuInv => ShortCyclesGoHome
  <2>1. SUFFICES ASSUME LuInv, NEW r \in Rows, ShortCycle(r)
                 PROVE  RowIsHome(r)
    BY DEF ShortCyclesGoHome
  <2>2. LRow(r) \in Rows /\ perm[LRow(r)] = r
    BY <2>1, LRowIsInverse
  <2>3. \A q \in Rows : perm[q] = r => q = LRow(r)
    BY <2>1, <2>2 DEF LuInv, RowsArePermuted
  <2>4. (CHOOSE q \in Rows : perm[q] = r) = LRow(r)
    BY <2>2, <2>3
  <2>5. QED
    BY <2>4 DEF RowIsHome, LEntry
<1>2. QED
  BY <1>1, LuInvariantHolds, PTL

(***************************************************************************)
(* U is the upper triangle of the factored matrix (lurunner.cc 67-87).     *)
(***************************************************************************)
THEOREM UIsRight == LuSpec => []UIsUpperTriangle
<1>1. LuInv => UIsUpperTriangle
  BY DEF LuInv, UIsUpperTriangle, UEntry, Pivots, Minmn
<1>2. QED
  BY <1>1, LuInvariantHolds, PTL

-----------------------------------------------------------------------------
(* TriangularProbe.                                                        *)

(* A set of numbers that is not empty has a smallest.                      *)
LEMMA LeastNumber ==
  ASSUME NEW A \in SUBSET Nat, A # {}
  PROVE  \E least \in A : \A k \in A : least <= k
<1> DEFINE Below(b) == {k \in Nat : k < b}
           Belows   == {Below(b) : b \in A}
           R        == StrictSubsetOrdering(Nat)
<1>1. \A b \in Nat : Below(b) \in FiniteSubsetsOf(Nat)
  <2>1. SUFFICES ASSUME NEW b \in Nat PROVE IsFiniteSet(Below(b))
    BY DEF FiniteSubsetsOf
  <2>2. Below(b) \in SUBSET Nat /\ \A s \in Below(b) : s <= b
    OBVIOUS
  <2> HIDE DEF Below
  <2>3. QED
    BY <2>2, FS_BoundedSetOfNaturals
<1>2. Belows \subseteq FiniteSubsetsOf(Nat) /\ Belows # {}
  BY <1>1
<1>3. PICK x \in Belows : \A y \in Belows : <<y, x>> \notin R
  <2> HIDE DEF Belows, R
  <2>1. IsWellFoundedOn(R, FiniteSubsetsOf(Nat))
    BY FS_StrictSubsetOrderingWellFounded DEF R
  <2>2. QED
    BY <1>2, <2>1, WFMin
<1>4. PICK least \in A : x = Below(least)
  BY <1>3
<1>5. ASSUME NEW k \in A, k < least PROVE FALSE
  <2>1. Below(k) \subseteq Below(least) /\ k \in Below(least) /\ k \notin Below(k)
    BY <1>5
  <2>2. Below(k) \in SUBSET Nat /\ Below(least) \in SUBSET Nat
    OBVIOUS
  <2>3. <<Below(k), Below(least)>> \in R
    <3> HIDE DEF Below
    <3>1. QED
      BY <2>1, <2>2 DEF StrictSubsetOrdering
  <2>4. QED
    BY <1>3, <1>4, <2>3
<1>6. QED
  BY <1>5

(* A square matrix and its order.                                          *)
LEMMA MatrixFacts ==
  ASSUME NEW mat \in Matrices
  PROVE  \E order \in Nat \ {0} :
            Order(mat) = 1..order /\ mat \in [1..order -> [1..order -> Entry]]
<1>1. PICK order \in 1..MaxN : mat \in [1..order -> [1..order -> Entry]]
  BY DEF Matrices
<1>2. order \in Nat \ {0}
  BY OrderAssumption
<1>3. QED
  BY <1>1, <1>2 DEF Order

(* Where a row starts.                                                     *)
LEMMA StartFacts ==
  ASSUME NEW order \in Nat, NEW mat, Order(mat) = 1..order,
         NEW row \in 1..order, HasStart(mat, row)
  PROVE  /\ RowStart(mat, row) \in 1..order
         /\ ~IsZero(mat, row, RowStart(mat, row))
         /\ \A col \in 1..order : col < RowStart(mat, row) => IsZero(mat, row, col)
<1> DEFINE A == NonZeros(mat, row)
<1>1. A \subseteq 1..order /\ A \in SUBSET Nat /\ A # {}
  BY DEF NonZeros, HasStart
<1>2. \E least \in A : \A k \in A : least <= k
  <2> HIDE DEF A
  <2>1. QED
    BY <1>1, LeastNumber
<1>3. RowStart(mat, row) \in A /\ \A k \in A : RowStart(mat, row) <= k
  <2> HIDE DEF A
  <2>1. Min(A) \in A /\ \A k \in A : Min(A) <= k
    BY <1>2 DEF Min
  <2>2. QED
    BY <2>1 DEF RowStart, A
<1>4. ASSUME NEW col \in 1..order, col < RowStart(mat, row) PROVE IsZero(mat, row, col)
  <2>1. col \notin A
    BY <1>1, <1>3, <1>4
  <2>2. QED
    BY <2>1 DEF NonZeros
<1>5. QED
  BY <1>1, <1>3, <1>4 DEF NonZeros

(* The start of a row is the only column that is not zero with nothing     *)
(* before it.                                                              *)
LEMMA StartIsUnique ==
  ASSUME NEW order \in Nat, NEW mat, Order(mat) = 1..order,
         NEW row \in 1..order, NEW start \in 1..order, ~IsZero(mat, row, start),
         \A col \in 1..(start - 1) : IsZero(mat, row, col)
  PROVE  HasStart(mat, row) /\ RowStart(mat, row) = start
<1>1. HasStart(mat, row)
  BY DEF HasStart, NonZeros
<1>2. PICK first \in 1..order : first = RowStart(mat, row)
  BY <1>1, StartFacts
<1>3. ~IsZero(mat, row, first) /\ \A col \in 1..order : col < first => IsZero(mat, row, col)
  BY <1>1, <1>2, StartFacts
<1>4. ~(start < first)
  BY <1>3
<1>5. ~(first < start)
  <2>1. ASSUME first < start PROVE first \in 1..(start - 1)
    BY <2>1
  <2>2. QED
    BY <1>3, <2>1
<1>6. QED
  BY <1>1, <1>2, <1>4, <1>5

(* On finitely many rows, one-to-one and onto are the same.                *)
LEMMA OntoIsOneToOne ==
  ASSUME NEW order \in Nat, NEW f \in [1..order -> 1..order]
  PROVE  (\A col \in 1..order : \E row \in 1..order : f[row] = col)
           <=> f \in Permutations(1..order)
<1> DEFINE S == 1..order
<1>1. IsFiniteSet(S)
  BY FS_Interval
<1> HIDE DEF S
<1>2. ASSUME \A col \in S : \E row \in S : f[row] = col, f \in [S -> S]
      PROVE  f \in Permutations(S)
  <2>1. f \in Surjection(S, S)
    BY <1>2 DEF Surjection
  <2>2. f \in Injection(S, S)
    BY <1>1, <2>1, FS_Surjection
  <2>3. QED
    BY <1>2, <2>2 DEF Injection, IsInjective, Permutations
<1>3. ASSUME f \in Permutations(S)
      PROVE  \A col \in S : \E row \in S : f[row] = col
  <2>1. f \in Injection(S, S)
    BY <1>3 DEF Injection, IsInjective, Permutations
  <2>2. f \in Surjection(S, S)
    BY <1>1, <2>1, FS_Injection
  <2>3. QED
    BY <2>2 DEF Surjection
<1>4. f \in [S -> S]
  BY DEF S
<1>5. QED
  BY <1>2, <1>3, <1>4 DEF S

(* The row that a permutation puts at a place.                             *)
LEMMA RewrittenRow ==
  ASSUME NEW order \in Nat, NEW mat, Order(mat) = 1..order,
         NEW p, p.perm \in Permutations(1..order), NEW row \in 1..order
  PROVE  /\ p.perm[row] \in 1..order
         /\ Rewritten(mat, p)[p.perm[row]] = mat[row]
<1>1. p.perm \in [1..order -> 1..order]
      /\ \A r, s \in 1..order : p.perm[r] = p.perm[s] => r = s
  BY DEF Permutations
<1>2. (CHOOSE r \in 1..order : p.perm[r] = p.perm[row]) = row
  BY <1>1
<1>3. p.perm[row] \in 1..order
  BY <1>1
<1>4. QED
  BY <1>2, <1>3 DEF Rewritten

LEMMA RewrittenOrder ==
  ASSUME NEW mat, NEW p
  PROVE  Order(Rewritten(mat, p)) = Order(mat)
BY DEF Rewritten, Order

(* Rows left in place.                                                     *)
LEMMA RewrittenInPlace ==
  ASSUME NEW order \in Nat, NEW mat \in [1..order -> [1..order -> Entry]],
         NEW p, p.perm = [row \in 1..order |-> row]
  PROVE  p.perm \in Permutations(1..order) /\ Rewritten(mat, p) = mat
<1>1. Order(mat) = 1..order
  BY DEF Order
<1>2. p.perm \in Permutations(1..order)
  BY DEF Permutations
<1>3. \A row \in 1..order : (CHOOSE r \in 1..order : p.perm[r] = row) = row
  OBVIOUS
<1>4. Rewritten(mat, p) = [row \in 1..order |-> mat[row]]
  BY <1>1, <1>3 DEF Rewritten
<1>5. QED
  BY <1>2, <1>4

-----------------------------------------------------------------------------
(* A matrix with nothing above its diagonal.                               *)
LEMMA LowerIsSound ==
  ASSUME NEW mat \in Matrices, UpperIsEmpty(mat)
  PROVE  LET p == LowerTriangle(mat)
             t == Rewritten(mat, p)
         IN  /\ p.perm \in Permutations(Order(mat))
             /\ p.uplo = "LOWER" /\ ~p.permuted
             /\ p.diag = "UNIT" <=> \A row \in Order(t) : t[row][row] = "one"
             /\ t = mat
<1>1. PICK order \in Nat \ {0} :
        Order(mat) = 1..order /\ mat \in [1..order -> [1..order -> Entry]]
  BY MatrixFacts
<1> DEFINE p == LowerTriangle(mat)
<1>2. /\ p.uplo = "LOWER" /\ ~p.permuted /\ p.diag = Unit(AllOnes(mat))
      /\ p.perm = [row \in 1..order |-> row]
  BY <1>1 DEF LowerTriangle
<1> HIDE DEF p
<1>3. p.perm \in Permutations(Order(mat)) /\ Rewritten(mat, p) = mat
  BY <1>1, <1>2, RewrittenInPlace
<1>4. p.diag = "UNIT" <=> \A row \in Order(mat) : mat[row][row] = "one"
  BY <1>2 DEF Unit, AllOnes
<1>5. QED
  BY <1>2, <1>3, <1>4 DEF p

(* A matrix whose rows start in all columns: put in the order of their     *)
(* starts they make an upper triangle with no zero on the diagonal.        *)
LEMMA UpperIsSound ==
  ASSUME NEW mat \in Matrices, \A row \in Order(mat) : HasStart(mat, row),
         StartsCoverColumns(mat)
  PROVE  LET p == UpperTriangle(mat)
             t == Rewritten(mat, p)
         IN  /\ p.perm \in Permutations(Order(mat))
             /\ p.uplo = "UPPER"
             /\ LowerIsEmpty(t) /\ NoZeroPivot(t)
             /\ p.diag = "UNIT" <=> \A row \in Order(t) : t[row][row] = "one"
             /\ ~p.permuted => t = mat
<1>1. PICK order \in Nat \ {0} :
        Order(mat) = 1..order /\ mat \in [1..order -> [1..order -> Entry]]
  BY MatrixFacts
<1> DEFINE p == UpperTriangle(mat)
           t == Rewritten(mat, p)
           starts == [row \in 1..order |-> RowStart(mat, row)]
<1>2. /\ p.uplo = "UPPER" /\ p.perm = starts
      /\ p.permuted <=> \E row \in 1..order : starts[row] # row
      /\ p.diag = Unit(\A row \in 1..order :
                         HasStart(mat, row) => mat[row][RowStart(mat, row)] = "one")
  BY <1>1 DEF UpperTriangle
<1> HIDE DEF p
<1>3. \A row \in 1..order :
        /\ RowStart(mat, row) \in 1..order
        /\ ~IsZero(mat, row, RowStart(mat, row))
        /\ \A col \in 1..order : col < RowStart(mat, row) => IsZero(mat, row, col)
  BY <1>1, StartFacts
<1>4. starts \in [1..order -> 1..order]
  BY <1>3
<1>5. \A col \in 1..order : \E row \in 1..order : starts[row] = col
  BY <1>1 DEF StartsCoverColumns
<1>6. starts \in Permutations(1..order)
  <2> HIDE DEF starts
  <2>1. QED
    BY <1>4, <1>5, OntoIsOneToOne
<1>7. p.perm \in Permutations(1..order)
  BY <1>2, <1>6
<1>8. \A row \in 1..order : t[RowStart(mat, row)] = mat[row]
  <2>1. ASSUME NEW row \in 1..order PROVE t[RowStart(mat, row)] = mat[row]
    <3>1. p.perm[row] = RowStart(mat, row)
      BY <1>2
    <3>2. Rewritten(mat, p)[p.perm[row]] = mat[row]
      BY <1>1, <1>7, RewrittenRow
    <3>3. QED
      BY <3>1, <3>2
  <2>2. QED
    BY <2>1
<1>9. Order(t) = 1..order
  BY <1>1, RewrittenOrder
<1> HIDE DEF t
<1>10. ASSUME NEW place \in 1..order
       PROVE  /\ ~IsZero(t, place, place)
              /\ \A col \in 1..(place - 1) : IsZero(t, place, col)
  <2>1. PICK row \in 1..order : RowStart(mat, row) = place
    BY <1>5
  <2>2. t[place] = mat[row]
    BY <1>8, <2>1
  <2>3. /\ ~IsZero(mat, row, place)
        /\ \A col \in 1..order : col < place => IsZero(mat, row, col)
    BY <1>3, <2>1
  <2>4. \A col \in 1..(place - 1) : col \in 1..order /\ col < place
    OBVIOUS
  <2>5. QED
    BY <2>2, <2>3, <2>4 DEF IsZero
<1>11. LowerIsEmpty(t) /\ NoZeroPivot(t)
  BY <1>9, <1>10 DEF LowerIsEmpty, NoZeroPivot
<1>12. p.diag = "UNIT" <=> \A place \in Order(t) : t[place][place] = "one"
  <2>1. p.diag = "UNIT" <=> \A row \in 1..order : mat[row][RowStart(mat, row)] = "one"
    BY <1>1, <1>2 DEF Unit
  <2>2. ASSUME \A row \in 1..order : mat[row][RowStart(mat, row)] = "one",
               NEW place \in 1..order
        PROVE  t[place][place] = "one"
    <3>1. PICK row \in 1..order : RowStart(mat, row) = place
      BY <1>5
    <3>2. QED
      BY <1>8, <2>2, <3>1
  <2>3. ASSUME \A place \in 1..order : t[place][place] = "one", NEW row \in 1..order
        PROVE  mat[row][RowStart(mat, row)] = "one"
    BY <1>3, <1>8, <2>3
  <2>4. QED
    BY <1>9, <2>1, <2>2, <2>3
<1>13. ASSUME ~p.permuted PROVE t = mat
  <2>1. p.perm = [row \in 1..order |-> row]
    <3>1. \A row \in 1..order : starts[row] = row
      BY <1>2, <1>13
    <3>2. starts = [row \in 1..order |-> starts[row]]
      BY <1>4
    <3>3. QED
      BY <1>2, <3>1, <3>2
  <2>2. QED
    BY <1>1, <2>1, RewrittenInPlace DEF t
<1>14. QED
  BY <1>1, <1>2, <1>7, <1>11, <1>12, <1>13 DEF p, t

(* Where some order of the rows makes an upper triangle that can be        *)
(* solved, every row has a start and the starts cover the columns.         *)
LEMMA UpperIsFound ==
  ASSUME NEW mat \in Matrices, NEW f \in Permutations(Order(mat)),
         LET t == Rewritten(mat, [perm |-> f]) IN LowerIsEmpty(t) /\ NoZeroPivot(t)
  PROVE  (\A row \in Order(mat) : HasStart(mat, row)) /\ StartsCoverColumns(mat)
<1>1. PICK order \in Nat \ {0} :
        Order(mat) = 1..order /\ mat \in [1..order -> [1..order -> Entry]]
  BY MatrixFacts
<1> DEFINE p == [perm |-> f]
           t == Rewritten(mat, p)
<1>2. p.perm = f /\ f \in [1..order -> 1..order]
  BY <1>1 DEF Permutations
<1>3. Order(t) = 1..order /\ LowerIsEmpty(t) /\ NoZeroPivot(t)
  BY <1>1, RewrittenOrder
<1> HIDE DEF p
<1>4. \A row \in 1..order : f[row] \in 1..order /\ t[f[row]] = mat[row]
  <2>1. p.perm \in Permutations(1..order)
    BY <1>1, <1>2
  <2>2. ASSUME NEW row \in 1..order
        PROVE  f[row] \in 1..order /\ t[f[row]] = mat[row]
    <3>1. p.perm[row] \in 1..order /\ Rewritten(mat, p)[p.perm[row]] = mat[row]
      BY <1>1, <2>1, RewrittenRow
    <3>2. QED
      BY <1>2, <3>1
  <2>3. QED
    BY <2>2
<1> HIDE DEF t
<1>5. ASSUME NEW row \in 1..order
      PROVE  HasStart(mat, row) /\ RowStart(mat, row) = f[row]
  <2>1. PICK place \in 1..order : place = f[row]
    BY <1>4
  <2>2. ~IsZero(t, place, place) /\ \A col \in 1..(place - 1) : IsZero(t, place, col)
    BY <1>3 DEF LowerIsEmpty, NoZeroPivot
  <2>3. t[place] = mat[row]
    BY <1>4, <2>1
  <2>4. ~IsZero(mat, row, place) /\ \A col \in 1..(place - 1) : IsZero(mat, row, col)
    BY <2>2, <2>3 DEF IsZero
  <2>5. HasStart(mat, row) /\ RowStart(mat, row) = place
    BY <1>1, <2>4, StartIsUnique
  <2>6. QED
    BY <2>1, <2>5
<1>6. \A col \in 1..order : \E row \in 1..order : f[row] = col
  BY <1>1, <1>2, OntoIsOneToOne
<1>7. QED
  BY <1>1, <1>5, <1>6 DEF StartsCoverColumns

LEMMA ProbedIsExact ==
  ASSUME data \in Matrices, probe = NotProbed \/ probe = IsTriangular(data)
  PROVE  ProbeIsExact
<1>1. CASE probe = NotProbed
  BY <1>1 DEF ProbeIsExact, SolverGetsATriangle, NoTriangleIsMissed, Probed
<1>2. CASE probe = IsTriangular(data) /\ UpperIsEmpty(data)
  <2>1. probe = LowerTriangle(data)
    BY <1>2 DEF IsTriangular
  <2>2. probe.uplo = "LOWER"
    BY <1>2, <2>1, LowerIsSound
  <2>3. SolverGetsATriangle
    BY <1>2, <2>1, <2>2, LowerIsSound DEF SolverGetsATriangle
  <2>4. NoTriangleIsMissed
    BY <2>2 DEF NoTriangleIsMissed
  <2>5. QED
    BY <2>3, <2>4 DEF ProbeIsExact
<1> DEFINE Starts == (\A row \in Order(data) : HasStart(data, row)) /\ StartsCoverColumns(data)
<1>3. CASE probe = IsTriangular(data) /\ ~UpperIsEmpty(data) /\ Starts
  <2>1. probe = UpperTriangle(data)
    BY <1>3 DEF IsTriangular
  <2>2. probe.uplo = "UPPER"
    BY <1>3, <2>1, UpperIsSound
  <2>3. SolverGetsATriangle
    BY <1>3, <2>1, <2>2, UpperIsSound DEF SolverGetsATriangle
  <2>4. NoTriangleIsMissed
    BY <2>2 DEF NoTriangleIsMissed
  <2>5. QED
    BY <2>3, <2>4 DEF ProbeIsExact
<1>4. CASE probe = IsTriangular(data) /\ ~UpperIsEmpty(data) /\ ~Starts
  <2>1. probe.uplo = "NEITHER"
    BY <1>4 DEF IsTriangular, UpperTriangle
  <2>2. SolverGetsATriangle
    BY <2>1 DEF SolverGetsATriangle
  <2>3. NoTriangleIsMissed
    BY <1>4, UpperIsFound DEF NoTriangleIsMissed
  <2>4. QED
    BY <2>2, <2>3 DEF ProbeIsExact
<1>5. QED
  BY <1>1, <1>2, <1>3, <1>4

(***************************************************************************)
(* The probe is sound and complete for matrices of every order             *)
(* (isTriangular, mldividerunner.cc): what the triangular solver is given  *)
(* is a triangle it can solve, and no permuted triangle is sent to LU.     *)
(***************************************************************************)
THEOREM ProbeIsAlwaysExact == ProbeSpec => []ProbeIsExact
<1> DEFINE Inv == data \in Matrices /\ (probe = NotProbed \/ probe = IsTriangular(data))
<1>1. ProbeInit => Inv
  BY DEF ProbeInit
<1>2. Inv /\ [Probe]_<<data, probe>> => Inv'
  BY DEF Probe
<1>3. Inv => ProbeIsExact
  BY ProbedIsExact
<1> HIDE DEF Inv
<1>4. QED
  BY <1>1, <1>2, <1>3, PTL DEF ProbeSpec
=============================================================================
