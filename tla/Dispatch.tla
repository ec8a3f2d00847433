------------------------------ MODULE Dispatch ------------------------------
(***************************************************************************)
(* How an operation finds its runner: the generated DispatchUnaryOp and    *)
(* DispatchBinaryOp choose an overload by the types of the terminals, the  *)
(* overloads nobody wrote convert their arguments and try again, and the   *)
(* generated runners compute with what is left.                            *)
(*                                                                         *)
(* arg0 is the terminal that was last computed, converted or copied and    *)
(* arg1 another one.                                                       *)
(***************************************************************************)
EXTENDS Conversions

CONSTANTS Terminals,  \* what a program starts with
          MaxSteps    \* the longest chain of operations

ASSUME DispatchAssumption ==
  /\ MaxSteps \in Nat
  /\ \A t \in Terminals : WellFormed(t)

VARIABLES arg0, arg1,
          denotes,   \* what arg0 stands for, or Undefined
          real,      \* arg0 is made from reals and has to be real
          computed,  \* arg0 is what a runner left in a register
          steps

vars == <<arg0, arg1, denotes, real, computed, steps>>

Undefined == [undefined |-> TRUE]

Unary  == {"NEGATE", "FUNCTION", "UNIMPLEMENTED_UNARY", "TRANSPOSE", "CTRANSPOSE"}
Infix  == {"PLUS", "MINUS", "TIMES", "RDIVIDE"}
Binary == Infix \cup {"MTIMES", "UNIMPLEMENTED_BINARY"}

-----------------------------------------------------------------------------
(* The elementwise kernels of izy; an x in the name is for a scalar.       *)
Negated(T, x)  == Minus(T, Zero(T), x)
Function(T, x) == Plus(T, Times(T, x, Times(T, x, x)), x)  \* stands for cos and the like
VxAdd(T, x, y)  == Plus(T, x, y)
VxDiv(T, x, y)  == Over(T, x, y)
VxMul(T, x, y)  == Times(T, x, y)
VxSub(T, x, y)  == Minus(T, x, y)
VxXdiv(T, x, y) == Over(T, x, y)
VxXsub(T, x, y) == Minus(T, x, y)

Vx(T, name, x, y) ==
  CASE name \in {"add", "addx"} -> VxAdd(T, x, y)
    [] name \in {"div", "divx"} -> VxDiv(T, x, y)
    [] name \in {"mul", "mulx"} -> VxMul(T, x, y)
    [] name \in {"sub", "subx"} -> VxSub(T, x, y)
    [] name = "xdiv" -> VxXdiv(T, x, y)
    [] name = "xsub" -> VxXsub(T, x, y)

(* The names the generator gives the kernels of an infix operator.         *)
Izysymbol ==
  [MINUS   |-> [vv |-> "sub", vs |-> "subx", sv |-> "xsub"],
   PLUS    |-> [vv |-> "add", vs |-> "addx", sv |-> "addx"],
   RDIVIDE |-> [vv |-> "div", vs |-> "divx", sv |-> "xdiv"],
   TIMES   |-> [vv |-> "mul", vs |-> "mulx", sv |-> "mulx"]]

IsOneByOne(t) == t.rows = 1 /\ t.cols = 1

Mapped(t, F(_)) == Dense(t.class, [k \in DOMAIN t.data |-> F(t.data[k])], t.rows, t.cols)

InfixScalar(op, t, u) ==
  Scalar("REAL_SCALAR", Vx("real8", Izysymbol[op].vv, t.data[0], u.data[0]))

(* Mutant: the scalar always comes second.                                 *)
InfixScalarLast(op, t, u) ==
  LET T == Datatype(t)
      WithScalar0(y) == Vx(T, Izysymbol[op].vs, y, t.data[0])
      WithScalar1(x) == Vx(T, Izysymbol[op].vs, x, u.data[0])
  IN  IF IsOneByOne(t) THEN Mapped(u, WithScalar0)
      ELSE IF IsOneByOne(u) THEN Mapped(t, WithScalar1)
      ELSE IF t.rows # u.rows \/ t.cols # u.cols THEN Throws
      ELSE Dense(t.class, [k \in DOMAIN t.data |->
                             Vx(T, Izysymbol[op].vv, t.data[k], u.data[k])], t.rows, t.cols)

(* The kernel for a scalar first is the one for a scalar last, with the    *)
(* arguments the other way round, when the generator gave them one name.   *)
InfixMatrix(op, t, u) ==
  LET T == Datatype(t)
      name == Izysymbol[op]
      WithScalar0(y) == IF name.sv = name.vs THEN Vx(T, name.vs, y, t.data[0])
                        ELSE Vx(T, name.sv, t.data[0], y)
      WithScalar1(x) == Vx(T, name.vs, x, u.data[0])
  IN  IF IsOneByOne(t) THEN Mapped(u, WithScalar0)
      ELSE IF IsOneByOne(u) THEN Mapped(t, WithScalar1)
      ELSE IF t.rows # u.rows \/ t.cols # u.cols THEN Throws
      ELSE Dense(t.class, [k \in DOMAIN t.data |->
                             Vx(T, name.vv, t.data[k], u.data[k])], t.rows, t.cols)

PrefixScalar(t)   == Scalar("REAL_SCALAR", Negated("real8", t.data[0]))
PrefixMatrix(t)   == LET F(x) == Negated(Datatype(t), x) IN Mapped(t, F)
FunctionScalar(t) == Scalar("REAL_SCALAR", Function("real8", t.data[0]))
FunctionMatrix(t) == LET F(x) == Function(Datatype(t), x) IN Mapped(t, F)

-----------------------------------------------------------------------------
(* BLAS: element d of an m by n matrix is in row d % m, column d \div m.   *)
Dot(T, k, a, b) ==
  LET sum[l \in 0 .. k] == IF l = 0 THEN Zero(T)
                           ELSE Plus(T, sum[l - 1], Times(T, a[l - 1], b[l - 1]))
  IN  sum[k]

xgemm(T, m, n, k, a, b) ==
  [d \in Indices(m * n) |->
     Dot(T, k, [l \in Indices(k) |-> a[(d % m) + l * m]],
               [l \in Indices(k) |-> b[l + (d \div m) * k]])]

(* y is all zeros before.                                                  *)
xgemv(T, m, n, a, x) ==
  [d \in Indices(m) |-> Dot(T, n, [l \in Indices(n) |-> a[d + l * m]], x)]

MtimesScalar(t, u) == Scalar("REAL_SCALAR", Times("real8", t.data[0], u.data[0]))

MtimesDense(t, u) ==
  LET T == Datatype(t)
      Scale0(x) == Times(T, t.data[0], x)
      Scale1(x) == Times(T, u.data[0], x)
  IN  IF IsOneByOne(t) THEN Mapped(u, Scale0)
      ELSE IF IsOneByOne(u) THEN Mapped(t, Scale1)
      ELSE IF t.cols # u.rows THEN Throws
      ELSE IF u.cols = 1 THEN Dense(t.class, xgemv(T, t.rows, t.cols, t.data, u.data), t.rows, 1)
      ELSE Dense(t.class, xgemm(T, t.rows, u.cols, t.cols, t.data, u.data), t.rows, u.cols)

(* A runner returns a scalar for a one by one matrix.                      *)
MakeConcreteScalar(t, x) ==
  Scalar(IF IsReal(t) THEN "REAL_SCALAR" ELSE "COMPLEX_SCALAR", x)

(* tmp[j * n + i] is data[ir + j] for i < n and j < m.                     *)
TransposedData(t) ==
  [d \in DOMAIN t.data |-> t.data[(d % t.cols) * t.rows + (d \div t.cols)]]

TransposeDense(t) ==
  IF IsOneByOne(t) THEN MakeConcreteScalar(t, t.data[0])
  ELSE Dense(t.class, IF IsVector(t) THEN t.data ELSE TransposedData(t), t.cols, t.rows)

CtransposeDense(t) ==
  LET Conjugate(x) == IF IsReal(t) THEN x ELSE Conj(x)
      ct == TransposedData(t)
  IN  IF IsOneByOne(t) THEN MakeConcreteScalar(t, Conjugate(t.data[0]))
      ELSE Dense(t.class, [d \in DOMAIN ct |-> Conjugate(ct[d])], t.cols, t.rows)

-----------------------------------------------------------------------------
(* The overloads a runner has.                                             *)
UnaryTypes  == {"REAL_SCALAR", "REAL_DENSE", "COMPLEX_DENSE"}

RunUnary(op, t) ==
  LET scalar == t.class = "REAL_SCALAR"
  IN  CASE op = "NEGATE"     -> IF scalar THEN PrefixScalar(t) ELSE PrefixMatrix(t)
        [] op = "FUNCTION"   -> IF scalar THEN FunctionScalar(t) ELSE FunctionMatrix(t)
        [] op = "TRANSPOSE"  -> IF scalar THEN Scalar(t.class, t.data[0]) ELSE TransposeDense(t)
        [] op = "CTRANSPOSE" -> IF scalar THEN Scalar(t.class, t.data[0]) ELSE CtransposeDense(t)
        [] op = "UNIMPLEMENTED_UNARY" -> Throws

RunBinary(op, t, u) ==
  LET scalar == t.class = "REAL_SCALAR"
  IN  CASE op \in Infix   -> IF scalar THEN InfixScalar(op, t, u) ELSE InfixMatrix(op, t, u)
        [] op = "MTIMES"  -> IF scalar THEN MtimesScalar(t, u) ELSE MtimesDense(t, u)
        [] op = "UNIMPLEMENTED_BINARY" -> Throws

(* The overload that is not there converts to complex, whatever comes.     *)
EvalUnary(op, t) ==
  IF GetType(t) \in UnaryTypes THEN RunUnary(op, [t EXCEPT !.class = GetType(t)])
  ELSE RunUnary(op, ConvertToComplex(t))

IsComplexName(type) == type \notin Reals

(* Mutant: as in unary operations.                                         *)
TypeAlwaysComplex(t, u) == "COMPLEX_DENSE"

(* What both arguments of a binary operation are converted to.             *)
TypeToConvertTo(t, u) ==
  IF IsComplexName(GetType(t)) \/ IsComplexName(GetType(u)) THEN "COMPLEX_DENSE" ELSE "REAL_DENSE"

ConvertArg(t, type) ==
  IF GetType(t) = type THEN [t EXCEPT !.class = type]
  ELSE IF type = "REAL_DENSE" THEN ConvertToReal(t) ELSE ConvertToComplex(t)

EvalBinary(op, t, u) ==
  IF GetType(t) = "REAL_SCALAR" /\ GetType(u) = "REAL_SCALAR" THEN RunBinary(op, t, u)
  ELSE LET type == TypeToConvertTo(t, u)
       IN  RunBinary(op, ConvertArg(t, type), ConvertArg(u, type))

-----------------------------------------------------------------------------
(***************************************************************************)
(* What operations are: matrices of complex numbers, by row and column.    *)
(***************************************************************************)
Matrix(rows, cols, At(_, _)) ==
  [rows |-> rows, cols |-> cols,
   at |-> [ij \in Indices(rows) \X Indices(cols) |-> At(ij[1], ij[2])]]

Entry(t, i, j) ==
  CASE t.class \in Scalars   -> t.data[0]
    [] t.class \in Denses    -> t.data[j * t.rows + i]
    [] t.class \in Diagonals -> IF i = j THEN t.data[i] ELSE Zero(Datatype(t))
    [] t.class \in Sparses   ->
         IF \E k \in InColumn(t, j) : t.rowIdx[k] = i
         THEN t.data[CHOOSE k \in InColumn(t, j) : t.rowIdx[k] = i]
         ELSE Zero(Datatype(t))

Meaning(t) ==
  LET At(i, j) == IF IsReal(t) THEN ToComplex(Entry(t, i, j)) ELSE Entry(t, i, j)
  IN  Matrix(t.rows, t.cols, At)

ElementwiseUnary(op, x) ==
  CASE op = "NEGATE"   -> Negated("complex16", x)
    [] op = "FUNCTION" -> Function("complex16", x)

Elementwise(op, x, y) ==
  CASE op = "PLUS"    -> ComplexAdd(x, y)
    [] op = "MINUS"   -> ComplexSub(x, y)
    [] op = "TIMES"   -> ComplexMul(x, y)
    [] op = "RDIVIDE" -> ComplexDiv(x, y)
    [] op = "MTIMES"  -> ComplexMul(x, y)

DenotedUnary(op, A) ==
  LET Same(i, j)      == ElementwiseUnary(op, A.at[<<i, j>>])
      Turned(i, j)    == A.at[<<j, i>>]
      Conjugate(i, j) == Conj(A.at[<<j, i>>])
  IN  CASE op \in {"NEGATE", "FUNCTION"} -> Matrix(A.rows, A.cols, Same)
        [] op = "TRANSPOSE"  -> Matrix(A.cols, A.rows, Turned)
        [] op = "CTRANSPOSE" -> Matrix(A.cols, A.rows, Conjugate)
        [] op = "UNIMPLEMENTED_UNARY" -> Undefined

(* One by one matrices go with every matrix, in products too.              *)
DenotedBinary(op, A, B) ==
  LET Left(i, j)    == Elementwise(op, A.at[<<0, 0>>], B.at[<<i, j>>])
      Right(i, j)   == Elementwise(op, A.at[<<i, j>>], B.at[<<0, 0>>])
      Both(i, j)    == Elementwise(op, A.at[<<i, j>>], B.at[<<i, j>>])
      Product(i, j) == Dot("complex16", A.cols, [l \in Indices(A.cols) |-> A.at[<<i, l>>]],
                                                [l \in Indices(A.cols) |-> B.at[<<l, j>>]])
  IN  CASE op = "UNIMPLEMENTED_BINARY" -> Undefined
        [] op # "UNIMPLEMENTED_BINARY" /\ IsOneByOne(A) -> Matrix(B.rows, B.cols, Left)
        [] op # "UNIMPLEMENTED_BINARY" /\ ~IsOneByOne(A) /\ IsOneByOne(B) ->
             Matrix(A.rows, A.cols, Right)
        [] op = "MTIMES" /\ ~IsOneByOne(A) /\ ~IsOneByOne(B) ->
             IF A.cols = B.rows THEN Matrix(A.rows, B.cols, Product) ELSE Undefined
        [] op \in Infix /\ ~IsOneByOne(A) /\ ~IsOneByOne(B) ->
             IF A.rows = B.rows /\ A.cols = B.cols THEN Matrix(A.rows, A.cols, Both)
             ELSE Undefined

-----------------------------------------------------------------------------
Finite(t) == \A k \in DOMAIN t.data : ~HasNaN(Datatype(t), t.data[k])

Init ==
  /\ arg0 \in Terminals /\ arg1 \in Terminals
  /\ denotes = Meaning(arg0)
  /\ real = IsReal(arg0)
  /\ computed = FALSE
  /\ steps = IF Finite(arg0) /\ Finite(arg1) THEN 0 ELSE MaxSteps

GoesOn == arg0 # Throws /\ steps < MaxSteps

EvaluateUnary(op) ==
  /\ GoesOn
  /\ arg0' = EvalUnary(op, arg0)
  /\ denotes' = DenotedUnary(op, denotes)
  /\ real' = (real /\ GetType(arg0) \in UnaryTypes)
  /\ computed' = TRUE
  /\ steps' = steps + 1
  /\ UNCHANGED arg1

EvaluateBinary(op) ==
  /\ GoesOn
  /\ \/ /\ arg0' = EvalBinary(op, arg0, arg1)
        /\ denotes' = DenotedBinary(op, denotes, Meaning(arg1))
     \/ /\ arg0' = EvalBinary(op, arg1, arg0)
        /\ denotes' = DenotedBinary(op, Meaning(arg1), denotes)
  /\ real' = (real /\ IsReal(arg1))
  /\ computed' = TRUE
  /\ steps' = steps + 1
  /\ UNCHANGED arg1

MethodNames == {"owning", "complex", "fullReal", "fullComplex"}

Call(method) ==
  /\ GoesOn
  /\ arg0' = Methods(arg0)[method]
  /\ denotes' = IF method = "fullReal" /\ ~IsReal(arg0) THEN Undefined ELSE denotes
  /\ real' = (real /\ method \in {"owning", "fullReal"})
  /\ computed' = FALSE
  /\ steps' = steps + 1
  /\ UNCHANGED arg1

Next == \/ \E op \in Unary : EvaluateUnary(op)
        \/ \E op \in Binary : EvaluateBinary(op)
        \/ \E method \in MethodNames : Call(method)

Spec == Init /\ [][Next]_vars

-----------------------------------------------------------------------------
TypeOK ==
  /\ arg0 = Throws \/ WellFormed(arg0)
  /\ arg1 \in Terminals
  /\ real \in BOOLEAN /\ computed \in BOOLEAN
  /\ steps \in 0 .. MaxSteps

(***************************************************************************)
(* Whatever the types, and whatever was converted on the way, a chain of   *)
(* operations leaves the matrix that the operations on matrices give, and  *)
(* it throws exactly where there is none: dimensions that do not fit, an   *)
(* operation with no implementation, reals asked of complex numbers.       *)
(***************************************************************************)
ValueIsDenoted ==
  IF denotes = Undefined THEN arg0 = Throws
  ELSE arg0 # Throws /\ Meaning(arg0) = denotes

(***************************************************************************)
(* What is made from reals stays real, but for a unary operation on a      *)
(* class without a runner of its own; and a real answer that was computed  *)
(* can be handed out as rows of reals.                                     *)
(***************************************************************************)
RealStaysReal ==
  real /\ arg0 # Throws =>
    IsReal(arg0) /\ (computed => Methods(arg0).reals # NoRows)

(***************************************************************************)
(* What holds between operations, and is enough to see that it still does  *)
(* after the next: besides the above, operations go on with numbers only,  *)
(* what has to be real is, and a runner left one of four classes, each of  *)
(* which has rows to hand out.                                             *)
(***************************************************************************)
Results == {"REAL_SCALAR", "COMPLEX_SCALAR", "REAL_DENSE", "COMPLEX_DENSE"}

DispatchInv ==
  /\ TypeOK
  /\ ValueIsDenoted
  /\ GoesOn => Finite(arg0) /\ Finite(arg1)
  /\ real /\ arg0 # Throws => IsReal(arg0)
  /\ computed /\ arg0 # Throws => arg0.class \in Results

(***************************************************************************)
(* Every way to hand a terminal out shows the same matrix: rows of reals,  *)
(* rows of complex numbers and the full matrices, from which the rows can  *)
(* be read back; and an answer that was computed can be had as complex.    *)
(***************************************************************************)
ShownByRows(a) ==
  LET At(i, j) == a[i][j] IN Matrix(arg0.rows, arg0.cols, At)

ViewsAgree ==
  arg0 # Throws =>
    LET m == Methods(arg0)
    IN  /\ m.reals # NoRows =>
             /\ ShownByRows(RowsAsComplex(m.reals)) = denotes
             /\ DenseFromRows("REAL_DENSE", m.reals, arg0.rows, arg0.cols) = m.fullReal
        /\ m.complexes # NoRows =>
             /\ ShownByRows(m.complexes) = denotes
             /\ DenseFromRows("COMPLEX_DENSE", m.complexes, arg0.rows, arg0.cols) = m.fullComplex
        /\ (computed => m.complexes # NoRows)

(***************************************************************************)
(* Comparing is sound although a sparse matrix is compared over its own    *)
(* length before it is known that the other is as long: the answer does    *)
(* not depend on what lies beyond, nor on which of the two is asked; equal *)
(* is fuzzy equal unless there is a NaN, fuzzy equal is the same matrix,   *)
(* and mathsequals says exactly when two terminals hold the same matrix.   *)
(***************************************************************************)
Beyond(t) == IF IsReal(t) THEN {0, 1, NaN} ELSE {<<0, 0>>, <<1, 2>>, <<NaN, 0>>}

EqualityIsSound ==
  arg0 # Throws =>
    LET same == Meaning(arg0) = Meaning(arg1)
        finite == Finite(arg0)
    IN  \A x \in Beyond(arg0), y \in Beyond(arg1) :
          /\ Equals(arg0, arg1, x) = Equals(arg1, arg0, y)
          /\ FuzzyEquals(arg0, arg1, x) = FuzzyEquals(arg1, arg0, y)
          /\ Equals(arg0, arg1, x) => same /\ (finite => FuzzyEquals(arg0, arg1, x))
          /\ FuzzyEquals(arg0, arg1, x) => MathsEquals(arg0, arg1)
          /\ MathsEquals(arg0, arg1) <=> same /\ finite
=============================================================================
