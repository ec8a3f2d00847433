------------------------------ MODULE Numbers ------------------------------
(***************************************************************************)
(* What stands for real8 and complex16 where only the shape and the place  *)
(* of data matter: the field of P elements, and pairs of them as complex   *)
(* numbers, which are a field too because -1 is no square modulo P.  Two   *)
(* formulas that differ give results that differ, as they do for numbers;  *)
(* rounding is left out and a quotient by zero is zero.                    *)
(***************************************************************************)
EXTENDS Integers

P == 11

Real8     == 0 .. P - 1
Complex16 == Real8 \X Real8
NaN       == -1  \* compared but not computed with

(* The conversion of a real8 to a complex16 that C++ makes by itself.      *)
ToComplex(x) == <<x, 0>>

RealAdd(x, y) == (x + y) % P
RealSub(x, y) == (x - y) % P
RealMul(x, y) == (x * y) % P
Reciprocal    == [x \in Real8 |-> IF x = 0 THEN 0
                                  ELSE CHOOSE y \in Real8 : (x * y) % P = 1]
RealDiv(x, y) == RealMul(x, Reciprocal[y])

Conj(x)          == <<x[1], (-x[2]) % P>>
ComplexAdd(x, y) == <<RealAdd(x[1], y[1]), RealAdd(x[2], y[2])>>
ComplexSub(x, y) == <<RealSub(x[1], y[1]), RealSub(x[2], y[2])>>
ComplexMul(x, y) == <<RealSub(RealMul(x[1], y[1]), RealMul(x[2], y[2])),
                      RealAdd(RealMul(x[1], y[2]), RealMul(x[2], y[1]))>>
ComplexDiv(x, y) ==
  LET r == Reciprocal[RealAdd(RealMul(y[1], y[1]), RealMul(y[2], y[2]))]
      z == ComplexMul(x, Conj(y))
  IN  <<RealMul(z[1], r), RealMul(z[2], r)>>

(* A template's T: one of the two.                                         *)
Arithmetic == {"real8", "complex16"}
Zero(T)      == IF T = "real8" THEN 0 ELSE <<0, 0>>
Plus(T, x, y)  == IF T = "real8" THEN RealAdd(x, y) ELSE ComplexAdd(x, y)
Minus(T, x, y) == IF T = "real8" THEN RealSub(x, y) ELSE ComplexSub(x, y)
Times(T, x, y) == IF T = "real8" THEN RealMul(x, y) ELSE ComplexMul(x, y)
Over(T, x, y)  == IF T = "real8" THEN RealDiv(x, y) ELSE ComplexDiv(x, y)
=============================================================================
