--------------------------- MODULE Dispatch_proofs ---------------------------
(***************************************************************************)
(* Proofs about Dispatch, for any set of well-formed terminals, of any     *)
(* dimensions, and chains of operations of any length: the values, what    *)
(* is handed out, and equality.                                            *)
(***************************************************************************)
EXTENDS Dispatch, FiniteSetTheorems, TLAPS

-----------------------------------------------------------------------------

(* A set of numbers that is not empty has a smallest.                      *)
LEMMA LeastNumber ==
  ASSUME NEW A \in SUBSET Nat, A # {}
  PROVE  \E least \in A : \A k \in A : least <= k
<1> DEFINE Below(b) == {k \in Nat : k < b}
           Belows   == {Below(b) : b \in A}
           R        == StrictSubsetOrdering(Nat)
<1>1. \A b \in Nat : Below(b) \in FiniteSubsetsOf(Nat)
  <2>1. SUFFICES ASSUME NEW b \in Nat PROVE IsFiniteSet(Below(b))
    BY DEF FiniteSubsetsOf
  <2>2. Below(b) \in SUBSET Nat /\ \A s \in Below(b) : s <= b
    OBVIOUS
  <2> HIDE DEF Below
  <2>3. QED
    BY <2>2, FS_BoundedSetOfNaturals
<1>2. Belows \subseteq FiniteSubsetsOf(Nat) /\ Belows # {}
  BY <1>1
<1>3. PICK x \in Belows : \A y \in Belows : <<y, x>> \notin R
  <2> HIDE DEF Belows, R
  <2>1. IsWellFoundedOn(R, FiniteSubsetsOf(Nat))
    BY FS_StrictSubsetOrderingWellFounded DEF R
  <2>2. QED
    BY <1>2, <2>1, WFMin
<1>4. PICK least \in A : x = Below(least)
  BY <1>3
<1>5. ASSUME NEW k \in A, k < least PROVE FALSE
  <2>1. Below(k) \subseteq Below(least) /\ k \in Below(least) /\ k \notin Below(k)
    BY <1>5
  <2>2. Below(k) \in SUBSET Nat /\ Below(least) \in SUBSET Nat
    OBVIOUS
  <2>3. <<Below(k), Below(least)>> \in R
    <3> HIDE DEF Below
    <3>1. QED
      BY <2>1, <2>2 DEF StrictSubsetOrdering
  <2>4. QED
    BY <1>3, <1>4, <2>3
<1>6. QED
  BY <1>5

LEMMA InRange == \A x \in Int : x % P \in Real8
  BY DEF P, Real8

LEMMA Products == \A x, y \in Int : x * y \in Int
  OBVIOUS

LEMMA Division ==
  ASSUME NEW a \in Int, NEW b \in Nat \ {0}
  PROVE  /\ a % b \in 0 .. b - 1 /\ a % b \in Nat /\ a % b < b
         /\ a \div b \in Int /\ a = b * (a \div b) + (a % b)
<1>1. a % b \in 0 .. b - 1 /\ a \div b \in Int
  OBVIOUS
<1>2. a = b * (a \div b) + (a % b)
  OBVIOUS
<1>3. QED
  BY <1>1, <1>2

LEMMA ProductsAssociate ==
  \A x, y, z \in Real8 : RealMul(RealMul(x, y), z) = RealMul(x, RealMul(y, z))
<1>1. \A a, z \in Int : ((a % 11) * z) % 11 = (a * z) % 11
  <2>1. SUFFICES ASSUME NEW a \in Int, NEW z \in Int PROVE ((a % 11) * z) % 11 = (a * z) % 11
    OBVIOUS
  <2>2. PICK q \in Int, r \in Int : a = 11 * q + r /\ r = a % 11
    BY Division
  <2>3. a * z = 11 * (q * z) + r * z
    <3>1. \A k \in Int : (11 * q + k) * z = 11 * (q * z) + k * z
      OBVIOUS
    <3>2. QED
      BY <2>2, <3>1
  <2>4. q * z \in Int /\ r * z \in Int
    OBVIOUS
  <2>5. \A u, v \in Int : (11 * u + v) % 11 = v % 11
    OBVIOUS
  <2>6. QED
    BY <2>2, <2>3, <2>4, <2>5
<1>2. \A x, y, z \in Int : (x * y) * z = x * (y * z)
  OBVIOUS
<1>3. \A x, y \in Int : x * y \in Int /\ x * y = y * x
  OBVIOUS
<1>4. QED
  BY <1>1, <1>2, <1>3 DEF RealMul, P, Real8

LEMMA ReciprocalIs ==
  /\ \A x \in Real8 : Reciprocal[x] \in Real8
  /\ Reciprocal[0] = 0 /\ Reciprocal[1] = 1 /\ Reciprocal[2] = 6 /\ Reciprocal[3] = 4
  /\ Reciprocal[4] = 3 /\ Reciprocal[5] = 9 /\ Reciprocal[6] = 2 /\ Reciprocal[7] = 8
  /\ Reciprocal[8] = 7 /\ Reciprocal[9] = 5 /\ Reciprocal[10] = 10
<1> DEFINE R(x) == CHOOSE y \in Real8 : (x * y) % P = 1
<1>1. R(1) = 1 /\ R(2) = 6 /\ R(3) = 4 /\ R(4) = 3 /\ R(5) = 9 
  BY DEF Real8, P
<1>2. R(6) = 2 /\ R(7) = 8 /\ R(8) = 7 /\ R(9) = 5 /\ R(10) = 10
  BY DEF Real8, P
<1>3. \A x \in Real8 : Reciprocal[x] = IF x = 0 THEN 0 ELSE R(x)
  BY DEF Reciprocal
<1>4. Real8 = {0, 1, 2, 3, 4, 5, 6, 7, 8, 9, 10}
  BY DEF Real8, P
<1> HIDE DEF R
<1>5. QED
  BY <1>1, <1>2, <1>3, <1>4

(* y times the reciprocal of its square.                                   *)
LEMMA ReciprocalOfSquare ==
  \A y \in Real8 : RealMul(y, Reciprocal[RealMul(y, y)]) = Reciprocal[y]
<1>1. Real8 = {0, 1, 2, 3, 4, 5, 6, 7, 8, 9, 10}
  BY DEF Real8, P
<1>2. QED
  BY <1>1, ReciprocalIs DEF RealMul, P

LEMMA RealsAreComplex ==
  ASSUME NEW x \in Real8, NEW y \in Real8
  PROVE  /\ ToComplex(RealAdd(x, y)) = ComplexAdd(ToComplex(x), ToComplex(y))
         /\ ToComplex(RealSub(x, y)) = ComplexSub(ToComplex(x), ToComplex(y))
         /\ ToComplex(RealMul(x, y)) = ComplexMul(ToComplex(x), ToComplex(y))
         /\ ToComplex(RealDiv(x, y)) = ComplexDiv(ToComplex(x), ToComplex(y))
         /\ Conj(ToComplex(x)) = ToComplex(x)
<1>1. ToComplex(RealAdd(x, y)) = ComplexAdd(ToComplex(x), ToComplex(y))
  BY DEF ToComplex, RealAdd, ComplexAdd, Real8, P
<1>2. ToComplex(RealSub(x, y)) = ComplexSub(ToComplex(x), ToComplex(y))
  BY DEF ToComplex, RealSub, ComplexSub, Real8, P
<1>3. \A u, v \in Real8 : RealMul(u, v) \in Real8 /\ RealMul(u, 0) = 0 /\ RealMul(0, u) = 0
  BY InRange, Products DEF RealMul, Real8, P
<1>4. \A u \in Real8 : RealSub(u, 0) = u /\ RealAdd(u, 0) = u /\ RealAdd(0, u) = u
  BY DEF RealAdd, RealSub, Real8, P
<1>5. 0 \in Real8
  BY DEF Real8, P
<1>6. \A u, v \in Real8 : ToComplex(RealMul(u, v)) = ComplexMul(ToComplex(u), ToComplex(v))
  BY <1>3, <1>4, <1>5 DEF ToComplex, ComplexMul
<1>7. \A u \in Real8 : Conj(ToComplex(u)) = ToComplex(u)
  BY DEF Conj, ToComplex, Real8, P
<1>8. ToComplex(RealDiv(x, y)) = ComplexDiv(ToComplex(x), ToComplex(y))
  <2>1. ComplexMul(ToComplex(x), Conj(ToComplex(y))) = <<RealMul(x, y), 0>>
    BY <1>6, <1>7 DEF ToComplex
  <2>2. RealAdd(RealMul(y, y), RealMul(0, 0)) = RealMul(y, y)
    BY <1>3, <1>4, <1>5
  <2> DEFINE r == Reciprocal[RealMul(y, y)]
  <2>3. r \in Real8
    BY ReciprocalIs, <1>3
  <2>4. ComplexDiv(ToComplex(x), ToComplex(y)) = <<RealMul(RealMul(x, y), r), RealMul(0, r)>>
    BY <2>1, <2>2 DEF ComplexDiv, ToComplex
  <2>5. RealMul(RealMul(x, y), r) = RealMul(x, Reciprocal[y])
    BY <2>3, ProductsAssociate, ReciprocalOfSquare
  <2>6. QED
    BY <2>3, <2>4, <2>5, <1>3 DEF RealDiv, ToComplex
<1>9. QED
  BY <1>1, <1>2, <1>6, <1>7, <1>8
(***************************************************************************)
(* The two kinds of numbers as one: the values of a T, and each as the     *)
(* complex number it is.                                                   *)
(***************************************************************************)
Number(T) == IF T = "real8" THEN Real8 ELSE Complex16
Storable(T) == IF T = "real8" THEN Real8 \cup {NaN}
               ELSE (Real8 \cup {NaN}) \X (Real8 \cup {NaN})
C(T, x) == IF T = "real8" THEN ToComplex(x) ELSE x

LEMMA Closed ==
  ASSUME NEW T \in Arithmetic, NEW x \in Number(T), NEW y \in Number(T)
  PROVE  /\ Zero(T) \in Number(T) /\ Plus(T, x, y) \in Number(T) /\ Minus(T, x, y) \in Number(T)
         /\ Times(T, x, y) \in Number(T) /\ Over(T, x, y) \in Number(T)
         /\ C(T, x) \in Complex16
         /\ T = "complex16" => Conj(x) \in Complex16
<1>1. \A u, v \in Real8 : /\ RealAdd(u, v) \in Real8 /\ RealSub(u, v) \in Real8
                          /\ RealMul(u, v) \in Real8 /\ RealDiv(u, v) \in Real8
  <2>1. \A u, v \in Real8 : u + v \in Int /\ u - v \in Int
    BY DEF Real8
  <2>2. \A u, v \in Real8 : u * v \in Int
    BY Products DEF Real8
  <2>3. \A u \in Real8 : Reciprocal[u] \in Real8
    BY ReciprocalIs
  <2>4. QED
    BY <2>1, <2>2, <2>3, InRange DEF RealAdd, RealSub, RealMul, RealDiv
<1>2. 0 \in Real8
  BY DEF Real8, P
<1>3. \A u \in Real8 : (-u) % P \in Real8
  BY InRange DEF Real8
<1>4. CASE T = "real8"
  BY <1>1, <1>2, <1>4 DEF Zero, Plus, Minus, Times, Over, Number, C, ToComplex, Complex16
<1>5. CASE T = "complex16"
  <2>1. x[1] \in Real8 /\ x[2] \in Real8 /\ y[1] \in Real8 /\ y[2] \in Real8
    BY <1>5 DEF Number, Complex16
  <2>2. \A u, v \in Real8 : <<u, v>> \in Complex16
    BY DEF Complex16
  <2>3. /\ ComplexAdd(x, y) \in Complex16 /\ ComplexSub(x, y) \in Complex16
        /\ ComplexMul(x, y) \in Complex16
    BY <1>1, <2>1, <2>2 DEF ComplexAdd, ComplexSub, ComplexMul
  <2>4. Conj(x) \in Complex16 /\ Conj(y) \in Complex16
    BY <1>3, <2>1, <2>2 DEF Conj
  <2>5. ComplexDiv(x, y) \in Complex16
    <3> DEFINE z == ComplexMul(x, Conj(y))
               r == Reciprocal[RealAdd(RealMul(y[1], y[1]), RealMul(y[2], y[2]))]
    <3>1. Conj(y)[1] \in Real8 /\ Conj(y)[2] \in Real8
      BY <2>4 DEF Complex16
    <3>2. z[1] \in Real8 /\ z[2] \in Real8
      BY <1>1, <2>1, <3>1 DEF ComplexMul
    <3>3. r \in Real8
      BY <1>1, <2>1, ReciprocalIs
    <3>4. ComplexDiv(x, y) = <<RealMul(z[1], r), RealMul(z[2], r)>>
      BY DEF ComplexDiv
    <3>5. QED
      BY <1>1, <2>2, <3>2, <3>3, <3>4
  <2>6. Zero(T) \in Complex16
    BY <1>2, <1>5, <2>2 DEF Zero
  <2>7. QED
    BY <1>5, <2>3, <2>4, <2>5, <2>6 DEF Plus, Minus, Times, Over, Number, C
<1>6. QED
  BY <1>4, <1>5 DEF Arithmetic

LEMMA AsInComplex ==
  ASSUME NEW T \in Arithmetic, NEW x \in Number(T), NEW y \in Number(T)
  PROVE  /\ C(T, Zero(T)) = <<0, 0>>
         /\ C(T, Plus(T, x, y)) = ComplexAdd(C(T, x), C(T, y))
         /\ C(T, Minus(T, x, y)) = ComplexSub(C(T, x), C(T, y))
         /\ C(T, Times(T, x, y)) = ComplexMul(C(T, x), C(T, y))
         /\ C(T, Over(T, x, y)) = ComplexDiv(C(T, x), C(T, y))
<1>1. CASE T = "real8"
  <2>1. x \in Real8 /\ y \in Real8
    BY <1>1 DEF Number
  <2>2. C(T, Zero(T)) = <<0, 0>>
    BY <1>1 DEF C, Zero, ToComplex
  <2>3. QED
    BY <1>1, <2>1, <2>2, RealsAreComplex DEF C, Plus, Minus, Times, Over
<1>2. CASE T = "complex16"
  BY <1>2 DEF C, Plus, Minus, Times, Over, Zero
<1>3. QED
  BY <1>1, <1>2 DEF Arithmetic

LEMMA Commute ==
  ASSUME NEW T \in Arithmetic, NEW x \in Number(T), NEW y \in Number(T)
  PROVE  Plus(T, x, y) = Plus(T, y, x) /\ Times(T, x, y) = Times(T, y, x)
<1>1. \A u, v \in Real8 : RealAdd(u, v) = RealAdd(v, u) /\ RealMul(u, v) = RealMul(v, u)
  <2>1. \A u, v \in Int : u + v = v + u /\ u * v = v * u
    OBVIOUS
  <2>2. QED
    BY <2>1 DEF RealAdd, RealMul, Real8
<1>2. CASE T = "real8"
  BY <1>1, <1>2 DEF Plus, Times, Number
<1>3. CASE T = "complex16"
  <2>1. x[1] \in Real8 /\ x[2] \in Real8 /\ y[1] \in Real8 /\ y[2] \in Real8
    BY <1>3 DEF Number, Complex16
  <2>2. \A u, v \in Real8 : RealMul(u, v) \in Real8
    BY InRange, Products DEF RealMul, Real8
  <2>3. /\ RealMul(x[1], y[1]) = RealMul(y[1], x[1]) /\ RealMul(x[2], y[2]) = RealMul(y[2], x[2])
        /\ RealMul(x[1], y[2]) = RealMul(y[2], x[1]) /\ RealMul(x[2], y[1]) = RealMul(y[1], x[2])
    BY <1>1, <2>1
  <2>4. RealAdd(RealMul(x[1], y[2]), RealMul(x[2], y[1]))
          = RealAdd(RealMul(y[1], x[2]), RealMul(y[2], x[1]))
    <3>1. RealAdd(RealMul(x[1], y[2]), RealMul(x[2], y[1]))
            = RealAdd(RealMul(x[2], y[1]), RealMul(x[1], y[2]))
      BY <1>1, <2>1, <2>2
    <3>2. QED
      BY <2>3, <3>1
  <2>5. ComplexMul(x, y) = ComplexMul(y, x)
    BY <2>3, <2>4 DEF ComplexMul
  <2>6. ComplexAdd(x, y) = ComplexAdd(y, x)
    BY <1>1, <2>1 DEF ComplexAdd
  <2>7. QED
    BY <1>3, <2>5, <2>6 DEF Plus, Times
<1>4. QED
  BY <1>2, <1>3 DEF Arithmetic

-----------------------------------------------------------------------------
(* Products of rows and columns.                                           *)
Sums(T, k, a, b, s) ==
  s = [l \in 0 .. k |-> IF l = 0 THEN Zero(T)
                        ELSE Plus(T, s[l - 1], Times(T, a[l - 1], b[l - 1]))]

(* What adding up one product after the other makes, for any length: by    *)
(* the first length there is no sum for.                                   *)
LEMMA SumsExist ==
  ASSUME NEW T, NEW k \in Nat, NEW a, NEW b
  PROVE  \E s : Sums(T, k, a, b, s)
<1> DEFINE Bad == {q \in Nat : ~\E s : Sums(T, q, a, b, s)}
<1>1. SUFFICES ASSUME Bad # {} PROVE FALSE
  OBVIOUS
<1>2. PICK least \in Bad : \A q \in Bad : least <= q
  <2> HIDE DEF Bad
  <2>1. Bad \in SUBSET Nat
    BY DEF Bad
  <2>2. QED
    BY <1>1, <2>1, LeastNumber
<1>3. least \in Nat /\ ~\E s : Sums(T, least, a, b, s)
  OBVIOUS
<1>4. CASE least = 0
  <2>1. Sums(T, 0, a, b, [l \in 0 .. 0 |-> Zero(T)])
    BY DEF Sums
  <2>2. QED
    BY <1>3, <1>4, <2>1
<1>5. CASE least # 0
  <2>1. least - 1 \in Nat /\ least - 1 < least
    BY <1>3, <1>5
  <2>2. least - 1 \notin Bad
    BY <1>2, <2>1
  <2>3. PICK s : Sums(T, least - 1, a, b, s)
    BY <2>1, <2>2
  <2> DEFINE next == Plus(T, s[least - 1], Times(T, a[least - 1], b[least - 1]))
             t == [l \in 0 .. least |-> IF l < least THEN s[l] ELSE next]
  <2>4. /\ \A l \in 0 .. least - 1 : t[l] = s[l]
        /\ t[least] = next
    BY <1>3, <2>1
  <2>5. ASSUME NEW l \in 0 .. least
        PROVE  t[l] = IF l = 0 THEN Zero(T)
                      ELSE Plus(T, t[l - 1], Times(T, a[l - 1], b[l - 1]))
    <3>1. CASE l = 0
      <4>1. 0 \in 0 .. least - 1
        BY <2>1
      <4>2. s[0] = Zero(T)
        BY <2>3, <4>1 DEF Sums
      <4> HIDE DEF t
      <4>3. QED
        BY <3>1, <4>1, <4>2, <2>4
    <3>2. CASE l # 0 /\ l < least
      <4>1. l \in 0 .. least - 1 /\ l - 1 \in 0 .. least - 1
        BY <1>3, <3>2
      <4>2. s[l] = Plus(T, s[l - 1], Times(T, a[l - 1], b[l - 1]))
        BY <2>3, <4>1, <3>2 DEF Sums
      <4>3. t[l] = s[l] /\ t[l - 1] = s[l - 1]
        BY <2>4, <4>1
      <4> HIDE DEF t
      <4>4. QED
        BY <3>2, <4>2, <4>3
    <3>3. CASE l = least
      <4>1. l - 1 \in 0 .. least - 1
        BY <2>1, <3>3
      <4>2. t[l - 1] = s[l - 1]
        BY <2>4, <4>1
      <4>3. t[l] = Plus(T, s[l - 1], Times(T, a[l - 1], b[l - 1]))
        BY <2>4, <3>3
      <4> HIDE DEF t
      <4>4. QED
        BY <1>5, <3>3, <4>2, <4>3
    <3>4. QED
      BY <1>3, <3>1, <3>2, <3>3
  <2>6. Sums(T, least, a, b, t)
    <3>1. DOMAIN t = 0 .. least /\ t = [l \in 0 .. least |-> t[l]]
      OBVIOUS
    <3> HIDE DEF t
    <3>2. QED
      BY <2>5, <3>1 DEF Sums
  <2>7. QED
    BY <1>3, <2>6
<1>6. QED
  BY <1>4, <1>5

LEMMA DotIs ==
  ASSUME NEW T \in Arithmetic, NEW k \in Nat,
         NEW a \in [Indices(k) -> Number(T)], NEW b \in [Indices(k) -> Number(T)]
  PROVE  \E s \in [0 .. k -> Number(T)] :
           /\ s[0] = Zero(T)
           /\ \A l \in 1 .. k : s[l] = Plus(T, s[l - 1], Times(T, a[l - 1], b[l - 1]))
           /\ Dot(T, k, a, b) = s[k]
<1> DEFINE s == CHOOSE x : Sums(T, k, a, b, x)
<1>1. Sums(T, k, a, b, s)
  BY SumsExist
<1>2. Dot(T, k, a, b) = s[k]
  BY DEF Dot, Sums
<1> HIDE DEF s
<1>3. DOMAIN s = 0 .. k /\ s = [l \in 0 .. k |-> s[l]]
  BY <1>1 DEF Sums
<1>4. s[0] = Zero(T)
  BY <1>1 DEF Sums
<1>5. ASSUME NEW l \in 1 .. k
      PROVE  /\ s[l] = Plus(T, s[l - 1], Times(T, a[l - 1], b[l - 1]))
             /\ l - 1 \in 0 .. k /\ a[l - 1] \in Number(T) /\ b[l - 1] \in Number(T)
  <2>1. l \in 0 .. k /\ l # 0 /\ l - 1 \in 0 .. k /\ l - 1 \in Indices(k)
    BY DEF Indices
  <2>2. s[l] = Plus(T, s[l - 1], Times(T, a[l - 1], b[l - 1]))
    BY <1>1, <2>1 DEF Sums
  <2>3. QED
    BY <2>1, <2>2
<1>6. \A l \in 0 .. k : s[l] \in Number(T)
  <2> DEFINE Bad == {l \in 0 .. k : s[l] \notin Number(T)}
  <2>1. SUFFICES ASSUME Bad # {} PROVE FALSE
    OBVIOUS
  <2>2. PICK least \in Bad : \A q \in Bad : least <= q
    <3>1. Bad \in SUBSET Nat
      OBVIOUS
    <3> HIDE DEF Bad
    <3>2. QED
      BY <2>1, <3>1, LeastNumber
  <2>3. least # 0
    <3>1. Zero(T) \in Number(T)
      BY DEF Arithmetic, Zero, Number, Real8, Complex16, P
    <3>2. QED
      BY <1>4, <3>1
  <2>4. least \in 1 .. k /\ least - 1 \in 0 .. k /\ least - 1 < least
    BY <2>3
  <2>5. s[least - 1] \in Number(T)
    BY <2>2, <2>4
  <2>6. s[least] \in Number(T)
    <3>1. Times(T, a[least - 1], b[least - 1]) \in Number(T)
      BY <1>5, <2>4, Closed
    <3>2. QED
      BY <1>5, <2>4, <2>5, <3>1, Closed
  <2>7. QED
    BY <2>6
<1>7. s \in [0 .. k -> Number(T)]
  BY <1>3, <1>6
<1>8. QED
  BY <1>2, <1>4, <1>5, <1>7

(* A product of reals is the product of the complex numbers they are.      *)
LEMMA DotAsInComplex ==
  ASSUME NEW T \in Arithmetic, NEW k \in Nat,
         NEW a \in [Indices(k) -> Number(T)], NEW b \in [Indices(k) -> Number(T)]
  PROVE  /\ Dot(T, k, a, b) \in Number(T)
         /\ C(T, Dot(T, k, a, b)) = Dot("complex16", k, [l \in Indices(k) |-> C(T, a[l])],
                                                        [l \in Indices(k) |-> C(T, b[l])])
<1> DEFINE ca == [l \in Indices(k) |-> C(T, a[l])]
           cb == [l \in Indices(k) |-> C(T, b[l])]
<1>1. "complex16" \in Arithmetic /\ Number("complex16") = Complex16
  BY DEF Arithmetic, Number
<1>2. \A l \in Indices(k) : a[l] \in Number(T) /\ b[l] \in Number(T)
  OBVIOUS
<1>3. ca \in [Indices(k) -> Number("complex16")] /\ cb \in [Indices(k) -> Number("complex16")]
  BY <1>1, <1>2, Closed
<1>4. \A l \in Indices(k) : ca[l] = C(T, a[l]) /\ cb[l] = C(T, b[l])
  OBVIOUS
<1> HIDE DEF ca, cb
<1>5. PICK s \in [0 .. k -> Number(T)] :
           /\ s[0] = Zero(T)
           /\ \A l \in 1 .. k : s[l] = Plus(T, s[l - 1], Times(T, a[l - 1], b[l - 1]))
           /\ Dot(T, k, a, b) = s[k]
  BY DotIs
<1>6. PICK c \in [0 .. k -> Number("complex16")] :
           /\ c[0] = Zero("complex16")
           /\ \A l \in 1 .. k : c[l] = Plus("complex16", c[l - 1],
                                            Times("complex16", ca[l - 1], cb[l - 1]))
           /\ Dot("complex16", k, ca, cb) = c[k]
  BY <1>1, <1>3, DotIs
<1>7. \A l \in 0 .. k : C(T, s[l]) = c[l]
  <2> DEFINE Bad == {l \in 0 .. k : C(T, s[l]) # c[l]}
  <2>1. SUFFICES ASSUME Bad # {} PROVE FALSE
    OBVIOUS
  <2>2. PICK least \in Bad : \A q \in Bad : least <= q
    <3>1. Bad \in SUBSET Nat
      OBVIOUS
    <3> HIDE DEF Bad
    <3>2. QED
      BY <2>1, <3>1, LeastNumber
  <2>3. least # 0
    <3>1. C(T, Zero(T)) = Zero("complex16")
      BY DEF Arithmetic, Zero, C, ToComplex
    <3>2. QED
      BY <1>5, <1>6, <3>1
  <2>4. least \in 1 .. k /\ least - 1 \in 0 .. k /\ least - 1 < least /\ least - 1 \in Indices(k)
    BY <2>3 DEF Indices
  <2>5. C(T, s[least - 1]) = c[least - 1]
    BY <2>2, <2>4
  <2> DEFINE x == Times(T, a[least - 1], b[least - 1])
  <2>6. x \in Number(T) /\ C(T, x) = ComplexMul(ca[least - 1], cb[least - 1])
    <3>1. a[least - 1] \in Number(T) /\ b[least - 1] \in Number(T)
      BY <1>2, <2>4
    <3>2. ca[least - 1] = C(T, a[least - 1]) /\ cb[least - 1] = C(T, b[least - 1])
      BY <1>4, <2>4
    <3>3. x \in Number(T) /\ C(T, x) = ComplexMul(C(T, a[least - 1]), C(T, b[least - 1]))
      BY <3>1, Closed, AsInComplex
    <3>4. QED
      BY <3>2, <3>3
  <2>7. s[least - 1] \in Number(T) /\ s[least] = Plus(T, s[least - 1], x)
    BY <1>5, <2>4
  <2>8. C(T, s[least]) = ComplexAdd(c[least - 1], ComplexMul(ca[least - 1], cb[least - 1]))
    <3> HIDE DEF x
    <3>1. QED
      BY <2>5, <2>6, <2>7, AsInComplex
  <2>9. c[least] = ComplexAdd(c[least - 1], ComplexMul(ca[least - 1], cb[least - 1]))
    BY <1>6, <2>4 DEF Plus, Times
  <2>10. QED
    BY <2>8, <2>9
<1>8. k \in 0 .. k
  OBVIOUS
<1>9. QED
  BY <1>5, <1>6, <1>7, <1>8 DEF ca, cb

-----------------------------------------------------------------------------
(***************************************************************************)
(* Where things are: element d of a dense matrix is in row d % rows and    *)
(* column d \div rows.                                                     *)
(***************************************************************************)
LEMMA Places ==
  ASSUME NEW rows \in Nat \ {0}, NEW cols \in Nat \ {0}
  PROVE  /\ rows * cols \in Nat \ {0}
         /\ \A i \in Indices(rows), j \in Indices(cols) :
              /\ j * rows + i \in Indices(rows * cols)
              /\ (j * rows + i) % rows = i /\ (j * rows + i) \div rows = j
         /\ \A d \in Indices(rows * cols) :
              \E i \in Indices(rows), j \in Indices(cols) :
                d = j * rows + i /\ d % rows = i /\ d \div rows = j
<1>1. \A a, b, c \in Int : (a + b) * c = a * c + b * c
  OBVIOUS
<1>2. \A a, b \in Int : a * b \in Int /\ a * b = b * a
  OBVIOUS
<1>3. \A a, b \in Nat : a * b \in Nat
  OBVIOUS
<1>4. rows * cols \in Nat \ {0}
  <2>1. PICK b \in Nat : cols = b + 1
    <3>1. cols - 1 \in Nat /\ cols = (cols - 1) + 1
      OBVIOUS
    <3>2. QED
      BY <3>1
  <2>2. rows * cols = b * rows + rows
    BY <1>1, <1>2, <2>1
  <2>3. QED
    BY <1>3, <2>1, <2>2
(* A larger column is at least one stride further.                         *)
<1>5. \A j, k \in Int : j < k => j * rows + rows <= k * rows
  <2>1. SUFFICES ASSUME NEW j \in Int, NEW k \in Int, j < k PROVE j * rows + rows <= k * rows
    OBVIOUS
  <2>2. PICK e \in Nat : k = (j + 1) + e
    <3>1. k - (j + 1) \in Nat /\ k = (j + 1) + (k - (j + 1))
      BY <2>1
    <3>2. QED
      BY <3>1
  <2>3. k * rows = (j * rows + rows) + e * rows
    <3>1. (j + 1) * rows = j * rows + rows
      OBVIOUS
    <3>2. k * rows = (j + 1) * rows + e * rows
      BY <1>1, <2>2
    <3>3. QED
      BY <3>1, <3>2
  <2>4. e * rows \in Nat /\ j * rows \in Int
    BY <1>2, <1>3
  <2>5. QED
    BY <2>3, <2>4
<1>6. \A j, k \in Int : \A i, l \in Indices(rows) :
        j * rows + i = k * rows + l => j = k /\ i = l
  <2>1. SUFFICES ASSUME NEW j \in Int, NEW k \in Int, NEW i \in Indices(rows),
                        NEW l \in Indices(rows), j * rows + i = k * rows + l
                 PROVE  j = k /\ i = l
    OBVIOUS
  <2>2. j * rows \in Int /\ k * rows \in Int
    BY <1>2
  <2>3. ~(j < k)
    BY <1>5, <2>1, <2>2 DEF Indices
  <2>4. ~(k < j)
    BY <1>5, <2>1, <2>2 DEF Indices
  <2>5. j = k
    BY <2>3, <2>4
  <2>6. QED
    BY <2>1, <2>2, <2>5 DEF Indices
<1>7. ASSUME NEW d \in Indices(rows * cols)
      PROVE  \E i \in Indices(rows), j \in Indices(cols) :
               d = j * rows + i /\ d % rows = i /\ d \div rows = j
  <2>1. d \in Int /\ d >= 0 /\ d < rows * cols
    BY <1>4 DEF Indices
  <2>2. PICK q \in Int, r \in 0 .. rows - 1 :
            d = rows * q + r /\ q = d \div rows /\ r = d % rows
    BY <2>1, Division
  <2>3. d = q * rows + r /\ r \in Indices(rows)
    BY <1>2, <2>2 DEF Indices
  <2>4. q * rows \in Int
    BY <1>2
  <2>5. ~(q < 0)
    <3>1. SUFFICES ASSUME q < 0 PROVE FALSE
      OBVIOUS
    <3>2. q * rows + rows <= 0 * rows
      BY <1>5, <3>1
    <3>3. 0 * rows = 0
      OBVIOUS
    <3>4. QED
      BY <2>1, <2>3, <2>4, <3>2, <3>3 DEF Indices
  <2>6. q < cols
    <3>1. SUFFICES ASSUME cols <= q PROVE FALSE
      BY <2>2
    <3>2. cols * rows <= q * rows
      <4>1. CASE cols = q
        BY <2>4, <4>1
      <4>2. CASE cols < q
        <5>1. cols * rows + rows <= q * rows /\ cols * rows \in Int
          BY <1>2, <1>5, <4>2
        <5>2. QED
          BY <2>4, <5>1
      <4>3. QED
        BY <3>1, <4>1, <4>2
    <3>3. cols * rows = rows * cols
      BY <1>2
    <3>4. QED
      BY <1>4, <2>1, <2>3, <2>4, <3>2, <3>3 DEF Indices
  <2>7. q \in Indices(cols)
    BY <2>5, <2>6 DEF Indices
  <2>8. d \div rows = q /\ d % rows = r
    BY <2>2
  <2>9. QED
    BY <2>3, <2>7, <2>8, Zenon
<1>8. ASSUME NEW i \in Indices(rows), NEW j \in Indices(cols)
      PROVE  /\ j * rows + i \in Indices(rows * cols)
             /\ (j * rows + i) % rows = i /\ (j * rows + i) \div rows = j
  <2>1. i \in Nat /\ i < rows /\ j \in Nat /\ j < cols
    BY DEF Indices
  <2>2. j * rows \in Nat /\ j * rows + rows <= cols * rows /\ cols * rows = rows * cols
    BY <1>2, <1>3, <1>5, <2>1
  <2>3. j * rows + i \in Indices(rows * cols)
    BY <1>4, <2>1, <2>2 DEF Indices
  <2>4. PICK d \in Indices(rows * cols) : d = j * rows + i
    BY <2>3
  <2>5. PICK r \in Indices(rows), q \in Indices(cols) :
          d = q * rows + r /\ d % rows = r /\ d \div rows = q
    BY <1>7
  <2>6. j = q /\ i = r
    <3>1. q \in Int /\ j \in Int
      BY DEF Indices
    <3>2. j * rows + i = q * rows + r
      BY <2>4, <2>5
    <3>3. QED
      BY <1>6, <3>1, <3>2, Zenon
  <2>7. QED
    BY <2>3, <2>4, <2>5, <2>6
<1>9. QED
  BY <1>4, <1>7, <1>8

LEMMA EveryPlace ==
  ASSUME NEW rows \in Nat \ {0}, NEW cols \in Nat \ {0}, NEW d \in Indices(rows * cols)
  PROVE  \E i \in Indices(rows), j \in Indices(cols) : d = j * rows + i
<1>1. \A e \in Indices(rows * cols) :
        \E i \in Indices(rows), j \in Indices(cols) :
          e = j * rows + i /\ e % rows = i /\ e \div rows = j
  BY Places
<1>2. QED
  BY <1>1, Zenon

LEMMA PlaceOf ==
  ASSUME NEW rows \in Nat \ {0}, NEW cols \in Nat \ {0},
         NEW i \in Indices(rows), NEW j \in Indices(cols)
  PROVE  /\ j * rows + i \in Indices(rows * cols)
         /\ (j * rows + i) % rows = i /\ (j * rows + i) \div rows = j
  BY Places
-----------------------------------------------------------------------------
(* Matrices, and the terminals that hold them entry by entry.              *)
Grid(rows, cols) == Indices(rows) \X Indices(cols)

Shape(rows, cols, at) == [rows |-> rows, cols |-> cols, at |-> at]

DenseClass(T)  == IF T = "real8" THEN "REAL_DENSE" ELSE "COMPLEX_DENSE"
ScalarClass(T) == IF T = "real8" THEN "REAL_SCALAR" ELSE "COMPLEX_SCALAR"

(* A result is right: it stands for what is denoted, or both are nothing.  *)
Sound(r, T, D) ==
  \/ r = Throws /\ D = Undefined
  \/ /\ WellFormed(r) /\ Finite(r) /\ Datatype(r) = T /\ r.class \in Results
     /\ Meaning(r) = D /\ D # Undefined

LEMMA ShapesAreDefined ==
  \A rows, cols, at : Shape(rows, cols, at) # Undefined
  BY DEF Shape, Undefined

LEMMA NumbersAreStorable ==
  ASSUME NEW T \in Arithmetic
  PROVE  /\ Number(T) \subseteq Storable(T)
         /\ \A x \in Storable(T) : ~HasNaN(T, x) <=> x \in Number(T)
<1>1. NaN \notin Real8
  BY DEF NaN, Real8, P
<1>2. CASE T = "real8"
  BY <1>1, <1>2 DEF Number, Storable, HasNaN
<1>3. CASE T = "complex16"
  <2>1. ASSUME NEW x \in Storable(T)
        PROVE  ~HasNaN(T, x) <=> x \in Number(T)
    <3>1. PICK u \in Real8 \cup {NaN}, v \in Real8 \cup {NaN} : x = <<u, v>>
      BY <1>3 DEF Storable
    <3>2. x[1] = u /\ x[2] = v
      BY <3>1
    <3>3. ~HasNaN(T, x) <=> u \in Real8 /\ v \in Real8
      BY <1>1, <1>3, <3>2 DEF HasNaN
    <3>4. x \in Number(T) <=> u \in Real8 /\ v \in Real8
      BY <1>3, <3>1 DEF Number, Complex16
    <3>5. QED
      BY <3>3, <3>4
  <2>2. Number(T) \subseteq Storable(T)
    BY <1>3 DEF Number, Storable, Complex16
  <2>3. QED
    BY <2>1, <2>2
<1>4. QED
  BY <1>2, <1>3 DEF Arithmetic

(* The type of the numbers in a terminal.                                  *)
LEMMA TypeOfData ==
  ASSUME NEW t, WellFormed(t)
  PROVE  /\ Datatype(t) \in Arithmetic /\ Value(t) = Storable(Datatype(t))
         /\ IsReal(t) <=> Datatype(t) = "real8"
         /\ t.rows \in Nat \ {0} /\ t.cols \in Nat \ {0}
         /\ t.data \in [Indices(Datalen(t)) -> Storable(Datatype(t))]
         /\ Finite(t) <=> t.data \in [Indices(Datalen(t)) -> Number(Datatype(t))]
<1>1. /\ Datatype(t) \in Arithmetic /\ Value(t) = Storable(Datatype(t))
      /\ IsReal(t) <=> Datatype(t) = "real8"
  BY DEF Datatype, IsReal, Arithmetic, Value, Storable
<1>2. /\ t.rows \in Nat \ {0} /\ t.cols \in Nat \ {0}
      /\ t.data \in [Indices(Datalen(t)) -> Storable(Datatype(t))]
  BY <1>1 DEF WellFormed
<1>3. Finite(t) <=> \A k \in Indices(Datalen(t)) : ~HasNaN(Datatype(t), t.data[k])
  BY <1>2 DEF Finite
<1>4. \A k \in Indices(Datalen(t)) :
        ~HasNaN(Datatype(t), t.data[k]) <=> t.data[k] \in Number(Datatype(t))
  BY <1>1, <1>2, NumbersAreStorable
<1>5. QED
  BY <1>1, <1>2, <1>3, <1>4

(* The length and the entries of each kind of class.                       *)
LEMMA KindsAreDisjoint ==
  /\ Scalars \cap Denses = {} /\ Scalars \cap Diagonals = {} /\ Scalars \cap Sparses = {}
  /\ Denses \cap Diagonals = {} /\ Denses \cap Sparses = {} /\ Diagonals \cap Sparses = {}
  BY DEF Scalars, Denses, Diagonals, Sparses

LEMMA ByKind ==
  ASSUME NEW t
  PROVE  /\ t.class \in Scalars =>
              Datalen(t) = 1 /\ \A i, j : Entry(t, i, j) = t.data[0]
         /\ t.class \in Denses =>
              /\ Datalen(t) = t.rows * t.cols
              /\ \A i, j : Entry(t, i, j) = t.data[j * t.rows + i]
         /\ t.class \in Diagonals =>
              /\ Datalen(t) = IF t.rows > t.cols THEN t.cols ELSE t.rows
              /\ \A i, j : Entry(t, i, j) = IF i = j THEN t.data[i] ELSE Zero(Datatype(t))
         /\ t.class \in Sparses =>
              /\ Datalen(t) = t.colPtr[t.cols]
              /\ \A i, j : Entry(t, i, j) =
                   IF \E k \in InColumn(t, j) : t.rowIdx[k] = i
                   THEN t.data[CHOOSE k \in InColumn(t, j) : t.rowIdx[k] = i]
                   ELSE Zero(Datatype(t))
<1>1. CASE t.class \in Scalars
  BY <1>1, KindsAreDisjoint DEF Datalen, Entry
<1>2. CASE t.class \in Denses
  BY <1>2, KindsAreDisjoint DEF Datalen, Entry
<1>3. CASE t.class \in Diagonals
  BY <1>3, KindsAreDisjoint DEF Datalen, Entry
<1>4. CASE t.class \in Sparses
  BY <1>4, KindsAreDisjoint DEF Datalen, Entry
<1>5. QED
  BY <1>1, <1>2, <1>3, <1>4

(* Terminals with one datum for each entry.                                *)
Plain == Scalars \cup Denses

LEMMA PlainFacts ==
  ASSUME NEW t, WellFormed(t), t.class \in Plain
  PROVE  /\ Datalen(t) = t.rows * t.cols
         /\ \A i \in Indices(t.rows), j \in Indices(t.cols) :
              Entry(t, i, j) = t.data[j * t.rows + i]
<1>1. CASE t.class \in Scalars
  <2>1. t.rows = 1 /\ t.cols = 1 /\ Datalen(t) = 1
    BY <1>1, ByKind DEF WellFormed
  <2>2. \A i, j \in Indices(1) : j * 1 + i = 0
    BY DEF Indices
  <2>3. \A i, j : Entry(t, i, j) = t.data[0]
    BY <1>1, ByKind
  <2>4. QED
    BY <2>1, <2>2, <2>3
<1>2. CASE t.class \in Denses
  BY <1>2, ByKind
<1>3. QED
  BY <1>1, <1>2 DEF Plain

(* What an operand means, entry by entry.                                  *)
LEMMA MeaningIs ==
  ASSUME NEW t, WellFormed(t)
  PROVE  /\ Meaning(t) = Shape(t.rows, t.cols,
                               [ij \in Grid(t.rows, t.cols) |->
                                  C(Datatype(t), Entry(t, ij[1], ij[2]))])
         /\ Meaning(t).rows = t.rows /\ Meaning(t).cols = t.cols
         /\ Meaning(t) # Undefined
         /\ \A i \in Indices(t.rows), j \in Indices(t.cols) :
              Meaning(t).at[<<i, j>>] = C(Datatype(t), Entry(t, i, j))
<1>1. IsReal(t) <=> Datatype(t) = "real8"
  BY TypeOfData
<1>2. \A i, j : (IF IsReal(t) THEN ToComplex(Entry(t, i, j)) ELSE Entry(t, i, j))
                  = C(Datatype(t), Entry(t, i, j))
  BY <1>1 DEF C
<1>3. Meaning(t) = Shape(t.rows, t.cols,
                         [ij \in Grid(t.rows, t.cols) |->
                            C(Datatype(t), Entry(t, ij[1], ij[2]))])
  BY <1>2 DEF Meaning, Matrix, Shape, Grid
<1>4. QED
  BY <1>3, ShapesAreDefined DEF Shape, Grid

LEMMA OperandFacts ==
  ASSUME NEW t, WellFormed(t), Finite(t), t.class \in Plain
  PROVE  /\ t.rows \in Nat \ {0} /\ t.cols \in Nat \ {0}
         /\ t.data \in [Indices(t.rows * t.cols) -> Number(Datatype(t))]
         /\ Meaning(t).rows = t.rows /\ Meaning(t).cols = t.cols
         /\ \A i \in Indices(t.rows), j \in Indices(t.cols) :
              /\ j * t.rows + i \in Indices(t.rows * t.cols)
              /\ Meaning(t).at[<<i, j>>] = C(Datatype(t), t.data[j * t.rows + i])
         /\ 0 \in Indices(t.rows * t.cols) /\ 0 \in Indices(t.rows) /\ 0 \in Indices(t.cols)
         /\ Meaning(t).at[<<0, 0>>] = C(Datatype(t), t.data[0])
<1>1. /\ t.rows \in Nat \ {0} /\ t.cols \in Nat \ {0}
      /\ t.data \in [Indices(t.rows * t.cols) -> Number(Datatype(t))]
  BY TypeOfData, PlainFacts
<1>2. /\ Meaning(t).rows = t.rows /\ Meaning(t).cols = t.cols
      /\ \A i \in Indices(t.rows), j \in Indices(t.cols) :
           Meaning(t).at[<<i, j>>] = C(Datatype(t), t.data[j * t.rows + i])
  BY MeaningIs, PlainFacts
<1>3. \A i \in Indices(t.rows), j \in Indices(t.cols) :
         j * t.rows + i \in Indices(t.rows * t.cols)
  BY <1>1, Places
<1>4. 0 \in Indices(t.rows) /\ 0 \in Indices(t.cols) /\ 0 * t.rows + 0 = 0
  BY <1>1 DEF Indices
<1>5. QED
  BY <1>1, <1>2, <1>3, <1>4

(* A dense matrix holds its data, each in its place.                       *)
Stores(t, T, data, rows, cols, at) ==
  /\ WellFormed(t) /\ t.class = DenseClass(T) /\ t.class \in Results /\ Datatype(t) = T
  /\ Finite(t) <=> data \in [Indices(rows * cols) -> Number(T)]
  /\ Meaning(t) = Shape(rows, cols, at)

LEMMA StoresDense ==
  ASSUME NEW T \in Arithmetic, NEW rows \in Nat \ {0}, NEW cols \in Nat \ {0},
         NEW data \in [Indices(rows * cols) -> Storable(T)],
         NEW at, at = [ij \in Grid(rows, cols) |-> at[ij]],
         \A i \in Indices(rows), j \in Indices(cols) :
           at[<<i, j>>] = C(T, data[j * rows + i])
  PROVE  Stores(Dense(DenseClass(T), data, rows, cols), T, data, rows, cols, at)
<1> DEFINE t == Dense(DenseClass(T), data, rows, cols)
<1>1. /\ t = [class |-> DenseClass(T), rows |-> rows, cols |-> cols, data |-> data,
              colPtr |-> None, rowIdx |-> None]
      /\ t.class = DenseClass(T) /\ t.rows = rows /\ t.cols = cols /\ t.data = data
      /\ t.colPtr = None /\ t.rowIdx = None
  BY DEF Dense
<1>2. /\ t.class \in Denses /\ t.class \in Classes /\ t.class \notin Scalars
      /\ t.class \notin Sparses /\ t.class \in Results
  BY <1>1 DEF DenseClass, Denses, Classes, Scalars, Sparses, Results
<1>3. Datatype(t) = T /\ Value(t) = Storable(T)
  BY <1>1 DEF Datatype, IsReal, Reals, DenseClass, Value, Storable, Arithmetic
<1>4. Datalen(t) = rows * cols
  BY <1>1, <1>2, ByKind
<1> HIDE DEF t
<1>5. WellFormed(t)
  BY <1>1, <1>2, <1>3, <1>4 DEF WellFormed
<1>6. Finite(t) <=> data \in [Indices(rows * cols) -> Number(T)]
  BY <1>1, <1>3, <1>4, <1>5, TypeOfData
<1>7. Meaning(t) = Shape(rows, cols, at)
  <2>1. \A i \in Indices(rows), j \in Indices(cols) :
           C(Datatype(t), Entry(t, i, j)) = at[<<i, j>>]
    <3>1. \A i \in Indices(rows), j \in Indices(cols) : Entry(t, i, j) = data[j * rows + i]
      BY <1>1, <1>2, ByKind
    <3>2. QED
      BY <1>3, <3>1
  <2>2. ASSUME NEW ij \in Grid(rows, cols)
        PROVE  C(Datatype(t), Entry(t, ij[1], ij[2])) = at[ij]
    <3>1. PICK i \in Indices(rows), j \in Indices(cols) : ij = <<i, j>>
      BY DEF Grid
    <3>2. ij[1] = i /\ ij[2] = j
      BY <3>1
    <3>3. QED
      BY <2>1, <3>1, <3>2
  <2>3. [ij \in Grid(rows, cols) |-> C(Datatype(t), Entry(t, ij[1], ij[2]))] = at
    BY <2>2
  <2>4. QED
    BY <1>1, <1>5, <2>3, MeaningIs
<1>8. QED
  BY <1>1, <1>2, <1>3, <1>5, <1>6, <1>7 DEF Stores, t

LEMMA MakesDense ==
  ASSUME NEW T \in Arithmetic, NEW rows \in Nat \ {0}, NEW cols \in Nat \ {0},
         NEW data \in [Indices(rows * cols) -> Number(T)],
         NEW at, at = [ij \in Grid(rows, cols) |-> at[ij]],
         \A i \in Indices(rows), j \in Indices(cols) :
           at[<<i, j>>] = C(T, data[j * rows + i])
  PROVE  Sound(Dense(DenseClass(T), data, rows, cols), T, Shape(rows, cols, at))
<1> DEFINE t == Dense(DenseClass(T), data, rows, cols)
<1>1. data \in [Indices(rows * cols) -> Storable(T)]
  BY NumbersAreStorable
<1>2. Stores(t, T, data, rows, cols, at)
  BY <1>1, StoresDense
<1>3. QED
  BY <1>2, ShapesAreDefined DEF Sound, Stores

LEMMA MakesScalar ==
  ASSUME NEW T \in Arithmetic, NEW x \in Number(T),
         NEW at, at = [ij \in Grid(1, 1) |-> at[ij]], at[<<0, 0>>] = C(T, x)
  PROVE  Sound(Scalar(ScalarClass(T), x), T, Shape(1, 1, at))
<1> DEFINE t == Scalar(ScalarClass(T), x)
           data == [k \in {0} |-> x]
<1>1. /\ t = [class |-> ScalarClass(T), rows |-> 1, cols |-> 1, data |-> data,
              colPtr |-> None, rowIdx |-> None]
      /\ t.class = ScalarClass(T) /\ t.rows = 1 /\ t.cols = 1 /\ t.data = data
      /\ t.colPtr = None /\ t.rowIdx = None
  BY DEF Scalar
<1>2. /\ t.class \in Scalars /\ t.class \in Classes
      /\ t.class \notin Sparses /\ t.class \in Results
  BY <1>1 DEF ScalarClass, Denses, Classes, Scalars, Sparses, Results
<1>3. Datatype(t) = T /\ Value(t) = Storable(T)
  BY <1>1 DEF Datatype, IsReal, Reals, ScalarClass, Value, Storable, Arithmetic
<1>4. Datalen(t) = 1 /\ Indices(1) = {0}
  BY <1>1, <1>2, ByKind DEF Indices
<1>5. data \in [Indices(1) -> Storable(T)] /\ data \in [Indices(1) -> Number(T)] /\ data[0] = x
  BY <1>4, NumbersAreStorable
<1> HIDE DEF t, data
<1>6. WellFormed(t)
  BY <1>1, <1>2, <1>3, <1>4, <1>5 DEF WellFormed
<1>7. Finite(t)
  BY <1>1, <1>3, <1>4, <1>5, <1>6, TypeOfData
<1>8. Meaning(t) = Shape(1, 1, at)
  <2>1. \A i, j : C(Datatype(t), Entry(t, i, j)) = at[<<0, 0>>]
    <3>1. \A i, j : Entry(t, i, j) = x
      BY <1>1, <1>2, <1>5, ByKind
    <3>2. QED
      BY <1>3, <3>1
  <2>2. \A ij \in Grid(1, 1) : ij = <<0, 0>>
    BY <1>4 DEF Grid
  <2>3. \A ij \in Grid(1, 1) : C(Datatype(t), Entry(t, ij[1], ij[2])) = at[ij]
    BY <2>1, <2>2
  <2>4. [ij \in Grid(1, 1) |-> C(Datatype(t), Entry(t, ij[1], ij[2]))] = at
    BY <2>3
  <2>5. QED
    BY <1>1, <1>6, <2>4, MeaningIs
<1>9. QED
  BY <1>2, <1>3, <1>6, <1>7, <1>8, ShapesAreDefined DEF Sound, t

-----------------------------------------------------------------------------
(* The runners.                                                            *)

(* What operations on two matrices are, case by case.                      *)
LEMMA DenotedIs ==
  ASSUME NEW A, NEW B, NEW op \in Binary
  PROVE  /\ op = "UNIMPLEMENTED_BINARY" => DenotedBinary(op, A, B) = Undefined
         /\ op # "UNIMPLEMENTED_BINARY" /\ IsOneByOne(A) =>
              DenotedBinary(op, A, B) =
                Shape(B.rows, B.cols, [ij \in Grid(B.rows, B.cols) |->
                        Elementwise(op, A.at[<<0, 0>>], B.at[<<ij[1], ij[2]>>])])
         /\ op # "UNIMPLEMENTED_BINARY" /\ ~IsOneByOne(A) /\ IsOneByOne(B) =>
              DenotedBinary(op, A, B) =
                Shape(A.rows, A.cols, [ij \in Grid(A.rows, A.cols) |->
                        Elementwise(op, A.at[<<ij[1], ij[2]>>], B.at[<<0, 0>>])])
         /\ op = "MTIMES" /\ ~IsOneByOne(A) /\ ~IsOneByOne(B) =>
              DenotedBinary(op, A, B) =
                IF A.cols = B.rows
                THEN Shape(A.rows, B.cols, [ij \in Grid(A.rows, B.cols) |->
                       Dot("complex16", A.cols,
                           [l \in Indices(A.cols) |-> A.at[<<ij[1], l>>]],
                           [l \in Indices(A.cols) |-> B.at[<<l, ij[2]>>]])])
                ELSE Undefined
         /\ op \in Infix /\ ~IsOneByOne(A) /\ ~IsOneByOne(B) =>
              DenotedBinary(op, A, B) =
                IF A.rows = B.rows /\ A.cols = B.cols
                THEN Shape(A.rows, A.cols, [ij \in Grid(A.rows, A.cols) |->
                       Elementwise(op, A.at[<<ij[1], ij[2]>>], B.at[<<ij[1], ij[2]>>])])
                ELSE Undefined
<1>1. "MTIMES" \notin Infix /\ "UNIMPLEMENTED_BINARY" \notin Infix
  BY DEF Infix
<1>2. CASE op = "UNIMPLEMENTED_BINARY"
  BY <1>1, <1>2 DEF DenotedBinary
<1>3. CASE op # "UNIMPLEMENTED_BINARY" /\ IsOneByOne(A)
  BY <1>3 DEF DenotedBinary, Matrix, Shape, Grid
<1>4. CASE op # "UNIMPLEMENTED_BINARY" /\ ~IsOneByOne(A) /\ IsOneByOne(B)
  BY <1>4 DEF DenotedBinary, Matrix, Shape, Grid
<1>5. CASE op = "MTIMES" /\ ~IsOneByOne(A) /\ ~IsOneByOne(B)
  BY <1>1, <1>5 DEF DenotedBinary, Matrix, Shape, Grid
<1>6. CASE op \in Infix /\ ~IsOneByOne(A) /\ ~IsOneByOne(B)
  BY <1>1, <1>6 DEF DenotedBinary, Matrix, Shape, Grid
<1>7. QED
  BY <1>1, <1>2, <1>3, <1>4, <1>5, <1>6

LEMMA DenotedLeft ==
  ASSUME NEW A, NEW B, NEW op \in Binary, op # "UNIMPLEMENTED_BINARY", IsOneByOne(A)
  PROVE  DenotedBinary(op, A, B) =
           Shape(B.rows, B.cols, [ij \in Grid(B.rows, B.cols) |->
                   Elementwise(op, A.at[<<0, 0>>], B.at[<<ij[1], ij[2]>>])])
  BY DEF DenotedBinary, Matrix, Shape, Grid

(* How InfixMatrix computes with a scalar that comes first.                *)
ScalarFirst(T, op, x, y) ==
  IF Izysymbol[op].sv = Izysymbol[op].vs THEN Vx(T, Izysymbol[op].vs, y, x)
  ELSE Vx(T, Izysymbol[op].sv, x, y)

(* A kernel computes the operation, whichever of its names is used.        *)
Computes(T, op, x, y, z) ==
  z \in Number(T) /\ C(T, z) = Elementwise(op, C(T, x), C(T, y))

LEMMA KernelsAreRight ==
  ASSUME NEW T \in Arithmetic, NEW op \in Infix, NEW x \in Number(T), NEW y \in Number(T)
  PROVE  /\ Computes(T, op, x, y, Vx(T, Izysymbol[op].vv, x, y))
         /\ Computes(T, op, x, y, Vx(T, Izysymbol[op].vs, x, y))
         /\ Computes(T, op, x, y, ScalarFirst(T, op, x, y))
<1>1. /\ Plus(T, x, y) \in Number(T) /\ Minus(T, x, y) \in Number(T)
      /\ Times(T, x, y) \in Number(T) /\ Over(T, x, y) \in Number(T)
  BY Closed
<1>2. /\ C(T, Plus(T, x, y)) = ComplexAdd(C(T, x), C(T, y))
      /\ C(T, Minus(T, x, y)) = ComplexSub(C(T, x), C(T, y))
      /\ C(T, Times(T, x, y)) = ComplexMul(C(T, x), C(T, y))
      /\ C(T, Over(T, x, y)) = ComplexDiv(C(T, x), C(T, y))
  BY AsInComplex
<1>3. Plus(T, y, x) = Plus(T, x, y) /\ Times(T, y, x) = Times(T, x, y)
  BY Commute
<1>4. CASE op = "PLUS"
  <2>1. Izysymbol[op].vv = "add" /\ Izysymbol[op].vs = "addx" /\ Izysymbol[op].sv = "addx"
    BY <1>4 DEF Izysymbol
  <2>2. /\ \A p, q : Vx(T, "add", p, q) = Plus(T, p, q) /\ Vx(T, "addx", p, q) = Plus(T, p, q)
        /\ Elementwise(op, C(T, x), C(T, y)) = ComplexAdd(C(T, x), C(T, y))
    BY <1>4 DEF Vx, VxAdd, Elementwise
  <2>3. QED
    BY <1>1, <1>2, <1>3, <2>1, <2>2 DEF Computes, ScalarFirst
<1>5. CASE op = "TIMES"
  <2>1. Izysymbol[op].vv = "mul" /\ Izysymbol[op].vs = "mulx" /\ Izysymbol[op].sv = "mulx"
    BY <1>5 DEF Izysymbol
  <2>2. /\ \A p, q : Vx(T, "mul", p, q) = Times(T, p, q) /\ Vx(T, "mulx", p, q) = Times(T, p, q)
        /\ Elementwise(op, C(T, x), C(T, y)) = ComplexMul(C(T, x), C(T, y))
    BY <1>5 DEF Vx, VxMul, Elementwise
  <2>3. QED
    BY <1>1, <1>2, <1>3, <2>1, <2>2 DEF Computes, ScalarFirst
<1>6. CASE op = "MINUS"
  <2>1. Izysymbol[op].vv = "sub" /\ Izysymbol[op].vs = "subx" /\ Izysymbol[op].sv = "xsub"
    BY <1>6 DEF Izysymbol
  <2>2. /\ \A p, q : /\ Vx(T, "sub", p, q) = Minus(T, p, q) /\ Vx(T, "subx", p, q) = Minus(T, p, q)
                     /\ Vx(T, "xsub", p, q) = Minus(T, p, q)
        /\ Elementwise(op, C(T, x), C(T, y)) = ComplexSub(C(T, x), C(T, y))
    BY <1>6 DEF Vx, VxSub, VxXsub, Elementwise
  <2>3. QED
    BY <1>1, <1>2, <2>1, <2>2 DEF Computes, ScalarFirst
<1>7. CASE op = "RDIVIDE"
  <2>1. Izysymbol[op].vv = "div" /\ Izysymbol[op].vs = "divx" /\ Izysymbol[op].sv = "xdiv"
    BY <1>7 DEF Izysymbol
  <2>2. /\ \A p, q : /\ Vx(T, "div", p, q) = Over(T, p, q) /\ Vx(T, "divx", p, q) = Over(T, p, q)
                     /\ Vx(T, "xdiv", p, q) = Over(T, p, q)
        /\ Elementwise(op, C(T, x), C(T, y)) = ComplexDiv(C(T, x), C(T, y))
    BY <1>7 DEF Vx, VxDiv, VxXdiv, Elementwise
  <2>3. QED
    BY <1>1, <1>2, <2>1, <2>2 DEF Computes, ScalarFirst
<1>8. QED
  BY <1>4, <1>5, <1>6, <1>7 DEF Infix

(* What a runner for dense matrices is given.                              *)
Operand(t, T) == WellFormed(t) /\ Finite(t) /\ t.class = DenseClass(T)

LEMMA DenseOperand ==
  ASSUME NEW T \in Arithmetic, NEW t, Operand(t, T)
  PROVE  /\ t.rows \in Nat \ {0} /\ t.cols \in Nat \ {0}
         /\ Datatype(t) = T /\ (IsReal(t) <=> T = "real8") /\ t.class = DenseClass(T)
         /\ t.class \notin Scalars
         /\ t.data \in [Indices(t.rows * t.cols) -> Number(T)]
         /\ Meaning(t).rows = t.rows /\ Meaning(t).cols = t.cols
         /\ \A i \in Indices(t.rows), j \in Indices(t.cols) :
              /\ j * t.rows + i \in Indices(t.rows * t.cols)
              /\ Meaning(t).at[<<i, j>>] = C(T, t.data[j * t.rows + i])
         /\ 0 \in Indices(t.rows * t.cols)
         /\ Meaning(t).at[<<0, 0>>] = C(T, t.data[0])
<1>1. t.class \in Plain /\ t.class \notin Scalars /\ Datatype(t) = T
  BY DEF Operand, DenseClass, Plain, Denses, Scalars, Datatype, IsReal, Reals, Arithmetic
<1>2. WellFormed(t) /\ Finite(t) /\ t.class = DenseClass(T)
  BY DEF Operand
<1>3. IsReal(t) <=> T = "real8"
  BY <1>1, <1>2, TypeOfData
<1>4. QED
  BY <1>1, <1>2, <1>3, OperandFacts

LEMMA InfixIsRight ==
  ASSUME NEW T \in Arithmetic, NEW op \in Infix, NEW t, NEW u, Operand(t, T), Operand(u, T)
  PROVE  Sound(InfixMatrix(op, t, u), T, DenotedBinary(op, Meaning(t), Meaning(u)))
<1> DEFINE A == Meaning(t)
           B == Meaning(u)
           D == DenotedBinary(op, A, B)
           name == Izysymbol[op]
<1>1. op \in Binary /\ op # "UNIMPLEMENTED_BINARY" /\ op # "MTIMES"
  BY DEF Binary, Infix
<1>2. /\ t.rows \in Nat \ {0} /\ t.cols \in Nat \ {0} /\ u.rows \in Nat \ {0} /\ u.cols \in Nat \ {0}
      /\ t.class = DenseClass(T) /\ u.class = DenseClass(T) /\ Datatype(t) = T
      /\ t.data \in [Indices(t.rows * t.cols) -> Number(T)] /\ t.data[0] \in Number(T)
      /\ u.data \in [Indices(u.rows * u.cols) -> Number(T)] /\ u.data[0] \in Number(T)
  BY DenseOperand
<1>3. /\ A.rows = t.rows /\ A.cols = t.cols /\ A.at[<<0, 0>>] = C(T, t.data[0])
      /\ B.rows = u.rows /\ B.cols = u.cols /\ B.at[<<0, 0>>] = C(T, u.data[0])
      /\ IsOneByOne(A) <=> IsOneByOne(t)
      /\ IsOneByOne(B) <=> IsOneByOne(u)
  BY DenseOperand DEF IsOneByOne
<1>4. /\ \A i \in Indices(t.rows), j \in Indices(t.cols) :
           /\ j * t.rows + i \in Indices(t.rows * t.cols)
           /\ A.at[<<i, j>>] = C(T, t.data[j * t.rows + i])
      /\ \A i \in Indices(u.rows), j \in Indices(u.cols) :
           /\ j * u.rows + i \in Indices(u.rows * u.cols)
           /\ B.at[<<i, j>>] = C(T, u.data[j * u.rows + i])
  BY DenseOperand
<1> HIDE DEF A, B
<1>5. Sound(InfixMatrix(op, t, u), T, D)
  <2>1. CASE IsOneByOne(t)
    <3> DEFINE data == [k \in DOMAIN u.data |-> ScalarFirst(T, op, t.data[0], u.data[k])]
               at == [ij \in Grid(B.rows, B.cols) |-> Elementwise(op, A.at[<<0, 0>>], B.at[<<ij[1], ij[2]>>])]
    <3>1. InfixMatrix(op, t, u) = Dense(DenseClass(T), data, u.rows, u.cols)
      BY <1>2, <2>1 DEF InfixMatrix, Mapped, ScalarFirst
    <3>2. D = Shape(u.rows, u.cols, at)
      <4>1. D = Shape(B.rows, B.cols, at)
        BY <1>1, <1>3, <2>1, DenotedIs
      <4> HIDE DEF at, D
      <4>2. QED
        BY <1>3, <4>1
    <3>3. ASSUME NEW k \in Indices(u.rows * u.cols)
          PROVE  Computes(T, op, t.data[0], u.data[k], data[k])
      <4>1. t.data[0] \in Number(T) /\ u.data[k] \in Number(T)
        BY <1>2, <2>1
      <4>2. data[k] = ScalarFirst(T, op, t.data[0], u.data[k])
        BY <1>2
      <4> HIDE DEF data
      <4>3. QED
        BY <4>1, <4>2, KernelsAreRight
    <3>4. data \in [Indices(u.rows * u.cols) -> Number(T)]
      BY <1>2, <3>3 DEF Computes
    <3>5. ASSUME NEW i \in Indices(u.rows), NEW j \in Indices(u.cols)
          PROVE  at[<<i, j>>] = C(T, data[j * u.rows + i])
      <4>1. PICK k \in Indices(u.rows * u.cols) : k = j * u.rows + i
        BY <1>4
      <4>2. at[<<i, j>>] = Elementwise(op, C(T, t.data[0]), C(T, u.data[k]))
        BY <1>3, <1>4, <2>1, <4>1 DEF Grid
      <4>3. C(T, data[k]) = Elementwise(op, C(T, t.data[0]), C(T, u.data[k]))
        BY <3>3 DEF Computes
      <4> HIDE DEF at, data
      <4>4. QED
        BY <4>1, <4>2, <4>3
    <3>6. at = [ij \in Grid(u.rows, u.cols) |-> at[ij]]
      BY <1>3
    <3> HIDE DEF at, data
    <3>7. Sound(Dense(DenseClass(T), data, u.rows, u.cols), T, Shape(u.rows, u.cols, at))
      BY <1>2, <3>4, <3>5, <3>6, MakesDense
    <3>8. QED
      BY <3>1, <3>2, <3>7
  <2>2. CASE ~IsOneByOne(t) /\ IsOneByOne(u)
    <3> DEFINE data == [k \in DOMAIN t.data |-> Vx(T, name.vs, t.data[k], u.data[0])]
               at == [ij \in Grid(A.rows, A.cols) |-> Elementwise(op, A.at[<<ij[1], ij[2]>>], B.at[<<0, 0>>])]
    <3>1. InfixMatrix(op, t, u) = Dense(DenseClass(T), data, t.rows, t.cols)
      BY <1>2, <2>2 DEF InfixMatrix, Mapped
    <3>2. D = Shape(t.rows, t.cols, at)
      <4>1. D = Shape(A.rows, A.cols, at)
        BY <1>1, <1>3, <2>2, DenotedIs
      <4> HIDE DEF at, D
      <4>2. QED
        BY <1>3, <4>1
    <3>3. ASSUME NEW k \in Indices(t.rows * t.cols)
          PROVE  Computes(T, op, t.data[k], u.data[0], data[k])
      <4>1. t.data[k] \in Number(T) /\ u.data[0] \in Number(T)
        BY <1>2, <2>2
      <4>2. data[k] = Vx(T, name.vs, t.data[k], u.data[0])
        BY <1>2
      <4> HIDE DEF data
      <4>3. QED
        BY <4>1, <4>2, KernelsAreRight
    <3>4. data \in [Indices(t.rows * t.cols) -> Number(T)]
      BY <1>2, <3>3 DEF Computes
    <3>5. ASSUME NEW i \in Indices(t.rows), NEW j \in Indices(t.cols)
          PROVE  at[<<i, j>>] = C(T, data[j * t.rows + i])
      <4>1. PICK k \in Indices(t.rows * t.cols) : k = j * t.rows + i
        BY <1>4
      <4>2. at[<<i, j>>] = Elementwise(op, C(T, t.data[k]), C(T, u.data[0]))
        BY <1>3, <1>4, <2>2, <4>1 DEF Grid
      <4>3. C(T, data[k]) = Elementwise(op, C(T, t.data[k]), C(T, u.data[0]))
        BY <3>3 DEF Computes
      <4> HIDE DEF at, data
      <4>4. QED
        BY <4>1, <4>2, <4>3
    <3>6. at = [ij \in Grid(t.rows, t.cols) |-> at[ij]]
      BY <1>3
    <3> HIDE DEF at, data
    <3>7. Sound(Dense(DenseClass(T), data, t.rows, t.cols), T, Shape(t.rows, t.cols, at))
      BY <1>2, <3>4, <3>5, <3>6, MakesDense
    <3>8. QED
      BY <3>1, <3>2, <3>7
  <2>3. CASE ~IsOneByOne(t) /\ ~IsOneByOne(u) /\ ~(t.rows = u.rows /\ t.cols = u.cols)
    <3>1. InfixMatrix(op, t, u) = Throws
      BY <2>3 DEF InfixMatrix
    <3>2. D = Undefined
      BY <1>1, <1>3, <2>3, DenotedIs
    <3>3. QED
      BY <3>1, <3>2 DEF Sound
  <2>4. CASE ~IsOneByOne(t) /\ ~IsOneByOne(u) /\ t.rows = u.rows /\ t.cols = u.cols
    <3> DEFINE data == [k \in DOMAIN t.data |-> Vx(T, name.vv, t.data[k], u.data[k])]
               at == [ij \in Grid(A.rows, A.cols) |-> Elementwise(op, A.at[<<ij[1], ij[2]>>], B.at[<<ij[1], ij[2]>>])]
    <3>1. InfixMatrix(op, t, u) = Dense(DenseClass(T), data, t.rows, t.cols)
      BY <1>2, <2>4 DEF InfixMatrix, Mapped
    <3>2. D = Shape(t.rows, t.cols, at)
      <4>1. D = Shape(A.rows, A.cols, at)
        <5>1. A.rows = B.rows /\ A.cols = B.cols /\ ~IsOneByOne(A) /\ ~IsOneByOne(B)
          BY <1>3, <2>4
        <5>2. QED
          BY <1>1, <5>1, DenotedIs
      <4> HIDE DEF at, D
      <4>2. QED
        BY <1>3, <4>1
    <3>3. ASSUME NEW k \in Indices(t.rows * t.cols)
          PROVE  Computes(T, op, t.data[k], u.data[k], data[k])
      <4>1. t.data[k] \in Number(T) /\ u.data[k] \in Number(T)
        BY <1>2, <2>4
      <4>2. data[k] = Vx(T, name.vv, t.data[k], u.data[k])
        BY <1>2
      <4> HIDE DEF data
      <4>3. QED
        BY <4>1, <4>2, KernelsAreRight
    <3>4. data \in [Indices(t.rows * t.cols) -> Number(T)]
      BY <1>2, <3>3 DEF Computes
    <3>5. ASSUME NEW i \in Indices(t.rows), NEW j \in Indices(t.cols)
          PROVE  at[<<i, j>>] = C(T, data[j * t.rows + i])
      <4>1. PICK k \in Indices(t.rows * t.cols) : k = j * t.rows + i
        BY <1>4
      <4>2. at[<<i, j>>] = Elementwise(op, C(T, t.data[k]), C(T, u.data[k]))
        BY <1>3, <1>4, <2>4, <4>1 DEF Grid
      <4>3. C(T, data[k]) = Elementwise(op, C(T, t.data[k]), C(T, u.data[k]))
        BY <3>3 DEF Computes
      <4> HIDE DEF at, data
      <4>4. QED
        BY <4>1, <4>2, <4>3
    <3>6. at = [ij \in Grid(t.rows, t.cols) |-> at[ij]]
      BY <1>3
    <3> HIDE DEF at, data
    <3>7. Sound(Dense(DenseClass(T), data, t.rows, t.cols), T, Shape(t.rows, t.cols, at))
      BY <1>2, <3>4, <3>5, <3>6, MakesDense
    <3>8. QED
      BY <3>1, <3>2, <3>7
  <2>5. QED
    BY <2>1, <2>2, <2>3, <2>4
<1>6. QED
  BY <1>5 DEF A, B

(* A real scalar.                                                          *)
LEMMA ScalarOperand ==
  ASSUME NEW t, WellFormed(t), Finite(t), t.class = "REAL_SCALAR"
  PROVE  /\ t.rows = 1 /\ t.cols = 1 /\ t.data[0] \in Number("real8")
         /\ Datatype(t) = "real8" /\ IsReal(t)
         /\ Meaning(t).rows = 1 /\ Meaning(t).cols = 1
         /\ Meaning(t).at[<<0, 0>>] = C("real8", t.data[0])
<1>1. t.class \in Scalars /\ t.class \in Plain /\ IsReal(t) /\ Datatype(t) = "real8"
  BY DEF Scalars, Plain, IsReal, Reals, Datatype
<1>2. t.rows = 1 /\ t.cols = 1
  BY <1>1 DEF WellFormed
<1>3. QED
  BY <1>1, <1>2, OperandFacts

LEMMA InfixScalarIsRight ==
  ASSUME NEW op \in Infix, NEW t, WellFormed(t), Finite(t), t.class = "REAL_SCALAR",
         NEW u, WellFormed(u), Finite(u), u.class = "REAL_SCALAR"
  PROVE  Sound(InfixScalar(op, t, u), "real8", DenotedBinary(op, Meaning(t), Meaning(u)))
<1> DEFINE A == Meaning(t)
           B == Meaning(u)
           x == Vx("real8", Izysymbol[op].vv, t.data[0], u.data[0])
           at == [ij \in Grid(B.rows, B.cols) |->
                    Elementwise(op, A.at[<<0, 0>>], B.at[<<ij[1], ij[2]>>])]
<1>1. op \in Binary /\ op # "UNIMPLEMENTED_BINARY" /\ "real8" \in Arithmetic
      /\ ScalarClass("real8") = "REAL_SCALAR"
  BY DEF Binary, Infix, Arithmetic, ScalarClass
<1>2. /\ A.rows = 1 /\ A.cols = 1 /\ A.at[<<0, 0>>] = C("real8", t.data[0])
      /\ B.rows = 1 /\ B.cols = 1 /\ B.at[<<0, 0>>] = C("real8", u.data[0])
      /\ t.data[0] \in Number("real8") /\ u.data[0] \in Number("real8")
  BY ScalarOperand
<1> HIDE DEF A, B
<1>3. x \in Number("real8") /\ C("real8", x) = Elementwise(op, A.at[<<0, 0>>], B.at[<<0, 0>>])
  BY <1>1, <1>2, KernelsAreRight DEF Computes
<1>4. DenotedBinary(op, A, B) = Shape(1, 1, at)
  <2>1. IsOneByOne(A)
    BY <1>2 DEF IsOneByOne
  <2>2. DenotedBinary(op, A, B) = Shape(B.rows, B.cols, at)
    BY <1>1, <2>1, DenotedLeft
  <2> HIDE DEF at
  <2>3. QED
    BY <1>2, <2>2
<1>5. at = [ij \in Grid(1, 1) |-> at[ij]] /\ at[<<0, 0>>] = C("real8", x)
  <2>1. <<0, 0>> \in Grid(1, 1)
    BY DEF Grid, Indices
  <2>2. QED
    BY <1>2, <1>3, <2>1
<1>6. InfixScalar(op, t, u) = Scalar(ScalarClass("real8"), x)
  BY <1>1 DEF InfixScalar
<1> HIDE DEF at, x
<1>7. Sound(Scalar(ScalarClass("real8"), x), "real8", Shape(1, 1, at))
  BY <1>1, <1>3, <1>5, MakesScalar
<1>8. QED
  BY <1>4, <1>6, <1>7 DEF A, B

(* Operations on one matrix, case by case.                                 *)
LEMMA DenotedUnaryIs ==
  ASSUME NEW A
  PROVE  /\ \A op \in {"NEGATE", "FUNCTION"} :
              DenotedUnary(op, A) =
                Shape(A.rows, A.cols, [ij \in Grid(A.rows, A.cols) |->
                        ElementwiseUnary(op, A.at[<<ij[1], ij[2]>>])])
         /\ DenotedUnary("TRANSPOSE", A) =
              Shape(A.cols, A.rows, [ij \in Grid(A.cols, A.rows) |-> A.at[<<ij[2], ij[1]>>]])
         /\ DenotedUnary("CTRANSPOSE", A) =
              Shape(A.cols, A.rows,
                    [ij \in Grid(A.cols, A.rows) |-> Conj(A.at[<<ij[2], ij[1]>>])])
         /\ DenotedUnary("UNIMPLEMENTED_UNARY", A) = Undefined
<1>1. \A op \in {"NEGATE", "FUNCTION"} :
        DenotedUnary(op, A) =
          Shape(A.rows, A.cols, [ij \in Grid(A.rows, A.cols) |->
                  ElementwiseUnary(op, A.at[<<ij[1], ij[2]>>])])
  BY DEF DenotedUnary, Matrix, Shape, Grid
<1>2. DenotedUnary("TRANSPOSE", A) =
        Shape(A.cols, A.rows, [ij \in Grid(A.cols, A.rows) |-> A.at[<<ij[2], ij[1]>>]])
  BY DEF DenotedUnary, Matrix, Shape, Grid
<1>3. DenotedUnary("CTRANSPOSE", A) =
        Shape(A.cols, A.rows, [ij \in Grid(A.cols, A.rows) |-> Conj(A.at[<<ij[2], ij[1]>>])])
  BY DEF DenotedUnary, Matrix, Shape, Grid
<1>4. DenotedUnary("UNIMPLEMENTED_UNARY", A) = Undefined
  BY DEF DenotedUnary
<1>5. QED
  BY <1>1, <1>2, <1>3, <1>4

(* A unary kernel, by the name of its operation.                           *)
UnaryKernel(op, T, x) == IF op = "NEGATE" THEN Negated(T, x) ELSE Function(T, x)

LEMMA UnaryKernelsAreRight ==
  ASSUME NEW T \in Arithmetic, NEW op \in {"NEGATE", "FUNCTION"}, NEW x \in Number(T)
  PROVE  /\ UnaryKernel(op, T, x) \in Number(T)
         /\ C(T, UnaryKernel(op, T, x)) = ElementwiseUnary(op, C(T, x))
<1>1. Zero(T) \in Number(T) /\ C(T, Zero(T)) = <<0, 0>>
  BY Closed, AsInComplex
<1>2. CASE op = "NEGATE"
  <2>1. UnaryKernel(op, T, x) = Minus(T, Zero(T), x)
    BY <1>2 DEF UnaryKernel, Negated
  <2>2. ElementwiseUnary(op, C(T, x)) = ComplexSub(<<0, 0>>, C(T, x))
    BY <1>2 DEF ElementwiseUnary, Negated, Minus, Zero
  <2>3. QED
    BY <1>1, <2>1, <2>2, Closed, AsInComplex
<1>3. CASE op = "FUNCTION"
  <2> DEFINE xx == Times(T, x, x)
             xxx == Times(T, x, xx)
  <2>1. UnaryKernel(op, T, x) = Plus(T, xxx, x)
    BY <1>3 DEF UnaryKernel, Function
  <2>2. ElementwiseUnary(op, C(T, x)) =
          ComplexAdd(ComplexMul(C(T, x), ComplexMul(C(T, x), C(T, x))), C(T, x))
    BY <1>3 DEF ElementwiseUnary, Function, Plus, Times
  <2>3. xx \in Number(T) /\ C(T, xx) = ComplexMul(C(T, x), C(T, x))
    BY Closed, AsInComplex
  <2> HIDE DEF xx
  <2>4. xxx \in Number(T) /\ C(T, xxx) = ComplexMul(C(T, x), C(T, xx))
    BY <2>3, Closed, AsInComplex
  <2> HIDE DEF xxx
  <2>5. Plus(T, xxx, x) \in Number(T) /\ C(T, Plus(T, xxx, x)) = ComplexAdd(C(T, xxx), C(T, x))
    BY <2>4, Closed, AsInComplex
  <2>6. QED
    BY <2>1, <2>2, <2>3, <2>4, <2>5
<1>4. QED
  BY <1>2, <1>3

LEMMA MappedIsRight ==
  ASSUME NEW T \in Arithmetic, NEW op \in {"NEGATE", "FUNCTION"}, NEW t, Operand(t, T)
  PROVE  Sound(Dense(t.class, [k \in DOMAIN t.data |-> UnaryKernel(op, T, t.data[k])],
                     t.rows, t.cols), T, DenotedUnary(op, Meaning(t)))
<1> DEFINE A == Meaning(t)
           data == [k \in DOMAIN t.data |-> UnaryKernel(op, T, t.data[k])]
           at == [ij \in Grid(A.rows, A.cols) |-> ElementwiseUnary(op, A.at[<<ij[1], ij[2]>>])]
<1>1. /\ t.rows \in Nat \ {0} /\ t.cols \in Nat \ {0} /\ t.class = DenseClass(T)
      /\ t.data \in [Indices(t.rows * t.cols) -> Number(T)]
      /\ A.rows = t.rows /\ A.cols = t.cols
      /\ \A i \in Indices(t.rows), j \in Indices(t.cols) :
           /\ j * t.rows + i \in Indices(t.rows * t.cols)
           /\ A.at[<<i, j>>] = C(T, t.data[j * t.rows + i])
  BY DenseOperand
<1> HIDE DEF A
<1>2. DenotedUnary(op, A) = Shape(t.rows, t.cols, at)
  <2>1. DenotedUnary(op, A) = Shape(A.rows, A.cols, at)
    BY DenotedUnaryIs
  <2> HIDE DEF at
  <2>2. QED
    BY <1>1, <2>1
<1>3. ASSUME NEW k \in Indices(t.rows * t.cols)
      PROVE  data[k] \in Number(T) /\ C(T, data[k]) = ElementwiseUnary(op, C(T, t.data[k]))
  <2>1. t.data[k] \in Number(T) /\ data[k] = UnaryKernel(op, T, t.data[k])
    BY <1>1
  <2> HIDE DEF data
  <2>2. QED
    BY <2>1, UnaryKernelsAreRight
<1>4. data \in [Indices(t.rows * t.cols) -> Number(T)]
  BY <1>1, <1>3
<1>5. ASSUME NEW i \in Indices(t.rows), NEW j \in Indices(t.cols)
      PROVE  at[<<i, j>>] = C(T, data[j * t.rows + i])
  <2>1. PICK k \in Indices(t.rows * t.cols) : k = j * t.rows + i
    BY <1>1
  <2>2. at[<<i, j>>] = ElementwiseUnary(op, C(T, t.data[k]))
    BY <1>1, <2>1 DEF Grid
  <2> HIDE DEF at, data
  <2>3. QED
    BY <1>3, <2>1, <2>2
<1>6. at = [ij \in Grid(t.rows, t.cols) |-> at[ij]]
  BY <1>1
<1> HIDE DEF at, data
<1>7. Sound(Dense(DenseClass(T), data, t.rows, t.cols), T, Shape(t.rows, t.cols, at))
  BY <1>1, <1>4, <1>5, <1>6, MakesDense
<1>8. QED
  BY <1>1, <1>2, <1>7 DEF A, data

(* Transposing: entry <<i, j>> of the result is <<j, i>> of the argument.  *)
LEMMA TransposedPlaces ==
  ASSUME NEW t, t.rows \in Nat \ {0}, t.cols \in Nat \ {0},
         DOMAIN t.data = Indices(t.rows * t.cols),
         NEW i \in Indices(t.cols), NEW j \in Indices(t.rows)
  PROVE  /\ j * t.cols + i \in Indices(t.rows * t.cols)
         /\ i * t.rows + j \in Indices(t.rows * t.cols)
         /\ TransposedData(t)[j * t.cols + i] = t.data[i * t.rows + j]
         /\ IsVector(t) => t.data[j * t.cols + i] = t.data[i * t.rows + j]
<1>1. t.cols * t.rows = t.rows * t.cols
  OBVIOUS
<1>2. /\ j * t.cols + i \in Indices(t.rows * t.cols)
      /\ (j * t.cols + i) % t.cols = i /\ (j * t.cols + i) \div t.cols = j
  BY <1>1, Places
<1>3. i * t.rows + j \in Indices(t.rows * t.cols)
  BY Places
<1>4. TransposedData(t)[j * t.cols + i] = t.data[i * t.rows + j]
  <2>1. PICK d \in Indices(t.rows * t.cols) : d = j * t.cols + i
    BY <1>2
  <2>2. TransposedData(t)[d] = t.data[(d % t.cols) * t.rows + (d \div t.cols)]
    BY DEF TransposedData
  <2>3. d % t.cols = i /\ d \div t.cols = j
    BY <1>2, <2>1
  <2>4. QED
    BY <2>1, <2>2, <2>3, Zenon
<1>5. ASSUME IsVector(t) PROVE j * t.cols + i = i * t.rows + j
  <2>1. CASE t.rows = 1
    <3>1. j = 0 /\ i \in Nat
      BY <2>1 DEF Indices
    <3>2. 0 * t.cols = 0 /\ i * 1 = i
      BY <3>1
    <3>3. QED
      BY <2>1, <3>1, <3>2
  <2>2. CASE t.cols = 1
    <3>1. i = 0 /\ j \in Nat
      BY <2>2 DEF Indices
    <3>2. 0 * t.rows = 0 /\ j * 1 = j
      BY <3>1
    <3>3. QED
      BY <2>2, <3>1, <3>2
  <2>3. QED
    BY <1>5, <2>1, <2>2 DEF IsVector
<1>6. QED
  BY <1>2, <1>3, <1>4, <1>5

LEMMA TransposedIsStored ==
  ASSUME NEW N, NEW t, t.rows \in Nat \ {0}, t.cols \in Nat \ {0},
         t.data \in [Indices(t.rows * t.cols) -> N]
  PROVE  /\ t.data \in [Indices(t.cols * t.rows) -> N]
         /\ TransposedData(t) \in [Indices(t.cols * t.rows) -> N]
<1>1. t.cols * t.rows = t.rows * t.cols
  OBVIOUS
<1>2. DOMAIN TransposedData(t) = Indices(t.rows * t.cols)
  BY DEF TransposedData
<1>3. ASSUME NEW d \in Indices(t.rows * t.cols)
      PROVE  TransposedData(t)[d] \in N
  <2>1. \E i \in Indices(t.cols), j \in Indices(t.rows) : d = j * t.cols + i
    <3>1. d \in Indices(t.cols * t.rows)
      BY <1>1
    <3>2. QED
      BY <3>1, EveryPlace
  <2> PICK i \in Indices(t.cols), j \in Indices(t.rows) : d = j * t.cols + i
    BY <2>1
  <2>2. /\ i * t.rows + j \in Indices(t.rows * t.cols)
        /\ TransposedData(t)[d] = t.data[i * t.rows + j]
    BY TransposedPlaces
  <2>3. QED
    BY <2>2
<1>4. TransposedData(t) = [d \in Indices(t.rows * t.cols) |-> TransposedData(t)[d]]
  BY <1>2 DEF TransposedData
<1>5. QED
  BY <1>1, <1>3, <1>4

LEMMA TransposeIsRight ==
  ASSUME NEW T \in Arithmetic, NEW t, Operand(t, T)
  PROVE  Sound(TransposeDense(t), T, DenotedUnary("TRANSPOSE", Meaning(t)))
<1> DEFINE A == Meaning(t)
           data == IF IsVector(t) THEN t.data ELSE TransposedData(t)
           at == [ij \in Grid(A.cols, A.rows) |-> A.at[<<ij[2], ij[1]>>]]
<1>1. /\ t.rows \in Nat \ {0} /\ t.cols \in Nat \ {0} /\ t.class = DenseClass(T)
      /\ t.data \in [Indices(t.rows * t.cols) -> Number(T)] /\ t.data[0] \in Number(T)
      /\ A.rows = t.rows /\ A.cols = t.cols /\ (IsReal(t) <=> T = "real8")
      /\ A.at[<<0, 0>>] = C(T, t.data[0])
      /\ \A i \in Indices(t.rows), j \in Indices(t.cols) :
           /\ j * t.rows + i \in Indices(t.rows * t.cols)
           /\ A.at[<<i, j>>] = C(T, t.data[j * t.rows + i])
  BY DenseOperand
<1> HIDE DEF A
<1>2. DenotedUnary("TRANSPOSE", A) = Shape(t.cols, t.rows, at)
  <2>1. DenotedUnary("TRANSPOSE", A) = Shape(A.cols, A.rows, at)
    BY DenotedUnaryIs
  <2> HIDE DEF at
  <2>2. QED
    BY <1>1, <2>1
<1>3. at = [ij \in Grid(t.cols, t.rows) |-> at[ij]]
  BY <1>1
<1>4. \A i \in Indices(t.cols), j \in Indices(t.rows) : at[<<i, j>>] = A.at[<<j, i>>]
  BY <1>1 DEF Grid
<1>5. CASE IsOneByOne(t)
  <2>1. TransposeDense(t) = Scalar(ScalarClass(T), t.data[0])
    BY <1>1, <1>5 DEF TransposeDense, MakeConcreteScalar, ScalarClass
  <2>2. t.rows = 1 /\ t.cols = 1 /\ 0 \in Indices(1)
    BY <1>5 DEF IsOneByOne, Indices
  <2>3. at[<<0, 0>>] = C(T, t.data[0])
    BY <1>1, <1>4, <2>2
  <2> HIDE DEF at
  <2>4. Sound(Scalar(ScalarClass(T), t.data[0]), T, Shape(1, 1, at))
    BY <1>1, <1>3, <2>2, <2>3, MakesScalar
  <2>5. QED
    BY <1>2, <2>1, <2>2, <2>4 DEF A
<1>6. CASE ~IsOneByOne(t)
  <2>1. TransposeDense(t) = Dense(DenseClass(T), data, t.cols, t.rows)
    BY <1>1, <1>6 DEF TransposeDense
  <2>2. \A i \in Indices(t.cols), j \in Indices(t.rows) :
          /\ j * t.cols + i \in Indices(t.rows * t.cols)
          /\ i * t.rows + j \in Indices(t.rows * t.cols)
          /\ data[j * t.cols + i] = t.data[i * t.rows + j]
    BY <1>1, TransposedPlaces
  <2>3. data \in [Indices(t.cols * t.rows) -> Number(T)]
    BY <1>1, TransposedIsStored
  <2>4. \A i \in Indices(t.cols), j \in Indices(t.rows) :
          at[<<i, j>>] = C(T, data[j * t.cols + i])
    <3> HIDE DEF at, data
    <3>1. QED
      BY <1>1, <1>4, <2>2
  <2> HIDE DEF at, data
  <2>5. Sound(Dense(DenseClass(T), data, t.cols, t.rows), T, Shape(t.cols, t.rows, at))
    BY <1>1, <1>3, <2>3, <2>4, MakesDense
  <2>6. QED
    BY <1>2, <2>1, <2>5 DEF A
<1>7. QED
  BY <1>5, <1>6

LEMMA CtransposeIsRight ==
  ASSUME NEW T \in Arithmetic, NEW t, Operand(t, T)
  PROVE  Sound(CtransposeDense(t), T, DenotedUnary("CTRANSPOSE", Meaning(t)))
<1> DEFINE A == Meaning(t)
           Conjugate(x) == IF T = "real8" THEN x ELSE Conj(x)
           ct == TransposedData(t)
           data == [d \in DOMAIN ct |-> Conjugate(ct[d])]
           at == [ij \in Grid(A.cols, A.rows) |-> Conj(A.at[<<ij[2], ij[1]>>])]
<1>1. /\ t.rows \in Nat \ {0} /\ t.cols \in Nat \ {0} /\ t.class = DenseClass(T)
      /\ t.data \in [Indices(t.rows * t.cols) -> Number(T)] /\ t.data[0] \in Number(T)
      /\ A.rows = t.rows /\ A.cols = t.cols /\ (IsReal(t) <=> T = "real8")
      /\ A.at[<<0, 0>>] = C(T, t.data[0])
      /\ \A i \in Indices(t.rows), j \in Indices(t.cols) :
           /\ j * t.rows + i \in Indices(t.rows * t.cols)
           /\ A.at[<<i, j>>] = C(T, t.data[j * t.rows + i])
  BY DenseOperand
<1> HIDE DEF A
<1>2. DenotedUnary("CTRANSPOSE", A) = Shape(t.cols, t.rows, at)
  <2>1. DenotedUnary("CTRANSPOSE", A) = Shape(A.cols, A.rows, at)
    BY DenotedUnaryIs
  <2> HIDE DEF at
  <2>2. QED
    BY <1>1, <2>1
<1>3. at = [ij \in Grid(t.cols, t.rows) |-> at[ij]]
  BY <1>1
<1>4. \A i \in Indices(t.cols), j \in Indices(t.rows) : at[<<i, j>>] = Conj(A.at[<<j, i>>])
  BY <1>1 DEF Grid
<1>5. \A x \in Number(T) : Conjugate(x) \in Number(T) /\ C(T, Conjugate(x)) = Conj(C(T, x))
  <2>1. CASE T = "real8"
    BY <2>1, RealsAreComplex DEF Number, C
  <2>2. CASE T = "complex16"
    BY <2>2, Closed DEF Number, C
  <2>3. QED
    BY <2>1, <2>2 DEF Arithmetic
<1>6. CASE IsOneByOne(t)
  <2>1. CtransposeDense(t) = Scalar(ScalarClass(T), Conjugate(t.data[0]))
    BY <1>1, <1>6 DEF CtransposeDense, MakeConcreteScalar, ScalarClass
  <2>2. t.rows = 1 /\ t.cols = 1 /\ 0 \in Indices(1)
    BY <1>6 DEF IsOneByOne, Indices
  <2>3. at[<<0, 0>>] = Conj(C(T, t.data[0]))
    BY <1>1, <1>4, <2>2
  <2> HIDE DEF at
  <2>4. Conjugate(t.data[0]) \in Number(T) /\ at[<<0, 0>>] = C(T, Conjugate(t.data[0]))
    BY <1>1, <1>5, <2>3
  <2> HIDE DEF Conjugate
  <2>5. Sound(Scalar(ScalarClass(T), Conjugate(t.data[0])), T, Shape(1, 1, at))
    BY <1>3, <2>2, <2>4, MakesScalar
  <2>6. QED
    BY <1>2, <2>1, <2>2, <2>5 DEF A
<1>7. CASE ~IsOneByOne(t)
  <2>1. CtransposeDense(t) = Dense(DenseClass(T), data, t.cols, t.rows)
    BY <1>1, <1>7 DEF CtransposeDense
  <2>2. ct \in [Indices(t.cols * t.rows) -> Number(T)]
    BY <1>1, TransposedIsStored
  <2>3. data \in [Indices(t.cols * t.rows) -> Number(T)]
    <3> HIDE DEF ct, Conjugate
    <3>1. QED
      BY <1>5, <2>2
  <2>4. ASSUME NEW i \in Indices(t.cols), NEW j \in Indices(t.rows)
        PROVE  at[<<i, j>>] = C(T, data[j * t.cols + i])
    <3>1. PICK d \in Indices(t.cols * t.rows) : d = j * t.cols + i
      BY <1>1, Places
    <3>2. t.data[i * t.rows + j] \in Number(T) /\ ct[d] = t.data[i * t.rows + j]
      BY <1>1, <3>1, TransposedPlaces
    <3>3. at[<<i, j>>] = Conj(C(T, t.data[i * t.rows + j]))
      BY <1>1, <1>4
    <3>4. data[d] = Conjugate(ct[d])
      BY <2>2
    <3> HIDE DEF at, data, ct, Conjugate
    <3>5. QED
      BY <1>5, <3>1, <3>2, <3>3, <3>4
  <2> HIDE DEF at, data
  <2>5. Sound(Dense(DenseClass(T), data, t.cols, t.rows), T, Shape(t.cols, t.rows, at))
    BY <1>1, <1>3, <2>3, <2>4, MakesDense
  <2>6. QED
    BY <1>2, <2>1, <2>5 DEF A
<1>8. QED
  BY <1>6, <1>7

(* Products.  Of a scalar and a matrix, whichever comes first:             *)
LEMMA ScaleIsRight ==
  ASSUME NEW T \in Arithmetic, NEW x \in Number(T), NEW y \in Number(T)
  PROVE  /\ Times(T, x, y) \in Number(T) /\ Times(T, y, x) = Times(T, x, y)
         /\ C(T, Times(T, x, y)) = Elementwise("MTIMES", C(T, x), C(T, y))
<1>1. Elementwise("MTIMES", C(T, x), C(T, y)) = ComplexMul(C(T, x), C(T, y))
  BY DEF Elementwise
<1>2. QED
  BY <1>1, Closed, AsInComplex, Commute

LEMMA DenotedRight ==
  ASSUME NEW A, NEW B, NEW op \in Binary, op # "UNIMPLEMENTED_BINARY",
         ~IsOneByOne(A), IsOneByOne(B)
  PROVE  DenotedBinary(op, A, B) =
           Shape(A.rows, A.cols, [ij \in Grid(A.rows, A.cols) |->
                   Elementwise(op, A.at[<<ij[1], ij[2]>>], B.at[<<0, 0>>])])
  BY DEF DenotedBinary, Matrix, Shape, Grid

(* The products of the rows of one with the columns of the other.          *)
ProductAt(A, B, i, j) ==
  Dot("complex16", A.cols, [l \in Indices(A.cols) |-> A.at[<<i, l>>]],
                           [l \in Indices(A.cols) |-> B.at[<<l, j>>]])

LEMMA DenotedProduct ==
  ASSUME NEW A, NEW B, ~IsOneByOne(A), ~IsOneByOne(B)
  PROVE  DenotedBinary("MTIMES", A, B) =
           IF A.cols = B.rows
           THEN Shape(A.rows, B.cols, [ij \in Grid(A.rows, B.cols) |->
                        ProductAt(A, B, ij[1], ij[2])])
           ELSE Undefined
<1>1. "MTIMES" \notin Infix
  BY DEF Infix
<1>2. QED
  BY <1>1 DEF DenotedBinary, Matrix, Shape, Grid, ProductAt

LEMMA ProductAtIs ==
  ASSUME NEW T \in Arithmetic, NEW t, NEW u, Operand(t, T), Operand(u, T), t.cols = u.rows,
         NEW i \in Indices(t.rows), NEW j \in Indices(u.cols), NEW a, NEW b,
         a = [l \in Indices(t.cols) |-> t.data[l * t.rows + i]],
         b = [l \in Indices(t.cols) |-> u.data[j * u.rows + l]]
  PROVE  /\ Dot(T, t.cols, a, b) \in Number(T)
         /\ ProductAt(Meaning(t), Meaning(u), i, j) = C(T, Dot(T, t.cols, a, b))
<1> DEFINE A == Meaning(t)
           B == Meaning(u)
<1>1. /\ t.cols \in Nat /\ A.cols = t.cols
      /\ t.data \in [Indices(t.rows * t.cols) -> Number(T)]
      /\ u.data \in [Indices(u.rows * u.cols) -> Number(T)]
      /\ \A p \in Indices(t.rows), q \in Indices(t.cols) :
           /\ q * t.rows + p \in Indices(t.rows * t.cols)
           /\ A.at[<<p, q>>] = C(T, t.data[q * t.rows + p])
      /\ \A p \in Indices(u.rows), q \in Indices(u.cols) :
           /\ q * u.rows + p \in Indices(u.rows * u.cols)
           /\ B.at[<<p, q>>] = C(T, u.data[q * u.rows + p])
  BY DenseOperand
<1> HIDE DEF A, B
<1>2. ASSUME NEW l \in Indices(t.cols)
      PROVE  /\ a[l] \in Number(T) /\ A.at[<<i, l>>] = C(T, a[l])
             /\ b[l] \in Number(T) /\ B.at[<<l, j>>] = C(T, b[l])
  <2>1. l * t.rows + i \in Indices(t.rows * t.cols) /\ j * u.rows + l \in Indices(u.rows * u.cols)
    BY <1>1
  <2>2. a[l] = t.data[l * t.rows + i] /\ b[l] = u.data[j * u.rows + l]
    OBVIOUS
  <2>3. A.at[<<i, l>>] = C(T, t.data[l * t.rows + i]) /\ B.at[<<l, j>>] = C(T, u.data[j * u.rows + l])
    BY <1>1
  <2>4. QED
    BY <1>1, <2>1, <2>2, <2>3
<1>3. a \in [Indices(t.cols) -> Number(T)] /\ b \in [Indices(t.cols) -> Number(T)]
  BY <1>2
<1>4. /\ [l \in Indices(t.cols) |-> A.at[<<i, l>>]] = [l \in Indices(t.cols) |-> C(T, a[l])]
      /\ [l \in Indices(t.cols) |-> B.at[<<l, j>>]] = [l \in Indices(t.cols) |-> C(T, b[l])]
  BY <1>2
<1>5. ProductAt(A, B, i, j) = Dot("complex16", t.cols, [l \in Indices(t.cols) |-> C(T, a[l])],
                                                       [l \in Indices(t.cols) |-> C(T, b[l])])
  BY <1>1, <1>4 DEF ProductAt
<1>6. /\ Dot(T, t.cols, a, b) \in Number(T)
      /\ C(T, Dot(T, t.cols, a, b)) =
           Dot("complex16", t.cols, [l \in Indices(t.cols) |-> C(T, a[l])],
                                    [l \in Indices(t.cols) |-> C(T, b[l])])
  BY <1>1, <1>3, DotAsInComplex
<1>7. QED
  BY <1>5, <1>6 DEF A, B

(* What BLAS puts in each place.                                           *)
LEMMA xgemmIs ==
  ASSUME NEW T \in Arithmetic, NEW t, NEW u, Operand(t, T), Operand(u, T), t.cols = u.rows,
         NEW i \in Indices(t.rows), NEW j \in Indices(u.cols)
  PROVE  /\ j * t.rows + i \in Indices(t.rows * u.cols)
         /\ xgemm(T, t.rows, u.cols, t.cols, t.data, u.data)[j * t.rows + i] =
              Dot(T, t.cols, [l \in Indices(t.cols) |-> t.data[l * t.rows + i]],
                             [l \in Indices(t.cols) |-> u.data[j * u.rows + l]])
<1>1. t.rows \in Nat \ {0} /\ t.cols \in Nat \ {0} /\ u.cols \in Nat \ {0}
  BY DenseOperand
<1>2. PICK d \in Indices(t.rows * u.cols) :
        d = j * t.rows + i /\ d % t.rows = i /\ d \div t.rows = j
  BY <1>1, Places
<1>3. xgemm(T, t.rows, u.cols, t.cols, t.data, u.data)[d] =
        Dot(T, t.cols, [l \in Indices(t.cols) |-> t.data[(d % t.rows) + l * t.rows]],
                       [l \in Indices(t.cols) |-> u.data[l + (d \div t.rows) * t.cols]])
  BY DEF xgemm
<1>4. \A l \in Indices(t.cols) :
        i + l * t.rows = l * t.rows + i /\ l + j * t.cols = j * u.rows + l
  <2>1. \A l \in Indices(t.cols) : l \in Int /\ l * t.rows \in Int
    BY <1>1, Products DEF Indices
  <2>2. i \in Int /\ j * t.cols \in Int
    BY <1>1, Products DEF Indices
  <2>3. QED
    BY <2>1, <2>2
<1>5. QED
  BY <1>2, <1>3, <1>4

LEMMA xgemvIs ==
  ASSUME NEW T \in Arithmetic, NEW t, NEW u, Operand(t, T), Operand(u, T), t.cols = u.rows,
         u.cols = 1, NEW i \in Indices(t.rows)
  PROVE  xgemv(T, t.rows, t.cols, t.data, u.data)[i] =
           Dot(T, t.cols, [l \in Indices(t.cols) |-> t.data[l * t.rows + i]],
                          [l \in Indices(t.cols) |-> u.data[0 * u.rows + l]])
<1>1. /\ t.rows \in Nat \ {0} /\ t.cols \in Nat \ {0} /\ u.rows \in Nat \ {0}
      /\ u.data \in [Indices(u.rows * u.cols) -> Number(T)]
  BY DenseOperand
<1>2. xgemv(T, t.rows, t.cols, t.data, u.data)[i] =
        Dot(T, t.cols, [l \in Indices(t.cols) |-> t.data[i + l * t.rows]], u.data)
  BY DEF xgemv
<1>3. \A l \in Indices(t.cols) : i + l * t.rows = l * t.rows + i
  <2>1. \A l \in Indices(t.cols) : l * t.rows \in Int
    BY <1>1, Products DEF Indices
  <2>2. i \in Int
    BY <1>1 DEF Indices
  <2>3. QED
    BY <2>1, <2>2
<1>4. u.data = [l \in Indices(t.cols) |-> u.data[0 * u.rows + l]]
  <2>1. u.rows * u.cols = t.cols
    BY <1>1
  <2>2. \A l \in Indices(t.cols) : 0 * u.rows + l = l
    BY <1>1 DEF Indices
  <2>3. u.data = [l \in Indices(t.cols) |-> u.data[l]]
    BY <1>1, <2>1
  <2>4. QED
    BY <2>2, <2>3
<1>5. QED
  BY <1>2, <1>3, <1>4

LEMMA MtimesIsRight ==
  ASSUME NEW T \in Arithmetic, NEW t, NEW u, Operand(t, T), Operand(u, T)
  PROVE  Sound(MtimesDense(t, u), T, DenotedBinary("MTIMES", Meaning(t), Meaning(u)))
<1> DEFINE A == Meaning(t)
           B == Meaning(u)
           D == DenotedBinary("MTIMES", A, B)
<1>1. "MTIMES" \in Binary /\ "MTIMES" # "UNIMPLEMENTED_BINARY"
  BY DEF Binary
<1>2. /\ t.rows \in Nat \ {0} /\ t.cols \in Nat \ {0} /\ u.rows \in Nat \ {0} /\ u.cols \in Nat \ {0}
      /\ t.class = DenseClass(T) /\ u.class = DenseClass(T) /\ Datatype(t) = T
      /\ t.data \in [Indices(t.rows * t.cols) -> Number(T)] /\ t.data[0] \in Number(T)
      /\ u.data \in [Indices(u.rows * u.cols) -> Number(T)] /\ u.data[0] \in Number(T)
  BY DenseOperand
<1>3. /\ A.rows = t.rows /\ A.cols = t.cols /\ A.at[<<0, 0>>] = C(T, t.data[0])
      /\ B.rows = u.rows /\ B.cols = u.cols /\ B.at[<<0, 0>>] = C(T, u.data[0])
      /\ IsOneByOne(A) <=> IsOneByOne(t)
      /\ IsOneByOne(B) <=> IsOneByOne(u)
  BY DenseOperand DEF IsOneByOne
<1>4. /\ \A i \in Indices(t.rows), j \in Indices(t.cols) :
           /\ j * t.rows + i \in Indices(t.rows * t.cols)
           /\ A.at[<<i, j>>] = C(T, t.data[j * t.rows + i])
      /\ \A i \in Indices(u.rows), j \in Indices(u.cols) :
           /\ j * u.rows + i \in Indices(u.rows * u.cols)
           /\ B.at[<<i, j>>] = C(T, u.data[j * u.rows + i])
  BY DenseOperand
<1>a. t.cols = u.rows =>
        \A i \in Indices(t.rows), j \in Indices(u.cols) :
          LET dot == Dot(T, t.cols, [l \in Indices(t.cols) |-> t.data[l * t.rows + i]],
                                    [l \in Indices(t.cols) |-> u.data[j * u.rows + l]])
          IN  dot \in Number(T) /\ ProductAt(A, B, i, j) = C(T, dot)
  BY ProductAtIs
<1> HIDE DEF A, B
<1>5. CASE IsOneByOne(t)
  <2> DEFINE data == [k \in DOMAIN u.data |-> Times(T, t.data[0], u.data[k])]
             at == [ij \in Grid(B.rows, B.cols) |-> Elementwise("MTIMES", A.at[<<0, 0>>], B.at[<<ij[1], ij[2]>>])]
  <2>1. MtimesDense(t, u) = Dense(DenseClass(T), data, u.rows, u.cols)
    BY <1>2, <1>5 DEF MtimesDense, Mapped
  <2>2. D = Shape(u.rows, u.cols, at)
    <3>1. D = Shape(B.rows, B.cols, at)
      BY <1>1, <1>3, <1>5, DenotedLeft
    <3> HIDE DEF at, D
    <3>2. QED
      BY <1>3, <3>1
  <2>3. ASSUME NEW k \in Indices(u.rows * u.cols)
        PROVE  data[k] \in Number(T) /\ C(T, data[k]) = Elementwise("MTIMES", C(T, t.data[0]), C(T, u.data[k]))
    <3>1. t.data[0] \in Number(T) /\ u.data[k] \in Number(T)
      BY <1>2
    <3>2. data[k] = Times(T, t.data[0], u.data[k])
      BY <1>2
    <3> HIDE DEF data
    <3>3. QED
      BY <3>1, <3>2, ScaleIsRight
  <2>4. data \in [Indices(u.rows * u.cols) -> Number(T)]
    BY <1>2, <2>3
  <2>5. ASSUME NEW i \in Indices(u.rows), NEW j \in Indices(u.cols)
        PROVE  at[<<i, j>>] = C(T, data[j * u.rows + i])
    <3>1. PICK k \in Indices(u.rows * u.cols) : k = j * u.rows + i
      BY <1>4
    <3>2. at[<<i, j>>] = Elementwise("MTIMES", C(T, t.data[0]), C(T, u.data[k]))
      BY <1>3, <1>4, <3>1 DEF Grid
    <3>3. C(T, data[k]) = Elementwise("MTIMES", C(T, t.data[0]), C(T, u.data[k]))
      BY <2>3
    <3> HIDE DEF at, data
    <3>4. QED
      BY <3>1, <3>2, <3>3
  <2>6. at = [ij \in Grid(u.rows, u.cols) |-> at[ij]]
    BY <1>3
  <2> HIDE DEF at, data
  <2>7. Sound(Dense(DenseClass(T), data, u.rows, u.cols), T, Shape(u.rows, u.cols, at))
    BY <1>2, <2>4, <2>5, <2>6, MakesDense
  <2>8. QED
    BY <2>1, <2>2, <2>7 DEF A, B
<1>6. CASE ~IsOneByOne(t) /\ IsOneByOne(u)
  <2> DEFINE data == [k \in DOMAIN t.data |-> Times(T, u.data[0], t.data[k])]
             at == [ij \in Grid(A.rows, A.cols) |-> Elementwise("MTIMES", A.at[<<ij[1], ij[2]>>], B.at[<<0, 0>>])]
  <2>1. MtimesDense(t, u) = Dense(DenseClass(T), data, t.rows, t.cols)
    BY <1>2, <1>6 DEF MtimesDense, Mapped
  <2>2. D = Shape(t.rows, t.cols, at)
    <3>1. D = Shape(A.rows, A.cols, at)
      BY <1>1, <1>3, <1>6, DenotedRight
    <3> HIDE DEF at, D
    <3>2. QED
      BY <1>3, <3>1
  <2>3. ASSUME NEW k \in Indices(t.rows * t.cols)
        PROVE  data[k] \in Number(T) /\ C(T, data[k]) = Elementwise("MTIMES", C(T, t.data[k]), C(T, u.data[0]))
    <3>1. t.data[k] \in Number(T) /\ u.data[0] \in Number(T)
      BY <1>2
    <3>2. data[k] = Times(T, u.data[0], t.data[k])
      BY <1>2
    <3> HIDE DEF data
    <3>3. QED
      BY <3>1, <3>2, ScaleIsRight
  <2>4. data \in [Indices(t.rows * t.cols) -> Number(T)]
    BY <1>2, <2>3
  <2>5. ASSUME NEW i \in Indices(t.rows), NEW j \in Indices(t.cols)
        PROVE  at[<<i, j>>] = C(T, data[j * t.rows + i])
    <3>1. PICK k \in Indices(t.rows * t.cols) : k = j * t.rows + i
      BY <1>4
    <3>2. at[<<i, j>>] = Elementwise("MTIMES", C(T, t.data[k]), C(T, u.data[0]))
      BY <1>3, <1>4, <3>1 DEF Grid
    <3>3. C(T, data[k]) = Elementwise("MTIMES", C(T, t.data[k]), C(T, u.data[0]))
      BY <2>3
    <3> HIDE DEF at, data
    <3>4. QED
      BY <3>1, <3>2, <3>3
  <2>6. at = [ij \in Grid(t.rows, t.cols) |-> at[ij]]
    BY <1>3
  <2> HIDE DEF at, data
  <2>7. Sound(Dense(DenseClass(T), data, t.rows, t.cols), T, Shape(t.rows, t.cols, at))
    BY <1>2, <2>4, <2>5, <2>6, MakesDense
  <2>8. QED
    BY <2>1, <2>2, <2>7 DEF A, B
<1>7. CASE ~IsOneByOne(t) /\ ~IsOneByOne(u) /\ t.cols # u.rows
  <2>1. MtimesDense(t, u) = Throws
    BY <1>7 DEF MtimesDense
  <2>2. D = Undefined
    <3>1. ~IsOneByOne(A) /\ ~IsOneByOne(B) /\ A.cols # B.rows
      BY <1>3, <1>7
    <3>2. QED
      BY <3>1, DenotedProduct
  <2>3. QED
    BY <2>1, <2>2 DEF Sound, A, B
<1>8. CASE ~IsOneByOne(t) /\ ~IsOneByOne(u) /\ t.cols = u.rows
  <2> DEFINE data == IF u.cols = 1 THEN xgemv(T, t.rows, t.cols, t.data, u.data)
                     ELSE xgemm(T, t.rows, u.cols, t.cols, t.data, u.data)
             at == [ij \in Grid(A.rows, B.cols) |-> ProductAt(A, B, ij[1], ij[2])]
             dot(i, j) == Dot(T, t.cols, [l \in Indices(t.cols) |-> t.data[l * t.rows + i]],
                                         [l \in Indices(t.cols) |-> u.data[j * u.rows + l]])
  <2>1. MtimesDense(t, u) = Dense(DenseClass(T), data, t.rows, u.cols)
    <3>1. CASE u.cols = 1
      BY <1>2, <1>8, <3>1 DEF MtimesDense
    <3>2. CASE u.cols # 1
      BY <1>2, <1>8, <3>2 DEF MtimesDense
    <3>3. QED
      BY <3>1, <3>2
  <2>2. D = Shape(t.rows, u.cols, at)
    <3>1. D = Shape(A.rows, B.cols, at)
      <4>1. ~IsOneByOne(A) /\ ~IsOneByOne(B) /\ A.cols = B.rows
        BY <1>3, <1>8
      <4>2. QED
        BY <4>1, DenotedProduct
    <3> HIDE DEF at, D
    <3>2. QED
      BY <1>3, <3>1
  <2>3. \A i \in Indices(t.rows), j \in Indices(u.cols) :
          dot(i, j) \in Number(T) /\ ProductAt(A, B, i, j) = C(T, dot(i, j))
    BY <1>a, <1>8
  <2>4. ASSUME NEW i \in Indices(t.rows), NEW j \in Indices(u.cols)
        PROVE  data[j * t.rows + i] = dot(i, j)
    <3>1. CASE u.cols = 1
      <4>1. j = 0 /\ j * t.rows + i = i
        BY <1>2, <3>1 DEF Indices
      <4>2. xgemv(T, t.rows, t.cols, t.data, u.data)[i] = dot(i, 0)
        BY <1>8, <3>1, xgemvIs
      <4>3. QED
        BY <3>1, <4>1, <4>2
    <3>2. CASE u.cols # 1
      <4>1. xgemm(T, t.rows, u.cols, t.cols, t.data, u.data)[j * t.rows + i] = dot(i, j)
        BY <1>8, xgemmIs
      <4>2. QED
        BY <3>2, <4>1
    <3>3. QED
      BY <3>1, <3>2
  <2>5. data = [d \in Indices(t.rows * u.cols) |-> data[d]]
    <3>1. CASE u.cols = 1
      <4>1. t.rows * u.cols = t.rows
        BY <1>2, <3>1
      <4>2. QED
        BY <3>1, <4>1 DEF xgemv
    <3>2. CASE u.cols # 1
      BY <3>2 DEF xgemm
    <3>3. QED
      BY <3>1, <3>2
  <2>6. ASSUME NEW i \in Indices(t.rows), NEW j \in Indices(u.cols)
        PROVE  at[<<i, j>>] = ProductAt(A, B, i, j)
    BY <1>3 DEF Grid
  <2>7. at = [ij \in Grid(t.rows, u.cols) |-> at[ij]]
    BY <1>3
  <2> HIDE DEF at, data, dot
  <2>8. \A d \in Indices(t.rows * u.cols) : data[d] \in Number(T)
    <3>1. TAKE d \in Indices(t.rows * u.cols)
    <3>2. \E i \in Indices(t.rows), j \in Indices(u.cols) : d = j * t.rows + i
      BY <1>2, EveryPlace
    <3>3. QED
      BY <2>3, <2>4, <3>2
  <2>9. data \in [Indices(t.rows * u.cols) -> Number(T)]
    BY <2>5, <2>8
  <2>10. \A i \in Indices(t.rows), j \in Indices(u.cols) :
           at[<<i, j>>] = C(T, data[j * t.rows + i])
    BY <2>3, <2>4, <2>6
  <2>11. Sound(Dense(DenseClass(T), data, t.rows, u.cols), T, Shape(t.rows, u.cols, at))
    BY <1>2, <2>7, <2>9, <2>10, MakesDense
  <2>12. QED
    BY <2>1, <2>2, <2>11 DEF A, B
<1>9. QED
  BY <1>5, <1>6, <1>7, <1>8

LEMMA MtimesScalarIsRight ==
  ASSUME NEW t, WellFormed(t), Finite(t), t.class = "REAL_SCALAR",
         NEW u, WellFormed(u), Finite(u), u.class = "REAL_SCALAR"
  PROVE  Sound(MtimesScalar(t, u), "real8", DenotedBinary("MTIMES", Meaning(t), Meaning(u)))
<1> DEFINE A == Meaning(t)
           B == Meaning(u)
           x == Times("real8", t.data[0], u.data[0])
           at == [ij \in Grid(B.rows, B.cols) |->
                    Elementwise("MTIMES", A.at[<<0, 0>>], B.at[<<ij[1], ij[2]>>])]
<1>1. /\ "MTIMES" \in Binary /\ "MTIMES" # "UNIMPLEMENTED_BINARY" /\ "real8" \in Arithmetic
      /\ ScalarClass("real8") = "REAL_SCALAR"
  BY DEF Binary, Arithmetic, ScalarClass
<1>2. /\ A.rows = 1 /\ A.cols = 1 /\ A.at[<<0, 0>>] = C("real8", t.data[0])
      /\ B.rows = 1 /\ B.cols = 1 /\ B.at[<<0, 0>>] = C("real8", u.data[0])
      /\ t.data[0] \in Number("real8") /\ u.data[0] \in Number("real8")
  BY ScalarOperand
<1> HIDE DEF A, B
<1>3. x \in Number("real8") /\ C("real8", x) = Elementwise("MTIMES", A.at[<<0, 0>>], B.at[<<0, 0>>])
  BY <1>1, <1>2, ScaleIsRight
<1>4. DenotedBinary("MTIMES", A, B) = Shape(1, 1, at)
  <2>1. IsOneByOne(A)
    BY <1>2 DEF IsOneByOne
  <2>2. DenotedBinary("MTIMES", A, B) = Shape(B.rows, B.cols, at)
    BY <1>1, <2>1, DenotedLeft
  <2> HIDE DEF at
  <2>3. QED
    BY <1>2, <2>2
<1>5. at = [ij \in Grid(1, 1) |-> at[ij]] /\ at[<<0, 0>>] = C("real8", x)
  <2>1. <<0, 0>> \in Grid(1, 1)
    BY DEF Grid, Indices
  <2>2. QED
    BY <1>2, <1>3, <2>1
<1>6. MtimesScalar(t, u) = Scalar(ScalarClass("real8"), x)
  BY <1>1 DEF MtimesScalar
<1> HIDE DEF at, x
<1>7. Sound(Scalar(ScalarClass("real8"), x), "real8", Shape(1, 1, at))
  BY <1>1, <1>3, <1>5, MakesScalar
<1>8. QED
  BY <1>4, <1>6, <1>7 DEF A, B

(* Unary operations on a real scalar.                                      *)
LEMMA UnaryScalarIsRight ==
  ASSUME NEW op \in Unary, NEW t, WellFormed(t), Finite(t), t.class = "REAL_SCALAR"
  PROVE  Sound(RunUnary(op, t), "real8", DenotedUnary(op, Meaning(t)))
<1> DEFINE A == Meaning(t)
           x == t.data[0]
<1>1. "real8" \in Arithmetic /\ ScalarClass("real8") = "REAL_SCALAR" /\ <<0, 0>> \in Grid(1, 1)
  BY DEF Arithmetic, ScalarClass, Grid, Indices
<1>2. /\ A.rows = 1 /\ A.cols = 1 /\ A.at[<<0, 0>>] = C("real8", x) /\ x \in Number("real8")
  BY ScalarOperand
<1> HIDE DEF A
<1>3. CASE op \in {"NEGATE", "FUNCTION"}
  <2> DEFINE y == UnaryKernel(op, "real8", x)
             at == [ij \in Grid(A.rows, A.cols) |-> ElementwiseUnary(op, A.at[<<ij[1], ij[2]>>])]
  <2>1. RunUnary(op, t) = Scalar(ScalarClass("real8"), y)
    BY <1>1, <1>3 DEF RunUnary, PrefixScalar, FunctionScalar, UnaryKernel
  <2>2. DenotedUnary(op, A) = Shape(A.rows, A.cols, at)
    BY <1>3, DenotedUnaryIs
  <2>3. y \in Number("real8") /\ C("real8", y) = ElementwiseUnary(op, A.at[<<0, 0>>])
    BY <1>1, <1>2, <1>3, UnaryKernelsAreRight
  <2>4. at = [ij \in Grid(1, 1) |-> at[ij]] /\ at[<<0, 0>>] = ElementwiseUnary(op, A.at[<<0, 0>>])
    BY <1>1, <1>2
  <2> HIDE DEF at, y, x
  <2>5. Sound(Scalar(ScalarClass("real8"), y), "real8", Shape(1, 1, at))
    BY <1>1, <2>3, <2>4, MakesScalar
  <2>6. QED
    BY <1>2, <2>1, <2>2, <2>5 DEF A
<1>4. CASE op = "TRANSPOSE"
  <2> DEFINE at == [ij \in Grid(A.cols, A.rows) |-> A.at[<<ij[2], ij[1]>>]]
  <2>1. RunUnary(op, t) = Scalar(ScalarClass("real8"), x)
    BY <1>1, <1>4 DEF RunUnary
  <2>2. DenotedUnary(op, A) = Shape(A.cols, A.rows, at)
    BY <1>4, DenotedUnaryIs
  <2>3. at = [ij \in Grid(1, 1) |-> at[ij]] /\ at[<<0, 0>>] = C("real8", x)
    BY <1>1, <1>2
  <2> HIDE DEF at, x
  <2>4. Sound(Scalar(ScalarClass("real8"), x), "real8", Shape(1, 1, at))
    BY <1>1, <1>2, <2>3, MakesScalar
  <2>5. QED
    BY <1>2, <2>1, <2>2, <2>4 DEF A
<1>5. CASE op = "CTRANSPOSE"
  <2> DEFINE at == [ij \in Grid(A.cols, A.rows) |-> Conj(A.at[<<ij[2], ij[1]>>])]
  <2>1. RunUnary(op, t) = Scalar(ScalarClass("real8"), x)
    BY <1>1, <1>5 DEF RunUnary
  <2>2. DenotedUnary(op, A) = Shape(A.cols, A.rows, at)
    BY <1>5, DenotedUnaryIs
  <2>3. Conj(C("real8", x)) = C("real8", x)
    BY <1>2, RealsAreComplex DEF Number, C
  <2>4. at = [ij \in Grid(1, 1) |-> at[ij]] /\ at[<<0, 0>>] = C("real8", x)
    BY <1>1, <1>2, <2>3
  <2> HIDE DEF at, x
  <2>5. Sound(Scalar(ScalarClass("real8"), x), "real8", Shape(1, 1, at))
    BY <1>1, <1>2, <2>4, MakesScalar
  <2>6. QED
    BY <1>2, <2>1, <2>2, <2>5 DEF A
<1>6. CASE op = "UNIMPLEMENTED_UNARY"
  BY <1>6, DenotedUnaryIs DEF RunUnary, Sound
<1>7. QED
  BY <1>3, <1>4, <1>5, <1>6 DEF Unary

LEMMA UnaryDenseIsRight ==
  ASSUME NEW op \in Unary, NEW T \in Arithmetic, NEW t, Operand(t, T)
  PROVE  Sound(RunUnary(op, t), T, DenotedUnary(op, Meaning(t)))
<1>1. t.class # "REAL_SCALAR" /\ Datatype(t) = T
  BY DenseOperand DEF Scalars
<1>2. CASE op \in {"NEGATE", "FUNCTION"}
  <2> DEFINE r == Dense(t.class, [k \in DOMAIN t.data |-> UnaryKernel(op, T, t.data[k])],
                        t.rows, t.cols)
  <2>1. RunUnary(op, t) = r
    <3>1. CASE op = "NEGATE"
      BY <1>1, <3>1 DEF RunUnary, PrefixMatrix, Mapped, UnaryKernel
    <3>2. CASE op = "FUNCTION"
      BY <1>1, <3>2 DEF RunUnary, FunctionMatrix, Mapped, UnaryKernel
    <3>3. QED
      BY <1>2, <3>1, <3>2
  <2>2. Sound(r, T, DenotedUnary(op, Meaning(t)))
    BY <1>2, MappedIsRight
  <2>3. QED
    BY <2>1, <2>2
<1>3. CASE op = "TRANSPOSE"
  BY <1>1, <1>3, TransposeIsRight DEF RunUnary
<1>4. CASE op = "CTRANSPOSE"
  BY <1>1, <1>4, CtransposeIsRight DEF RunUnary
<1>5. CASE op = "UNIMPLEMENTED_UNARY"
  BY <1>5, DenotedUnaryIs DEF RunUnary, Sound
<1>6. QED
  BY <1>2, <1>3, <1>4, <1>5 DEF Unary

LEMMA BinaryScalarIsRight ==
  ASSUME NEW op \in Binary, NEW t, WellFormed(t), Finite(t), t.class = "REAL_SCALAR",
         NEW u, WellFormed(u), Finite(u), u.class = "REAL_SCALAR"
  PROVE  Sound(RunBinary(op, t, u), "real8", DenotedBinary(op, Meaning(t), Meaning(u)))
<1>1. "MTIMES" \notin Infix /\ "UNIMPLEMENTED_BINARY" \notin Infix
  BY DEF Infix
<1>2. CASE op \in Infix
  BY <1>1, <1>2, InfixScalarIsRight DEF RunBinary
<1>3. CASE op = "MTIMES"
  BY <1>1, <1>3, MtimesScalarIsRight DEF RunBinary
<1>4. CASE op = "UNIMPLEMENTED_BINARY"
  BY <1>1, <1>4, DenotedIs DEF RunBinary, Sound
<1>5. QED
  BY <1>2, <1>3, <1>4 DEF Binary

LEMMA BinaryDenseIsRight ==
  ASSUME NEW op \in Binary, NEW T \in Arithmetic, NEW t, NEW u, Operand(t, T), Operand(u, T)
  PROVE  Sound(RunBinary(op, t, u), T, DenotedBinary(op, Meaning(t), Meaning(u)))
<1>1. "MTIMES" \notin Infix /\ "UNIMPLEMENTED_BINARY" \notin Infix
  BY DEF Infix
<1>2. t.class # "REAL_SCALAR"
  BY DenseOperand DEF Scalars
<1>3. CASE op \in Infix
  BY <1>1, <1>2, <1>3, InfixIsRight DEF RunBinary
<1>4. CASE op = "MTIMES"
  BY <1>1, <1>2, <1>4, MtimesIsRight DEF RunBinary
<1>5. CASE op = "UNIMPLEMENTED_BINARY"
  BY <1>1, <1>5, DenotedIs DEF RunBinary, Sound
<1>6. QED
  BY <1>3, <1>4, <1>5 DEF Binary

-----------------------------------------------------------------------------
(* The conversions.                                                        *)

(* The data of a terminal as a full matrix has them.                       *)
FullData(t) ==
  IF t.class \in Plain THEN t.data
  ELSE Spread(t, IF t.class \in Diagonals THEN DiagonalSources(t) ELSE SparseSources(t),
              Zero(Datatype(t)))

LEMMA TheOnlyOne ==
  ASSUME NEW k \in Nat, NEW S, S = {k}
  PROVE  S # {} /\ Max(S) = k
  BY DEF Max

LEMMA DiagonalEntries ==
  ASSUME NEW t, WellFormed(t), t.class \in Diagonals,
         NEW i \in Indices(t.rows), NEW j \in Indices(t.cols)
  PROVE  /\ i = j => i \in Indices(Datalen(t))
         /\ Spread(t, DiagonalSources(t), Zero(Datatype(t)))[j * t.rows + i] = Entry(t, i, j)
<1>1. /\ t.rows \in Nat \ {0} /\ t.cols \in Nat \ {0}
      /\ Datalen(t) = IF t.rows > t.cols THEN t.cols ELSE t.rows
      /\ Entry(t, i, j) = IF i = j THEN t.data[i] ELSE Zero(Datatype(t))
  BY ByKind DEF WellFormed
<1>2. i = j => i \in Indices(Datalen(t))
  BY <1>1 DEF Indices
<1>3. PICK d \in Indices(t.rows * t.cols) :
        d = j * t.rows + i /\ d % t.rows = i /\ d \div t.rows = j
  BY <1>1, Places
<1> DEFINE sources == DiagonalSources(t)[d]
<1>4. sources = {k \in Indices(Datalen(t)) : k + k * t.rows = d}
  BY DEF DiagonalSources
<1>5. ASSUME NEW k \in Indices(Datalen(t))
      PROVE  k + k * t.rows = d <=> k = i /\ k = j
  <2>1. k \in Indices(t.rows) /\ k \in Indices(t.cols) /\ k \in Int /\ k * t.rows \in Int
    BY <1>1, Products DEF Indices
  <2>2. k + k * t.rows = k * t.rows + k
    BY <2>1
  <2>3. (k * t.rows + k) % t.rows = k /\ (k * t.rows + k) \div t.rows = k
    BY <1>1, <2>1, Places
  <2>4. k = i /\ k = j => k * t.rows + k = d
    BY <1>3
  <2>5. k * t.rows + k = d => k = i /\ k = j
    BY <1>3, <2>3, Zenon
  <2>6. QED
    BY <2>2, <2>4, <2>5
<1>6. sources = IF i = j THEN {i} ELSE {}
  BY <1>2, <1>4, <1>5
<1>7. Spread(t, DiagonalSources(t), Zero(Datatype(t)))[d] =
        IF sources = {} THEN Zero(Datatype(t)) ELSE t.data[Max(sources)]
  BY DEF Spread, DiagonalSources
<1> HIDE DEF sources
<1>8. i = j => sources # {} /\ Max(sources) = i
  BY <1>1, <1>6, TheOnlyOne DEF Indices
<1>9. QED
  BY <1>1, <1>2, <1>3, <1>6, <1>7, <1>8

(* Columns lie one after the other, inside the data.                       *)
LEMMA ColumnsAreStored ==
  ASSUME NEW t, WellFormed(t), t.class \in Sparses, NEW j \in Indices(t.cols)
  PROVE  InColumn(t, j) \subseteq Indices(Datalen(t))
<1>1. /\ t.cols \in Nat /\ t.colPtr \in [0 .. t.cols -> Nat] /\ Datalen(t) = t.colPtr[t.cols]
      /\ \A q \in Indices(t.cols) : t.colPtr[q] <= t.colPtr[q + 1]
  BY ByKind DEF WellFormed
<1>2. \A n \in 0 .. t.cols : t.colPtr[t.cols - n] <= t.colPtr[t.cols]
  <2> DEFINE Bad == {n \in 0 .. t.cols : ~(t.colPtr[t.cols - n] <= t.colPtr[t.cols])}
  <2>1. SUFFICES ASSUME Bad # {} PROVE FALSE
    OBVIOUS
  <2>2. PICK least \in Bad : \A q \in Bad : least <= q
    <3>1. Bad \in SUBSET Nat
      OBVIOUS
    <3> HIDE DEF Bad
    <3>2. QED
      BY <2>1, <3>1, LeastNumber
  <2>3. least # 0
    BY <1>1
  <2>4. /\ least - 1 \in 0 .. t.cols /\ least - 1 < least
        /\ t.cols - least \in Indices(t.cols) /\ t.cols - least + 1 = t.cols - (least - 1)
    BY <1>1, <2>3 DEF Indices
  <2>5. t.colPtr[t.cols - (least - 1)] <= t.colPtr[t.cols]
    BY <2>2, <2>4
  <2>6. t.colPtr[t.cols - least] <= t.colPtr[t.cols - (least - 1)]
    BY <1>1, <2>4
  <2>7. /\ t.colPtr[t.cols - least] \in Nat /\ t.colPtr[t.cols - (least - 1)] \in Nat
        /\ t.colPtr[t.cols] \in Nat
    <3>1. t.cols - least \in 0 .. t.cols /\ t.cols - (least - 1) \in 0 .. t.cols
          /\ t.cols \in 0 .. t.cols
      BY <1>1, <2>4
    <3>2. QED
      BY <1>1, <3>1
  <2>8. t.colPtr[t.cols - least] <= t.colPtr[t.cols]
    BY <2>5, <2>6, <2>7
  <2>9. QED
    BY <2>8
<1>3. j \in 0 .. t.cols /\ j + 1 \in 0 .. t.cols /\ t.cols - (j + 1) \in 0 .. t.cols
      /\ t.cols - (t.cols - (j + 1)) = j + 1 /\ t.cols \in 0 .. t.cols
  BY <1>1 DEF Indices
<1>4. t.colPtr[j + 1] <= t.colPtr[t.cols]
  BY <1>2, <1>3
<1>5. t.colPtr[j] \in Nat /\ t.colPtr[j + 1] \in Nat /\ t.colPtr[t.cols] \in Nat
  BY <1>1, <1>3
<1>6. QED
  BY <1>1, <1>4, <1>5 DEF InColumn, Indices

(* The last entry of a column in a row is the only one.                    *)
LEMMA SparseEntry ==
  ASSUME NEW t, WellFormed(t), t.class \in Sparses,
         NEW i \in Indices(t.rows), NEW j \in Indices(t.cols),
         NEW from, from = {k \in InColumn(t, j) : t.rowIdx[k] = i}
  PROVE  /\ Entry(t, i, j) = IF from = {} THEN Zero(Datatype(t)) ELSE t.data[Max(from)]
         /\ from # {} => \E k \in Indices(Datalen(t)) : Entry(t, i, j) = t.data[k]
<1>1. /\ \A k, l \in InColumn(t, j) : k # l => t.rowIdx[k] # t.rowIdx[l]
      /\ Entry(t, i, j) = IF \E k \in InColumn(t, j) : t.rowIdx[k] = i
                          THEN t.data[CHOOSE k \in InColumn(t, j) : t.rowIdx[k] = i]
                          ELSE Zero(Datatype(t))
  BY ByKind DEF WellFormed
<1>2. CASE from = {}
  BY <1>1, <1>2
<1>3. CASE from # {}
  <2>1. PICK k \in InColumn(t, j) : t.rowIdx[k] = i
    BY <1>3
  <2>2. from = {k}
    BY <1>1, <2>1
  <2>3. (CHOOSE l \in InColumn(t, j) : t.rowIdx[l] = i) = k
    BY <1>1, <2>1
  <2>4. k \in Indices(Datalen(t))
    BY ColumnsAreStored
  <2>5. k \in Nat
    BY <2>4 DEF Indices
  <2>6. from # {} /\ Max(from) = k
    BY <2>2, <2>5, TheOnlyOne
  <2>7. Entry(t, i, j) = t.data[k]
    BY <1>1, <2>1, <2>3
  <2>8. QED
    BY <2>4, <2>6, <2>7
<1>4. QED
  BY <1>2, <1>3

LEMMA SparseEntries ==
  ASSUME NEW t, WellFormed(t), t.class \in Sparses,
         NEW i \in Indices(t.rows), NEW j \in Indices(t.cols)
  PROVE  Spread(t, SparseSources(t), Zero(Datatype(t)))[j * t.rows + i] = Entry(t, i, j)
<1> DEFINE from == {k \in InColumn(t, j) : t.rowIdx[k] = i}
<1>1. /\ t.rows \in Nat \ {0} /\ t.cols \in Nat \ {0}
      /\ t.rowIdx \in [Indices(Datalen(t)) -> Indices(t.rows)]
  BY DEF WellFormed
<1>2. PICK d \in Indices(t.rows * t.cols) :
        d = j * t.rows + i /\ d % t.rows = i /\ d \div t.rows = j
  <2>1. t.rows \in Nat \ {0} /\ t.cols \in Nat \ {0}
    BY <1>1
  <2>2. QED
    BY <2>1, PlaceOf
<1> DEFINE sources == SparseSources(t)[d]
<1>3. sources = UNION {{k \in InColumn(t, ir) : t.rowIdx[k] + ir * t.rows = d} :
                       ir \in Indices(t.cols)}
  BY DEF SparseSources
<1>4. ASSUME NEW ir \in Indices(t.cols), NEW k \in InColumn(t, ir)
      PROVE  t.rowIdx[k] + ir * t.rows = d <=> t.rowIdx[k] = i /\ ir = j
  <2>1. t.rowIdx[k] \in Indices(t.rows)
    BY <1>1, ColumnsAreStored
  <2>2. PICK r \in Indices(t.rows) : r = t.rowIdx[k]
    BY <2>1
  <2>3. r + ir * t.rows = ir * t.rows + r
    <3>1. r \in Int /\ ir * t.rows \in Int
      BY <1>1, Products DEF Indices
    <3>2. QED
      BY <3>1
  <2>4. (ir * t.rows + r) % t.rows = r /\ (ir * t.rows + r) \div t.rows = ir
    <3>1. t.rows \in Nat \ {0} /\ t.cols \in Nat \ {0}
      BY <1>1
    <3>2. QED
      BY <3>1, PlaceOf
  <2>5. r = i /\ ir = j => ir * t.rows + r = d
    BY <1>2
  <2>6. ir * t.rows + r = d => r = i /\ ir = j
    BY <1>2, <2>4, Zenon
  <2>7. QED
    BY <2>2, <2>3, <2>5, <2>6
<1>5. sources = from
  BY <1>3, <1>4
<1>6. Spread(t, SparseSources(t), Zero(Datatype(t)))[d] =
        IF sources = {} THEN Zero(Datatype(t)) ELSE t.data[Max(sources)]
  BY DEF Spread, SparseSources
<1> HIDE DEF sources
<1>7. Entry(t, i, j) = IF sources = {} THEN Zero(Datatype(t)) ELSE t.data[Max(sources)]
  BY <1>5, SparseEntry
<1>8. QED
  BY <1>2, <1>6, <1>7

LEMMA FullDataIs ==
  ASSUME NEW t, WellFormed(t)
  PROVE  /\ FullData(t) \in [Indices(t.rows * t.cols) -> Storable(Datatype(t))]
         /\ Finite(t) => FullData(t) \in [Indices(t.rows * t.cols) -> Number(Datatype(t))]
         /\ \A i \in Indices(t.rows), j \in Indices(t.cols) :
              FullData(t)[j * t.rows + i] = Entry(t, i, j)
<1> DEFINE T == Datatype(t)
<1>1. /\ T \in Arithmetic /\ t.rows \in Nat \ {0} /\ t.cols \in Nat \ {0}
      /\ t.data \in [Indices(Datalen(t)) -> Storable(T)]
      /\ Finite(t) <=> t.data \in [Indices(Datalen(t)) -> Number(T)]
  BY TypeOfData
<1> HIDE DEF T
<1>2. Zero(T) \in Number(T) /\ Number(T) \subseteq Storable(T)
  <2>1. Zero(T) \in Number(T)
    BY <1>1 DEF Arithmetic, Zero, Number, Real8, Complex16, P
  <2>2. QED
    BY <1>1, <2>1, NumbersAreStorable
<1>3. CASE t.class \in Plain
  <2>1. FullData(t) = t.data
    BY <1>3 DEF FullData
  <2>2. QED
    BY <1>1, <1>3, <2>1, PlainFacts DEF T
<1>4. CASE t.class \in Diagonals
  <2> DEFINE full == Spread(t, DiagonalSources(t), Zero(T))
  <2>1. FullData(t) = full
    BY <1>4, KindsAreDisjoint DEF FullData, Plain, T
  <2>2. \A i \in Indices(t.rows), j \in Indices(t.cols) :
          /\ full[j * t.rows + i] = Entry(t, i, j)
          /\ Entry(t, i, j) = IF i = j THEN t.data[i] ELSE Zero(T)
          /\ i = j => i \in Indices(Datalen(t))
    BY <1>4, DiagonalEntries, ByKind DEF T
  <2>3. full = [d \in Indices(t.rows * t.cols) |-> full[d]]
    BY DEF Spread, DiagonalSources
  <2> HIDE DEF full
  <2>4. ASSUME NEW N, t.data \in [Indices(Datalen(t)) -> N], Zero(T) \in N
        PROVE  full \in [Indices(t.rows * t.cols) -> N]
    <3>1. ASSUME NEW d \in Indices(t.rows * t.cols) PROVE full[d] \in N
      <4>1. \E i \in Indices(t.rows), j \in Indices(t.cols) : d = j * t.rows + i
        BY <1>1, EveryPlace
      <4>2. PICK i \in Indices(t.rows), j \in Indices(t.cols) : d = j * t.rows + i
        BY <4>1
      <4>3. full[d] = IF i = j THEN t.data[i] ELSE Zero(T)
        BY <2>2, <4>2
      <4>4. QED
        BY <2>2, <2>4, <4>3
    <3>2. QED
      BY <2>3, <3>1
  <2>5. QED
    BY <1>1, <1>2, <2>1, <2>2, <2>4 DEF T
<1>5. CASE t.class \in Sparses
  <2> DEFINE full == Spread(t, SparseSources(t), Zero(T))
  <2>1. FullData(t) = full
    BY <1>5, KindsAreDisjoint DEF FullData, Plain, T
  <2>2. \A i \in Indices(t.rows), j \in Indices(t.cols) : full[j * t.rows + i] = Entry(t, i, j)
    BY <1>5, SparseEntries DEF T
  <2>3. full = [d \in Indices(t.rows * t.cols) |-> full[d]]
    BY DEF Spread, SparseSources
  <2> HIDE DEF full
  <2>4. ASSUME NEW i \in Indices(t.rows), NEW j \in Indices(t.cols)
        PROVE  Entry(t, i, j) = Zero(T) \/ \E k \in Indices(Datalen(t)) : Entry(t, i, j) = t.data[k]
    BY <1>5, SparseEntry DEF T
  <2>5. ASSUME NEW N, t.data \in [Indices(Datalen(t)) -> N], Zero(T) \in N
        PROVE  full \in [Indices(t.rows * t.cols) -> N]
    <3>1. ASSUME NEW d \in Indices(t.rows * t.cols) PROVE full[d] \in N
      <4>1. \E i \in Indices(t.rows), j \in Indices(t.cols) : d = j * t.rows + i
        BY <1>1, EveryPlace
      <4>2. PICK i \in Indices(t.rows), j \in Indices(t.cols) : d = j * t.rows + i
        BY <4>1
      <4>3. full[d] = Entry(t, i, j)
        BY <2>2, <4>2
      <4>4. QED
        BY <2>4, <2>5, <4>3
    <3>2. QED
      BY <2>3, <3>1
  <2>6. QED
    BY <1>1, <1>2, <2>1, <2>2, <2>5 DEF T
<1>6. t.class \in Plain \cup Diagonals \cup Sparses
  BY DEF WellFormed, Classes, Plain
<1>7. QED
  BY <1>3, <1>4, <1>5, <1>6

(* A terminal that holds the same matrix as another, and a full one of T.  *)
Shows(r, t) ==
  /\ WellFormed(r)
  /\ Meaning(r) = Meaning(t)
  /\ Finite(t) => Finite(r)

FullOf(r, t, T) == Shows(r, t) /\ r.class = DenseClass(T)

LEMMA RealFullOf ==
  ASSUME NEW t, WellFormed(t), IsReal(t)
  PROVE  FullOf(Dense("REAL_DENSE", FullData(t), t.rows, t.cols), t, "real8")
<1> DEFINE r == Dense("REAL_DENSE", FullData(t), t.rows, t.cols)
           at == Meaning(t).at
<1>1. /\ "real8" \in Arithmetic /\ Datatype(t) = "real8" /\ DenseClass("real8") = "REAL_DENSE"
      /\ t.rows \in Nat \ {0} /\ t.cols \in Nat \ {0}
  BY TypeOfData DEF Arithmetic, DenseClass
<1>2. /\ FullData(t) \in [Indices(t.rows * t.cols) -> Storable("real8")]
      /\ Finite(t) => FullData(t) \in [Indices(t.rows * t.cols) -> Number("real8")]
  BY <1>1, FullDataIs
<1>3. Meaning(t) = Shape(t.rows, t.cols, at) /\ at = [ij \in Grid(t.rows, t.cols) |-> at[ij]]
  BY MeaningIs DEF Shape
<1>4. \A i \in Indices(t.rows), j \in Indices(t.cols) :
        at[<<i, j>>] = C("real8", FullData(t)[j * t.rows + i])
  BY <1>1, MeaningIs, FullDataIs
<1> HIDE DEF at
<1>5. Stores(Dense(DenseClass("real8"), FullData(t), t.rows, t.cols), "real8", FullData(t),
             t.rows, t.cols, at)
  BY <1>1, <1>2, <1>3, <1>4, StoresDense
<1>6. QED
  BY <1>1, <1>2, <1>3, <1>5 DEF FullOf, Shows, Stores

LEMMA ComplexFullOf ==
  ASSUME NEW t, WellFormed(t), NEW data,
         data = IF IsReal(t) THEN AsComplex(FullData(t)) ELSE FullData(t)
  PROVE  FullOf(Dense("COMPLEX_DENSE", data, t.rows, t.cols), t, "complex16")
<1> DEFINE r == Dense("COMPLEX_DENSE", data, t.rows, t.cols)
           at == Meaning(t).at
           T == Datatype(t)
<1>1. /\ "complex16" \in Arithmetic /\ T \in Arithmetic /\ (IsReal(t) <=> T = "real8")
      /\ DenseClass("complex16") = "COMPLEX_DENSE"
      /\ t.rows \in Nat \ {0} /\ t.cols \in Nat \ {0}
  BY TypeOfData DEF Arithmetic, DenseClass
<1>2. /\ FullData(t) \in [Indices(t.rows * t.cols) -> Storable(T)]
      /\ Finite(t) => FullData(t) \in [Indices(t.rows * t.cols) -> Number(T)]
  BY FullDataIs
<1>3. Meaning(t) = Shape(t.rows, t.cols, at) /\ at = [ij \in Grid(t.rows, t.cols) |-> at[ij]]
  BY MeaningIs DEF Shape
<1>4. \A i \in Indices(t.rows), j \in Indices(t.cols) :
        /\ j * t.rows + i \in Indices(t.rows * t.cols)
        /\ at[<<i, j>>] = C(T, FullData(t)[j * t.rows + i])
  <2>1. \A i \in Indices(t.rows), j \in Indices(t.cols) :
          at[<<i, j>>] = C(T, FullData(t)[j * t.rows + i])
    <3>1. \A i \in Indices(t.rows), j \in Indices(t.cols) : at[<<i, j>>] = C(T, Entry(t, i, j))
      BY MeaningIs
    <3>2. \A i \in Indices(t.rows), j \in Indices(t.cols) :
            FullData(t)[j * t.rows + i] = Entry(t, i, j)
      BY FullDataIs
    <3> HIDE DEF at, T
    <3>3. QED
      BY <3>1, <3>2
  <2>2. \A i \in Indices(t.rows), j \in Indices(t.cols) :
          j * t.rows + i \in Indices(t.rows * t.cols)
    BY <1>1, PlaceOf
  <2>3. QED
    BY <2>1, <2>2
<1> HIDE DEF at, T
<1>5. DOMAIN data = Indices(t.rows * t.cols)
      /\ data = [d \in Indices(t.rows * t.cols) |-> data[d]]
      /\ \A d \in Indices(t.rows * t.cols) : data[d] = C(T, FullData(t)[d])
  <2>1. CASE T = "real8"
    BY <1>1, <1>2, <2>1 DEF AsComplex, C
  <2>2. CASE T = "complex16"
    BY <1>1, <1>2, <2>2 DEF C
  <2>3. QED
    BY <1>1, <2>1, <2>2 DEF Arithmetic
<1>6. \A x : /\ x \in Storable(T) => C(T, x) \in Storable("complex16")
             /\ x \in Number(T) => C(T, x) \in Number("complex16")
             /\ C("complex16", C(T, x)) = C(T, x)
  <2>1. CASE T = "real8"
    BY <2>1 DEF C, ToComplex, Storable, Number, Complex16, Real8, P
  <2>2. CASE T = "complex16"
    BY <2>2 DEF C
  <2>3. T = "real8" \/ T = "complex16"
    BY <1>1 DEF Arithmetic
  <2>4. QED
    BY <2>1, <2>2, <2>3
<1>7. /\ data \in [Indices(t.rows * t.cols) -> Storable("complex16")]
      /\ Finite(t) => data \in [Indices(t.rows * t.cols) -> Number("complex16")]
  BY <1>2, <1>5, <1>6
<1>8. \A i \in Indices(t.rows), j \in Indices(t.cols) :
        at[<<i, j>>] = C("complex16", data[j * t.rows + i])
  BY <1>4, <1>5, <1>6
<1>9. Stores(Dense(DenseClass("complex16"), data, t.rows, t.cols), "complex16", data,
             t.rows, t.cols, at)
  BY <1>1, <1>3, <1>7, <1>8, StoresDense
<1>10. QED
  BY <1>1, <1>3, <1>7, <1>9 DEF FullOf, Shows, Stores

LEMMA ConvertToRealIsRight ==
  ASSUME NEW t, WellFormed(t), IsReal(t), t.class # "REAL_DENSE"
  PROVE  FullOf(ConvertToReal(t), t, "real8")
<1>1. ConvertToReal(t) = Dense("REAL_DENSE", FullData(t), t.rows, t.cols)
  <2>1. Datatype(t) = "real8" /\ Zero(Datatype(t)) = 0
    BY DEF Datatype, Zero
  <2>2. CASE t.class \in {"REAL_SCALAR", "INTEGER_SCALAR"}
    <3>1. t.class \in Scalars /\ t.class \in Plain
      BY <2>2 DEF Scalars, Plain
    <3>2. t.rows = 1 /\ t.cols = 1 /\ FullData(t) = [k \in {0} |-> t.data[0]]
      <4>1. DOMAIN t.data = {0} /\ t.data = [k \in {0} |-> t.data[k]]
        <5>1. Datalen(t) = 1 /\ Indices(1) = {0}
          BY <3>1, ByKind DEF Indices
        <5>2. t.data \in [Indices(1) -> Value(t)]
          BY <5>1 DEF WellFormed
        <5>3. QED
          BY <5>1, <5>2
      <4>2. QED
        BY <3>1, <4>1 DEF WellFormed, FullData
    <3>3. QED
      BY <2>2, <3>2 DEF ConvertToReal, ScalarToReal, IntegerToReal
  <2>3. CASE t.class = "REAL_DIAGONAL"
    BY <2>1, <2>3 DEF ConvertToReal, DiagonalToReal, FullData, Plain, Scalars, Denses, Diagonals
  <2>4. CASE t.class = "LOGICAL"
    BY <2>4 DEF ConvertToReal, LogicalToReal, FullData, Plain, Denses
  <2>5. CASE t.class = "REAL_SPARSE"
    BY <2>1, <2>5 DEF ConvertToReal, SparseToReal, FullData, Plain, Scalars, Denses, Diagonals
  <2>6. QED
    BY <2>2, <2>3, <2>4, <2>5 DEF IsReal, Reals
<1>2. QED
  BY <1>1, RealFullOf

LEMMA ConvertToComplexIsRight ==
  ASSUME NEW t, WellFormed(t), t.class # "COMPLEX_DENSE"
  PROVE  FullOf(ConvertToComplex(t), t, "complex16")
<1> DEFINE data == IF IsReal(t) THEN AsComplex(FullData(t)) ELSE FullData(t)
<1>1. ConvertToComplex(t) = Dense("COMPLEX_DENSE", data, t.rows, t.cols)
  <2>1. CASE t.class \in Scalars
    <3>1. t.rows = 1 /\ t.cols = 1 /\ FullData(t) = t.data
      BY <2>1 DEF WellFormed, FullData, Plain
    <3>2. CASE t.class = "COMPLEX_SCALAR"
      BY <3>1, <3>2 DEF ConvertToComplex, ComplexScalarToComplex, IsReal, Reals
    <3>3. CASE t.class \in {"REAL_SCALAR", "INTEGER_SCALAR"}
      BY <3>1, <3>3 DEF ConvertToComplex, ScalarToComplex, IntegerToComplex, IsReal, Reals
    <3>4. QED
      BY <2>1, <3>2, <3>3 DEF Scalars
  <2>2. CASE t.class \in {"REAL_DENSE", "LOGICAL"}
    BY <2>2 DEF ConvertToComplex, DenseToComplex, LogicalToComplex, FullData, Plain, Denses,
                IsReal, Reals
  <2>3. CASE t.class \in {"REAL_DIAGONAL", "REAL_SPARSE"}
    <3>1. IsReal(t) /\ Zero(Datatype(t)) = 0
      BY <2>3 DEF IsReal, Reals, Datatype, Zero
    <3>2. QED
      BY <2>3, <3>1 DEF ConvertToComplex, DiagonalToComplex, SparseToComplex, FullData, Plain,
                        Scalars, Denses, Diagonals
  <2>4. CASE t.class \in {"COMPLEX_DIAGONAL", "COMPLEX_SPARSE"}
    <3>1. ~IsReal(t) /\ Zero(Datatype(t)) = <<0, 0>>
      BY <2>4 DEF IsReal, Reals, Datatype, Zero
    <3>2. QED
      BY <2>4, <3>1 DEF ConvertToComplex, ComplexDiagonalToComplex, ComplexSparseToComplex,
                        FullData, Plain, Scalars, Denses, Diagonals
  <2>5. QED
    BY <2>1, <2>2, <2>3, <2>4 DEF WellFormed, Classes, Denses, Diagonals, Sparses
<1>2. QED
  BY <1>1, ComplexFullOf

-----------------------------------------------------------------------------
(* The dispatch: what is converted, and what runs.                         *)
LEMMA AsRealDense ==
  ASSUME NEW t, WellFormed(t), GetType(t) = "REAL_DENSE"
  PROVE  FullOf([t EXCEPT !.class = "REAL_DENSE"], t, "real8")
<1>1. t.class \in {"REAL_DENSE", "LOGICAL"}
  BY DEF GetType
<1>2. IsReal(t) /\ FullData(t) = t.data
  BY <1>1 DEF IsReal, Reals, FullData, Plain, Denses
<1>3. t.colPtr = None /\ t.rowIdx = None
  BY <1>1 DEF WellFormed, Sparses
<1>4. [t EXCEPT !.class = "REAL_DENSE"] = Dense("REAL_DENSE", t.data, t.rows, t.cols)
  <2>1. t = [class |-> t.class, rows |-> t.rows, cols |-> t.cols, data |-> t.data,
             colPtr |-> t.colPtr, rowIdx |-> t.rowIdx]
    BY DEF WellFormed
  <2>2. QED
    BY <1>3, <2>1 DEF Dense
<1>5. QED
  BY <1>2, <1>4, RealFullOf

LEMMA AsItIs ==
  ASSUME NEW t, WellFormed(t)
  PROVE  [t EXCEPT !.class = t.class] = t /\ Shows(t, t)
<1>1. t = [class |-> t.class, rows |-> t.rows, cols |-> t.cols, data |-> t.data,
           colPtr |-> t.colPtr, rowIdx |-> t.rowIdx]
  BY DEF WellFormed
<1>2. [t EXCEPT !.class = t.class] = t
  BY <1>1
<1>3. QED
  BY <1>2 DEF Shows

LEMMA FullIsOperand ==
  ASSUME NEW t, WellFormed(t), Finite(t), NEW T \in Arithmetic, NEW r, FullOf(r, t, T)
  PROVE  Operand(r, T) /\ Meaning(r) = Meaning(t)
  BY DEF FullOf, Shows, Operand

(* What type the answer of an operation has.                               *)
UnaryAnswer(t) ==
  IF IsReal(t) /\ GetType(t) \in UnaryTypes THEN "real8" ELSE "complex16"

BinaryAnswer(t, u) == IF IsReal(t) /\ IsReal(u) THEN "real8" ELSE "complex16"

LEMMA EvalUnaryIsRight ==
  ASSUME NEW op \in Unary, NEW t, WellFormed(t), Finite(t)
  PROVE  Sound(EvalUnary(op, t), UnaryAnswer(t), DenotedUnary(op, Meaning(t)))
<1>1. "real8" \in Arithmetic /\ "complex16" \in Arithmetic
  BY DEF Arithmetic
<1>2. CASE t.class = "REAL_SCALAR"
  <2>1. GetType(t) = t.class /\ GetType(t) \in UnaryTypes /\ UnaryAnswer(t) = "real8"
    BY <1>2 DEF GetType, UnaryTypes, UnaryAnswer, IsReal, Reals
  <2>2. EvalUnary(op, t) = RunUnary(op, t)
    BY <2>1, AsItIs DEF EvalUnary
  <2>3. QED
    BY <1>2, <2>1, <2>2, UnaryScalarIsRight
<1>3. CASE GetType(t) = "REAL_DENSE"
  <2> DEFINE r == [t EXCEPT !.class = "REAL_DENSE"]
  <2>1. GetType(t) \in UnaryTypes /\ UnaryAnswer(t) = "real8"
    BY <1>3 DEF GetType, UnaryTypes, UnaryAnswer, IsReal, Reals
  <2>2. EvalUnary(op, t) = RunUnary(op, r)
    BY <1>3, <2>1 DEF EvalUnary
  <2>3. FullOf(r, t, "real8")
    BY <1>3, AsRealDense
  <2> HIDE DEF r
  <2>4. Operand(r, "real8") /\ Meaning(r) = Meaning(t)
    BY <1>1, <2>3, FullIsOperand
  <2>5. Sound(RunUnary(op, r), "real8", DenotedUnary(op, Meaning(r)))
    BY <1>1, <2>4, UnaryDenseIsRight
  <2>6. QED
    BY <2>1, <2>2, <2>4, <2>5
<1>4. CASE t.class = "COMPLEX_DENSE"
  <2>1. GetType(t) = t.class /\ GetType(t) \in UnaryTypes /\ UnaryAnswer(t) = "complex16"
    BY <1>4 DEF GetType, UnaryTypes, UnaryAnswer, IsReal, Reals
  <2>2. EvalUnary(op, t) = RunUnary(op, t)
    BY <2>1, AsItIs DEF EvalUnary
  <2>3. Operand(t, "complex16")
    BY <1>4 DEF Operand, DenseClass
  <2>4. QED
    BY <1>1, <2>1, <2>2, <2>3, UnaryDenseIsRight
<1>5. CASE GetType(t) \notin UnaryTypes
  <2> DEFINE r == ConvertToComplex(t)
  <2>1. EvalUnary(op, t) = RunUnary(op, r) /\ UnaryAnswer(t) = "complex16"
    BY <1>5 DEF EvalUnary, UnaryAnswer
  <2>2. FullOf(r, t, "complex16")
    <3>1. t.class # "COMPLEX_DENSE"
      BY <1>5 DEF UnaryTypes, GetType
    <3>2. QED
      BY <3>1, ConvertToComplexIsRight
  <2> HIDE DEF r
  <2>3. Operand(r, "complex16") /\ Meaning(r) = Meaning(t)
    BY <1>1, <2>2, FullIsOperand
  <2>4. Sound(RunUnary(op, r), "complex16", DenotedUnary(op, Meaning(r)))
    BY <1>1, <2>3, UnaryDenseIsRight
  <2>5. QED
    BY <2>1, <2>3, <2>4
<1>6. QED
  BY <1>2, <1>3, <1>4, <1>5 DEF UnaryTypes, GetType

LEMMA RealByName ==
  ASSUME NEW t
  PROVE  IsComplexName(GetType(t)) <=> ~IsReal(t)
  BY DEF IsComplexName, GetType, IsReal, Reals

LEMMA ConvertArgIsRight ==
  ASSUME NEW t, WellFormed(t), NEW T \in Arithmetic, T = "real8" => IsReal(t)
  PROVE  FullOf(ConvertArg(t, DenseClass(T)), t, T)
<1>1. CASE T = "real8"
  <2>1. DenseClass(T) = "REAL_DENSE"
    BY <1>1 DEF DenseClass
  <2>2. CASE GetType(t) = "REAL_DENSE"
    BY <1>1, <2>1, <2>2, AsRealDense DEF ConvertArg
  <2>3. CASE GetType(t) # "REAL_DENSE"
    <3>1. t.class # "REAL_DENSE"
      BY <2>3 DEF GetType
    <3>2. ConvertArg(t, DenseClass(T)) = ConvertToReal(t)
      BY <2>1, <2>3 DEF ConvertArg
    <3>3. QED
      BY <1>1, <3>1, <3>2, ConvertToRealIsRight
  <2>4. QED
    BY <2>2, <2>3
<1>2. CASE T = "complex16"
  <2>1. DenseClass(T) = "COMPLEX_DENSE"
    BY <1>2 DEF DenseClass
  <2>2. CASE GetType(t) = "COMPLEX_DENSE"
    <3>1. t.class = "COMPLEX_DENSE"
      BY <2>2 DEF GetType
    <3>2. ConvertArg(t, DenseClass(T)) = t
      BY <2>1, <2>2, <3>1, AsItIs DEF ConvertArg
    <3>3. QED
      BY <2>1, <3>1, <3>2, AsItIs DEF FullOf
  <2>3. CASE GetType(t) # "COMPLEX_DENSE"
    <3>1. t.class # "COMPLEX_DENSE"
      BY <2>3 DEF GetType
    <3>2. ConvertArg(t, DenseClass(T)) = ConvertToComplex(t)
      BY <2>1, <2>3 DEF ConvertArg
    <3>3. QED
      BY <1>2, <3>1, <3>2, ConvertToComplexIsRight
  <2>4. QED
    BY <2>2, <2>3
<1>3. QED
  BY <1>1, <1>2 DEF Arithmetic

LEMMA EvalBinaryIsRight ==
  ASSUME NEW op \in Binary, NEW t, WellFormed(t), Finite(t), NEW u, WellFormed(u), Finite(u)
  PROVE  Sound(EvalBinary(op, t, u), BinaryAnswer(t, u),
               DenotedBinary(op, Meaning(t), Meaning(u)))
<1>1. CASE GetType(t) = "REAL_SCALAR" /\ GetType(u) = "REAL_SCALAR"
  <2>1. t.class = "REAL_SCALAR" /\ u.class = "REAL_SCALAR" /\ BinaryAnswer(t, u) = "real8"
    BY <1>1 DEF GetType, BinaryAnswer, IsReal, Reals
  <2>2. EvalBinary(op, t, u) = RunBinary(op, t, u)
    BY <1>1 DEF EvalBinary
  <2>3. QED
    BY <2>1, <2>2, BinaryScalarIsRight
<1>2. CASE ~(GetType(t) = "REAL_SCALAR" /\ GetType(u) = "REAL_SCALAR")
  <2> DEFINE T == BinaryAnswer(t, u)
             r == ConvertArg(t, DenseClass(T))
             s == ConvertArg(u, DenseClass(T))
  <2>1. T \in Arithmetic /\ (T = "real8" => IsReal(t) /\ IsReal(u))
    BY DEF BinaryAnswer, Arithmetic
  <2>2. TypeToConvertTo(t, u) = DenseClass(T)
    BY RealByName DEF TypeToConvertTo, BinaryAnswer, DenseClass
  <2>3. EvalBinary(op, t, u) = RunBinary(op, r, s)
    BY <1>2, <2>2 DEF EvalBinary
  <2> HIDE DEF T
  <2>4. FullOf(r, t, T) /\ FullOf(s, u, T)
    BY <2>1, ConvertArgIsRight
  <2> HIDE DEF r, s
  <2>5. Operand(r, T) /\ Operand(s, T) /\ Meaning(r) = Meaning(t) /\ Meaning(s) = Meaning(u)
    BY <2>1, <2>4, FullIsOperand
  <2>6. Sound(RunBinary(op, r, s), T, DenotedBinary(op, Meaning(r), Meaning(s)))
    BY <2>1, <2>5, BinaryDenseIsRight
  <2>7. QED
    BY <2>3, <2>5, <2>6 DEF T
<1>3. QED
  BY <1>1, <1>2

-----------------------------------------------------------------------------
(* What the methods return.                                                *)

(* One class of terminals is of the kind of another.                       *)
OneKind(c, b) ==
  /\ c \in Scalars <=> b \in Scalars
  /\ c \in Denses <=> b \in Denses
  /\ c \in Diagonals <=> b \in Diagonals
  /\ c \in Sparses <=> b \in Sparses

(* A terminal with other data in the same places.                          *)
Renumbered(t, class, data) ==
  [class |-> class, rows |-> t.rows, cols |-> t.cols, data |-> data,
   colPtr |-> t.colPtr, rowIdx |-> t.rowIdx]

LEMMA InComplexNumbers ==
  ASSUME NEW t, WellFormed(t), NEW c \in Classes \ Reals, OneKind(c, t.class)
  PROVE  LET r == Renumbered(t, c, [k \in DOMAIN t.data |-> C(Datatype(t), t.data[k])])
         IN  Shows(r, t)
<1> DEFINE data == [k \in DOMAIN t.data |-> C(Datatype(t), t.data[k])]
           r == Renumbered(t, c, data)
           T == Datatype(t)
           U == "complex16"
<1>1. /\ T \in Arithmetic /\ t.rows \in Nat \ {0} /\ t.cols \in Nat \ {0}
      /\ t.data \in [Indices(Datalen(t)) -> Storable(T)]
      /\ Finite(t) <=> t.data \in [Indices(Datalen(t)) -> Number(T)]
  BY TypeOfData
<1> HIDE DEF T
<1>2. \A x : /\ x \in Storable(T) => C(T, x) \in Storable(U)
             /\ x \in Number(T) => C(T, x) \in Number(U)
             /\ C(U, C(T, x)) = C(T, x)
  <2>1. CASE T = "real8"
    BY <2>1 DEF C, ToComplex, Storable, Number, Complex16, Real8, P
  <2>2. CASE T = "complex16"
    BY <2>2 DEF C
  <2>3. T = "real8" \/ T = "complex16"
    BY <1>1 DEF Arithmetic
  <2>4. QED
    BY <2>1, <2>2, <2>3
<1>3. /\ data \in [Indices(Datalen(t)) -> Storable(U)]
      /\ Finite(t) => data \in [Indices(Datalen(t)) -> Number(U)]
      /\ \A k \in Indices(Datalen(t)) : C(U, data[k]) = C(T, t.data[k])
  BY <1>1, <1>2 DEF T
<1> HIDE DEF data
<1>4. /\ r.class = c /\ r.rows = t.rows /\ r.cols = t.cols /\ r.data = data
      /\ r.colPtr = t.colPtr /\ r.rowIdx = t.rowIdx
      /\ r = [class |-> r.class, rows |-> r.rows, cols |-> r.cols, data |-> r.data,
              colPtr |-> r.colPtr, rowIdx |-> r.rowIdx]
  BY DEF Renumbered
<1> HIDE DEF r
<1>5. Datatype(r) = U /\ Value(r) = Storable(U)
  BY <1>4 DEF Datatype, IsReal, Value, Storable
<1>6. t.class \in Classes /\ c \in Classes
  BY DEF WellFormed
<1>7. Datalen(r) = Datalen(t) /\ \A j : InColumn(r, j) = InColumn(t, j)
  <2>1. Datalen(r) = Datalen(t)
    BY <1>4, <1>6, ByKind DEF OneKind, Classes
  <2>2. QED
    BY <1>4, <2>1 DEF InColumn
<1>8. WellFormed(r)
  <2>1. r.data \in [Indices(Datalen(r)) -> Value(r)]
    BY <1>3, <1>4, <1>5, <1>7
  <2>2. r.class \in Classes /\ r.rows \in Nat \ {0} /\ r.cols \in Nat \ {0}
    BY <1>1, <1>4
  <2>3. r.class \in Scalars => r.rows = 1 /\ r.cols = 1
    BY <1>4 DEF WellFormed, OneKind
  <2>4. CASE t.class \in Sparses
    <3>1. r.class \in Sparses
      BY <1>4, <2>4 DEF OneKind
    <3>2. /\ t.colPtr \in [0 .. t.cols -> Nat] /\ t.colPtr[0] = 0
          /\ \A j \in Indices(t.cols) : t.colPtr[j] <= t.colPtr[j + 1]
          /\ t.rowIdx \in [Indices(Datalen(t)) -> Indices(t.rows)]
          /\ \A j \in Indices(t.cols) : \A k, l \in InColumn(t, j) :
               k # l => t.rowIdx[k] # t.rowIdx[l]
      BY <2>4 DEF WellFormed
    <3>3. /\ r.colPtr \in [0 .. r.cols -> Nat] /\ r.colPtr[0] = 0
          /\ \A j \in Indices(r.cols) : r.colPtr[j] <= r.colPtr[j + 1]
          /\ r.rowIdx \in [Indices(Datalen(r)) -> Indices(r.rows)]
          /\ \A j \in Indices(r.cols) : \A k, l \in InColumn(r, j) :
               k # l => r.rowIdx[k] # r.rowIdx[l]
      BY <1>4, <1>7, <3>2
    <3>4. QED
      BY <1>4, <2>1, <2>2, <2>3, <3>1, <3>3 DEF WellFormed
  <2>5. CASE t.class \notin Sparses
    <3>1. r.class \notin Sparses
      BY <1>4, <2>5 DEF OneKind
    <3>2. r.colPtr = None /\ r.rowIdx = None
      BY <1>4, <2>5 DEF WellFormed
    <3>3. QED
      BY <1>4, <2>1, <2>2, <2>3, <3>1, <3>2 DEF WellFormed
  <2>6. QED
    BY <2>4, <2>5
<1>9. ASSUME NEW i \in Indices(t.rows), NEW j \in Indices(t.cols)
      PROVE  C(U, Entry(r, i, j)) = C(T, Entry(t, i, j))
  <2>1. C(U, Zero(U)) = C(T, Zero(T))
    BY <1>1 DEF Arithmetic, C, Zero, ToComplex
  <2>2. CASE t.class \in Plain
    <3>1. r.class \in Plain
      BY <1>4, <2>2 DEF OneKind, Plain
    <3>2. Entry(r, i, j) = data[j * t.rows + i] /\ Entry(t, i, j) = t.data[j * t.rows + i]
      BY <1>4, <1>8, <2>2, <3>1, PlainFacts
    <3>3. j * t.rows + i \in Indices(Datalen(t))
      <4>1. j * t.rows + i \in Indices(t.rows * t.cols)
        BY <1>1, PlaceOf
      <4>2. QED
        BY <2>2, <4>1, PlainFacts
    <3>4. QED
      BY <1>3, <3>2, <3>3
  <2>3. CASE t.class \in Diagonals
    <3>1. r.class \in Diagonals
      BY <1>4, <2>3 DEF OneKind
    <3>2. /\ Entry(r, i, j) = IF i = j THEN data[i] ELSE Zero(U)
          /\ Entry(t, i, j) = IF i = j THEN t.data[i] ELSE Zero(T)
      BY <1>4, <1>5, <2>3, <3>1, ByKind DEF T
    <3>3. i = j => i \in Indices(Datalen(t))
      BY <2>3, DiagonalEntries
    <3>4. QED
      BY <1>3, <2>1, <3>2, <3>3
  <2>4. CASE t.class \in Sparses
    <3>1. r.class \in Sparses
      BY <1>4, <2>4 DEF OneKind
    <3> DEFINE here == \E k \in InColumn(t, j) : t.rowIdx[k] = i
               at == CHOOSE k \in InColumn(t, j) : t.rowIdx[k] = i
    <3>2. /\ Entry(r, i, j) = IF here THEN data[at] ELSE Zero(U)
          /\ Entry(t, i, j) = IF here THEN t.data[at] ELSE Zero(T)
      BY <1>4, <1>5, <1>7, <2>4, <3>1, ByKind DEF T
    <3>3. here => at \in Indices(Datalen(t))
      <4>1. here => at \in InColumn(t, j)
        OBVIOUS
      <4> HIDE DEF at, here
      <4>2. QED
        BY <2>4, <4>1, ColumnsAreStored
    <3> HIDE DEF at, here
    <3>4. QED
      BY <1>3, <2>1, <3>2, <3>3
  <2>5. QED
    BY <1>6, <2>2, <2>3, <2>4 DEF Classes, Plain
<1>10. Meaning(r) = Meaning(t)
  <2>1. [ij \in Grid(t.rows, t.cols) |-> C(U, Entry(r, ij[1], ij[2]))]
          = [ij \in Grid(t.rows, t.cols) |-> C(T, Entry(t, ij[1], ij[2]))]
    <3>1. \A ij \in Grid(t.rows, t.cols) : ij[1] \in Indices(t.rows) /\ ij[2] \in Indices(t.cols)
      BY DEF Grid
    <3>2. QED
      BY <1>9, <3>1
  <2>2. Meaning(t) = Shape(t.rows, t.cols,
                           [ij \in Grid(t.rows, t.cols) |-> C(T, Entry(t, ij[1], ij[2]))])
    BY MeaningIs DEF T
  <2>3. Meaning(r) = Shape(t.rows, t.cols,
                           [ij \in Grid(t.rows, t.cols) |-> C(U, Entry(r, ij[1], ij[2]))])
    BY <1>4, <1>5, <1>8, MeaningIs
  <2>4. QED
    BY <2>1, <2>2, <2>3
<1>11. Finite(t) => Finite(r)
  BY <1>3, <1>4, <1>5, <1>7, <1>8, TypeOfData
<1>12. QED
  BY <1>8, <1>10, <1>11 DEF Shows, r, data

LEMMA ShownIsThere ==
  ASSUME NEW r, NEW t, Shows(r, t)
  PROVE  r # Throws /\ (Finite(t) => Finite(r)) /\ Meaning(r) = Meaning(t) /\ WellFormed(r)
<1>1. r.class \in Classes
  BY DEF Shows, WellFormed
<1>2. Throws.class \notin Classes
  BY DEF Throws, Classes, Scalars, Denses, Diagonals, Sparses
<1>3. QED
  BY <1>1, <1>2 DEF Shows

(* A class's own kind with nothing changed, and made of complex numbers.   *)
LEMMA ScalarData ==
  ASSUME NEW t, WellFormed(t), t.class \in Scalars
  PROVE  /\ t.rows = 1 /\ t.cols = 1 /\ t.colPtr = None /\ t.rowIdx = None
         /\ DOMAIN t.data = {0} /\ t.data = [k \in {0} |-> t.data[0]]
<1>1. Datalen(t) = 1 /\ Indices(1) = {0}
  BY ByKind DEF Indices
<1>2. t.data \in [Indices(1) -> Value(t)]
  BY <1>1 DEF WellFormed
<1>3. t.rows = 1 /\ t.cols = 1 /\ t.colPtr = None /\ t.rowIdx = None
  BY KindsAreDisjoint DEF WellFormed
<1>4. QED
  BY <1>1, <1>2, <1>3

LEMMA MethodsAre ==
  ASSUME NEW t, WellFormed(t)
  PROVE  LET m == Methods(t)
         IN  /\ Shows(m.owning, t) /\ (IsReal(m.owning) <=> IsReal(t))
             /\ Shows(m.complex, t)
             /\ IF IsReal(t) THEN FullOf(m.fullReal, t, "real8") ELSE m.fullReal = Throws
             /\ FullOf(m.fullComplex, t, "complex16")
<1> DEFINE m == Methods(t)
           data == [k \in DOMAIN t.data |-> C(Datatype(t), t.data[k])]
<1>1. t = [class |-> t.class, rows |-> t.rows, cols |-> t.cols, data |-> t.data,
           colPtr |-> t.colPtr, rowIdx |-> t.rowIdx]
  BY DEF WellFormed
<1>2. Shows(t, t)
  BY AsItIs
<1>3. \A c \in Classes \ Reals : OneKind(c, t.class) => Shows(Renumbered(t, c, data), t)
  BY InComplexNumbers
<1>4. CASE IsReal(t)
  <2>1. data = AsComplex(t.data)
    BY <1>4 DEF Datatype, AsComplex, C
  <2>2. CASE t.class \in {"REAL_SCALAR", "INTEGER_SCALAR"}
    <3> DEFINE c == "COMPLEX_SCALAR"
    <3>1. t.class \in Scalars /\ c \in Classes \ Reals /\ OneKind(c, t.class)
      BY <2>2 DEF Scalars, Denses, Diagonals, Sparses, Classes, Reals, OneKind
    <3>2. m.owning = Scalar(t.class, t.data[0]) /\ m.complex = Scalar(c, ToComplex(t.data[0]))
          /\ m.fullReal = ConvertToReal(t) /\ m.fullComplex = ConvertToComplex(t)
      BY <2>2 DEF Methods, RealScalar, IntegerScalar
    <3>3. Scalar(t.class, t.data[0]) = t
      BY <1>1, <3>1, ScalarData DEF Scalar
    <3>4. Scalar(c, ToComplex(t.data[0])) = Renumbered(t, c, data)
      BY <2>1, <3>1, ScalarData DEF Scalar, Renumbered, AsComplex
    <3>5. Shows(Renumbered(t, c, data), t)
      BY <1>3, <3>1
    <3>6. FullOf(ConvertToReal(t), t, "real8") /\ FullOf(ConvertToComplex(t), t, "complex16")
      BY <1>4, <2>2, ConvertToRealIsRight, ConvertToComplexIsRight
    <3> HIDE DEF m, data
    <3>7. QED
      BY <1>2, <1>4, <3>2, <3>3, <3>4, <3>5, <3>6 DEF m
  <2>3. CASE t.class \in {"REAL_DENSE", "LOGICAL"}
    <3> DEFINE r == Dense("REAL_DENSE", t.data, t.rows, t.cols)
               z == Dense("COMPLEX_DENSE", AsComplex(t.data), t.rows, t.cols)
    <3>1. m.owning = r /\ m.complex = z /\ m.fullReal = r /\ m.fullComplex = z
      BY <2>3 DEF Methods, RealDenseMatrix, DenseToComplex
    <3>2. FullData(t) = t.data
      BY <2>3 DEF FullData, Plain, Denses
    <3>3. FullOf(r, t, "real8") /\ FullOf(z, t, "complex16")
      BY <1>4, <3>2, RealFullOf, ComplexFullOf
    <3>4. IsReal(r)
      BY DEF Dense, IsReal, Reals
    <3> HIDE DEF m, r, z
    <3>5. QED
      BY <1>4, <3>1, <3>3, <3>4 DEF FullOf, m
  <2>4. CASE t.class = "REAL_DIAGONAL"
    <3> DEFINE c == "COMPLEX_DIAGONAL"
    <3>1. c \in Classes \ Reals /\ OneKind(c, t.class) /\ t.colPtr = None /\ t.rowIdx = None
      BY <2>4 DEF Scalars, Denses, Diagonals, Sparses, Classes, Reals, OneKind, WellFormed
    <3>2. /\ m.owning = Diagonal(t.class, t.data, t.rows, t.cols)
          /\ m.complex = Diagonal(c, AsComplex(t.data), t.rows, t.cols)
          /\ m.fullReal = ConvertToReal(t) /\ m.fullComplex = ConvertToComplex(t)
      BY <2>4 DEF Methods, RealDiagonalMatrix
    <3>3. m.owning = t
      BY <1>1, <3>1, <3>2 DEF Diagonal
    <3>4. m.complex = Renumbered(t, c, data)
      BY <2>1, <3>1, <3>2 DEF Diagonal, Renumbered
    <3>5. Shows(Renumbered(t, c, data), t)
      BY <1>3, <3>1
    <3>6. FullOf(ConvertToReal(t), t, "real8") /\ FullOf(ConvertToComplex(t), t, "complex16")
      BY <1>4, <2>4, ConvertToRealIsRight, ConvertToComplexIsRight
    <3> HIDE DEF m, data
    <3>7. QED
      BY <1>2, <1>4, <3>2, <3>3, <3>4, <3>5, <3>6 DEF m
  <2>5. CASE t.class = "REAL_SPARSE"
    <3> DEFINE c == "COMPLEX_SPARSE"
    <3>1. c \in Classes \ Reals /\ OneKind(c, t.class)
      BY <2>5 DEF Scalars, Denses, Diagonals, Sparses, Classes, Reals, OneKind
    <3>2. /\ m.owning = Sparse(t.class, t.colPtr, t.rowIdx, t.data, t.rows, t.cols)
          /\ m.complex = Sparse(c, t.colPtr, t.rowIdx, AsComplex(t.data), t.rows, t.cols)
          /\ m.fullReal = ConvertToReal(t) /\ m.fullComplex = ConvertToComplex(t)
      BY <2>5 DEF Methods, RealSparseMatrix
    <3>3. m.owning = t
      BY <1>1, <3>2 DEF Sparse
    <3>4. m.complex = Renumbered(t, c, data)
      BY <2>1, <3>2 DEF Sparse, Renumbered
    <3>5. Shows(Renumbered(t, c, data), t)
      BY <1>3, <3>1
    <3>6. FullOf(ConvertToReal(t), t, "real8") /\ FullOf(ConvertToComplex(t), t, "complex16")
      BY <1>4, <2>5, ConvertToRealIsRight, ConvertToComplexIsRight
    <3> HIDE DEF m, data
    <3>7. QED
      BY <1>2, <1>4, <3>2, <3>3, <3>4, <3>5, <3>6 DEF m
  <2>6. QED
    BY <1>4, <2>2, <2>3, <2>4, <2>5 DEF IsReal, Reals
<1>5. CASE ~IsReal(t)
  <2>1. CASE t.class = "COMPLEX_SCALAR"
    <3>1. t.class \in Scalars
      BY <2>1 DEF Scalars
    <3>2. /\ m.owning = Scalar(t.class, t.data[0]) /\ m.complex = Scalar(t.class, t.data[0])
          /\ m.fullReal = Throws /\ m.fullComplex = ConvertToComplex(t)
      BY <2>1 DEF Methods, ComplexScalar
    <3>3. Scalar(t.class, t.data[0]) = t
      BY <1>1, <3>1, ScalarData DEF Scalar
    <3>4. FullOf(ConvertToComplex(t), t, "complex16")
      BY <2>1, ConvertToComplexIsRight
    <3> HIDE DEF m
    <3>5. QED
      BY <1>2, <1>5, <3>2, <3>3, <3>4 DEF m
  <2>2. CASE t.class = "COMPLEX_DENSE"
    <3>1. t.colPtr = None /\ t.rowIdx = None
      BY <2>2 DEF WellFormed, Sparses
    <3>2. /\ m.owning = Dense(t.class, t.data, t.rows, t.cols) /\ m.complex = m.owning
          /\ m.fullReal = Throws /\ m.fullComplex = m.owning
      BY <2>2 DEF Methods, ComplexDenseMatrix
    <3>3. m.owning = t
      BY <1>1, <3>1, <3>2 DEF Dense
    <3>4. FullOf(t, t, "complex16")
      BY <1>2, <2>2 DEF FullOf, DenseClass
    <3> HIDE DEF m
    <3>5. QED
      BY <1>2, <1>5, <3>2, <3>3, <3>4 DEF m
  <2>3. CASE t.class = "COMPLEX_DIAGONAL"
    <3>1. t.colPtr = None /\ t.rowIdx = None
      BY <2>3 DEF WellFormed, Sparses
    <3>2. /\ m.owning = Diagonal(t.class, t.data, t.rows, t.cols) /\ m.complex = m.owning
          /\ m.fullReal = Throws /\ m.fullComplex = ConvertToComplex(t)
      BY <2>3 DEF Methods, ComplexDiagonalMatrix
    <3>3. m.owning = t
      BY <1>1, <3>1, <3>2 DEF Diagonal
    <3>4. FullOf(ConvertToComplex(t), t, "complex16")
      BY <2>3, ConvertToComplexIsRight
    <3> HIDE DEF m
    <3>5. QED
      BY <1>2, <1>5, <3>2, <3>3, <3>4 DEF m
  <2>4. CASE t.class = "COMPLEX_SPARSE"
    <3>1. /\ m.owning = Sparse(t.class, t.colPtr, t.rowIdx, t.data, t.rows, t.cols)
          /\ m.complex = m.owning
          /\ m.fullReal = Throws /\ m.fullComplex = ConvertToComplex(t)
      BY <2>4 DEF Methods, ComplexSparseMatrix
    <3>2. m.owning = t
      BY <1>1, <3>1 DEF Sparse
    <3>3. FullOf(ConvertToComplex(t), t, "complex16")
      BY <2>4, ConvertToComplexIsRight
    <3> HIDE DEF m
    <3>4. QED
      BY <1>2, <1>5, <3>1, <3>2, <3>3 DEF m
  <2>5. QED
    <3>1. t.class \in Classes \ Reals
      BY <1>5 DEF WellFormed, IsReal
    <3>2. QED
      BY <3>1, <2>1, <2>2, <2>3, <2>4
         DEF Classes, Reals, Scalars, Denses, Diagonals, Sparses
<1>6. QED
  BY <1>4, <1>5

-----------------------------------------------------------------------------
(* The chain of operations.                                                *)

(* An answer that is right, after an operation on what was right.          *)
LEMMA RightIsInvariant ==
  ASSUME NEW T, Sound(arg0', T, denotes'),
         arg1' \in Terminals, real' \in BOOLEAN, computed' \in BOOLEAN, steps' \in 0 .. MaxSteps,
         real' => T = "real8", Finite(arg1')
  PROVE  DispatchInv'
<1>1. ASSUME arg0' = Throws PROVE WellFormed(arg0') => FALSE
  <2>1. Throws.class \notin Classes
    BY DEF Throws, Classes, Scalars, Denses, Diagonals, Sparses
  <2>2. QED
    BY <1>1, <2>1 DEF WellFormed
<1>2. CASE arg0' = Throws
  <2>1. denotes' = Undefined
    BY <1>1, <1>2 DEF Sound
  <2>2. QED
    BY <1>2, <2>1 DEF DispatchInv, TypeOK, ValueIsDenoted, GoesOn
<1>3. CASE arg0' # Throws
  <2>1. /\ WellFormed(arg0') /\ Finite(arg0') /\ Datatype(arg0') = T /\ arg0'.class \in Results
        /\ Meaning(arg0') = denotes' /\ denotes' # Undefined
    BY <1>3 DEF Sound
  <2>2. real' => IsReal(arg0')
    BY <2>1, TypeOfData
  <2>3. QED
    BY <1>3, <2>1, <2>2 DEF DispatchInv, TypeOK, ValueIsDenoted
<1>4. QED
  BY <1>2, <1>3

LEMMA WhereItGoesOn ==
  ASSUME DispatchInv, GoesOn
  PROVE  /\ WellFormed(arg0) /\ WellFormed(arg1) /\ Finite(arg0) /\ Finite(arg1)
         /\ denotes = Meaning(arg0) /\ (real => IsReal(arg0))
         /\ arg1 \in Terminals /\ real \in BOOLEAN /\ steps + 1 \in 0 .. MaxSteps
<1>1. WellFormed(arg0) /\ arg0 # Throws /\ Finite(arg0) /\ Finite(arg1) /\ (real => IsReal(arg0))
  BY DEF DispatchInv, GoesOn, TypeOK
<1>2. arg1 \in Terminals /\ WellFormed(arg1) /\ real \in BOOLEAN
  BY DispatchAssumption DEF DispatchInv, TypeOK
<1>3. steps + 1 \in 0 .. MaxSteps
  BY DispatchAssumption DEF DispatchInv, GoesOn, TypeOK
<1>4. denotes = Meaning(arg0)
  BY <1>1 DEF DispatchInv, ValueIsDenoted
<1>5. QED
  BY <1>1, <1>2, <1>3, <1>4

LEMMA DispatchInvStep ==
  ASSUME DispatchInv, [Next]_vars
  PROVE  DispatchInv'
<1>1. ASSUME NEW op \in Unary, EvaluateUnary(op) PROVE DispatchInv'
  <2>1. GoesOn
    BY <1>1 DEF EvaluateUnary
  <2>2. /\ WellFormed(arg0) /\ Finite(arg0) /\ Finite(arg1)
        /\ denotes = Meaning(arg0) /\ (real => IsReal(arg0))
        /\ arg1 \in Terminals /\ real \in BOOLEAN /\ steps + 1 \in 0 .. MaxSteps
    BY <2>1, WhereItGoesOn
  <2>3. Sound(EvalUnary(op, arg0), UnaryAnswer(arg0), DenotedUnary(op, Meaning(arg0)))
    BY <2>2, EvalUnaryIsRight
  <2>4. Sound(arg0', UnaryAnswer(arg0), denotes')
    BY <1>1, <2>2, <2>3 DEF EvaluateUnary
  <2>5. real' => UnaryAnswer(arg0) = "real8"
    BY <1>1, <2>2 DEF EvaluateUnary, UnaryAnswer
  <2>6. arg1' = arg1 /\ real' \in BOOLEAN /\ computed' \in BOOLEAN /\ steps' = steps + 1
    BY <1>1, <2>2 DEF EvaluateUnary
  <2>7. QED
    BY <2>2, <2>4, <2>5, <2>6, RightIsInvariant
<1>2. ASSUME NEW op \in Binary, EvaluateBinary(op) PROVE DispatchInv'
  <2>1. GoesOn
    BY <1>2 DEF EvaluateBinary
  <2>2. /\ WellFormed(arg0) /\ WellFormed(arg1) /\ Finite(arg0) /\ Finite(arg1)
        /\ denotes = Meaning(arg0) /\ (real => IsReal(arg0))
        /\ arg1 \in Terminals /\ real \in BOOLEAN /\ steps + 1 \in 0 .. MaxSteps
    BY <2>1, WhereItGoesOn
  <2> DEFINE T == BinaryAnswer(arg0, arg1)
  <2>3. T = BinaryAnswer(arg1, arg0)
    BY DEF BinaryAnswer
  <2>4. /\ Sound(EvalBinary(op, arg0, arg1), T, DenotedBinary(op, denotes, Meaning(arg1)))
        /\ Sound(EvalBinary(op, arg1, arg0), T, DenotedBinary(op, Meaning(arg1), denotes))
    BY <2>2, <2>3, EvalBinaryIsRight
  <2>5. Sound(arg0', T, denotes')
    BY <1>2, <2>4 DEF EvaluateBinary
  <2>6. real' => T = "real8"
    BY <1>2, <2>2 DEF EvaluateBinary, BinaryAnswer
  <2>7. arg1' = arg1 /\ real' \in BOOLEAN /\ computed' \in BOOLEAN /\ steps' = steps + 1
    BY <1>2, <2>2 DEF EvaluateBinary
  <2> HIDE DEF T
  <2>8. QED
    BY <2>2, <2>5, <2>6, <2>7, RightIsInvariant
<1>3. ASSUME NEW method \in MethodNames, Call(method) PROVE DispatchInv'
  <2>1. GoesOn
    BY <1>3 DEF Call
  <2>2. /\ WellFormed(arg0) /\ Finite(arg0) /\ Finite(arg1)
        /\ denotes = Meaning(arg0) /\ (real => IsReal(arg0))
        /\ arg1 \in Terminals /\ real \in BOOLEAN /\ steps + 1 \in 0 .. MaxSteps
    BY <2>1, WhereItGoesOn
  <2>3. /\ arg1' = arg1 /\ real' \in BOOLEAN /\ computed' = FALSE /\ steps' = steps + 1
        /\ arg0' = Methods(arg0)[method]
        /\ denotes' = IF method = "fullReal" /\ ~IsReal(arg0) THEN Undefined ELSE denotes
        /\ real' => real /\ method \in {"owning", "fullReal"}
    BY <1>3, <2>2 DEF Call
  <2>4. Meaning(arg0) # Undefined
    BY <2>2, MeaningIs
  <2>5. CASE method = "fullReal" /\ ~IsReal(arg0)
    <3>1. arg0' = Throws
      BY <2>2, <2>3, <2>5, MethodsAre
    <3>2. QED
      BY <2>2, <2>3, <2>5, <3>1 DEF DispatchInv, TypeOK, ValueIsDenoted, GoesOn
  <2>6. CASE ~(method = "fullReal" /\ ~IsReal(arg0))
    <3>1. Shows(arg0', arg0)
      BY <2>2, <2>3, <2>6, MethodsAre DEF MethodNames, FullOf
    <3>2. real' => IsReal(arg0')
      <4>1. CASE method = "owning"
        BY <2>2, <2>3, <4>1, MethodsAre
      <4>2. CASE method = "fullReal"
        <5>1. arg0'.class = "REAL_DENSE"
          BY <2>2, <2>3, <2>6, <4>2, MethodsAre DEF FullOf, DenseClass
        <5>2. QED
          BY <5>1 DEF IsReal, Reals
      <4>3. QED
        BY <2>3, <4>1, <4>2
    <3>3. arg0' # Throws /\ Finite(arg0') /\ Meaning(arg0') = Meaning(arg0) /\ WellFormed(arg0')
      BY <2>2, <3>1, ShownIsThere
    <3>4. denotes' = Meaning(arg0)
      BY <2>2, <2>3, <2>6
    <3>5. QED
      BY <2>2, <2>3, <2>4, <3>2, <3>3, <3>4 DEF DispatchInv, TypeOK, ValueIsDenoted
  <2>7. QED
    BY <2>5, <2>6
<1>4. CASE UNCHANGED vars
  BY <1>4 DEF vars, DispatchInv, TypeOK, ValueIsDenoted, GoesOn
<1>5. QED
  BY <1>1, <1>2, <1>3, <1>4 DEF Next

LEMMA DispatchInvInit ==
  ASSUME Init
  PROVE  DispatchInv
<1>1. WellFormed(arg0) /\ arg1 \in Terminals /\ arg0 # Throws
  <2>1. WellFormed(arg0) /\ arg1 \in Terminals
    BY DispatchAssumption DEF Init
  <2>2. QED
    BY <2>1, AsItIs, ShownIsThere
<1>2. denotes = Meaning(arg0) /\ Meaning(arg0) # Undefined
  BY <1>1, MeaningIs DEF Init
<1>3. steps \in 0 .. MaxSteps /\ (steps < MaxSteps => Finite(arg0) /\ Finite(arg1))
  BY DispatchAssumption DEF Init
<1>4. real = IsReal(arg0) /\ real \in BOOLEAN /\ computed = FALSE
  BY DEF Init, IsReal
<1>5. QED
  BY <1>1, <1>2, <1>3, <1>4 DEF DispatchInv, TypeOK, ValueIsDenoted, GoesOn

(* Types, and what else the next operation relies on: what its arguments   *)
(* and the last answer are after any chain of operations, conversions and  *)
(* copies (DispatchUnaryOp and DispatchBinaryOp::eval, dispatch.hh).       *)
THEOREM DispatchInvariant == Spec => []DispatchInv
<1>1. Init => DispatchInv
  BY DispatchInvInit
<1>2. DispatchInv /\ [Next]_vars => DispatchInv'
  BY DispatchInvStep
<1>3. QED
  BY <1>1, <1>2, PTL DEF Spec

(* The answer of every runner, on whatever its arguments were converted    *)
(* to, stands for the matrix the operation denotes, or is nothing where it *)
(* denotes none (dispatch.hh, the runners, convertto.cc).                  *)
THEOREM OperationsMeanWhatTheySay == Spec => []ValueIsDenoted
<1>1. DispatchInv => ValueIsDenoted
  BY DEF DispatchInv
<1>2. QED
  BY <1>1, DispatchInvariant, PTL

(* The two classes of real results have rows of reals.                     *)
LEMMA RealResultsHaveRows ==
  ASSUME NEW t, WellFormed(t), IsReal(t), t.class \in Results
  PROVE  Methods(t).reals # NoRows
<1>1. CASE t.class = "REAL_SCALAR"
  <2>1. Methods(t).reals = ScalarRows(t)
    BY <1>1 DEF Methods, RealScalar
  <2>2. 0 \in DOMAIN ScalarRows(t) /\ 0 \notin DOMAIN NoRows
    BY DEF ScalarRows, NoRows
  <2>3. QED
    BY <2>1, <2>2
<1>2. CASE t.class = "REAL_DENSE"
  <2>1. Methods(t).reals = DenseRows(t)
    BY <1>2 DEF Methods, RealDenseMatrix
  <2>2. 0 \in DOMAIN DenseRows(t) /\ 0 \notin DOMAIN NoRows
    BY DEF DenseRows, NoRows, WellFormed, Indices
  <2>3. QED
    BY <2>1, <2>2
<1>3. QED
  BY <1>1, <1>2 DEF Results, IsReal, Reals

(* Operations on reals, without a function that may leave them, give       *)
(* something real, with rows of reals to hand out (dispatch.py's choice of *)
(* a type to convert to; toReal8ArrayOfArrays).                            *)
THEOREM RealsStayReal == Spec => []RealStaysReal
<1>1. DispatchInv => RealStaysReal
  <2>1. SUFFICES ASSUME DispatchInv, real, arg0 # Throws
                 PROVE  IsReal(arg0) /\ (computed => Methods(arg0).reals # NoRows)
    BY DEF RealStaysReal
  <2>2. WellFormed(arg0) /\ IsReal(arg0) /\ (computed => arg0.class \in Results)
    BY <2>1 DEF DispatchInv, TypeOK
  <2>3. QED
    BY <2>2, RealResultsHaveRows
<1>2. QED
  BY <1>1, DispatchInvariant, PTL

-----------------------------------------------------------------------------
(* What is handed out: rows, and full matrices read back from them.        *)

(* Dense matrices of one type that mean the same are the same.             *)
LEMMA DifferentNumbersDiffer ==
  ASSUME NEW T \in Arithmetic, NEW x \in Storable(T), NEW y \in Storable(T), C(T, x) = C(T, y)
  PROVE  x = y
<1>1. CASE T = "real8"
  BY <1>1 DEF C, ToComplex
<1>2. CASE T = "complex16"
  BY <1>2 DEF C
<1>3. QED
  BY <1>1, <1>2 DEF Arithmetic

LEMMA SameDense ==
  ASSUME NEW T \in Arithmetic,
         NEW r, WellFormed(r), r.class = DenseClass(T),
         NEW s, WellFormed(s), s.class = DenseClass(T), Meaning(r) = Meaning(s)
  PROVE  r = s
<1>1. /\ r.class \in Plain /\ s.class \in Plain /\ Datatype(r) = T /\ Datatype(s) = T
      /\ r.colPtr = None /\ r.rowIdx = None /\ s.colPtr = None /\ s.rowIdx = None
  BY DEF DenseClass, Plain, Denses, Datatype, IsReal, Reals, Arithmetic, WellFormed, Sparses
<1>2. r.rows = s.rows /\ r.cols = s.cols
  BY MeaningIs
<1>3. /\ r.rows \in Nat \ {0} /\ r.cols \in Nat \ {0}
      /\ r.data \in [Indices(r.rows * r.cols) -> Storable(T)]
      /\ s.data \in [Indices(r.rows * r.cols) -> Storable(T)]
  BY <1>1, <1>2, TypeOfData, PlainFacts
<1>4. ASSUME NEW i \in Indices(r.rows), NEW j \in Indices(r.cols)
      PROVE  r.data[j * r.rows + i] = s.data[j * r.rows + i]
  <2>1. /\ Meaning(r).at[<<i, j>>] = C(T, r.data[j * r.rows + i])
        /\ Meaning(s).at[<<i, j>>] = C(T, s.data[j * r.rows + i])
    <3>1. /\ Meaning(r).at[<<i, j>>] = C(T, Entry(r, i, j))
          /\ Meaning(s).at[<<i, j>>] = C(T, Entry(s, i, j))
      <4>1. i \in Indices(s.rows) /\ j \in Indices(s.cols)
        BY <1>2
      <4>2. Meaning(r).at[<<i, j>>] = C(Datatype(r), Entry(r, i, j))
        BY MeaningIs
      <4>3. Meaning(s).at[<<i, j>>] = C(Datatype(s), Entry(s, i, j))
        BY <4>1, MeaningIs
      <4>4. QED
        BY <1>1, <4>2, <4>3
    <3>2. Entry(r, i, j) = r.data[j * r.rows + i]
      BY <1>1, PlainFacts
    <3>3. Entry(s, i, j) = s.data[j * r.rows + i]
      BY <1>1, <1>2, PlainFacts
    <3>4. QED
      BY <3>1, <3>2, <3>3
  <2>2. j * r.rows + i \in Indices(r.rows * r.cols)
    BY <1>3, PlaceOf
  <2>3. r.data[j * r.rows + i] \in Storable(T) /\ s.data[j * r.rows + i] \in Storable(T)
    BY <1>3, <2>2
  <2>4. C(T, r.data[j * r.rows + i]) = C(T, s.data[j * r.rows + i])
    BY <2>1
  <2>5. QED
    BY <2>3, <2>4, DifferentNumbersDiffer
<1>5. ASSUME NEW d \in Indices(r.rows * r.cols) PROVE r.data[d] = s.data[d]
  <2>1. \E i \in Indices(r.rows), j \in Indices(r.cols) : d = j * r.rows + i
    BY <1>3, EveryPlace
  <2>2. QED
    BY <1>4, <2>1
<1>6. r.data = s.data
  BY <1>3, <1>5
<1>7. /\ r = [class |-> r.class, rows |-> r.rows, cols |-> r.cols, data |-> r.data,
              colPtr |-> r.colPtr, rowIdx |-> r.rowIdx]
      /\ s = [class |-> s.class, rows |-> s.rows, cols |-> s.cols, data |-> s.data,
              colPtr |-> s.colPtr, rowIdx |-> s.rowIdx]
  BY DEF WellFormed
<1>8. QED
  BY <1>1, <1>2, <1>6, <1>7

(* Rows of numbers of T that show what a terminal holds.                   *)
RowsOf(a, t, T) ==
  /\ a = [i \in Indices(t.rows) |-> [j \in Indices(t.cols) |-> a[i][j]]]
  /\ \A i \in Indices(t.rows), j \in Indices(t.cols) :
       a[i][j] \in Storable(T) /\ C(T, a[i][j]) = Meaning(t).at[<<i, j>>]

LEMMA ReadBack ==
  ASSUME NEW T \in Arithmetic, NEW t, WellFormed(t), NEW a, RowsOf(a, t, T),
         NEW r, FullOf(r, t, T)
  PROVE  DenseFromRows(DenseClass(T), a, t.rows, t.cols) = r
<1> DEFINE rows == t.rows
           cols == t.cols
           data == [d \in Indices(rows * cols) |-> a[d % rows][d \div rows]]
           at == Meaning(t).at
           s == Dense(DenseClass(T), data, rows, cols)
<1>1. rows \in Nat \ {0} /\ cols \in Nat \ {0}
  BY DEF WellFormed
<1>2. Meaning(t) = Shape(rows, cols, at) /\ at = [ij \in Grid(rows, cols) |-> at[ij]]
  BY MeaningIs DEF Shape
<1>3. \A i \in Indices(rows), j \in Indices(cols) :
        a[i][j] \in Storable(T) /\ at[<<i, j>>] = C(T, a[i][j])
  BY DEF RowsOf
<1> HIDE DEF rows, cols, at
<1>4. ASSUME NEW i \in Indices(rows), NEW j \in Indices(cols)
      PROVE  data[j * rows + i] = a[i][j]
  <2>1. PICK d \in Indices(rows * cols) :
          d = j * rows + i /\ d % rows = i /\ d \div rows = j
    BY <1>1, PlaceOf
  <2>2. data[d] = a[d % rows][d \div rows]
    OBVIOUS
  <2> HIDE DEF data
  <2>3. QED
    BY <2>1, <2>2
<1>5. data \in [Indices(rows * cols) -> Storable(T)]
  <2>1. ASSUME NEW d \in Indices(rows * cols) PROVE data[d] \in Storable(T)
    <3>1. \E i \in Indices(rows), j \in Indices(cols) : d = j * rows + i
      BY <1>1, EveryPlace
    <3> HIDE DEF data
    <3>2. QED
      BY <1>3, <1>4, <3>1
  <2>2. QED
    BY <2>1
<1>6. DenseFromRows(DenseClass(T), a, t.rows, t.cols) = s
  BY DEF DenseFromRows, rows, cols
<1> HIDE DEF data
<1>7. \A i \in Indices(rows), j \in Indices(cols) : at[<<i, j>>] = C(T, data[j * rows + i])
  BY <1>3, <1>4
<1>8. Stores(s, T, data, rows, cols, at)
  BY <1>1, <1>2, <1>5, <1>7, StoresDense
<1>9. WellFormed(s) /\ s.class = DenseClass(T) /\ Meaning(s) = Meaning(t)
  BY <1>2, <1>8 DEF Stores
<1> HIDE DEF s
<1>10. WellFormed(r) /\ r.class = DenseClass(T) /\ Meaning(r) = Meaning(t)
  BY DEF FullOf, Shows
<1>11. s = r
  BY <1>9, <1>10, SameDense
<1>12. QED
  BY <1>6, <1>11

(* The entries of the matrix a terminal holds are among its data, or zero. *)
LEMMA EntriesAreStorable ==
  ASSUME NEW t, WellFormed(t), NEW i \in Indices(t.rows), NEW j \in Indices(t.cols)
  PROVE  Entry(t, i, j) \in Storable(Datatype(t))
<1>1. t.rows \in Nat \ {0} /\ t.cols \in Nat \ {0}
  BY DEF WellFormed
<1>2. j * t.rows + i \in Indices(t.rows * t.cols)
  BY <1>1, PlaceOf
<1>3. FullData(t) \in [Indices(t.rows * t.cols) -> Storable(Datatype(t))]
      /\ FullData(t)[j * t.rows + i] = Entry(t, i, j)
  BY FullDataIs
<1>4. QED
  BY <1>2, <1>3

(* Rows made entry by entry, as they are and as complex numbers.           *)
LEMMA EntriesInRows ==
  ASSUME NEW t, WellFormed(t), NEW a,
         a = [i \in Indices(t.rows) |-> [j \in Indices(t.cols) |-> Entry(t, i, j)]]
  PROVE  /\ RowsOf(a, t, Datatype(t))
         /\ IsReal(t) => RowsOf(RowsAsComplex(a), t, "complex16")
<1> DEFINE T == Datatype(t)
           b == RowsAsComplex(a)
<1>1. \A i \in Indices(t.rows), j \in Indices(t.cols) :
        a[i][j] \in Storable(T) /\ C(T, a[i][j]) = Meaning(t).at[<<i, j>>]
  BY EntriesAreStorable, MeaningIs
<1>2. RowsOf(a, t, T)
  BY <1>1 DEF RowsOf
<1>3. ASSUME IsReal(t) PROVE RowsOf(b, t, "complex16")
  <2>1. T = "real8"
    BY <1>3 DEF Datatype
  <2>2. b = [i \in Indices(t.rows) |-> [j \in Indices(t.cols) |-> ToComplex(a[i][j])]]
    BY DEF RowsAsComplex, AsComplex
  <2>3. \A i \in Indices(t.rows), j \in Indices(t.cols) : b[i][j] = ToComplex(a[i][j])
    BY <2>2
  <2>4. b = [i \in Indices(t.rows) |-> [j \in Indices(t.cols) |-> b[i][j]]]
    BY <2>2
  <2>5. \A x \in Storable("real8") :
          ToComplex(x) \in Storable("complex16") /\ C("complex16", ToComplex(x)) = C("real8", x)
    BY DEF Storable, ToComplex, C, Real8, P
  <2> HIDE DEF b, T
  <2>6. \A i \in Indices(t.rows), j \in Indices(t.cols) :
          b[i][j] \in Storable("complex16") /\ C("complex16", b[i][j]) = Meaning(t).at[<<i, j>>]
    BY <1>1, <2>1, <2>3, <2>5
  <2>7. QED
    BY <2>4, <2>6 DEF RowsOf
<1>4. QED
  BY <1>2, <1>3

LEMMA RowsAre ==
  ASSUME NEW t, WellFormed(t)
  PROVE  LET m == Methods(t)
         IN  /\ m.reals # NoRows => IsReal(t) /\ RowsOf(m.reals, t, "real8")
                                    /\ RowsOf(RowsAsComplex(m.reals), t, "complex16")
             /\ m.complexes # NoRows => RowsOf(m.complexes, t, "complex16")
             /\ t.class \in Results => m.complexes # NoRows
<1> DEFINE m == Methods(t)
           T == Datatype(t)
           rows == [i \in Indices(t.rows) |-> [j \in Indices(t.cols) |-> Entry(t, i, j)]]
           z == RowsAsComplex(rows)
<1>1. /\ T = "real8" \/ T = "complex16"
      /\ IsReal(t) <=> T = "real8"
      /\ RowsOf(rows, t, T)
      /\ IsReal(t) => RowsOf(z, t, "complex16")
  BY EntriesInRows, TypeOfData DEF Arithmetic
<1>2. rows # NoRows /\ z # NoRows
  <2>1. 0 \in Indices(t.rows)
    BY DEF WellFormed, Indices
  <2>2. 0 \in DOMAIN rows /\ 0 \in DOMAIN z /\ 0 \notin DOMAIN NoRows
    BY <2>1 DEF NoRows, RowsAsComplex
  <2>3. QED
    BY <2>2
<1>3. CASE t.class \in Scalars
  <2>1. ScalarRows(t) = rows
    <3>1. /\ t.rows = 1 /\ t.cols = 1 /\ Indices(1) = {0}
          /\ \A i, j : Entry(t, i, j) = t.data[0]
      BY <1>3, ScalarData, ByKind DEF Indices
    <3>2. QED
      BY <3>1 DEF ScalarRows
  <2> HIDE DEF rows
  <2>2. CASE t.class = "REAL_SCALAR"
    <3>1. m.reals = rows /\ m.complexes = z /\ IsReal(t)
      BY <2>1, <2>2 DEF Methods, RealScalar, IsReal, Reals
    <3>2. QED
      BY <1>1, <1>2, <3>1
  <2>3. CASE t.class = "COMPLEX_SCALAR"
    <3>1. m.reals = NoRows /\ m.complexes = rows /\ ~IsReal(t)
      BY <2>1, <2>3 DEF Methods, ComplexScalar, IsReal, Reals
    <3>2. QED
      BY <1>1, <1>2, <3>1
  <2>4. CASE t.class = "INTEGER_SCALAR"
    <3>1. m.reals = NoRows /\ m.complexes = NoRows /\ t.class \notin Results
      BY <2>4 DEF Methods, IntegerScalar, Results
    <3>2. QED
      BY <3>1
  <2>5. QED
    BY <1>3, <2>2, <2>3, <2>4 DEF Scalars
<1>4. CASE t.class \in Denses
  <2>1. DenseRows(t) = rows
    BY <1>4, ByKind DEF DenseRows
  <2> HIDE DEF rows
  <2>2. CASE t.class \in {"REAL_DENSE", "LOGICAL"}
    <3>1. m.reals = rows /\ m.complexes = z /\ IsReal(t)
      BY <2>1, <2>2 DEF Methods, RealDenseMatrix, IsReal, Reals
    <3>2. QED
      BY <1>1, <1>2, <3>1
  <2>3. CASE t.class = "COMPLEX_DENSE"
    <3>1. m.reals = NoRows /\ m.complexes = rows /\ ~IsReal(t)
      BY <2>1, <2>3 DEF Methods, ComplexDenseMatrix, IsReal, Reals
    <3>2. QED
      BY <1>1, <1>2, <3>1
  <2>4. QED
    BY <1>4, <2>2, <2>3 DEF Denses
<1>5. CASE t.class \in Diagonals
  <2>1. DiagonalRows(t, Zero(T)) = rows
    <3>1. \A i \in Indices(t.rows), j \in Indices(t.cols) :
            Entry(t, i, j) = IF i = j /\ i < Datalen(t) THEN t.data[i] ELSE Zero(T)
      <4>1. \A i \in Indices(t.rows), j \in Indices(t.cols) :
              /\ i = j => i \in Indices(Datalen(t))
              /\ Entry(t, i, j) = IF i = j THEN t.data[i] ELSE Zero(T)
        BY <1>5, DiagonalEntries, ByKind
      <4>2. \A i \in Indices(Datalen(t)) : i < Datalen(t)
        BY <1>5, ByKind DEF Indices, WellFormed
      <4> HIDE DEF T
      <4>3. QED
        BY <4>1, <4>2
    <3> HIDE DEF T
    <3>2. QED
      BY <3>1 DEF DiagonalRows
  <2> HIDE DEF rows
  <2>2. t.class \notin Results
    BY <1>5 DEF Diagonals, Results
  <2>3. CASE t.class = "REAL_DIAGONAL"
    <3>1. T = "real8" /\ Zero(T) = 0
      BY <2>3 DEF Datatype, IsReal, Reals, Zero
    <3>2. m.reals = rows /\ m.complexes = NoRows
      BY <2>1, <2>3, <3>1 DEF Methods, RealDiagonalMatrix
    <3>3. QED
      BY <1>1, <2>2, <3>1, <3>2
  <2>4. CASE t.class = "COMPLEX_DIAGONAL"
    <3>1. T = "complex16" /\ Zero(T) = <<0, 0>>
      BY <2>4 DEF Datatype, IsReal, Reals, Zero
    <3>2. m.reals = NoRows /\ m.complexes = rows
      BY <2>1, <2>4, <3>1 DEF Methods, ComplexDiagonalMatrix
    <3>3. QED
      BY <1>1, <2>2, <3>1, <3>2
  <2>5. QED
    BY <1>5, <2>3, <2>4 DEF Diagonals
<1>6. CASE t.class \in Sparses
  <2>1. SparseRows(t, Zero(T)) = rows
    <3>1. \A i \in Indices(t.rows), j \in Indices(t.cols) :
            Entry(t, i, j) =
              LET from == {k \in InColumn(t, j) : t.rowIdx[k] = i}
              IN  IF from = {} THEN Zero(T) ELSE t.data[Max(from)]
      BY <1>6, SparseEntry
    <3> HIDE DEF T
    <3>2. QED
      BY <3>1 DEF SparseRows
  <2> HIDE DEF rows
  <2>2. t.class \notin Results
    BY <1>6 DEF Sparses, Results
  <2>3. CASE t.class = "REAL_SPARSE"
    <3>1. T = "real8" /\ Zero(T) = 0
      BY <2>3 DEF Datatype, IsReal, Reals, Zero
    <3>2. m.reals = rows /\ m.complexes = NoRows
      BY <2>1, <2>3, <3>1 DEF Methods, RealSparseMatrix
    <3>3. QED
      BY <1>1, <2>2, <3>1, <3>2
  <2>4. CASE t.class = "COMPLEX_SPARSE"
    <3>1. T = "complex16" /\ Zero(T) = <<0, 0>>
      BY <2>4 DEF Datatype, IsReal, Reals, Zero
    <3>2. m.reals = NoRows /\ m.complexes = rows
      BY <2>1, <2>4, <3>1 DEF Methods, ComplexSparseMatrix
    <3>3. QED
      BY <1>1, <2>2, <3>1, <3>2
  <2>5. QED
    BY <1>6, <2>3, <2>4 DEF Sparses
<1>7. QED
  BY <1>3, <1>4, <1>5, <1>6 DEF WellFormed, Classes

LEMMA ShownIs ==
  ASSUME WellFormed(arg0), NEW a, RowsOf(a, arg0, "complex16")
  PROVE  ShownByRows(a) = Meaning(arg0)
<1> DEFINE at == Meaning(arg0).at
<1>1. \A i \in Indices(arg0.rows), j \in Indices(arg0.cols) : a[i][j] = at[<<i, j>>]
  BY DEF RowsOf, C
<1>2. /\ Meaning(arg0) = Shape(arg0.rows, arg0.cols, at)
      /\ at = [ij \in Grid(arg0.rows, arg0.cols) |-> at[ij]]
  BY MeaningIs DEF Shape
<1>3. ShownByRows(a) = Shape(arg0.rows, arg0.cols,
                             [ij \in Grid(arg0.rows, arg0.cols) |-> a[ij[1]][ij[2]]])
  BY DEF ShownByRows, Matrix, Shape, Grid
<1> HIDE DEF at
<1>4. ASSUME NEW ij \in Grid(arg0.rows, arg0.cols) PROVE a[ij[1]][ij[2]] = at[ij]
  <2>1. PICK i \in Indices(arg0.rows), j \in Indices(arg0.cols) : ij = <<i, j>>
    BY DEF Grid
  <2>2. ij[1] = i /\ ij[2] = j
    BY <2>1
  <2>3. QED
    BY <1>1, <2>1, <2>2
<1>5. [ij \in Grid(arg0.rows, arg0.cols) |-> a[ij[1]][ij[2]]] = at
  BY <1>2, <1>4
<1>6. QED
  BY <1>2, <1>3, <1>5

(* Everything a terminal can be handed out as holds the same matrix:       *)
(* copies, full matrices, rows of reals and of complex numbers             *)
(* (terminal.cc, convertto.cc).                                            *)
THEOREM AllViewsAgree == Spec => []ViewsAgree
<1>1. DispatchInv => ViewsAgree
  <2>1. SUFFICES ASSUME DispatchInv, arg0 # Throws PROVE ViewsAgree
    BY DEF ViewsAgree
  <2> DEFINE m == Methods(arg0)
  <2>2. /\ WellFormed(arg0) /\ denotes = Meaning(arg0)
        /\ computed => arg0.class \in Results
    BY <2>1 DEF DispatchInv, TypeOK, ValueIsDenoted
  <2>3. /\ "real8" \in Arithmetic /\ DenseClass("real8") = "REAL_DENSE"
        /\ "complex16" \in Arithmetic /\ DenseClass("complex16") = "COMPLEX_DENSE"
    BY DEF Arithmetic, DenseClass
  <2>4. ASSUME m.reals # NoRows
        PROVE  /\ ShownByRows(RowsAsComplex(m.reals)) = denotes
               /\ DenseFromRows("REAL_DENSE", m.reals, arg0.rows, arg0.cols) = m.fullReal
    <3>1. /\ IsReal(arg0) /\ RowsOf(m.reals, arg0, "real8")
          /\ RowsOf(RowsAsComplex(m.reals), arg0, "complex16")
      BY <2>2, <2>4, RowsAre
    <3>2. FullOf(m.fullReal, arg0, "real8")
      BY <2>2, <3>1, MethodsAre
    <3> HIDE DEF m
    <3>3. ShownByRows(RowsAsComplex(m.reals)) = denotes
      BY <2>2, <2>3, <3>1, ShownIs
    <3>4. DenseFromRows(DenseClass("real8"), m.reals, arg0.rows, arg0.cols) = m.fullReal
      BY <2>2, <2>3, <3>1, <3>2, ReadBack
    <3>5. QED
      BY <2>3, <3>3, <3>4
  <2>5. ASSUME m.complexes # NoRows
        PROVE  /\ ShownByRows(m.complexes) = denotes
               /\ DenseFromRows("COMPLEX_DENSE", m.complexes, arg0.rows, arg0.cols) = m.fullComplex
    <3>1. RowsOf(m.complexes, arg0, "complex16") /\ FullOf(m.fullComplex, arg0, "complex16")
      BY <2>2, <2>5, RowsAre, MethodsAre
    <3> HIDE DEF m
    <3>2. ShownByRows(m.complexes) = denotes
      BY <2>2, <2>3, <3>1, ShownIs
    <3>3. DenseFromRows(DenseClass("complex16"), m.complexes, arg0.rows, arg0.cols) = m.fullComplex
      BY <2>2, <2>3, <3>1, ReadBack
    <3>4. QED
      BY <2>3, <3>2, <3>3
  <2>6. computed => m.complexes # NoRows
    BY <2>2, RowsAre
  <2>7. QED
    BY <2>1, <2>4, <2>5, <2>6 DEF ViewsAgree
<1>2. QED
  BY <1>1, DispatchInvariant, PTL

-----------------------------------------------------------------------------
(* Equality.                                                               *)

(* Every datum of a sparse matrix is in a column: the one before the first *)
(* that begins after it.                                                   *)
LEMMA InSomeColumn ==
  ASSUME NEW t, WellFormed(t), t.class \in Sparses, NEW k \in Indices(Datalen(t))
  PROVE  \E j \in Indices(t.cols) : k \in InColumn(t, j)
<1>1. /\ t.cols \in Nat /\ t.colPtr \in [0 .. t.cols -> Nat] /\ t.colPtr[0] = 0
      /\ Datalen(t) = t.colPtr[t.cols]
  BY ByKind DEF WellFormed
<1>2. t.cols \in 0 .. t.cols /\ t.colPtr[t.cols] \in Nat /\ k \in Nat /\ k < t.colPtr[t.cols]
  <2>1. t.cols \in 0 .. t.cols /\ t.colPtr[t.cols] \in Nat
    BY <1>1
  <2>2. QED
    BY <1>1, <2>1 DEF Indices
<1> DEFINE After == {j \in 0 .. t.cols : k < t.colPtr[j]}
<1>3. PICK least \in After : \A q \in After : least <= q
  <2>1. After \in SUBSET Nat /\ After # {}
    BY <1>2
  <2> HIDE DEF After
  <2>2. QED
    BY <2>1, LeastNumber
<1>4. least \in 0 .. t.cols /\ k < t.colPtr[least] /\ least # 0
  BY <1>1, <1>2
<1>5. /\ least - 1 \in Indices(t.cols) /\ least - 1 \in 0 .. t.cols /\ least - 1 < least
      /\ least - 1 + 1 = least
  BY <1>1, <1>4 DEF Indices
<1>6. ~(k < t.colPtr[least - 1])
  BY <1>3, <1>5
<1>7. t.colPtr[least - 1] \in Nat /\ t.colPtr[least] \in Nat
  BY <1>1, <1>4, <1>5
<1>8. k \in t.colPtr[least - 1] .. t.colPtr[least] - 1
  BY <1>2, <1>4, <1>6, <1>7
<1>9. k \in InColumn(t, least - 1)
  BY <1>5, <1>8 DEF InColumn
<1>10. QED
  BY <1>5, <1>9

LEMMA EveryDatumIsAnEntry ==
  ASSUME NEW t, WellFormed(t), NEW k \in Indices(Datalen(t))
  PROVE  \E i \in Indices(t.rows), j \in Indices(t.cols) : Entry(t, i, j) = t.data[k]
<1>1. t.rows \in Nat \ {0} /\ t.cols \in Nat \ {0}
  BY DEF WellFormed
<1>2. CASE t.class \in Plain
  <2>1. k \in Indices(t.rows * t.cols)
    BY <1>2, PlainFacts
  <2>2. \E i \in Indices(t.rows), j \in Indices(t.cols) : k = j * t.rows + i
    BY <1>1, <2>1, EveryPlace
  <2>3. QED
    BY <1>2, <2>2, PlainFacts
<1>3. CASE t.class \in Diagonals
  <2>1. k \in Indices(t.rows) /\ k \in Indices(t.cols)
    BY <1>1, <1>3, ByKind DEF Indices
  <2>2. Entry(t, k, k) = t.data[k]
    BY <1>3, ByKind
  <2>3. QED
    BY <2>1, <2>2
<1>4. CASE t.class \in Sparses
  <2>1. PICK j \in Indices(t.cols) : k \in InColumn(t, j)
    BY <1>4, InSomeColumn
  <2>2. /\ t.rowIdx \in [Indices(Datalen(t)) -> Indices(t.rows)]
        /\ \A p, q \in InColumn(t, j) : p # q => t.rowIdx[p] # t.rowIdx[q]
    BY <1>4 DEF WellFormed
  <2>3. PICK i \in Indices(t.rows) : i = t.rowIdx[k]
    BY <2>2
  <2>4. (CHOOSE l \in InColumn(t, j) : t.rowIdx[l] = i) = k
    BY <2>1, <2>2, <2>3
  <2>5. Entry(t, i, j) = t.data[k]
    BY <1>4, <2>1, <2>3, <2>4, ByKind
  <2>6. QED
    BY <2>5
<1>5. QED
  BY <1>2, <1>3, <1>4 DEF WellFormed, Classes, Plain

(* A terminal is finite if what it means is.                               *)
LEMMA FiniteByMeaning ==
  ASSUME NEW t, WellFormed(t)
  PROVE  Finite(t) <=> \A i \in Indices(t.rows), j \in Indices(t.cols) :
                         Meaning(t).at[<<i, j>>] \in Complex16
<1> DEFINE T == Datatype(t)
<1>1. /\ T \in Arithmetic
      /\ t.data \in [Indices(Datalen(t)) -> Storable(T)]
      /\ Finite(t) <=> t.data \in [Indices(Datalen(t)) -> Number(T)]
      /\ t.rows \in Nat \ {0} /\ t.cols \in Nat \ {0}
  BY TypeOfData
<1>2. \A i \in Indices(t.rows), j \in Indices(t.cols) :
        /\ Meaning(t).at[<<i, j>>] = C(T, Entry(t, i, j))
        /\ Entry(t, i, j) \in Storable(T)
  BY MeaningIs, EntriesAreStorable
<1> HIDE DEF T
<1>3. \A x \in Storable(T) : C(T, x) \in Complex16 <=> x \in Number(T)
  <2>1. CASE T = "real8"
    BY <2>1 DEF Storable, C, ToComplex, Complex16, Number, Real8, P
  <2>2. CASE T = "complex16"
    BY <2>2 DEF C, Number
  <2>3. QED
    BY <1>1, <2>1, <2>2 DEF Arithmetic
<1>4. ASSUME Finite(t), NEW i \in Indices(t.rows), NEW j \in Indices(t.cols)
      PROVE  Meaning(t).at[<<i, j>>] \in Complex16
  <2>1. FullData(t) \in [Indices(t.rows * t.cols) -> Number(T)]
        /\ FullData(t)[j * t.rows + i] = Entry(t, i, j)
    BY <1>4, FullDataIs DEF T
  <2>2. j * t.rows + i \in Indices(t.rows * t.cols)
    BY <1>1, PlaceOf
  <2>3. Entry(t, i, j) \in Number(T)
    BY <2>1, <2>2
  <2>4. QED
    BY <1>2, <1>3, <2>3
<1>5. ASSUME \A i \in Indices(t.rows), j \in Indices(t.cols) : Meaning(t).at[<<i, j>>] \in Complex16
      PROVE  Finite(t)
  <2>1. ASSUME NEW k \in Indices(Datalen(t)) PROVE t.data[k] \in Number(T)
    <3>1. PICK i \in Indices(t.rows), j \in Indices(t.cols) : Entry(t, i, j) = t.data[k]
      BY EveryDatumIsAnEntry
    <3>2. Entry(t, i, j) \in Number(T)
      BY <1>2, <1>3, <1>5
    <3>3. QED
      BY <3>1, <3>2
  <2>2. QED
    BY <1>1, <2>1
<1>6. QED
  BY <1>4, <1>5

(* Of one type, with the same in every array.                              *)
Alike(t, u) ==
  /\ GetType(t) = GetType(u) /\ t.rows = u.rows /\ t.cols = u.cols
  /\ t.data = u.data /\ t.colPtr = u.colPtr /\ t.rowIdx = u.rowIdx

LEMMA OneTypeIsOneKind ==
  ASSUME NEW t, WellFormed(t), NEW u, WellFormed(u), GetType(t) = GetType(u)
  PROVE  OneKind(t.class, u.class) /\ Datatype(t) = Datatype(u) /\ (IsReal(t) <=> IsReal(u))
<1>1. t.class = u.class \/ {t.class, u.class} \subseteq {"REAL_DENSE", "LOGICAL"}
  BY DEF GetType
<1>2. OneKind(t.class, u.class)
  BY <1>1 DEF OneKind, Scalars, Denses, Diagonals, Sparses
<1>3. IsReal(t) <=> IsReal(u)
  BY <1>1 DEF IsReal, Reals
<1>4. QED
  BY <1>2, <1>3 DEF Datatype

LEMMA AlikeMeansTheSame ==
  ASSUME NEW t, WellFormed(t), NEW u, WellFormed(u), Alike(t, u)
  PROVE  Meaning(t) = Meaning(u) /\ (Finite(t) <=> Finite(u))
<1>1. /\ GetType(t) = GetType(u) /\ t.rows = u.rows /\ t.cols = u.cols
      /\ t.data = u.data /\ t.colPtr = u.colPtr /\ t.rowIdx = u.rowIdx
  BY DEF Alike
<1>2. OneKind(t.class, u.class) /\ Datatype(t) = Datatype(u)
  BY <1>1, OneTypeIsOneKind
<1>3. \A i, j : Entry(t, i, j) = Entry(u, i, j)
  <2>1. CASE t.class \in Scalars
    BY <1>1, <1>2, <2>1, ByKind DEF OneKind
  <2>2. CASE t.class \in Denses
    BY <1>1, <1>2, <2>2, ByKind DEF OneKind
  <2>3. CASE t.class \in Diagonals
    BY <1>1, <1>2, <2>3, ByKind DEF OneKind
  <2>4. CASE t.class \in Sparses
    <3>1. u.class \in Sparses
      BY <1>2, <2>4 DEF OneKind
    <3>2. \A j : InColumn(t, j) = InColumn(u, j)
      BY <1>1 DEF InColumn
    <3>3. QED
      BY <1>1, <1>2, <2>4, <3>1, <3>2, ByKind
  <2>5. QED
    BY <2>1, <2>2, <2>3, <2>4 DEF WellFormed, Classes
<1>4. /\ Meaning(t) = Shape(t.rows, t.cols, [ij \in Grid(t.rows, t.cols) |->
                                               C(Datatype(t), Entry(t, ij[1], ij[2]))])
      /\ Meaning(u) = Shape(u.rows, u.cols, [ij \in Grid(u.rows, u.cols) |->
                                               C(Datatype(u), Entry(u, ij[1], ij[2]))])
  BY MeaningIs
<1>5. Meaning(t) = Meaning(u)
  BY <1>1, <1>2, <1>3, <1>4
<1>6. QED
  BY <1>1, <1>2, <1>5 DEF Finite

(* Comparing arrays that are as long as what they are compared over.       *)
LEMMA ArraysOfOneLength ==
  ASSUME NEW T, NEW n, NEW a, NEW b, NEW x, DOMAIN a = Indices(n), DOMAIN b = Indices(n),
         a = [k \in Indices(n) |-> a[k]], b = [k \in Indices(n) |-> b[k]]
  PROVE  /\ ArrayBitEquals(a, b, n, x) <=> a = b
         /\ ArrayFuzzyEquals(T, a, b, n, x) <=> a = b /\ \A k \in Indices(n) : ~HasNaN(T, b[k])
<1>1. \A k \in Indices(n) : ReadAt(a, k, x) = a[k]
  BY DEF ReadAt
<1>2. ArrayBitEquals(a, b, n, x) <=> \A k \in Indices(n) : a[k] = b[k]
  BY <1>1 DEF ArrayBitEquals
<1>3. ArrayFuzzyEquals(T, a, b, n, x) <=>
        \A k \in Indices(n) : a[k] = b[k] /\ ~HasNaN(T, b[k])
  BY <1>1 DEF ArrayFuzzyEquals, SingleValueFuzzyEquals
<1>4. a = b <=> \A k \in Indices(n) : a[k] = b[k]
  OBVIOUS
<1>5. QED
  BY <1>2, <1>3, <1>4

(* The pattern of a sparse matrix is compared over lengths that are those  *)
(* of the other as soon as it is the same.                                 *)
LEMMA PatternsAre ==
  ASSUME NEW t, WellFormed(t), NEW u, WellFormed(u), t.cols = u.cols,
         t.class \in Sparses, u.class \in Sparses
  PROVE  SamePattern(t, u) <=> t.colPtr = u.colPtr /\ t.rowIdx = u.rowIdx
<1>1. /\ Indices(t.cols + 1) = 0 .. t.cols
      /\ t.colPtr \in [0 .. t.cols -> Nat] /\ u.colPtr \in [0 .. t.cols -> Nat]
      /\ t.rowIdx \in [Indices(Datalen(t)) -> Indices(t.rows)]
      /\ u.rowIdx \in [Indices(Datalen(u)) -> Indices(u.rows)]
  BY DEF WellFormed, Indices
<1>2. ArrayBitEquals(u.colPtr, t.colPtr, t.cols + 1, 0) <=> t.colPtr = u.colPtr
  <2> DEFINE n == t.cols + 1
             a == u.colPtr
             b == t.colPtr
  <2>1. /\ DOMAIN a = Indices(n) /\ a = [k \in Indices(n) |-> a[k]]
        /\ DOMAIN b = Indices(n) /\ b = [k \in Indices(n) |-> b[k]]
    BY <1>1
  <2> HIDE DEF n, a, b
  <2>2. ArrayBitEquals(a, b, n, 0) <=> a = b
    BY <2>1, ArraysOfOneLength
  <2>3. QED
    BY <2>2 DEF n, a, b
<1>3. t.colPtr = u.colPtr =>
        (ArrayBitEquals(u.rowIdx, t.rowIdx, Datalen(t), 0) <=> t.rowIdx = u.rowIdx)
  <2> DEFINE n == Datalen(t)
             a == u.rowIdx
             b == t.rowIdx
  <2>1. SUFFICES ASSUME t.colPtr = u.colPtr PROVE ArrayBitEquals(a, b, n, 0) <=> a = b
    BY DEF n, a, b
  <2>2. Datalen(t) = Datalen(u)
    BY <2>1, ByKind
  <2>3. /\ DOMAIN a = Indices(n) /\ a = [k \in Indices(n) |-> a[k]]
        /\ DOMAIN b = Indices(n) /\ b = [k \in Indices(n) |-> b[k]]
    BY <1>1, <2>2
  <2> HIDE DEF n, a, b
  <2>4. QED
    BY <2>3, ArraysOfOneLength
<1>4. QED
  BY <1>2, <1>3 DEF SamePattern

LEMMA ComparingIs ==
  ASSUME NEW t, WellFormed(t), NEW u, WellFormed(u), NEW x
  PROVE  /\ Equals(t, u, x) <=> Alike(t, u) /\ (t.class \in Scalars => Finite(t))
         /\ FuzzyEquals(t, u, x) <=> Alike(t, u) /\ Finite(t)
<1> DEFINE T == Datatype(t)
<1>1. /\ DOMAIN t.data = Indices(Datalen(t)) /\ t.data = [k \in Indices(Datalen(t)) |-> t.data[k]]
      /\ DOMAIN u.data = Indices(Datalen(u)) /\ u.data = [k \in Indices(Datalen(u)) |-> u.data[k]]
  BY DEF WellFormed
<1>2. Finite(t) <=> \A k \in Indices(Datalen(t)) : ~HasNaN(T, t.data[k])
  BY <1>1 DEF Finite
<1>3. CASE GetType(t) # GetType(u)
  BY <1>3 DEF Equals, FuzzyEquals, Alike, FundamentalsEqual
<1>4. CASE GetType(t) = GetType(u) /\ t.class \in Scalars
  <2>1. u.class \in Scalars
    BY <1>4, OneTypeIsOneKind DEF OneKind
  <2>2. /\ t.rows = 1 /\ t.cols = 1 /\ t.colPtr = None /\ t.rowIdx = None
        /\ DOMAIN t.data = {0} /\ t.data = [k \in {0} |-> t.data[0]]
        /\ u.rows = 1 /\ u.cols = 1 /\ u.colPtr = None /\ u.rowIdx = None
        /\ DOMAIN u.data = {0} /\ u.data = [k \in {0} |-> u.data[0]]
    BY <1>4, <2>1, ScalarData
  <2>3. Alike(t, u) <=> t.data[0] = u.data[0]
    BY <1>4, <2>2 DEF Alike
  <2>4. Finite(t) <=> ~HasNaN(T, t.data[0])
    BY <2>2 DEF Finite
  <2>5. /\ Equals(t, u, x) <=> SingleValueFuzzyEquals(T, u.data[0], t.data[0])
        /\ FuzzyEquals(t, u, x) <=> SingleValueFuzzyEquals(T, u.data[0], t.data[0])
    BY <1>4 DEF Equals, FuzzyEquals
  <2> HIDE DEF T
  <2>6. QED
    BY <1>4, <2>3, <2>4, <2>5 DEF SingleValueFuzzyEquals
<1>5. CASE GetType(t) = GetType(u) /\ t.class \notin Scalars /\ ~(t.rows = u.rows /\ t.cols = u.cols)
  BY <1>5 DEF Equals, FuzzyEquals, Alike, FundamentalsEqual
<1>6. CASE GetType(t) = GetType(u) /\ t.class \notin Scalars /\ t.rows = u.rows /\ t.cols = u.cols
  <2> DEFINE pattern == t.class \in Sparses => SamePattern(t, u)
             bits == ArrayBitEquals(u.data, t.data, Datalen(t), x)
             fuzzy == ArrayFuzzyEquals(T, u.data, t.data, Datalen(t), x)
  <2>1. OneKind(t.class, u.class)
    BY <1>6, OneTypeIsOneKind
  <2>2. pattern <=> t.colPtr = u.colPtr /\ t.rowIdx = u.rowIdx
    <3>1. CASE t.class \in Sparses
      BY <1>6, <2>1, <3>1, PatternsAre DEF OneKind
    <3>2. CASE t.class \notin Sparses
      BY <2>1, <3>2 DEF OneKind, WellFormed
    <3>3. QED
      BY <3>1, <3>2
  <2>3. pattern => Datalen(t) = Datalen(u)
    <3>1. SUFFICES ASSUME pattern PROVE Datalen(t) = Datalen(u)
      OBVIOUS
    <3>2. t.colPtr = u.colPtr
      BY <2>2, <3>1
    <3> HIDE DEF pattern
    <3>3. CASE t.class \in Denses
      BY <1>6, <2>1, <3>3, ByKind DEF OneKind
    <3>4. CASE t.class \in Diagonals
      BY <1>6, <2>1, <3>4, ByKind DEF OneKind
    <3>5. CASE t.class \in Sparses
      BY <1>6, <2>1, <3>2, <3>5, ByKind DEF OneKind
    <3>6. QED
      BY <1>6, <3>3, <3>4, <3>5 DEF WellFormed, Classes
  <2> HIDE DEF pattern
  <2>4. pattern => (bits <=> t.data = u.data) /\ (fuzzy <=> t.data = u.data /\ Finite(t))
    <3>1. SUFFICES ASSUME pattern
                   PROVE  /\ bits <=> u.data = t.data
                          /\ fuzzy <=> u.data = t.data /\ Finite(t)
      OBVIOUS
    <3>2. DOMAIN u.data = Indices(Datalen(t)) /\ u.data = [k \in Indices(Datalen(t)) |-> u.data[k]]
      BY <1>1, <2>3, <3>1
    <3> HIDE DEF T
    <3>3. QED
      BY <1>1, <1>2, <3>2, ArraysOfOneLength
  <2>5. Alike(t, u) <=> t.data = u.data /\ pattern
    BY <1>6, <2>2 DEF Alike
  <2>6. (Equals(t, u, x) <=> bits /\ pattern) /\ (FuzzyEquals(t, u, x) <=> fuzzy /\ pattern)
    BY <1>6 DEF Equals, FuzzyEquals, FundamentalsEqual, pattern
  <2> HIDE DEF bits, fuzzy
  <2>7. QED
    BY <1>6, <2>4, <2>5, <2>6
<1>7. QED
  BY <1>3, <1>4, <1>5, <1>6

LEMMA MathsEqualsIs ==
  ASSUME NEW t, WellFormed(t), NEW u, WellFormed(u)
  PROVE  MathsEquals(t, u) <=> Meaning(t) = Meaning(u) /\ Finite(t)
<1>1. CASE ~(t.rows = u.rows /\ t.cols = u.cols)
  <2>1. Meaning(t) # Meaning(u)
    BY <1>1, MeaningIs
  <2>2. QED
    BY <1>1, <2>1 DEF MathsEquals
<1>2. CASE t.rows = u.rows /\ t.cols = u.cols
  <2>1. ASSUME NEW T \in Arithmetic, NEW r, NEW s, FullOf(r, t, T), FullOf(s, u, T)
        PROVE  FuzzyEquals(r, s, NaN) <=> Meaning(t) = Meaning(u) /\ Finite(t)
    <3>1. /\ WellFormed(r) /\ r.class = DenseClass(T) /\ Meaning(r) = Meaning(t)
          /\ WellFormed(s) /\ s.class = DenseClass(T) /\ Meaning(s) = Meaning(u)
      BY <2>1 DEF FullOf, Shows
    <3>2. Finite(r) <=> Finite(t)
      <4>1. r.rows = t.rows /\ r.cols = t.cols
        BY <3>1, MeaningIs
      <4>2. Finite(r) <=> \A i \in Indices(r.rows), j \in Indices(r.cols) :
                            Meaning(r).at[<<i, j>>] \in Complex16
        BY <3>1, FiniteByMeaning
      <4>3. Finite(t) <=> \A i \in Indices(t.rows), j \in Indices(t.cols) :
                            Meaning(t).at[<<i, j>>] \in Complex16
        BY FiniteByMeaning
      <4>4. QED
        BY <3>1, <4>1, <4>2, <4>3
    <3>3. Alike(r, s) <=> Meaning(r) = Meaning(s)
      <4>1. Alike(r, s) => Meaning(r) = Meaning(s)
        BY <3>1, AlikeMeansTheSame
      <4>2. Meaning(r) = Meaning(s) => r = s
        BY <3>1, SameDense
      <4>3. r = s => Alike(r, s)
        BY DEF Alike
      <4>4. QED
        BY <4>1, <4>2, <4>3
    <3>4. FuzzyEquals(r, s, NaN) <=> Alike(r, s) /\ Finite(r)
      BY <3>1, ComparingIs
    <3>5. QED
      BY <3>1, <3>2, <3>3, <3>4
  <2>2. "real8" \in Arithmetic /\ "complex16" \in Arithmetic
    BY DEF Arithmetic
  <2>3. CASE IsReal(t) /\ IsReal(u)
    <3>1. FullOf(Methods(t).fullReal, t, "real8") /\ FullOf(Methods(u).fullReal, u, "real8")
      BY <2>3, MethodsAre
    <3>2. FuzzyEquals(Methods(t).fullReal, Methods(u).fullReal, NaN)
            <=> Meaning(t) = Meaning(u) /\ Finite(t)
      BY <2>1, <2>2, <3>1
    <3>3. QED
      BY <1>2, <2>3, <3>2 DEF MathsEquals
  <2>4. CASE ~(IsReal(t) /\ IsReal(u))
    <3>1. /\ FullOf(Methods(t).fullComplex, t, "complex16")
          /\ FullOf(Methods(u).fullComplex, u, "complex16")
      BY MethodsAre
    <3>2. FuzzyEquals(Methods(t).fullComplex, Methods(u).fullComplex, NaN)
            <=> Meaning(t) = Meaning(u) /\ Finite(t)
      BY <2>1, <2>2, <3>1
    <3>3. QED
      BY <1>2, <2>4, <3>2 DEF MathsEquals
  <2>5. QED
    BY <2>3, <2>4
<1>3. QED
  BY <1>1, <1>2

(* The three equalities (terminal.cc) are symmetric; what the first two    *)
(* call equal is the same matrix, whatever is read past the end of an      *)
(* array; and mathsequals says exactly that of matrices of numbers.        *)
THEOREM EqualityIsAlwaysSound == Spec => []EqualityIsSound
<1>1. DispatchInv => EqualityIsSound
  <2>1. SUFFICES ASSUME DispatchInv, arg0 # Throws PROVE EqualityIsSound
    BY DEF EqualityIsSound
  <2>2. WellFormed(arg0) /\ WellFormed(arg1)
    BY <2>1, DispatchAssumption DEF DispatchInv, TypeOK
  <2> DEFINE same == Meaning(arg0) = Meaning(arg1)
             finite == Finite(arg0)
  <2>3. /\ Alike(arg0, arg1) <=> Alike(arg1, arg0)
        /\ Alike(arg0, arg1) => same /\ (Finite(arg0) <=> Finite(arg1))
        /\ Alike(arg0, arg1) => (arg0.class \in Scalars <=> arg1.class \in Scalars)
    <3>1. Alike(arg0, arg1) <=> Alike(arg1, arg0)
      BY DEF Alike
    <3>2. Alike(arg0, arg1) => same /\ (Finite(arg0) <=> Finite(arg1))
      BY <2>2, AlikeMeansTheSame
    <3>3. Alike(arg0, arg1) => (arg0.class \in Scalars <=> arg1.class \in Scalars)
      BY <2>2, OneTypeIsOneKind DEF Alike, OneKind
    <3>4. QED
      BY <3>1, <3>2, <3>3
  <2>4. MathsEquals(arg0, arg1) <=> same /\ finite
    BY <2>2, MathsEqualsIs
  <2>5. ASSUME NEW x \in Beyond(arg0), NEW y \in Beyond(arg1)
        PROVE  /\ Equals(arg0, arg1, x) = Equals(arg1, arg0, y)
               /\ FuzzyEquals(arg0, arg1, x) = FuzzyEquals(arg1, arg0, y)
               /\ Equals(arg0, arg1, x) => same /\ (finite => FuzzyEquals(arg0, arg1, x))
               /\ FuzzyEquals(arg0, arg1, x) => MathsEquals(arg0, arg1)
               /\ MathsEquals(arg0, arg1) <=> same /\ finite
    <3>1. /\ Equals(arg0, arg1, x) <=> Alike(arg0, arg1) /\ (arg0.class \in Scalars => Finite(arg0))
          /\ FuzzyEquals(arg0, arg1, x) <=> Alike(arg0, arg1) /\ Finite(arg0)
          /\ Equals(arg1, arg0, y) <=> Alike(arg1, arg0) /\ (arg1.class \in Scalars => Finite(arg1))
          /\ FuzzyEquals(arg1, arg0, y) <=> Alike(arg1, arg0) /\ Finite(arg1)
      BY <2>2, ComparingIs
    <3>2. Equals(arg0, arg1, x) <=> Equals(arg1, arg0, y)
      BY <2>3, <3>1
    <3>3. FuzzyEquals(arg0, arg1, x) <=> FuzzyEquals(arg1, arg0, y)
      BY <2>3, <3>1
    <3>4. /\ Equals(arg0, arg1, x) \in BOOLEAN /\ Equals(arg1, arg0, y) \in BOOLEAN
          /\ FuzzyEquals(arg0, arg1, x) \in BOOLEAN /\ FuzzyEquals(arg1, arg0, y) \in BOOLEAN
      BY DEF Equals, FuzzyEquals, SingleValueFuzzyEquals, FundamentalsEqual
    <3>5. QED
      BY <2>3, <2>4, <3>1, <3>2, <3>3, <3>4
  <2>6. QED
    BY <2>5 DEF EqualityIsSound
<1>2. QED
  BY <1>1, DispatchInvariant, PTL
=============================================================================
