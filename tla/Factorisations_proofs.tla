------------------------ MODULE Factorisations_proofs ------------------------
(***************************************************************************)
(* Proofs about Factorisations, for arguments of every shape and singular  *)
(* values of every size.                                                   *)
(***************************************************************************)
EXTENDS Factorisations, TLAPS

-----------------------------------------------------------------------------
(* Facts about the state that most steps use.                              *)
LEMMA ArgFacts ==
  ASSUME NEW a \in Arg
  PROVE  /\ a.rows \in Dim /\ a.cols \in Dim /\ a.rows \in Nat /\ a.cols \in Nat
         /\ a.scalar \in BOOLEAN /\ a.finite \in BOOLEAN /\ a.negative \in BOOLEAN
         /\ MinMN(a) \in 1..MaxDim
         /\ a.sv \in [0..MinMN(a) - 1 -> 0..MaxValue]
         /\ DOMAIN a.sv = 0..MinMN(a) - 1
         /\ \A k, l \in 0..MinMN(a) - 1 : k <= l => a.sv[k] >= a.sv[l]
         /\ a.scalar => a.rows = 1 /\ a.cols = 1
         /\ a.negative => a.scalar
<1>1. /\ a.rows \in Dim /\ a.cols \in Dim
      /\ a.scalar \in BOOLEAN /\ a.finite \in BOOLEAN /\ a.negative \in BOOLEAN
      /\ a.scalar => a.rows = 1 /\ a.cols = 1
      /\ a.negative => a.scalar
  BY DEF Arg
<1>2. MinMN(a) \in 1..MaxDim
  BY <1>1, DimAssumption, ValuesAssumption DEF Dim, MinMN
<1>3. a.sv \in [0..MinMN(a) - 1 -> 0..MaxValue] /\ Descending(a.sv)
  BY DEF Arg, Values
<1>4. DOMAIN a.sv = 0..MinMN(a) - 1
  BY <1>3
<1>5. \A k, l \in 0..MinMN(a) - 1 : k <= l => a.sv[k] >= a.sv[l]
  BY <1>3, <1>4 DEF Descending
<1>6. QED
  BY <1>1, <1>2, <1>3, <1>4, <1>5, DimAssumption, ValuesAssumption DEF Dim

LEMMA OneIsADim == 1 \in Dim
BY DimAssumption, ValuesAssumption DEF Dim

LEMMA Fractions ==
  /\ <<0, 1>> \in Fraction
  /\ \A v \in 0..MaxValue : <<v, 1>> \in Fraction
  /\ \A v \in -MaxValue..MaxValue : <<v, 1>> \in Fraction
  /\ \A f \in Fraction : <<f[2], f[1]>> \in Fraction
BY DimAssumption, ValuesAssumption DEF Fraction

(* What a runner that pushes one register, or the SVD's three, leaves.     *)
LEMMA OneRegister ==
  ASSUME reg = <<>>, NEW x, Answer(<<x>>)
  PROVE  stage' = "returned" /\ reg' = <<x>> /\ Len(reg') = 1 /\ reg'[1] = x
<1>1. <<>> \o <<x>> = <<x>>
  OBVIOUS
<1>2. QED
  BY <1>1 DEF Answer

LEMMA ThreeRegisters ==
  ASSUME reg = <<>>, NEW x, NEW y, NEW z, Answer(<<x, y, z>>)
  PROVE  /\ stage' = "returned" /\ reg' = <<x, y, z>> /\ Len(reg') = 3
         /\ reg'[1] = x /\ reg'[2] = y /\ reg'[3] = z
<1>1. <<>> \o <<x, y, z>> = <<x, y, z>>
  OBVIOUS
<1>2. QED
  BY <1>1 DEF Answer

(* Once a runner has answered, the loops claim nothing.                    *)
LEMMA AnsweredInv ==
  ASSUME stage' = "returned", FactTypeOK'
  PROVE  FactInv'
BY DEF FactInv, PlaceInv, LoopInv, InPinv

(* The handlers of the runners catch only what the wrappers call           *)
(* recoverable, and that is only thrown about finite data.                 *)
LEMMA HandlersCatch ==
  ASSUME NEW finite \in BOOLEAN, NEW a \in [query : {-1, 0}, final : {-1, 0, 1}]
  PROVE  /\ xgesvd(finite, a) = "returns" \/ Swallowed(xgesvd(finite, a)) => finite
         /\ xgetrf(finite, a) = "returns" \/ Swallowed(xgetrf(finite, a)) => finite
BY DEF Swallowed, Clause, Catches, xgesvd, xgetrf, checkData

LEMMA InfoIsKnown ==
  ASSUME NEW routine, NEW a \in Answers(routine)
  PROVE  /\ Info(a) \in {-1, 0, 1}
         /\ a \in [query : {-1, 0}, final : {-1, 0, 1}]
BY DEF Answers, Info

(* A singular value is kept if a larger one is not dropped.                *)
LEMMA KeptFromTheFront ==
  ASSUME arg \in Arg, NEW k \in DOMAIN arg.sv, NEW l \in DOMAIN arg.sv,
         k <= l, Kept(l)
  PROVE  Kept(k)
<1>1. arg.sv[k] >= arg.sv[l] /\ arg.sv[k] \in Int /\ arg.sv[l] \in Int
  <2>1. k \in 0..MinMN(arg) - 1 /\ l \in 0..MinMN(arg) - 1
    BY ArgFacts
  <2>2. arg.sv[k] >= arg.sv[l]
    BY <2>1, ArgFacts
  <2>3. arg.sv[k] \in 0..MaxValue /\ arg.sv[l] \in 0..MaxValue
    BY <2>1, ArgFacts
  <2>4. QED
    BY <2>2, <2>3
<1>2. Threshold(arg.sv[0]) \in Int
  BY ArgFacts DEF Threshold
<1>3. QED
  BY <1>1, <1>2 DEF Kept

(* The walk compares with the threshold what it should.                    *)
LEMMA WalkSeesKept ==
  ASSUME arg \in Arg, S = SingularValues, NEW k \in DOMAIN arg.sv
  PROVE  AboveThreshold(S[k]) <=> Kept(k)
<1>1. S[k] = <<arg.sv[k], 1>> /\ S[0] = <<arg.sv[0], 1>>
  BY ArgFacts DEF SingularValues
<1>2. arg.sv[k] \in 0..MaxValue
  BY ArgFacts
<1>3. QED
  BY <1>1, <1>2, DimAssumption, ValuesAssumption DEF AboveThreshold, AbsOf, Kept

-----------------------------------------------------------------------------
(* The three invariants are of states that have answered or thrown, and no *)
(* step leads on from there: they are carried with the inductive one.      *)
Good == FactInv /\ AnswerHasTheShape /\ NonFiniteIsRefused /\ WrongIsPrintedOrKnown

(* A step that does not end the run owes nothing to the three.             *)
LEMMA GoingOn ==
  ASSUME FactInv', stage' \notin Ended
  PROVE  Good'
BY DEF Good, AnswerHasTheShape, NonFiniteIsRefused, WrongIsPrintedOrKnown, Ended

LEMMA InitGood == FactInit => Good
<1>1. SUFFICES ASSUME FactInit PROVE Good
  OBVIOUS
<1>2. FactTypeOK
  <2>1. MinMN(arg) \in 1..MaxDim
    BY <1>1, ArgFacts DEF FactInit
  <2>2. lim \in -1..MinMN(arg) /\ next \in 0..MinMN(arg)
    BY <1>1, <2>1, DimAssumption, ValuesAssumption DEF FactInit
  <2>3. S \in [0..MinMN(arg) - 1 -> Fraction]
    BY <1>1, Fractions DEF FactInit
  <2>4. \A r \in 1..Len(reg) : reg[r].rows \in Dim /\ reg[r].cols \in Dim
    BY <1>1 DEF FactInit
  <2>5. QED
    BY <1>1, <2>2, <2>3, <2>4 DEF FactInit, FactTypeOK
<1>3. PlaceInv
  <2>1. MinMN(arg) \in 1..MaxDim
    BY <1>1, ArgFacts DEF FactInit
  <2>2. lim = MinMN(arg) - 1
    BY <1>1 DEF FactInit
  <2>3. QED
    BY <1>1, <2>2 DEF FactInit, PlaceInv, InPinv
<1>4. QED
  BY <1>1, <1>2, <1>3
     DEF FactInit, Good, FactInv, LoopInv, AnswerHasTheShape, NonFiniteIsRefused,
         WrongIsPrintedOrKnown

(* A step that throws, having pushed nothing.                              *)
LEMMA ThrownGood ==
  ASSUME FactInv, stage # "returned", stage' = "thrown", reported' \in {-1, 0, 1},
         printed' = printed, reg' = reg, UNCHANGED <<node, arg, work, S, lim, next>>
  PROVE  Good'
<1>1. reg = <<>> /\ FactTypeOK
  BY DEF FactInv, PlaceInv
<1>2. FactTypeOK'
  BY <1>1 DEF FactTypeOK, Ended, MinMN
<1>3. FactInv'
  BY <1>1, <1>2 DEF FactInv, PlaceInv, LoopInv, InPinv
<1>4. QED
  BY <1>1, <1>3
     DEF Good, AnswerHasTheShape, NonFiniteIsRefused, WrongIsPrintedOrKnown

(* A step that answers with one register.                                  *)
LEMMA AnsweredOne ==
  ASSUME FactInv, stage # "returned", UNCHANGED <<node, arg, S, lim, next>>,
         NEW x, Answer(<<x>>), x.rows \in Dim, x.cols \in Dim,
         reported' \in {-1, 0, 1}, work' \in {"A", "factors", "inverse", "wrong"},
         printed' \in BOOLEAN, node # "SVD",
         node # "NORM2" => x.rows = arg.cols /\ x.cols = arg.rows,
         ~arg.finite => OneByOne \/ (node = "NORM2" /\ IsVector),
         arg.finite /\ ~printed' => Promised' \/ LostToRounding'
  PROVE  Good'
<1>1. reg = <<>> /\ FactTypeOK
  BY DEF FactInv, PlaceInv
<1>2. stage' = "returned" /\ Len(reg') = 1 /\ reg'[1] = x
  BY <1>1, OneRegister
<1>3. \A r \in 1..Len(reg') : reg'[r].rows \in Dim /\ reg'[r].cols \in Dim
  BY <1>2
<1>4. FactTypeOK'
  BY <1>1, <1>2, <1>3 DEF FactTypeOK, Ended, MinMN
<1>5. FactInv'
  BY <1>2, <1>4, AnsweredInv
<1>6. AnswerHasTheShape'
  BY <1>2 DEF AnswerHasTheShape
<1>7. NonFiniteIsRefused'
  BY <1>2 DEF NonFiniteIsRefused, OneByOne, IsVector
<1>8. WrongIsPrintedOrKnown'
  BY DEF WrongIsPrintedOrKnown
<1>9. QED
  BY <1>5, <1>6, <1>7, <1>8 DEF Good

(* The same for the three registers of an SVD.                             *)
LEMMA AnsweredThree ==
  ASSUME FactInv, stage # "returned", node = "SVD",
         UNCHANGED <<node, arg, reported, work, S, lim, next, printed>>,
         NEW x, NEW y, NEW z, Answer(<<x, y, z>>),
         x.rows = arg.rows, x.cols \in Dim, x.cols = y.rows, y.cols = z.rows,
         z.cols = arg.cols, y.cols \in Dim,
         ~arg.finite => OneByOne /\ arg.scalar,
         arg.finite /\ ~printed /\ ~arg.negative => y.diag = SingularValues
  PROVE  Good'
<1>1. reg = <<>> /\ FactTypeOK
  BY DEF FactInv, PlaceInv
<1>2. arg.rows \in Dim /\ arg.cols \in Dim
  BY <1>1, ArgFacts DEF FactTypeOK
<1>3. /\ stage' = "returned" /\ Len(reg') = 3
      /\ reg'[1] = x /\ reg'[2] = y /\ reg'[3] = z
  BY <1>1, ThreeRegisters
<1>4. \A r \in 1..Len(reg') : reg'[r].rows \in Dim /\ reg'[r].cols \in Dim
  BY <1>2, <1>3
<1>5. FactTypeOK'
  BY <1>1, <1>3, <1>4 DEF FactTypeOK, Ended, MinMN
<1>6. FactInv'
  BY <1>3, <1>5, AnsweredInv
<1>7. AnswerHasTheShape'
  BY <1>3 DEF AnswerHasTheShape
<1>8. NonFiniteIsRefused'
  BY <1>3 DEF NonFiniteIsRefused, OneByOne, IsVector
<1>9. WrongIsPrintedOrKnown'
  BY <1>3 DEF WrongIsPrintedOrKnown, Promised, SingularValues
<1>10. QED
  BY <1>6, <1>7, <1>8, <1>9 DEF Good

-----------------------------------------------------------------------------
(* The answers that need no LAPACK.                                        *)
LEMMA NumberShape ==
  ASSUME NEW w
  PROVE  /\ Number(w).rows = 1 /\ Number(w).cols = 1 /\ Number(w).what = w
         /\ Number(w).rows \in Dim /\ Number(w).cols \in Dim
BY OneIsADim DEF Number, Item

LEMMA ReciprocalGood == ASSUME FactInv, Reciprocal PROVE Good'
<1> DEFINE w == IF ~AllZero THEN "1/x" ELSE IF node = "INV" THEN "Inf" ELSE "0"
<1>1. /\ stage = "start" /\ node \in {"INV", "PINV"} /\ OneByOne
      /\ Answer(<<Number(w)>>) /\ printed' = (AllZero /\ node = "INV")
      /\ UNCHANGED <<node, arg, reported, work, S, lim, next>>
  BY DEF Reciprocal
<1>2. reg = <<>> /\ FactTypeOK
  BY <1>1 DEF FactInv, PlaceInv
<1>3. reg'[1].what = w
  BY <1>1, <1>2, OneRegister, NumberShape
<1>4. arg.finite /\ ~printed' => Promised'
  BY <1>1, <1>3 DEF Promised, AllZero
<1>5. printed' \in BOOLEAN
  BY <1>1
<1> HIDE DEF w
<1>6. Number(w).rows = arg.cols /\ Number(w).cols = arg.rows
  BY <1>1, NumberShape DEF OneByOne
<1>7. reported' \in {-1, 0, 1} /\ work' \in {"A", "factors", "inverse", "wrong"}
  BY <1>1, <1>2 DEF FactTypeOK
<1>8. QED
  BY <1>1, <1>4, <1>5, <1>6, <1>7, NumberShape, AnsweredOne

LEMMA NormWithoutSVDGood == ASSUME FactInv, NormWithoutSVD PROVE Good'
<1> DEFINE w == IF OneByOne THEN "abs" ELSE "xnrm2"
<1>1. /\ stage = "start" /\ node = "NORM2" /\ IsVector /\ Answer(<<Number(w)>>)
      /\ UNCHANGED <<node, arg, reported, work, S, lim, next, printed>>
  BY DEF NormWithoutSVD
<1>2. reg = <<>> /\ FactTypeOK
  BY <1>1 DEF FactInv, PlaceInv
<1>3. reg'[1].what = w
  BY <1>1, <1>2, OneRegister, NumberShape
<1>4. Promised'
  BY <1>1, <1>3 DEF Promised
<1> HIDE DEF w
<1>5. /\ reported' \in {-1, 0, 1} /\ work' \in {"A", "factors", "inverse", "wrong"}
      /\ printed' \in BOOLEAN
  BY <1>1, <1>2 DEF FactTypeOK
<1>6. QED
  BY <1>1, <1>4, <1>5, NumberShape, AnsweredOne

LEMMA SVDOfScalarGood == ASSUME FactInv, SVDOfScalar PROVE Good'
<1> DEFINE x == IF arg.negative THEN -arg.sv[0] ELSE arg.sv[0]
           d == [k \in {0} |-> <<x, 1>>]
           y == Item(1, 1, "S", d)
<1>1. /\ stage = "start" /\ node = "SVD" /\ arg.scalar
      /\ Answer(<<Number("1"), y, Number("1")>>)
      /\ UNCHANGED <<node, arg, reported, work, S, lim, next, printed>>
  BY DEF SVDOfScalar
<1>2. arg \in Arg
  BY DEF FactInv, FactTypeOK
<1>3. /\ arg.rows = 1 /\ arg.cols = 1 /\ MinMN(arg) = 1 /\ OneByOne
      /\ DOMAIN arg.sv = 0..MinMN(arg) - 1
  BY <1>1, <1>2, ArgFacts DEF MinMN, OneByOne
<1>4. DOMAIN arg.sv = {0}
  BY <1>3
<1>5. ~arg.negative => d = SingularValues
  BY <1>4 DEF SingularValues
<1> HIDE DEF d
<1>6. y.rows = 1 /\ y.cols = 1 /\ y.diag = d
  BY DEF Item
<1> HIDE DEF y
<1>7. QED
  BY <1>1, <1>3, <1>5, <1>6, NumberShape, AnsweredThree

LEMMA PinvOfZerosGood == ASSUME FactInv, PinvOfZeros PROVE Good'
<1> DEFINE x == Item(arg.cols, arg.rows, "zeros", <<>>)
<1>1. /\ stage = "start" /\ node = "PINV" /\ AllZero /\ Answer(<<x>>)
      /\ UNCHANGED <<node, arg, reported, work, S, lim, next, printed>>
  BY DEF PinvOfZeros
<1>2. reg = <<>> /\ FactTypeOK
  BY <1>1 DEF FactInv, PlaceInv
<1>3. x.rows = arg.cols /\ x.cols = arg.rows /\ x.what = "zeros"
  BY DEF Item
<1>4. x.rows \in Dim /\ x.cols \in Dim
  BY <1>2, <1>3, ArgFacts DEF FactTypeOK
<1> HIDE DEF x
<1>5. reg'[1].what = "zeros"
  BY <1>1, <1>2, <1>3, OneRegister
<1>6. Promised'
  BY <1>1, <1>5 DEF Promised, AllZero
<1>7. /\ reported' \in {-1, 0, 1} /\ work' \in {"A", "factors", "inverse", "wrong"}
      /\ printed' \in BOOLEAN /\ arg.finite
  BY <1>1, <1>2 DEF FactTypeOK, AllZero
<1>8. QED
  BY <1>1, <1>3, <1>4, <1>6, <1>7, AnsweredOne

-----------------------------------------------------------------------------
(* The inversion.                                                          *)
LEMMA InvFactoriseGood == ASSUME FactInv, InvFactorise PROVE Good'
<1>1. /\ stage = "start" /\ node = "INV" /\ ~OneByOne
      /\ UNCHANGED <<node, arg, S, lim, next>>
  BY DEF InvFactorise
<1>2. reg = <<>> /\ FactTypeOK
  BY <1>1 DEF FactInv, PlaceInv
<1>3. CASE arg.rows # arg.cols
  <2>1. stage' = "thrown" /\ UNCHANGED <<reported, work, printed, reg>>
    BY <1>3 DEF InvFactorise
  <2>2. reported' \in {-1, 0, 1}
    BY <1>2, <2>1 DEF FactTypeOK
  <2>3. QED
    BY <1>1, <2>1, <2>2, ThrownGood
<1>4. CASE arg.rows = arg.cols
  <2> DEFINE how(a) == xgetrf(arg.finite, a)
  <2>1. PICK a \in Answers("xgetrf") :
          /\ reported' = IF arg.finite THEN Info(a) ELSE reported
          /\ \/ Leave(how(a))
             \/ how(a) = "returns" /\ work' = "factors" /\ stage' = "getri"
                /\ UNCHANGED <<printed, reg>>
             \/ Swallowed(how(a)) /\ InvSwallows
    BY <1>4 DEF InvFactorise
  <2>2. arg.finite \in BOOLEAN /\ arg.rows \in Dim
    BY <1>2, ArgFacts DEF FactTypeOK
  <2>3. how(a) = "returns" \/ Swallowed(how(a)) => arg.finite
    BY <2>1, <2>2, InfoIsKnown, HandlersCatch
  <2> HIDE DEF how
  <2>4. reported' \in {-1, 0, 1}
    BY <1>2, <2>1, InfoIsKnown DEF FactTypeOK
  <2>5. CASE Leave(how(a))
    <3>1. stage' = "thrown" /\ UNCHANGED <<work, S, printed, reg>>
      BY <2>5 DEF Leave
    <3>2. QED
      BY <1>1, <2>4, <3>1, ThrownGood
  <2>6. CASE /\ how(a) = "returns" /\ work' = "factors" /\ stage' = "getri"
             /\ UNCHANGED <<printed, reg>>
    <3>1. FactTypeOK'
      BY <1>1, <1>2, <2>4, <2>6 DEF FactTypeOK, MinMN
    <3>2. PlaceInv'
      BY <1>1, <1>2, <1>4, <2>3, <2>6 DEF FactInv, PlaceInv, InPinv, MinMN
    <3>3. LoopInv'
      BY <2>6 DEF LoopInv
    <3>4. QED
      BY <2>6, <3>1, <3>2, <3>3, GoingOn DEF FactInv, Ended
  <2>7. CASE Swallowed(how(a)) /\ InvSwallows
    <3> DEFINE x == Item(arg.rows, arg.rows, "factors", <<>>)
    <3>1. printed' = TRUE /\ work' = "factors" /\ Answer(<<x>>)
      BY <2>7 DEF InvSwallows
    <3>2. x.rows = arg.cols /\ x.cols = arg.rows /\ x.rows \in Dim /\ x.cols \in Dim
      BY <1>4, <2>2 DEF Item
    <3> HIDE DEF x
    <3>3. QED
      BY <1>1, <2>3, <2>4, <2>7, <3>1, <3>2, AnsweredOne
  <2>8. QED
    BY <2>1, <2>5, <2>6, <2>7
<1>5. QED
  BY <1>3, <1>4

LEMMA InvInvertGood == ASSUME FactInv, InvInvert PROVE Good'
<1>1. stage = "getri" /\ UNCHANGED <<node, arg, S, lim, next>>
  BY DEF InvInvert
<1>2. /\ reg = <<>> /\ FactTypeOK
      /\ node = "INV" /\ arg.finite /\ arg.rows = arg.cols
  BY <1>1 DEF FactInv, PlaceInv
<1> DEFINE x == Item(arg.rows, arg.rows, Inverted, <<>>)
<1>3. PICK a \in Answers("xgetri") :
        /\ reported' = Info(a)
        /\ \/ Leave(xgetri(a))
           \/ /\ xgetri(a) = "returns" /\ work' = Inverted
              /\ UNCHANGED printed /\ Answer(<<x>>)
  BY DEF InvInvert
<1>4. reported' \in {-1, 0, 1}
  BY <1>3, InfoIsKnown
<1>5. x.rows = arg.cols /\ x.cols = arg.rows /\ x.rows \in Dim /\ x.cols \in Dim
      /\ x.what = Inverted
  BY <1>2, ArgFacts DEF FactTypeOK, Item
<1> HIDE DEF x
<1>6. CASE Leave(xgetri(a))
  <2>1. stage' = "thrown" /\ UNCHANGED <<work, S, printed, reg>>
    BY <1>6 DEF Leave
  <2>2. QED
    BY <1>1, <1>4, <2>1, ThrownGood
<1>7. CASE /\ xgetri(a) = "returns" /\ work' = Inverted
           /\ UNCHANGED printed /\ Answer(<<x>>)
  <2>1. reg'[1].what = Inverted
    BY <1>2, <1>5, <1>7, OneRegister
  <2>2. Promised' \/ LostToRounding'
    <3>1. CASE Singular
      <4>1. reported' = 0
        BY <1>3, <1>7 DEF xgetri, ThrowsUnless
      <4>2. Singular' /\ work' = "wrong" /\ node' = "INV"
        BY <1>1, <1>2, <1>7, <3>1 DEF Singular, MinMN, Inverted
      <4>3. QED
        BY <4>1, <4>2 DEF LostToRounding
    <3>2. CASE ~Singular
      BY <1>1, <1>2, <2>1, <3>2 DEF Promised, Inverted
    <3>3. QED
      BY <3>1, <3>2
  <2>3. printed' \in BOOLEAN /\ work' \in {"inverse", "wrong"}
    BY <1>2, <1>7 DEF FactTypeOK, Inverted
  <2>4. QED
    BY <1>1, <1>2, <1>4, <1>5, <1>7, <2>2, <2>3, AnsweredOne
<1>8. QED
  BY <1>3, <1>6, <1>7

-----------------------------------------------------------------------------
(* The decomposition, and the two runners that hand it out as it is.       *)
LEMMA DecomposeGood == ASSUME FactInv, Decompose PROVE Good'
<1>1. stage = "start" /\ UsesSVD /\ UNCHANGED <<node, arg, lim, next>>
  BY DEF Decompose
<1>2. reg = <<>> /\ FactTypeOK /\ lim = MinMN(arg) - 1
  BY <1>1 DEF FactInv, PlaceInv
<1> DEFINE how(a) == xgesvd(arg.finite, a)
           go(a) == /\ how(a) = "returns"
                    /\ S' = [k \in DOMAIN S |-> <<arg.sv[k], 1>>]
                    /\ stage' = "gesvd" /\ UNCHANGED <<work, printed, reg>>
           fail(a) == /\ Swallowed(how(a))
                      /\ S' \in [DOMAIN S -> (-MaxValue..MaxValue) \X {1}]
                      /\ printed' = TRUE
                      /\ stage' = "gesvd" /\ UNCHANGED <<work, reg>>
<1>3. PICK a \in Answers("xgesvd") :
        /\ reported' = IF arg.finite THEN Info(a) ELSE reported
        /\ Leave(how(a)) \/ go(a) \/ fail(a)
  BY DEF Decompose
<1>4. /\ arg.finite \in BOOLEAN /\ MinMN(arg) \in 1..MaxDim
      /\ arg.sv \in [0..MinMN(arg) - 1 -> 0..MaxValue]
      /\ DOMAIN arg.sv = 0..MinMN(arg) - 1
  BY <1>2, ArgFacts DEF FactTypeOK
<1>5. how(a) = "returns" \/ Swallowed(how(a)) => arg.finite
  BY <1>3, <1>4, InfoIsKnown, HandlersCatch
<1>6. reported' \in {-1, 0, 1}
  BY <1>2, <1>3, InfoIsKnown DEF FactTypeOK
<1>7. DOMAIN S = 0..MinMN(arg) - 1
  BY <1>2 DEF FactTypeOK
<1> HIDE DEF how
<1>8. CASE Leave(how(a))
  <2>1. stage' = "thrown" /\ UNCHANGED <<work, S, printed, reg>>
    BY <1>8 DEF Leave
  <2>2. QED
    BY <1>1, <1>2, <1>6, <2>1, ThrownGood
<1>9. ASSUME stage' = "gesvd", UNCHANGED <<work, reg>>, arg.finite,
             S' \in [0..MinMN(arg) - 1 -> Fraction], printed' \in BOOLEAN,
             ~printed' => S' = [k \in DOMAIN arg.sv |-> <<arg.sv[k], 1>>]
      PROVE  Good'
  <2>1. FactTypeOK'
    BY <1>1, <1>2, <1>6, <1>9 DEF FactTypeOK, MinMN
  <2>2. PlaceInv'
    BY <1>1, <1>2, <1>9 DEF PlaceInv, InPinv, MinMN, UsesSVD, OneByOne, AllZero,
         IsVector
  <2>3. LoopInv'
    BY <1>1, <1>9 DEF LoopInv, SingularValues
  <2>4. QED
    BY <1>9, <2>1, <2>2, <2>3, GoingOn DEF FactInv, Ended
<1>10. CASE go(a)
  <2>1. S' = [k \in DOMAIN arg.sv |-> <<arg.sv[k], 1>>]
    BY <1>4, <1>7, <1>10
  <2>2. S' \in [0..MinMN(arg) - 1 -> Fraction]
    BY <1>4, <2>1, Fractions
  <2>3. printed' \in BOOLEAN
    BY <1>2, <1>10 DEF FactTypeOK
  <2>4. QED
    BY <1>5, <1>9, <1>10, <2>1, <2>2, <2>3
<1>11. CASE fail(a)
  <2>1. (-MaxValue..MaxValue) \X {1} \subseteq Fraction
    BY Fractions
  <2>2. S' \in [0..MinMN(arg) - 1 -> Fraction]
    BY <1>7, <1>11, <2>1
  <2>3. QED
    BY <1>5, <1>9, <1>11, <2>2
<1>12. QED
  BY <1>3, <1>8, <1>10, <1>11

LEMMA SVDAnswersGood == ASSUME FactInv, SVDAnswers PROVE Good'
<1> DEFINE x == Item(arg.rows, arg.rows, "U", <<>>)
           y == Item(arg.rows, arg.cols, "S", S)
           z == Item(arg.cols, arg.cols, "VT", <<>>)
<1>1. /\ stage = "gesvd" /\ node = "SVD" /\ Answer(<<x, y, z>>)
      /\ UNCHANGED <<node, arg, reported, work, S, lim, next, printed>>
  BY DEF SVDAnswers
<1>2. FactTypeOK /\ arg.finite
  BY <1>1 DEF FactInv, PlaceInv
<1>3. arg.rows \in Dim /\ arg.cols \in Dim
  BY <1>2, ArgFacts DEF FactTypeOK
<1>4. /\ x.rows = arg.rows /\ x.cols = arg.rows /\ y.rows = arg.rows
      /\ y.cols = arg.cols /\ y.diag = S /\ z.rows = arg.cols /\ z.cols = arg.cols
  BY DEF Item
<1>5. ~printed => S = SingularValues
  BY <1>1 DEF FactInv, LoopInv
<1> HIDE DEF x, y, z
<1>6. QED
  BY <1>1, <1>2, <1>3, <1>4, <1>5, AnsweredThree

LEMMA NormAnswersGood == ASSUME FactInv, NormAnswers PROVE Good'
<1> DEFINE d == [k \in {0} |-> S[0]]
           x == Item(1, 1, "S", d)
<1>1. /\ stage = "gesvd" /\ node = "NORM2" /\ Answer(<<x>>)
      /\ UNCHANGED <<node, arg, reported, work, S, lim, next, printed>>
  BY DEF NormAnswers
<1>2. reg = <<>> /\ FactTypeOK /\ arg.finite
  BY <1>1 DEF FactInv, PlaceInv
<1>3. x.rows \in Dim /\ x.cols \in Dim /\ x.diag[0] = S[0]
  BY OneIsADim DEF Item
<1> HIDE DEF d, x
<1>4. reg'[1] = x
  BY <1>1, <1>2, OneRegister
<1>5. ~printed => S = SingularValues
  BY <1>1 DEF FactInv, LoopInv
<1>6. ~printed' => Promised'
  BY <1>1, <1>3, <1>4, <1>5 DEF Promised, SingularValues
<1>7. /\ reported' \in {-1, 0, 1} /\ work' \in {"A", "factors", "inverse", "wrong"}
      /\ printed' \in BOOLEAN
  BY <1>1, <1>2 DEF FactTypeOK
<1>8. QED
  BY <1>1, <1>2, <1>3, <1>6, <1>7, AnsweredOne

-----------------------------------------------------------------------------
(* The loops of PINV.                                                      *)
LEMMA PinvGetsSGood == ASSUME FactInv, PinvGetsS PROVE Good'
<1>1. /\ stage = "gesvd" /\ node = "PINV" /\ stage' = "walk"
      /\ UNCHANGED <<node, arg, reported, work, S, lim, next, printed, reg>>
  BY DEF PinvGetsS
<1>2. /\ reg = <<>> /\ FactTypeOK /\ arg.finite /\ lim = MinMN(arg) - 1
      /\ ~printed => S = SingularValues
  BY <1>1 DEF FactInv, PlaceInv, LoopInv
<1>3. DOMAIN arg.sv = 0..MinMN(arg) - 1 /\ MinMN(arg) \in 1..MaxDim
  BY <1>2, ArgFacts DEF FactTypeOK
<1>4. \A k \in DOMAIN arg.sv : ~(k > lim)
  BY <1>2, <1>3
<1>5. FactTypeOK'
  BY <1>1, <1>2 DEF FactTypeOK, MinMN
<1>6. PlaceInv'
  <2>1. lim < MinMN(arg)
    BY <1>2, <1>3
  <2>2. QED
    BY <1>1, <1>2, <2>1 DEF PlaceInv, InPinv, MinMN
<1>7. LoopInv'
  BY <1>1, <1>2, <1>4 DEF LoopInv, SingularValues
<1>8. QED
  BY <1>1, <1>5, <1>6, <1>7, GoingOn DEF FactInv, Ended

(* What is known wherever PINV works on S.                                 *)
LEMMA PinvFacts ==
  ASSUME FactInv, stage \in InPinv
  PROVE  /\ reg = <<>> /\ FactTypeOK /\ node = "PINV" /\ arg.finite
         /\ MinMN(arg) \in 1..MaxDim /\ DOMAIN arg.sv = 0..MinMN(arg) - 1
         /\ S \in [0..MinMN(arg) - 1 -> Fraction]
         /\ arg.sv \in [0..MinMN(arg) - 1 -> 0..MaxValue]
         /\ lim \in -1..MinMN(arg) /\ next \in 0..MinMN(arg)
<1>1. /\ reg = <<>> /\ FactTypeOK /\ node = "PINV" /\ arg.finite
  BY DEF FactInv, PlaceInv, InPinv
<1>2. QED
  BY <1>1, ArgFacts DEF FactTypeOK

LEMMA WalkDownGood == ASSUME FactInv, WalkDown PROVE Good'
<1>1. /\ stage = "walk" /\ lim >= 0 /\ ~AboveThreshold(S[lim]) /\ lim' = lim - 1
      /\ UNCHANGED <<node, arg, stage, reported, work, S, next, printed, reg>>
  BY DEF WalkDown
<1>2. /\ reg = <<>> /\ FactTypeOK /\ node = "PINV" /\ arg.finite
      /\ MinMN(arg) \in 1..MaxDim /\ DOMAIN arg.sv = 0..MinMN(arg) - 1
      /\ lim \in -1..MinMN(arg)
  BY <1>1, PinvFacts DEF InPinv
<1>3. lim < MinMN(arg)
  BY <1>1 DEF FactInv, PlaceInv
<1>4. FactTypeOK'
  <2>1. lim' \in -1..MinMN(arg)
    BY <1>1, <1>2, <1>3, DimAssumption, ValuesAssumption
  <2>2. QED
    BY <1>1, <1>2, <2>1 DEF FactTypeOK, MinMN
<1>5. PlaceInv'
  <2>1. lim' < MinMN(arg)
    BY <1>1, <1>2, <1>3, DimAssumption, ValuesAssumption
  <2>2. QED
    BY <1>1, <1>2, <2>1 DEF PlaceInv, InPinv, MinMN
<1>6. LoopInv'
  <2>1. SUFFICES ASSUME ~printed
                 PROVE  /\ S = SingularValues
                        /\ \A k \in DOMAIN arg.sv : k > lim' => ~Kept(k)
    BY <1>1 DEF LoopInv, SingularValues, Kept
  <2>2. S = SingularValues /\ \A k \in DOMAIN arg.sv : k > lim => ~Kept(k)
    BY <1>1, <2>1 DEF FactInv, LoopInv
  <2>3. arg \in Arg
    BY <1>2 DEF FactTypeOK
  <2>4. lim \in DOMAIN arg.sv
    BY <1>1, <1>2, <1>3
  <2>5. ~Kept(lim)
    BY <1>1, <2>2, <2>3, <2>4, WalkSeesKept
  <2>6. \A k \in DOMAIN arg.sv : k > lim' => k > lim \/ k = lim
    BY <1>1, <1>2
  <2>7. QED
    BY <2>2, <2>5, <2>6
<1>7. QED
  BY <1>1, <1>4, <1>5, <1>6, GoingOn DEF FactInv, Ended

LEMMA WalkEndsGood == ASSUME FactInv, WalkEnds PROVE Good'
<1>1. /\ stage = "walk" /\ lim >= 0 /\ AboveThreshold(S[lim]) /\ lim' = lim + 1
      /\ next' = 0 /\ stage' = "invert"
      /\ UNCHANGED <<node, arg, reported, work, S, printed, reg>>
  BY DEF WalkEnds
<1>2. /\ reg = <<>> /\ FactTypeOK /\ node = "PINV" /\ arg.finite
      /\ MinMN(arg) \in 1..MaxDim /\ DOMAIN arg.sv = 0..MinMN(arg) - 1
      /\ lim \in -1..MinMN(arg)
  BY <1>1, PinvFacts DEF InPinv
<1>3. lim < MinMN(arg)
  BY <1>1 DEF FactInv, PlaceInv
<1>4. /\ lim' \in -1..MinMN(arg) /\ next' \in 0..MinMN(arg) /\ next' <= lim'
  BY <1>1, <1>2, <1>3, DimAssumption, ValuesAssumption
<1>5. FactTypeOK'
  BY <1>1, <1>2, <1>4 DEF FactTypeOK, MinMN
<1>6. PlaceInv'
  BY <1>1, <1>2, <1>4 DEF PlaceInv, InPinv, MinMN
<1>7. LoopInv'
  <2>1. ASSUME ~printed
        PROVE  /\ S = SingularValues
               /\ \A k \in DOMAIN arg.sv : Kept(k) <=> k < lim'
    <3>1. S = SingularValues /\ \A k \in DOMAIN arg.sv : k > lim => ~Kept(k)
      BY <1>1, <2>1 DEF FactInv, LoopInv
    <3>2. arg \in Arg
      BY <1>2 DEF FactTypeOK
    <3>3. lim \in DOMAIN arg.sv
      BY <1>1, <1>2, <1>3
    <3>4. Kept(lim)
      BY <1>1, <3>1, <3>2, <3>3, WalkSeesKept
    <3>5. ASSUME NEW k \in DOMAIN arg.sv PROVE Kept(k) <=> k < lim'
      <4>1. k <= lim => Kept(k)
        BY <3>2, <3>3, <3>4, KeptFromTheFront
      <4>2. k > lim => ~Kept(k)
        BY <3>1
      <4>3. k \in Int /\ lim \in Int
        BY <1>2
      <4>4. QED
        BY <1>1, <4>1, <4>2, <4>3
    <3>6. QED
      BY <3>1, <3>5
  <2>2. SUFFICES ASSUME ~printed
        PROVE /\ \A k \in DOMAIN arg.sv : Kept(k) <=> k < lim'
              /\ \A k \in DOMAIN arg.sv :
                   S[k] = IF k < 0 THEN <<1, arg.sv[k]>> ELSE <<arg.sv[k], 1>>
    BY <1>1 DEF LoopInv, Kept
  <2>3. \A k \in DOMAIN arg.sv : ~(k < 0)
    BY <1>2
  <2>4. QED
    BY <2>1, <2>2, <2>3 DEF SingularValues
<1>8. QED
  BY <1>1, <1>5, <1>6, <1>7, GoingOn DEF FactInv, Ended

LEMMA PinvNothingLeftGood == ASSUME FactInv, PinvNothingLeft PROVE Good'
<1> DEFINE x == Item(arg.cols, arg.rows, "zeros", <<>>)
<1>1. /\ stage = "walk" /\ lim < 0 /\ Answer(<<x>>)
      /\ UNCHANGED <<node, arg, reported, work, S, lim, next, printed>>
  BY DEF PinvNothingLeft
<1>2. /\ reg = <<>> /\ FactTypeOK /\ node = "PINV" /\ arg.finite
      /\ MinMN(arg) \in 1..MaxDim /\ DOMAIN arg.sv = 0..MinMN(arg) - 1
      /\ arg.sv \in [0..MinMN(arg) - 1 -> 0..MaxValue]
      /\ lim \in -1..MinMN(arg)
  BY <1>1, PinvFacts DEF InPinv
<1>3. x.rows = arg.cols /\ x.cols = arg.rows /\ x.what = "zeros"
  BY DEF Item
<1>4. x.rows \in Dim /\ x.cols \in Dim
  BY <1>2, <1>3, ArgFacts DEF FactTypeOK
<1> HIDE DEF x
<1>5. reg'[1].what = "zeros"
  BY <1>1, <1>2, <1>3, OneRegister
<1>6. ~printed => AllZero
  <2>1. SUFFICES ASSUME ~printed PROVE arg.sv[0] = 0
    BY <1>2 DEF AllZero
  <2>2. 0 \in DOMAIN arg.sv /\ arg.sv[0] \in 0..MaxValue
    BY <1>2
  <2>3. 0 > lim
    BY <1>1, <1>2
  <2>4. ~Kept(0)
    BY <1>1, <2>1, <2>2, <2>3 DEF FactInv, LoopInv
  <2>5. QED
    BY <2>2, <2>4, DimAssumption, ValuesAssumption DEF Kept, Threshold
<1>7. ~printed' => Promised'
  BY <1>1, <1>2, <1>5, <1>6 DEF Promised, AllZero
<1>8. /\ reported' \in {-1, 0, 1} /\ work' \in {"A", "factors", "inverse", "wrong"}
      /\ printed' \in BOOLEAN
  BY <1>1, <1>2 DEF FactTypeOK
<1>9. QED
  BY <1>1, <1>2, <1>3, <1>4, <1>7, <1>8, AnsweredOne

LEMMA InvertNextGood == ASSUME FactInv, InvertNext PROVE Good'
<1>1. /\ stage = "invert" /\ UNCHANGED <<node, arg, reported, work, lim, printed, reg>>
      /\ IF next < lim
         THEN S' = [S EXCEPT ![next] = <<@[2], @[1]>>] /\ next' = next + 1 /\ UNCHANGED stage
         ELSE next' = lim /\ stage' = "zero" /\ UNCHANGED S
  BY DEF InvertNext
<1>2. /\ reg = <<>> /\ FactTypeOK /\ node = "PINV" /\ arg.finite
      /\ MinMN(arg) \in 1..MaxDim /\ DOMAIN arg.sv = 0..MinMN(arg) - 1
      /\ S \in [0..MinMN(arg) - 1 -> Fraction]
      /\ lim \in -1..MinMN(arg) /\ next \in 0..MinMN(arg) /\ next <= lim
  BY <1>1, PinvFacts DEF InPinv, FactInv, PlaceInv
<1>3. ~printed =>
        /\ \A k \in DOMAIN arg.sv : Kept(k) <=> k < lim
        /\ \A k \in DOMAIN arg.sv :
             S[k] = IF k < next THEN <<1, arg.sv[k]>> ELSE <<arg.sv[k], 1>>
  BY <1>1 DEF FactInv, LoopInv
<1>4. CASE next < lim
  <2>1. /\ S' = [S EXCEPT ![next] = <<S[next][2], S[next][1]>>]
        /\ next' = next + 1 /\ stage' = "invert"
    BY <1>1, <1>4
  <2>2. next \in 0..MinMN(arg) - 1 /\ next' \in 0..MinMN(arg) /\ next' <= lim
    BY <1>2, <1>4, <2>1, DimAssumption, ValuesAssumption
  <2>3. <<S[next][2], S[next][1]>> \in Fraction
    BY <1>2, <2>2, Fractions
  <2>4. S' \in [0..MinMN(arg) - 1 -> Fraction]
    BY <1>2, <2>1, <2>2, <2>3
  <2>5. FactTypeOK'
    BY <1>1, <1>2, <2>1, <2>2, <2>4 DEF FactTypeOK, MinMN
  <2>6. PlaceInv'
    BY <1>1, <1>2, <2>1, <2>2 DEF PlaceInv, InPinv, MinMN
  <2>7. LoopInv'
    <3>1. ASSUME ~printed, NEW k \in DOMAIN arg.sv
          PROVE  S'[k] = IF k < next' THEN <<1, arg.sv[k]>> ELSE <<arg.sv[k], 1>>
      <4>1. k \in Int /\ next \in Int /\ k \in 0..MinMN(arg) - 1
        BY <1>2
      <4>2. S[k] = IF k < next THEN <<1, arg.sv[k]>> ELSE <<arg.sv[k], 1>>
        BY <1>3, <3>1
      <4>3. CASE k = next
        <5>1. S[next] = <<arg.sv[next], 1>>
          BY <4>1, <4>2, <4>3
        <5>2. S'[k] = <<S[next][2], S[next][1]>>
          BY <1>2, <2>1, <2>2, <4>3
        <5>3. S'[k] = <<1, arg.sv[k]>>
          BY <4>3, <5>1, <5>2
        <5>4. k < next'
          BY <2>1, <4>1, <4>3
        <5>5. QED
          BY <5>3, <5>4
      <4>4. CASE k # next
        <5>1. S'[k] = S[k]
          BY <1>2, <2>1, <2>2, <4>1, <4>4
        <5>2. k < next' <=> k < next
          BY <2>1, <4>1, <4>4
        <5>3. QED
          BY <4>2, <5>1, <5>2
      <4>5. QED
        BY <4>3, <4>4
    <3>2. SUFFICES ASSUME ~printed
          PROVE /\ \A k \in DOMAIN arg.sv : Kept(k) <=> k < lim
                /\ \A k \in DOMAIN arg.sv :
                     S'[k] = IF k < next' THEN <<1, arg.sv[k]>> ELSE <<arg.sv[k], 1>>
      BY <1>1, <2>1 DEF LoopInv, Kept
    <3>3. QED
      BY <1>3, <3>1, <3>2
  <2>8. QED
    BY <2>1, <2>5, <2>6, <2>7, GoingOn DEF FactInv, Ended
<1>5. CASE ~(next < lim)
  <2>1. next' = lim /\ stage' = "zero" /\ UNCHANGED S
    BY <1>1, <1>5
  <2>2. next = lim
    BY <1>2, <1>5, DimAssumption, ValuesAssumption
  <2>3. FactTypeOK'
    BY <1>1, <1>2, <2>1, <2>2 DEF FactTypeOK, MinMN
  <2>4. PlaceInv'
    BY <1>1, <1>2, <2>1, <2>2 DEF PlaceInv, InPinv, MinMN
  <2>5. LoopInv'
    <3>1. \A k \in DOMAIN arg.sv : ~(lim <= k /\ k < next') /\ k \in Int
      BY <1>2, <2>1
    <3>2. SUFFICES ASSUME ~printed
          PROVE /\ \A k \in DOMAIN arg.sv : Kept(k) <=> k < lim
                /\ \A k \in DOMAIN arg.sv : k < lim => S[k] = <<1, arg.sv[k]>>
      BY <1>1, <2>1, <3>1 DEF LoopInv, Kept
    <3>3. QED
      BY <1>3, <2>2, <3>2
  <2>6. QED
    BY <2>1, <2>3, <2>4, <2>5, GoingOn DEF FactInv, Ended
<1>6. QED
  BY <1>4, <1>5

LEMMA ZeroNextGood == ASSUME FactInv, ZeroNext PROVE Good'
<1>1. /\ stage = "zero" /\ UNCHANGED <<node, arg, reported, work, lim, printed, reg>>
      /\ IF next < MinMN(arg)
         THEN S' = [S EXCEPT ![next] = <<0, 1>>] /\ next' = next + 1 /\ UNCHANGED stage
         ELSE stage' = "multiply" /\ UNCHANGED <<S, next>>
  BY DEF ZeroNext
<1>2. /\ reg = <<>> /\ FactTypeOK /\ node = "PINV" /\ arg.finite
      /\ MinMN(arg) \in 1..MaxDim /\ DOMAIN arg.sv = 0..MinMN(arg) - 1
      /\ S \in [0..MinMN(arg) - 1 -> Fraction]
      /\ lim \in -1..MinMN(arg) /\ next \in 0..MinMN(arg) /\ lim <= next
  BY <1>1, PinvFacts DEF InPinv, FactInv, PlaceInv
<1>3. ~printed =>
        /\ \A k \in DOMAIN arg.sv : Kept(k) <=> k < lim
        /\ \A k \in DOMAIN arg.sv :
             /\ k < lim => S[k] = <<1, arg.sv[k]>>
             /\ lim <= k /\ k < next => S[k] = <<0, 1>>
  BY <1>1 DEF FactInv, LoopInv
<1>4. CASE next < MinMN(arg)
  <2>1. S' = [S EXCEPT ![next] = <<0, 1>>] /\ next' = next + 1 /\ stage' = "zero"
    BY <1>1, <1>4
  <2>2. next \in 0..MinMN(arg) - 1 /\ next' \in 0..MinMN(arg) /\ lim <= next'
    BY <1>2, <1>4, <2>1, DimAssumption, ValuesAssumption
  <2>3. S' \in [0..MinMN(arg) - 1 -> Fraction]
    BY <1>2, <2>1, <2>2, Fractions
  <2>4. FactTypeOK'
    BY <1>1, <1>2, <2>1, <2>2, <2>3 DEF FactTypeOK, MinMN
  <2>5. PlaceInv'
    BY <1>1, <1>2, <2>1, <2>2 DEF PlaceInv, InPinv, MinMN
  <2>6. LoopInv'
    <3>1. ASSUME ~printed, NEW k \in DOMAIN arg.sv
          PROVE  /\ k < lim => S'[k] = <<1, arg.sv[k]>>
                 /\ lim <= k /\ k < next' => S'[k] = <<0, 1>>
      <4>1. k \in Int /\ next \in Int /\ lim \in Int /\ k \in 0..MinMN(arg) - 1
        BY <1>2
      <4>2. /\ k < lim => S[k] = <<1, arg.sv[k]>>
            /\ lim <= k /\ k < next => S[k] = <<0, 1>>
        BY <1>3, <3>1
      <4>3. CASE k = next
        <5>1. S'[k] = <<0, 1>>
          BY <1>2, <2>1, <2>2, <4>3
        <5>2. ~(k < lim)
          BY <1>2, <4>1, <4>3
        <5>3. QED
          BY <5>1, <5>2
      <4>4. CASE k # next
        <5>1. S'[k] = S[k]
          BY <1>2, <2>1, <2>2, <4>1, <4>4
        <5>2. k < next' <=> k < next
          BY <2>1, <4>1, <4>4
        <5>3. QED
          BY <4>2, <5>1, <5>2
      <4>5. QED
        BY <4>3, <4>4
    <3>2. SUFFICES ASSUME ~printed
          PROVE /\ \A k \in DOMAIN arg.sv : Kept(k) <=> k < lim
                /\ \A k \in DOMAIN arg.sv :
                     /\ k < lim => S'[k] = <<1, arg.sv[k]>>
                     /\ lim <= k /\ k < next' => S'[k] = <<0, 1>>
      BY <1>1, <2>1 DEF LoopInv, Kept
    <3>3. QED
      BY <1>3, <3>1, <3>2
  <2>7. QED
    BY <2>1, <2>4, <2>5, <2>6, GoingOn DEF FactInv, Ended
<1>5. CASE ~(next < MinMN(arg))
  <2>1. stage' = "multiply" /\ UNCHANGED <<S, next>>
    BY <1>1, <1>5
  <2>2. FactTypeOK'
    BY <1>1, <1>2, <2>1 DEF FactTypeOK, MinMN
  <2>3. PlaceInv'
    BY <1>1, <1>2, <2>1 DEF PlaceInv, InPinv, MinMN
  <2>4. LoopInv'
    <3>1. SUFFICES ASSUME ~printed PROVE S = PseudoInverses
      BY <1>1, <2>1 DEF LoopInv, PseudoInverses
    <3>2. ASSUME NEW k \in DOMAIN arg.sv
          PROVE  S[k] = IF Kept(k) THEN <<1, arg.sv[k]>> ELSE <<0, 1>>
      <4>1. /\ k \in Int /\ lim \in Int /\ k < next
        BY <1>2, <1>5, DimAssumption, ValuesAssumption
      <4>2. QED
        BY <1>3, <3>1, <4>1
    <3>3. S = [k \in DOMAIN arg.sv |-> S[k]]
      BY <1>2
    <3>4. QED
      BY <3>2, <3>3 DEF PseudoInverses, Kept
  <2>5. QED
    BY <2>1, <2>2, <2>3, <2>4, GoingOn DEF FactInv, Ended
<1>6. QED
  BY <1>4, <1>5

LEMMA PinvMultipliesGood == ASSUME FactInv, PinvMultiplies PROVE Good'
<1> DEFINE x == Item(arg.cols, arg.rows, "VSU*", S)
<1>1. /\ stage = "multiply" /\ Answer(<<x>>)
      /\ UNCHANGED <<node, arg, reported, work, S, lim, next, printed>>
  BY DEF PinvMultiplies
<1>2. reg = <<>> /\ FactTypeOK /\ node = "PINV" /\ arg.finite
  BY <1>1, PinvFacts DEF InPinv
<1>3. x.rows = arg.cols /\ x.cols = arg.rows /\ x.diag = S
  BY DEF Item
<1>4. x.rows \in Dim /\ x.cols \in Dim
  BY <1>2, <1>3, ArgFacts DEF FactTypeOK
<1> HIDE DEF x
<1>5. reg'[1].diag = S
  BY <1>1, <1>2, <1>3, OneRegister
<1>6. ~printed' => Promised'
  BY <1>1, <1>2, <1>5 DEF Promised, FactInv, LoopInv, PseudoInverses
<1>7. /\ reported' \in {-1, 0, 1} /\ work' \in {"A", "factors", "inverse", "wrong"}
      /\ printed' \in BOOLEAN
  BY <1>1, <1>2 DEF FactTypeOK
<1>8. QED
  BY <1>1, <1>2, <1>3, <1>4, <1>6, <1>7, AnsweredOne

-----------------------------------------------------------------------------
LEMMA StepKeepsGood == Good /\ [FactNext]_factVars => Good'
<1>1. SUFFICES ASSUME Good, [FactNext]_factVars PROVE Good'
  OBVIOUS
<1>2. FactInv
  BY <1>1 DEF Good
<1>3. CASE UNCHANGED factVars
  <2>1. FactInv'
    BY <1>2, <1>3
       DEF factVars, FactInv, FactTypeOK, PlaceInv, LoopInv, MinMN, UsesSVD, OneByOne,
           AllZero, IsVector, Kept, SingularValues, PseudoInverses
  <2>2. AnswerHasTheShape' /\ NonFiniteIsRefused' /\ WrongIsPrintedOrKnown'
    BY <1>1, <1>3
       DEF factVars, Good, AnswerHasTheShape, NonFiniteIsRefused, WrongIsPrintedOrKnown,
           Promised, OneByOne, IsVector, AllZero, SingularValues, PseudoInverses,
           LostToRounding, Singular, MinMN
  <2>3. QED
    BY <2>1, <2>2 DEF Good
<1>4. QED
  BY <1>1, <1>2, <1>3, ReciprocalGood, SVDOfScalarGood, NormWithoutSVDGood,
     InvFactoriseGood, InvInvertGood, PinvOfZerosGood, DecomposeGood,
     SVDAnswersGood, NormAnswersGood, PinvGetsSGood, WalkDownGood, WalkEndsGood,
     PinvNothingLeftGood, InvertNextGood, ZeroNextGood, PinvMultipliesGood
     DEF FactNext

LEMMA GoodHolds == FactSpec => []Good
<1>1. QED
  BY InitGood, StepKeepsGood, PTL DEF FactSpec

(***************************************************************************)
(* The inductive invariant: the types, what each point of a runner knows   *)
(* of its node and argument, and what PINV's loops (pinvrunner.cc 68-99)   *)
(* have made of the singular values so far.                                *)
(***************************************************************************)
THEOREM FactorisationInvariant == FactSpec => []FactInv
<1>1. Good => FactInv
  BY DEF Good
<1>2. QED
  BY <1>1, GoodHolds, PTL

(***************************************************************************)
(* INV, PINV, SVD and NORM2 of a finite argument give what they promise,   *)
(* the pseudoinverse the inverse of every singular value above the         *)
(* threshold and zero for the others, unless something was printed, but    *)
(* for the two cases that WrongIsPrintedOrKnown names (svdrunner.cc:68 and *)
(* invrunner.cc:107, where xgetrf reports nothing of a singular matrix).   *)
(***************************************************************************)
THEOREM WrongOnlyWhereNamed == FactSpec => []WrongIsPrintedOrKnown
<1>1. Good => WrongIsPrintedOrKnown
  BY DEF Good
<1>2. QED
  BY <1>1, GoodHolds, PTL

(***************************************************************************)
(* What is not finite is only answered where nothing is factorised         *)
(* (lapack.cc's checkData, which none of the handlers catches).            *)
(***************************************************************************)
THEOREM NothingNonFiniteIsFactorised == FactSpec => []NonFiniteIsRefused
<1>1. Good => NonFiniteIsRefused
  BY DEF Good
<1>2. QED
  BY <1>1, GoodHolds, PTL

(***************************************************************************)
(* A run answers with all the registers of its node, of shapes that        *)
(* multiply to the argument's or its transpose's, or throws with none.     *)
(***************************************************************************)
THEOREM AnswersHaveTheShape == FactSpec => []AnswerHasTheShape
<1>1. Good => AnswerHasTheShape
  BY DEF Good
<1>2. QED
  BY <1>1, GoodHolds, PTL
=============================================================================
