---------------------------- MODULE Factorisations ----------------------------
(***************************************************************************)
(* The runners of the nodes INV, PINV, SVD and NORM2 (invrunner.cc,        *)
(* pinvrunner.cc, svdrunner.cc, norm2runner.cc).  They work through        *)
(* LAPACK, swallow its recoverable errors after printing them, and answer  *)
(* all the same; PINV runs an SVD node of its own and turns the singular   *)
(* values it gets into their inverses, in place, in three loops.           *)
(*                                                                         *)
(* A matrix is known by its shape and its singular values, small integers  *)
(* that stand for magnitudes the rounding threshold tells apart.  A number *)
(* computed from them is a fraction <<n, d>>, <<1, 0>> an infinity.        *)
(***************************************************************************)
EXTENDS Lapack, Sequences, FiniteSets

CONSTANT MaxValue   \* bound on singular values

ASSUME ValuesAssumption == MaxValue \in Nat \ {0}

VARIABLES node,     \* the node being run
          arg,      \* its argument
          stage,
          reported,     \* what the last call of LAPACK reported
          work,     \* what INV's copy of the argument holds
          S,        \* the singular values of the SVD, from 0, as fractions
          lim,      \* PINV: the last, later the number of, values inverted
          next,        \* PINV: loop counter
          printed,  \* something was written to cerr
          reg       \* registers pushed

factVars == <<node, arg, stage, reported, work, S, lim, next, printed, reg>>

MinMN(a) == IF a.rows > a.cols THEN a.cols ELSE a.rows

Values(a)   == [0..MinMN(a) - 1 -> 0..MaxValue]
Descending(v) == \A k, l \in DOMAIN v : k <= l => v[k] >= v[l]

(* A real scalar, or a dense matrix; only scalars need their sign, and     *)
(* what is not finite has no singular values worth telling apart.          *)
Arg ==
  { a \in [scalar : BOOLEAN, rows : Dim, cols : Dim, finite : BOOLEAN,
           negative : BOOLEAN,
           sv : UNION { [0..k - 1 -> 0..MaxValue] : k \in Dim }] :
      /\ a.sv \in Values(a) /\ Descending(a.sv)
      /\ a.scalar => a.rows = 1 /\ a.cols = 1
      /\ a.negative => a.scalar /\ a.finite /\ a.sv[0] # 0
      /\ ~a.finite => \A k \in DOMAIN a.sv : a.sv[k] = 1 }

OneByOne == arg.rows = 1 /\ arg.cols = 1
IsVector == arg.rows = 1 \/ arg.cols = 1
AllZero  == arg.finite /\ arg.sv[0] = 0
Singular == arg.sv[MinMN(arg) - 1] = 0

Fraction == (-MaxValue..MaxValue) \X (-MaxValue..MaxValue)

FactTypeOK ==
  /\ node \in {"INV", "PINV", "SVD", "NORM2"}
  /\ arg \in Arg
  /\ stage \in {"start", "getrf", "getri", "gesvd", "walk", "invert", "zero",
             "multiply"} \cup Ended
  /\ reported \in {-1, 0, 1}
  /\ work \in {"A", "factors", "inverse", "wrong"}
  /\ S \in [0..MinMN(arg) - 1 -> Fraction]
  /\ lim \in -1..MinMN(arg) /\ next \in 0..MinMN(arg)
  /\ printed \in BOOLEAN
  /\ \A r \in 1..Len(reg) : reg[r].rows \in Dim /\ reg[r].cols \in Dim

FactInit ==
  /\ node \in {"INV", "PINV", "SVD", "NORM2"}
  /\ arg \in Arg
  /\ stage = "start"
  /\ reported = 0
  /\ work = "A"
  /\ S = [k \in 0..MinMN(arg) - 1 |-> <<0, 1>>]
  /\ lim = MinMN(arg) - 1 /\ next = 0
  /\ printed = FALSE
  /\ reg = <<>>

Item(r, c, w, d) == [rows |-> r, cols |-> c, what |-> w, diag |-> d]
Number(w) == Item(1, 1, w, <<>>)

Answer(items) == reg' = reg \o items /\ stage' = "returned"

-----------------------------------------------------------------------------
(* INV and PINV of a number, or of a matrix that is one: no LAPACK.        *)
Reciprocal ==
  /\ stage = "start" /\ node \in {"INV", "PINV"} /\ OneByOne
  /\ Answer(<<Number(IF ~AllZero THEN "1/x"
                     ELSE IF node = "INV" THEN "Inf" ELSE "0")>>)
  /\ printed' = (AllZero /\ node = "INV")
  /\ UNCHANGED <<node, arg, reported, work, S, lim, next>>

SVDOfScalar ==
  /\ stage = "start" /\ node = "SVD" /\ arg.scalar
  /\ LET x == IF arg.negative THEN -arg.sv[0] ELSE arg.sv[0]
     IN  Answer(<<Number("1"), Item(1, 1, "S", [k \in {0} |-> <<x, 1>>]),
                  Number("1")>>)
  /\ UNCHANGED <<node, arg, reported, work, S, lim, next, printed>>

(* NORM2 of a number or of a vector.                                       *)
NormWithoutSVD ==
  /\ stage = "start" /\ node = "NORM2" /\ IsVector
  /\ Answer(<<Number(IF OneByOne THEN "abs" ELSE "xnrm2")>>)
  /\ UNCHANGED <<node, arg, reported, work, S, lim, next, printed>>

-----------------------------------------------------------------------------
(* The clause of the runners' handlers, which print what they catch.       *)
Clause == "rdag_recoverable_error"

Leave(how) ==
  /\ how # "returns" /\ ~Catches(Clause, how)
  /\ stage' = "thrown"
  /\ UNCHANGED <<work, S, printed, reg>>

Swallowed(how) == Catches(Clause, how)

(* The inversion goes on to hand out what the factorisation left.          *)
InvSwallows ==
  /\ printed' = TRUE
  /\ work' = "factors"
  /\ Answer(<<Item(arg.rows, arg.rows, "factors", <<>>)>>)

InvFactorise ==
  /\ stage = "start" /\ node = "INV" /\ ~OneByOne
  /\ IF arg.rows # arg.cols
     THEN stage' = "thrown" /\ UNCHANGED <<reported, work, printed, reg>>
     ELSE \E a \in Answers("xgetrf") :
            LET how == xgetrf(arg.finite, a)
            IN  /\ a.final = 1 => Singular
                /\ reported' = IF arg.finite THEN Info(a) ELSE reported
                /\ \/ Leave(how)
                   \/ how = "returns" /\ work' = "factors" /\ stage' = "getri"
                      /\ UNCHANGED <<printed, reg>>
                   \/ Swallowed(how) /\ InvSwallows
  /\ UNCHANGED <<node, arg, S, lim, next>>

(* The factorisation has found no zero on the diagonal, so xgetri finds    *)
(* none; the plain errors it throws pass the handler.  Of a singular       *)
(* matrix whose zero was lost to rounding, what it makes is no inverse.    *)
Inverted == IF Singular THEN "wrong" ELSE "inverse"

InvInvert ==
  /\ stage = "getri"
  /\ \E a \in Answers("xgetri") :
       LET how == xgetri(a)
       IN  /\ a.final = 0
           /\ reported' = Info(a)
           /\ \/ Leave(how)
              \/ how = "returns" /\ work' = Inverted /\ UNCHANGED printed
                 /\ Answer(<<Item(arg.rows, arg.rows, Inverted, <<>>)>>)
  /\ UNCHANGED <<node, arg, S, lim, next>>

-----------------------------------------------------------------------------
(* Mutant: zeros of the argument's own shape.                              *)
PinvOfZerosUnturned ==
  /\ stage = "start" /\ node = "PINV" /\ ~OneByOne /\ AllZero
  /\ Answer(<<Item(arg.rows, arg.cols, "zeros", <<>>)>>)
  /\ UNCHANGED <<node, arg, reported, work, S, lim, next, printed>>

PinvOfZeros ==
  /\ stage = "start" /\ node = "PINV" /\ ~OneByOne /\ AllZero
  /\ Answer(<<Item(arg.cols, arg.rows, "zeros", <<>>)>>)
  /\ UNCHANGED <<node, arg, reported, work, S, lim, next, printed>>

UsesSVD ==
  CASE node = "SVD"   -> ~arg.scalar
    [] node = "PINV"  -> ~OneByOne /\ ~AllZero
    [] node = "NORM2" -> ~IsVector
    [] OTHER          -> FALSE

(* xgesvd, for the SVD runner and for NORM2's own call of it; PINV's SVD   *)
(* node is run by the SVD runner.  Without convergence S may hold anything.*)
(* What the runner does with S follows.                                    *)
Decompose ==
  /\ stage = "start" /\ UsesSVD
  /\ \E a \in Answers("xgesvd") :
       LET how == xgesvd(arg.finite, a)
       IN  /\ reported' = IF arg.finite THEN Info(a) ELSE reported
           /\ \/ Leave(how)
              \/ /\ how = "returns"
                 /\ S' = [k \in DOMAIN S |-> <<arg.sv[k], 1>>]
                 /\ stage' = "gesvd" /\ UNCHANGED <<work, printed, reg>>
              \/ /\ Swallowed(how)
                 /\ S' \in [DOMAIN S -> (-MaxValue..MaxValue) \X {1}]
                 /\ printed' = TRUE
                 /\ stage' = "gesvd" /\ UNCHANGED <<work, reg>>
  /\ UNCHANGED <<node, arg, lim, next>>

SVDAnswers ==
  /\ stage = "gesvd" /\ node = "SVD"
  /\ Answer(<<Item(arg.rows, arg.rows, "U", <<>>),
              Item(arg.rows, arg.cols, "S", S),
              Item(arg.cols, arg.cols, "VT", <<>>)>>)
  /\ UNCHANGED <<node, arg, reported, work, S, lim, next, printed>>

NormAnswers ==
  /\ stage = "gesvd" /\ node = "NORM2"
  /\ Answer(<<Item(1, 1, "S", [k \in {0} |-> S[0]])>>)
  /\ UNCHANGED <<node, arg, reported, work, S, lim, next, printed>>

PinvGetsS ==
  /\ stage = "gesvd" /\ node = "PINV"
  /\ stage' = "walk"
  /\ UNCHANGED <<node, arg, reported, work, S, lim, next, printed, reg>>

-----------------------------------------------------------------------------
(* pinv_threshold of the first singular value: below it by a factor that   *)
(* the small integers leave no room for; of a negative value, negative.    *)
Threshold(first) == IF first > 0 THEN first - 1 ELSE first

AbsOf(x) == IF x < 0 THEN -x ELSE x

(* Mutant: a value on the threshold is kept.                               *)
KeepsThreshold(value) == AbsOf(value[1]) >= Threshold(S[0][1])

AboveThreshold(value) == AbsOf(value[1]) > Threshold(S[0][1])

(* Mutants: the index is unsigned; or never moves.                         *)
WalkDownUnsigned ==
  /\ stage = "walk" /\ lim >= 0 /\ ~AboveThreshold(S[lim])
  /\ lim' = IF lim = 0 THEN 2147483647 ELSE lim - 1
  /\ UNCHANGED <<node, arg, stage, reported, work, S, next, printed, reg>>
WalkNowhere ==
  /\ stage = "walk" /\ lim >= 0 /\ ~AboveThreshold(S[lim])
  /\ UNCHANGED factVars

(* From the smallest value up to the first above the threshold.            *)
WalkDown ==
  /\ stage = "walk" /\ lim >= 0 /\ ~AboveThreshold(S[lim])
  /\ lim' = lim - 1
  /\ UNCHANGED <<node, arg, stage, reported, work, S, next, printed, reg>>

WalkEnds ==
  /\ stage = "walk" /\ lim >= 0 /\ AboveThreshold(S[lim])
  /\ lim' = lim + 1
  /\ next' = 0
  /\ stage' = "invert"
  /\ UNCHANGED <<node, arg, reported, work, S, printed, reg>>

(* The safety net: no value is above the threshold.                        *)
PinvNothingLeft ==
  /\ stage = "walk" /\ lim < 0
  /\ Answer(<<Item(arg.cols, arg.rows, "zeros", <<>>)>>)
  /\ UNCHANGED <<node, arg, reported, work, S, lim, next, printed>>

InvertNext ==
  /\ stage = "invert"
  /\ IF next < lim
     THEN /\ S' = [S EXCEPT ![next] = <<@[2], @[1]>>]
          /\ next' = next + 1
          /\ UNCHANGED stage
     ELSE next' = lim /\ stage' = "zero" /\ UNCHANGED S
  /\ UNCHANGED <<node, arg, reported, work, lim, printed, reg>>

ZeroNext ==
  /\ stage = "zero"
  /\ IF next < MinMN(arg)
     THEN /\ S' = [S EXCEPT ![next] = <<0, 1>>]
          /\ next' = next + 1
          /\ UNCHANGED stage
     ELSE stage' = "multiply" /\ UNCHANGED <<S, next>>
  /\ UNCHANGED <<node, arg, reported, work, lim, printed, reg>>

(* A matrix that views S, and the product of V, it and the transpose of U. *)
PinvMultiplies ==
  /\ stage = "multiply"
  /\ Answer(<<Item(arg.cols, arg.rows, "VSU*", S)>>)
  /\ UNCHANGED <<node, arg, reported, work, S, lim, next, printed>>

FactNext ==
  \/ Reciprocal \/ SVDOfScalar \/ NormWithoutSVD
  \/ InvFactorise \/ InvInvert
  \/ PinvOfZeros \/ Decompose \/ SVDAnswers \/ NormAnswers \/ PinvGetsS
  \/ WalkDown \/ WalkEnds \/ PinvNothingLeft \/ InvertNext \/ ZeroNext
  \/ PinvMultiplies

FactSpec == FactInit /\ [][FactNext]_factVars /\ WF_factVars(FactNext)

-----------------------------------------------------------------------------
(* What the four nodes promise of a finite argument.                       *)
SingularValues == [k \in DOMAIN arg.sv |-> <<arg.sv[k], 1>>]

PseudoInverses ==
  [k \in DOMAIN arg.sv |->
     IF arg.sv[k] > Threshold(arg.sv[0]) THEN <<1, arg.sv[k]>> ELSE <<0, 1>>]

Promised ==
  CASE node = "INV"   -> reg[1].what \in {"1/x", "inverse"}
    [] node = "PINV"  -> \/ reg[1].what = "1/x"
                         \/ reg[1].what \in {"0", "zeros"} /\ AllZero
                         \/ reg[1].diag = PseudoInverses
    [] node = "SVD"   -> reg[2].diag = SingularValues
    [] node = "NORM2" -> \/ reg[1].what \in {"abs", "xnrm2"}
                         \/ reg[1].diag[0] = SingularValues[0]

(* The factorisation met no zero in a singular matrix.                     *)
LostToRounding == node = "INV" /\ Singular /\ reported = 0 /\ work = "wrong"

(* An answer that is not what the node promises comes with something       *)
(* printed, by the handlers that swallow LAPACK's errors and go on.  Two   *)
(* wrong answers do not: the singular value of a negative scalar, and the  *)
(* inverse of a singular matrix whose factorisation objected to nothing.   *)
(* The loops of PINV make no third, whatever they skip, invert and zero.   *)
WrongIsPrintedOrKnown ==
  stage = "returned" /\ arg.finite /\ ~printed =>
    \/ Promised
    \/ node = "SVD" /\ arg.negative
    \/ LostToRounding

(* Data that is not finite is only answered where no factorisation is      *)
(* needed, however the nodes use each other.                               *)
NonFiniteIsRefused ==
  stage = "returned" /\ ~arg.finite =>
    \/ OneByOne /\ (node = "SVD" => arg.scalar)
    \/ node = "NORM2" /\ IsVector

(* A call answers with all its registers or throws with none, and their    *)
(* shapes are those of the node: U S VT multiply to the argument's shape,  *)
(* inverses have it turned.                                                *)
AnswerHasTheShape ==
  /\ stage = "thrown" => reg = <<>>
  /\ stage = "returned" =>
       IF node = "SVD"
       THEN /\ Len(reg) = 3
            /\ reg[1].cols = reg[2].rows /\ reg[2].cols = reg[3].rows
            /\ reg[1].rows = arg.rows /\ reg[3].cols = arg.cols
       ELSE /\ Len(reg) = 1
            /\ node # "NORM2" => reg[1].rows = arg.cols /\ reg[1].cols = arg.rows

(***************************************************************************)
(* The inductive invariant behind the three: what is known of the node and *)
(* its argument at every point of a runner, and, as long as LAPACK has not *)
(* been overruled, what the loops of PINV have made of the singular values *)
(* so far.                                                                 *)
(***************************************************************************)
InPinv == {"walk", "invert", "zero", "multiply"}

PlaceInv ==
  /\ stage # "returned" => reg = <<>>
  /\ stage \in {"start", "getri", "gesvd"} => lim = MinMN(arg) - 1
  /\ stage = "walk" => lim < MinMN(arg)
  /\ stage = "getri" => node = "INV" /\ arg.finite /\ arg.rows = arg.cols
  /\ stage = "gesvd" => UsesSVD /\ arg.finite
  /\ stage \in InPinv => node = "PINV" /\ arg.finite
  /\ stage = "invert" => next <= lim
  /\ stage = "zero" => lim <= next

Kept(k) == arg.sv[k] > Threshold(arg.sv[0])

LoopInv ==
  ~printed =>
    /\ stage \in {"gesvd", "walk"} => S = SingularValues
    /\ stage = "walk" => \A k \in DOMAIN arg.sv : k > lim => ~Kept(k)
    /\ stage \in {"invert", "zero"} => \A k \in DOMAIN arg.sv : Kept(k) <=> k < lim
    /\ stage = "invert" =>
         \A k \in DOMAIN arg.sv :
           S[k] = IF k < next THEN <<1, arg.sv[k]>> ELSE <<arg.sv[k], 1>>
    /\ stage = "zero" =>
         \A k \in DOMAIN arg.sv :
           /\ k < lim => S[k] = <<1, arg.sv[k]>>
           /\ lim <= k /\ k < next => S[k] = <<0, 1>>
    /\ stage = "multiply" => S = PseudoInverses

FactInv == FactTypeOK /\ PlaceInv /\ LoopInv

(* Every run of a node, once begun, ends, the walk from the back of S      *)
(* included.                                                               *)
Ends == stage # "start" ~> stage \in Ended
=============================================================================
