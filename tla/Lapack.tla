-------------------------------- MODULE Lapack --------------------------------
(***************************************************************************)
(* The LAPACK wrappers of lapack.cc: how each of them leaves, given what   *)
(* the Fortran routine puts in INFO, and which catch clause sees it.       *)
(*                                                                         *)
(* An answer holds the INFO of the workspace query, for a wrapper that     *)
(* makes one, and of the call proper: negative for an illegal argument,    *)
(* positive when the numbers let no result be computed.                    *)
(***************************************************************************)
EXTENDS Integers

CONSTANT MaxDim   \* bound on the rows and columns of the matrices

ASSUME DimAssumption == MaxDim \in Nat \ {0}

Dim == 1..MaxDim

(* How a runner that calls them ends.                                      *)
Ended == {"returned", "thrown"}

Leaves == {"returns", "rdag_error", "rdag_recoverable_error",
           "rdag_unrecoverable_error"}

(* The hierarchy of exceptions.hh: rdag_error is the base of the others.   *)
Catches(clause, how) ==
  how # "returns" /\ clause \in {how, "rdag_error"}

(* The wrappers that ask for the size of the workspace first; and the      *)
(* factorisations and solvers, which may fail where the others only reject.*)
MakesQuery == {"xgesvd", "xgetri", "xgels", "xgelsd"}
MayFail    == MakesQuery \cup {"xgetrf", "xtrtrs", "xpotrf"}

(* What a query accepts the call accepts: the arguments are the same.      *)
Answers(routine) ==
  { a \in [query : {-1, 0}, final : {-1, 0, 1}] :
      /\ routine \in MakesQuery => a.final >= 0
      /\ routine \notin MakesQuery => a.query = 0
      /\ routine \notin MayFail => a.final <= 0 }

(* INFO after the wrapper: a rejected query is not followed by the call.   *)
Info(a) == IF a.query < 0 THEN a.query ELSE a.final

-----------------------------------------------------------------------------
(* Mutant: the check of the other template argument, nothing.              *)
checkNothing(finite) == "returns"

(* checkData<T, isfinite>                                                  *)
checkData(finite) == IF finite THEN "returns" ELSE "rdag_unrecoverable_error"

xgesvd(finite, a) ==
  IF checkData(finite) # "returns" THEN checkData(finite)
  ELSE IF a.query < 0 THEN "rdag_unrecoverable_error"
  ELSE IF a.final # 0 THEN "rdag_recoverable_error" ELSE "returns"

xgetrf(finite, a) ==
  IF checkData(finite) # "returns" THEN checkData(finite)
  ELSE IF a.final < 0 THEN "rdag_unrecoverable_error"
  ELSE IF a.final > 0 THEN "rdag_recoverable_error" ELSE "returns"

(* The other wrappers throw plain errors: on anything but zero, or only    *)
(* on what is illegal.                                                     *)
ThrowsUnless(good) == IF good THEN "returns" ELSE "rdag_error"

xgetri(a)    == ThrowsUnless(Info(a) = 0)
xtrcon(n, a) == ThrowsUnless(n > 0 /\ a.final = 0)
xtrtrs(a)    == ThrowsUnless(a.final = 0)
xpotrf(a)    == ThrowsUnless(a.final = 0)
xpocon(n, a) == ThrowsUnless(n > 0 /\ a.final >= 0)
xpotrs(a)    == ThrowsUnless(a.final >= 0)
xgecon(n, a) == ThrowsUnless(n > 0 /\ a.final >= 0)
xgetrs(a)    == ThrowsUnless(a.final >= 0)
xgels(a)     == ThrowsUnless(Info(a) = 0)
xgelsd(a)    == ThrowsUnless(Info(a) = 0)
=============================================================================
