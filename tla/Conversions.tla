---------------------------- MODULE Conversions ----------------------------
(***************************************************************************)
(* The ten classes of terminals (terminal.cc), how they are converted to   *)
(* dense matrices (convertto.cc), copied and compared.                     *)
(*                                                                         *)
(* A terminal is a record: its class, its dimensions, its data and, of a   *)
(* sparse matrix, the column pointers and the row indices.  Arrays count   *)
(* from 0 and indices are computed as in the source.                       *)
(***************************************************************************)
EXTENDS Numbers, FiniteSets, FiniteSetsExt

Scalars   == {"REAL_SCALAR", "COMPLEX_SCALAR", "INTEGER_SCALAR"}
Denses    == {"REAL_DENSE", "LOGICAL", "COMPLEX_DENSE"}
Diagonals == {"REAL_DIAGONAL", "COMPLEX_DIAGONAL"}
Sparses   == {"REAL_SPARSE", "COMPLEX_SPARSE"}
Reals     == {"REAL_SCALAR", "INTEGER_SCALAR", "REAL_DENSE", "LOGICAL",
              "REAL_DIAGONAL", "REAL_SPARSE"}
Classes   == Scalars \cup Denses \cup Diagonals \cup Sparses

None   == [none |-> TRUE]       \* in the place of an array a terminal has not
Throws == [class |-> "THROWS"]  \* in the place of a terminal
NoRows == << >>                \* in the place of rows of data

Indices(n) == 0 .. n - 1

-----------------------------------------------------------------------------
(* The constructors.                                                       *)
Scalar(class, x) ==
  [class |-> class, rows |-> 1, cols |-> 1, data |-> [k \in {0} |-> x],
   colPtr |-> None, rowIdx |-> None]

Dense(class, data, rows, cols) ==
  [class |-> class, rows |-> rows, cols |-> cols, data |-> data,
   colPtr |-> None, rowIdx |-> None]

(* From rows of data, and from a list of lists.                            *)
DenseFromRows(class, a, rows, cols) ==
  Dense(class, [d \in Indices(rows * cols) |-> a[d % rows][d \div rows]], rows, cols)

Diagonal(class, data, rows, cols) ==
  [class |-> class, rows |-> rows, cols |-> cols, data |-> data,
   colPtr |-> None, rowIdx |-> None]

Sparse(class, colPtr, rowIdx, data, rows, cols) ==
  [class |-> class, rows |-> rows, cols |-> cols, data |-> data,
   colPtr |-> colPtr, rowIdx |-> rowIdx]

Datalen(t) ==
  CASE t.class \in Scalars   -> 1
    [] t.class \in Denses    -> t.rows * t.cols
    [] t.class \in Diagonals -> IF t.rows > t.cols THEN t.cols ELSE t.rows
    [] t.class \in Sparses   -> t.colPtr[t.cols]

(* getType(): OGLogicalMatrix inherits that of the real dense matrix.      *)
GetType(t) == IF t.class = "LOGICAL" THEN "REAL_DENSE" ELSE t.class

IsReal(t) == t.class \in Reals

IsVector(t) ==
  /\ t.class \notin Scalars
  /\ (t.rows = 1) # (t.cols = 1)

(* The entries of column ir of a sparse matrix.                            *)
InColumn(t, ir) == t.colPtr[ir] .. t.colPtr[ir + 1] - 1

(* A terminal of a class is well formed.                                   *)
Value(t) == IF t.class \in Reals THEN Real8 \cup {NaN}
            ELSE (Real8 \cup {NaN}) \X (Real8 \cup {NaN})
WellFormed(t) ==
  /\ t = [class |-> t.class, rows |-> t.rows, cols |-> t.cols, data |-> t.data,
          colPtr |-> t.colPtr, rowIdx |-> t.rowIdx]
  /\ t.class \in Classes
  /\ t.rows \in Nat \ {0} /\ t.cols \in Nat \ {0}
  /\ t.class \in Scalars => t.rows = 1 /\ t.cols = 1
  /\ IF t.class \in Sparses
     THEN /\ t.colPtr \in [0 .. t.cols -> Nat] /\ t.colPtr[0] = 0
          /\ \A j \in Indices(t.cols) : t.colPtr[j] <= t.colPtr[j + 1]
          /\ t.rowIdx \in [Indices(Datalen(t)) -> Indices(t.rows)]
          /\ \A j \in Indices(t.cols) : \A k, l \in InColumn(t, j) :
               k # l => t.rowIdx[k] # t.rowIdx[l]
     ELSE t.colPtr = None /\ t.rowIdx = None
  /\ t.data \in [Indices(Datalen(t)) -> Value(t)]

-----------------------------------------------------------------------------
(* convertTo...: new zeros, then the data are put in their places.         *)

(* Which of the data go to each place; the last one stays.                 *)
DiagonalSources(t) ==
  [d \in Indices(t.rows * t.cols) |-> {i \in Indices(Datalen(t)) : i + i * t.rows = d}]

SparseSources(t) ==
  [d \in Indices(t.rows * t.cols) |->
     UNION {{k \in InColumn(t, ir) : t.rowIdx[k] + ir * t.rows = d} : ir \in Indices(t.cols)}]

Spread(t, sources, zero) ==
  [d \in DOMAIN sources |-> IF sources[d] = {} THEN zero ELSE t.data[Max(sources[d])]]

AsComplex(data) == [k \in DOMAIN data |-> ToComplex(data[k])]

ScalarToReal(t)   == Dense("REAL_DENSE", [k \in {0} |-> t.data[0]], 1, 1)
IntegerToReal(t)  == Dense("REAL_DENSE", [k \in {0} |-> t.data[0]], 1, 1)
DiagonalToReal(t) == Dense("REAL_DENSE", Spread(t, DiagonalSources(t), 0), t.rows, t.cols)
LogicalToReal(t)  == Dense("REAL_DENSE", t.data, t.rows, t.cols)

(* Mutant: the stride is the number of columns.                            *)
SparseToRealByCols(t) ==
  Dense("REAL_DENSE",
        Spread(t, [d \in Indices(t.rows * t.cols) |->
                     UNION {{k \in InColumn(t, ir) : t.rowIdx[k] + ir * t.cols = d} :
                            ir \in Indices(t.cols)}], 0),
        t.rows, t.cols)
SparseToReal(t) == Dense("REAL_DENSE", Spread(t, SparseSources(t), 0), t.rows, t.cols)

ScalarToComplex(t)  == Dense("COMPLEX_DENSE", AsComplex(t.data), 1, 1)
IntegerToComplex(t) == Dense("COMPLEX_DENSE", AsComplex(t.data), 1, 1)
ComplexScalarToComplex(t) == Dense("COMPLEX_DENSE", t.data, 1, 1)
DiagonalToComplex(t) ==
  Dense("COMPLEX_DENSE", AsComplex(Spread(t, DiagonalSources(t), 0)), t.rows, t.cols)
ComplexDiagonalToComplex(t) ==
  Dense("COMPLEX_DENSE", Spread(t, DiagonalSources(t), <<0, 0>>), t.rows, t.cols)
SparseToComplex(t) ==
  Dense("COMPLEX_DENSE", AsComplex(Spread(t, SparseSources(t), 0)), t.rows, t.cols)
ComplexSparseToComplex(t) ==
  Dense("COMPLEX_DENSE", Spread(t, SparseSources(t), <<0, 0>>), t.rows, t.cols)
DenseToComplex(t)   == Dense("COMPLEX_DENSE", AsComplex(t.data), t.rows, t.cols)
LogicalToComplex(t) == Dense("COMPLEX_DENSE", AsComplex(t.data), t.rows, t.cols)

(* The overload the static type of the argument selects.                   *)
ConvertToReal(t) ==
  CASE t.class = "REAL_SCALAR"    -> ScalarToReal(t)
    [] t.class = "INTEGER_SCALAR" -> IntegerToReal(t)
    [] t.class = "REAL_DIAGONAL"  -> DiagonalToReal(t)
    [] t.class = "LOGICAL"        -> LogicalToReal(t)
    [] t.class = "REAL_SPARSE"    -> SparseToReal(t)

ConvertToComplex(t) ==
  CASE t.class = "REAL_SCALAR"      -> ScalarToComplex(t)
    [] t.class = "INTEGER_SCALAR"   -> IntegerToComplex(t)
    [] t.class = "COMPLEX_SCALAR"   -> ComplexScalarToComplex(t)
    [] t.class = "REAL_DIAGONAL"    -> DiagonalToComplex(t)
    [] t.class = "COMPLEX_DIAGONAL" -> ComplexDiagonalToComplex(t)
    [] t.class = "REAL_SPARSE"      -> SparseToComplex(t)
    [] t.class = "COMPLEX_SPARSE"   -> ComplexSparseToComplex(t)
    [] t.class = "REAL_DENSE"       -> DenseToComplex(t)
    [] t.class = "LOGICAL"          -> LogicalToComplex(t)

-----------------------------------------------------------------------------
(* toArrayOfArrays: rows of data.                                          *)
ScalarRows(t) == [i \in {0} |-> [j \in {0} |-> t.data[0]]]

DenseRows(t) == [i \in Indices(t.rows) |->
                   [j \in Indices(t.cols) |-> t.data[j * t.rows + i]]]

DiagonalRows(t, zero) ==
  [i \in Indices(t.rows) |-> [j \in Indices(t.cols) |->
     IF i = j /\ i < Datalen(t) THEN t.data[i] ELSE zero]]

SparseRows(t, zero) ==
  [i \in Indices(t.rows) |-> [j \in Indices(t.cols) |->
     LET from == {k \in InColumn(t, j) : t.rowIdx[k] = i}
     IN  IF from = {} THEN zero ELSE t.data[Max(from)]]]

RowsAsComplex(a) == [i \in DOMAIN a |-> AsComplex(a[i])]

-----------------------------------------------------------------------------
(***************************************************************************)
(* What the methods of each class return: copies that own their data, in   *)
(* its own kind of number and as complex numbers, full matrices, and rows  *)
(* of reals and of complex numbers.  A class without a method inherits one *)
(* that throws.                                                            *)
(***************************************************************************)
RealScalar(t) ==
  [owning |-> Scalar("REAL_SCALAR", t.data[0]),
   complex |-> Scalar("COMPLEX_SCALAR", ToComplex(t.data[0])),
   fullReal |-> ConvertToReal(t), fullComplex |-> ConvertToComplex(t),
   reals |-> ScalarRows(t), complexes |-> RowsAsComplex(ScalarRows(t))]

ComplexScalar(t) ==
  [owning |-> Scalar("COMPLEX_SCALAR", t.data[0]),
   complex |-> Scalar("COMPLEX_SCALAR", t.data[0]),
   fullReal |-> Throws, fullComplex |-> ConvertToComplex(t),
   reals |-> NoRows, complexes |-> ScalarRows(t)]

IntegerScalar(t) ==
  [owning |-> Scalar("INTEGER_SCALAR", t.data[0]),
   complex |-> Scalar("COMPLEX_SCALAR", ToComplex(t.data[0])),
   fullReal |-> ConvertToReal(t), fullComplex |-> ConvertToComplex(t),
   reals |-> NoRows, complexes |-> NoRows]

(* Of OGLogicalMatrix too, which adds nothing to it.                       *)
RealDenseMatrix(t) ==
  [owning |-> Dense("REAL_DENSE", t.data, t.rows, t.cols),
   complex |-> Dense("COMPLEX_DENSE", AsComplex(t.data), t.rows, t.cols),
   fullReal |-> Dense("REAL_DENSE", t.data, t.rows, t.cols),
   fullComplex |-> DenseToComplex(t),
   reals |-> DenseRows(t), complexes |-> RowsAsComplex(DenseRows(t))]

ComplexDenseMatrix(t) ==
  [owning |-> Dense("COMPLEX_DENSE", t.data, t.rows, t.cols),
   complex |-> Dense("COMPLEX_DENSE", t.data, t.rows, t.cols),
   fullReal |-> Throws,
   fullComplex |-> Dense("COMPLEX_DENSE", t.data, t.rows, t.cols),
   reals |-> NoRows, complexes |-> DenseRows(t)]

(* Mutant: the copy is as long as the matrix has rows.                     *)
RealDiagonalSquare(t) ==
  [owning |-> Diagonal("REAL_DIAGONAL", t.data, t.rows, t.rows),
   complex |-> Diagonal("COMPLEX_DIAGONAL", AsComplex(t.data), t.rows, t.rows),
   fullReal |-> ConvertToReal(t), fullComplex |-> ConvertToComplex(t),
   reals |-> DiagonalRows(t, 0), complexes |-> NoRows]
RealDiagonalMatrix(t) ==
  [owning |-> Diagonal("REAL_DIAGONAL", t.data, t.rows, t.cols),
   complex |-> Diagonal("COMPLEX_DIAGONAL", AsComplex(t.data), t.rows, t.cols),
   fullReal |-> ConvertToReal(t), fullComplex |-> ConvertToComplex(t),
   reals |-> DiagonalRows(t, 0), complexes |-> NoRows]

ComplexDiagonalMatrix(t) ==
  [owning |-> Diagonal("COMPLEX_DIAGONAL", t.data, t.rows, t.cols),
   complex |-> Diagonal("COMPLEX_DIAGONAL", t.data, t.rows, t.cols),
   fullReal |-> Throws, fullComplex |-> ConvertToComplex(t),
   reals |-> NoRows, complexes |-> DiagonalRows(t, <<0, 0>>)]

RealSparseMatrix(t) ==
  [owning |-> Sparse("REAL_SPARSE", t.colPtr, t.rowIdx, t.data, t.rows, t.cols),
   complex |-> Sparse("COMPLEX_SPARSE", t.colPtr, t.rowIdx, AsComplex(t.data),
                      t.rows, t.cols),
   fullReal |-> ConvertToReal(t), fullComplex |-> ConvertToComplex(t),
   reals |-> SparseRows(t, 0), complexes |-> NoRows]

ComplexSparseMatrix(t) ==
  [owning |-> Sparse("COMPLEX_SPARSE", t.colPtr, t.rowIdx, t.data, t.rows, t.cols),
   complex |-> Sparse("COMPLEX_SPARSE", t.colPtr, t.rowIdx, t.data, t.rows, t.cols),
   fullReal |-> Throws, fullComplex |-> ConvertToComplex(t),
   reals |-> NoRows, complexes |-> SparseRows(t, <<0, 0>>)]

Methods(t) ==
  CASE t.class = "REAL_SCALAR"             -> RealScalar(t)
    [] t.class = "COMPLEX_SCALAR"          -> ComplexScalar(t)
    [] t.class = "INTEGER_SCALAR"          -> IntegerScalar(t)
    [] t.class \in {"REAL_DENSE", "LOGICAL"} -> RealDenseMatrix(t)
    [] t.class = "COMPLEX_DENSE"           -> ComplexDenseMatrix(t)
    [] t.class = "REAL_DIAGONAL"           -> RealDiagonalMatrix(t)
    [] t.class = "COMPLEX_DIAGONAL"        -> ComplexDiagonalMatrix(t)
    [] t.class = "REAL_SPARSE"             -> RealSparseMatrix(t)
    [] t.class = "COMPLEX_SPARSE"          -> ComplexSparseMatrix(t)

-----------------------------------------------------------------------------
(***************************************************************************)
(* Equality.  A comparison may read past the end of the other's data; it   *)
(* then sees beyond, whatever that is.                                     *)
(***************************************************************************)
Datatype(t) == IF IsReal(t) THEN "real8" ELSE "complex16"

HasNaN(T, x) == IF T = "real8" THEN x = NaN ELSE x[1] = NaN \/ x[2] = NaN

(* Fuzz is for rounding, which there is none of here; NaN is not even like *)
(* itself.                                                                 *)
SingleValueFuzzyEquals(T, x, y) == x = y /\ ~HasNaN(T, x)

ReadAt(data, k, beyond) == IF k \in DOMAIN data THEN data[k] ELSE beyond

ArrayBitEquals(a, b, count, beyond) ==
  \A k \in Indices(count) : ReadAt(a, k, beyond) = b[k]

ArrayFuzzyEquals(T, a, b, count, beyond) ==
  \A k \in Indices(count) : SingleValueFuzzyEquals(T, ReadAt(a, k, beyond), b[k])

FundamentalsEqual(t, u) ==
  GetType(t) = GetType(u) /\ t.rows = u.rows /\ t.cols = u.cols

(* Mutant: the row indices only.                                           *)
SameRowsOfEntries(t, u) ==
  ArrayBitEquals(u.rowIdx, t.rowIdx, Datalen(t), 0)

(* Where the entries are, looked at after the data.                        *)
SamePattern(t, u) ==
  /\ ArrayBitEquals(u.colPtr, t.colPtr, t.cols + 1, 0)
  /\ ArrayBitEquals(u.rowIdx, t.rowIdx, Datalen(t), 0)

Equals(t, u, beyond) ==
  IF t.class \in Scalars
  THEN GetType(t) = GetType(u) /\ SingleValueFuzzyEquals(Datatype(t), u.data[0], t.data[0])
  ELSE /\ FundamentalsEqual(t, u)
       /\ ArrayBitEquals(u.data, t.data, Datalen(t), beyond)
       /\ t.class \in Sparses => SamePattern(t, u)

FuzzyEquals(t, u, beyond) ==
  IF t.class \in Scalars
  THEN GetType(t) = GetType(u) /\ SingleValueFuzzyEquals(Datatype(t), u.data[0], t.data[0])
  ELSE /\ FundamentalsEqual(t, u)
       /\ ArrayFuzzyEquals(Datatype(t), u.data, t.data, Datalen(t), beyond)
       /\ t.class \in Sparses => SamePattern(t, u)

(* Equal as matrices, whatever holds them.                                 *)
MathsEquals(t, u) ==
  /\ t.rows = u.rows /\ t.cols = u.cols
  /\ IF IsReal(t) /\ IsReal(u)
     THEN FuzzyEquals(Methods(t).fullReal, Methods(u).fullReal, NaN)
     ELSE FuzzyEquals(Methods(t).fullComplex, Methods(u).fullComplex, NaN)
=============================================================================
