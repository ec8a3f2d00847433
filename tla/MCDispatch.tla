----------------------------- MODULE MCDispatch -----------------------------
EXTENDS Dispatch, Sequences

(* Data that are all different, and no zeros among them.                   *)
MCReals(n)     == [k \in Indices(n) |-> k + 1]
MCComplexes(n) == [k \in Indices(n) |-> <<k + 2, 9 - k>>]
MCData(class, n) == IF class \in Reals THEN MCReals(n) ELSE MCComplexes(n)

MCShapes == {<<1, 1>>, <<1, 2>>, <<2, 1>>, <<2, 2>>, <<2, 3>>, <<3, 2>>}
MCLeast(s) == IF s[1] < s[2] THEN s[1] ELSE s[2]

(* Column pointers and row indices of sparse matrices: none, one or two    *)
(* entries, and a full column.                                             *)
MCPatterns ==
  {[rows |-> 2, cols |-> 2, colPtr |-> <<0, 1, 1>>, rowIdx |-> <<1>>],
   [rows |-> 2, cols |-> 2, colPtr |-> <<0, 0, 1>>, rowIdx |-> <<1>>],
   [rows |-> 2, cols |-> 2, colPtr |-> <<0, 0, 1>>, rowIdx |-> <<0>>],
   [rows |-> 2, cols |-> 2, colPtr |-> <<0, 0, 2>>, rowIdx |-> <<0, 1>>],
   [rows |-> 3, cols |-> 2, colPtr |-> <<0, 2, 3>>, rowIdx |-> <<0, 2, 1>>],
   [rows |-> 1, cols |-> 1, colPtr |-> <<0, 1>>, rowIdx |-> <<0>>]}
FromZero(s) == [k \in Indices(Len(s)) |-> s[k + 1]]

MCScalars == {Scalar(c, MCData(c, 1)[0]) : c \in Scalars}
MCDenses == {Dense(c, MCData(c, s[1] * s[2]), s[1], s[2]) : c \in Denses \ {"LOGICAL"}, s \in MCShapes}
MCLogicals == {Dense("LOGICAL", MCReals(4), 2, 2)}
MCDiagonals == {Diagonal(c, MCData(c, MCLeast(s)), s[1], s[2]) :
                c \in Diagonals, s \in {<<2, 2>>, <<2, 3>>, <<3, 2>>}}
MCSparses == {Sparse(c, FromZero(p.colPtr), FromZero(p.rowIdx), MCData(c, Len(p.rowIdx)),
                     p.rows, p.cols) : c \in Sparses, p \in MCPatterns}

(* With zeros stored, with other data, and with NaN.                       *)
MCOthers ==
  {Dense("REAL_DENSE", [k \in Indices(4) |-> IF k = 1 THEN 1 ELSE 0], 2, 2),
   Sparse("REAL_SPARSE", FromZero(<<0, 2, 2>>), FromZero(<<0, 1>>), FromZero(<<0, 1>>), 2, 2),
   Scalar("REAL_SCALAR", NaN),
   Dense("COMPLEX_DENSE", FromZero(<< <<NaN, 0>> >>), 1, 1),
   Diagonal("REAL_DIAGONAL", FromZero(<<1, NaN>>), 2, 2)}

MCTerminals == MCScalars \cup MCDenses \cup MCLogicals \cup MCDiagonals \cup MCSparses
               \cup MCOthers
=============================================================================
