# OG-Maths: TLA+ models and proofs

OG-Maths evaluates matrix expressions. A Java program builds an expression of
`OGNumeric` nodes (`DOGMA.java`) and asks for its value (`Materialisers.java`).
A native method of the `jshim` library translates the expression into nodes of
the C++ library `librdag`, which linearises it, hands each node to a runner
(mostly a call of LAPACK or BLAS) and returns the value of the root, which
`jshim` turns into a Java object. The native libraries themselves are found,
extracted and loaded by `NativeLibraries.java` when the first class is touched.

This directory models the parts of that path where order, failure and shared
state decide whether the answer is right, checks them with TLC and proves the
properties that matter most with TLAPS. Paths below are relative to `src/` of
the repository unless they start with `.../`, which stands for the Java
package `com/opengamma/maths`.

## 1. Inventory

| Component | Source | State | Operations | Interacts through | Modelled |
|---|---|---|---|---|---|
| expression nodes | `librdag/expressionbase.cc` | arguments (fixed), registers (grow) | constructors, `getArgs`, `getRegs` | shared pointers; registers written by runners | `ExprTree` |
| execution list | `librdag/execution.cc` | two stacks, a direction, the list | constructor (a traversal), iterators | built by `entrypt`, `runtree` | `ExecutionList` |
| evaluation | `librdag/entrypt.cc`, `runtree.cc`, generated `Dispatcher` (`generator/dispatchtemplates.py`) | position on the list, registers of all nodes | `entrypt`, `runtree`, `dispatch` | calls runners; exceptions unwind it | `Evaluation`, `Dispatch` |
| runners with control flow | `librdag/runners/mldividerunner.cc`, `lurunner.cc`, `invrunner.cc`, `pinvrunner.cc`, `svdrunner.cc`, `norm2runner.cc` | work buffers of one call | `run` for each terminal type | LAPACK; push results on registers | `Mldivide`, `TriangularProbe`, `LuRunner`, `Factorisations` |
| other runners | `mtimesrunner.cc`, `transposerunner.cc`, `ctransposerunner.cc`, the generated ones (`generator/runnertemplates.py`) | none | `run` | kernels of `izy.cc`, BLAS | `Dispatch` |
| terminals | `librdag/terminal.cc`, `numericbase.cc` | data, shape, ownership | constructors, copies, dense forms, destructors | shared pointers | `Terminals`, `Conversions` |
| conversions, equality | `convertto.cc`, `equals.cc`, `iss.cc` | none | pure functions | called by the dispatcher and runners | `Conversions` |
| LAPACK wrappers, exceptions | `lapack.cc`, `exceptions.cc` | none | workspace query, call, `info` to exception | exceptions | `Lapack` |
| expression translation | `jshim/exprfactory.cc`, `generator/createexprtemplates.py` | two stacks, operand stack, JNI local references | `createExpression` | JNI; binds terminals | `ExprFactory` |
| native methods | `jshim/jshim.cc`, `jterminals.cc`, `jbindings.cc`, `jdispatch.cc` | bound arrays, pending Java exception, C++ exception | four materialise methods | JNI both ways | `JniCall` |
| JVM manager | `jshim/jvmmanager.cc` | the JVM, class, method and field ids | `JNI_OnLoad`, checked JNI calls | JNI | `Startup`, `JniCall` |
| native loader | `.../nativeloader/NativeLibraries.java`, `jinitialise/probeinstructionset.c` | flags, a temporary directory, libraries loaded | `initialize` | file system, CPUID, `System.load` | `Startup` |
| Java builders | `.../DOGMA.java`, `materialisers`, `helpers` | none but static initialisation | `DOGMA` functions | start the loader, call native methods | `Startup`, in part |
| Java containers | `.../datacontainers` | arrays, sparse forms | constructors | the native methods | no |
| memory block and write buffer | `.../mem`, `librdag/mem.cc`, `jshim/jmem.cc` | address, position, freed flag | reads, writes, `free` | native memory | no |
| fuzzer | `.../fuzzer` | thread pool, counters | `fuzz` | Java threads | no |
| generators, `combine.py` | `generator`, `combine` | none | build-time | | no |

What is hard:

* **Sharing.** An expression is a graph: a node may be an argument of several
  nodes, and be listed and run once for each use. Nothing clears a register,
  so the second run appends to what the first one left, and so does a second
  evaluation, or one that follows an evaluation which threw half way.
* **Reads nobody checks.** The dispatcher reads register 0 of each argument and
  `SELECTRESULT` indexes registers with no test. Only the order of the list
  and the number of results of each runner keep these reads defined.
* **Types chosen at run time.** Ten classes of terminals, and overloads nobody
  wrote that convert their arguments and try again: sparse, diagonal, integer and
  logical data are spread over dense arrays with hand-made indices.
* **Ownership by convention.** A terminal holds raw pointers and a flag that
  says whether to delete them. Nothing counts references to the data.
* **Failure inside LAPACK.** `mldivide` tries up to five methods in place on
  two buffers. Every fallback depends on what the failed attempt left there.
  `inv`, `pinv`, `svd` and `norm2` print such failures and go on.
* **Two kinds of exception.** A Java exception pending in the JNI environment
  does not stop C++ code; `checkEx` turns it into a C++ exception by clearing
  it. Wrappers that throw before clearing leave both in flight, and the
  destructors of the terminals call into the JVM while the stack unwinds.
* **Loading from static initialisers.** Classes touched by any thread start the
  loader while the JVM holds their initialisation lock. Any step may fail, and
  the next class starts over with what the failed attempt left.

Correctness, component by component: a list with inputs first that is the
post-order walk; evaluation that never reads an undefined register, returns
the value of the expression and behaves as if every node were computed once;
an overload that gives, for every pair of classes, what the operation on matrices
gives; data freed once, and by its holder only; `mldivide` that solves the system
it was given, once, with a matrix of the right shape; `lu` whose factors multiply
to the argument; no wrong answer from `inv`, `pinv`, `svd` and `norm2` without a
warning, but for two cases that are named; a translation with operands in order and no reference lost; a native
call that hands Java an answer or an exception and the JVM its arrays; no class
ready before its library is linked, no mix of the libraries of two attempts, and nobody
waiting for ever. `PROJECT.json` lists each hazard at its
line with the properties aimed at it.

## 2. Modules

| Module | Models | EXTENDS / instantiates |
|---|---|---|
| `ExprTree` | what a well-formed expression graph is | |
| `ExecutionList` | `execution.cc`: one action per iteration | `ExprTree` |
| `Evaluation` | `entrypt`, `runtree`, the dispatcher, `SELECTRESULT`; the refinement mapping | `ExecutionList`, `DataflowEval` |
| `DataflowEval` | abstract: every node computed once, from its arguments | `ExprTree` |
| `MCTrees`, `MCEvaluation` | all small graphs, a runner for TLC | `Evaluation` |
| `Numbers` | two finite fields in the place of `real8` and `complex16` | |
| `Conversions` | the classes of terminals, `convertto.cc`, the forms they are handed out in, equality | `Numbers` |
| `Dispatch`, `MCDispatch` | the choice of an overload and the runners without control flow | `Conversions` |
| `Terminals`, `MCTerminals` | who owns the memory of terminals | |
| `Lapack` | how the wrappers leave for each `INFO`, and which `catch` sees it; the bound on dimensions | |
| `Mldivide` | `mldivide_dense_runner` | `Lapack` |
| `TriangularProbe` | `isTriangular` and its two helpers | |
| `LuRunner` | the row bookkeeping of `lu_dense_runner` | |
| `Factorisations` | `inv`, `pinv`, `svd` and `norm2` runners | `Lapack` |
| `MCRunners` | the four above, one at a time | `Mldivide`, `TriangularProbe`, `LuRunner`, `Factorisations` |
| `ExprFactory`, `MCExprFactory` | `createExpression` | `ExprTree`, `MCTrees` |
| `JniCall` | the life of one native materialise call | |
| `Startup`, `MCStartup` | the loader, class initialisation, `JNI_OnLoad` | |
| `Evaluation_proofs`, `Factorisations_proofs`, `Dispatch_proofs`, `Terminals_proofs`, `ExprFactory_proofs`, `JniCall_proofs`, `Startup_proofs` | theorems about the module they are named after | that module |
| `Runners_proofs` | theorems about `Mldivide`, `TriangularProbe` and `LuRunner` | those three |

Each module has, after its properties or next to the operator they change, a
few *mutants*: forms of an operator with a plausible bug, used to confirm that
the properties would notice it. They are not part of any specification.

Where a module has an inductive invariant (`EvalInv`, `MldivideInv`, `FactInv`,
`DispatchInv`, `TerminalsInv`, `FactoryInv`, `CallInv`, `StartupInv`), the run
checks that one formula; its parts, the type invariant among them, are named
definitions beside it and have comments of their own.

### ExprTree, ExecutionList, Evaluation

`tree` is the graph. It has no cycles because a constructor takes arguments that
are finished and never changed (`Acyclic`: among any nodes there is one whose arguments
are not among them). `treePos`, `argPos`, `dir` and `execList` are the local
variables of the constructor in `execution.cc`; `ListTerminal`,
`DescendFirstArg`, `DescendNextArg` and `ListExpr` are the four branches of its
loop. `regs` are the registers of the nodes, `next` the iterator of the loop in
`entrypt`. `Call` and `CallOnTerminal` are the start of `entrypt` and
`runtree`; `PassTerminal`, `DispatchRunner` and `DispatchSelect` one iteration
of the dispatch loop; `DispatchThrows` a runner's exception, or the default
branch of the dispatcher (`COPY`); `Return` the end of both functions.

A runner is the constant operator `Results(kind, operands)`: any function from
the values of its operands to a sequence with at least as many values as the
kind pushes (`ResultsAssumption`). Runners are functions of their operands in
the code too; nothing in `librdag` keeps state between runs. What they compute is
the subject of `Dispatch`, `Mldivide`, `LuRunner` and `Factorisations`. `ExprTree`
assumes that an index of `SELECTRESULT` is one of the results of what it selects
from, as in all its callers (`SVD.java`, `LU.java`, `pinvrunner.cc`); the code
does not check it.

`DataflowEval` says what evaluation promises: a node gets its results once, some time
after its arguments have theirs, and keeps them; a call ends with the first result of its
argument or with an error. The mapping in `Evaluation` (`Promise`) takes the first block
of a node's registers for its results; running a shared node again is a
stuttering step.

### Numbers, Conversions, Dispatch

A terminal is a record of its class, dimensions, data and, if it is sparse, column
pointers and row indices, all counted from 0 as in the source. `ConvertToReal`
and `ConvertToComplex` have one case per overload of `ConvertTo`; `Methods` are
the ways a terminal is handed out (`toReal8ArrayOfArrays`, the owning copies, the
full matrices), with the ones that throw; `Equals`, `FuzzyEquals` and
`MathsEquals` the three comparisons. `Dispatch` has the generated
`DispatchUnaryOp` and `DispatchBinaryOp`, with the conversion of what has no
runner (`TypeToConvertTo`), and the runners: infix, prefix, one function for all
elementwise functions, products, the two transposes, and operations with no
runner at all. A chain of operations, conversions and copies starts from any two
terminals.

Numbers are elements of the field of 11 elements and pairs of them, so that an
index that is off or an operand pair that is swapped changes the result and
sums stay exact. Rounding, infinities, negative zero and the arithmetic
of NaN are left out; NaN is a value that is compared but not computed with.

Facts met on the way, that no property calls wrong: two arrays with the same NaN
bits are `equals` though two NaN scalars are not; unary operations convert real
diagonal, sparse and integer terminals to complex ones (the `FIXME` at
`generator/dispatch.py:126`), which the real row form then refuses, and
`RealStaysReal` says that nothing else does; integer scalars, real diagonal and
real sparse terminals cannot be handed out as complex rows until something has
been computed from them.

### Terminals

`heap` says what each block of memory holds, `client` which blocks the code outside
the terminals has to free, `term` the terminals that exist. `Create` is any
constructor from raw pointers, as viewer or owner; `ConstructorThrows` the
destruction of the base class when it meets a null pointer; `Copy`, `OwningCopy`,
`AsFullMatrix` and `ToArray` the copies; `Drop` the end of the last reference. A
freed block may be handed out again at once, so a stale pointer does not show
by where it points: `made` remembers what a terminal was made from.

### ExprFactory

The same traversal over Java objects, with an operand stack. `built` is the
heap of nodes made so far and `exprStack` holds indices into it, so that two
uses of one node can be told from two nodes. Every descent hands out a new local reference
(`lastRef`); `live` are those not deleted.

### JniCall

The action names follow the code from top to bottom: `BindStep`, `StepFails`
and `FinishLeaf` are a terminal's constructor (`jterminals.cc`,
`jbindings.cc`), in any order of its arguments, which C++ does not fix;
`VisitFails`, `ArgsAreNull` and `NodeThrows` are the failures of
`createExpression`; `NoSuchForm`, `NewArrayFails`, `TerminalNotMade`,
`ContainerNotMade` and `Delivered` are the ways `jdispatch.cc` and `jshim.cc`
finish the answer; `ReleaseLeaf` is a terminal's destructor and `Report` the
catch handlers. `bound` is the set of arrays the JVM has handed out, so what is in
it when the call is `back` in Java has leaked. The destructors of
the terminals may run in any order.

### Lapack, Mldivide, TriangularProbe

`Lapack` gives for each wrapper and each pair of `INFO` values (of the workspace
query and of the call) the exception it leaves with. A negative `INFO` is an
illegal argument, a positive one a numerical failure.

`Mldivide` models what the buffers `data1` and `data2` hold (the argument, a
row permutation of it, a factor, or leavings) rather than numbers.
`Solved` says which pairs of contents give a solution. What LAPACK answers is
nondeterministic where it depends on the numbers: a condition number is good or
lost, a factorisation works or not, an argument is called illegal. Two facts of
LAPACK are used: `xgels` has overwritten B when it reports rank deficiency, unless
the system is underdetermined; and it reports none for a matrix of zeros, which it answers
at once, nor for a single row or column, whose triangular factor is its norm. `anorm`
says whose norm a condition number is estimated with: A's, except for Cholesky,
which takes the norm of its own factor (`mldividerunner.cc:719`;
`ConditionIsOfA` allows that and nothing else). A condition number that is NaN is not modelled.
For a matrix of zeros an answer of infinities with the shape of B is pushed, and the
runner goes on to a second one (`mldividerunner.cc:492`, see the findings below).
`OneAnswerUnlessZeros` therefore promises one register, of the shape of X, for all other
systems; of zeros it says that register 0, the one consumers read, is the infinite one,
of the shape of X only when the system is square.

`TriangularProbe` checks the one part of the runner that is a pure algorithm, over
matrices whose entries are 0, 1 or something else.

### LuRunner

The entries of the factored matrix are named by their position, so a result is
right when the right name stands in the right place. The loop that applies the
interchanges to `perm` is a step each; L and U are read off when it is done.
Which interchanges `xgetrf` makes is left open: row `i` with any row not above it.

### Factorisations

A matrix is its shape and its singular values, small integers that stand for
magnitudes which the rounding threshold tells apart. Each runner is a few steps: the
shortcuts for numbers, vectors and zeros, the call of LAPACK with the handler
around it (`Leave` or `Swallowed`), and for `pinv` the three loops over the singular
values, one iteration a step: down to the last value above the threshold
(`WalkDown`), inverting those before it (`InvertNext`), zeroing the rest
(`ZeroNext`). An SVD that did not converge may leave anything in S.

Facts met on the way: an SVD that did not converge, and an `inv` whose factorisation
reports a singular matrix, are answered all the same, with a line on `cerr`. Two wrong
answers are not printed, and `WrongIsPrintedOrKnown` names them: the SVD of a negative
scalar, which has a negative singular value (`svdrunner.cc:68`), and the inverse of a
singular matrix of which `xgetrf` reports nothing, because rounding left no exact zero on the
diagonal (`invrunner.cc:102-116`). `xgetrf` reports only singular matrices, but it need not
report one, and `Inverted` says what is handed out then.

### Startup

`classState`, `touched` and `pc` are what the JVM keeps of class initialisation:
a class is initialised once, by the first thread that touches it, while others wait;
when its initialiser fails it stays erroneous. `monitor` is the lock of the
`synchronized` method `initialize`. `Enter` to `Finish` are its steps in
order, each with its failures; `OnLoad`, `RegisterReference` and `OnLoadReturns` are
`JNI_OnLoad` of `jvmmanager.cc`, during the load of the last library. `world` is
the platform, the command line and the features of the CPU, chosen once.

What the probe finds does not depend on that CPU. `probeinstructionset.c` passes the leaf to
`cpuid` with the constraint `"0"`, which is the register of the output, ECX in the first
call and EBX in the second (lines 105-108 and 113-116); `cpuid` reads EAX, which nothing
sets. So the bits that are tested may be those of any leaf, and `ChooseInstructionSet`
takes any of them (`Probed`), anew at each attempt. The properties of `Startup.cfg` hold
whatever is found; that the CPU can run it is not among them, and is a finding below.

Facts met on the way: every failed attempt leaves its directory and its
`jinitialise` behind, and the next one loads it again from a new directory; `load`
catches `Exception`, so an `UnsatisfiedLinkError` of `System.load` passes
unwrapped; the properties of 32-bit Windows have lists for `dbg` and `std` only, so
when SSE4.1 or more is chosen nothing is loaded and `initialize` succeeds (`LinkedFor` names
this case); the Javadoc names the key `configfileloc` where the code reads `configFile`;
the probe does not ask whether the operating system saves the AVX registers (OSXSAVE).
Not in the model: the `exit(-1)` when the enum cannot be read, and the two linker shims. The
initialisers of the container classes do not touch `DOGMA` or `Materialisers`, so that
`FindClass` inside `JNI_OnLoad` waits for no lock.

## 3. Runs

| Run | Bounds | Question |
|---|---|---|
| `Evaluation` | 3 expressions of six kinds over a matrix and an integer; 2 calls (1 for graphs with a unary node or an SVD) | is the list in order, are the answers right when calls repeat, overlap in nodes and fail, and does it implement `DataflowEval`? |
| `Runners` | dimensions 1 to 3, the probe's matrices of order up to 3, singular values 0 to 2; `lu` up to 5 rows and columns | does the chain of fallbacks of `mldivide` work on the right data, end, and answer once; is the probe right on all matrices; are U and L right; are wrong answers of the other runners printed, and of the right shape? |
| `Dispatch` | 39 terminals of all ten classes, chains of 2 steps | does every pair of classes reach an overload that gives the right matrix; do all forms of it agree? |
| `Terminals` | 6 blocks, 2 terminals, 2 contents | is everything freed, once, and by its holder? |
| `ExprFactory` | 3 expressions of four kinds | is the translation faithful and are references kept right? |
| `JniCall` | 3 terminals of four kinds | what is left behind, and what does Java see, after any failure? |
| `Startup` | 2 threads, 2 classes, 2 touches each, 3 references; 3 platforms, 4 command lines, any result of the probe | is a ready class linked; does anyone wait for ever? |

Why the bounds suffice. Three expressions include a chain, a node shared by
both arguments of another, a node shared at different depths, and a result
selected from a shared multi-result node; two calls include a call after a
failed call and a call on a part of what was evaluated before. Graphs with a unary
node or an SVD are given one call: they differ from those with a binary node or an
`LU` in the number of arguments or results only.
Dimensions up to 3 give every order of two different numbers, and overdetermined
systems of more than one column, which can be short of rank; nothing in the runners depends
on more; the proofs about `Mldivide`,
`Factorisations`, the probe and `Dispatch` cover all sizes, those about `Evaluation`
and `ExprFactory` all graphs. Singular values 0, 1 and 2 give values above, on and below the
threshold and S with none, some and all of them to be zeroed. The probe's conditions are
about pairs of rows and columns and a permutation. Five rows have cycles longer
than the four at which L first goes wrong. The terminals of `MCDispatch` have data
that are all different, wide, tall and square shapes, sparse patterns with an empty,
a full and an unordered column, and stored zeros; two steps are an operation on the
result of any other one, or a conversion before or after one. Two terminals of up to three blocks
each are a copy and its original, with no room left, so that freed blocks are handed out again.
Three terminals in a call include one with an exception met by the destructor before, and one after.
Two threads and two classes include one thread waiting for the class another
initialises and for the monitor, and an attempt after a failed one; the proofs
about `Startup` cover any number.

`CHECK_DEADLOCK FALSE` is given where the system really stops: a computation
that is over, or the bound on the number of calls. `JniCall` and `Terminals`
could go on for ever, and `JniCall` is checked for deadlock; in `Terminals` memory
may be full of what the client never frees.

### What each property is for

| Run | Property | Says |
|---|---|---|
| `Evaluation` | `EvalInv` | arguments are listed before their node, and all that the iterator has passed has whole blocks of registers |
| | `ListIsPostOrder` | the traversal with two stacks is the recursive walk |
| | `ReadsAreDefined` | no register is read that was not pushed |
| | `EvaluationIsPure` | registers repeat one block, and `entrypt` answers with the value of the expression, whatever earlier or failed calls left |
| | `EveryCallEnds` | every call ends |
| | `ImplementsDataflow` | refinement of `DataflowEval` |
| `Runners` (`mldivide`) | `MldivideInv` | what both buffers hold in every attempt, least squares on A itself with room for X, condition numbers of A |
| | `WrongOnlyAsKnown` | the system is solved but for the two cases of the finding below |
| | `OneAnswerUnlessZeros` | of a system that is not zeros, one answer of the right shape, or none and an exception; of zeros, infinities in register 0 |
| | `FallbacksGoDown` | no failure leads back to an earlier method |
| | `RejectionEscapes` | no handler answers what LAPACK called illegal |
| (`mldivide`'s probe) | `ProbeIsExact` | the solver is given a triangle, and no triangle is missed |
| (`lu`) | `ShortCyclesGoHome`, `UIsUpperTriangle` | L is right where interchanges close within three rows; U is right |
| (`inv`, `pinv`, `svd`, `norm2`) | `FactInv` | at every place of a runner, what is known of the argument and what the loops of `pinv` have made of S |
| | `WrongIsPrintedOrKnown` | a wrong answer is printed about, but for the SVD of a negative number and the inverse of a singular matrix LAPACK reports nothing of |
| | `NonFiniteIsRefused`, `AnswerHasTheShape`, `Ends` | infinities and NaN are only answered where nothing is factorised; shapes fit; the walk ends |
| `Dispatch` | `DispatchInv` | between operations: well-formed terminals, right values, numbers only where it goes on, one of four classes out of a runner |
| | `ValueIsDenoted` | the overload reached computes what the operation on matrices gives, and throws exactly where there is nothing to give |
| | `RealStaysReal`, `ViewsAgree` | reals stay reals; all forms show the same matrix |
| | `EqualityIsSound` | the three comparisons are symmetric, nest, and do not depend on what lies beyond the shorter array |
| `Terminals` | `TerminalsInv` | no block is lost or held twice; owners keep their data |
| | `OnlyHoldersInvalidate` | a view goes stale only when the holder of its blocks lets go |
| `ExprFactory` | `FactoryInv` | the objects visited are a path, the references held are theirs and the terminals', every node has one owner |
| | `FaithfulTree`, `StackDiscipline` | operands in order, nothing shared, one root, no reference left |
| | `BackingRefsLive`, `Ends` | the reference behind a terminal is live and its own; translation ends |
| `JniCall` | `CallInv` | at every place of a call, which arrays are still to be handed back |
| | `ArraysComeBack` | all are, but those of one terminal when the conversion or the JVM failed |
| | `AnswerOrException`, `EveryCallReturns` | Java gets one of the two, and control back |
| `Startup` | `StartupInv` | one thread inside the loader, and what it has done so far |
| | `ReadyIsLinked` | ready classes are linked with all references |
| | `OneSetLoaded` | what is loaded was extracted, and is the choice of one attempt and of the command line, however many attempts failed |
| | `InitialisedOnce`, `TouchesEnd` | nothing is loaded twice; nobody waits for ever |

### What the code does not do

Five runs are expected to end in a violation. Each states what a comment, a Javadoc or a
test of the repository says.

* `Mldivide_LeastSquaresGetsTheSystem`: a least squares solver is given a right-hand
  side that is not B. An ill-conditioned row-permuted triangle is handed to it with
  A restored and B still permuted (`mldividerunner.cc:666`); and when QR finds a square or
  overdetermined system rank deficient, SVD gets the B that QR overwrote
  (`mldividerunner.cc:917`). A square system gets to QR only by a failed triangular solve
  or a factorisation that fails, so the second is in practice the overdetermined case.
* `Mldivide_ZerosReturnAtOnce`: "quick return if so" says the comment at the test for a matrix
  of zeros (`mldividerunner.cc:492`); the branch does not return, and a second answer is pushed
  behind the infinite one.
* `LuRunner_product`: rows that the interchanges move in a circle of four or
  more are misplaced in L (`lurunner.cc:127`).
* `JniCall_complex`: `materialiseToJComplexArrayContainer` does not check its
  last `NewObject`; the destructors then clear the exception and Java gets
  `null` (`jshim.cc:303`).
* `Startup_LoadedRunsHere`: "call with 0x1" says the probe of its `cpuid`
  (`probeinstructionset.c:107`), which gets the leaf in ECX and reads EAX; on a CPU without any
  extension the library for SSE4.1 may be chosen and loaded. One thread and one class are
  enough for this run.

The passing runs state what is left of these: `WrongOnlyAsKnown` that the
answer of `mldivide` is wrong in no other case, `OneAnswerUnlessZeros` that no other system gets
two, `OneSetLoaded` that only one choice of the probe is ever loaded, `ShortCyclesGoHome` that L is right for all
shorter cycles, `AnswerOrException` that the other methods never return `null` silently.

## 4. Fairness

`Evaluation` and `Runners` (`MCSpec`), `ExprFactory` and `JniCall` assume weak fairness of the steps of a call that has begun, and of nothing else:
the code runs on its caller's thread, takes no lock and waits for nothing, so a call
that can take a step takes one. No fairness is assumed of callers.
`Startup` assumes weak fairness of each thread's steps after it has touched a
class, not of touching one. Weak is enough for the lock of a class, which once free
stays free; for the monitor it is enough because a thread that gets past the check of
`s_initialized` does so a bounded number of times, there being one attempt for a class.
The proofs are about safety and use no fairness.

## 5. Proofs

Eight modules, each for every value of the constants of the modules it extends. All but
the liveness properties of the passing runs are theorems. Each proof starts
from the inductive invariant that its run checks, or from one beside the proof where
it needs notions only the proof has.

Graphs, sums and lists are defined by recursive functions, whose meaning at an argument is
the equation they are defined by only once a function that satisfies it is shown to
exist. The library's induction theorems cannot be used for that, and are not: the
argument is always a least counterexample, the first number for which
there is no sum, or, among the nodes of a graph for which something fails, the one
`Acyclic` gives, whose arguments are all outside the set.

`Evaluation_proofs`, for every set of nodes, every set of well-formed graphs,
every value set, runner and number of calls (assumptions `TreeAssumption`,
`ValueAssumption`, `ResultsAssumption`):

* `InvariantHolds`: `Spec => []EvalInv`. `ReadsAreDefined` is not inductive by
  itself. `EvalInv` adds why it holds. The stack of the traversal
  is a path in the graph (`IsPath`), what is to the left of every position on it is
  listed (`LeftIsListed`), and a traversal on its way up has just listed what the top points
  at (`TopIsConsistent`); so when an expression is listed its arguments are. The
  list is in order (`InputsFirst`), the root is at the bottom of the stack or
  listed, every entry the iterator has passed has registers (`PassedAreReady`),
  and nobody has some of its registers only (`WholeBlocks`). The proof has one step for each
  action, over lemmas about pushing and popping both stacks.
* `TypeCorrect`, `ListIsInOrder` and `NoUndefinedRead` follow from it.
* `ListIsTheWalk`: `ListIsPostOrder`. Every node has one walk. By `OrderInv` what is listed, at
  any time, is the walks of the arguments to the left of each node on the stack, from
  the bottom up, and the top's own when the traversal is on its way up; so each branch
  of the loop adds the piece that is due.
* `EvaluationIsAFunction`: `EvaluationIsPure`. By `PureInv` registers are whole
  repetitions of the block the node denotes, and what a runner reads from its arguments'
  first registers is what they denote, whoever pushed it and however often.
* `EvaluationRefinesDataflow`: `Spec => ImplementsDataflow`. Listing and running a node
  again are stuttering steps, the first run of a node computes it, and both
  ends of a call map to its end; one step for each action.

`Runners_proofs`, for matrices of every size (`DimAssumption`, `OrderAssumption`,
`SizeAssumption`) and every answer of LAPACK. First `Mldivide`:

* `InvariantHolds`: `Spec => []MldivideInv`. Whether an answer is right depends on
  what the buffers hold when it is returned; `BuffersFit` says that for
  every attempt, whatever was tried before, `Progress` which flags an attempt
  finds set. One lemma per attempt.
* `OnlyTwoWrongs` and `AnswersOnce` follow from it; `FallbacksEnd` and
  `IllegalEscapes` are action properties, proved from it step by step.

Then `LuRunner`:

* `NoRowIsLost`: `perm` stays a permutation (`LuInv` is inductive).
* `ShortCyclesAreRight`: by `LRowIsInverse`, `LRow` inverts `perm` wherever a
  cycle closes in three steps.
* `UIsRight`: the two copying loops make the upper triangle.

And `TriangularProbe`:

* `ProbeIsAlwaysExact`: `ProbeIsExact`. What is declared a triangle is one: with an empty
  upper part it is lower as it stands (`LowerIsSound`); otherwise the first nonzero
  entries of the rows are in all columns, so in different ones, because a finite set
  maps onto one of its size only one to one (`OntoIsOneToOne`), and the rows in that order
  are an upper triangle (`UpperIsSound`). And none is missed: where some order of
  the rows gives a triangle that can be solved, the first nonzero entries are in all columns
  (`UpperIsFound`).

`Factorisations_proofs`, for every shape and every vector of singular values
(`DimAssumption`, `ValuesAssumption`):

* `FactorisationInvariant`: `Spec => []FactInv`. `PlaceInv` says what is known of the
  argument at each place of a runner (only finite ones reach LAPACK), `LoopInv` what the
  three loops of `pinv` have made of S, unless an SVD that did not converge was printed
  about: what the walk passed is below the threshold, what was inverted is above it.
* `WrongOnlyWhereNamed`, `NothingNonFiniteIsFactorised` and `AnswersHaveTheShape`:
  they hold of what is pushed on the register, so each is proved step by step.

`Dispatch_proofs`, for any set of well-formed terminals, of any dimensions and with
any data, and chains of operations of any length (`DispatchAssumption`):

* `DispatchInvariant`: `Spec => []DispatchInv`, and `OperationsMeanWhatTheySay`, its
  part `ValueIsDenoted`. The way there is the code's own. A place in column
  order has one row and one column, and the other way round (`Places`, `EveryPlace`).
  A terminal `Shows` another if it holds the same matrix; every conversion makes a full
  matrix that does (`FullOf`, `ConvertToRealIsRight`, `ConvertToComplexIsRight`), by the
  entry each datum is spread to and by the fact that a place of a sparse matrix
  gets one datum. Every runner is `Sound` on dense or scalar operands: what it
  returns is the matrix that is denoted, or nothing (`InfixIsRight`, `MtimesIsRight`,
  `TransposeIsRight`, ...). `DotAsInComplex` says that a product computed with reals is
  the complex one, and similar facts that every kernel may be swapped for
  its complex form; so it does not matter which type the dispatcher converts to. Last,
  `EvalUnaryIsRight` and `EvalBinaryIsRight` put conversion and runner together.
  The chain can go on because what goes on is finite and of a known class.
* `RealsStayReal`: from the invariant, which remembers that what must be real is.
* `AllViewsAgree`: rows show the matrix of the terminal, and a full matrix read back from them is
  `fullReal` or `fullComplex`, by class (`RowsAre`, `ReadBack`): dense terminals that mean
  the same are the same (`SameDense`).
* `EqualityIsAlwaysSound`: `equals` and `fuzzyequals` hold of terminals that are `Alike`, of one
  type with the same in every array, whatever is read beyond the shorter one
  (`ComparingIs`: data are compared before the column pointers, but the conjunction
  is false when the lengths differ); `mathsequals` holds of equal matrices of numbers
  (`MathsEqualsIs`). NaN as data is part of both.

The proof found that two guards of the model's `ConvertArg` overlapped, so that its `CASE`
had no definite value for a dense matrix asked for in its own type; it is an
`IF` now, as the one that writes the conversion (`generator/dispatch.py:171`).

`Terminals_proofs`, for any memory, any number of terminals and contents
(`TerminalsAssumption`):

* `InvariantHolds`: `Spec => []TerminalsInv`. That nothing is lost and that nothing
  is held twice are inductive only together, and that owners keep their data needs
  both: a block that is freed or given out is no owner's. `NoLeak`, `NoDoubleFree`
  and `CopiesAreIndependent` name its parts.
* `ViewsLastAsLongAsHolders`: an action property, by cases on who changes the heap.

`ExprFactory_proofs`, for every graph of Java objects (`TreeAssumption`):

* `FactoryInvariant`: `Spec => []FactoryInv`. The objects visited are a path down the graph;
  the references not deleted are those of the path and of the terminals made
  (`RefsHeld`), and no two of them are the same; every node made belongs to one operand list,
  to the operand stack or is the answer (`Owned`). The last is what lets an operator
  take its operands without copying them.
* `TerminalsKeepTheirRefs`: `BackingRefsLive`, from `RefsHeld`.
* `TranslationIsFaithful` and `OperandsAreOnTop`: `FaithfulTree` and `StackDiscipline`.
  The operand stack is, at any time, what each object on the path has finished,
  from the root down, one after the other; so the operands of the object on top are the
  last ones, in order, and when the last visit is over one node is left.

`JniCall_proofs`, for expressions with any number of terminals
(`LeavesAssumption`), any order of a constructor's arguments and of the destructors:

* `InvariantHolds`: `Spec => []CallInv`. Besides the types, `CallInv` says at every
  place of the method which bound arrays still have a destructor to release them:
  while converting, all but those of the constructor under way (`WhileConverting`);
  while unwinding, all but those of one terminal (`OneLeafLost`), and all of
  them as long as an exception of the JVM is pending (`WhileUnwinding`). The last
  is what makes `ArraysComeBack` inductive: the destructor that clears the
  exception loses its arrays, and the invariant says that none were lost before.
* `TypeCorrect`, `ConversionMeetsNoException`, `DestructorsFindTheirArrays`,
  `ArraysAreReleased` and `JavaIsAnswered` follow from it.

`Startup_proofs`, for any number of threads, classes, touches, references,
platforms and command lines, whatever the probe finds (`BoundsAssumption`; `NoneAssumption`,
that `None` names no thread or class):

* `InvariantHolds`: `Spec => []StartupInv`. By `Alone` the holder of the monitor
  is the one thread inside the loader, so that what it finds is what it left
  in the stage before: flags (`Flags`), files (`OnDisk`), references
  (`Registered`). Everything an earlier attempt left only adds to that. Three lemmas
  say how a step inside ends (`GoesOn`, `Fails`, `Returns`), and each
  action is one of the three.
* `ReadyMeansLinked` follows, and `LastAttemptIsLoaded`. The latter needs `LoadedLast`: the
  library of an instruction set is loaded by the last step of an attempt that may fail, so
  as long as another attempt may follow and choose otherwise nothing but copies of
  `jinitialise` is loaded (`NotYetLinked`, `LoadedStays`). `LoadsOnce` because nobody is past
  the check once `s_initialized` is set.

Only model-checked: liveness (`EveryCallEnds`, the two `Ends`, `EveryCallReturns` and
`TouchesEnd`), which is out of the prover's reach. What the proofs do not reach beyond the model:
the arithmetic of `Dispatch` is that of one field (`Numbers`, modulo 11), of which
associativity, commutativity and inverses are lemmas and nothing else is used, and the
classes of graphs, terminals and answers of LAPACK are those the assumptions name.

## 6. Not modelled

* Rounding, and what LAPACK and BLAS compute; formatting of messages, printing and
  backtraces; the build, the generators as programs (what they generate is modelled) and `combine.py`.
* `xgeev`, `xgeqrf`, `xxxgqr` and `zlanhe`, which only tests call; `xlansy` and
  `xlange`, which check arguments and return a norm; the sizes of workspaces.
* The scalar overloads of `mldivide` and `lu`.
* An index of `SELECTRESULT` beyond the results of what it selects from, which the code does not
  check and `ExprTree` assumes away, as no caller in the repository passes one.
* What tells the elementwise functions apart. One total function stands for all, so a
  result that depends on the class is not seen: `ACOS` of a real number outside [-1,1] is NaN
  for a dense real matrix, which has a real runner, and a complex number for a diagonal one,
  which the dispatcher converts to complex first.
* `materialiseToJBoolean` returns false without doing anything. What the arrays of a
  native call contain, and its native heap: so a copying JVM that writes
  back what another Java thread has changed (`jbindings.cc:56`) and the row buffers
  that are never freed (`jdispatch.cc:180`) are listed as hazards without a property.
* References to argument arrays and type objects in `exprfactory.cc:33`, which grow with
  the expression until the native method returns.
* `AlignedAlignedWriteBuffer`, `AVXAlignedMemoryBlock`, `Stdlib`, `mem.cc`, `jmem.cc`: used by
  their own tests only. The sparse containers' compression. The fuzzer, a stress tool beside the library.

## 7. Plan

Done: evaluation and its refinement; the runners with control flow; translation and native
calls; dispatch, conversions and equality; terminals; the loader and `JNI_OnLoad`.

Left, in order of importance:

1. `PinnedArrays`, composed with `JniCall`: two Java threads, a JVM that copies or pins,
   and the copy back on release (`jbindings.cc`); the native heap of the delivery.
2. A count of local references in `ExprFactory`, bounded by the size of the graph.
3. `SparseForms`: compression of dense data to columns and back (`OGRealSparseMatrix.java`,
   `OGComplexSparseMatrix.java`), composed with `Conversions`.
4. `WriteBuffer`: positions, alignment, bounds and the freed flag
   (`AlignedAlignedWriteBuffer.java`, `AVXAlignedMemoryBlock.java`).
5. `Fuzzer`: the pool, its counters, its shutdown.

Theorems to come: those of the modules above, when they are written. Of what there is, the
five liveness properties are the only ones no theorem states. What they rest on can be
proved in part: a measure that every step of a call makes smaller, for the runners of
`Factorisations`, for the places of a native method (`JniCall`) and for the stages of
the loader (`Startup`).
