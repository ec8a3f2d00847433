------------------------------ MODULE JniCall ------------------------------
(***************************************************************************)
(* One call of a native materialise method of the jshim library: the Java  *)
(* terminals of the expression are bound (their arrays pinned or copied),  *)
(* the expression is evaluated, the answer is made into a Java object, and *)
(* the terminals' destructors release the arrays while the C++ stack       *)
(* unwinds, with or without a C++ exception in flight.  Two kinds of       *)
(* exception meet here: a Java exception pending in the JNI environment,   *)
(* and a C++ one.  checkEx turns the first into the second by CLEARING it. *)
(* What the evaluation computes is Evaluation's subject; here it returns   *)
(* or throws.                                                              *)
(***************************************************************************)
EXTENDS Naturals, Sequences, FiniteSets, SequencesExt

CONSTANT MaxLeaves                 \* bound: terminals of one expression
ASSUME LeavesAssumption == MaxLeaves \in Nat \ {0}

(* Real and complex terminals of a shape are bound alike. *)
Kinds == {"scalar", "integer", "dense", "sparse"}

(* The Java arrays a terminal's constructor binds. *)
Arrays(kind) == CASE kind = "integer" -> {}
                  [] kind = "sparse"  -> {"colPtr", "rowIdx", "data"}
                  [] OTHER            -> {"data"}

(* The Java getters its constructor calls for a number. *)
Numbers(kind) == CASE kind = "integer" -> {"value"}
                   [] kind = "scalar"  -> {}
                   [] OTHER            -> {"rows", "cols"}

Steps(kind) == Arrays(kind) \union Numbers(kind)

Forms == {"real", "complex", "terminal"}
NativeErrors == {"convert_error", "rdag_error", "exception"}

VARIABLES
  pc,         \* where the native method is; "java" outside of it
  form,       \* which of the three methods was called
  leaves,     \* kinds of the expression's terminals, in translation order
  built,      \* how many of them are constructed
  half,       \* constructor steps done for the next one
  live,       \* constructed terminals whose destructor has not run
  bound,      \* <<terminal, array>> got from the JVM and not released
  pendingEx,  \* the Java exception pending in the JNI environment
  inFlight,   \* the C++ exception the stack unwinds for
  returned    \* what the method returns

vars == <<pc, form, leaves, built, half, live, bound, pendingEx, inFlight, returned>>

conversion == <<leaves, built, half, bound>>
outcome    == <<pendingEx, inFlight, returned>>

Init == /\ pc = "java"
        /\ form \in Forms
        /\ leaves = <<>> /\ built = 0 /\ half = {} /\ live = {} /\ bound = {}
        /\ pendingEx = "none" /\ inFlight = "none" /\ returned = "none"

(* Java calls the method on some expression.  No exception is pending when *)
(* Java code calls a native method.                                        *)
Call == /\ pc = "java"
        /\ pc' = "convert"
        /\ form' \in Forms
        /\ leaves' \in SeqOf(Kinds, MaxLeaves) \ {<<>>}
        /\ UNCHANGED <<built, half, live, bound, outcome>>

(* A C++ exception leaves the place it was thrown at. *)
Throw(error) == /\ pc' = "unwind"
                /\ inFlight' = error
                /\ UNCHANGED returned

-----------------------------------------------------------------------------
(* createExpression *)

Leaf == leaves[built + 1]

(* A constructor step of the next terminal succeeds: an array is bound or  *)
(* a number is read.  C++ leaves the order of the arguments open.          *)
BindStep(step) ==
  /\ pc = "convert" /\ built < Len(leaves)
  /\ step \in Steps(Leaf) \ half
  /\ half' = half \union {step}
  /\ bound' = IF step \in Arrays(Leaf) THEN bound \union {<<built + 1, step>>} ELSE bound
  /\ UNCHANGED <<pc, form, leaves, built, live, outcome>>

(* Mutant: a failed step starts the terminal again. *)
StepFailsAndRestarts ==
  /\ pc = "convert" /\ built < Len(leaves)
  /\ half # Steps(Leaf)
  /\ half' = {}
  /\ bound' = {pin \in bound : pin[1] # built + 1}
  /\ UNCHANGED <<pc, form, leaves, built, live, outcome>>

(* The JVM call of a step fails; checkEx clears the Java exception.  What  *)
(* the constructor has bound so far has no destructor to release it.       *)
StepFails ==
  /\ pc = "convert" /\ built < Len(leaves)
  /\ half # Steps(Leaf)
  /\ Throw("convert_error")
  /\ UNCHANGED <<form, conversion, live, pendingEx>>

(* Mutant: a sparse terminal is finished as soon as its data is bound. *)
FinishLeafEarly ==
  /\ pc = "convert" /\ built < Len(leaves)
  /\ "data" \in half \/ half = Steps(Leaf)
  /\ built' = built + 1
  /\ live' = live \union {built + 1}
  /\ half' = {}
  /\ UNCHANGED <<pc, form, leaves, bound, outcome>>

FinishLeaf ==
  /\ pc = "convert" /\ built < Len(leaves)
  /\ half = Steps(Leaf)
  /\ built' = built + 1
  /\ live' = live \union {built + 1}
  /\ half' = {}
  /\ UNCHANGED <<pc, form, leaves, bound, outcome>>

(* Between two terminals: asking a node for its type fails and checkEx     *)
(* clears the Java exception, or the type is unknown.                      *)
VisitFails ==
  /\ pc = "convert" /\ half = {}
  /\ Throw("convert_error")
  /\ UNCHANGED <<form, conversion, live, pendingEx>>

(* getArgs: callObjectMethod throws on null BEFORE checkEx can clear the   *)
(* exception that the null stands for.                                     *)
ArgsAreNull ==
  /\ pc = "convert" /\ half = {}
  /\ Throw("convert_error")
  /\ pendingEx' = "java"
  /\ UNCHANGED <<form, conversion, live>>

(* The constructor of an expression node rejects its operands, or memory   *)
(* is out.                                                                 *)
NodeThrows ==
  /\ pc = "convert" /\ half = {}
  /\ \E error \in {"rdag_error", "exception"} : Throw(error)
  /\ UNCHANGED <<form, conversion, live, pendingEx>>

(* The expression is complete; the method's own checkEx finds nothing      *)
(* pending (NothingPendingYet).                                            *)
Converted ==
  /\ pc = "convert" /\ built = Len(leaves)
  /\ pc' = "evaluate"
  /\ UNCHANGED <<form, conversion, live, outcome>>

-----------------------------------------------------------------------------
(* entrypt, and the answer's Java form *)

Evaluated ==
  /\ pc = "evaluate"
  /\ pc' = "deliver"
  /\ UNCHANGED <<form, conversion, live, outcome>>

EvaluationThrows ==
  /\ pc = "evaluate"
  /\ \E error \in NativeErrors : Throw(error)
  /\ UNCHANGED <<form, conversion, live, pendingEx>>

(* The answer's type has no such Java form, or memory is out. *)
NoSuchForm ==
  /\ pc = "deliver"
  /\ \E error \in {"convert_error", "exception"} : Throw(error)
  /\ UNCHANGED <<form, conversion, live, pendingEx>>

(* JVMManager::newObjectArray, newDoubleArray, newIntArray, newDouble: the *)
(* null is turned into a C++ exception, the Java exception stays.          *)
NewArrayFails ==
  /\ pc = "deliver"
  /\ Throw("convert_error")
  /\ pendingEx' = "java"
  /\ UNCHANGED <<form, conversion, live>>

(* Mutant: JavaTerminal without checkEx after its NewObject. *)
TerminalNotChecked ==
  /\ pc = "deliver" /\ form = "terminal"
  /\ pc' = "unwind"
  /\ pendingEx' = "java"
  /\ returned' = "null"
  /\ UNCHANGED <<form, conversion, live, inFlight>>

(* The last NewObject fails in JavaTerminal, where checkEx follows. *)
TerminalNotMade ==
  /\ pc = "deliver" /\ form = "terminal"
  /\ Throw("convert_error")
  /\ UNCHANGED <<form, conversion, live, pendingEx>>

(* The last NewObject fails in the complex method, where nothing follows.  *)
ContainerNotMade ==
  /\ pc = "deliver" /\ form = "complex"
  /\ pc' = "unwind"
  /\ pendingEx' = "java"
  /\ returned' = "null"
  /\ UNCHANGED <<form, conversion, live, inFlight>>

Delivered ==
  /\ pc = "deliver"
  /\ pc' = "unwind"
  /\ returned' = "object"
  /\ UNCHANGED <<form, conversion, live, pendingEx, inFlight>>

-----------------------------------------------------------------------------
(* The end of the try block *)

HasArrays(leaf) == Arrays(leaves[leaf]) # {}

(* Mutant: unbindPrimitiveArrayData without clearing the exception. *)
ReleaseLeavesException(leaf) ==
  /\ pc = "unwind" /\ leaf \in live
  /\ live' = live \ {leaf}
  /\ bound' = IF pendingEx = "none" THEN {pin \in bound : pin[1] # leaf} ELSE bound
  /\ UNCHANGED <<pc, form, leaves, built, half, pendingEx, inFlight, returned>>

(* A terminal's destructor.  It asks the Java terminal for its array, and  *)
(* checkEx looks at the environment before anything is released: a Java    *)
(* exception that was pending already is cleared and taken for a failure   *)
(* of that call, the convert_error ends in the destructor's own handler,   *)
(* and none of the terminal's arrays is released.                          *)
ReleaseLeaf(leaf) ==
  /\ pc = "unwind" /\ leaf \in live
  /\ live' = live \ {leaf}
  /\ IF pendingEx = "none"
       THEN /\ bound' = {pin \in bound : pin[1] # leaf}
            /\ UNCHANGED pendingEx
       ELSE /\ pendingEx' = IF HasArrays(leaf) THEN "none" ELSE pendingEx
            /\ UNCHANGED bound
  /\ UNCHANGED <<pc, form, leaves, built, half, inFlight, returned>>

JavaClass(error) == CASE error = "convert_error" -> "conversion"
                      [] error = "rdag_error"    -> "computation"
                      [] OTHER                   -> "unspecified"

(* The handlers of the materialise method: a Java exception of the class   *)
(* for the C++ one, or, when making it fails, the JVM's own that is then   *)
(* pending; the method returns null.                                       *)
Report ==
  /\ pc = "unwind" /\ live = {} /\ inFlight # "none"
  /\ pendingEx' \in {"java", JavaClass(inFlight)}
  /\ returned' = "null"
  /\ pc' = "back"
  /\ UNCHANGED <<form, conversion, live, inFlight>>

ReturnNormally ==
  /\ pc = "unwind" /\ live = {} /\ inFlight = "none"
  /\ pc' = "back"
  /\ UNCHANGED <<form, conversion, live, outcome>>

(* Java takes the answer or the exception and may call again. *)
Back == /\ pc = "back"
        /\ pc' = "java"
        /\ leaves' = <<>> /\ built' = 0 /\ half' = {} /\ bound' = {}
        /\ pendingEx' = "none" /\ inFlight' = "none" /\ returned' = "none"
        /\ UNCHANGED <<form, live>>

Convert == \/ \E step \in Steps("sparse") \union {"value"} : BindStep(step)
           \/ StepFails \/ FinishLeaf
           \/ VisitFails \/ ArgsAreNull \/ NodeThrows \/ Converted
Evaluate == Evaluated \/ EvaluationThrows
Deliver == \/ NoSuchForm \/ NewArrayFails
           \/ TerminalNotMade \/ ContainerNotMade \/ Delivered
Unwind == \/ \E leaf \in 1..MaxLeaves : ReleaseLeaf(leaf)
          \/ Report \/ ReturnNormally

Next == Call \/ Convert \/ Evaluate \/ Deliver \/ Unwind \/ Back

(* The native method runs on the caller's thread and waits for nobody. *)
Spec == Init /\ [][Next]_vars /\ WF_vars(Convert \/ Evaluate \/ Deliver \/ Unwind)

-----------------------------------------------------------------------------

TypeOK ==
  /\ pc \in {"java", "convert", "evaluate", "deliver", "unwind", "back"}
  /\ form \in Forms
  /\ leaves \in SeqOf(Kinds, MaxLeaves)
  /\ built \in 0..Len(leaves)
  /\ half \subseteq (IF built < Len(leaves) THEN Steps(Leaf) ELSE {})
  /\ live \subseteq 1..built
  /\ bound \subseteq (1..MaxLeaves) \X Steps("sparse")
  /\ pendingEx \in {"none", "java"} \union {JavaClass(error) : error \in NativeErrors}
  /\ inFlight \in {"none"} \union NativeErrors
  /\ returned \in {"none", "null", "object"}

(* Until the stack unwinds no Java exception is pending: the check between *)
(* createExpression and entrypt (jshim.cc) never finds one, and no JNI     *)
(* function of the conversion is called with one.                          *)
NothingPendingYet == pc \in {"convert", "evaluate", "deliver"} => pendingEx = "none"

(* A terminal whose destructor is still to run holds every array that the  *)
(* destructor will hand back to the JVM: none is missing, none was handed  *)
(* back before (jterminals.cc, every constructor and its destructor).      *)
LiveIsBound == \A leaf \in live : \A array \in Arrays(leaves[leaf]) : <<leaf, array>> \in bound

(* Whatever goes wrong, and in whatever order the destructors run, one     *)
(* call leaves the arrays of at most one terminal with the JVM: the one    *)
(* whose constructor failed, or the one whose destructor met the pending   *)
(* exception.                                                              *)
LeaksOneLeafAtMost ==
  pc = "back" => \E leaf \in 1..MaxLeaves : \A pin \in bound : pin[1] = leaf

(* A call that delivers an answer, and one whose evaluation threw, have    *)
(* released every array (jbindings.cc, unbindPrimitiveArrayData): arrays   *)
(* are lost only when the conversion or the JVM failed.                    *)
EvaluationLeaksNothing ==
  pc = "back" /\ (returned = "object" \/ inFlight \in {"rdag_error", "exception"})
     => bound = {}

(* Java gets an answer or an exception and never both; the real and the    *)
(* terminal methods never return null without an exception, although the   *)
(* terminals' destructors clear what is pending (jshim.cc, the handlers).  *)
AnswerOrException ==
  pc = "back" => /\ ~(returned = "object" /\ pendingEx # "none")
                 /\ form # "complex" => (returned = "object" \/ pendingEx # "none")

(* Both: arrays are handed back but for those of one terminal, and all of  *)
(* them unless the conversion or the JVM failed.                           *)
ArraysComeBack == LeaksOneLeafAtMost /\ EvaluationLeaksNothing

(* Whatever is bound has a destructor that will release it.                *)
AllPinsLive == \A pin \in bound : pin[1] \in live

(* Only arrays that the terminal's kind has are bound.                     *)
PinsAreArrays ==
  \A pin \in bound : pin[1] \in 1..Len(leaves) /\ pin[2] \in Arrays(leaves[pin[1]])

OneLeafLost ==
  \E leaf \in 1..MaxLeaves : \A pin \in bound : pin[1] \in live \/ pin[1] = leaf

AtRest == /\ leaves = <<>> /\ built = 0 /\ half = {} /\ live = {} /\ bound = {}
          /\ pendingEx = "none" /\ inFlight = "none" /\ returned = "none"

(* Every terminal constructed is live; the constructor under way has bound *)
(* what it has stepped through.                                            *)
WhileConverting ==
  /\ live = 1..built
  /\ \A pin \in bound : pin[1] \in live \/ (pin[1] = built + 1 /\ half # {})
  /\ built < Len(leaves) =>
       \A array \in half \cap Arrays(Leaf) : <<built + 1, array>> \in bound

NothingThrown == pendingEx = "none" /\ inFlight = "none" /\ returned = "none"

(* An exception of the JVM is pending only while no array is lost, so the  *)
(* one destructor that clears it loses the only ones.                      *)
WhileUnwinding ==
  /\ inFlight # "none" => returned = "none"
  /\ inFlight = "none" => \/ returned = "object" /\ pendingEx = "none"
                          \/ returned = "null" /\ form = "complex"
  /\ pendingEx # "none" => AllPinsLive /\ inFlight \notin {"rdag_error", "exception"}
  /\ inFlight \in {"rdag_error", "exception"} => AllPinsLive
  /\ returned = "object" => AllPinsLive
  /\ OneLeafLost

WhenBack == /\ live = {}
            /\ LeaksOneLeafAtMost
            /\ EvaluationLeaksNothing
            /\ AnswerOrException

(***************************************************************************)
(* The inductive invariant: at every place of the method, which bound      *)
(* arrays still have a destructor that will hand them back, and with which *)
(* exception in flight (jshim.cc, jterminals.cc).  A live terminal holds   *)
(* all of its arrays, and none was handed back before; until the stack     *)
(* unwinds no Java exception is pending, so that the check between         *)
(* createExpression and entrypt never finds one.                           *)
(***************************************************************************)
CallInv ==
  /\ TypeOK
  /\ PinsAreArrays
  /\ LiveIsBound
  /\ pc = "java" => AtRest
  /\ pc \in {"convert", "evaluate", "deliver"} => NothingThrown
  /\ pc = "convert" => WhileConverting
  /\ pc \in {"evaluate", "deliver"} => AllPinsLive
  /\ pc = "unwind" => WhileUnwinding
  /\ pc = "back" => WhenBack

(* Materialisers.toComplexArrayContainer: "@return a ComplexArrayContainer *)
(* of the materialised tree", so null comes only with an exception.        *)
ComplexAnswerOrException ==
  pc = "back" /\ form = "complex" => (returned = "object" \/ pendingEx # "none")

(* A call of a native method comes back to Java. *)
EveryCallReturns == pc = "convert" ~> pc = "back"
=============================================================================
