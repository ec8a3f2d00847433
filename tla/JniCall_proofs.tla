--------------------------- MODULE JniCall_proofs ---------------------------
(***************************************************************************)
(* Proofs about JniCall, for expressions with any number of terminals.     *)
(***************************************************************************)
EXTENDS JniCall, TLAPS

(* What the sequence of terminals is, without reference to SeqOf.          *)
LEMMA LeavesType ==
  ASSUME TypeOK
  PROVE  /\ Len(leaves) \in 0..MaxLeaves
         /\ \A i \in 1..Len(leaves) : leaves[i] \in Kinds
<1>1. PICK m \in 0..MaxLeaves : leaves \in [1..m -> Kinds]
  BY DEF TypeOK, SeqOf
<1>2. m \in Nat /\ leaves \in Seq(Kinds) /\ Len(leaves) = m
  BY <1>1, LeavesAssumption
<1>3. QED
  BY <1>1, <1>2

LEMMA ArraysAreSteps ==
  ASSUME NEW kind \in Kinds
  PROVE  Arrays(kind) \subseteq Steps(kind) /\ Arrays(kind) \subseteq Steps("sparse")
BY DEF Kinds, Arrays, Steps, Numbers

LEMMA InitInv == Init => CallInv
<1>1. SUFFICES ASSUME Init PROVE CallInv
  OBVIOUS
<1>2. leaves \in SeqOf(Kinds, MaxLeaves) /\ Len(leaves) = 0
  BY <1>1, LeavesAssumption DEF Init, SeqOf
<1>3. TypeOK
  BY <1>1, <1>2 DEF Init, TypeOK
<1>4. QED
  BY <1>1, <1>3 DEF Init, CallInv, PinsAreArrays, LiveIsBound, AtRest

(* Java's call.                                                            *)
LEMMA CallKeepsInv == CallInv /\ Call => CallInv'
<1>1. SUFFICES ASSUME CallInv, Call PROVE CallInv'
  OBVIOUS
<1>2. AtRest
  BY <1>1 DEF CallInv, Call
<1>3. TypeOK'
  <2>1. leaves' \in SeqOf(Kinds, MaxLeaves) /\ Len(leaves') \in Nat
    <3>1. PICK m \in 0..MaxLeaves : leaves' \in [1..m -> Kinds]
      BY <1>1 DEF Call, SeqOf
    <3>2. leaves' \in Seq(Kinds)
      BY <3>1, LeavesAssumption
    <3>3. QED
      BY <1>1, <3>2 DEF Call
  <2>2. QED
    BY <1>1, <1>2, <2>1 DEF CallInv, TypeOK, Call, AtRest, outcome
<1>4. QED
  BY <1>1, <1>2, <1>3
     DEF CallInv, Call, AtRest, outcome, PinsAreArrays, LiveIsBound,
         NothingThrown, WhileConverting

(* The constructor's next step.                                            *)
LEMMA BindStepKeepsInv ==
  ASSUME CallInv, NEW step, BindStep(step)
  PROVE  CallInv'
<1>1. /\ pc = "convert" /\ built < Len(leaves)
      /\ UNCHANGED <<pc, form, leaves, built, live, outcome>>
      /\ half' = half \union {step} /\ step \in Steps(Leaf)
      /\ bound' = IF step \in Arrays(Leaf) THEN bound \union {<<built + 1, step>>}
                                           ELSE bound
  BY DEF BindStep
<1>2. /\ WhileConverting /\ NothingThrown /\ PinsAreArrays /\ LiveIsBound /\ TypeOK
  BY <1>1 DEF CallInv
<1>3. /\ Len(leaves) \in 0..MaxLeaves /\ built \in Nat
      /\ built + 1 \in 1..Len(leaves) /\ Leaf \in Kinds /\ Leaf' = Leaf
  BY <1>1, <1>2, LeavesType, LeavesAssumption DEF TypeOK, Leaf
<1>4. bound' \subseteq (1..MaxLeaves) \X Steps("sparse")
  BY <1>1, <1>2, <1>3, ArraysAreSteps, LeavesAssumption DEF TypeOK
<1>5. TypeOK'
  BY <1>1, <1>2, <1>3, <1>4 DEF TypeOK, outcome
<1>6. PinsAreArrays'
  BY <1>1, <1>2, <1>3 DEF PinsAreArrays, Leaf
<1>7. LiveIsBound'
  BY <1>1, <1>2 DEF LiveIsBound
<1>8. WhileConverting'
  <2>1. \A pin \in bound' : pin[1] \in live' \/ (pin[1] = built' + 1 /\ half' # {})
    BY <1>1, <1>2 DEF WhileConverting
  <2>2. \A array \in half' \cap Arrays(Leaf) : <<built + 1, array>> \in bound'
    BY <1>1, <1>2 DEF WhileConverting
  <2>3. QED
    BY <1>1, <1>2, <1>3, <2>1, <2>2 DEF WhileConverting
<1>9. QED
  BY <1>1, <1>2, <1>5, <1>6, <1>7, <1>8 DEF CallInv, NothingThrown, outcome

LEMMA FinishLeafKeepsInv ==
  ASSUME CallInv, FinishLeaf
  PROVE  CallInv'
<1>1. /\ pc = "convert" /\ built < Len(leaves) /\ half = Steps(Leaf)
      /\ built' = built + 1 /\ live' = live \union {built + 1} /\ half' = {}
      /\ UNCHANGED <<pc, form, leaves, bound, outcome>>
  BY DEF FinishLeaf
<1>2. /\ WhileConverting /\ NothingThrown /\ PinsAreArrays /\ LiveIsBound /\ TypeOK
  BY <1>1 DEF CallInv
<1>3. /\ Len(leaves) \in 0..MaxLeaves /\ built \in Nat
      /\ built + 1 \in 1..Len(leaves) /\ Leaf \in Kinds
  BY <1>1, <1>2, LeavesType, LeavesAssumption DEF TypeOK, Leaf
<1>4. live' = 1..built'
  BY <1>1, <1>2, <1>3 DEF WhileConverting
<1>5. TypeOK'
  BY <1>1, <1>2, <1>3, <1>4 DEF TypeOK, outcome
<1>6. PinsAreArrays'
  BY <1>1, <1>2 DEF PinsAreArrays
<1>7. LiveIsBound'
  <2>1. \A array \in Arrays(Leaf) : <<built + 1, array>> \in bound
    BY <1>1, <1>2, <1>3, ArraysAreSteps DEF WhileConverting
  <2>2. QED
    BY <1>1, <1>2, <2>1 DEF LiveIsBound, Leaf
<1>8. WhileConverting'
  BY <1>1, <1>2, <1>4 DEF WhileConverting
<1>9. QED
  BY <1>1, <1>2, <1>5, <1>6, <1>7, <1>8 DEF CallInv, NothingThrown, outcome

LEMMA ConvertedKeepsInv ==
  ASSUME CallInv, Converted
  PROVE  CallInv'
<1>1. /\ pc = "convert" /\ built = Len(leaves) /\ pc' = "evaluate"
      /\ UNCHANGED <<form, conversion, live, outcome>>
  BY DEF Converted
<1>2. /\ WhileConverting /\ NothingThrown /\ PinsAreArrays /\ LiveIsBound /\ TypeOK
  BY <1>1 DEF CallInv
<1>3. TypeOK' /\ PinsAreArrays' /\ LiveIsBound' /\ NothingThrown'
  BY <1>1, <1>2
     DEF TypeOK, PinsAreArrays, LiveIsBound, NothingThrown, conversion, outcome, Leaf
<1>4. AllPinsLive'
  BY <1>1, <1>2 DEF WhileConverting, PinsAreArrays, AllPinsLive, conversion
<1>5. QED
  BY <1>1, <1>3, <1>4 DEF CallInv

(***************************************************************************)
(* Leaving the conversion by an exception: at most the next terminal's     *)
(* arrays are lost, and none between two terminals.                        *)
(***************************************************************************)
LEMMA ConvertFailureKeepsInv ==
  ASSUME CallInv, StepFails \/ VisitFails \/ ArgsAreNull \/ NodeThrows
  PROVE  CallInv'
<1>1. /\ pc = "convert" /\ pc' = "unwind" /\ returned' = returned
      /\ UNCHANGED <<form, conversion, live>>
      /\ inFlight' \in NativeErrors
      /\ \/ inFlight' = "convert_error" /\ pendingEx' = pendingEx
         \/ half = {} /\ inFlight' = "convert_error" /\ pendingEx' = "java"
         \/ half = {} /\ pendingEx' = pendingEx
  BY DEF StepFails, VisitFails, ArgsAreNull, NodeThrows, Throw, NativeErrors
<1>2. /\ WhileConverting /\ NothingThrown /\ PinsAreArrays /\ LiveIsBound /\ TypeOK
  BY <1>1 DEF CallInv
<1>3. TypeOK' /\ PinsAreArrays' /\ LiveIsBound'
  BY <1>1, <1>2
     DEF TypeOK, PinsAreArrays, LiveIsBound, NothingThrown, conversion, Leaf
<1>4. half = {} => AllPinsLive'
  BY <1>1, <1>2 DEF WhileConverting, AllPinsLive, conversion
<1>5. OneLeafLost'
  <2>1. CASE built + 1 \in 1..MaxLeaves
    BY <1>1, <1>2, <2>1 DEF WhileConverting, OneLeafLost, conversion
  <2>2. CASE built + 1 \notin 1..MaxLeaves
    <3>1. \A pin \in bound : pin[1] \in live
      BY <1>2, <2>2 DEF WhileConverting, TypeOK
    <3>2. 1 \in 1..MaxLeaves
      BY LeavesAssumption
    <3>3. QED
      BY <1>1, <3>1, <3>2 DEF OneLeafLost, conversion
  <2>3. QED
    BY <2>1, <2>2
<1>6. WhileUnwinding'
  BY <1>1, <1>2, <1>4, <1>5 DEF WhileUnwinding, NothingThrown, NativeErrors
<1>7. QED
  BY <1>1, <1>3, <1>6 DEF CallInv

LEMMA EvaluatedKeepsInv ==
  ASSUME CallInv, Evaluated
  PROVE  CallInv'
<1>1. /\ pc = "evaluate" /\ pc' = "deliver"
      /\ UNCHANGED <<form, conversion, live, outcome>>
  BY DEF Evaluated
<1>2. QED
  BY <1>1 DEF CallInv, TypeOK, PinsAreArrays, LiveIsBound, NothingThrown,
              AllPinsLive, conversion, outcome, Leaf

(* Leaving the evaluation or the delivery, with an answer or without.      *)
LEMMA LaterEndKeepsInv ==
  ASSUME CallInv, EvaluationThrows \/ Deliver
  PROVE  CallInv'
<1>1. /\ pc \in {"evaluate", "deliver"} /\ pc' = "unwind"
      /\ UNCHANGED <<form, conversion, live>>
  BY DEF EvaluationThrows, Deliver, NoSuchForm, NewArrayFails, TerminalNotMade,
         ContainerNotMade, Delivered, Throw
<1>2. NothingThrown /\ AllPinsLive /\ PinsAreArrays /\ LiveIsBound /\ TypeOK
  BY <1>1 DEF CallInv
<1>3. \/ /\ inFlight' \in NativeErrors /\ returned' = "none"
         /\ \/ pendingEx' = "none"
            \/ pendingEx' = "java" /\ inFlight' = "convert_error"
      \/ inFlight' = "none" /\ returned' = "object" /\ pendingEx' = "none"
      \/ /\ inFlight' = "none" /\ returned' = "null" /\ pendingEx' = "java"
         /\ form = "complex"
  BY <1>2 DEF EvaluationThrows, Deliver, NoSuchForm, NewArrayFails, TerminalNotMade,
         ContainerNotMade, Delivered, Throw, NothingThrown, NativeErrors
<1>4. TypeOK' /\ PinsAreArrays' /\ LiveIsBound'
  BY <1>1, <1>2, <1>3
     DEF TypeOK, PinsAreArrays, LiveIsBound, conversion, Leaf
<1>5. AllPinsLive' /\ OneLeafLost'
  <2>1. 1 \in 1..MaxLeaves
    BY LeavesAssumption
  <2>2. QED
    BY <1>1, <1>2, <2>1 DEF AllPinsLive, OneLeafLost, conversion
<1>6. WhileUnwinding'
  BY <1>1, <1>3, <1>5 DEF WhileUnwinding, NativeErrors
<1>7. QED
  BY <1>1, <1>4, <1>6 DEF CallInv

(***************************************************************************)
(* A destructor: its arrays are released, or they become the lost ones and *)
(* the exception, which was pending, is cleared.                           *)
(***************************************************************************)
LEMMA ReleaseLeafKeepsInv ==
  ASSUME CallInv, NEW leaf \in 1..MaxLeaves, ReleaseLeaf(leaf)
  PROVE  CallInv'
<1>1. /\ pc = "unwind" /\ leaf \in live /\ live' = live \ {leaf}
      /\ UNCHANGED <<pc, form, leaves, built, half, inFlight, returned>>
  BY DEF ReleaseLeaf
<1>2. WhileUnwinding /\ PinsAreArrays /\ LiveIsBound /\ TypeOK
  BY <1>1 DEF CallInv
<1>3. bound' \subseteq bound /\ pendingEx' \in {"none", pendingEx}
  BY DEF ReleaseLeaf
<1>4. TypeOK' /\ PinsAreArrays'
  BY <1>1, <1>2, <1>3 DEF TypeOK, PinsAreArrays, Leaf
<1>5. CASE pendingEx = "none"
  <2>1. bound' = {pin \in bound : pin[1] # leaf} /\ pendingEx' = "none"
    BY <1>5 DEF ReleaseLeaf
  <2>2. LiveIsBound'
    BY <1>1, <1>2, <2>1 DEF LiveIsBound
  <2>3. AllPinsLive => AllPinsLive'
    BY <1>1, <2>1 DEF AllPinsLive
  <2>4. OneLeafLost'
    BY <1>1, <1>2, <2>1 DEF WhileUnwinding, OneLeafLost
  <2>5. WhileUnwinding'
    BY <1>1, <1>2, <1>5, <2>1, <2>3, <2>4 DEF WhileUnwinding
  <2>6. QED
    BY <1>1, <1>4, <2>2, <2>5 DEF CallInv
<1>6. CASE pendingEx # "none"
  <2>1. /\ bound' = bound
        /\ pendingEx' = IF HasArrays(leaf) THEN "none" ELSE pendingEx
    BY <1>6 DEF ReleaseLeaf
  <2>2. AllPinsLive /\ inFlight \notin {"rdag_error", "exception"}
    BY <1>2, <1>6 DEF WhileUnwinding
  <2>3. returned # "object"
    BY <1>2, <1>6 DEF WhileUnwinding
  <2>4. LiveIsBound'
    BY <1>1, <1>2, <2>1 DEF LiveIsBound
  <2>5. ~HasArrays(leaf) => AllPinsLive'
    BY <1>1, <1>2, <2>1, <2>2 DEF AllPinsLive, PinsAreArrays, HasArrays
  <2>6. OneLeafLost'
    BY <1>1, <2>1, <2>2 DEF AllPinsLive, OneLeafLost
  <2>7. WhileUnwinding'
    BY <1>1, <1>2, <1>6, <2>1, <2>2, <2>3, <2>5, <2>6 DEF WhileUnwinding
  <2>8. QED
    BY <1>1, <1>4, <2>4, <2>7 DEF CallInv
<1>7. QED
  BY <1>5, <1>6

LEMMA EndKeepsInv ==
  ASSUME CallInv, Report \/ ReturnNormally
  PROVE  CallInv'
<1>1. /\ pc = "unwind" /\ live = {} /\ pc' = "back"
      /\ UNCHANGED <<form, conversion, live, inFlight>>
      /\ \/ /\ inFlight # "none" /\ returned' = "null"
            /\ pendingEx' \in {"java", JavaClass(inFlight)}
         \/ inFlight = "none" /\ returned' = returned /\ pendingEx' = pendingEx
  BY DEF Report, ReturnNormally, outcome
<1>2. WhileUnwinding /\ PinsAreArrays /\ LiveIsBound /\ TypeOK
  BY <1>1 DEF CallInv
<1>3. TypeOK' /\ PinsAreArrays' /\ LiveIsBound'
  BY <1>1, <1>2
     DEF TypeOK, PinsAreArrays, LiveIsBound, conversion, Leaf
<1>4. LeaksOneLeafAtMost'
  BY <1>1, <1>2 DEF WhileUnwinding, OneLeafLost, LeaksOneLeafAtMost, conversion
<1>5. EvaluationLeaksNothing'
  <2>1. SUFFICES ASSUME returned' = "object" \/ inFlight \in {"rdag_error", "exception"}
                 PROVE  bound' = {}
    BY <1>1 DEF EvaluationLeaksNothing
  <2>2. AllPinsLive
    BY <1>1, <1>2, <2>1 DEF WhileUnwinding
  <2>3. QED
    BY <1>1, <2>2 DEF AllPinsLive, conversion
<1>6. AnswerOrException'
  BY <1>1, <1>2 DEF WhileUnwinding, AnswerOrException, JavaClass
<1>7. QED
  BY <1>1, <1>3, <1>4, <1>5, <1>6 DEF CallInv, WhenBack

LEMMA BackKeepsInv ==
  ASSUME CallInv, Back
  PROVE  CallInv'
<1>1. live' = {} /\ pc' = "java" /\ AtRest'
  BY DEF Back, CallInv, WhenBack, AtRest
<1>2. leaves' \in SeqOf(Kinds, MaxLeaves) /\ Len(leaves') = 0
  BY <1>1, LeavesAssumption DEF AtRest, SeqOf
<1>3. TypeOK'
  BY <1>1, <1>2 DEF Back, CallInv, TypeOK, AtRest
<1>4. QED
  BY <1>1, <1>3 DEF CallInv, PinsAreArrays, LiveIsBound, AtRest

LEMMA StepKeepsInv == CallInv /\ [Next]_vars => CallInv'
<1>1. SUFFICES ASSUME CallInv, [Next]_vars PROVE CallInv'
  OBVIOUS
<1>2. CASE UNCHANGED vars
  BY <1>1, <1>2
     DEF CallInv, vars, TypeOK, PinsAreArrays, LiveIsBound, AtRest, NothingThrown,
         WhileConverting, AllPinsLive, WhileUnwinding, OneLeafLost, WhenBack,
         LeaksOneLeafAtMost, EvaluationLeaksNothing, AnswerOrException, Leaf
<1>3. CASE Call
  BY <1>1, <1>3, CallKeepsInv
<1>4. CASE Convert
  <2>1. CASE StepFails \/ VisitFails \/ ArgsAreNull \/ NodeThrows
    BY <1>1, <2>1, ConvertFailureKeepsInv
  <2>2. CASE FinishLeaf
    BY <1>1, <2>2, FinishLeafKeepsInv
  <2>3. CASE Converted
    BY <1>1, <2>3, ConvertedKeepsInv
  <2>4. ASSUME NEW step \in Steps("sparse") \union {"value"}, BindStep(step)
        PROVE  CallInv'
    BY <1>1, <2>4, BindStepKeepsInv
  <2>5. QED
    BY <1>4, <2>1, <2>2, <2>3, <2>4 DEF Convert
<1>5. CASE Evaluate
  BY <1>1, <1>5, EvaluatedKeepsInv, LaterEndKeepsInv DEF Evaluate
<1>6. CASE Deliver
  BY <1>1, <1>6, LaterEndKeepsInv
<1>7. CASE Unwind
  BY <1>1, <1>7, ReleaseLeafKeepsInv, EndKeepsInv DEF Unwind
<1>8. CASE Back
  BY <1>1, <1>8, BackKeepsInv
<1>9. QED
  BY <1>1, <1>2, <1>3, <1>4, <1>5, <1>6, <1>7, <1>8 DEF Next

(* The invariant holds of every reachable state of every call.             *)
THEOREM InvariantHolds == Spec => []CallInv
<1>1. QED
  BY InitInv, StepKeepsInv, PTL DEF Spec

(* Every variable keeps its type, with any number of terminals.            *)
THEOREM TypeCorrect == Spec => []TypeOK
<1>1. CallInv => TypeOK
  BY DEF CallInv
<1>2. QED
  BY <1>1, InvariantHolds, PTL

(***************************************************************************)
(* No JNI function of the conversion is called with an exception pending,  *)
(* and the check before entrypt (jshim.cc) never finds one.                *)
(***************************************************************************)
THEOREM ConversionMeetsNoException == Spec => []NothingPendingYet
<1>1. CallInv => NothingPendingYet
  BY DEF CallInv, NothingThrown, NothingPendingYet
<1>2. QED
  BY <1>1, InvariantHolds, PTL

(***************************************************************************)
(* A destructor finds every array it is to release bound, and none that    *)
(* was released before (jterminals.cc).                                    *)
(***************************************************************************)
THEOREM DestructorsFindTheirArrays == Spec => []LiveIsBound
<1>1. CallInv => LiveIsBound
  BY DEF CallInv
<1>2. QED
  BY <1>1, InvariantHolds, PTL

(***************************************************************************)
(* However many terminals the expression has, and in whatever order their  *)
(* destructors run, a call loses the arrays of one of them at most, and of *)
(* none when it delivers an answer or the evaluation threw.                *)
(***************************************************************************)
THEOREM ArraysAreReleased == Spec => []ArraysComeBack
<1>1. CallInv => ArraysComeBack
  BY DEF CallInv, WhenBack, ArraysComeBack, LeaksOneLeafAtMost,
         EvaluationLeaksNothing
<1>2. QED
  BY <1>1, InvariantHolds, PTL

(***************************************************************************)
(* Java gets an answer or an exception, although destructors clear what is *)
(* pending: the handlers run after them (jshim.cc).                        *)
(***************************************************************************)
THEOREM JavaIsAnswered == Spec => []AnswerOrException
<1>1. CallInv => AnswerOrException
  BY DEF CallInv, WhenBack, AnswerOrException
<1>2. QED
  BY <1>1, InvariantHolds, PTL
=============================================================================
