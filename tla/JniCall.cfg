SPECIFICATION Spec
CONSTANT MaxLeaves = 3
INVARIANTS CallInv ArraysComeBack AnswerOrException
PROPERTY EveryCallReturns
