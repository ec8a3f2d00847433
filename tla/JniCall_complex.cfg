SPECIFICATION Spec
CONSTANT MaxLeaves = 1
INVARIANT ComplexAnswerOrException
