SPECIFICATION Spec
CONSTANT MaxTokens = 7
INVARIANT BracketsClose
PROPERTY EndsUnlessStuck
CHECK_DEADLOCK FALSE
