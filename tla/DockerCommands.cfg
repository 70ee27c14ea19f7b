SPECIFICATION Spec
CHECK_DEADLOCK FALSE
INVARIANT TypeOK
INVARIANT CompiledAsAsked
CONSTANTS
  Words = {"a", "b"}
  MaxCalls = 3
