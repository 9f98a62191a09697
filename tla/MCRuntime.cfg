CONSTANTS
  Instances = {"m1", "m2"}
  Slots = {"a", "b"}
  VocabSize = 2
  ContextLength = 3
  NumExperts = 2
  TopK = 2
  Values = {0, 1}
  Prompts <- MCPrompts
  MaxNew = 2
SPECIFICATION RuntimeSpec
CHECK_DEADLOCK FALSE
INVARIANTS OneModelPerState LoadedIsComplete GenerationIsWellFormed
PROPERTIES FailureKeepsState LimitIsCheckedFirst
