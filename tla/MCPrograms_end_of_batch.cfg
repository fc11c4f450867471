SPECIFICATION FairSpec
CONSTANT
  Programs <- EndOfBatch
INVARIANT
  AssertionsHold
CHECK_DEADLOCK FALSE
