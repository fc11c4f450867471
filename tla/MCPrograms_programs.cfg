SPECIFICATION FairSpec
CONSTANT
  Programs <- AllPrograms
INVARIANT
  AssertionsHold
PROPERTY
  Terminates
CHECK_DEADLOCK FALSE
