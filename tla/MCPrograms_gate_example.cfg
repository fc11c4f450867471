SPECIFICATION FairSpec
CONSTANT
  Programs <- GateExample
PROPERTY
  Terminates
CHECK_DEADLOCK FALSE
