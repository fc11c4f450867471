SPECIFICATION Spec
CONSTANTS
  N = 2
  NumGates = 0
  Sources <- Chain
  Strategies = {"LiteBlockingWaitStrategy"}
  SpinTries = 0
  MaxSequence = 2
INVARIANT
  NoLostWakeup
CHECK_DEADLOCK FALSE
