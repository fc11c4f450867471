SPECIFICATION FairSpec
CONSTANTS
  N = 2
  NumGates = 1
  Sources <- GatedChain
  Strategies = {"BusySpin", "BusySpinWithSpinLoopHint", "YieldingWaitStrategy", "BlockingWaitStrategy", "LiteBlockingWaitStrategy"}
  SpinTries = 1
  MaxSequence = 2
INVARIANTS
  WaitInv
  SleepersAreCaughtUp
  NoLostWakeupInOrder
  NextSignalWakes
PROPERTIES
  EveryEventHandled
  GateReleasesStage
  DropReturns
CHECK_DEADLOCK FALSE
