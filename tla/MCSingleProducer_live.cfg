SPECIFICATION FairSpec
CONSTANTS
  a = a
  b = b
  z = z
  p = p
  g = g
  Capacity = 2
  Managed = {a, b, z}
  Pollers = {}
  Gates = {}
  LastStage = 2
  Stage <- ForkStage
  StageGates <- NoGates
  ProducerBarrier = ProducerBarrier
  Faulty = {a, z}
  Limits = {}
  GateValues = {}
  MaxSequence = 3
  MaxBatch = 3
PROPERTIES
  PublishReturns
  EveryEventHandled
  DropReturns
  NoSpuriousFull
