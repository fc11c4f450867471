SPECIFICATION Spec
CONSTANTS
  a = a
  b = b
  z = z
  p = p
  g = g
  Capacity = 2
  Managed = {z}
  Pollers = {p}
  Gates = {g}
  LastStage = 2
  Stage <- PolledStage
  StageGates <- GateBeforeLast
  ProducerBarrier = ProducerBarrier
  Faulty = {}
  Limits = {0, 1}
  GateValues <- GateRange
  MaxSequence = 3
  MaxBatch = 3
INVARIANTS
  GateRespected
  GuardsYieldInOrder
  LogInv
  NobodyWaitsInVain
