SPECIFICATION Spec
CONSTANTS
  a = a
  p = p
  z = z
  g = g
  q1 = q1
  q2 = q2
  Capacity = 2
  WordBits = 2
  Producers = {q1}
  Original = q1
  FaultyUpdates = {q1}
  Managed = {a, z}
  Pollers = {p}
  Gates = {g}
  LastStage = 2
  Stage <- GatedStage
  StageGates <- GateBeforeLast
  ProducerBarrier = ProducerBarrier
  Faulty = {}
  Limits = {}
  GateValues <- GateRange
  MaxSequence = 3
  MaxBatch = 1
INVARIANTS
  GateRespected
PROPERTY
 ImplementsBroadcast
