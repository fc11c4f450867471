SPECIFICATION Spec
CONSTANTS
  a = a
  p = p
  z = z
  g = g
  q1 = q1
  q2 = q2
  Capacity = 4
  WordBits = 2
  Producers = {q1, q2}
  Original = q1
  FaultyUpdates = {q2}
  Managed = {a}
  Pollers = {}
  Gates = {}
  LastStage = 1
  Stage <- AloneStage
  StageGates <- NoGates1
  ProducerBarrier = ProducerBarrier
  Faulty = {a}
  Limits = {}
  GateValues = {}
  MaxSequence = 4
  MaxBatch = 3
INVARIANTS
  OnlyPublishedGranted
  NobodyWaitsInVain
  ClaimInv
PROPERTY
 ImplementsBroadcast
