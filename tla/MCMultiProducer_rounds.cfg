SPECIFICATION FairSpec
CONSTANTS
  a = a
  p = p
  z = z
  g = g
  q1 = q1
  q2 = q2
  Capacity = 2
  WordBits = 1
  Producers = {q1, q2}
  Original = q1
  FaultyUpdates = {}
  Managed = {a}
  Pollers = {}
  Gates = {}
  LastStage = 1
  Stage <- AloneStage
  StageGates <- NoGates1
  ProducerBarrier = ProducerBarrier
  Faulty = {}
  Limits = {}
  GateValues = {}
  MaxSequence = 3
  MaxBatch = 2
INVARIANTS
  TypeOK
  NoDataRace
  ParityTellsPublished
  DrainBeforeStop
PROPERTIES
  EveryClaimHandled
  DropReturns
