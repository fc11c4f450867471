SPECIFICATION Spec
CONSTANTS
  a = a
  b = b
  z = z
  p = p
  g = g
  Capacity = 2
  Managed = {a, b, z}
  Pollers = {}
  Gates = {}
  LastStage = 2
  Stage <- DiamondStage
  StageGates <- NoGates
  ProducerBarrier = ProducerBarrier
  Faulty = {z}
  Limits = {}
  GateValues = {}
  MaxSequence = 4
  MaxBatch = 2
INVARIANTS
  NoDataRace
  ExactlyOnceInOrder
  StageOrder
  DrainBeforeStop
PROPERTY
  ImplementsBroadcast
