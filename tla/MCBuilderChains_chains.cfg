SPECIFICATION Spec
CONSTANTS
  c1 = c1
  c2 = c2
  c3 = c3
  c4 = c4
  g1 = g1
  n1 = n1
  n2 = n2
  Names = {c1, c2, c3, c4}
  Gates = {g1}
  Cores = {"core0"}
  AskedCores = {"core0", "core9"}
  Titles = {n1, n2}
  Sizes = {3, 32, 64}
  MaxStages = 3
SYMMETRY Interchangeable
INVARIANTS
  PresentByConstruction
  StagesAreWired
  BackpressureCoversAll
  JoinedUpstreamFirst
  BuilderInv

  
CHECK_DEADLOCK FALSE
