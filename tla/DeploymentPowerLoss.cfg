SPECIFICATION PowerSpec
CONSTANTS
  key1 = key1
  key2 = key2
  unknown1 = unknown1
  unknown2 = unknown2
  anchor1 = anchor1
  anchor2 = anchor2
  None = None
  Attacker <- MCAttacker
  OtherUnit = otherUnit
  Unit = unit
  Keys <- MCKeys
  Witness = witness
  Boundary = boundary
  ModelId = model
  Weights <- MCWeights
  Loaded = "A"
  Paths <- MCPaths
  CheckpointEvery = 4
  GroupCommit = TRUE
  MaxSize = 8
  MaxEvents = 2
  Pixel = 16
  Quantum = 2
  ConfQuantum = 2
  MaxConf = 100
  EpsConf = 3
  EpsPx = 1
  EpsIou <- MCEpsIou
  Sample = 1
  ConfThr = 20
  NmsIou <- MCNmsIou
  Jobs <- NoJobs
INVARIANTS
  HonestIsNoFork
CHECK_DEADLOCK FALSE
