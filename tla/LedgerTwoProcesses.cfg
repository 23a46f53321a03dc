\* Two processes append to one ledger at once; their flushers run, power fails.
SPECIFICATION FairSpec
CONSTANTS
  p1 = p1
  p2 = p2
  t1 = t1
  t2 = t2
  t3 = t3
  k1 = k1
  k2 = k2
  Proc = {p1, p2}
  Thread = {t1, t2, t3}
  Host <- HostTwo
  Key = {k1, k2}
  GenesisKey = k1
  NoKey = NoKey
  Nobody = Nobody
  CheckpointEvery = 3
  GroupCommit = TRUE
  Rotators = {}
  Checkpointers = {}
  Flushers = {}
  MaxBatch = 1
  MaxRecords = 5
  MaxNonce = 5
INVARIANTS
  ChainLinked
  CheckpointCadence
  DurableMeansSynced
PROPERTIES
  CommittedGetsSynced
  ImplementsLog
