\* One process, one thread that does everything, power failures and crashes.
SPECIFICATION Spec
CONSTANTS
  p1 = p1
  p2 = p2
  t1 = t1
  t2 = t2
  t3 = t3
  k1 = k1
  k2 = k2
  Proc = {p1}
  Thread = {t1}
  Host <- HostOne
  Key = {k1, k2}
  GenesisKey = k1
  NoKey = NoKey
  Nobody = Nobody
  CheckpointEvery = 2
  GroupCommit = TRUE
  Rotators = {t1}
  Checkpointers = {t1}
  Flushers = {t1}
  MaxBatch = 2
  MaxRecords = 5
  MaxNonce = 7
INVARIANTS
  TypeOK
  CheckpointsExact
  WellSigned
