\* A thread waits for the handle while another rotates the key.
SPECIFICATION Spec
CONSTANTS
  p1 = p1
  p2 = p2
  t1 = t1
  t2 = t2
  t3 = t3
  k1 = k1
  k2 = k2
  Proc = {p1}
  Thread = {t1, t2}
  Host <- HostOne
  Key = {k1, k2}
  GenesisKey = k1
  NoKey = NoKey
  Nobody = Nobody
  CheckpointEvery = 2
  GroupCommit = FALSE
  Rotators = {t2}
  Checkpointers = {}
  Flushers = {}
  MaxBatch = 1
  MaxRecords = 4
  MaxNonce = 6
INVARIANTS
  WellSigned
