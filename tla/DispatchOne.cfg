CONSTANTS
  w1 = w1  w2 = w2  i1 = i1  i2 = i2  p1 = p1  p2 = p2
  NoInst = NoInst
  NoWorker = NoWorker
  Insts = {i1}
  Workers = {w1}
  WorkerInst <- OneWorker
  Pids = {p1}
  Pid <- OnePid
  Timeout = 2
  Ttl = 2
  Tolerance = 1
  Ahead = 1
  Managed = TRUE
  InspectorFails = FALSE
  MaxTime = 3
  MaxActions = 3
  MaxBeats = 3
SPECIFICATION Spec
INVARIANTS TypeOK AuthorityFresh RevocationBounded PermitWellFormed NeverReplayed
