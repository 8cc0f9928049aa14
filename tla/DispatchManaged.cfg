CONSTANTS
  w1 = w1  w2 = w2  i1 = i1  i2 = i2  p1 = p1  p2 = p2
  NoInst = NoInst
  NoWorker = NoWorker
  Insts = {i1}
  Workers = {w1, w2}
  WorkerInst <- SameInstance
  Pids = {p1, p2}
  Pid <- OwnPid
  Timeout = 1
  Ttl = 1
  Tolerance = 1
  Ahead = 0
  Managed = TRUE
  InspectorFails = TRUE
  MaxTime = 1
  MaxActions = 2
  MaxBeats = 2
SYMMETRY Exchange
SPECIFICATION Spec
INVARIANT OneDispatcher
