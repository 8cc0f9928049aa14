CONSTANTS
  s1 = s1  s2 = s2  t1 = t1  w1 = w1  w2 = w2  i1 = i1
  Workers = {w1, w2}
  Dedup <- ReusedDedup
  Work <- ReusedWork
  Ops <- ReusedOps
  StopOps <- ReusedStops
  Insts = {i1}
  WorkerOf <- ReusedWorkerOf
  InstOf <- OneInstance
  MaxRecords = 1
  MaxRevision = 2
  Readers = {}
  Outcomes = {"succeeded"}
SPECIFICATION Spec
PROPERTY ExpirySampledAfterRead
