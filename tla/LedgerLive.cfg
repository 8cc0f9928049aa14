CONSTANTS
  s1 = s1  s2 = s2  t1 = t1  w1 = w1  w2 = w2  i1 = i1
  Workers = {w1, w2}
  Dedup <- MixedDedup
  Work <- MixedWork
  Ops <- MixedOps
  StopOps <- MixedStops
  Insts = {i1}
  WorkerOf <- MixedWorkerOf
  InstOf <- OneInstance
  MaxRecords = 1
  MaxRevision = 1
  Readers = {w1}
  Outcomes = {"succeeded"}
SPECIFICATION FairSpec
INVARIANTS TypeOK InboxBounded
PROPERTIES HotReadSound StopLatched
