CONSTANTS
  stop = stop  travel = travel  come = come  None = None
  Ops = {stop, travel, come}
  Stops = {stop}
  GroupOps = {come}
  MaxUpsets = 0
SPECIFICATION Spec
PROPERTY PositiveCleanupResumes
