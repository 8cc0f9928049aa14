CONSTANTS
  stop = stop  travel = travel  come = come  None = None
  Ops = {stop, come}
  Stops = {stop}
  GroupOps = {come}
  MaxUpsets = 1
SPECIFICATION FairSpec
INVARIANTS TypeOK OneNativeOwner
PROPERTIES ImplementsDuty StopSettles StopTrips HandoffReturned
