CONSTANTS
  a = a  b = b
  NoHost = NoHost
  Hosts = {a, b}
  CommandCapacity = 1
  ResultCapacity = 1
  LeaseAge = 0
  Patience = 1
  MaxTime = 3
  MaxCommands = 2
  KindsOf <- ServiceFollows
  MaxClaims = 2
  MaxFaults = 1
SPECIFICATION FairSpec
INVARIANTS TypeOK RingIntact SubmitterOwns AtMostOnce RepliesTrue
PROPERTIES Drained ImplementsCall Fenced
