CONSTANTS
  a = a  b = b
  NoHost = NoHost
  Hosts = {a}
  CommandCapacity = 1
  ResultCapacity = 2
  LeaseAge = 1
  Patience = 1
  MaxTime = 4
  MaxCommands = 1
  KindsOf <- AnyKind
  MaxClaims = 1
  MaxFaults = 0
SPECIFICATION Spec
PROPERTY CurrentHostServed
