CONSTANTS
  r1 = r1  r2 = r2  upgrade = upgrade  navigation = navigation  h1 = h1  h2 = h2
  Requests = {r1, r2}
  NoRequest = NoRequest
  Kinds = {upgrade, navigation}
  Kind <- KindOf
  Navigation = navigation
  Hosts = {h1, h2}
  HostOf <- SessionOf
  MaxLife = 2
SPECIFICATION Spec
INVARIANTS OneOpenSpend AtMostOnce IdleMeansSettled
PROPERTY ReviewStays
