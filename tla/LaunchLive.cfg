SPECIFICATION FairSpec
CONSTANTS
  a = a
  b = b
  c = c
  s1 = s1
  g1 = g1
  Hosts = {h1}
  Workers = {a, b}
  External = {}
  Slots = {s1}
  Instances = {g1}
  SlotOf <- OneSlot
  InstanceOf <- OneGame
  MaxFaults = 1
  None = None
PROPERTIES LaunchSettles
