SPECIFICATION Spec
SYMMETRY Exchange
VIEW Answered
CONSTANTS
  a = a
  b = b
  c = c
  s1 = s1
  g1 = g1
  Hosts = {h1, h2}
  Workers = {a, b, c}
  External = {c}
  Slots = {s1}
  Instances = {g1}
  SlotOf <- OneSlot
  InstanceOf <- OneGame
  MaxFaults = 1
  None = None
INVARIANT OneLiveWorker
PROPERTIES OwnedUntilExit AttachedAlone StoppedNotAttached
