SPECIFICATION Spec
CONSTANTS
  Ids = {i1, i2, i3}
  NoId = NoId
  Prompts = {p1, p2, p3}
  NoPrompt = NoPrompt
  Clients = {c1}
  Capacity = 1
  TopK = 1
  BatchSize = 2
  Faults <- NoFaults
  Limits <- LimitsRace
SYMMETRY Symmetry
INVARIANTS
  SettledWithinCapacity
