SPECIFICATION Spec
CONSTANTS
  Ids = {i1, i2, i3, i4}
  NoId = NoId
  Prompts = {p1, p2}
  NoPrompt = NoPrompt
  Clients = {c1}
  Capacity = 2
  TopK = 2
  BatchSize = 2
  Faults <- Refusals
  Limits <- LimitsConsistency
SYMMETRY Symmetry
INVARIANTS
  ComponentsAgree
  SettledWithinCapacity
  CachedPromptHits
