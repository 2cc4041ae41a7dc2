SPECIFICATION Spec
CONSTANTS
  e1 = e1
  s1 = s1
  v1 = v1
  v2 = v2
  y1 = y1
  d0 = d0
  d1 = d1
  m0 = m0
  m1 = m1
  m2 = m2
  Slots <- AllSlots
  Plugins = {e1}
  NoPlugin = NoPlugin
  SlotOf <- SlotOfPlugin
  Thresholds <- Metrics
  Blocked = Blocked
  NoThreshold = NoThreshold
  Ids = {i1, i2}
  Clients = {c1}
  Spaces = {d0, d1}
  NoSpace = NoSpace
  SpaceOf <- Space
  MetricOf <- Metric
  NoSlot = NoSlot
  Present = {i1}
  Confirmations <- AllChoices
  Faults <- NoFaults
  Limits <- LimitsLateJob
INVARIANTS
  SpacesAgree
