SPECIFICATION FairSpec
CONSTANTS
  p1 = p1
  p2 = p2
  s1 = s1
  Slots = {s1}
  Plugins = {p1, p2}
  NoPlugin = NoPlugin
  SlotOf <- OneSlot
  ModeOf <- Mode
  Admins = {a1}
  NoCaller = NoCaller
  StateBearing = {}
  Faults <- AllFaults
  Limits <- LimitsLifecycle
INVARIANTS
  
  ServedIsTested
  RollbackTargetKept
  

  
