SPECIFICATION FairSpec
CONSTANTS
  Ids = {i1, i2}
  NoId = NoId
  Prompts = {p1, p2}
  NoPrompt = NoPrompt
  Clients = {c1}
  Capacity = 1
  TopK = 1
  BatchSize = 2
  Faults <- AllFaults
  Limits <- LimitsFaults
INVARIANTS
  FlushedStayGone
  IInv
  DeliveredAccounted
PROPERTIES
  QueriesAnswered
  
  EvictionsAreReal
  ImplementsCache
