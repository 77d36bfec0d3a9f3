\* A serving slave: dispatched reads complete.
SPECIFICATION FairReadPathSpec
CONSTANTS
  Slots = {s1}
  Frames = {f1}
  Tenants = {n1}
  GenMax = 1
  RefMax = 1
  RsvMax = 1
  InfMax = 1
  FillMax = 1
  FrameZero = f1
  TenantZero = n1
  BeatBytes = 2
  PageBytes = 8
  MaxWindow = 16
  Tags = {t1, t2}
  CntMax = 0
  MaxOutstanding = 2
  OutMax = 3
  Addrs = {0}
  BurstLens = {0, 1}
  ReadReqs <- GoodReqs
  Windows <- WholePage
PROPERTY DispatchedCompletes
