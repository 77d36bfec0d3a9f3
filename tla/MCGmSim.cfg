\* Five fetches of four pages over two frames, under every policy.
SPECIFICATION Spec
CONSTANTS
  pA = pA
  pB = pB
  pC = pC
  pX = pX
  t1 = t1
  t2 = t2
  NoObject = NoObject
  Pages = {pA, pB, pC, pX}
  Tenants = {t1, t2}
  NFrames = 2
  NDesc = 4
  NReserved = 1
  NMeta = 4
  GenMod = 4
  QueueDepth = 2
  MaxOutstanding = 2
  BytesPerCycle = 2
  AcceptOverhead = 1
  FixedOverhead = 1
  Quantum = 3
  ReplenishPeriod = 4
  MaxDeficit = 4
  SpecBurst = 2
  SpecRefill = 1
  SpecMaxWait = 2
  CMax = 2
  BFixed = 1
  Refresh = 1
  Window = 8
  Bypass = 0
  MaxBytes = 4
  Requests <- TwoFramesTrace
  Policies <- PolicyNames
  LastArrival = 4
INVARIANTS SimTypeOK FrameBooks DescriptorsAreCounted
  IssueDeadlineSuffices DebtIsBounded HorizonDrains
