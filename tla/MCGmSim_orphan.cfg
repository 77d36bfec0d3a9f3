\* A page fetched twice by speculation, its frame promised to a successor.
SPECIFICATION Spec
CONSTANTS
  pA = pA
  pB = pB
  pC = pC
  pX = pX
  t1 = t1
  t2 = t2
  NoObject = NoObject
  Pages = {pA, pB, pC, pX}
  Tenants = {t1, t2}
  NFrames = 1
  NDesc = 4
  NReserved = 1
  NMeta = 3
  GenMod = 4
  QueueDepth = 2
  MaxOutstanding = 2
  BytesPerCycle = 2
  AcceptOverhead = 1
  FixedOverhead = 1
  Quantum = 8
  ReplenishPeriod = 1
  MaxDeficit = 16
  SpecBurst = 4
  SpecRefill = 0
  SpecMaxWait = 4
  CMax = 4
  BFixed = 1
  Refresh = 1
  Window = 32
  Bypass = 0
  MaxBytes = 8
  Requests <- RepeatedSpeculation
  Policies = {"fifo"}
  LastArrival = 8
INVARIANT EventAccounting
