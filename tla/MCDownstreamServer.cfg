\* Three outstanding transactions; a window of which three fifths serve.
SPECIFICATION ServerSpec
CONSTANTS
  Pages = {}
  Tenants = {}
  NFrames = 1
  NDesc = 1
  NReserved = 0
  NMeta = 2
  GenMod = 1
  QueueDepth = 1
  MaxOutstanding = 3
  BytesPerCycle = 1
  AcceptOverhead = 0
  FixedOverhead = 0
  Quantum = 0
  ReplenishPeriod = 1
  MaxDeficit = 0
  SpecBurst = 0
  SpecRefill = 0
  SpecMaxWait = 0
  CMax = 3
  BFixed = 1
  Refresh = 2
  Window = 5
  Bypass = 0
  MaxBytes = 3
  Gaps = {0, 1, 4}
  Services = {1, 2, 3}
  Jumpers = 2
  LastTxn = 5
INVARIANTS LatencyWithinBound WorstCaseIsAttained
