\* A command and a reuse of the same slot in the same cycle.
SPECIFICATION LutSpec
CONSTANTS
  Slots = {s1}
  Frames = {f1}
  Tags = {t1}
  Tenants = {n1}
  GenMax = 1
  RefMax = 1
  RsvMax = 1
  InfMax = 1
  FillMax = 1
  FrameZero = f1
  TenantZero = n1
  CntMax = 0
  LutCommands <- AllCommands
  LutReuses <- AllReuses
  LutModes <- SafeMode
INVARIANT AckedUpdateIsInTable
