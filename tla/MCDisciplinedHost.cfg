\* Two reads of one page and an evictor.
SPECIFICATION HostSpec
CONSTANTS
  Slots = {s1}
  Frames = {f1}
  Tenants = {n1}
  Tags = {t1, t2}
  GenMax = 1
  RefMax = 1
  RsvMax = 3
  InfMax = 3
  FillMax = 1
  FrameZero = f1
  TenantZero = n1
  CntMax = 0
  BeatBytes = 2
  PageBytes = 8
  MaxWindow = 16
  MaxOutstanding = 2
  OutMax = 3
  Addrs = {0}
  BurstLens = {0}
  FifoDepth = 2
  SrstHold = 1
  LutCommands <- NoInputs
  LutReuses <- NoInputs
  LutModes <- NoInputs
  HostWrites = {"CTRL", "SCRATCH", "CMD", "CMD_GO", "REUSE_GO"}
  Requests <- PlannedReads
  ReuseCfgs <- OneReuse
  CtrlValues <- Started
  WindowValues <- OneWindow
  StickyKept = {}
INVARIANT ReadsAreCovered
INVARIANT CompletionResolves
INVARIANT NothingLeaks
PROPERTY LifeSpec
PROPERTY NoReuseUnderRead
