\* Reads, bookkeeping and soft resets under a serving slave.
SPECIFICATION FairTopSpec
CONSTANTS
  Slots = {s1}
  Frames = {f1}
  Tenants = {n1}
  Tags = {t1}
  GenMax = 1
  RefMax = 1
  RsvMax = 1
  InfMax = 1
  FillMax = 1
  FrameZero = f1
  TenantZero = n1
  CntMax = 0
  BeatBytes = 2
  PageBytes = 8
  MaxWindow = 16
  MaxOutstanding = 1
  OutMax = 1
  Addrs = {0}
  BurstLens = {0}
  FifoDepth = 2
  SrstHold = 2
  LutCommands <- NoInputs
  LutReuses <- NoInputs
  LutModes <- NoInputs
  HostWrites = {"CTRL", "SCRATCH", "CMD", "CMD_GO"}
  Requests <- ReadsAndAdmit
  ReuseCfgs <- OneReuse
  CtrlValues <- SafeCtrl
  WindowValues <- OneWindow
  StickyKept = {"REQ_DROP"}
 
PROPERTY SoftResetHappens
