\* A descriptor held while its slot changes hands, in every setting of the two
\* bypass inputs on every cycle.
SPECIFICATION HSpec
CONSTANTS
  Slots = {s1}
  Frames = {f1}
  Tags = {t1}
  Tenants = {n1}
  GenMax = 2
  RefMax = 2
  RsvMax = 1
  InfMax = 2
  FillMax = 1
  FrameZero = f1
  TenantZero = n1
  CntMax = 0
  NoDesc = NoDesc
  LutCommands <- HistoryCommands
  LutReuses <- AllReuses
  LutModes <- EveryMode
INVARIANT LutTypeOK
 
PROPERTY HandOverIsClean
PROPERTY UsesNeverWrap
