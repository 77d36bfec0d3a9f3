\* Three invocations, one edit of the sources, an audit and a preflight at any
\* moment, and every table of scores behind the gate.
SPECIFICATION ChainSpec
CONSTANTS
  s1 = s1
  s2 = s2
  b1 = b1
  b2 = b2
  Configs <- Staircase
  Loads <- ThreeLoads
  Seeds = {s1, s2}
  Baselines = {b1, b2}
  SeedsMin = 1
  Invocations = {1, 2, 3}
  Versions = {0, 1}
  Tables <- ScoreTables
INVARIANTS EachConfigOnce LossIsBounded ProvenanceKept
  AuditedFileIsFinal  RegionsQualify
CHECK_DEADLOCK FALSE
