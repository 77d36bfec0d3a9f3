\* A kill in the middle of a checkpoint line, and the resume.
SPECIFICATION ChainSpec
CONSTANTS
  s1 = s1
  s2 = s2
  b1 = b1
  b2 = b2
  Configs <- Staircase
  Loads <- ThreeLoads
  Seeds = {s1, s2}
  Baselines = {b1, b2}
  SeedsMin = 1
  Invocations = {1, 2}
  Versions = {0, 1}
  Tables <- ScoreTables
INVARIANT ResumeRepairs
CHECK_DEADLOCK FALSE
