\* Three tags over two places: accepts and completions coincide in every way.
\* One of the tags also asks for bursts each gate has to refuse.
SPECIFICATION ReadPathSpec
CONSTANTS
  Slots = {s1}
  Frames = {f1}
  Tenants = {n1}
  GenMax = 1
  RefMax = 1
  RsvMax = 1
  InfMax = 1
  FillMax = 1
  FrameZero = f1
  TenantZero = n1
  BeatBytes = 2
  PageBytes = 4
  MaxWindow = 16
  Tags = {t1, t2, t3}
  CntMax = 3
  MaxOutstanding = 2
  OutMax = 3
  Addrs = {0, 1, 2, 4}
  BurstLens = {0, 1}
  ReadReqs <- ContendingReqs
  Windows <- SixBytes
INVARIANT LiveSetsAgree
INVARIANT OutstandingIsExact
INVARIANT CountersBalance
INVARIANT ArIsLegal
PROPERTY ArIsHeld
PROPERTY CompletionIsRouted
PROPERTY EventsInOrder
