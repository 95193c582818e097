SPECIFICATION FairSpec
CONSTANTS
  N = 3
  Hz <- Clocks
  PS_PER_SEC = 6
  Nets = {1, 2}
  NetNodes <- TwoNetsMembers
  Pull <- TwoNetsPull
  Latency <- TwoNetsLatency
  Exact = {1, 3}
  Sleepers = {2}
  RoundPs = 2
  StepCycles = 1
  Keep = 1
  Drives <- Driven
  MaxInstr <- Lengths
  MaxChanges = 2
  Naps = {1, 9}
  Mortals = {3}
  LastRound = 2
  Targets = {12}
INVARIANTS
  DeliveredOnTime
  WireFollowsDrives
  NoNodeLeftBehind
  RoundClockHonest
PROPERTY RoundClockMoves
