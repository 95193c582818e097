SPECIFICATION Spec
CONSTANTS
  Markers <- MarkerPads
  NetPads <- NetMembers
  Pads = {1, 2}
  PadValues <- Values
  InputPads = {1}
  Setups <- Kinds
  RefPlan <- Arms
  MaxChanges = 3
  LateArm = TRUE
  LOGIC_RING_CAPACITY = 3
  OBSERVER_CAP = 8
  TickInterval = 2
  MaxBatch = 2
  MaxStep = 2
  RunCycles = 3
  MaxCycle = 3
INVARIANTS WorldHearsAll
