SPECIFICATION FairSpec
CONSTANTS
  Modes = {"walk", "event"}
  Layouts = {"F1", "V2"}
  MaxBits = 3
  EventRules = {"drain", "config", "icpr"}
INVARIANTS SoftwarePendKept
PROPERTIES EntryHasCause RiseReachesNvic AssertedLineServed
