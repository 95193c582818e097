SPECIFICATION FairSpec
CONSTANTS
  Modes = {"event"}
  Layouts = {"F1", "V2"}
  MaxBits = 3
  EventRules = {"drain", "icpr"}
PROPERTIES RiseReachesNvic
