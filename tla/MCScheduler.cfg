SPECIFICATION MCSpec
CONSTANTS
  Slots = {timer, spi}
  SUBSYSTEM_PERIPHERAL_IDX = sub
  Tokens = {1}
  MAX_LIVE_EVENTS_PER_PERIPHERAL = 2
  DEDUP_HASH_PROMOTE_LEN = 3
  MaxCycle = 8
  MaxEvents = 20
  MaxClamps = 1
  peripheral_tick_interval = 2
  ClockedTick = {spi}
  MaxDelay = 1
  MaxRequests = 3
  Horizon = 3
  NoAlarm = none
  CallerCycle = 2
  CallerEvents = 4
INVARIANTS
  IndexMatchesHeap
  NoWakeLost
  LiveMatchesHeap
  StatsNameTheLeak
  WakesOnTime
  NoRequestForgotten
  BootstrapExact
PROPERTY ImplementsWakeQueue
