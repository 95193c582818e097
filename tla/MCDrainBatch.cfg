SPECIFICATION DrainSpec
CONSTANTS
  Slots = {timer, spi}
  SUBSYSTEM_PERIPHERAL_IDX = sub
  Tokens = {1}
  MAX_LIVE_EVENTS_PER_PERIPHERAL = 2
  DEDUP_HASH_PROMOTE_LEN = 3
  MaxCycle = 9
  MaxEvents = 20
  MaxClamps = 1
  peripheral_tick_interval = 2
  ClockedTick = {spi}
  MaxDelay = 1
  MaxRequests = 3
  Horizon = 4
  NoAlarm = none
INVARIANT ArmedForNowInBatch
