SPECIFICATION FairSpec
CONSTANTS
  Hz <- Clocks
  PS_PER_SEC = 3
  DataBits = 1
  SampleHalfBits = 5
  OversampleTick = 16
  MaxQuantum = 12
  MinRound = 1
  StepCycles = 4
  BitCycles <- Bits
  StartOff = {1}
  Scripts <- Events
  Delay0 = 1
  Messages <- Texts
  ActBy <- Deadlines
  Readers = {1}
  HaltAt <- Lockups
  Horizon = 24
INVARIANTS NeverLate ActedOnInTime CharsAccounted ReadAsSent
PROPERTIES RoundClockMoves
